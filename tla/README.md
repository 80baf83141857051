# Verification of WanderMind in TLA+

WanderMind is a Python service (`backend/src/wandermind`) that "wanders" over a
knowledge base: a *wander session* walks pairs of knowledge items, generates and
scores candidates through an agent runtime, and surfaces the good ones as
*wonders*. Everything runs in one asyncio process; all durable state is in a SQL
database reached through repositories that return **detached copies** of rows and
write **whole rows** back (`repositories/sqlalchemy.py`). Most of what is hard
in this code follows from that: a value read before an `await` may be stale when
it is written after it.

## Inventory

| component | state it keeps | operations | talks to | hard behaviour | what makes it correct |
|---|---|---|---|---|---|
| `WanderCoordinator` (`application/wander_coordinator.py`) | `_tasks`, the run slots, `_shutting_down` | create, submit, stop, recover, shutdown, `_execute` | engine, session rows; called by the API and the supervisor | cancellation at any `await`, stop against a run that is just finishing, double stop, restart | one run per session, slots returned, a stopped session stays stopped, every session settles |
| `WanderEngine` (`cognitive/engine.py`) + `CognitiveStateMachine` | the run's copy of the session, its counters, the machine | `run`, `_stop`, `_complete`, `_transition`, `_record`, `_cancel_requested` | session, candidate, wonder, seed rows; synthesizer, reviewer | crash between two checkpoints and resume, budgets across restarts | budgets respected, every transition legal, no pair explored twice, wonders only from reviewed candidates |
| `AutopilotSupervisor` (`application/autopilot_service.py`) | the campaign row, `_lock`, `_task` | start, tick, start_or_resume, pause, stop, update_objective, `_start_cycle`, `_finalize_cycle`, `_promote_wonders`, `_reconcile_generated_knowledge`, `_record_loop_error` | coordinator, ingestion, knowledge graph, all repositories | whole-row writes outside the lock, crash between the writes of one operation, numeric back-off | one current session, counters agree with the cycles, control is not undone, progress |
| `AutopilotSeedPlanner` (same file) | none: counts the seeds stored | plan | seeds, items | items that come and go, cycles that are lost | no pair starves |
| `AutopilotQualityGate` (`application/autopilot_quality.py`) | none | evaluate | scores, review, wonder | many weighted scores, several ways to the surface | stricter than every way to the surface |
| `ServiceGuardian` (`application/service_guardian.py`) | worker and keepalive failure counters | start, run_once, shutdown | `ensure_running` of the supervisor | restart of a dead worker against other control calls | the worker comes back |
| candidate synthesizer and reviewer (`application/candidate_runtime_service.py`), `run_with_retry` (`runtime/base.py`), `TrackedRuntimeAdapter` (`infrastructure/tracked_runtime.py`) | runtime-session rows | synthesize, review, retry, close | runtime adapter | retries, one of several calls failing, claims filtered by reference | calls counted, sessions closed, unsupported reviews rejected |
| `JsonRpcProcess`, `CodexRuntimeAdapter` (`runtime/codex_app_server.py`) | pending futures, the notification queue, active turns | start, call, notify, close, run_task, interrupt, close_session | child process | timeout against late answer, one queue shared by concurrent turns, process exit | every call ends, no turn is left running unminded |
| deep evaluation (`explore_service.py`), merged by `api/wonders.py` | wonder rows | explore, collect, critique, `_merge_evaluation` | runtime, repositories | a row read before three agent calls and written after | evidence only from known sources, doubt is not lost |
| feedback (`wonder_service.py`) | wonder and feedback rows | submit | repositories | two writes, two users | status and history agree |
| incubation, re-wonder, scheduler (`incubation_service.py`) | seeds, wonders | run | engine | run in the request or the scheduler, outside the coordinator | lineage is complete |
| deletion (`deletion_service.py`) | all rows | delete_* | repositories | several statements, no transaction | no dangling reference, nothing kept by a stale copy |
| progress stream (`api/wander.py`) and web client (`frontend/src`) | cursor of the client | stream, reconnect | session rows | reconnect with a cursor while the trace changes | every step delivered |
| scoring, association, operators, patches, retrieval, seed selection (`cognitive/*`, `cognitive/operators/selector.py`) | none | pure algorithms | - | weights and limits that compensate each other, order of pairs | guards hold on every way, every pair looked at once |
| ingestion (`cognitive/ingestion.py`) | item rows | ingest | items | check for duplicates, then store | duplicates bounded |
| repositories, ORM, migrations, API routes, config, observability, security, models | rows | CRUD | - | copy semantics | - |

Out of the scope of any model, for good: the SQL of the repositories, HTTP
routing, configuration, logging, how a feature is found in a text, and the views of
the web client. `PROJECT.json` lists every component with its status and
every hazard with the line where it bites.

## Modules

| module | what it is | source |
|---|---|---|
| `WanderSessions` | sessions, coordinator tasks, inline runs, callers of stop and delete, the poll, restarts | `wander_coordinator.py`, the control skeleton of `engine.py`, `api/wander.py` |
| `SessionContract` | what a session promises while nobody stops it | abstract; implemented by `WanderSessions` |
| `WanderSessions_proofs` | the theorems on `WanderSessions` and `ProgressStream`: one execution per session, run slots, who owns a session and may write its row, what a page is sent, the steps of `SessionContract` | - |
| `ProgressStream` | the stream of a session and the page that follows it, composed with `WanderSessions` | `api/wander.py`, `frontend/src` |
| `WanderEngine` | one session through its runs: loop, budgets, state machine, rows, crash and resume | `engine.py`, `state_machine.py`, `run_with_retry` |
| `WanderEngine_proofs` | the theorems about `WanderEngine` | - |
| `Autopilot` | the campaign row and everybody who writes it | `autopilot_service.py`, `service_guardian.py` |
| `Autopilot_proofs`, `AutopilotProperties_proofs` | what every writer of the campaign row may rely on; the theorems about `Autopilot` that rest on it | - |
| `CampaignContract` | what the campaign row promises a reader | abstract; implemented by `Autopilot` |
| `CodexRuntime` | agent calls that share one app-server process: sessions, retries, turns, timeouts, exit | `codex_app_server.py`, `tracked_runtime.py`, `runtime/base.py`, `candidate_runtime_service.py`, `explore_service.py` |
| `CodexRuntime_proofs` | the theorems about `CodexRuntime` | - |
| `Library` | the rows that request handlers share: items, edges, a seed, wonders, feedback | `wonder_service.py`, `deletion_service.py`, `incubation_service.py`, `ingestion.py`, `api/wonders.py`, `sqlalchemy.py` |
| `Library_proofs` | the theorems about `Library` | - |
| `Judgement` | association, score, review, revision, surface, deep exploration and quality gate of one candidate | `scoring.py`, `engine.py`, `candidate_runtime_service.py`, `explore_service.py`, `autopilot_quality.py` |
| `Judgement_proofs` | the theorems about `Judgement` | - |
| `Selection` | which pair and which operator come next: planner, incubator, seed selector, retrieval, patches, operators | `autopilot_service.py`, `incubation_service.py`, `engine.py`, `cognitive/*` |
| `Selection_proofs` | the theorems about `Selection` | - |
| `MCEngine`, `MCStream`, `MCLibrary`, `MCJudgement`, `MCSelection` | the values, symmetries and the constraint of the instances TLC checks | - |

The modules meet at the session. `Autopilot` and the engine's loop see of the
coordinator only what `WanderSessions` is shown to implement: a session opens,
progresses, settles. `WanderSessions` sees of the engine only its awaits, its
writes and its three ways to end; `WanderEngine` sees of the others only that a
run may be interrupted between two awaits and started again from the row. What a
runtime call returns is a free choice in `WanderEngine`; `CodexRuntime` says how
it ends, `Judgement` what may follow from it. The pairs `WanderEngine` takes in
any order are ordered by `Selection`. `Library` sees of a run only its writes to
shared rows.

### How state and actions correspond to the code

Coroutines switch only at `await`, so **one action is the code between two
awaits**, and every process has a `pc` naming the await it is suspended in. A
repository hands out a detached copy, so what a coroutine has read is a field
`copy` of its record, and a write replaces the whole row by that copy.

*WanderSessions.* `row[s]` is the session row: status, the `cancel_requested`
flag, the number of recorded steps. `run[<<s, k>>]` is an execution of `s`: a
task of the coordinator (`by = "task"`) or `engine.run` called by a request or
the incubation scheduler (`"inline"`). Two per session suffice to see a second one
appear; one that has ended is reused. `tasks` is `_tasks`, `free` the semaphore.
`cancelling` is a cancellation that asyncio delivers at the next await
(`Deliver`). `stop[p]` is a request inside `stop()`, possibly on its way to
`delete_session`. `mode` and `todo` are the life of the process and `recover()`.
`Error(r)` is an exception at any await, `StopError` one in `stop()`.

*ProgressStream.* `page[s]` is what the page that follows `s` knows: the index it
asks from and whether it was told the session is over. `Send` is one round of the generator,
`Break` a connection that is lost in the middle of one, `GiveUp` a page that starts again.
A page that is not connected is one to which nothing is sent for a while. `rewound`
records the sessions whose trace a `stop()` has shortened. Its page has no effect on the
session, so every step of `WanderSessions` is a step of the composition.

*Autopilot.* `camp` is the campaign row, `sess`, `wonder` and `knowledge` are the
rows of a cycle: a cycle's session and the at most one wonder we follow. `proc`
holds the worker and the callers of resume, pause and objective, `lock`
the asyncio lock; `guard` is `start()`, run at boot and by the guardian. `Save`
refuses a campaign that names a deleted session, as the foreign key does. A session may
have several wonders, which the same code promotes one after another; the model follows
one of them.

*WanderEngine.* `row` and `m` are the durable and the in-memory copy of the
session; `m.noted` is what the copy says of runtime calls, which lags behind the
counter. `cand`, `rows` and `wonder` are the candidate and wonder rows of each
pair. Scores, verdicts, bridges, elapsed time and stop requests are
nondeterministic choices. Awaits that leave nothing for this module between them (the
seed's row, a knowledge item's embedding, a row written again unchanged) belong to
the action they precede. `spent` counts the turns the runtime was really
asked for, retries included; no code keeps that number.

*CodexRuntime.* `agent[a]` is one call of a service: open a session, run one task
with retries, close the session. `reply` is the state of the future it waits on,
`saw` a history of what went wrong with it. `pending` and `active` are the tables of the client,
`queue` its one queue of notifications. The server is external: `sent` are the
requests it has not answered, `turns` what it runs; `Answer` and `Notify` let it
answer and notify in any order. `alive`, `readers` and `proc` tell the
process that runs from the one whose output somebody reads and the one the client
knows: two calls that start at once spawn two. `SpawnFails` is an executable that cannot be
started. `Garble` is a line the reader cannot take - over 64 KiB, not UTF-8, JSON that is no
object -, which ends it; the answer `"odd"` is a thread or a turn without its id, and a
turn that ends `"odd"` has a status the adapter does not know. `CallTimeout` and
`TurnTimeout` are the deadlines of a call and of a turn; they come freely when the
answer cannot come any more, and count as `slow` when it still would.

*Library.* Every repository method is one transaction, hence one step, and a
handler is a sequence of such steps with copies in between. An existence check
that only leads to an earlier 404 is merged with the read that follows it. There is
one seed, an edge is its pair of items, and the cascade of a session is left to
`WanderSessions`. A wonder keeps the fields its writers disagree about: status,
feedback shown, parent, child. `acked`, `unwanted`, `unsaid` and `raced` are histories:
what users were told or asked for, and which wonders a stale copy has overwritten. The
autopilot is one more writer of wonders (`Assess`, `Pronounce`): whenever it finalizes a cycle or
starts, it writes back the copies it has read, and `held` remembers that it refused one after its
status was set by feedback. It takes its wonders one at a time here; the code reads those of a cycle
together and writes them one after another, which the copies of two callers in any order stand for.

*Judgement.* One candidate, its pair of items and its wonder. Texts are the
features scoring looks for, as Booleans and numbers. Scores are integers in units of 0.0001 and distances multiples
of 0.13, so all sums are exact; the thresholds are those of the default configuration. `stage` is how
far the engine has come; `shown` says whether the text users see makes an absolute claim, which
may be another text than the one scored. `wonder` is the row, and everybody who works on it has a copy in
`hand`: `Explore` and `Merge` are the two ends of a deep exploration, `Inspect`, `Promote`, `Register` and
`WriteBack` the gate's, `Reassess`, `Audit` and `WriteBack` those of the reconciliation at every start. Between
the ends anything may happen: another exploration, `DeleteWonder`, `Delete` of a source, or an exception (`GiveUp`).
`raced` is a history: a copy was written over a row that had changed since it was read.

*Selection.* Items are numbers in the order of their creation, which is all that
rankings by age look at. `attempts` counts the seeds stored, `cycles` is the campaign's
counter, `open` the seeds left active, `run` the engine run with its queue of
pairs. Runs come one at a time. A tie the code decides by the random ids of the items goes to
the oldest pair. A re-wonder is a run of a user's seed here. Since a run
works on copies, items change between runs.

## What the runs check

| run | instance | question |
|---|---|---|
| `sessions_stop` | 2 sessions, 1 slot, 1 caller of stop/delete, failing database calls in its own `stop()` | slots, and liveness: every session settles, every stop returns and is final |
| `sessions_restart` | 1 session, its page, 2 callers, a restart or a database failure | who owns an open row, who may write a stopped one, which write may rewind, how a session goes on after its stops, what a page is sent |
| `sessions_contract` | 1 inline and 1 polled session, 2 restarts, no stop | one execution per session; implements `SessionContract` with its fairness |
| `autopilot_control` | worker, 2 callers, a crash | a pause leaves nothing running and is kept; implements `CampaignContract` |
| `autopilot_recovery` | worker, 1 caller, two of {failing call, crash, deletion}, back-offs that do not overflow before six failures | cycles are not doubled, promotion is complete and counted, every settled cycle is finalized |
| `engine_resume` | 3 pairs, 3 budgets, retries, a failing call, a crash | budgets, pairs, wonders, state machine across a resume |
| `runtime_calls` | 2 agent calls, 1 retry, texts in two pieces, one of {error, malformed answer, unreadable line, failed spawn, exit, hang, cancellation, slow answer} | every call ends, no turn is left running or uncounted, no session open, what can stop the reader |
| `library` | 4 requests of 2 callers, the autopilot's verdicts among them, 2 texts, 3 wonders, one failing repository call | feedback, lineage, references and duplicates under every interleaving |
| `judgement` | pairs, seeds, texts and reviews at the limits; 2 explorations, the gate and the reassessment overlap on one wonder | what a wonder and what generated knowledge has gone through, when knowledge is withdrawn |
| `selection` | 4 items, 4 runs, a crash between any two steps | no pair is neglected or looked at twice, no operator repeated early |
| `sessions_inline_stop` | 1 inline session, 1 caller | *violated*: a stopped inline run overwrites its row |
| `runtime_exit` | 2 agent calls, one exit | *violated*: a runtime failure ends the whole run |

The properties, in the words of the code:

- `OneRunPerSession`, `SlotsBalanced`: `submit` and `_discard` never let two tasks
  run one session, and the semaphore is neither leaked nor over-released.
- `OpenIsOwned`: while the process is up an open row has a live execution or a
  `stop()` that will mark it. It is limited to runs without a database failure
  in the handlers of `_execute`: after one the code does leave an orphan that only a
  restart picks up.
- `StoppedIsQuiet`, `StopIsFinal`, `StopReturns`: `stop()` cancels, waits, marks;
  nothing of the cancelled task writes afterwards; and the waiting ends. The first, like
  `OnlyStopRewinds` and `Delivered`, is about `Stoppable` sessions: neither inline, which have no
  task to cancel, nor polled by the autopilot, which may submit them again meanwhile (below).
- `OnlyStopRewinds`: `stop()` writes the row it read before, so it **can** reopen a
  session that has just completed or lose steps recorded meanwhile (its caller
  then marks it stopped). The property says that this is the only way, and that it is over when
  the call has returned: whatever a stop has left - a row rewound, a flag of a call that failed
  half-way, a task cancelled twice - from then on, and before, each step of a `Stoppable` session
  is one `SessionContract` allows. Without callers that holds of inline and polled sessions too.
- `Delivered`: a page that was told its session is over has been sent every step,
  however connections break and runs are resumed - except when a stop has rewound the
  trace. Then the page, whose index is ahead, is never sent the new steps.
- `EventuallySettled`: every open session ends.
- `PausedIsIdle`, `PauseIsKept`: `pause` finalizes the current cycle before it releases the lock,
  whatever the worker was about to do; and only `resume` makes it active again. The first is
  limited to executions without faults, crashes and deletions, the second to those without
  faults and deletions, both to back-offs that the next failure does not overflow: an
  exception in a tick makes the error handler write back, without the lock, a row it read before.
- `NoExtraCycles`: more than one open session is the price of what was lost, never of the
  normal course. A fault may cost two, one created by `coordinator.create` and not saved, one
  whose campaign row the error handler overwrites with an older one; a crash or a deletion costs one.
- `PromotedIsLinked`, `CountsNear`: a repeated finalization neither leaves a
  promoted item without its edges nor counts it twice; a crash loses the count of at
  most one cycle.
- `CyclesEnd`: the worker gets every settled cycle finalized, also after exceptions of its own, of
  the error handler and after failed cycles; only a campaign whose next failure overflows the back-off
  is excluded, and a cycle whose session was deleted.
- `PairOnce`, `BudgetsKept`, `CallsBounded`, `WondersEarned`, `FinalsComplete`: what
  the engine guarantees for a *session*, however
  many runs it takes. `CallsBounded` is weaker than `max_runtime_calls`: a retried call
  counts once, and a crash forgets the call in flight; the property says
  by how much. `BudgetsKept` likewise grants an interrupted run one more wonder,
  because a resumed run looks at `stop_on_first_wonder` only after the next one.
- `FailsForCause` (engine): no sequence of outcomes asks for a transition the table of
  `state_machine.py` forbids.
- `CallsEnd`: every agent call ends, though its notifications were taken by
  another turn, its process is gone or nobody reads its output.
- `ReaderSurvives`: the task that reads the output survives late answers, errors, malformed answers and the end of
  a process that was replaced. While its process runs it ends only at a line it cannot take, or after a wait was
  cut short from outside, when the answer meets a cancelled future.
- `TurnsMinded`, `TurnsAccounted`, `SessionsClosed`: as long as no call failed, no
  second turn runs on a thread and none is left behind; the runtime-session row counts
  every turn the server began; a session without trouble is closed and archived.
- `DuplicatesBounded`: looking for a duplicate and storing are two steps, so a
  text may be stored as often as requests can be in progress, and not more often.
- `FeedbackKept`, `StatusFollowsFeedback`: what a user was told is recorded stays
  recorded; the wonder shows it and has the status that follows, unless a stale
  copy was written over it, which is possible in deep exploration, re-wonder, feedback itself and the
  autopilot. Without any stale copy the autopilot takes the status back too: a wonder it refuses is set to
  incubate, at the end of its cycle and at every start, whatever a user said of it.
- `Lineage`, `FailsForCause` (library): a superseded wonder and its successor point to each
  other; an internal error has a concurrent deletion or a database fault as its cause.
- `Grounded`, `GuardsHold`: with a reviewer a wonder rests on two different original
  sources its review cites; an absurd seed, an answered question, a repeated
  text, an absolute claim with fewer than three questions and a rejected review never surface - in the text that
  was scored. That is the text users see unless a review passed: the explanation of such a review takes the place of
  the scored one, and may make the absolute claim nobody has scored (below).
- `KnowledgeEarned`: the quality gate is stricter than every way to the surface, and
  accepts nothing whose exploration ended in doubt - unless the doubt has been lost to a copy
  written over it, or was stored after the gate had read the wonder. Both happen in the code.
- `KnowledgeStable`: knowledge is withdrawn only after a deep exploration, the loss of a source or
  the deletion of its wonder, and does not come back unless the gate was still writing the item it had
  created. Confidence never exceeds that of the surfaced wonder, and grows only by a stale copy.
- `PairsEven`: pairs present from the start are tried equally often, give or take one,
  although cycles are lost and items come and go. `RunVaried`: a run looks at every pair
  once, at the planned one first, and repeats no operator before all were used.

### Divergences from the documentation

Each is a run of its own that TLC finds violated; `PROJECT.json` quotes the line.

1. `sessions_inline_stop` - stop is documented to set a persistent mark *and*
   cancel the task. A run inside a request has no task, and looks for the mark only
   between two candidates: it overwrites the row, mark included, with its next step.
2. `runtime_exit` - a runtime failure is documented to keep the deterministic draft. When the
   app-server has exited, the write raises `ConnectionResetError`, which is no
   `RuntimeErrorBase`: no service degrades it, and since `client.process` is
   never reset every later call meets it too (`codex_app_server.py:117`).

Smaller ones the models show along the way, which the properties above
are stated around:

- *Sessions.* A poll that has read its session as open (`autopilot_service.py:337`) submits it again when the
  cancelled task has ended and `stop()` has not marked the row yet; the new task then
  writes over the stopped row. It takes a task that did not mark the row itself: one cancelled before its
  first step, or twice.
- *Campaign.* `_record_loop_error` (`autopilot_service.py:619`) reads the campaign and
  writes it back without the lock, so a pause in between is lost. The back-off
  `2**n * 5.0` (`:407`) overflows from 1024 consecutive failures on, before it is limited, and the
  cycle is then finalized in vain forever. After a crash between `wonders.update` and the
  save of the campaign a promotion is never counted.
- *Runtime.* Two first calls at once spawn two processes (`codex_app_server.py:42`). Notifications of
  another turn are dropped (`:286`), so that turn waits for its timeout. An interrupt
  leaves the turn in `active_turns`; closing the session then interrupts again, and a
  refusal leaves the thread unarchived. `turn/start` that times out may leave a turn
  running while the retry starts a second one. The explorer, the evidence collector and the critic open
  their session outside their `try`. A line the reader cannot take (`:121-126`) ends it without a word to the calls
  it should have answered, and no later call gets an answer.
- *Rows.* Completing a run whose knowledge item was deleted fails after the wonder was saved (`engine.py:788`). A
  deletion's stale copy gives a used seed back (`deletion_service.py:18`). A seed left active by an
  unfinished stop is taken over by the next request without a seed (`api/wander.py:229`), also one of the
  autopilot or the incubator. Incubation may try the same pair forever and picks rejected items too
  (`incubation_service.py:63`).
- *Judgement.* Three questions let an absolute claim surface, seven let it become knowledge
  (`scoring.py:157`). The explanation of a review that passed
  takes the place of the scored one (`engine.py:579`), so an absolute claim with fewer than three questions can be
  shown, though `TASKS.md:45` keeps hallucination risk from being shown. Two
  overlapping explorations, or one and the autopilot, write whole rows over each other (`api/wonders.py:63`, `:85`,
  `autopilot_service.py:388`, `:499`): a doubt and the confidence it has lowered are lost. A wonder that a user has
  saved incubates again when the autopilot refuses it (`autopilot_service.py:445`, `:587`). Two items
  with one `source_ref` are never approved. A deep exploration may replace the evidence
  of promoted knowledge by less, which retracts it.

### Bounds, and why they are enough

- *Sessions, callers, slots.* A session touches another only through the
  semaphore: two sessions and one slot show every contention. A session is
  cancelled at most once per caller; two callers give the second cancellation.
- `MaxWork` bounds recorded steps. A run at the bound closes, which it may do
  anyway; one step suffices to tell a row with steps from one without.
- `MaxRestarts`, `MaxCrashes`, `MaxFaults`, `MaxDeletes`, `MaxErrors`, `MaxExits`, `MaxCancels`, `MaxSlow` bound what
  happens from outside; `MaxTroubles` bounds their sum in `Autopilot` and in `CodexRuntime`,
  and the constraint `OneTrouble` that of restarts and database failures in `sessions_restart`. Two restarts
  cover a restart during the recovery of an earlier one.
- `Cycles` are session ids: with two the second cycle shows what the end of the first
  has left behind. When they are used up the worker goes on ticking.
- `OverflowAt` stands for 1024, and counters saturate there: all
  larger values behave alike. It is 2 in `autopilot_control`, so that a second failed cycle is
  already beyond it. It is 6 in `autopilot_recovery`, so that `CyclesEnd` speaks of cycles after one, two
  and more recorded failures, of the worker's own exception and of failed cycles alike.
- Engine: three pairs, so that a budget can cut the list off before, at and after its
  end. `MCBudgets` has a budget that ends with its first wonder, one that
  compares all pairs and one that cannot pay a review.
- Runtime: two calls show every mix-up of threads, futures and notifications, since both
  tables are indexed by call and thread. `Deltas` is the number of pieces before the end of a turn:
  one puts a piece of one turn between those of another, two let a text lose one of its pieces.
- Library: two callers give every race of two handlers; four requests give a race
  with a prepared state behind it (a wonder, its child, its feedback). Callers and texts are
  symmetric. Liveness is not checked there.
- Judgement: the sets of `MCJudgement` hold values at and just beyond the limits of
  scoring, review policy and gate. There is no loop: a longer life of one wonder repeats
  explorations, gate and reassessment. Two `Requests` overlap in every way with each other and with the two
  of the autopilot. The constraint `Followed` goes on from a surfaced wonder only with pairs, texts and reviews on either
  side of what the gate accepts and a budget that pays for all agents: which wonders surface is checked for all. Requests are symmetric.
- Selection: four items give six pairs, of which three are there from the start; four runs let
  each of those be tried and one again. The pairs of the first run are followed one by one
  (`MaxLooked`), later runs only plan; a run remembers nothing of earlier ones but seeds and wonders.

Deadlock is checked in every run but `engine_resume`, `judgement` and `selection`, where the
session, the candidate or the runs allowed come to their end. `CodexRuntime` and `Library` have an action
`Terminated` for the state in which all work is done, so a deadlock before it is found.

### Fairness

asyncio runs every ready callback and the database answers, so a started coroutine
proceeds: weak fairness per execution, per call, per worker (`RunStep`,
`StopStep`, `Step`). `Discard` is a done-callback. The process is restarted by its
platform and `recover()` is part of its startup (`Lifecycle`). `asyncio.Lock`
serves waiters in order of arrival; an order of arrival is not in the state, and
strong fairness of `Take` is what it amounts to. The guardian's loop is forever
(`StartGet` ...). `Settle` is the fairness of `SessionContract`, which
`sessions_contract` checks. In `CodexRuntime` time passes, so a deadline comes (`Step`), and a
server that neither exits nor hangs answers at last (`Serve`); that one of the two goes on is enough, since neither goes on forever; `Begin`, `Exit`, `Hang` and `Cancel`
are not fair. Nothing is assumed of users, polls, pages, faults, crashes or of
a run choosing to explore further; `Later` (the cycle is not due) is not fair either,
since time passes. `Library`, `Judgement` and `Selection` state no fairness and check safety only.

## Proofs

`WanderSessions_proofs` proves, for all constants that satisfy
`ConstantsAssumption` (any sets of sessions and callers, any number of slots, any
bounds):

- `Invariant`: `Spec => []IInv`;
- `TypeCorrect`: `Spec => []TypeOK`;
- `ExecutedOnce`: `Spec => []OneRunPerSession`.

`OneRunPerSession` is not inductive. That `submit` starts nothing while something
runs needs `Registered` (a live task is the one in `_tasks`); an inline run is in no
`_tasks`, so `InlineAlone` says that nothing else starts its session while it lives:
not the poll, which only sees `Polled` sessions (`PollsPolled`), not `recover()`, which
runs before the API is served, and not `create`, because a session is created once. The last
needs `Born` (without a row there is no execution, task or poll) and `Copied` (no
whole-row write can carry a row that was never created). `IInv` is their
conjunction; TLC was asked first whether it holds. The proof goes action by
action; what all steps of an execution have in common is stated once (`Advanced`,
`Kept`) and each action is shown to be of that form.

The same module builds on that invariant and proves `SlotsStayBalanced`, `Spec =>
[]SlotsBalanced`, under the same assumptions. Two facts are added to `IInv`: `Queued`
(only tasks wait for a slot, so that taking one makes its taker a holder) and `Balanced`
(the executions that hold a slot are finitely many and add up with `free`). `Accounted`
says what a step of one execution may do to the account - nothing, take one, return
one - and `AccountKeeps` that such a step preserves both; `Untouched` is the form of the steps
that touch no slot, and a crash or the end of the process clears the whole account.

Then, under the same assumptions and with any number of
faults, come `SessionsOwned`, `StoppedQuiet`, the first half of `RewindsAreStops` (`NextRewinds`) and, for the composition
with the stream, `StreamDelivers`. Each speaks of a moment whose reason lies steps back, so `OInv`
(`OwnedInvariant`) adds to `IInv` what links them. For the owner: `Served` (a stop waits only for a
live execution), `Cancelled` (who is being cancelled is waited for, or the process stops), `Fresh` and `Tasked`
(what a new process and `_tasks` know), `Minded` (without an execution in charge an open row is about to be
recovered or marked). For the writer: `Opened` (the copies of a run before its last write are open), `Quieted` and
`Settled` (a stop that is about to mark, and a final row, have no writer beside them). For the
rewinding: `Followed`, how the steps in the copies of runs and stops compare with those of the row
once a stop has raised its flag. `Ran` says what a step of an execution may do and `Called` what a step of a
stop or delete may do; each action is shown to be of one of the forms, and the forms to keep
`OInv`. The stream adds `Followers`: a page is never ahead of the row (`Seen`), and a copy that
may be written over a final row has no more steps than it, so that such a write adds none the page misses (`Bounded`). TLC checked these invariants first, on one session with two
callers, a restart and a fault, as a task, inline and polled.

Last comes the step simulation of `SessionContract`. `NextContract` is the second
half of `RewindsAreStops`: while nobody has a session in hand its steps are those of the contract. From it follows
`UnstoppedImplements`: with `Stoppers = {}`, the setting of
`sessions_contract`, the initial states and the steps of `WanderSessions` are those of the contract. A
step within the contract starts from the copy of its writer, so what is needed is `Exact`: the row
of an execution that will write it is open and has its copy's steps - unless it is being
cancelled, or a stop has raised its flag and not cancelled yet (`Flagged`), the one moment in which
the row may be behind or ahead of the run. `Marking` (a task marks its row only for a stop that waits for
it) leaves that write to sessions in somebody's hands, `Running` says what status a run's copy has after
its first write. `Minute` is `Ran` with what each write records. TLC checked the three on the instances
of `sessions_restart` and `sessions_contract` first.

`WanderEngine_proofs` proves all six invariants of `engine_resume` for any pairs,
any budgets with `least <= candidates` (which `WanderBudget` validates), with or
without synthesizer and reviewer, for any number of crashes, retries and errors:
`PairsOnce`, `BudgetsAreKept`, `CallsAreBounded`, `WondersAreEarned`,
`FinalsAreComplete`, `FailuresHaveCause`. They speak of rows, while what a step does
depends on the copy in memory, so none of them is inductive. `Inv` says how the two agree at each
place of the run: `Machine` (the state machine is where the run is, so no
transition is refused), `Cands` and `Wonders` (a live run knows of every candidate and
every wonder stored, but for the one action between a wonder's row and its
remembrance), `Reviews` (the review a candidate shows is the one the run decides by),
`Calls` (the row is at most one call behind, so that a crash loses no more), `Turned`
(the turns asked for, in terms of those calls), `Firsts`, `Moves`, `Ends`. Nineteen actions only
move the run on; `Quiet` says what they have in common, `QuietSteps` that they are of
that form and `QuietKeeps` that the form keeps `Inv`. The others have a lemma each.

`Judgement_proofs` proves the four properties of `judgement` for all constants that
satisfy its `ConstantsAssumption` - any pairs, seeds, texts, reviews, evaluations and
budgets of the declared types, so for every combination of scores and not only those
TLC tries: `WondersGrounded`, `GuardsAlwaysHold`, `KnowledgeIsEarned`,
`KnowledgeIsStable`; for the last two also any number of explorations that overlap each other, the gate
and the reassessment. The invariant `Inv` remembers along the stages what the last one
needs: `Order` (nothing of a later stage has happened), `Backed` (a review that is no
rejection cites both items), `Decided` (the decision is that of the present text,
though a revision replaces it), `Earned` (the conditions to surface go on to hold). Since
any copy may become the row, what is said of the row is said of every copy too: `Rows` (each comes
from the wonder that surfaced and is no more confident), `Kept` (before the first exploration
each agrees with the row in what the gate looks at), `Stored` (a copy whose item is being
written was accepted). `Doubted` ties a doubt to a low confidence while nothing was written over it, `Unquestioned` and
`Withdrawn` say why knowledge is active, and why it was withdrawn or is about to be.
The weighted sums are dealt with by lemmas on what a limit excludes:
`RedundancyMeans`, `ArbitrarinessMeans` and `RiskMeans` say which answered
questions, absurd seeds and absolute claims cannot stay below it, `HighScores` what
a high total requires, `SanitizedMeans` and `MergedMeans` what is left of a
review and of the evidence of a deep exploration.

`Autopilot_proofs` proves for any cycles, callers, faults, crashes and deletions what
every writer of the campaign row may rely on. `Basic` (`BasicAlways`) holds in every
state: `Exclusive` (who reads or writes in an operation holds the lock), `Alone`
(`start()` runs while the worker is dead, and before the API is served nothing else
writes), `Placed` (what a process knows of sessions and knowledge where it
is), `Rows` (nothing produced is ahead of its session). `PromotionsLinked` follows. `Calm`
(`CalmAlways`) is what the lock is for: the row its holder has read is the row stored. For the
callers that is true only until a tick has raised an exception, because the error handler
and `start()` write without the lock; for the worker it stays true unless its session is gone.
`Stuck` is the exception that repeats itself, a failed cycle whose back-off overflows.

`AutopilotProperties_proofs` adds one invariant per property: `Paused` (open sessions
belong to the campaign, and who is pausing has yet to finalize) for `PausesComplete`; `Ruled`, the
ways a step may change the row while nothing has failed, for `PausesKept` and for
`CampaignImplements`, the step simulation of `CampaignContract`; `Counted` and `Near`
(what the row does not say yet of promotions is in the copy of the holder of the lock, or
was lost in a crash) for `CountsStayNear`; `Extra` (whoever is about to make the row
forget a session has room for one more) for `CyclesAlone`. `CampaignImplements` assumes
`MaxFaults = 0` and `MaxDeletes = 0`, as `autopilot_control` does: an error handler that writes back an
old row does break the contract. `ConstantsAssumption` asks of callers no more than that they are
not the worker's name or `"free"`.

The proofs corrected the properties. `StoppedIsQuiet`, `OnlyStopRewinds` and `Delivered` were stated
for polled sessions too, where the poll described above breaks them; `NoExtraCycles` used to allow one session per
fault, though a fault may cost two, which only shows with a third cycle; `PausedIsIdle` needs its hypothesis on the back-off, which a
bound on cycles smaller than the overflow had hidden; and `PauseIsKept` held without the
exception it used to make for `start()`.

`Library_proofs` proves all five properties of `library` for every finite set of callers, any
texts and actions and any number of requests, wonders and faults: `FailuresCaused`,
`FeedbackStays`, `DuplicatesFew`, `LineageAlways`, `StatusFollows`. A handler writes what it has
made of copies others have since changed, so the tables are inductive only together with
what each request has in hand. `Sound` (`SoundAlways`) is `Tables` (references lead to stored
rows, a status follows from the last feedback shown) with, for each request, `InHand` (its copies
are rows that could have been stored) and `Kept` (they still are, unless a row was deleted under it).
On top of it: `FewCopies` counts the items of a text together with the requests about to create one;
`Linked` says when a superseded wonder and its child point to each other, and that no row
and no copy names a child whose request has not adopted it (`Unclaimed`);
`Shown` says that the last feedback a wonder shows is still being recorded (`Pending`) or
is among the latest recorded, where those given later and those being recorded leave room for it
among the callers (`Said`). That the status follows is part of every stored row and every copy, the autopilot's
included: whoever changes one of status, feedback and `held` changes the others with it.

`CodexRuntime_proofs` proves the four invariants of `runtime_calls` for every finite set of agents, any
number of retries and any number and mixture of troubles: `ReadersSurvive`, `TurnsAreMinded`,
`TurnsAreAccounted`, `SessionsAreClosed`. They speak of an agent call that met no trouble of
some kind itself, while the others may lose processes, answers and notifications, and of
what is left of it at its end, while its requests, turns and notifications are
spread over tables it shares. `Sound` says which of them may be where at each of its awaits:
`CallsOK` (a request is that of its agent's last call or an earlier one, and its future is
registered only while it is awaited or after a cut), `Turned` (an agent none of whose calls
failed has one turn at a time: asked for, running, or with its end in the queue), `Accounts` (the turns
asked for and begun are those counted, the one of this attempt and the one a cancellation has
cost), `Undisturbed` (an agent that met nothing is about to archive its thread, or
has). The server's part in a request is the same whether its answer is heard (`ServedTo`) or lost in a line the
reader cannot take (`UnheardFine`): the agent then goes on waiting with its turn running. TLC checked `Sound` on two agents with one trouble and on one agent with five troubles and three
retries before it was proved.

`Selection_proofs` proves both properties of `selection` for any number of items, cycles and
runs, any distances, labels and budgets: `PairsStayEven`, `RunStaysVaried`. Both rest on what a sort
yields, here `Ranked`: the n-th element is the one with n - 1 before it. `Sorted` shows for any finite set and
strict total order that every element comes exactly once, without induction: two elements have different
numbers of elements before them (`PlacesDiffer`), so there are as many places as elements, and each is taken
(`PlacesTaken`). `AgeOrders` and `PairOrders` show that the planner's and the engine's criteria are such
orders, ties included. For `PairsEven` the invariant adds `Counted` (nothing was tried with an item
that was not there): the planned pair is one of those tried least (`PlannedLeast`), so its attempt
cannot put it ahead. For `RunVaried` it adds `Looking`: what was looked at followed by what is
queued holds each pair once, which `Candidates` shows of the queue a run begins with and taking the
next pair leaves as it is; and as long as an operator is unused, one that is unused is
selected (`SelectsUnused`), so the operators used are as many as the times one was applied.

Only model-checked: liveness and fairness (`EventuallySettled`, `StopReturns`, `StopIsFinal`, `CyclesEnd`,
`CallsEnd`: out of the prover's reach), and with them the fairness of `SessionContract`. Every invariant
and every action property of the runs expected to pass is proved. The two properties expected to
be violated are refuted by TLC.

## Not modelled, and why

- *Other runtime adapters*: one HTTP exchange or a canned answer per call, every failure wrapped; no
  state between calls.
- *Text and embedding*: pure functions on strings and vectors; the models take every value they can have.
- *API, configuration, observability, security, offline evaluation*: they change no state but through the
  operations that are modelled.
- *The SQL of the repositories*: only what it promises (one transaction per method, detached copies, whole rows,
  foreign keys) is used, and `Library`, `WanderSessions` and `Autopilot` rest on it.
- *Inside a modelled component*: the model
  - creates a session's row and its patches in one step of `WanderSessions`, where the engine writes the row
    twice (`engine.py:129`, `:163`), and leaves out that recovery notes `recovered_after_restart` in the row before
    the task runs;
  - follows in `WanderEngine` the stop that the engine sees, a flag read between candidates. A stop of the
    coordinator that cancels the task between a wonder's row (`engine.py:628`) and the next write of the session
    leaves a stopped session that does not name this wonder: `FinalsComplete` does not speak of it;
  - takes from a review only references it was supplied with: unknown ones are filtered from claims
    (`candidate_runtime_service.py:293-341`), where `docs/architecture.md:78` states a stronger rule;
  - follows in `Judgement` the first item generated from a wonder: not an item that a user deletes, nor a second one
    made of a text that an exploration has changed since;
  - loses a message of the app-server only together with its reader: a line that is no JSON is skipped, which a server
    that is too slow stands for, and malformed notifications other than the end of a turn are left out. What the server
    was asked is done or not when its answer cannot be read, and nothing else of it changes;
  - lists all items and seeds in `Selection`, where the code takes at most 10,000 of each.
- *Code without a caller*: `WonderPromotionService.promote`, `resume_session` and `stream_task` of the
  adapters, `controlled_remote`, `by_band`, `HistoricalNoveltyChecker`.

## What could follow

1. The runtime with more than one trouble per execution, and with an adapter that restarts its
   process, once the code has one.
2. Several campaigns' worth of cycles in `Selection`, with items deleted while a run looks at them.
