--------------------------- MODULE WanderSessions ---------------------------
(***************************************************************************)
(* The life of a wander session: its row in the database, the asyncio      *)
(* tasks of WanderCoordinator that drive it, the runs of WanderEngine that *)
(* are executed directly inside a request or the incubation scheduler, the *)
(* callers of stop and delete, the autopilot poll that resubmits an        *)
(* inactive session, and the restarts of the process.                      *)
(*                                                                         *)
(* Repositories hand out detached copies and write whole rows back, so     *)
(* every reader keeps a copy, and a copy read before an await can be       *)
(* written after it.  One action is what runs between two awaits.          *)
(***************************************************************************)
EXTENDS Naturals, FiniteSets

CONSTANTS
    Sessions,       \* session ids
    Inline,         \* those whose first run is engine.run in a request
    Polled,         \* those the autopilot supervisor polls
    Stoppers,       \* concurrent callers of stop and delete
    MaxConcurrent,  \* run slots of the coordinator
    MaxWork,        \* bound: trace steps after which the engine closes
    MaxRestarts,    \* bound: crashes and shutdowns
    MaxFaults       \* bound: database failures outside the engine's try block

ASSUME ConstantsAssumption ==
    /\ Sessions # {}
    /\ Inline \subseteq Sessions
    /\ Polled \subseteq Sessions
    /\ Inline \cap Polled = {}
    /\ MaxConcurrent \in Nat \ {0}
    /\ {MaxWork, MaxRestarts, MaxFaults} \subseteq Nat

VARIABLES
    row,       \* the session rows
    run,       \* executions of a session: coordinator tasks and inline runs
    tasks,     \* coordinator._tasks: the execution registered, 0 for none
    free,      \* free slots of the semaphore
    stop,      \* the stop and delete calls
    poll,      \* the supervisor tick that read an open session
    mode,      \* the process: "up", "stopping", "down", "recovering"
    todo,      \* sessions recover() has still to submit
    restarts,
    faults

vars == <<row, run, tasks, free, stop, poll, mode, todo, restarts, faults>>

Open     == {"pending", "running"}
Terminal == {"completed", "stopped", "failed"}
Row      == [status : Open \cup Terminal \cup {"none", "deleted"},
             cancel : BOOLEAN, steps : Nat]
NoRow    == [status |-> "none", cancel |-> FALSE, steps |-> 0]
NewRow   == [NoRow EXCEPT !.status = "pending"]
Saved(s) == row[s].status \in Open \cup Terminal

(* Two executions per session are enough to see a second one appear.       *)
Runs == Sessions \X {1, 2}

(* Inside run()'s try block an exception is handled by the engine itself.  *)
InTry   == {"setup", "check", "work", "closing", "finish", "halting", "halt"}
Slotted == InTry \cup {"get", "begin", "failing", "fail", "seedfail", "leave"}
Handler == {"markget", "markput", "hget", "hput"}
Live    == {"ready", "slot"} \cup Slotted \cup Handler

NoRun   == [pc |-> "idle", by |-> "task", copy |-> NoRow, cancelling |-> FALSE]
NoStop  == [pc |-> "idle", op |-> "stop", sess |-> CHOOSE s \in Sessions : TRUE,
            k |-> 1, copy |-> NoRow]
NoPoll  == [pc |-> "idle", sess |-> CHOOSE s \in Sessions : TRUE]

IsLive(r)     == run[r].pc \in Live
HoldsSlot(r)  == run[r].by = "task" /\ run[r].pc \in Slotted
TaskActive(s) == tasks[s] # 0 /\ run[<<s, tasks[s]>>].pc # "done"

Init ==
    /\ row = [s \in Sessions |-> NoRow]
    /\ run = [r \in Runs |-> NoRun]
    /\ tasks = [s \in Sessions |-> 0]
    /\ free = MaxConcurrent
    /\ stop = [p \in Stoppers |-> NoStop]
    /\ poll = NoPoll
    /\ mode = "up"
    /\ todo = {}
    /\ restarts = 0
    /\ faults = 0

-----------------------------------------------------------------------------
(* The coordinator: submit, create and the task body _execute.             *)

(* Bug variant: submit does not look for a task that is not done.          *)
SubmitAlways(s) ==
    LET k == IF run[<<s, 1>>].pc = "idle" THEN 1 ELSE 2 IN
    /\ run[<<s, k>>].pc = "idle"
    /\ run' = [run EXCEPT ![<<s, k>>] = [NoRun EXCEPT !.pc = "ready"]]
    /\ tasks' = [tasks EXCEPT ![s] = k]

(* A submit while the registered task is not done changes nothing.         *)
Submit(s) ==
    IF TaskActive(s)
    THEN UNCHANGED <<run, tasks>>
    ELSE LET k == IF run[<<s, 1>>].pc = "idle" THEN 1 ELSE 2 IN
            /\ run[<<s, k>>].pc = "idle"
            /\ run' = [run EXCEPT ![<<s, k>>] = [NoRun EXCEPT !.pc = "ready"]]
            /\ tasks' = [tasks EXCEPT ![s] = k]

(* coordinator.create: the new row and its task.                           *)
Create(s) ==
    /\ mode = "up"
    /\ s \notin Inline
    /\ row[s].status = "none"
    /\ row' = [row EXCEPT ![s] = NewRow]
    /\ Submit(s)
    /\ UNCHANGED <<free, stop, poll, mode, todo, restarts, faults>>

(* engine.run without a session: the row is created and run in place.      *)
CreateInline(s) ==
    /\ mode = "up"
    /\ s \in Inline
    /\ row[s].status = "none"
    /\ row' = [row EXCEPT ![s] = NewRow]
    /\ run' = [run EXCEPT ![<<s, 1>>] =
                [NoRun EXCEPT !.pc = "begin", !.by = "inline", !.copy = NewRow]]
    /\ UNCHANGED <<tasks, free, stop, poll, mode, todo, restarts, faults>>

(* Bug variant: stop() answers once the task has ended, without marking.   *)
WakeAnswered(r) ==
    stop' = [p \in Stoppers |->
               IF stop[p].pc = "await" /\ <<stop[p].sess, stop[p].k>> = r
               THEN NoStop
               ELSE stop[p]]

(* The callers gathering execution r resume when it ends.                  *)
Wake(r) ==
    stop' = [p \in Stoppers |->
               IF stop[p].pc = "await" /\ <<stop[p].sess, stop[p].k>> = r
               THEN [stop[p] EXCEPT !.pc = "mget"]
               ELSE stop[p]]

(* Bug variant: a cancelled task keeps its slot.                           *)
ExitLeaking(r, pc) ==
    /\ run' = [run EXCEPT ![r] = [NoRun EXCEPT !.pc = pc, !.by = run[r].by]]
    /\ free' = IF HoldsSlot(r) /\ ~run[r].cancelling THEN free + 1 ELSE free
    /\ IF pc = "done" THEN Wake(r) ELSE stop' = stop

(* Leaving "async with self._slots" returns the slot, whatever the reason. *)
Exit(r, pc) ==
    /\ run' = [run EXCEPT ![r] = [NoRun EXCEPT !.pc = pc, !.by = run[r].by]]
    /\ free' = IF HoldsSlot(r) THEN free + 1 ELSE free
    /\ IF pc = "done" THEN Wake(r) ELSE stop' = stop

Goto(r, pc) ==
    /\ run' = [run EXCEPT ![r].pc = pc]
    /\ UNCHANGED <<free, stop>>

At(r, pc) == run[r].pc = pc /\ ~run[r].cancelling

(* An exception at the current await: the engine records a failure of its  *)
(* try block, the task body handles the rest, an inline run just ends.     *)
Raise(r) ==
    IF run[r].pc \in InTry
    THEN \E pc \in {"failing", "fail"} : Goto(r, pc)
    ELSE Exit(r, IF HoldsSlot(r) THEN "hget" ELSE "done")

Start(r) ==
    /\ At(r, "ready")
    /\ Goto(r, "slot")
    /\ row' = row

(* Bug variant: the semaphore is not waited for.                           *)
AcquireUnbounded(r) ==
    /\ At(r, "slot")
    /\ free' = free - 1
    /\ run' = [run EXCEPT ![r].pc = "get"]
    /\ UNCHANGED <<row, stop>>

Acquire(r) ==
    /\ At(r, "slot")
    /\ free > 0
    /\ free' = free - 1
    /\ run' = [run EXCEPT ![r].pc = "get"]
    /\ UNCHANGED <<row, stop>>

(* Bug variant: the status is not looked at before the run.                *)
GetUnchecked(r) ==
    LET s == r[1] IN
    /\ At(r, "get")
    /\ row' = row
    /\ run' = [run EXCEPT ![r].pc = "begin", ![r].copy = row[s]]
    /\ UNCHANGED <<free, stop>>

(* A missing or finished session is not run; a missing seed fails it.      *)
Get(r) ==
    LET s == r[1] IN
    /\ At(r, "get")
    /\ row' = row
    /\ IF row[s].status \in Open
       THEN \E pc \in {"begin", "seedfail"} :
              /\ run' = [run EXCEPT ![r].pc = pc, ![r].copy = row[s]]
              /\ UNCHANGED <<free, stop>>
       ELSE Goto(r, "leave")

(* Write the whole copy and go on; a deleted row raises KeyError.          *)
Put(r, copy, next) ==
    IF Saved(r[1])
    THEN /\ row' = [row EXCEPT ![r[1]] = copy]
         /\ \E pc \in next : run' = [run EXCEPT ![r].pc = pc, ![r].copy = copy]
         /\ UNCHANGED <<free, stop>>
    ELSE row' = row /\ Raise(r)

SeedFail(r) ==
    /\ At(r, "seedfail")
    /\ Put(r, [run[r].copy EXCEPT !.status = "failed"], {"leave"})

Leave(r) ==
    /\ At(r, "leave")
    /\ Exit(r, "done")
    /\ row' = row

(* _discard forgets the task only if it is still the registered one.       *)
Discard(r) ==
    LET s == r[1] IN
    /\ run[r].pc = "done"
    /\ run' = [run EXCEPT ![r] = NoRun]
    /\ tasks' = IF tasks[s] = r[2] THEN [tasks EXCEPT ![s] = 0] ELSE tasks
    /\ UNCHANGED <<row, free, stop, poll, mode, todo, restarts, faults>>
-----------------------------------------------------------------------------
(* The engine: run() works on its copy and writes the whole row.           *)

(* Bug variant: a resumed run starts with an empty trace.                  *)
BeginAfresh(r) ==
    /\ At(r, "begin")
    /\ Put(r, [NewRow EXCEPT !.status = "running"], {"setup"})

Begin(r) ==
    /\ At(r, "begin")
    /\ Put(r, [run[r].copy EXCEPT !.status = "running", !.cancel = FALSE], {"setup"})

Recorded(r) == [run[r].copy EXCEPT !.steps = @ + 1]

(* SEEDING, and the early stop when there is too little knowledge.         *)
Setup(r) ==
    /\ At(r, "setup")
    /\ Put(r, Recorded(r), {"check", "halting"})

(* A stopped, marked or deleted row, read anew.                            *)
CancelRequested(s) == ~Saved(s) \/ row[s].status = "stopped" \/ row[s].cancel

(* The cancellation and the budgets, at the top of the candidate loop.     *)
Check(r) ==
    /\ At(r, "check")
    /\ row' = row
    /\ \E pc \in IF CancelRequested(r[1]) THEN {"halting"}
                 ELSE IF run[r].copy.steps < MaxWork THEN {"work", "closing"}
                 ELSE {"closing"} : Goto(r, pc)

(* One durable checkpoint of a candidate.                                  *)
Work(r) ==
    /\ At(r, "work")
    /\ Put(r, Recorded(r), IF run[r].copy.steps < MaxWork
                           THEN {"work", "check", "closing"}
                           ELSE {"check", "closing"})

(* _complete, and _stop with a completing or a stopping reason: the        *)
(* STOPPED step, then the final status.                                    *)
Closing(r) == At(r, "closing") /\ Put(r, Recorded(r), {"finish"})
Finish(r)  == /\ At(r, "finish")
              /\ Put(r, [run[r].copy EXCEPT !.status = "completed"], {"leave"})
Halting(r) == At(r, "halting") /\ Put(r, Recorded(r), {"halt"})
Halt(r)    == /\ At(r, "halt")
              /\ Put(r, [run[r].copy EXCEPT !.status = "stopped"], {"leave"})

(* The except clause of run(): the FAILED step unless the state machine    *)
(* forbids it, the final status, and the exception goes on to the caller.  *)
Failing(r) == At(r, "failing") /\ Put(r, Recorded(r), {"fail"})
Fail(r) ==
    LET s == r[1] IN
    /\ At(r, "fail")
    /\ row' = IF Saved(s)
              THEN [row EXCEPT ![s] = [run[r].copy EXCEPT !.status = "failed"]]
              ELSE row
    /\ Raise(r)

(* A failing call or database access in execution r.                       *)
Error(r) ==
    /\ run[r].pc \in (Slotted \cup Handler) \ {"leave"}
    /\ ~run[r].cancelling
    /\ Raise(r)
    /\ IF run[r].pc \in InTry
       THEN faults' = faults
       ELSE faults < MaxFaults /\ faults' = faults + 1
    /\ UNCHANGED <<row, tasks, poll, mode, todo, restarts>>

(* The handlers of _execute: _mark_failed after an exception ...           *)
HandleGet(r) ==
    LET s == r[1] IN
    /\ At(r, "hget")
    /\ row' = row
    /\ IF row[s].status \in Open
       THEN /\ run' = [run EXCEPT ![r].pc = "hput", ![r].copy = row[s]]
            /\ UNCHANGED <<free, stop>>
       ELSE Exit(r, "done")

HandlePut(r) ==
    LET s == r[1] IN
    /\ At(r, "hput")
    /\ row' = IF Saved(s)
              THEN [row EXCEPT ![s] = [run[r].copy EXCEPT !.status = "failed"]]
              ELSE row
    /\ Exit(r, "done")

(* ... and _mark_stopped after a cancellation.                             *)
MarkGet(r) ==
    LET s == r[1] IN
    /\ At(r, "markget")
    /\ row' = row
    /\ IF row[s].status \in Open \cup {"stopped"}
       THEN /\ run' = [run EXCEPT ![r].pc = "markput", ![r].copy = row[s]]
            /\ UNCHANGED <<free, stop>>
       ELSE Exit(r, "done")

Marked(copy) == [copy EXCEPT !.status = "stopped", !.cancel = TRUE]

MarkPut(r) ==
    LET s == r[1] IN
    /\ At(r, "markput")
    /\ row' = IF Saved(s) THEN [row EXCEPT ![s] = Marked(run[r].copy)] ELSE row
    /\ Exit(r, "done")

(* Bug variant: the cancellation of a task queued for a slot is swallowed. *)
DeliverUnqueued(r) ==
    /\ IsLive(r) /\ run[r].pc # "slot"
    /\ run[r].cancelling
    /\ row' = row
    /\ Exit(r, IF run[r].pc \in Slotted /\ mode # "stopping" THEN "markget" ELSE "done")

(* CancelledError at the current await.  Before its first step a task ends *)
(* at once; inside the handlers it ends without finishing them; on         *)
(* shutdown it leaves the row as it is.                                    *)
Deliver(r) ==
    /\ IsLive(r)
    /\ run[r].cancelling
    /\ row' = row
    /\ Exit(r, IF run[r].pc \in Slotted \cup {"slot"} /\ mode # "stopping"
               THEN "markget" ELSE "done")

(* What execution r does by itself.                                        *)
RunStep(r) ==
    /\ \/ Start(r) \/ Acquire(r) \/ Get(r) \/ SeedFail(r) \/ Leave(r)
       \/ Begin(r) \/ Setup(r) \/ Check(r) \/ Work(r)
       \/ Closing(r) \/ Finish(r) \/ Halting(r) \/ Halt(r)
       \/ Failing(r) \/ Fail(r)
       \/ HandleGet(r) \/ HandlePut(r) \/ MarkGet(r) \/ MarkPut(r)
       \/ Deliver(r)
    /\ UNCHANGED <<tasks, poll, mode, todo, restarts, faults>>
-----------------------------------------------------------------------------
(* coordinator.stop, and the delete request that calls it first.           *)

(* A session that is not open is returned as it is.                        *)
StopReturn(p, s) ==
    /\ mode = "up"
    /\ stop[p].pc = "idle"
    /\ row[s].status \notin Open \cup {"none"}
    /\ UNCHANGED vars

StopGet(p, s, op) ==
    /\ mode = "up"
    /\ stop[p].pc = "idle"
    /\ \/ row[s].status \in Open
       \/ row[s].status \in Terminal /\ op = "delete"
    /\ stop' = [stop EXCEPT ![p] =
                  [NoStop EXCEPT !.pc = IF row[s].status \in Open THEN "put" ELSE "del",
                                 !.op = op, !.sess = s, !.copy = row[s]]]
    /\ UNCHANGED <<row, run, tasks, free, poll, mode, todo, restarts, faults>>

StopGoto(p, pc) ==
    stop' = [stop EXCEPT ![p] = IF pc = "idle" THEN NoStop ELSE [@ EXCEPT !.pc = pc]]

(* The cancel flag, set in the copy read earlier.                          *)
StopPut(p) ==
    LET s == stop[p].sess IN
    /\ stop[p].pc = "put"
    /\ IF Saved(s)
       THEN /\ row' = [row EXCEPT ![s] = [stop[p].copy EXCEPT !.cancel = TRUE]]
            /\ StopGoto(p, "cancel")
       ELSE row' = row /\ StopGoto(p, "idle")
    /\ UNCHANGED run

(* Bug variants: stop() marks the row without cancelling the task, or      *)
(* without waiting until the cancelled task has ended.                     *)
StopUncancelled(p) ==
    /\ stop[p].pc = "cancel"
    /\ StopGoto(p, "mget")
    /\ UNCHANGED <<row, run>>

StopUnawaited(p) ==
    LET s == stop[p].sess IN
    /\ stop[p].pc = "cancel"
    /\ run' = IF TaskActive(s)
              THEN [run EXCEPT ![<<s, tasks[s]>>].cancelling = TRUE]
              ELSE run
    /\ StopGoto(p, "mget")
    /\ row' = row

StopCancel(p) ==
    LET s == stop[p].sess IN
    /\ stop[p].pc = "cancel"
    /\ IF TaskActive(s)
       THEN /\ run' = [run EXCEPT ![<<s, tasks[s]>>].cancelling = TRUE]
            /\ stop' = [stop EXCEPT ![p].pc = "await", ![p].k = tasks[s]]
       ELSE run' = run /\ StopGoto(p, "mget")
    /\ row' = row

(* After stop() a delete request goes on to delete_session.                *)
Then(p) == IF stop[p].op = "delete" THEN "del" ELSE "idle"

StopMarkGet(p) ==
    LET s == stop[p].sess IN
    /\ stop[p].pc = "mget"
    /\ IF row[s].status \in Open \cup {"stopped"}
       THEN stop' = [stop EXCEPT ![p].pc = "mput", ![p].copy = row[s]]
       ELSE StopGoto(p, Then(p))
    /\ UNCHANGED <<row, run>>

StopMarkPut(p) ==
    LET s == stop[p].sess IN
    /\ stop[p].pc = "mput"
    /\ IF Saved(s)
       THEN row' = [row EXCEPT ![s] = Marked(stop[p].copy)] /\ StopGoto(p, Then(p))
       ELSE row' = row /\ StopGoto(p, "idle")
    /\ UNCHANGED run

Delete(p) ==
    LET s == stop[p].sess IN
    /\ stop[p].pc = "del"
    /\ row' = [row EXCEPT ![s] = [NoRow EXCEPT !.status = "deleted"]]
    /\ StopGoto(p, "idle")
    /\ UNCHANGED run

StopStep(p) ==
    /\ \/ StopPut(p) \/ StopCancel(p) \/ StopMarkGet(p) \/ StopMarkPut(p) \/ Delete(p)
    /\ UNCHANGED <<tasks, free, poll, mode, todo, restarts, faults>>

(* A database failure ends the request with an error.  Only in the middle  *)
(* of a stop does it leave anything behind.                                *)
StopError(p) ==
    /\ stop[p].pc \in {"put", "mget", "mput", "del"}
    /\ IF stop[p].pc \in {"put", "del"}
       THEN faults' = faults
       ELSE faults < MaxFaults /\ faults' = faults + 1
    /\ StopGoto(p, "idle")
    /\ UNCHANGED <<row, run, tasks, free, poll, mode, todo, restarts>>
-----------------------------------------------------------------------------
(* The autopilot tick: the open session it read is resubmitted if its task *)
(* is not active by the time the read returns.                             *)

PollGet(s) ==
    /\ mode = "up"
    /\ poll.pc = "idle"
    /\ s \in Polled
    /\ row[s].status \in Open
    /\ poll' = [pc |-> "submit", sess |-> s]
    /\ UNCHANGED <<row, run, tasks, free, stop, mode, todo, restarts, faults>>

(* A session that is not open is left to the end of its cycle.             *)
PollReturn(s) ==
    /\ mode = "up"
    /\ poll.pc = "idle"
    /\ s \in Polled
    /\ row[s].status \notin Open
    /\ UNCHANGED vars

PollSubmit ==
    /\ mode = "up"
    /\ poll.pc = "submit"
    /\ Submit(poll.sess)
    /\ poll' = NoPoll
    /\ UNCHANGED <<row, free, stop, mode, todo, restarts, faults>>
-----------------------------------------------------------------------------
(* The process: graceful shutdown, crash, restart and recover().           *)

(* Requests in flight have been answered, the supervisor and the scheduler *)
(* are cancelled, then every active task.                                  *)
Shutdown ==
    /\ mode = "up"
    /\ restarts < MaxRestarts
    /\ \A p \in Stoppers : stop[p].pc = "idle"
    /\ mode' = "stopping"
    /\ poll' = NoPoll
    /\ run' = [r \in Runs |-> IF IsLive(r) THEN [run[r] EXCEPT !.cancelling = TRUE]
                              ELSE run[r]]
    /\ UNCHANGED <<row, tasks, free, stop, todo, restarts, faults>>

(* The process ends and everything in memory is gone.                      *)
Down ==
    /\ mode' = "down"
    /\ run' = [r \in Runs |-> NoRun]
    /\ tasks' = [s \in Sessions |-> 0]
    /\ free' = MaxConcurrent
    /\ stop' = [p \in Stoppers |-> NoStop]
    /\ poll' = NoPoll
    /\ todo' = {}
    /\ restarts' = restarts + 1
    /\ UNCHANGED <<row, faults>>

Terminated ==
    /\ mode = "stopping"
    /\ \A r \in Runs : ~IsLive(r)
    /\ Down

Crash ==
    /\ mode # "down"
    /\ restarts < MaxRestarts
    /\ Down

Restart ==
    /\ mode = "down"
    /\ mode' = "recovering"
    /\ todo' = {s \in Sessions : row[s].status \in Open}
    /\ UNCHANGED <<row, run, tasks, free, stop, poll, restarts, faults>>

Recover(s) ==
    /\ mode = "recovering"
    /\ s \in todo
    /\ Submit(s)
    /\ todo' = todo \ {s}
    /\ UNCHANGED <<row, free, stop, poll, mode, restarts, faults>>

Recovered ==
    /\ mode = "recovering"
    /\ todo = {}
    /\ mode' = "up"
    /\ UNCHANGED <<row, run, tasks, free, stop, poll, todo, restarts, faults>>

Lifecycle ==
    \/ Terminated
    \/ Restart
    \/ \E s \in Sessions : Recover(s)
    \/ Recovered
-----------------------------------------------------------------------------
Next ==
    \/ \E s \in Sessions : Create(s) \/ CreateInline(s) \/ PollGet(s) \/ PollReturn(s)
    \/ \E r \in Runs : RunStep(r) \/ Error(r) \/ Discard(r)
    \/ \E p \in Stoppers, s \in Sessions :
          StopReturn(p, s) \/ \E op \in {"stop", "delete"} : StopGet(p, s, op)
    \/ \E p \in Stoppers : StopStep(p) \/ StopError(p)
    \/ PollSubmit
    \/ Shutdown
    \/ Crash
    \/ Lifecycle

(* The event loop runs every ready callback and the database answers, so   *)
(* started work proceeds; the process is restarted by its supervisor.      *)
(* Nothing obliges a user to call, the poll to come, or a fault to happen. *)
Fairness ==
    /\ \A r \in Runs : WF_vars(RunStep(r)) /\ WF_vars(Discard(r))
    /\ \A p \in Stoppers : WF_vars(StopStep(p))
    /\ WF_vars(Lifecycle)

Spec == Init /\ [][Next]_vars /\ Fairness
-----------------------------------------------------------------------------
TypeOK ==
    /\ row \in [Sessions -> Row]
    /\ run \in [Runs -> [pc : Live \cup {"idle", "done"}, by : {"task", "inline"},
                         copy : Row, cancelling : BOOLEAN]]
    /\ tasks \in [Sessions -> 0 .. 2]
    /\ free \in Nat
    /\ stop \in [Stoppers -> [pc : {"idle", "put", "cancel", "await", "mget", "mput", "del"},
                               op : {"stop", "delete"}, sess : Sessions,
                               k : {1, 2}, copy : Row]]
    /\ poll \in [pc : {"idle", "submit"}, sess : Sessions]
    /\ mode \in {"up", "stopping", "down", "recovering"}
    /\ todo \subseteq Sessions
    /\ restarts \in Nat
    /\ faults \in Nat

(* A session is never executed twice at the same time, however creation,   *)
(* recovery, polls, completions and the forgetting of finished tasks       *)
(* interleave (submit and _discard).                                       *)
OneRunPerSession ==
    \A s \in Sessions : ~(IsLive(<<s, 1>>) /\ IsLive(<<s, 2>>))

(* No slot is leaked or returned twice on any way out of "async with       *)
(* self._slots": end, error, cancellation at each await, shutdown.         *)
SlotsBalanced == free + Cardinality({r \in Runs : HoldsSlot(r)}) = MaxConcurrent

(* Sessions that stop() can stop: all their executions are tasks, which it *)
(* cancels, and no poll submits another one before the row is marked.      *)
Stoppable == Sessions \ (Inline \cup Polled)

(* A session marked stopped has no execution left that could write it      *)
(* again: stop() cancels the task, waits for it, and only then marks it.   *)
(* (An inline run, or a task the autopilot poll submits on what it read    *)
(* before, does go on writing.)                                            *)
Writers == InTry \cup {"begin", "failing", "fail", "seedfail", "hput"}
StoppedIsQuiet ==
    \A s \in Stoppable, k \in {1, 2} :
        row[s].status = "stopped" => run[<<s, k>>].pc \notin Writers

(* While the process is up and the database has answered, an open session  *)
(* is in somebody's hands: an execution, or a stop call that will mark it. *)
(* A session nobody owns would stay open until the next restart.           *)
OpenIsOwned ==
    \A s \in Sessions :
        mode = "up" /\ faults = 0 /\ row[s].status \in Open =>
            \/ \E k \in {1, 2} : IsLive(<<s, k>>)
            \/ \E p \in Stoppers : stop[p].pc # "idle" /\ stop[p].sess = s

Rewound(s) ==
    \/ row[s].status \in Terminal /\ row'[s].status \in Open
    \/ row'[s].status # "deleted" /\ row'[s].steps < row[s].steps

(* What SessionContract lets a step do to a session.                       *)
ByContract(s) ==
    LET was == row[s]  is == row'[s] IN
    \/ is.status = was.status /\ is.steps = was.steps
    \/ was.status = "none" /\ is.status = "pending" /\ is.steps = was.steps
    \/ was.status \in Open /\ is.status = "running" /\ is.steps \in {was.steps, was.steps + 1}
    \/ was.status \in Open /\ is.status \in Terminal /\ is.steps = was.steps

(* A finished session is reopened, or a recorded step lost, only by a      *)
(* write that goes back to a stop(): it carries the cancel flag.  No task  *)
(* body, recovery or failure handler rewinds a row on its own account.     *)
(* And while no stop() or delete has a session in hand - also after one    *)
(* broke off half-way and left its flag - the session does what its        *)
(* contract allows and nothing else: no write goes back behind a step,     *)
(* skips one, or finishes a session twice, whatever restarts, failures and *)
(* stops came before.  (Inline runs and polled sessions, which may write   *)
(* on after a stop, are left out unless nobody stops anything.)            *)
Steady == {s \in Sessions : s \in Stoppable \/ Stoppers = {}}
InHand(s) == \E p \in Stoppers : stop[p].pc # "idle" /\ stop[p].sess = s
OnlyStopRewinds ==
    [][\A s \in Steady :
          /\ Rewound(s) => row'[s].cancel
          /\ ~InHand(s) /\ ~InHand(s)' => ByContract(s)]_vars

(* Every open session is settled: its run ends by itself, is stopped, or   *)
(* is resumed after a restart until it ends.                               *)
EventuallySettled ==
    \A s \in Sessions : row[s].status \in Open ~> row[s].status \notin Open

(* A stopped session stays stopped: what was running it does not go on and *)
(* overwrite the row, and nothing starts it again.                         *)
StopIsFinal ==
    \A s \in Sessions :
        row[s].status = "stopped" ~> [](row[s].status \in {"stopped", "deleted"})

(* Every call of stop or delete returns, although it waits for a task that *)
(* may be queued for a slot, running, or already handling a cancellation.  *)
StopReturns == \A p \in Stoppers : stop[p].pc # "idle" ~> stop[p].pc = "idle"

(* What the rest of the system may rely on while nobody stops a session.   *)
Contract == INSTANCE SessionContract WITH
    status <- [s \in Sessions |-> row[s].status],
    steps  <- [s \in Sessions |-> row[s].steps]
ImplementsContract == Contract!Spec
=============================================================================
