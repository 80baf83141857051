---------------------------- MODULE CodexRuntime ----------------------------
(***************************************************************************)
(* The agent calls and their runtime: the synthesizer, the reviewer and    *)
(* the three services of deep evaluation each open a runtime session, run  *)
(* one task with retries and close the session (run_with_retry over        *)
(* TrackedRuntimeAdapter over CodexRuntimeAdapter).  All sessions share    *)
(* one app-server process, one table of pending calls and one queue of     *)
(* notifications (JsonRpcProcess).  The server is external: it answers     *)
(* and notifies in any order the protocol allows, late or never.           *)
(***************************************************************************)
EXTENDS Naturals, Sequences, FiniteSets

CONSTANTS
    Agents,      \* agent calls, each with a thread of its own
    MaxRetries,  \* run_with_retry
    Deltas,      \* bound: pieces a turn's text comes in
    MaxErrors,   \* bound: errors answered by the server, bad outputs, unreadable lines
    MaxExits,    \* bound: exits and hangs of a server process, failures to spawn one
    MaxCancels,  \* bound: agent calls cancelled from outside
    MaxSlow,     \* bound: timeouts although the answer would still come
    MaxTroubles  \* bound: all of these together

ASSUME ConstantsAssumption ==
    /\ IsFiniteSet(Agents)
    /\ {MaxRetries, Deltas, MaxErrors, MaxExits, MaxCancels, MaxSlow, MaxTroubles} \subseteq Nat

VARIABLES
    agent,    \* the agent calls
    row,      \* the runtime_sessions rows
    proc,     \* client.process: number of the process, 0 for None
    spawned,  \* number of processes ever created
    alive,    \* the processes that run
    readers,  \* the processes whose output somebody reads
    mute,     \* the processes that hang
    garbled,  \* the processes that wrote a line their reader cannot take
    pending,  \* the ids of the calls with a registered future
    active,   \* active_turns
    queue,    \* notifications
    sent,     \* requests the server has not answered
    turns,    \* turns the server is running
    ran,      \* number of turns the server began, by thread
    archived, \* threads the server has archived
    closed,   \* the adapter is closed
    errors, exits, cancels, slow

client == <<agent, row, pending, active>>
server == <<sent, turns, ran, archived>>
procs  == <<proc, spawned, alive, readers, mute, garbled>>
bounds == <<errors, exits, cancels, slow>>
vars   == <<client, queue, server, procs, closed, bounds>>

NoTurn  == <<>>
Waiting == {"init", "thread", "turn", "intr", "cintr", "arch"}
NoAgent == [pc |-> "idle", n |-> 0, reply |-> "none", status |-> "active", tries |-> 0,
            turn |-> NoTurn, got |-> 0, outcome |-> "none", saw |-> {}]
NoRow   == [status |-> "none", calls |-> 0, failures |-> 0]

Init ==
    /\ agent = [a \in Agents |-> NoAgent]
    /\ row = [a \in Agents |-> NoRow]
    /\ proc = 0 /\ spawned = 0 /\ alive = {} /\ readers = {} /\ mute = {} /\ garbled = {}
    /\ pending = {} /\ active = [a \in Agents |-> NoTurn] /\ queue = <<>>
    /\ sent = {} /\ turns = {} /\ ran = [a \in Agents |-> 0] /\ archived = {}
    /\ closed = FALSE
    /\ errors = 0 /\ exits = 0 /\ cancels = 0 /\ slow = 0
-----------------------------------------------------------------------------
(* Building blocks of the client.                                          *)

Troubled      == errors + exits + cancels + slow >= MaxTroubles
At(a, pc)     == agent[a].pc = pc
Become(a, me) == agent' = [agent EXCEPT ![a] = me]
Owner(id)     == id[1]

(* Somebody waits on the future of this call; otherwise the future was     *)
(* cancelled with the task that waited.                                    *)
Awaited(id) ==
    LET me == agent[Owner(id)] IN me.pc \in Waiting /\ me.n = id[2] /\ me.reply = "none"

(* call(): register a future and write the request, then wait at pc.  The  *)
(* write to a process that has exited raises ConnectionResetError, which   *)
(* leaves the future registered; the agent is then as in broken.           *)
Call(a, me, method, pc, broken) ==
    LET id == <<a, me.n + 1>> IN
    /\ pending' = pending \cup {id}
    /\ IF proc \in alive
       THEN /\ sent' = sent \cup {[id |-> id, method |-> method, turn |-> active[a], to |-> proc]}
            /\ Become(a, [me EXCEPT !.pc = pc, !.n = @ + 1, !.reply = "none"])
       ELSE /\ sent' = sent
            /\ Become(a, [broken EXCEPT !.n = me.n + 1, !.saw = @ \cup {"failed"}])

(* The exception a call ends with.                                         *)
Error(reply) ==
    CASE reply = "late"  -> "timeout"      \* RuntimeTimeoutError
      [] reply = "error" -> "error"        \* RuntimeExecutionError
      [] reply = "gone"  -> "unavailable"  \* RuntimeUnavailableError
      [] reply = "odd"   -> "bad"          \* RuntimeMalformedOutputError

(* What is local to a call of the adapter ends with it.                    *)
Closing(me, outcome) == [me EXCEPT !.pc = "close", !.outcome = outcome, !.reply = "none",
                                   !.tries = 0, !.turn = NoTurn, !.got = 0]
Done(me, outcome)    == [NoAgent EXCEPT !.pc = "done", !.outcome = outcome, !.saw = me.saw]

(* An untyped error ends the call whatever it had returned before.         *)
Broken(me) == Done(me, "broken")

(* run_with_retry: which errors are tried again.                           *)
Retryable == {"timeout", "bad"}

AfterError(me, error) ==
    IF error \in Retryable /\ me.tries < MaxRetries
    THEN [me EXCEPT !.pc = "run", !.tries = @ + 1]
    ELSE Closing(me, error)

(* TrackedRuntimeAdapter: the row of the session when it is opened, after  *)
(* a task that failed or succeeded, and when it is closed.                 *)
Opened(a)   == [row EXCEPT ![a].status = "active"]
Failed(a, me) ==
    [row EXCEPT ![a] = [status |-> me.status, calls |-> @.calls + 1, failures |-> @.failures + 1]]
Counted(a, me) ==
    [row EXCEPT ![a] = [status |-> me.status, calls |-> @.calls + 1, failures |-> @.failures]]
RowClosed(a) == [row EXCEPT ![a].status = "closed"]

(* Bug variant: only the last failure is recorded.                         *)
RunFailsUnrecorded(a, me, error) ==
    /\ Become(a, AfterError(me, error))
    /\ row' = IF AfterError(me, error).pc = "run" THEN row ELSE Failed(a, me)

RunFails(a, me, error) ==
    /\ Become(a, AfterError(me, error))
    /\ row' = Failed(a, me)
-----------------------------------------------------------------------------
(* start_session.                                                          *)

(* start() returns at once when there is a process, exited or not.         *)
Begin(a) ==
    /\ At(a, "idle")
    /\ ~closed
    /\ IF proc = 0
       THEN Become(a, [agent[a] EXCEPT !.pc = "spawn"]) /\ UNCHANGED <<pending, sent>>
       ELSE Call(a, agent[a], "thread/start", "thread", Broken(agent[a]))
    /\ UNCHANGED <<row, active, queue, turns, ran, archived, procs, closed, bounds>>

(* The process has been created; the client knows this one from now on.    *)
Spawn(a) ==
    LET p == spawned + 1 IN
    /\ At(a, "spawn")
    /\ proc' = p /\ spawned' = p
    /\ alive' = alive \cup {p} /\ readers' = readers \cup {p}
    /\ pending' = pending \cup {<<a, 1>>}
    /\ sent' = sent \cup {[id |-> <<a, 1>>, method |-> "initialize", turn |-> NoTurn, to |-> p]}
    /\ Become(a, [agent[a] EXCEPT !.pc = "init", !.n = 1])
    /\ UNCHANGED <<row, active, queue, turns, ran, archived, mute, garbled, closed, bounds>>

(* The executable cannot be started; the client knows no process.          *)
SpawnFails(a) ==
    /\ At(a, "spawn")
    /\ exits < MaxExits /\ ~Troubled /\ exits' = exits + 1
    /\ Become(a, Done([agent[a] EXCEPT !.saw = @ \cup {"failed"}], "unavailable"))
    /\ UNCHANGED <<row, pending, active, queue, server, procs, closed, errors, cancels, slow>>

Initialized(a) ==
    LET me == agent[a] IN
    /\ At(a, "init") /\ me.reply # "none"
    /\ IF me.reply = "ok"
       THEN Call(a, me, "thread/start", "thread", Broken(me))
       ELSE Become(a, Done(me, Error(me.reply))) /\ UNCHANGED <<pending, sent>>
    /\ UNCHANGED <<row, active, queue, turns, ran, archived, procs, closed, bounds>>

(* The session has its thread, and a row.                                  *)
SessionStarted(a) ==
    LET me == agent[a] IN
    /\ At(a, "thread") /\ me.reply # "none"
    /\ IF me.reply = "ok"
       THEN /\ Become(a, [me EXCEPT !.pc = "run"])
            /\ row' = Opened(a)
       ELSE Become(a, Done(me, Error(me.reply))) /\ row' = row
    /\ UNCHANGED <<pending, active, queue, server, procs, closed, bounds>>
-----------------------------------------------------------------------------
(* run_task.                                                               *)

(* One attempt; an interrupted session runs no more turns.                 *)
Attempt(a) ==
    LET me == agent[a] IN
    /\ At(a, "run")
    /\ IF me.status = "interrupted"
       THEN RunFails(a, me, "interrupted") /\ UNCHANGED <<pending, sent>>
       ELSE /\ Call(a, me, "turn/start", "turn", AfterError(me, "broken"))
            /\ row' = IF proc \in alive THEN row ELSE Failed(a, me)
    /\ UNCHANGED <<active, queue, turns, ran, archived, procs, closed, bounds>>

TurnStarted(a) ==
    LET me == agent[a] IN
    /\ At(a, "turn") /\ me.reply # "none"
    /\ IF me.reply = "ok"
       THEN /\ Become(a, [me EXCEPT !.pc = "loop", !.turn = <<a, me.n>>, !.got = 0])
            /\ active' = [active EXCEPT ![a] = <<a, me.n>>]
            /\ row' = row
       ELSE RunFails(a, me, Error(me.reply)) /\ active' = active
    /\ UNCHANGED <<pending, queue, server, procs, closed, bounds>>

(* A turn whose text has lost a piece is malformed; one without any piece  *)
(* is read from the completed turn.                                        *)
Whole(me) == me.got \in {0, Deltas}

(* Bug variant: a completed turn stays in active_turns.                    *)
ReadKept(a) ==
    LET me == agent[a]
        note == Head(queue)
        mine == note.thread = a /\ note.turn \in {me.turn, NoTurn}
    IN
    /\ At(a, "loop") /\ queue # <<>>
    /\ queue' = Tail(queue)
    /\ IF mine /\ note.what = "good"
       THEN /\ Become(a, Closing([me EXCEPT !.status = "completed"], "answer"))
            /\ row' = Counted(a, [me EXCEPT !.status = "completed"])
       ELSE UNCHANGED <<agent, row>>
    /\ UNCHANGED <<active, pending, server, procs, closed, bounds>>

(* The task of a completed turn: its answer, or a failed or malformed turn.*)
(* A status the adapter does not know ("odd") is not tried again.          *)
TurnEnds(a, note) ==
    LET after == [agent[a] EXCEPT !.status = "completed"] IN
    IF note.what = "good" /\ Whole(agent[a])
    THEN Become(a, Closing(after, "answer")) /\ row' = Counted(a, after)
    ELSE RunFails(a, agent[a], IF note.what = "odd" THEN "error" ELSE "bad")

(* Take the next notification of the queue.  One of another thread or      *)
(* another turn is dropped, whoever may be waiting for it.                 *)
Read(a) ==
    LET me == agent[a]
        note == Head(queue)
        mine == note.thread = a /\ note.turn \in {me.turn, NoTurn}
    IN
    /\ At(a, "loop") /\ queue # <<>>
    /\ queue' = Tail(queue)
    /\ \/ /\ ~mine
          /\ UNCHANGED <<agent, row, active>>
       \/ /\ mine /\ note.what = "delta"
          /\ Become(a, [me EXCEPT !.got = @ + 1])
          /\ UNCHANGED <<row, active>>
       \/ /\ mine /\ note.what # "delta"
          /\ active' = [active EXCEPT ![a] = NoTurn]
          /\ TurnEnds(a, note)
    /\ UNCHANGED <<pending, server, procs, closed, bounds>>

(* The processes whose messages arrive.                                    *)
Heard == (alive \cap readers) \ mute

(* Is an answer, or the end of the turn, still to come?                    *)
Answerable(a) == \E r \in sent : r.id = <<a, agent[a].n>> /\ r.to \in Heard
Completing(a) ==
    \/ \E t \in turns : t.turn = agent[a].turn /\ t.at \in Heard
    \/ \E i \in 1..Len(queue) : queue[i].thread = a /\ queue[i].turn \in {agent[a].turn, NoTurn}

(* Waiting too long is one of the bounded troubles, unless it is in vain.  *)
Impatient(a, hope) ==
    IF hope THEN slow < MaxSlow /\ ~Troubled /\ slow' = slow + 1 ELSE slow' = slow

(* Bug variants: the deadline covers only the call of turn/start; a turn   *)
(* over its time is given up without an interruption.                      *)
TurnTimeoutAtStart(a) ==
    /\ At(a, "turn") /\ agent[a].reply = "none"
    /\ Impatient(a, Answerable(a))
    /\ RunFails(a, [agent[a] EXCEPT !.status = "interrupted", !.saw = @ \cup {"cut"}], "timeout")
    /\ UNCHANGED <<pending, active, queue, server, procs, closed, errors, exits, cancels>>

TurnTimeoutUninterrupted(a) ==
    /\ At(a, "loop")
    /\ Impatient(a, Completing(a))
    /\ RunFails(a, [agent[a] EXCEPT !.saw = @ \cup {"overran"}], "timeout")
    /\ UNCHANGED <<pending, active, queue, server, procs, closed, errors, exits, cancels>>

(* The task is over its time: interrupt its turn.  When the time ends      *)
(* while turn/start is still waited for, that wait is cancelled, and the   *)
(* turn it may begin is not known.                                         *)
TurnTimeout(a) ==
    LET me  == agent[a]
        cut == [me EXCEPT !.saw = @ \cup {IF me.pc = "turn" THEN "cut" ELSE "overran"}]
    IN
    /\ \/ At(a, "loop") /\ Impatient(a, Completing(a))
       \/ At(a, "turn") /\ me.reply = "none" /\ Impatient(a, Answerable(a))
    /\ IF active[a] # NoTurn
       THEN /\ Call(a, cut, "turn/interrupt", "intr", AfterError(cut, "broken"))
            /\ row' = IF proc \in alive THEN row ELSE Failed(a, cut)
       ELSE /\ RunFails(a, [cut EXCEPT !.status = "interrupted"], "timeout")
            /\ UNCHANGED <<pending, sent>>
    /\ UNCHANGED <<active, queue, turns, ran, archived, procs, closed, errors, exits, cancels>>

(* An interruption that fails is itself the error of the task.             *)
Interrupted(a) ==
    LET me == agent[a] IN
    /\ At(a, "intr") /\ me.reply # "none"
    /\ IF me.reply = "ok"
       THEN RunFails(a, [me EXCEPT !.status = "interrupted"], "timeout")
       ELSE RunFails(a, me, Error(me.reply))
    /\ UNCHANGED <<pending, active, queue, server, procs, closed, bounds>>
-----------------------------------------------------------------------------
(* close_session, in the finally clause of every service.                  *)

CloseSession(a) ==
    LET me == agent[a] IN
    /\ At(a, "close")
    /\ IF active[a] # NoTurn
       THEN Call(a, me, "turn/interrupt", "cintr", Broken(me))
       ELSE Call(a, me, "thread/archive", "arch", Broken(me))
    /\ UNCHANGED <<row, active, queue, turns, ran, archived, procs, closed, bounds>>

(* Errors of the runtime are suppressed here, and end the closing.         *)
ClosingInterrupted(a) ==
    LET me == agent[a] IN
    /\ At(a, "cintr") /\ me.reply # "none"
    /\ IF me.reply = "ok"
       THEN LET after == [me EXCEPT !.status = "interrupted"] IN
            Call(a, after, "thread/archive", "arch", Broken(after))
       ELSE Become(a, Done(me, me.outcome)) /\ UNCHANGED <<pending, sent>>
    /\ UNCHANGED <<row, active, queue, turns, ran, archived, procs, closed, bounds>>

Archived(a) ==
    LET me == agent[a] IN
    /\ At(a, "arch") /\ me.reply # "none"
    /\ IF me.reply = "ok"
       THEN /\ Become(a, Done([me EXCEPT !.status = "closed"], me.outcome))
            /\ row' = RowClosed(a)
       ELSE Become(a, Done(me, me.outcome)) /\ row' = row
    /\ UNCHANGED <<pending, active, queue, server, procs, closed, bounds>>
-----------------------------------------------------------------------------
(* Time and the outside.                                                   *)

(* Bug variant: the future of a call that timed out stays registered.      *)
CallTimeoutKept(a) ==
    /\ agent[a].pc \in Waiting /\ agent[a].reply = "none"
    /\ Impatient(a, Answerable(a))
    /\ Become(a, [agent[a] EXCEPT !.reply = "late", !.saw = @ \cup {"failed"}])
    /\ UNCHANGED <<pending, row, active, queue, server, procs, closed, errors, exits, cancels>>

(* A call is over its time; its future is forgotten.                       *)
CallTimeout(a) ==
    LET me == agent[a] IN
    /\ me.pc \in Waiting /\ me.reply = "none"
    /\ Impatient(a, Answerable(a))
    /\ pending' = pending \ {<<a, me.n>>}
    /\ Become(a, [me EXCEPT !.reply = "late", !.saw = @ \cup {"failed"}])
    /\ UNCHANGED <<row, active, queue, server, procs, closed, errors, exits, cancels>>

(* The task that makes the agent call is cancelled (stop, shutdown): the   *)
(* future it waits on is cancelled too and stays registered; a session     *)
(* that was started is closed on the way out.                              *)
Cancel(a) ==
    LET me == agent[a]
        cut == [me EXCEPT !.saw = @ \cup {"cancelled"}
                                   \cup (IF me.pc \in Waiting THEN {"cut"} ELSE {})]
    IN
    /\ me.pc \notin {"idle", "close", "done"}
    /\ cancels < MaxCancels /\ ~Troubled
    /\ cancels' = cancels + 1
    /\ Become(a, IF me.pc \in {"run", "turn", "loop", "intr"}
                 THEN Closing(cut, "cancelled") ELSE Done(cut, "cancelled"))
    /\ UNCHANGED <<row, pending, active, queue, server, procs, closed, errors, exits, slow>>

(* close() of the adapter, when the application ends, terminates the       *)
(* process the client knows.                                               *)
Close ==
    /\ ~closed
    /\ \A a \in Agents : agent[a].pc \in {"idle", "done"}
    /\ closed' = TRUE
    /\ proc' = 0 /\ alive' = alive \ {proc} /\ readers' = readers \ {proc}
    /\ sent' = {r \in sent : r.to # proc}
    /\ turns' = {t \in turns : t.at # proc}
    /\ UNCHANGED <<client, queue, ran, archived, spawned, mute, garbled, bounds>>

Terminated == closed /\ UNCHANGED vars
-----------------------------------------------------------------------------
(* The server, and _read_stdout.                                           *)

Running(id) == \E t \in turns : t.turn = id

(* An error costs one of the bounded errors, unless the turn that is to be *)
(* interrupted is not running any more: then either answer may come.       *)
Refused(r) ==
    IF r.method = "turn/interrupt" /\ ~Running(r.turn)
    THEN errors' = errors
    ELSE errors < MaxErrors /\ ~Troubled /\ errors' = errors + 1

Served(r) ==
    LET a == Owner(r.id) IN
    /\ turns' = CASE r.method = "turn/start"     -> turns \cup {[turn |-> r.id, at |-> r.to]}
                  [] r.method = "turn/interrupt" -> {t \in turns : t.turn # r.turn}
                  [] OTHER                       -> turns
    /\ queue' = IF r.method = "turn/interrupt" /\ Running(r.turn)
                THEN Append(queue, [thread |-> a, turn |-> r.turn, what |-> "bad"])
                ELSE queue
    /\ ran' = [ran EXCEPT ![a] = IF r.method = "turn/start" THEN @ + 1 ELSE @]
    /\ archived' = archived \cup (IF r.method = "thread/archive" THEN {a} ELSE {})

(* An answer is read: it resolves the future that is waited on; an unknown *)
(* id is ignored; a cancelled future raises InvalidStateError, which ends  *)
(* the reader.  A started thread or turn may come without its id ("odd").  *)
(* The reader of a process the client has replaced goes on to read the new *)
(* one, where the second of two readers ends.                              *)
Answer(r, result) ==
    LET a == Owner(r.id)
        known == r.id \in pending
        dies == (known /\ ~Awaited(r.id)) \/ r.to # proc
    IN
    /\ r.to \in Heard
    /\ sent' = sent \ {r}
    /\ \/ result = "ok" /\ Served(r) /\ errors' = errors
       \/ /\ result = "odd" /\ r.method \in {"thread/start", "turn/start"}
          /\ Served(r) /\ errors < MaxErrors /\ ~Troubled /\ errors' = errors + 1
       \/ result = "error" /\ Refused(r) /\ UNCHANGED <<turns, queue, ran, archived>>
    /\ pending' = pending \ {r.id}
    /\ agent' = IF known /\ Awaited(r.id)
                THEN [agent EXCEPT ![a].reply = result,
                                   ![a].saw = IF errors' > errors THEN @ \cup {"failed"} ELSE @]
                ELSE agent
    /\ readers' = IF dies THEN readers \ {r.to} ELSE readers
    /\ UNCHANGED <<row, active, proc, spawned, alive, mute, garbled, closed, exits, cancels, slow>>

(* Notifications of a turn.                                                *)
Notice(t, id, what) == [thread |-> Owner(t.turn), turn |-> id, what |-> what]
Pieces(t, k) == [i \in 1..k |-> Notice(t, t.turn, "delta")]

(* A running turn comes to its end, well formed or not: its pieces and the *)
(* end, which may not name the turn, arrive one behind the other.          *)
Notify(t) ==
    /\ t.at \in Heard
    /\ turns' = turns \ {t}
    /\ \E id \in {t.turn, NoTurn}, what \in {"good", "bad", "odd"} :
          /\ queue' = queue \o Append(Pieces(t, Deltas), Notice(t, id, what))
          /\ IF what = "good" THEN errors' = errors
             ELSE errors < MaxErrors /\ ~Troubled /\ errors' = errors + 1
    /\ UNCHANGED <<client, sent, ran, archived, procs, closed, exits, cancels, slow>>

(* The reader skips a line that is no JSON, and ends on one that is longer *)
(* than 64 KiB, no UTF-8 or no JSON object.  The line may have stood for   *)
(* an answer, or for a piece or the end of a turn: the server has done its *)
(* part, and nobody hears of it.                                           *)
Garble(p) ==
    /\ p \in Heard
    /\ errors < MaxErrors /\ ~Troubled /\ errors' = errors + 1
    /\ readers' = readers \ {p} /\ garbled' = garbled \cup {p}
    /\ \/ UNCHANGED <<queue, server>>
       \/ \E r \in sent : r.to = p /\ sent' = sent \ {r} /\ Served(r)
       \/ \E t \in turns, k \in 0..Deltas :
             /\ t.at = p /\ turns' = turns \ {t} /\ queue' = queue \o Pieces(t, k)
             /\ UNCHANGED <<sent, ran, archived>>
    /\ UNCHANGED <<client, proc, spawned, alive, mute, closed, exits, cancels, slow>>

(* A process exits.  Its reader fails every future that is still waited    *)
(* on; whoever waits for a notification is not told.                       *)
Exit(p) ==
    LET told == IF p \in readers THEN {a \in Agents : <<a, agent[a].n>> \in pending
                                                       /\ Awaited(<<a, agent[a].n>>)}
                ELSE {}
    IN
    /\ p \in alive
    /\ exits < MaxExits /\ ~Troubled
    /\ exits' = exits + 1
    /\ alive' = alive \ {p} /\ readers' = readers \ {p}
    /\ pending' = IF p \in readers THEN {} ELSE pending
    /\ agent' = [a \in Agents |-> IF a \in told
                                  THEN [agent[a] EXCEPT !.reply = "gone", !.saw = @ \cup {"failed"}]
                                  ELSE agent[a]]
    /\ sent' = {r \in sent : r.to # p}
    /\ turns' = {t \in turns : t.at # p}
    /\ UNCHANGED <<row, active, queue, ran, archived, proc, spawned, mute, garbled, closed, errors, cancels, slow>>

(* A process hangs: it answers and notifies no more.                       *)
Hang(p) ==
    /\ p \in alive \ mute
    /\ exits < MaxExits /\ ~Troubled
    /\ exits' = exits + 1
    /\ mute' = mute \cup {p}
    /\ UNCHANGED <<client, queue, server, proc, spawned, alive, readers, garbled, closed, errors, cancels, slow>>
-----------------------------------------------------------------------------
Step(a) ==
    \/ Spawn(a) \/ Initialized(a) \/ SessionStarted(a)
    \/ Attempt(a) \/ TurnStarted(a) \/ Read(a) \/ Interrupted(a)
    \/ CloseSession(a) \/ ClosingInterrupted(a) \/ Archived(a)
    \/ TurnTimeout(a) \/ CallTimeout(a)

Serve ==
    \/ \E r \in sent : \E result \in {"ok", "error", "odd"} : Answer(r, result)
    \/ \E t \in turns : Notify(t)

Next ==
    \/ \E a \in Agents : Begin(a) \/ Step(a) \/ SpawnFails(a) \/ Cancel(a)
    \/ Serve
    \/ \E p \in alive : Exit(p) \/ Hang(p) \/ Garble(p)
    \/ Close \/ Terminated

(* The event loop goes on as long as something can run, time passes, and a *)
(* server that neither exits nor hangs answers at last.  Fairness to each  *)
(* agent by itself is not needed: whatever runs comes to an end.           *)
Spec == Init /\ [][Next]_vars /\ WF_vars(Serve \/ \E a \in Agents : Step(a))
-----------------------------------------------------------------------------
(* Every agent call comes to an end: also when its notifications were      *)
(* taken by another turn, the process is gone or nobody reads its output.  *)
CallsEnd == []<>(\A a \in Agents : agent[a].pc \in {"idle", "done"})

(* The reader of the process stops reading only when a wait on a call was  *)
(* cut short, whose future is then found cancelled, or when the process    *)
(* wrote a line that is no message; a late answer to a call that timed out *)
(* and the end of a process that was replaced do it no harm                *)
(* (codex_app_server.py:86-89, 121-142).                                   *)
ReaderSurvives ==
    proc \in alive \ readers => proc \in garbled \/ \E a \in Agents : "cut" \in agent[a].saw

(* As long as none of its calls failed or was cut short, an agent has at   *)
(* most one turn running, and none once it is done: turns over their time  *)
(* and turns of a stopped session are interrupted.                         *)
TurnsMinded ==
    \A a \in Agents : agent[a].saw \cap {"failed", "cut"} = {} =>
        Cardinality({t \in turns : Owner(t.turn) = a}) <= IF At(a, "done") THEN 0 ELSE 1

(* The row accounts for every turn the server began, but for one whose     *)
(* agent was cancelled, and for every failure.                             *)
TurnsAccounted ==
    \A a \in Agents : At(a, "done") /\ row[a].status # "none" =>
        /\ "cancelled" \notin agent[a].saw => ran[a] <= row[a].calls
        /\ ran[a] <= row[a].calls + 1
        /\ agent[a].outcome = "answer" => row[a].failures = row[a].calls - 1

(* A session whose calls and turns all came to an end in time is closed:   *)
(* its thread is archived, its row says so.                                *)
SessionsClosed ==
    \A a \in Agents : At(a, "done") /\ agent[a].saw = {} =>
        a \in archived /\ row[a].status = "closed"

(* What each service makes of the end of its agent call.  start_session is *)
(* outside the try statement of the explorer, the evidence and the critic; *)
(* deep evaluation suppresses the runtime errors of the explorer only.     *)
Unexpected(a) == agent[a].outcome \in {"broken", "cancelled"}
Unstarted(a)  == row[a].status = "none"
Made(a, fallback) ==
    CASE agent[a].outcome = "answer" -> "answer" [] Unexpected(a) -> "raises" [] OTHER -> fallback

Synthesized(a) == Made(a, "draft")
Reviewed(a)    == Made(a, "reject")
Explored(a)    == Made(a, "nothing")
Collected(a)   == IF Unstarted(a) THEN "raises" ELSE Made(a, "uncertain")
Critiqued(a)   == IF Unstarted(a) THEN "raises" ELSE Made(a, "reject")

(* A failing runtime leaves the engine its deterministic draft, rejects    *)
(* the candidate, or leaves the evaluation without that part: once the     *)
(* session is started, it does not end the whole run with an error.        *)
FailureDegrades ==
    \A a \in Agents : At(a, "done") /\ agent[a].outcome # "cancelled" =>
        /\ "raises" \notin {Synthesized(a), Reviewed(a), Explored(a)}
        /\ ~Unstarted(a) => "raises" \notin {Collected(a), Critiqued(a)}
=============================================================================
