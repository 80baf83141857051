----------------------- MODULE WanderSessions_proofs -----------------------
(***************************************************************************)
(* A session is executed at most once at a time, for any sessions, callers *)
(* and bounds.  OneRunPerSession is not inductive: that submit() starts a  *)
(* task only when none is running rests on the registered task being the   *)
(* only one alive (Registered), on inline runs never meeting a poll or a   *)
(* recovery (InlineAlone), and on no write ever taking a row back to the   *)
(* state in which it could be created again (Born, Copied).                *)
(*                                                                         *)
(* No run slot of the coordinator is lost or returned twice.  The slot     *)
(* account changes with one execution at a time: Acquire takes a slot for  *)
(* a task that is queued (Queued: only tasks are), and every way out of    *)
(* "async with self._slots" gives it back.                                 *)
(*                                                                         *)
(* Who has a session in hand and who may write its row.  That an open row  *)
(* is in somebody's hands rests on every cancellation coming from a stop() *)
(* that still waits or from a shutdown (Cancelled), and on what a new      *)
(* process finds (Fresh).  That nobody writes over a stopped row rests on  *)
(* stop() marking it only when nothing runs (Quieted, Settled), and that   *)
(* only a stop() takes a row back on how the copies of runs and stops      *)
(* compare with the row (Followed).  A page that follows a session relies  *)
(* on the copies that may still be written over a final row having no more *)
(* steps than it (Bounded).  The proof describes what a step of an         *)
(* execution (Ran) and of a stop or delete call (Called) may do, and shows *)
(* that every action is of that form and that every step of that form      *)
(* keeps the invariant.                                                    *)
(*                                                                         *)
(* A session nobody stops keeps its contract.  That rests on the copy of   *)
(* whoever is going to write its row having the row's steps (Exact), but   *)
(* for the moment in which a stop() has raised its flag and not cancelled  *)
(* yet, and on a task marking its row only for a stop() that waits for it  *)
(* (Marking).                                                              *)
(***************************************************************************)
EXTENDS ProgressStream, FiniteSetTheorems, TLAPS

RunRec  == [pc : Live \cup {"idle", "done"}, by : {"task", "inline"},
            copy : Row, cancelling : BOOLEAN]
StopRec == [pc : {"idle", "put", "cancel", "await", "mget", "mput", "del"},
            op : {"stop", "delete"}, sess : Sessions, k : {1, 2}, copy : Row]

(* A live task is the one the coordinator has registered.                  *)
Registered ==
    \A s \in Sessions, k \in {1, 2} :
        IsLive(<<s, k>>) /\ run[<<s, k>>].by = "task" => tasks[s] = k

(* A live inline run is its session's first, and nothing else runs it.     *)
InlineAlone ==
    \A s \in Sessions, k \in {1, 2} :
        IsLive(<<s, k>>) /\ run[<<s, k>>].by = "inline" =>
            k = 1 /\ tasks[s] = 0 /\ s \in Inline /\ mode \in {"up", "stopping"}

(* Without a row there is no execution, task, poll or recovery.            *)
Born ==
    \A s \in Sessions :
        row[s].status = "none" =>
            /\ \A k \in {1, 2} : run[<<s, k>>].pc = "idle"
            /\ tasks[s] = 0
            /\ s \notin todo
            /\ ~(poll.pc = "submit" /\ poll.sess = s)

(* Whoever is going to write a whole row has read one that existed.        *)
Copied ==
    /\ \A r \in Runs : run[r].pc \in Writers => run[r].copy.status # "none"
    /\ \A p \in Stoppers : stop[p].pc = "put" => stop[p].copy.status # "none"

PollsPolled == poll.pc = "submit" => poll.sess \in Polled

IInv == TypeOK /\ Registered /\ InlineAlone /\ Born /\ Copied /\ PollsPolled
-----------------------------------------------------------------------------
(* What a step of execution r does to the executions and the stop calls,   *)
(* and what it may do to the rows.                                         *)
Advanced(r) ==
    /\ run' \in [Runs -> RunRec]
    /\ run'[r].by = run[r].by
    /\ \A q \in Runs : q # r => run'[q] = run[q]
    /\ run'[r].pc \in Writers => run'[r].copy.status # "none"
    /\ free' \in Nat
    /\ stop' \in [Stoppers -> StopRec]
    /\ \A p \in Stoppers : stop'[p].pc = "put" => stop'[p].copy.status # "none"

Kept ==
    /\ row' \in [Sessions -> Row]
    /\ \A s \in Sessions : row'[s].status = "none" => row[s].status = "none"

LEMMA Constants == /\ Sessions # {}
                   /\ MaxConcurrent \in Nat
                   /\ (CHOOSE s \in Sessions : TRUE) \in Sessions
                   /\ NoStop \in StopRec
                   /\ NoRun \in RunRec
                   /\ NoRow \in Row /\ NewRow \in Row
                   /\ NewRow.status = "pending"
                   /\ "idle" \notin Live /\ "done" \notin Live
  BY ConstantsAssumption
  DEF ConstantsAssumption, NoStop, StopRec, NoRun, RunRec, NoRow, NewRow, Row, Open, Terminal,
      Live, Slotted, InTry, Handler

LEMMA Types == ASSUME TypeOK
               PROVE  /\ row \in [Sessions -> Row]
                      /\ run \in [Runs -> RunRec]
                      /\ tasks \in [Sessions -> 0 .. 2]
                      /\ free \in Nat
                      /\ stop \in [Stoppers -> StopRec]
  BY DEF TypeOK, RunRec, StopRec

(* Waking the gathering callers leaves their copies alone.                 *)
LEMMA WakeOk ==
  ASSUME TypeOK, Copied, NEW r \in Runs, Wake(r)
  PROVE  /\ stop' \in [Stoppers -> StopRec]
         /\ \A p \in Stoppers : stop'[p].pc = "put" => stop'[p].copy.status # "none"
  BY Types DEF Wake, Copied, StopRec

LEMMA ExitOk ==
  ASSUME TypeOK, Copied, NEW r \in Runs, NEW pc \in {"done", "hget", "markget"}, Exit(r, pc)
  PROVE  Advanced(r)
<1>1. run' = [run EXCEPT ![r] = [NoRun EXCEPT !.pc = pc, !.by = run[r].by]]
  BY DEF Exit
<1>2. pc \in Live \cup {"done"} /\ pc \notin Writers
  BY DEF Live, Handler, Writers, InTry
<1>3. /\ run' \in [Runs -> RunRec]
      /\ run'[r].by = run[r].by
      /\ run'[r].pc = pc
      /\ \A q \in Runs : q # r => run'[q] = run[q]
  BY <1>1, <1>2, Types, Constants DEF NoRun, RunRec
<1>4. free' \in Nat
  BY Types DEF Exit
<1>5. /\ stop' \in [Stoppers -> StopRec]
      /\ \A p \in Stoppers : stop'[p].pc = "put" => stop'[p].copy.status # "none"
  <2>1. CASE pc = "done"
    BY <2>1, WakeOk DEF Exit
  <2>2. CASE pc # "done"
    BY <2>2, Types DEF Exit, Copied
  <2> QED BY <2>1, <2>2
<1> QED BY <1>2, <1>3, <1>4, <1>5 DEF Advanced

LEMMA GotoOk ==
  ASSUME TypeOK, Copied, NEW r \in Runs, NEW pc \in Live, Goto(r, pc),
         pc \in Writers => run[r].copy.status # "none"
  PROVE  Advanced(r)
<1>1. /\ run' \in [Runs -> RunRec]
      /\ run'[r] = [run[r] EXCEPT !.pc = pc]
      /\ \A q \in Runs : q # r => run'[q] = run[q]
  BY Types DEF Goto, RunRec
<1>2. run'[r].by = run[r].by /\ run'[r].copy = run[r].copy /\ run'[r].pc = pc
  BY <1>1, Types DEF RunRec
<1> QED BY <1>1, <1>2, Types DEF Goto, Advanced, Copied

LEMMA RaiseOk ==
  ASSUME TypeOK, Copied, NEW r \in Runs, Raise(r)
  PROVE  Advanced(r)
<1>1. CASE run[r].pc \in InTry
  <2>1. run[r].copy.status # "none"
    BY <1>1 DEF Copied, Writers
  <2>2. PICK pc \in {"failing", "fail"} : Goto(r, pc)
    BY <1>1 DEF Raise
  <2>3. pc \in Live
    BY DEF Live, Slotted
  <2> QED BY <2>1, <2>2, <2>3, GotoOk
<1>2. CASE run[r].pc \notin InTry
  BY <1>2, ExitOk DEF Raise
<1> QED BY <1>1, <1>2

LEMMA PutOk ==
  ASSUME TypeOK, Copied, NEW r \in Runs, NEW copy \in Row, NEW next \in SUBSET Live,
         copy.status # "none", Put(r, copy, next)
  PROVE  Advanced(r) /\ Kept
<1>0. r[1] \in Sessions
  BY DEF Runs
<1>1. CASE Saved(r[1])
  <2>1. Kept
    BY <1>0, <1>1, Types DEF Put, Kept
  <2>2. PICK pc \in next : run' = [run EXCEPT ![r].pc = pc, ![r].copy = copy]
    BY <1>1 DEF Put
  <2>3. /\ run' \in [Runs -> RunRec]
        /\ run'[r].by = run[r].by
        /\ run'[r].copy = copy
        /\ \A q \in Runs : q # r => run'[q] = run[q]
    BY <2>2, Types DEF RunRec
  <2> QED BY <1>1, <2>1, <2>3, Types DEF Put, Advanced, Copied
<1>2. CASE ~Saved(r[1])
  BY <1>2, RaiseOk, Types DEF Put, Kept
<1> QED BY <1>1, <1>2

(* Every action of an execution, one by one.                               *)
LEMMA RunStepOk ==
  ASSUME TypeOK, Copied, NEW r \in Runs, RunStep(r)
  PROVE  Advanced(r) /\ Kept /\ IsLive(r)
<1>0. r[1] \in Sessions /\ run[r] \in RunRec /\ run[r].copy \in Row /\ row[r[1]] \in Row
  BY Types DEF Runs, RunRec
<1>1. Recorded(r) \in Row /\ Recorded(r).status = run[r].copy.status
  BY <1>0 DEF Recorded, Row
<1>2. \A st \in Open \cup Terminal :
          /\ [run[r].copy EXCEPT !.status = st] \in Row
          /\ [run[r].copy EXCEPT !.status = st].status = st
          /\ st # "none"
  BY <1>0 DEF Row, Open, Terminal
<1>3. row' = row => Kept
  BY Types DEF Kept
<1>4. \A pc \in InTry \cup {"begin", "failing", "fail", "seedfail", "hput"} :
          run[r].pc = pc => run[r].copy.status # "none"
  BY DEF Copied, Writers
<1>5. CASE Start(r)
  BY <1>5, <1>3, GotoOk DEF Start, At, IsLive, Live, Writers, InTry
<1>6. CASE Acquire(r)
  <2>1. /\ run' = [run EXCEPT ![r].pc = "get"]
        /\ free \in Nat /\ free > 0 /\ free' = free - 1
        /\ row' = row /\ stop' = stop /\ run[r].pc = "slot"
    BY <1>6, Types DEF Acquire, At
  <2>2. /\ run' \in [Runs -> RunRec]
        /\ run'[r].by = run[r].by
        /\ run'[r].pc = "get"
        /\ \A q \in Runs : q # r => run'[q] = run[q]
    BY <2>1, Types DEF RunRec, Live, Slotted
  <2>3. free' \in Nat
    BY <2>1
  <2>4. "get" \notin Writers /\ "slot" \in Live
    BY DEF Writers, InTry, Live
  <2> QED BY <2>1, <2>2, <2>3, <2>4, <1>3, Types DEF Advanced, Copied, IsLive
<1>7. CASE Get(r)
  <2>1. run[r].pc = "get" /\ row' = row /\ IsLive(r)
    BY <1>7 DEF Get, At, IsLive, Live, Slotted
  <2>2. CASE row[r[1]].status \in Open
    <3>1. PICK pc \in {"begin", "seedfail"} :
              /\ run' = [run EXCEPT ![r].pc = pc, ![r].copy = row[r[1]]]
              /\ UNCHANGED <<free, stop>>
      BY <1>7, <2>2 DEF Get
    <3>2. /\ run' \in [Runs -> RunRec]
          /\ run'[r].by = run[r].by
          /\ run'[r].copy = row[r[1]]
          /\ \A q \in Runs : q # r => run'[q] = run[q]
      BY <3>1, <1>0, Types DEF RunRec, Live, Slotted
    <3>3. row[r[1]].status # "none"
      BY <2>2 DEF Open
    <3> QED BY <2>1, <3>1, <3>2, <3>3, <1>3, Types DEF Advanced, Copied
  <2>3. CASE row[r[1]].status \notin Open
    BY <1>7, <2>1, <2>3, <1>3, GotoOk DEF Get, Live, Slotted, Writers, InTry
  <2> QED BY <2>2, <2>3
<1>8. CASE SeedFail(r)
  <2>1. {"leave"} \in SUBSET Live /\ "seedfail" \in Live /\ "failed" \in Open \cup Terminal
    BY DEF Live, Slotted, Terminal
  <2> QED BY <1>8, <1>2, <2>1, PutOk DEF SeedFail, At, IsLive
<1>9. CASE Leave(r)
  BY <1>9, <1>3, ExitOk DEF Leave, At, IsLive, Live, Slotted
<1>10. CASE Begin(r)
  <2>1. {"setup"} \in SUBSET Live /\ "begin" \in Live
    BY DEF Live, Slotted, InTry
  <2> DEFINE c == [run[r].copy EXCEPT !.status = "running", !.cancel = FALSE]
  <2>2. c \in Row /\ c.status = "running"
    BY <1>0 DEF Row, Open
  <2>3. Put(r, c, {"setup"}) /\ run[r].pc = "begin"
    BY <1>10 DEF Begin, At
  <2> HIDE DEF c
  <2> QED BY <2>1, <2>2, <2>3, PutOk DEF IsLive
<1>11. CASE Setup(r)
  <2>1. {"check", "halting"} \in SUBSET Live /\ "setup" \in Live /\ "setup" \in InTry
    BY DEF Live, Slotted, InTry
  <2>2. Put(r, Recorded(r), {"check", "halting"}) /\ run[r].pc = "setup"
    BY <1>11 DEF Setup, At
  <2> QED BY <1>1, <1>4, <2>1, <2>2, PutOk DEF IsLive
<1>12. CASE Check(r)
  <2>1. "check" \in Live /\ "check" \in InTry /\ {"halting", "work", "closing"} \subseteq Live
    BY DEF Live, Slotted, InTry
  <2>2. run[r].pc = "check" /\ row' = row
    BY <1>12 DEF Check, At
  <2>3. PICK pc \in {"halting", "work", "closing"} : Goto(r, pc)
    BY <1>12 DEF Check
  <2> QED BY <1>3, <1>4, <2>1, <2>2, <2>3, GotoOk DEF IsLive
<1>13. CASE Work(r)
  <2>1. /\ {"work", "check", "closing"} \in SUBSET Live /\ {"check", "closing"} \in SUBSET Live
        /\ "work" \in Live /\ "work" \in InTry
    BY DEF Live, Slotted, InTry
  <2>2. /\ run[r].pc = "work"
        /\ \/ Put(r, Recorded(r), {"work", "check", "closing"})
           \/ Put(r, Recorded(r), {"check", "closing"})
    BY <1>13 DEF Work, At
  <2> QED BY <1>1, <1>4, <2>1, <2>2, PutOk DEF IsLive
<1>14. CASE Closing(r) \/ Halting(r) \/ Failing(r)
  <2>1. /\ \A pc \in {"finish", "halt", "fail"} : {pc} \in SUBSET Live
        /\ {"closing", "halting", "failing"} \subseteq Live
        /\ {"closing", "halting", "failing"} \subseteq Writers
    BY DEF Live, Slotted, InTry, Writers
  <2>2. /\ run[r].pc \in {"closing", "halting", "failing"}
        /\ \E pc \in {"finish", "halt", "fail"} : Put(r, Recorded(r), {pc})
    BY <1>14 DEF Closing, Halting, Failing, At
  <2>3. run[r].copy.status # "none"
    BY <2>1, <2>2 DEF Copied
  <2> QED BY <1>1, <2>1, <2>2, <2>3, PutOk DEF IsLive
<1>15. CASE Finish(r) \/ Halt(r)
  <2>1. {"leave"} \in SUBSET Live /\ "finish" \in Live /\ "halt" \in Live
    BY DEF Live, Slotted, InTry
  <2>2. PICK st \in {"completed", "stopped"} :
            Put(r, [run[r].copy EXCEPT !.status = st], {"leave"})
    BY <1>15 DEF Finish, Halt
  <2>3. st \in Open \cup Terminal /\ run[r].pc \in {"finish", "halt"}
    BY <1>15 DEF Terminal, Finish, Halt, At
  <2> QED BY <1>2, <2>1, <2>2, <2>3, PutOk DEF IsLive
<1>16. CASE Fail(r)
  <2>1. run[r].pc = "fail" /\ Raise(r) /\ "fail" \in Live /\ "failed" \in Open \cup Terminal
    BY <1>16 DEF Fail, At, Live, Slotted, Terminal
  <2>2. row' = row \/ row' = [row EXCEPT ![r[1]] = [run[r].copy EXCEPT !.status = "failed"]]
    BY <1>16 DEF Fail
  <2>3. Kept
    BY <1>0, <1>2, <2>1, <2>2, Types DEF Kept
  <2> QED BY <2>1, <2>3, RaiseOk DEF IsLive
<1>17. CASE HandleGet(r) \/ MarkGet(r)
  <2>1. run[r].pc \in {"hget", "markget"} /\ row' = row /\ IsLive(r)
    BY <1>17 DEF HandleGet, MarkGet, At, IsLive, Live, Handler
  <2>2. \/ Exit(r, "done")
        \/ /\ row[r[1]].status # "none"
           /\ UNCHANGED <<free, stop>>
           /\ \E pc \in {"hput", "markput"} :
                 run' = [run EXCEPT ![r].pc = pc, ![r].copy = row[r[1]]]
    BY <1>17 DEF HandleGet, MarkGet, Open
  <2>3. CASE Exit(r, "done")
    BY <2>1, <2>3, <1>3, ExitOk
  <2>4. CASE /\ row[r[1]].status # "none"
             /\ UNCHANGED <<free, stop>>
             /\ \E pc \in {"hput", "markput"} :
                   run' = [run EXCEPT ![r].pc = pc, ![r].copy = row[r[1]]]
    <3>1. PICK pc \in {"hput", "markput"} :
              run' = [run EXCEPT ![r].pc = pc, ![r].copy = row[r[1]]]
      BY <2>4
    <3>2. /\ run' \in [Runs -> RunRec]
          /\ run'[r].by = run[r].by
          /\ run'[r].copy = row[r[1]]
          /\ \A q \in Runs : q # r => run'[q] = run[q]
      BY <3>1, <1>0, Types DEF RunRec, Live, Handler
    <3> QED BY <2>1, <2>4, <3>2, <1>3, Types DEF Advanced, Copied
  <2> QED BY <2>2, <2>3, <2>4
<1>18. CASE HandlePut(r) \/ MarkPut(r)
  <2>1. /\ run[r].pc \in {"hput", "markput"} /\ IsLive(r) /\ Exit(r, "done")
        /\ "failed" \in Open \cup Terminal
    BY <1>18 DEF HandlePut, MarkPut, At, IsLive, Live, Handler, Terminal
  <2>2. \/ row' = row
        \/ row' = [row EXCEPT ![r[1]] = [run[r].copy EXCEPT !.status = "failed"]]
        \/ row' = [row EXCEPT ![r[1]] = Marked(run[r].copy)]
    BY <1>18 DEF HandlePut, MarkPut
  <2>3. Marked(run[r].copy) \in Row /\ Marked(run[r].copy).status = "stopped"
    BY <1>0 DEF Marked, Row, Terminal
  <2>4. Kept
    BY <1>0, <1>2, <2>1, <2>2, <2>3, Types DEF Kept
  <2> QED BY <2>1, <2>4, ExitOk
<1>19. CASE Deliver(r)
  BY <1>19, <1>3, ExitOk DEF Deliver
<1> QED
  BY <1>5, <1>6, <1>7, <1>8, <1>9, <1>10, <1>11, <1>12, <1>13, <1>14, <1>15, <1>16, <1>17,
     <1>18, <1>19 DEF RunStep
-----------------------------------------------------------------------------
(* Steps of a live execution keep the invariant.                           *)
LEMMA AdvanceKeeps ==
  ASSUME IInv, NEW r \in Runs, Advanced(r), Kept, IsLive(r),
         UNCHANGED <<tasks, poll, mode, todo, restarts>>, faults' \in Nat
  PROVE  IInv'
<1> USE DEF IInv
<1>0. \A s \in Sessions, k \in {1, 2} : <<s, k>> \in Runs
  BY DEF Runs
<1>1. TypeOK'
  BY DEF TypeOK, Advanced, Kept, RunRec, StopRec
<1>2. \A q \in Runs : IsLive(q)' => IsLive(q) /\ run'[q].by = run[q].by
  BY DEF Advanced, IsLive
<1>3. Registered'
  BY <1>0, <1>2 DEF Registered
<1>4. InlineAlone'
  BY <1>0, <1>2 DEF InlineAlone
<1>5. Born'
  <2> SUFFICES ASSUME NEW s \in Sessions, row'[s].status = "none"
               PROVE  /\ \A k \in {1, 2} : run'[<<s, k>>].pc = "idle"
                      /\ tasks'[s] = 0
                      /\ s \notin todo'
                      /\ ~(poll'.pc = "submit" /\ poll'.sess = s)
    BY DEF Born
  <2>1. row[s].status = "none"
    BY DEF Kept
  <2>2. \A k \in {1, 2} : run[<<s, k>>].pc = "idle" /\ <<s, k>> # r
    <3>1. run[r].pc # "idle"
      BY Constants DEF IsLive
    <3>2. \A k \in {1, 2} : run[<<s, k>>].pc = "idle"
      BY <2>1 DEF Born
    <3> QED BY <3>1, <3>2
  <2> QED BY <2>1, <2>2, <1>0 DEF Born, Advanced
<1>6. Copied'
  BY DEF Copied, Advanced
<1>7. PollsPolled'
  BY DEF PollsPolled
<1> QED BY <1>1, <1>3, <1>4, <1>5, <1>6, <1>7

(* Steps that start, end and move no execution and register no task.       *)
Unmoved ==
    /\ run' \in [Runs -> RunRec]
    /\ \A q \in Runs : run'[q].pc = run[q].pc /\ run'[q].by = run[q].by
                        /\ run'[q].copy = run[q].copy

Polls == [pc : {"idle", "submit"}, sess : Sessions]

LEMMA QuietKeeps ==
  ASSUME IInv, Kept, Unmoved, tasks' = tasks, free' = free, restarts' \in Nat, faults' \in Nat,
         mode' \in {"up", "stopping", "down", "recovering"},
         mode \in {"up", "stopping"} => mode' \in {"up", "stopping"},
         todo' \subseteq {s \in Sessions : s \in todo \/ row[s].status # "none"},
         poll' \in Polls,
         poll'.pc = "submit" => /\ poll'.sess \in Polled
                                /\ row[poll'.sess].status # "none",
         stop' \in [Stoppers -> StopRec],
         \A p \in Stoppers : stop'[p].pc = "put" => stop'[p].copy.status # "none"
  PROVE  IInv'
<1> USE DEF IInv
<1>0. \A s \in Sessions, k \in {1, 2} : <<s, k>> \in Runs
  BY DEF Runs
<1>1. TypeOK'
  BY DEF TypeOK, Kept, StopRec, RunRec, Unmoved, Polls
<1>2. \A q \in Runs : IsLive(q)' <=> IsLive(q)
  BY DEF Unmoved, IsLive
<1>3. Registered' /\ InlineAlone'
  BY <1>0, <1>2 DEF Registered, InlineAlone, Unmoved
<1>4. Born'
  BY <1>0 DEF Born, Kept, Unmoved
<1>5. Copied' /\ PollsPolled'
  BY DEF Copied, PollsPolled, Unmoved
<1> QED BY <1>1, <1>3, <1>4, <1>5

(* What the lemma above asks of a step that leaves the poll alone.         *)
LEMMA PollOk == ASSUME IInv
                PROVE  /\ poll \in Polls
                       /\ poll.pc = "submit" => /\ poll.sess \in Polled
                                                /\ row[poll.sess].status # "none"
                       /\ NoPoll \in Polls /\ NoPoll.pc = "idle"
                       /\ todo \subseteq Sessions
                       /\ mode \in {"up", "stopping", "down", "recovering"}
                       /\ restarts \in Nat /\ faults \in Nat
  BY Constants DEF IInv, TypeOK, Polls, PollsPolled, Born, NoPoll

(* submit() for a session that is not running inline.                      *)
LEMMA SubmitOk ==
  ASSUME IInv, NEW s \in Sessions, Submit(s),
         \A k \in {1, 2} : ~(IsLive(<<s, k>>) /\ run[<<s, k>>].by = "inline")
  PROVE  /\ run' \in [Runs -> RunRec]
         /\ tasks' \in [Sessions -> 0 .. 2]
         /\ Registered'
         /\ \A q \in Runs : q[1] # s => run'[q] = run[q]
         /\ \A t \in Sessions : t # s => tasks'[t] = tasks[t]
         /\ \A k \in {1, 2} : ~(IsLive(<<s, k>>)' /\ run'[<<s, k>>].by = "inline")
         /\ \A q \in Runs : run'[q].pc \in Writers => run'[q] = run[q]
<1> USE DEF IInv
<1>0. \A t \in Sessions, k \in {1, 2} : <<t, k>> \in Runs /\ <<t, k>>[1] = t
  BY DEF Runs
<1>1. CASE TaskActive(s)
  BY <1>1, Types DEF Submit, Registered, IsLive
<1>2. CASE ~TaskActive(s)
  <2> DEFINE k == IF run[<<s, 1>>].pc = "idle" THEN 1 ELSE 2
             ready == [NoRun EXCEPT !.pc = "ready"]
  <2>1. /\ run' = [run EXCEPT ![<<s, k>>] = ready]
        /\ tasks' = [tasks EXCEPT ![s] = k]
        /\ k \in {1, 2}
    BY <1>2 DEF Submit
  <2>2. ready \in RunRec /\ ready.pc = "ready" /\ ready.by = "task" /\ ready.pc \notin Writers
    BY Constants DEF NoRun, RunRec, Live, Writers, InTry
  <2> HIDE DEF ready, k
  <2>3. /\ run' \in [Runs -> RunRec]
        /\ run'[<<s, k>>] = ready
        /\ \A q \in Runs : q # <<s, k>> => run'[q] = run[q]
    BY <1>0, <2>1, <2>2, Types
  <2>4. /\ tasks' \in [Sessions -> 0 .. 2]
        /\ tasks'[s] = k
        /\ \A t \in Sessions : t # s => tasks'[t] = tasks[t]
    BY <2>1, Types
  <2>5. \A j \in {1, 2} : ~IsLive(<<s, j>>)
    <3> SUFFICES ASSUME NEW j \in {1, 2}, IsLive(<<s, j>>) PROVE FALSE
      OBVIOUS
    <3>1. run[<<s, j>>].by = "task"
      BY <1>0, Types DEF RunRec
    <3>2. tasks[s] = j
      BY <3>1 DEF Registered
    <3> QED BY <3>2, <1>2, Constants DEF TaskActive, IsLive
  <2>6. Registered'
    <3> SUFFICES ASSUME NEW t \in Sessions, NEW j \in {1, 2},
                        IsLive(<<t, j>>)', run'[<<t, j>>].by = "task"
                 PROVE  tasks'[t] = j
      BY DEF Registered
    <3>1. CASE t = s
      <4>1. j = k
        BY <1>0, <2>1, <2>3, <2>5, <3>1 DEF IsLive
      <4> QED BY <4>1, <3>1, <2>4
    <3>2. CASE t # s
      <4>1. run'[<<t, j>>] = run[<<t, j>>] /\ <<t, j>> # <<s, k>>
        BY <1>0, <2>3, <3>2
      <4> QED BY <4>1, <3>2, <2>4 DEF Registered, IsLive
    <3> QED BY <3>1, <3>2
  <2>7. \A q \in Runs : q[1] # s => q # <<s, k>>
    BY <2>1, <1>0
  <2>8. \A j \in {1, 2} : ~(IsLive(<<s, j>>)' /\ run'[<<s, j>>].by = "inline")
    BY <1>0, <2>1, <2>2, <2>3, <2>5 DEF IsLive
  <2> QED BY <2>2, <2>3, <2>4, <2>6, <2>7, <2>8
<1> QED BY <1>1, <1>2

(* A submit, and what its callers do besides.                              *)
LEMMA SubmitKeeps ==
  ASSUME IInv, NEW s \in Sessions, Submit(s),
         \A k \in {1, 2} : ~(IsLive(<<s, k>>) /\ run[<<s, k>>].by = "inline"),
         Kept, row'[s].status # "none",
         UNCHANGED <<free, stop, mode, restarts, faults>>,
         todo' \subseteq todo,
         poll' = poll \/ poll' = NoPoll
  PROVE  IInv'
<1> USE DEF IInv
<1>0. \A t \in Sessions, k \in {1, 2} : <<t, k>> \in Runs /\ <<t, k>>[1] = t
  BY DEF Runs
<1>1. /\ NoPoll \in [pc : {"idle", "submit"}, sess : Sessions]
      /\ NoPoll.pc = "idle"
  BY Constants DEF NoPoll
<1>2. TypeOK'
  <2>1. run' \in [Runs -> RunRec] /\ tasks' \in [Sessions -> 0 .. 2] /\ row' \in [Sessions -> Row]
    BY SubmitOk DEF Kept
  <2>2. poll' \in [pc : {"idle", "submit"}, sess : Sessions]
    BY <1>1 DEF TypeOK
  <2> QED BY <2>1, <2>2 DEF TypeOK, RunRec
<1>3. Registered'
  BY SubmitOk
<1>4. InlineAlone'
  <2> SUFFICES ASSUME NEW t \in Sessions, NEW k \in {1, 2},
                      IsLive(<<t, k>>)', run'[<<t, k>>].by = "inline"
               PROVE  k = 1 /\ tasks'[t] = 0 /\ t \in Inline /\ mode' \in {"up", "stopping"}
    BY DEF InlineAlone
  <2>1. t # s
    BY SubmitOk
  <2>2. run'[<<t, k>>] = run[<<t, k>>] /\ tasks'[t] = tasks[t]
    BY <2>1, <1>0, SubmitOk
  <2> QED BY <2>2 DEF InlineAlone, IsLive
<1>5. Born'
  <2> SUFFICES ASSUME NEW t \in Sessions, row'[t].status = "none"
               PROVE  /\ \A k \in {1, 2} : run'[<<t, k>>].pc = "idle"
                      /\ tasks'[t] = 0
                      /\ t \notin todo'
                      /\ ~(poll'.pc = "submit" /\ poll'.sess = t)
    BY DEF Born
  <2>1. t # s /\ row[t].status = "none"
    BY DEF Kept
  <2>2. tasks'[t] = tasks[t] /\ \A k \in {1, 2} : run'[<<t, k>>] = run[<<t, k>>]
    BY <2>1, <1>0, SubmitOk
  <2> QED BY <2>1, <2>2, <1>1 DEF Born
<1>6. Copied'
  BY SubmitOk DEF Copied
<1>7. PollsPolled'
  BY <1>1 DEF PollsPolled
<1> QED BY <1>2, <1>3, <1>4, <1>5, <1>6, <1>7
-----------------------------------------------------------------------------
LEMMA InitInv == Init => IInv
<1> SUFFICES ASSUME Init PROVE IInv
  OBVIOUS
<1>1. TypeOK
  <2>1. NoPoll \in [pc : {"idle", "submit"}, sess : Sessions]
    BY Constants DEF NoPoll
  <2> QED BY <2>1, Constants DEF Init, TypeOK, RunRec, StopRec
<1>2. \A r \in Runs : run[r].pc = "idle"
  BY DEF Init, NoRun
<1>3. \A s \in Sessions, k \in {1, 2} : <<s, k>> \in Runs
  BY DEF Runs
<1>4. Registered /\ InlineAlone
  BY <1>2, <1>3, Constants DEF Registered, InlineAlone, IsLive
<1>5. Born /\ PollsPolled
  BY <1>2, <1>3 DEF Init, Born, PollsPolled, NoPoll
<1>6. Copied
  BY <1>2 DEF Init, Copied, NoStop, Writers, InTry
<1> QED BY <1>1, <1>4, <1>5, <1>6 DEF IInv

(* The calls of stop and delete.  The one that cancels marks the task.     *)
StopsOk ==
    /\ stop' \in [Stoppers -> StopRec]
    /\ \A q \in Stoppers : stop'[q].pc = "put" => stop'[q].copy.status # "none"

LEMMA UnmovedOk == ASSUME TypeOK, run' = run PROVE Unmoved
  BY Types DEF Unmoved

LEMMA StopGotoOk ==
  ASSUME TypeOK, Copied, NEW p \in Stoppers,
         NEW pc \in {"idle", "cancel", "await", "mget", "mput", "del"}, StopGoto(p, pc)
  PROVE  StopsOk
<1>1. CASE pc = "idle"
  <2>1. NoStop.pc # "put"
    BY DEF NoStop
  <2> QED BY <1>1, <2>1, Types, Constants DEF StopGoto, Copied, StopsOk
<1>2. CASE pc # "idle"
  BY <1>2, Types DEF StopGoto, StopRec, Copied, StopsOk
<1> QED BY <1>1, <1>2

LEMMA StopStepOk ==
  ASSUME IInv, NEW p \in Stoppers, StopStep(p)
  PROVE  Kept /\ Unmoved /\ StopsOk
<1> USE DEF IInv
<1>0. /\ stop[p] \in StopRec /\ stop[p].sess \in Sessions /\ stop[p].copy \in Row
      /\ row[stop[p].sess] \in Row
  BY Types DEF StopRec
<1>2. Then(p) \in {"idle", "del"}
  BY DEF Then
<1>3. row' = row => Kept
  BY Types DEF Kept
<1>4. CASE StopPut(p)
  <2>1. [stop[p].copy EXCEPT !.cancel = TRUE] \in Row
        /\ [stop[p].copy EXCEPT !.cancel = TRUE].status = stop[p].copy.status
    BY <1>0 DEF Row
  <2>2. stop[p].copy.status # "none"
    BY <1>4 DEF StopPut, Copied
  <2>3. Kept
    BY <1>0, <1>3, <1>4, <2>1, <2>2, Types DEF StopPut, Kept
  <2>4. StopGoto(p, "cancel") \/ StopGoto(p, "idle")
    BY <1>4 DEF StopPut
  <2> QED BY <1>4, <2>3, <2>4, StopGotoOk, UnmovedOk DEF StopPut
<1>5. CASE StopCancel(p)
  <2> DEFINE s == stop[p].sess
  <2>1. row' = row
    BY <1>5 DEF StopCancel
  <2>2. CASE TaskActive(s)
    <3>1. <<s, tasks[s]>> \in Runs /\ tasks[s] \in {1, 2}
      BY <1>0, <2>2, Types DEF TaskActive, Runs
    <3>2. /\ run' = [run EXCEPT ![<<s, tasks[s]>>].cancelling = TRUE]
          /\ stop' = [stop EXCEPT ![p].pc = "await", ![p].k = tasks[s]]
      BY <1>5, <2>2 DEF StopCancel
    <3>3. Unmoved
      BY <3>1, <3>2, Types DEF Unmoved, RunRec
    <3>4. StopsOk
      BY <3>1, <3>2, Types DEF StopsOk, StopRec, Copied
    <3> QED BY <1>3, <2>1, <3>3, <3>4
  <2>3. CASE ~TaskActive(s)
    BY <1>3, <1>5, <2>1, <2>3, StopGotoOk, UnmovedOk DEF StopCancel
  <2> QED BY <2>2, <2>3
<1>6. CASE StopMarkGet(p)
  <2>1. row' = row /\ run' = run
    BY <1>6 DEF StopMarkGet
  <2>2. \/ stop' = [stop EXCEPT ![p].pc = "mput", ![p].copy = row[stop[p].sess]]
        \/ StopGoto(p, Then(p))
    BY <1>6 DEF StopMarkGet
  <2>3. StopsOk
    BY <1>0, <1>2, <2>2, StopGotoOk, Types DEF StopsOk, StopRec, Copied
  <2> QED BY <1>3, <2>1, <2>3, UnmovedOk
<1>7. CASE StopMarkPut(p)
  <2>1. Marked(stop[p].copy) \in Row /\ Marked(stop[p].copy).status = "stopped"
    BY <1>0 DEF Marked, Row, Terminal
  <2>2. Kept
    BY <1>0, <1>3, <1>7, <2>1, Types DEF StopMarkPut, Kept
  <2>3. run' = run /\ (StopGoto(p, Then(p)) \/ StopGoto(p, "idle"))
    BY <1>7 DEF StopMarkPut
  <2> QED BY <1>2, <2>2, <2>3, StopGotoOk, UnmovedOk
<1>8. CASE Delete(p)
  <2>1. [NoRow EXCEPT !.status = "deleted"] \in Row
        /\ [NoRow EXCEPT !.status = "deleted"].status = "deleted"
    BY DEF NoRow, Row
  <2>2. Kept
    BY <1>0, <1>8, <2>1, Types DEF Delete, Kept
  <2>3. run' = run /\ StopGoto(p, "idle")
    BY <1>8 DEF Delete
  <2> QED BY <2>2, <2>3, StopGotoOk, UnmovedOk
<1> QED BY <1>4, <1>5, <1>6, <1>7, <1>8 DEF StopStep
-----------------------------------------------------------------------------
LEMMA CreateKeeps ==
  ASSUME IInv, NEW s \in Sessions, Create(s)
  PROVE  IInv'
<1> USE DEF IInv
<1>1. /\ row' = [row EXCEPT ![s] = NewRow] /\ Submit(s) /\ s \notin Inline
      /\ UNCHANGED <<free, stop, poll, mode, todo, restarts, faults>>
  BY DEF Create
<1>2. Kept /\ row'[s].status # "none"
  BY <1>1, Types, Constants DEF Kept
<1>3. \A k \in {1, 2} : ~(IsLive(<<s, k>>) /\ run[<<s, k>>].by = "inline")
  BY <1>1 DEF InlineAlone
<1> QED BY <1>1, <1>2, <1>3, SubmitKeeps

LEMMA CreateInlineKeeps ==
  ASSUME IInv, NEW s \in Sessions, CreateInline(s)
  PROVE  IInv'
<1> USE DEF IInv
<1> DEFINE new == [NoRun EXCEPT !.pc = "begin", !.by = "inline", !.copy = NewRow]
<1>0. \A t \in Sessions, k \in {1, 2} : <<t, k>> \in Runs
  BY DEF Runs
<1>1. /\ row' = [row EXCEPT ![s] = NewRow] /\ row[s].status = "none"
      /\ run' = [run EXCEPT ![<<s, 1>>] = new]
      /\ UNCHANGED <<tasks, free, stop, poll, mode, todo, restarts, faults>>
      /\ s \in Inline /\ mode = "up"
  BY DEF CreateInline
<1>2. new \in RunRec /\ new.pc = "begin" /\ new.by = "inline" /\ new.copy.status # "none"
  BY Constants DEF NoRun, RunRec, Live, Slotted
<1> HIDE DEF new
<1>3. /\ run' \in [Runs -> RunRec]
      /\ run'[<<s, 1>>] = new
      /\ \A q \in Runs : q # <<s, 1>> => run'[q] = run[q]
  BY <1>0, <1>1, <1>2, Types
<1>4. Kept /\ row'[s].status # "none" /\ \A t \in Sessions : t # s => row'[t] = row[t]
  BY <1>1, Types, Constants DEF Kept
<1>5. tasks[s] = 0 /\ \A k \in {1, 2} : run[<<s, k>>].pc = "idle"
  BY <1>1 DEF Born
<1>6. TypeOK'
  BY <1>1, <1>3, <1>4 DEF TypeOK, Kept, RunRec
<1>7. Registered'
  <2> SUFFICES ASSUME NEW t \in Sessions, NEW k \in {1, 2},
                      IsLive(<<t, k>>)', run'[<<t, k>>].by = "task"
               PROVE  tasks'[t] = k
    BY DEF Registered
  <2>1. <<t, k>> # <<s, 1>>
    BY <1>2, <1>3
  <2>2. run'[<<t, k>>] = run[<<t, k>>]
    BY <1>0, <1>3, <2>1
  <2> QED BY <1>1, <2>2 DEF Registered, IsLive
<1>8. InlineAlone'
  <2> SUFFICES ASSUME NEW t \in Sessions, NEW k \in {1, 2},
                      IsLive(<<t, k>>)', run'[<<t, k>>].by = "inline"
               PROVE  k = 1 /\ tasks'[t] = 0 /\ t \in Inline /\ mode' \in {"up", "stopping"}
    BY DEF InlineAlone
  <2>1. CASE <<t, k>> = <<s, 1>>
    BY <1>1, <1>5, <2>1
  <2>2. CASE <<t, k>> # <<s, 1>>
    <3>1. run'[<<t, k>>] = run[<<t, k>>]
      BY <1>0, <1>3, <2>2
    <3> QED BY <1>1, <3>1 DEF InlineAlone, IsLive
  <2> QED BY <2>1, <2>2
<1>9. Born'
  <2> SUFFICES ASSUME NEW t \in Sessions, row'[t].status = "none"
               PROVE  /\ \A k \in {1, 2} : run'[<<t, k>>].pc = "idle"
                      /\ tasks'[t] = 0
                      /\ t \notin todo'
                      /\ ~(poll'.pc = "submit" /\ poll'.sess = t)
    BY DEF Born
  <2>1. t # s /\ row[t].status = "none"
    BY <1>4
  <2>2. \A k \in {1, 2} : run'[<<t, k>>] = run[<<t, k>>]
    BY <1>0, <1>3, <2>1
  <2> QED BY <1>1, <2>1, <2>2 DEF Born
<1>10. Copied' /\ PollsPolled'
  BY <1>1, <1>2, <1>3 DEF Copied, PollsPolled
<1> QED BY <1>6, <1>7, <1>8, <1>9, <1>10

LEMMA DiscardKeeps ==
  ASSUME IInv, NEW r \in Runs, Discard(r)
  PROVE  IInv'
<1> USE DEF IInv
<1>0. /\ r[1] \in Sessions /\ r[2] \in {1, 2} /\ r = <<r[1], r[2]>>
      /\ \A t \in Sessions, k \in {1, 2} : <<t, k>> \in Runs
  BY DEF Runs
<1>1. /\ run[r].pc = "done" /\ run' = [run EXCEPT ![r] = NoRun]
      /\ tasks' = IF tasks[r[1]] = r[2] THEN [tasks EXCEPT ![r[1]] = 0] ELSE tasks
      /\ UNCHANGED <<row, free, stop, poll, mode, todo, restarts, faults>>
  BY DEF Discard
<1>2. NoRun.pc = "idle" /\ NoRun.pc \notin Writers
  BY DEF NoRun, Writers, InTry
<1>3. /\ run' \in [Runs -> RunRec]
      /\ run'[r] = NoRun
      /\ \A q \in Runs : q # r => run'[q] = run[q]
  BY <1>1, Types, Constants
<1>4. /\ tasks' \in [Sessions -> 0 .. 2]
      /\ \A t \in Sessions : tasks'[t] = tasks[t] \/ (t = r[1] /\ tasks'[t] = 0 /\ tasks[t] = r[2])
  BY <1>0, <1>1, Types
<1>5. \A q \in Runs : IsLive(q)' => IsLive(q) /\ run'[q] = run[q]
  BY <1>2, <1>3, Constants DEF IsLive
<1>6. TypeOK'
  BY <1>1, <1>3, <1>4 DEF TypeOK, RunRec
<1>7. Registered'
  <2> SUFFICES ASSUME NEW t \in Sessions, NEW k \in {1, 2},
                      IsLive(<<t, k>>)', run'[<<t, k>>].by = "task"
               PROVE  tasks'[t] = k
    BY DEF Registered
  <2>1. IsLive(<<t, k>>) /\ tasks[t] = k
    BY <1>0, <1>5 DEF Registered
  <2>2. <<t, k>> # r
    BY <1>1, <2>1, Constants DEF IsLive
  <2> QED BY <1>0, <1>4, <2>1, <2>2
<1>8. InlineAlone'
  <2> SUFFICES ASSUME NEW t \in Sessions, NEW k \in {1, 2},
                      IsLive(<<t, k>>)', run'[<<t, k>>].by = "inline"
               PROVE  k = 1 /\ tasks'[t] = 0 /\ t \in Inline /\ mode' \in {"up", "stopping"}
    BY DEF InlineAlone
  <2>1. IsLive(<<t, k>>) /\ run[<<t, k>>].by = "inline"
    BY <1>0, <1>5
  <2> QED BY <1>1, <1>4, <2>1 DEF InlineAlone
<1>9. Born'
  BY <1>0, <1>1, <1>2, <1>3, <1>4 DEF Born
<1>10. Copied' /\ PollsPolled'
  BY <1>1, <1>2, <1>3 DEF Copied, PollsPolled
<1> QED BY <1>6, <1>7, <1>8, <1>9, <1>10

LEMMA DownKeeps ==
  ASSUME IInv, Down
  PROVE  IInv'
<1> USE DEF IInv
<1>0. \A t \in Sessions, k \in {1, 2} : <<t, k>> \in Runs
  BY DEF Runs
<1>1. NoRun.pc = "idle" /\ NoRun.pc \notin Writers /\ NoStop.pc = "idle" /\ "idle" \notin Live
  BY Constants DEF NoRun, NoStop, Writers, InTry
<1>2. TypeOK'
  <2>1. NoPoll \in [pc : {"idle", "submit"}, sess : Sessions]
    BY Constants DEF NoPoll
  <2> QED BY <2>1, Constants DEF Down, TypeOK, RunRec, StopRec
<1>3. \A q \in Runs : run'[q] = NoRun
  BY DEF Down
<1>4. Registered' /\ InlineAlone'
  BY <1>0, <1>1, <1>3 DEF Registered, InlineAlone, IsLive
<1>5. Born' /\ PollsPolled' /\ Copied'
  BY <1>0, <1>1, <1>3 DEF Down, Born, PollsPolled, Copied, NoPoll
<1> QED BY <1>2, <1>4, <1>5
-----------------------------------------------------------------------------
LEMMA NextKeeps == IInv /\ [Next]_vars => IInv'
<1> SUFFICES ASSUME IInv, [Next]_vars PROVE IInv'
  OBVIOUS
<1> USE DEF IInv
<1>0. /\ StopsOk <=> /\ stop' \in [Stoppers -> StopRec]
                     /\ \A q \in Stoppers : stop'[q].pc = "put" => stop'[q].copy.status # "none"
      /\ row' = row => Kept
      /\ stop' = stop => StopsOk
  BY Types DEF StopsOk, Kept, Copied
<1>1. ASSUME NEW s \in Sessions,
             Create(s) \/ CreateInline(s) \/ PollGet(s) \/ PollReturn(s)
      PROVE  IInv'
  <2>1. CASE PollGet(s)
    <3>1. poll' \in Polls /\ poll'.sess \in Polled /\ row[poll'.sess].status # "none"
      BY <2>1 DEF PollGet, Polls, Open
    <3> QED BY <2>1, <3>1, <1>0, PollOk, UnmovedOk, QuietKeeps DEF PollGet
  <2>2. CASE PollReturn(s)
    BY <2>2, <1>0, PollOk, UnmovedOk, QuietKeeps DEF PollReturn, vars
  <2> QED BY <1>1, <2>1, <2>2, CreateKeeps, CreateInlineKeeps
<1>2. ASSUME NEW r \in Runs, RunStep(r) \/ Error(r) \/ Discard(r)
      PROVE  IInv'
  <2>1. CASE RunStep(r)
    BY <2>1, RunStepOk, AdvanceKeeps, PollOk DEF RunStep
  <2>2. CASE Error(r)
    <3>1. Advanced(r) /\ Kept
      BY <2>2, <1>0, RaiseOk DEF Error
    <3>2. IsLive(r)
      BY <2>2 DEF Error, IsLive, Live
    <3>3. faults' \in Nat
      BY <2>2, PollOk DEF Error
    <3> QED BY <2>2, <3>1, <3>2, <3>3, AdvanceKeeps DEF Error
  <2> QED BY <1>2, <2>1, <2>2, DiscardKeeps
<1>3. ASSUME NEW p \in Stoppers, NEW s \in Sessions,
             StopReturn(p, s) \/ \E op \in {"stop", "delete"} : StopGet(p, s, op)
      PROVE  IInv'
  <2>1. CASE StopReturn(p, s)
    BY <2>1, <1>0, PollOk, UnmovedOk, QuietKeeps DEF StopReturn, vars
  <2>2. CASE \E op \in {"stop", "delete"} : StopGet(p, s, op)
    <3>1. PICK op \in {"stop", "delete"} : StopGet(p, s, op)
      BY <2>2
    <3> DEFINE call == [NoStop EXCEPT !.pc = IF row[s].status \in Open THEN "put" ELSE "del",
                                      !.op = op, !.sess = s, !.copy = row[s]]
    <3>2. /\ call \in StopRec
          /\ call.copy = row[s]
      BY Types, Constants DEF StopRec
    <3>3. row[s].status # "none"
      BY <3>1 DEF StopGet, Open, Terminal
    <3>4. stop' = [stop EXCEPT ![p] = call]
      BY <3>1 DEF StopGet
    <3> HIDE DEF call
    <3>5. StopsOk
      BY <3>2, <3>3, <3>4, Types DEF StopsOk, Copied
    <3> QED BY <3>1, <3>5, <1>0, PollOk, UnmovedOk, QuietKeeps DEF StopGet
  <2> QED BY <1>3, <2>1, <2>2
<1>4. ASSUME NEW p \in Stoppers, StopStep(p) \/ StopError(p)
      PROVE  IInv'
  <2>1. CASE StopStep(p)
    BY <2>1, <1>0, StopStepOk, PollOk, QuietKeeps DEF StopStep
  <2>2. CASE StopError(p)
    <3>1. StopsOk
      BY <2>2, StopGotoOk DEF StopError
    <3> QED BY <2>2, <3>1, <1>0, PollOk, UnmovedOk, QuietKeeps DEF StopError
  <2> QED BY <1>4, <2>1, <2>2
<1>5. CASE PollSubmit
  <2> DEFINE s == poll.sess
  <2>1. s \in Sessions /\ s \in Polled /\ s \notin Inline /\ row[s].status # "none"
    BY <1>5, PollOk, ConstantsAssumption DEF PollSubmit, ConstantsAssumption, Polls
  <2>2. \A k \in {1, 2} : ~(IsLive(<<s, k>>) /\ run[<<s, k>>].by = "inline")
    BY <2>1 DEF InlineAlone
  <2> QED BY <1>5, <2>1, <2>2, <1>0, SubmitKeeps DEF PollSubmit
<1>6. CASE Shutdown
  <2>1. Unmoved
    BY <1>6, Types DEF Shutdown, Unmoved, RunRec
  <2> QED BY <1>6, <2>1, <1>0, PollOk, QuietKeeps DEF Shutdown
<1>7. CASE Crash \/ Terminated
  BY <1>7, DownKeeps DEF Crash, Terminated
<1>8. CASE Restart
  <2>1. todo' \subseteq {s \in Sessions : s \in todo \/ row[s].status # "none"}
    BY <1>8 DEF Restart, Open
  <2> QED BY <1>8, <2>1, <1>0, PollOk, UnmovedOk, QuietKeeps DEF Restart
<1>9. ASSUME NEW s \in Sessions, Recover(s)
      PROVE  IInv'
  <2>1. row[s].status # "none" /\ mode = "recovering"
    BY <1>9 DEF Recover, Born
  <2>2. \A k \in {1, 2} : ~(IsLive(<<s, k>>) /\ run[<<s, k>>].by = "inline")
    BY <2>1 DEF InlineAlone
  <2> QED BY <1>9, <2>1, <2>2, <1>0, SubmitKeeps DEF Recover
<1>10. CASE Recovered
  BY <1>10, <1>0, PollOk, UnmovedOk, QuietKeeps DEF Recovered
<1>11. CASE UNCHANGED vars
  BY <1>11, <1>0, PollOk, UnmovedOk, QuietKeeps DEF vars
<1> QED
  BY <1>1, <1>2, <1>3, <1>4, <1>5, <1>6, <1>7, <1>8, <1>9, <1>10, <1>11 DEF Next, Lifecycle

LEMMA InvOnce == IInv => OneRunPerSession
<1> SUFFICES ASSUME IInv, NEW s \in Sessions, IsLive(<<s, 1>>), IsLive(<<s, 2>>)
             PROVE  FALSE
  BY DEF OneRunPerSession
<1>1. /\ <<s, 1>> \in Runs /\ <<s, 2>> \in Runs
      /\ run[<<s, 1>>].by \in {"task", "inline"} /\ run[<<s, 2>>].by \in {"task", "inline"}
  BY Types DEF IInv, Runs, RunRec
<1>2. run[<<s, 2>>].by = "task" /\ tasks[s] = 2
  BY <1>1 DEF IInv, InlineAlone, Registered
<1>3. tasks[s] \in {0, 1}
  BY <1>1 DEF IInv, InlineAlone, Registered
<1> QED BY <1>2, <1>3

THEOREM Invariant == Spec => []IInv
<1>1. Init => IInv
  BY InitInv
<1>2. IInv /\ [Next]_vars => IInv'
  BY NextKeeps
<1> QED BY <1>1, <1>2, PTL DEF Spec

(* Every state of the specification is well typed: in particular no slot   *)
(* count goes below zero and no copy is written that is not a row.         *)
THEOREM TypeCorrect == Spec => []TypeOK
<1>1. IInv => TypeOK
  BY DEF IInv
<1> QED BY <1>1, Invariant, PTL

(* However submit, recovery, polls, stops, deletions, ends of tasks and    *)
(* restarts interleave, a session never has two executions alive.          *)
THEOREM ExecutedOnce == Spec => []OneRunPerSession
<1> QED BY InvOnce, Invariant, PTL
-----------------------------------------------------------------------------
(* The account of the run slots.                                           *)
Held == {r \in Runs : HoldsSlot(r)}

(* Only tasks wait for a slot; an inline run never does.                   *)
Queued == \A r \in Runs : run[r].pc \in {"ready", "slot"} => run[r].by = "task"

Balanced == IsFiniteSet(Held) /\ free + Cardinality(Held) = MaxConcurrent

SInv == IInv /\ Queued /\ Balanced

(* What a step of execution r may do to the slots.                         *)
Accounted(r) ==
    /\ run'[r].pc \in {"ready", "slot"} => run[r].pc \in {"ready", "slot"}
    /\ \/ (HoldsSlot(r)' <=> HoldsSlot(r)) /\ free' = free
       \/ ~HoldsSlot(r) /\ HoldsSlot(r)' /\ free > 0 /\ free' = free - 1
       \/ HoldsSlot(r) /\ ~HoldsSlot(r)' /\ free' = free + 1

(* A step that keeps the account of one execution keeps the whole account. *)
LEMMA AccountKeeps ==
  ASSUME SInv, NEW r \in Runs, Advanced(r), Accounted(r)
  PROVE  Queued' /\ Balanced'
<1>1. free \in Nat /\ MaxConcurrent \in Nat /\ IsFiniteSet(Held) /\ Cardinality(Held) \in Nat
  BY Types, Constants, FS_CardinalityType DEF SInv, IInv, Balanced
<1>2. \A q \in Runs : q # r => (HoldsSlot(q)' <=> HoldsSlot(q))
  BY DEF Advanced, HoldsSlot
<1>3. Queued'
  BY DEF SInv, Queued, Advanced, Accounted
<1>4. CASE (HoldsSlot(r)' <=> HoldsSlot(r)) /\ free' = free
  <2>1. Held' = Held
    BY <1>2, <1>4 DEF Held
  <2> QED BY <1>3, <1>4, <2>1 DEF SInv, Balanced
<1>5. CASE ~HoldsSlot(r) /\ HoldsSlot(r)' /\ free > 0 /\ free' = free - 1
  <2>1. Held' = Held \cup {r} /\ r \notin Held
    BY <1>2, <1>5 DEF Held
  <2>2. IsFiniteSet(Held') /\ Cardinality(Held') = Cardinality(Held) + 1
    BY <1>1, <2>1, FS_AddElement
  <2> QED BY <1>1, <1>3, <1>5, <2>2 DEF SInv, Balanced
<1>6. CASE HoldsSlot(r) /\ ~HoldsSlot(r)' /\ free' = free + 1
  <2>1. Held' = Held \ {r} /\ r \in Held
    BY <1>2, <1>6 DEF Held
  <2>2. IsFiniteSet(Held') /\ Cardinality(Held') = Cardinality(Held) - 1
    BY <1>1, <2>1, FS_RemoveElement
  <2> QED BY <1>1, <1>3, <1>6, <2>2 DEF SInv, Balanced
<1> QED BY <1>4, <1>5, <1>6 DEF Accounted

(* The slot is returned on the way out, whatever comes next.               *)
LEMMA ExitAccounted ==
  ASSUME TypeOK, NEW r \in Runs, NEW pc \in {"done", "hget", "markget"}, Exit(r, pc)
  PROVE  Accounted(r)
<1>1. /\ run' = [run EXCEPT ![r] = [NoRun EXCEPT !.pc = pc, !.by = run[r].by]]
      /\ free' = IF HoldsSlot(r) THEN free + 1 ELSE free
  BY DEF Exit
<1>2. run'[r].pc = pc /\ pc \notin Slotted /\ pc \notin {"ready", "slot"}
  BY <1>1, Types DEF NoRun, RunRec, Slotted, InTry
<1> QED BY <1>1, <1>2 DEF Accounted, HoldsSlot

(* A step of the engine.                                                   *)
LEMMA GotoAccounted ==
  ASSUME TypeOK, NEW r \in Runs, NEW pc, Goto(r, pc), pc \in Slotted, run[r].pc \in Slotted
  PROVE  Accounted(r)
<1>1. run'[r].pc = pc /\ run'[r].by = run[r].by /\ free' = free
  BY Types DEF Goto, RunRec
<1>2. "ready" \notin Slotted /\ "slot" \notin Slotted
  BY DEF Slotted, InTry
<1> QED BY <1>1, <1>2 DEF Accounted, HoldsSlot

(* An exception: handled by the engine, or on the way out.                 *)
LEMMA RaiseAccounted ==
  ASSUME TypeOK, NEW r \in Runs, Raise(r)
  PROVE  Accounted(r)
<1>1. CASE run[r].pc \in InTry
  <2>1. PICK pc \in {"failing", "fail"} : Goto(r, pc)
    BY <1>1 DEF Raise
  <2>2. pc \in Slotted /\ run[r].pc \in Slotted
    BY <1>1 DEF Slotted
  <2> QED BY <2>1, <2>2, GotoAccounted
<1>2. CASE run[r].pc \notin InTry
  BY <1>2, ExitAccounted DEF Raise
<1> QED BY <1>1, <1>2

(* A write of the row, refused or not.                                     *)
LEMMA PutAccounted ==
  ASSUME TypeOK, NEW r \in Runs, NEW copy, NEW next, Put(r, copy, next),
         next \subseteq Slotted, run[r].pc \in Slotted
  PROVE  Accounted(r)
<1>1. CASE Saved(r[1])
  <2>1. PICK pc \in next : run' = [run EXCEPT ![r].pc = pc, ![r].copy = copy]
    BY <1>1 DEF Put
  <2>2. run'[r].pc = pc /\ run'[r].by = run[r].by /\ free' = free
    <3>1. run \in [Runs -> RunRec] /\ run[r] \in RunRec
      BY Types
    <3>2. run'[r] = [[run[r] EXCEPT !.pc = pc] EXCEPT !.copy = copy]
      BY <2>1, <3>1 DEF RunRec
    <3>3. free' = free
      BY <1>1 DEF Put
    <3> QED BY <3>1, <3>2, <3>3 DEF RunRec
  <2>3. "ready" \notin Slotted /\ "slot" \notin Slotted /\ pc \in Slotted
    BY DEF Slotted, InTry
  <2> QED BY <2>2, <2>3 DEF Accounted, HoldsSlot
<1>2. CASE ~Saved(r[1])
  BY <1>2, RaiseAccounted DEF Put
<1> QED BY <1>1, <1>2

(* Every action of an execution.                                           *)
LEMMA RunStepAccounted ==
  ASSUME SInv, NEW r \in Runs, RunStep(r)
  PROVE  Accounted(r)
<1> USE DEF SInv, IInv
<1>0. run[r] \in RunRec /\ TypeOK
  BY Types
<1>1. CASE Start(r)
  <2>1. run[r].pc = "ready" /\ run'[r].pc = "slot" /\ free' = free
    BY <1>0, <1>1, Types DEF Start, At, Goto, RunRec
  <2>2. "ready" \notin Slotted /\ "slot" \notin Slotted
    BY DEF Slotted, InTry
  <2> QED BY <2>1, <2>2 DEF Accounted, HoldsSlot
<1>2. CASE Acquire(r)
  <2>1. /\ run[r].pc = "slot" /\ run'[r].pc = "get" /\ run'[r].by = run[r].by
        /\ free > 0 /\ free' = free - 1
    BY <1>0, <1>2, Types DEF Acquire, At, RunRec
  <2>2. run[r].by = "task"
    BY <2>1 DEF Queued
  <2>3. "get" \in Slotted /\ "slot" \notin Slotted
    BY DEF Slotted, InTry
  <2> QED BY <2>1, <2>2, <2>3 DEF Accounted, HoldsSlot
<1>3. CASE Get(r)
  <2>0. run[r].pc \in Slotted /\ "begin" \in Slotted /\ "seedfail" \in Slotted /\ "leave" \in Slotted
    BY <1>3 DEF Get, At, Slotted
  <2>1. CASE row[r[1]].status \in Open
    <3>1. PICK pc \in {"begin", "seedfail"} :
              /\ run' = [run EXCEPT ![r].pc = pc, ![r].copy = row[r[1]]]
              /\ UNCHANGED <<free, stop>>
      BY <1>3, <2>1 DEF Get
    <3>2. run'[r].pc = pc /\ run'[r].by = run[r].by
      BY <1>0, <3>1, Types DEF RunRec
    <3> QED BY <2>0, <3>1, <3>2 DEF Accounted, HoldsSlot
  <2>2. CASE row[r[1]].status \notin Open
    BY <1>0, <1>3, <2>0, <2>2, GotoAccounted DEF Get
  <2> QED BY <2>1, <2>2
<1>4. CASE \/ SeedFail(r) \/ Begin(r) \/ Setup(r) \/ Work(r) \/ Closing(r) \/ Finish(r)
           \/ Halting(r) \/ Halt(r) \/ Failing(r)
  <2>1. PICK copy, next : Put(r, copy, next) /\ next \subseteq Slotted
    BY <1>4 DEF SeedFail, Begin, Setup, Work, Closing, Finish, Halting, Halt, Failing,
                Slotted, InTry
  <2>2. run[r].pc \in Slotted
    BY <1>4 DEF SeedFail, Begin, Setup, Work, Closing, Finish, Halting, Halt, Failing,
                At, Slotted, InTry
  <2> QED BY <1>0, <2>1, <2>2, PutAccounted
<1>5. CASE Check(r)
  <2>1. PICK pc \in {"halting", "work", "closing"} : Goto(r, pc)
    BY <1>5 DEF Check
  <2>2. pc \in Slotted /\ run[r].pc \in Slotted
    BY <1>5 DEF Check, At, Slotted, InTry
  <2> QED BY <1>0, <2>1, <2>2, GotoAccounted
<1>6. CASE Fail(r)
  BY <1>0, <1>6, RaiseAccounted DEF Fail
<1>7. CASE HandleGet(r) \/ MarkGet(r)
  <2>1. CASE Exit(r, "done")
    BY <1>0, <2>1, ExitAccounted
  <2>2. CASE ~Exit(r, "done")
    <3>1. PICK pc \in {"hput", "markput"} :
              /\ run' = [run EXCEPT ![r].pc = pc, ![r].copy = row[r[1]]]
              /\ UNCHANGED <<free, stop>>
      BY <1>7, <2>2 DEF HandleGet, MarkGet
    <3>2. run'[r].pc = pc /\ run'[r].by = run[r].by /\ run[r].pc \in {"hget", "markget"}
      BY <1>0, <1>7, <3>1, Types DEF HandleGet, MarkGet, At, RunRec
    <3>3. \A at \in {"hput", "markput", "hget", "markget"} : at \notin Slotted
      BY DEF Slotted, InTry
    <3> QED BY <3>1, <3>2, <3>3 DEF Accounted, HoldsSlot
  <2> QED BY <2>1, <2>2
<1>8. CASE Leave(r) \/ HandlePut(r) \/ MarkPut(r)
  BY <1>0, <1>8, ExitAccounted DEF Leave, HandlePut, MarkPut
<1>9. CASE Deliver(r)
  BY <1>0, <1>9, ExitAccounted DEF Deliver
<1> QED
  BY <1>1, <1>2, <1>3, <1>4, <1>5, <1>6, <1>7, <1>8, <1>9 DEF RunStep

(* Steps in which no execution gains or loses a slot.                      *)
Untouched ==
    /\ free' = free
    /\ \A r \in Runs : /\ HoldsSlot(r)' <=> HoldsSlot(r)
                       /\ run'[r].pc \in {"ready", "slot"} => run'[r].by = "task"

(* They keep the account.                                                  *)
LEMMA UntouchedKeeps == ASSUME SInv, Untouched PROVE Queued' /\ Balanced'
<1>1. Held' = Held
  BY DEF Held, Untouched
<1> QED BY <1>1 DEF SInv, Untouched, Queued, Balanced

(* submit() starts a task, which does not hold a slot yet.                 *)
LEMMA SubmitUntouched ==
  ASSUME SInv, NEW s \in Sessions, Submit(s), free' = free
  PROVE  Untouched
<1> USE DEF SInv, IInv
<1>1. CASE run' = run
  BY <1>1 DEF Untouched, HoldsSlot, Queued
<1>2. CASE run' # run
  <2>1. PICK k \in {1, 2} :
            /\ run[<<s, k>>].pc = "idle"
            /\ run' = [run EXCEPT ![<<s, k>>] = [NoRun EXCEPT !.pc = "ready"]]
    BY <1>2 DEF Submit
  <2>2. /\ run'[<<s, k>>].pc = "ready" /\ run'[<<s, k>>].by = "task"
        /\ \A q \in Runs : q # <<s, k>> => run'[q] = run[q]
    BY <2>1, Types DEF NoRun, Runs
  <2>3. "ready" \notin Slotted /\ "idle" \notin Slotted
    BY DEF Slotted, InTry
  <2> QED BY <2>1, <2>2, <2>3 DEF Untouched, HoldsSlot, Queued
<1> QED BY <1>1, <1>2

(* Cancelling executions takes no slot from them.                          *)
LEMMA UnmovedUntouched ==
  ASSUME SInv, Unmoved, free' = free
  PROVE  Untouched
  BY DEF SInv, Unmoved, Untouched, HoldsSlot, Queued

(* With the process all slots come back.                                   *)
LEMMA DownBalanced ==
  ASSUME SInv, Down
  PROVE  Queued' /\ Balanced'
<1>1. /\ \A r \in Runs : run'[r] = NoRun
      /\ free' = MaxConcurrent
  BY DEF Down
<1>2. NoRun.pc = "idle" /\ "idle" \notin Slotted
  BY DEF NoRun, Slotted, InTry
<1>3. Held' = {}
  BY <1>1, <1>2 DEF Held, HoldsSlot
<1>4. IsFiniteSet(Held') /\ Cardinality(Held') = 0
  BY <1>3, FS_EmptySet
<1> QED BY <1>1, <1>2, <1>4, Constants DEF Queued, Balanced
-----------------------------------------------------------------------------
(* All slots are free at first.                                            *)
LEMMA InitBalanced == Init => SInv
<1> SUFFICES ASSUME Init PROVE SInv
  OBVIOUS
<1>1. \A r \in Runs : run[r].pc = "idle"
  BY DEF Init, NoRun
<1>2. Held = {}
  BY <1>1 DEF Held, HoldsSlot, Slotted, InTry
<1>3. IsFiniteSet(Held) /\ Cardinality(Held) = 0
  BY <1>2, FS_EmptySet
<1> QED BY <1>1, <1>3, InitInv, Constants DEF Init, SInv, Queued, Balanced

(* Every step keeps the account.                                           *)
LEMMA NextBalanced == SInv /\ [Next]_vars => SInv'
<1> SUFFICES ASSUME SInv, [Next]_vars PROVE SInv'
  OBVIOUS
<1> USE DEF SInv, IInv
<1>0. IInv'
  BY NextKeeps
<1>11. /\ run' = run => Unmoved
       /\ \A s \in Sessions, k \in {1, 2} : <<s, k>> \in Runs
  BY UnmovedOk DEF Runs
<1>1. ASSUME NEW s \in Sessions,
             Create(s) \/ CreateInline(s) \/ PollGet(s) \/ PollReturn(s)
      PROVE  Untouched
  <2>1. CASE Create(s)
    BY <2>1, SubmitUntouched DEF Create
  <2>2. CASE CreateInline(s)
    <3> DEFINE new == [NoRun EXCEPT !.pc = "begin", !.by = "inline", !.copy = NewRow]
    <3>1. run' = [run EXCEPT ![<<s, 1>>] = new] /\ free' = free /\ row[s].status = "none"
      BY <2>2 DEF CreateInline
    <3>2. new.pc = "begin" /\ new.by = "inline"
      BY DEF NoRun
    <3> HIDE DEF new
    <3>3. run'[<<s, 1>>] = new /\ \A q \in Runs : q # <<s, 1>> => run'[q] = run[q]
      BY <1>11, <3>1, Types
    <3>4. run[<<s, 1>>].pc = "idle"
      BY <3>1 DEF Born
    <3>5. "idle" \notin Slotted
      BY DEF Slotted, InTry
    <3> QED BY <3>1, <3>2, <3>3, <3>4, <3>5 DEF Untouched, HoldsSlot, Queued
  <2>3. CASE PollGet(s) \/ PollReturn(s)
    BY <1>11, <2>3, UnmovedUntouched DEF PollGet, PollReturn, vars
  <2> QED BY <1>1, <2>1, <2>2, <2>3
<1>2. ASSUME NEW r \in Runs, RunStep(r) \/ Error(r)
      PROVE  Advanced(r) /\ Accounted(r)
  <2>1. CASE RunStep(r)
    BY <2>1, RunStepOk, RunStepAccounted
  <2>2. CASE Error(r)
    BY <2>2, RaiseOk, RaiseAccounted DEF Error
  <2> QED BY <1>2, <2>1, <2>2
<1>3. ASSUME NEW r \in Runs, Discard(r)
      PROVE  Untouched
  <2>1. /\ run[r].pc = "done" /\ run' = [run EXCEPT ![r] = NoRun] /\ free' = free
    BY <1>3 DEF Discard
  <2>2. run'[r] = NoRun /\ \A q \in Runs : q # r => run'[q] = run[q]
    BY <2>1, Types
  <2>3. NoRun.pc = "idle" /\ "idle" \notin Slotted /\ "done" \notin Slotted
    BY DEF NoRun, Slotted, InTry
  <2> QED BY <2>1, <2>2, <2>3 DEF Untouched, HoldsSlot, Queued
<1>4. ASSUME NEW p \in Stoppers, NEW s \in Sessions,
             StopReturn(p, s) \/ \E op \in {"stop", "delete"} : StopGet(p, s, op)
      PROVE  Untouched
  BY <1>11, <1>4, UnmovedUntouched DEF StopReturn, StopGet, vars
<1>5. ASSUME NEW p \in Stoppers, StopStep(p) \/ StopError(p)
      PROVE  Untouched
  <2>1. CASE StopStep(p)
    BY <2>1, StopStepOk, UnmovedUntouched DEF StopStep
  <2>2. CASE StopError(p)
    BY <1>11, <2>2, UnmovedUntouched DEF StopError
  <2> QED BY <1>5, <2>1, <2>2
<1>6. CASE PollSubmit
  <2>1. poll.sess \in Sessions
    BY PollOk DEF Polls
  <2> QED BY <1>0, <1>6, <2>1, SubmitUntouched, UntouchedKeeps DEF PollSubmit
<1>7. CASE Shutdown
  <2>1. Unmoved
    BY <1>7, Types DEF Shutdown, Unmoved, RunRec
  <2> QED BY <1>0, <1>7, <2>1, UnmovedUntouched, UntouchedKeeps DEF Shutdown
<1>8. CASE Crash \/ Terminated
  BY <1>0, <1>8, DownBalanced DEF Crash, Terminated
<1>9. CASE Restart \/ Recovered \/ UNCHANGED vars
  BY <1>0, <1>11, <1>9, UnmovedUntouched, UntouchedKeeps DEF Restart, Recovered, vars
<1>10. ASSUME NEW s \in Sessions, Recover(s)
       PROVE  Untouched
  BY <1>10, SubmitUntouched DEF Recover
<1> QED
  BY <1>0, <1>1, <1>2, <1>3, <1>4, <1>5, <1>6, <1>7, <1>8, <1>9, <1>10, AccountKeeps,
     UntouchedKeeps DEF Next, Lifecycle

(* Every way out of the semaphore returns the slot, and none returns it    *)
(* twice, in every state of every execution of the process.                *)
THEOREM SlotsStayBalanced == Spec => []SlotsBalanced
<1>1. SInv => SlotsBalanced
  BY DEF SInv, Balanced, Held, SlotsBalanced
<1> QED BY InitBalanced, NextBalanced, <1>1, PTL DEF Spec
-----------------------------------------------------------------------------
(* Who owns a session, and who may write its row.                          *)

(* Only while the API is served is a stop or delete under way; it is about *)
(* a session that exists, and waits for an execution that is still alive.  *)
Awaits(p, r) == stop[p].pc = "await" /\ <<stop[p].sess, stop[p].k>> = r
Served ==
    \A p \in Stoppers :
        /\ stop[p].pc # "idle" => mode = "up" /\ row[stop[p].sess].status # "none"
        /\ stop[p].pc = "await" => IsLive(<<stop[p].sess, stop[p].k>>)

(* Who cancels an execution waits for it.                                  *)
Cancelled ==
    \A r \in Runs : IsLive(r) /\ run[r].cancelling =>
        mode = "stopping" \/ \E p \in Stoppers : Awaits(p, r)

(* A process begins without tasks, and without steps a session.            *)
Fresh ==
    /\ mode = "down" => \A s \in Sessions : tasks[s] = 0
    /\ mode = "recovering" => \A s \in todo : tasks[s] = 0
    /\ \A s \in Sessions : row[s].status = "none" => row[s].steps = 0

(* A registered task has been started.                                     *)
Tasked == \A s \in Sessions : tasks[s] # 0 => run[<<s, tasks[s]>>].pc # "idle"

(* What a run or a stop() writes was read from an open row.                *)
Opened ==
    /\ \A r \in Runs : run[r].pc \in Writers => run[r].copy.status \in Open
    /\ \A p \in Stoppers : stop[p].pc = "put" => stop[p].copy.status \in Open

(* An open row is still to be recovered, has an execution that will settle *)
(* it, or a stop() that will.                                              *)
InCharge == Live \ {"leave"}
Minded(s) ==
    \/ mode = "recovering" /\ s \in todo
    \/ \E k \in {1, 2} : run[<<s, k>>].pc \in InCharge
    \/ \E p \in Stoppers : stop[p].sess = s /\ stop[p].pc \in {"cancel", "await", "mget", "mput"}
Owned ==
    faults = 0 /\ mode \in {"up", "recovering"} =>
        \A s \in Sessions : row[s].status \in Open => Minded(s)

(* Nothing runs any more when stop() marks the row, nor when it is final.  *)
Quieted ==
    \A p \in Stoppers :
        stop[p].sess \in Stoppable /\ stop[p].pc \in {"mget", "mput"} =>
            \A k \in {1, 2} : ~IsLive(<<stop[p].sess, k>>)
Settled ==
    \A s \in Stoppable, k \in {1, 2} :
        row[s].status \in Terminal => run[<<s, k>>].pc \notin Writers

(* The steps of a run's copy are those of the row, unless a stop() has     *)
(* written, and of nobody's copy there are more.                           *)
Covers(s, n) ==
    \A p \in Stoppers : stop[p].sess = s /\ stop[p].pc \in {"put", "mput"} => stop[p].copy.steps <= n
Even(s) ==
    \A p \in Stoppers : stop[p].sess = s /\ stop[p].pc \in {"put", "mput"} => stop[p].copy.steps = row[s].steps
Follows(r) ==
    /\ run[r].pc \in {"ready", "slot", "get"} => Even(r[1])
    /\ run[r].pc \in Writers \ {"hput"} =>
         /\ row[r[1]].steps = run[r].copy.steps \/ row[r[1]].cancel
         /\ row[r[1]].steps <= run[r].copy.steps
         /\ Covers(r[1], run[r].copy.steps)
    /\ run[r].pc = "hget" => row[r[1]].cancel \/ Covers(r[1], row[r[1]].steps)
    /\ run[r].pc = "hput" =>
         \/ run[r].copy.cancel
         \/ row[r[1]].steps <= run[r].copy.steps /\ Covers(r[1], run[r].copy.steps)
Followed == \A r \in Runs : r[1] \in Stoppable /\ Saved(r[1]) => Follows(r)

OInv == /\ IInv /\ Served /\ Cancelled /\ Fresh /\ Tasked /\ Opened
        /\ Owned /\ Quieted /\ Settled /\ Followed
-----------------------------------------------------------------------------
(* What an execution does by itself: it goes on without writing, writes    *)
(* its row, or ends.                                                       *)
Reads(r) ==
    LET s == r[1]  me == run[r]  new == run'[r] IN
    \/ me.pc = "ready" /\ new.pc = "slot"
    \/ me.pc = "slot" /\ new.pc = "get"
    \/ me.pc = "get" /\ row[s].status \in Open /\ new.pc \in {"begin", "seedfail"} /\ new.copy = row[s]
    \/ me.pc = "get" /\ row[s].status \notin Open /\ new.pc = "leave"
    \/ me.pc \in InTry /\ new.pc \in InTry \cup {"failing", "fail"} /\ new.copy = me.copy
    \/ me.pc = "hget" /\ row[s].status \in Open /\ new.pc = "hput" /\ new.copy = row[s]
    \/ me.pc = "markget" /\ row[s].status # "deleted" /\ new.pc = "markput" /\ new.copy = row[s]
    \/ me.pc \in {"hget", "markget"} /\ row[s].status \notin Open /\ new.pc = "done"
    \/ me.pc = "leave" /\ new.pc = "done"

(* An exception the engine does not handle, or a row that is gone.         *)
Fails(r) ==
    LET me == run[r]  new == run'[r] IN
    /\ me.pc \in Live \ (InTry \cup {"leave"})
    /\ \/ new.pc = "hget" /\ me.pc \in {"get", "begin", "failing", "fail", "seedfail"}
       \/ new.pc = "done"
    /\ faults' = faults + 1 \/ ~Saved(r[1])

(* A cancellation.                                                         *)
Ends(r) ==
    /\ run[r].cancelling
    /\ run'[r].pc \in {"markget", "done"}

Writes(r) ==
    LET s == r[1]  me == run[r]  new == run'[r]  c == row'[r[1]] IN
    \/ /\ me.pc \in InTry \cup {"begin", "failing"} /\ new.pc \in InTry \cup {"fail"}
       /\ new.copy = c /\ c.status \in Open /\ c.steps >= me.copy.steps
    \/ /\ me.pc \in {"seedfail", "finish", "halt"} /\ new.pc = "leave"
       /\ c.status \in Terminal /\ c.steps = me.copy.steps
    \/ /\ me.pc = "fail" /\ new.pc \in {"hget", "done"}
       /\ c.status \in Terminal /\ c.steps = me.copy.steps
    \/ /\ me.pc = "hput" /\ new.pc = "done"
       /\ c.status \in Terminal /\ c.steps = me.copy.steps /\ c.cancel = me.copy.cancel
    \/ /\ me.pc = "markput" /\ new.pc = "done"
       /\ c.status \in Terminal /\ c.steps = me.copy.steps /\ c.cancel

Ran(r) ==
    /\ Advanced(r) /\ Kept /\ IsLive(r)
    /\ UNCHANGED <<tasks, poll, mode, todo, restarts>> /\ faults' \in {faults, faults + 1}
    /\ ~run'[r].cancelling
    /\ \A p \in Stoppers :
         stop'[p] = IF run'[r].pc = "done" /\ Awaits(p, r) THEN [stop[p] EXCEPT !.pc = "mget"] ELSE stop[p]
    /\ \A t \in Sessions : t # r[1] => row'[t] = row[t]
    /\ \/ row'[r[1]] = row[r[1]] /\ (Reads(r) \/ Fails(r) \/ Ends(r))
       \/ Saved(r[1]) /\ Writes(r)
-----------------------------------------------------------------------------
(* What stop calls become when execution r ends, or goes on.               *)
StopsAfter(r) ==
    \A p \in Stoppers :
        stop'[p] = IF run'[r].pc = "done" /\ Awaits(p, r) THEN [stop[p] EXCEPT !.pc = "mget"] ELSE stop[p]

LEMMA ExitIs ==
  ASSUME TypeOK, NEW r \in Runs, NEW pc \in {"done", "hget", "markget"}, Exit(r, pc)
  PROVE  run'[r].pc = pc /\ ~run'[r].cancelling /\ StopsAfter(r)
<1>1. run'[r].pc = pc /\ ~run'[r].cancelling
  BY Types DEF Exit, NoRun, RunRec
<1>2. CASE pc = "done"
  BY <1>1, <1>2, Types DEF Exit, Wake, StopsAfter, Awaits
<1>3. CASE pc # "done"
  BY <1>1, <1>3, Types DEF Exit, StopsAfter
<1> QED BY <1>1, <1>2, <1>3

LEMMA GotoIs ==
  ASSUME TypeOK, NEW r \in Runs, NEW pc, Goto(r, pc), pc # "done"
  PROVE  run'[r] = [run[r] EXCEPT !.pc = pc] /\ StopsAfter(r)
<1>1. run'[r] = [run[r] EXCEPT !.pc = pc] /\ stop' = stop
  BY Types DEF Goto
<1>2. run'[r].pc # "done"
  BY <1>1, Types DEF RunRec
<1> QED BY <1>1, <1>2 DEF StopsAfter

(* An exception in execution r, whose row is gone or whose access failed.  *)
LEMMA RaiseIs ==
  ASSUME TypeOK, NEW r \in Runs, Raise(r), ~run[r].cancelling, run[r].pc \in Live \ {"leave", "ready", "slot"},
         faults' = faults + 1 \/ ~Saved(r[1]) \/ run[r].pc \in InTry
  PROVE  (Reads(r) \/ Fails(r)) /\ ~run'[r].cancelling /\ StopsAfter(r)
<1>1. CASE run[r].pc \in InTry
  <2>1. PICK pc \in {"failing", "fail"} : Goto(r, pc)
    BY <1>1 DEF Raise
  <2>2. /\ run'[r] = [run[r] EXCEPT !.pc = pc]
        /\ StopsAfter(r)
    BY <2>1, GotoIs
  <2>3. run'[r].pc = pc /\ run'[r].copy = run[r].copy /\ run'[r].cancelling = run[r].cancelling
    BY <2>2, Types DEF RunRec
  <2> QED BY <1>1, <2>2, <2>3 DEF Reads
<1>2. CASE run[r].pc \notin InTry
  <2> DEFINE pc == IF HoldsSlot(r) THEN "hget" ELSE "done"
  <2>1. Exit(r, pc)
    BY <1>2 DEF Raise
  <2>2. run'[r].pc = pc /\ ~run'[r].cancelling /\ StopsAfter(r)
    BY <2>1, ExitIs
  <2>3. HoldsSlot(r) => run[r].pc \in {"get", "begin", "failing", "fail", "seedfail"}
    BY <1>2 DEF HoldsSlot, Slotted
  <2>4. faults' = faults + 1 \/ ~Saved(r[1])
    BY <1>2
  <2> QED BY <1>2, <2>2, <2>3, <2>4 DEF Fails
<1> QED BY <1>1, <1>2

(* A write of the row of execution r.                                      *)
LEMMA PutIs ==
  ASSUME TypeOK, NEW r \in Runs, NEW copy \in Row, NEW next \in SUBSET (Live \ {"done"}), Put(r, copy, next),
         ~run[r].cancelling, run[r].pc \in Live \ {"leave", "ready", "slot"}
  PROVE  /\ ~run'[r].cancelling /\ StopsAfter(r)
         /\ \A t \in Sessions : t # r[1] => row'[t] = row[t]
         /\ \/ row' = row /\ (Reads(r) \/ Fails(r))
            \/ Saved(r[1]) /\ row'[r[1]] = copy /\ run'[r].pc \in next /\ run'[r].copy = copy
<1>0. r[1] \in Sessions
  BY DEF Runs
<1>1. CASE Saved(r[1])
  <2>1. PICK pc \in next : run' = [run EXCEPT ![r].pc = pc, ![r].copy = copy]
    BY <1>1 DEF Put
  <2>2. run'[r].pc = pc /\ run'[r].copy = copy /\ run'[r].cancelling = run[r].cancelling
    <3>1. run \in [Runs -> RunRec] /\ run[r] \in RunRec
      BY Types
    <3>2. run'[r] = [[run[r] EXCEPT !.pc = pc] EXCEPT !.copy = copy]
      BY <2>1, <3>1 DEF RunRec
    <3> QED BY <3>1, <3>2 DEF RunRec
  <2>3. row' = [row EXCEPT ![r[1]] = copy] /\ stop' = stop
    BY <1>1 DEF Put
  <2>4. pc # "done"
    OBVIOUS
  <2>5. row'[r[1]] = copy /\ \A t \in Sessions : t # r[1] => row'[t] = row[t]
    BY <1>0, <2>3, Types
  <2> QED BY <1>1, <2>2, <2>3, <2>4, <2>5 DEF StopsAfter
<1>2. CASE ~Saved(r[1])
  BY <1>2, RaiseIs DEF Put
<1> QED BY <1>1, <1>2
-----------------------------------------------------------------------------
(* What all steps of an execution have in common.                          *)
RanBut(r) ==
    /\ ~run'[r].cancelling /\ StopsAfter(r)
    /\ \A t \in Sessions : t # r[1] => row'[t] = row[t]
    /\ \/ row'[r[1]] = row[r[1]] /\ (Reads(r) \/ Fails(r) \/ Ends(r))
       \/ Saved(r[1]) /\ Writes(r)

(* Every action of an execution, one by one.                               *)
LEMMA RunStepIs ==
  ASSUME IInv, Opened, NEW r \in Runs, RunStep(r)
  PROVE  RanBut(r)
<1>0. /\ TypeOK /\ r[1] \in Sessions /\ run[r] \in RunRec /\ run[r].copy \in Row /\ row[r[1]] \in Row
      /\ row \in [Sessions -> Row]
  BY Types DEF IInv, Runs, RunRec
<1>1. /\ Recorded(r) \in Row /\ Recorded(r).status = run[r].copy.status
      /\ Recorded(r).steps = run[r].copy.steps + 1 /\ run[r].copy.steps \in Nat
  BY <1>0 DEF Recorded, Row
<1>2. \A st \in Open \cup Terminal :
          LET c == [run[r].copy EXCEPT !.status = st] IN
          c \in Row /\ c.status = st /\ c.steps = run[r].copy.steps /\ c.cancel = run[r].copy.cancel
  BY <1>0 DEF Row
<1>3. run[r].pc \in Writers => run[r].copy.status \in Open
  BY DEF Opened
<1>4. row' = row => /\ \A t \in Sessions : t # r[1] => row'[t] = row[t]
                    /\ row'[r[1]] = row[r[1]]
  OBVIOUS
<1>5. \A c \in Row : row' = [row EXCEPT ![r[1]] = c] =>
          row'[r[1]] = c /\ \A t \in Sessions : t # r[1] => row'[t] = row[t]
  BY <1>0
<1>6. "running" \in Open /\ {"completed", "stopped", "failed"} = Terminal
  BY DEF Open, Terminal
<1>7. CASE Start(r)
  <2>1. run[r].pc = "ready" /\ ~run[r].cancelling /\ Goto(r, "slot") /\ row' = row
    BY <1>7 DEF Start, At
  <2>2. run'[r] = [run[r] EXCEPT !.pc = "slot"] /\ StopsAfter(r)
    BY <1>0, <2>1, GotoIs
  <2>3. run'[r].pc = "slot" /\ ~run'[r].cancelling
    BY <1>0, <2>1, <2>2 DEF RunRec
  <2> QED BY <1>4, <2>1, <2>2, <2>3 DEF RanBut, Reads
<1>8. CASE Acquire(r)
  <2>1. run[r].pc = "slot" /\ ~run[r].cancelling /\ row' = row /\ stop' = stop
    BY <1>8 DEF Acquire, At
  <2>2. run'[r].pc = "get" /\ ~run'[r].cancelling
    BY <1>0, <1>8, <2>1, Types DEF Acquire, RunRec
  <2> QED BY <1>4, <2>1, <2>2 DEF RanBut, Reads, StopsAfter
<1>9. CASE Get(r)
  <2>1. run[r].pc = "get" /\ ~run[r].cancelling /\ row' = row
    BY <1>9 DEF Get, At
  <2>2. CASE row[r[1]].status \in Open
    <3>1. PICK pc \in {"begin", "seedfail"} :
              /\ run' = [run EXCEPT ![r].pc = pc, ![r].copy = row[r[1]]]
              /\ UNCHANGED <<free, stop>>
      BY <1>9, <2>2 DEF Get
    <3>2. run'[r].pc = pc /\ run'[r].copy = row[r[1]] /\ ~run'[r].cancelling
      <4>1. run'[r] = [[run[r] EXCEPT !.pc = pc] EXCEPT !.copy = row[r[1]]]
        BY <1>0, <3>1, Types DEF RunRec
      <4> QED BY <1>0, <2>1, <4>1 DEF RunRec
    <3> QED BY <1>4, <2>1, <2>2, <3>1, <3>2 DEF RanBut, Reads, StopsAfter
  <2>3. CASE row[r[1]].status \notin Open
    <3>1. Goto(r, "leave")
      BY <1>9, <2>3 DEF Get
    <3>2. run'[r] = [run[r] EXCEPT !.pc = "leave"] /\ StopsAfter(r)
      BY <1>0, <3>1, GotoIs
    <3>3. run'[r].pc = "leave" /\ ~run'[r].cancelling
      BY <1>0, <2>1, <3>2 DEF RunRec
    <3> QED BY <1>4, <2>1, <2>3, <3>2, <3>3 DEF RanBut, Reads
  <2> QED BY <2>2, <2>3
<1>10. ASSUME NEW copy \in Row, NEW next \in SUBSET (InTry \cup {"fail"}), Put(r, copy, next),
              run[r].pc \in InTry \cup {"begin", "failing"}, ~run[r].cancelling,
              copy.status \in Open, copy.steps >= run[r].copy.steps
       PROVE  RanBut(r)
  <2>1. next \in SUBSET (Live \ {"done"}) /\ run[r].pc \in Live \ {"leave", "ready", "slot"}
    BY <1>10 DEF Live, Slotted, InTry, Handler
  <2>2. /\ ~run'[r].cancelling /\ StopsAfter(r)
        /\ \A t \in Sessions : t # r[1] => row'[t] = row[t]
        /\ \/ row' = row /\ (Reads(r) \/ Fails(r))
           \/ Saved(r[1]) /\ row'[r[1]] = copy /\ run'[r].pc \in next /\ run'[r].copy = copy
    BY <1>0, <1>10, <2>1, PutIs
  <2> QED BY <1>4, <1>10, <2>2 DEF RanBut, Writes
<1>11. CASE Begin(r)
  <2> DEFINE c == [run[r].copy EXCEPT !.status = "running", !.cancel = FALSE]
  <2>1. c \in Row /\ c.status = "running" /\ c.steps = run[r].copy.steps
    BY <1>0 DEF Row, Open
  <2>2. Put(r, c, {"setup"}) /\ run[r].pc = "begin" /\ ~run[r].cancelling
    BY <1>11 DEF Begin, At
  <2> HIDE DEF c
  <2>3. {"setup"} \in SUBSET (InTry \cup {"fail"})
    BY DEF InTry
  <2> QED BY <1>1, <1>6, <1>10, <2>1, <2>2, <2>3
<1>12. CASE Setup(r) \/ Work(r) \/ Closing(r) \/ Halting(r) \/ Failing(r)
  <2>1. PICK next \in SUBSET (InTry \cup {"fail"}) : Put(r, Recorded(r), next)
    BY <1>12 DEF Setup, Work, Closing, Halting, Failing, InTry
  <2>2. run[r].pc \in InTry \cup {"begin", "failing"} /\ ~run[r].cancelling
    BY <1>12 DEF Setup, Work, Closing, Halting, Failing, InTry, At
  <2>3. run[r].copy.status \in Open
    BY <1>3, <2>2 DEF Writers
  <2> QED BY <1>1, <1>10, <2>1, <2>2, <2>3
<1>13. CASE SeedFail(r) \/ Finish(r) \/ Halt(r)
  <2>1. PICK st \in Terminal : Put(r, [run[r].copy EXCEPT !.status = st], {"leave"})
    BY <1>6, <1>13 DEF SeedFail, Finish, Halt
  <2> DEFINE c == [run[r].copy EXCEPT !.status = st]
  <2>2. c \in Row /\ c.status \in Terminal /\ c.steps = run[r].copy.steps /\ Put(r, c, {"leave"})
    BY <1>2, <2>1
  <2> HIDE DEF c
  <2>3. run[r].pc \in {"seedfail", "finish", "halt"} /\ ~run[r].cancelling
    BY <1>13 DEF SeedFail, Finish, Halt, At
  <2>4. {"leave"} \in SUBSET (Live \ {"done"}) /\ run[r].pc \in Live \ {"leave", "ready", "slot"}
    BY <2>3 DEF Live, Slotted, InTry
  <2>5. /\ ~run'[r].cancelling /\ StopsAfter(r)
        /\ \A t \in Sessions : t # r[1] => row'[t] = row[t]
        /\ \/ row' = row /\ (Reads(r) \/ Fails(r))
           \/ Saved(r[1]) /\ row'[r[1]] = c /\ run'[r].pc = "leave"
    BY <1>0, <2>2, <2>3, <2>4, PutIs
  <2> QED BY <1>4, <2>2, <2>3, <2>5 DEF RanBut, Writes
<1>14. CASE Check(r)
  <2>1. PICK pc \in {"halting", "work", "closing"} : Goto(r, pc)
    BY <1>14 DEF Check
  <2>2. run[r].pc = "check" /\ ~run[r].cancelling /\ row' = row
    BY <1>14 DEF Check, At
  <2>3. run'[r] = [run[r] EXCEPT !.pc = pc] /\ StopsAfter(r)
    BY <1>0, <2>1, GotoIs
  <2>4. run'[r].pc = pc /\ run'[r].copy = run[r].copy /\ ~run'[r].cancelling
    BY <1>0, <2>2, <2>3 DEF RunRec
  <2>5. run[r].pc \in InTry /\ pc \in InTry
    BY <2>2 DEF InTry
  <2> QED BY <1>4, <2>2, <2>3, <2>4, <2>5 DEF RanBut, Reads
<1>15. CASE Fail(r)
  <2>1. run[r].pc = "fail" /\ ~run[r].cancelling /\ Raise(r)
    BY <1>15 DEF Fail, At
  <2>2. run[r].pc \notin InTry
    BY <2>1 DEF InTry
  <2>3. PICK pc \in {"hget", "done"} : Exit(r, pc)
    BY <2>1, <2>2 DEF Raise
  <2>4. run'[r].pc = pc /\ ~run'[r].cancelling /\ StopsAfter(r)
    BY <1>0, <2>3, ExitIs
  <2>5. CASE Saved(r[1])
    <3> DEFINE c == [run[r].copy EXCEPT !.status = "failed"]
    <3>1. row' = [row EXCEPT ![r[1]] = c]
      BY <1>15, <2>5 DEF Fail
    <3>2. c \in Row /\ c.status \in Terminal /\ c.steps = run[r].copy.steps
      BY <1>2, <1>6
    <3> HIDE DEF c
    <3>3. row'[r[1]] = c /\ \A t \in Sessions : t # r[1] => row'[t] = row[t]
      BY <1>5, <3>1, <3>2
    <3> QED BY <2>1, <2>4, <2>5, <3>2, <3>3 DEF RanBut, Writes
  <2>6. CASE ~Saved(r[1])
    <3>1. row' = row
      BY <1>15, <2>6 DEF Fail
    <3>2. run[r].pc \in Live \ (InTry \cup {"leave"})
      BY <2>1 DEF Live, Slotted, InTry
    <3> QED BY <1>4, <2>1, <2>4, <2>6, <3>1, <3>2 DEF RanBut, Fails
  <2> QED BY <2>5, <2>6
<1>16. CASE HandleGet(r) \/ MarkGet(r)
  <2>1. run[r].pc \in {"hget", "markget"} /\ ~run[r].cancelling /\ row' = row
    BY <1>16 DEF HandleGet, MarkGet, At
  <2>2. \/ row[r[1]].status \notin Open /\ Exit(r, "done")
        \/ /\ stop' = stop
           /\ \/ /\ run[r].pc = "hget" /\ row[r[1]].status \in Open
                 /\ run' = [run EXCEPT ![r].pc = "hput", ![r].copy = row[r[1]]]
              \/ /\ run[r].pc = "markget" /\ row[r[1]].status # "deleted"
                 /\ run' = [run EXCEPT ![r].pc = "markput", ![r].copy = row[r[1]]]
    BY <1>16 DEF HandleGet, MarkGet, At, Open
  <2>3. CASE row[r[1]].status \notin Open /\ Exit(r, "done")
    <3>1. run'[r].pc = "done" /\ ~run'[r].cancelling /\ StopsAfter(r)
      BY <1>0, <2>3, ExitIs
    <3> QED BY <1>4, <2>1, <2>3, <3>1 DEF RanBut, Reads
  <2>4. ASSUME NEW pc \in {"hput", "markput"}, stop' = stop,
               run' = [run EXCEPT ![r].pc = pc, ![r].copy = row[r[1]]]
        PROVE  run'[r].pc = pc /\ run'[r].copy = row[r[1]] /\ ~run'[r].cancelling /\ StopsAfter(r)
    <3>1. run'[r] = [[run[r] EXCEPT !.pc = pc] EXCEPT !.copy = row[r[1]]]
      BY <1>0, <2>4, Types DEF RunRec
    <3>2. run'[r].pc = pc /\ run'[r].copy = row[r[1]] /\ ~run'[r].cancelling
      BY <1>0, <2>1, <3>1 DEF RunRec
    <3>3. StopsAfter(r)
      BY <2>4, <3>2 DEF StopsAfter
    <3> QED BY <3>2, <3>3
  <2>5. CASE /\ stop' = stop
             /\ run[r].pc = "hget" /\ row[r[1]].status \in Open
             /\ run' = [run EXCEPT ![r].pc = "hput", ![r].copy = row[r[1]]]
    BY <1>4, <2>1, <2>4, <2>5 DEF RanBut, Reads
  <2>6. CASE /\ stop' = stop
             /\ run[r].pc = "markget" /\ row[r[1]].status # "deleted"
             /\ run' = [run EXCEPT ![r].pc = "markput", ![r].copy = row[r[1]]]
    BY <1>4, <2>1, <2>4, <2>6 DEF RanBut, Reads
  <2> QED BY <2>2, <2>3, <2>5, <2>6
<1>17. CASE HandlePut(r) \/ MarkPut(r)
  <2>1. run[r].pc \in {"hput", "markput"} /\ ~run[r].cancelling /\ Exit(r, "done")
    BY <1>17 DEF HandlePut, MarkPut, At
  <2>2. run'[r].pc = "done" /\ ~run'[r].cancelling /\ StopsAfter(r)
    BY <1>0, <2>1, ExitIs
  <2>3. CASE ~Saved(r[1])
    <3>1. row' = row
      BY <1>17, <2>3 DEF HandlePut, MarkPut
    <3>2. run[r].pc \in Live \ (InTry \cup {"leave"})
      BY <2>1 DEF Live, Slotted, InTry, Handler
    <3> QED BY <1>4, <2>2, <2>3, <3>1, <3>2 DEF RanBut, Fails
  <2>4. CASE Saved(r[1]) /\ HandlePut(r)
    <3> DEFINE c == [run[r].copy EXCEPT !.status = "failed"]
    <3>1. row' = [row EXCEPT ![r[1]] = c] /\ run[r].pc = "hput"
      BY <2>4 DEF HandlePut, At
    <3>2. c \in Row /\ c.status \in Terminal /\ c.steps = run[r].copy.steps /\ c.cancel = run[r].copy.cancel
      BY <1>2, <1>6
    <3> HIDE DEF c
    <3>3. row'[r[1]] = c /\ \A t \in Sessions : t # r[1] => row'[t] = row[t]
      BY <1>5, <3>1, <3>2
    <3> QED BY <2>2, <2>4, <3>1, <3>2, <3>3 DEF RanBut, Writes
  <2>5. CASE Saved(r[1]) /\ MarkPut(r)
    <3> DEFINE c == Marked(run[r].copy)
    <3>1. row' = [row EXCEPT ![r[1]] = c] /\ run[r].pc = "markput"
      BY <2>5 DEF MarkPut, At
    <3>2. c \in Row /\ c.status \in Terminal /\ c.steps = run[r].copy.steps /\ c.cancel
      BY <1>0 DEF Marked, Row, Terminal
    <3> HIDE DEF c
    <3>3. row'[r[1]] = c /\ \A t \in Sessions : t # r[1] => row'[t] = row[t]
      BY <1>5, <3>1, <3>2
    <3> QED BY <2>2, <2>5, <3>1, <3>2, <3>3 DEF RanBut, Writes
  <2> QED BY <1>17, <2>3, <2>4, <2>5
<1>18. CASE Leave(r)
  <2>1. run[r].pc = "leave" /\ row' = row /\ run'[r].pc = "done" /\ ~run'[r].cancelling /\ StopsAfter(r)
    BY <1>0, <1>18, ExitIs DEF Leave, At
  <2> QED BY <1>4, <2>1 DEF RanBut, Reads
<1>19. CASE Deliver(r)
  <2>1. PICK pc \in {"markget", "done"} : Exit(r, pc)
    BY <1>19 DEF Deliver
  <2>2. run[r].cancelling /\ row' = row /\ run'[r].pc = pc /\ ~run'[r].cancelling /\ StopsAfter(r)
    BY <1>0, <1>19, <2>1, ExitIs DEF Deliver
  <2> QED BY <1>4, <2>2 DEF RanBut, Ends
<1> QED
  BY <1>7, <1>8, <1>9, <1>11, <1>12, <1>13, <1>14, <1>15, <1>16, <1>17, <1>18, <1>19 DEF RunStep

LEMMA RunsRan ==
  ASSUME IInv, Opened, NEW r \in Runs, RunStep(r) \/ Error(r)
  PROVE  Ran(r)
<1>0. TypeOK /\ Copied /\ faults \in Nat
  BY PollOk DEF IInv
<1>1. CASE RunStep(r)
  <2>1. Advanced(r) /\ Kept /\ IsLive(r) /\ RanBut(r)
    BY <1>0, <1>1, RunStepOk, RunStepIs
  <2>2. UNCHANGED <<tasks, poll, mode, todo, restarts, faults>>
    BY <1>1 DEF RunStep
  <2> QED BY <2>1, <2>2 DEF Ran, RanBut, StopsAfter
<1>2. CASE Error(r)
  <2>1. /\ Raise(r) /\ ~run[r].cancelling /\ run[r].pc \in (Slotted \cup Handler) \ {"leave"}
        /\ UNCHANGED <<row, tasks, poll, mode, todo, restarts>>
        /\ \/ run[r].pc \in InTry /\ faults' = faults
           \/ run[r].pc \notin InTry /\ faults' = faults + 1
    BY <1>2 DEF Error
  <2>2. run[r].pc \in Live \ {"leave", "ready", "slot"} /\ IsLive(r)
    BY <2>1 DEF Live, Slotted, InTry, Handler, IsLive
  <2>3. Advanced(r) /\ Kept
    BY <1>0, <2>1, RaiseOk, Types DEF Kept
  <2>4. (Reads(r) \/ Fails(r)) /\ ~run'[r].cancelling /\ StopsAfter(r)
    BY <1>0, <2>1, <2>2, RaiseIs
  <2> QED BY <2>1, <2>2, <2>3, <2>4 DEF Ran, StopsAfter
<1> QED BY <1>1, <1>2
-----------------------------------------------------------------------------
(* A step of an execution keeps the invariant.                             *)
LEMMA Places == /\ Writers \subseteq Live /\ InTry \subseteq Writers /\ InTry \subseteq InCharge
                /\ "idle" \notin Live /\ "done" \notin Live
                /\ Open \cap Terminal = {}
                /\ \A s \in Sessions, k \in {1, 2} : <<s, k>> \in Runs /\ <<s, k>>[1] = s
                /\ \A r \in Runs : r[1] \in Sessions /\ r[2] \in {1, 2} /\ r = <<r[1], r[2]>>
                /\ \A s : Saved(s) <=> row[s].status \in Open \cup Terminal
  BY DEF Writers, Live, Slotted, InTry, Handler, InCharge, Open, Terminal, Runs, Saved

LEMMA Lone ==
  ASSUME IInv, NEW r \in Runs, IsLive(r), NEW q \in Runs, q # r, q[1] = r[1]
  PROVE  ~IsLive(q)
<1>1. OneRunPerSession
  BY InvOnce
<1> QED BY <1>1, Places DEF OneRunPerSession

LEMMA StopTypes == ASSUME IInv, NEW p \in Stoppers
                   PROVE /\ stop[p] \in StopRec /\ stop[p].sess \in Sessions /\ stop[p].k \in {1, 2}
                         /\ stop[p].copy \in Row /\ row[stop[p].sess] \in Row
                         /\ <<stop[p].sess, stop[p].k>> \in Runs
  BY Types DEF IInv, StopRec, Runs

(* Stop calls go on from waiting only.                                     *)
LEMMA Waken ==
  ASSUME IInv, Served, NEW r \in Runs, Ran(r), NEW p \in Stoppers
  PROVE  /\ stop'[p].sess = stop[p].sess /\ stop'[p].copy = stop[p].copy /\ stop'[p].k = stop[p].k
         /\ \/ stop'[p].pc = stop[p].pc /\ ~(Awaits(p, r) /\ run'[r].pc = "done")
            \/ /\ stop[p].pc = "await" /\ stop'[p].pc = "mget" /\ run'[r].pc = "done"
               /\ Awaits(p, r) /\ stop[p].sess = r[1]
<1>1. stop[p] \in StopRec
  BY StopTypes
<1>2. stop'[p] = IF run'[r].pc = "done" /\ Awaits(p, r) THEN [stop[p] EXCEPT !.pc = "mget"] ELSE stop[p]
  BY DEF Ran
<1>3. CASE run'[r].pc = "done" /\ Awaits(p, r)
  BY <1>1, <1>2, <1>3, Places DEF Awaits, StopRec
<1>4. CASE ~(run'[r].pc = "done" /\ Awaits(p, r))
  BY <1>2, <1>4
<1> QED BY <1>3, <1>4

LEMMA RanServed ==
  ASSUME OInv, NEW r \in Runs, Ran(r)
  PROVE  Served' /\ Cancelled' /\ Fresh'
<1> USE DEF OInv
<1>1. run'[r].pc \in Live \cup {"done"}
  BY DEF Ran, Reads, Fails, Ends, Writes, Live, Slotted, InTry, Handler
<1>2. \A q \in Runs : q # r => run'[q] = run[q]
  BY DEF Ran, Advanced
<1>3. Served'
  <2> SUFFICES ASSUME NEW p \in Stoppers
               PROVE  /\ stop'[p].pc # "idle" => mode' = "up" /\ row'[stop'[p].sess].status # "none"
                      /\ stop'[p].pc = "await" => run'[<<stop'[p].sess, stop'[p].k>>].pc \in Live
    BY DEF Served, IsLive
  <2>1. stop[p].pc # "idle" => mode = "up" /\ row[stop[p].sess].status # "none"
    BY DEF Served
  <2>2. stop[p].sess \in Sessions
    BY StopTypes
  <2>3. row[stop[p].sess].status # "none" => row'[stop[p].sess].status # "none"
    BY <2>2 DEF Ran, Kept
  <2>4. stop'[p].pc = "await" => run'[<<stop'[p].sess, stop'[p].k>>].pc \in Live
    <3> SUFFICES ASSUME stop'[p].pc = "await" PROVE run'[<<stop'[p].sess, stop'[p].k>>].pc \in Live
      OBVIOUS
    <3>1. stop[p].pc = "await" /\ ~(Awaits(p, r) /\ run'[r].pc = "done")
      BY Waken
    <3> DEFINE q == <<stop[p].sess, stop[p].k>>
    <3>2. IsLive(q) /\ q \in Runs
      BY <3>1, StopTypes DEF Served
    <3>3. <<stop'[p].sess, stop'[p].k>> = q
      BY Waken
    <3>4. CASE q = r
      <4>1. run'[r].pc # "done"
        BY <3>1, <3>4 DEF Awaits
      <4> QED BY <1>1, <3>3, <3>4, <4>1 DEF IsLive
    <3>5. CASE q # r
      BY <1>2, <3>2, <3>3, <3>5 DEF IsLive
    <3> QED BY <3>4, <3>5
  <2>5. mode' = mode
    BY DEF Ran
  <2> QED BY <2>1, <2>3, <2>4, <2>5, Waken
<1>4. Cancelled'
  <2> SUFFICES ASSUME NEW q \in Runs, IsLive(q)', run'[q].cancelling, mode' # "stopping"
               PROVE  \E p \in Stoppers : Awaits(p, q)'
    BY DEF Cancelled
  <2>1. q # r /\ run'[q] = run[q] /\ mode' = mode
    BY <1>2 DEF Ran
  <2>2. PICK p \in Stoppers : Awaits(p, q)
    BY <2>1 DEF Cancelled, IsLive
  <2>3. ~Awaits(p, r)
    BY <2>1, <2>2 DEF Awaits
  <2>4. Awaits(p, q)'
    BY <2>2, <2>3, Waken DEF Awaits
  <2> QED BY <2>4
<1>5. Fresh'
  <2>1. UNCHANGED <<mode, tasks, todo>>
    BY DEF Ran
  <2>2. \A s \in Sessions : row'[s].status = "none" => row'[s].steps = 0
    <3> SUFFICES ASSUME NEW s \in Sessions, row'[s].status = "none" PROVE row'[s].steps = 0
      OBVIOUS
    <3>1. row[s].status = "none"
      BY DEF Ran, Kept
    <3>2. ~Saved(s)
      BY <3>1 DEF Saved, Open, Terminal
    <3>3. row'[s] = row[s]
      BY <3>2 DEF Ran
    <3> QED BY <3>1, <3>3 DEF Fresh
  <2> QED BY <2>1, <2>2 DEF Fresh
<1> QED BY <1>3, <1>4, <1>5

LEMMA RanOpened ==
  ASSUME OInv, NEW r \in Runs, Ran(r)
  PROVE  Opened'
<1> USE DEF OInv
<1>1. ASSUME run'[r].pc \in Writers PROVE run'[r].copy.status \in Open
  <2>1. CASE Reads(r)
    <3>1. \/ run'[r].pc \in {"begin", "seedfail", "hput"} /\ run'[r].copy = row[r[1]] /\ row[r[1]].status \in Open
          \/ run[r].pc \in InTry /\ run'[r].copy = run[r].copy
      BY <1>1, <2>1 DEF Reads, Writers, InTry
    <3> QED BY <3>1, Places DEF Opened
  <2>2. CASE Fails(r) \/ Ends(r)
    BY <1>1, <2>2 DEF Fails, Ends, Writers, InTry
  <2>3. CASE Writes(r)
    BY <1>1, <2>3 DEF Writes, Writers, InTry
  <2> QED BY <2>1, <2>2, <2>3 DEF Ran
<1>2. \A q \in Runs : q # r => run'[q] = run[q]
  BY DEF Ran, Advanced
<1>3. \A p \in Stoppers : stop'[p].pc = "put" => stop[p].pc = "put" /\ stop'[p].copy = stop[p].copy
  BY Waken
<1> QED BY <1>1, <1>2, <1>3 DEF Opened

LEMMA RanOwned ==
  ASSUME OInv, NEW r \in Runs, Ran(r)
  PROVE  Owned'
<1> USE DEF OInv
<1> SUFFICES ASSUME faults' = 0, mode' \in {"up", "recovering"}, NEW s \in Sessions, row'[s].status \in Open
             PROVE  Minded(s)'
  BY DEF Owned
<1>1. /\ faults = 0 /\ faults' = faults /\ mode' = mode /\ todo' = todo
      /\ \A q \in Runs : q # r => run'[q] = run[q]
  BY PollOk DEF Ran, Advanced
<1>2. \A p \in Stoppers : stop[p].pc \in {"cancel", "await", "mget", "mput"} =>
          stop'[p].pc \in {"cancel", "await", "mget", "mput"} /\ stop'[p].sess = stop[p].sess
  BY Waken
<1>3. ASSUME row[s].status \in Open, r[1] # s \/ run[r].pc = "leave" PROVE Minded(s)'
  <2>1. Minded(s)
    BY <1>1, <1>3 DEF Owned
  <2>2. \A k \in {1, 2} : run[<<s, k>>].pc \in InCharge => <<s, k>> # r
    BY <1>3, Places DEF InCharge
  <2> QED BY <1>1, <1>2, <2>1, <2>2, Places DEF Minded
<1>4. CASE r[1] # s
  BY <1>3, <1>4 DEF Ran
<1>5. CASE r[1] = s /\ run'[r].pc \in InCharge
  BY <1>5, Places DEF Minded
<1>6. CASE r[1] = s /\ run'[r].pc \notin InCharge
  <2>1. CASE Saved(s) /\ Writes(r)
    BY <1>6, <2>1, Places DEF Writes, InCharge, Live, Slotted, Handler
  <2>2. CASE row'[s] = row[s] /\ Reads(r)
    <3>1. run[r].pc = "leave"
      BY <1>6, <2>2, Places DEF Reads, InCharge, Live, Slotted, Handler
    <3> QED BY <1>3, <2>2, <3>1
  <2>3. CASE row'[s] = row[s] /\ Fails(r)
    <3>1. Saved(s)
      BY <2>3 DEF Saved
    <3>2. faults' = faults + 1
      BY <1>6, <2>3, <3>1 DEF Fails
    <3> QED BY <1>1, <3>2
  <2>4. CASE row'[s] = row[s] /\ Ends(r)
    <3>1. run'[r].pc = "done" /\ run[r].cancelling
      BY <1>6, <2>4 DEF Ends, InCharge, Live, Handler
    <3>2. PICK p \in Stoppers : Awaits(p, r)
      BY <1>1, <3>1 DEF Cancelled, Ran
    <3>3. stop'[p].pc = "mget" /\ stop'[p].sess = s
      BY <1>6, <3>1, <3>2, Waken
    <3> QED BY <3>3 DEF Minded
  <2> QED BY <1>6, <2>1, <2>2, <2>3, <2>4 DEF Ran
<1> QED BY <1>4, <1>5, <1>6

LEMMA RanQuieted ==
  ASSUME OInv, NEW r \in Runs, Ran(r)
  PROVE  Quieted'
<1> USE DEF OInv
<1> SUFFICES ASSUME NEW p \in Stoppers, stop'[p].sess \in Stoppable, stop'[p].pc \in {"mget", "mput"},
                    NEW k \in {1, 2}, run'[<<stop'[p].sess, k>>].pc \in Live
             PROVE  FALSE
  BY DEF Quieted, IsLive, Stoppable
<1> DEFINE q == <<stop[p].sess, k>>
<1>0. q \in Runs /\ q[1] = stop[p].sess /\ stop'[p].sess = stop[p].sess /\ IsLive(r)
  BY StopTypes, Places, Waken DEF Ran
<1>1. \A x \in Runs : x # r => run'[x] = run[x]
  BY DEF Ran, Advanced
<1>2. CASE stop[p].pc \in {"mget", "mput"}
  <2>1. ~IsLive(q)
    BY <1>0, <1>2 DEF Quieted
  <2>2. q # r
    BY <1>0, <2>1
  <2> QED BY <1>0, <1>1, <2>1, <2>2 DEF IsLive
<1>3. CASE stop[p].pc \notin {"mget", "mput"}
  <2>1. Awaits(p, r) /\ run'[r].pc = "done" /\ stop[p].sess = r[1]
    BY <1>3, Waken
  <2>2. q # r
    BY <1>0, <2>1, Places
  <2>3. ~IsLive(q)
    BY <1>0, <2>1, <2>2, Lone
  <2> QED BY <1>0, <1>1, <2>2, <2>3 DEF IsLive
<1> QED BY <1>2, <1>3

LEMMA RanSettled ==
  ASSUME OInv, NEW r \in Runs, Ran(r)
  PROVE  Settled'
<1> USE DEF OInv
<1> SUFFICES ASSUME NEW s \in Stoppable, NEW k \in {1, 2}, row'[s].status \in Terminal,
                    run'[<<s, k>>].pc \in Writers
             PROVE  FALSE
  BY DEF Settled, Stoppable
<1> DEFINE q == <<s, k>>
<1>0. q \in Runs /\ q[1] = s /\ s \in Sessions /\ IsLive(r)
  BY Places DEF Stoppable, Ran
<1>1. \A x \in Runs : x # r => run'[x] = run[x]
  BY DEF Ran, Advanced
<1>2. CASE q # r /\ r[1] = s
  <2>1. ~IsLive(q)
    BY <1>0, <1>2, Lone
  <2> QED BY <1>0, <1>1, <1>2, <2>1, Places DEF IsLive
<1>3. CASE r[1] # s
  <2>1. row'[s] = row[s] /\ run'[q] = run[q]
    BY <1>0, <1>1, <1>3 DEF Ran
  <2> QED BY <2>1 DEF Settled
<1>4. CASE q = r
  <2>1. CASE row'[s] = row[s] /\ (Reads(r) \/ Fails(r) \/ Ends(r))
    <3>1. run[r].pc \notin Writers
      BY <1>4, <2>1 DEF Settled
    <3>2. row[s].status \notin Open
      BY <2>1, Places
    <3> QED BY <1>0, <1>4, <2>1, <3>1, <3>2 DEF Reads, Fails, Ends, Writers, InTry
  <2>2. CASE Writes(r)
    <3>1. row'[s].status \notin Open
      BY Places
    <3> QED BY <1>0, <1>4, <2>2, <3>1 DEF Writes, Writers, InTry
  <2> QED BY <1>0, <1>4, <2>1, <2>2 DEF Ran
<1> QED BY <1>2, <1>3, <1>4

(* The copies of stop calls are as they were.                              *)
LEMMA RanCovers ==
  ASSUME OInv, NEW r \in Runs, Ran(r), NEW p \in Stoppers, stop'[p].pc \in {"put", "mput"}
  PROVE  stop[p].pc = stop'[p].pc /\ stop'[p].sess = stop[p].sess /\ stop'[p].copy = stop[p].copy
  BY Waken DEF OInv

LEMMA Idles ==
  ASSUME NEW pc, pc \notin Writers \cup {"ready", "slot", "get", "hget", "hput"}, NEW r, run'[r].pc = pc
  PROVE  Follows(r)'
  BY DEF Follows, Writers

LEMMA RanFollowed ==
  ASSUME OInv, NEW r \in Runs, Ran(r)
  PROVE  Followed'
<1> USE DEF OInv
<1> SUFFICES ASSUME NEW q \in Runs, q[1] \in Stoppable, Saved(q[1])'
             PROVE  Follows(q)'
  BY DEF Followed, Stoppable
<1> DEFINE s == q[1]
<1>0. s \in Sessions /\ IsLive(r) /\ r[1] \in Sessions /\ TypeOK
  BY Places DEF Stoppable, Ran, IInv
<1>1. \A x \in Runs : x # r => run'[x] = run[x]
  BY DEF Ran, Advanced
<1>2. /\ \A n : Covers(s, n) => Covers(s, n)'
      /\ Even(s) /\ row'[s] = row[s] => Even(s)'
  BY RanCovers DEF Covers, Even
<1>3. Saved(s)
  <2>1. CASE r[1] = s /\ Writes(r) /\ Saved(s)
    BY <2>1
  <2>2. CASE row'[s] = row[s]
    BY <2>2 DEF Saved
  <2> QED BY <1>0, <2>1, <2>2 DEF Ran
<1>4. CASE q # r /\ r[1] = s
  <2>1. run'[q].pc \notin Live
    BY <1>0, <1>1, <1>4, Lone DEF IsLive
  <2>2. run'[q].pc \notin Writers \cup {"ready", "slot", "get", "hget", "hput"}
    BY <2>1, Places DEF Live, Handler, Slotted
  <2> QED BY <2>2, Idles
<1>5. CASE r[1] # s
  <2>1. row'[s] = row[s] /\ run'[q] = run[q]
    BY <1>0, <1>1, <1>5 DEF Ran
  <2>2. Follows(q)
    BY <1>3 DEF Followed
  <2> QED BY <1>2, <2>1, <2>2 DEF Follows
<1>6. CASE q = r
  <2> DEFINE me == run[r]
             new == run'[r]
  <2>0. Follows(r) /\ s = r[1]
    BY <1>3, <1>6 DEF Followed
  <2>1. /\ me.copy.steps \in Nat /\ new.copy.steps \in Nat
        /\ row[r[1]].steps \in Nat /\ row'[r[1]].steps \in Nat
        /\ \A p \in Stoppers : stop[p].copy.steps \in Nat
    BY <1>0, Types, StopTypes DEF Ran, Advanced, Kept, RunRec, StopRec, Row
  <2>2. CASE new.pc \notin Writers \cup {"ready", "slot", "get", "hget", "hput"}
    BY <1>6, <2>2, Idles
  <2>3. ASSUME row'[r[1]] = row[r[1]], Even(r[1]), new.pc \in {"ready", "slot", "get"}
        PROVE  Follows(r)'
    BY <1>2, <2>0, <2>3 DEF Follows, Writers, InTry
  <2>4. ASSUME new.pc \in Writers \ {"hput"}, Covers(r[1], new.copy.steps),
               row'[r[1]].steps = new.copy.steps \/ row'[r[1]].cancel,
               row'[r[1]].steps <= new.copy.steps
        PROVE  Follows(r)'
    <3>1. Covers(r[1], run[r].copy.steps)'
      BY <1>2, <2>0, <2>4 DEF Covers
    <3> QED BY <2>4, <3>1 DEF Follows, Writers, InTry
  <2>5. ASSUME new.pc = "hget", row'[r[1]].cancel \/ Covers(r[1], row'[r[1]].steps)
        PROVE  Follows(r)'
    <3>1. row'[r[1]].cancel \/ Covers(r[1], row[r[1]].steps)'
      BY <1>2, <2>0, <2>5 DEF Covers
    <3> QED BY <2>5, <3>1 DEF Follows, Writers, InTry
  <2>6. CASE row'[r[1]] = row[r[1]] /\ Reads(r)
    <3>1. CASE me.pc \in {"ready", "slot"}
      <4>1. Even(r[1]) /\ new.pc \in {"slot", "get"}
        BY <2>0, <2>6, <3>1 DEF Reads, Follows, InTry
      <4> QED BY <1>6, <2>3, <2>6, <4>1
    <3>2. CASE me.pc = "get"
      <4>1. CASE new.pc \in {"begin", "seedfail"} /\ new.copy = row[r[1]]
        <5>1. Covers(r[1], row[r[1]].steps)
          BY <2>0, <2>1, <3>2 DEF Follows, Even, Covers
        <5> QED BY <1>6, <2>1, <2>4, <2>6, <4>1, <5>1 DEF Writers
      <4>2. CASE new.pc = "leave"
        BY <2>2, <4>2 DEF Writers, InTry
      <4> QED BY <2>6, <3>2, <4>1, <4>2 DEF Reads, InTry
    <3>3. CASE me.pc \in InTry
      <4>1. /\ new.pc \in Writers \ {"hput"} /\ new.copy = me.copy
            /\ me.pc \in Writers \ {"hput"}
        BY <2>6, <3>3 DEF Reads, Writers, InTry
      <4>2. /\ row[r[1]].steps = me.copy.steps \/ row[r[1]].cancel
            /\ row[r[1]].steps <= me.copy.steps
            /\ Covers(r[1], me.copy.steps)
        BY <2>0, <4>1 DEF Follows
      <4> QED BY <1>6, <2>4, <2>6, <4>1, <4>2
    <3>4. CASE me.pc = "hget" /\ new.pc = "hput" /\ new.copy = row[r[1]]
      <4>1. row[r[1]].cancel \/ Covers(r[1], row[r[1]].steps)
        BY <2>0, <3>4 DEF Follows
      <4>2. new.copy.cancel \/ (row'[r[1]].steps <= new.copy.steps /\ Covers(r[1], row[r[1]].steps)')
        BY <1>2, <2>0, <2>1, <2>6, <3>4, <4>1 DEF Covers
      <4>3. new.copy.cancel \/ (row'[r[1]].steps <= new.copy.steps /\ Covers(r[1], run[r].copy.steps)')
        BY <2>6, <3>4, <4>2 DEF Covers
      <4> QED BY <1>6, <3>4, <4>3 DEF Follows, Writers, InTry
    <3>5. CASE new.pc \in {"done", "markput", "leave"}
      BY <2>2, <3>5 DEF Writers, InTry
    <3> QED BY <2>6, <3>1, <3>2, <3>3, <3>4, <3>5 DEF Reads
  <2>7. CASE row'[r[1]] = row[r[1]] /\ Fails(r)
    <3>1. CASE new.pc = "done"
      BY <2>2, <3>1 DEF Writers, InTry
    <3>2. CASE new.pc = "hget" /\ me.pc = "get"
      <4>1. Covers(r[1], row[r[1]].steps)
        BY <2>0, <2>1, <3>2 DEF Follows, Even, Covers
      <4> QED BY <1>6, <2>5, <2>7, <3>2, <4>1
    <3>3. CASE new.pc = "hget" /\ me.pc \in {"begin", "failing", "fail", "seedfail"}
      <4>1. /\ row[r[1]].steps = me.copy.steps \/ row[r[1]].cancel
            /\ Covers(r[1], me.copy.steps)
        BY <2>0, <3>3 DEF Follows, Writers
      <4>2. row[r[1]].cancel \/ Covers(r[1], row[r[1]].steps)
        BY <4>1
      <4> QED BY <1>6, <2>5, <2>7, <3>3, <4>2
    <3> QED BY <2>7, <3>1, <3>2, <3>3 DEF Fails
  <2>8. CASE Ends(r)
    <3>1. new.pc \in {"markget", "done"}
      BY <2>8 DEF Ends
    <3> QED BY <2>2, <3>1 DEF Writers, InTry
  <2>9. CASE Writes(r)
    <3>1. CASE /\ me.pc \in InTry \cup {"begin", "failing"} /\ new.pc \in InTry \cup {"fail"}
               /\ new.copy = row'[r[1]] /\ row'[r[1]].steps >= me.copy.steps
      <4>1. Covers(r[1], me.copy.steps)
        BY <2>0, <3>1 DEF Follows, Writers, InTry
      <4>2. Covers(r[1], new.copy.steps)
        BY <2>1, <3>1, <4>1 DEF Covers
      <4>3. new.pc \in Writers \ {"hput"}
        BY <3>1 DEF Writers, InTry
      <4> QED BY <1>6, <2>1, <2>4, <3>1, <4>2, <4>3
    <3>2. CASE me.pc = "fail" /\ new.pc = "hget" /\ row'[r[1]].steps = me.copy.steps
      <4>1. Covers(r[1], me.copy.steps)
        BY <2>0, <3>2 DEF Follows, Writers, InTry
      <4> QED BY <1>6, <2>5, <3>2, <4>1
    <3>3. CASE new.pc \in {"leave", "done"}
      BY <2>2, <3>3 DEF Writers, InTry
    <3> QED BY <2>9, <3>1, <3>2, <3>3 DEF Writes
  <2> QED BY <2>6, <2>7, <2>8, <2>9 DEF Ran
<1> QED BY <1>4, <1>5, <1>6

LEMMA RanTasked ==
  ASSUME OInv, NEW r \in Runs, Ran(r)
  PROVE  Tasked'
<1>1. run'[r].pc # "idle"
  BY DEF Ran, Reads, Fails, Ends, Writes, InTry
<1>2. tasks' = tasks /\ \A q \in Runs : q # r => run'[q] = run[q]
  BY DEF Ran, Advanced
<1>3. \A s \in Sessions : tasks[s] # 0 => <<s, tasks[s]>> \in Runs
  BY Types DEF OInv, IInv, Runs
<1> QED BY <1>1, <1>2, <1>3 DEF OInv, Tasked

LEMMA RanKeeps ==
  ASSUME OInv, NEW r \in Runs, Ran(r), IInv'
  PROVE  OInv'
BY RanServed, RanTasked, RanOpened, RanOwned, RanQuieted, RanSettled, RanFollowed DEF OInv

(* It goes back in a row only if stop() had marked the row before.         *)
LEMMA RanRewinds ==
  ASSUME OInv, NEW r \in Runs, Ran(r), NEW s \in Stoppable, Rewound(s)
  PROVE  row'[s].cancel
<1> USE DEF OInv
<1>0. s \in Sessions /\ r[1] \in Sessions /\ TypeOK
  BY Places DEF Stoppable, IInv
<1>1. /\ row[s] \in Row /\ row'[s] \in Row
      /\ run[r].copy \in Row /\ run[r].copy.steps \in Nat
      /\ row[s].steps \in Nat /\ row'[s].steps \in Nat
  BY <1>0, Types DEF Ran, Kept, RunRec, Row
<1>2. row'[s] # row[s]
  BY <1>1, Places DEF Rewound
<1>3. r[1] = s /\ Saved(s) /\ Writes(r)
  BY <1>0, <1>2 DEF Ran
<1>4. Follows(r) /\ (run[r].pc \in Writers => row[s].status \notin Terminal)
  <2>1. Follows(r)
    BY <1>3 DEF Followed
  <2>2. run[<<s, r[2]>>] = run[r] /\ r[2] \in {1, 2}
    BY <1>3, Places
  <2> QED BY <2>1, <2>2 DEF Settled
<1>5. CASE run[r].pc \in Writers \ {"hput"}
  <2>1. row[s].steps <= run[r].copy.steps /\ row[s].status \notin Terminal
    BY <1>3, <1>4, <1>5 DEF Follows
  <2>2. row'[s].steps >= run[r].copy.steps
    BY <1>1, <1>3, <1>5 DEF Writes, Writers, InTry
  <2>3. ~(row'[s].steps < row[s].steps)
    BY <1>1, <2>1, <2>2
  <2> QED BY <2>1, <2>3 DEF Rewound
<1>6. CASE run[r].pc = "hput"
  <2>1. /\ row'[s].steps = run[r].copy.steps /\ row'[s].cancel = run[r].copy.cancel
        /\ row[s].status \notin Terminal
    BY <1>3, <1>4, <1>6 DEF Writes, Writers, InTry
  <2>2. row'[s].steps < row[s].steps
    BY <2>1 DEF Rewound
  <2>3. run[r].copy.cancel \/ row[s].steps <= run[r].copy.steps
    BY <1>3, <1>4, <1>6 DEF Follows, Writers
  <2> QED BY <1>1, <2>1, <2>2, <2>3
<1>7. CASE run[r].pc = "markput"
  BY <1>3, <1>7 DEF Writes, InTry
<1> QED BY <1>3, <1>5, <1>6, <1>7 DEF Writes, Writers, InTry
-----------------------------------------------------------------------------
(* What a call of stop or delete does in one step: it begins with what it  *)
(* reads, sets the flag, cancels, reads again, marks, deletes, or ends.    *)
Asks(p) ==
    /\ stop[p].pc = "idle" /\ mode = "up" /\ row' = row
    /\ Saved(stop'[p].sess) /\ stop'[p].copy = row[stop'[p].sess]
    /\ stop'[p].pc = IF row[stop'[p].sess].status \in Open THEN "put" ELSE "del"
Flags(p) ==
    /\ stop[p].pc = "put" /\ stop'[p].pc = "cancel" /\ stop'[p].sess = stop[p].sess
    /\ Saved(stop[p].sess)
    /\ row'[stop[p].sess].cancel /\ row'[stop[p].sess].status \in Open
    /\ row'[stop[p].sess].steps = stop[p].copy.steps
Cancels(p) ==
    /\ stop[p].pc = "cancel" /\ row' = row /\ stop'[p].sess = stop[p].sess
    /\ \/ /\ stop'[p].pc = "await"
          /\ IsLive(<<stop[p].sess, stop'[p].k>>)
       \/ /\ stop'[p].pc = "mget"
          /\ stop[p].sess \in Stoppable => \A k \in {1, 2} : ~IsLive(<<stop[p].sess, k>>)
Rereads(p) ==
    /\ stop[p].pc = "mget" /\ stop'[p].pc = "mput" /\ row' = row
    /\ stop'[p].sess = stop[p].sess /\ stop'[p].copy = row[stop[p].sess]
Marks(p) ==
    /\ stop[p].pc = "mput" /\ stop'[p].pc \in {"idle", "del"} /\ Saved(stop[p].sess)
    /\ stop'[p].pc = "del" => stop'[p].sess = stop[p].sess
    /\ row'[stop[p].sess].cancel /\ row'[stop[p].sess].status = "stopped"
    /\ row'[stop[p].sess].steps = stop[p].copy.steps
Deletes(p) ==
    /\ stop[p].pc = "del" /\ stop'[p].pc = "idle" /\ row'[stop[p].sess].status = "deleted"
Leaves(p) ==
    /\ stop[p].pc \in {"put", "mget", "mput", "del"} /\ stop'[p].pc \in {"idle", "del"} /\ row' = row
    /\ stop'[p].pc = "del" => stop'[p].sess = stop[p].sess
    /\ stop[p].pc \in {"mget", "mput"} => faults' = faults + 1 \/ row[stop[p].sess].status \notin Open

Called(p) ==
    /\ UNCHANGED <<tasks, mode, todo>> /\ faults' \in {faults, faults + 1}
    /\ Kept /\ Unmoved
    /\ \A r \in Runs : run'[r].cancelling =>
         \/ run[r].cancelling
         \/ stop'[p].pc = "await" /\ r = <<stop'[p].sess, stop'[p].k>>
    /\ \A q \in Stoppers : q # p => stop'[q] = stop[q]
    /\ \A t \in Sessions : t # stop[p].sess => row'[t] = row[t]
    /\ Asks(p) \/ Flags(p) \/ Cancels(p) \/ Rereads(p) \/ Marks(p) \/ Deletes(p) \/ Leaves(p)

LEMMA StopGotoIs ==
  ASSUME IInv, NEW p \in Stoppers, NEW pc, StopGoto(p, pc)
  PROVE  /\ stop'[p].pc = pc
         /\ pc # "idle" => stop'[p].sess = stop[p].sess /\ stop'[p].copy = stop[p].copy
<1>1. stop'[p] = IF pc = "idle" THEN NoStop ELSE [stop[p] EXCEPT !.pc = pc]
  BY Types DEF IInv, StopGoto
<1>2. stop[p] \in StopRec
  BY StopTypes
<1>3. CASE pc = "idle"
  BY <1>1, <1>3 DEF NoStop
<1>4. CASE pc # "idle"
  BY <1>1, <1>2, <1>4 DEF StopRec
<1> QED BY <1>3, <1>4

(* What the registered task is not doing, no execution does.               *)
LEMMA QuietTask ==
  ASSUME IInv, NEW s \in Stoppable, ~TaskActive(s), NEW k \in {1, 2}
  PROVE  ~IsLive(<<s, k>>)
<1> SUFFICES ASSUME IsLive(<<s, k>>) PROVE FALSE
  OBVIOUS
<1>1. s \in Sessions /\ s \notin Inline /\ <<s, k>> \in Runs /\ TypeOK
  BY Places DEF Stoppable, IInv
<1>2. run[<<s, k>>].by \in {"task", "inline"}
  BY <1>1, Types DEF RunRec
<1>3. run[<<s, k>>].by = "task"
  BY <1>1, <1>2 DEF IInv, InlineAlone
<1>4. tasks[s] = k
  BY <1>1, <1>3 DEF IInv, Registered
<1> QED BY <1>4, Places DEF TaskActive, IsLive

LEMMA StopStepCalled ==
  ASSUME OInv, NEW p \in Stoppers, StopStep(p)
  PROVE  Called(p)
<1> USE DEF OInv
<1> DEFINE s == stop[p].sess
<1>0. /\ TypeOK /\ s \in Sessions /\ stop[p] \in StopRec /\ stop[p].copy \in Row /\ stop[p].copy.steps \in Nat
      /\ row \in [Sessions -> Row]
  BY StopTypes, Types DEF IInv, Row
<1>1. /\ UNCHANGED <<tasks, mode, todo>> /\ faults' \in {faults, faults + 1}
      /\ Kept /\ Unmoved
  BY StopStepOk DEF StopStep
<1>2. \A q \in Stoppers : q # p => stop'[q] = stop[q]
  BY <1>0, Types DEF StopStep, StopPut, StopCancel, StopMarkGet, StopMarkPut, Delete, StopGoto
<1>3. \A c : row' = [row EXCEPT ![s] = c] =>
         row'[s] = c /\ \A t \in Sessions : t # s => row'[t] = row[t]
  BY <1>0
<1>4. ASSUME run' = run, \A t \in Sessions : t # s => row'[t] = row[t],
             Asks(p) \/ Flags(p) \/ Cancels(p) \/ Rereads(p) \/ Marks(p) \/ Deletes(p) \/ Leaves(p)
      PROVE  Called(p)
  BY <1>1, <1>2, <1>4 DEF Called
<1>5. CASE StopPut(p)
  <2>1. stop[p].pc = "put" /\ run' = run
    BY <1>5 DEF StopPut
  <2>2. CASE Saved(s)
    <3> DEFINE c == [stop[p].copy EXCEPT !.cancel = TRUE]
    <3>1. row' = [row EXCEPT ![s] = c] /\ StopGoto(p, "cancel")
      BY <1>5, <2>2 DEF StopPut
    <3>2. c.cancel /\ c.status = stop[p].copy.status /\ c.steps = stop[p].copy.steps
      BY <1>0 DEF Row
    <3> HIDE DEF c
    <3>3. row'[s] = c /\ \A t \in Sessions : t # s => row'[t] = row[t]
      BY <1>3, <3>1
    <3>4. stop[p].copy.status \in Open
      BY <2>1 DEF Opened
    <3>5. stop'[p].pc = "cancel" /\ stop'[p].sess = s
      BY <3>1, StopGotoIs
    <3> QED BY <1>4, <2>1, <2>2, <3>2, <3>3, <3>4, <3>5 DEF Flags
  <2>3. CASE ~Saved(s)
    <3>1. row' = row /\ stop'[p].pc = "idle"
      BY <1>5, <2>3, StopGotoIs DEF StopPut
    <3> QED BY <1>4, <2>1, <3>1 DEF Leaves
  <2> QED BY <2>2, <2>3
<1>6. CASE StopCancel(p)
  <2>1. stop[p].pc = "cancel" /\ row' = row
    BY <1>6 DEF StopCancel
  <2>2. CASE TaskActive(s)
    <3>1. tasks[s] \in {1, 2} /\ <<s, tasks[s]>> \in Runs
      BY <1>0, <2>2, Types DEF TaskActive, Runs
    <3>2. /\ run' = [run EXCEPT ![<<s, tasks[s]>>].cancelling = TRUE]
          /\ stop' = [stop EXCEPT ![p].pc = "await", ![p].k = tasks[s]]
      BY <1>6, <2>2 DEF StopCancel
    <3>3. stop'[p].pc = "await" /\ stop'[p].k = tasks[s] /\ stop'[p].sess = s
      <4>1. stop'[p] = [[stop[p] EXCEPT !.pc = "await"] EXCEPT !.k = tasks[s]]
        BY <1>0, <3>2, Types DEF StopRec
      <4> QED BY <1>0, <4>1 DEF StopRec
    <3>4. \A r \in Runs : r # <<s, tasks[s]>> => run'[r] = run[r]
      BY <1>0, <3>2, Types
    <3>5. IsLive(<<s, tasks[s]>>)
      <4>1. run[<<s, tasks[s]>>].pc \notin {"idle", "done"}
        BY <1>0, <2>2 DEF TaskActive, Tasked
      <4>2. run[<<s, tasks[s]>>].pc \in Live \cup {"idle", "done"}
        BY <1>0, <3>1, Types DEF RunRec
      <4> QED BY <4>1, <4>2 DEF IsLive
    <3>6. Cancels(p)
      BY <2>1, <3>3, <3>5 DEF Cancels
    <3>7. \A r \in Runs : run'[r].cancelling =>
            \/ run[r].cancelling
            \/ stop'[p].pc = "await" /\ r = <<stop'[p].sess, stop'[p].k>>
      BY <3>3, <3>4
    <3> QED BY <1>1, <1>2, <2>1, <3>6, <3>7 DEF Called
  <2>3. CASE ~TaskActive(s)
    <3>1. run' = run /\ StopGoto(p, "mget")
      BY <1>6, <2>3 DEF StopCancel
    <3>2. stop'[p].pc = "mget" /\ stop'[p].sess = s
      BY <3>1, StopGotoIs
    <3>3. s \in Stoppable => \A k \in {1, 2} : ~IsLive(<<s, k>>)
      BY <2>3, QuietTask
    <3> QED BY <1>4, <2>1, <3>1, <3>2, <3>3 DEF Cancels
  <2> QED BY <2>2, <2>3
<1>7. CASE StopMarkGet(p)
  <2>1. stop[p].pc = "mget" /\ row' = row /\ run' = run
    BY <1>7 DEF StopMarkGet
  <2>2. CASE row[s].status \in Open \cup {"stopped"}
    <3>1. stop' = [stop EXCEPT ![p].pc = "mput", ![p].copy = row[s]]
      BY <1>7, <2>2 DEF StopMarkGet
    <3>2. stop'[p].pc = "mput" /\ stop'[p].sess = s /\ stop'[p].copy = row[s]
      <4>1. stop'[p] = [[stop[p] EXCEPT !.pc = "mput"] EXCEPT !.copy = row[s]]
        BY <1>0, <3>1, Types DEF StopRec
      <4> QED BY <1>0, <4>1 DEF StopRec
    <3> QED BY <1>4, <2>1, <3>2 DEF Rereads
  <2>3. CASE row[s].status \notin Open \cup {"stopped"}
    <3>1. StopGoto(p, Then(p)) /\ Then(p) \in {"idle", "del"}
      BY <1>7, <2>3 DEF StopMarkGet, Then
    <3>2. stop'[p].pc \in {"idle", "del"} /\ (stop'[p].pc = "del" => stop'[p].sess = s)
      BY <3>1, StopGotoIs
    <3> QED BY <1>4, <2>1, <2>3, <3>2 DEF Leaves
  <2> QED BY <2>2, <2>3
<1>8. CASE StopMarkPut(p)
  <2>1. stop[p].pc = "mput" /\ run' = run
    BY <1>8 DEF StopMarkPut
  <2>2. CASE Saved(s)
    <3> DEFINE c == Marked(stop[p].copy)
    <3>1. row' = [row EXCEPT ![s] = c] /\ StopGoto(p, Then(p)) /\ Then(p) \in {"idle", "del"}
      BY <1>8, <2>2 DEF StopMarkPut, Then
    <3>2. c.cancel /\ c.status = "stopped" /\ c.steps = stop[p].copy.steps
      BY <1>0 DEF Row, Marked
    <3> HIDE DEF c
    <3>3. row'[s] = c /\ \A t \in Sessions : t # s => row'[t] = row[t]
      BY <1>3, <3>1
    <3>4. stop'[p].pc \in {"idle", "del"} /\ (stop'[p].pc = "del" => stop'[p].sess = s)
      BY <3>1, StopGotoIs
    <3> QED BY <1>4, <2>1, <2>2, <3>2, <3>3, <3>4 DEF Marks
  <2>3. CASE ~Saved(s)
    <3>1. row' = row /\ stop'[p].pc = "idle"
      BY <1>8, <2>3, StopGotoIs DEF StopMarkPut
    <3> QED BY <1>4, <2>1, <2>3, <3>1, Places DEF Leaves
  <2> QED BY <2>2, <2>3
<1>9. CASE Delete(p)
  <2> DEFINE c == [NoRow EXCEPT !.status = "deleted"]
  <2>1. stop[p].pc = "del" /\ run' = run /\ row' = [row EXCEPT ![s] = c] /\ stop'[p].pc = "idle"
    BY <1>9, StopGotoIs DEF Delete
  <2>2. c.status = "deleted"
    BY DEF NoRow
  <2> HIDE DEF c
  <2>3. row'[s] = c /\ \A t \in Sessions : t # s => row'[t] = row[t]
    BY <1>3, <2>1
  <2> QED BY <1>4, <2>1, <2>2, <2>3 DEF Deletes
<1> QED BY <1>5, <1>6, <1>7, <1>8, <1>9 DEF StopStep

LEMMA StopsCalled ==
  ASSUME OInv, NEW p \in Stoppers,
         \/ StopStep(p)
         \/ StopError(p)
         \/ \E s \in Sessions, op \in {"stop", "delete"} : StopGet(p, s, op)
  PROVE  Called(p)
<1> USE DEF OInv
<1>0. TypeOK /\ faults \in Nat
  BY PollOk DEF IInv
<1>1. CASE StopStep(p)
  BY <1>1, StopStepCalled
<1>2. CASE StopError(p)
  <2>1. /\ stop[p].pc \in {"put", "mget", "mput", "del"} /\ StopGoto(p, "idle")
        /\ faults' \in {faults, faults + 1}
        /\ stop[p].pc \in {"mget", "mput"} => faults' = faults + 1
        /\ UNCHANGED <<row, run, tasks, mode, todo>>
    BY <1>2 DEF StopError
  <2>2. stop'[p].pc = "idle" /\ \A q \in Stoppers : q # p => stop'[q] = stop[q]
    BY <1>0, <2>1, StopGotoIs, Types DEF StopGoto
  <2>3. Kept /\ Unmoved
    BY <1>0, <2>1, UnmovedOk, Types DEF Kept
  <2> QED BY <2>1, <2>2, <2>3 DEF Called, Leaves
<1>3. CASE \E s \in Sessions, op \in {"stop", "delete"} : StopGet(p, s, op)
  <2>1. PICK s \in Sessions, op \in {"stop", "delete"} : StopGet(p, s, op)
    BY <1>3
  <2> DEFINE call == [NoStop EXCEPT !.pc = IF row[s].status \in Open THEN "put" ELSE "del",
                                    !.op = op, !.sess = s, !.copy = row[s]]
  <2>2. /\ stop[p].pc = "idle" /\ mode = "up" /\ stop' = [stop EXCEPT ![p] = call]
        /\ Saved(s) /\ UNCHANGED <<row, run, tasks, mode, todo, faults>>
    BY <2>1 DEF StopGet, Saved
  <2>3. /\ call.pc = IF row[s].status \in Open THEN "put" ELSE "del"
        /\ call.sess = s /\ call.copy = row[s]
    BY DEF NoStop
  <2> HIDE DEF call
  <2>4. stop'[p] = call /\ \A q \in Stoppers : q # p => stop'[q] = stop[q]
    BY <1>0, <2>2, Types
  <2>5. Kept /\ Unmoved
    BY <1>0, <2>2, UnmovedOk, Types DEF Kept
  <2> QED BY <2>2, <2>3, <2>4, <2>5 DEF Called, Asks
<1> QED BY <1>1, <1>2, <1>3
-----------------------------------------------------------------------------
(* A step of a stop or delete call keeps the invariant.                    *)
LEMMA CalledIs ==
  ASSUME OInv, NEW p \in Stoppers, Called(p)
  PROVE  /\ \A r : (r \in Runs) => run'[r].pc = run[r].pc /\ run'[r].copy = run[r].copy
         /\ \A q \in Stoppers : q # p => stop'[q] = stop[q]
         /\ \A t \in Sessions : row'[t].status = "none" => row[t].status = "none"
         /\ \A t \in Sessions : t # stop[p].sess => row'[t] = row[t]
         /\ stop[p].sess \in Sessions /\ stop[p].pc # "await"
         /\ UNCHANGED <<tasks, mode, todo>>
  BY StopTypes DEF OInv, Called, Kept, Unmoved, Asks, Flags, Cancels, Rereads, Marks, Deletes, Leaves

LEMMA CalledServed ==
  ASSUME OInv, IInv', NEW p \in Stoppers, Called(p)
  PROVE  Served' /\ Cancelled' /\ Fresh' /\ Tasked' /\ Opened'
<1> USE DEF OInv
<1>0. /\ stop'[p].sess \in Sessions /\ TypeOK
  BY DEF IInv, TypeOK
<1>1. Served'
  <2> SUFFICES ASSUME NEW q \in Stoppers
               PROVE  /\ stop'[q].pc # "idle" => mode' = "up" /\ row'[stop'[q].sess].status # "none"
                      /\ stop'[q].pc = "await" => run'[<<stop'[q].sess, stop'[q].k>>].pc \in Live
    BY DEF Served, IsLive
  <2>1. CASE q # p
    <3>1. /\ stop'[q] = stop[q] /\ stop[q].sess \in Sessions /\ <<stop[q].sess, stop[q].k>> \in Runs
      BY <2>1, CalledIs, StopTypes
    <3>2. row[stop[q].sess].status # "none" => row'[stop[q].sess].status # "none"
      BY <3>1, CalledIs
    <3> QED BY <3>1, <3>2, CalledIs DEF Served, IsLive
  <2>2. CASE q = p
    <3>1. stop'[p].pc # "idle" => mode' = "up" /\ row[stop'[p].sess].status # "none"
      <4>1. CASE Asks(p)
        BY <4>1, CalledIs, Places DEF Asks, Saved, Open, Terminal
      <4>2. CASE ~Asks(p)
        <5>1. stop'[p].pc # "idle" => stop'[p].sess = stop[p].sess /\ stop[p].pc # "idle"
          BY <4>2 DEF Called, Flags, Cancels, Rereads, Marks, Deletes, Leaves
        <5> QED BY <5>1, CalledIs DEF Served
      <4> QED BY <4>1, <4>2
    <3>2. stop'[p].pc = "await" => run'[<<stop'[p].sess, stop'[p].k>>].pc \in Live
      <4> SUFFICES ASSUME stop'[p].pc = "await" PROVE run'[<<stop'[p].sess, stop'[p].k>>].pc \in Live
        OBVIOUS
      <4>1. IsLive(<<stop'[p].sess, stop'[p].k>>)
        BY DEF Called, Asks, Flags, Cancels, Rereads, Marks, Deletes, Leaves
      <4>2. <<stop'[p].sess, stop'[p].k>> \in Runs
        BY DEF IInv, TypeOK, Runs
      <4> QED BY <4>1, <4>2, CalledIs DEF IsLive
    <3> QED BY <1>0, <2>2, <3>1, <3>2, CalledIs
  <2> QED BY <2>1, <2>2
<1>2. Cancelled'
  <2> SUFFICES ASSUME NEW r \in Runs, run'[r].pc \in Live, run'[r].cancelling, mode' # "stopping"
               PROVE  \E q \in Stoppers : stop'[q].pc = "await" /\ <<stop'[q].sess, stop'[q].k>> = r
    BY DEF Cancelled, IsLive, Awaits
  <2>1. CASE stop'[p].pc = "await" /\ r = <<stop'[p].sess, stop'[p].k>>
    BY <2>1
  <2>2. CASE run[r].cancelling
    <3>1. IsLive(r) /\ mode # "stopping"
      BY CalledIs DEF IsLive
    <3>2. PICK q \in Stoppers : Awaits(q, r)
      BY <2>2, <3>1 DEF Cancelled
    <3>3. q # p
      BY <3>2, CalledIs DEF Awaits
    <3>4. stop'[q] = stop[q]
      BY <3>3, CalledIs
    <3> QED BY <3>2, <3>4 DEF Awaits
  <2> QED BY <2>1, <2>2 DEF Called
<1>3. Fresh'
  <2>1. \A s \in Sessions : row'[s].status = "none" => row'[s].steps = 0
    <3> SUFFICES ASSUME NEW s \in Sessions, row'[s].status = "none" PROVE row'[s].steps = 0
      OBVIOUS
    <3>1. row[s].status = "none"
      BY CalledIs
    <3>2. row'[s] = row[s]
      <4>1. CASE s # stop[p].sess
        BY <4>1, CalledIs
      <4>2. CASE s = stop[p].sess
        BY <3>1, <4>2, Places DEF Called, Asks, Flags, Cancels, Rereads, Marks, Deletes, Leaves, Open
      <4> QED BY <4>1, <4>2
    <3> QED BY <3>1, <3>2 DEF Fresh
  <2> QED BY <2>1, CalledIs DEF Fresh
<1>4. Tasked'
  <2>1. \A s \in Sessions : tasks[s] # 0 => <<s, tasks[s]>> \in Runs
    BY <1>0, Types DEF Runs
  <2> QED BY <2>1, CalledIs DEF Tasked
<1>5. Opened'
  <2>1. stop'[p].pc = "put" => stop'[p].copy.status \in Open
    BY DEF Called, Asks, Flags, Cancels, Rereads, Marks, Deletes, Leaves
  <2> QED BY <2>1, CalledIs DEF Opened
<1> QED BY <1>1, <1>2, <1>3, <1>4, <1>5

LEMMA CalledOwned ==
  ASSUME OInv, IInv', NEW p \in Stoppers, Called(p)
  PROVE  Owned'
<1> USE DEF OInv
<1> SUFFICES ASSUME faults' = 0, mode' \in {"up", "recovering"}, NEW s \in Sessions, row'[s].status \in Open
             PROVE  Minded(s)'
  BY DEF Owned
<1> DEFINE Busy == {"cancel", "await", "mget", "mput"}
<1>1. faults = 0 /\ faults' # faults + 1 /\ mode' = mode /\ todo' = todo
  BY PollOk DEF Called
<1>2. \A r \in Runs : run'[r].pc = run[r].pc
  BY CalledIs
<1>3. CASE Flags(p) /\ stop[p].sess = s
  BY <1>3 DEF Flags, Minded
<1>4. CASE row'[s] = row[s]
  <2>1. Minded(s)
    BY <1>1, <1>4 DEF Owned
  <2>2. ASSUME stop[p].sess = s, stop[p].pc \in Busy
        PROVE  stop'[p].sess = s /\ stop'[p].pc \in Busy
    BY <1>1, <1>4, <2>2, Places DEF Called, Asks, Flags, Cancels, Rereads, Marks, Deletes, Leaves, Open, Terminal
  <2>3. \A q \in Stoppers : stop[q].sess = s /\ stop[q].pc \in Busy =>
            stop'[q].sess = s /\ stop'[q].pc \in Busy
    BY <2>2, CalledIs
  <2> QED BY <1>1, <1>2, <2>1, <2>3, Places DEF Minded
<1>5. CASE s = stop[p].sess /\ ~Flags(p)
  <2>1. \/ row'[s] = row[s]
        \/ row'[s].status \in {"stopped", "deleted"}
    BY <1>5 DEF Called, Asks, Cancels, Rereads, Marks, Deletes, Leaves
  <2> QED BY <1>4, <2>1 DEF Open
<1> QED BY <1>3, <1>4, <1>5 DEF Called

LEMMA CalledQuieted ==
  ASSUME OInv, IInv', NEW p \in Stoppers, Called(p)
  PROVE  Quieted' /\ Settled'
<1> USE DEF OInv
<1>1. Quieted'
  <2> SUFFICES ASSUME NEW q \in Stoppers, stop'[q].sess \in Stoppable, stop'[q].pc \in {"mget", "mput"},
                      NEW k \in {1, 2}
               PROVE  run'[<<stop'[q].sess, k>>].pc \notin Live
    BY DEF Quieted, IsLive, Stoppable
  <2>0. <<stop'[q].sess, k>> \in Runs
    BY Places DEF Stoppable
  <2>1. ~IsLive(<<stop'[q].sess, k>>)
    <3>1. CASE q # p
      BY <3>1, CalledIs DEF Quieted
    <3>2. CASE q = p
      BY <3>2 DEF Quieted, Called, Asks, Flags, Cancels, Rereads, Marks, Deletes, Leaves
    <3> QED BY <3>1, <3>2
  <2> QED BY <2>0, <2>1, CalledIs DEF IsLive
<1>2. Settled'
  <2> SUFFICES ASSUME NEW s \in Stoppable, NEW k \in {1, 2}, row'[s].status \in Terminal
               PROVE  run'[<<s, k>>].pc \notin Writers
    BY DEF Settled, Stoppable
  <2>0. s \in Sessions /\ <<s, k>> \in Runs
    BY Places DEF Stoppable
  <2>1. run[<<s, k>>].pc \notin Writers
    <3>1. CASE row'[s] = row[s]
      BY <3>1 DEF Settled
    <3>2. CASE s = stop[p].sess /\ Marks(p)
      BY <3>2, Places DEF Marks, Quieted, IsLive
    <3>3. CASE s = stop[p].sess /\ ~Marks(p)
      <4>1. row'[s] = row[s]
        BY <3>3, Places DEF Called, Asks, Flags, Cancels, Rereads, Deletes, Leaves, Terminal
      <4> QED BY <3>1, <4>1
    <3> QED BY <2>0, <3>1, <3>2, <3>3 DEF Called
  <2> QED BY <2>0, <2>1, CalledIs
<1> QED BY <1>1, <1>2

LEMMA CalledFollowed ==
  ASSUME OInv, IInv', NEW p \in Stoppers, Called(p)
  PROVE  Followed'
<1> USE DEF OInv
<1> SUFFICES ASSUME NEW r \in Runs, r[1] \in Stoppable, Saved(r[1])'
             PROVE  Follows(r)'
  BY DEF Followed, Stoppable
<1> DEFINE s == r[1]
<1>0. /\ s \in Sessions /\ r = <<s, r[2]>> /\ r[2] \in {1, 2} /\ TypeOK
      /\ run'[r].pc = run[r].pc /\ run'[r].copy = run[r].copy
  BY Places, CalledIs DEF Stoppable, IInv
<1>1. /\ run[r].copy.steps \in Nat /\ row[s].steps \in Nat /\ row'[s].steps \in Nat
      /\ \A q \in Stoppers : stop[q].copy.steps \in Nat /\ stop'[q].copy.steps \in Nat
  BY <1>0, Types, StopTypes DEF IInv, TypeOK, RunRec, Row
<1>2. CASE row'[s] = row[s]
  <2>1. Follows(r)
    <3>1. Saved(s)
      BY <1>2 DEF Saved
    <3> QED BY <3>1 DEF Followed
  <2>2. ASSUME NEW q \in Stoppers, stop'[q].sess = s, stop'[q].pc \in {"put", "mput"}
        PROVE  \/ stop[q].sess = s /\ stop[q].pc \in {"put", "mput"} /\ stop'[q].copy = stop[q].copy
               \/ stop'[q].copy = row[s]
    <3>1. CASE q # p
      BY <2>2, <3>1, CalledIs
    <3>2. CASE q = p
      BY <2>2, <3>2 DEF Called, Asks, Flags, Cancels, Rereads, Marks, Deletes, Leaves
    <3> QED BY <3>1, <3>2
  <2>3. Even(s) => Even(s)'
    BY <1>2, <2>2 DEF Even
  <2>4. \A n \in Nat : Covers(s, n) /\ row[s].steps <= n => Covers(s, n)'
    BY <2>2 DEF Covers
  <2>5. run[r].pc \in {"ready", "slot", "get"} => Even(s)'
    BY <2>1, <2>3 DEF Follows
  <2>6. run[r].pc \in Writers \ {"hput"} =>
         /\ row[s].steps = run[r].copy.steps \/ row[s].cancel
         /\ row[s].steps <= run[r].copy.steps
         /\ \A q \in Stoppers : stop'[q].sess = s /\ stop'[q].pc \in {"put", "mput"} => stop'[q].copy.steps <= run[r].copy.steps
    BY <1>1, <2>1, <2>4 DEF Follows, Covers
  <2>7. run[r].pc = "hget" => 
         \/ row[s].cancel 
         \/ \A q \in Stoppers : stop'[q].sess = s /\ stop'[q].pc \in {"put", "mput"} => stop'[q].copy.steps <= row[s].steps
    BY <1>1, <2>1, <2>4 DEF Follows, Covers
  <2>8. run[r].pc = "hput" =>
         \/ run[r].copy.cancel
         \/ /\ row[s].steps <= run[r].copy.steps 
            /\ \A q \in Stoppers : stop'[q].sess = s /\ stop'[q].pc \in {"put", "mput"} => stop'[q].copy.steps <= run[r].copy.steps
    BY <1>1, <2>1, <2>4 DEF Follows, Covers
  <2> QED BY <1>0, <1>2, <2>5, <2>6, <2>7, <2>8 DEF Follows, Covers
<1>3. CASE s = stop[p].sess /\ Flags(p)
  <2>1. Follows(r)
    BY <1>3 DEF Followed, Flags
  <2>2. /\ stop[p].pc = "put" /\ stop'[p].pc = "cancel"
        /\ row'[s].cancel /\ row'[s].steps = stop[p].copy.steps
    BY <1>3 DEF Flags
  <2>3. \A q \in Stoppers : stop'[q].sess = s /\ stop'[q].pc \in {"put", "mput"} => stop'[q] = stop[q]
    BY <2>2, CalledIs
  <2>4. Even(s) => Even(s)'
    BY <1>3, <2>2, <2>3 DEF Even
  <2>5. \A n \in Nat : Covers(s, n) =>
          /\ row'[s].steps <= n
          /\ \A q \in Stoppers : stop'[q].sess = s /\ stop'[q].pc \in {"put", "mput"} => stop'[q].copy.steps <= n
    BY <1>3, <2>2, <2>3 DEF Covers
  <2>6. run[r].pc \in {"ready", "slot", "get"} => Even(s)'
    BY <2>1, <2>4 DEF Follows
  <2>7. run[r].pc \in Writers \ {"hput"} =>
         /\ row'[s].steps <= run[r].copy.steps
         /\ \A q \in Stoppers : stop'[q].sess = s /\ stop'[q].pc \in {"put", "mput"} => stop'[q].copy.steps <= run[r].copy.steps
    BY <1>1, <2>1, <2>5 DEF Follows
  <2>8. run[r].pc = "hput" =>
         \/ run[r].copy.cancel
         \/ /\ row'[s].steps <= run[r].copy.steps
            /\ \A q \in Stoppers : stop'[q].sess = s /\ stop'[q].pc \in {"put", "mput"} => stop'[q].copy.steps <= run[r].copy.steps
    BY <1>1, <2>1, <2>5 DEF Follows
  <2> QED BY <1>0, <2>2, <2>6, <2>7, <2>8 DEF Follows, Covers
<1>4. CASE s = stop[p].sess /\ Marks(p)
  <2>1. ~IsLive(r)
    BY <1>0, <1>4 DEF Marks, Quieted
  <2>2. run'[r].pc \notin Writers \cup {"ready", "slot", "get", "hget", "hput"}
    BY <1>0, <2>1, Places DEF IsLive, Live, Handler, Slotted
  <2> QED BY <2>2, Idles
<1>5. CASE s = stop[p].sess /\ ~Flags(p) /\ ~Marks(p)
  <2>1. row'[s] = row[s] \/ row'[s].status = "deleted"
    BY <1>5 DEF Called, Asks, Cancels, Rereads, Deletes, Leaves
  <2> QED BY <1>2, <2>1 DEF Saved, Open, Terminal
<1> QED BY <1>0, <1>2, <1>3, <1>4, <1>5, CalledIs

LEMMA CalledKeeps ==
  ASSUME OInv, IInv', NEW p \in Stoppers, Called(p)
  PROVE  OInv'
BY CalledServed, CalledOwned, CalledQuieted, CalledFollowed DEF OInv

LEMMA CalledRewinds ==
  ASSUME OInv, NEW p \in Stoppers, Called(p), NEW s \in Stoppable, Rewound(s)
  PROVE  row'[s].cancel
<1> USE DEF OInv
<1>0. s \in Sessions /\ row[s].steps \in Nat
  BY Types DEF Stoppable, IInv, Row
<1>1. row'[s] # row[s]
  BY <1>0, Places DEF Rewound
<1>2. s = stop[p].sess
  BY <1>0, <1>1, CalledIs
<1>3. row'[s].status # "deleted"
  BY DEF Rewound, Open
<1> QED BY <1>1, <1>2, <1>3 DEF Called, Asks, Flags, Cancels, Rereads, Marks, Deletes, Leaves
-----------------------------------------------------------------------------
(* Where rows, stop calls and the work of executions stay as they are.     *)
LEMMA StillKeeps ==
  ASSUME OInv, row' = row, stop' = stop, Unmoved, tasks' = tasks
  PROVE  Tasked' /\ Opened' /\ Quieted' /\ Settled' /\ Followed'
<1> USE DEF OInv
<1>0. /\ \A r \in Runs : run'[r].pc = run[r].pc /\ run'[r].copy = run[r].copy
      /\ TypeOK
  BY DEF Unmoved, IInv
<1>1. \A s \in Sessions : tasks[s] # 0 => <<s, tasks[s]>> \in Runs
  BY <1>0, Types DEF Runs
<1>2. Tasked'
  BY <1>0, <1>1 DEF Tasked
<1>3. Opened'
  BY <1>0 DEF Opened
<1>4. Quieted' /\ Settled'
  BY <1>0, Places DEF Quieted, Settled, IsLive, Stoppable
<1>5. \A r \in Runs : Saved(r[1])' => Saved(r[1])
  BY DEF Saved
<1>6. Followed'
  BY <1>0, <1>5 DEF Followed, Follows, Even, Covers
<1> QED BY <1>2, <1>3, <1>4, <1>6

LEMMA StutterKeeps ==
  ASSUME OInv, IInv', UNCHANGED <<row, run, tasks, stop, mode, todo, faults>>
  PROVE  OInv'
<1> USE DEF OInv
<1>1. Unmoved
  BY UnmovedOk DEF IInv
<1>2. Served' /\ Cancelled' /\ Fresh' /\ Owned'
  BY DEF Served, Cancelled, Awaits, IsLive, Fresh, Owned, Minded
<1> QED BY <1>1, <1>2, StillKeeps

(* The process ends, or begins again.                                      *)
LEMMA ShutdownOwns ==
  ASSUME OInv, IInv', Shutdown
  PROVE  OInv'
<1> USE DEF OInv
<1>1. Unmoved
  BY Types DEF Shutdown, Unmoved, RunRec, IInv
<1>2. Served' /\ Cancelled' /\ Fresh' /\ Owned'
  BY DEF Shutdown, Served, Cancelled, Fresh, Owned
<1> QED BY <1>1, <1>2, StillKeeps DEF Shutdown

LEMMA DownOwns ==
  ASSUME OInv, IInv', Down
  PROVE  OInv'
<1> USE DEF OInv
<1>1. /\ \A r \in Runs : run'[r].pc = "idle"
      /\ \A p \in Stoppers : stop'[p].pc = "idle"
      /\ \A s \in Sessions : tasks'[s] = 0
      /\ row' = row /\ mode' = "down"
  BY DEF Down, NoRun, NoStop
<1>2. Served' /\ Cancelled' /\ Fresh' /\ Tasked' /\ Opened' /\ Owned'
  BY <1>1, Places DEF Served, Cancelled, IsLive, Fresh, Tasked, Opened, Owned, Writers, InTry
<1>3. Quieted' /\ Settled'
  BY <1>1, Places DEF Quieted, Settled, Stoppable, Writers, InTry
<1>4. Followed'
  <2>1. \A r \in Runs : Follows(r)'
    BY <1>1 DEF Follows, Writers, InTry
  <2> QED BY <2>1 DEF Followed
<1> QED BY <1>2, <1>3, <1>4

LEMMA RestartOwns ==
  ASSUME OInv, IInv', Restart \/ Recovered
  PROVE  OInv'
<1> USE DEF OInv
<1>0. UNCHANGED <<row, run, tasks, stop, faults>>
  BY DEF Restart, Recovered
<1>1. Unmoved
  BY <1>0, UnmovedOk DEF IInv
<1>2. mode \in {"down", "recovering"}
  BY DEF Restart, Recovered
<1>3. Served' /\ Cancelled'
  BY <1>0, <1>2 DEF Served, Cancelled, Awaits, IsLive
<1>4. Fresh'
  BY <1>0, <1>2 DEF Fresh, Restart, Recovered
<1>5. CASE Restart
  <2>1. Owned'
    BY <1>0, <1>5 DEF Restart, Owned, Minded
  <2> QED BY <1>0, <1>1, <1>3, <1>4, <2>1, StillKeeps
<1>6. CASE Recovered
  <2>1. Owned'
    BY <1>0, <1>6 DEF Recovered, Owned, Minded
  <2> QED BY <1>0, <1>1, <1>3, <1>4, <2>1, StillKeeps
<1> QED BY <1>5, <1>6

LEMMA DiscardOwns ==
  ASSUME OInv, IInv', NEW r \in Runs, Discard(r)
  PROVE  OInv'
<1> USE DEF OInv
<1>0. /\ r[1] \in Sessions /\ r[2] \in {1, 2} /\ r = <<r[1], r[2]>> /\ TypeOK
      /\ UNCHANGED <<row, stop, mode, todo, faults>>
      /\ run[r].pc = "done"
  BY Places DEF Discard, IInv
<1>1. run'[r].pc = "idle" /\ \A q \in Runs : q # r => run'[q] = run[q]
  BY <1>0, Types DEF Discard, NoRun
<1>2. /\ \A t \in Sessions : tasks'[t] \in {0, tasks[t]}
      /\ tasks'[r[1]] # r[2]
  BY <1>0, Types DEF Discard
<1>3. \A q \in Runs : IsLive(q) \/ run'[q].pc \in Live => q # r
  BY <1>0, <1>1, Places DEF IsLive
<1>4. Served' /\ Cancelled'
  <2>1. Served'
    BY <1>0, <1>1, <1>3, StopTypes DEF Served, IsLive
  <2>2. Cancelled'
    BY <1>0, <1>1, <1>3 DEF Cancelled, Awaits, IsLive
  <2> QED BY <2>1, <2>2
<1>5. Fresh'
  BY <1>0, <1>2, PollOk DEF Fresh
<1>6. Tasked'
  <2> SUFFICES ASSUME NEW s \in Sessions, tasks'[s] # 0 PROVE run'[<<s, tasks'[s]>>].pc # "idle"
    BY DEF Tasked
  <2>1. tasks'[s] = tasks[s] /\ <<s, tasks[s]>> \in Runs
    BY <1>0, <1>2, Types DEF Runs
  <2>2. <<s, tasks[s]>> # r
    BY <1>0, <1>2, <2>1, Places
  <2> QED BY <1>1, <2>1, <2>2 DEF Tasked
<1>7. Opened'
  BY <1>0, <1>1 DEF Opened, Writers, InTry
<1>8. Owned'
  <2>0. \A q \in Runs : run[q].pc \in InCharge => run'[q] = run[q]
    BY <1>0, <1>1, Places DEF InCharge
  <2>1. \A s \in Sessions, k \in {1, 2} : run[<<s, k>>].pc \in InCharge => run'[<<s, k>>] = run[<<s, k>>]
    BY <2>0, Places
  <2> SUFFICES ASSUME faults' = 0, mode' \in {"up", "recovering"}, NEW s \in Sessions, row'[s].status \in Open
               PROVE  Minded(s)'
    BY DEF Owned
  <2>2. Minded(s)
    BY <1>0 DEF Owned
  <2> QED BY <1>0, <2>1, <2>2 DEF Minded
<1>9. Quieted' /\ Settled'
  <2>1. Quieted'
    <3> SUFFICES ASSUME NEW p \in Stoppers, stop[p].sess \in Stoppable, stop[p].pc \in {"mget", "mput"},
                        NEW k \in {1, 2}, run'[<<stop[p].sess, k>>].pc \in Live
                 PROVE  FALSE
      BY <1>0 DEF Quieted, IsLive
    <3> DEFINE q == <<stop[p].sess, k>>
    <3>1. q \in Runs
      BY StopTypes, Places
    <3>2. q # r
      BY <1>3, <3>1
    <3>3. IsLive(q)
      BY <1>1, <3>1, <3>2 DEF IsLive
    <3> QED BY <3>3 DEF Quieted
  <2>2. Settled'
    BY <1>0, <1>1, <1>3, Places DEF Settled, Stoppable
  <2> QED BY <2>1, <2>2
<1>10. Followed'
  <2> SUFFICES ASSUME NEW q \in Runs, q[1] \in Stoppable, Saved(q[1])' PROVE Follows(q)'
    BY DEF Followed, Stoppable
  <2>1. CASE q = r
    BY <1>1, <2>1, Idles DEF Writers, InTry
  <2>2. CASE q # r
    <3>1. Follows(q)
      BY <1>0 DEF Followed, Saved
    <3> QED BY <1>0, <1>1, <2>2, <3>1 DEF Follows, Even, Covers
  <2> QED BY <2>1, <2>2
<1> QED BY <1>4, <1>5, <1>6, <1>7, <1>8, <1>9, <1>10

(* Creation, in place and with a task; polls and recovery.                 *)
LEMMA CreateInlineOwns ==
  ASSUME OInv, IInv', NEW s \in Sessions, CreateInline(s)
  PROVE  OInv'
<1> USE DEF OInv
<1> DEFINE first == <<s, 1>>
           new   == [NoRun EXCEPT !.pc = "begin", !.by = "inline", !.copy = NewRow]
<1>0. /\ row[s].status = "none" /\ s \in Inline /\ mode = "up" /\ TypeOK /\ first \in Runs
      /\ UNCHANGED <<tasks, stop, mode, todo, faults>>
      /\ run' = [run EXCEPT ![first] = new]
  BY Places DEF CreateInline, IInv
<1>1. /\ new.pc = "begin" /\ new.copy = NewRow /\ new.cancelling = FALSE
      /\ NewRow.status = "pending" /\ NewRow.steps = 0
  BY DEF NoRun, NewRow, NoRow
<1> HIDE DEF new
<1>2. /\ row'[s] = NewRow /\ \A t \in Sessions : t # s => row'[t] = row[t]
      /\ run'[first] = new /\ \A q \in Runs : q # first => run'[q] = run[q]
  BY <1>0, Types DEF CreateInline
<1>3. run[first].pc = "idle" /\ tasks[s] = 0
  BY <1>0 DEF IInv, Born
<1>4. \A p \in Stoppers : stop[p].pc # "idle" => stop[p].sess # s
  BY <1>0 DEF Served
<1>5. Served'
  BY <1>0, <1>2, <1>3, <1>4, StopTypes, Places DEF Served, IsLive
<1>6. Cancelled'
  BY <1>0, <1>1, <1>2 DEF Cancelled, Awaits, IsLive
<1>7. Fresh'
  <2>1. row'[s].status # "none"
    BY <1>1, <1>2
  <2> QED BY <1>0, <1>2, <2>1 DEF Fresh
<1>8. Tasked'
  <2>1. \A t \in Sessions : tasks[t] # 0 => <<t, tasks[t]>> \in Runs /\ <<t, tasks[t]>> # first
    BY <1>0, <1>3, Types DEF Runs
  <2> QED BY <1>0, <1>2, <2>1 DEF Tasked
<1>9. Opened'
  <2>1. new.copy.status \in Open
    BY <1>1 DEF Open
  <2> QED BY <1>0, <1>2, <2>1 DEF Opened
<1>10. Owned'
  <2> SUFFICES ASSUME faults' = 0, NEW t \in Sessions, row'[t].status \in Open PROVE Minded(t)'
    BY <1>0 DEF Owned
  <2>1. CASE t = s
    BY <1>1, <1>2, <2>1 DEF Minded, InCharge, Live, Slotted
  <2>2. CASE t # s
    <3>1. Minded(t)
      BY <1>0, <1>2, <2>2 DEF Owned
    <3>2. \A k \in {1, 2} : run'[<<t, k>>] = run[<<t, k>>]
      BY <1>2, <2>2, Places
    <3> QED BY <1>0, <3>1, <3>2 DEF Minded
  <2> QED BY <2>1, <2>2
<1>11. s \notin Stoppable
  BY <1>0 DEF Stoppable
<1>12. \A t \in Stoppable, k \in {1, 2} : /\ run'[<<t, k>>] = run[<<t, k>>] /\ row'[t] = row[t]
                                          /\ t \in Sessions
  BY <1>2, <1>11, Places DEF Stoppable
<1>13. Quieted' /\ Settled'
  <2>1. Quieted'
    BY <1>0, <1>12 DEF Quieted, IsLive, Stoppable
  <2>2. Settled'
    BY <1>12 DEF Settled, Stoppable
  <2> QED BY <2>1, <2>2
<1>14. Followed'
  <2> SUFFICES ASSUME NEW q \in Runs, q[1] \in Stoppable, Saved(q[1])' PROVE Follows(q)'
    BY DEF Followed, Stoppable
  <2>1. run'[q] = run[q] /\ row'[q[1]] = row[q[1]]
    BY <1>2, <1>11, <1>12, Places
  <2>2. Follows(q)
    BY <2>1 DEF Followed, Saved
  <2> QED BY <1>0, <2>1, <2>2 DEF Follows, Even, Covers
<1> QED BY <1>5, <1>6, <1>7, <1>8, <1>9, <1>10, <1>13, <1>14

LEMMA SubmitIs ==
  ASSUME IInv, NEW s \in Sessions, Submit(s)
  PROVE  /\ \A q \in Runs :
              \/ run'[q] = run[q]
              \/ q[1] = s /\ run[q].pc = "idle" /\ run'[q].pc = "ready" /\ ~run'[q].cancelling
         /\ \A t \in Sessions : t # s => tasks'[t] = tasks[t]
         /\ \/ TaskActive(s) /\ tasks'[s] = tasks[s]
            \/ tasks'[s] \in {1, 2} /\ run'[<<s, tasks'[s]>>].pc = "ready"
<1>1. CASE TaskActive(s)
  BY <1>1 DEF Submit
<1>2. CASE ~TaskActive(s)
  <2> DEFINE k == IF run[<<s, 1>>].pc = "idle" THEN 1 ELSE 2
             ready == [NoRun EXCEPT !.pc = "ready"]
  <2>1. /\ run' = [run EXCEPT ![<<s, k>>] = ready]
        /\ run[<<s, k>>].pc = "idle"
        /\ tasks' = [tasks EXCEPT ![s] = k]
        /\ k \in {1, 2}
    BY <1>2 DEF Submit
  <2>2. ready.pc = "ready" /\ ready.cancelling = FALSE
    BY DEF NoRun
  <2> HIDE DEF ready, k
  <2>3. <<s, k>> \in Runs /\ <<s, k>>[1] = s
    BY <2>1, Places
  <2>4. /\ run'[<<s, k>>] = ready
        /\ \A q \in Runs : q # <<s, k>> => run'[q] = run[q]
    BY <2>1, <2>3, Types DEF IInv
  <2>5. /\ tasks'[s] = k
        /\ \A t \in Sessions : t # s => tasks'[t] = tasks[t]
    BY <2>1, Types DEF IInv
  <2> QED BY <2>1, <2>2, <2>3, <2>4, <2>5
<1> QED BY <1>1, <1>2

LEMMA SubmitOwns ==
  ASSUME OInv, IInv', NEW s \in Sessions, Submit(s),
         UNCHANGED <<stop, mode, faults>>, mode \in {"up", "recovering"},
         \A t \in Sessions : t # s => row'[t] = row[t],
         \/ row'[s] = row[s]
         \/ row[s].status = "none" /\ row'[s] = NewRow,
         \/ mode = "up" /\ todo' = todo
         \/ mode = "recovering" /\ s \in todo /\ todo' = todo \ {s},
         s \in Stoppable => \A p \in Stoppers : stop[p].pc # "idle" => stop[p].sess # s
  PROVE  OInv'
<1> USE DEF OInv
<1>0. /\ TypeOK
      /\ \A q \in Runs :
              \/ run'[q] = run[q]
              \/ q[1] = s /\ run[q].pc = "idle" /\ run'[q].pc = "ready" /\ ~run'[q].cancelling
      /\ \A t \in Sessions : t # s => tasks'[t] = tasks[t]
      /\ \/ TaskActive(s) /\ tasks'[s] = tasks[s]
         \/ tasks'[s] \in {1, 2} /\ run'[<<s, tasks'[s]>>].pc = "ready"
  BY SubmitIs DEF IInv
<1>1. /\ NewRow.status = "pending" /\ NewRow.steps = 0 /\ "pending" \in Open
      /\ "ready" \in InCharge /\ "ready" \notin Writers /\ "idle" \notin Live
  BY DEF NewRow, NoRow, Open, InCharge, Live, Slotted, InTry, Handler, Writers
<1>2. \A t \in Sessions : row'[t].status = "none" => row[t].status = "none" /\ row'[t] = row[t]
  BY <1>1
<1>3. \A q \in Runs : run[q].pc # "idle" \/ run'[q].pc # "ready" => run'[q] = run[q]
  BY <1>0
<1>4. Served'
  <2> SUFFICES ASSUME NEW p \in Stoppers
               PROVE  /\ stop'[p].pc # "idle" => mode' = "up" /\ row'[stop'[p].sess].status # "none"
                      /\ stop'[p].pc = "await" => run'[<<stop'[p].sess, stop'[p].k>>].pc \in Live
    BY DEF Served, IsLive
  <2> QED BY <1>1, <1>2, <1>3, StopTypes DEF Served, IsLive
<1>5. Cancelled'
  <2> SUFFICES ASSUME NEW q \in Runs, run'[q].pc \in Live, run'[q].cancelling
               PROVE  \E p \in Stoppers : Awaits(p, q)
    BY DEF Cancelled, Awaits, IsLive
  <2>1. run'[q] = run[q]
    BY <1>0
  <2> QED BY <2>1 DEF Cancelled, IsLive
<1>6. Fresh'
  <2>1. mode' # "down"
    OBVIOUS
  <2>2. mode' = "recovering" => \A t \in todo' : tasks'[t] = 0
    BY <1>0 DEF Fresh, TypeOK
  <2>3. \A t \in Sessions : row'[t].status = "none" => row'[t].steps = 0
    BY <1>2 DEF Fresh
  <2> QED BY <2>1, <2>2, <2>3 DEF Fresh
<1>7. Tasked'
  <2> SUFFICES ASSUME NEW t \in Sessions, tasks'[t] # 0 PROVE run'[<<t, tasks'[t]>>].pc # "idle"
    BY DEF Tasked
  <2>1. CASE tasks'[t] = tasks[t]
    <3>1. <<t, tasks[t]>> \in Runs
      BY <1>0, <2>1, Types DEF Runs
    <3> QED BY <1>3, <2>1, <3>1 DEF Tasked
  <2>2. CASE tasks'[t] # tasks[t]
    BY <1>0, <2>2
  <2> QED BY <2>1, <2>2
<1>8. Opened'
  BY <1>0, <1>1 DEF Opened
<1>9. Owned'
  <2> SUFFICES ASSUME faults' = 0, NEW t \in Sessions, row'[t].status \in Open PROVE Minded(t)'
    BY DEF Owned
  <2>1. CASE row'[t] = row[t] /\ ~(mode = "recovering" /\ t = s)
    <3>1. Minded(t)
      BY <2>1 DEF Owned
    <3>2. \A k \in {1, 2} : run[<<t, k>>].pc \in InCharge => run'[<<t, k>>] = run[<<t, k>>]
      BY <1>1, <1>3, Places DEF InCharge
    <3> QED BY <2>1, <3>1, <3>2 DEF Minded
  <2>2. CASE t = s /\ (mode = "recovering" \/ row'[t] # row[t])
    <3>1. tasks[s] = 0
      BY <2>2 DEF Fresh, IInv, Born
    <3>2. tasks'[s] \in {1, 2} /\ run'[<<s, tasks'[s]>>].pc = "ready"
      BY <1>0, <3>1 DEF TaskActive
    <3> QED BY <1>1, <2>2, <3>2 DEF Minded
  <2> QED BY <2>1, <2>2
<1>10. Quieted'
  <2> SUFFICES ASSUME NEW p \in Stoppers, stop[p].sess \in Stoppable, stop[p].pc \in {"mget", "mput"},
                      NEW k \in {1, 2}
               PROVE  run'[<<stop[p].sess, k>>].pc \notin Live
    BY DEF Quieted, IsLive, Stoppable
  <2>1. stop[p].sess # s /\ <<stop[p].sess, k>> \in Runs /\ <<stop[p].sess, k>>[1] = stop[p].sess
    BY Places, StopTypes
  <2>2. run'[<<stop[p].sess, k>>] = run[<<stop[p].sess, k>>]
    BY <1>0, <2>1
  <2> QED BY <2>2 DEF Quieted, IsLive
<1>11. Settled'
  <2> SUFFICES ASSUME NEW t \in Stoppable, NEW k \in {1, 2}, row'[t].status \in Terminal
               PROVE  run'[<<t, k>>].pc \notin Writers
    BY DEF Settled, Stoppable
  <2>1. t \in Sessions /\ <<t, k>> \in Runs
    BY Places DEF Stoppable
  <2>2. row'[t] = row[t]
    BY <1>1, <2>1, Places
  <2> QED BY <1>0, <1>1, <2>1, <2>2 DEF Settled
<1>12. Followed'
  <2> SUFFICES ASSUME NEW q \in Runs, q[1] \in Stoppable, Saved(q[1])' PROVE Follows(q)'
    BY DEF Followed, Stoppable
  <2>1. CASE run'[q] = run[q] /\ row'[q[1]] = row[q[1]]
    <3>1. Follows(q)
      BY <2>1 DEF Followed, Saved
    <3> QED BY <2>1, <3>1 DEF Follows, Even, Covers
  <2>2. CASE run'[q] # run[q]
    <3>1. q[1] = s /\ run'[q].pc = "ready"
      BY <1>0, <2>2
    <3>2. \A p \in Stoppers : stop[p].sess = s => stop[p].pc = "idle"
      BY <3>1
    <3> QED BY <3>1, <3>2, <1>1 DEF Follows, Even
  <2>3. CASE run'[q] = run[q] /\ row'[q[1]] # row[q[1]]
    <3>1. row[q[1]].status = "none" /\ q = <<q[1], q[2]>> /\ q[2] \in {1, 2}
      BY <2>3, Places
    <3>2. run'[q].pc = "idle"
      <4>1. q[1] \in Sessions
        BY Places
      <4>2. run[<<q[1], q[2]>>].pc = "idle"
        BY <3>1, <4>1 DEF IInv, Born
      <4>3. run[q].pc = "idle"
        BY <3>1, <4>2
      <4> QED BY <2>3, <4>3
    <3> QED BY <3>2, Idles DEF Writers, InTry
  <2> QED BY <2>1, <2>2, <2>3
<1> QED BY <1>4, <1>5, <1>6, <1>7, <1>8, <1>9, <1>10, <1>11, <1>12

LEMMA SubmitsOwn ==
  ASSUME OInv, IInv',
         \/ PollSubmit
         \/ \E s \in Sessions : Create(s) \/ Recover(s)
  PROVE  OInv'
<1> USE DEF OInv
<1>1. ASSUME NEW s \in Sessions, Create(s) PROVE OInv'
  <2>1. /\ Submit(s) /\ UNCHANGED <<stop, mode, todo, faults>> /\ mode = "up" /\ row[s].status = "none"
        /\ row' = [row EXCEPT ![s] = NewRow]
    BY <1>1 DEF Create
  <2>2. row'[s] = NewRow /\ \A t \in Sessions : t # s => row'[t] = row[t]
    BY <2>1, Types DEF IInv
  <2>3. \A p \in Stoppers : stop[p].pc # "idle" => stop[p].sess # s
    BY <2>1 DEF Served
  <2> QED BY <2>1, <2>2, <2>3, SubmitOwns
<1>2. ASSUME NEW s \in Sessions, Recover(s) PROVE OInv'
  <2>1. \A p \in Stoppers : stop[p].pc = "idle"
    BY <1>2 DEF Recover, Served
  <2> QED BY <1>2, <2>1, SubmitOwns DEF Recover
<1>3. CASE PollSubmit
  <2>1. poll.sess \in Sessions /\ poll.sess \notin Stoppable
    BY <1>3, PollOk DEF PollSubmit, Polls, Stoppable
  <2> QED BY <1>3, <2>1, SubmitOwns DEF PollSubmit
<1> QED BY <1>1, <1>2, <1>3
-----------------------------------------------------------------------------
(* The whole next-state relation, and the initial states.                  *)
LEMMA OwnedInit == Init => OInv
<1> SUFFICES ASSUME Init PROVE OInv
  OBVIOUS
<1>1. IInv
  BY InitInv
<1>2. /\ \A r \in Runs : run[r].pc = "idle"
      /\ \A p \in Stoppers : stop[p].pc = "idle"
      /\ \A s \in Sessions : tasks[s] = 0 /\ row[s].status = "none" /\ row[s].steps = 0
      /\ mode = "up"
  BY DEF Init, NoRun, NoStop, NoRow
<1>3. Served /\ Cancelled /\ Fresh /\ Tasked /\ Opened /\ Owned
  BY <1>2, Places DEF Served, Cancelled, IsLive, Fresh, Tasked, Opened, Owned, Writers, InTry, Open
<1>4. Quieted /\ Settled
  BY <1>2, Places DEF Quieted, Settled, Stoppable, Terminal
<1>5. Followed
  BY <1>2, Places DEF Followed, Saved, Open, Terminal
<1> QED BY <1>1, <1>3, <1>4, <1>5 DEF OInv

LEMMA OwnedNext == OInv /\ [Next]_vars => OInv'
<1> SUFFICES ASSUME OInv, [Next]_vars PROVE OInv'
  OBVIOUS
<1>0. IInv' /\ IInv /\ Opened
  BY NextKeeps DEF OInv
<1>1. ASSUME NEW s \in Sessions, Create(s) \/ CreateInline(s) \/ PollGet(s) \/ PollReturn(s)
      PROVE  OInv'
  <2>1. CASE PollGet(s) \/ PollReturn(s)
    BY <1>0, <2>1, StutterKeeps DEF PollGet, PollReturn, vars
  <2> QED BY <1>0, <1>1, <2>1, SubmitsOwn, CreateInlineOwns
<1>2. ASSUME NEW r \in Runs, RunStep(r) \/ Error(r) \/ Discard(r)
      PROVE  OInv'
  BY <1>0, <1>2, RunsRan, RanKeeps, DiscardOwns
<1>3. ASSUME NEW p \in Stoppers, NEW s \in Sessions,
             StopReturn(p, s) \/ \E op \in {"stop", "delete"} : StopGet(p, s, op)
      PROVE  OInv'
  <2>1. CASE StopReturn(p, s)
    BY <1>0, <2>1, StutterKeeps DEF StopReturn, vars
  <2> QED BY <1>0, <1>3, <2>1, StopsCalled, CalledKeeps
<1>4. ASSUME NEW p \in Stoppers, StopStep(p) \/ StopError(p)
      PROVE  OInv'
  BY <1>0, <1>4, StopsCalled, CalledKeeps
<1>5. CASE PollSubmit \/ Shutdown \/ Crash \/ Terminated \/ Restart \/ Recovered
  BY <1>0, <1>5, SubmitsOwn, ShutdownOwns, DownOwns, RestartOwns DEF Crash, Terminated
<1>6. ASSUME NEW s \in Sessions, Recover(s) PROVE OInv'
  BY <1>0, <1>6, SubmitsOwn
<1>7. CASE UNCHANGED vars
  BY <1>0, <1>7, StutterKeeps DEF vars
<1> QED BY <1>1, <1>2, <1>3, <1>4, <1>5, <1>6, <1>7 DEF Next, Lifecycle

LEMMA RowsLeft ==
  ASSUME OInv, NEW s \in Stoppable, row' = row \/ (row[s].status = "none" /\ row'[s] = NewRow)
  PROVE  ~Rewound(s)
<1>1. s \in Sessions /\ row[s] \in Row /\ row[s].steps \in Nat
  BY Types DEF OInv, IInv, Stoppable, Row
<1>2. CASE row' = row
  BY <1>1, <1>2, Places DEF Rewound
<1>3. CASE row[s].status = "none" /\ row'[s] = NewRow
  <2>1. row[s].steps = 0 /\ row'[s].steps = 0 /\ row[s].status \notin Terminal
    BY <1>1, <1>3 DEF OInv, Fresh, NewRow, NoRow, Terminal
  <2> QED BY <2>1 DEF Rewound
<1> QED BY <1>2, <1>3

LEMMA RowWriters ==
  ASSUME [Next]_vars
  PROVE  \/ row' = row
         \/ \E r \in Runs : RunStep(r) \/ Error(r)
         \/ \E p \in Stoppers :
                \/ StopStep(p)
                \/ StopError(p)
                \/ \E t \in Sessions, op \in {"stop", "delete"} : StopGet(p, t, op)
         \/ \E t \in Sessions : Create(t) \/ CreateInline(t)
  BY DEF Next, Lifecycle, vars, PollGet, PollReturn, Discard, StopReturn, PollSubmit, Shutdown, Crash,
         Terminated, Down, Restart, Recover, Recovered

LEMMA CreatesNew ==
  ASSUME OInv, NEW s \in Sessions, Create(s) \/ CreateInline(s), NEW t \in Sessions
  PROVE  row'[t] = row[t] \/ (row[t].status = "none" /\ row'[t] = NewRow)
  BY Types DEF OInv, IInv, Create, CreateInline

LEMMA NoneStays ==
  ASSUME OInv, OInv', [Next]_vars, NEW s \in Sessions, row'[s].status = "none"
  PROVE  row[s].status = "none"
<1>0. IInv /\ Opened
  BY DEF OInv
<1>1. ASSUME NEW r \in Runs, RunStep(r) \/ Error(r)
      PROVE  row[s].status = "none"
  BY <1>0, <1>1, RunsRan DEF Ran, Kept
<1>2. ASSUME NEW p \in Stoppers,
             \/ StopStep(p)
             \/ StopError(p)
             \/ \E t \in Sessions, op \in {"stop", "delete"} : StopGet(p, t, op)
      PROVE  row[s].status = "none"
  BY <1>0, <1>2, StopsCalled, CalledIs
<1>3. ASSUME NEW t \in Sessions, Create(t) \/ CreateInline(t)
      PROVE  row[s].status = "none"
  <2>1. NewRow.status # "none"
    BY DEF NewRow, NoRow
  <2> QED BY <1>3, <2>1, CreatesNew
<1>4. CASE row' = row
  BY <1>4
<1> QED BY <1>1, <1>2, <1>3, <1>4, RowWriters

LEMMA NextRewinds ==
  ASSUME OInv, [Next]_vars, NEW s \in Stoppable, Rewound(s)
  PROVE  row'[s].cancel
<1>0. IInv /\ Opened /\ s \in Sessions
  BY DEF OInv, Stoppable
<1>1. ASSUME NEW r \in Runs, RunStep(r) \/ Error(r)
      PROVE  row'[s].cancel
  BY <1>0, <1>1, RunsRan, RanRewinds
<1>2. ASSUME NEW p \in Stoppers,
             \/ StopStep(p)
             \/ StopError(p)
             \/ \E t \in Sessions, op \in {"stop", "delete"} : StopGet(p, t, op)
      PROVE  row'[s].cancel
  BY <1>0, <1>2, StopsCalled, CalledRewinds
<1>3. ASSUME NEW t \in Sessions, Create(t) \/ CreateInline(t)
      PROVE  FALSE
  <2>1. row'[s] # row[s]
    BY <1>0, Types, Places DEF Rewound, IInv, Row
  <2> QED BY <1>0, <1>3, <2>1, CreatesNew, RowsLeft
<1>4. CASE row' = row
  BY <1>4, RowsLeft
<1> QED BY <1>1, <1>2, <1>3, <1>4, RowWriters

THEOREM OwnedInvariant == Spec => []OInv
<1> QED BY OwnedInit, OwnedNext, PTL DEF Spec

(* While the database answers, an open session has an execution that will  *)
(* settle it, or a stop() that will, whatever stop, delete, shutdown,      *)
(* crash, recovery and the polls did before.                               *)
THEOREM SessionsOwned == Spec => []OpenIsOwned
<1>1. OInv => OpenIsOwned
  BY DEF OInv, Owned, Minded, OpenIsOwned, InCharge, IsLive
<1> QED BY <1>1, OwnedInvariant, PTL

(* A session that is marked stopped has no execution left that could write *)
(* over the mark, in spite of copies read before and handlers under way.   *)
THEOREM StoppedQuiet == Spec => []StoppedIsQuiet
<1>1. OInv => StoppedIsQuiet
  BY DEF OInv, Settled, StoppedIsQuiet, Terminal
<1> QED BY <1>1, OwnedInvariant, PTL
-----------------------------------------------------------------------------
(* What a step writes over a finished row was read from it: the copy of a  *)
(* stop() or of a run that marks; and what they read is the row.           *)
Origin(s) ==
    /\ Saved(s)' => Saved(s) \/ (row[s].status = "none" /\ row'[s] = NewRow)
    /\ row[s].status \in Terminal /\ row'[s] # row[s] /\ Saved(s)' =>
         \/ \E p \in Stoppers : /\ stop[p].sess = s /\ stop[p].pc \in {"put", "mput"}
                                /\ row'[s].steps = stop[p].copy.steps
         \/ \E k \in {1, 2} : run[<<s, k>>].pc = "markput" /\ row'[s].steps = run[<<s, k>>].copy.steps
    /\ \A p \in Stoppers : stop'[p].sess = s /\ stop'[p].pc \in {"put", "mput"} =>
         \/ stop[p].sess = s /\ stop[p].pc \in {"put", "mput"} /\ stop'[p].copy = stop[p].copy
         \/ row'[s] = row[s] /\ stop'[p].copy = row[s]
    /\ \A k \in {1, 2} : run'[<<s, k>>].pc = "markput" =>
         \/ run[<<s, k>>].pc = "markput" /\ run'[<<s, k>>].copy = run[<<s, k>>].copy
         \/ row'[s] = row[s] /\ run'[<<s, k>>].copy = row[s]

LEMMA RanOrigin ==
  ASSUME OInv, NEW r \in Runs, Ran(r), NEW s \in Stoppable
  PROVE  Origin(s)
<1> USE DEF OInv
<1>0. s \in Sessions /\ r = <<r[1], r[2]>> /\ r[2] \in {1, 2} /\ r[1] \in Sessions
  BY Places DEF Stoppable
<1>1. row'[s] = row[s] \/ (s = r[1] /\ Saved(s) /\ Writes(r))
  BY <1>0 DEF Ran
<1>2. Saved(s)' => Saved(s)
  BY <1>1 DEF Saved
<1>3. ASSUME row[s].status \in Terminal, row'[s] # row[s]
      PROVE  \E k \in {1, 2} : run[<<s, k>>].pc = "markput" /\ row'[s].steps = run[<<s, k>>].copy.steps
  <2>1. s = r[1] /\ Writes(r)
    BY <1>1, <1>3
  <2>2. run[<<s, r[2]>>] = run[r]
    BY <1>0, <2>1
  <2>3. run[r].pc \notin Writers
    BY <1>0, <1>3, <2>2 DEF Settled
  <2>4. run[r].pc = "markput" /\ row'[s].steps = run[r].copy.steps
    BY <2>1, <2>3 DEF Writes, Writers, InTry
  <2> QED BY <1>0, <2>2, <2>4
<1>4. \A p \in Stoppers : stop'[p].sess = s /\ stop'[p].pc \in {"put", "mput"} =>
        stop[p].sess = s /\ stop[p].pc \in {"put", "mput"} /\ stop'[p].copy = stop[p].copy
  BY RanCovers
<1>5. ASSUME NEW k \in {1, 2}, run'[<<s, k>>].pc = "markput"
      PROVE  \/ run[<<s, k>>].pc = "markput" /\ run'[<<s, k>>].copy = run[<<s, k>>].copy
             \/ row'[s] = row[s] /\ run'[<<s, k>>].copy = row[s]
  <2>1. <<s, k>> \in Runs /\ <<s, k>>[1] = s
    BY <1>0, Places
  <2>2. CASE <<s, k>> # r
    BY <1>5, <2>1, <2>2 DEF Ran, Advanced
  <2>3. CASE <<s, k>> = r
    <3>1. run'[r].pc = "markput" /\ r[1] = s
      BY <1>5, <2>1, <2>3
    <3>2. row'[s] = row[s] /\ run'[r].copy = row[s]
      BY <3>1 DEF Ran, Reads, Fails, Ends, Writes, InTry
    <3> QED BY <2>3, <3>2
  <2> QED BY <2>2, <2>3
<1> QED BY <1>2, <1>3, <1>4, <1>5 DEF Origin

LEMMA CalledOrigin ==
  ASSUME OInv, NEW p \in Stoppers, Called(p), NEW s \in Stoppable
  PROVE  Origin(s)
<1> USE DEF OInv
<1>0. s \in Sessions
  BY DEF Stoppable
<1>1. \/ row'[s] = row[s]
      \/ /\ s = stop[p].sess /\ Saved(s) /\ stop[p].pc \in {"put", "mput"}
         /\ row'[s].steps = stop[p].copy.steps
      \/ row'[s].status = "deleted"
  <2>1. CASE s # stop[p].sess
    BY <1>0, <2>1, CalledIs
  <2>2. CASE s = stop[p].sess
    BY <2>2 DEF Called, Asks, Flags, Cancels, Rereads, Marks, Deletes, Leaves
  <2> QED BY <2>1, <2>2
<1>2. Saved(s)' => Saved(s) /\ row'[s].status # "deleted"
  BY <1>1 DEF Saved, Open, Terminal
<1>3. ASSUME NEW q \in Stoppers, stop'[q].sess = s, stop'[q].pc \in {"put", "mput"}
      PROVE  \/ stop[q].sess = s /\ stop[q].pc \in {"put", "mput"} /\ stop'[q].copy = stop[q].copy
             \/ row'[s] = row[s] /\ stop'[q].copy = row[s]
  <2>1. CASE q # p
    BY <1>3, <2>1, CalledIs
  <2>2. CASE q = p
    BY <1>3, <2>2 DEF Called, Asks, Flags, Cancels, Rereads, Marks, Deletes, Leaves
  <2> QED BY <2>1, <2>2
<1>4. \A k \in {1, 2} : run'[<<s, k>>].pc = run[<<s, k>>].pc /\ run'[<<s, k>>].copy = run[<<s, k>>].copy
  BY <1>0, CalledIs, Places
<1> QED BY <1>1, <1>2, <1>3, <1>4 DEF Origin

(* The other steps write no row but a new one, and read none.              *)
LEMMA OtherOrigin ==
  ASSUME NEW s \in Stoppable,
         row'[s] = row[s] \/ (row[s].status = "none" /\ row'[s] = NewRow),
         \A p \in Stoppers : stop'[p] = stop[p] \/ stop'[p].pc = "idle",
         \A r \in Runs : \/ run'[r].pc = run[r].pc /\ run'[r].copy = run[r].copy
                         \/ run'[r].pc # "markput"
  PROVE  Origin(s)
<1>1. \A k \in {1, 2} : <<s, k>> \in Runs
  BY Places DEF Stoppable
<1>2. Saved(s)' => Saved(s) \/ (row[s].status = "none" /\ row'[s] = NewRow)
  BY DEF Saved
<1>3. row[s].status \in Terminal => row'[s] = row[s]
  BY DEF Terminal
<1> QED BY <1>1, <1>2, <1>3 DEF Origin

LEMMA NextOrigin ==
  ASSUME OInv, [Next]_vars, NEW s \in Stoppable
  PROVE  Origin(s)
<1>0. IInv /\ Opened /\ TypeOK /\ s \in Sessions
  BY DEF OInv, IInv, Stoppable
<1>1. ASSUME NEW r \in Runs, RunStep(r) \/ Error(r)
      PROVE  Origin(s)
  BY <1>0, <1>1, RunsRan, RanOrigin
<1>2. ASSUME NEW p \in Stoppers,
             \/ StopStep(p)
             \/ StopError(p)
             \/ \E t \in Sessions, op \in {"stop", "delete"} : StopGet(p, t, op)
      PROVE  Origin(s)
  BY <1>0, <1>2, StopsCalled, CalledOrigin
<1>3. ASSUME NEW t \in Sessions, Submit(t), stop' = stop,
             row' = row \/ (row' = [row EXCEPT ![t] = NewRow] /\ row[t].status = "none")
      PROVE  Origin(s)
  <2>1. row'[s] = row[s] \/ (row[s].status = "none" /\ row'[s] = NewRow)
    BY <1>0, <1>3, Types
  <2>2. \A r \in Runs : run'[r] = run[r] \/ run'[r].pc = "ready"
    BY <1>0, <1>3, SubmitIs
  <2> QED BY <1>3, <2>1, <2>2, OtherOrigin
<1>4. ASSUME NEW t \in Sessions, CreateInline(t)
      PROVE  Origin(s)
  <2>1. row'[s] = row[s] \/ (row[s].status = "none" /\ row'[s] = NewRow)
    BY <1>0, <1>4, CreatesNew
  <2> DEFINE new == [NoRun EXCEPT !.pc = "begin", !.by = "inline", !.copy = NewRow]
  <2>2. new.pc = "begin" /\ run' = [run EXCEPT ![<<t, 1>>] = new] /\ stop' = stop
    BY <1>4 DEF CreateInline, NoRun
  <2> HIDE DEF new
  <2>3. \A r \in Runs : run'[r] = run[r] \/ run'[r].pc = "begin"
    BY <1>0, <2>2, Types
  <2> QED BY <2>1, <2>2, <2>3, OtherOrigin
<1>5. ASSUME NEW r \in Runs, Discard(r)
      PROVE  Origin(s)
  <2>1. \A q \in Runs : run'[q] = run[q] \/ run'[q].pc = "idle"
    BY <1>0, <1>5, Types DEF Discard, NoRun
  <2> QED BY <1>5, <2>1, OtherOrigin DEF Discard
<1>6. CASE Down
  <2>1. \A r \in Runs : run'[r].pc = "idle"
    BY <1>6 DEF Down, NoRun
  <2>2. \A p \in Stoppers : stop'[p].pc = "idle"
    BY <1>6 DEF Down, NoStop
  <2> QED BY <1>6, <2>1, <2>2, OtherOrigin DEF Down
<1>7. CASE Shutdown
  <2>1. \A r \in Runs : run'[r].pc = run[r].pc /\ run'[r].copy = run[r].copy
    BY <1>0, <1>7, Types DEF Shutdown, RunRec
  <2> QED BY <1>7, <2>1, OtherOrigin DEF Shutdown
<1>8. CASE UNCHANGED <<row, run, stop>>
  BY <1>8, OtherOrigin
<1>9. \/ \E r \in Runs : RunStep(r) \/ Error(r) \/ Discard(r)
      \/ \E p \in Stoppers :
             \/ StopStep(p)
             \/ StopError(p)
             \/ \E t \in Sessions, op \in {"stop", "delete"} : StopGet(p, t, op)
      \/ \E t \in Sessions : CreateInline(t) \/ Create(t) \/ Recover(t)
      \/ PollSubmit \/ Down \/ Shutdown
      \/ UNCHANGED <<row, run, stop>>
  BY DEF Next, Lifecycle, vars, PollGet, PollReturn, StopReturn, Crash, Terminated, Restart, Recovered
<1>10. CASE PollSubmit
  <2>1. poll.sess \in Sessions /\ Submit(poll.sess) /\ stop' = stop /\ row' = row
    BY <1>0, <1>10, PollOk DEF PollSubmit, Polls
  <2> QED BY <1>3, <2>1
<1>11. ASSUME NEW t \in Sessions, Create(t) \/ Recover(t)
       PROVE  Origin(s)
  <2>1. /\ Submit(t) /\ stop' = stop
        /\ row' = row \/ (row' = [row EXCEPT ![t] = NewRow] /\ row[t].status = "none")
    BY <1>11 DEF Create, Recover
  <2>2. Origin(s)
    BY <1>3, <2>1
  <2> QED BY <2>2
<1> QED BY <1>1, <1>2, <1>4, <1>5, <1>6, <1>7, <1>8, <1>9, <1>10, <1>11

(* While a session is not rewound, no copy that may be written over its    *)
(* final row has more steps than the row; and nobody follows what is not.  *)
Bounded(s) ==
    /\ \A p \in Stoppers : stop[p].sess = s /\ stop[p].pc \in {"put", "mput"} => stop[p].copy.steps <= row[s].steps
    /\ \A k \in {1, 2} : run[<<s, k>>].pc = "markput" => run[<<s, k>>].copy.steps <= row[s].steps
Seen(s) ==
    /\ page[s].next <= row[s].steps
    /\ page[s].over => row[s].status \in Terminal /\ page[s].next = row[s].steps
Followers ==
    /\ page \in [Sessions -> [over : BOOLEAN, next : Nat]]
    /\ \A s \in Sessions : row[s].status = "none" => page[s] = NoPage
    /\ \A s \in Stoppable \ rewound : Saved(s) => Bounded(s) /\ Seen(s)

(* A step of the server, seen from a page.                                 *)
LEMMA ServerSeen ==
  ASSUME OInv, OInv', Followers, [Next]_vars, page' = page, NEW s \in Stoppable, Saved(s)', ~Rewound(s),
         Saved(s) => Bounded(s) /\ Seen(s)
  PROVE  Bounded(s)' /\ Seen(s)'
<1>0. /\ s \in Sessions /\ row[s].steps \in Nat /\ row'[s].steps \in Nat /\ TypeOK
      /\ page[s].next \in Nat /\ page[s].over \in BOOLEAN
      /\ \A p \in Stoppers : stop[p].copy.steps \in Nat /\ stop'[p].copy.steps \in Nat
      /\ \A k \in {1, 2} : run[<<s, k>>].copy.steps \in Nat /\ run'[<<s, k>>].copy.steps \in Nat
  BY Types DEF OInv, IInv, TypeOK, Stoppable, Row, RunRec, StopRec, Followers, Runs
<1>1. Origin(s)
  BY NextOrigin
<1>2. CASE Saved(s)
  <2>1. row[s].steps <= row'[s].steps /\ (row[s].status \in Terminal => row'[s].status \in Terminal)
    BY <1>0 DEF Rewound, Saved, Open, Terminal
  <2>2. Bounded(s)'
    <3>1. \A p \in Stoppers : stop'[p].sess = s /\ stop'[p].pc \in {"put", "mput"} => stop'[p].copy.steps <= row'[s].steps
      BY <1>0, <1>1, <1>2, <2>1 DEF Origin, Bounded
    <3>2. \A k \in {1, 2} : run'[<<s, k>>].pc = "markput" => run'[<<s, k>>].copy.steps <= row'[s].steps
      BY <1>0, <1>1, <1>2, <2>1 DEF Origin, Bounded
    <3> QED BY <3>1, <3>2 DEF Bounded
  <2>3. row[s].status \in Terminal => row'[s].steps = row[s].steps
    <3>1. row[s].status \in Terminal => row'[s].steps <= row[s].steps
      BY <1>0, <1>1, <1>2 DEF Origin, Bounded
    <3> QED BY <1>0, <2>1, <3>1
  <2>4. Seen(s)'
    BY <1>0, <1>2, <2>1, <2>3 DEF Seen
  <2> QED BY <2>2, <2>4
<1>3. CASE ~Saved(s)
  <2>1. row[s].status = "none" /\ row'[s] = NewRow
    BY <1>1, <1>3 DEF Origin
  <2>2. page'[s] = NoPage
    BY <1>0, <2>1 DEF Followers
  <2>3. Seen(s)'
    BY <1>0, <2>1, <2>2 DEF Seen, NoPage
  <2>4. /\ \A p \in Stoppers : stop[p].pc # "idle" => stop[p].sess # s
        /\ \A k \in {1, 2} : run[<<s, k>>].pc = "idle"
    BY <1>0, <2>1 DEF OInv, Served, IInv, Born
  <2>5. row'[s] # row[s]
    BY <2>1 DEF NewRow, NoRow
  <2>6. Bounded(s)'
    BY <1>1, <2>4, <2>5 DEF Origin, Bounded
  <2> QED BY <2>3, <2>6
<1> QED BY <1>2, <1>3

LEMMA FollowersNext ==
  ASSUME OInv, Followers, [StreamNext]_streamVars
  PROVE  OInv' /\ Followers'
<1>1. CASE /\ Next /\ page' = page
           /\ rewound' = rewound \cup {s \in Sessions : Rewound(s) /\ row'[s].cancel}
  <2>1. OInv'
    BY <1>1, OwnedNext
  <2>2. \A s \in Sessions : row'[s].status = "none" => row[s].status = "none"
    <3>1. IInv /\ Opened /\ TypeOK
      BY DEF OInv, IInv
    <3> QED BY <1>1, <2>1, NoneStays
  <2>3. ASSUME NEW s \in Stoppable, s \notin rewound', Saved(s)'
        PROVE  Bounded(s)' /\ Seen(s)'
    <3>1. s \in Sessions /\ s \notin rewound
      BY <1>1, <2>3 DEF Stoppable
    <3>2. ~Rewound(s)
      BY <1>1, <2>3, <3>1, NextRewinds
    <3> QED BY <1>1, <2>1, <2>3, <3>1, <3>2, ServerSeen DEF Followers
  <2>4. Followers'
    BY <1>1, <2>2, <2>3 DEF Followers, Stoppable
  <2> QED BY <2>1, <2>4
<1>2. ASSUME NEW s \in Sessions, Send(s) \/ Break(s) \/ GiveUp(s), UNCHANGED <<vars, rewound>>
      PROVE  OInv' /\ Followers'
  <2>1. OInv'
    BY <1>2, OwnedNext
  <2>2. UNCHANGED <<row, run, stop, rewound>>
    BY <1>2 DEF vars
  <2>3. /\ page[s] \in [over : BOOLEAN, next : Nat] /\ page[s].next \in Nat /\ row[s].steps \in Nat
        /\ page \in [Sessions -> [over : BOOLEAN, next : Nat]]
    BY Types DEF OInv, IInv, Row, Followers
  <2>4. /\ Upto(s) \in Nat
        /\ page[s].next <= row[s].steps => Upto(s) = row[s].steps
    BY <2>3 DEF Upto
  <2>5. ASSUME NEW new \in [over : BOOLEAN, next : Nat], page' = [page EXCEPT ![s] = new],
               row[s].status = "none" => new = NoPage,
               Saved(s) /\ page[s].next <= row[s].steps =>
                 /\ new.next <= row[s].steps
                 /\ new.over => row[s].status \in Terminal /\ new.next = row[s].steps
        PROVE  Followers'
    <3>1. /\ page' \in [Sessions -> [over : BOOLEAN, next : Nat]]
          /\ page'[s] = new /\ \A t \in Sessions : t # s => page'[t] = page[t]
      BY <2>3, <2>5
    <3>2. \A t \in Sessions : row'[t].status = "none" => page'[t] = NoPage
      BY <2>2, <2>5, <3>1 DEF Followers
    <3>3. ASSUME NEW t \in Stoppable, t \notin rewound', Saved(t)'
          PROVE  Bounded(t)' /\ Seen(t)'
      <4>1. Bounded(t) /\ Seen(t) /\ Saved(t) /\ t \in Sessions
        BY <2>2, <3>3 DEF Followers, Saved, Stoppable
      <4>2. Bounded(t)'
        BY <2>2, <4>1 DEF Bounded
      <4>3. CASE t = s
        BY <2>2, <2>5, <3>1, <4>1, <4>2, <4>3 DEF Seen
      <4>4. CASE t # s
        BY <2>2, <3>1, <4>1, <4>2, <4>4 DEF Seen
      <4> QED BY <4>3, <4>4
    <3>4. Followers'
      BY <3>1, <3>2, <3>3 DEF Followers, Stoppable
    <3> QED BY <3>4
  <2>6. CASE Send(s)
    <3> DEFINE new == [over |-> row[s].status \in Terminal, next |-> Upto(s)]
    <3>1. page' = [page EXCEPT ![s] = new] /\ row[s].status # "none"
      BY <2>6 DEF Send, Saved, Open, Terminal
    <3>2. /\ new \in [over : BOOLEAN, next : Nat] /\ new.next = Upto(s)
          /\ new.over => row[s].status \in Terminal
      <4>1. new.next = Upto(s) /\ (new.over <=> row[s].status \in Terminal)
        BY Zenon
      <4>2. new \in [over : BOOLEAN, next : Nat]
        BY <2>4
      <4> QED BY <4>1, <4>2
    <3> HIDE DEF new
    <3>3. page[s].next <= row[s].steps =>
            /\ new.next <= row[s].steps
            /\ new.over => row[s].status \in Terminal /\ new.next = row[s].steps
      BY <2>3, <2>4, <3>2
    <3>4. Followers'
      BY <2>5, <3>1, <3>2, <3>3
    <3> QED BY <2>1, <3>4
  <2>7. CASE Break(s)
    <3>1. PICK n \in page[s].next .. Upto(s) : page' = [page EXCEPT ![s].next = n]
      BY <2>7 DEF Break
    <3>2. n \in Nat /\ ~page[s].over /\ row[s].status # "none"
      BY <2>3, <2>4, <2>7 DEF Break, Saved, Open, Terminal
    <3> DEFINE new == [page[s] EXCEPT !.next = n]
    <3>3. new \in [over : BOOLEAN, next : Nat] /\ new.next = n /\ new.over = FALSE
      BY <2>3, <3>2
    <3>4. page' = [page EXCEPT ![s] = new]
      BY <2>3, <3>1
    <3>5. page[s].next <= row[s].steps => n <= row[s].steps
      BY <2>3, <2>4, <3>1
    <3> HIDE DEF new
    <3>6. new.next <= row[s].steps \/ ~(page[s].next <= row[s].steps)
      BY <3>3, <3>5
    <3>7. Followers'
      BY <2>5, <3>2, <3>3, <3>4, <3>6
    <3> QED BY <2>1, <3>7
  <2>8. CASE GiveUp(s)
    <3>1. page' = [page EXCEPT ![s] = NoPage]
      BY <2>8 DEF GiveUp
    <3>2. NoPage \in [over : BOOLEAN, next : Nat] /\ NoPage.next = 0 /\ NoPage.over = FALSE
      BY DEF NoPage
    <3> DEFINE new == NoPage
    <3>3. /\ new \in [over : BOOLEAN, next : Nat] /\ page' = [page EXCEPT ![s] = new]
          /\ new = NoPage /\ new.next <= row[s].steps /\ ~new.over
      BY <2>3, <3>1, <3>2
    <3> HIDE DEF new
    <3>4. Followers'
      BY <2>5, <3>3
    <3> QED BY <2>1, <3>4
  <2> QED BY <1>2, <2>1, <2>6, <2>7, <2>8
<1>3. CASE UNCHANGED streamVars
  <2>1. UNCHANGED <<vars, page, rewound>> /\ UNCHANGED <<row, run, stop>>
    BY <1>3 DEF streamVars, vars
  <2>2. OInv'
    BY <2>1, OwnedNext
  <2>3. Followers'
    BY <2>1 DEF Followers, Bounded, Seen, Saved, Stoppable
  <2> QED BY <2>2, <2>3
<1> QED BY <1>1, <1>2, <1>3 DEF StreamNext

(* Whoever follows a session is told that it is over only with its last    *)
(* step, and never waits beyond the end of its trace.                      *)
THEOREM StreamDelivers == StreamSpec => []Delivered
<1>1. StreamInit => OInv /\ Followers
  <2>1. ASSUME StreamInit PROVE Followers
    <3>1. \A s \in Sessions : ~Saved(s)
      BY <2>1 DEF StreamInit, Init, NoRow, Saved, Open, Terminal
    <3> QED BY <2>1, <3>1 DEF StreamInit, Followers, NoPage, Stoppable
  <2> QED BY <2>1, OwnedInit DEF StreamInit
<1>2. (OInv /\ Followers) /\ [StreamNext]_streamVars => (OInv /\ Followers)'
  BY FollowersNext
<1>3. OInv /\ Followers => Delivered
  BY DEF Followers, Seen, Delivered
<1> QED BY <1>1, <1>2, <1>3, PTL DEF StreamSpec
-----------------------------------------------------------------------------
(* What a session does while nobody stops or deletes it.                   *)

(* An execution marks its row only for a stop() that waits for it.         *)
Marking ==
    \A r \in Runs : run[r].pc \in {"markget", "markput"} => \E p \in Stoppers : Awaits(p, r)

(* From its first write on an execution has a row that is running.         *)
Running ==
    \A r \in Runs : run[r].pc \in InTry \cup {"failing", "fail"} => run[r].copy.status = "running"

(* The row of an execution that will write it is open and has the steps of *)
(* its copy, unless a stop() has just written and is about to cancel it.   *)
Flagged(s) == \E p \in Stoppers : stop[p].pc = "cancel" /\ stop[p].sess = s
Exact(r) ==
    r[1] \in Steady /\ run[r].pc \in Writers /\ ~run[r].cancelling /\ Saved(r[1]) /\ ~Flagged(r[1]) =>
        row[r[1]].status \in Open /\ row[r[1]].steps = run[r].copy.steps

CInv == OInv /\ Marking /\ Running /\ \A r \in Runs : Exact(r)

(* What an execution writes, in more detail than Writes.                   *)
Records(r) ==
    LET me == run[r]  new == run'[r]  c == row'[r[1]] IN
    /\ me.pc \in InTry \cup {"begin", "failing"} /\ new.pc \in InTry \cup {"fail"} /\ new.copy = c
    /\ c.status = "running" /\ c.steps \in {me.copy.steps, me.copy.steps + 1}
Settles(r) ==
    LET me == run[r]  new == run'[r]  c == row'[r[1]] IN
    /\ me.pc \in Writers /\ new.pc \in {"leave", "hget", "done"}
    /\ c.status \in Terminal /\ c.steps = me.copy.steps
Obeys(r) == run[r].pc = "markput" /\ run'[r].pc = "done"

Minute(r) ==
    \/ run[r].cancelling /\ row'[r[1]] = row[r[1]]
       /\ (run'[r].pc = "done" \/ (run'[r].pc = "markget" /\ mode # "stopping"))
    \/ ~run[r].cancelling /\ row'[r[1]] = row[r[1]] /\ (Reads(r) \/ Fails(r))
    \/ ~run[r].cancelling /\ Saved(r[1]) /\ (Records(r) \/ Settles(r) \/ Obeys(r))

LEMMA RunsMinute ==
  ASSUME OInv, Running, NEW r \in Runs, RunStep(r) \/ Error(r)
  PROVE  Minute(r)
<1>0. /\ TypeOK /\ IInv /\ Opened /\ Ran(r)
      /\ run[r] \in RunRec /\ run[r].copy \in Row /\ run[r].copy.steps \in Nat
  BY RunsRan, Types DEF OInv, IInv, RunRec, Row
<1>1. CASE run[r].cancelling
  <2>1. Deliver(r)
    BY <1>1 DEF RunStep, Error, At, Start, Acquire, Get, SeedFail, Leave, Begin, Setup, Check, Work,
                Closing, Finish, Halting, Halt, Failing, Fail, HandleGet, HandlePut, MarkGet, MarkPut
  <2>2. \/ Exit(r, "done")
        \/ Exit(r, "markget") /\ mode # "stopping"
    BY <2>1 DEF Deliver
  <2>3. row' = row
    BY <2>1 DEF Deliver
  <2>4. run'[r].pc = "done" \/ (run'[r].pc = "markget" /\ mode # "stopping")
    BY <1>0, <2>2, ExitIs
  <2> QED BY <1>1, <2>3, <2>4 DEF Minute
<1>2. ASSUME NEW copy \in Row, NEW next \in SUBSET (InTry \cup {"fail"}), Put(r, copy, next),
             run[r].pc \in InTry \cup {"begin", "failing"}, ~run[r].cancelling,
             copy.status = "running", copy.steps \in {run[r].copy.steps, run[r].copy.steps + 1}
      PROVE  Minute(r)
  <2>1. next \in SUBSET (Live \ {"done"}) /\ run[r].pc \in Live \ {"leave", "ready", "slot"}
    BY <1>2 DEF Live, Slotted, InTry, Handler
  <2>2. \/ row' = row /\ (Reads(r) \/ Fails(r))
        \/ Saved(r[1]) /\ row'[r[1]] = copy /\ run'[r].pc \in next /\ run'[r].copy = copy
    BY <1>0, <1>2, <2>1, PutIs
  <2> QED BY <1>2, <2>2 DEF Minute, Records
<1>3. CASE Begin(r)
  <2> DEFINE c == [run[r].copy EXCEPT !.status = "running", !.cancel = FALSE]
  <2>1. c \in Row /\ c.status = "running" /\ c.steps = run[r].copy.steps
    BY <1>0 DEF Row, Open
  <2>2. Put(r, c, {"setup"}) /\ run[r].pc = "begin" /\ ~run[r].cancelling
    BY <1>3 DEF Begin, At
  <2> HIDE DEF c
  <2>3. {"setup"} \in SUBSET (InTry \cup {"fail"})
    BY DEF InTry
  <2> QED BY <1>2, <2>1, <2>2, <2>3
<1>4. CASE Setup(r) \/ Work(r) \/ Closing(r) \/ Halting(r) \/ Failing(r)
  <2>1. PICK next \in SUBSET (InTry \cup {"fail"}) : Put(r, Recorded(r), next)
    BY <1>4 DEF Setup, Work, Closing, Halting, Failing, InTry
  <2>2. run[r].pc \in InTry \cup {"failing"} /\ ~run[r].cancelling
    BY <1>4 DEF Setup, Work, Closing, Halting, Failing, InTry, At
  <2>3. /\ Recorded(r) \in Row /\ Recorded(r).status = run[r].copy.status
        /\ Recorded(r).steps = run[r].copy.steps + 1
    BY <1>0 DEF Recorded, Row
  <2>4. run[r].copy.status = "running"
    BY <2>2 DEF Running
  <2> QED BY <1>2, <2>1, <2>2, <2>3, <2>4
<1>5. CASE SeedFail(r) \/ Finish(r) \/ Halt(r)
  <2>1. PICK st \in Terminal : Put(r, [run[r].copy EXCEPT !.status = st], {"leave"})
    BY <1>5 DEF SeedFail, Finish, Halt, Terminal
  <2> DEFINE c == [run[r].copy EXCEPT !.status = st]
  <2>2. c \in Row /\ c.status \in Terminal /\ c.steps = run[r].copy.steps /\ Put(r, c, {"leave"})
    BY <1>0, <2>1 DEF Row
  <2> HIDE DEF c
  <2>3. run[r].pc \in {"seedfail", "finish", "halt"} /\ ~run[r].cancelling
    BY <1>5 DEF SeedFail, Finish, Halt, At
  <2>4. {"leave"} \in SUBSET (Live \ {"done"}) /\ run[r].pc \in Live \ {"leave", "ready", "slot"}
    BY <2>3 DEF Live, Slotted, InTry
  <2>5. \/ row' = row /\ (Reads(r) \/ Fails(r))
        \/ Saved(r[1]) /\ row'[r[1]] = c /\ run'[r].pc \in {"leave"} /\ run'[r].copy = c
    BY <1>0, <2>2, <2>3, <2>4, PutIs
  <2> QED BY <2>2, <2>3, <2>5 DEF Minute, Settles, Writers, InTry
<1>6. CASE Check(r)
  <2>1. run[r].pc = "check" /\ ~run[r].cancelling /\ row' = row
    BY <1>6 DEF Check, At
  <2>2. PICK pc \in {"halting", "work", "closing"} : Goto(r, pc)
    BY <1>6 DEF Check
  <2>3. run'[r] = [run[r] EXCEPT !.pc = pc]
    BY <1>0, <2>2, GotoIs
  <2>4. run'[r].pc = pc /\ run'[r].copy = run[r].copy
    BY <1>0, <2>3 DEF RunRec
  <2> QED BY <2>1, <2>2, <2>4 DEF Minute, Reads, InTry
<1>7. CASE Error(r)
  <2>1. /\ Raise(r) /\ ~run[r].cancelling /\ row' = row
        /\ run[r].pc \in Live \ {"leave", "ready", "slot"}
        /\ faults' = faults + 1 \/ run[r].pc \in InTry
    BY <1>7 DEF Error, Live, Slotted, InTry, Handler
  <2>2. Reads(r) \/ Fails(r)
    BY <1>0, <2>1, RaiseIs
  <2> QED BY <2>1, <2>2 DEF Minute
<1>8. CASE run[r].pc \notin InTry \cup {"begin", "failing"} /\ ~run[r].cancelling
  <2>1. CASE row'[r[1]] = row[r[1]] /\ (Reads(r) \/ Fails(r))
    BY <1>8, <2>1 DEF Minute
  <2>2. CASE Saved(r[1]) /\ Writes(r)
    BY <1>8, <2>2 DEF Minute, Writes, Settles, Obeys, Writers, InTry
  <2> QED BY <1>0, <1>8, <2>1, <2>2 DEF Ran, Ends
<1>9. CASE /\ Start(r) \/ Acquire(r) \/ Get(r) \/ Leave(r) \/ Fail(r)
              \/ HandleGet(r) \/ HandlePut(r) \/ MarkGet(r) \/ MarkPut(r)
           /\ ~run[r].cancelling
  <2>1. run[r].pc \notin InTry \cup {"begin", "failing"}
    BY <1>9 DEF Start, Acquire, Get, Leave, Fail, HandleGet, HandlePut, MarkGet, MarkPut, At, InTry
  <2> QED BY <1>8, <1>9, <2>1
<1>10. Deliver(r) => run[r].cancelling
  BY DEF Deliver
<1> QED BY <1>1, <1>3, <1>4, <1>5, <1>6, <1>7, <1>9, <1>10 DEF RunStep
-----------------------------------------------------------------------------
LEMMA RanMarking ==
  ASSUME CInv, NEW r \in Runs, Ran(r), Minute(r)
  PROVE  Marking' /\ Running'
<1> USE DEF CInv, OInv
<1>1. \A q \in Runs : q # r => run'[q] = run[q]
  BY DEF Ran, Advanced
<1>2. ASSUME NEW q \in Runs, NEW p \in Stoppers, Awaits(p, q), run'[q].pc # "done"
      PROVE  Awaits(p, q)'
  <2>1. stop'[p].pc = stop[p].pc
    <3>1. ~(Awaits(p, r) /\ run'[r].pc = "done")
      BY <1>2 DEF Awaits
    <3> QED BY <3>1, Waken
  <2> QED BY <1>2, <2>1, Waken DEF Awaits
<1>3. Marking'
  <2> SUFFICES ASSUME NEW q \in Runs, run'[q].pc \in {"markget", "markput"}
               PROVE  \E p \in Stoppers : Awaits(p, q)'
    BY DEF Marking
  <2>1. \E p \in Stoppers : Awaits(p, q)
    <3>1. CASE q # r
      BY <1>1, <3>1 DEF Marking
    <3>2. CASE q = r /\ run'[r].pc = "markget"
      <4>1. run[r].cancelling /\ mode # "stopping"
        BY <3>2 DEF Minute, Reads, Fails, Records, Settles, Obeys, InTry
      <4> QED BY <3>2, <4>1 DEF Cancelled, Ran
    <3>3. CASE q = r /\ run'[r].pc = "markput"
      <4>1. run[r].pc = "markget"
        BY <3>3 DEF Minute, Reads, Fails, Records, Settles, Obeys, InTry
      <4> QED BY <3>3, <4>1 DEF Marking
    <3> QED BY <3>1, <3>2, <3>3
  <2> QED BY <1>2, <2>1
<1>4. Running'
  <2> SUFFICES ASSUME NEW q \in Runs, run'[q].pc \in InTry \cup {"failing", "fail"}
               PROVE  run'[q].copy.status = "running"
    BY DEF Running
  <2>1. CASE q # r
    BY <1>1, <2>1 DEF Running
  <2>2. CASE q = r
    <3>1. \/ run[r].pc \in InTry /\ run'[r].copy = run[r].copy
          \/ Records(r)
      BY <2>2 DEF Minute, Reads, Fails, Settles, Obeys, InTry
    <3> QED BY <2>2, <3>1 DEF Running, Records
  <2> QED BY <2>1, <2>2
<1> QED BY <1>3, <1>4

LEMMA RanExact ==
  ASSUME CInv, NEW r \in Runs, Ran(r), Minute(r), NEW q \in Runs
  PROVE  Exact(q)'
<1> USE DEF CInv, OInv
<1> SUFFICES ASSUME q[1] \in Steady, run'[q].pc \in Writers, ~run'[q].cancelling, Saved(q[1])', ~Flagged(q[1])'
             PROVE  row'[q[1]].status \in Open /\ row'[q[1]].steps = run'[q].copy.steps
  BY DEF Exact, Steady, Stoppable
<1>1. /\ \A x \in Runs : x # r => run'[x] = run[x]
      /\ \A t \in Sessions : t # r[1] => row'[t] = row[t]
      /\ IsLive(r) /\ q[1] \in Sessions
  BY Places DEF Ran, Advanced
<1>2. ~Flagged(q[1])
  BY Waken DEF Flagged
<1>3. CASE q # r
  <2>1. run'[q] = run[q]
    BY <1>1, <1>3
  <2>2. q[1] # r[1]
    <3>1. IsLive(q)
      BY <2>1, Places DEF IsLive
    <3> QED BY <1>1, <1>3, <3>1, Lone
  <2>3. row'[q[1]] = row[q[1]]
    BY <1>1, <2>2
  <2> QED BY <1>2, <2>1, <2>3 DEF Exact, Saved
<1>4. CASE q = r
  <2>1. CASE row'[r[1]] = row[r[1]] /\ Reads(r) /\ ~run[r].cancelling
    <3>1. CASE run[r].pc \in InTry /\ run'[r].copy = run[r].copy
      <4>1. run[r].pc \in Writers /\ Saved(r[1])
        BY <1>4, <2>1, <3>1, Places DEF Saved
      <4> QED BY <1>2, <1>4, <2>1, <3>1, <4>1 DEF Exact
    <3>2. CASE row[r[1]].status \in Open /\ run'[r].copy = row[r[1]]
      BY <1>4, <2>1, <3>2
    <3> QED BY <1>4, <2>1, <3>1, <3>2 DEF Reads, Writers, InTry
  <2>2. CASE Records(r)
    BY <1>4, <2>2 DEF Records, Open
  <2>3. CASE run'[r].pc \in {"leave", "hget", "done", "markget"}
    BY <1>4, <2>3 DEF Writers, InTry
  <2> QED BY <2>1, <2>2, <2>3 DEF Minute, Fails, Settles, Obeys
<1> QED BY <1>3, <1>4

LEMMA RanContract ==
  ASSUME CInv, NEW r \in Runs, Ran(r), Minute(r), NEW s \in Steady, ~InHand(s)
  PROVE  ByContract(s)
<1> USE DEF CInv, OInv
<1>0. s \in Sessions
  BY DEF Steady
<1>1. CASE row'[s] = row[s]
  BY <1>1 DEF ByContract
<1>2. CASE row'[s] # row[s]
  <2>1. r[1] = s /\ Saved(s) /\ ~run[r].cancelling /\ (Records(r) \/ Settles(r) \/ Obeys(r))
    BY <1>0, <1>2 DEF Ran, Minute
  <2>2. ~Obeys(r)
    <3> SUFFICES ASSUME run[r].pc = "markput" PROVE FALSE
      BY DEF Obeys
    <3>1. PICK p \in Stoppers : Awaits(p, r)
      BY DEF Marking
    <3>2. stop[p].pc = "await" /\ stop[p].sess = s
      BY <2>1, <3>1, Places DEF Awaits
    <3> QED BY <3>2 DEF InHand
  <2>3. run[r].pc \in Writers
    BY <2>1, <2>2 DEF Records, Settles, Writers, InTry
  <2>4. ~Flagged(s)
    BY DEF Flagged, InHand
  <2>5. row[s].status \in Open /\ row[s].steps = run[r].copy.steps
    BY <2>1, <2>3, <2>4 DEF Exact
  <2> QED BY <2>1, <2>2, <2>5 DEF ByContract, Records, Settles
<1> QED BY <1>1, <1>2
-----------------------------------------------------------------------------
(* No call of stop or delete takes a cancellation back, and the execution  *)
(* it waits for is cancelled.                                              *)
LEMMA CalledCancels ==
  ASSUME TypeOK, NEW p \in Stoppers,
         \/ StopStep(p)
         \/ StopError(p)
         \/ \E s \in Sessions, op \in {"stop", "delete"} : StopGet(p, s, op)
  PROVE  /\ \A r \in Runs : run[r].cancelling => run'[r].cancelling
         /\ stop[p].pc = "cancel" /\ stop'[p].pc = "await" =>
              run'[<<stop[p].sess, stop'[p].k>>].cancelling
<1> DEFINE s == stop[p].sess  q == <<s, tasks[s]>>
<1>0. /\ stop[p] \in StopRec /\ s \in Sessions /\ run \in [Runs -> RunRec]
      /\ stop \in [Stoppers -> StopRec] /\ tasks[s] \in 0 .. 2
  BY Types DEF StopRec
<1>1. CASE StopCancel(p) /\ TaskActive(s)
  <2>1. q \in Runs
    <3>1. tasks[s] \in {1, 2}
      BY <1>0, <1>1 DEF TaskActive
    <3> QED BY <1>0, <3>1, Places
  <2>2. /\ run' = [run EXCEPT ![q].cancelling = TRUE]
        /\ stop' = [stop EXCEPT ![p].pc = "await", ![p].k = tasks[s]]
    BY <1>1 DEF StopCancel
  <2>3. run'[q].cancelling /\ \A r \in Runs : r # q => run'[r] = run[r]
    BY <1>0, <2>1, <2>2 DEF RunRec
  <2>4. stop'[p].k = tasks[s]
    <3>1. stop'[p] = [[stop[p] EXCEPT !.pc = "await"] EXCEPT !.k = tasks[s]]
      BY <1>0, <2>2 DEF StopRec
    <3> QED BY <1>0, <3>1 DEF StopRec
  <2> QED BY <2>3, <2>4
<1>2. CASE StopCancel(p) /\ ~TaskActive(s)
  <2>1. run' = run /\ StopGoto(p, "mget")
    BY <1>2 DEF StopCancel
  <2>2. stop'[p].pc = "mget"
    BY <1>0, <2>1 DEF StopGoto, StopRec
  <2> QED BY <2>1, <2>2
<1>3. CASE run' = run /\ stop[p].pc # "cancel"
  BY <1>3
<1> QED BY <1>1, <1>2, <1>3 DEF StopStep, StopError, StopPut, StopCancel, StopMarkGet, StopMarkPut, Delete, StopGet

LEMMA CalledContract ==
  ASSUME CInv, OInv', NEW p \in Stoppers, Called(p),
         \A r \in Runs : run[r].cancelling => run'[r].cancelling,
         stop[p].pc = "cancel" /\ stop'[p].pc = "await" => run'[<<stop[p].sess, stop'[p].k>>].cancelling
  PROVE  /\ Marking' /\ Running' /\ \A r \in Runs : Exact(r)'
         /\ \A s \in Steady : ~InHand(s) => ByContract(s)
<1> USE DEF CInv, OInv
<1>1. Marking'
  BY CalledIs DEF Marking, Awaits
<1>2. Running'
  BY CalledIs DEF Running
<1>3. ASSUME NEW r \in Runs PROVE Exact(r)'
  <2> SUFFICES ASSUME r[1] \in Steady, run'[r].pc \in Writers, ~run'[r].cancelling, Saved(r[1])', ~Flagged(r[1])'
               PROVE  row'[r[1]].status \in Open /\ row'[r[1]].steps = run'[r].copy.steps
    BY DEF Exact, Steady, Stoppable
  <2>1. /\ run[r].pc \in Writers /\ ~run[r].cancelling /\ run'[r].copy = run[r].copy
        /\ r[1] \in Sessions /\ r[1] \in Stoppable /\ IsLive(r)
    BY CalledIs, Places DEF Steady, IsLive
  <2>2. CASE r[1] # stop[p].sess
    <3>1. row'[r[1]] = row[r[1]]
      BY <2>1, <2>2, CalledIs
    <3>2. ~Flagged(r[1])
      <4> SUFFICES ASSUME NEW q \in Stoppers, stop[q].pc = "cancel", stop[q].sess = r[1] PROVE FALSE
        BY DEF Flagged
      <4>1. stop'[q] = stop[q]
        BY <2>2, CalledIs
      <4> QED BY <4>1 DEF Flagged
    <3> QED BY <2>1, <3>1, <3>2 DEF Exact, Saved
  <2>3. CASE r[1] = stop[p].sess
    <3>1. ~Flags(p)
      BY <2>3 DEF Flags, Flagged
    <3>2. ~Marks(p)
      <4> SUFFICES ASSUME Marks(p) PROVE FALSE
        OBVIOUS
      <4>1. stop[p].sess \in Stoppable /\ stop[p].pc \in {"mget", "mput"}
        BY <2>1, <2>3 DEF Marks
      <4>2. r[2] \in {1, 2} /\ r = <<stop[p].sess, r[2]>>
        BY <2>3, Places
      <4> QED BY <2>1, <4>1, <4>2 DEF Quieted
    <3>3. ~Deletes(p)
      BY <2>3 DEF Deletes, Saved, Open, Terminal
    <3>4. ~Cancels(p)
      <4> SUFFICES ASSUME Cancels(p) PROVE FALSE
        OBVIOUS
      <4>1. ~(stop[p].sess \in Stoppable /\ \A k \in {1, 2} : ~IsLive(<<stop[p].sess, k>>))
        BY <2>1, <2>3, Places
      <4>2. /\ stop[p].pc = "cancel" /\ stop'[p].pc = "await" /\ stop'[p].sess = stop[p].sess
            /\ IsLive(<<stop[p].sess, stop'[p].k>>)
        BY <2>1, <2>3, <4>1 DEF Cancels
      <4>3. <<stop[p].sess, stop'[p].k>> \in Runs /\ <<stop[p].sess, stop'[p].k>>[1] = r[1]
        BY <2>1, <2>3, StopTypes, Places DEF IInv, TypeOK
      <4>4. <<stop[p].sess, stop'[p].k>> = r
        BY <2>1, <4>2, <4>3, Lone
      <4> QED BY <4>2, <4>4
    <3>5. row' = row /\ stop[p].pc # "cancel"
      BY <3>1, <3>2, <3>3, <3>4 DEF Called, Asks, Rereads, Leaves
    <3>6. ~Flagged(r[1])
      <4> SUFFICES ASSUME NEW q \in Stoppers, stop[q].pc = "cancel", stop[q].sess = r[1] PROVE FALSE
        BY DEF Flagged
      <4>1. stop'[q] = stop[q]
        BY <3>5, CalledIs
      <4> QED BY <4>1 DEF Flagged
    <3> QED BY <2>1, <3>5, <3>6 DEF Exact, Saved
  <2> QED BY <2>2, <2>3
<1>4. ASSUME NEW s \in Steady, ~InHand(s) PROVE ByContract(s)
  <2>1. row'[s] = row[s]
    <3>1. s \in Sessions
      BY DEF Steady
    <3>2. CASE s # stop[p].sess
      BY <3>1, <3>2, CalledIs
    <3>3. CASE s = stop[p].sess
      <4>1. stop[p].pc = "idle"
        BY <1>4, <3>3 DEF InHand
      <4> QED BY <4>1 DEF Called, Asks, Flags, Cancels, Rereads, Marks, Deletes, Leaves
    <3> QED BY <3>2, <3>3
  <2> QED BY <2>1 DEF ByContract
<1> QED BY <1>1, <1>2, <1>3, <1>4

(* The steps that are neither of an execution nor of a call: they open a   *)
(* row, start an execution, cancel, or let go of all executions.           *)
LEMMA OtherContract ==
  ASSUME CInv, OInv', Kept,
         \A s \in Sessions : row'[s] = row[s] \/ (row[s].status = "none" /\ row'[s] = NewRow),
         stop' = stop \/ \A r \in Runs : run'[r].pc = "idle",
         \A r \in Runs :
            \/ run'[r].pc = run[r].pc /\ run'[r].copy = run[r].copy
               /\ (run[r].cancelling => run'[r].cancelling)
            \/ run'[r].pc \in {"idle", "ready"}
            \/ run'[r].pc = "begin" /\ run'[r].copy = NewRow /\ row'[r[1]] = NewRow
  PROVE  /\ Marking' /\ Running' /\ \A r \in Runs : Exact(r)'
         /\ \A s \in Steady : ~InHand(s) => ByContract(s)
<1> USE DEF CInv, OInv
<1>1. Marking'
  BY DEF Marking, Awaits
<1>2. Running'
  BY DEF Running, InTry
<1>3. ASSUME NEW r \in Runs PROVE Exact(r)'
  <2> SUFFICES ASSUME r[1] \in Steady, run'[r].pc \in Writers, ~run'[r].cancelling, Saved(r[1])', ~Flagged(r[1])'
               PROVE  row'[r[1]].status \in Open /\ row'[r[1]].steps = run'[r].copy.steps
    BY DEF Exact, Steady, Stoppable
  <2>1. r[1] \in Sessions /\ run'[r].pc \notin {"idle", "ready"} /\ stop' = stop
    BY Places DEF Writers, InTry
  <2>2. CASE run'[r].pc = "begin" /\ run'[r].copy = NewRow /\ row'[r[1]] = NewRow
    BY <2>2 DEF NewRow, NoRow, Open
  <2>3. CASE /\ run'[r].pc = run[r].pc /\ run'[r].copy = run[r].copy
             /\ (run[r].cancelling => run'[r].cancelling)
    <3>1. row[r[1]].status # "none"
      <4>1. r[2] \in {1, 2} /\ r = <<r[1], r[2]>>
        BY Places
      <4>2. run[<<r[1], r[2]>>].pc # "idle"
        BY <2>1, <2>3, <4>1
      <4> QED BY <2>1, <4>1, <4>2 DEF IInv, Born
    <3>2. row'[r[1]] = row[r[1]] /\ ~Flagged(r[1])
      BY <2>1, <3>1 DEF Flagged
    <3> QED BY <2>3, <3>2 DEF Exact, Saved
  <2> QED BY <2>1, <2>2, <2>3
<1>4. ASSUME NEW s \in Steady PROVE ByContract(s)
  <2>1. s \in Sessions
    BY DEF Steady
  <2>2. row[s].status = "none" => row[s].steps = 0
    BY <2>1 DEF Fresh
  <2> QED BY <2>1, <2>2 DEF ByContract, NewRow, NoRow
<1> QED BY <1>1, <1>2, <1>3, <1>4
-----------------------------------------------------------------------------
LEMMA NextContract ==
  ASSUME CInv, [Next]_vars
  PROVE  CInv' /\ \A s \in Steady : ~InHand(s) => ByContract(s)
<1> DEFINE Done == /\ Marking' /\ Running' /\ \A r \in Runs : Exact(r)'
                   /\ \A s \in Steady : ~InHand(s) => ByContract(s)
<1>0. /\ OInv /\ OInv' /\ IInv /\ IInv' /\ Opened /\ Running /\ TypeOK
      /\ row \in [Sessions -> Row] /\ row' \in [Sessions -> Row]
      /\ run \in [Runs -> RunRec]
  <2>1. OInv /\ OInv'
    BY OwnedNext DEF CInv
  <2>2. IInv /\ IInv' /\ Opened /\ Running /\ TypeOK
    BY <2>1 DEF OInv, CInv, IInv
  <2> QED BY <2>1, <2>2, Types DEF IInv, TypeOK
<1> SUFFICES Done
  BY <1>0 DEF CInv
<1>1. Kept
  <2>1. \A s \in Sessions : row'[s].status = "none" => row[s].status = "none"
    BY <1>0, NoneStays
  <2> QED BY <1>0, <2>1 DEF Kept
<1>2. ASSUME NEW r \in Runs, RunStep(r) \/ Error(r)
      PROVE  Done
  <2>1. Ran(r) /\ Minute(r)
    BY <1>0, <1>2, RunsRan, RunsMinute
  <2>2. Marking' /\ Running'
    BY <2>1, RanMarking
  <2>3. \A q \in Runs : Exact(q)'
    BY <2>1, RanExact
  <2>4. \A s \in Steady : ~InHand(s) => ByContract(s)
    BY <2>1, RanContract
  <2> QED BY <2>2, <2>3, <2>4
<1>3. ASSUME NEW p \in Stoppers,
             \/ StopStep(p)
             \/ StopError(p)
             \/ \E t \in Sessions, op \in {"stop", "delete"} : StopGet(p, t, op)
      PROVE  Done
  <2>1. Called(p)
    BY <1>0, <1>3, StopsCalled
  <2>2. /\ \A r \in Runs : run[r].cancelling => run'[r].cancelling
        /\ stop[p].pc = "cancel" /\ stop'[p].pc = "await" =>
             run'[<<stop[p].sess, stop'[p].k>>].cancelling
    BY <1>0, <1>3, CalledCancels
  <2> QED BY <1>0, <2>1, <2>2, CalledContract
<1>4. ASSUME stop' = stop \/ \A r \in Runs : run'[r].pc = "idle",
             \A s \in Sessions : row'[s] = row[s] \/ (row[s].status = "none" /\ row'[s] = NewRow),
             \A r \in Runs :
                \/ run'[r].pc = run[r].pc /\ run'[r].copy = run[r].copy
                   /\ (run[r].cancelling => run'[r].cancelling)
                \/ run'[r].pc \in {"idle", "ready"}
                \/ run'[r].pc = "begin" /\ run'[r].copy = NewRow /\ row'[r[1]] = NewRow
      PROVE  Done
  BY <1>0, <1>1, <1>4, OtherContract
<1>5. ASSUME NEW t \in Sessions, Submit(t), stop' = stop,
             row' = row \/ (row' = [row EXCEPT ![t] = NewRow] /\ row[t].status = "none")
      PROVE  Done
  <2>1. \A s \in Sessions : row'[s] = row[s] \/ (row[s].status = "none" /\ row'[s] = NewRow)
    BY <1>0, <1>5
  <2>2. \A r \in Runs : run'[r] = run[r] \/ run'[r].pc = "ready"
    BY <1>0, <1>5, SubmitIs
  <2> QED BY <1>4, <1>5, <2>1, <2>2
<1>6. ASSUME NEW t \in Sessions, CreateInline(t)
      PROVE  Done
  <2>1. \A s \in Sessions : row'[s] = row[s] \/ (row[s].status = "none" /\ row'[s] = NewRow)
    BY <1>0, <1>6, CreatesNew
  <2> DEFINE new == [NoRun EXCEPT !.pc = "begin", !.by = "inline", !.copy = NewRow]
  <2>2. /\ new.pc = "begin" /\ new.copy = NewRow /\ run' = [run EXCEPT ![<<t, 1>>] = new]
        /\ stop' = stop /\ row' = [row EXCEPT ![t] = NewRow]
    BY <1>6 DEF CreateInline, NoRun
  <2> HIDE DEF new
  <2>3. <<t, 1>> \in Runs /\ <<t, 1>>[1] = t /\ row'[t] = NewRow
    BY <1>0, <2>2, Places
  <2>4. \A r \in Runs : \/ run'[r] = run[r]
                        \/ run'[r].pc = "begin" /\ run'[r].copy = NewRow /\ row'[r[1]] = NewRow
    BY <1>0, <2>2, <2>3
  <2> QED BY <1>4, <2>1, <2>2, <2>4
<1>7. ASSUME NEW r \in Runs, Discard(r)
      PROVE  Done
  <2>1. \A q \in Runs : run'[q] = run[q] \/ run'[q].pc = "idle"
    BY <1>0, <1>7 DEF Discard, NoRun
  <2> QED BY <1>4, <1>7, <2>1 DEF Discard
<1>8. CASE Down
  <2>1. \A r \in Runs : run'[r].pc = "idle"
    BY <1>8 DEF Down, NoRun
  <2>2. row' = row
    BY <1>8 DEF Down
  <2> QED BY <1>4, <2>1, <2>2
<1>9. CASE Shutdown
  <2>1. \A r \in Runs : /\ run'[r].pc = run[r].pc /\ run'[r].copy = run[r].copy
                       /\ (run[r].cancelling => run'[r].cancelling)
    <3> SUFFICES ASSUME NEW r \in Runs
                 PROVE  /\ run'[r].pc = run[r].pc /\ run'[r].copy = run[r].copy
                        /\ (run[r].cancelling => run'[r].cancelling)
      OBVIOUS
    <3>1. run'[r] = IF IsLive(r) THEN [run[r] EXCEPT !.cancelling = TRUE] ELSE run[r]
      BY <1>9 DEF Shutdown
    <3>2. run[r] \in RunRec
      BY <1>0
    <3> QED BY <3>1, <3>2 DEF RunRec
  <2>2. row' = row /\ stop' = stop
    BY <1>9 DEF Shutdown
  <2> QED BY <1>4, <2>1, <2>2
<1>10. CASE UNCHANGED <<row, run, stop>>
  BY <1>4, <1>10
<1>11. \/ \E r \in Runs : RunStep(r) \/ Error(r) \/ Discard(r)
       \/ \E p \in Stoppers :
              \/ StopStep(p)
              \/ StopError(p)
              \/ \E t \in Sessions, op \in {"stop", "delete"} : StopGet(p, t, op)
       \/ \E t \in Sessions : CreateInline(t) \/ Create(t) \/ Recover(t)
       \/ PollSubmit \/ Down \/ Shutdown
       \/ UNCHANGED <<row, run, stop>>
  BY DEF Next, Lifecycle, vars, PollGet, PollReturn, StopReturn, Crash, Terminated, Restart, Recovered
<1>12. CASE PollSubmit
  <2>1. poll.sess \in Sessions /\ Submit(poll.sess) /\ stop' = stop /\ row' = row
    BY <1>0, <1>12, PollOk DEF PollSubmit, Polls
  <2> QED BY <1>5, <2>1
<1>13. ASSUME NEW t \in Sessions, Create(t) \/ Recover(t)
       PROVE  Done
  <2>1. /\ Submit(t) /\ stop' = stop
        /\ row' = row \/ (row' = [row EXCEPT ![t] = NewRow] /\ row[t].status = "none")
    BY <1>13 DEF Create, Recover
  <2> QED BY <1>5, <2>1
<1> HIDE DEF Done
<1> QED BY <1>2, <1>3, <1>6, <1>7, <1>8, <1>9, <1>10, <1>11, <1>12, <1>13

LEMMA InitContract == Init => CInv
<1> SUFFICES ASSUME Init PROVE CInv
  OBVIOUS
<1>1. OInv
  BY OwnedInit
<1>2. \A r \in Runs : run[r].pc = "idle"
  BY DEF Init, NoRun
<1> QED BY <1>1, <1>2 DEF CInv, Marking, Running, Exact, Writers, InTry

(* What is known of a session's writers holds in every behaviour.          *)
THEOREM ContractInvariant == Spec => []CInv
<1>1. CInv /\ [Next]_vars => CInv'
  BY NextContract
<1> QED BY <1>1, InitContract, PTL DEF Spec

LEMMA ContractRewinds ==
  ASSUME OInv, NEW s \in Sessions, ByContract(s)
  PROVE  ~Rewound(s)
<1>1. row[s].steps \in Nat
  BY Types DEF OInv, IInv, Row
<1> QED BY <1>1 DEF ByContract, Rewound, Open, Terminal

(* Of the writers of whole rows only stop(), with the flag in its copy or  *)
(* in the copy of a run that read it, takes a session back; and while no   *)
(* stop() or delete has it in hand, every step keeps a session within its  *)
(* contract, whatever stops, failures and restarts came before.            *)
THEOREM RewindsAreStops == Spec => OnlyStopRewinds
<1>1. ASSUME CInv, [Next]_vars, NEW s \in Steady
      PROVE  /\ Rewound(s) => row'[s].cancel
             /\ ~InHand(s) => ByContract(s)
  <2>1. OInv /\ s \in Sessions
    BY <1>1 DEF CInv, Steady
  <2>2. ~InHand(s) => ByContract(s)
    BY <1>1, NextContract
  <2>3. CASE s \in Stoppable
    BY <1>1, <2>1, <2>2, <2>3, NextRewinds
  <2>4. CASE Stoppers = {}
    BY <2>1, <2>2, <2>4, ContractRewinds DEF InHand
  <2> QED BY <2>3, <2>4 DEF Steady
<1>2. CInv /\ [Next]_vars => [\A s \in Steady : /\ Rewound(s) => row'[s].cancel
                                                /\ ~InHand(s) /\ ~InHand(s)' => ByContract(s)]_vars
  BY <1>1
<1> QED BY <1>2, ContractInvariant, PTL DEF Spec, OnlyStopRewinds

(* A step writes one session's row at most.                                *)
LEMMA OneRow ==
  ASSUME OInv, [Next]_vars
  PROVE  \E s \in Sessions : \A t \in Sessions : t # s => row'[t] = row[t]
<1>0. IInv /\ Opened /\ Sessions # {} /\ row \in [Sessions -> Row]
  BY Constants, Types DEF OInv, IInv
<1>1. CASE row' = row
  BY <1>0, <1>1
<1>2. ASSUME NEW r \in Runs, RunStep(r) \/ Error(r)
      PROVE  \E s \in Sessions : \A t \in Sessions : t # s => row'[t] = row[t]
  <2>1. r[1] \in Sessions /\ Ran(r)
    BY <1>0, <1>2, RunsRan, Places
  <2> QED BY <2>1 DEF Ran
<1>3. ASSUME NEW p \in Stoppers,
             \/ StopStep(p)
             \/ StopError(p)
             \/ \E t \in Sessions, op \in {"stop", "delete"} : StopGet(p, t, op)
      PROVE  \E s \in Sessions : \A t \in Sessions : t # s => row'[t] = row[t]
  <2>1. Called(p)
    BY <1>3, StopsCalled
  <2> QED BY <2>1, CalledIs
<1>4. ASSUME NEW s \in Sessions, Create(s) \/ CreateInline(s)
      PROVE  \A t \in Sessions : t # s => row'[t] = row[t]
  BY <1>0, <1>4 DEF Create, CreateInline
<1> QED BY <1>1, <1>2, <1>3, <1>4, RowWriters

(* A step of one session within its contract is a step of SessionContract. *)
LEMMA ContractStep ==
  ASSUME TypeOK, TypeOK', NEW s \in Sessions, ByContract(s),
         \A t \in Sessions : t # s => row'[t] = row[t]
  PROVE  [Contract!CNext]_(Contract!cvars)
<1> DEFINE st == [t \in Sessions |-> row[t].status]  n == [t \in Sessions |-> row[t].steps]
           stN == [t \in Sessions |-> row'[t].status]  nN == [t \in Sessions |-> row'[t].steps]
<1>1. row[s].steps \in Nat /\ row'[s].steps \in Nat
  BY Types DEF TypeOK, Row
<1>2. /\ stN = [st EXCEPT ![s] = row'[s].status]
      /\ nN = [n EXCEPT ![s] = row'[s].steps]
  OBVIOUS
<1>3. /\ st[s] = row[s].status /\ n[s] = row[s].steps
      /\ row'[s].status = row[s].status => stN = st
      /\ row'[s].steps = row[s].steps => nN = n
  OBVIOUS
<1>4. CASE row'[s].status = row[s].status /\ row'[s].steps = row[s].steps
  BY <1>3, <1>4 DEF Contract!cvars
<1>5. CASE row[s].status = "none" /\ row'[s].status = "pending" /\ row'[s].steps = row[s].steps
  <2>1. Contract!COpenSession(s)
    BY <1>2, <1>3, <1>5 DEF Contract!COpenSession
  <2> QED BY <2>1 DEF Contract!CNext
<1>6. CASE /\ row[s].status \in Open /\ row'[s].status = "running"
           /\ row'[s].steps \in {row[s].steps, row[s].steps + 1}
  <2>1. PICK d \in {0, 1} : row'[s].steps = n[s] + d
    BY <1>1, <1>3, <1>6
  <2>2. nN = [n EXCEPT ![s] = @ + d]
    BY <1>2, <2>1
  <2>3. Contract!CProgress(s)
    BY <1>2, <1>3, <1>6, <2>2 DEF Contract!CProgress, Contract!COpen, Open
  <2> QED BY <2>3 DEF Contract!CNext
<1>7. CASE /\ row[s].status \in Open /\ row'[s].status \in Terminal
           /\ row'[s].steps = row[s].steps
  <2>1. Contract!CSettle(s)
    BY <1>2, <1>3, <1>7 DEF Contract!CSettle, Contract!COpen, Contract!CTerminal, Open, Terminal
  <2> QED BY <2>1 DEF Contract!CNext
<1> QED BY <1>4, <1>5, <1>6, <1>7 DEF ByContract

(* Where nobody stops or deletes, the sessions implement SessionContract:  *)
(* its initial condition and its steps.                                    *)
THEOREM UnstoppedImplements ==
  ASSUME Stoppers = {}
  PROVE  Spec => Contract!CInit /\ [][Contract!CNext]_(Contract!cvars)
<1>1. Init => Contract!CInit
  BY DEF Init, NoRow, Contract!CInit
<1>2. CInv /\ [Next]_vars => [Contract!CNext]_(Contract!cvars)
  <2> SUFFICES ASSUME CInv, [Next]_vars PROVE [Contract!CNext]_(Contract!cvars)
    OBVIOUS
  <2>1. CInv' /\ \A s \in Steady : ~InHand(s) => ByContract(s)
    BY NextContract
  <2>2. OInv /\ TypeOK /\ TypeOK'
    BY <2>1 DEF CInv, OInv, IInv
  <2>3. PICK s \in Sessions : \A t \in Sessions : t # s => row'[t] = row[t]
    BY <2>2, OneRow
  <2>4. s \in Steady /\ ~InHand(s)
    BY DEF Steady, InHand
  <2> QED BY <2>1, <2>2, <2>3, <2>4, ContractStep
<1> QED BY <1>1, <1>2, ContractInvariant, PTL DEF Spec
=============================================================================
