------------------------- MODULE Autopilot_proofs -------------------------
(***************************************************************************)
(* What every writer of the campaign row may rely on, for any number of    *)
(* cycles, callers, faults, crashes and deletions.  Basic says what is     *)
(* true in all states: the lock excludes, start() is alone while the       *)
(* worker is dead, and wonders and knowledge are never ahead of what they  *)
(* come from.  Calm adds what the lock is for: a row read under it is the  *)
(* row that is stored until it is written back.                            *)
(***************************************************************************)
EXTENDS Autopilot, TLAPS, FiniteSetTheorems

(* Where a process holds the lock, with a copy of the row or without.      *)
Reading == {"csave", "stop", "sget", "missing", "plan", "ssave", "promote", "link", "wsave", "fsave"}
Locked  == Reading \cup {"get"}
Final   == {"promote", "link", "wsave", "fsave"}
(* Where only the worker gets.                                             *)
Failing == {"eget", "eput", "dead"}

Process == [pc : Locked \cup Failing \cup {"idle", "lock"}, op : Ops, copy : Campaign,
            seen : {"none", "ended", "failed"}, found : Wonders, got : {0, 1}]

Types ==
    /\ camp \in Campaign
    /\ sess \in [Cycles -> {"none", "open", "ended", "failed", "deleted"}]
    /\ wonder \in [Cycles -> Wonders]
    /\ knowledge \in [Cycles -> {"none", "item", "linked"}]
    /\ proc \in [Procs -> Process]
    /\ guard \in [pc : {"idle", "wonders", "put"}, copy : Campaign, wonder : [Cycles -> Wonders]]
    /\ lock \in Procs \cup {"free"}
    /\ up \in BOOLEAN
    /\ faults \in Nat /\ crashes \in Nat /\ deletes \in Nat

(* Who reads or writes in an operation holds the lock.                     *)
Exclusive == \A x \in Procs : proc[x].pc \in Locked => lock = x

(* The error handler is the worker's, start() runs while the worker is     *)
(* dead, and before the API is served nothing else writes.                 *)
Alone ==
    /\ \A x \in Callers : proc[x].pc \notin Failing
    /\ proc["loop"].op = "tick"
    /\ guard.pc # "idle" => proc["loop"].pc = "dead"
    /\ ~up => /\ proc["loop"].pc = "dead" /\ \A x \in Callers : proc[x].pc = "idle"
              /\ guard.pc = "put" => guard.copy = camp
              /\ guard.pc = "wonders" => \A i \in Cycles : guard.wonder[i] \in {"none", wonder[i]}

(* What a process at p knows of sessions s and knowledge k.                *)
Place(p, s, k) ==
    /\ p.pc = "csave" => p.op # "tick"
    /\ p.pc = "stop" => p.op = "pause"
    /\ p.pc \in {"missing", "plan", "ssave"} => p.op = "tick"
    /\ p.pc \in {"sget"} \cup Final => p.op \in {"tick", "pause"}
    /\ p.pc \in {"stop", "sget", "missing", "ssave"} \cup Final => p.copy.cur # None
    /\ p.pc = "plan" => p.copy.cur = None
    /\ p.pc = "missing" => s[p.copy.cur] = "deleted"
    /\ p.pc \in Final => p.seen \in Settled /\ s[p.copy.cur] \in {p.seen, "deleted"}
    /\ p.got = 1 => p.pc = "fsave"
    /\ p.pc = "link" => k[p.copy.cur] = "item"
    /\ p.pc = "wsave" => k[p.copy.cur] = "linked"
    /\ p.copy.cur # None => s[p.copy.cur] # "none"

Placed == \A x \in Procs : Place(proc[x], sess, knowledge)

(* The row names a session that exists.                                    *)
Current(c, s) == c.cur # None => s[c.cur] \notin {"none", "deleted"}

(* What a session has produced is never ahead of it.                       *)
Produced(s, w, k) ==
    \A i \in Cycles :
       /\ w[i] # "none" => s[i] \in Settled
       /\ k[i] # "none" => s[i] \in Settled \cup {"deleted"}
       /\ w[i] = "promoted" => k[i] = "linked"

(* What start() has read of them.                                          *)
Copied(g, s, k) ==
    /\ g.copy.cur # None => s[g.copy.cur] # "none"
    /\ \A i \in Cycles :
         /\ g.wonder[i] # "none" => s[i] \in Settled \cup {"deleted"}
         /\ g.wonder[i] = "promoted" => k[i] = "linked"

Started(s) == {i \in Cycles : s[i] # "none"}

Rows ==
    /\ Current(camp, sess)
    /\ Produced(sess, wonder, knowledge)
    /\ Copied(guard, sess, knowledge)
    /\ IsFiniteSet(Started(sess))

Basic == Types /\ Exclusive /\ Alone /\ Placed /\ Rows

-----------------------------------------------------------------------------
(* The ways a step of the holder x ends: it goes on as q, leaves the lock, *)
(* or fails.                                                               *)
Turned(x, q) ==
    /\ proc' \in [Procs -> Process]
    /\ proc'[x] = q
    /\ \A y \in Procs \ {x} : proc'[y] = proc[y]
Goes(x, q) == q \in Process /\ q.pc \in Locked /\ Turned(x, q) /\ lock' = lock
Leaves(x)  == Turned(x, NoProc) /\ lock' = "free"
Failed(x)  == IF x = "loop" THEN [NoProc EXCEPT !.pc = "eget"] ELSE NoProc
Fails(x)   == Turned(x, Failed(x)) /\ lock' = "free"

(* What the constants are.                                                 *)
LEMMA Constants ==
  /\ "loop" \in Procs /\ Callers \subseteq Procs /\ "free" \notin Procs /\ "loop" \notin Callers
  /\ None \notin Cycles /\ OverflowAt \in Nat \ {0}
  /\ NoProc \in Process /\ NewCampaign \in Campaign
  /\ \A x \in Procs : Failed(x) \in Process /\ Failed(x) = IF x = "loop" THEN [NoProc EXCEPT !.pc = "eget"] ELSE NoProc
  BY ConstantsAssumption DEF Procs, None, NoProc, NewCampaign, Campaign, Process, Failed, Reading, Locked, Failing, Ops, Wonders

LEMMA Turning ==
  ASSUME Types, NEW x \in Procs, NEW q \in Process, proc' = [proc EXCEPT ![x] = q]
  PROVE  Turned(x, q)
  BY DEF Types, Turned

LEMMA Typed ==
  ASSUME Types, NEW x \in Procs
  PROVE  /\ proc[x] \in Process /\ proc[x].copy \in Campaign /\ camp \in Campaign
         /\ proc[x].copy.cur \in Cycles \cup {None} /\ camp.cur \in Cycles \cup {None}
         /\ proc[x].copy.status \in {"active", "paused"} /\ camp.status \in {"active", "paused"}
         /\ proc[x].copy.started \in Nat /\ proc[x].copy.completed \in Nat
         /\ proc[x].copy.promoted \in Nat /\ proc[x].copy.fails \in Nat
         /\ proc[x].got \in {0, 1} /\ proc[x].op \in Ops /\ proc[x].found \in Wonders
         /\ proc[x].seen \in {"none", "ended", "failed"}
  BY DEF Types, Process, Campaign

LEMMA Ending ==
  ASSUME Types, NEW x \in Procs
  PROVE  /\ Release(x) => Leaves(x)
         /\ Raise(x) => Fails(x)
         /\ \A pc \in Locked : Goto(x, pc) => Goes(x, [proc[x] EXCEPT !.pc = pc, !.found = "none"])
<1>1. Release(x) => Leaves(x)
  BY Turning, Constants DEF Release, Leaves
<1>2. Raise(x) => Fails(x)
  BY Turning, Constants DEF Raise, Fails, Failed
<1>3. ASSUME NEW pc \in Locked, Goto(x, pc)
      PROVE  Goes(x, [proc[x] EXCEPT !.pc = pc, !.found = "none"])
  <2> DEFINE q == [proc[x] EXCEPT !.pc = pc, !.found = "none"]
  <2>1. q \in Process /\ q.pc \in Locked
    BY Typed DEF Process, Wonders
  <2>2. proc' = [proc EXCEPT ![x] = q]
    BY <1>3, Typed DEF Goto, Types, Process
  <2> QED BY <1>3, <2>1, <2>2, Turning DEF Goto, Goes
<1> QED BY <1>1, <1>2, <1>3

(* What each action does to the process that takes it.                     *)
LEMMA TickGetDoes ==
  ASSUME Types, NEW x \in Procs, TickGet(x)
  PROVE  \/ camp.status = "active" /\ Goes(x, [proc[x] EXCEPT !.pc = IF camp.cur = None THEN "plan" ELSE "sget", !.copy = camp])
         \/ Leaves(x)
<1>1. CASE camp.status = "active" /\ camp.cur # None
  <2> DEFINE q == [proc[x] EXCEPT !.pc = "sget", !.copy = camp]
  <2>1. q \in Process /\ q.pc \in Locked
    BY Typed DEF Process, Reading, Locked
  <2>2. proc' = [proc EXCEPT ![x] = q] /\ lock' = lock
    BY <1>1, Typed DEF TickGet, Types, Process, Release
  <2>3. q = [proc[x] EXCEPT !.pc = IF camp.cur = None THEN "plan" ELSE "sget", !.copy = camp]
    BY <1>1
  <2> QED BY <1>1, <2>1, <2>2, <2>3, Turning DEF Goes
<1>2. CASE camp.status = "active" /\ camp.cur = None
  <2> DEFINE q == [proc[x] EXCEPT !.pc = "plan", !.copy = camp]
  <2>1. q \in Process /\ q.pc \in Locked
    BY Typed DEF Process, Reading, Locked
  <2>2. proc' = [proc EXCEPT ![x] = q] /\ lock' = lock
    BY <1>2, Typed DEF TickGet, Types, Process, Release
  <2>3. q = [proc[x] EXCEPT !.pc = IF camp.cur = None THEN "plan" ELSE "sget", !.copy = camp]
    BY <1>2
  <2> QED BY <1>2, <2>1, <2>2, <2>3, Turning DEF Goes
<1>3. CASE camp.status # "active"
  BY <1>3, Ending DEF TickGet
<1> QED BY <1>1, <1>2, <1>3

Chosen(op, status) == CASE op = "resume" -> "active" [] op = "pause" -> "paused" [] OTHER -> status

LEMMA BeginDoes ==
  ASSUME Types, NEW x \in Procs, NEW op \in Ops, Begin(x, op)
  PROVE  /\ proc[x].pc = "idle" /\ (x = "loop" => op = "tick") /\ (x # "loop" => up /\ op # "tick")
         /\ Turned(x, [proc[x] EXCEPT !.pc = "lock", !.op = op])
         /\ UNCHANGED <<camp, sess, wonder, knowledge, lock>>
<1> DEFINE q == [proc[x] EXCEPT !.pc = "lock", !.op = op]
<1>1. q \in Process
  BY Typed DEF Process
<1>2. proc' = [proc EXCEPT ![x] = q]
  BY Typed DEF Begin, Types, Process
<1> QED BY <1>1, <1>2, Turning DEF Begin, At

LEMMA AcquireDoes ==
  ASSUME Types, NEW x \in Procs, Acquire(x)
  PROVE  /\ proc[x].pc = "lock" /\ lock = "free" /\ lock' = x
         /\ Turned(x, [proc[x] EXCEPT !.pc = "get"])
         /\ UNCHANGED <<camp, sess, wonder, knowledge>>
<1> DEFINE q == [proc[x] EXCEPT !.pc = "get"]
<1>1. q \in Process
  BY Typed DEF Process, Locked
<1>2. proc' = [proc EXCEPT ![x] = q]
  BY Typed DEF Acquire, Types, Process
<1> QED BY <1>1, <1>2, Turning DEF Acquire, At

LEMMA ControlGetDoes ==
  ASSUME Types, NEW x \in Procs, ControlGet(x)
  PROVE  Goes(x, [proc[x] EXCEPT !.pc = "csave",
                     !.copy = [camp EXCEPT !.status = Chosen(proc[x].op, camp.status)]])
<1> DEFINE q == [proc[x] EXCEPT !.pc = "csave",
                     !.copy = [camp EXCEPT !.status = Chosen(proc[x].op, camp.status)]]
<1>1. q \in Process /\ q.pc \in Locked
  BY Typed DEF Process, Reading, Locked, Campaign, Chosen
<1>2. proc' = [proc EXCEPT ![x] = q]
  BY Typed DEF ControlGet, Types, Process, Campaign, Chosen
<1> QED BY <1>1, <1>2, Turning DEF Goes, ControlGet

LEMMA ControlSaveDoes ==
  ASSUME Types, NEW x \in Procs, ControlSave(x)
  PROVE  LET p == proc[x] IN
         \/ /\ Storable(p.copy) /\ camp' = p.copy
            /\ \/ p.op = "resume" /\ Goes(x, [p EXCEPT !.pc = "get", !.op = "tick"])
               \/ p.op = "pause" /\ p.copy.cur # None /\ Goes(x, [p EXCEPT !.pc = "stop", !.found = "none"])
               \/ p.op # "resume" /\ (p.op = "pause" => p.copy.cur = None) /\ Leaves(x)
         \/ ~Storable(p.copy) /\ camp' = camp /\ Fails(x)
<1> DEFINE p == proc[x]
           q == [p EXCEPT !.pc = "get", !.op = "tick"]
<1>1. q \in Process /\ q.pc \in Locked
  BY Typed DEF Process, Locked, Ops
<1>2. CASE ~Storable(p.copy)
  BY <1>2, Ending DEF ControlSave, Save
<1>3. CASE Storable(p.copy) /\ p.op = "resume"
  <2>1. proc' = [proc EXCEPT ![x] = q]
    BY <1>3, Typed DEF ControlSave, Save, Types, Process
  <2> QED BY <1>1, <1>3, <2>1, Turning DEF ControlSave, Save, Goes
<1>4. CASE Storable(p.copy) /\ p.op # "resume"
  BY <1>4, Ending DEF ControlSave, Save, Locked, Reading
<1> QED BY <1>2, <1>3, <1>4

LEMMA ControlStopDoes ==
  ASSUME Types, NEW x \in Procs, ControlStop(x)
  PROVE  Goes(x, [proc[x] EXCEPT !.pc = "sget", !.found = "none"])
  BY Ending DEF ControlStop, Locked, Reading

LEMMA SessionGetDoes ==
  ASSUME Types, NEW x \in Procs, proc[x].copy.cur \in Cycles, SessionGet(x)
  PROVE  LET p == proc[x] IN
         \/ /\ sess[p.copy.cur] = "deleted" /\ p.op = "tick"
            /\ Goes(x, [p EXCEPT !.pc = "missing", !.found = "none"])
         \/ /\ sess[p.copy.cur] = "open" \/ (sess[p.copy.cur] = "deleted" /\ p.op = "pause")
            /\ Leaves(x)
         \/ /\ sess[p.copy.cur] \in Settled
            /\ Goes(x, [p EXCEPT !.pc = "promote", !.seen = sess[p.copy.cur], !.found = wonder[p.copy.cur]])
<1> DEFINE p == proc[x]
           i == p.copy.cur
           q == [p EXCEPT !.pc = "promote", !.seen = sess[i], !.found = wonder[i]]
<1>1. CASE sess[i] = "deleted" /\ p.op = "tick" /\ Goto(x, "missing")
  BY <1>1, Ending DEF Locked, Reading
<1>2. CASE (sess[i] = "open" \/ (sess[i] = "deleted" /\ p.op = "pause")) /\ Release(x)
  BY <1>2, Ending
<1>3. CASE /\ sess[i] \in Settled /\ lock' = lock
           /\ proc' = [proc EXCEPT ![x].pc = "promote", ![x].seen = sess[i], ![x].found = wonder[i]]
  <2>0. wonder[i] \in Wonders
    BY DEF Types
  <2>1. q \in Process /\ q.pc \in Locked
    BY <1>3, <2>0, Typed DEF Process, Locked, Reading, Settled
  <2>2. proc' = [proc EXCEPT ![x] = q]
    BY <1>3, Typed DEF Types, Process
  <2> QED BY <1>3, <2>1, <2>2, Turning DEF Goes
<1> QED BY <1>1, <1>2, <1>3 DEF SessionGet

LEMMA MissingDoes ==
  ASSUME Types, NEW x \in Procs, Missing(x)
  PROVE  camp' = [proc[x].copy EXCEPT !.cur = None] /\ Leaves(x)
<1>1. Storable([proc[x].copy EXCEPT !.cur = None])
  BY Typed DEF Storable, Campaign
<1> QED BY <1>1, Ending DEF Missing, Save

LEMMA TooLittleDoes ==
  ASSUME Types, NEW x \in Procs, TooLittle(x), proc[x].copy.cur = None
  PROVE  camp' = proc[x].copy /\ Leaves(x)
  BY Ending DEF TooLittle, Save, Storable

LEMMA Rewriting ==
  ASSUME NEW c \in Campaign, NEW i \in Cycles \cup {None}, NEW n \in Nat, NEW k \in Nat
  PROVE  /\ [c EXCEPT !.cur = i] \in Campaign
         /\ [c EXCEPT !.fails = k] \in Campaign
         /\ [c EXCEPT !.cur = i, !.started = n] \in Campaign
  BY DEF Campaign

LEMMA StartCycleDoes ==
  ASSUME Types, NEW x \in Procs, NEW i \in Cycles, StartCycle(x, i)
  PROVE  Goes(x, [proc[x] EXCEPT !.pc = "ssave",
                     !.copy = [proc[x].copy EXCEPT !.cur = i, !.started = @ + 1]])
<1> DEFINE q == [proc[x] EXCEPT !.pc = "ssave",
                     !.copy = [proc[x].copy EXCEPT !.cur = i, !.started = @ + 1]]
<1>0. [proc[x].copy EXCEPT !.cur = i, !.started = @ + 1] \in Campaign
  <2>1. proc[x].copy \in Campaign /\ proc[x].copy.started + 1 \in Nat
    BY Typed
  <2> QED BY <2>1, Rewriting
<1>1. q \in Process /\ q.pc \in Locked
  BY <1>0, Typed DEF Process, Reading, Locked
<1>2. proc' = [proc EXCEPT ![x] = q]
  BY Typed DEF StartCycle, Types, Process, Campaign
<1> QED BY <1>1, <1>2, Turning DEF Goes, StartCycle

LEMMA StartSaveDoes ==
  ASSUME Types, NEW x \in Procs, StartSave(x)
  PROVE  \/ Storable(proc[x].copy) /\ camp' = proc[x].copy /\ Leaves(x)
         \/ ~Storable(proc[x].copy) /\ camp' = camp /\ Fails(x)
  BY Ending DEF StartSave, Save

LEMMA PromoteNothingDoes ==
  ASSUME Types, NEW x \in Procs, PromoteNothing(x)
  PROVE  Goes(x, [proc[x] EXCEPT !.pc = "fsave", !.found = "none"])
  BY Ending DEF PromoteNothing, Locked, Reading

LEMMA IncubateDoes ==
  ASSUME Types, NEW x \in Procs, Incubate(x)
  PROVE  LET i == proc[x].copy.cur IN
         \/ sess[i] = "deleted" /\ wonder' = wonder /\ Fails(x)
         \/ /\ sess[i] # "deleted" /\ wonder' = [wonder EXCEPT ![i] = "weak"]
            /\ Goes(x, [proc[x] EXCEPT !.pc = "fsave", !.found = "none"])
  BY Ending DEF Incubate, Update, Locked, Reading

LEMMA IngestDoes ==
  ASSUME Types, NEW x \in Procs, Ingest(x)
  PROVE  LET i == proc[x].copy.cur IN
         \/ /\ knowledge[i] = "none" /\ knowledge' = [knowledge EXCEPT ![i] = "item"]
            /\ wonder' = wonder
            /\ Goes(x, [proc[x] EXCEPT !.pc = "link", !.found = "none"])
         \/ /\ knowledge[i] # "none" /\ knowledge' = knowledge
            /\ \/ sess[i] = "deleted" /\ wonder' = wonder /\ Fails(x)
               \/ /\ sess[i] # "deleted" /\ wonder' = [wonder EXCEPT ![i] = "skipped"]
                  /\ Goes(x, [proc[x] EXCEPT !.pc = "fsave", !.found = "none"])
  BY Ending DEF Ingest, Update, Locked, Reading

LEMMA LinkDoes ==
  ASSUME Types, NEW x \in Procs, Link(x)
  PROVE  Goes(x, [proc[x] EXCEPT !.pc = "wsave", !.found = "none"])
  BY Ending DEF Link, Locked, Reading

LEMMA WonderSaveDoes ==
  ASSUME Types, NEW x \in Procs, WonderSave(x)
  PROVE  LET i == proc[x].copy.cur IN
         \/ sess[i] = "deleted" /\ wonder' = wonder /\ Fails(x)
         \/ /\ sess[i] # "deleted" /\ wonder' = [wonder EXCEPT ![i] = "promoted"]
            /\ Goes(x, [proc[x] EXCEPT !.pc = "fsave", !.got = 1])
<1> DEFINE i == proc[x].copy.cur
           q == [proc[x] EXCEPT !.pc = "fsave", !.got = 1]
<1>1. CASE sess[i] = "deleted"
  BY <1>1, Ending DEF WonderSave, Update
<1>2. CASE sess[i] # "deleted"
  <2>1. q \in Process /\ q.pc \in Locked
    BY Typed DEF Process, Reading, Locked
  <2>2. proc' = [proc EXCEPT ![x] = q]
    BY <1>2, Typed DEF WonderSave, Update, Types, Process
  <2> QED BY <1>2, <2>1, <2>2, Turning DEF Goes, WonderSave, Update
<1> QED BY <1>1, <1>2

LEMMA FinalSaveDoes ==
  ASSUME Types, NEW x \in Procs, FinalSave(x)
  PROVE  LET c == Finalized(proc[x].copy, proc[x].seen = "failed", proc[x].got) IN
         /\ c \in Campaign /\ c.cur = None /\ c.status = proc[x].copy.status
         /\ c.started = proc[x].copy.started /\ c.completed = proc[x].copy.completed + 1
         /\ c.promoted = proc[x].copy.promoted + proc[x].got
         /\ c.fails = IF proc[x].seen = "failed" THEN OneMore(proc[x].copy.fails) ELSE 0
         /\ \/ c.fails >= OverflowAt /\ camp' = camp /\ Fails(x)
            \/ c.fails < OverflowAt /\ camp' = c /\ Leaves(x)
<1> DEFINE p == proc[x]
           c == Finalized(p.copy, p.seen = "failed", p.got)
<1>1. c = [p.copy EXCEPT !.cur = None, !.completed = @ + 1, !.promoted = @ + p.got,
              !.fails = IF p.seen = "failed" THEN OneMore(@) ELSE 0]
  BY DEF Finalized
<1>0. OneMore(p.copy.fails) \in Nat /\ p.copy.completed + 1 \in Nat /\ p.copy.promoted + p.got \in Nat
  BY Typed, Constants DEF OneMore
<1>2. /\ c \in Campaign /\ c.cur = None /\ c.status = p.copy.status
      /\ c.started = p.copy.started /\ c.completed = p.copy.completed + 1
      /\ c.promoted = p.copy.promoted + p.got
      /\ c.fails = IF p.seen = "failed" THEN OneMore(p.copy.fails) ELSE 0
      /\ c.fails \in Nat
  <2>1. p.copy \in Campaign
    BY Typed
  <2>3. PICK m \in Nat, n \in Nat, k \in Nat :
          m = p.copy.completed + 1 /\ n = p.copy.promoted + p.got
          /\ k = IF p.seen = "failed" THEN OneMore(p.copy.fails) ELSE 0
    BY <1>0
  <2>4. c = [p.copy EXCEPT !.cur = None, !.completed = m, !.promoted = n, !.fails = k]
    BY <1>1, <2>3
  <2>2. c \in Campaign
    BY <2>1, <2>4 DEF Campaign
  <2> QED BY <1>1, <1>0, <2>1, <2>2 DEF Campaign
<1>3. Storable(c)
  BY <1>2 DEF Storable
<1>4. CASE c.fails >= OverflowAt
  BY <1>2, <1>4, Ending DEF FinalSave
<1>5. CASE ~(c.fails >= OverflowAt)
  <2>1. c.fails < OverflowAt
    BY <1>2, <1>5, Constants
  <2> QED BY <1>2, <1>3, <1>5, <2>1, Ending DEF FinalSave, Save
<1> QED BY <1>4, <1>5

-----------------------------------------------------------------------------
(* How the rows go on: one session or one item at a time.                  *)
Onward ==
    /\ sess' \in [Cycles -> {"none", "open", "ended", "failed", "deleted"}]
    /\ wonder' \in [Cycles -> Wonders]
    /\ knowledge' \in [Cycles -> {"none", "item", "linked"}]
    /\ \A i \in Cycles :
         /\ sess[i] # "none" => sess'[i] # "none"
         /\ sess[i] = "deleted" => sess'[i] = "deleted"
         /\ sess[i] \in Settled => sess'[i] \in {sess[i], "deleted"}
         /\ knowledge[i] = "linked" => knowledge'[i] = "linked"
    /\ IsFiniteSet(Started(sess'))

LEMMA PlaceStays ==
  ASSUME Basic, Onward, NEW x \in Procs,
         proc[x].pc = "link" => knowledge' = knowledge
  PROVE  Place(proc[x], sess', knowledge')
<1> DEFINE p == proc[x]
<1>1. p.copy.cur \in Cycles \cup {None} /\ Place(p, sess, knowledge)
  BY Typed DEF Basic, Placed
<1>2. sess \in [Cycles -> {"none", "open", "ended", "failed", "deleted"}]
  BY DEF Basic, Types
<1> QED BY <1>1, <1>2, Constants DEF Place, Onward, Final, Settled

LEMMA NoPlace ==
  ASSUME NEW x \in Procs, NEW q \in {NoProc, Failed(x)}, NEW s, NEW k
  PROVE  Place(q, s, k)
  BY DEF Place, Failed, NoProc, NewCampaign, None, Final

LEMMA CopiedStays ==
  ASSUME Basic, Onward, NEW g, g = guard
  PROVE  Copied(g, sess', knowledge')
<1>1. guard.copy.cur \in Cycles \cup {None} /\ Copied(guard, sess, knowledge)
      /\ guard.wonder \in [Cycles -> Wonders]
  BY DEF Basic, Types, Rows, Campaign
<1>2. sess \in [Cycles -> {"none", "open", "ended", "failed", "deleted"}]
  BY DEF Basic, Types
<1> QED BY <1>1, <1>2, Constants DEF Copied, Onward, Settled

(* A step of a process that holds the lock.                                *)
LEMMA HeldBasic ==
  ASSUME Basic, NEW x \in Procs, proc[x].pc \in Locked,
         NEW q \in Process, Turned(x, q),
         \/ q.pc \in Locked /\ lock' = lock /\ (x = "loop" => q.op = "tick")
         \/ q \in {NoProc, Failed(x)} /\ lock' = "free",
         Place(q, sess', knowledge'),
         Onward, camp' \in Campaign, Current(camp', sess'), Produced(sess', wonder', knowledge'),
         UNCHANGED <<guard, up, crashes, deletes>>, faults' \in Nat
  PROVE  Basic'
<1>1. Types'
  <2>1. lock' \in Procs \cup {"free"}
    BY DEF Basic, Types
  <2> QED BY <2>1 DEF Basic, Types, Onward, Turned
<1>2. lock = x /\ \A y \in Procs \ {x} : proc[y].pc \notin Locked
  BY DEF Basic, Exclusive
<1>3. Exclusive'
  <2>1. q \in {NoProc, Failed(x)} => q.pc \notin Locked
    BY DEF NoProc, Failed, Locked, Reading
  <2> QED BY <1>2, <2>1 DEF Exclusive, Turned
<1>4. up
  BY Constants DEF Basic, Alone, Locked, Reading, Procs
<1>5. Alone'
  <2>1. q \in {NoProc, Failed(x)} => q.op = "tick" /\ (x # "loop" => q.pc = "idle")
    BY DEF NoProc, Failed
  <2>2. q.pc \in Locked => q.pc \notin Failing
    BY DEF Locked, Reading, Failing
  <2>3. \A y \in Callers : proc'[y].pc \notin Failing
    <3>1. \A y \in Callers : y # "loop" /\ y \in Procs /\ proc[y].pc \notin Failing
      BY Constants DEF Basic, Alone
    <3>2. "idle" \notin Failing
      BY DEF Failing
    <3> QED BY <2>1, <2>2, <3>1, <3>2 DEF Turned
  <2>4. proc'["loop"].op = "tick"
    BY <2>1, Constants DEF Basic, Alone, Turned
  <2>5. guard'.pc # "idle" => proc'["loop"].pc = "dead"
    <3>1. proc[x].pc # "dead"
      BY DEF Locked, Reading
    <3> QED BY <3>1, Constants DEF Basic, Alone, Turned
  <2> QED BY <1>4, <2>3, <2>4, <2>5 DEF Alone
<1>6. Placed'
  <2>1. ASSUME NEW y \in Procs \ {x} PROVE Place(proc'[y], sess', knowledge')
    <3>1. proc[y].pc # "link"
      BY <1>2 DEF Locked, Reading
    <3> QED BY <3>1, PlaceStays DEF Turned
  <2> QED BY <2>1 DEF Placed, Turned
<1>7. Rows'
  BY CopiedStays DEF Rows, Onward
<1> QED BY <1>1, <1>3, <1>5, <1>6, <1>7 DEF Basic

Surroundings == <<guard, up, faults, crashes, deletes>>

LEMMA Still ==
  ASSUME Basic, UNCHANGED <<sess, wonder, knowledge>>
  PROVE  /\ Onward /\ Produced(sess', wonder', knowledge') /\ Current(camp, sess')
         /\ \A x \in Procs : Place(proc[x], sess', knowledge')
  BY DEF Basic, Types, Rows, Onward, Placed, Current

LEMMA Facts ==
  ASSUME Basic, NEW x \in Procs
  PROVE  /\ Types /\ Place(proc[x], sess, knowledge) /\ (x = "loop" => proc[x].op = "tick")
         /\ proc[x].copy.cur \in Cycles \cup {None} /\ proc[x] \in Process /\ camp \in Campaign
         /\ proc[x].copy \in Campaign /\ Current(camp, sess) /\ camp.cur \in Cycles \cup {None}
         /\ Produced(sess, wonder, knowledge) /\ IsFiniteSet(Started(sess))
         /\ NoProc \in Process /\ Failed(x) \in Process
  BY Typed, Constants DEF Basic, Placed, Alone, Rows

LEMMA LeavesBasic ==
  ASSUME Basic, NEW x \in Procs, proc[x].pc \in Locked, Leaves(x) \/ Fails(x),
         Onward, camp' \in Campaign, Current(camp', sess'), Produced(sess', wonder', knowledge'),
         UNCHANGED Surroundings
  PROVE  Basic'
<1>1. NoProc \in Process /\ Failed(x) \in Process
  BY Constants
<1> QED BY <1>1, HeldBasic, NoPlace DEF Leaves, Fails, Surroundings, Basic, Types

LEMMA GoesBasic ==
  ASSUME Basic, NEW x \in Procs, proc[x].pc \in Locked, NEW q, Goes(x, q), x = "loop" => q.op = "tick",
         Place(q, sess', knowledge'),
         Onward, camp' \in Campaign, Current(camp', sess'), Produced(sess', wonder', knowledge'),
         UNCHANGED Surroundings
  PROVE  Basic'
  BY HeldBasic DEF Goes, Surroundings, Basic, Types

(* One lemma for each action.                                              *)
LEMMA TickGetBasic ==
  ASSUME Basic, NEW x \in Procs, TickGet(x), UNCHANGED Surroundings
  PROVE  Basic'
<1> DEFINE q == [proc[x] EXCEPT !.pc = IF camp.cur = None THEN "plan" ELSE "sget", !.copy = camp]
<1>1. proc[x].pc = "get" /\ proc[x].op = "tick" /\ UNCHANGED <<camp, sess, wonder, knowledge>>
      /\ proc[x].pc \in Locked
  BY DEF TickGet, At, Locked
<1>2. Place(q, sess', knowledge') /\ q.op = "tick"
  BY <1>1, Facts DEF Place, Current, Process, Campaign, Final
<1> QED BY <1>1, <1>2, Facts, Still, TickGetDoes, LeavesBasic, GoesBasic

LEMMA ControlGetBasic ==
  ASSUME Basic, NEW x \in Procs, ControlGet(x), UNCHANGED Surroundings
  PROVE  Basic'
<1> DEFINE q == [proc[x] EXCEPT !.pc = "csave",
                     !.copy = [camp EXCEPT !.status = Chosen(proc[x].op, camp.status)]]
<1>1. proc[x].pc = "get" /\ proc[x].op # "tick" /\ UNCHANGED <<camp, sess, wonder, knowledge>>
      /\ proc[x].pc \in Locked
  BY DEF ControlGet, At, Locked
<1>2. Place(q, sess', knowledge') /\ q.op = proc[x].op
  BY <1>1, Facts DEF Place, Current, Process, Campaign, Final
<1> QED BY <1>1, <1>2, Facts, Still, ControlGetDoes, GoesBasic

LEMMA ControlSaveBasic ==
  ASSUME Basic, NEW x \in Procs, ControlSave(x), UNCHANGED Surroundings
  PROVE  Basic'
<1> DEFINE p == proc[x]
           q1 == [p EXCEPT !.pc = "get", !.op = "tick"]
           q2 == [p EXCEPT !.pc = "stop", !.found = "none"]
<1>1. p.pc = "csave" /\ p.op # "tick" /\ UNCHANGED <<sess, wonder, knowledge>>
      /\ p.pc \in Locked
  BY Facts DEF ControlSave, At, Locked, Reading, Place
<1>2. Place(q1, sess', knowledge') /\ q1.op = "tick"
  BY <1>1, Facts DEF Place, Process, Final
<1>3. p.op = "pause" /\ p.copy.cur # None => Place(q2, sess', knowledge') /\ q2.op = p.op
  BY <1>1, Facts DEF Place, Process, Final
<1>4. Storable(p.copy) => Current(p.copy, sess')
  BY <1>1, Facts DEF Storable, Place, Current
<1>5. CASE /\ Storable(p.copy) /\ camp' = p.copy
           /\ \/ p.op = "resume" /\ Goes(x, q1)
              \/ p.op = "pause" /\ p.copy.cur # None /\ Goes(x, q2)
              \/ Leaves(x)
  BY <1>1, <1>2, <1>3, <1>4, <1>5, Facts, Still, GoesBasic, LeavesBasic
<1>6. CASE camp' = camp /\ Fails(x)
  BY <1>1, <1>6, Facts, Still, LeavesBasic
<1> QED BY <1>5, <1>6, Facts, ControlSaveDoes

LEMMA EndingOnward ==
  ASSUME Basic, NEW i \in Cycles, sess[i] = "open", NEW status \in Settled, End(i, status),
         UNCHANGED knowledge
  PROVE  /\ Onward /\ Produced(sess', wonder', knowledge')
         /\ \A c \in Campaign : Current(c, sess) => Current(c, sess')
         /\ sess'[i] = status /\ \A j \in Cycles \ {i} : sess'[j] = sess[j] /\ wonder'[j] = wonder[j]
<1>1. /\ sess \in [Cycles -> {"none", "open", "ended", "failed", "deleted"}]
      /\ wonder \in [Cycles -> Wonders] /\ knowledge \in [Cycles -> {"none", "item", "linked"}]
      /\ Produced(sess, wonder, knowledge) /\ IsFiniteSet(Started(sess))
  BY DEF Basic, Types, Rows
<1>2. PICK w \in {"none", "weak", "good"} : wonder' = [wonder EXCEPT ![i] = w]
  BY DEF End
<1>3. sess' = [sess EXCEPT ![i] = status] /\ status \in {"ended", "failed"}
  BY DEF End, Settled
<1>4. Started(sess') = Started(sess)
  BY <1>1, <1>3 DEF Started
<1>5. wonder' \in [Cycles -> Wonders]
  BY <1>1, <1>2 DEF Wonders
<1>6. Onward
  BY <1>1, <1>3, <1>4, <1>5 DEF Onward, Settled
<1>7. Produced(sess', wonder', knowledge')
  BY <1>1, <1>2, <1>3 DEF Produced, Settled
<1>8. \A c \in Campaign : Current(c, sess) => Current(c, sess')
  BY <1>1, <1>3 DEF Current, Campaign
<1> QED BY <1>1, <1>2, <1>3, <1>6, <1>7, <1>8

LEMMA ControlStopBasic ==
  ASSUME Basic, NEW x \in Procs, ControlStop(x), UNCHANGED Surroundings
  PROVE  Basic'
<1> DEFINE p == proc[x]
           q == [p EXCEPT !.pc = "sget", !.found = "none"]
<1>1. /\ p.pc = "stop" /\ p.op = "pause" /\ p.copy.cur # None /\ UNCHANGED <<camp, knowledge>>
      /\ p.pc \in Locked /\ p.copy.cur \in Cycles
  BY Facts DEF ControlStop, At, Locked, Reading, Place
<1>2. Onward /\ Produced(sess', wonder', knowledge') /\ Current(camp, sess')
  <2>1. CASE sess[p.copy.cur] = "open"
    BY <1>1, <2>1, Facts, EndingOnward DEF ControlStop, Settled
  <2>2. CASE sess[p.copy.cur] # "open"
    BY <1>1, <2>2, Still DEF ControlStop
  <2> QED BY <2>1, <2>2
<1>3. Place(q, sess', knowledge') /\ q.op = "pause"
  BY <1>1, <1>2, Facts DEF Place, Process, Final, Onward
<1> QED BY <1>1, <1>2, <1>3, Facts, ControlStopDoes, GoesBasic

LEMMA SessionGetBasic ==
  ASSUME Basic, NEW x \in Procs, SessionGet(x), UNCHANGED Surroundings
  PROVE  Basic'
<1> DEFINE p == proc[x]
           i == p.copy.cur
           q1 == [p EXCEPT !.pc = "missing", !.found = "none"]
           q2 == [p EXCEPT !.pc = "promote", !.seen = sess[i], !.found = wonder[i]]
<1>1. /\ p.pc = "sget" /\ p.op \in {"tick", "pause"} /\ i \in Cycles
      /\ UNCHANGED <<camp, sess, wonder, knowledge>> /\ p.pc \in Locked
  BY Facts DEF SessionGet, At, Locked, Reading, Place
<1>2. sess[i] = "deleted" /\ p.op = "tick" => Place(q1, sess', knowledge') /\ q1.op = p.op
  BY <1>1, Facts DEF Place, Process, Final
<1>3. sess[i] \in Settled => Place(q2, sess', knowledge') /\ q2.op = p.op
  BY <1>1, Facts, Constants DEF Place, Process, Final, Settled
<1> QED BY <1>1, <1>2, <1>3, Facts, Still, SessionGetDoes, GoesBasic, LeavesBasic

LEMMA MissingBasic ==
  ASSUME Basic, NEW x \in Procs, Missing(x), UNCHANGED Surroundings
  PROVE  Basic'
<1>1. proc[x].pc = "missing" /\ UNCHANGED <<sess, wonder, knowledge>> /\ proc[x].pc \in Locked
  BY DEF Missing, At, Locked, Reading
<1>2. camp' \in Campaign /\ camp'.cur = None
  <2>1. camp' = [proc[x].copy EXCEPT !.cur = None] /\ proc[x].copy \in Campaign
    BY Facts, MissingDoes
  <2> QED BY <2>1, Rewriting DEF Campaign
<1> QED BY <1>1, <1>2, Facts, Still, MissingDoes, LeavesBasic DEF Current

LEMMA NotDueBasic ==
  ASSUME Basic, NEW x \in Procs, NotDue(x), UNCHANGED Surroundings
  PROVE  Basic'
<1>1. proc[x].pc = "plan" /\ UNCHANGED <<camp, sess, wonder, knowledge>> /\ proc[x].pc \in Locked
  BY DEF NotDue, At, Locked, Reading
<1> QED BY <1>1, Facts, Still, Ending, LeavesBasic DEF NotDue

LEMMA TooLittleBasic ==
  ASSUME Basic, NEW x \in Procs, TooLittle(x), UNCHANGED Surroundings
  PROVE  Basic'
<1>1. /\ proc[x].pc = "plan" /\ proc[x].copy.cur = None
      /\ UNCHANGED <<sess, wonder, knowledge>> /\ proc[x].pc \in Locked
  BY Facts DEF TooLittle, At, Locked, Reading, Place
<1> QED BY <1>1, Facts, Still, TooLittleDoes, LeavesBasic DEF Current

LEMMA StartingOnward ==
  ASSUME Basic, NEW i \in Cycles, sess[i] = "none", sess' = [sess EXCEPT ![i] = "open"],
         UNCHANGED <<wonder, knowledge>>
  PROVE  /\ Onward /\ Produced(sess', wonder', knowledge')
         /\ \A c \in Campaign : Current(c, sess) => Current(c, sess')
<1>1. /\ sess \in [Cycles -> {"none", "open", "ended", "failed", "deleted"}]
      /\ wonder \in [Cycles -> Wonders] /\ knowledge \in [Cycles -> {"none", "item", "linked"}]
      /\ Produced(sess, wonder, knowledge) /\ IsFiniteSet(Started(sess))
  BY DEF Basic, Types, Rows
<1>2. IsFiniteSet(Started(sess'))
  <2>1. Started(sess') = Started(sess) \cup {i}
    BY <1>1 DEF Started
  <2>2. IsFiniteSet(Started(sess) \cup {i})
    BY <1>1, FS_AddElement
  <2> QED BY <2>1, <2>2
<1>3. Onward
  BY <1>1, <1>2 DEF Onward, Settled
<1>4. Produced(sess', wonder', knowledge')
  BY <1>1 DEF Produced, Settled
<1>5. \A c \in Campaign : Current(c, sess) => Current(c, sess')
  BY <1>1 DEF Current, Campaign
<1> QED BY <1>3, <1>4, <1>5

LEMMA StartCycleBasic ==
  ASSUME Basic, NEW x \in Procs, NEW i \in Cycles, StartCycle(x, i), UNCHANGED Surroundings
  PROVE  Basic'
<1> DEFINE p == proc[x]
           q == [p EXCEPT !.pc = "ssave", !.copy = [p.copy EXCEPT !.cur = i, !.started = @ + 1]]
<1>1. /\ p.pc = "plan" /\ p.op = "tick" /\ p.copy.cur = None /\ UNCHANGED <<camp, wonder, knowledge>>
      /\ p.pc \in Locked /\ sess[i] = "none" /\ sess' = [sess EXCEPT ![i] = "open"]
  BY Facts DEF StartCycle, At, Locked, Reading, Place
<1>2. sess \in [Cycles -> {"none", "open", "ended", "failed", "deleted"}] /\ i # None
  BY Constants DEF Basic, Types
<1>3. Place(q, sess', knowledge') /\ q.op = "tick"
  <2>1. q.pc = "ssave" /\ q.copy.cur = i /\ q.op = "tick" /\ q.got = p.got
    BY <1>1, Facts DEF Process, Campaign
  <2>2. sess'[i] = "open"
    BY <1>1, <1>2
  <2>3. p.got # 1
    BY <1>1, Facts DEF Place
  <2> QED BY <1>2, <2>1, <2>2, <2>3 DEF Place, Final
<1> QED BY <1>1, <1>3, Facts, StartingOnward, StartCycleDoes, GoesBasic

LEMMA StartSaveBasic ==
  ASSUME Basic, NEW x \in Procs, StartSave(x), UNCHANGED Surroundings
  PROVE  Basic'
<1>1. proc[x].pc = "ssave" /\ UNCHANGED <<sess, wonder, knowledge>> /\ proc[x].pc \in Locked
  BY DEF StartSave, At, Locked, Reading
<1>2. Storable(proc[x].copy) => Current(proc[x].copy, sess')
  BY <1>1, Facts DEF Storable, Place, Current
<1> QED BY <1>1, <1>2, Facts, Still, StartSaveDoes, LeavesBasic

LEMMA PromoteNothingBasic ==
  ASSUME Basic, NEW x \in Procs, PromoteNothing(x), UNCHANGED Surroundings
  PROVE  Basic'
<1> DEFINE p == proc[x]
           q == [p EXCEPT !.pc = "fsave", !.found = "none"]
<1>1. p.pc = "promote" /\ UNCHANGED <<camp, sess, wonder, knowledge>> /\ p.pc \in Locked
  BY DEF PromoteNothing, At, Locked, Reading
<1>2. Place(q, sess', knowledge') /\ q.op = p.op
  BY <1>1, Facts DEF Place, Process, Final
<1> QED BY <1>1, <1>2, Facts, Still, PromoteNothingDoes, GoesBasic

(* The wonder of a settled session changes.                                *)
LEMMA UpdatingOnward ==
  ASSUME Basic, NEW i \in Cycles, sess[i] \in Settled, NEW w \in Wonders,
         w = "promoted" => knowledge[i] = "linked",
         wonder' = [wonder EXCEPT ![i] = w], UNCHANGED <<sess, knowledge>>
  PROVE  Onward /\ Produced(sess', wonder', knowledge')
<1>1. wonder \in [Cycles -> Wonders]
  BY DEF Basic, Types
<1>2. wonder' \in [Cycles -> Wonders]
  BY <1>1
<1> QED BY <1>1, <1>2 DEF Basic, Types, Rows, Onward, Produced

LEMMA IncubateBasic ==
  ASSUME Basic, NEW x \in Procs, Incubate(x), UNCHANGED Surroundings
  PROVE  Basic'
<1> DEFINE p == proc[x]
           i == p.copy.cur
           q == [p EXCEPT !.pc = "fsave", !.found = "none"]
<1>1. /\ p.pc = "promote" /\ UNCHANGED <<camp, sess, knowledge>> /\ p.pc \in Locked
      /\ i \in Cycles /\ sess[i] \in Settled \cup {"deleted"}
  BY Facts DEF Incubate, At, Locked, Reading, Place, Final, Settled
<1>2. CASE sess[i] = "deleted" /\ wonder' = wonder /\ Fails(x)
  BY <1>1, <1>2, Facts, Still, LeavesBasic
<1>3. CASE sess[i] # "deleted" /\ wonder' = [wonder EXCEPT ![i] = "weak"] /\ Goes(x, q)
  <2>1. Onward /\ Produced(sess', wonder', knowledge')
    BY <1>1, <1>3, UpdatingOnward DEF Wonders
  <2>2. Place(q, sess', knowledge') /\ q.op = p.op
    BY <1>1, Facts DEF Place, Process, Final
  <2> QED BY <1>1, <1>3, <2>1, <2>2, Facts, GoesBasic
<1> QED BY <1>2, <1>3, Facts, IncubateDoes

(* The knowledge of a settled session comes to be, or is linked.           *)
LEMMA LearningOnward ==
  ASSUME Basic, NEW i \in Cycles, sess[i] \in Settled \cup {"deleted"},
         NEW k \in {"item", "linked"}, k = "item" => knowledge[i] = "none",
         knowledge' = [knowledge EXCEPT ![i] = k], UNCHANGED <<sess, wonder>>
  PROVE  Onward /\ Produced(sess', wonder', knowledge')
<1>1. knowledge \in [Cycles -> {"none", "item", "linked"}] /\ Produced(sess, wonder, knowledge)
  BY DEF Basic, Types, Rows
<1>2. knowledge' \in [Cycles -> {"none", "item", "linked"}]
  BY <1>1
<1>3. Onward
  BY <1>1, <1>2 DEF Basic, Types, Rows, Onward
<1>4. Produced(sess', wonder', knowledge')
  BY <1>1 DEF Produced
<1> QED BY <1>3, <1>4

LEMMA IngestBasic ==
  ASSUME Basic, NEW x \in Procs, Ingest(x), UNCHANGED Surroundings
  PROVE  Basic'
<1> DEFINE p == proc[x]
           i == p.copy.cur
           q1 == [p EXCEPT !.pc = "link", !.found = "none"]
           q2 == [p EXCEPT !.pc = "fsave", !.found = "none"]
<1>1. /\ p.pc = "promote" /\ UNCHANGED <<camp, sess>> /\ p.pc \in Locked
      /\ i \in Cycles /\ sess[i] \in Settled \cup {"deleted"}
  BY Facts DEF Ingest, At, Locked, Reading, Place, Final, Settled
<1>2. CASE /\ knowledge[i] = "none" /\ knowledge' = [knowledge EXCEPT ![i] = "item"]
           /\ wonder' = wonder /\ Goes(x, q1)
  <2>1. Onward /\ Produced(sess', wonder', knowledge')
    BY <1>1, <1>2, LearningOnward
  <2>2. knowledge'[i] = "item"
    BY <1>1, <1>2 DEF Basic, Types
  <2>3. Place(q1, sess', knowledge') /\ q1.op = p.op
    BY <1>1, <2>2, Facts DEF Place, Process, Final
  <2> QED BY <1>1, <1>2, <2>1, <2>3, Facts, GoesBasic
<1>3. CASE knowledge' = knowledge /\ sess[i] = "deleted" /\ wonder' = wonder /\ Fails(x)
  BY <1>1, <1>3, Facts, Still, LeavesBasic
<1>4. CASE /\ knowledge' = knowledge /\ sess[i] # "deleted"
           /\ wonder' = [wonder EXCEPT ![i] = "skipped"] /\ Goes(x, q2)
  <2>1. Onward /\ Produced(sess', wonder', knowledge')
    BY <1>1, <1>4, UpdatingOnward DEF Wonders
  <2>2. Place(q2, sess', knowledge') /\ q2.op = p.op
    BY <1>1, <1>4, Facts DEF Place, Process, Final
  <2> QED BY <1>1, <1>4, <2>1, <2>2, Facts, GoesBasic
<1> QED BY <1>2, <1>3, <1>4, Facts, IngestDoes

LEMMA LinkBasic ==
  ASSUME Basic, NEW x \in Procs, Link(x), UNCHANGED Surroundings
  PROVE  Basic'
<1> DEFINE p == proc[x]
           i == p.copy.cur
           q == [p EXCEPT !.pc = "wsave", !.found = "none"]
<1>1. /\ p.pc = "link" /\ UNCHANGED <<camp, sess, wonder>> /\ p.pc \in Locked
      /\ i \in Cycles /\ sess[i] \in Settled \cup {"deleted"}
      /\ knowledge' = [knowledge EXCEPT ![i] = "linked"]
  BY Facts DEF Link, At, Locked, Reading, Place, Final, Settled
<1>2. Onward /\ Produced(sess', wonder', knowledge')
  BY <1>1, LearningOnward
<1>3. knowledge'[i] = "linked"
  BY <1>1 DEF Basic, Types
<1>4. Place(q, sess', knowledge') /\ q.op = p.op
  BY <1>1, <1>3, Facts DEF Place, Process, Final
<1> QED BY <1>1, <1>2, <1>4, Facts, LinkDoes, GoesBasic

LEMMA WonderSaveBasic ==
  ASSUME Basic, NEW x \in Procs, WonderSave(x), UNCHANGED Surroundings
  PROVE  Basic'
<1> DEFINE p == proc[x]
           i == p.copy.cur
           q == [p EXCEPT !.pc = "fsave", !.got = 1]
<1>1. /\ p.pc = "wsave" /\ UNCHANGED <<camp, sess, knowledge>> /\ p.pc \in Locked
      /\ i \in Cycles /\ sess[i] \in Settled \cup {"deleted"} /\ knowledge[i] = "linked"
  BY Facts DEF WonderSave, At, Locked, Reading, Place, Final, Settled
<1>2. CASE sess[i] = "deleted" /\ wonder' = wonder /\ Fails(x)
  BY <1>1, <1>2, Facts, Still, LeavesBasic
<1>3. CASE sess[i] # "deleted" /\ wonder' = [wonder EXCEPT ![i] = "promoted"] /\ Goes(x, q)
  <2>1. Onward /\ Produced(sess', wonder', knowledge')
    BY <1>1, <1>3, UpdatingOnward DEF Wonders
  <2>2. Place(q, sess', knowledge') /\ q.op = p.op
    BY <1>1, Facts DEF Place, Process, Final
  <2> QED BY <1>1, <1>3, <2>1, <2>2, Facts, GoesBasic
<1> QED BY <1>2, <1>3, Facts, WonderSaveDoes

LEMMA FinalSaveBasic ==
  ASSUME Basic, NEW x \in Procs, FinalSave(x), UNCHANGED Surroundings
  PROVE  Basic'
<1>1. proc[x].pc = "fsave" /\ UNCHANGED <<sess, wonder, knowledge>> /\ proc[x].pc \in Locked
  BY DEF FinalSave, At, Locked, Reading, Final
<1>2. camp' \in Campaign /\ Current(camp', sess') /\ (Leaves(x) \/ Fails(x))
  <2>1. \A c : c.cur = None => Current(c, sess')
    BY DEF Current
  <2> QED BY <1>1, <2>1, Facts, FinalSaveDoes, Still
<1> QED BY <1>1, <1>2, Facts, Still, LeavesBasic

(* A step of a process that does not end by holding the lock, unless it    *)
(* takes the lock while it is free.                                        *)
LEMMA OtherBasic ==
  ASSUME Basic, NEW x \in Procs, proc[x].pc \notin Locked, NEW q \in Process, Turned(x, q),
         \/ q.pc \notin Locked /\ lock' = lock
         \/ q.pc \in Locked /\ lock = "free" /\ lock' = x,
         Alone', Place(q, sess', knowledge'), UNCHANGED <<sess, wonder, knowledge>>,
         camp' \in Campaign, Current(camp', sess),
         guard' \in {guard, NoGuard},
         up' \in BOOLEAN, UNCHANGED <<crashes, deletes>>, faults' \in Nat
  PROVE  Basic'
<1>1. Types'
  <2>1. lock' \in Procs \cup {"free"}
    BY DEF Basic, Types
  <2>2. NoGuard \in [pc : {"idle", "wonders", "put"}, copy : Campaign, wonder : [Cycles -> Wonders]]
    BY Constants DEF NoGuard, Wonders
  <2> QED BY <2>1, <2>2 DEF Basic, Types, Turned
<1>2. Exclusive'
  <2>1. \A y \in Procs : y # "free"
    BY Constants
  <2> QED BY <2>1 DEF Basic, Exclusive, Turned
<1>3. Placed'
  <2>1. ASSUME NEW y \in Procs PROVE Place(proc[y], sess', knowledge')
    BY Still
  <2> QED BY <2>1 DEF Placed, Turned
<1>4. Rows'
  <2>1. Copied(guard', sess, knowledge)
    BY DEF Basic, Rows, Copied, NoGuard, NewCampaign, None
  <2> QED BY <2>1 DEF Basic, Rows
<1> QED BY <1>1, <1>2, <1>3, <1>4 DEF Basic

LEMMA BeginBasic ==
  ASSUME Basic, NEW x \in Procs, Idle(x)
  PROVE  Basic'
<1> DEFINE q(op) == [proc[x] EXCEPT !.pc = "lock", !.op = op]
<1>1. PICK op \in Ops : Begin(x, op)
  BY DEF Idle
<1>2. /\ proc[x].pc = "idle" /\ (x = "loop" => op = "tick") /\ (x # "loop" => up)
      /\ Turned(x, q(op)) /\ UNCHANGED <<camp, sess, wonder, knowledge, lock>>
      /\ UNCHANGED Surroundings
  BY <1>1, Facts, BeginDoes DEF Idle, Surroundings
<1>3. q(op) \in Process /\ q(op).pc = "lock" /\ q(op).op = op
      /\ q(op).copy = proc[x].copy /\ q(op).got = proc[x].got
  BY Facts DEF Process
<1>4. proc[x].pc \notin Locked /\ q(op).pc \notin Locked /\ q(op).pc \notin Failing
  BY <1>2, <1>3 DEF Locked, Reading, Failing
<1>5. Place(q(op), sess', knowledge')
  BY <1>2, <1>3, Facts DEF Place, Final
<1>6. Alone'
  <2>1. proc["loop"].pc = "dead" => x # "loop"
    BY <1>2
  <2>2. \A y \in Callers : y \in Procs /\ y # "loop"
    BY Constants
  <2>3. "loop" \in Procs
    BY Constants
  <2> QED BY <1>2, <1>3, <1>4, <2>1, <2>2, <2>3 DEF Basic, Alone, Turned, Surroundings, Procs
<1> HIDE DEF q
<1> QED BY <1>2, <1>3, <1>4, <1>5, <1>6, Facts, OtherBasic DEF Surroundings, Basic, Types

LEMMA AcquireBasic ==
  ASSUME Basic, NEW x \in Procs, Acquire(x), UNCHANGED Surroundings
  PROVE  Basic'
<1> DEFINE q == [proc[x] EXCEPT !.pc = "get"]
<1>1. /\ proc[x].pc = "lock" /\ lock = "free" /\ lock' = x /\ Turned(x, q)
      /\ UNCHANGED <<camp, sess, wonder, knowledge>>
  BY Facts, AcquireDoes DEF Acquire, At
<1>2. q \in Process /\ q.pc = "get" /\ q.op = proc[x].op /\ q.copy = proc[x].copy /\ q.got = proc[x].got
  BY Facts DEF Process, Locked
<1>3. q.pc \in Locked /\ proc[x].pc \notin Locked /\ q.pc \notin Failing
  BY <1>1, <1>2 DEF Locked, Reading, Failing
<1>4. Place(q, sess', knowledge')
  BY <1>1, <1>2, Facts DEF Place, Final
<1>5. Alone'
  <2>1. \A y \in Callers : y \in Procs /\ y # "loop"
    BY Constants
  <2>2. "loop" \in Procs
    BY Constants
  <2> QED BY <1>1, <1>2, <1>3, <2>1, <2>2 DEF Basic, Alone, Turned, Surroundings, Procs
<1> HIDE DEF q
<1> QED BY <1>1, <1>2, <1>3, <1>4, <1>5, Facts, OtherBasic DEF Surroundings, Basic, Types

LEMMA ErrorGetBasic ==
  ASSUME Basic, ErrorGet
  PROVE  Basic'
<1> DEFINE x == "loop"
           q == [proc[x] EXCEPT !.pc = "eput", !.copy = camp]
<1>0. x \in Procs /\ (\A y \in Callers : y \in Procs /\ y # x)
  BY Constants
<1>1. /\ proc[x].pc = "eget"
      /\ UNCHANGED <<camp, sess, wonder, knowledge, guard, lock, up, faults, crashes, deletes>>
  BY DEF ErrorGet, At
<1>2. q \in Process /\ q.pc = "eput" /\ q.op = proc[x].op /\ q.copy = camp /\ q.got = proc[x].got
  BY <1>0, Facts DEF Process, Failing
<1>3. Turned(x, q)
  <2>1. proc' = [proc EXCEPT ![x] = q]
    BY <1>0, Facts DEF ErrorGet, Types, Process
  <2> QED BY <1>0, <1>2, <2>1, Facts, Turning
<1>4. q.pc \notin Locked /\ proc[x].pc \notin Locked
  BY <1>1, <1>2 DEF Locked, Reading
<1>5. Place(q, sess', knowledge')
  BY <1>0, <1>1, <1>2, Facts DEF Place, Final, Current
<1>6. Alone'
  BY <1>0, <1>1, <1>2, <1>3 DEF Basic, Alone, Turned, Procs
<1> HIDE DEF q
<1> QED BY <1>0, <1>1, <1>2, <1>3, <1>4, <1>5, <1>6, Facts, OtherBasic DEF Basic, Types

LEMMA ErrorPutDoes ==
  ASSUME Basic, ErrorPut
  PROVE  LET p == proc["loop"] c == [p.copy EXCEPT !.fails = OneMore(@)] IN
         /\ p.pc = "eput" /\ c \in Campaign
         /\ UNCHANGED <<sess, wonder, knowledge, guard, lock, up, faults, crashes, deletes>>
         /\ \/ Storable(p.copy) /\ camp' = c /\ Turned("loop", NoProc)
            \/ ~Storable(p.copy) /\ camp' = camp /\ Turned("loop", [NoProc EXCEPT !.pc = "dead"])
<1> DEFINE p == proc["loop"]
           c == [p.copy EXCEPT !.fails = OneMore(@)]
<1>1. p.copy \in Campaign /\ p.copy.fails \in Nat /\ Types
  BY Constants, Facts, Typed
<1>2. OneMore(p.copy.fails) \in Nat
  BY <1>1 DEF OneMore
<1>3. c \in Campaign
  BY <1>1, <1>2, Rewriting, Constants
<1>4. Storable(c) <=> Storable(p.copy)
  BY <1>1 DEF Storable, Campaign
<1>5. NoProc \in Process /\ [NoProc EXCEPT !.pc = "dead"] \in Process
  BY Constants DEF Process, Failing
<1>6. CASE Storable(c)
  BY <1>1, <1>3, <1>4, <1>5, <1>6, Constants, Turning DEF ErrorPut, At
<1>7. CASE ~Storable(c)
  BY <1>1, <1>3, <1>4, <1>5, <1>7, Constants, Turning DEF ErrorPut, At
<1> QED BY <1>6, <1>7

LEMMA ErrorPutBasic ==
  ASSUME Basic, ErrorPut
  PROVE  Basic'
<1> DEFINE x == "loop"
           dead == [NoProc EXCEPT !.pc = "dead"]
           c == [proc[x].copy EXCEPT !.fails = OneMore(@)]
<1>0. x \in Procs /\ (\A y \in Callers : y \in Procs /\ y # x)
  BY Constants
<1>1. /\ proc[x].pc = "eput" /\ c \in Campaign
      /\ UNCHANGED <<sess, wonder, knowledge, guard, lock, up, faults, crashes, deletes>>
      /\ \/ Storable(proc[x].copy) /\ camp' = c /\ Turned(x, NoProc)
         \/ camp' = camp /\ Turned(x, dead)
  BY ErrorPutDoes
<1>2. \A q \in {NoProc, dead} : /\ q \in Process /\ q.pc \notin Locked /\ q.op = "tick"
                                /\ Place(q, sess', knowledge')
  BY Constants DEF NoProc, Locked, Reading, Process, Failing, Place, NewCampaign, None, Final
<1>3. proc[x].pc \notin Locked /\ up /\ guard.pc = "idle"
  BY <1>1 DEF Basic, Alone, Locked, Reading
<1>4. Storable(proc[x].copy) => Current(c, sess)
  BY <1>0, <1>1, Facts DEF Storable, Place, Current, Campaign
<1>5. Alone'
  BY <1>0, <1>1, <1>2, <1>3 DEF Basic, Alone, Turned, Procs
<1> HIDE DEF dead, c
<1> QED BY <1>0, <1>1, <1>2, <1>3, <1>4, <1>5, Facts, OtherBasic DEF Basic, Types

LEMMA GuardTypes ==
  ASSUME Basic
  PROVE  /\ guard \in [pc : {"idle", "wonders", "put"}, copy : Campaign, wonder : [Cycles -> Wonders]]
         /\ guard.copy \in Campaign /\ guard.wonder \in [Cycles -> Wonders]
         /\ guard.copy.cur \in Cycles \cup {None} /\ Copied(guard, sess, knowledge)
         /\ NoGuard \in [pc : {"idle", "wonders", "put"}, copy : Campaign, wonder : [Cycles -> Wonders]]
         /\ Copied(NoGuard, sess, knowledge) /\ NoGuard.pc = "idle"
<1>1. NoGuard \in [pc : {"idle", "wonders", "put"}, copy : Campaign, wonder : [Cycles -> Wonders]]
  BY Constants DEF NoGuard, Wonders
<1>2. Copied(NoGuard, sess, knowledge) /\ NoGuard.pc = "idle"
  BY DEF Copied, NoGuard, NewCampaign, None
<1> QED BY <1>1, <1>2 DEF Basic, Types, Rows, Campaign

(* A step of start() that leaves the processes alone.                      *)
LEMMA GuardBasic ==
  ASSUME Basic, proc["loop"].pc = "dead",
         guard' \in [pc : {"idle", "wonders", "put"}, copy : Campaign, wonder : [Cycles -> Wonders]],
         Copied(guard', sess, knowledge), wonder' \in [Cycles -> Wonders],
         Produced(sess, wonder', knowledge),
         ~up => /\ guard'.pc = "put" => guard'.copy = camp
                /\ guard'.pc = "wonders" => \A i \in Cycles : guard'.wonder[i] \in {"none", wonder'[i]},
         UNCHANGED <<camp, sess, knowledge, proc, lock, up, faults, crashes, deletes>>
  PROVE  Basic'
<1>1. Types'
  BY DEF Basic, Types
<1>2. Exclusive' /\ Placed'
  BY DEF Basic, Exclusive, Placed
<1>3. Alone'
  BY DEF Basic, Alone
<1>4. Rows'
  BY DEF Basic, Rows
<1> QED BY <1>1, <1>2, <1>3, <1>4 DEF Basic

(* The worker begins afresh, with the row that is stored then.             *)
LEMMA StartWorkerBasic ==
  ASSUME Basic, proc["loop"].pc = "dead", StartWorker, guard'.pc = "idle", guard' \in {guard, NoGuard},
         camp' \in Campaign, Current(camp', sess),
         UNCHANGED <<sess, wonder, knowledge, lock, faults, crashes, deletes>>
  PROVE  Basic' /\ Turned("loop", NoProc)
<1>0. "loop" \in Procs /\ (\A y \in Callers : y \in Procs /\ y # "loop") /\ NoProc \in Process
  BY Constants
<1>1. Turned("loop", NoProc)
  BY <1>0, Turning DEF StartWorker, Basic
<1>2. NoProc.pc = "idle" /\ NoProc.op = "tick" /\ "idle" \notin Locked \cup Failing
      /\ Place(NoProc, sess', knowledge') /\ "dead" \notin Locked
  BY <1>0, NoPlace DEF NoProc, Locked, Reading, Failing
<1>3. Alone'
  BY <1>0, <1>1, <1>2 DEF Basic, Alone, Turned, StartWorker
<1> QED BY <1>0, <1>1, <1>2, <1>3, OtherBasic DEF Basic, Types, StartWorker

LEMMA StartGetBasic ==
  ASSUME Basic, StartGet
  PROVE  Basic'
<1>1. guard.pc = "idle" /\ proc["loop"].pc = "dead"
      /\ UNCHANGED <<camp, sess, wonder, knowledge, lock, faults, crashes, deletes>>
  BY DEF StartGet, At
<1>2. CASE \E i \in Cycles : knowledge[i] # "none"
  <2> DEFINE w == [i \in Cycles |-> IF i \in Generated THEN wonder[i] ELSE "none"]
  <2>1. guard' = [guard EXCEPT !.pc = "wonders", !.wonder = w] /\ UNCHANGED <<proc, up>>
    BY <1>2 DEF StartGet
  <2>2. w \in [Cycles -> Wonders]
    BY DEF Basic, Types, Wonders
  <2>3. /\ guard' \in [pc : {"idle", "wonders", "put"}, copy : Campaign, wonder : [Cycles -> Wonders]]
        /\ guard'.wonder = w /\ guard'.pc = "wonders" /\ guard'.copy = guard.copy
    BY <2>1, <2>2, GuardTypes
  <2>4. Copied(guard', sess, knowledge)
    BY <2>3, GuardTypes DEF Basic, Rows, Copied, Produced
  <2> QED BY <1>1, <2>1, <2>3, <2>4, GuardBasic DEF Basic, Types, Rows
<1>3. CASE ~(\E i \in Cycles : knowledge[i] # "none")
  BY <1>1, <1>3, StartWorkerBasic DEF StartGet, Basic, Types, Rows
<1> QED BY <1>2, <1>3

LEMMA StartWondersBasic ==
  ASSUME Basic, StartWonders
  PROVE  Basic'
<1> DEFINE copied == {i \in Cycles : guard.wonder[i] # "none"}
<1>1. guard.pc = "wonders" /\ proc["loop"].pc = "dead"
      /\ UNCHANGED <<camp, sess, knowledge, proc, lock, up, faults, crashes, deletes>>
  BY DEF StartWonders, Basic, Alone
<1>2. CASE \E i \in copied : sess[i] = "deleted"
  BY <1>1, <1>2, GuardTypes, GuardBasic DEF StartWonders, Basic, Types, Rows
<1>3. CASE ~(\E i \in copied : sess[i] = "deleted")
  <2>1. /\ guard' = [NoGuard EXCEPT !.pc = "put", !.copy = camp]
        /\ wonder' = [i \in Cycles |-> IF i \in copied THEN guard.wonder[i] ELSE wonder[i]]
    BY <1>3 DEF StartWonders
  <2>2. wonder \in [Cycles -> Wonders] /\ camp \in Campaign
    BY DEF Basic, Types
  <2>3. wonder' \in [Cycles -> Wonders]
    BY <2>1, <2>2, GuardTypes
  <2>4. Produced(sess, wonder', knowledge)
    BY <1>3, <2>1, GuardTypes DEF Basic, Rows, Copied, Produced
  <2>5. /\ guard' \in [pc : {"idle", "wonders", "put"}, copy : Campaign, wonder : [Cycles -> Wonders]]
        /\ guard'.wonder = NoGuard.wonder /\ guard'.pc = "put" /\ guard'.copy = camp
    BY <2>1, <2>2, GuardTypes
  <2>6. Copied(guard', sess, knowledge)
    BY <2>5, GuardTypes DEF Basic, Rows, Copied, Current
  <2> QED BY <1>1, <2>3, <2>4, <2>5, <2>6, GuardBasic
<1> QED BY <1>2, <1>3

LEMMA StartPutBasic ==
  ASSUME Basic, StartPut
  PROVE  Basic'
<1>1. guard.pc = "put" /\ proc["loop"].pc = "dead" /\ guard' = NoGuard
      /\ UNCHANGED <<sess, wonder, knowledge, lock, faults, crashes, deletes>>
  BY DEF StartPut, Basic, Alone
<1>2. CASE Storable(guard.copy)
  <2>1. Current(guard.copy, sess)
    BY <1>2, GuardTypes DEF Storable, Copied, Current
  <2>2. camp' = guard.copy /\ StartWorker
    BY <1>2 DEF StartPut
  <2> QED BY <1>1, <2>1, <2>2, GuardTypes, StartWorkerBasic
<1>3. CASE ~Storable(guard.copy)
  BY <1>1, <1>3, GuardTypes, GuardBasic DEF StartPut, Basic, Types, Rows
<1> QED BY <1>2, <1>3

(* A step of the rows alone.                                               *)
LEMMA RowsBasic ==
  ASSUME Basic, Onward, camp' \in Campaign, Current(camp', sess'), Produced(sess', wonder', knowledge'),
         knowledge' = knowledge, deletes' \in Nat,
         ~up => camp' = camp /\ \A i \in Cycles : guard.wonder[i] # "none" => wonder'[i] = wonder[i],
         UNCHANGED <<proc, guard, lock, up, faults, crashes>>
  PROVE  Basic'
<1>1. Types'
  BY DEF Basic, Types, Onward
<1>2. Exclusive'
  BY DEF Basic, Exclusive
<1>3. Alone'
  BY DEF Basic, Alone
<1>4. Placed'
  BY PlaceStays DEF Placed
<1>5. Rows'
  BY CopiedStays DEF Rows, Onward
<1> QED BY <1>1, <1>2, <1>3, <1>4, <1>5 DEF Basic

LEMMA SettleBasic ==
  ASSUME Basic, NEW i \in Cycles, Settle(i)
  PROVE  Basic'
<1>1. PICK status \in Settled : End(i, status)
  BY DEF Settle
<1>2. sess[i] = "open" /\ UNCHANGED <<camp, knowledge, proc, guard, lock, up, faults, crashes, deletes>>
  BY DEF Settle
<1>3. /\ Onward /\ Produced(sess', wonder', knowledge') /\ Current(camp', sess')
      /\ \A j \in Cycles \ {i} : wonder'[j] = wonder[j]
  BY <1>1, <1>2, EndingOnward DEF Basic, Types, Rows
<1>4. guard.wonder[i] = "none"
  BY <1>2, GuardTypes DEF Copied, Settled
<1> QED BY <1>2, <1>3, <1>4, RowsBasic DEF Basic, Types

LEMMA DeletingOnward ==
  ASSUME Basic, NEW i \in Cycles, Delete(i)
  PROVE  /\ Onward /\ Produced(sess', wonder', knowledge')
         /\ camp' \in Campaign /\ Current(camp', sess')
         /\ camp.cur = i => camp' = [camp EXCEPT !.cur = None]
         /\ camp.cur # i => camp' = camp
<1>1. /\ sess \in [Cycles -> {"none", "open", "ended", "failed", "deleted"}]
      /\ wonder \in [Cycles -> Wonders] /\ knowledge \in [Cycles -> {"none", "item", "linked"}]
      /\ Produced(sess, wonder, knowledge) /\ IsFiniteSet(Started(sess))
      /\ camp \in Campaign /\ Current(camp, sess)
  BY DEF Basic, Types, Rows
<1>2. /\ sess[i] \in {"ended", "failed", "open"} /\ sess' = [sess EXCEPT ![i] = "deleted"]
      /\ wonder' = [wonder EXCEPT ![i] = "none"] /\ knowledge' = knowledge
  BY DEF Delete, Settled
<1>3. Started(sess') = Started(sess)
  BY <1>1, <1>2 DEF Started
<1>4. wonder' \in [Cycles -> Wonders]
  BY <1>1, <1>2 DEF Wonders
<1>5. Onward
  BY <1>1, <1>2, <1>3, <1>4 DEF Onward, Settled
<1>6. Produced(sess', wonder', knowledge')
  BY <1>1, <1>2 DEF Produced, Settled
<1>7. camp' \in Campaign /\ Current(camp', sess')
  BY <1>1, <1>2, Rewriting DEF Delete, Current, Campaign
<1> QED BY <1>5, <1>6, <1>7 DEF Delete

LEMMA DeleteBasic ==
  ASSUME Basic, NEW i \in Cycles, Delete(i)
  PROVE  Basic'
<1>1. up /\ knowledge' = knowledge /\ deletes' = deletes + 1
      /\ UNCHANGED <<proc, guard, lock, up, faults, crashes>>
  BY DEF Delete
<1>2. deletes' \in Nat
  BY <1>1 DEF Basic, Types
<1> QED BY <1>1, <1>2, DeletingOnward, RowsBasic

Dead == [NoProc EXCEPT !.pc = "dead"]

LEMMA FaultDoes ==
  ASSUME Basic, NEW x \in Procs, Fault(x)
  PROVE  /\ UNCHANGED <<camp, sess, wonder, knowledge, guard, up, crashes, deletes>>
         /\ faults' = faults + 1 /\ faults' \in Nat
         /\ \/ proc[x].pc \in Locked /\ Fails(x)
            \/ x = "loop" /\ proc[x].pc \in {"eget", "eput"} /\ Turned("loop", Dead) /\ lock' = lock
<1>1. proc[x].pc \in Locked \cup {"eget", "eput"}
  BY Facts DEF Fault, Process, Failing
<1>2. faults' = faults + 1 /\ faults' \in Nat /\ Types
  BY DEF Fault, Basic, Types
<1>3. CASE proc[x].pc \in {"eget", "eput"}
  <2>1. x = "loop"
    BY <1>3 DEF Basic, Alone, Procs, Failing
  <2>2. Dead \in Process
    BY Constants DEF Process, Failing, Dead
  <2> QED BY <1>2, <1>3, <2>1, <2>2, Turning DEF Fault, Dead
<1>4. CASE proc[x].pc \notin {"eget", "eput"}
  BY <1>1, <1>2, <1>4, Ending DEF Fault
<1> QED BY <1>2, <1>3, <1>4 DEF Fault

LEMMA FaultBasic ==
  ASSUME Basic, NEW x \in Procs, Fault(x)
  PROVE  Basic'
<1>1. CASE proc[x].pc \in Locked /\ Fails(x)
  BY <1>1, FaultDoes, Facts, Still, NoPlace, HeldBasic DEF Fails
<1>2. CASE x = "loop" /\ proc[x].pc \in {"eget", "eput"} /\ Turned("loop", Dead) /\ lock' = lock
  <2>1. /\ Dead \in Process /\ Dead.pc \notin Locked /\ Dead.op = "tick"
        /\ Place(Dead, sess', knowledge') /\ proc[x].pc \notin Locked
    BY <1>2, Constants DEF Dead, NoProc, Locked, Reading, Process, Failing, Place, NewCampaign, None, Final
  <2>2. up /\ guard.pc = "idle" /\ (\A y \in Callers : y \in Procs /\ y # "loop")
    BY <1>2, Constants DEF Basic, Alone
  <2>3. Alone'
    BY <1>2, <2>1, <2>2, FaultDoes DEF Basic, Alone, Turned
  <2> QED BY <1>2, <2>1, <2>3, FaultDoes, Facts, OtherBasic DEF Basic, Types
<1> QED BY <1>1, <1>2, FaultDoes

LEMMA CrashBasic ==
  ASSUME Basic, Crash
  PROVE  Basic'
<1>1. /\ \A x \in Procs : proc'[x] = IF x = "loop" THEN Dead ELSE NoProc
      /\ Dead \in Process /\ NoProc \in Process /\ proc' \in [Procs -> Process]
  <2>1. Dead \in Process /\ NoProc \in Process
    BY Constants DEF Process, Failing, Dead
  <2> QED BY <2>1 DEF Crash, Dead
<1>2. \A q \in {Dead, NoProc} : /\ q.pc \notin Locked /\ q.op = "tick"
                                /\ Place(q, sess, knowledge)
  BY DEF Dead, NoProc, Locked, Reading, Place, NewCampaign, None, Final
<1>3. /\ guard' = NoGuard /\ lock' = "free" /\ up' = FALSE /\ crashes' = crashes + 1
      /\ UNCHANGED <<camp, sess, wonder, knowledge, faults, deletes>>
  BY DEF Crash
<1>4. Types'
  <2>0. crashes \in Nat
    BY DEF Basic, Types
  <2>1. crashes' \in Nat
    BY <1>3, <2>0
  <2>3. lock' \in Procs \cup {"free"}
    BY <1>3
  <2>4. up' \in BOOLEAN
    BY <1>3
  <2>2. /\ camp' \in Campaign /\ sess' \in [Cycles -> {"none", "open", "ended", "failed", "deleted"}]
        /\ wonder' \in [Cycles -> Wonders] /\ knowledge' \in [Cycles -> {"none", "item", "linked"}]
        /\ faults' \in Nat /\ deletes' \in Nat
    BY <1>3 DEF Basic, Types
  <2> QED BY <1>1, <1>3, <2>1, <2>2, <2>3, <2>4, GuardTypes DEF Types
<1>5. Exclusive' /\ Placed'
  BY <1>1, <1>2, <1>3 DEF Exclusive, Placed
<1>6. Alone'
  <2>1. \A y \in Callers : y \in Procs /\ y # "loop"
    BY Constants
  <2>2. Dead.pc = "dead" /\ NoProc.pc = "idle" /\ "idle" \notin Failing
    BY DEF Dead, NoProc, Failing
  <2> QED BY <1>1, <1>2, <1>3, <2>1, <2>2, Constants, GuardTypes DEF Alone
<1>7. Rows'
  BY <1>3, GuardTypes DEF Basic, Rows
<1> QED BY <1>4, <1>5, <1>6, <1>7 DEF Basic

LEMMA InitBasic ==
  ASSUME Init
  PROVE  Basic
<1>1. /\ \A x \in Procs : proc[x] = IF x = "loop" THEN Dead ELSE NoProc
      /\ Dead \in Process /\ NoProc \in Process /\ proc \in [Procs -> Process]
  <2>1. Dead \in Process /\ NoProc \in Process
    BY Constants DEF Process, Failing, Dead
  <2> QED BY <2>1 DEF Init, Dead
<1>2. /\ camp = NewCampaign /\ camp \in Campaign /\ camp.cur = None
      /\ \A i \in Cycles : sess[i] = "none" /\ wonder[i] = "none" /\ knowledge[i] = "none"
      /\ sess \in [Cycles -> {"none", "open", "ended", "failed", "deleted"}]
      /\ wonder \in [Cycles -> Wonders] /\ knowledge \in [Cycles -> {"none", "item", "linked"}]
      /\ lock = "free" /\ up = FALSE /\ faults = 0 /\ crashes = 0 /\ deletes = 0
      /\ guard = NoGuard
  BY Constants DEF Init, Wonders, NewCampaign
<1>3. \A q \in {Dead, NoProc} : /\ q.pc \notin Locked /\ q.op = "tick"
                                /\ Place(q, sess, knowledge)
  BY DEF Dead, NoProc, Locked, Reading, Place, NewCampaign, None, Final
<1>4. /\ guard \in [pc : {"idle", "wonders", "put"}, copy : Campaign, wonder : [Cycles -> Wonders]]
      /\ guard.pc = "idle" /\ Copied(guard, sess, knowledge)
  BY <1>2, Constants DEF NoGuard, Wonders, Copied, NewCampaign, None
<1>5. Types
  BY <1>1, <1>2, <1>4 DEF Types
<1>6. Exclusive /\ Placed
  BY <1>1, <1>3 DEF Exclusive, Placed
<1>7. Alone
  <2>1. \A y \in Callers : y \in Procs /\ y # "loop"
    BY Constants
  <2>2. Dead.pc = "dead" /\ NoProc.pc = "idle" /\ "idle" \notin Failing
    BY DEF Dead, NoProc, Failing
  <2> QED BY <1>1, <1>3, <1>4, <2>1, <2>2, Constants DEF Alone
<1>8. Rows
  <2>1. Started(sess) = {}
    BY <1>2 DEF Started
  <2>2. IsFiniteSet(Started(sess))
    BY <2>1, FS_EmptySet
  <2> QED BY <1>2, <1>4, <2>2 DEF Rows, Current, Produced
<1> QED BY <1>5, <1>6, <1>7, <1>8 DEF Basic

LEMMA BasicStays ==
  ASSUME Basic, [Next]_vars
  PROVE  Basic'
<1>1. ASSUME NEW x \in Procs, Step(x) PROVE Basic'
  <2>1. UNCHANGED Surroundings
    BY <1>1 DEF Step, Surroundings
  <2> QED BY <1>1, <2>1, AcquireBasic, TickGetBasic, ControlGetBasic, ControlSaveBasic,
             ControlStopBasic, SessionGetBasic, MissingBasic, TooLittleBasic, StartSaveBasic,
             StartCycleBasic, PromoteNothingBasic, IncubateBasic, IngestBasic, LinkBasic,
             WonderSaveBasic, FinalSaveBasic DEF Step
<1>2. ASSUME NEW x \in Procs, Later(x) PROVE Basic'
  BY <1>2, NotDueBasic DEF Later, Surroundings
<1>3. ASSUME UNCHANGED vars PROVE Basic'
  BY <1>3 DEF vars, Basic, Types, Exclusive, Alone, Placed, Rows
<1> QED BY <1>1, <1>2, <1>3, BeginBasic, FaultBasic, ErrorGetBasic, ErrorPutBasic, StartGetBasic,
           StartWondersBasic, StartPutBasic, SettleBasic, DeleteBasic, CrashBasic DEF Next

(* Every state has its types; the lock excludes; no process acts on what it*)
(* cannot know; the rows of sessions, wonders and knowledge agree.         *)
THEOREM BasicAlways == Spec => []Basic
<1> QED BY InitBasic, BasicStays, PTL DEF Spec

(* No wonder is marked as promoted before its knowledge has its edges, at  *)
(* any number of crashes, faults, deletions and promotions done again.     *)
THEOREM PromotionsLinked == Spec => []PromotedIsLinked
<1>1. Basic => PromotedIsLinked
  BY DEF Basic, Rows, Produced, PromotedIsLinked
<1> QED BY <1>1, BasicAlways, PTL

-----------------------------------------------------------------------------
(* What the holder of the lock has read is what is stored.                 *)

(* Rows that say the same, but for the status and the failures.            *)
Same(c, d) == c.cur = d.cur /\ c.started = d.started /\ c.completed = d.completed
              /\ c.promoted = d.promoted

(* The next failure overflows the back-off.                                *)
Tired(c) == c.fails + 1 >= OverflowAt

(* A failed cycle that cannot be finalized: the back-off overflows.        *)
Stuck ==
    /\ camp.cur # None /\ sess[camp.cur] = "failed" /\ Tired(camp)
    /\ \A x \in Procs : proc[x].pc \in Reading \cup {"eput"} =>
          Same(proc[x].copy, camp) /\ Tired(proc[x].copy)

(* What p has read, c says: only p has changed its copy since.             *)
Fresh(p, c, s) ==
    p.pc \in Reading /\ (p.copy.cur = None \/ s[p.copy.cur] # "deleted") =>
        /\ p.pc = "ssave" => c.cur = None /\ c.status = "active"
                             /\ p.copy = [c EXCEPT !.cur = p.copy.cur, !.started = @ + 1]
        /\ p.pc = "csave" => p.copy = [c EXCEPT !.status = Chosen(p.op, c.status)]
        /\ p.pc \notin {"ssave", "csave"} =>
              p.copy = c /\ c.status = IF p.op = "pause" THEN "paused" ELSE "active"

Unfailed == faults = 0 /\ deletes = 0

Whole == deletes = 0 => \A i \in Cycles : sess[i] # "deleted"

Smooth == (\A x \in Procs : Fresh(proc[x], camp, sess)) /\ proc["loop"].pc \notin {"eget", "eput"}

(* The worker's copy is always fresh, unless its session is gone; while    *)
(* nothing has failed everybody's is, unless the campaign is stuck.        *)
Calm ==
    /\ Whole
    /\ Fresh(proc["loop"], camp, sess)
    /\ Unfailed => (proc["loop"].pc = "dead" => ~up) /\ (Stuck \/ Smooth)

(* A step on which the campaign remains stuck, if it is.                   *)
Keeps == Stuck => Stuck'
Remains == Unfailed' /\ Stuck => Stuck'

(* A step of the holder of the lock.                                       *)
LEMMA HeldCalm ==
  ASSUME Basic, Calm, NEW x \in Procs, proc[x].pc \in Locked, NEW q, Turned(x, q),
         q.pc \notin {"eput", "dead"},
         x = "loop" \/ (Unfailed /\ ~Stuck) => Fresh(q, camp', sess'),
         Unfailed /\ q.pc = "eget" => Stuck',
         Stuck => /\ Same(camp', camp) /\ Tired(camp') /\ sess'[camp.cur] = "failed"
                  /\ q.pc \in Reading => Same(q.copy, camp) /\ Tired(q.copy),
         \A i \in Cycles : sess'[i] = "deleted" => sess[i] = "deleted",
         UNCHANGED <<up, faults, deletes>>
  PROVE  Calm' /\ Keeps
<1>1. \A y \in Procs \ {x} : proc[y].pc \notin Reading
  BY DEF Basic, Exclusive, Locked
<1>2. Whole'
  BY DEF Calm, Whole
<1>3. \A y \in Procs \ {x} : Fresh(proc'[y], camp', sess')
  BY <1>1 DEF Fresh, Turned
<1>4. Fresh(proc'["loop"], camp', sess')
  BY <1>3, Constants DEF Turned
<1>5. Keeps
  <2> SUFFICES ASSUME Stuck PROVE Stuck'
    BY DEF Keeps
  <2>0. /\ Same(camp', camp) /\ Tired(camp') /\ sess'[camp.cur] = "failed"
        /\ q.pc \in Reading => Same(q.copy, camp) /\ Tired(q.copy)
    OBVIOUS
  <2>1. ASSUME NEW y \in Procs, proc'[y].pc \in Reading \cup {"eput"}
        PROVE  Same(proc'[y].copy, camp) /\ Tired(proc'[y].copy)
    <3>1. CASE y = x
      BY <2>0, <2>1, <3>1 DEF Turned
    <3>2. CASE y # x
      BY <2>1, <3>2 DEF Stuck, Turned
    <3> QED BY <3>1, <3>2
  <2>2. camp'.cur # None /\ sess'[camp'.cur] = "failed" /\ Tired(camp')
    BY <2>0 DEF Stuck, Same
  <2>3. \A y \in Procs : proc'[y].pc \in Reading \cup {"eput"} =>
           Same(proc'[y].copy, camp') /\ Tired(proc'[y].copy)
    BY <2>0, <2>1 DEF Same
  <2> QED BY <2>2, <2>3 DEF Stuck
<1>6. ASSUME Unfailed PROVE (proc'["loop"].pc = "dead" => ~up') /\ (Stuck' \/ Smooth')
  <2>1. proc'["loop"].pc = "dead" => ~up'
    BY <1>6, Constants DEF Calm, Turned
  <2>2. ASSUME ~Stuck PROVE Stuck' \/ Smooth'
    <3>1. Smooth
      BY <1>6, <2>2 DEF Calm
    <3>2. \A y \in Procs : Fresh(proc'[y], camp', sess')
      BY <1>3, <1>6, <2>2 DEF Turned
    <3>3. proc'["loop"].pc \notin {"eget", "eput"} \/ Stuck'
      BY <1>6, <3>1, Constants DEF Smooth, Turned
    <3> QED BY <3>2, <3>3 DEF Smooth
  <2> QED BY <1>5, <2>1, <2>2 DEF Keeps
<1>7. Unfailed' => Unfailed
  BY DEF Unfailed
<1> QED BY <1>2, <1>4, <1>5, <1>6, <1>7 DEF Calm

LEMMA NotReading ==
  ASSUME NEW x \in Procs, NEW q \in {NoProc, Failed(x)}, NEW c, NEW s
  PROVE  /\ q.pc \notin Reading \cup {"eput", "dead"} /\ Fresh(q, c, s)
         /\ NoProc.pc = "idle"
  BY DEF NoProc, Failed, Reading, Fresh

LEMMA LeavesCalm ==
  ASSUME Basic, Calm, NEW x \in Procs, proc[x].pc \in Locked, Leaves(x) \/ (Fails(x) /\ (Unfailed => Stuck')),
         Stuck => Same(camp', camp) /\ Tired(camp') /\ sess'[camp.cur] = "failed",
         \A i \in Cycles : sess'[i] = "deleted" => sess[i] = "deleted",
         UNCHANGED Surroundings
  PROVE  Calm' /\ Keeps
<1>1. CASE Leaves(x)
  BY <1>1, HeldCalm, NotReading DEF Leaves, Surroundings
<1>2. CASE Fails(x) /\ (Unfailed => Stuck')
  BY <1>2, HeldCalm, NotReading DEF Fails, Surroundings
<1> QED BY <1>1, <1>2

LEMMA GoesCalm ==
  ASSUME Basic, Calm, NEW x \in Procs, proc[x].pc \in Locked, NEW q, Goes(x, q),
         x = "loop" \/ (Unfailed /\ ~Stuck) => Fresh(q, camp', sess'),
         Stuck => /\ Same(camp', camp) /\ Tired(camp') /\ sess'[camp.cur] = "failed"
                  /\ q.pc \in Reading => Same(q.copy, camp) /\ Tired(q.copy),
         \A i \in Cycles : sess'[i] = "deleted" => sess[i] = "deleted",
         UNCHANGED Surroundings
  PROVE  Calm' /\ Keeps
<1>1. q.pc \notin {"eget", "eput", "dead"}
  BY DEF Goes, Locked, Reading
<1> QED BY <1>1, HeldCalm DEF Goes, Surroundings

(* What the holder of the lock may rely on.                                *)
LEMMA CalmFacts ==
  ASSUME Basic, Calm, NEW x \in Procs
  PROVE  /\ x = "loop" \/ (Unfailed /\ ~Stuck) => Fresh(proc[x], camp, sess)
         /\ Stuck /\ proc[x].pc \in Reading =>
               Same(proc[x].copy, camp) /\ Tired(proc[x].copy)
         /\ Stuck => Same(camp, camp) /\ Tired(camp) /\ sess[camp.cur] = "failed" /\ camp.cur # None
         /\ Unfailed => \A c \in Campaign : Storable(c)
<1>1. ASSUME Unfailed, NEW c \in Campaign PROVE Storable(c)
  BY <1>1 DEF Calm, Whole, Unfailed, Storable, Campaign
<1> QED BY <1>1 DEF Calm, Smooth, Stuck, Same

(* One lemma for each action.                                              *)
LEMMA TickGetCalm ==
  ASSUME Basic, Calm, NEW x \in Procs, TickGet(x), UNCHANGED Surroundings
  PROVE  Calm' /\ Keeps
<1> DEFINE q == [proc[x] EXCEPT !.pc = IF camp.cur = None THEN "plan" ELSE "sget", !.copy = camp]
<1>1. proc[x].pc = "get" /\ proc[x].op = "tick" /\ UNCHANGED <<camp, sess, wonder, knowledge>>
      /\ proc[x].pc \in Locked
  BY DEF TickGet, At, Locked
<1>2. q.pc \in {"plan", "sget"} /\ q.copy = camp /\ q.op = "tick"
  BY <1>1, Facts DEF Process
<1>3. camp.status = "active" => Fresh(q, camp', sess')
  BY <1>1, <1>2 DEF Fresh
<1> HIDE DEF q
<1>4. (camp.status = "active" /\ Goes(x, q)) \/ Leaves(x)
  BY Facts, TickGetDoes DEF q
<1> QED BY <1>1, <1>2, <1>3, <1>4, CalmFacts, GoesCalm, LeavesCalm

LEMMA ControlGetCalm ==
  ASSUME Basic, Calm, NEW x \in Procs, ControlGet(x), UNCHANGED Surroundings
  PROVE  Calm' /\ Keeps
<1> DEFINE q == [proc[x] EXCEPT !.pc = "csave",
                     !.copy = [camp EXCEPT !.status = Chosen(proc[x].op, camp.status)]]
<1>1. proc[x].pc = "get" /\ UNCHANGED <<camp, sess, wonder, knowledge>> /\ proc[x].pc \in Locked
  BY DEF ControlGet, At, Locked
<1>2. q.pc = "csave" /\ q.copy = [camp EXCEPT !.status = Chosen(proc[x].op, camp.status)] /\ q.op = proc[x].op
  BY Facts DEF Process
<1>3. Fresh(q, camp', sess') /\ Same(q.copy, camp) /\ (Tired(camp) => Tired(q.copy))
  BY <1>1, <1>2, Facts DEF Fresh, Same, Tired, Campaign
<1> HIDE DEF q
<1>4. Goes(x, q)
  BY Facts, ControlGetDoes DEF q
<1> QED BY <1>1, <1>2, <1>3, <1>4, CalmFacts, GoesCalm

LEMMA ControlSaveCalm ==
  ASSUME Basic, Calm, NEW x \in Procs, ControlSave(x), UNCHANGED Surroundings
  PROVE  Calm' /\ Keeps
<1> DEFINE p == proc[x]
           q1 == [p EXCEPT !.pc = "get", !.op = "tick"]
           q2 == [p EXCEPT !.pc = "stop", !.found = "none"]
<1>1. p.pc = "csave" /\ UNCHANGED <<sess, wonder, knowledge>>
      /\ p.pc \in Locked \cap Reading
  BY DEF ControlSave, At, Locked, Reading
<1>2. q1.pc \notin Reading /\ Fresh(q1, camp', sess')
  BY <1>1, Facts DEF Reading, Fresh, Process
<1>3. q2.pc = "stop" /\ q2.copy = p.copy /\ q2.op = p.op
  BY Facts DEF Process
<1>4. camp' = p.copy /\ p.op = "pause" /\ Fresh(p, camp, sess) => Fresh(q2, camp', sess')
  <2>1. ASSUME p.copy = [camp EXCEPT !.status = Chosen("pause", camp.status)]
        PROVE  p.copy.status = "paused"
    BY <2>1, Facts DEF Chosen, Campaign
  <2> QED BY <1>1, <1>3, <2>1 DEF Fresh, Reading
<1> HIDE DEF q1, q2
<1>5. CASE camp' = p.copy /\ p.op = "resume" /\ Goes(x, q1)
  BY <1>1, <1>2, <1>5, CalmFacts, GoesCalm DEF Same
<1>6. CASE camp' = p.copy /\ p.op = "pause" /\ Goes(x, q2)
  BY <1>1, <1>3, <1>4, <1>6, CalmFacts, GoesCalm DEF Same
<1>7. CASE camp' = p.copy /\ Leaves(x)
  BY <1>1, <1>7, CalmFacts, LeavesCalm DEF Same
<1>8. CASE ~Storable(p.copy) /\ camp' = camp /\ Fails(x)
  BY <1>1, <1>8, Facts, CalmFacts, LeavesCalm
<1> QED BY <1>5, <1>6, <1>7, <1>8, Facts, ControlSaveDoes DEF q1, q2

LEMMA ControlStopCalm ==
  ASSUME Basic, Calm, NEW x \in Procs, ControlStop(x), UNCHANGED Surroundings
  PROVE  Calm' /\ Keeps
<1> DEFINE p == proc[x]
           q == [p EXCEPT !.pc = "sget", !.found = "none"]
<1>1. /\ p.pc = "stop" /\ UNCHANGED <<camp, knowledge>> /\ p.copy.cur \in Cycles
      /\ p.pc \in Locked \cap Reading
  BY Facts DEF ControlStop, At, Locked, Reading, Place
<1>2. q.pc = "sget" /\ q.copy = p.copy /\ q.op = p.op
  BY Facts DEF Process
<1>3. /\ \A i \in Cycles : sess'[i] = "deleted" => sess[i] = "deleted"
      /\ \A i \in Cycles : sess[i] \in Settled \cup {"deleted"} => sess'[i] = sess[i]
  <2>1. CASE sess[p.copy.cur] = "open"
    BY <1>1, <2>1, EndingOnward DEF ControlStop, Settled
  <2>2. CASE sess[p.copy.cur] # "open"
    BY <1>1, <2>2 DEF ControlStop
  <2> QED BY <2>1, <2>2
<1>4. Fresh(p, camp, sess) => Fresh(q, camp', sess')
  BY <1>1, <1>2, <1>3 DEF Fresh, Settled
<1>5. camp.cur # None /\ sess[camp.cur] = "failed" => sess'[camp.cur] = "failed"
  BY <1>3, Facts DEF Settled
<1> HIDE DEF q
<1>6. Goes(x, q)
  BY Facts, ControlStopDoes DEF q
<1> QED BY <1>1, <1>2, <1>3, <1>4, <1>5, <1>6, CalmFacts, GoesCalm

LEMMA SessionGetCalm ==
  ASSUME Basic, Calm, NEW x \in Procs, SessionGet(x), UNCHANGED Surroundings
  PROVE  Calm' /\ Keeps
<1> DEFINE p == proc[x]
           i == p.copy.cur
           q1 == [p EXCEPT !.pc = "missing", !.found = "none"]
           q2 == [p EXCEPT !.pc = "promote", !.seen = sess[i], !.found = wonder[i]]
<1>1. /\ p.pc = "sget" /\ i \in Cycles
      /\ UNCHANGED <<camp, sess, wonder, knowledge>> /\ p.pc \in Locked \cap Reading
  BY Facts DEF SessionGet, At, Locked, Reading, Place
<1>2. q1.pc = "missing" /\ q1.copy = p.copy /\ q1.op = p.op
  BY Facts DEF Process
<1>3. q2.pc = "promote" /\ q2.copy = p.copy /\ q2.op = p.op
  BY Facts DEF Process
<1>4. Fresh(p, camp, sess) => Fresh(q1, camp', sess') /\ Fresh(q2, camp', sess')
  BY <1>1, <1>2, <1>3 DEF Fresh
<1> HIDE DEF q1, q2
<1>5. Goes(x, q1) \/ Goes(x, q2) \/ Leaves(x)
  BY <1>1, Facts, SessionGetDoes DEF q1, q2
<1> QED BY <1>1, <1>2, <1>3, <1>4, <1>5, CalmFacts, GoesCalm, LeavesCalm

LEMMA MissingCalm ==
  ASSUME Basic, Calm, NEW x \in Procs, Missing(x), UNCHANGED Surroundings
  PROVE  Calm' /\ Keeps
<1>1. /\ proc[x].pc = "missing" /\ UNCHANGED <<sess, wonder, knowledge>> /\ proc[x].pc \in Locked
      /\ proc[x].copy.cur \in Cycles /\ sess[proc[x].copy.cur] = "deleted"
  BY Facts DEF Missing, At, Locked, Reading, Place
<1>2. ~Unfailed
  BY <1>1 DEF Calm, Whole, Unfailed
<1>3. ~Stuck
  <2>1. proc[x].pc \in Reading
    BY DEF Missing, At, Reading
  <2> QED BY <1>1, <2>1, CalmFacts DEF Same
<1> QED BY <1>1, <1>2, <1>3, Facts, MissingDoes, LeavesCalm

LEMMA NotDueCalm ==
  ASSUME Basic, Calm, NEW x \in Procs, NotDue(x), UNCHANGED Surroundings
  PROVE  Calm' /\ Keeps
<1>1. UNCHANGED <<camp, sess, wonder, knowledge>> /\ proc[x].pc \in Locked
  BY DEF NotDue, At, Locked, Reading
<1> QED BY <1>1, Facts, Ending, CalmFacts, LeavesCalm DEF NotDue

LEMMA TooLittleCalm ==
  ASSUME Basic, Calm, NEW x \in Procs, TooLittle(x), UNCHANGED Surroundings
  PROVE  Calm' /\ Keeps
<1>1. /\ proc[x].copy.cur = None /\ UNCHANGED <<sess, wonder, knowledge>>
      /\ proc[x].pc \in Locked \cap Reading
  BY Facts DEF TooLittle, At, Locked, Reading, Place
<1>2. ~Stuck
  BY <1>1, CalmFacts DEF Same
<1> QED BY <1>1, <1>2, Facts, TooLittleDoes, LeavesCalm

LEMMA StartCycleCalm ==
  ASSUME Basic, Calm, NEW x \in Procs, NEW i \in Cycles, StartCycle(x, i), UNCHANGED Surroundings
  PROVE  Calm' /\ Keeps
<1> DEFINE p == proc[x]
           q == [p EXCEPT !.pc = "ssave", !.copy = [p.copy EXCEPT !.cur = i, !.started = @ + 1]]
<1>1. /\ p.pc = "plan" /\ p.op = "tick" /\ p.copy.cur = None /\ UNCHANGED <<camp, wonder, knowledge>>
      /\ p.pc \in Locked \cap Reading /\ sess[i] = "none" /\ sess' = [sess EXCEPT ![i] = "open"]
      /\ p.op # "pause"
  BY Facts DEF StartCycle, At, Locked, Reading, Place
<1>2. ~Stuck
  BY <1>1, CalmFacts DEF Same
<1>3. q.pc = "ssave" /\ q.copy = [p.copy EXCEPT !.cur = i, !.started = @ + 1] /\ q.copy.cur = i
  BY Facts DEF Process, Campaign
<1>4. ASSUME Fresh(p, camp, sess) PROVE Fresh(q, camp', sess')
  <2>1. p.copy = camp /\ camp.status = "active"
    BY <1>1, <1>4 DEF Fresh
  <2> QED BY <1>1, <1>3, <2>1 DEF Fresh
<1>5. \A j \in Cycles : sess'[j] = "deleted" => sess[j] = "deleted"
  BY <1>1 DEF Basic, Types
<1> HIDE DEF q
<1>6. Goes(x, q)
  BY Facts, StartCycleDoes DEF q
<1> QED BY <1>1, <1>2, <1>3, <1>4, <1>5, <1>6, CalmFacts, GoesCalm

LEMMA StartSaveCalm ==
  ASSUME Basic, Calm, NEW x \in Procs, StartSave(x), UNCHANGED Surroundings
  PROVE  Calm' /\ Keeps
<1>1. UNCHANGED <<sess, wonder, knowledge>> /\ proc[x].pc \in Locked \cap Reading
  BY DEF StartSave, At, Locked, Reading
<1> QED BY <1>1, Facts, CalmFacts, StartSaveDoes, LeavesCalm DEF Same

(* A step of _finalize_cycle that goes on.                                 *)
LEMMA FinalCalm ==
  ASSUME Basic, Calm, NEW x \in Procs, proc[x].pc \in Final, NEW q, q.pc \in Final, Goes(x, q),
         q.copy = proc[x].copy, q.op = proc[x].op, UNCHANGED <<camp, sess>>, UNCHANGED Surroundings
  PROVE  Calm' /\ Keeps
<1>1. proc[x].pc \in Locked \cap Reading /\ q.pc \in Reading
      /\ proc[x].pc \notin {"ssave", "csave"} /\ q.pc \notin {"ssave", "csave"}
  BY DEF Locked, Reading, Final
<1>2. Fresh(proc[x], camp, sess) => Fresh(q, camp', sess')
  BY <1>1 DEF Fresh
<1> QED BY <1>1, <1>2, CalmFacts, GoesCalm

(* An update of a wonder that is gone fails.                               *)
LEMMA GoneCalm ==
  ASSUME Basic, Calm, NEW x \in Procs, proc[x].pc \in Final, sess[proc[x].copy.cur] = "deleted",
         Fails(x), UNCHANGED <<camp, sess>>, UNCHANGED Surroundings
  PROVE  Calm' /\ Keeps
<1>1. proc[x].copy.cur \in Cycles /\ proc[x].pc \in Locked
  BY Facts DEF Place, Final, Locked, Reading
<1>2. ~Unfailed
  BY <1>1 DEF Calm, Whole, Unfailed
<1>3. ~Stuck
  <2>1. proc[x].pc \in Reading
    BY DEF Final, Reading
  <2> QED BY <1>1, <2>1, CalmFacts DEF Same
<1> QED BY <1>1, <1>2, <1>3, LeavesCalm

LEMMA PromotingCalm ==
  ASSUME Basic, Calm, NEW x \in Procs,
         PromoteNothing(x) \/ Incubate(x) \/ Ingest(x) \/ Link(x) \/ WonderSave(x),
         UNCHANGED Surroundings
  PROVE  Calm' /\ Keeps
<1> DEFINE p == proc[x]
           q1 == [p EXCEPT !.pc = "fsave", !.found = "none"]
           q2 == [p EXCEPT !.pc = "link", !.found = "none"]
           q3 == [p EXCEPT !.pc = "wsave", !.found = "none"]
           q4 == [p EXCEPT !.pc = "fsave", !.got = 1]
<1>1. p.pc \in Final /\ UNCHANGED <<camp, sess>>
  BY DEF PromoteNothing, Incubate, Ingest, Link, WonderSave, At, Final
<1>2. \A q \in {q1, q2, q3, q4} : q.pc \in Final /\ q.copy = p.copy /\ q.op = p.op
  BY Facts DEF Process, Final
<1> HIDE DEF q1, q2, q3, q4
<1>3. \/ Goes(x, q1) \/ Goes(x, q2) \/ Goes(x, q3) \/ Goes(x, q4)
      \/ sess[p.copy.cur] = "deleted" /\ Fails(x)
  BY Facts, PromoteNothingDoes, IncubateDoes, IngestDoes, LinkDoes, WonderSaveDoes DEF q1, q2, q3, q4
<1> QED BY <1>1, <1>2, <1>3, FinalCalm, GoneCalm

LEMMA OverflowSticks ==
  ASSUME Basic, Calm, NEW x \in Procs, FinalSave(x), camp' = camp, Fails(x),
         Unfailed \/ (x = "loop" /\ sess[proc[x].copy.cur] # "deleted"),
         Finalized(proc[x].copy, proc[x].seen = "failed", proc[x].got).fails >= OverflowAt
  PROVE  Stuck'
<1> DEFINE p == proc[x]
           c == Finalized(p.copy, p.seen = "failed", p.got)
<1>1. /\ p.pc = "fsave" /\ UNCHANGED <<sess, wonder, knowledge>> /\ p.pc \in Locked \cap Reading
      /\ p.copy.cur \in Cycles /\ p.seen \in Settled /\ sess[p.copy.cur] \in {p.seen, "deleted"}
      /\ p.copy.fails \in Nat /\ OverflowAt \in Nat \ {0}
  BY Facts, Typed, Constants DEF FinalSave, At, Locked, Reading, Final, Place
<1>2. /\ c.fails = IF p.seen = "failed" THEN OneMore(p.copy.fails) ELSE 0
      /\ c.fails >= OverflowAt
  BY Facts, FinalSaveDoes
<1> HIDE DEF c
<1>3. p.seen = "failed" /\ Tired(p.copy)
  BY <1>1, <1>2 DEF OneMore, Tired
<1>5. sess[p.copy.cur] = p.seen
  BY <1>1 DEF Calm, Whole, Unfailed
<1>6. camp.cur = p.copy.cur /\ Tired(camp)
  BY <1>1, <1>3, <1>5, CalmFacts DEF Fresh, Same, Settled
<1>7. \A y \in Procs : proc'[y].pc \in Reading => FALSE
  BY <1>1, NotReading DEF Fails, Turned, Basic, Exclusive, Locked
<1>8. \A y \in Procs : proc'[y].pc = "eput" => Same(proc'[y].copy, camp) /\ Tired(proc'[y].copy)
  <2>1. ASSUME NEW y \in Procs, proc'[y].pc = "eput" PROVE y # x /\ proc[y].pc = "eput" /\ proc'[y] = proc[y]
    BY <2>1, NotReading DEF Fails, Turned
  <2>2. ASSUME NEW y \in Procs, proc'[y].pc = "eput" PROVE Stuck
    <3>1. y = "loop"
      BY <2>1, <2>2 DEF Basic, Alone, Failing, Procs
    <3>2. Unfailed
      BY <2>1, <2>2, <3>1
    <3> QED BY <2>1, <2>2, <3>1, <3>2 DEF Calm, Smooth
  <2> QED BY <2>1, <2>2 DEF Stuck
<1> QED BY <1>1, <1>3, <1>5, <1>6, <1>7, <1>8, Constants DEF Stuck

LEMMA FinalSaveCalm ==
  ASSUME Basic, Calm, NEW x \in Procs, FinalSave(x), UNCHANGED Surroundings
  PROVE  Calm' /\ Keeps
<1> DEFINE p == proc[x]
           c == Finalized(p.copy, p.seen = "failed", p.got)
<1>1. /\ p.pc = "fsave" /\ UNCHANGED <<sess, wonder, knowledge>> /\ p.pc \in Locked \cap Reading
      /\ p.copy.cur \in Cycles /\ p.seen \in Settled /\ sess[p.copy.cur] \in {p.seen, "deleted"}
      /\ p.copy.fails \in Nat /\ OverflowAt \in Nat \ {0}
  BY Facts, Typed, Constants DEF FinalSave, At, Locked, Reading, Final, Place
<1>2. /\ c.fails = IF p.seen = "failed" THEN OneMore(p.copy.fails) ELSE 0
      /\ \/ c.fails >= OverflowAt /\ camp' = camp /\ Fails(x)
         \/ c.fails < OverflowAt /\ camp' = c /\ Leaves(x)
  BY Facts, FinalSaveDoes
<1> HIDE DEF c
<1>3. c.fails >= OverflowAt => p.seen = "failed" /\ Tired(p.copy)
  BY <1>1, <1>2 DEF OneMore, Tired
<1>4. p.seen = "failed" /\ Tired(p.copy) => c.fails >= OverflowAt
  BY <1>1, <1>2 DEF OneMore, Tired
<1>5. Unfailed => sess[p.copy.cur] = p.seen
  BY <1>1 DEF Calm, Whole, Unfailed
<1>6. CASE c.fails >= OverflowAt /\ camp' = camp /\ Fails(x)
  BY <1>1, <1>2, <1>6, OverflowSticks, FinalSaveDoes, Facts, CalmFacts, LeavesCalm
<1>7. CASE c.fails < OverflowAt /\ camp' = c /\ Leaves(x)
  <2>1. ~Stuck
    <3>1. ~(c.fails >= OverflowAt)
      BY <1>1, <1>2, <1>7 DEF OneMore
    <3> QED BY <1>1, <1>4, <3>1, CalmFacts DEF Same
  <2> QED BY <1>1, <1>7, <2>1, LeavesCalm
<1> QED BY <1>2, <1>6, <1>7

(* A step of a process that does not hold the lock, and does not read.     *)
LEMMA OtherCalm ==
  ASSUME Basic, Calm, NEW x \in Procs, NEW q, Turned(x, q), q.pc \notin Reading \cup {"eget", "eput", "dead"},
         UNCHANGED <<camp, sess, up, faults, deletes>>
  PROVE  Calm' /\ Keeps
<1>1. Whole'
  BY DEF Calm, Whole
<1>2. \A y \in Procs : Fresh(proc[y], camp, sess) => Fresh(proc'[y], camp', sess')
  BY DEF Fresh, Turned
<1>3. Unfailed' => Unfailed
  BY DEF Unfailed
<1>4. proc'["loop"].pc \in {"dead", "eget", "eput"} => proc'["loop"] = proc["loop"]
  BY Constants DEF Turned
<1>5. Stuck => Stuck'
  BY DEF Stuck, Turned
<1>6. Smooth => Smooth'
  BY <1>2, <1>4 DEF Smooth
<1> QED BY <1>1, <1>2, <1>3, <1>4, <1>5, <1>6, Constants DEF Calm, Keeps

LEMMA BeginCalm ==
  ASSUME Basic, Calm, NEW x \in Procs, Idle(x)
  PROVE  Calm' /\ Keeps
<1> DEFINE q(op) == [proc[x] EXCEPT !.pc = "lock", !.op = op]
<1>1. PICK op \in Ops : Begin(x, op)
  BY DEF Idle
<1>2. Turned(x, q(op)) /\ UNCHANGED <<camp, sess, up, faults, deletes>>
  BY <1>1, Facts, BeginDoes DEF Idle
<1>3. q(op).pc = "lock"
  BY Facts DEF Process
<1> HIDE DEF q
<1> QED BY <1>2, <1>3, OtherCalm DEF Reading

LEMMA AcquireCalm ==
  ASSUME Basic, Calm, NEW x \in Procs, Acquire(x), UNCHANGED Surroundings
  PROVE  Calm' /\ Keeps
<1> DEFINE q == [proc[x] EXCEPT !.pc = "get"]
<1>1. Turned(x, q) /\ UNCHANGED <<camp, sess, up, faults, deletes>>
  BY Facts, AcquireDoes DEF Surroundings
<1>2. q.pc = "get"
  BY Facts DEF Process
<1> HIDE DEF q
<1> QED BY <1>1, <1>2, OtherCalm DEF Reading

LEMMA ErrorGetCalm ==
  ASSUME Basic, Calm, ErrorGet
  PROVE  Calm' /\ Keeps
<1> DEFINE p == proc["loop"]
           q == [p EXCEPT !.pc = "eput", !.copy = camp]
<1>1. p.pc = "eget" /\ UNCHANGED <<camp, sess, up, faults, deletes>>
  BY DEF ErrorGet, At
<1>2. q.pc = "eput" /\ q.copy = camp /\ q \in Process
  BY Constants, Facts DEF Process, Failing
<1>3. Turned("loop", q)
  <2>1. proc' = [proc EXCEPT !["loop"] = q]
    BY Constants, Facts DEF ErrorGet, Types, Process
  <2> QED BY Constants, <1>2, <2>1, Facts, Turning
<1> HIDE DEF q
<1>4. Whole' /\ Fresh(proc'["loop"], camp', sess')
  BY <1>1, <1>2, <1>3 DEF Calm, Whole, Fresh, Reading, Turned
<1>5. Keeps
  BY <1>1, <1>2, <1>3 DEF Stuck, Turned, Same, Keeps
<1>7. Unfailed => Stuck
  BY <1>1 DEF Calm, Smooth
<1>6. Unfailed' => Unfailed
  BY <1>1 DEF Unfailed
<1> QED BY <1>2, <1>3, <1>4, <1>5, <1>6, <1>7 DEF Calm, Turned, Keeps

LEMMA ErrorPutCalm ==
  ASSUME Basic, Calm, ErrorPut
  PROVE  Calm' /\ Remains
<1> DEFINE p == proc["loop"]
           c == [p.copy EXCEPT !.fails = OneMore(@)]
<1>1. /\ p.pc = "eput" /\ c \in Campaign
      /\ UNCHANGED <<sess, wonder, knowledge, guard, lock, up, faults, crashes, deletes>>
      /\ \/ Storable(p.copy) /\ camp' = c /\ Turned("loop", NoProc)
         \/ ~Storable(p.copy) /\ camp' = camp /\ Turned("loop", Dead)
  BY ErrorPutDoes DEF Dead
<1>2. NoProc.pc = "idle" /\ Dead.pc = "dead"
  BY DEF NoProc, Dead
<1>3. Whole' /\ Fresh(proc'["loop"], camp', sess')
  BY <1>1, <1>2 DEF Calm, Whole, Fresh, Reading, Turned
<1>4. ASSUME Unfailed PROVE Stuck' /\ proc'["loop"].pc # "dead"
  <2>1. Stuck
    BY <1>1, <1>4 DEF Calm, Smooth
  <2>2. Storable(p.copy) /\ Same(p.copy, camp) /\ Tired(p.copy)
    BY <1>1, <1>4, <2>1, Constants, Facts, CalmFacts DEF Stuck
  <2>3. camp' = c /\ Turned("loop", NoProc)
    BY <1>1, <2>2
  <2>4. Same(camp', camp) /\ Tired(camp')
    <3>1. p.copy \in Campaign /\ p.copy.fails \in Nat /\ OverflowAt \in Nat
      BY Constants, Facts, Typed
    <3>2. Tired(camp')
      BY <2>2, <2>3, <3>1 DEF Tired, OneMore, Campaign
    <3> QED BY <2>2, <2>3, <3>1, <3>2 DEF Same, Campaign
  <2>5. \A y \in Procs : proc'[y].pc \in Reading \cup {"eput"} => proc[y] = proc'[y]
    BY <1>2, <2>3 DEF Turned, Reading
  <2> QED BY <1>1, <1>2, <2>1, <2>3, <2>4, <2>5, Constants DEF Stuck, Same, Turned
<1>5. Unfailed' => Unfailed
  BY <1>1 DEF Unfailed
<1> QED BY <1>3, <1>4, <1>5 DEF Calm, Remains

LEMMA StartWorkerCalm ==
  ASSUME Basic, Calm, proc["loop"].pc = "dead", StartWorker, Turned("loop", NoProc),
         ~up => camp' = camp, UNCHANGED <<sess, faults, deletes>>
  PROVE  Calm' /\ Remains
<1>1. NoProc.pc = "idle" /\ up'
  BY DEF NoProc, StartWorker
<1>2. Whole' /\ Fresh(proc'["loop"], camp', sess')
  BY <1>1 DEF Calm, Whole, Fresh, Reading, Turned
<1>3. ASSUME Unfailed PROVE proc'["loop"].pc # "dead" /\ (Stuck' \/ Smooth') /\ (Stuck => Stuck')
  <2>1. camp' = camp
    BY <1>3 DEF Calm
  <2>2. Stuck => Stuck'
    BY <1>1, <2>1 DEF Stuck, Turned, Reading
  <2>3. Smooth => Smooth'
    BY <1>1, <1>2, <2>1 DEF Smooth, Turned
  <2> QED BY <1>1, <1>3, <2>2, <2>3, Constants DEF Calm, Turned
<1>4. Unfailed' => Unfailed
  BY DEF Unfailed
<1> QED BY <1>2, <1>3, <1>4 DEF Calm, Remains

LEMMA SameCalm ==
  ASSUME Calm, UNCHANGED <<camp, sess, proc, up, faults, deletes>>
  PROVE  Calm' /\ Remains
  BY DEF Calm, Whole, Unfailed, Stuck, Smooth, Remains

LEMMA StartCalm ==
  ASSUME Basic, Calm, StartGet \/ StartWonders \/ StartPut
  PROVE  Calm' /\ Remains
<1>1. CASE StartGet
  BY <1>1, SameCalm, StartWorkerCalm, StartWorkerBasic DEF StartGet, At, Basic, Types, Rows
<1>2. CASE StartWonders
  BY <1>2, SameCalm DEF StartWonders
<1>3. CASE StartPut
  <2>1. guard.pc = "put" /\ proc["loop"].pc = "dead" /\ guard' = NoGuard
        /\ UNCHANGED <<sess, wonder, knowledge, lock, faults, crashes, deletes>>
    BY <1>3 DEF StartPut, Basic, Alone
  <2>2. CASE Storable(guard.copy)
    <3>1. Current(guard.copy, sess)
      BY <2>2, GuardTypes DEF Storable, Copied, Current
    <3>2. camp' = guard.copy /\ StartWorker /\ (~up => camp' = camp)
      BY <1>3, <2>1, <2>2 DEF StartPut, Basic, Alone
    <3>3. Turned("loop", NoProc)
      BY <2>1, <3>1, <3>2, GuardTypes, StartWorkerBasic
    <3> QED BY <2>1, <3>2, <3>3, StartWorkerCalm
  <2>3. CASE ~Storable(guard.copy)
    BY <1>3, <2>1, <2>3, SameCalm DEF StartPut
  <2> QED BY <2>2, <2>3
<1> QED BY <1>1, <1>2, <1>3

LEMMA SettleCalm ==
  ASSUME Basic, Calm, NEW i \in Cycles, Settle(i)
  PROVE  Calm' /\ Keeps
<1>1. PICK status \in Settled : End(i, status)
  BY DEF Settle
<1>2. sess[i] = "open" /\ UNCHANGED <<camp, knowledge, proc, guard, lock, up, faults, crashes, deletes>>
  BY DEF Settle
<1>3. sess'[i] = status /\ \A j \in Cycles \ {i} : sess'[j] = sess[j]
  BY <1>1, <1>2, EndingOnward
<1>4. \A j \in Cycles : (sess'[j] = "deleted" <=> sess[j] = "deleted") /\ (sess[j] = "failed" => sess'[j] = "failed")
  BY <1>2, <1>3 DEF Settled
<1>5. Whole' /\ (Unfailed' <=> Unfailed)
  BY <1>2, <1>4 DEF Calm, Whole, Unfailed
<1>6. ASSUME NEW y \in Procs, Fresh(proc[y], camp, sess) PROVE Fresh(proc'[y], camp', sess')
  BY <1>2, <1>4, <1>6, Facts DEF Fresh
<1>7. Stuck => Stuck'
  BY <1>2, <1>4, GuardTypes DEF Stuck, Basic, Types, Campaign
<1>8. Smooth => Smooth'
  BY <1>2, <1>6 DEF Smooth
<1> QED BY <1>2, <1>5, <1>6, <1>7, <1>8, Constants DEF Calm, Keeps

LEMMA DeleteCalm ==
  ASSUME Basic, Calm, NEW i \in Cycles, Delete(i)
  PROVE  Calm' /\ Remains
<1>1. /\ deletes' = deletes + 1 /\ proc' = proc /\ deletes \in Nat
      /\ sess' = [sess EXCEPT ![i] = "deleted"]
  BY DEF Delete, Basic, Types
<1>2. deletes' # 0
  BY <1>1
<1>3. /\ camp' = IF camp.cur = i THEN [camp EXCEPT !.cur = None] ELSE camp
      /\ sess'[i] = "deleted" /\ \A j \in Cycles : sess[j] = "deleted" => sess'[j] = "deleted"
  BY <1>1 DEF Delete, Basic, Types
<1>4. Fresh(proc["loop"], camp', sess')
  <2> DEFINE p == proc["loop"]
  <2>1. p.copy.cur \in Cycles \cup {None} /\ i # None /\ camp \in Campaign
    BY Constants, Facts
  <2>2. SUFFICES ASSUME p.pc \in Reading, p.copy.cur = None \/ sess'[p.copy.cur] # "deleted"
                 PROVE  Fresh(p, camp', sess')
    BY DEF Fresh
  <2>3. p.copy.cur # i /\ (p.copy.cur = None \/ sess[p.copy.cur] # "deleted")
    BY <1>3, <2>1, <2>2
  <2>4. camp.cur # i
    BY <2>1, <2>2, <2>3 DEF Calm, Fresh, Campaign
  <2> QED BY <1>3, <2>3, <2>4 DEF Calm, Fresh
<1> QED BY <1>1, <1>2, <1>4 DEF Calm, Whole, Unfailed, Remains

LEMMA FaultCalm ==
  ASSUME Basic, Calm, NEW x \in Procs, Fault(x)
  PROVE  Calm' /\ Remains
<1>1. /\ UNCHANGED <<camp, sess, deletes>> /\ faults' = faults + 1 /\ faults \in Nat
      /\ Turned(x, Failed(x)) \/ Turned(x, Dead)
  BY FaultDoes DEF Fails, Basic, Types
<1>2. faults' # 0
  BY <1>1
<1>3. Fresh(proc'["loop"], camp', sess')
  <2>1. Failed("loop").pc \notin Reading /\ Dead.pc \notin Reading
    BY DEF Failed, Dead, NoProc, Reading
  <2> QED BY <1>1, <2>1, Constants DEF Calm, Fresh, Turned
<1> QED BY <1>1, <1>2, <1>3 DEF Calm, Whole, Unfailed, Remains

LEMMA QuietCalm ==
  ASSUME Whole, ~up, \A x \in Procs : proc[x] = IF x = "loop" THEN Dead ELSE NoProc
  PROVE  Calm
<1>1. Dead.pc = "dead" /\ NoProc.pc = "idle"
  BY DEF Dead, NoProc
<1>2. \A x \in Procs : Fresh(proc[x], camp, sess)
  BY <1>1 DEF Fresh, Reading
<1> QED BY <1>1, <1>2, Constants DEF Calm, Smooth

LEMMA CrashCalm ==
  ASSUME Basic, Calm, Crash
  PROVE  Calm' /\ Remains
<1>1. Whole' /\ ~up'
  BY DEF Crash, Calm, Whole
<1>2. \A x \in Procs : proc'[x] = IF x = "loop" THEN Dead ELSE NoProc
  BY DEF Crash, Dead
<1>3. Dead.pc = "dead" /\ NoProc.pc = "idle"
  BY DEF Dead, NoProc
<1>4. \A x \in Procs : Fresh(proc'[x], camp', sess')
  BY <1>2, <1>3 DEF Fresh, Reading
<1>5. Stuck => Stuck'
  <2>1. camp' = camp /\ sess' = sess
    BY DEF Crash
  <2> QED BY <1>2, <1>3, <2>1 DEF Stuck, Reading
<1> QED BY <1>1, <1>2, <1>3, <1>4, <1>5, Constants DEF Calm, Smooth, Remains

LEMMA InitCalm ==
  ASSUME Init
  PROVE  Calm
<1>1. Whole /\ ~up
  BY DEF Init, Whole
<1> QED BY <1>1, QuietCalm DEF Init, Dead

LEMMA StepCalm ==
  ASSUME Basic, Calm, NEW x \in Procs, Idle(x) \/ Step(x) \/ Later(x)
  PROVE  Calm' /\ Keeps
<1>1. CASE Step(x)
  <2>1. UNCHANGED Surroundings
    BY <1>1 DEF Step, Surroundings
  <2> QED BY <1>1, <2>1, AcquireCalm, TickGetCalm, ControlGetCalm, ControlSaveCalm,
             ControlStopCalm, SessionGetCalm, MissingCalm, TooLittleCalm, StartSaveCalm,
             StartCycleCalm, PromotingCalm, FinalSaveCalm DEF Step
<1>2. CASE Later(x)
  BY <1>2, NotDueCalm DEF Later, Surroundings
<1> QED BY <1>1, <1>2, BeginCalm

LEMMA CalmStays ==
  ASSUME Basic, Calm, [Next]_vars
  PROVE  Calm' /\ Remains
<1>1. ASSUME UNCHANGED vars PROVE Calm' /\ Remains
  BY <1>1, SameCalm DEF vars
<1> QED BY <1>1, StepCalm, FaultCalm, ErrorGetCalm, ErrorPutCalm, StartCalm,
           SettleCalm, DeleteCalm, CrashCalm DEF Next, Keeps, Remains

(* What is read under the lock is still stored when it is written, as long *)
(* as no operation has been cut short.                                     *)
THEOREM CalmAlways == Spec => [](Basic /\ Calm)
<1>1. Basic /\ Calm /\ [Next]_vars => (Basic /\ Calm)'
  BY BasicStays, CalmStays
<1> QED BY <1>1, InitBasic, InitCalm, PTL DEF Spec
=============================================================================
