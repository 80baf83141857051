--------------------- MODULE AutopilotProperties_proofs ---------------------
(***************************************************************************)
(* The properties of the campaign row, each by an invariant of its own on  *)
(* top of Basic and Calm (Autopilot_proofs): Paused for pauses, Ruled for  *)
(* the steps of the row and its contract, Counted and Near for the count   *)
(* of promotions, Extra for the sessions that are open.                    *)
(***************************************************************************)
EXTENDS Autopilot_proofs

-----------------------------------------------------------------------------
(* A pause under way.                                                      *)

(* p pauses the campaign and has not finalized the current session yet.    *)
Pausing(p, s) ==
    /\ p.op = "pause" /\ p.pc \in {"stop", "sget"} \cup Final
    /\ p.pc # "stop" => s[p.copy.cur] \in Settled

(* Nothing has gone wrong yet.                                             *)
Untroubled == Unfailed /\ crashes = 0 /\ ~Stuck

(* Open sessions belong to the campaign; a pause finishes what it begins.  *)
Paused ==
    Untroubled =>
      /\ \A i \in Cycles : sess[i] = "open" =>
            i = camp.cur \/ \E x \in Procs : proc[x].pc = "ssave" /\ proc[x].copy.cur = i
      /\ camp.status = "paused" /\ camp.cur # None => \E x \in Procs : Pausing(proc[x], sess)

(* A step of the holder of the lock.                                       *)
LEMMA HeldPaused ==
  ASSUME Basic, Calm, Remains, Paused, NEW x \in Procs, proc[x].pc \in Locked, NEW q, Turned(x, q),
         UNCHANGED <<faults, crashes, deletes>>,
         Untroubled =>
           /\ \A i \in Cycles : sess'[i] = "open" => i = camp'.cur \/ (q.pc = "ssave" /\ q.copy.cur = i)
           /\ camp'.status = "paused" /\ camp'.cur # None => Pausing(q, sess')
  PROVE  Paused'
<1>1. Untroubled' => Untroubled
  BY DEF Remains, Untroubled, Unfailed
<1> QED BY <1>1 DEF Paused, Turned

(* What the holder of the lock may rely on while there is no trouble.      *)
LEMMA PausedFacts ==
  ASSUME Basic, Calm, Paused, NEW x \in Procs, proc[x].pc \in Locked, Untroubled
  PROVE  /\ Fresh(proc[x], camp, sess) /\ \A c \in Campaign : Storable(c)
         /\ proc[x].copy.cur # None => sess[proc[x].copy.cur] \in {"open", "ended", "failed"}
         /\ \A i \in Cycles : sess[i] = "open" =>
               i = camp.cur \/ (proc[x].pc = "ssave" /\ proc[x].copy.cur = i)
         /\ camp.status = "paused" /\ camp.cur # None => Pausing(proc[x], sess)
<1>1. \A y \in Procs : proc[y].pc \in Locked => y = x
  BY DEF Basic, Exclusive
<1>2. \A y \in Procs : proc[y].pc = "ssave" \/ Pausing(proc[y], sess) => proc[y].pc \in Locked
  BY DEF Pausing, Locked, Reading, Final
<1>3. proc[x].copy.cur # None => sess[proc[x].copy.cur] \in {"open", "ended", "failed"}
  <2>1. sess \in [Cycles -> {"none", "open", "ended", "failed", "deleted"}] /\ deletes = 0
    BY DEF Basic, Types, Untroubled, Unfailed
  <2> QED BY <2>1, Facts DEF Calm, Whole, Place
<1> QED BY <1>1, <1>2, <1>3, CalmFacts DEF Paused, Untroubled, Calm, Smooth

LEMMA ReadPaused ==
  ASSUME Basic, Calm, Remains, Paused, NEW x \in Procs, TickGet(x) \/ ControlGet(x), UNCHANGED Surroundings
  PROVE  Paused'
<1>1. /\ proc[x].pc = "get" /\ proc[x].pc \in Locked /\ UNCHANGED <<camp, sess>>
      /\ UNCHANGED <<faults, crashes, deletes>> /\ ~Pausing(proc[x], sess)
  BY DEF TickGet, ControlGet, At, Locked, Pausing, Final, Surroundings
<1>2. PICK q : Turned(x, q)
  BY Facts, TickGetDoes, ControlGetDoes DEF Goes, Leaves
<1>3. Untroubled => /\ \A i \in Cycles : sess[i] = "open" => i = camp.cur
                    /\ ~(camp.status = "paused" /\ camp.cur # None)
  BY <1>1, PausedFacts
<1> QED BY <1>1, <1>2, <1>3, HeldPaused

LEMMA ControlSavePaused ==
  ASSUME Basic, Calm, Remains, Paused, NEW x \in Procs, ControlSave(x), UNCHANGED Surroundings
  PROVE  Paused'
<1> DEFINE p == proc[x]
           q1 == [p EXCEPT !.pc = "get", !.op = "tick"]
           q2 == [p EXCEPT !.pc = "stop", !.found = "none"]
<1>1. p.pc = "csave" /\ UNCHANGED <<sess, faults, crashes, deletes>> /\ p.pc \in Locked \cap Reading
      /\ ~Pausing(p, sess)
  BY DEF ControlSave, At, Locked, Reading, Surroundings, Pausing, Final
<1>2. q2.pc = "stop" /\ q2.copy = p.copy /\ q2.op = p.op
  BY Facts DEF Process
<1>3. p.op \in {"resume", "pause", "objective"} /\ p.copy \in Campaign
  BY <1>1, Facts DEF Place, Process, Ops
<1>4. Untroubled => /\ p.copy.cur = camp.cur /\ p.copy.status = Chosen(p.op, camp.status)
                    /\ \A i \in Cycles : sess[i] = "open" => i = camp.cur
                    /\ ~(camp.status = "paused" /\ camp.cur # None)
  <2>1. ASSUME Untroubled PROVE p.copy = [camp EXCEPT !.status = Chosen(p.op, camp.status)]
    BY <1>1, <2>1, PausedFacts DEF Fresh
  <2> QED BY <1>1, <2>1, Facts, PausedFacts DEF Campaign
<1>5. Untroubled => Storable(p.copy)
  BY <1>1, <1>3, PausedFacts
<1> HIDE DEF q1, q2
<1>6. CASE camp' = p.copy /\ p.op = "resume" /\ Goes(x, q1)
  BY <1>1, <1>4, <1>6, HeldPaused DEF Goes, Chosen
<1>7. CASE camp' = p.copy /\ p.op = "pause" /\ Goes(x, q2)
  BY <1>1, <1>2, <1>4, <1>7, HeldPaused DEF Goes, Pausing
<1>8. CASE camp' = p.copy /\ p.op # "resume" /\ (p.op = "pause" => p.copy.cur = None) /\ Leaves(x)
  BY <1>1, <1>3, <1>4, <1>8, HeldPaused DEF Leaves, Chosen
<1>9. CASE ~Storable(p.copy) /\ Fails(x)
  BY <1>1, <1>5, <1>9, HeldPaused DEF Fails
<1> QED BY <1>6, <1>7, <1>8, <1>9, Facts, ControlSaveDoes DEF q1, q2

LEMMA ControlStopPaused ==
  ASSUME Basic, Calm, Remains, Paused, NEW x \in Procs, ControlStop(x), UNCHANGED Surroundings
  PROVE  Paused'
<1> DEFINE p == proc[x]
           q == [p EXCEPT !.pc = "sget", !.found = "none"]
<1>1. /\ p.pc = "stop" /\ p.op = "pause" /\ UNCHANGED <<camp, knowledge, faults, crashes, deletes>>
      /\ p.copy.cur \in Cycles /\ p.copy.cur # None /\ p.pc \in Locked
  BY Facts DEF ControlStop, At, Locked, Reading, Place, Surroundings
<1>2. q.pc = "sget" /\ q.copy = p.copy /\ q.op = p.op
  BY Facts DEF Process
<1>3. Untroubled => sess'[p.copy.cur] \in Settled /\ \A i \in Cycles : sess'[i] = "open" => sess[i] = "open"
  <2>1. CASE sess[p.copy.cur] = "open"
    BY <1>1, <2>1, EndingOnward DEF ControlStop, Settled
  <2>2. CASE sess[p.copy.cur] # "open"
    BY <1>1, <2>2, PausedFacts DEF ControlStop, Settled
  <2> QED BY <2>1, <2>2
<1>4. Turned(x, q)
  BY Facts, ControlStopDoes DEF Goes
<1> HIDE DEF q
<1>5. Pausing(q, sess') <=> sess'[p.copy.cur] \in Settled
  BY <1>1, <1>2 DEF Pausing
<1> QED BY <1>1, <1>2, <1>3, <1>4, <1>5, PausedFacts, HeldPaused

LEMMA SessionGetPaused ==
  ASSUME Basic, Calm, Remains, Paused, NEW x \in Procs, SessionGet(x), UNCHANGED Surroundings
  PROVE  Paused'
<1> DEFINE p == proc[x]
           i == p.copy.cur
           q == [p EXCEPT !.pc = "promote", !.seen = sess[i], !.found = wonder[i]]
<1>1. /\ p.pc = "sget" /\ i \in Cycles /\ i # None /\ p.pc \in Locked
      /\ UNCHANGED <<camp, sess, faults, crashes, deletes>>
  BY Facts DEF SessionGet, At, Locked, Reading, Place, Surroundings
<1>2. q.pc = "promote" /\ q.copy = p.copy /\ q.op = p.op
  BY Facts DEF Process
<1> HIDE DEF q
<1>3. CASE sess[i] = "deleted"
  <2>1. ~Untroubled
    BY <1>1, <1>3, PausedFacts
  <2>2. PICK q0 : Turned(x, q0)
    BY <1>1, Facts, SessionGetDoes DEF Goes, Leaves
  <2> QED BY <1>1, <2>1, <2>2, HeldPaused
<1>4. CASE sess[i] = "open" /\ Leaves(x)
  <2>1. ~Pausing(p, sess)
    BY <1>1, <1>4 DEF Pausing, Settled
  <2> QED BY <1>1, <1>4, <2>1, PausedFacts, HeldPaused DEF Leaves
<1>5. CASE sess[i] \in Settled /\ Goes(x, q)
  <2>1. Pausing(p, sess) => Pausing(q, sess')
    BY <1>1, <1>2, <1>5 DEF Pausing, Final
  <2> QED BY <1>1, <1>5, <2>1, PausedFacts, HeldPaused DEF Goes
<1> QED BY <1>1, <1>3, <1>4, <1>5, Facts, SessionGetDoes DEF q

LEMMA PlanPaused ==
  ASSUME Basic, Calm, Remains, Paused, NEW x \in Procs, NotDue(x) \/ TooLittle(x), UNCHANGED Surroundings
  PROVE  Paused'
<1>1. /\ proc[x].pc = "plan" /\ proc[x].pc \in Locked \cap Reading /\ proc[x].copy.cur = None
      /\ UNCHANGED <<sess, faults, crashes, deletes>>
  BY Facts DEF NotDue, TooLittle, At, Locked, Reading, Place, Surroundings
<1>2. Turned(x, NoProc) /\ camp' \in {camp, proc[x].copy}
  BY <1>1, Facts, Ending, TooLittleDoes DEF NotDue, Leaves
<1>3. Untroubled => camp' = camp /\ camp.cur = None
  BY <1>1, <1>2, PausedFacts DEF Fresh
<1> QED BY <1>1, <1>2, <1>3, PausedFacts, HeldPaused

LEMMA MissingPaused ==
  ASSUME Basic, Calm, Remains, Paused, NEW x \in Procs, Missing(x), UNCHANGED Surroundings
  PROVE  Paused'
<1>1. /\ proc[x].pc = "missing" /\ proc[x].pc \in Locked
      /\ proc[x].copy.cur # None /\ sess[proc[x].copy.cur] = "deleted"
      /\ UNCHANGED <<faults, crashes, deletes>>
  BY Facts DEF Missing, At, Locked, Reading, Place, Surroundings
<1>2. ~Untroubled
  BY <1>1, PausedFacts
<1> QED BY <1>1, <1>2, Facts, MissingDoes, HeldPaused DEF Leaves

LEMMA StartCyclePaused ==
  ASSUME Basic, Calm, Remains, Paused, NEW x \in Procs, NEW i \in Cycles, StartCycle(x, i),
         UNCHANGED Surroundings
  PROVE  Paused'
<1> DEFINE p == proc[x]
           q == [p EXCEPT !.pc = "ssave", !.copy = [p.copy EXCEPT !.cur = i, !.started = @ + 1]]
<1>1. /\ p.pc = "plan" /\ p.op = "tick" /\ p.copy.cur = None
      /\ UNCHANGED <<camp, faults, crashes, deletes>>
      /\ p.pc \in Locked \cap Reading /\ sess' = [sess EXCEPT ![i] = "open"]
  BY Facts DEF StartCycle, At, Locked, Reading, Place, Surroundings
<1>2. q.pc = "ssave" /\ q.copy.cur = i
  BY Facts DEF Process, Campaign
<1>3. \A j \in Cycles : sess'[j] = "open" => j = i \/ sess[j] = "open"
  BY <1>1 DEF Basic, Types
<1>4. Untroubled => camp.cur = None /\ camp.status = "active"
  BY <1>1, PausedFacts DEF Fresh
<1>5. Turned(x, q)
  BY Facts, StartCycleDoes DEF Goes
<1> HIDE DEF q
<1> QED BY <1>1, <1>2, <1>3, <1>4, <1>5, PausedFacts, HeldPaused

LEMMA StartSavePaused ==
  ASSUME Basic, Calm, Remains, Paused, NEW x \in Procs, StartSave(x), UNCHANGED Surroundings
  PROVE  Paused'
<1> DEFINE p == proc[x]
<1>1. p.pc = "ssave" /\ p.pc \in Locked \cap Reading /\ UNCHANGED <<sess, faults, crashes, deletes>>
  BY DEF StartSave, At, Locked, Reading, Surroundings
<1>2. Untroubled => camp.cur = None /\ p.copy.status = "active" /\ Storable(p.copy)
  <2>1. ASSUME Untroubled
        PROVE  camp.cur = None /\ camp.status = "active"
               /\ p.copy = [camp EXCEPT !.cur = p.copy.cur, !.started = @ + 1]
    BY <1>1, <2>1, PausedFacts DEF Fresh
  <2>2. ASSUME Untroubled PROVE p.copy.status = camp.status
    BY <2>1, <2>2, Facts DEF Campaign
  <2> QED BY <1>1, <2>1, <2>2, Facts, PausedFacts
<1>3. CASE camp' = p.copy /\ Leaves(x)
  <2>1. None \notin Cycles
    BY Constants
  <2> QED BY <1>1, <1>2, <1>3, <2>1, PausedFacts, HeldPaused DEF Leaves
<1>4. CASE ~Storable(p.copy) /\ Fails(x)
  BY <1>1, <1>2, <1>4, HeldPaused DEF Fails
<1> QED BY <1>3, <1>4, Facts, StartSaveDoes

LEMMA PromotingPaused ==
  ASSUME Basic, Calm, Remains, Paused, NEW x \in Procs,
         PromoteNothing(x) \/ Incubate(x) \/ Ingest(x) \/ Link(x) \/ WonderSave(x),
         UNCHANGED Surroundings
  PROVE  Paused'
<1> DEFINE p == proc[x]
           q1 == [p EXCEPT !.pc = "fsave", !.found = "none"]
           q2 == [p EXCEPT !.pc = "link", !.found = "none"]
           q3 == [p EXCEPT !.pc = "wsave", !.found = "none"]
           q4 == [p EXCEPT !.pc = "fsave", !.got = 1]
<1>1. p.pc \in Final /\ p.pc \in Locked /\ p.pc # "ssave" /\ p.copy.cur # None
      /\ UNCHANGED <<camp, sess, faults, crashes, deletes>>
  BY Facts DEF PromoteNothing, Incubate, Ingest, Link, WonderSave, At, Final, Locked, Reading, Surroundings, Place
<1>2. \A q \in {q1, q2, q3, q4} : q.pc \in Final /\ q.copy = p.copy /\ q.op = p.op
  BY Facts DEF Process, Final
<1>3. \A q \in {q1, q2, q3, q4} : Pausing(p, sess) => Pausing(q, sess')
  <2>1. "stop" \notin Final
    BY DEF Final
  <2> QED BY <1>1, <1>2, <2>1 DEF Pausing
<1> HIDE DEF q1, q2, q3, q4
<1>4. \/ Goes(x, q1) \/ Goes(x, q2) \/ Goes(x, q3) \/ Goes(x, q4)
      \/ sess[p.copy.cur] = "deleted" /\ Fails(x)
  BY Facts, PromoteNothingDoes, IncubateDoes, IngestDoes, LinkDoes, WonderSaveDoes DEF q1, q2, q3, q4
<1>5. ASSUME NEW q \in {q1, q2, q3, q4}, Goes(x, q) PROVE Paused'
  BY <1>1, <1>3, <1>5, PausedFacts, HeldPaused DEF Goes
<1>6. CASE sess[p.copy.cur] = "deleted" /\ Fails(x)
  BY <1>1, <1>6, PausedFacts, HeldPaused DEF Fails
<1> QED BY <1>4, <1>5, <1>6

LEMMA FinalSavePaused ==
  ASSUME Basic, Calm, Remains, Paused, NEW x \in Procs, FinalSave(x), UNCHANGED Surroundings
  PROVE  Paused'
<1> DEFINE p == proc[x]
           c == Finalized(p.copy, p.seen = "failed", p.got)
<1>1. /\ p.pc = "fsave" /\ UNCHANGED <<sess, faults, crashes, deletes>> /\ p.pc \in Locked \cap Reading
      /\ p.copy.cur # None /\ sess[p.copy.cur] \in {"ended", "failed", "deleted"}
  BY Facts DEF FinalSave, At, Locked, Reading, Final, Place, Surroundings, Settled
<1>2. CASE c.fails >= OverflowAt /\ camp' = camp /\ Fails(x)
  <2>1. ~Untroubled'
    BY <1>1, <1>2, OverflowSticks DEF Untroubled, Unfailed
  <2> QED BY <2>1 DEF Paused
<1>3. CASE c.cur = None /\ camp' = c /\ Leaves(x)
  <2>1. Untroubled => \A i \in Cycles : sess[i] # "open"
    BY <1>1, PausedFacts DEF Fresh
  <2> QED BY <1>1, <1>3, <2>1, HeldPaused DEF Leaves
<1> QED BY <1>2, <1>3, Facts, FinalSaveDoes

(* A step of a process that does not hold the lock.                        *)
LEMMA OtherPaused ==
  ASSUME Basic, Calm, Remains, Paused, NEW x \in Procs, proc[x].pc \notin Locked, NEW q, Turned(x, q),
         UNCHANGED <<camp, sess, faults, crashes, deletes>>
  PROVE  Paused'
<1>1. Untroubled' => Untroubled
  BY DEF Remains, Untroubled, Unfailed
<1>2. \A y \in Procs : proc[y].pc = "ssave" \/ Pausing(proc[y], sess) => proc'[y] = proc[y]
  BY DEF Pausing, Locked, Reading, Final, Turned
<1> QED BY <1>1, <1>2 DEF Paused

LEMMA WaitingPaused ==
  ASSUME Basic, Calm, Remains, Paused, NEW x \in Procs,
         Idle(x) \/ (Acquire(x) /\ UNCHANGED Surroundings)
  PROVE  Paused'
<1>1. CASE Idle(x)
  <2>1. PICK op \in Ops : Begin(x, op)
    BY <1>1 DEF Idle
  <2> QED BY <1>1, <2>1, Facts, BeginDoes, OtherPaused DEF Idle, Locked, Reading
<1>2. CASE Acquire(x) /\ UNCHANGED Surroundings
  BY <1>2, Facts, AcquireDoes, OtherPaused DEF Surroundings, Locked, Reading
<1> QED BY <1>1, <1>2

LEMMA ErrorPaused ==
  ASSUME Basic, Calm, Remains, Paused, ErrorGet \/ ErrorPut
  PROVE  Paused'
<1>1. proc["loop"].pc \in {"eget", "eput"} /\ UNCHANGED <<faults, crashes, deletes>>
  BY DEF ErrorGet, ErrorPut, At
<1>2. ~Untroubled
  BY <1>1 DEF Calm, Smooth, Untroubled
<1> QED BY <1>1, <1>2 DEF Paused, Remains, Untroubled, Unfailed

LEMMA StartPaused ==
  ASSUME Basic, Calm, Remains, Paused, StartGet \/ StartWonders \/ StartPut
  PROVE  Paused'
<1>1. /\ proc["loop"].pc = "dead" /\ "loop" \in Procs
      /\ UNCHANGED <<sess, faults, crashes, deletes>>
      /\ Untroubled => camp' = camp
  BY Constants DEF StartGet, StartWonders, StartPut, At, Basic, Alone, Calm, Untroubled
<1>2. proc' = proc \/ proc' = [proc EXCEPT !["loop"] = NoProc]
  BY DEF StartGet, StartWonders, StartPut, StartWorker
<1>3. \A y \in Procs : proc[y].pc = "ssave" \/ Pausing(proc[y], sess) => proc'[y] = proc[y]
  BY <1>1, <1>2 DEF Pausing, Final, Basic, Types
<1>4. Untroubled' => Untroubled
  BY <1>1 DEF Remains, Untroubled, Unfailed
<1> QED BY <1>1, <1>3, <1>4 DEF Paused

LEMMA SettlePaused ==
  ASSUME Basic, Calm, Remains, Paused, NEW i \in Cycles, Settle(i)
  PROVE  Paused'
<1>1. PICK status \in Settled : End(i, status)
  BY DEF Settle
<1>2. sess[i] = "open" /\ UNCHANGED <<camp, knowledge, proc, guard, lock, up, faults, crashes, deletes>>
  BY DEF Settle
<1>3. sess'[i] = status /\ \A j \in Cycles \ {i} : sess'[j] = sess[j]
  BY <1>1, <1>2, EndingOnward
<1>4. \A j \in Cycles : (sess'[j] = "open" => sess[j] = "open") /\ (sess[j] \in Settled => sess'[j] \in Settled)
  BY <1>2, <1>3 DEF Settled
<1>5. Untroubled' => Untroubled
  BY <1>2 DEF Remains, Untroubled, Unfailed
<1>6. ASSUME NEW y \in Procs, Pausing(proc[y], sess) PROVE Pausing(proc'[y], sess')
  <2>1. proc[y].copy.cur \in Cycles
    BY <1>6, Facts DEF Pausing, Place
  <2> QED BY <1>2, <1>4, <1>6, <2>1 DEF Pausing
<1> QED BY <1>2, <1>4, <1>5, <1>6 DEF Paused

LEMMA TroublePaused ==
  ASSUME Basic, (\E i \in Cycles : Delete(i)) \/ (\E x \in Procs : Fault(x)) \/ Crash
  PROVE  Paused'
<1>1. faults \in Nat /\ crashes \in Nat /\ deletes \in Nat
  BY DEF Basic, Types
<1>2. faults' = faults + 1 \/ crashes' = crashes + 1 \/ deletes' = deletes + 1
  BY DEF Delete, Fault, Crash
<1> QED BY <1>1, <1>2 DEF Paused, Untroubled, Unfailed

LEMMA PausedStays ==
  ASSUME Basic, Calm, Remains, Paused, [Next]_vars
  PROVE  Paused'
<1>1. ASSUME NEW x \in Procs, Step(x) PROVE Paused'
  <2>1. UNCHANGED Surroundings
    BY <1>1 DEF Step, Surroundings
  <2> QED BY <1>1, <2>1, WaitingPaused, ReadPaused, ControlSavePaused, ControlStopPaused,
             SessionGetPaused, MissingPaused, PlanPaused, StartSavePaused, StartCyclePaused,
             PromotingPaused, FinalSavePaused DEF Step
<1>2. ASSUME NEW x \in Procs, Later(x) PROVE Paused'
  BY <1>2, PlanPaused DEF Later, Surroundings
<1>3. ASSUME UNCHANGED vars PROVE Paused'
  BY <1>3 DEF vars, Paused, Untroubled, Unfailed, Stuck
<1> QED BY <1>1, <1>2, <1>3, WaitingPaused, ErrorPaused, StartPaused, SettlePaused, TroublePaused DEF Next

(* A pause that has let go of the lock has stopped and finalized its       *)
(* session, with any number of control calls waiting behind it.            *)
THEOREM PausesComplete == Spec => []PausedIsIdle
<1>1. Init => Paused
  BY DEF Init, Paused, NewCampaign
<1>2. Basic /\ Calm /\ Paused /\ [Next]_vars => (Basic /\ Calm /\ Paused)'
  BY BasicStays, CalmStays, PausedStays
<1>3. Basic /\ Calm /\ Paused => PausedIsIdle
  <2>1. SUFFICES ASSUME Basic, Calm, Paused, camp.status = "paused", lock = "free",
                        faults + crashes + deletes = 0, camp.fails + 1 < OverflowAt
                 PROVE  camp.cur = None /\ \A i \in Cycles : sess[i] # "open"
    BY DEF PausedIsIdle
  <2>2. Untroubled
    <3>1. faults = 0 /\ deletes = 0 /\ crashes = 0
      BY <2>1 DEF Basic, Types
    <3>2. ~Tired(camp)
      <4>1. camp.fails \in Nat /\ OverflowAt \in Nat
        BY <2>1, Constants DEF Basic, Types, Campaign
      <4> QED BY <2>1, <4>1 DEF Tired
    <3> QED BY <3>1, <3>2 DEF Untroubled, Unfailed, Stuck
  <2>3. \A x \in Procs : proc[x].pc \notin Locked
    BY <2>1, Constants DEF Basic, Exclusive
  <2>4. \A x \in Procs : proc[x].pc # "ssave" /\ ~Pausing(proc[x], sess)
    BY <2>3 DEF Pausing, Locked, Reading, Final
  <2> QED BY <2>1, <2>2, <2>4, Constants DEF Paused
<1> QED BY <1>1, <1>2, <1>3, InitBasic, InitCalm, PTL DEF Spec

-----------------------------------------------------------------------------
(* The campaign row, step by step.                                         *)

(* What becomes of the row while nothing has failed.                       *)
Ruled ==
    \/ camp' = camp
    \/ Stuck /\ Same(camp', camp)
    \/ \E x \in Procs : /\ At(x, "csave") /\ proc[x].op \in {"resume", "pause", "objective"}
                        /\ camp' = [camp EXCEPT !.status = Chosen(proc[x].op, camp.status)]
    \/ /\ camp.cur = None /\ camp.status = "active"
       /\ \E i \in Cycles : camp' = [camp EXCEPT !.cur = i, !.started = @ + 1]
    \/ /\ camp.cur # None /\ camp'.cur = None /\ camp'.completed = camp.completed + 1
       /\ camp'.status = camp.status /\ camp'.started = camp.started
       /\ \E x \in Procs : At(x, "fsave") /\ camp'.promoted = camp.promoted + proc[x].got

LEMMA ControlSaveRuled ==
  ASSUME Basic, Calm, Unfailed, NEW x \in Procs, ControlSave(x)
  PROVE  Ruled
<1>1. proc[x].pc = "csave" /\ proc[x].pc \in Reading /\ proc[x].op \in {"resume", "pause", "objective"}
  BY Facts DEF ControlSave, At, Reading, Place, Process, Ops
<1>2. camp' = proc[x].copy
  BY Facts, CalmFacts, ControlSaveDoes
<1>3. CASE Stuck
  BY <1>1, <1>2, <1>3, CalmFacts DEF Ruled
<1>4. CASE ~Stuck
  <2>1. Fresh(proc[x], camp, sess) /\ Storable(proc[x].copy)
    BY <1>4, Facts, CalmFacts
  <2> QED BY <1>1, <1>2, <2>1 DEF Ruled, Fresh, At, Storable
<1> QED BY <1>3, <1>4

LEMMA StartSaveRuled ==
  ASSUME Basic, Calm, Unfailed, NEW x \in Procs, StartSave(x)
  PROVE  Ruled
<1>1. proc[x].pc = "ssave" /\ proc[x].pc \in Reading /\ proc[x].copy.cur \in Cycles
  BY Facts DEF StartSave, At, Reading, Place
<1>2. camp' = proc[x].copy
  BY Facts, CalmFacts, StartSaveDoes
<1>3. CASE Stuck
  BY <1>1, <1>2, <1>3, CalmFacts DEF Ruled
<1>4. CASE ~Stuck
  <2>1. Fresh(proc[x], camp, sess) /\ Storable(proc[x].copy)
    BY <1>4, Facts, CalmFacts
  <2> QED BY <1>1, <1>2, <2>1 DEF Ruled, Fresh, Storable
<1> QED BY <1>3, <1>4

LEMMA TooLittleRuled ==
  ASSUME Basic, Calm, Unfailed, NEW x \in Procs, TooLittle(x)
  PROVE  Ruled
<1>1. proc[x].pc = "plan" /\ proc[x].pc \in Reading /\ proc[x].copy.cur = None
  BY Facts DEF TooLittle, At, Reading, Place
<1>2. camp' = proc[x].copy
  BY <1>1, Facts, TooLittleDoes
<1>3. ~Stuck
  BY <1>1, CalmFacts DEF Same
<1> QED BY <1>1, <1>2, <1>3, CalmFacts DEF Ruled, Fresh

LEMMA MissingRuled ==
  ASSUME Basic, Calm, Unfailed, NEW x \in Procs, Missing(x)
  PROVE  Ruled
<1>1. proc[x].copy.cur \in Cycles /\ sess[proc[x].copy.cur] = "deleted"
  BY Facts DEF Missing, At, Place
<1> QED BY <1>1 DEF Calm, Whole, Unfailed

LEMMA FinalSaveRuled ==
  ASSUME Basic, Calm, Unfailed, NEW x \in Procs, FinalSave(x)
  PROVE  Ruled
<1> DEFINE p == proc[x]
           c == Finalized(p.copy, p.seen = "failed", p.got)
<1>1. /\ p.pc = "fsave" /\ p.pc \in Reading /\ p.copy.cur \in Cycles /\ p.copy.cur # None
      /\ p.seen \in Settled /\ sess[p.copy.cur] = p.seen
      /\ p.copy.fails \in Nat /\ OverflowAt \in Nat \ {0}
  <2>1. /\ p.pc = "fsave" /\ p.pc \in Reading /\ p.copy.cur \in Cycles /\ p.copy.cur # None
        /\ p.seen \in Settled /\ sess[p.copy.cur] \in {p.seen, "deleted"}
        /\ p.copy.fails \in Nat /\ OverflowAt \in Nat \ {0}
    BY Facts, Typed, Constants DEF FinalSave, At, Reading, Final, Place
  <2> QED BY <2>1 DEF Calm, Whole, Unfailed
<1>2. /\ c.cur = None /\ c.status = p.copy.status /\ c.started = p.copy.started
      /\ c.completed = p.copy.completed + 1 /\ c.promoted = p.copy.promoted + p.got
      /\ c.fails = IF p.seen = "failed" THEN OneMore(p.copy.fails) ELSE 0
      /\ camp' = camp \/ (c.fails < OverflowAt /\ camp' = c)
  BY Facts, FinalSaveDoes
<1> HIDE DEF c
<1>3. CASE camp' = camp
  BY <1>3 DEF Ruled
<1>4. CASE c.fails < OverflowAt /\ camp' = c
  <2>1. ~Stuck
    BY <1>1, <1>2, <1>4, CalmFacts DEF Same, Tired, OneMore
  <2>2. p.copy = camp
    BY <1>1, <2>1, CalmFacts DEF Fresh, Settled
  <2> QED BY <1>1, <1>2, <1>4, <2>2 DEF Ruled, At
<1> QED BY <1>2, <1>3, <1>4

LEMMA ErrorPutRuled ==
  ASSUME Basic, Calm, Unfailed, ErrorPut
  PROVE  Ruled
<1> DEFINE p == proc["loop"]
           c == [p.copy EXCEPT !.fails = OneMore(@)]
<1>1. p.pc = "eput" /\ camp' \in {camp, c} /\ p.copy \in Campaign
  BY Constants, Facts, ErrorPutDoes
<1>2. Stuck
  BY <1>1 DEF Calm, Smooth
<1>3. Same(p.copy, camp)
  BY <1>1, <1>2, Constants DEF Stuck
<1>4. Same(c, camp)
  BY <1>1, <1>3 DEF Same, Campaign
<1> QED BY <1>1, <1>2, <1>4 DEF Ruled

LEMMA NextRuled ==
  ASSUME Basic, Calm, Unfailed, Unfailed', [Next]_vars
  PROVE  Ruled
<1>1. ASSUME NEW x \in Procs, Step(x) PROVE Ruled
  <2>1. CASE ControlSave(x) \/ Missing(x) \/ TooLittle(x) \/ StartSave(x) \/ FinalSave(x)
    BY <2>1, ControlSaveRuled, MissingRuled, TooLittleRuled, StartSaveRuled, FinalSaveRuled
  <2>2. CASE camp' = camp
    BY <2>2 DEF Ruled
  <2> QED BY <1>1, <2>1, <2>2 DEF Step, Acquire, TickGet, ControlGet, ControlStop, SessionGet,
             StartCycle, PromoteNothing, Incubate, Ingest, Link, WonderSave
<1>2. ASSUME NEW x \in Procs, Idle(x) \/ Later(x) \/ Fault(x) PROVE camp' = camp
  BY <1>2 DEF Idle, Begin, Later, NotDue, Fault
<1>3. ASSUME NEW i \in Cycles, Delete(i) PROVE FALSE
  BY <1>3 DEF Delete, Unfailed
<1>4. StartPut => camp' = camp
  BY DEF StartPut, Basic, Alone, Calm
<1>5. ErrorGet \/ StartGet \/ StartWonders \/ Crash \/ (\E i \in Cycles : Settle(i)) => camp' = camp
  BY DEF ErrorGet, StartGet, StartWonders, Crash, Settle
<1>6. UNCHANGED vars => camp' = camp
  BY DEF vars
<1>7. camp' = camp => Ruled
  BY DEF Ruled
<1> QED BY <1>1, <1>2, <1>3, <1>4, <1>5, <1>6, <1>7, ErrorPutRuled DEF Next

(* Only resume() makes a paused campaign active: start(), which writes the *)
(* row without the lock, never brings an active one back.                  *)
THEOREM PausesKept == Spec => PauseIsKept
<1> DEFINE Kept == camp.status = "paused" /\ faults + deletes = 0 /\ camp.fails + 1 < OverflowAt
                     => \/ camp'.status # "active"
                        \/ \E x \in Callers : At(x, "csave") /\ proc[x].op = "resume"
<1>1. ASSUME Basic, Calm, Next PROVE Kept
  <2>1. SUFFICES ASSUME camp.status = "paused", faults + deletes = 0, camp.fails + 1 < OverflowAt,
                        camp'.status = "active"
                 PROVE  \E x \in Callers : At(x, "csave") /\ proc[x].op = "resume"
    OBVIOUS
  <2>2. faults \in Nat /\ deletes \in Nat /\ faults' \in Nat /\ deletes' \in Nat /\ camp \in Campaign
    BY <1>1, BasicStays DEF Basic, Types
  <2>3. Unfailed
    BY <2>1, <2>2 DEF Unfailed
  <2>4. ~Stuck
    <3>1. camp.fails \in Nat /\ OverflowAt \in Nat
      BY <2>2, Constants DEF Campaign
    <3> QED BY <2>1, <3>1 DEF Stuck, Tired
  <2>5. CASE Unfailed'
    <3>1. Ruled
      BY <1>1, <2>3, <2>5, NextRuled
    <3>2. \A i \in Cycles : [camp EXCEPT !.cur = i, !.started = @ + 1].status = camp.status
      BY <2>2 DEF Campaign
    <3>3. PICK x \in Procs : /\ At(x, "csave") /\ proc[x].op \in {"resume", "pause", "objective"}
                             /\ camp' = [camp EXCEPT !.status = Chosen(proc[x].op, camp.status)]
      BY <2>1, <2>4, <3>1, <3>2 DEF Ruled
    <3>4. camp'.status = Chosen(proc[x].op, camp.status)
      BY <2>2, <3>3 DEF Campaign
    <3>5. proc[x].op = "resume"
      BY <2>1, <3>3, <3>4 DEF Chosen
    <3>6. x \in Callers
      BY <1>1, <3>5, Constants DEF Procs, Basic, Alone
    <3> QED BY <3>3, <3>5, <3>6
  <2>6. CASE ~Unfailed'
    <3>1. (\E i \in Cycles : Delete(i)) \/ (\E x \in Procs : Fault(x))
      BY <1>1, <2>3, <2>6 DEF Unfailed, Next, Idle, Step, Later, ErrorGet, ErrorPut, StartGet,
             StartWonders, StartPut, Settle, Crash
    <3>2. camp'.status = camp.status
      BY <2>2, <3>1 DEF Delete, Fault, Campaign
    <3> QED BY <2>1, <3>2
  <2> QED BY <2>5, <2>6
<1>2. Basic /\ Calm /\ [Next]_vars => [Kept]_vars
  BY <1>1
<1> QED BY <1>2, CalmAlways, PTL DEF Spec, PauseIsKept

(* Without faults and deletions the row does what its contract promises,   *)
(* through any number of crashes: it starts a cycle only when it has none  *)
(* and counts every cycle it ends once.                                    *)
THEOREM CampaignImplements ==
  ASSUME MaxFaults = 0, MaxDeletes = 0
  PROVE  Spec => ImplementsContract
<1> DEFINE J == Basic /\ Calm /\ Unfailed
<1>1. Init => J /\ Contract!CInit
  <2>1. Init => Unfailed /\ Contract!CInit
    BY DEF Init, Unfailed, Contract!CInit, NewCampaign, None
  <2> QED BY <2>1, InitBasic, InitCalm
<1>2. J /\ [Next]_vars => J'
  <2>1. ASSUME J, [Next]_vars PROVE Unfailed'
    BY <2>1 DEF Unfailed, vars, Next, Idle, Step, Later, ErrorGet, ErrorPut, StartGet,
           StartWonders, StartPut, Settle, Delete, Fault, Crash, Basic, Types
  <2> QED BY <2>1, BasicStays, CalmStays
<1>3. ASSUME J, J', [Next]_vars PROVE [Contract!CNext]_(Contract!cvars)
  <2>1. Ruled /\ camp \in Campaign /\ camp' \in Campaign
    BY <1>3, NextRuled DEF Basic, Types
  <2>2. CASE camp' = camp
    BY <2>2 DEF Contract!cvars
  <2>3. CASE Same(camp', camp)
    BY <2>1, <2>3 DEF Same, Contract!CNext, Contract!CControl, Campaign
  <2>4. CASE \E x \in Procs : /\ At(x, "csave") /\ proc[x].op \in {"resume", "pause", "objective"}
                        /\ camp' = [camp EXCEPT !.status = Chosen(proc[x].op, camp.status)]
    <3>1. Same(camp', camp)
      BY <2>1, <2>4 DEF Same, Campaign
    <3> QED BY <2>3, <3>1
  <2>5. CASE /\ camp.cur = None /\ camp.status = "active"
             /\ \E i \in Cycles : camp' = [camp EXCEPT !.cur = i, !.started = @ + 1]
    <3>1. PICK i \in Cycles : camp' = [camp EXCEPT !.cur = i, !.started = @ + 1]
      BY <2>5
    <3>2. Contract!CStart(i)
      BY <2>1, <2>5, <3>1 DEF Contract!CStart, Campaign, None
    <3> QED BY <3>2 DEF Contract!CNext
  <2>6. CASE /\ camp.cur # None /\ camp'.cur = None /\ camp'.completed = camp.completed + 1
             /\ camp'.status = camp.status /\ camp'.started = camp.started
    BY <2>6 DEF Contract!CNext, Contract!CEnd, None
  <2> QED BY <2>1, <2>2, <2>3, <2>4, <2>5, <2>6 DEF Ruled
<1> QED BY <1>1, <1>2, <1>3, PTL DEF Spec, ImplementsContract, Contract!Spec

-----------------------------------------------------------------------------
(* The count of promotions.                                                *)

Linked(k) == {i \in Cycles : k[i] = "linked"}

(* What the row a process has read will say of promotions once it is saved.*)
Weight(p) == p.copy.promoted + IF p.pc = "wsave" \/ p.got = 1 THEN 1 ELSE 0

(* No copy of the row counts more promotions than n.                       *)
Within(n) ==
    /\ camp.promoted <= n
    /\ guard.copy.promoted <= n
    /\ \A x \in Procs : Weight(proc[x]) <= n

Counted == Within(Cardinality(Linked(knowledge)))

LEMMA LinkedFinite ==
  ASSUME Basic
  PROVE  IsFiniteSet(Linked(knowledge)) /\ Cardinality(Linked(knowledge)) \in Nat
<1>1. Linked(knowledge) \in SUBSET Started(sess) /\ IsFiniteSet(Started(sess))
  BY DEF Basic, Rows, Produced, Linked, Started, Settled
<1> QED BY <1>1, FS_Subset, FS_CardinalityType

LEMMA KnowledgeGrows ==
  ASSUME Basic, [Next]_vars
  PROVE  \/ knowledge' = knowledge
         \/ \E i \in Cycles : \/ knowledge' = [knowledge EXCEPT ![i] = "linked"]
                              \/ knowledge[i] = "none" /\ knowledge' = [knowledge EXCEPT ![i] = "item"]
<1>1. ASSUME NEW x \in Procs, Ingest(x) \/ Link(x)
      PROVE  \/ knowledge' = knowledge
             \/ \E i \in Cycles : \/ knowledge' = [knowledge EXCEPT ![i] = "linked"]
                                  \/ knowledge[i] = "none" /\ knowledge' = [knowledge EXCEPT ![i] = "item"]
  <2>1. proc[x].copy.cur \in Cycles
    BY <1>1, Facts DEF Ingest, Link, At, Place, Final
  <2>2. CASE Link(x)
    BY <2>1, <2>2 DEF Link
  <2>3. CASE Ingest(x)
    BY <2>1, <2>3, Facts, IngestDoes
  <2> QED BY <1>1, <2>2, <2>3
<1>2. (\A x \in Procs : ~Ingest(x) /\ ~Link(x)) => knowledge' = knowledge
  BY DEF Next, Idle, Begin, Step, Acquire, TickGet, ControlGet, ControlSave, ControlStop, SessionGet,
         Missing, TooLittle, StartSave, StartCycle, PromoteNothing, Incubate,
         WonderSave, FinalSave, Later, NotDue, Fault, ErrorGet, ErrorPut, StartGet, StartWonders,
         StartPut, Settle, Delete, Crash, vars
<1> QED BY <1>1, <1>2

LEMMA LinkedGrows ==
  ASSUME Basic, Basic', [Next]_vars
  PROVE  /\ Cardinality(Linked(knowledge)) \in Nat /\ Cardinality(Linked(knowledge')) \in Nat
         /\ Cardinality(Linked(knowledge)) <= Cardinality(Linked(knowledge'))
<1>1. Linked(knowledge) \in SUBSET Linked(knowledge')
  BY KnowledgeGrows DEF Linked, Basic, Types
<1>2. (IsFiniteSet(Linked(knowledge)) /\ Cardinality(Linked(knowledge)) \in Nat)'
  BY LinkedFinite, PTL
<1> QED BY <1>1, <1>2, LinkedFinite, FS_Subset

LEMMA Weighed ==
  ASSUME Basic, NEW x \in Procs
  PROVE  /\ camp.promoted \in Nat /\ proc[x].copy.promoted \in Nat /\ guard.copy.promoted \in Nat
         /\ proc[x].got \in {0, 1} /\ (proc[x].got = 1 => proc[x].pc = "fsave")
         /\ Weight(proc[x]) \in Nat /\ proc[x].copy.promoted <= Weight(proc[x])
         /\ proc[x].pc = "fsave" => Weight(proc[x]) = proc[x].copy.promoted + proc[x].got
         /\ Weight(NoProc) = 0 /\ Weight(Failed(x)) = 0 /\ Weight(Dead) = 0
<1>1. /\ camp.promoted \in Nat /\ proc[x].copy.promoted \in Nat /\ guard.copy.promoted \in Nat
      /\ proc[x].got \in {0, 1} /\ (proc[x].got = 1 => proc[x].pc = "fsave")
  BY Facts, Typed, GuardTypes DEF Campaign, Place
<1>2. Weight(NoProc) = 0 /\ Weight(Failed(x)) = 0 /\ Weight(Dead) = 0
  BY DEF Weight, NoProc, Failed, Dead, NewCampaign
<1> QED BY <1>1, <1>2 DEF Weight

(* A step of one process, start() aside.                                   *)
LEMMA TurnCounted ==
  ASSUME Basic, Basic', Counted, [Next]_vars, NEW x \in Procs, NEW q, Turned(x, q),
         \/ Weight(q) \in {0, camp.promoted, Weight(proc[x])}
         \/ Weight(q) <= Cardinality(Linked(knowledge')),
         camp'.promoted \in {camp.promoted, proc[x].copy.promoted, Weight(proc[x])},
         guard' = guard
  PROVE  Counted'
<1> DEFINE m == Cardinality(Linked(knowledge))
           n == Cardinality(Linked(knowledge'))
<1>1. m \in Nat /\ n \in Nat /\ m <= n
  BY LinkedGrows
<1>2. \A y \in Procs : Weight(proc[y]) \in Nat /\ Weight(proc[y]) <= m
  BY Weighed DEF Counted, Within
<1>3. camp.promoted <= m /\ guard.copy.promoted <= m
  BY DEF Counted, Within
<1> HIDE DEF m, n
<1>4. camp'.promoted <= n /\ guard'.copy.promoted <= n
  BY <1>1, <1>2, <1>3, Weighed
<1>5. Weight(q) <= n
  BY <1>1, <1>2, <1>3, Weighed DEF n
<1>6. \A y \in Procs : Weight(proc'[y]) <= n
  BY <1>1, <1>2, <1>5 DEF Turned
<1> QED BY <1>4, <1>6 DEF Counted, Within, n

LEMMA LockedCounted ==
  ASSUME Basic, Basic', Counted, [Next]_vars, NEW x \in Procs, proc[x].pc \in Locked, guard' = guard,
         camp'.promoted \in {camp.promoted, proc[x].copy.promoted, Weight(proc[x])},
         \/ Leaves(x) \/ Fails(x)
         \/ \E q : Goes(x, q) /\ q.got = proc[x].got /\ q.pc # "wsave"
                   /\ q.copy.promoted \in {camp.promoted, proc[x].copy.promoted}
                   /\ (q.copy.promoted = proc[x].copy.promoted \/ proc[x].got = 0)
  PROVE  Counted'
<1>1. CASE Leaves(x) \/ Fails(x)
  BY <1>1, Weighed, TurnCounted DEF Leaves, Fails
<1>2. ASSUME NEW q, Goes(x, q), q.got = proc[x].got, q.pc # "wsave",
             q.copy.promoted \in {camp.promoted, proc[x].copy.promoted},
             q.copy.promoted = proc[x].copy.promoted \/ proc[x].got = 0
      PROVE  Counted'
  <2>1. Weight(q) = q.copy.promoted + q.got
    BY <1>2, Weighed DEF Weight
  <2>2. CASE q.copy.promoted = proc[x].copy.promoted /\ proc[x].pc # "wsave"
    <3>1. Weight(q) = Weight(proc[x])
      BY <1>2, <2>1, <2>2, Weighed DEF Weight
    <3> QED BY <1>2, <3>1, TurnCounted DEF Goes
  <2>3. CASE q.copy.promoted = camp.promoted /\ proc[x].got = 0
    <3>1. Weight(q) = camp.promoted
      BY <1>2, <2>1, <2>3, Weighed
    <3> QED BY <1>2, <3>1, TurnCounted DEF Goes
  <2>4. CASE q.copy.promoted = proc[x].copy.promoted /\ proc[x].pc = "wsave"
    <3>1. Weight(q) <= Weight(proc[x])
      BY <1>2, <2>1, <2>4, Weighed DEF Weight
    <3>2. Weight(q) <= Cardinality(Linked(knowledge'))
      BY <1>2, <2>1, <2>4, <3>1, Weighed, LinkedGrows DEF Counted, Within
    <3> QED BY <1>2, <3>2, TurnCounted DEF Goes
  <2> QED BY <1>2, <2>2, <2>3, <2>4
<1> QED BY <1>1, <1>2

LEMMA StepCounted ==
  ASSUME Basic, Basic', Counted, [Next]_vars, NEW x \in Procs, Step(x)
  PROVE  Counted'
<1> DEFINE p == proc[x]
           i == p.copy.cur
<1>1. guard' = guard /\ Types /\ p \in Process /\ p.copy \in Campaign
  BY Facts DEF Step
<1>2. CASE Acquire(x)
  <2> DEFINE q == [p EXCEPT !.pc = "get"]
  <2>1. Turned(x, q) /\ camp' = camp /\ p.pc = "lock"
    BY <1>2, Facts, AcquireDoes
  <2>2. Weight(q) = Weight(p)
    BY <1>1, <2>1 DEF Weight, Process
  <2> QED BY <1>1, <2>1, <2>2, TurnCounted
<1>3. CASE TickGet(x)
  <2> DEFINE q == [p EXCEPT !.pc = IF camp.cur = None THEN "plan" ELSE "sget", !.copy = camp]
  <2>1. p.pc = "get" /\ p.pc \in Locked /\ camp' = camp /\ p.got = 0
    BY <1>3, Weighed DEF TickGet, At, Locked
  <2>2. q.pc # "wsave" /\ q.copy = camp /\ q.got = p.got
    BY <1>1 DEF Process
  <2> QED BY <1>1, <1>3, <2>1, <2>2, TickGetDoes, LockedCounted
<1>4. CASE ControlGet(x)
  <2> DEFINE q == [p EXCEPT !.pc = "csave", !.copy = [camp EXCEPT !.status = Chosen(p.op, camp.status)]]
  <2>1. p.pc = "get" /\ p.pc \in Locked /\ camp' = camp /\ p.got = 0
    BY <1>4, Weighed DEF ControlGet, At, Locked
  <2>2. q.pc # "wsave" /\ q.copy.promoted = camp.promoted /\ q.got = p.got
    BY <1>1, Facts DEF Process, Campaign
  <2> QED BY <1>1, <1>4, <2>1, <2>2, ControlGetDoes, LockedCounted
<1>5. CASE ControlSave(x)
  <2> DEFINE q1 == [p EXCEPT !.pc = "get", !.op = "tick"]
             q2 == [p EXCEPT !.pc = "stop", !.found = "none"]
  <2>1. p.pc \in Locked
    BY <1>5 DEF ControlSave, At, Locked, Reading
  <2>2. \A q \in {q1, q2} : q.pc # "wsave" /\ q.copy = p.copy /\ q.got = p.got
    BY <1>1 DEF Process
  <2>3. camp' \in {camp, p.copy} /\ (Goes(x, q1) \/ Goes(x, q2) \/ Leaves(x) \/ Fails(x))
    BY <1>1, <1>5, ControlSaveDoes
  <2> QED BY <1>1, <2>1, <2>2, <2>3, LockedCounted
<1>6. CASE ControlStop(x)
  <2> DEFINE q == [p EXCEPT !.pc = "sget", !.found = "none"]
  <2>1. p.pc \in Locked /\ camp' = camp
    BY <1>6 DEF ControlStop, At, Locked, Reading
  <2>2. q.pc # "wsave" /\ q.copy = p.copy /\ q.got = p.got
    BY <1>1 DEF Process
  <2> QED BY <1>1, <1>6, <2>1, <2>2, ControlStopDoes, LockedCounted
<1>7. CASE SessionGet(x)
  <2> DEFINE q1 == [p EXCEPT !.pc = "missing", !.found = "none"]
             q2 == [p EXCEPT !.pc = "promote", !.seen = sess[i], !.found = wonder[i]]
  <2>1. p.pc \in Locked /\ camp' = camp /\ i \in Cycles
    BY <1>7, Facts DEF SessionGet, At, Locked, Reading, Place
  <2>2. \A q \in {q1, q2} : q.pc # "wsave" /\ q.copy = p.copy /\ q.got = p.got
    BY <1>1 DEF Process
  <2>3. Goes(x, q1) \/ Goes(x, q2) \/ Leaves(x)
    BY <1>1, <1>7, <2>1, SessionGetDoes
  <2> QED BY <1>1, <2>1, <2>2, <2>3, LockedCounted
<1>8. CASE Missing(x)
  <2>1. p.pc \in Locked /\ Leaves(x)
    BY <1>1, <1>8, MissingDoes DEF Missing, At, Locked, Reading
  <2>2. camp'.promoted = p.copy.promoted
    BY <1>1, <1>8, MissingDoes DEF Campaign
  <2> QED BY <1>1, <2>1, <2>2, LockedCounted
<1>9. CASE TooLittle(x)
  <2>1. p.pc \in Locked /\ i = None
    BY <1>9, Facts DEF TooLittle, At, Locked, Reading, Place
  <2> QED BY <1>1, <1>9, <2>1, TooLittleDoes, LockedCounted
<1>10. CASE StartSave(x)
  <2>1. p.pc \in Locked
    BY <1>10 DEF StartSave, At, Locked, Reading
  <2> QED BY <1>1, <1>10, <2>1, StartSaveDoes, LockedCounted
<1>11. ASSUME NEW j \in Cycles, StartCycle(x, j) PROVE Counted'
  <2> DEFINE q == [p EXCEPT !.pc = "ssave", !.copy = [p.copy EXCEPT !.cur = j, !.started = @ + 1]]
  <2>1. p.pc \in Locked /\ camp' = camp
    BY <1>11 DEF StartCycle, At, Locked, Reading
  <2>2. q.pc # "wsave" /\ q.copy.promoted = p.copy.promoted /\ q.got = p.got
    BY <1>1 DEF Process, Campaign
  <2> QED BY <1>1, <1>11, <2>1, <2>2, StartCycleDoes, LockedCounted
<1>12. CASE PromoteNothing(x) \/ Incubate(x) \/ Ingest(x)
  <2> DEFINE q1 == [p EXCEPT !.pc = "fsave", !.found = "none"]
             q2 == [p EXCEPT !.pc = "link", !.found = "none"]
  <2>1. p.pc \in Locked /\ camp' = camp
    BY <1>12 DEF PromoteNothing, Incubate, Ingest, At, Locked, Reading
  <2>2. \A q \in {q1, q2} : q.pc # "wsave" /\ q.copy = p.copy /\ q.got = p.got
    BY <1>1 DEF Process
  <2>3. Goes(x, q1) \/ Goes(x, q2) \/ Fails(x)
    BY <1>1, <1>12, PromoteNothingDoes, IncubateDoes, IngestDoes
  <2> QED BY <1>1, <2>1, <2>2, <2>3, LockedCounted
<1>13. CASE Link(x)
  <2> DEFINE q == [p EXCEPT !.pc = "wsave", !.found = "none"]
  <2>1. /\ p.pc = "link" /\ camp' = camp /\ i \in Cycles /\ knowledge[i] = "item"
        /\ knowledge' = [knowledge EXCEPT ![i] = "linked"]
    BY <1>13, Facts DEF Link, At, Place, Final
  <2>2. Weight(q) = p.copy.promoted + 1 /\ p.got = 0 /\ Weight(p) = p.copy.promoted
    BY <1>1, <2>1, Weighed DEF Weight, Process
  <2>3. Cardinality(Linked(knowledge')) = Cardinality(Linked(knowledge)) + 1
    <3>1. Linked(knowledge') = Linked(knowledge) \cup {i} /\ i \notin Linked(knowledge)
      BY <2>1 DEF Linked, Basic, Types
    <3> QED BY <3>1, LinkedFinite, FS_AddElement
  <2>4. Weight(q) <= Cardinality(Linked(knowledge'))
    BY <2>2, <2>3, LinkedFinite, Weighed DEF Counted, Within
  <2> QED BY <1>1, <1>13, <2>1, <2>4, LinkDoes, TurnCounted DEF Goes
<1>14. CASE WonderSave(x)
  <2> DEFINE q == [p EXCEPT !.pc = "fsave", !.got = 1]
  <2>1. p.pc = "wsave" /\ p.pc \in Locked /\ camp' = camp
    BY <1>14 DEF WonderSave, At, Locked, Reading
  <2>2. Weight(q) = Weight(p)
    BY <1>1, <2>1 DEF Weight, Process
  <2>3. Goes(x, q) \/ Fails(x)
    BY <1>1, <1>14, WonderSaveDoes
  <2> QED BY <1>1, <2>1, <2>2, <2>3, LockedCounted, TurnCounted DEF Goes
<1>15. CASE FinalSave(x)
  <2>1. p.pc = "fsave" /\ p.pc \in Locked
    BY <1>15 DEF FinalSave, At, Locked, Reading
  <2>2. (camp' = camp /\ Fails(x)) \/ (camp'.promoted = p.copy.promoted + p.got /\ Leaves(x))
    BY <1>1, <1>15, FinalSaveDoes
  <2> QED BY <1>1, <2>1, <2>2, Weighed, LockedCounted
<1> QED BY <1>2, <1>3, <1>4, <1>5, <1>6, <1>7, <1>8, <1>9, <1>10, <1>11, <1>12, <1>13, <1>14, <1>15 DEF Step

(* The steps of start(), of the rows and of a crash.                       *)
LEMMA RestCounted ==
  ASSUME Basic, Basic', Counted, [Next]_vars,
         camp'.promoted \in {camp.promoted, guard.copy.promoted},
         guard'.copy.promoted \in {0, camp.promoted, guard.copy.promoted},
         \A y \in Procs : Weight(proc'[y]) \in {0, Weight(proc[y])}
  PROVE  Counted'
<1> DEFINE m == Cardinality(Linked(knowledge))
           n == Cardinality(Linked(knowledge'))
<1>1. m \in Nat /\ n \in Nat /\ m <= n
  BY LinkedGrows
<1>2. \A y \in Procs : Weight(proc[y]) \in Nat /\ Weight(proc[y]) <= m
  BY Weighed DEF Counted, Within
<1>3. /\ camp.promoted <= m /\ guard.copy.promoted <= m
      /\ camp.promoted \in Nat /\ guard.copy.promoted \in Nat
  BY Weighed, Constants DEF Counted, Within
<1> HIDE DEF m, n
<1>4. camp'.promoted <= n /\ guard'.copy.promoted <= n
  BY <1>1, <1>3
<1>6. \A y \in Procs : Weight(proc'[y]) <= n
  BY <1>1, <1>2
<1> QED BY <1>4, <1>6 DEF Counted, Within, n

LEMMA CountedStays ==
  ASSUME Basic, Basic', Counted, [Next]_vars
  PROVE  Counted'
<1>1. ASSUME NEW x \in Procs, Idle(x) PROVE Counted'
  <2>1. PICK op \in Ops : Begin(x, op) /\ guard' = guard
    BY <1>1 DEF Idle
  <2> DEFINE q == [proc[x] EXCEPT !.pc = "lock", !.op = op]
  <2>2. Turned(x, q) /\ camp' = camp /\ proc[x].pc = "idle"
    BY <2>1, Facts, BeginDoes
  <2>3. Weight(q) = Weight(proc[x])
    BY <2>2, Facts DEF Weight, Process
  <2> QED BY <2>1, <2>2, <2>3, TurnCounted
<1>2. ASSUME NEW x \in Procs, Later(x) PROVE Counted'
  <2>1. Leaves(x) /\ camp' = camp /\ guard' = guard
    BY <1>2, Facts, Ending DEF Later, NotDue
  <2> QED BY <2>1, Weighed, TurnCounted DEF Leaves
<1>3. ASSUME NEW x \in Procs, Fault(x) PROVE Counted'
  BY <1>3, FaultDoes, Weighed, TurnCounted DEF Fails
<1>4. CASE ErrorGet
  <2> DEFINE q == [proc["loop"] EXCEPT !.pc = "eput", !.copy = camp]
  <2>1. proc["loop"].pc = "eget" /\ camp' = camp /\ guard' = guard
    BY <1>4 DEF ErrorGet, At
  <2>2. q \in Process /\ q.copy = camp /\ q.pc = "eput" /\ q.got = proc["loop"].got
    BY Constants, Facts DEF Process, Failing
  <2>3. Turned("loop", q)
    <3>1. proc' = [proc EXCEPT !["loop"] = q]
      BY <1>4, Constants, Facts DEF ErrorGet, Types, Process
    <3> QED BY Constants, <2>2, <3>1, Facts, Turning
  <2>4. Weight(q) = camp.promoted
    BY <2>1, <2>2, Constants, Weighed DEF Weight
  <2> QED BY <2>1, <2>3, <2>4, Constants, TurnCounted
<1>5. CASE ErrorPut
  <2>1. /\ camp'.promoted \in {camp.promoted, proc["loop"].copy.promoted} /\ guard' = guard
        /\ Turned("loop", NoProc) \/ Turned("loop", Dead)
    <3>1. proc["loop"].copy \in Campaign
      BY Constants, Facts
    <3> QED BY <1>5, <3>1, ErrorPutDoes DEF Dead, Campaign
  <2> QED BY <2>1, Constants, Weighed, TurnCounted
<1>6. CASE StartGet \/ StartWonders \/ StartPut
  <2>1. \A y \in Procs : Weight(proc'[y]) \in {0, Weight(proc[y])}
    <3>1. proc' = proc \/ proc' = [proc EXCEPT !["loop"] = NoProc]
      BY <1>6 DEF StartGet, StartWonders, StartPut, StartWorker
    <3> QED BY <3>1, Weighed, Constants DEF Basic, Types
  <2>2. camp' = camp \/ camp' = guard.copy
    BY <1>6 DEF StartGet, StartWonders, StartPut
  <2>3. guard'.copy \in {NewCampaign, camp, guard.copy}
    <3>1. NoGuard.copy = NewCampaign /\ [NoGuard EXCEPT !.pc = "put", !.copy = camp].copy = camp
      BY DEF NoGuard
    <3>2. \A w : [guard EXCEPT !.pc = "wonders", !.wonder = w].copy = guard.copy
      BY GuardTypes
    <3> QED BY <1>6, <3>1, <3>2 DEF StartGet, StartWonders, StartPut
  <2>4. NewCampaign.promoted = 0
    BY DEF NewCampaign
  <2> QED BY <2>1, <2>2, <2>3, <2>4, RestCounted
<1>7. ASSUME NEW i \in Cycles, Settle(i) \/ Delete(i) PROVE Counted'
  <2>1. camp'.promoted = camp.promoted /\ guard' = guard /\ proc' = proc
    BY <1>7 DEF Settle, Delete, Basic, Types, Campaign
  <2> QED BY <2>1, RestCounted
<1>8. CASE Crash
  <2>1. camp' = camp /\ guard'.copy.promoted = 0
    BY <1>8 DEF Crash, NoGuard, NewCampaign
  <2>2. \A y \in Procs : Weight(proc'[y]) = 0
    BY <1>8, Weighed DEF Crash, Dead
  <2> QED BY <2>1, <2>2, RestCounted
<1>9. CASE UNCHANGED vars
  BY <1>9, RestCounted DEF vars
<1> QED BY <1>1, <1>2, <1>3, <1>4, <1>5, <1>6, <1>7, <1>8, <1>9, StepCounted DEF Next

LEMMA InitCounted ==
  ASSUME Init
  PROVE  Counted
<1>1. Cardinality(Linked(knowledge)) \in Nat /\ Basic
  BY InitBasic, LinkedFinite
<1>2. camp.promoted = 0 /\ guard.copy.promoted = 0
  BY DEF Init, NewCampaign, NoGuard
<1>3. \A x \in Procs : Weight(proc[x]) = 0
  BY <1>1, Weighed DEF Init, Dead
<1> QED BY <1>1, <1>2, <1>3 DEF Counted, Within

(* The promoted wonders, and what the row does not say of them.            *)
Promoted(w) == {i \in Cycles : w[i] = "promoted"}

(* Those of the current cycle apart, the row is behind by the crashes only.*)
Near ==
    Unfailed =>
      /\ Cardinality(Promoted(wonder) \ {camp.cur}) <= camp.promoted + crashes
      /\ ~Stuck /\ (\A x \in Procs : proc[x].got = 0) =>
            Cardinality(Promoted(wonder)) <= camp.promoted + crashes

LEMMA PromotedFinite ==
  ASSUME Basic
  PROVE  /\ IsFiniteSet(Promoted(wonder)) /\ Cardinality(Promoted(wonder)) \in Nat
         /\ \A R \in SUBSET Promoted(wonder) :
               IsFiniteSet(R) /\ Cardinality(R) \in Nat /\ Cardinality(R) <= Cardinality(Promoted(wonder))
<1>1. Promoted(wonder) \in SUBSET Started(sess) /\ IsFiniteSet(Started(sess))
  BY DEF Basic, Rows, Produced, Promoted, Started, Settled
<1> QED BY <1>1, FS_Subset, FS_CardinalityType

(* A wonder is marked as promoted only in the current cycle, by the holder *)
(* of the lock, who will count it.                                         *)
LEMMA NewlyPromoted ==
  ASSUME Basic, Calm, Unfailed, Unfailed', [Next]_vars, NEW i \in Cycles,
         wonder'[i] = "promoted", wonder[i] # "promoted"
  PROVE  /\ i = camp.cur
         /\ \E x \in Procs : At(x, "wsave") /\ proc'[x].got = 1
<1>1. wonder \in [Cycles -> Wonders]
  BY DEF Basic, Types
<1>2. ASSUME NEW x \in Procs, Step(x), ~WonderSave(x) PROVE FALSE
  <2>1. CASE Incubate(x) \/ Ingest(x)
    <3>1. proc[x].copy.cur \in Cycles
      BY <2>1, Facts DEF Incubate, Ingest, At, Place, Final
    <3>2. wonder' \in {wonder, [wonder EXCEPT ![proc[x].copy.cur] = "weak"],
                       [wonder EXCEPT ![proc[x].copy.cur] = "skipped"]}
      BY <2>1, Facts, IncubateDoes, IngestDoes
    <3> QED BY <1>1, <3>1, <3>2
  <2>2. CASE ControlStop(x)
    <3>1. wonder' = wonder \/ \E j \in Cycles, w \in {"none", "weak", "good"} : wonder' = [wonder EXCEPT ![j] = w]
      BY <2>2, Facts DEF ControlStop, End, At, Place
    <3> QED BY <1>1, <3>1
  <2> QED BY <1>2, <2>1, <2>2 DEF Step, Acquire, TickGet, ControlGet, ControlSave, SessionGet,
             Missing, TooLittle, StartSave, StartCycle, PromoteNothing, Link, FinalSave
<1>3. ASSUME NEW x \in Procs, Idle(x) \/ Later(x) \/ Fault(x) PROVE wonder' = wonder
  BY <1>3 DEF Idle, Begin, Later, NotDue, Fault
<1>4. ~StartWonders
  <2>1. SUFFICES ASSUME StartWonders PROVE FALSE
    OBVIOUS
  <2>2. guard.pc = "wonders" /\ ~up
    BY <2>1, Constants DEF StartWonders, Basic, Alone, Calm
  <2>3. guard.wonder[i] \in {"none", wonder[i]}
    BY <2>2 DEF Basic, Alone
  <2> QED BY <2>1, <2>3 DEF StartWonders
<1>5. ~(ErrorGet \/ ErrorPut \/ StartGet \/ StartPut \/ Crash \/ UNCHANGED vars)
  BY DEF ErrorGet, ErrorPut, StartGet, StartPut, Crash, vars
<1>6. ASSUME NEW j \in Cycles, Settle(j) \/ Delete(j) PROVE FALSE
  BY <1>1, <1>6 DEF Settle, End, Delete
<1>7. PICK x \in Procs : WonderSave(x)
  BY <1>2, <1>3, <1>4, <1>5, <1>6 DEF Next
<1> DEFINE p == proc[x]
<1>8. p.pc = "wsave" /\ p.pc \in Reading /\ p.copy.cur \in Cycles
  BY <1>7, Facts DEF WonderSave, At, Reading, Place, Final
<1>9. proc'[x].got = 1 /\ i = p.copy.cur
  <2> DEFINE q == [p EXCEPT !.pc = "fsave", !.got = 1]
  <2>1. wonder' = [wonder EXCEPT ![p.copy.cur] = "promoted"] /\ proc'[x] = q
    BY <1>7, Facts, WonderSaveDoes DEF Goes, Turned
  <2> QED BY <1>1, <1>8, <2>1, Facts DEF Process
<1>10. sess[p.copy.cur] # "deleted"
  BY <1>8 DEF Calm, Whole, Unfailed
<1>11. p.copy.cur = camp.cur
  BY <1>8, <1>10, CalmFacts DEF Fresh, Same
<1> QED BY <1>8, <1>9, <1>11 DEF At

(* What a process has promoted is counted, unless the process ends.        *)
LEMMA StillGot ==
  ASSUME Basic, Calm, Unfailed, Unfailed', [Next]_vars, NEW x \in Procs, proc[x].got = 1
  PROVE  proc'[x].got = 1 \/ FinalSave(x) \/ Crash
<1>1. proc[x].pc = "fsave"
  BY Facts DEF Place
<1>2. ASSUME NEW y \in Procs, Step(y) \/ Idle(y) \/ Later(y), y # x PROVE proc'[x] = proc[x]
  <2>1. Types /\ proc[y].copy.cur \in Cycles \cup {None}
    BY Facts
  <2>2. SessionGet(y) => proc[y].copy.cur \in Cycles
    BY Facts DEF SessionGet, At, Place
  <2>3. TooLittle(y) => proc[y].copy.cur = None
    BY Facts DEF TooLittle, At, Place
  <2>4. NotDue(y) => Leaves(y)
    BY <2>1, Ending DEF NotDue
  <2>5. ASSUME NEW op \in Ops, Begin(y, op) PROVE \E q : Turned(y, q)
    BY <2>1, <2>5, BeginDoes
  <2>6. ASSUME NEW j \in Cycles, StartCycle(y, j) PROVE \E q : Turned(y, q)
    BY <2>1, <2>6, StartCycleDoes DEF Goes
  <2>7. \E q : Turned(y, q)
    BY <1>2, <2>1, <2>2, <2>3, <2>4, <2>5, <2>6, AcquireDoes, TickGetDoes, ControlGetDoes, ControlSaveDoes,
       ControlStopDoes, SessionGetDoes, MissingDoes, TooLittleDoes, StartSaveDoes,
       PromoteNothingDoes, IncubateDoes, IngestDoes, LinkDoes, WonderSaveDoes, FinalSaveDoes
       DEF Step, Idle, Later, Goes, Leaves, Fails
  <2> QED BY <1>2, <2>7 DEF Turned
<1>3. Step(x) \/ Idle(x) \/ Later(x) => FinalSave(x)
  BY <1>1 DEF Step, Idle, Begin, Later, NotDue, At, Acquire, TickGet, ControlGet, ControlSave, ControlStop, SessionGet,
         Missing, TooLittle, StartSave, StartCycle, PromoteNothing, Incubate, Ingest, Link, WonderSave
<1>4. ASSUME NEW y \in Procs, Fault(y) PROVE FALSE
  BY <1>4 DEF Fault, Unfailed
<1>5. ErrorGet \/ ErrorPut \/ StartGet \/ StartWonders \/ StartPut => proc'[x] = proc[x]
  <2>1. ErrorGet \/ ErrorPut \/ StartGet \/ StartWonders \/ StartPut =>
          proc["loop"].pc \in {"eget", "eput", "dead"}
    BY DEF ErrorGet, ErrorPut, StartGet, StartWonders, StartPut, At, Basic, Alone
  <2>2. ErrorGet \/ ErrorPut \/ StartGet \/ StartWonders \/ StartPut =>
          \A y \in Procs \ {"loop"} : proc'[y] = proc[y]
    <3>1. ErrorGet => \E c : proc' = [proc EXCEPT !["loop"].pc = "eput", !["loop"].copy = c]
      BY DEF ErrorGet
    <3>2. ErrorPut => \E q : proc' = [proc EXCEPT !["loop"] = q]
      BY DEF ErrorPut
    <3>3. StartGet \/ StartWonders \/ StartPut => proc' = proc \/ \E q : proc' = [proc EXCEPT !["loop"] = q]
      BY DEF StartGet, StartWonders, StartPut, StartWorker
    <3> QED BY <3>1, <3>2, <3>3 DEF Basic, Types
  <2> QED BY <1>1, <2>1, <2>2
<1>6. (\E i \in Cycles : Settle(i) \/ Delete(i)) \/ UNCHANGED vars => proc'[x] = proc[x]
  BY DEF Settle, Delete, vars
<1> QED BY <1>2, <1>3, <1>4, <1>5, <1>6 DEF Next

LEMMA NearStays ==
  ASSUME Basic, Basic', Calm, Remains, Near, [Next]_vars
  PROVE  Near'
<1> DEFINE S == Promoted(wonder)
           T == Promoted(wonder')
           a == camp.promoted + crashes
<1> SUFFICES ASSUME Unfailed'
             PROVE  /\ Cardinality(T \ {camp'.cur}) <= camp'.promoted + crashes'
                    /\ ~Stuck' /\ (\A x \in Procs : proc'[x].got = 0) =>
                          Cardinality(T) <= camp'.promoted + crashes'
  BY DEF Near
<1>1. Unfailed
  BY DEF Unfailed, Next, Idle, Step, Later, ErrorGet, ErrorPut, StartGet, vars,
         StartWonders, StartPut, Settle, Delete, Fault, Crash, Basic, Types
<1>2. /\ IsFiniteSet(S) /\ Cardinality(S) \in Nat
      /\ IsFiniteSet(T) /\ Cardinality(T) \in Nat
      /\ \A R \in SUBSET S : IsFiniteSet(R) /\ Cardinality(R) \in Nat /\ Cardinality(R) <= Cardinality(S)
      /\ \A R \in SUBSET T : IsFiniteSet(R) /\ Cardinality(R) \in Nat /\ Cardinality(R) <= Cardinality(T)
  <2>1. (/\ IsFiniteSet(Promoted(wonder)) /\ Cardinality(Promoted(wonder)) \in Nat
         /\ \A R \in SUBSET Promoted(wonder) :
               IsFiniteSet(R) /\ Cardinality(R) \in Nat /\ Cardinality(R) <= Cardinality(Promoted(wonder)))'
    BY PromotedFinite, PTL
  <2> QED BY <2>1, PromotedFinite
<1>3. /\ camp.promoted \in Nat /\ camp'.promoted \in Nat /\ crashes \in Nat /\ crashes' \in Nat
      /\ a \in Nat /\ crashes' = IF Crash THEN crashes + 1 ELSE crashes
  BY DEF Basic, Types, Campaign, Next, Idle, Step, Later, ErrorGet, ErrorPut, StartGet, vars,
         StartWonders, StartPut, Settle, Delete, Fault, Crash
<1>4. /\ Cardinality(S \ {camp.cur}) <= a
      /\ ~Stuck /\ (\A x \in Procs : proc[x].got = 0) => Cardinality(S) <= a
  BY <1>1 DEF Near
<1>5. \A i \in T \ S : i = camp.cur /\ \E x \in Procs : At(x, "wsave") /\ proc'[x].got = 1
  BY <1>1, NewlyPromoted DEF Promoted
<1>6. ~Stuck' => ~Stuck
  BY <1>1 DEF Remains
<1>7. \A x \in Procs : proc[x].got \in {0, 1} /\ proc'[x].got \in {0, 1}
  BY DEF Basic, Types, Process
<1>8. Cardinality(S) <= a + 1
  BY <1>2, <1>3, <1>4, FS_RemoveElement
<1>9. Ruled
  BY <1>1, NextRuled
<1>10. CASE Same(camp', camp)
  <2>1. T \ {camp'.cur} \in SUBSET S /\ S \ {camp.cur} \in SUBSET S /\ camp'.cur = camp.cur
        /\ camp'.promoted = camp.promoted
    BY <1>5, <1>10 DEF Same
  <2>2. Cardinality(T \ {camp'.cur}) <= camp'.promoted + crashes'
    <3>1. T \ {camp'.cur} \in SUBSET (S \ {camp.cur}) /\ IsFiniteSet(S \ {camp.cur})
      BY <1>2, <1>5, <2>1
    <3>2. Cardinality(T \ {camp'.cur}) <= Cardinality(S \ {camp.cur})
      BY <3>1, FS_Subset
    <3> QED BY <1>2, <1>3, <1>4, <2>1, <3>2
  <2>3. ASSUME ~Stuck', \A x \in Procs : proc'[x].got = 0
        PROVE  Cardinality(T) <= camp'.promoted + crashes'
    <3>1. T \in SUBSET S
      BY <1>5, <2>3
    <3>2. Cardinality(T) <= Cardinality(S)
      BY <1>2, <3>1
    <3>3. CASE \A x \in Procs : proc[x].got = 0
      BY <1>2, <1>3, <1>4, <1>6, <2>1, <2>3, <3>2, <3>3
    <3>4. CASE Crash
      BY <1>2, <1>3, <1>8, <2>1, <3>2, <3>4
    <3>5. ASSUME NEW x \in Procs, proc[x].got = 1, ~Crash PROVE FALSE
      <4>1. FinalSave(x)
        BY <1>1, <2>3, <3>5, StillGot
      <4>2. camp'.completed # proc[x].copy.completed + 1 \/ proc[x].copy.completed # camp.completed
        BY <1>10 DEF Same, Basic, Types, Campaign
      <4>3. proc[x].pc = "fsave" /\ proc[x].copy.cur # None /\ sess[proc[x].copy.cur] # "deleted"
            /\ proc[x].pc \in Reading /\ proc[x].copy.cur \in Cycles
        <5>1. proc[x].pc = "fsave" /\ proc[x].copy.cur # None /\ proc[x].copy.cur \in Cycles
          BY <4>1, Facts DEF FinalSave, At, Place, Final
        <5> QED BY <1>1, <5>1 DEF Calm, Whole, Unfailed, Reading
      <4>4. proc[x].copy.completed = camp.completed
        BY <1>1, <1>6, <2>3, <4>3, CalmFacts DEF Fresh
      <4>5. /\ Finalized(proc[x].copy, proc[x].seen = "failed", proc[x].got).fails >= OverflowAt
            /\ camp' = camp /\ Fails(x)
        BY <4>1, <4>2, <4>4, Facts, FinalSaveDoes
      <4> QED BY <1>1, <2>3, <4>1, <4>5, OverflowSticks
    <3> QED BY <1>7, <3>3, <3>4, <3>5
  <2> QED BY <2>2, <2>3
<1>11. CASE camp.cur = None /\ \E i \in Cycles : camp' = [camp EXCEPT !.cur = i, !.started = @ + 1]
  <2>1. T \in SUBSET S /\ S \ {camp.cur} = S
    BY <1>5, <1>11, Constants DEF Promoted
  <2>2. camp'.promoted = camp.promoted
    BY <1>11 DEF Basic, Types, Campaign
  <2>3. Cardinality(T) <= a /\ T \ {camp'.cur} \in SUBSET T
    BY <1>2, <1>3, <1>4, <2>1
  <2> QED BY <1>2, <1>3, <2>2, <2>3
<1>12. CASE camp.cur # None /\ camp'.cur = None /\ camp'.completed = camp.completed + 1
            /\ \E x \in Procs : At(x, "fsave") /\ camp'.promoted = camp.promoted + proc[x].got
  <2>1. PICK x \in Procs : At(x, "fsave") /\ camp'.promoted = camp.promoted + proc[x].got
    BY <1>12
  <2>2. \A y \in Procs \ {x} : proc[y].pc \notin {"wsave", "fsave"}
    BY <2>1 DEF At, Basic, Exclusive, Locked, Reading
  <2>3. T \in SUBSET S
    BY <1>5, <2>1, <2>2 DEF At
  <2>4. \A y \in Procs \ {x} : proc[y].got = 0
    BY <1>7, <2>2, Facts DEF Place
  <2>5. ~Stuck
    <3>1. ~Stuck'
      BY <1>12 DEF Stuck
    <3> QED BY <1>6, <3>1
  <2>6. Cardinality(S) <= camp'.promoted + crashes
    <3>1. CASE proc[x].got = 0
      BY <1>2, <1>3, <1>4, <2>1, <2>4, <2>5, <3>1
    <3>2. CASE proc[x].got = 1
      BY <1>2, <1>3, <1>8, <2>1, <3>2
    <3> QED BY <1>7, <3>1, <3>2
  <2>7. Cardinality(T) <= camp'.promoted + crashes' /\ T \ {camp'.cur} \in SUBSET T
    BY <1>2, <1>3, <2>3, <2>6
  <2> QED BY <1>2, <1>3, <2>7
<1>13. CASE \E x \in Procs : camp' = [camp EXCEPT !.status = Chosen(proc[x].op, camp.status)]
  <2>1. Same(camp', camp)
    BY <1>13 DEF Same, Basic, Types, Campaign
  <2> QED BY <1>10, <2>1
<1>14. camp' = camp => Same(camp', camp)
  BY DEF Same
<1> QED BY <1>9, <1>10, <1>11, <1>12, <1>13, <1>14 DEF Ruled

LEMMA InitNear ==
  ASSUME Init
  PROVE  Near
<1>1. Promoted(wonder) = {} /\ Promoted(wonder) \ {camp.cur} = {}
  BY DEF Init, Promoted
<1>2. camp.promoted = 0 /\ crashes = 0
  BY DEF Init, NewCampaign
<1>3. Cardinality(Promoted(wonder)) = 0 /\ Cardinality(Promoted(wonder) \ {camp.cur}) = 0
  BY <1>1, FS_EmptySet
<1> QED BY <1>2, <1>3 DEF Near

(* The count of promotions is never ahead of the knowledge, and behind it  *)
(* by at most one for each crash.                                          *)
THEOREM CountsStayNear == Spec => []CountsNear
<1> DEFINE J == Basic /\ Calm /\ Counted /\ Near
<1>1. Init => J
  BY InitBasic, InitCalm, InitCounted, InitNear
<1>2. J /\ [Next]_vars => J'
  BY BasicStays, CalmStays, CountedStays, NearStays
<1>3. J => CountsNear
  <2>1. SUFFICES ASSUME J PROVE CountsNear
    OBVIOUS
  <2>2. camp.promoted <= Cardinality({i \in Cycles : knowledge[i] = "linked"})
    BY <2>1 DEF Counted, Within, Linked
  <2>3. ASSUME camp.cur = None, faults = 0, deletes = 0
        PROVE  Cardinality({i \in Cycles : wonder[i] = "promoted"}) <= camp.promoted + crashes
    <3>1. Promoted(wonder) \ {camp.cur} = Promoted(wonder)
      BY <2>3, Constants DEF Promoted
    <3> QED BY <2>1, <2>3, <3>1 DEF Near, Unfailed, Promoted
  <2> QED BY <2>2, <2>3 DEF CountsNear
<1> QED BY <1>1, <1>2, <1>3, PTL DEF Spec

-----------------------------------------------------------------------------
(* The sessions that are open, and what they are owed to.                  *)

Open(s)      == {i \in Cycles : s[i] = "open"}
Opened(c, s) == c.cur # None /\ s[c.cur] = "open"
Lost(p, s)   == p.pc \in Reading /\ p.copy.cur # None /\ s[p.copy.cur] = "deleted"

(* The row may soon be overwritten with an older one: the worker is dead,  *)
(* or on its way to its error handler, or will be as its session is gone.  *)
Loose ==
    \/ proc["loop"].pc = "dead" /\ up
    \/ proc["loop"].pc \in {"eget", "eput"} /\ ~Stuck
    \/ Lost(proc["loop"], sess)

Load  == Cardinality(Open(sess)) + IF Loose THEN 1 ELSE 0
Spent == 2 * faults + crashes + deletes

(* Whoever is about to forget a session has room for one more.             *)
Extra ==
    /\ Load <= 1 + Spent
    /\ (\A x \in Procs : proc[x].pc # "ssave") /\ ~Opened(camp, sess) => Load <= Spent
    /\ \A x \in Procs : proc[x].pc \in Reading /\ ~Opened(proc[x].copy, sess) => Load <= Spent

LEMMA LoadFacts ==
  ASSUME Basic
  PROVE  /\ IsFiniteSet(Open(sess)) /\ Cardinality(Open(sess)) \in Nat
         /\ Load \in Nat /\ Spent \in Nat
         /\ Load = Cardinality(Open(sess)) + IF Loose THEN 1 ELSE 0
<1>1. Open(sess) \in SUBSET Started(sess) /\ IsFiniteSet(Started(sess))
  BY DEF Basic, Rows, Open, Started
<1>2. IsFiniteSet(Open(sess)) /\ Cardinality(Open(sess)) \in Nat
  BY <1>1, FS_Subset, FS_CardinalityType
<1>3. faults \in Nat /\ crashes \in Nat /\ deletes \in Nat
  BY DEF Basic, Types
<1> QED BY <1>2, <1>3 DEF Load, Spent

LEMMA LoadFacts2 ==
  ASSUME Basic, Basic'
  PROVE  /\ IsFiniteSet(Open(sess)) /\ Cardinality(Open(sess)) \in Nat
         /\ Load \in Nat /\ Spent \in Nat
         /\ Load = Cardinality(Open(sess)) + IF Loose THEN 1 ELSE 0
         /\ IsFiniteSet(Open(sess')) /\ Cardinality(Open(sess')) \in Nat
         /\ Load' \in Nat /\ Spent' \in Nat
         /\ Load' = Cardinality(Open(sess')) + IF Loose' THEN 1 ELSE 0
<1>1. (/\ IsFiniteSet(Open(sess)) /\ Cardinality(Open(sess)) \in Nat
       /\ Load \in Nat /\ Spent \in Nat
       /\ Load = Cardinality(Open(sess)) + IF Loose THEN 1 ELSE 0)'
  BY LoadFacts, PTL
<1> QED BY <1>1, LoadFacts

LEMMA LoadStays ==
  ASSUME Basic, Basic', Open(sess') \subseteq Open(sess), Loose' => Loose
  PROVE  Load' <= Load
<1>1. Cardinality(Open(sess')) <= Cardinality(Open(sess))
  BY LoadFacts2, FS_Subset
<1> QED BY <1>1, LoadFacts2

LEMMA LoadFalls ==
  ASSUME Basic, Basic', NEW i \in Open(sess), Open(sess') = Open(sess) \ {i}
  PROVE  /\ Load' <= Load
         /\ (Loose' => Loose) => Load' + 1 <= Load
<1>1. Cardinality(Open(sess')) = Cardinality(Open(sess)) - 1
  BY LoadFacts2, FS_RemoveElement
<1> QED BY <1>1, LoadFacts2

(* Enough room for whatever follows.                                       *)
LEMMA RoomExtra ==
  ASSUME Basic, Basic', Load' <= Spent'
  PROVE  Extra'
  BY LoadFacts2 DEF Extra

LEMMA LooseStays ==
  ASSUME Basic, Keeps, NEW x \in Procs, NEW q, Turned(x, q), up' = up,
         \A i \in Cycles : sess'[i] = "deleted" => sess[i] = "deleted",
         Lost(q, sess') => Lost(proc[x], sess), q.pc \notin {"dead", "eput"},
         q.pc = "eget" => Stuck' \/ Lost(proc[x], sess)
  PROVE  Loose' => Loose
<1>1. CASE x = "loop"
  BY <1>1 DEF Loose, Turned
<1>2. CASE x # "loop"
  <2>1. proc'["loop"] = proc["loop"] /\ (Stuck => Stuck')
    BY <1>2, Constants DEF Turned, Keeps
  <2>2. Lost(proc["loop"], sess') => Lost(proc["loop"], sess)
    BY Constants, Facts DEF Lost
  <2> QED BY <2>1, <2>2 DEF Loose
<1> QED BY <1>1, <1>2

(* A step of the holder of the lock.                                       *)
LEMMA HeldExtra ==
  ASSUME Basic, Basic', Extra, NEW x \in Procs, proc[x].pc \in Locked, NEW q, Turned(x, q),
         Load' <= Load, UNCHANGED <<faults, crashes, deletes>>,
         q.pc # "ssave" /\ ~Opened(camp', sess') => Load' <= Spent,
         q.pc \in Reading /\ ~Opened(q.copy, sess') => Load' <= Spent
  PROVE  Extra'
<1>1. \A y \in Procs \ {x} : proc'[y].pc \notin Reading
  BY DEF Basic, Exclusive, Locked, Turned
<1>2. Spent' = Spent
  BY DEF Spent
<1>3. Load' <= 1 + Spent'
  BY <1>2, LoadFacts2 DEF Extra
<1>4. (\A y \in Procs : proc'[y].pc # "ssave") /\ ~Opened(camp', sess') => Load' <= Spent'
  BY <1>2 DEF Turned
<1>5. ASSUME NEW y \in Procs, proc'[y].pc \in Reading, ~Opened(proc'[y].copy, sess')
      PROVE  Load' <= Spent'
  BY <1>1, <1>2, <1>5 DEF Turned
<1> QED BY <1>3, <1>4, <1>5 DEF Extra

(* What the holder of the lock may rely on.                                *)
LEMMA ExtraFacts ==
  ASSUME Basic, Extra, NEW x \in Procs, proc[x].pc \in Locked
  PROVE  /\ proc[x].pc # "ssave" /\ ~Opened(camp, sess) => Load <= Spent
         /\ proc[x].pc \in Reading /\ ~Opened(proc[x].copy, sess) => Load <= Spent
<1>1. \A y \in Procs \ {x} : proc[y].pc \notin Reading
  BY DEF Basic, Exclusive, Locked
<1>2. \A y \in Procs \ {x} : proc[y].pc # "ssave"
  BY <1>1 DEF Reading
<1> QED BY <1>2 DEF Extra

(* A step that ends the operation, or goes on without a session lost.      *)
LEMMA EndsExtra ==
  ASSUME Basic, Basic', Extra, Keeps, NEW x \in Procs, proc[x].pc \in Locked,
         Leaves(x) \/ (Fails(x) /\ (Stuck' \/ Lost(proc[x], sess) \/ x # "loop")),
         sess' = sess, UNCHANGED Surroundings,
         ~Opened(camp', sess) => Load <= Spent
  PROVE  Extra'
<1>1. PICK q \in {NoProc, Failed(x)} :
         /\ Turned(x, q) /\ q.pc \notin Reading \cup {"eput", "dead", "ssave"}
         /\ q.pc = "eget" => Stuck' \/ Lost(proc[x], sess)
  <2>1. NoProc.pc = "idle" /\ Failed(x).pc = IF x = "loop" THEN "eget" ELSE "idle"
    BY DEF NoProc, Failed
  <2>2. "idle" \notin Reading \cup {"eput", "dead", "eget", "ssave"} /\ "eget" \notin Reading \cup {"eput", "dead", "ssave"}
    BY DEF Reading
  <2> QED BY <2>1, <2>2 DEF Leaves, Fails
<1>2. Loose' => Loose
  BY <1>1, LooseStays DEF Lost, Surroundings
<1>3. Load' <= Load
  BY <1>2, LoadStays
<1>4. ~Opened(camp', sess') => Load' <= Spent
  BY <1>3, LoadFacts2
<1> QED BY <1>1, <1>3, <1>4, HeldExtra DEF Surroundings

LEMMA GoesExtra ==
  ASSUME Basic, Basic', Extra, Keeps, NEW x \in Procs, proc[x].pc \in Locked,
         NEW q, Goes(x, q), q.pc # "ssave", sess' = sess, UNCHANGED Surroundings,
         Lost(q, sess) => Lost(proc[x], sess),
         ~Opened(camp', sess) => Load <= Spent,
         q.pc \in Reading /\ ~Opened(q.copy, sess) => Load <= Spent
  PROVE  Extra'
<1>1. Turned(x, q) /\ q.pc \notin {"eget", "eput", "dead"}
  BY DEF Goes, Locked, Reading
<1>2. Loose' => Loose
  BY <1>1, LooseStays DEF Surroundings
<1>3. Load' <= Load
  BY <1>2, LoadStays
<1>4. /\ ~Opened(camp', sess') => Load' <= Spent
      /\ q.pc \in Reading /\ ~Opened(q.copy, sess') => Load' <= Spent
  BY <1>3, LoadFacts2
<1> QED BY <1>1, <1>3, <1>4, HeldExtra DEF Surroundings

LEMMA ReadExtra ==
  ASSUME Basic, Basic', Calm, Extra, Keeps, NEW x \in Procs, TickGet(x) \/ ControlGet(x),
         UNCHANGED Surroundings
  PROVE  Extra'
<1> DEFINE p == proc[x]
           q1 == [p EXCEPT !.pc = IF camp.cur = None THEN "plan" ELSE "sget", !.copy = camp]
           q2 == [p EXCEPT !.pc = "csave", !.copy = [camp EXCEPT !.status = Chosen(p.op, camp.status)]]
<1>1. p.pc = "get" /\ p.pc \in Locked /\ UNCHANGED <<camp, sess>>
  BY DEF TickGet, ControlGet, At, Locked
<1>2. \A q \in {q1, q2} : q.copy.cur = camp.cur /\ q.pc # "ssave"
  <2>1. q1.copy = camp /\ q1.pc # "ssave"
    BY Facts DEF Process
  <2>2. q2.copy.cur = camp.cur /\ q2.pc # "ssave"
    BY Facts DEF Process, Campaign
  <2> QED BY <2>1, <2>2
<1> HIDE DEF q1, q2
<1>3. Goes(x, q1) \/ Goes(x, q2) \/ Leaves(x)
  BY Facts, TickGetDoes, ControlGetDoes DEF q1, q2
<1>4. \A q \in {q1, q2} : ~Lost(q, sess) /\ (Opened(q.copy, sess) <=> Opened(camp, sess))
  BY <1>2, Facts DEF Lost, Opened, Current
<1>5. ~Opened(camp, sess) => Load <= Spent
  BY <1>1, ExtraFacts
<1> QED BY <1>1, <1>2, <1>3, <1>4, <1>5, GoesExtra, EndsExtra

LEMMA ControlSaveExtra ==
  ASSUME Basic, Basic', Calm, Extra, Keeps, NEW x \in Procs, ControlSave(x), UNCHANGED Surroundings
  PROVE  Extra'
<1> DEFINE p == proc[x]
           q1 == [p EXCEPT !.pc = "get", !.op = "tick"]
           q2 == [p EXCEPT !.pc = "stop", !.found = "none"]
<1>1. p.pc = "csave" /\ sess' = sess /\ p.pc \in Locked \cap Reading /\ x # "loop"
  BY Facts DEF ControlSave, At, Locked, Reading, Place
<1>2. \A q \in {q1, q2} : q.copy = p.copy /\ q.pc # "ssave"
  BY Facts DEF Process
<1> HIDE DEF q1, q2
<1>3. \/ camp' = p.copy /\ (Goes(x, q1) \/ Goes(x, q2) \/ Leaves(x))
      \/ camp' = camp /\ Fails(x)
  BY Facts, ControlSaveDoes DEF q1, q2
<1>4. ~Opened(p.copy, sess) => Load <= Spent
  BY <1>1, ExtraFacts
<1>5. ~Opened(camp, sess) => Load <= Spent
  BY <1>1, ExtraFacts
<1>6. \A q \in {q1, q2} : Lost(q, sess) => Lost(p, sess)
  BY <1>1, <1>2 DEF Lost
<1> QED BY <1>1, <1>2, <1>3, <1>4, <1>5, <1>6, GoesExtra, EndsExtra

LEMMA ControlStopExtra ==
  ASSUME Basic, Basic', Calm, Extra, Keeps, NEW x \in Procs, ControlStop(x), UNCHANGED Surroundings
  PROVE  Extra'
<1> DEFINE p == proc[x]
           i == p.copy.cur
           q == [p EXCEPT !.pc = "sget", !.found = "none"]
<1>1. /\ p.pc = "stop" /\ UNCHANGED <<camp, knowledge>> /\ i \in Cycles /\ i # None
      /\ p.pc \in Locked \cap Reading
  BY Facts DEF ControlStop, At, Locked, Reading, Place
<1>2. q.pc = "sget" /\ q.copy = p.copy
  BY Facts DEF Process
<1>3. Turned(x, q)
  BY Facts, ControlStopDoes DEF Goes
<1> HIDE DEF q
<1>4. Load' <= Load /\ Load' <= Spent
  <2>1. CASE sess[i] = "open"
    <3>1. /\ \A j \in Cycles \ {i} : sess'[j] = sess[j]
          /\ sess'[i] \notin {"open", "deleted"}
      BY <1>1, <2>1, EndingOnward DEF ControlStop, Settled
    <3>2. Open(sess') = Open(sess) \ {i} /\ i \in Open(sess)
      BY <1>1, <2>1, <3>1 DEF Open
    <3>3. Loose' => Loose
      BY <1>1, <1>2, <1>3, <2>1, <3>1, LooseStays DEF Lost, Surroundings, Reading
    <3>4. Load' <= Load /\ Load' + 1 <= Load
      BY <3>2, <3>3, LoadFalls
    <3> QED BY <3>4, LoadFacts2 DEF Extra
  <2>2. CASE sess[i] # "open"
    <3>1. sess' = sess
      BY <2>2 DEF ControlStop
    <3>2. Loose' => Loose
      BY <1>1, <1>2, <1>3, <3>1, LooseStays DEF Lost, Surroundings
    <3>3. Load' <= Load
      BY <3>1, <3>2, LoadStays
    <3>4. Load <= Spent
      BY <1>1, <2>2, ExtraFacts DEF Opened
    <3> QED BY <3>3, <3>4, LoadFacts2
  <2> QED BY <2>1, <2>2
<1> QED BY <1>1, <1>3, <1>4, HeldExtra DEF Surroundings

LEMMA SessionGetExtra ==
  ASSUME Basic, Basic', Calm, Extra, Keeps, NEW x \in Procs, SessionGet(x), UNCHANGED Surroundings
  PROVE  Extra'
<1> DEFINE p == proc[x]
           i == p.copy.cur
           q1 == [p EXCEPT !.pc = "missing", !.found = "none"]
           q2 == [p EXCEPT !.pc = "promote", !.seen = sess[i], !.found = wonder[i]]
<1>1. /\ p.pc = "sget" /\ i \in Cycles /\ UNCHANGED <<camp, sess>> /\ p.pc \in Locked \cap Reading
  BY Facts DEF SessionGet, At, Locked, Reading, Place
<1>2. \A q \in {q1, q2} : q.copy = p.copy /\ q.pc # "ssave"
  BY Facts DEF Process
<1> HIDE DEF q1, q2
<1>3. Goes(x, q1) \/ Goes(x, q2) \/ Leaves(x)
  BY <1>1, Facts, SessionGetDoes DEF q1, q2
<1>4. /\ ~Opened(p.copy, sess) => Load <= Spent
      /\ ~Opened(camp, sess) => Load <= Spent
  BY <1>1, ExtraFacts
<1>5. \A q \in {q1, q2} : Lost(q, sess) => Lost(p, sess)
  BY <1>1, <1>2 DEF Lost
<1> QED BY <1>1, <1>2, <1>3, <1>4, <1>5, GoesExtra, EndsExtra

LEMMA PlanExtra ==
  ASSUME Basic, Basic', Calm, Extra, Keeps, NEW x \in Procs,
         NotDue(x) \/ TooLittle(x) \/ Missing(x), UNCHANGED Surroundings
  PROVE  Extra'
<1> DEFINE p == proc[x]
<1>1. /\ p.pc \in Locked \cap Reading /\ sess' = sess
      /\ p.copy.cur = None \/ sess[p.copy.cur] = "deleted"
      /\ ~Missing(x) => p.copy.cur = None
  BY Facts DEF NotDue, TooLittle, Missing, At, Locked, Reading, Place
<1>2. Leaves(x)
  BY <1>1, Facts, Ending, TooLittleDoes, MissingDoes DEF NotDue
<1>3. Load <= Spent
  BY <1>1, ExtraFacts DEF Opened
<1> QED BY <1>1, <1>2, <1>3, EndsExtra

LEMMA StartCycleExtra ==
  ASSUME Basic, Basic', Calm, Extra, Keeps, NEW x \in Procs, NEW i \in Cycles, StartCycle(x, i),
         UNCHANGED Surroundings
  PROVE  Extra'
<1> DEFINE p == proc[x]
           q == [p EXCEPT !.pc = "ssave", !.copy = [p.copy EXCEPT !.cur = i, !.started = @ + 1]]
<1>1. /\ p.pc = "plan" /\ p.copy.cur = None /\ p.pc \in Locked \cap Reading
      /\ sess[i] = "none" /\ sess' = [sess EXCEPT ![i] = "open"] /\ camp' = camp
  BY Facts DEF StartCycle, At, Locked, Reading, Place
<1>2. q.pc = "ssave" /\ q.copy.cur = i
  BY Facts DEF Process, Campaign
<1>3. Turned(x, q)
  BY Facts, StartCycleDoes DEF Goes
<1> HIDE DEF q
<1>4. sess'[i] = "open" /\ \A j \in Cycles \ {i} : sess'[j] = sess[j]
  BY <1>1 DEF Basic, Types
<1>5. Loose' => Loose
  BY <1>2, <1>3, <1>4, LooseStays DEF Lost, Surroundings
<1>6. Cardinality(Open(sess')) = Cardinality(Open(sess)) + 1
  <2>1. Open(sess') = Open(sess) \cup {i} /\ i \notin Open(sess)
    BY <1>1, <1>4 DEF Open
  <2> QED BY <2>1, LoadFacts2, FS_AddElement
<1>7. Load <= Spent
  BY <1>1, ExtraFacts DEF Opened
<1>8. Load' <= 1 + Spent
  BY <1>5, <1>6, <1>7, LoadFacts2
<1>9. \A y \in Procs \ {x} : proc'[y].pc \notin Reading
  BY <1>1, <1>3 DEF Basic, Exclusive, Locked, Turned
<1>10. Spent' = Spent
  BY DEF Spent, Surroundings
<1>11. proc'[x] = q /\ Opened(q.copy, sess')
  BY <1>2, <1>3, <1>4, Constants DEF Turned, Opened
<1>12. ASSUME NEW y \in Procs, proc'[y].pc \in Reading, ~Opened(proc'[y].copy, sess') PROVE FALSE
  BY <1>9, <1>11, <1>12
<1> QED BY <1>2, <1>8, <1>10, <1>11, <1>12 DEF Extra

LEMMA StartSaveExtra ==
  ASSUME Basic, Basic', Calm, Extra, Keeps, NEW x \in Procs, StartSave(x), UNCHANGED Surroundings
  PROVE  Extra'
<1> DEFINE p == proc[x]
<1>1. p.pc \in Locked \cap Reading /\ sess' = sess /\ p.copy.cur # None
  BY Facts DEF StartSave, At, Locked, Reading, Place
<1>2. ~Opened(p.copy, sess) => Load <= Spent
  BY <1>1, ExtraFacts
<1>3. CASE camp' = p.copy /\ Leaves(x)
  BY <1>1, <1>2, <1>3, EndsExtra
<1>4. CASE ~Storable(p.copy) /\ camp' = camp /\ Fails(x)
  <2>1. Lost(p, sess) /\ ~Opened(p.copy, sess)
    BY <1>1, <1>4 DEF Storable, Lost, Opened
  <2> QED BY <1>1, <1>2, <1>4, <2>1, EndsExtra
<1> QED BY <1>3, <1>4, Facts, StartSaveDoes

LEMMA PromotingExtra ==
  ASSUME Basic, Basic', Calm, Extra, Keeps, NEW x \in Procs,
         PromoteNothing(x) \/ Incubate(x) \/ Ingest(x) \/ Link(x) \/ WonderSave(x),
         UNCHANGED Surroundings
  PROVE  Extra'
<1> DEFINE p == proc[x]
           q1 == [p EXCEPT !.pc = "fsave", !.found = "none"]
           q2 == [p EXCEPT !.pc = "link", !.found = "none"]
           q3 == [p EXCEPT !.pc = "wsave", !.found = "none"]
           q4 == [p EXCEPT !.pc = "fsave", !.got = 1]
<1>1. p.pc \in Locked \cap Reading /\ p.pc # "ssave" /\ p.copy.cur # None /\ UNCHANGED <<camp, sess>>
  BY Facts DEF PromoteNothing, Incubate, Ingest, Link, WonderSave, At, Locked, Reading, Place, Final
<1>2. \A q \in {q1, q2, q3, q4} : q.pc # "ssave" /\ q.copy = p.copy
  BY Facts DEF Process
<1> HIDE DEF q1, q2, q3, q4
<1>3. \/ Goes(x, q1) \/ Goes(x, q2) \/ Goes(x, q3) \/ Goes(x, q4)
      \/ sess[p.copy.cur] = "deleted" /\ Fails(x)
  BY Facts, PromoteNothingDoes, IncubateDoes, IngestDoes, LinkDoes, WonderSaveDoes DEF q1, q2, q3, q4
<1>4. /\ ~Opened(p.copy, sess) => Load <= Spent
      /\ ~Opened(camp, sess) => Load <= Spent
  BY <1>1, ExtraFacts
<1>5. \A q \in {q1, q2, q3, q4} : Lost(q, sess) => Lost(p, sess)
  BY <1>1, <1>2 DEF Lost
<1>6. ASSUME NEW q \in {q1, q2, q3, q4}, Goes(x, q) PROVE Extra'
  BY <1>1, <1>2, <1>4, <1>5, <1>6, GoesExtra
<1>7. CASE sess[p.copy.cur] = "deleted" /\ Fails(x)
  BY <1>1, <1>4, <1>7, EndsExtra DEF Lost
<1> QED BY <1>3, <1>6, <1>7

LEMMA FinalSaveExtra ==
  ASSUME Basic, Basic', Calm, Extra, Keeps, NEW x \in Procs, FinalSave(x), UNCHANGED Surroundings
  PROVE  Extra'
<1> DEFINE p == proc[x]
           c == Finalized(p.copy, p.seen = "failed", p.got)
<1>1. /\ p.pc \in Locked \cap Reading /\ sess' = sess /\ p.copy.cur # None
      /\ sess[p.copy.cur] \in {"ended", "failed", "deleted"}
  BY Facts DEF FinalSave, At, Locked, Reading, Place, Final, Settled
<1>2. Load <= Spent
  BY <1>1, ExtraFacts DEF Opened
<1>3. CASE c.fails >= OverflowAt /\ camp' = camp /\ Fails(x)
  <2>1. CASE sess[p.copy.cur] = "deleted"
    BY <1>1, <1>2, <1>3, <2>1, EndsExtra DEF Lost
  <2>2. CASE sess[p.copy.cur] # "deleted" /\ x = "loop"
    <3>1. Stuck'
      BY <1>3, <2>2, OverflowSticks
    <3> QED BY <1>1, <1>2, <1>3, <3>1, EndsExtra
  <2>3. CASE x # "loop"
    BY <1>1, <1>2, <1>3, <2>3, EndsExtra
  <2> QED BY <2>1, <2>2, <2>3
<1>4. CASE camp' = c /\ Leaves(x)
  BY <1>1, <1>2, <1>4, EndsExtra
<1> QED BY <1>3, <1>4, Facts, FinalSaveDoes

LEMMA WaitingExtra ==
  ASSUME Basic, Basic', Calm, Extra, Keeps, NEW x \in Procs, Idle(x) \/ (Acquire(x) /\ UNCHANGED Surroundings)
  PROVE  Extra'
<1>1. PICK q : /\ Turned(x, q) /\ q.pc \in {"lock", "get"} /\ proc[x].pc \in {"idle", "lock"}
               /\ UNCHANGED <<camp, sess>> /\ UNCHANGED Surroundings
  <2>1. CASE Idle(x)
    <3>1. PICK op \in Ops : Begin(x, op) /\ UNCHANGED Surroundings
      BY <2>1 DEF Idle, Surroundings
    <3> DEFINE q == [proc[x] EXCEPT !.pc = "lock", !.op = op]
    <3>2. q.pc = "lock"
      BY Facts DEF Process
    <3>3. Turned(x, q) /\ proc[x].pc = "idle" /\ UNCHANGED <<camp, sess>>
      BY <3>1, Facts, BeginDoes
    <3> QED BY <3>1, <3>2, <3>3
  <2>2. CASE Acquire(x) /\ UNCHANGED Surroundings
    <3>1. [proc[x] EXCEPT !.pc = "get"].pc = "get"
      BY Facts DEF Process
    <3> QED BY <2>2, <3>1, Facts, AcquireDoes
  <2> QED BY <2>1, <2>2
<1>2. Loose' => Loose
  BY <1>1, LooseStays DEF Lost, Reading, Surroundings
<1>3. Load' <= Load
  BY <1>1, <1>2, LoadStays
<1>4. Spent' = Spent
  BY <1>1 DEF Spent, Surroundings
<1>5. \A y \in Procs : \/ proc'[y] = proc[y]
                       \/ proc[y].pc # "ssave" /\ proc'[y].pc \notin Reading
  BY <1>1 DEF Turned, Reading
<1> QED BY <1>1, <1>3, <1>4, <1>5, LoadFacts2 DEF Extra

(* A step of the worker outside its operations, or of start().             *)
LEMMA LooseExtra ==
  ASSUME Basic, Basic', Extra, sess' = sess, UNCHANGED <<faults, crashes, deletes>>,
         proc["loop"].pc \in Failing, \A y \in Procs \ {"loop"} : proc'[y] = proc[y],
         proc'["loop"].pc \notin Reading,
         \/ Loose /\ ~Loose'
         \/ (Loose' => Loose) /\ camp'.cur = camp.cur
  PROVE  Extra'
<1>1. Spent' = Spent
  BY DEF Spent
<1>2. CASE Loose /\ ~Loose'
  <2>1. Load' + 1 <= Load
    BY <1>2, LoadFacts2
  <2> QED BY <1>1, <2>1, LoadFacts2, RoomExtra DEF Extra
<1>3. CASE (Loose' => Loose) /\ camp'.cur = camp.cur
  <2>1. Load' <= Load
    BY <1>3, LoadStays
  <2>2. \A y \in Procs : proc[y].pc = "ssave" => proc'[y] = proc[y]
    BY DEF Failing
  <2>3. \A y \in Procs : proc'[y].pc \in Reading => proc'[y] = proc[y]
    OBVIOUS
  <2>4. Opened(camp', sess') <=> Opened(camp, sess)
    BY <1>3 DEF Opened
  <2> QED BY <1>1, <2>1, <2>2, <2>3, <2>4, LoadFacts2 DEF Extra
<1> QED BY <1>2, <1>3

LEMMA ErrorGetExtra ==
  ASSUME Basic, Basic', Calm, Extra, ErrorGet
  PROVE  Extra'
<1>1. /\ proc["loop"].pc = "eget" /\ UNCHANGED <<camp, sess, up, faults, crashes, deletes>>
      /\ proc'["loop"].pc = "eput" /\ \A y \in Procs \ {"loop"} : proc'[y] = proc[y]
  BY Constants, Facts DEF ErrorGet, At, Basic, Types, Process
<1>2. Stuck => Stuck'
  BY ErrorGetCalm DEF Keeps
<1>3. Loose' => Loose
  BY <1>1, <1>2 DEF Loose, Lost, Reading
<1> QED BY <1>1, <1>3, LooseExtra DEF Failing, Reading

LEMMA ErrorPutExtra ==
  ASSUME Basic, Basic', Calm, Extra, ErrorPut
  PROVE  Extra'
<1> DEFINE p == proc["loop"]
           c == [p.copy EXCEPT !.fails = OneMore(@)]
<1>1. /\ p.pc = "eput" /\ UNCHANGED <<sess, up, faults, crashes, deletes>>
      /\ \/ Storable(p.copy) /\ camp' = c /\ Turned("loop", NoProc)
         \/ ~Storable(p.copy) /\ camp' = camp /\ Turned("loop", Dead)
  BY ErrorPutDoes DEF Dead
<1>2. c.cur = p.copy.cur
  BY Constants, Facts DEF Campaign
<1>3. NoProc.pc = "idle" /\ Dead.pc = "dead"
  BY DEF NoProc, Dead
<1>4. Stuck => p.copy.cur = camp.cur /\ Storable(p.copy)
  BY <1>1, Constants DEF Stuck, Same, Storable
<1> HIDE DEF c
<1>5. CASE camp' = c /\ Turned("loop", NoProc)
  <2>1. ~Loose'
    BY <1>3, <1>5, Constants DEF Loose, Lost, Turned, Reading
  <2>2. Loose \/ camp'.cur = camp.cur
    BY <1>1, <1>2, <1>4, <1>5 DEF Loose
  <2> QED BY <1>1, <1>3, <1>5, <2>1, <2>2, LooseExtra DEF Failing, Reading, Turned
<1>6. CASE ~Storable(p.copy) /\ camp' = camp /\ Turned("loop", Dead)
  <2>1. Loose
    BY <1>1, <1>4, <1>6 DEF Loose
  <2> QED BY <1>1, <1>3, <1>6, <2>1, LooseExtra DEF Failing, Reading, Turned
<1> QED BY <1>1, <1>5, <1>6

LEMMA StartExtra ==
  ASSUME Basic, Basic', Calm, Extra, StartGet \/ StartWonders \/ StartPut
  PROVE  Extra'
<1>1. /\ proc["loop"].pc = "dead" /\ UNCHANGED <<sess, faults, crashes, deletes>>
  BY DEF StartGet, StartWonders, StartPut, At, Basic, Alone
<1>2. CASE UNCHANGED <<camp, proc, up>>
  <2>1. Loose' => Loose
    BY <1>1, <1>2 DEF Loose, Stuck, Lost
  <2> QED BY <1>1, <1>2, <2>1, LooseExtra DEF Failing, Reading
<1>3. CASE StartWorker /\ (up \/ camp' = camp)
  <2>1. up' /\ proc'["loop"].pc = "idle" /\ \A y \in Procs \ {"loop"} : proc'[y] = proc[y]
    BY <1>3, Constants DEF StartWorker, NoProc, Basic, Types
  <2>2. ~Loose' /\ (up => Loose)
    BY <1>1, <2>1 DEF Loose, Lost, Reading
  <2> QED BY <1>1, <1>3, <2>1, <2>2, LooseExtra DEF Failing, Reading
<1>4. StartPut /\ camp' # camp => up
  BY DEF StartPut, Basic, Alone
<1> QED BY <1>2, <1>3, <1>4 DEF StartGet, StartWonders, StartPut

LEMMA SettleExtra ==
  ASSUME Basic, Basic', Calm, Extra, NEW i \in Cycles, Settle(i)
  PROVE  Extra'
<1>1. PICK status \in Settled : End(i, status)
  BY DEF Settle
<1>2. sess[i] = "open" /\ UNCHANGED <<camp, knowledge, proc, guard, lock, up, faults, crashes, deletes>>
  BY DEF Settle
<1>3. sess'[i] = status /\ \A j \in Cycles \ {i} : sess'[j] = sess[j]
  BY <1>1, <1>2, EndingOnward
<1>4. Open(sess') = Open(sess) \ {i} /\ i \in Open(sess)
  BY <1>2, <1>3 DEF Open, Settled
<1>5. Stuck => Stuck'
  BY SettleCalm DEF Keeps
<1>6. Lost(proc["loop"], sess') => Lost(proc["loop"], sess)
  BY <1>3, Facts, Constants DEF Lost, Settled
<1>7. Loose' => Loose
  BY <1>2, <1>5, <1>6 DEF Loose
<1>8. Load' + 1 <= Load
  BY <1>4, <1>7, LoadFalls
<1>9. Spent' = Spent
  BY <1>2 DEF Spent
<1> QED BY <1>8, <1>9, LoadFacts2, RoomExtra DEF Extra

LEMMA DeleteExtra ==
  ASSUME Basic, Basic', Extra, NEW i \in Cycles, Delete(i)
  PROVE  Extra'
<1>1. /\ sess[i] \in {"open", "ended", "failed"} /\ sess' = [sess EXCEPT ![i] = "deleted"]
      /\ deletes' = deletes + 1 /\ UNCHANGED <<proc, faults, crashes>>
      /\ camp' = IF camp.cur = i THEN [camp EXCEPT !.cur = None] ELSE camp
  BY DEF Delete, Settled
<1>2. sess'[i] = "deleted" /\ \A j \in Cycles \ {i} : sess'[j] = sess[j]
  BY <1>1 DEF Basic, Types
<1>3. Spent' = Spent + 1
  BY <1>1 DEF Spent, Basic, Types
<1>4. CASE sess[i] = "open"
  <2>1. Open(sess') = Open(sess) \ {i} /\ i \in Open(sess)
    BY <1>2, <1>4 DEF Open
  <2>2. Load' <= Load
    BY <2>1, LoadFalls
  <2> QED BY <1>3, <2>2, LoadFacts2, RoomExtra DEF Extra
<1>5. CASE sess[i] # "open"
  <2>1. Open(sess') = Open(sess)
    BY <1>2, <1>5 DEF Open
  <2>2. Load' <= Load + 1
    BY <2>1, LoadFacts2
  <2>3. \A d \in Campaign : Opened(d, sess') <=> Opened(d, sess)
    BY <1>2, <1>5 DEF Opened, Campaign
  <2>4. Opened(camp, sess) => Opened(camp', sess')
    BY <1>1, <1>5, <2>3 DEF Opened, Basic, Types
  <2>5. \A y \in Procs : Opened(proc'[y].copy, sess') <=> Opened(proc[y].copy, sess)
    BY <1>1, <2>3, Facts
  <2>6. Load' <= 1 + Spent'
    BY <1>3, <2>2, LoadFacts2 DEF Extra
  <2>7. (\A x \in Procs : proc'[x].pc # "ssave") /\ ~Opened(camp', sess') => Load' <= Spent'
    BY <1>1, <1>3, <2>2, <2>4, LoadFacts2 DEF Extra
  <2>8. \A x \in Procs : proc'[x].pc \in Reading /\ ~Opened(proc'[x].copy, sess') => Load' <= Spent'
    <3>1. \A x \in Procs : proc'[x].pc \in Reading /\ ~Opened(proc'[x].copy, sess') => Load <= Spent
      BY <1>1, <2>5 DEF Extra
    <3>2. Load <= Spent => Load' <= Spent'
      BY <1>3, <2>2, LoadFacts2
    <3> QED BY <3>1, <3>2
  <2> QED BY <2>6, <2>7, <2>8 DEF Extra
<1> QED BY <1>4, <1>5

LEMMA TroubleExtra ==
  ASSUME Basic, Basic', Extra, Crash \/ \E x \in Procs : Fault(x)
  PROVE  Extra'
<1>1. sess' = sess /\ Cardinality(Open(sess)) <= Load
  BY LoadFacts2 DEF Crash, Fault
<1>2. CASE Crash
  <2>1. ~Loose'
    BY <1>2, Constants DEF Crash, Loose, Lost, Reading, NoProc
  <2>2. Spent' = Spent + 1
    BY <1>2 DEF Crash, Spent, Basic, Types
  <2> QED BY <1>1, <2>1, <2>2, LoadFacts2, RoomExtra DEF Extra
<1>3. CASE \E x \in Procs : Fault(x)
  <2>1. Spent' = Spent + 2
    BY <1>3 DEF Fault, Spent, Basic, Types
  <2> QED BY <1>1, <2>1, LoadFacts2, RoomExtra DEF Extra
<1> QED BY <1>2, <1>3

LEMMA ExtraStays ==
  ASSUME Basic, Basic', Calm, Extra, [Next]_vars
  PROVE  Extra'
<1>1. ASSUME NEW x \in Procs, Step(x) PROVE Extra'
  <2>1. UNCHANGED Surroundings /\ Keeps
    BY <1>1, StepCalm DEF Step, Surroundings
  <2> QED BY <1>1, <2>1, WaitingExtra, ReadExtra, ControlSaveExtra, ControlStopExtra,
             SessionGetExtra, PlanExtra, StartSaveExtra, StartCycleExtra, PromotingExtra,
             FinalSaveExtra DEF Step
<1>2. ASSUME NEW x \in Procs, Idle(x) \/ Later(x) PROVE Extra'
  <2>1. Keeps
    BY <1>2, StepCalm
  <2> QED BY <1>2, <2>1, WaitingExtra, PlanExtra DEF Later, Surroundings
<1>3. ASSUME UNCHANGED vars PROVE Extra'
  BY <1>3 DEF vars, Extra, Load, Loose, Stuck, Lost, Spent
<1> QED BY <1>1, <1>2, <1>3, ErrorGetExtra, ErrorPutExtra, StartExtra, SettleExtra, DeleteExtra,
           TroubleExtra DEF Next

LEMMA InitExtra ==
  ASSUME Init
  PROVE  Extra
<1>1. Open(sess) = {}
  BY DEF Init, Open
<1>2. ~Loose
  BY Constants DEF Init, Loose, Lost, Reading, NoProc
<1>3. Load = 0
  BY <1>1, <1>2, FS_EmptySet DEF Load
<1>4. Spent = 0
  BY DEF Init, Spent
<1> QED BY <1>3, <1>4 DEF Extra

(* The sessions that are open at once are bounded by what has gone wrong,  *)
(* whatever the worker and its callers do.                                 *)
THEOREM CyclesAlone == Spec => []NoExtraCycles
<1> DEFINE J == Basic /\ Calm /\ Extra
<1>1. Init => J
  BY InitBasic, InitCalm, InitExtra
<1>2. J /\ [Next]_vars => J'
  BY BasicStays, CalmStays, ExtraStays
<1>3. J => NoExtraCycles
  <2>1. SUFFICES ASSUME J PROVE NoExtraCycles
    OBVIOUS
  <2>2. faults \in Nat /\ crashes \in Nat /\ deletes \in Nat
    BY <2>1 DEF Basic, Types
  <2>3. Cardinality(Open(sess)) <= 1 + Spent
    BY <2>1, LoadFacts DEF Extra
  <2> QED BY <2>2, <2>3, LoadFacts, <2>1 DEF Spent, Open, NoExtraCycles
<1> QED BY <1>1, <1>2, <1>3, PTL DEF Spec
=============================================================================
