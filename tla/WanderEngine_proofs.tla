------------------------ MODULE WanderEngine_proofs ------------------------
(***************************************************************************)
(* Proofs about WanderEngine, for every set of pairs, every set of budgets *)
(* and any number of crashes, retries and errors.                          *)
(*                                                                         *)
(* The invariants of the model speak of what is stored.  They are not      *)
(* inductive: what a step does depends on what the run remembers.  Inv     *)
(* says how the two agree, at each place of the run: which candidates and  *)
(* wonders it knows of, which review it decides by, and how far the        *)
(* session row is behind it, which is what a crash loses.                  *)
(***************************************************************************)
EXTENDS WanderEngine, FiniteSetTheorems, TLAPS

USE DEF Terminal
-----------------------------------------------------------------------------
(* The inductive invariant.                                                *)

Machines == {"idle", "seeding", "wander", "collision", "generate", "score", "explore",
             "critique", "persist", "surface", "stopped", "failed"}

RunType == [machine : Machines, moves : Nat, switches : Nat, calls : Nat, noted : Nat,
            stagnant : Nat, cands : SUBSET Pairs, wonders : SUBSET Pairs, finals : SUBSET Pairs,
            seen : SUBSET Pairs, pair : Pairs \cup {CHOOSE p \in Pairs : TRUE},
            decision : {"none", "reject", "keep", "deep", "surface"},
            review : {"none", "pass", "weak", "revise", "fixable", "reject"},
            status : {"none", "completed", "stopped"}]

RowType == [status : {"pending", "running"} \cup Terminal, moves : Nat, switches : Nat,
            calls : Nat, stagnant : Nat, finals : SUBSET Pairs]

CandType == [status : {"none", "generated", "rejected", "filtered", "promising", "explored",
                       "promoted"},
             review : {"none", "skipped", "pass", "weak", "revise", "fixable", "reject"}]

(* Where the run is: it looks for a pair, prepares its candidate, judges   *)
(* it, ends or fails.                                                      *)
Looking  == {"seeding", "patches", "retrieved", "loop"}
Fresh    == {"collision", "bridge", "synthesis", "create"}
Judging  == {"score", "decide", "review", "reviewing", "reviewed", "critique", "revise",
             "verdict", "wonder"}
Unjudged == Fresh \cup {"score", "decide", "review", "reviewing"}
Judged   == {"critique", "revise", "verdict", "wonder"}
Ending   == {"surface", "surfaced", "stopping", "finish"}
Failing  == {"except", "fail"}
Unwritten == {"create", "score", "reviewed", "critique"} \cup Failing
Live     == Looking \cup Fresh \cup Judging \cup {"promoted"} \cup Ending \cup Failing

Types ==
    /\ budget \in Budgets
    /\ row \in RowType /\ cand \in [Pairs -> CandType] /\ rows \in [Pairs -> Nat]
    /\ wonder \subseteq Pairs /\ IsFiniteSet(wonder)
    /\ m \in RunType /\ IsFiniteSet(m.cands)
    /\ pc \in Live \cup {"down", "done"}
    /\ spent \in Nat /\ crashes \in Nat /\ errors \in Nat

(* The state machine is where the run is, so no transition is refused.     *)
Place(at, machine) ==
    /\ at = "seeding" => machine = "idle"
    /\ at = "patches" => machine = "seeding"
    /\ at \in {"retrieved", "loop", "collision"} => machine = "wander"
    /\ at = "bridge" => machine = "collision"
    /\ at \in {"synthesis", "create", "score"} => machine = "generate"
    /\ at \in {"decide", "review"} => machine = "score"
    /\ at \in {"reviewing", "reviewed", "critique"} => machine = "explore"
    /\ at = "revise" => machine = "critique"
    /\ at = "verdict" => machine \in {"score", "critique"}
    /\ at \in {"wonder", "promoted", "surface"} => machine = "persist"
    /\ at = "surfaced" => machine = "surface"

Machine == Place(pc, m.machine)

(* A session is over, or fails, only at the end of its run.                *)
Ends ==
    /\ row.status \in Terminal => pc = "done"
    /\ pc \in Failing \/ row.status = "failed" => errors > 0
    /\ pc \in {"stopping", "finish"} => m.status \in {"completed", "stopped"}

(* What the run remembers of candidates is what is stored.                 *)
Cands ==
    /\ \A p \in Pairs : rows[p] <= 1
    /\ IsFiniteSet({p \in Pairs : rows[p] > 0})
    /\ Cardinality({p \in Pairs : rows[p] > 0}) <= budget.candidates
    /\ pc \in Live =>
          /\ m.cands = {p \in Pairs : rows[p] > 0}
          /\ m.cands \subseteq m.seen
    /\ pc \in Fresh =>
          /\ m.pair \in Pairs /\ m.pair \in m.seen /\ rows[m.pair] = 0
          /\ Cardinality(m.cands) < budget.candidates
    /\ pc \in Judging \cup {"promoted"} => m.pair \in Pairs /\ rows[m.pair] = 1

(* The review a candidate's row shows is the one the run decides by.       *)
Reviews ==
    /\ pc \in Unjudged => m.review = "none"
    /\ pc \in Judged =>
          m.review = "none" \/ cand[m.pair].review = m.review
    /\ pc = "wonder" /\ Reviewer => m.review \in {"pass", "fixable"}

(* What the run remembers of wonders is what is stored.                    *)
Wonders ==
    /\ \A p \in wonder : rows[p] = 1 /\ (Reviewer => cand[p].review \in {"pass", "fixable"})
    /\ pc \in Fresh \cup Judging => m.pair \notin wonder
    /\ pc \in Looking \cup Fresh \cup Judging \cup Ending => m.wonders = wonder
    /\ pc = "promoted" => wonder = m.wonders \cup {m.pair}
    /\ row.status \in {"completed", "stopped"} => row.finals = wonder

(* With a budget for one wonder, a run that still looks has found none.    *)
Firsts ==
    budget.first =>
        /\ Cardinality(wonder) <= 1 + crashes
        /\ pc \in {"down"} \cup Looking \cup Fresh \cup Judging => Cardinality(wonder) <= crashes

Moves ==
    /\ row.moves <= budget.moves /\ row.switches <= budget.switches
    /\ pc \in Live => m.moves <= budget.moves /\ m.switches <= budget.switches

(* The row is at most one call behind the run.                             *)
Calls ==
    /\ row.calls <= budget.calls
    /\ pc \in Live =>
          /\ m.calls <= budget.calls /\ m.noted <= m.calls /\ row.calls <= m.calls
          /\ m.calls <= m.noted + 1 /\ m.calls <= row.calls + 1
    /\ pc \in Live \ ({"create"} \cup Failing) => m.noted = m.calls
    /\ pc \in Live \ Unwritten => row.calls = m.calls
    /\ pc = "reviewing" => m.calls < budget.calls

(* The turns that n calls take at most.                                    *)
TurnsOf(n) == (1 + MaxRetries) * n

Turned ==
    /\ pc \in Live => spent <= TurnsOf(m.calls + crashes)
    /\ pc = "down" => spent <= TurnsOf(row.calls + crashes)
    /\ spent <= TurnsOf(budget.calls + crashes)

Inv == Types /\ Machine /\ Ends /\ Cands /\ Reviews /\ Wonders /\ Firsts /\ Moves /\ Calls /\ Turned

-----------------------------------------------------------------------------
(* Types of what the actions build.                                        *)

(* A run that has not begun has the type of a run.                         *)
LEMMA NoRunType == NoRun \in RunType
  BY DEF NoRun, RunType, Machines

(* What a checkpoint writes is a row with the fields of the run.           *)
LEMMA CheckpointType ==
    ASSUME NEW n \in RunType, NEW s \in {"pending", "running"} \cup Terminal
    PROVE  /\ Checkpoint(n, s) \in RowType
           /\ Checkpoint(n, s).status = s
           /\ Checkpoint(n, s).moves = n.moves
           /\ Checkpoint(n, s).switches = n.switches
           /\ Checkpoint(n, s).calls = n.noted
           /\ Checkpoint(n, s).finals = n.finals
  BY DEF Checkpoint, RowType, RunType

(* A transition changes only the state of the machine.                     *)
LEMMA MachineSet ==
    ASSUME NEW n \in RunType, NEW t \in Machines
    PROVE  /\ [n EXCEPT !.machine = t] \in RunType
           /\ [n EXCEPT !.machine = t].machine = t
           /\ [n EXCEPT !.machine = t].moves = n.moves
           /\ [n EXCEPT !.machine = t].switches = n.switches
           /\ [n EXCEPT !.machine = t].calls = n.calls
           /\ [n EXCEPT !.machine = t].noted = n.noted
           /\ [n EXCEPT !.machine = t].cands = n.cands
           /\ [n EXCEPT !.machine = t].wonders = n.wonders
           /\ [n EXCEPT !.machine = t].finals = n.finals
           /\ [n EXCEPT !.machine = t].seen = n.seen
           /\ [n EXCEPT !.machine = t].pair = n.pair
           /\ [n EXCEPT !.machine = t].review = n.review
           /\ [n EXCEPT !.machine = t].status = n.status
  BY DEF RunType

-----------------------------------------------------------------------------
(* Steps that only move the run on: what is stored stays but for the       *)
(* session row, and what the run remembers stays but for its state.        *)

Onward ==
    /\ pc \in Live /\ pc' \in Live \ {"promoted"}
    /\ pc' \in Fresh => pc \in Fresh
    /\ pc' \in Judging => pc \in Judging
    /\ pc' \in Unjudged => pc \in Unjudged
    /\ pc' \in Judged => pc \in Judged \cup {"review"}
    /\ pc' \in Looking \cup Ending => pc \in Looking \cup Fresh \cup Judging \cup Ending
    /\ pc' \in Looking /\ budget.first => pc \in Looking \cup Fresh \cup Judging
    /\ pc' = "wonder" /\ Reviewer => m.review \in {"pass", "fixable"}
    /\ pc' = "reviewing" => m.calls < budget.calls
    /\ pc' \in Failing => errors > 0
    /\ pc \in Failing => pc' \in Failing
    /\ pc = "create" => FALSE

Written ==
    \/ row' = row /\ (pc \in Unwritten => pc' \in Unwritten)
    \/ row' = Checkpoint(m', "running")

Quiet ==
    /\ UNCHANGED <<budget, cand, rows, wonder, spent, crashes, errors>>
    /\ m' \in RunType
    /\ m'.moves = m.moves /\ m'.switches = m.switches
    /\ m'.calls = m.calls /\ m'.noted = m.noted
    /\ m'.cands = m.cands /\ m'.wonders = m.wonders /\ m'.finals = m.finals
    /\ m'.seen = m.seen /\ m'.pair = m.pair /\ m'.review = m.review
    /\ Place(pc', m'.machine)
    /\ pc' \in {"stopping", "finish"} => m'.status \in {"completed", "stopped"}
    /\ Onward
    /\ Written

(* The counters and the budgets are numbers.                               *)
LEMMA Numbers ==
    ASSUME Types
    PROVE  /\ row.moves \in Nat /\ row.switches \in Nat /\ row.calls \in Nat
           /\ m.moves \in Nat /\ m.switches \in Nat /\ m.calls \in Nat /\ m.noted \in Nat
           /\ budget.moves \in Nat /\ budget.switches \in Nat /\ budget.calls \in Nat
           /\ budget.candidates \in Nat /\ budget.least \in Nat
           /\ budget.first \in BOOLEAN
           /\ Cardinality(wonder) \in Nat
           /\ MaxRetries \in Nat
  BY ConstantsAssumption, FS_CardinalityType DEF Types, RowType, RunType, Budget

(* The row stays, or becomes a checkpoint of the run.                      *)
LEMMA RowWritten ==
    ASSUME row \in RowType, m' \in RunType, Written
    PROVE  /\ row' \in RowType
           /\ \/ row' = row /\ (pc \in Unwritten => pc' \in Unwritten)
              \/ /\ row'.status = "running" /\ row'.moves = m'.moves
                 /\ row'.switches = m'.switches /\ row'.calls = m'.noted
  BY CheckpointType DEF Written

(* A quiet step keeps the invariant.                                       *)
LEMMA QuietKeeps ==
    ASSUME Inv, Quiet
    PROVE  Inv'
<1>1. row' \in RowType
  BY RowWritten DEF Inv, Types, Quiet
<1>2. \/ row' = row /\ (pc \in Unwritten => pc' \in Unwritten)
      \/ /\ row'.status = "running" /\ row'.moves = m'.moves
         /\ row'.switches = m'.switches /\ row'.calls = m'.noted
  BY RowWritten DEF Inv, Types, Quiet
<1>3. Types'
  BY <1>1 DEF Inv, Types, Quiet, Onward
<1>4. Machine'
  BY DEF Quiet, Machine
<1>5. Ends'
  BY <1>2 DEF Inv, Ends, Quiet, Onward, Live, Looking, Fresh, Judging, Ending, Failing
<1>6. Cands'
  BY DEF Inv, Cands, Quiet, Onward
<1>7. Reviews'
  BY DEF Inv, Reviews, Quiet, Onward, Unjudged, Fresh, Judged
<1>8. Wonders'
  BY <1>2 DEF Inv, Wonders, Quiet, Onward
<1>9. Firsts'
  BY DEF Inv, Firsts, Quiet, Onward, Looking, Fresh, Judging, Live, Ending, Failing
<1>10. Moves'
  BY <1>2 DEF Inv, Moves, Quiet, Onward
<1>11. Calls'
  BY <1>2, Numbers DEF Inv, Calls, Quiet, Onward, Unwritten
<1>12. Turned'
  BY DEF Inv, Turned, Quiet, Onward, Live, Looking, Fresh, Judging, Ending, Failing
<1> QED
  BY <1>3, <1>4, <1>5, <1>6, <1>7, <1>8, <1>9, <1>10, <1>11, <1>12 DEF Inv

(* The transitions the run asks for are in the table.                      *)
LEMMA Allowed ==
    /\ "seeding" \in Legal["idle"] /\ "wander" \in Legal["seeding"]
    /\ "collision" \in Legal["wander"]
    /\ "wander" \in Legal["collision"] /\ "generate" \in Legal["collision"]
    /\ "score" \in Legal["generate"] /\ "explore" \in Legal["score"]
    /\ "critique" \in Legal["explore"]
    /\ "persist" \in Legal["score"] /\ "persist" \in Legal["critique"]
    /\ "wander" \in Legal["score"] /\ "wander" \in Legal["critique"]
    /\ "surface" \in Legal["persist"] /\ "wander" \in Legal["surface"]
  BY DEF Legal

(* A transition from where the run is: it is recorded, and the run is on.  *)
LEMMA Goes ==
    ASSUME NEW n \in RunType, NEW t \in Machines, NEW next,
           t \in Legal[m.machine], Transition(n, t, next)
    PROVE  /\ m' = [n EXCEPT !.machine = t]
           /\ m' \in RunType
           /\ m'.machine = t
           /\ m'.moves = n.moves /\ m'.switches = n.switches
           /\ m'.calls = n.calls /\ m'.noted = n.noted
           /\ m'.cands = n.cands /\ m'.wonders = n.wonders /\ m'.finals = n.finals
           /\ m'.seen = n.seen /\ m'.pair = n.pair /\ m'.review = n.review
           /\ m'.status = n.status
           /\ row' = Checkpoint(m', "running")
           /\ pc' = next
<1>1. /\ m' = [n EXCEPT !.machine = t]
      /\ row' = Checkpoint([n EXCEPT !.machine = t], "running")
      /\ pc' = next
  BY DEF Transition, Record
<1> QED
  BY <1>1, MachineSet

(* _stop and _complete set the final status and nothing else.              *)
LEMMA Stops ==
    ASSUME NEW n \in RunType, NEW s \in {"completed", "stopped"}, StopAs(n, s)
    PROVE  /\ m' \in RunType
           /\ m'.machine = n.machine
           /\ m'.moves = n.moves /\ m'.switches = n.switches
           /\ m'.calls = n.calls /\ m'.noted = n.noted
           /\ m'.cands = n.cands /\ m'.wonders = n.wonders /\ m'.finals = n.finals
           /\ m'.seen = n.seen /\ m'.pair = n.pair /\ m'.review = n.review
           /\ m'.status \in {"completed", "stopped"}
           /\ row' = row
           /\ pc' = "stopping"
  BY DEF StopAs, RunType

(* Most actions record a transition, or end the loop.                      *)
LEMMA QuietSteps ==
    ASSUME Inv, UNCHANGED <<budget, crashes, errors>>,
           \/ Seeding \/ Patches \/ Collide \/ Weak \/ Operate \/ Score \/ Explore \/ Surface
           \/ Critique \/ Promote \/ TooLittle \/ Exhausted \/ Interrupted
           \/ Retrieved \/ Unreviewed \/ Surfaced \/ Stagnate \/ Stopping \/ Except
    PROVE  Quiet
<1> USE DEF Live, Looking, Fresh, Judging, Ending, Failing, Unjudged, Judged, Unwritten
<1>0. /\ m \in RunType /\ Place(pc, m.machine)
      /\ pc \in Unjudged => m.review = "none"
      /\ pc \in Failing => errors > 0
      /\ pc \in {"stopping", "finish"} => m.status \in {"completed", "stopped"}
  BY DEF Inv, Types, Machine, Reviews, Ends
<1>1. CASE Seeding
  <2>1. pc = "seeding" /\ Kept /\ Transition(m, "seeding", "patches")
    BY <1>1 DEF Seeding
  <2>2. "seeding" \in Legal[m.machine]
    BY <1>0, <2>1, Allowed DEF Place
  <2> QED
    BY <1>0, <2>1, <2>2, Goes DEF Kept, Quiet, Onward, Written, Place, Machines
<1>2. CASE Patches
  <2>1. pc = "patches" /\ Kept /\ Transition(m, "wander", "retrieved")
    BY <1>2 DEF Patches
  <2>2. "wander" \in Legal[m.machine]
    BY <1>0, <2>1, Allowed DEF Place
  <2> QED
    BY <1>0, <2>1, <2>2, Goes DEF Kept, Quiet, Onward, Written, Place, Machines
<1>3. CASE Collide
  <2>1. pc = "collision" /\ Kept /\ Transition(m, "collision", "bridge")
    BY <1>3 DEF Collide
  <2>2. "collision" \in Legal[m.machine]
    BY <1>0, <2>1, Allowed DEF Place
  <2> QED
    BY <1>0, <2>1, <2>2, Goes DEF Kept, Quiet, Onward, Written, Place, Machines
<1>4. CASE Weak
  <2>1. pc = "bridge" /\ Kept /\ Transition(m, "wander", "loop")
    BY <1>4 DEF Weak
  <2>2. "wander" \in Legal[m.machine]
    BY <1>0, <2>1, Allowed DEF Place
  <2> QED
    BY <1>0, <2>1, <2>2, Goes DEF Kept, Quiet, Onward, Written, Place, Machines
<1>5. CASE Operate
  <2>1. pc = "bridge" /\ Kept /\ Transition(m, "generate", "synthesis")
    BY <1>5 DEF Operate
  <2>2. "generate" \in Legal[m.machine]
    BY <1>0, <2>1, Allowed DEF Place
  <2> QED
    BY <1>0, <2>1, <2>2, Goes DEF Kept, Quiet, Onward, Written, Place, Machines
<1>6. CASE Score
  <2>1. pc = "score" /\ Kept /\ Transition(m, "score", "decide")
    BY <1>6 DEF Score
  <2>2. "score" \in Legal[m.machine]
    BY <1>0, <2>1, Allowed DEF Place
  <2> QED
    BY <1>0, <2>1, <2>2, Goes DEF Kept, Quiet, Onward, Written, Place, Machines
<1>7. CASE Explore
  <2>1. pc = "review" /\ m.calls < budget.calls /\ Kept /\ Transition(m, "explore", "reviewing")
    BY <1>7 DEF Explore
  <2>2. "explore" \in Legal[m.machine]
    BY <1>0, <2>1, Allowed DEF Place
  <2> QED
    BY <1>0, <2>1, <2>2, Goes DEF Kept, Quiet, Onward, Written, Place, Machines
<1>8. CASE Surface
  <2>1. pc = "surface" /\ Kept /\ Transition(m, "surface", "surfaced")
    BY <1>8 DEF Surface
  <2>2. "surface" \in Legal[m.machine]
    BY <1>0, <2>1, Allowed DEF Place
  <2> QED
    BY <1>0, <2>1, <2>2, Goes DEF Kept, Quiet, Onward, Written, Place, Machines
<1>9. CASE Critique
  <2>1. PICK next \in {"revise", "verdict"} :
            pc = "critique" /\ Kept /\ Transition(m, "critique", next)
    BY <1>9 DEF Critique
  <2>2. "critique" \in Legal[m.machine]
    BY <1>0, <2>1, Allowed DEF Place
  <2> QED
    BY <1>0, <2>1, <2>2, Goes DEF Kept, Quiet, Onward, Written, Place, Machines
<1>10. CASE Promote
  <2>1. pc = "verdict" /\ Kept /\ Transition(m, "persist", "wonder")
    BY <1>10 DEF Promote
  <2>2. "persist" \in Legal[m.machine]
    BY <1>0, <2>1, Allowed DEF Place
  <2>3. Reviewer => m.review \in {"pass", "fixable"}
    BY <1>10 DEF Promote, Surfaceable, Passed
  <2> QED
    BY <1>0, <2>1, <2>2, <2>3, Goes DEF Kept, Quiet, Onward, Written, Place, Machines
<1>11. CASE TooLittle \/ Exhausted \/ Interrupted
  <2>1. PICK s \in {"completed", "stopped"} :
            pc \in {"patches", "retrieved", "loop"} /\ Kept /\ StopAs(m, s)
    BY <1>11 DEF TooLittle, Exhausted, Interrupted
  <2> QED
    BY <1>0, <2>1, Stops DEF Kept, Quiet, Onward, Written, Place
<1>12. CASE Retrieved \/ Unreviewed
  <2>1. /\ m' = m /\ row' = row /\ Kept
        /\ \/ pc = "retrieved" /\ pc' = "loop"
           \/ pc = "review" /\ pc' = "verdict"
    BY <1>12 DEF Retrieved, Unreviewed
  <2> QED
    BY <1>0, <2>1 DEF Kept, Quiet, Onward, Written, Place
<1>13. CASE Surfaced
  <2> DEFINE n == [m EXCEPT !.stagnant = 0]
  <2>1. /\ n \in RunType /\ n.machine = m.machine
        /\ n.moves = m.moves /\ n.switches = m.switches
        /\ n.calls = m.calls /\ n.noted = m.noted
        /\ n.cands = m.cands /\ n.wonders = m.wonders /\ n.finals = m.finals
        /\ n.seen = m.seen /\ n.pair = m.pair /\ n.review = m.review
    BY <1>0 DEF RunType
  <2>2. /\ pc = "surfaced" /\ Kept
        /\ \/ StopAs(n, "completed")
           \/ ~budget.first /\ Transition(n, "wander", "loop")
    BY <1>13 DEF Surfaced, Reached
  <2>3. "wander" \in Legal[m.machine]
    BY <1>0, <2>2, Allowed DEF Place
  <2> HIDE DEF n
  <2>4. CASE StopAs(n, "completed")
    BY <1>0, <2>1, <2>2, <2>4, Stops DEF Kept, Quiet, Onward, Written, Place
  <2>5. CASE ~budget.first /\ Transition(n, "wander", "loop")
    BY <1>0, <2>1, <2>2, <2>3, <2>5, Goes DEF Kept, Quiet, Onward, Written, Place, Machines
  <2> QED
    BY <2>2, <2>4, <2>5
<1>14. CASE Stagnate
  <2>1. PICK n, next :
            /\ n \in RunType /\ n.machine = m.machine
            /\ n.moves = m.moves /\ n.switches = m.switches
            /\ n.calls = m.calls /\ n.noted = m.noted
            /\ n.cands = m.cands /\ n.wonders = m.wonders /\ n.finals = m.finals
            /\ n.seen = m.seen /\ n.pair = m.pair /\ n.review = m.review
            /\ next = "loop" \/ (next = "stopping" /\ n.status = "completed")
            /\ pc = "verdict" /\ Kept /\ Transition(n, "wander", next)
    <3> DEFINE n == [m EXCEPT !.stagnant = @ + 1]
    <3> DEFINE o == [n EXCEPT !.status = "completed"]
    <3>1. /\ n \in RunType /\ n.machine = m.machine
          /\ n.moves = m.moves /\ n.switches = m.switches
          /\ n.calls = m.calls /\ n.noted = m.noted
          /\ n.cands = m.cands /\ n.wonders = m.wonders /\ n.finals = m.finals
          /\ n.seen = m.seen /\ n.pair = m.pair /\ n.review = m.review
      <4>1. m.stagnant + 1 \in Nat
        BY <1>0 DEF RunType
      <4> QED
        BY <1>0, <4>1 DEF RunType
    <3> HIDE DEF n
    <3>2. /\ o \in RunType /\ o.machine = m.machine /\ o.status = "completed"
          /\ o.moves = m.moves /\ o.switches = m.switches
          /\ o.calls = m.calls /\ o.noted = m.noted
          /\ o.cands = m.cands /\ o.wonders = m.wonders /\ o.finals = m.finals
          /\ o.seen = m.seen /\ o.pair = m.pair /\ o.review = m.review
      BY <3>1 DEF RunType
    <3>3. /\ pc = "verdict" /\ Kept
          /\ \/ Transition(o, "wander", "stopping")
             \/ Transition(n, "wander", "loop")
      BY <1>14 DEF Stagnate, n
    <3> HIDE DEF o
    <3> QED
      BY <3>1, <3>2, <3>3
  <2>2. "wander" \in Legal[m.machine]
    BY <1>0, <2>1, Allowed DEF Place
  <2> QED
    BY <1>0, <2>1, <2>2, Goes DEF Kept, Quiet, Onward, Written, Place, Machines
<1>15. CASE Stopping
  <2>1. /\ pc = "stopping" /\ Kept
        /\ \/ "stopped" \in Legal[m.machine] /\ Transition(m, "stopped", "finish")
           \/ m' = m /\ row' = row /\ pc' = "finish"
    BY <1>15 DEF Stopping
  <2> QED
    BY <1>0, <2>1, Goes DEF Kept, Quiet, Onward, Written, Place, Machines
<1>16. CASE Except
  <2>1. /\ pc = "except" /\ Kept
        /\ \/ "failed" \in Legal[m.machine] /\ Transition(m, "failed", "fail")
           \/ m' = m /\ row' = row /\ pc' = "fail"
    BY <1>16 DEF Except
  <2> QED
    BY <1>0, <2>1, Goes DEF Kept, Quiet, Onward, Written, Place, Machines
<1> QED
  BY <1>1, <1>2, <1>3, <1>4, <1>5, <1>6, <1>7, <1>8, <1>9, <1>10, <1>11, <1>12, <1>13, <1>14, <1>15, <1>16

-----------------------------------------------------------------------------
(* The other steps, one lemma each.                                        *)

(* More calls take no fewer turns.                                         *)
LEMMA TurnsGrow ==
    ASSUME NEW a \in Nat, NEW b \in Nat, a <= b
    PROVE  TurnsOf(a) \in Nat /\ TurnsOf(a) <= TurnsOf(b)
<1>1. 1 + MaxRetries \in Nat
  BY ConstantsAssumption
<1>2. \A r \in Nat : r * a \in Nat /\ r * a <= r * b
  BY SMT
<1> QED
  BY <1>1, <1>2 DEF TurnsOf

(* One call more takes a turn and its retries more.                        *)
LEMMA TurnsOfOneMore ==
    ASSUME NEW a \in Nat
    PROVE  TurnsOf(a + 1) = TurnsOf(a) + (1 + MaxRetries)
<1>1. 1 + MaxRetries \in Nat
  BY ConstantsAssumption
<1>2. \A r \in Nat : r * (a + 1) = r * a + r
  BY SMT
<1> QED
  BY <1>1, <1>2 DEF TurnsOf

(* Before the first run.                                                   *)
LEMMA InitInv == Init => Inv
<1> SUFFICES ASSUME Init PROVE Inv
  OBVIOUS
<1> USE DEF Live, Looking, Fresh, Judging, Ending, Failing, Unjudged, Judged, Unwritten
<1>1. /\ wonder = {} /\ IsFiniteSet(wonder) /\ Cardinality(wonder) = 0
      /\ m = NoRun /\ m \in RunType /\ m.cands = {} /\ IsFiniteSet(m.cands)
  BY NoRunType, FS_EmptySet DEF Init, NoRun
<1>2. {p \in Pairs : rows[p] > 0} = {}
  BY DEF Init
<1>3. Types
  BY <1>1, ConstantsAssumption DEF Init, Types, RowType, NoRow, CandType, NoCand
<1>4. Machine /\ Ends /\ Reviews /\ Wonders /\ Firsts
  BY <1>1, <1>3, Numbers DEF Init, Machine, Place, Ends, Reviews, Wonders, Firsts, NoRow
<1>5. Cands
  BY <1>2, <1>3, Numbers, FS_EmptySet DEF Init, Cands
<1>6. Moves /\ Calls
  BY <1>3, Numbers DEF Init, Moves, Calls, NoRow
<1>7. Turned
  BY <1>3, Numbers, TurnsGrow DEF Init, Turned, NoRow, Types
<1> QED
  BY <1>3, <1>4, <1>5, <1>6, <1>7 DEF Inv

(* run() reads back what earlier runs have stored.                         *)
LEMMA BeginKeeps ==
    ASSUME Inv, Begin, UNCHANGED <<budget, crashes, errors>>
    PROVE  Inv'
<1> USE DEF Live, Looking, Fresh, Judging, Ending, Failing, Unjudged, Judged, Unwritten
<1> DEFINE old == {p \in Pairs : rows[p] > 0}
<1>1. /\ pc = "down" /\ row.status \notin Terminal /\ pc' = "seeding"
      /\ row \in RowType
      /\ UNCHANGED <<cand, rows, wonder, spent>>
  BY DEF Inv, Types, Begin, Kept
<1>2. /\ m' = [NoRun EXCEPT !.moves = row.moves, !.switches = row.switches,
                          !.calls = row.calls, !.noted = row.calls,
                          !.stagnant = row.stagnant, !.finals = row.finals,
                          !.cands = old, !.wonders = wonder, !.seen = old]
      /\ row' = [row EXCEPT !.status = "running"]
  BY DEF Begin
<1>3. /\ row' \in RowType /\ row'.status = "running"
      /\ row'.moves = row.moves /\ row'.switches = row.switches /\ row'.calls = row.calls
  BY <1>1, <1>2 DEF RowType
<1>4. /\ m' \in RunType /\ m'.machine = "idle"
      /\ m'.moves = row.moves /\ m'.switches = row.switches
      /\ m'.calls = row.calls /\ m'.noted = row.calls
      /\ m'.cands = old /\ m'.wonders = wonder /\ m'.seen = old
  <2>1. wonder \subseteq Pairs /\ old \subseteq Pairs
    BY DEF Inv, Types
  <2> HIDE DEF old
  <2> QED
    BY <1>1, <1>2, <2>1, NoRunType DEF RowType, RunType, NoRun
<1>5. Types'
  BY <1>1, <1>3, <1>4 DEF Inv, Types, Cands
<1>6. Machine' /\ Ends' /\ Reviews'
  BY <1>1, <1>3, <1>4 DEF Inv, Machine, Place, Ends, Reviews
<1>7. Cands'
  BY <1>1, <1>4 DEF Inv, Cands
<1>8. Wonders' /\ Firsts'
  BY <1>1, <1>3, <1>4 DEF Inv, Wonders, Firsts
<1>9. Moves' /\ Calls'
  BY <1>1, <1>3, <1>4, Numbers DEF Inv, Moves, Calls
<1>10. Turned'
  BY <1>1, <1>3, <1>4 DEF Inv, Turned
<1> QED
  BY <1>5, <1>6, <1>7, <1>8, <1>9, <1>10 DEF Inv

(* A crash forgets at most the call that the row has not counted yet.      *)
LEMMA CrashKeeps ==
    ASSUME Inv, Crash
    PROVE  Inv'
<1> USE DEF Live, Looking, Fresh, Judging, Ending, Failing, Unjudged, Judged, Unwritten
<1>1. /\ pc \in Live /\ pc' = "down" /\ crashes' = crashes + 1
      /\ m' \in RunType /\ m'.cands = {}
      /\ UNCHANGED <<budget, row, cand, rows, wonder, spent, errors>>
  BY NoRunType DEF Inv, Types, Crash, NoRun
<1>2. Types'
  BY <1>1, FS_EmptySet DEF Inv, Types
<1>3. Machine' /\ Ends' /\ Cands' /\ Reviews' /\ Wonders'
  BY <1>1 DEF Inv, Machine, Place, Ends, Cands, Reviews, Wonders
<1>4. Firsts' /\ Moves' /\ Calls'
  BY <1>1, Numbers DEF Inv, Types, Firsts, Moves, Calls
<1>5. Turned'
  <2>1. /\ {row.calls, m.calls, budget.calls, crashes, spent} \subseteq Nat
        /\ m.calls <= row.calls + 1 /\ spent <= TurnsOf(m.calls + crashes)
        /\ spent <= TurnsOf(budget.calls + crashes)
    BY <1>1, Numbers DEF Inv, Types, Calls, Turned
  <2>2. /\ m.calls + crashes <= row.calls + (crashes + 1)
        /\ budget.calls + crashes <= budget.calls + (crashes + 1)
        /\ {m.calls + crashes, row.calls + (crashes + 1), budget.calls + crashes,
            budget.calls + (crashes + 1)} \subseteq Nat
    BY <2>1
  <2>3. /\ TurnsOf(m.calls + crashes) <= TurnsOf(row.calls + (crashes + 1))
        /\ TurnsOf(budget.calls + crashes) <= TurnsOf(budget.calls + (crashes + 1))
        /\ TurnsOf(m.calls + crashes) \in Nat /\ TurnsOf(row.calls + (crashes + 1)) \in Nat
        /\ TurnsOf(budget.calls + crashes) \in Nat
        /\ TurnsOf(budget.calls + (crashes + 1)) \in Nat
    BY <2>2, TurnsGrow
  <2> QED
    BY <1>1, <2>1, <2>3 DEF Turned
<1> QED
  BY <1>2, <1>3, <1>4, <1>5 DEF Inv

(* An exception may come anywhere.                                         *)
LEMMA ErrorKeeps ==
    ASSUME Inv, Error
    PROVE  Inv'
<1> USE DEF Live, Looking, Fresh, Judging, Ending, Failing, Unjudged, Judged, Unwritten
<1>1. /\ pc \in Live /\ pc' = "except" /\ errors' = errors + 1
      /\ UNCHANGED <<budget, row, cand, rows, wonder, m, spent, crashes>>
  BY DEF Inv, Types, Error
<1>2. Types'
  BY <1>1 DEF Inv, Types
<1>3. Machine' /\ Ends' /\ Cands' /\ Reviews' /\ Wonders'
  BY <1>1 DEF Inv, Types, Machine, Place, Ends, Cands, Reviews, Wonders
<1>4. Firsts' /\ Moves' /\ Calls' /\ Turned'
  BY <1>1 DEF Inv, Firsts, Moves, Calls, Turned
<1> QED
  BY <1>2, <1>3, <1>4 DEF Inv

(* The last write of a run.                                                *)
LEMMA EndKeeps ==
    ASSUME Inv, Finish \/ Fail, UNCHANGED <<budget, crashes, errors>>
    PROVE  Inv'
<1> USE DEF Live, Looking, Fresh, Judging, Ending, Failing, Unjudged, Judged, Unwritten
<1>1. /\ pc \in {"finish", "fail"} /\ pc' = "done"
      /\ m \in RunType /\ row \in RowType
      /\ UNCHANGED <<cand, rows, wonder, spent>>
  BY DEF Inv, Types, Finish, Fail, Kept
<1>2. /\ m' \in RunType /\ m'.cands = m.cands
      /\ row' \in RowType /\ row'.moves = m.moves /\ row'.switches = m.switches
      /\ row'.calls = m.noted
      /\ row'.status = "failed" => errors > 0
      /\ row'.status \in {"completed", "stopped"} => row'.finals = wonder
  <2>1. CASE Finish
    <3> DEFINE n == [m EXCEPT !.finals = m.wonders]
    <3>1. /\ n \in RunType /\ n.cands = m.cands /\ n.moves = m.moves
          /\ n.switches = m.switches /\ n.noted = m.noted /\ n.finals = m.wonders
      BY <1>1 DEF RunType
    <3>2. m' = n /\ row' = Checkpoint(n, m.status) /\ pc = "finish"
      BY <2>1 DEF Finish
    <3> HIDE DEF n
    <3>3. m.status \in {"completed", "stopped"} /\ m.wonders = wonder
      BY <3>2 DEF Inv, Ends, Wonders
    <3> QED
      BY <3>1, <3>2, <3>3, CheckpointType
  <2>2. CASE Fail
    <3>1. m' = m /\ row' = Checkpoint(m, "failed") /\ pc = "fail"
      BY <2>2 DEF Fail
    <3>2. errors > 0
      BY <3>1 DEF Inv, Ends
    <3> QED
      BY <1>1, <3>1, <3>2, CheckpointType
  <2> QED
    BY <2>1, <2>2
<1>3. Types'
  BY <1>1, <1>2 DEF Inv, Types
<1>4. Machine' /\ Ends' /\ Cands' /\ Reviews' /\ Wonders' /\ Firsts'
  BY <1>1, <1>2 DEF Inv, Machine, Place, Ends, Cands, Reviews, Wonders, Firsts
<1>5. Moves' /\ Calls' /\ Turned'
  BY <1>1, <1>2, Numbers DEF Inv, Moves, Calls, Turned
<1> QED
  BY <1>3, <1>4, <1>5 DEF Inv


(* A pair beyond the switch budget is passed over.                         *)
LEMMA SkipKeeps ==
    ASSUME Inv, NEW p \in Pairs, Skip(p), UNCHANGED <<budget, crashes, errors>>
    PROVE  Inv'
<1> USE DEF Live, Looking, Fresh, Judging, Ending, Failing, Unjudged, Judged, Unwritten
<1>1. /\ pc = "loop" /\ pc' = "loop"
      /\ UNCHANGED <<row, cand, rows, wonder, spent>>
  BY DEF Skip, Kept
<1>2. /\ m' \in RunType /\ m'.machine = m.machine
      /\ m'.moves = m.moves /\ m'.switches = m.switches
      /\ m'.calls = m.calls /\ m'.noted = m.noted
      /\ m'.cands = m.cands /\ m'.wonders = m.wonders
      /\ m'.seen = m.seen \cup {p}
  BY DEF Inv, Types, RunType, Skip
<1>3. Types'
  BY <1>1, <1>2 DEF Inv, Types
<1>4. Machine' /\ Ends' /\ Cands' /\ Reviews' /\ Wonders' /\ Firsts'
  BY <1>1, <1>2 DEF Inv, Machine, Place, Ends, Cands, Reviews, Wonders, Firsts
<1>5. Moves' /\ Calls' /\ Turned'
  BY <1>1, <1>2 DEF Inv, Moves, Calls, Turned
<1> QED
  BY <1>3, <1>4, <1>5 DEF Inv

(* A pair the run has not seen has no candidate and no wonder.             *)
LEMMA MoveKeeps ==
    ASSUME Inv, NEW p \in Pairs, Move(p), UNCHANGED <<budget, crashes, errors>>
    PROVE  Inv'
<1> USE DEF Live, Looking, Fresh, Judging, Ending, Failing, Unjudged, Judged, Unwritten
<1> DEFINE n == [m EXCEPT !.seen = @ \cup {p}, !.pair = p, !.moves = @ + 1,
                          !.switches = IF Switches(p) THEN @ + 1 ELSE @,
                          !.decision = "none", !.review = "none"]
<1>1. /\ pc = "loop" /\ pc' = "collision" /\ m' = n /\ row' = Checkpoint(n, "running")
      /\ UNCHANGED <<cand, rows, wonder, spent>>
      /\ p \notin m.seen
      /\ Cardinality(m.cands) < budget.candidates /\ m.moves < budget.moves
      /\ Switches(p) => m.switches < budget.switches
  BY DEF Move, Record, Kept, Affords, Left
<1>2. /\ n \in RunType /\ n.machine = m.machine
      /\ n.moves = m.moves + 1
      /\ n.switches = (IF Switches(p) THEN m.switches + 1 ELSE m.switches)
      /\ n.calls = m.calls /\ n.noted = m.noted
      /\ n.cands = m.cands /\ n.wonders = m.wonders /\ n.seen = m.seen \cup {p}
      /\ n.pair = p /\ n.review = "none"
  <2>1. /\ m \in RunType /\ m.moves + 1 \in Nat /\ m.switches + 1 \in Nat
    BY DEF Inv, Types, RunType
  <2> QED
    BY <2>1 DEF RunType
<1> HIDE DEF n
<1>3. /\ row' \in RowType /\ row'.status = "running"
      /\ row'.moves = n.moves /\ row'.switches = n.switches /\ row'.calls = n.noted
  BY <1>1, <1>2, CheckpointType
<1>4. Types'
  BY <1>1, <1>2, <1>3 DEF Inv, Types
<1>5. rows[p] = 0
  <2>1. rows[p] \in Nat /\ ~(rows[p] > 0)
    BY <1>1 DEF Inv, Types, Cands
  <2> QED
    BY <2>1
<1>6. p \notin wonder
  BY <1>5 DEF Inv, Wonders
<1>7. Machine' /\ Ends' /\ Cands' /\ Reviews' /\ Wonders' /\ Firsts'
  BY <1>1, <1>2, <1>3, <1>5, <1>6
  DEF Inv, Machine, Place, Ends, Cands, Reviews, Wonders, Firsts
<1>8. Moves' /\ Calls' /\ Turned'
  BY <1>1, <1>2, <1>3, Numbers DEF Inv, Moves, Calls, Turned
<1> QED
  BY <1>4, <1>7, <1>8 DEF Inv

(* A call, retried or not, is paid for by the call the run counts.         *)
LEMMA CallPaid ==
    ASSUME Inv, pc \in Live, NEW t \in Turns, spent' = spent + t, m.calls < budget.calls
    PROVE  /\ spent' \in Nat
           /\ spent' <= TurnsOf((m.calls + 1) + crashes)
           /\ spent' <= TurnsOf(budget.calls + crashes)
<1>1. /\ {m.calls, budget.calls, crashes, spent, t, MaxRetries} \subseteq Nat
      /\ t <= 1 + MaxRetries /\ spent <= TurnsOf(m.calls + crashes)
  BY Numbers, ConstantsAssumption DEF Inv, Types, Turns, Turned
<1>2. /\ m.calls + crashes \in Nat /\ (m.calls + 1) + crashes = (m.calls + crashes) + 1
      /\ (m.calls + 1) + crashes \in Nat /\ budget.calls + crashes \in Nat
      /\ (m.calls + 1) + crashes <= budget.calls + crashes
  BY <1>1
<1>3. /\ TurnsOf(m.calls + crashes) \in Nat
      /\ TurnsOf((m.calls + 1) + crashes) \in Nat /\ TurnsOf(budget.calls + crashes) \in Nat
      /\ TurnsOf((m.calls + 1) + crashes) = TurnsOf(m.calls + crashes) + (1 + MaxRetries)
      /\ TurnsOf((m.calls + 1) + crashes) <= TurnsOf(budget.calls + crashes)
  BY <1>2, TurnsGrow, TurnsOfOneMore
<1> QED
  BY <1>1, <1>3

(* The draft is paid for before it is counted in the row.                  *)
LEMMA SynthesizeKeeps ==
    ASSUME Inv, Synthesize, UNCHANGED <<budget, crashes, errors>>
    PROVE  Inv'
<1> USE DEF Live, Looking, Fresh, Judging, Ending, Failing, Unjudged, Judged, Unwritten
<1>1. /\ pc = "synthesis" /\ pc' = "create" /\ m \in RunType
      /\ UNCHANGED <<cand, rows, wonder>>
  BY DEF Inv, Types, Synthesize, Record
<1>2. CASE m' = m /\ row' = row /\ spent' = spent
  <2>1. Types' /\ Machine' /\ Ends' /\ Cands' /\ Reviews' /\ Wonders' /\ Firsts'
    BY <1>1, <1>2
    DEF Inv, Types, Machine, Place, Ends, Cands, Reviews, Wonders, Firsts
  <2>2. Moves' /\ Calls' /\ Turned'
    BY <1>1, <1>2 DEF Inv, Moves, Calls, Turned
  <2> QED
    BY <2>1, <2>2 DEF Inv
<1>3. CASE ~(m' = m /\ row' = row /\ spent' = spent)
  <2> DEFINE n == [m EXCEPT !.calls = @ + 1]
  <2>1. PICK t \in Turns : /\ spent' = spent + t /\ m.calls < budget.calls
                           /\ m' = n /\ row' = Checkpoint(n, "running")
    BY <1>3 DEF Synthesize, Record
  <2>2. /\ n \in RunType /\ n.machine = m.machine
        /\ n.moves = m.moves /\ n.switches = m.switches
        /\ n.calls = m.calls + 1 /\ n.noted = m.noted
        /\ n.cands = m.cands /\ n.wonders = m.wonders /\ n.seen = m.seen
        /\ n.pair = m.pair /\ n.review = m.review
    <3>1. m.calls + 1 \in Nat
      BY <1>1 DEF RunType
    <3> QED
      BY <1>1, <3>1 DEF RunType
  <2> HIDE DEF n
  <2>3. /\ row' \in RowType /\ row'.status = "running"
        /\ row'.moves = n.moves /\ row'.switches = n.switches /\ row'.calls = n.noted
    BY <2>1, <2>2, CheckpointType
  <2>4. /\ spent' \in Nat
        /\ spent' <= TurnsOf((m.calls + 1) + crashes)
        /\ spent' <= TurnsOf(budget.calls + crashes)
    BY <1>1, <2>1, CallPaid
  <2>5. Types' /\ Machine' /\ Ends' /\ Cands' /\ Reviews' /\ Wonders' /\ Firsts'
    BY <1>1, <2>1, <2>2, <2>3, <2>4
    DEF Inv, Types, Machine, Place, Ends, Cands, Reviews, Wonders, Firsts
  <2>6. Moves' /\ Turned'
    BY <1>1, <2>1, <2>2, <2>3, <2>4 DEF Inv, Moves, Turned
  <2>7. Calls'
    BY <1>1, <2>1, <2>2, <2>3, Numbers DEF Inv, Calls
  <2> QED
    BY <2>5, <2>6, <2>7 DEF Inv
<1> QED
  BY <1>2, <1>3


(* The first candidate row of the pair.                                    *)
LEMMA CreateKeeps ==
    ASSUME Inv, Create, UNCHANGED <<budget, crashes, errors>>
    PROVE  Inv'
<1> USE DEF Live, Looking, Fresh, Judging, Ending, Failing, Unjudged, Judged, Unwritten
<1>1. /\ pc = "create" /\ pc' = "score" /\ m \in RunType
      /\ m.pair \in Pairs /\ m.pair \in m.seen /\ rows[m.pair] = 0 /\ m.pair \notin wonder
      /\ cand' = [cand EXCEPT ![m.pair].status = "generated"]
      /\ rows' = [rows EXCEPT ![m.pair] = @ + 1]
      /\ m' = [m EXCEPT !.cands = @ \cup {m.pair}, !.noted = m.calls]
      /\ UNCHANGED <<row, wonder, spent>>
  BY DEF Inv, Types, Cands, Wonders, Create
<1>2. /\ m' \in RunType /\ m'.machine = m.machine
      /\ m'.moves = m.moves /\ m'.switches = m.switches
      /\ m'.calls = m.calls /\ m'.noted = m.calls
      /\ m'.cands = m.cands \cup {m.pair} /\ m'.wonders = m.wonders /\ m'.seen = m.seen
      /\ m'.pair = m.pair /\ m'.review = m.review
  BY <1>1 DEF RunType
<1>3. /\ rows \in [Pairs -> Nat] /\ rows' \in [Pairs -> Nat]
      /\ rows'[m.pair] = 1 /\ \A p \in Pairs : p # m.pair => rows'[p] = rows[p]
  BY <1>1 DEF Inv, Types
<1>4. /\ cand' \in [Pairs -> CandType]
      /\ \A p \in Pairs : cand'[p].review = cand[p].review
  <2>1. cand \in [Pairs -> CandType]
    BY DEF Inv, Types
  <2> QED
    BY <1>1, <2>1 DEF CandType
<1>5. {p \in Pairs : rows'[p] > 0} = m'.cands
  BY <1>1, <1>2, <1>3 DEF Inv, Cands
<1>6. IsFiniteSet(m'.cands) /\ Cardinality(m'.cands) <= budget.candidates
  <2>1. /\ IsFiniteSet(m.cands) /\ Cardinality(m.cands) < budget.candidates
        /\ budget.candidates \in Nat
    BY <1>1, Numbers DEF Inv, Types, Cands
  <2>2. m.pair \notin m.cands
    BY <1>1 DEF Inv, Cands
  <2> QED
    <3>1. /\ IsFiniteSet(m.cands \cup {m.pair})
          /\ Cardinality(m.cands \cup {m.pair}) = Cardinality(m.cands) + 1
          /\ Cardinality(m.cands) \in Nat
      BY <2>1, <2>2, FS_AddElement, FS_CardinalityType
    <3> QED
      BY <1>2, <2>1, <3>1
<1>7. Types'
  BY <1>1, <1>2, <1>3, <1>4, <1>6 DEF Inv, Types
<1>8. Cands'
  BY <1>1, <1>2, <1>3, <1>5, <1>6 DEF Inv, Cands
<1>9. Wonders'
  BY <1>1, <1>2, <1>3, <1>4 DEF Inv, Types, Wonders
<1>10. Machine' /\ Ends' /\ Reviews' /\ Firsts'
  BY <1>1, <1>2 DEF Inv, Machine, Place, Ends, Reviews, Firsts
<1>11. Moves' /\ Calls' /\ Turned'
  BY <1>1, <1>2, Numbers DEF Inv, Moves, Calls, Turned
<1> QED
  BY <1>7, <1>8, <1>9, <1>10, <1>11 DEF Inv

(* The decision about a candidate, also about a revised one.               *)
LEMMA JudgeKeeps ==
    ASSUME Inv, Decide \/ Revise, UNCHANGED <<budget, crashes, errors>>
    PROVE  Inv'
<1> USE DEF Live, Looking, Fresh, Judging, Ending, Failing, Unjudged, Judged, Unwritten
<1>1. PICK d \in {"reject", "keep", "deep", "surface"} :
          /\ m' = [m EXCEPT !.decision = d]
          /\ cand' = [cand EXCEPT ![m.pair].status = Outcome(d)]
  BY DEF Decide, Revise
<1>2. /\ \/ pc = "decide" /\ pc' = "review"
         \/ pc = "revise" /\ pc' = "verdict"
      /\ m \in RunType /\ m.pair \in Pairs
      /\ UNCHANGED <<row, rows, wonder, spent>>
  BY DEF Inv, Types, Cands, Decide, Revise
<1>3. /\ m' \in RunType /\ m'.machine = m.machine
      /\ m'.moves = m.moves /\ m'.switches = m.switches
      /\ m'.calls = m.calls /\ m'.noted = m.noted
      /\ m'.cands = m.cands /\ m'.wonders = m.wonders /\ m'.seen = m.seen
      /\ m'.pair = m.pair /\ m'.review = m.review
  BY <1>1, <1>2 DEF RunType
<1>4. /\ cand' \in [Pairs -> CandType]
      /\ \A p \in Pairs : cand'[p].review = cand[p].review
  <2>1. cand \in [Pairs -> CandType] /\ Outcome(d) \in {"rejected", "filtered", "promising"}
    BY DEF Inv, Types, Outcome
  <2> QED
    BY <1>1, <1>2, <2>1 DEF CandType
<1>5. Types'
  BY <1>2, <1>3, <1>4 DEF Inv, Types
<1>6. Machine' /\ Ends' /\ Cands' /\ Reviews' /\ Firsts'
  BY <1>2, <1>3, <1>4 DEF Inv, Machine, Place, Ends, Cands, Reviews, Firsts
<1>7. Wonders'
  BY <1>2, <1>3, <1>4 DEF Inv, Types, Wonders
<1>8. Moves' /\ Calls' /\ Turned'
  BY <1>2, <1>3 DEF Inv, Moves, Calls, Turned
<1> QED
  BY <1>5, <1>6, <1>7, <1>8 DEF Inv

(* A review that cannot be paid for is marked as skipped.                  *)
LEMMA SkipReviewKeeps ==
    ASSUME Inv, SkipReview, UNCHANGED <<budget, crashes, errors>>
    PROVE  Inv'
<1> USE DEF Live, Looking, Fresh, Judging, Ending, Failing, Unjudged, Judged, Unwritten
<1>1. /\ pc = "review" /\ pc' = "verdict" /\ m' = m /\ row' = Checkpoint(m, "running")
      /\ m \in RunType /\ m.pair \in Pairs /\ m.pair \notin wonder /\ m.review = "none"
      /\ cand' = [cand EXCEPT ![m.pair].review = "skipped"]
      /\ UNCHANGED <<rows, wonder, spent>>
  BY DEF Inv, Types, Cands, Wonders, Reviews, SkipReview, Record
<1>2. /\ row' \in RowType /\ row'.status = "running"
      /\ row'.moves = m.moves /\ row'.switches = m.switches /\ row'.calls = m.noted
  BY <1>1, CheckpointType
<1>3. /\ cand' \in [Pairs -> CandType]
      /\ \A p \in Pairs : p # m.pair => cand'[p] = cand[p]
  BY <1>1 DEF Inv, Types, CandType
<1>4. Types'
  BY <1>1, <1>2, <1>3 DEF Inv, Types
<1>5. Machine' /\ Ends' /\ Cands' /\ Reviews' /\ Firsts'
  BY <1>1, <1>2, <1>3 DEF Inv, Machine, Place, Ends, Cands, Reviews, Firsts
<1>6. Wonders'
  BY <1>1, <1>2, <1>3 DEF Inv, Types, Wonders
<1>7. Moves' /\ Calls' /\ Turned'
  BY <1>1, <1>2, Numbers DEF Inv, Moves, Calls, Turned
<1> QED
  BY <1>4, <1>5, <1>6, <1>7 DEF Inv

(* A review is a call and leaves a verdict.                                *)
LEMMA ReviewKeeps ==
    ASSUME Inv, Review, UNCHANGED <<budget, crashes, errors>>
    PROVE  Inv'
<1> USE DEF Live, Looking, Fresh, Judging, Ending, Failing, Unjudged, Judged, Unwritten
<1>1. /\ pc = "reviewing" /\ pc' = "reviewed" /\ m \in RunType
      /\ UNCHANGED <<row, cand, rows, wonder>>
  BY DEF Inv, Types, Review
<1>2. PICK t \in Turns, v \in {"pass", "weak", "revise", "fixable", "reject"} :
          /\ spent' = spent + t
          /\ m' = [m EXCEPT !.review = v, !.calls = @ + 1, !.noted = m.calls + 1]
  BY DEF Review
<1>3. /\ m' \in RunType /\ m'.machine = m.machine
      /\ m'.moves = m.moves /\ m'.switches = m.switches
      /\ m'.calls = m.calls + 1 /\ m'.noted = m.calls + 1
      /\ m'.cands = m.cands /\ m'.wonders = m.wonders /\ m'.seen = m.seen
      /\ m'.pair = m.pair
  <2>1. m.calls + 1 \in Nat
    BY <1>1 DEF RunType
  <2> QED
    BY <1>1, <1>2, <2>1 DEF RunType
<1>4. m.calls < budget.calls
  BY <1>1 DEF Inv, Calls
<1>5. /\ spent' \in Nat
      /\ spent' <= TurnsOf((m.calls + 1) + crashes)
      /\ spent' <= TurnsOf(budget.calls + crashes)
  BY <1>1, <1>2, <1>4, CallPaid
<1>6. Types'
  BY <1>1, <1>3, <1>5 DEF Inv, Types
<1>7. Machine' /\ Ends' /\ Cands' /\ Reviews' /\ Wonders' /\ Firsts'
  BY <1>1, <1>3 DEF Inv, Machine, Place, Ends, Cands, Reviews, Wonders, Firsts
<1>8. Moves' /\ Turned'
  BY <1>1, <1>3, <1>5 DEF Inv, Moves, Turned
<1>9. Calls'
  BY <1>1, <1>3, <1>4, Numbers DEF Inv, Calls
<1> QED
  BY <1>6, <1>7, <1>8, <1>9 DEF Inv

(* The verdict goes into the candidate row.                                *)
LEMMA ReviewedKeeps ==
    ASSUME Inv, Reviewed, UNCHANGED <<budget, crashes, errors>>
    PROVE  Inv'
<1> USE DEF Live, Looking, Fresh, Judging, Ending, Failing, Unjudged, Judged, Unwritten
<1> DEFINE s == CASE m.review = "reject" -> "rejected"
                  [] m.review \in {"revise", "fixable"} -> "filtered"
                  [] OTHER -> "explored"
<1>1. /\ pc = "reviewed" /\ pc' = "critique" /\ m' = m
      /\ m \in RunType /\ m.pair \in Pairs /\ m.pair \notin wonder
      /\ UNCHANGED <<row, rows, wonder, spent>>
  BY DEF Inv, Types, Cands, Wonders, Reviewed
<1>2. cand' = [cand EXCEPT ![m.pair].review = m.review, ![m.pair].status = s]
  BY DEF Reviewed
<1>3. s \in {"rejected", "filtered", "explored"}
  OBVIOUS
<1> HIDE DEF s
<1>4. /\ cand' \in [Pairs -> CandType]
      /\ cand'[m.pair].review = m.review
      /\ \A p \in Pairs : p # m.pair => cand'[p] = cand[p]
  <2>1. /\ cand \in [Pairs -> CandType]
        /\ m.review \in {"none", "pass", "weak", "revise", "fixable", "reject"}
    BY <1>1 DEF Inv, Types, RunType
  <2> QED
    BY <1>1, <1>2, <1>3, <2>1 DEF CandType
<1>5. Types'
  BY <1>1, <1>4 DEF Inv, Types
<1>6. Machine' /\ Ends' /\ Cands' /\ Reviews' /\ Firsts'
  BY <1>1, <1>4 DEF Inv, Machine, Place, Ends, Cands, Reviews, Firsts
<1>7. Wonders'
  BY <1>1, <1>4 DEF Inv, Types, Wonders
<1>8. Moves' /\ Calls' /\ Turned'
  BY <1>1 DEF Inv, Moves, Calls, Turned
<1> QED
  BY <1>5, <1>6, <1>7, <1>8 DEF Inv

(* The wonder row, before the run remembers it.                            *)
LEMMA CreateWonderKeeps ==
    ASSUME Inv, CreateWonder, UNCHANGED <<budget, crashes, errors>>
    PROVE  Inv'
<1> USE DEF Live, Looking, Fresh, Judging, Ending, Failing, Unjudged, Judged, Unwritten
<1>1. /\ pc = "wonder" /\ pc' = "promoted" /\ m' = m /\ wonder' = wonder \cup {m.pair}
      /\ m.pair \in Pairs /\ rows[m.pair] = 1 /\ m.pair \notin wonder /\ m.wonders = wonder
      /\ row.status \notin Terminal
      /\ UNCHANGED <<row, cand, rows, spent>>
  BY DEF Inv, Cands, Wonders, Ends, CreateWonder
<1>2. Reviewer => cand[m.pair].review \in {"pass", "fixable"}
  BY <1>1 DEF Inv, Reviews
<1>3. IsFiniteSet(wonder') /\ Cardinality(wonder') = Cardinality(wonder) + 1
  BY <1>1, FS_AddElement DEF Inv, Types
<1>4. Types'
  BY <1>1, <1>3 DEF Inv, Types
<1>5. Machine' /\ Ends' /\ Cands' /\ Reviews'
  BY <1>1 DEF Inv, Machine, Place, Ends, Cands, Reviews
<1>6. Wonders'
  BY <1>1, <1>2 DEF Inv, Wonders
<1>7. Firsts'
  BY <1>1, <1>3, Numbers DEF Inv, Types, Firsts
<1>8. Moves' /\ Calls' /\ Turned'
  BY <1>1 DEF Inv, Moves, Calls, Turned
<1> QED
  BY <1>4, <1>5, <1>6, <1>7, <1>8 DEF Inv

(* The run remembers the wonder it has stored.                             *)
LEMMA PromotedKeeps ==
    ASSUME Inv, Promoted, UNCHANGED <<budget, crashes, errors>>
    PROVE  Inv'
<1> USE DEF Live, Looking, Fresh, Judging, Ending, Failing, Unjudged, Judged, Unwritten
<1>1. /\ pc = "promoted" /\ pc' = "surface" /\ m \in RunType /\ m.pair \in Pairs
      /\ cand' = [cand EXCEPT ![m.pair].status = "promoted"]
      /\ m' = [m EXCEPT !.wonders = @ \cup {m.pair}, !.finals = @ \cup {m.pair}]
      /\ UNCHANGED <<row, rows, wonder, spent>>
  BY DEF Inv, Types, Cands, Promoted
<1>2. /\ m' \in RunType /\ m'.machine = m.machine
      /\ m'.moves = m.moves /\ m'.switches = m.switches
      /\ m'.calls = m.calls /\ m'.noted = m.noted
      /\ m'.cands = m.cands /\ m'.wonders = m.wonders \cup {m.pair} /\ m'.seen = m.seen
      /\ m'.pair = m.pair /\ m'.review = m.review
  BY <1>1 DEF RunType
<1>3. /\ cand' \in [Pairs -> CandType]
      /\ \A p \in Pairs : cand'[p].review = cand[p].review
  <2>1. cand \in [Pairs -> CandType]
    BY DEF Inv, Types
  <2> QED
    BY <1>1, <2>1 DEF CandType
<1>4. Types'
  BY <1>1, <1>2, <1>3 DEF Inv, Types
<1>5. Machine' /\ Ends' /\ Cands' /\ Reviews' /\ Firsts'
  BY <1>1, <1>2, <1>3 DEF Inv, Machine, Place, Ends, Cands, Reviews, Firsts
<1>6. Wonders'
  BY <1>1, <1>2, <1>3 DEF Inv, Types, Wonders
<1>7. Moves' /\ Calls' /\ Turned'
  BY <1>1, <1>2 DEF Inv, Moves, Calls, Turned
<1> QED
  BY <1>4, <1>5, <1>6, <1>7 DEF Inv

-----------------------------------------------------------------------------
(* The theorems.                                                           *)

(* Every step of a run keeps the invariant.                                *)
LEMMA StepKeeps == Inv /\ Step => Inv'
<1> SUFFICES ASSUME Inv, Step PROVE Inv'
  OBVIOUS
<1>1. UNCHANGED <<budget, crashes, errors>>
  BY DEF Step
<1>2. CASE \/ Seeding \/ Patches \/ Collide \/ Weak \/ Operate \/ Score \/ Explore \/ Surface
           \/ Critique \/ Promote \/ TooLittle \/ Exhausted \/ Interrupted
           \/ Retrieved \/ Unreviewed \/ Surfaced \/ Stagnate \/ Stopping \/ Except
  BY <1>1, <1>2, QuietSteps, QuietKeeps
<1>3. CASE \E p \in Pairs : Skip(p) \/ Move(p)
  BY <1>1, <1>3, SkipKeeps, MoveKeeps
<1>4. CASE \/ Begin \/ Synthesize \/ Create \/ Decide \/ Revise \/ SkipReview \/ Review
           \/ Reviewed \/ CreateWonder \/ Promoted \/ Finish \/ Fail
  BY <1>1, <1>4, BeginKeeps, SynthesizeKeeps, CreateKeeps, JudgeKeeps, SkipReviewKeeps,
     ReviewKeeps, ReviewedKeeps, CreateWonderKeeps, PromotedKeeps, EndKeeps
<1> QED
  BY <1>2, <1>3, <1>4 DEF Step

(* What the run remembers agrees with what it has written, in every state  *)
(* of every session, however often the process dies.                       *)
THEOREM Inductive == Spec => []Inv
<1>1. Inv /\ [Next]_vars => Inv'
  <2> SUFFICES ASSUME Inv, [Next]_vars PROVE Inv'
    OBVIOUS
  <2>1. CASE Next
    BY <2>1, StepKeeps, ErrorKeeps, CrashKeeps DEF Next
  <2>2. CASE UNCHANGED vars
    BY <2>2 DEF vars, Inv, Types, Machine, Ends, Cands, Reviews, Wonders, Firsts, Moves,
               Calls, Turned
  <2> QED
    BY <2>1, <2>2
<1> QED
  BY InitInv, <1>1, PTL DEF Spec

(* No pair gets a second candidate, whatever the run that made the first   *)
(* one had written when it was interrupted.                                *)
THEOREM PairsOnce == Spec => []PairOnce
<1>1. Inv => PairOnce
  BY DEF Inv, Cands, PairOnce
<1> QED
  BY Inductive, <1>1, PTL

(* The session's budgets bound all its runs together.                      *)
THEOREM BudgetsAreKept == Spec => []BudgetsKept
<1>1. Inv => BudgetsKept
  BY DEF Inv, Cands, Moves, Firsts, BudgetsKept
<1> QED
  BY Inductive, <1>1, PTL

(* A crash costs at most one call beyond max_runtime_calls.                *)
THEOREM CallsAreBounded == Spec => []CallsBounded
<1>1. Inv => CallsBounded
  BY DEF Inv, Turned, TurnsOf, CallsBounded
<1> QED
  BY Inductive, <1>1, PTL

(* No wonder without a candidate, and none unreviewed by a reviewer.       *)
THEOREM WondersAreEarned == Spec => []WondersEarned
<1>1. Inv => WondersEarned
  BY DEF Inv, Wonders, WondersEarned
<1> QED
  BY Inductive, <1>1, PTL

(* A session that ended in good order names its wonders, all of them.      *)
THEOREM FinalsAreComplete == Spec => []FinalsComplete
<1>1. Inv => FinalsComplete
  BY DEF Inv, Wonders, FinalsComplete
<1> QED
  BY Inductive, <1>1, PTL

(* The state machine refuses nothing: a session fails for an exception.    *)
THEOREM FailuresHaveCause == Spec => []FailsForCause
<1>1. Inv => FailsForCause
  BY DEF Inv, Ends, FailsForCause
<1> QED
  BY Inductive, <1>1, PTL
=============================================================================
