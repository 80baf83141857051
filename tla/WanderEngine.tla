---------------------------- MODULE WanderEngine ----------------------------
(***************************************************************************)
(* WanderEngine.run for one session: the loop over pairs of knowledge      *)
(* items, its budgets, the cognitive state machine, and the rows it leaves *)
(* behind.  A crash may come between any two awaits; recover() then runs   *)
(* the session again from its row, its candidates and its wonders.         *)
(*                                                                         *)
(* The engine changes its copy of the session in memory (m) and writes the *)
(* whole copy at every step it records; what was changed since is lost in  *)
(* a crash.  Candidates and wonders are rows of their own.                 *)
(***************************************************************************)
EXTENDS Naturals, FiniteSets

CONSTANTS
    Pairs,       \* pairs of knowledge items
    Remote,      \* those whose items lie in two patches
    Budgets,     \* the session budgets considered
    Synthesizer, \* a candidate synthesizer is configured
    Reviewer,    \* a candidate reviewer is configured
    MaxRetries,  \* retries of one runtime call
    MaxCrashes,  \* bound: crashes of the process
    MaxErrors    \* bound: exceptions raised by a call of the engine

Budget == [moves : Nat \ {0}, switches : Nat, candidates : Nat \ {0}, least : Nat \ {0},
           target : Nat \ {0}, stagnant : Nat \ {0}, first : BOOLEAN, calls : Nat]

ASSUME ConstantsAssumption ==
    /\ Remote \subseteq Pairs
    /\ Budgets \subseteq Budget
    /\ \A b \in Budgets : b.least <= b.candidates
    /\ Synthesizer \in BOOLEAN /\ Reviewer \in BOOLEAN
    /\ {MaxRetries, MaxCrashes, MaxErrors} \subseteq Nat

VARIABLES
    budget,    \* the session's budget
    row,       \* the session row
    cand,      \* the candidate row of a pair
    rows,      \* how many candidate rows a pair has
    wonder,    \* pairs with a wonder row
    m,         \* the run in memory
    pc,        \* where the run is, "down" after a crash
    spent,     \* turns the agent runtime was asked for
    crashes,
    errors

vars == <<budget, row, cand, rows, wonder, m, pc, spent, crashes, errors>>

Terminal == {"completed", "stopped", "failed"}
NoRow    == [status |-> "pending", moves |-> 0, switches |-> 0, calls |-> 0,
             stagnant |-> 0, finals |-> {}]
NoCand   == [status |-> "none", review |-> "none"]
NoRun    == [machine |-> "idle", moves |-> 0, switches |-> 0, calls |-> 0, noted |-> 0,
             stagnant |-> 0, cands |-> {}, wonders |-> {}, finals |-> {}, seen |-> {},
             pair |-> CHOOSE p \in Pairs : TRUE, decision |-> "none", review |-> "none",
             status |-> "none"]

Init ==
    /\ budget \in Budgets
    /\ row = NoRow
    /\ cand = [p \in Pairs |-> NoCand]
    /\ rows = [p \in Pairs |-> 0]
    /\ wonder = {}
    /\ m = NoRun
    /\ pc = "down"
    /\ spent = 0
    /\ crashes = 0
    /\ errors = 0

-----------------------------------------------------------------------------
(* The state machine and the checkpoints.                                  *)

(* Bug variant: a reviewed candidate may not be persisted.                 *)
LegalUncritical ==
    [idle      |-> {"seeding", "stopped", "failed"},
     seeding   |-> {"wander", "stopped", "failed"},
     wander    |-> {"collision", "stopped", "failed"},
     collision |-> {"generate", "wander", "stopped", "failed"},
     generate  |-> {"score", "wander", "failed"},
     score     |-> {"explore", "wander", "persist", "stopped", "failed"},
     explore   |-> {"critique", "persist", "wander", "failed"},
     critique  |-> {"wander", "stopped", "failed"},
     persist   |-> {"surface", "wander", "failed"},
     surface   |-> {"wander", "stopped"},
     stopped   |-> {},
     failed    |-> {}]

Legal ==
    [idle      |-> {"seeding", "stopped", "failed"},
     seeding   |-> {"wander", "stopped", "failed"},
     wander    |-> {"collision", "stopped", "failed"},
     collision |-> {"generate", "wander", "stopped", "failed"},
     generate  |-> {"score", "wander", "failed"},
     score     |-> {"explore", "wander", "persist", "stopped", "failed"},
     explore   |-> {"critique", "persist", "wander", "failed"},
     critique  |-> {"persist", "wander", "stopped", "failed"},
     persist   |-> {"surface", "wander", "failed"},
     surface   |-> {"wander", "stopped"},
     stopped   |-> {},
     failed    |-> {}]

(* The copy as it is written; calls are written as last noted.             *)
Checkpoint(n, status) ==
    [status |-> status, moves |-> n.moves, switches |-> n.switches, calls |-> n.noted,
     stagnant |-> n.stagnant, finals |-> n.finals]

(* _record: write the copy n and go on.                                    *)
Record(n, next) ==
    /\ m' = n
    /\ row' = Checkpoint(n, "running")
    /\ pc' = next

(* _transition: an illegal one raises inside the try block.                *)
Transition(n, target, next) ==
    IF target \in Legal[m.machine]
    THEN Record([n EXCEPT !.machine = target], next)
    ELSE m' = n /\ pc' = "except" /\ row' = row

Kept == UNCHANGED <<cand, rows, wonder, spent>>

(* Go on to _stop or _complete, which differ only in the final status.     *)
StopAs(n, status) == m' = [n EXCEPT !.status = status] /\ pc' = "stopping" /\ row' = row
-----------------------------------------------------------------------------
(* The beginning of run().                                                 *)

(* Bug variant: only what the trace names as final counts as explored.     *)
BeginForgetful ==
    /\ pc = "down"
    /\ row.status \notin Terminal
    /\ m' = [NoRun EXCEPT !.moves = row.moves, !.switches = row.switches,
                          !.calls = row.calls, !.noted = row.calls,
                          !.stagnant = row.stagnant, !.finals = row.finals,
                          !.cands = row.finals, !.wonders = wonder, !.seen = row.finals]
    /\ row' = [row EXCEPT !.status = "running"]
    /\ pc' = "seeding"
    /\ Kept

(* Bug variant: a resumed run counts its runtime calls from zero.          *)
BeginUnpaid ==
    LET old == {p \in Pairs : rows[p] > 0} IN
    /\ pc = "down"
    /\ row.status \notin Terminal
    /\ m' = [NoRun EXCEPT !.moves = row.moves, !.switches = row.switches,
                          !.stagnant = row.stagnant, !.finals = row.finals,
                          !.cands = old, !.wonders = wonder, !.seen = old]
    /\ row' = [row EXCEPT !.status = "running"]
    /\ pc' = "seeding"
    /\ Kept

(* A resumed run reads what the earlier ones committed.                    *)
Begin ==
    LET old == {p \in Pairs : rows[p] > 0} IN
    /\ pc = "down"
    /\ row.status \notin Terminal
    /\ m' = [NoRun EXCEPT !.moves = row.moves, !.switches = row.switches,
                          !.calls = row.calls, !.noted = row.calls,
                          !.stagnant = row.stagnant, !.finals = row.finals,
                          !.cands = old, !.wonders = wonder, !.seen = old]
    /\ row' = [row EXCEPT !.status = "running"]
    /\ pc' = "seeding"
    /\ Kept

Seeding == pc = "seeding" /\ Transition(m, "seeding", "patches") /\ Kept

(* Too little knowledge, or nothing retrieved, stops the session.          *)
TooLittle == pc \in {"patches", "retrieved"} /\ StopAs(m, "stopped") /\ Kept
Patches   == pc = "patches" /\ Transition(m, "wander", "retrieved") /\ Kept
Retrieved == pc = "retrieved" /\ m' = m /\ row' = row /\ pc' = "loop" /\ Kept
-----------------------------------------------------------------------------
(* The loop over the pairs.                                                *)

Left     == Pairs \ m.seen
Required == (IF Synthesizer THEN 1 ELSE 0) + (IF Reviewer THEN 1 ELSE 0)

Affords ==
    /\ Required = 0 \/ m.calls = 0 \/ budget.calls >= m.calls + Required
    /\ Cardinality(m.cands) < budget.candidates
    /\ m.moves < budget.moves

(* The pairs or a budget are used up, or time is; or a stop was requested. *)
Exhausted ==
    /\ pc = "loop"
    /\ Left = {} \/ ~Affords
    /\ StopAs(m, "completed")
    /\ Kept

Interrupted ==
    /\ pc = "loop"
    /\ Left # {}
    /\ \E status \in {"completed", "stopped"} : StopAs(m, status)
    /\ Kept

Switches(p) == p \in Remote

Skip(p) ==
    /\ pc = "loop" /\ Affords /\ p \in Left
    /\ Switches(p) /\ m.switches >= budget.switches
    /\ m' = [m EXCEPT !.seen = @ \cup {p}]
    /\ UNCHANGED <<row, pc>> /\ Kept

Move(p) ==
    /\ pc = "loop" /\ Affords /\ p \in Left
    /\ Switches(p) => m.switches < budget.switches
    /\ Record([m EXCEPT !.seen = @ \cup {p}, !.pair = p, !.moves = @ + 1,
                        !.switches = IF Switches(p) THEN @ + 1 ELSE @,
                        !.decision = "none", !.review = "none"], "collision")
    /\ Kept

Collide == pc = "collision" /\ Transition(m, "collision", "bridge") /\ Kept
Weak    == pc = "bridge" /\ Transition(m, "wander", "loop") /\ Kept
Operate == pc = "bridge" /\ Transition(m, "generate", "synthesis") /\ Kept
-----------------------------------------------------------------------------
(* One candidate: synthesis, creation, score, review, revision.            *)

(* A runtime call takes one turn and up to MaxRetries more.                *)
Turns == 1 .. 1 + MaxRetries

Synthesize ==
    /\ pc = "synthesis"
    /\ IF Synthesizer /\ m.calls < budget.calls
       THEN /\ \E t \in Turns : spent' = spent + t
            /\ Record([m EXCEPT !.calls = @ + 1], "create")
       ELSE spent' = spent /\ m' = m /\ row' = row /\ pc' = "create"
    /\ UNCHANGED <<cand, rows, wonder>>

Create ==
    /\ pc = "create"
    /\ cand' = [cand EXCEPT ![m.pair].status = "generated"]
    /\ rows' = [rows EXCEPT ![m.pair] = @ + 1]
    /\ m' = [m EXCEPT !.cands = @ \cup {m.pair}, !.noted = m.calls]
    /\ pc' = "score"
    /\ UNCHANGED <<row, wonder, spent>>

Score == pc = "score" /\ Transition(m, "score", "decide") /\ Kept

Outcome(decision) ==
    CASE decision = "reject" -> "rejected"
      [] decision = "keep"   -> "filtered"
      [] OTHER               -> "promising"

Decide ==
    /\ pc = "decide"
    /\ \E d \in {"reject", "keep", "deep", "surface"} :
          /\ m' = [m EXCEPT !.decision = d]
          /\ cand' = [cand EXCEPT ![m.pair].status = Outcome(d)]
    /\ pc' = "review"
    /\ UNCHANGED <<row, rows, wonder, spent>>

Worth == m.decision \in {"deep", "surface"}

Unreviewed ==
    /\ pc = "review"
    /\ ~(Worth /\ Reviewer)
    /\ m' = m /\ row' = row /\ pc' = "verdict" /\ Kept

SkipReview ==
    /\ pc = "review"
    /\ Worth /\ Reviewer /\ m.calls >= budget.calls
    /\ cand' = [cand EXCEPT ![m.pair].review = "skipped"]
    /\ Record(m, "verdict")
    /\ UNCHANGED <<rows, wonder, spent>>

Explore ==
    /\ pc = "review"
    /\ Worth /\ Reviewer /\ m.calls < budget.calls
    /\ Transition(m, "explore", "reviewing")
    /\ Kept

(* The verdict: "weak" passes without enough evidence, "revise" cannot be  *)
(* repaired, "fixable" can.                                                *)
Review ==
    /\ pc = "reviewing"
    /\ \E t \in Turns : spent' = spent + t
    /\ \E v \in {"pass", "weak", "revise", "fixable", "reject"} :
          m' = [m EXCEPT !.review = v, !.calls = @ + 1, !.noted = m.calls + 1]
    /\ pc' = "reviewed"
    /\ UNCHANGED <<row, cand, rows, wonder>>

Reviewed ==
    /\ pc = "reviewed"
    /\ cand' = [cand EXCEPT ![m.pair].review = m.review,
                    ![m.pair].status = CASE m.review = "reject" -> "rejected"
                                         [] m.review \in {"revise", "fixable"} -> "filtered"
                                         [] OTHER -> "explored"]
    /\ m' = m /\ pc' = "critique"
    /\ UNCHANGED <<row, rows, wonder, spent>>

Critique ==
    /\ pc = "critique"
    /\ Transition(m, "critique", IF m.review = "fixable" THEN "revise" ELSE "verdict")
    /\ Kept

Revise ==
    /\ pc = "revise"
    /\ \E d \in {"reject", "keep", "deep", "surface"} :
          /\ m' = [m EXCEPT !.decision = d]
          /\ cand' = [cand EXCEPT ![m.pair].status = Outcome(d)]
    /\ pc' = "verdict"
    /\ UNCHANGED <<row, rows, wonder, spent>>

(* Bug variant: a review that could not be paid for counts as passed.      *)
PassedUnpaid ==
    \/ ~Reviewer
    \/ m.review \in {"none", "pass"}
    \/ m.review = "fixable" /\ Worth

Passed ==
    \/ ~Reviewer
    \/ m.review = "pass"
    \/ m.review = "fixable" /\ Worth

(* The threshold, or a review that makes up for a deep exploration.        *)
Surfaceable ==
    /\ Passed
    /\ m.decision = "surface" \/ (m.decision = "deep" /\ Reviewer /\ m.review # "none")

(* Redundancy, arbitrariness and hallucination may still refuse it.        *)
Promote ==
    /\ pc = "verdict"
    /\ Surfaceable
    /\ Transition(m, "persist", "wonder")
    /\ Kept

CreateWonder ==
    /\ pc = "wonder"
    /\ wonder' = wonder \cup {m.pair}
    /\ m' = m /\ pc' = "promoted"
    /\ UNCHANGED <<row, cand, rows, spent>>

Promoted ==
    /\ pc = "promoted"
    /\ cand' = [cand EXCEPT ![m.pair].status = "promoted"]
    /\ m' = [m EXCEPT !.wonders = @ \cup {m.pair}, !.finals = @ \cup {m.pair}]
    /\ pc' = "surface"
    /\ UNCHANGED <<row, rows, wonder, spent>>

(* The count of stagnant candidates is reset after the step is written.    *)
Surface ==
    /\ pc = "surface"
    /\ Transition(m, "surface", "surfaced")
    /\ Kept

Reached ==
    \/ budget.first
    \/ Cardinality(m.cands) >= budget.least /\ Cardinality(m.wonders) >= budget.target

Surfaced ==
    LET n == [m EXCEPT !.stagnant = 0] IN
    /\ pc = "surfaced"
    /\ IF Reached THEN StopAs(n, "completed") ELSE Transition(n, "wander", "loop")
    /\ Kept

Stagnate ==
    LET n == [m EXCEPT !.stagnant = @ + 1] IN
    /\ pc = "verdict"
    /\ IF "wander" \in Legal[m.machine]
          /\ Cardinality(n.cands) >= budget.least /\ n.stagnant >= budget.stagnant
       THEN Transition([n EXCEPT !.status = "completed"], "wander", "stopping")
       ELSE Transition(n, "wander", "loop")
    /\ Kept
-----------------------------------------------------------------------------
(* The end of run().                                                       *)

Stopping ==
    /\ pc = "stopping"
    /\ IF "stopped" \in Legal[m.machine]
       THEN Transition(m, "stopped", "finish")
       ELSE m' = m /\ row' = row /\ pc' = "finish"
    /\ Kept

(* Bug variant: the wonders are not ranked again at the end.               *)
FinishUnranked ==
    /\ pc = "finish"
    /\ m' = m
    /\ row' = Checkpoint(m, m.status)
    /\ pc' = "done"
    /\ Kept

(* _rank_result rebuilds the final wonders from all that are known.        *)
Finish ==
    /\ pc = "finish"
    /\ m' = [m EXCEPT !.finals = m.wonders]
    /\ row' = Checkpoint([m EXCEPT !.finals = m.wonders], m.status)
    /\ pc' = "done"
    /\ Kept

Except ==
    /\ pc = "except"
    /\ IF "failed" \in Legal[m.machine]
       THEN Transition(m, "failed", "fail")
       ELSE m' = m /\ row' = row /\ pc' = "fail"
    /\ Kept

Fail ==
    /\ pc = "fail"
    /\ m' = m
    /\ row' = Checkpoint(m, "failed")
    /\ pc' = "done"
    /\ Kept

(* Some call of the try block raises.                                      *)
Error ==
    /\ pc \notin {"down", "done", "except", "fail"}
    /\ errors < MaxErrors
    /\ errors' = errors + 1
    /\ pc' = "except"
    /\ UNCHANGED <<budget, row, cand, rows, wonder, m, spent, crashes>>

Crash ==
    /\ pc \notin {"down", "done"}
    /\ crashes < MaxCrashes
    /\ crashes' = crashes + 1
    /\ pc' = "down"
    /\ m' = NoRun
    /\ UNCHANGED <<budget, row, cand, rows, wonder, spent, errors>>

Step ==
    /\ \/ Begin \/ Seeding \/ TooLittle \/ Patches \/ Retrieved
       \/ Exhausted \/ Interrupted \/ \E p \in Pairs : Skip(p) \/ Move(p)
       \/ Collide \/ Weak \/ Operate
       \/ Synthesize \/ Create \/ Score \/ Decide
       \/ Unreviewed \/ SkipReview \/ Explore \/ Review \/ Reviewed \/ Critique \/ Revise
       \/ Promote \/ CreateWonder \/ Promoted \/ Surface \/ Surfaced \/ Stagnate
       \/ Stopping \/ Finish \/ Except \/ Fail
    /\ UNCHANGED <<budget, crashes, errors>>

Next == Step \/ Error \/ Crash

(* The task runs on, and after a crash recover() submits the session.      *)
Spec == Init /\ [][Next]_vars /\ WF_vars(Step)
-----------------------------------------------------------------------------
(* No pair is explored into a second candidate, also when a run is resumed *)
(* after a crash between a candidate's row and the step that names it.     *)
PairOnce == \A p \in Pairs : rows[p] <= 1

(* The budgets hold for the session, not only for each of its runs; with   *)
(* stop_on_first_wonder only an interrupted run lets another one look for  *)
(* a further wonder.                                                       *)
BudgetsKept ==
    /\ Cardinality({p \in Pairs : rows[p] > 0}) <= budget.candidates
    /\ row.moves <= budget.moves
    /\ row.switches <= budget.switches
    /\ budget.first => Cardinality(wonder) <= 1 + crashes

(* max_runtime_calls limits the calls, each of which may be retried; a     *)
(* crash forgets at most the one that was not yet written.                 *)
CallsBounded == spent <= (1 + MaxRetries) * (budget.calls + crashes)

(* With a reviewer, no wonder without a review that passed or was repaired *)
(* - however the budget for reviews runs out and runs are interrupted.     *)
WondersEarned ==
    \A p \in wonder : rows[p] = 1 /\ (Reviewer => cand[p].review \in {"pass", "fixable"})

(* A session that ends in good order names exactly its wonders, those of   *)
(* interrupted runs included.                                              *)
FinalsComplete == row.status \in {"completed", "stopped"} => row.finals = wonder

(* A run takes no transition the state machine forbids: a session fails    *)
(* only for an exception of what it calls.                                 *)
FailsForCause == row.status = "failed" => errors > 0
=============================================================================
