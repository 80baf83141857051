----------------------------- MODULE Judgement -----------------------------
(***************************************************************************)
(* From a pair of knowledge items to a piece of generated knowledge: the   *)
(* association of the pair, the score of the candidate drawn from it, the  *)
(* independent review and the revision it may ask for, the conditions to   *)
(* surface a wonder, its deep exploration on a user's request, and the     *)
(* quality gate of the autopilot that promotes it and reassesses it later. *)
(*                                                                         *)
(* One candidate and its two source items are followed.  Explorations, the *)
(* gate and the reassessment read the row of the wonder, work on the copy  *)
(* and write the whole row back: what others wrote in between is lost.     *)
(* Texts are the features that scoring looks for in them.  Distances are   *)
(* multiples of 0.13, scores are integers in units of 0.0001, so every sum *)
(* is exact where the code rounds to floating point.                       *)
(***************************************************************************)
EXTENDS Integers, FiniteSets, FiniteSetsExt

CONSTANTS
    Pairs,        \* [steps, shared, topics, refs]: distance, shared terms, source_ref of each item
    Seeds,        \* [arbitrary, obvious, absolute, direct, bridging, known, anchors, overlap,
                  \*  liked, disliked, indifferent]
    Texts,        \* [questions, length, future, testable, absolute, near, lexical, common]
    Reviews,      \* [verdict, risk, uncertainty, revised, absolute]: what a reviewer may judge
    Evaluations,  \* [asks, refs, support, counter, uncertainty, passed]: what deep exploration may find
    Budgets,      \* values of max_runtime_calls
    Requests      \* bound: deep explorations users ask for, at any time

Items == {1, 2}
Own == <<"knowledge:1", "knowledge:2">>

(* What pairs, seeds and texts may be like.                                *)
Scores == 0 .. 10000

PairType == [steps : Nat, shared : Nat, topics : Nat, refs : [Items -> STRING]]
SeedType == [arbitrary : BOOLEAN, obvious : BOOLEAN, absolute : BOOLEAN, direct : BOOLEAN,
             bridging : BOOLEAN, known : BOOLEAN, anchors : 0 .. 2, overlap : Scores,
             liked : Nat, disliked : Nat, indifferent : Nat]
TextType == [questions : Nat, length : Nat, future : BOOLEAN, testable : BOOLEAN,
             absolute : BOOLEAN, near : Scores, lexical : Scores, common : 0 .. 2]

ASSUME ConstantsAssumption ==
    /\ Pairs \subseteq PairType /\ Pairs # {}
    /\ Seeds \subseteq SeedType /\ Seeds # {}
    /\ Texts \subseteq TextType /\ Texts # {}
    /\ Reviews \subseteq [verdict : {"pass", "revise", "reject"}, risk : Scores,
                          uncertainty : Scores, revised : BOOLEAN, absolute : BOOLEAN]
    /\ Evaluations \subseteq [asks : BOOLEAN, refs : SUBSET STRING, support : BOOLEAN,
                              counter : BOOLEAN, uncertainty : Scores, passed : BOOLEAN]
    /\ Budgets \subseteq Nat
    /\ {"gate", "audit"} \cap Requests = {}

(* Who reads the wonder's row and writes it back: requests to explore it,  *)
(* the autopilot when it finalizes a cycle and whenever it starts.         *)
Actors == Requests \cup {"gate", "audit"}

VARIABLES
    stage,      \* "start", "drawn", "scored", "reviewed", "revised", "dropped", "surfaced", "deleted"
    reviewer,   \* whether a reviewer is configured
    budget,     \* max_runtime_calls of the session
    draft,      \* [pair, seed, text, verified]
    source,     \* what the source items are now: "original", "derived" from wonders, "gone"
    decision,   \* what the score decides
    review,     \* the sanitized review, NoReview without one
    shown,      \* whether the text it surfaced with makes an absolute claim
    wonder,     \* its row: [support, counter, asks, confidence, basis, promoted]
    knowledge,  \* the first item generated from the wonder: "none", "active", "rejected"
    explored,   \* deep explorations stored: "none", "passed" by their critics, or not: "doubted"
    hand,       \* what each actor has read and does with it
    raced       \* whether a copy was written over a row that had changed since it was read

setup == <<reviewer, budget>>
jobs == <<hand, raced>>
vars == <<stage, setup, draft, source, decision, review, shown, wonder, knowledge, explored, jobs>>

Clamp(x) == Max({0, Min({10000, x})})
Abs(x) == IF x < 0 THEN -x ELSE x
If(condition, x) == IF condition THEN x ELSE 0

-----------------------------------------------------------------------------
(* Association and score.                                                  *)

(* 1 - |distance - 0.65| / 0.65, at a distance of p.steps times 0.13.      *)
Closeness(p) == Clamp(10000 - 2000 * Abs(p.steps - 5))

Strength(p) == Clamp((7 * Closeness(p)) \div 10 + Min({2500, 500 * p.shared}))

(* Markers that scoring looks for in the seed or in the candidate's text.  *)
Absolute(d) == d.seed.absolute \/ d.text.absolute
Obvious(d) == d.seed.obvious
Framing(d) == d.seed.arbitrary
Future(d) == d.text.future
Testable(d) == d.text.testable

(* A question about something known that compares it with nothing else.    *)
Restated(d) == d.seed.direct /\ d.seed.known /\ ~d.seed.bridging

(* The share of the two source items whose titles the seed names.          *)
Coverage(d) == 5000 * d.seed.anchors

(* Likeness to the earlier wonder that is most alike: of the words, less   *)
(* so the fewer of the two sources both have in common.                    *)
History(d) ==
    (d.text.lexical * (3500 + (6500 * d.text.common) \div (4 - d.text.common))) \div 10000

(* Feedback on wonders, weighted by their overlap with seed and sources.   *)
Interest(d) ==
    LET total == d.seed.liked + d.seed.disliked + d.seed.indifferent IN
    IF total = 0 THEN 0 ELSE (10000 * (d.seed.liked - d.seed.disliked)) \div total

(* Similarity to what is known already: earlier wonders, or the sources.   *)
Redundancy(d) ==
    Clamp(Max({History(d), d.seed.overlap, If(Obvious(d), 10000), If(Restated(d), 9500)}))

Arbitrariness(d) ==
    Clamp(Max({10000 - Strength(d.pair), If(Obvious(d), 8000), If(Framing(d), 10000)}))

(* Every question a candidate asks makes an absolute claim less risky.     *)
Risk(d) == Clamp(1500 + If(Absolute(d), 8500) - 1000 * d.text.questions)

Coherence(d) == Clamp(4500 + (45 * Strength(d.pair)) \div 100 + If(d.text.length > 80, 1000))

Potential(d) == Clamp(3500 + 2000 * d.text.questions + If(Testable(d), 2000))

Novelty(d) == Clamp(6500 + 455 * d.pair.steps - (45 * History(d)) \div 100)

Relevance(d) ==
    Clamp(3500 + d.text.near \div 2 + (15 * Coverage(d) + 12 * Interest(d)) \div 100)

Generativity(d) == Clamp(3500 + Min({4500, 1800 * d.text.questions}) + If(Future(d), 2000))

Explanatory(d) == Clamp(4000 + Min({3500, (25 * d.text.length) \div 2}) + Strength(d.pair) \div 4)

CrossDomain(d) == Clamp(3000 + 1800 * d.pair.topics + If(d.pair.steps > 3, 3000))

(* In units of 0.0001, as every part of it.                                *)
Total(d) ==
    Clamp((18 * Novelty(d) + 12 * Closeness(d.pair) + 18 * Relevance(d) + 12 * Coherence(d)
           + 14 * Generativity(d) + 10 * Explanatory(d) + 8 * Potential(d) + 8 * CrossDomain(d)
           - 12 * Redundancy(d) - 10 * Arbitrariness(d) - 15 * Risk(d)) \div 100)

(* Scores that forbid a wonder whatever the total is.                      *)
Guarded(d) == Redundancy(d) >= 8500 \/ Arbitrariness(d) >= 8000 \/ Risk(d) >= 7500

Decide(d) ==
    LET total == Total(d) IN
    IF total < 2500 THEN "reject"
    ELSE IF total >= 5800 /\ ~Guarded(d) THEN "surface"
    ELSE IF total >= 4000 THEN "deep"
    ELSE "keep"

-----------------------------------------------------------------------------
(* The independent review.                                                 *)

NoReview == [verdict |-> "none", risk |-> 10000, uncertainty |-> 10000, revised |-> FALSE,
             absolute |-> FALSE, support |-> {}, counter |-> FALSE]

Cite(p, i) == IF p.refs[i] = "" THEN Own[i] ELSE p.refs[i]

(* What the system generated itself, or rejected, is no evidence.          *)
Eligible == {i \in Items : source[i] = "original"}

(* Bug variant: every supplied item is evidence.                           *)
TrustedAll(p) == {Cite(p, i) : i \in Items}

Trusted(p) == {Cite(p, i) : i \in Eligible}

(* Claims that cite nothing trusted are dropped; a review that does not    *)
(* support both items, or revises nothing, becomes a rejection.            *)
Sanitized(p, r, support, counter) ==
    LET kept == support \cap Trusted(p)
        grounded == Cardinality(kept) >= 2 IN
    [verdict |-> IF grounded /\ (r.verdict = "revise" => r.revised) THEN r.verdict ELSE "reject",
     risk |-> IF grounded THEN r.risk ELSE Max({r.risk, 6500}),
     uncertainty |-> IF grounded THEN r.uncertainty ELSE Max({r.uncertainty, 8000}),
     revised |-> r.revised,
     absolute |-> r.absolute,
     support |-> kept,
     counter |-> counter \cap Trusted(p) # {}]

Modest(r, risk) == r.risk <= risk /\ r.uncertainty <= 6000 /\ Cardinality(r.support) >= 2

Repairable(r) == r.verdict = "revise" /\ Modest(r, 3500) /\ r.revised

(* review_repaired and review_passed.                                      *)
Repaired(r, outcome) == Repairable(r) /\ outcome \in {"deep", "surface"}
Passed(r, outcome) ==
    ~reviewer \/ (r.verdict = "pass" /\ Modest(r, 4000)) \/ Repaired(r, outcome)

-----------------------------------------------------------------------------
(* The engine: from a pair to a wonder.                                    *)

NoWonder == [support |-> FALSE, counter |-> FALSE, asks |-> FALSE, confidence |-> 0, basis |-> "none",
             promoted |-> FALSE]
Idle == [pc |-> "idle", row |-> NoWonder, there |-> FALSE, lineage |-> FALSE, refs |-> {}, item |-> "none"]

Init ==
    /\ stage = "start"
    /\ reviewer \in BOOLEAN /\ budget \in Budgets
    /\ draft = [pair |-> CHOOSE p \in Pairs : TRUE, seed |-> CHOOSE s \in Seeds : TRUE,
                text |-> CHOOSE t \in Texts : TRUE, verified |-> FALSE]
    /\ source \in [Items -> {"original", "derived"}]
    /\ decision = "none" /\ review = NoReview /\ wonder = NoWonder /\ knowledge = "none"
    /\ explored = "none" /\ shown = FALSE
    /\ hand = [a \in Actors |-> Idle] /\ raced = FALSE

(* A pair without an explainable bridge goes no further.                   *)
Draw ==
    /\ stage = "start"
    /\ \E p \in Pairs, s \in Seeds : draft' = [draft EXCEPT !.pair = p, !.seed = s]
    /\ stage' = IF Strength(draft'.pair) < 1500 THEN "dropped" ELSE "drawn"
    /\ UNCHANGED <<setup, source, decision, review, shown, wonder, knowledge, explored, jobs>>

(* The operator's draft asks one or two questions, an agent up to eight.   *)
Compose ==
    /\ stage = "drawn"
    /\ \E t \in Texts, verified \in BOOLEAN :
          /\ verified => budget >= 1
          /\ ~verified => t.questions \in 1 .. 2
          /\ draft' = [draft EXCEPT !.text = t, !.verified = verified]
    /\ decision' = Decide(draft')
    /\ stage' = "scored"
    /\ UNCHANGED <<setup, source, review, shown, wonder, knowledge, explored, jobs>>

Worthy == decision \in {"deep", "surface"}

(* The review fails, or answers with claims about sources.                 *)
Ask ==
    /\ stage = "scored" /\ Worthy /\ reviewer
    /\ budget >= IF draft.verified THEN 2 ELSE 1
    /\ \/ review' = [NoReview EXCEPT !.verdict = "reject"]
       \/ \E r \in Reviews, support, counter \in SUBSET {Cite(draft.pair, i) : i \in Items} :
             review' = Sanitized(draft.pair, r, support, counter)
    /\ stage' = "reviewed"
    /\ UNCHANGED <<setup, draft, source, decision, shown, wonder, knowledge, explored, jobs>>

(* No reviewer, nothing worth a review, or earlier candidates have used up *)
(* the budget.                                                             *)
SkipReview ==
    /\ stage = "scored"
    /\ stage' = "reviewed"
    /\ UNCHANGED <<setup, draft, source, decision, review, shown, wonder, knowledge, explored, jobs>>

(* The revised text keeps the questions and is scored again.               *)
Revise ==
    /\ stage = "reviewed" /\ Repairable(review)
    /\ \E t \in Texts :
          draft' = [draft EXCEPT !.text = [t EXCEPT !.questions = draft.text.questions]]
    /\ decision' = Decide(draft')
    /\ stage' = "revised"
    /\ UNCHANGED <<setup, source, review, shown, wonder, knowledge, explored, jobs>>

(* Bug variant: a passed review overrides an arbitrary seed, too.          *)
SurfacesOverridden(d, outcome, r) ==
    /\ Passed(r, outcome)
    /\ outcome = "surface" \/ (outcome = "deep" /\ r # NoReview)
    /\ Redundancy(d) < 8500 /\ Risk(d) < 7500
    /\ Arbitrariness(d) < 8000 \/ d.verified

(* An agent's synthesis that passed review may overrule a weak association *)
(* but not an arbitrary seed.                                              *)
Surfaces(d, outcome, r) ==
    /\ Passed(r, outcome)
    /\ outcome = "surface" \/ (outcome = "deep" /\ r # NoReview)
    /\ Redundancy(d) < 8500 /\ Risk(d) < 7500
    /\ Arbitrariness(d) < 8000 \/ (d.verified /\ ~Framing(d))

Confidence(d, r) ==
    IF r = NoReview THEN (Coherence(d) + Potential(d)) \div 2
    ELSE (Coherence(d) + Potential(d) + 10000 - r.uncertainty) \div 3

Basis(outcome, r) ==
    IF Repaired(r, outcome) THEN "runtime_revision"
    ELSE IF outcome = "deep" /\ r # NoReview THEN "runtime_review"
    ELSE "score_threshold"

(* Whether the text that is shown makes an absolute claim: the explanation *)
(* a review offers replaces the scored one, the scored statement stays.    *)
Claims(d, outcome, r) ==
    IF r = NoReview \/ Repaired(r, outcome) THEN {d.text.absolute}
    ELSE {r.absolute, r.absolute \/ d.text.absolute}

Surface ==
    /\ stage = IF Repairable(review) THEN "revised" ELSE "reviewed"
    /\ Surfaces(draft, decision, review)
    /\ shown' \in Claims(draft, decision, review)
    /\ wonder' = [support |-> review.support # {}, counter |-> review.counter,
                  asks |-> draft.text.questions > 0, confidence |-> Confidence(draft, review),
                  basis |-> Basis(decision, review), promoted |-> FALSE]
    /\ stage' = "surfaced"
    /\ UNCHANGED <<setup, draft, source, decision, review, knowledge, explored, jobs>>

Drop ==
    /\ stage = IF Repairable(review) THEN "revised" ELSE "reviewed"
    /\ ~Surfaces(draft, decision, review)
    /\ stage' = "dropped"
    /\ UNCHANGED <<setup, draft, source, decision, review, shown, wonder, knowledge, explored, jobs>>

-----------------------------------------------------------------------------
(* Copies of the wonder.                                                   *)

At(a, pc) == hand[a].pc = pc
Goto(a, pc) == hand' = [hand EXCEPT ![a].pc = pc]
Release(a) == hand' = [hand EXCEPT ![a] = IF a \in Requests THEN [Idle EXCEPT !.pc = "done"] ELSE Idle]

Take(a, refs, item) ==
    /\ At(a, "idle")
    /\ hand' = [hand EXCEPT ![a] = [pc |-> "read", row |-> wonder, there |-> stage = "surfaced",
                                    lineage |-> \A i \in Items : source[i] = "original",
                                    refs |-> refs, item |-> item]]

(* update(): the whole row, whatever it has become since it was read.  A   *)
(* row that is gone makes it raise.                                        *)
Write(a, row) ==
    IF stage = "surfaced" THEN wonder' = row /\ raced' = (raced \/ hand[a].row # wonder)
    ELSE UNCHANGED <<wonder, raced>>

(* The wonder is deleted, alone or with its session.                       *)
DeleteWonder ==
    /\ stage = "surfaced" /\ stage' = "deleted"
    /\ UNCHANGED <<setup, draft, source, decision, review, shown, wonder, knowledge, explored, jobs>>

(* A source item is deleted.  While the engine runs it works on copies, so *)
(* nothing shows before the wonder is looked at again.                     *)
Delete(i) ==
    /\ stage \in {"surfaced", "deleted"} /\ source[i] # "gone"
    /\ source' = [source EXCEPT ![i] = "gone"]
    /\ UNCHANGED <<stage, setup, draft, decision, review, shown, wonder, knowledge, explored, jobs>>

(* An exception ends a request, a tick or a start between two writes.      *)
GiveUp(a) ==
    /\ hand[a].pc \notin {"idle", "done"} /\ Release(a)
    /\ UNCHANGED <<stage, setup, draft, source, decision, review, shown, wonder, knowledge, explored, raced>>

-----------------------------------------------------------------------------
(* Deep exploration: explorer, evidence and critic, as the budget lasts.   *)

(* References that evidence may cite: those of stored items that have one. *)
Citable == {draft.pair.refs[i] : i \in {j \in Items : source[j] # "gone"}} \ {""}

NoEvidence == [refs |-> {}, support |-> FALSE, counter |-> FALSE, uncertainty |-> 10000]

(* Evidence with a reference nobody supplied is dropped as a whole.        *)
SanitizedEvidence(e, refs) ==
    IF e.refs # {} /\ e.refs \subseteq refs THEN e
    ELSE [e EXCEPT !.refs = {}, !.support = FALSE, !.counter = FALSE,
                   !.uncertainty = Max({e.uncertainty, 8000})]

(* Bug variant: the new confidence replaces the old one.                   *)
MergedAfresh(w, evidence, passed) ==
    [w EXCEPT !.support = evidence.support, !.counter = evidence.counter,
              !.confidence = 10000 - evidence.uncertainty \div 2]

Merged(w, evidence, passed) ==
    [w EXCEPT !.support = evidence.support, !.counter = evidence.counter,
              !.confidence = Min({@, 10000 - evidence.uncertainty \div 2, IF passed THEN 10000 ELSE 3500})]

(* The request reads the wonder and its context; the agents follow.        *)
Explore(x) ==
    /\ stage = "surfaced"
    /\ Take(x, Citable, "none")
    /\ UNCHANGED <<stage, setup, draft, source, decision, review, shown, wonder, knowledge, explored, raced>>

(* What they found is merged into the copy.  An explorer or a collector    *)
(* may fail, a critic is then asked all the same; one that fails or is not *)
(* paid for rejects.                                                       *)
Merge(x) ==
    /\ At(x, "read")
    /\ \E e \in Evaluations :
          LET passed == budget >= 3 /\ e.passed
              merged(evidence) == Merged(hand[x].row, evidence, passed) IN
          /\ \E asks \in (IF budget >= 1 THEN {hand[x].row.asks, e.asks} ELSE {hand[x].row.asks}),
                evidence \in (IF budget >= 2 THEN {NoEvidence, SanitizedEvidence(e, hand[x].refs)}
                              ELSE {NoEvidence}) :
                Write(x, [merged(evidence) EXCEPT !.asks = asks])
          /\ explored' = IF stage # "surfaced" THEN explored
                         ELSE IF passed /\ explored # "doubted" THEN "passed" ELSE "doubted"
    /\ Release(x)
    /\ UNCHANGED <<stage, setup, draft, source, decision, review, shown, knowledge>>

-----------------------------------------------------------------------------
(* The autopilot: gate, promotion and reassessment.                        *)

Reviewed(w) ==
    /\ Modest(review, 4000)
    /\ \/ review.verdict = "pass"
       \/ review.verdict = "revise" /\ w.basis = "runtime_revision" /\ review.risk <= 3500

QualityHolds(w) ==
    /\ Total(draft) >= 6300 /\ w.confidence >= 5700
    /\ Coherence(draft) >= 7000 /\ Potential(draft) >= 5000
    /\ Redundancy(draft) <= 4500 /\ Arbitrariness(draft) <= 5500 /\ Risk(draft) <= 3500
    /\ w.support /\ w.counter /\ w.asks
    /\ Reviewed(w)

LineageHolds == \A i \in Items : source[i] = "original"

Accepts(w, lineage) == QualityHolds(w) /\ lineage

(* Finalizing a cycle reads its wonders; one that failed is repeated.      *)
Inspect ==
    /\ stage = "surfaced"
    /\ Take("gate", {}, "none")
    /\ UNCHANGED <<stage, setup, draft, source, decision, review, shown, wonder, knowledge, explored, raced>>

(* A copy that is accepted becomes knowledge, unless it has been before or *)
(* its text is known; the lineage is that of the present items.  What is   *)
(* made of a text that an exploration changed after a first promotion is   *)
(* not followed.                                                           *)
Promote ==
    /\ At("gate", "read")
    /\ \/ hand["gate"].row.promoted /\ Release("gate") /\ UNCHANGED knowledge
       \/ ~hand["gate"].row.promoted /\ Goto("gate", "refused") /\ UNCHANGED knowledge
       \/ /\ ~hand["gate"].row.promoted /\ Accepts(hand["gate"].row, LineageHolds)
          /\ knowledge = "none" /\ knowledge' = "active"
          /\ Goto("gate", "stored")
    /\ UNCHANGED <<stage, setup, draft, source, decision, review, shown, wonder, explored, raced>>

(* The item it has created is written once more, with its importance.      *)
Register ==
    /\ At("gate", "stored")
    /\ knowledge' = "active"
    /\ Goto("gate", "promoted")
    /\ UNCHANGED <<stage, setup, draft, source, decision, review, shown, wonder, explored, raced>>

(* Every start of the supervisor looks at its knowledge again.             *)
Reassess ==
    /\ knowledge # "none"
    /\ Take("audit", {}, knowledge)
    /\ UNCHANGED <<stage, setup, draft, source, decision, review, shown, wonder, knowledge, explored, raced>>

(* Bug variant: knowledge that was rejected may come back.                 *)
AuditAfresh ==
    LET me == hand["audit"] IN
    /\ At("audit", "read")
    /\ knowledge' = IF me.there /\ Accepts(me.row, me.lineage) THEN "active" ELSE "rejected"
    /\ hand' = [hand EXCEPT !["audit"] = [Idle EXCEPT !.pc = "judged", !.row = me.row, !.there = me.there]]
    /\ UNCHANGED <<stage, setup, draft, source, decision, review, shown, wonder, explored, raced>>

(* An item stays active if it was, and its wonder is stored and accepted.  *)
Audit ==
    LET me == hand["audit"] IN
    /\ At("audit", "read")
    /\ knowledge' = IF me.there /\ me.item = "active" /\ Accepts(me.row, me.lineage)
                    THEN "active" ELSE "rejected"
    /\ hand' = [hand EXCEPT !["audit"] = [Idle EXCEPT !.pc = "judged", !.row = me.row, !.there = me.there]]
    /\ UNCHANGED <<stage, setup, draft, source, decision, review, shown, wonder, explored, raced>>

(* Gate and audit write the wonder back with their verdict.                *)
WriteBack(a) ==
    /\ \/ a = "gate" /\ hand[a].pc \in {"refused", "promoted"}
       \/ a = "audit" /\ At(a, "judged")
    /\ IF hand[a].there THEN Write(a, [hand[a].row EXCEPT !.promoted = @ \/ At(a, "promoted")])
       ELSE UNCHANGED <<wonder, raced>>
    /\ Release(a)
    /\ UNCHANGED <<stage, setup, draft, source, decision, review, shown, knowledge, explored>>

Next ==
    \/ Draw \/ Compose \/ Ask \/ SkipReview \/ Revise \/ Surface \/ Drop
    \/ \E x \in Requests : Explore(x) \/ Merge(x)
    \/ DeleteWonder \/ (\E i \in Items : Delete(i)) \/ (\E a \in Actors : GiveUp(a))
    \/ Inspect \/ Promote \/ Register \/ Reassess \/ Audit
    \/ \E a \in {"gate", "audit"} : WriteBack(a)

Spec == Init /\ [][Next]_vars
-----------------------------------------------------------------------------
(* With a reviewer, a wonder rests on two different original sources that  *)
(* its review cites, with the risk and uncertainty the review policy       *)
(* allows, whichever way it came to the surface: by its score, by a review *)
(* that passed or by a revision (candidate_runtime_service.py:293-341).    *)
Grounded ==
    stage = "surfaced" /\ reviewer =>
        /\ review.support = {Cite(draft.pair, 1), Cite(draft.pair, 2)}
        /\ Cardinality(review.support) = 2
        /\ \A i \in Items : source[i] # "derived"
        /\ review.risk <= 4000 /\ review.uncertainty <= 6000

(* The candidate that surfaces, as it was scored, has no absurd seed and   *)
(* no question already answered, repeats no earlier wonder about the same  *)
(* sources, was not rejected, and makes no absolute claim with fewer than  *)
(* three questions: no agent's synthesis and no verdict overrules this     *)
(* (TASKS.md:44-45).  Without a review that passed, the text shown is the  *)
(* one that was scored (engine.py:543-630).                                *)
GuardsHold ==
    stage = "surfaced" =>
        /\ ~draft.seed.arbitrary /\ ~draft.seed.obvious
        /\ draft.seed.direct /\ draft.seed.known => draft.seed.bridging
        /\ draft.text.common = 2 => draft.text.lexical < 8500
        /\ draft.seed.overlap < 8500
        /\ review.verdict # "reject"
        /\ Absolute(draft) => draft.text.questions >= 3
        /\ shown /\ review.verdict # "pass" => draft.text.questions >= 3

(* What becomes knowledge has passed an independent review, would have     *)
(* surfaced without the help of one, has no weak association, and asks     *)
(* seven questions if the scored text makes an absolute claim.  No deep    *)
(* exploration has been stored that ended without the consent of its       *)
(* critic, unless it was written over, or stored after the gate read the   *)
(* wonder (autopilot_quality.py:38-97, autopilot_service.py:388-499).      *)
KnowledgeEarned ==
    [][knowledge' = "active" /\ knowledge = "none" =>
            /\ reviewer /\ decision = "surface" /\ hand["gate"].row.basis # "runtime_review"
            /\ Strength(draft.pair) >= 4500
            /\ Absolute(draft) => draft.text.questions >= 7
            /\ ~raced /\ hand["gate"].row = wonder => explored # "doubted"]_vars

(* Knowledge is withdrawn only after a deep exploration or the deletion of *)
(* a source or of its wonder, and for good, unless the gate is still about *)
(* to write the item it has just created.  A wonder is never trusted more  *)
(* than when it surfaced, and more than before only if a stale copy is     *)
(* written over it (_reconcile_generated_knowledge, _merge_evaluation).    *)
KnowledgeStable ==
    [][/\ knowledge = "active" /\ knowledge' # "active" =>
             explored # "none" \/ ~LineageHolds \/ stage = "deleted"
       /\ knowledge = "rejected" => knowledge' = "rejected" \/ At("gate", "stored")
       /\ stage = "surfaced" =>
             /\ wonder'.confidence <= Confidence(draft, review)
             /\ ~raced' => wonder'.confidence <= wonder.confidence]_vars
=============================================================================
