---------------------------- MODULE MCJudgement ----------------------------
(***************************************************************************)
(* Judgement for TLC: pairs with a weak, a middling and a strong           *)
(* association, whose items have different references, one or the same;    *)
(* a seed of each kind; texts, reviews and evaluations at and just beyond  *)
(* the limits that the scores, the review policy and the gate set.         *)
(***************************************************************************)
EXTENDS Judgement, TLC

MCPairs ==
    {[steps |-> k, shared |-> n, topics |-> 2, refs |-> refs] :
        k \in {1, 5, 8}, n \in {0, 1, 5}, refs \in {<<"a", "b">>, <<"a", "">>, <<"a", "a">>}}

Plain == [arbitrary |-> FALSE, obvious |-> FALSE, absolute |-> FALSE, direct |-> FALSE,
          bridging |-> FALSE, known |-> TRUE, anchors |-> 2, overlap |-> 1000,
          liked |-> 0, disliked |-> 0, indifferent |-> 0]
MCSeeds ==
    {Plain, [Plain EXCEPT !.arbitrary = TRUE], [Plain EXCEPT !.obvious = TRUE],
     [Plain EXCEPT !.direct = TRUE], [Plain EXCEPT !.direct = TRUE, !.bridging = TRUE],
     [Plain EXCEPT !.absolute = TRUE],
     [Plain EXCEPT !.overlap = 9000, !.liked = 1000, !.disliked = 4000, !.anchors = 0, !.known = FALSE]}

Good == [questions |-> 2, length |-> 280, future |-> TRUE, testable |-> TRUE,
         absolute |-> FALSE, near |-> 4000, lexical |-> 2000, common |-> 1]
MCTexts ==
    {Good, [Good EXCEPT !.questions = 3], [Good EXCEPT !.questions = 7],
     [Good EXCEPT !.questions = 0, !.testable = FALSE],
     [Good EXCEPT !.absolute = TRUE], [Good EXCEPT !.absolute = TRUE, !.questions = 3],
     [Good EXCEPT !.absolute = TRUE, !.questions = 7],
     [Good EXCEPT !.lexical = 9000, !.common = 2],
     [Good EXCEPT !.questions = 1, !.length = 60, !.future = FALSE, !.testable = FALSE, !.near = 0]}

MCReviews ==
    {[verdict |-> "pass", risk |-> 4000, uncertainty |-> 3000, revised |-> FALSE, absolute |-> TRUE],
     [verdict |-> "pass", risk |-> 4100, uncertainty |-> 3000, revised |-> FALSE, absolute |-> FALSE],
     [verdict |-> "pass", risk |-> 2000, uncertainty |-> 6100, revised |-> TRUE, absolute |-> FALSE],
     [verdict |-> "revise", risk |-> 3500, uncertainty |-> 6000, revised |-> TRUE, absolute |-> FALSE],
     [verdict |-> "revise", risk |-> 4000, uncertainty |-> 3000, revised |-> TRUE, absolute |-> FALSE],
     [verdict |-> "revise", risk |-> 3500, uncertainty |-> 3000, revised |-> TRUE, absolute |-> FALSE],
     [verdict |-> "revise", risk |-> 3000, uncertainty |-> 3000, revised |-> FALSE, absolute |-> FALSE],
     [verdict |-> "reject", risk |-> 1000, uncertainty |-> 1000, revised |-> FALSE, absolute |-> FALSE]}

MCEvaluations ==
    {[asks |-> TRUE, refs |-> {"a"}, support |-> TRUE, counter |-> TRUE, uncertainty |-> 2000, passed |-> TRUE],
     [asks |-> FALSE, refs |-> {"a"}, support |-> TRUE, counter |-> FALSE, uncertainty |-> 8000, passed |-> TRUE],
     [asks |-> TRUE, refs |-> {"b"}, support |-> TRUE, counter |-> TRUE, uncertainty |-> 2000, passed |-> FALSE]}

(* Evaluations to overlap, and the wonders they are followed on: fewer     *)
(* pairs, texts and reviews, on either side of what the gate accepts.      *)
FewEvaluations == {e \in MCEvaluations : e.uncertainty = 2000}
FewPairs == {p \in MCPairs : p.steps # 1 /\ p.shared = 1 /\ p.refs = <<"a", "b">>}
FewTexts ==
    {Good, [Good EXCEPT !.questions = 7, !.absolute = TRUE],
     [Good EXCEPT !.questions = 3, !.absolute = TRUE]}
Telling == review.verdict = "none" \/ (review.uncertainty = 3000 /\ review.risk \in {3500, 4000})
Followed ==
    stage = "surfaced" =>
        budget = 3 /\ draft.pair \in FewPairs /\ draft.seed = Plain /\ draft.text \in FewTexts /\ Telling
Symmetry == Permutations(Requests)
=============================================================================
