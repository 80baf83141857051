------------------------------ MODULE MCEngine ------------------------------
(* Instances of WanderEngine for TLC: a budget that ends with the first    *)
(* wonder, one that compares all pairs, and one that cannot pay a review.  *)
EXTENDS WanderEngine

MCBudgets ==
    {[moves |-> 3, switches |-> 2, candidates |-> 2, least |-> 1, target |-> 2,
      stagnant |-> 2, first |-> TRUE, calls |-> 4],
     [moves |-> 4, switches |-> 2, candidates |-> 3, least |-> 2, target |-> 2,
      stagnant |-> 2, first |-> FALSE, calls |-> 4],
     [moves |-> 3, switches |-> 1, candidates |-> 2, least |-> 1, target |-> 1,
      stagnant |-> 3, first |-> FALSE, calls |-> 1]}
=============================================================================
