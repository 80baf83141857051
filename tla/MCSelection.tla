---------------------------- MODULE MCSelection ----------------------------
(***************************************************************************)
(* Selection for TLC: two patches that overlap in one item.                *)
(***************************************************************************)
EXTENDS Selection

MCLabels == <<{"x"}, {"x", "y"}, {"y"}, {"y"}>>
=============================================================================
