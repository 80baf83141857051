----------------------------- MODULE MCLibrary -----------------------------
(***************************************************************************)
(* Library for TLC: callers and texts are interchangeable, since Init      *)
(* takes every text and no property is temporal.                           *)
(***************************************************************************)
EXTENDS Library, TLC

Symmetry == Permutations(Callers) \union Permutations(Contents)
=============================================================================
