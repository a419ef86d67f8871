-------------------------- MODULE MCTokenRotation --------------------------
(***************************************************************************)
(* Model-checking instance of the token rotation. Request ids are          *)
(* interchangeable, so safety runs use their symmetry.                     *)
(***************************************************************************)
EXTENDS TokenRotation, TLC

RequestSymmetry == Permutations(Requests)
=============================================================================
