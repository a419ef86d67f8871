----------------------------- MODULE MCJobQueue -----------------------------
(***************************************************************************)
(* Model-checking instance of the job queue. Worker ids are interchangeable *)
(* (no statement compares them), so safety runs use their symmetry.        *)
(***************************************************************************)
EXTENDS JobQueueRefinement, TLC

WorkerSymmetry == Permutations(Workers)
=============================================================================
