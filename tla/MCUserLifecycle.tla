-------------------------- MODULE MCUserLifecycle --------------------------
(***************************************************************************)
(* Model-checking instance of the account lifecycle. No statement tells    *)
(* users or processes apart by their ids.                                  *)
(***************************************************************************)
EXTENDS UserLifecycle, TLC

\* Bodies with one field, and the demotion that also deactivates.
OneField == UNION {[{f} -> BOOLEAN] : f \in Fields}
Retire == [f \in {"admin", "deactivated"} |-> f = "deactivated"]
SomePatches == OneField \cup {Retire}

LifecycleSymmetry == Permutations(Users) \cup Permutations(Procs)
=============================================================================
