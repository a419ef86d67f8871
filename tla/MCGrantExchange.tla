-------------------------- MODULE MCGrantExchange --------------------------
(***************************************************************************)
(* Model-checking instance of grants, exchanges and device lists. The      *)
(* processes are interchangeable; each grant has a device of its own, and  *)
(* logins may take over either.                                            *)
(***************************************************************************)
EXTENDS GrantExchange, TLC

CONSTANTS code, dcode, d1, d2

GrantDevices == [g \in {code, dcode} |-> IF g = code THEN d1 ELSE d2]

ProcSymmetry == Permutations(Procs)
=============================================================================
