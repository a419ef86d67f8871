---------------------------- MODULE MCActivityTracker ----------------------------
EXTENDS ActivityTracker, TLC

\* Handlers are interchangeable.
HandlerSymmetry == Permutations(Handlers)
=============================================================================
