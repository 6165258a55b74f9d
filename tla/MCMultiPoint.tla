---------------------------- MODULE MCMultiPoint ----------------------------
(* Request threads and identities for the threads of a run.                *)
EXTENDS MultiPointInv, TLC

Symmetry == Permutations(Clients) \cup Permutations(Workers)
            \cup Permutations(Stoppers)
=============================================================================
