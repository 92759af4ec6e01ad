--------------------------- MODULE MCDynamicRouter ---------------------------
(* Instances of DynamicRouter for TLC. *)
EXTENDS DynamicRouter, TLC

\* Threads, instances and mutexes are interchangeable.
MCSymmetry == Permutations(Threads) \cup Permutations(Insts) \cup Permutations(Gates)
==============================================================================
