--------------------------- MODULE MCBatchScheduler ---------------------------
(* Instances of BatchScheduler for TLC. *)
EXTENDS BatchScheduler

CONSTANTS r1, r2, r3

\* A request that stops at its first token whatever it is, and longer ones.
MCMaxTokens == [r \in Requests |-> IF r = r1 THEN 0 ELSE 2]
===============================================================================
