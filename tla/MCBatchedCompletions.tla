------------------------- MODULE MCBatchedCompletions -------------------------
(* An instance of BatchedCompletions for TLC. *)
EXTENDS BatchedCompletions

CONSTANTS r1, r2

\* Two tokens to prefill and none, and up to two to decode.
MCMaxTokens == [r \in Requests |-> 2]
MCPromptLen == [r \in Requests |-> IF r = r2 THEN 1 ELSE 3]
===============================================================================
