------------------------------ MODULE MCCompletions ------------------------------
(***************************************************************************)
(* The way of a completion through the program, in one run: the text is    *)
(* encoded (Tokenizer), the request is scheduled and decoded on the worker *)
(* (BatchedCompletions), and the worker is called through its pipes        *)
(* (NpuWorker).  The three are on different levels and share no state: the *)
(* first state says which of them moves, the others stay in one initial    *)
(* state of theirs, and the states of the run are those of the three one   *)
(* after another, not their product.                                       *)
(***************************************************************************)
EXTENDS MCBatchedCompletions, NpuWorker, MCTokenizer

VARIABLE stage

NoText == CHOOSE i \in Inputs : i.text = <<>>

CompletionsInit ==
  /\ stage \in {"tokenizer", "scheduler", "worker"}
  /\ TokenizerInit /\ BatchedInit /\ WorkerInit
  /\ stage # "tokenizer" => input = NoText

\* A text that is encoded and sessions that are used up are ends; nothing else stops.
Ended ==
  \/ stage = "tokenizer" /\ tkAt \in {"done", "failed"}
  \/ stage = "worker" /\ callAt = "idle" /\ ~open

CompletionsNext ==
  \/ stage = "tokenizer" /\ TokenizerNext /\ UNCHANGED <<stage, vars, workerVars>>
  \/ stage = "scheduler" /\ BatchedNext /\ UNCHANGED <<stage, tokenizerVars, workerVars>>
  \/ stage = "worker" /\ WorkerNext /\ UNCHANGED <<stage, tokenizerVars, vars>>
  \/ Ended /\ UNCHANGED <<stage, tokenizerVars, vars, workerVars>>

completionsVars == <<stage, tokenizerVars, vars, workerVars>>

\* Only the part that moves is scheduled.
CompletionsSpec ==
  /\ CompletionsInit /\ [][CompletionsNext]_completionsVars
  /\ stage = "scheduler" => BatchedFairness
  /\ stage = "worker" => WorkerFairness
===============================================================================
