-------------------------- MODULE CompletionService --------------------------
(***************************************************************************)
(* What a caller of BatchScheduler::submit is promised, and nothing about  *)
(* slots, queues or threads: a request that was accepted is answered once, *)
(* with a token sequence that the stop rule of the decode loop allows.     *)
(*                                                                         *)
(* BatchScheduler refines this specification (BatchScheduler!Service).     *)
(***************************************************************************)
EXTENDS Naturals, Sequences

CONSTANTS
  Requests,   \* the calls of submit()
  Tokens,     \* what the engine may produce, -1 (an engine error) included
  Eos,        \* eos_id of the requests
  MaxTokens   \* max_tokens of each request

VARIABLES
  phase,      \* phase[r]: "new", "accepted" or "answered"
  answer      \* answer[r]: the value of the promise, <<>> while it has none

serviceVars == <<phase, answer>>

\* The answers the stop rule allows: at least one token, an end-of-sequence
\* token in the last place only, and an end that is due to it or to the limit.
ValidAnswer(r, a) ==
  /\ a \in Seq(Tokens) /\ a # <<>>
  /\ \A k \in 1 .. Len(a) - 1 : a[k] # Eos
  /\ Len(a) = 1 \/ Len(a) <= MaxTokens[r]
  /\ a[Len(a)] = Eos \/ Len(a) >= MaxTokens[r]

Init ==
  /\ phase = [r \in Requests |-> "new"]
  /\ answer = [r \in Requests |-> <<>>]

Accept(r) ==
  /\ phase[r] = "new"
  /\ phase' = [phase EXCEPT ![r] = "accepted"]
  /\ UNCHANGED answer

Answer(r) ==
  /\ phase[r] = "accepted"
  /\ phase' = [phase EXCEPT ![r] = "answered"]
  /\ ValidAnswer(r, answer'[r])
  /\ answer' = [answer EXCEPT ![r] = answer'[r]]

Next == \E r \in Requests : Accept(r) \/ Answer(r)

Safety == Init /\ [][Next]_serviceVars

\* An accepted request does not wait for ever.
AlwaysAnswered == \A r \in Requests : phase[r] = "accepted" ~> phase[r] = "answered"

Spec == Safety /\ AlwaysAnswered
==============================================================================
