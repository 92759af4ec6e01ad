------------------------------ MODULE SpecDecode ------------------------------
(***************************************************************************)
(* run_spec_decode() of tools/unified_server.cpp: a draft model proposes   *)
(* NDraft tokens, the target decodes them in one batch, the longest prefix *)
(* that the target would have chosen itself is kept, the rest is rolled    *)
(* back and replaced by the target's own choice.  One request at a time    *)
(* (g_inference_mutex); its two KV caches are those of                     *)
(* backend_ggml_vulkan.cpp.                                                *)
(*                                                                         *)
(* A KV cache is the sequence of tokens in it, logits are the token with   *)
(* the largest one, TargetNext(s) for the target after s.  The draft may   *)
(* propose anything.  prompt is the part of the prompt that is decoded     *)
(* (from prefill_start on).                                                *)
(***************************************************************************)
EXTENDS Naturals, Sequences

CONSTANTS
  Tokens,          \* token ids
  TokenZero,       \* the token id 0
  TargetNext(_),   \* the target's greedy choice after a sequence of tokens
  NDraft,          \* g_spec_n_draft
  Eos,             \* eos_id
  MaxTokens,       \* bound: the largest max_tokens of a request
  MaxPrompt        \* bound: the longest prompt

ASSUME TokenZeroAssumption == TokenZero \in Tokens
ASSUME NDraftAssumption == NDraft \in Nat \ {0}

\* What the largest of the logits is: a token.
TargetChoosesTokens == \A s \in Seq(Tokens) : TargetNext(s) \in Tokens

VARIABLES
  specAt,      \* where the request is
  prompt,      \* the prompt, without a leading BOS
  maxTokens,   \* max_tokens of the request, at least 1
  prefilled,   \* tokens of the prompt in both caches
  targetKv,    \* the target's KV cache (pos_ is its length)
  draftKv,     \* the draft's KV cache
  kvBase,      \* kv_base
  prevLogits,  \* the target's choice after its last decode_one
  proposals,   \* the tokens proposed in this round
  verified,    \* the target's choices after each of them
  tok,         \* the token to be emitted after the accepted ones
  out          \* the tokens of the answer

cacheVars == <<targetKv, draftKv, kvBase>>
roundVars == <<prevLogits, proposals, verified, tok>>
specVars == <<specAt, prompt, maxTokens, prefilled, cacheVars, roundVars, out>>

SpecInit ==
  /\ specAt = "free" /\ prompt = <<>> /\ maxTokens = 1 /\ prefilled = 0
  /\ targetKv = <<>> /\ draftKv = <<>> /\ kvBase = 0
  /\ prevLogits = TokenZero /\ proposals = <<>> /\ verified = <<>> /\ tok = TokenZero
  /\ out = <<>>

\* The largest of vs logits; vs is the length of the last logits of the prefill, 0 if
\* there was none, and the loop over no logits answers 0.
ArgMax(choice) == IF prompt = <<>> THEN TokenZero ELSE choice

(***************************************************************************)
(* Prefill and the first token.                                            *)
(***************************************************************************)
\* generate_completion() resets both backends before.
BeginRequest ==
  /\ specAt = "free"
  /\ \E n \in 0 .. MaxPrompt : prompt' \in [1 .. n -> Tokens]
  /\ maxTokens' \in 1 .. MaxTokens
  /\ prefilled' = 0 /\ targetKv' = <<>> /\ draftKv' = <<>>
  /\ out' = <<>> /\ kvBase' = Len(prompt') + 1
  /\ specAt' = "prefill"
  /\ UNCHANGED roundVars

Prefill ==
  /\ specAt = "prefill" /\ prefilled < Len(prompt)
  /\ targetKv' = Append(targetKv, prompt[prefilled + 1])
  /\ draftKv' = Append(draftKv, prompt[prefilled + 1])
  /\ prefilled' = prefilled + 1
  /\ UNCHANGED <<specAt, prompt, maxTokens, kvBase, roundVars, out>>

FirstToken ==
  /\ specAt = "prefill" /\ prefilled = Len(prompt)
  /\ LET first == ArgMax(TargetNext(targetKv))
     IN  /\ targetKv' = Append(targetKv, first)
         /\ draftKv' = Append(draftKv, first)
         /\ out' = <<first>>
         /\ prevLogits' = TargetNext(targetKv')
  /\ specAt' = "round"
  /\ UNCHANGED <<prompt, maxTokens, prefilled, kvBase, proposals, verified, tok>>

(***************************************************************************)
(* A round.                                                                *)
(***************************************************************************)
Propose ==
  /\ specAt = "round" /\ Len(out) < maxTokens
  /\ proposals' \in [1 .. NDraft -> Tokens]
  /\ draftKv' = draftKv \o proposals'
  /\ specAt' = "verify"
  /\ UNCHANGED <<prompt, maxTokens, prefilled, targetKv, kvBase, prevLogits, verified, tok, out>>

VerifyBatch ==
  /\ specAt = "verify"
  /\ targetKv' = targetKv \o proposals
  /\ verified' = [i \in 1 .. NDraft |-> TargetNext(targetKv \o SubSeq(proposals, 1, i))]
  /\ specAt' = "accept"
  /\ UNCHANGED <<prompt, maxTokens, prefilled, draftKv, kvBase, prevLogits, proposals, tok, out>>

\* The target's choice at the position of proposal i (i = NDraft + 1: after all of them).
Choice(i) == ArgMax(IF i = 1 THEN prevLogits ELSE verified[i - 1])

\* n is the length of the longest prefix of the proposals that the target chose as well.
IsAccepted(n) ==
  /\ \A i \in 1 .. n : proposals[i] = Choice(i)
  /\ n < NDraft => proposals[n + 1] # Choice(n + 1)

\* Error: one token too many is left in the cache.
RollbackLate(kv, keep) == IF keep + 1 >= Len(kv) THEN kv ELSE SubSeq(kv, 1, keep)

\* rollback(): a no-op unless the cache is longer.
Rollback(kv, keep) == IF keep >= Len(kv) THEN kv ELSE SubSeq(kv, 1, keep)

\* Error: max_tokens is only looked at between the rounds.
EmitAllAccepted(n) == out' = out \o SubSeq(proposals, 1, n)

\* The accepted proposals are emitted, as many as max_tokens allows.
EmitAccepted(n) ==
  LET room == maxTokens - Len(out)
  IN  out' = out \o SubSeq(proposals, 1, IF n < room THEN n ELSE room)

AcceptAll ==
  /\ specAt = "accept" /\ IsAccepted(NDraft)
  /\ EmitAccepted(NDraft)
  /\ tok' = Choice(NDraft + 1)
  /\ targetKv' = Append(targetKv, tok')
  /\ prevLogits' = TargetNext(targetKv')
  /\ kvBase' = kvBase + NDraft + 1
  /\ specAt' = "emit"
  /\ UNCHANGED <<prompt, maxTokens, prefilled, draftKv, proposals, verified>>

Reject ==
  /\ specAt = "accept"
  /\ \E n \in 0 .. NDraft - 1 :
       /\ IsAccepted(n)
       /\ EmitAccepted(n)
       /\ tok' = Choice(n + 1)
       /\ targetKv' = Append(Rollback(targetKv, kvBase + n), tok')
       /\ draftKv' = Rollback(draftKv, kvBase + n)
       /\ kvBase' = kvBase + n + 1
  /\ prevLogits' = TargetNext(targetKv')
  /\ specAt' = "emit"
  /\ UNCHANGED <<prompt, maxTokens, prefilled, proposals, verified>>

\* The target's own choice is emitted; only this token is compared with eos_id.
EmitChoice ==
  /\ specAt = "emit" /\ Len(out) < maxTokens
  /\ out' = Append(out, tok)
  /\ draftKv' = Append(draftKv, tok)
  /\ specAt' = IF tok = Eos THEN "done" ELSE "round"
  /\ UNCHANGED <<prompt, maxTokens, prefilled, targetKv, kvBase, roundVars>>

\* max_tokens is reached, or the deadline.
StopRound ==
  /\ \/ specAt = "round"
     \/ specAt = "emit" /\ Len(out) >= maxTokens
  /\ specAt' = "done"
  /\ UNCHANGED <<prompt, maxTokens, prefilled, cacheVars, roundVars, out>>

(***************************************************************************)
(* The end.                                                                *)
(***************************************************************************)
\* A decode, a batch or a rollback fails, of either backend: both are reset, the tokens are
\* forgotten and the normal loop (not modelled here) starts anew.
SpecFails ==
  /\ specAt \in {"prefill", "round", "verify", "accept", "emit"}
  /\ specAt = "round" => Len(out) < maxTokens
  /\ targetKv' = <<>> /\ draftKv' = <<>>
  /\ specAt' = "fallback"
  /\ UNCHANGED <<prompt, maxTokens, prefilled, kvBase, roundVars, out>>

EndRequest ==
  /\ specAt \in {"done", "fallback"}
  /\ specAt' = "free" /\ prompt' = <<>> /\ maxTokens' = 1 /\ prefilled' = 0 /\ kvBase' = 0
  /\ prevLogits' = TokenZero /\ proposals' = <<>> /\ verified' = <<>> /\ tok' = TokenZero
  /\ out' = <<>>
  /\ UNCHANGED <<targetKv, draftKv>>

SpecNext ==
  \/ BeginRequest \/ Prefill \/ FirstToken
  \/ Propose \/ VerifyBatch \/ AcceptAll \/ Reject \/ EmitChoice \/ StopRound
  \/ SpecFails \/ EndRequest

SpecSpec == SpecInit /\ [][SpecNext]_specVars

(***************************************************************************)
(* Properties.                                                             *)
(***************************************************************************)
SpecTypeOK ==
  /\ specAt \in {"free", "prefill", "round", "verify", "accept", "emit", "done", "fallback"}
  /\ prompt \in Seq(Tokens) /\ maxTokens \in Nat \ {0} /\ prefilled \in 0 .. Len(prompt)
  /\ targetKv \in Seq(Tokens) /\ draftKv \in Seq(Tokens) /\ kvBase \in Nat
  /\ prevLogits \in Tokens /\ tok \in Tokens
  /\ proposals \in Seq(Tokens) /\ verified \in Seq(Tokens)
  /\ out \in Seq(Tokens)

\* "Both contexts are kept symmetric so the draft's KV stays a valid prefix of the target's"
\* (unified_server.cpp:491): whenever a round starts, after any sequence of accepted and
\* rejected proposals, both caches hold the prompt and the answer, and kv_base is their length.
CachesAgree ==
  specAt = "round" =>
    /\ targetKv = prompt \o out
    /\ draftKv = prompt \o out
    /\ kvBase = Len(prompt) + Len(out)

\* The tokens o are the target's greedy choices after p.
Greedy(p, o) == \A i \in 1 .. Len(o) : o[i] = TargetNext(p \o SubSeq(o, 1, i - 1))

\* Every token of the answer is the target's greedy choice after the prompt and the tokens
\* before it, whatever the draft proposed, and there are at most max_tokens of them.  (With
\* a prompt: without one no logits of the target are ever looked at.)
TokensAreGreedy ==
  /\ prompt # <<>> => Greedy(prompt, out)
  /\ Len(out) <= maxTokens

\* "Lossless vs greedy" (unified_server.cpp:698): the greedy loop, which the speculative one
\* replaces, ends with the first eos_id.
StopsAtEos == \A i \in DOMAIN out : out[i] = Eos => i = Len(out)
===============================================================================
