------------------------------ MODULE Generation ------------------------------
(***************************************************************************)
(* The request handlers of tools/unified_server.cpp around one answer: the *)
(* three mutexes, the model switch, and generate_completion() from the     *)
(* reset to the last token, with its timeout, its two ways to a token and  *)
(* its fallback, while other handlers select a backend or a strategy.      *)
(*                                                                         *)
(* The backend manager is what these calls see of it: without a router a   *)
(* call goes to the active backend, with one to the router's (one entry,   *)
(* BackendManager has several).  Speculative decoding is SpecDecode, the   *)
(* batch scheduler's path is BatchedCompletions.                           *)
(*                                                                         *)
(* Tokens are the positions of the request's context: 1 .. promptLen is    *)
(* the prompt without a leading BOS, what follows is the answer.  A cache  *)
(* is n if the context's first n tokens are in it, each once and in order, *)
(* and Garbled if anything else is.                                        *)
(***************************************************************************)
EXTENDS Naturals, FiniteSets, SequencesExt

CONSTANTS
  Handlers,      \* handler threads of the completions endpoints
  Bs,            \* backends
  TextBs,        \* those with a generate_text()
  RoutedB,       \* the backend in the router, or NoB: the router is empty
  NoB, NoHandler, Garbled,
  MaxPromptLen,  \* bound: tokens of a prompt
  MaxAnswer      \* max_tokens (an answer may end before)

ASSUME GenerationAssumption ==
  /\ TextBs \subseteq Bs /\ RoutedB \in Bs \cup {NoB} /\ NoB \notin Bs
  /\ NoHandler \notin Handlers

VARIABLES
  gAt,          \* where each handler is
  infer,        \* the owner of g_inference_mutex
  kind,         \* the strategy of g_strategy_engine
  loaded,       \* did the init() of the last model switch succeed
  activeB,      \* active_idx_
  ready,        \* the functional backends
  kv,           \* the KV cache of each backend
  promptLen, engine,  \* of the request in progress: its parameters,
  answered,     \* the number of tokens of its answer so far,
  fedPrompt,    \* the tokens of the prompt fed so far,
  expired,      \* is its deadline over
  late,         \* history: the tokens emitted after it
  clean         \* history: no call failed and the calls all went to one backend

requestVs == <<promptLen, engine>>
progressVs == <<answered, fedPrompt>>
historyVs == <<expired, late, clean>>
managerVs == <<activeB, ready, kv>>
generationVars == <<gAt, infer, kind, loaded, managerVs, requestVs, progressVs, historyVs>>

\* "content" differs from "performance" in that it never moves the active backend.
Kinds == {"cascade", "performance"}

GenerationInit ==
  /\ gAt = [h \in Handlers |-> "idle"] /\ infer = NoHandler
  /\ kind = "cascade"
  /\ loaded = TRUE
  /\ activeB \in Bs /\ ready = Bs
  /\ kv = [b \in Bs |-> 0]
  /\ promptLen = 1 /\ engine = FALSE
  /\ answered = 0 /\ fedPrompt = 0 /\ expired = FALSE /\ late = 0 /\ clean = TRUE

(***************************************************************************)
(* What the manager does.                                                  *)
(***************************************************************************)
Routed == RoutedB # NoB
Serving(active) == IF Routed THEN RoutedB ELSE active

\* The caches c when the token was put into the one of b.
With(c, b, token) == [c EXCEPT ![b] = IF @ = token - 1 THEN token ELSE Garbled]

\* The backend made active; without a router the next call goes there.
Activate(b) ==
  /\ activeB' = b
  /\ clean' = (clean /\ (infer = NoHandler \/ Routed \/ b = activeB))

\* re_evaluate(): some functional backend becomes active, if there is one.
ReEvaluated == {activeB} \cup ready

\* Is there a model to run on the serving backend.
CanServe == loaded /\ Serving(activeB) \in ready

\* A call that worked has put the token into the serving cache.
Feeds(token) ==
  /\ CanServe
  /\ kv' = With(kv, Serving(activeB), token)

\* One that failed may have put it there or not.
FailsWith(token) ==
  /\ kv' \in {kv, With(kv, Serving(activeB), token)}
  /\ clean' = FALSE

Goto(h, at) == gAt' = [gAt EXCEPT ![h] = at]

(***************************************************************************)
(* A request comes, gets g_inference_mutex and switches the model.         *)
(***************************************************************************)
Arrive(h) ==
  /\ gAt[h] = "idle"
  /\ Goto(h, "waiting")
  /\ UNCHANGED <<infer, kind, loaded, managerVs, requestVs, progressVs, historyVs>>

\* The mutex, set_strategy() and the parameters; a named model whose hidden size or number
\* of layers are not those of current_cfg is switched to.
Enter(h) ==
  /\ gAt[h] = "waiting" /\ infer = NoHandler
  /\ infer' = h
  /\ activeB' \in ReEvaluated
  /\ promptLen' \in 1 .. MaxPromptLen
  /\ engine' \in BOOLEAN
  /\ \E at \in {"switch", "select"} : Goto(h, at)
  /\ UNCHANGED <<kind, loaded, ready, kv, progressVs, historyVs>>

\* init() of the new model may fail: nobody looks at its result.
SwitchModel(h) ==
  /\ gAt[h] = "switch"
  /\ \/ /\ ready' \in SUBSET Bs \ {{}}
        /\ activeB' \in ready' /\ (Routed => RoutedB \in ready')
        /\ loaded' = TRUE
     \/ loaded' = FALSE /\ UNCHANGED <<ready, activeB>>
  /\ kv' = [b \in Bs |-> 0]
  /\ Goto(h, "select")
  /\ UNCHANGED <<infer, kind, requestVs, progressVs, historyVs>>

\* The backend of the request's header, or of the strategy, is selected if it can be.
SelectForRequest(h) ==
  /\ gAt[h] = "select"
  /\ \E b \in ready \cup {activeB} : activeB' = b
  /\ Goto(h, "reset")
  /\ UNCHANGED <<infer, kind, loaded, ready, kv, requestVs, progressVs, historyVs>>

\* Error: the caches of the request before are kept.
ResetKeepsCache(h) ==
  /\ gAt[h] = "reset"
  /\ \/ /\ CanServe
        /\ clean' = TRUE
        /\ Goto(h, IF activeB \in TextBs THEN "text" ELSE "prefill")
     \/ Goto(h, "end") /\ UNCHANGED clean
  /\ UNCHANGED <<infer, kind, loaded, managerVs, requestVs, progressVs, expired, late>>

Reset(h) ==
  /\ gAt[h] = "reset"
  /\ \/ /\ CanServe
        /\ kv' = [kv EXCEPT ![Serving(activeB)] = 0]
        /\ clean' = TRUE
        /\ Goto(h, IF activeB \in TextBs THEN "text" ELSE "prefill")
     \/ Goto(h, "end") /\ UNCHANGED <<kv, clean>>
  /\ UNCHANGED <<infer, kind, loaded, activeB, ready, requestVs, progressVs, expired, late>>

\* generate_text() answers the whole prompt, or nothing and the token loop does.
GenerateText(h) ==
  /\ gAt[h] = "text"
  /\ \E at \in {"end", "prefill"} : Goto(h, at)
  /\ UNCHANGED <<infer, kind, loaded, managerVs, requestVs, progressVs, historyVs>>

(***************************************************************************)
(* The prefill: all tokens of the prompt but the last.                    *)
(***************************************************************************)
FeedPrompt(h) ==
  /\ gAt[h] = "prefill" /\ fedPrompt + 1 < promptLen /\ ~expired
  /\ \/ /\ Feeds(fedPrompt + 1) /\ UNCHANGED <<gAt, clean>>
        /\ fedPrompt' = fedPrompt + 1
     \/ FailsWith(fedPrompt + 1) /\ Goto(h, "end") /\ UNCHANGED fedPrompt
  /\ UNCHANGED <<infer, kind, loaded, activeB, ready, requestVs, answered, expired, late>>

PrefillTimesOut(h) ==
  /\ gAt[h] = "prefill" /\ fedPrompt + 1 < promptLen /\ expired
  /\ Goto(h, "end")
  /\ UNCHANGED <<infer, kind, loaded, managerVs, requestVs, progressVs, historyVs>>

EndPrefill(h) ==
  /\ gAt[h] = "prefill" /\ fedPrompt + 1 = promptLen
  /\ Goto(h, "next")
  /\ UNCHANGED <<infer, kind, loaded, managerVs, requestVs, progressVs, historyVs>>

(***************************************************************************)
(* The answer, token by token.                                             *)
(***************************************************************************)
LastToken == promptLen + answered

\* Error: the time is not looked at between the tokens.
NeverTimesOut(h) == FALSE

TimesOut(h) == expired

\* max_tokens is reached, or the deadline.
EndLoop(h) ==
  /\ gAt[h] = "next" /\ (answered = MaxAnswer \/ TimesOut(h))
  /\ Goto(h, "end")
  /\ UNCHANGED <<infer, kind, loaded, managerVs, requestVs, progressVs, historyVs>>

\* The strategy chooses a backend for the token, and it is selected if it can be.
RouteToken(h) ==
  /\ gAt[h] = "next" /\ answered < MaxAnswer /\ ~TimesOut(h)
  /\ IF engine THEN \E b \in ready \cup {activeB} : Activate(b)
     ELSE UNCHANGED <<activeB, clean>>
  /\ Goto(h, "path")
  /\ UNCHANGED <<infer, kind, loaded, ready, kv, requestVs, progressVs, expired, late>>

\* The strategy's name is asked again, without g_strategy_mutex.
NeedLogprobs == engine /\ kind = "cascade"

\* generate() does all; forward() only feeds, and lm_head() has to follow.  It is taken for
\* log-probabilities and for sampling (a parameter of the request, left open here).
CallForToken(h) ==
  /\ gAt[h] = "path"
  /\ \/ /\ Feeds(LastToken) /\ UNCHANGED clean
        /\ \/ Goto(h, "head")
           \/ ~NeedLogprobs /\ Goto(h, "emit")
     \/ FailsWith(LastToken) /\ Goto(h, "fallback")
  /\ UNCHANGED <<infer, kind, loaded, activeB, ready, requestVs, progressVs, expired, late>>

LmHead(h) ==
  /\ gAt[h] = "head"
  /\ \/ Goto(h, "emit") /\ UNCHANGED clean
     \/ Goto(h, "fallback") /\ clean' = FALSE
  /\ UNCHANGED <<infer, kind, loaded, managerVs, requestVs, progressVs, expired, late>>

\* The functional backends are selected one after another and asked for the same token;
\* when log-probabilities are wanted the new token is fed as well.
Fallback(h) ==
  /\ gAt[h] = "fallback"
  /\ \/ \E b \in ready :
          /\ activeB' = b /\ loaded
          /\ LET once == With(kv, Serving(b), LastToken)
             IN  \/ kv' = once
                 \/ NeedLogprobs /\ kv' = With(once, Serving(b), LastToken + 1)
          /\ Goto(h, "emit")
     \/ Goto(h, "end") /\ activeB' \in ReEvaluated /\ UNCHANGED kv
  /\ UNCHANGED <<infer, kind, loaded, ready, requestVs, progressVs, historyVs>>

\* The token is appended to the answer; an eos_id ends it.
Emit(h) ==
  /\ gAt[h] = "emit"
  /\ answered' = answered + 1
  /\ late' = IF expired THEN late + 1 ELSE late
  /\ \E at \in {"next", "end"} : Goto(h, at)
  /\ UNCHANGED <<infer, kind, loaded, managerVs, requestVs, fedPrompt, expired, clean>>

\* The handler returns: its locals are gone, the mutex is free, and what the caches hold is
\* no longer the context of a request.
Finish(h) ==
  /\ gAt[h] = "end"
  /\ infer' = NoHandler /\ Goto(h, "idle")
  /\ promptLen' = 1 /\ engine' = FALSE
  /\ answered' = 0 /\ fedPrompt' = 0 /\ expired' = FALSE /\ late' = 0 /\ clean' = TRUE
  /\ kv' = [b \in Bs |-> IF kv[b] = 0 THEN 0 ELSE Garbled]
  /\ UNCHANGED <<kind, loaded, activeB, ready>>

\* The wall clock passes the deadline.
Expire ==
  /\ infer # NoHandler /\ ~expired
  /\ gAt[infer] \in {"prefill", "next", "path", "head", "fallback", "emit"}
  /\ expired' = TRUE
  /\ UNCHANGED <<gAt, infer, kind, loaded, managerVs, requestVs, progressVs, late, clean>>

(***************************************************************************)
(* The other endpoints.                                                    *)
(***************************************************************************)
\* /v1/backend/select, with g_inference_mutex.
SelectBackend(b) ==
  /\ infer = NoHandler /\ b \in ready
  /\ activeB' = b
  /\ UNCHANGED <<gAt, infer, kind, loaded, ready, kv, requestVs, progressVs, historyVs>>

\* /v1/strategy/select, with g_strategy_mutex only: "performance" calls set_strategy().
SelectStrategy(s) ==
  /\ kind' = s
  /\ IF s = "performance" THEN \E b \in ReEvaluated : Activate(b)
     ELSE UNCHANGED <<activeB, clean>>
  /\ UNCHANGED <<gAt, infer, loaded, ready, kv, requestVs, progressVs, expired, late>>

Advance(h) ==
  \/ SwitchModel(h) \/ SelectForRequest(h) \/ Reset(h) \/ GenerateText(h)
  \/ FeedPrompt(h) \/ PrefillTimesOut(h) \/ EndPrefill(h)
  \/ EndLoop(h) \/ RouteToken(h) \/ CallForToken(h) \/ LmHead(h) \/ Fallback(h) \/ Emit(h)
  \/ Finish(h)

GenerationNext ==
  \/ \E h \in Handlers : Arrive(h) \/ Enter(h) \/ Advance(h)
  \/ Expire
  \/ \E b \in Bs : SelectBackend(b)
  \/ \E s \in Kinds : SelectStrategy(s)

GenerationSpec == GenerationInit /\ [][GenerationNext]_generationVars

(***************************************************************************)
(* Properties.                                                             *)
(***************************************************************************)
InLoop == infer # NoHandler /\ gAt[infer] \in {"next", "path"}

\* The split of the prompt into a prefill and a last token, the two ways to a token and the
\* skipped BOS add up: as long as no call failed and all went to one backend, the cache
\* behind the next call is the prompt and the answer without its last token, each once and
\* in order, whatever sessions, switches and failures came before.
CacheIsContext ==
  InLoop /\ clean => kv[Serving(activeB)] = LastToken - 1

\* "Timeout is checked per-token so g_inference_mutex is released promptly"
\* (unified_server.cpp:769): at most one token is emitted after the deadline.
OneTokenAfterDeadline == late <= 1
===============================================================================
