--------------------------- MODULE InferenceProofs ----------------------------
(***************************************************************************)
(* What runs below g_inference_mutex.  ManagerLocks, for any number of     *)
(* backends and any number of rounds of the watchdog: without a router the *)
(* handler and the watchdog are never inside one instance, with one they   *)
(* never wait for each other.  Generation, for any number of handlers and  *)
(* backends, with and without a router, and for prompts and answers of any *)
(* length: the cache is the context, and the deadline holds.               *)
(***************************************************************************)
EXTENDS ManagerLocks, Generation, TLAPS

-----------------------------------------------------------------------------
(***************************************************************************)
(* The locks inside the backend manager.                                   *)
(***************************************************************************)
\* Who may be where, with which mutex.
HandlerHolds ==
  /\ hAt \in {"routed", "resetEntry"} => routed # {}
  /\ hAt \in {"resetEntry", "underMtx", "unlock", "failoverCompute"} => mtx = "handler"
  /\ hAt \in {"snap", "compute", "stats", "failed"} => hOn \in Backends
  /\ hAt \in {"compute", "stats", "failed"} => computeMtx[hOn] = "handler"

WatchdogHolds ==
  /\ wAt \in {"probe", "probing", "next", "measure"} => mtx = "watchdog"
  /\ wAt \in {"probe", "probing", "measure"} => wOn \in Backends
  /\ wAt \in {"probing", "measure"} => computeMtx[wOn] = "watchdog"

Shapes ==
  /\ live \subseteq Backends /\ found \subseteq Backends /\ routed \subseteq Backends
  /\ computeMtx \in [Backends -> {Nobody, "handler", "watchdog"}]

LocksInv == Shapes /\ HandlerHolds /\ WatchdogHolds

\* The invariant is kept by CallRouted.
LEMMA KeepsCallRouted == ASSUME LocksInv, NEW b \in Backends, CallRouted(b) PROVE LocksInv'
BY LocksAssumption
DEF LocksInv, Shapes, HandlerHolds, WatchdogHolds, CallRouted, infoVs, watchdogVs, Free

\* The invariant is kept by RoutedReturns.
LEMMA KeepsRoutedReturns == ASSUME LocksInv, RoutedReturns PROVE LocksInv'
BY LocksAssumption
DEF LocksInv, Shapes, HandlerHolds, WatchdogHolds, RoutedReturns, infoVs, watchdogVs

\* The invariant is kept by CallReset.
LEMMA KeepsCallReset == ASSUME LocksInv, CallReset PROVE LocksInv'
BY LocksAssumption
DEF LocksInv, Shapes, HandlerHolds, WatchdogHolds, CallReset, infoVs, lockVs, watchdogVs

\* The invariant is kept by ResetLocks.
LEMMA KeepsResetLocks == ASSUME LocksInv, ResetLocks PROVE LocksInv'
BY LocksAssumption
DEF LocksInv, Shapes, HandlerHolds, WatchdogHolds, ResetLocks, infoVs, watchdogVs, ActiveB

\* The invariant is kept by ResetEntry.
LEMMA KeepsResetEntry == ASSUME LocksInv, NEW b \in Backends, ResetEntry(b) PROVE LocksInv'
BY LocksAssumption
DEF LocksInv, Shapes, HandlerHolds, WatchdogHolds, ResetEntry, infoVs, watchdogVs, Free

\* The invariant is kept by EntryIsReset.
LEMMA KeepsEntryIsReset == ASSUME LocksInv, EntryIsReset PROVE LocksInv'
BY LocksAssumption
DEF LocksInv, Shapes, HandlerHolds, WatchdogHolds, EntryIsReset, infoVs, watchdogVs

\* The invariant is kept by CallForward.
LEMMA KeepsCallForward == ASSUME LocksInv, CallForward PROVE LocksInv'
BY LocksAssumption
DEF LocksInv, Shapes, HandlerHolds, WatchdogHolds, CallForward, infoVs, watchdogVs, ActiveB

\* The invariant is kept by UnderMtxReturns.
LEMMA KeepsUnderMtxReturns == ASSUME LocksInv, UnderMtxReturns PROVE LocksInv'
BY LocksAssumption
DEF LocksInv, Shapes, HandlerHolds, WatchdogHolds, UnderMtxReturns, lockVs, watchdogVs

\* The invariant is kept by Unlock.
LEMMA KeepsUnlock == ASSUME LocksInv, Unlock PROVE LocksInv'
BY LocksAssumption
DEF LocksInv, Shapes, HandlerHolds, WatchdogHolds, Unlock, infoVs, watchdogVs

\* The invariant is kept by CallGenerate.
LEMMA KeepsCallGenerate == ASSUME LocksInv, CallGenerate PROVE LocksInv'
BY LocksAssumption
DEF LocksInv, Shapes, HandlerHolds, WatchdogHolds, CallGenerate, infoVs, lockVs, watchdogVs, ActiveB

\* The invariant is kept by LockCompute.
LEMMA KeepsLockCompute == ASSUME LocksInv, LockCompute PROVE LocksInv'
BY LocksAssumption
DEF LocksInv, Shapes, HandlerHolds, WatchdogHolds, LockCompute, infoVs, watchdogVs, Free

\* The invariant is kept by Computed.
LEMMA KeepsComputed == ASSUME LocksInv, Computed PROVE LocksInv'
BY LocksAssumption
DEF LocksInv, Shapes, HandlerHolds, WatchdogHolds, Computed, infoVs, lockVs, watchdogVs

\* The invariant is kept by Stats.
LEMMA KeepsStats == ASSUME LocksInv, Stats PROVE LocksInv'
BY LocksAssumption
DEF LocksInv, Shapes, HandlerHolds, WatchdogHolds, Stats, watchdogVs

\* The invariant is kept by FailoverTo.
LEMMA KeepsFailoverTo == ASSUME LocksInv, NEW ups \in SUBSET Backends, FailoverTo(ups) PROVE LocksInv'
BY LocksAssumption
DEF LocksInv, Shapes, HandlerHolds, WatchdogHolds, FailoverTo, watchdogVs, ActiveB

\* The invariant is kept by FailoverReturns.
LEMMA KeepsFailoverReturns == ASSUME LocksInv, FailoverReturns PROVE LocksInv'
BY LocksAssumption
DEF LocksInv, Shapes, HandlerHolds, WatchdogHolds, FailoverReturns, watchdogVs

\* The invariant is kept by Wake.
LEMMA KeepsWake == ASSUME LocksInv, Wake PROVE LocksInv'
BY LocksAssumption
DEF LocksInv, Shapes, HandlerHolds, WatchdogHolds, Wake, infoVs, lockVs, handlerVs

\* The invariant is kept by HealthLocks.
LEMMA KeepsHealthLocks == ASSUME LocksInv, HealthLocks PROVE LocksInv'
BY LocksAssumption
DEF LocksInv, Shapes, HandlerHolds, WatchdogHolds, HealthLocks, infoVs, handlerVs, ActiveB

\* The invariant is kept by ProbeLocks.
LEMMA KeepsProbeLocks == ASSUME LocksInv, ProbeLocks PROVE LocksInv'
BY LocksAssumption
DEF LocksInv, Shapes, HandlerHolds, WatchdogHolds, ProbeLocks, infoVs, handlerVs, Free

\* The invariant is kept by Probed.
LEMMA KeepsProbed == ASSUME LocksInv, Probed PROVE LocksInv'
BY LocksAssumption
DEF LocksInv, Shapes, HandlerHolds, WatchdogHolds, Probed, handlerVs, Unowned

\* The invariant is kept by NoBenchmark.
LEMMA KeepsNoBenchmark == ASSUME LocksInv, NoBenchmark PROVE LocksInv'
BY LocksAssumption
DEF LocksInv, Shapes, HandlerHolds, WatchdogHolds, NoBenchmark, infoVs, lockVs, handlerVs

\* The invariant is kept by BenchmarkDue.
LEMMA KeepsBenchmarkDue == ASSUME LocksInv, BenchmarkDue PROVE LocksInv'
BY LocksAssumption
DEF LocksInv, Shapes, HandlerHolds, WatchdogHolds, BenchmarkDue, infoVs, lockVs, handlerVs

\* The invariant is kept by BenchmarkLocks.
LEMMA KeepsBenchmarkLocks == ASSUME LocksInv, BenchmarkLocks PROVE LocksInv'
BY LocksAssumption
DEF LocksInv, Shapes, HandlerHolds, WatchdogHolds, BenchmarkLocks, infoVs, handlerVs

\* The invariant is kept by MeasureLocks.
LEMMA KeepsMeasureLocks == ASSUME LocksInv, MeasureLocks PROVE LocksInv'
BY LocksAssumption
DEF LocksInv, Shapes, HandlerHolds, WatchdogHolds, MeasureLocks, infoVs, handlerVs, Free, Due

\* The invariant is kept by Measured.
LEMMA KeepsMeasured == ASSUME LocksInv, Measured PROVE LocksInv'
BY LocksAssumption
DEF LocksInv, Shapes, HandlerHolds, WatchdogHolds, Measured, handlerVs

\* The invariant is kept by Ranks.
LEMMA KeepsRanks == ASSUME LocksInv, Ranks PROVE LocksInv'
BY LocksAssumption
DEF LocksInv, Shapes, HandlerHolds, WatchdogHolds, Ranks, handlerVs, Due

\* The first state satisfies the invariant.
LEMMA LocksStart == LocksInit => LocksInv
BY LocksAssumption DEF LocksInit, LocksInv, Shapes, HandlerHolds, WatchdogHolds

\* Every step keeps it.
LEMMA LocksStep == LocksInv /\ [LocksNext]_locksVars => LocksInv'
<1> SUFFICES ASSUME LocksInv, [LocksNext]_locksVars PROVE LocksInv'
  OBVIOUS
<1>1. CASE HandlerCalls
  BY <1>1, KeepsCallRouted, KeepsCallReset, KeepsCallForward, KeepsCallGenerate DEF HandlerCalls
<1>2. CASE HandlerReturns
  BY <1>2, KeepsRoutedReturns, KeepsResetLocks, KeepsResetEntry, KeepsEntryIsReset,
     KeepsUnderMtxReturns, KeepsUnlock, KeepsLockCompute, KeepsComputed, KeepsStats,
     KeepsFailoverTo, KeepsFailoverReturns DEF HandlerReturns
<1>3. CASE Wake
  BY <1>3, KeepsWake
<1>4. CASE WatchdogStep
  BY <1>4, KeepsHealthLocks, KeepsProbeLocks, KeepsProbed, KeepsNoBenchmark,
     KeepsBenchmarkDue, KeepsBenchmarkLocks, KeepsMeasureLocks, KeepsMeasured, KeepsRanks
     DEF WatchdogStep
<1>5. CASE UNCHANGED locksVars
  BY <1>5 DEF LocksInv, Shapes, HandlerHolds, WatchdogHolds, locksVars, infoVs, lockVs,
     handlerVs, watchdogVs
<1> QED BY <1>1, <1>2, <1>3, <1>4, <1>5 DEF LocksNext

\* The invariant holds throughout: which mutex each thread holds where it is.
THEOREM LocksInvariant == LocksSpec => []LocksInv
<1>1. LocksInit => LocksInv
  BY LocksStart
<1>2. LocksInv /\ [LocksNext]_locksVars => LocksInv'
  BY LocksStep
<1> QED BY <1>1, <1>2, PTL DEF LocksSpec

\* Without a router the handler (generate, forward, lm_head, reset, failover) and the
\* watchdog (health_check, benchmark_all) are never inside one instance.
THEOREM LocksOneThreadPerInstance == LocksSpec => []OneThreadPerInstance
<1>1. LocksInv => OneThreadPerInstance
  BY LocksAssumption DEF LocksInv, HandlerHolds, WatchdogHolds, OneThreadPerInstance, BothInside, HandlerInside,
     WatchdogInside
<1> QED BY <1>1, LocksInvariant, PTL

\* The other way round: whoever owns a mutex is where it gives it back, and with a router the
\* handler takes no mutex of the manager but mtx_ in reset().
OwnersKnown ==
  /\ mtx \in {Nobody, "handler", "watchdog"}
  /\ mtx = "handler" => hAt \in {"resetEntry", "underMtx", "unlock", "failoverCompute"}
  /\ mtx = "watchdog" => wAt \in {"probe", "probing", "next", "measure"}
  /\ entryMtx \in [Backends -> {Nobody, "handler"}]
  /\ \A b \in Backends :
       /\ entryMtx[b] = "handler" => hAt \in {"routed", "resetEntry"} /\ hOn = b
       /\ computeMtx[b] = "handler" => hAt \in {"compute", "stats", "failed"}
       /\ computeMtx[b] = "handler" => hOn = b
       /\ computeMtx[b] = "watchdog" => wAt \in {"probing", "measure"} /\ wOn = b

HandlerGoes ==
  /\ hAt \in {"idle", "reset", "unlock", "failover"} => hOn = Nobody
  /\ hTodo \subseteq Backends
  /\ hAt = "resetEntry" /\ hOn = Nobody => hTodo # {}
  /\ routed # {} => hAt \in {"idle", "routed", "reset", "resetEntry", "unlock"}

OwnersInv == LocksInv /\ OwnersKnown /\ HandlerGoes

\* With a router, who has to wait waits for mtx_ only, and who has mtx_ waits for nobody.
OnlyMtxIsWaitedFor ==
  routed # {} =>
    /\ hAt = "idle" => \A b \in Backends : Free(entryMtx, b)
    /\ hAt = "resetEntry" /\ hOn = Nobody => \E b \in hTodo : Free(entryMtx, b)
    /\ wAt \in {"probe", "next"} => \A b \in Backends : Free(computeMtx, b)
    /\ mtx = "handler" => hAt \in {"resetEntry", "unlock"}
    /\ mtx = "watchdog" => wAt \in {"probe", "probing", "next", "measure"}

\* Every step keeps what is known of the owners.
LEMMA OwnersStep == OwnersInv /\ [LocksNext]_locksVars => OwnersInv'
<1> SUFFICES ASSUME OwnersInv, [LocksNext]_locksVars PROVE OwnersKnown' /\ HandlerGoes'
  BY LocksStep DEF OwnersInv
<1> USE LocksAssumption DEF OwnersInv, LocksInv, Shapes, HandlerHolds, WatchdogHolds, OwnersKnown, HandlerGoes
<1>1. CASE \E b \in Backends : CallRouted(b)
  BY <1>1 DEF CallRouted, infoVs, watchdogVs, Free
<1>2. CASE RoutedReturns
  BY <1>2 DEF RoutedReturns, infoVs, watchdogVs
<1>3. CASE CallReset
  BY <1>3 DEF CallReset, infoVs, lockVs, watchdogVs
<1>4. CASE ResetLocks
  BY <1>4 DEF ResetLocks, infoVs, watchdogVs
<1>5. CASE \E b \in Backends : ResetEntry(b)
  BY <1>5 DEF ResetEntry, infoVs, watchdogVs, Free
<1>6. CASE EntryIsReset
  BY <1>6 DEF EntryIsReset, infoVs, watchdogVs
<1>7. CASE CallForward
  BY <1>7 DEF CallForward, infoVs, watchdogVs
<1>8. CASE UnderMtxReturns
  BY <1>8 DEF UnderMtxReturns, lockVs, watchdogVs
<1>9. CASE Unlock
  BY <1>9 DEF Unlock, infoVs, watchdogVs
<1>10. CASE CallGenerate
  BY <1>10 DEF CallGenerate, infoVs, lockVs, watchdogVs
<1>11. CASE LockCompute
  BY <1>11 DEF LockCompute, infoVs, watchdogVs, Free
<1>12. CASE Computed
  BY <1>12 DEF Computed, infoVs, lockVs, watchdogVs
<1>13. CASE Stats
  BY <1>13 DEF Stats, watchdogVs
<1>14. CASE \E ups \in SUBSET Backends : FailoverTo(ups)
  BY <1>14 DEF FailoverTo, watchdogVs
<1>15. CASE FailoverReturns
  BY <1>15 DEF FailoverReturns, watchdogVs
<1>16. CASE Wake
  BY <1>16 DEF Wake, infoVs, lockVs, handlerVs
<1>17. CASE HealthLocks
  BY <1>17 DEF HealthLocks, infoVs, handlerVs
<1>18. CASE ProbeLocks
  BY <1>18 DEF ProbeLocks, infoVs, handlerVs, Free
<1>19. CASE Probed
  BY <1>19 DEF Probed, handlerVs, Unowned
<1>20. CASE NoBenchmark
  BY <1>20 DEF NoBenchmark, infoVs, lockVs, handlerVs
<1>21. CASE BenchmarkDue
  BY <1>21 DEF BenchmarkDue, infoVs, lockVs, handlerVs
<1>22. CASE BenchmarkLocks
  BY <1>22 DEF BenchmarkLocks, infoVs, handlerVs
<1>23. CASE MeasureLocks
  BY <1>23 DEF MeasureLocks, infoVs, handlerVs, Free
<1>24. CASE Measured
  BY <1>24 DEF Measured, handlerVs
<1>25. CASE Ranks
  BY <1>25 DEF Ranks, handlerVs
<1>26. CASE UNCHANGED locksVars
  BY <1>26 DEF locksVars, infoVs, lockVs, handlerVs, watchdogVs
<1> QED
  BY <1>1, <1>2, <1>3, <1>4, <1>5, <1>6, <1>7, <1>8, <1>9, <1>10, <1>11, <1>12, <1>13,
     <1>14, <1>15, <1>16, <1>17, <1>18, <1>19, <1>20, <1>21, <1>22, <1>23, <1>24, <1>25, <1>26
  DEF LocksNext, HandlerCalls, HandlerReturns, WatchdogStep

\* With a router no order of locks can make handler and watchdog wait for each other, for any
\* number of backends and rounds: the safety half of LockedCallsReturn (reset(), forward(),
\* generate(), health_check(), benchmark_all()).
THEOREM LocksNeverCircular == LocksSpec => []OnlyMtxIsWaitedFor
<1>1. LocksInit => OwnersInv
  BY LocksStart, LocksAssumption DEF LocksInit, OwnersInv, OwnersKnown, HandlerGoes
<1>2. OwnersInv => OnlyMtxIsWaitedFor
  BY LocksAssumption DEF OwnersInv, LocksInv, Shapes, OwnersKnown, HandlerGoes, OnlyMtxIsWaitedFor, Free
<1> QED BY <1>1, <1>2, OwnersStep, PTL DEF LocksSpec

-----------------------------------------------------------------------------
(***************************************************************************)
(* The loop of a request.                                                  *)
(***************************************************************************)
\* The values the variables take, as far as the proof needs them.
GenerationShapes ==
  /\ gAt \in [Handlers -> {"idle", "waiting", "switch", "select", "reset", "text", "prefill",
                          "next", "path", "head", "fallback", "emit", "end"}]
  /\ infer \in Handlers \cup {NoHandler}
  /\ activeB \in Bs /\ ready \subseteq Bs
  /\ promptLen \in Nat \ {0} /\ answered \in Nat /\ fedPrompt \in Nat /\ late \in Nat

Caches == [Bs -> Nat \cup {Garbled}]
CachesOK == kv \in Caches

\* g_inference_mutex: whoever is inside a request owns it.
InferExclusive == \A h \in Handlers : gAt[h] \notin {"idle", "waiting"} <=> infer = h

\* How far the request and the serving cache are, at each place.
Phases ==
  \A h \in Handlers :
    /\ gAt[h] \in {"switch", "select", "reset", "text"} => answered = 0 /\ fedPrompt = 0
    /\ gAt[h] = "text" /\ clean => kv[Serving(activeB)] = 0
    /\ gAt[h] = "prefill" => answered = 0 /\ fedPrompt + 1 <= promptLen
    /\ gAt[h] = "prefill" /\ clean => kv[Serving(activeB)] = fedPrompt
    /\ gAt[h] \in {"next", "path"} /\ clean => kv[Serving(activeB)] = promptLen + answered - 1
    /\ gAt[h] \in {"head", "emit"} /\ clean => kv[Serving(activeB)] = promptLen + answered
    /\ gAt[h] = "fallback" => ~clean

\* A token after the deadline is the last one.
Deadline ==
  /\ late <= 1
  /\ late = 1 => expired
  /\ late = 1 => infer # NoHandler /\ gAt[infer] \in {"next", "end"}

\* Between two requests the locals have their first values.
BetweenRequests ==
  infer = NoHandler => answered = 0 /\ fedPrompt = 0 /\ late = 0

GenerationInv == GenerationShapes /\ CachesOK /\ InferExclusive /\ Phases /\ Deadline /\ BetweenRequests

\* What can happen to the caches leaves each of them a length or Garbled.
LEMMA WithCaches ==
  ASSUME NEW c \in Caches, NEW b \in Bs, NEW t \in Nat PROVE With(c, b, t) \in Caches
<1>1. (IF c[b] = t - 1 THEN t ELSE Garbled) \in Nat \cup {Garbled}
  OBVIOUS
<1> QED BY <1>1 DEF Caches, With

\* Empty caches are caches.
LEMMA EmptyCaches == [b \in Bs |-> 0] \in Caches
BY DEF Caches

\* What a request leaves behind are caches.
LEMMA LeftCaches ==
  ASSUME NEW c \in Caches PROVE [b \in Bs |-> IF c[b] = 0 THEN 0 ELSE Garbled] \in Caches
BY DEF Caches

\* A cache that is reset stays a cache.
LEMMA ClearedCache == ASSUME NEW c \in Caches, NEW b \in Bs PROVE [c EXCEPT ![b] = 0] \in Caches
BY DEF Caches

\* A call goes to a backend.
LEMMA ServesABackend == ASSUME GenerationShapes PROVE Serving(activeB) \in Bs
BY GenerationAssumption DEF GenerationShapes, Serving, Routed

\* The invariant is kept by Arrive.
LEMMA KeepsArrive == ASSUME GenerationInv, NEW h \in Handlers, Arrive(h) PROVE GenerationInv'
<1>s. Serving(activeB) \in Bs
  BY ServesABackend DEF GenerationInv
<1>1. GenerationShapes'
  BY GenerationAssumption DEF GenerationInv, GenerationShapes, Arrive, Goto, managerVs,
     requestVs, progressVs, historyVs
<1>2. CachesOK'
  BY DEF GenerationInv, GenerationShapes, CachesOK, Arrive, Goto, managerVs, requestVs,
     progressVs, historyVs
<1>3. InferExclusive'
  BY GenerationAssumption DEF GenerationInv, GenerationShapes, InferExclusive, Arrive,
     Goto, managerVs, requestVs, progressVs, historyVs
<1>4. Phases'
  BY <1>s, GenerationAssumption DEF GenerationInv, GenerationShapes, CachesOK, Caches,
     InferExclusive, Phases, BetweenRequests, Arrive, Goto, managerVs, requestVs,
     progressVs, historyVs, Serving, Routed
<1>5. Deadline' /\ BetweenRequests'
  BY GenerationAssumption DEF GenerationInv, GenerationShapes, InferExclusive, Deadline,
     BetweenRequests, Arrive, Goto, managerVs, requestVs, progressVs, historyVs
<1> QED BY <1>1, <1>2, <1>3, <1>4, <1>5 DEF GenerationInv

\* The invariant is kept by Enter.
LEMMA KeepsEnter == ASSUME GenerationInv, NEW h \in Handlers, Enter(h) PROVE GenerationInv'
<1>s. Serving(activeB) \in Bs
  BY ServesABackend DEF GenerationInv
<1>1. GenerationShapes'
  BY GenerationAssumption DEF GenerationInv, GenerationShapes, Enter, ReEvaluated, Goto,
     progressVs, historyVs
<1>2. CachesOK'
  BY DEF GenerationInv, GenerationShapes, CachesOK, Enter, ReEvaluated, Goto,
     progressVs, historyVs
<1>3. InferExclusive'
  BY GenerationAssumption DEF GenerationInv, GenerationShapes, InferExclusive, Enter,
     ReEvaluated, Goto, progressVs, historyVs
<1>4. Phases'
  BY <1>s, GenerationAssumption DEF GenerationInv, GenerationShapes, CachesOK, Caches,
     InferExclusive, Phases, BetweenRequests, Enter, ReEvaluated, Goto, progressVs,
     historyVs, Serving, Routed
<1>5. Deadline' /\ BetweenRequests'
  BY GenerationAssumption DEF GenerationInv, GenerationShapes, InferExclusive, Deadline,
     BetweenRequests, Enter, ReEvaluated, Goto, progressVs, historyVs
<1> QED BY <1>1, <1>2, <1>3, <1>4, <1>5 DEF GenerationInv

\* The invariant is kept by SwitchModel.
LEMMA KeepsSwitchModel == ASSUME GenerationInv, NEW h \in Handlers, SwitchModel(h) PROVE GenerationInv'
<1>s. Serving(activeB) \in Bs
  BY ServesABackend DEF GenerationInv
<1>1. GenerationShapes'
  BY GenerationAssumption DEF GenerationInv, GenerationShapes, SwitchModel, Routed,
     Goto, requestVs, progressVs, historyVs
<1>2. CachesOK'
  BY <1>s, EmptyCaches DEF GenerationInv, GenerationShapes, CachesOK, SwitchModel, Goto,
     requestVs, progressVs, historyVs
<1>3. InferExclusive'
  BY GenerationAssumption DEF GenerationInv, GenerationShapes, InferExclusive,
     SwitchModel, Routed, Goto, requestVs, progressVs, historyVs
<1>4. Phases'
  BY <1>s, GenerationAssumption DEF GenerationInv, GenerationShapes, CachesOK, Caches,
     InferExclusive, Phases, BetweenRequests, SwitchModel, Routed, Goto, requestVs,
     progressVs, historyVs, Serving
<1>5. Deadline' /\ BetweenRequests'
  BY GenerationAssumption DEF GenerationInv, GenerationShapes, InferExclusive, Deadline,
     BetweenRequests, SwitchModel, Routed, Goto, requestVs, progressVs, historyVs
<1> QED BY <1>1, <1>2, <1>3, <1>4, <1>5 DEF GenerationInv

\* The invariant is kept by SelectForRequest.
LEMMA KeepsSelectForRequest == ASSUME GenerationInv, NEW h \in Handlers, SelectForRequest(h) PROVE GenerationInv'
<1>s. Serving(activeB) \in Bs
  BY ServesABackend DEF GenerationInv
<1>1. GenerationShapes'
  BY GenerationAssumption DEF GenerationInv, GenerationShapes, SelectForRequest, Goto,
     requestVs, progressVs, historyVs
<1>2. CachesOK'
  BY DEF GenerationInv, GenerationShapes, CachesOK, SelectForRequest, Goto, requestVs,
     progressVs, historyVs
<1>3. InferExclusive'
  BY GenerationAssumption DEF GenerationInv, GenerationShapes, InferExclusive,
     SelectForRequest, Goto, requestVs, progressVs, historyVs
<1>4. Phases'
  BY <1>s, GenerationAssumption DEF GenerationInv, GenerationShapes, CachesOK, Caches,
     InferExclusive, Phases, BetweenRequests, SelectForRequest, Goto, requestVs,
     progressVs, historyVs, Serving, Routed
<1>5. Deadline' /\ BetweenRequests'
  BY GenerationAssumption DEF GenerationInv, GenerationShapes, InferExclusive, Deadline,
     BetweenRequests, SelectForRequest, Goto, requestVs, progressVs, historyVs
<1> QED BY <1>1, <1>2, <1>3, <1>4, <1>5 DEF GenerationInv

\* The invariant is kept by Reset.
LEMMA KeepsReset == ASSUME GenerationInv, NEW h \in Handlers, Reset(h) PROVE GenerationInv'
<1>s. Serving(activeB) \in Bs
  BY ServesABackend DEF GenerationInv
<1>1. GenerationShapes'
  BY GenerationAssumption DEF GenerationInv, GenerationShapes, Reset, CanServe, Serving,
     Goto, requestVs, progressVs, Routed
<1>2. CachesOK'
  BY <1>s, ClearedCache DEF GenerationInv, GenerationShapes, CachesOK, Reset, CanServe,
     Goto, requestVs, progressVs
<1>3. InferExclusive'
  BY GenerationAssumption DEF GenerationInv, GenerationShapes, InferExclusive, Reset,
     CanServe, Serving, Goto, requestVs, progressVs, Routed
<1>4. Phases'
  BY <1>s, GenerationAssumption DEF GenerationInv, GenerationShapes, CachesOK, Caches,
     InferExclusive, Phases, BetweenRequests, Reset, CanServe, Serving, Goto, requestVs,
     progressVs, Routed
<1>5. Deadline' /\ BetweenRequests'
  BY GenerationAssumption DEF GenerationInv, GenerationShapes, InferExclusive, Deadline,
     BetweenRequests, Reset, CanServe, Serving, Goto, requestVs, progressVs, Routed
<1> QED BY <1>1, <1>2, <1>3, <1>4, <1>5 DEF GenerationInv

\* The invariant is kept by GenerateText.
LEMMA KeepsGenerateText == ASSUME GenerationInv, NEW h \in Handlers, GenerateText(h) PROVE GenerationInv'
<1>s. Serving(activeB) \in Bs
  BY ServesABackend DEF GenerationInv
<1>1. GenerationShapes'
  BY GenerationAssumption DEF GenerationInv, GenerationShapes, GenerateText, Goto,
     managerVs, requestVs, progressVs, historyVs
<1>2. CachesOK'
  BY DEF GenerationInv, GenerationShapes, CachesOK, GenerateText, Goto, managerVs,
     requestVs, progressVs, historyVs
<1>3. InferExclusive'
  BY GenerationAssumption DEF GenerationInv, GenerationShapes, InferExclusive,
     GenerateText, Goto, managerVs, requestVs, progressVs, historyVs
<1>4. Phases'
  BY <1>s, GenerationAssumption DEF GenerationInv, GenerationShapes, CachesOK, Caches,
     InferExclusive, Phases, BetweenRequests, GenerateText, Goto, managerVs, requestVs,
     progressVs, historyVs, Serving, Routed
<1>5. Deadline' /\ BetweenRequests'
  BY GenerationAssumption DEF GenerationInv, GenerationShapes, InferExclusive, Deadline,
     BetweenRequests, GenerateText, Goto, managerVs, requestVs, progressVs, historyVs
<1> QED BY <1>1, <1>2, <1>3, <1>4, <1>5 DEF GenerationInv

\* The invariant is kept by FeedPrompt.
LEMMA KeepsFeedPrompt == ASSUME GenerationInv, NEW h \in Handlers, FeedPrompt(h) PROVE GenerationInv'
<1>s. Serving(activeB) \in Bs
  BY ServesABackend DEF GenerationInv
<1>1. GenerationShapes'
  BY GenerationAssumption DEF GenerationInv, GenerationShapes, FeedPrompt, Feeds,
     FailsWith, Goto, requestVs, CanServe, Serving, Routed
<1>2. CachesOK'
  BY <1>s, WithCaches DEF GenerationInv, GenerationShapes, CachesOK, FeedPrompt, Feeds,
     FailsWith, Goto, requestVs, CanServe
<1>3. InferExclusive'
  BY GenerationAssumption DEF GenerationInv, GenerationShapes, InferExclusive,
     FeedPrompt, Feeds, FailsWith, Goto, requestVs, CanServe, Serving, Routed
<1>4. Phases'
  BY <1>s, GenerationAssumption DEF GenerationInv, GenerationShapes, CachesOK, Caches,
     InferExclusive, Phases, BetweenRequests, FeedPrompt, Feeds, FailsWith, Goto,
     requestVs, CanServe, With, Serving, Routed
<1>5. Deadline' /\ BetweenRequests'
  BY GenerationAssumption DEF GenerationInv, GenerationShapes, InferExclusive, Deadline,
     BetweenRequests, FeedPrompt, Feeds, FailsWith, Goto, requestVs, CanServe, Serving,
     Routed
<1> QED BY <1>1, <1>2, <1>3, <1>4, <1>5 DEF GenerationInv

\* The invariant is kept by PrefillTimesOut.
LEMMA KeepsPrefillTimesOut == ASSUME GenerationInv, NEW h \in Handlers, PrefillTimesOut(h) PROVE GenerationInv'
<1>s. Serving(activeB) \in Bs
  BY ServesABackend DEF GenerationInv
<1>1. GenerationShapes'
  BY GenerationAssumption DEF GenerationInv, GenerationShapes, PrefillTimesOut, Goto,
     managerVs, requestVs, progressVs, historyVs
<1>2. CachesOK'
  BY DEF GenerationInv, GenerationShapes, CachesOK, PrefillTimesOut, Goto, managerVs,
     requestVs, progressVs, historyVs
<1>3. InferExclusive'
  BY GenerationAssumption DEF GenerationInv, GenerationShapes, InferExclusive,
     PrefillTimesOut, Goto, managerVs, requestVs, progressVs, historyVs
<1>4. Phases'
  BY <1>s, GenerationAssumption DEF GenerationInv, GenerationShapes, CachesOK, Caches,
     InferExclusive, Phases, BetweenRequests, PrefillTimesOut, Goto, managerVs,
     requestVs, progressVs, historyVs, Serving, Routed
<1>5. Deadline' /\ BetweenRequests'
  BY GenerationAssumption DEF GenerationInv, GenerationShapes, InferExclusive, Deadline,
     BetweenRequests, PrefillTimesOut, Goto, managerVs, requestVs, progressVs, historyVs
<1> QED BY <1>1, <1>2, <1>3, <1>4, <1>5 DEF GenerationInv

\* The invariant is kept by EndPrefill.
LEMMA KeepsEndPrefill == ASSUME GenerationInv, NEW h \in Handlers, EndPrefill(h) PROVE GenerationInv'
<1>s. Serving(activeB) \in Bs
  BY ServesABackend DEF GenerationInv
<1>1. GenerationShapes'
  BY GenerationAssumption DEF GenerationInv, GenerationShapes, EndPrefill, Goto,
     managerVs, requestVs, progressVs, historyVs
<1>2. CachesOK'
  BY DEF GenerationInv, GenerationShapes, CachesOK, EndPrefill, Goto, managerVs,
     requestVs, progressVs, historyVs
<1>3. InferExclusive'
  BY GenerationAssumption DEF GenerationInv, GenerationShapes, InferExclusive,
     EndPrefill, Goto, managerVs, requestVs, progressVs, historyVs
<1>4. Phases'
  BY <1>s, GenerationAssumption DEF GenerationInv, GenerationShapes, CachesOK, Caches,
     InferExclusive, Phases, BetweenRequests, EndPrefill, Goto, managerVs, requestVs,
     progressVs, historyVs, Serving, Routed
<1>5. Deadline' /\ BetweenRequests'
  BY GenerationAssumption DEF GenerationInv, GenerationShapes, InferExclusive, Deadline,
     BetweenRequests, EndPrefill, Goto, managerVs, requestVs, progressVs, historyVs
<1> QED BY <1>1, <1>2, <1>3, <1>4, <1>5 DEF GenerationInv

\* The invariant is kept by EndLoop.
LEMMA KeepsEndLoop == ASSUME GenerationInv, NEW h \in Handlers, EndLoop(h) PROVE GenerationInv'
<1>s. Serving(activeB) \in Bs
  BY ServesABackend DEF GenerationInv
<1>1. GenerationShapes'
  BY GenerationAssumption DEF GenerationInv, GenerationShapes, EndLoop, TimesOut, Goto,
     managerVs, requestVs, progressVs, historyVs
<1>2. CachesOK'
  BY DEF GenerationInv, GenerationShapes, CachesOK, EndLoop, TimesOut, Goto, managerVs,
     requestVs, progressVs, historyVs
<1>3. InferExclusive'
  BY GenerationAssumption DEF GenerationInv, GenerationShapes, InferExclusive, EndLoop,
     TimesOut, Goto, managerVs, requestVs, progressVs, historyVs
<1>4. Phases'
  BY <1>s, GenerationAssumption DEF GenerationInv, GenerationShapes, CachesOK, Caches,
     InferExclusive, Phases, BetweenRequests, EndLoop, TimesOut, Goto, managerVs,
     requestVs, progressVs, historyVs, Serving, Routed
<1>5. Deadline' /\ BetweenRequests'
  BY GenerationAssumption DEF GenerationInv, GenerationShapes, InferExclusive, Deadline,
     BetweenRequests, EndLoop, TimesOut, Goto, managerVs, requestVs, progressVs,
     historyVs
<1> QED BY <1>1, <1>2, <1>3, <1>4, <1>5 DEF GenerationInv

\* The invariant is kept by RouteToken.
LEMMA KeepsRouteToken == ASSUME GenerationInv, NEW h \in Handlers, RouteToken(h) PROVE GenerationInv'
<1>s. Serving(activeB) \in Bs
  BY ServesABackend DEF GenerationInv
<1>1. GenerationShapes'
  BY GenerationAssumption DEF GenerationInv, GenerationShapes, RouteToken, TimesOut,
     Activate, Goto, requestVs, progressVs, Routed
<1>2. CachesOK'
  BY DEF GenerationInv, GenerationShapes, CachesOK, RouteToken, TimesOut, Activate,
     Goto, requestVs, progressVs
<1>3. InferExclusive'
  BY GenerationAssumption DEF GenerationInv, GenerationShapes, InferExclusive,
     RouteToken, TimesOut, Activate, Goto, requestVs, progressVs, Routed
<1>4. Phases'
  BY <1>s, GenerationAssumption DEF GenerationInv, GenerationShapes, CachesOK, Caches,
     InferExclusive, Phases, BetweenRequests, RouteToken, TimesOut, Activate, Goto,
     requestVs, progressVs, Routed, Serving
<1>5. Deadline' /\ BetweenRequests'
  BY GenerationAssumption DEF GenerationInv, GenerationShapes, InferExclusive, Deadline,
     BetweenRequests, RouteToken, TimesOut, Activate, Goto, requestVs, progressVs,
     Routed
<1> QED BY <1>1, <1>2, <1>3, <1>4, <1>5 DEF GenerationInv

\* The invariant is kept by CallForToken.
LEMMA KeepsCallForToken == ASSUME GenerationInv, NEW h \in Handlers, CallForToken(h) PROVE GenerationInv'
<1>s. Serving(activeB) \in Bs
  BY ServesABackend DEF GenerationInv
<1>1. GenerationShapes'
  BY GenerationAssumption DEF GenerationInv, GenerationShapes, CallForToken, Feeds,
     LastToken, Goto, NeedLogprobs, FailsWith, requestVs, progressVs, CanServe, Serving,
     Routed
<1>2. CachesOK'
  BY <1>s, WithCaches DEF GenerationInv, GenerationShapes, CachesOK, CallForToken,
     Feeds, LastToken, Goto, NeedLogprobs, FailsWith, requestVs, progressVs, CanServe
<1>3. InferExclusive'
  BY GenerationAssumption DEF GenerationInv, GenerationShapes, InferExclusive,
     CallForToken, Feeds, LastToken, Goto, NeedLogprobs, FailsWith, requestVs,
     progressVs, CanServe, Serving, Routed
<1>4. Phases'
  BY <1>s, GenerationAssumption DEF GenerationInv, GenerationShapes, CachesOK, Caches,
     InferExclusive, Phases, BetweenRequests, CallForToken, Feeds, LastToken, Goto,
     NeedLogprobs, FailsWith, requestVs, progressVs, CanServe, With, Serving, Routed
<1>5. Deadline' /\ BetweenRequests'
  BY GenerationAssumption DEF GenerationInv, GenerationShapes, InferExclusive, Deadline,
     BetweenRequests, CallForToken, Feeds, LastToken, Goto, NeedLogprobs, FailsWith,
     requestVs, progressVs, CanServe, Serving, Routed
<1> QED BY <1>1, <1>2, <1>3, <1>4, <1>5 DEF GenerationInv

\* The invariant is kept by LmHead.
LEMMA KeepsLmHead == ASSUME GenerationInv, NEW h \in Handlers, LmHead(h) PROVE GenerationInv'
<1>s. Serving(activeB) \in Bs
  BY ServesABackend DEF GenerationInv
<1>1. GenerationShapes'
  BY GenerationAssumption DEF GenerationInv, GenerationShapes, LmHead, Goto, managerVs,
     requestVs, progressVs
<1>2. CachesOK'
  BY DEF GenerationInv, GenerationShapes, CachesOK, LmHead, Goto, managerVs, requestVs,
     progressVs
<1>3. InferExclusive'
  BY GenerationAssumption DEF GenerationInv, GenerationShapes, InferExclusive, LmHead,
     Goto, managerVs, requestVs, progressVs
<1>4. Phases'
  BY <1>s, GenerationAssumption DEF GenerationInv, GenerationShapes, CachesOK, Caches,
     InferExclusive, Phases, BetweenRequests, LmHead, Goto, managerVs, requestVs,
     progressVs, Serving, Routed
<1>5. Deadline' /\ BetweenRequests'
  BY GenerationAssumption DEF GenerationInv, GenerationShapes, InferExclusive, Deadline,
     BetweenRequests, LmHead, Goto, managerVs, requestVs, progressVs
<1> QED BY <1>1, <1>2, <1>3, <1>4, <1>5 DEF GenerationInv

\* The invariant is kept by Fallback.
LEMMA KeepsFallback == ASSUME GenerationInv, NEW h \in Handlers, Fallback(h) PROVE GenerationInv'
<1>s. Serving(activeB) \in Bs
  BY ServesABackend DEF GenerationInv
<1>1. GenerationShapes'
  BY GenerationAssumption DEF GenerationInv, GenerationShapes, Fallback, Serving,
     LastToken, NeedLogprobs, Goto, ReEvaluated, requestVs, progressVs, historyVs,
     Routed
<1>2. CachesOK'
  BY <1>s, WithCaches, GenerationAssumption DEF GenerationInv, GenerationShapes,
     CachesOK, Fallback, LastToken, NeedLogprobs, Goto, ReEvaluated, requestVs,
     progressVs, historyVs, Serving, Routed
<1>3. InferExclusive'
  BY GenerationAssumption DEF GenerationInv, GenerationShapes, InferExclusive, Fallback,
     Serving, LastToken, NeedLogprobs, Goto, ReEvaluated, requestVs, progressVs,
     historyVs, Routed
<1>4. Phases'
  BY <1>s, GenerationAssumption DEF GenerationInv, GenerationShapes, CachesOK, Caches,
     InferExclusive, Phases, BetweenRequests, Fallback, With, Serving, LastToken,
     NeedLogprobs, Goto, ReEvaluated, requestVs, progressVs, historyVs, Routed
<1>5. Deadline' /\ BetweenRequests'
  BY GenerationAssumption DEF GenerationInv, GenerationShapes, InferExclusive, Deadline,
     BetweenRequests, Fallback, Serving, LastToken, NeedLogprobs, Goto, ReEvaluated,
     requestVs, progressVs, historyVs, Routed
<1> QED BY <1>1, <1>2, <1>3, <1>4, <1>5 DEF GenerationInv

\* The invariant is kept by Emit.
LEMMA KeepsEmit == ASSUME GenerationInv, NEW h \in Handlers, Emit(h) PROVE GenerationInv'
<1>s. Serving(activeB) \in Bs
  BY ServesABackend DEF GenerationInv
<1>1. GenerationShapes'
  BY GenerationAssumption DEF GenerationInv, GenerationShapes, Emit, Goto, managerVs,
     requestVs
<1>2. CachesOK'
  BY DEF GenerationInv, GenerationShapes, CachesOK, Emit, Goto, managerVs, requestVs
<1>3. InferExclusive'
  BY GenerationAssumption DEF GenerationInv, GenerationShapes, InferExclusive, Emit,
     Goto, managerVs, requestVs
<1>4. Phases'
  BY <1>s, GenerationAssumption DEF GenerationInv, GenerationShapes, CachesOK, Caches,
     InferExclusive, Phases, BetweenRequests, Emit, Goto, managerVs, requestVs, Serving,
     Routed
<1>5. Deadline' /\ BetweenRequests'
  BY GenerationAssumption DEF GenerationInv, GenerationShapes, InferExclusive, Deadline,
     BetweenRequests, Emit, Goto, managerVs, requestVs
<1> QED BY <1>1, <1>2, <1>3, <1>4, <1>5 DEF GenerationInv

\* The invariant is kept by Finish.
LEMMA KeepsFinish == ASSUME GenerationInv, NEW h \in Handlers, Finish(h) PROVE GenerationInv'
<1>s. Serving(activeB) \in Bs
  BY ServesABackend DEF GenerationInv
<1>1. GenerationShapes'
  BY GenerationAssumption DEF GenerationInv, GenerationShapes, Finish, Goto
<1>2. CachesOK'
  BY <1>s, LeftCaches DEF GenerationInv, GenerationShapes, CachesOK, Finish, Goto
<1>3. InferExclusive'
  BY GenerationAssumption DEF GenerationInv, GenerationShapes, InferExclusive, Finish,
     Goto
<1>4. Phases'
  BY <1>s, GenerationAssumption DEF GenerationInv, GenerationShapes, CachesOK, Caches,
     InferExclusive, Phases, BetweenRequests, Finish, Goto, Serving, Routed
<1>5. Deadline' /\ BetweenRequests'
  BY GenerationAssumption DEF GenerationInv, GenerationShapes, InferExclusive, Deadline,
     BetweenRequests, Finish, Goto
<1> QED BY <1>1, <1>2, <1>3, <1>4, <1>5 DEF GenerationInv

\* The invariant is kept by Expire.
LEMMA KeepsExpire == ASSUME GenerationInv, Expire PROVE GenerationInv'
<1>s. Serving(activeB) \in Bs
  BY ServesABackend DEF GenerationInv
<1>1. GenerationShapes'
  BY GenerationAssumption DEF GenerationInv, GenerationShapes, Expire, managerVs,
     requestVs, progressVs
<1>2. CachesOK'
  BY DEF GenerationInv, GenerationShapes, CachesOK, Expire, managerVs, requestVs,
     progressVs
<1>3. InferExclusive'
  BY GenerationAssumption DEF GenerationInv, GenerationShapes, InferExclusive, Expire,
     managerVs, requestVs, progressVs
<1>4. Phases'
  BY <1>s, GenerationAssumption DEF GenerationInv, GenerationShapes, CachesOK, Caches,
     InferExclusive, Phases, BetweenRequests, Expire, managerVs, requestVs, progressVs,
     Serving, Routed
<1>5. Deadline' /\ BetweenRequests'
  BY GenerationAssumption DEF GenerationInv, GenerationShapes, InferExclusive, Deadline,
     BetweenRequests, Expire, managerVs, requestVs, progressVs
<1> QED BY <1>1, <1>2, <1>3, <1>4, <1>5 DEF GenerationInv

\* The invariant is kept by SelectBackend.
LEMMA KeepsSelectBackend == ASSUME GenerationInv, NEW b \in Bs, SelectBackend(b) PROVE GenerationInv'
<1>s. Serving(activeB) \in Bs
  BY ServesABackend DEF GenerationInv
<1>1. GenerationShapes'
  BY GenerationAssumption DEF GenerationInv, GenerationShapes, SelectBackend, requestVs,
     progressVs, historyVs
<1>2. CachesOK'
  BY DEF GenerationInv, GenerationShapes, CachesOK, SelectBackend, requestVs,
     progressVs, historyVs
<1>3. InferExclusive'
  BY GenerationAssumption DEF GenerationInv, GenerationShapes, InferExclusive,
     SelectBackend, requestVs, progressVs, historyVs
<1>4. Phases'
  BY <1>s, GenerationAssumption DEF GenerationInv, GenerationShapes, CachesOK, Caches,
     InferExclusive, Phases, BetweenRequests, SelectBackend, requestVs, progressVs,
     historyVs, Serving, Routed
<1>5. Deadline' /\ BetweenRequests'
  BY GenerationAssumption DEF GenerationInv, GenerationShapes, InferExclusive, Deadline,
     BetweenRequests, SelectBackend, requestVs, progressVs, historyVs
<1> QED BY <1>1, <1>2, <1>3, <1>4, <1>5 DEF GenerationInv

\* The invariant is kept by SelectStrategy.
LEMMA KeepsSelectStrategy == ASSUME GenerationInv, NEW s \in Kinds, SelectStrategy(s) PROVE GenerationInv'
<1>s. Serving(activeB) \in Bs
  BY ServesABackend DEF GenerationInv
<1>1. GenerationShapes'
  BY GenerationAssumption DEF GenerationInv, GenerationShapes, SelectStrategy,
     ReEvaluated, Activate, requestVs, progressVs, Routed
<1>2. CachesOK'
  BY DEF GenerationInv, GenerationShapes, CachesOK, SelectStrategy, ReEvaluated,
     Activate, requestVs, progressVs
<1>3. InferExclusive'
  BY GenerationAssumption DEF GenerationInv, GenerationShapes, InferExclusive,
     SelectStrategy, ReEvaluated, Activate, requestVs, progressVs, Routed
<1>4. Phases'
  BY <1>s, GenerationAssumption DEF GenerationInv, GenerationShapes, CachesOK, Caches,
     InferExclusive, Phases, BetweenRequests, SelectStrategy, ReEvaluated, Activate,
     requestVs, progressVs, Routed, Serving
<1>5. Deadline' /\ BetweenRequests'
  BY GenerationAssumption DEF GenerationInv, GenerationShapes, InferExclusive, Deadline,
     BetweenRequests, SelectStrategy, ReEvaluated, Activate, requestVs, progressVs,
     Routed
<1> QED BY <1>1, <1>2, <1>3, <1>4, <1>5 DEF GenerationInv

\* The first states satisfy the invariant.
LEMMA GenerationStart == GenerationInit => GenerationInv
<1>1. GenerationInit => CachesOK
  BY EmptyCaches DEF GenerationInit, CachesOK
<1>2. GenerationInit => GenerationShapes /\ InferExclusive /\ Phases /\ Deadline /\ BetweenRequests
  BY GenerationAssumption DEF GenerationInit, GenerationShapes, InferExclusive, Phases,
     Deadline, BetweenRequests
<1> QED BY <1>1, <1>2 DEF GenerationInv

\* Every step keeps it.
LEMMA GenerationStep == GenerationInv /\ [GenerationNext]_generationVars => GenerationInv'
<1> SUFFICES ASSUME GenerationInv, [GenerationNext]_generationVars PROVE GenerationInv'
  OBVIOUS
<1>1. ASSUME NEW h \in Handlers, Arrive(h) \/ Enter(h) PROVE GenerationInv'
  BY <1>1, KeepsArrive, KeepsEnter
<1>2. ASSUME NEW h \in Handlers, Advance(h) PROVE GenerationInv'
  BY <1>2, KeepsSwitchModel, KeepsSelectForRequest, KeepsReset, KeepsGenerateText,
     KeepsFeedPrompt, KeepsPrefillTimesOut, KeepsEndPrefill, KeepsEndLoop, KeepsRouteToken,
     KeepsCallForToken, KeepsLmHead, KeepsFallback, KeepsEmit, KeepsFinish DEF Advance
<1>3. ASSUME Expire PROVE GenerationInv'
  BY <1>3, KeepsExpire
<1>4. ASSUME NEW b \in Bs, SelectBackend(b) PROVE GenerationInv'
  BY <1>4, KeepsSelectBackend
<1>5. ASSUME NEW s \in Kinds, SelectStrategy(s) PROVE GenerationInv'
  BY <1>5, KeepsSelectStrategy
<1>6. ASSUME UNCHANGED generationVars PROVE GenerationInv'
  BY <1>6 DEF GenerationInv, GenerationShapes, CachesOK, InferExclusive, Phases, Deadline,
     BetweenRequests, generationVars, managerVs, requestVs, progressVs, historyVs, Serving
<1> QED BY <1>1, <1>2, <1>3, <1>4, <1>5, <1>6 DEF GenerationNext

\* The invariant holds throughout.
THEOREM GenerationInvariant == GenerationSpec => []GenerationInv
<1> QED BY GenerationStart, GenerationStep, PTL DEF GenerationSpec

\* As long as no call failed and all went to one backend, the serving cache is the prompt
\* and the answer without its last token.
THEOREM GenerationCacheIsContext == GenerationSpec => []CacheIsContext
<1>1. GenerationInv => CacheIsContext
  BY GenerationAssumption DEF GenerationInv, GenerationShapes, InferExclusive, Phases,
     CacheIsContext, InLoop, LastToken
<1> QED BY <1>1, GenerationInvariant, PTL

\* At most one token is emitted after the deadline.
THEOREM GenerationDeadline == GenerationSpec => []OneTokenAfterDeadline
<1>1. GenerationInv => OneTokenAfterDeadline
  BY DEF GenerationInv, Deadline, OneTokenAfterDeadline
<1> QED BY <1>1, GenerationInvariant, PTL
=============================================================================
