----------------------------- MODULE ManagerLocks -----------------------------
(***************************************************************************)
(* The mutexes of src/backend_manager.cpp and what they protect: a request *)
(* handler (one at a time, g_inference_mutex) that generates, feeds and    *)
(* resets, and the thread of src/agent_watchdog.cpp, which probes the      *)
(* active backend every 10 s and now and then benchmarks all of them.      *)
(*                                                                         *)
(* mtx_ is the manager's; computeMtx[b] is the compute_mtx of a            *)
(* BackendInfo, entryMtx[b] the one of the router's entry for the same     *)
(* instance.  The router's own mtx_ is only ever taken by the handler      *)
(* here and is left out (DynamicRouter has it).  A thread is "on" an       *)
(* instance while it is inside a call of it.                               *)
(***************************************************************************)
EXTENDS Naturals, FiniteSets, SequencesExt

CONSTANTS
  Backends,    \* the backends discover() found
  Compatible,  \* those select_backend_route() names for the model, and the CPU's
  Nobody,      \* no thread, no backend
  MaxRounds    \* bound: rounds of the watchdog

ASSUME LocksAssumption ==
  Compatible \subseteq Backends /\ Nobody \notin Backends \cup {"handler", "watchdog"}

VARIABLES
  routed,      \* the backends in the router, after a load
  order,       \* backends_
  activeIdx,   \* active_idx_, counted from 1
  usable,      \* functional
  found,       \* available
  live,        \* is there an instance
  mtx,         \* the owner of mtx_
  computeMtx,  \* the owner of each compute_mtx
  entryMtx,    \* the owner of each router entry's compute_mtx
  hAt, hOn, hTodo,   \* the handler: where it is, its instance, entries still to reset
  snapIdx,     \* snap_idx
  wAt, wOn, measured,   \* the watchdog: where it is, its instance, the loop of benchmark_all()
  rounds

infoVs == <<order, activeIdx, usable, found, live>>
lockVs == <<mtx, computeMtx, entryMtx>>
handlerVs == <<hAt, hOn, hTodo, snapIdx>>
watchdogVs == <<wAt, wOn, measured, rounds>>
locksVars == <<routed, infoVs, lockVs, handlerVs, watchdogVs>>

ActiveB == order[activeIdx]
Free(owners, b) == owners[b] = Nobody

\* rank_backends(): the backends that were found first, among them the functional ones;
\* how scores and priorities order the rest is left open.
Sorted(o, f, u) ==
  \A i, j \in DOMAIN o : i < j =>
    /\ o[j] \in f => o[i] \in f
    /\ (o[i] \in f <=> o[j] \in f) /\ o[j] \in u => o[i] \in u

Orders == {o \in [1 .. Cardinality(Backends) -> Backends] : ToSet(o) = Backends}

\* After a load: at least one instance came up, and it is routed to unless its entry is
\* gone (a manager without a router: the list of entries is empty).
LocksInit ==
  /\ live \in SUBSET Backends \ {{}}
  /\ routed \in {{}, live}
  /\ usable = live /\ found = Backends
  /\ order \in {o \in Orders : Sorted(o, found, usable)}
  /\ activeIdx \in {i \in DOMAIN order : order[i] \in live}
  /\ mtx = Nobody
  /\ computeMtx = [b \in Backends |-> Nobody] /\ entryMtx = [b \in Backends |-> Nobody]
  /\ hAt = "idle" /\ hOn = Nobody /\ hTodo = {} /\ snapIdx = 1
  /\ wAt = "asleep" /\ wOn = Nobody /\ measured = 0 /\ rounds = 0

(***************************************************************************)
(* The handler, with a router: generate(), forward() and lm_head() run     *)
(* under the entry's mutex; reset() runs under mtx_ and then each entry's. *)
(***************************************************************************)
CallRouted(b) ==
  /\ hAt = "idle" /\ b \in routed /\ Free(entryMtx, b)
  /\ entryMtx' = [entryMtx EXCEPT ![b] = "handler"]
  /\ hAt' = "routed" /\ hOn' = b
  /\ UNCHANGED <<routed, infoVs, mtx, computeMtx, hTodo, snapIdx, watchdogVs>>

RoutedReturns ==
  /\ hAt = "routed"
  /\ entryMtx' = [entryMtx EXCEPT ![hOn] = Nobody]
  /\ hAt' = "idle" /\ hOn' = Nobody
  /\ UNCHANGED <<routed, infoVs, mtx, computeMtx, hTodo, snapIdx, watchdogVs>>

\* reset() waits for mtx_ ...
CallReset ==
  /\ hAt = "idle"
  /\ hAt' = "reset"
  /\ UNCHANGED <<routed, infoVs, lockVs, hOn, hTodo, snapIdx, watchdogVs>>

\* ... and with a router resets its instances in turn.
ResetLocks ==
  /\ hAt = "reset" /\ mtx = Nobody
  /\ mtx' = "handler"
  /\ IF routed # {}
     THEN hAt' = "resetEntry" /\ hTodo' = routed /\ UNCHANGED hOn
     ELSE IF ActiveB \in live
     THEN hAt' = "underMtx" /\ hOn' = ActiveB /\ UNCHANGED hTodo
     ELSE hAt' = "unlock" /\ UNCHANGED <<hOn, hTodo>>
  /\ UNCHANGED <<routed, infoVs, computeMtx, entryMtx, snapIdx, watchdogVs>>

ResetEntry(b) ==
  /\ hAt = "resetEntry" /\ hOn = Nobody /\ b \in hTodo /\ Free(entryMtx, b)
  /\ entryMtx' = [entryMtx EXCEPT ![b] = "handler"]
  /\ hOn' = b /\ hTodo' = hTodo \ {b}
  /\ UNCHANGED <<routed, infoVs, mtx, computeMtx, hAt, snapIdx, watchdogVs>>

EntryIsReset ==
  /\ hAt = "resetEntry" /\ hOn # Nobody
  /\ entryMtx' = [entryMtx EXCEPT ![hOn] = Nobody]
  /\ hOn' = Nobody
  /\ hAt' = IF hTodo = {} THEN "unlock" ELSE hAt
  /\ UNCHANGED <<routed, infoVs, mtx, computeMtx, hTodo, snapIdx, watchdogVs>>

(***************************************************************************)
(* The handler, without a router.  forward() and lm_head() use the active  *)
(* instance under mtx_, as reset() does.                                   *)
(***************************************************************************)
CallForward ==
  /\ hAt = "idle" /\ routed = {} /\ mtx = Nobody /\ ActiveB \in live
  /\ mtx' = "handler"
  /\ hAt' = "underMtx" /\ hOn' = ActiveB
  /\ UNCHANGED <<routed, infoVs, computeMtx, entryMtx, hTodo, snapIdx, watchdogVs>>

\* Of the three, only a reset() that succeeds makes the backend functional.
UnderMtxReturns ==
  /\ hAt = "underMtx"
  /\ usable' \in {usable, usable \cup {hOn}}
  /\ hAt' = "unlock" /\ hOn' = Nobody
  /\ UNCHANGED <<routed, order, activeIdx, found, live, lockVs, hTodo, snapIdx, watchdogVs>>

Unlock ==
  /\ hAt = "unlock"
  /\ mtx' = Nobody /\ hAt' = "idle"
  /\ UNCHANGED <<routed, infoVs, computeMtx, entryMtx, hOn, hTodo, snapIdx, watchdogVs>>

\* generate(), phase 1: the active instance and its index are copied under mtx_.
CallGenerate ==
  /\ hAt = "idle" /\ routed = {} /\ mtx = Nobody
  /\ snapIdx' = activeIdx
  /\ IF ActiveB \in usable \cap live THEN hAt' = "snap" /\ hOn' = ActiveB
     ELSE hAt' = "failover" /\ UNCHANGED hOn
  /\ UNCHANGED <<routed, infoVs, lockVs, hTodo, watchdogVs>>

\* Phase 2: mtx_ is free again, compute_mtx is held from here to the statistics.
LockCompute ==
  /\ hAt = "snap" /\ Free(computeMtx, hOn)
  /\ computeMtx' = [computeMtx EXCEPT ![hOn] = "handler"]
  /\ hAt' = "compute"
  /\ UNCHANGED <<routed, infoVs, mtx, entryMtx, hOn, hTodo, snapIdx, watchdogVs>>

Computed ==
  /\ hAt = "compute"
  /\ hAt' \in {"stats", "failed"}
  /\ UNCHANGED <<routed, infoVs, lockVs, hOn, hTodo, snapIdx, watchdogVs>>

\* The statistics go to whatever backend has the copied index now.
Stats ==
  /\ hAt \in {"stats", "failed"} /\ mtx = Nobody
  /\ usable' = IF hAt = "failed" THEN usable \ {order[snapIdx]} ELSE usable
  /\ computeMtx' = [computeMtx EXCEPT ![hOn] = Nobody]
  /\ hAt' = IF hAt = "failed" THEN "failover" ELSE "idle"
  /\ hOn' = Nobody
  /\ UNCHANGED <<routed, order, activeIdx, found, live, mtx, entryMtx, hTodo, snapIdx,
                 watchdogVs>>

\* Phase 3: the first of the other backends that is functional, or comes up now (ups),
\* is made the active one, reset and used, all under mtx_.
FailoverTo(ups) ==
  LET n == Len(order)
      Nth(k) == ((activeIdx + k - 1) % n) + 1
      Takes(b) == b \in found /\ (IF b \in live THEN b \in usable ELSE b \in ups)
      hits == {k \in 1 .. n - 1 : Takes(order[Nth(k)])}
  IN  /\ hAt = "failover" /\ mtx = Nobody
      /\ \/ /\ hits = {}
            /\ usable' = usable \ {ActiveB}
            /\ hAt' = "idle"
            /\ UNCHANGED <<activeIdx, live, mtx, hOn>>
         \/ \E k \in hits :
              /\ \A j \in hits : k <= j
              /\ activeIdx' = Nth(k)
              /\ hOn' = order[Nth(k)]
              /\ usable' = (usable \ {ActiveB}) \cup {hOn'}
              /\ live' = live \cup {hOn'}
              /\ hAt' = "failoverCompute" /\ mtx' = "handler"
      /\ UNCHANGED <<routed, order, found, computeMtx, entryMtx, hTodo, snapIdx, watchdogVs>>

FailoverReturns ==
  /\ hAt = "failoverCompute"
  /\ usable' \in {usable, usable \ {hOn}}
  /\ mtx' = Nobody /\ hAt' = "idle" /\ hOn' = Nobody
  /\ UNCHANGED <<routed, order, activeIdx, found, live, computeMtx, entryMtx, hTodo, snapIdx,
                 watchdogVs>>

(***************************************************************************)
(* The watchdog: health_check(), then sometimes benchmark_all().           *)
(***************************************************************************)
\* sleep_for(10 s) is over.
Wake ==
  /\ wAt = "asleep" /\ rounds < MaxRounds
  /\ rounds' = rounds + 1 /\ wAt' = "health"
  /\ UNCHANGED <<routed, infoVs, lockVs, handlerVs, wOn, measured>>

HealthLocks ==
  /\ wAt = "health" /\ mtx = Nobody
  /\ IF ActiveB \in live THEN mtx' = "watchdog" /\ wAt' = "probe" /\ wOn' = ActiveB
     ELSE wAt' = "metrics" /\ UNCHANGED <<mtx, wOn>>
  /\ UNCHANGED <<routed, infoVs, computeMtx, entryMtx, handlerVs, measured, rounds>>

\* Error: the code before 2026-07-24, reset() under mtx_ alone.
ProbeLocksNothing ==
  /\ wAt = "probe"
  /\ wAt' = "probing"
  /\ UNCHANGED <<routed, infoVs, lockVs, handlerVs, wOn, measured, rounds>>

\* The probe is a reset() of the instance under its compute_mtx.
ProbeLocks ==
  /\ wAt = "probe" /\ Free(computeMtx, wOn)
  /\ computeMtx' = [computeMtx EXCEPT ![wOn] = "watchdog"]
  /\ wAt' = "probing"
  /\ UNCHANGED <<routed, infoVs, mtx, entryMtx, handlerVs, wOn, measured, rounds>>

Unowned(owners, b, thread) == IF owners[b] = thread THEN [owners EXCEPT ![b] = Nobody] ELSE owners

\* Error: the return after a failed probe leaves mtx_ locked.
ProbedKeepsLock ==
  /\ wAt = "probing"
  /\ \/ usable' = usable \cup {wOn} /\ mtx' = Nobody
     \/ usable' = usable \ {wOn} /\ UNCHANGED mtx
  /\ computeMtx' = Unowned(computeMtx, wOn, "watchdog")
  /\ wAt' = "metrics" /\ wOn' = Nobody
  /\ UNCHANGED <<routed, order, activeIdx, found, live, entryMtx, handlerVs, measured, rounds>>

Probed ==
  /\ wAt = "probing"
  /\ usable' \in {usable \cup {wOn}, usable \ {wOn}}
  /\ computeMtx' = Unowned(computeMtx, wOn, "watchdog") /\ mtx' = Nobody
  /\ wAt' = "metrics" /\ wOn' = Nobody
  /\ UNCHANGED <<routed, order, activeIdx, found, live, entryMtx, handlerVs, measured, rounds>>

\* Metrics and adaptation need no lock; every five minutes, if all are healthy, the
\* backends are benchmarked.
NoBenchmark ==
  /\ wAt = "metrics"
  /\ wAt' = "asleep"
  /\ UNCHANGED <<routed, infoVs, lockVs, handlerVs, wOn, measured, rounds>>

BenchmarkDue ==
  /\ wAt = "metrics"
  /\ wAt' = "benchmark"
  /\ UNCHANGED <<routed, infoVs, lockVs, handlerVs, wOn, measured, rounds>>

BenchmarkLocks ==
  /\ wAt = "benchmark" /\ mtx = Nobody
  /\ mtx' = "watchdog"
  /\ measured' = 0
  /\ wAt' = "next"
  /\ UNCHANGED <<routed, infoVs, computeMtx, entryMtx, handlerVs, wOn, rounds>>

\* Backends that were not found, or are neither compatible nor up, are skipped.  (The two
\* CPU backends, of which the second is skipped too, are one here.)
Due(i) == i > measured /\ order[i] \in found \cap (Compatible \cup live)

MeasureLocks ==
  /\ wAt = "next"
  /\ \E i \in DOMAIN order :
       /\ Due(i) /\ \A j \in DOMAIN order : Due(j) => i <= j
       /\ Free(computeMtx, order[i])
       /\ computeMtx' = [computeMtx EXCEPT ![order[i]] = "watchdog"]
       /\ wOn' = order[i] /\ measured' = i
  /\ wAt' = "measure"
  /\ UNCHANGED <<routed, infoVs, mtx, entryMtx, handlerVs, rounds>>

\* An instance is made if there is none; it may not come up, and one that is up may throw.
Measured ==
  /\ wAt = "measure"
  /\ \/ wOn \notin live /\ UNCHANGED <<usable, found, live>>
     \/ usable' = usable \cup {wOn} /\ live' = live \cup {wOn} /\ UNCHANGED found
     \/ usable' = usable \ {wOn} /\ live' = live \ {wOn} /\ found' = found \ {wOn}
  /\ computeMtx' = [computeMtx EXCEPT ![wOn] = Nobody]
  /\ wAt' = "next" /\ wOn' = Nobody
  /\ UNCHANGED <<routed, order, activeIdx, mtx, entryMtx, handlerVs, measured, rounds>>

\* rank_backends() sorts the list; active_idx_ is left as it is.
Ranks ==
  /\ wAt = "next" /\ \A i \in DOMAIN order : ~Due(i)
  /\ order' \in {o \in Orders : Sorted(o, found, usable)}
  /\ mtx' = Nobody /\ wAt' = "asleep" /\ measured' = 0
  /\ UNCHANGED <<routed, activeIdx, usable, found, live, computeMtx, entryMtx, handlerVs,
                 wOn, rounds>>

HandlerReturns ==
  \/ RoutedReturns \/ ResetLocks \/ EntryIsReset \/ UnderMtxReturns \/ Unlock
  \/ LockCompute \/ Computed \/ Stats \/ FailoverReturns
  \/ \E b \in Backends : ResetEntry(b)
  \/ \E ups \in SUBSET Backends : FailoverTo(ups)

HandlerCalls == CallReset \/ CallForward \/ CallGenerate \/ \E b \in Backends : CallRouted(b)

WatchdogStep ==
  \/ HealthLocks \/ ProbeLocks \/ Probed \/ NoBenchmark \/ BenchmarkDue
  \/ BenchmarkLocks \/ MeasureLocks \/ Measured \/ Ranks

LocksNext == HandlerCalls \/ HandlerReturns \/ Wake \/ WatchdogStep

\* A call of a backend returns, and a thread that waits for a mutex gets it if it is free
\* again and again: the watchdog sleeps for 10 s between its rounds.
LocksFairness == SF_locksVars(HandlerReturns) /\ SF_locksVars(WatchdogStep)

LocksSpec == LocksInit /\ [][LocksNext]_locksVars /\ LocksFairness

(***************************************************************************)
(* Properties.                                                             *)
(***************************************************************************)
LocksTypeOK ==
  /\ routed \subseteq Backends /\ order \in Orders /\ activeIdx \in DOMAIN order
  /\ usable \subseteq Backends /\ found \subseteq Backends /\ live \subseteq Backends
  /\ mtx \in {Nobody, "handler", "watchdog"}
  /\ computeMtx \in [Backends -> {Nobody, "handler", "watchdog"}]
  /\ entryMtx \in [Backends -> {Nobody, "handler"}]
  /\ hOn \in Backends \cup {Nobody} /\ hTodo \subseteq Backends /\ snapIdx \in DOMAIN order
  /\ wOn \in Backends \cup {Nobody} /\ rounds \in 0 .. MaxRounds

\* Inside a call of an instance, not only waiting for its mutex.
HandlerInside == hAt \in {"routed", "resetEntry", "underMtx", "compute", "failoverCompute"} /\ hOn # Nobody
WatchdogInside == wAt \in {"probing", "measure"}
BothInside == HandlerInside /\ WatchdogInside /\ hOn = wOn

\* Without a router the two kinds of locks together keep the two threads apart on every
\* instance: generate() computes under compute_mtx only, forward(), lm_head(), reset() and
\* the failover under mtx_ only, the watchdog under both.
OneThreadPerInstance == routed = {} => ~BothInside

\* With a router, no order of locks makes anybody wait for ever: every call of the handler
\* returns and every round of the watchdog ends.  (Without one, generate() waits for mtx_
\* with compute_mtx held, and the watchdog the other way round.)
LockedCallsReturn ==
  /\ (routed # {} /\ hAt # "idle") ~> hAt = "idle"
  /\ (routed # {} /\ wAt # "asleep") ~> wAt = "asleep"
===============================================================================
