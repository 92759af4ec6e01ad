---------------------------- MODULE DynamicRouter ----------------------------
(***************************************************************************)
(* src/dynamic_router.cpp with its locks.  mtx_ guards the entries; each   *)
(* entry has a compute mutex (a "gate") that is made with the entry, is    *)
(* copied out by the callers and held during the inference itself, after   *)
(* mtx_ was released.  Any number of threads call generate(), forward()    *)
(* (lm_head() has the same steps) and reset_all(); entries are added,      *)
(* removed and cleared at any time by a thread that holds mtx_ only.       *)
(*                                                                         *)
(* A registered instance is one that was just created (that is how the     *)
(* backend manager calls add_backend), so it is in nobody else's hands.    *)
(* A call on an empty router returns at once and is no step.               *)
(***************************************************************************)
EXTENDS RouterPick, FiniteSets

CONSTANTS
  Threads, Ids,
  Insts,          \* backend instances
  Gates,          \* compute mutexes
  Times,          \* latencies, in any unit
  UsedStrategies, \* bound: the strategies this instance of the model uses
  CounterBound,   \* bound: the value of the counter at which picking stops
  Free,           \* a mutex nobody holds
  None            \* a local variable that has no value yet

ASSUME FreeAssumption == Free \notin Threads
ASSUME UsedStrategiesAssumption == UsedStrategies \subseteq Strategies

VARIABLES
  entries,    \* entries_, with the ghost field `from': who measured each sample
  strategy,   \* strategy_
  counter,    \* round_robin_counter_
  mtx,        \* who holds mtx_ across steps: only reset_all() does
  held,       \* who holds each gate
  pc, loc,    \* where each thread is, and its local variables
  picks       \* history: the last five picks since the configuration changed

config == <<entries, strategy>>
vars == <<entries, strategy, counter, mtx, held, pc, loc, picks>>

Entries == [id : Ids, inst : Insts, gate : Gates, alive : BOOLEAN,
            lat : Seq(Times), from : Seq(Ids)]
Locals == [op : {"generate", "forward", "reset"}, k : Nat \ {0}, id : Ids \cup {None},
           inst : Insts \cup {None}, gate : Gates \cup {None}, ms : Times \cup {0}]
NoLocals == [op |-> "reset", k |-> 1, id |-> None, inst |-> None, gate |-> None, ms |-> 0]

Computing == {"compute", "resetting"}
Holding == Computing \cup {"record"}

TypeOK ==
  /\ entries \in Seq(Entries)
  /\ strategy \in Strategies
  /\ counter \in -CounterMax - 1 .. CounterMax
  /\ mtx \in Threads \cup {Free}
  /\ held \in [Gates -> Threads \cup {Free}]
  /\ pc \in [Threads -> {"idle", "lock", "compute", "record", "next", "resetting"}]
  /\ loc \in [Threads -> Locals]
  /\ picks \in Seq(Ids)
  /\ \A i, j \in DOMAIN entries : entries[i].id = entries[j].id => i = j
  /\ \A i \in DOMAIN entries : Len(entries[i].lat) <= Window

Init ==
  /\ entries = <<>> /\ strategy = "FASTEST" /\ counter = 0
  /\ mtx = Free /\ held = [g \in Gates |-> Free]
  /\ pc = [t \in Threads |-> "idle"]
  /\ loc = [t \in Threads |-> NoLocals]
  /\ picks = <<>>

Busy == {t \in Threads : pc[t] # "idle"}
Fresh(inst) ==
  /\ \A i \in DOMAIN entries : entries[i].inst # inst
  /\ \A t \in Busy : loc[t].inst # inst
FreshGate(g) ==
  /\ \A i \in DOMAIN entries : entries[i].gate # g
  /\ \A t \in Busy : loc[t].gate # g

(***************************************************************************)
(* The operations that hold mtx_ from their first to their last line.      *)
(***************************************************************************)
Configured == mtx = Free /\ picks' = <<>> /\ UNCHANGED <<counter, mtx, held, pc, loc>>

AddNew(id, inst, g, s) ==
  /\ Configured
  /\ Fresh(inst) /\ FreshGate(g) /\ \A i \in DOMAIN entries : entries[i].id # id
  /\ entries' = Append(entries, [id |-> id, inst |-> inst, gate |-> g, alive |-> TRUE,
                                 lat |-> <<>>, from |-> <<>>])
  /\ strategy' = s

\* add_backend() of an id that is there: strategy_ and the measured latencies stay.
Replace(i, inst) ==
  /\ Configured
  /\ Fresh(inst)
  /\ entries' = [entries EXCEPT ![i].inst = inst, ![i].alive = TRUE]
  /\ UNCHANGED strategy

\* The ids are different, so remove_if() takes out one entry.
RemoveBackend(i) ==
  /\ Configured
  /\ entries' = RemoveAt(entries, i)
  /\ UNCHANGED strategy

Clear == Configured /\ entries # <<>> /\ entries' = <<>> /\ UNCHANGED strategy

SetStrategy(s) == Configured /\ strategy' = s /\ strategy' # strategy /\ UNCHANGED entries

(***************************************************************************)
(* generate() and forward().                                               *)
(***************************************************************************)
LastFive(s) == IF Len(s) > 5 THEN Tail(s) ELSE s

\* The block that holds mtx_: pick an entry, copy what is needed of it.
Begin(t, op) ==
  \E i \in DOMAIN entries :
    /\ pc[t] = "idle" /\ mtx = Free /\ counter < CounterBound
    /\ i = Pick(entries, strategy, counter)
    /\ pc' = [pc EXCEPT ![t] = "lock"]
    /\ loc' = [loc EXCEPT ![t] = [op |-> op, k |-> i, id |-> entries[i].id,
                 inst |-> entries[i].inst, gate |-> entries[i].gate, ms |-> 0]]
    /\ counter' = CounterAfter(entries, strategy, counter)
    /\ picks' = LastFive(Append(picks, entries[i].id))
    /\ UNCHANGED <<config, mtx, held>>

\* Error: the compute mutex is not taken.
ComputeUnlocked(t) ==
  /\ pc[t] = "lock"
  /\ held' = [held EXCEPT ![loc[t].gate] = t]
  /\ pc' = [pc EXCEPT ![t] = "compute"]
  /\ UNCHANGED <<config, counter, mtx, loc, picks>>

LockGate(t) ==
  /\ pc[t] = "lock" /\ held[loc[t].gate] = Free
  /\ held' = [held EXCEPT ![loc[t].gate] = t]
  /\ pc' = [pc EXCEPT ![t] = "compute"]
  /\ UNCHANGED <<config, counter, mtx, loc, picks>>

Release(t) ==
  /\ held' = [held EXCEPT ![loc[t].gate] = Free]
  /\ loc' = [loc EXCEPT ![t] = NoLocals]
  /\ pc' = [pc EXCEPT ![t] = "idle"]

\* The backend's generate() returns: a time, or none for a token that failed.
Generated(t, ms) ==
  /\ pc[t] = "compute" /\ loc[t].op = "generate"
  /\ loc' = [loc EXCEPT ![t].ms = ms]
  /\ pc' = [pc EXCEPT ![t] = "record"]
  /\ UNCHANGED <<config, counter, mtx, held, picks>>

\* It throws, through generate() and out of it; or forward() is done.
Leave(t) ==
  /\ pc[t] = "compute" /\ Release(t)
  /\ UNCHANGED <<config, counter, mtx, picks>>

\* The sample goes to entry i.
Sampled(i, t) ==
  IF loc[t].ms = 0 THEN entries
  ELSE [entries EXCEPT ![i].lat = Recorded(@, loc[t].ms), ![i].from = Recorded(@, loc[t].id)]

\* Error: the entry is remembered by its place (issue 1348).
RecordByPlace(t) ==
  /\ pc[t] = "record" /\ mtx = Free
  /\ entries' = IF loc[t].k \in DOMAIN entries THEN Sampled(loc[t].k, t) ELSE entries
  /\ Release(t)
  /\ UNCHANGED <<strategy, counter, mtx, picks>>

\* The second block that holds mtx_, with the gate still held.
Record(t) ==
  LET mine == {i \in DOMAIN entries : entries[i].id = loc[t].id}
  IN  /\ pc[t] = "record" /\ mtx = Free
      /\ entries' = IF mine = {} THEN entries ELSE Sampled(CHOOSE i \in mine : TRUE, t)
      /\ Release(t)
      /\ UNCHANGED <<strategy, counter, mtx, picks>>

(***************************************************************************)
(* reset_all(): mtx_ is held throughout, the gates one after another.      *)
(***************************************************************************)
BeginReset(t) ==
  /\ pc[t] = "idle" /\ mtx = Free
  /\ mtx' = t
  /\ pc' = [pc EXCEPT ![t] = "next"]
  /\ UNCHANGED <<config, counter, held, loc, picks>>

ResetSkips(t) ==
  /\ pc[t] = "next" /\ loc[t].k <= Len(entries) /\ ~entries[loc[t].k].alive
  /\ loc' = [loc EXCEPT ![t].k = @ + 1]
  /\ UNCHANGED <<config, counter, mtx, held, pc, picks>>

ResetLocks(t) ==
  LET e == entries[loc[t].k]
  IN  /\ pc[t] = "next" /\ loc[t].k <= Len(entries) /\ e.alive /\ held[e.gate] = Free
      /\ held' = [held EXCEPT ![e.gate] = t]
      /\ loc' = [loc EXCEPT ![t].id = e.id, ![t].inst = e.inst, ![t].gate = e.gate]
      /\ pc' = [pc EXCEPT ![t] = "resetting"]
      /\ UNCHANGED <<config, counter, mtx, picks>>

\* The instance's reset() returns, or throws: the entry is dead from then on.
ResetOne(t) ==
  /\ pc[t] = "resetting"
  /\ \/ UNCHANGED entries
     \/ entries' = [entries EXCEPT ![loc[t].k].alive = FALSE]
  /\ held' = [held EXCEPT ![loc[t].gate] = Free]
  /\ loc' = [loc EXCEPT ![t] = [NoLocals EXCEPT !.k = loc[t].k + 1]]
  /\ pc' = [pc EXCEPT ![t] = "next"]
  /\ UNCHANGED <<strategy, counter, mtx, picks>>

EndReset(t) ==
  /\ pc[t] = "next" /\ loc[t].k > Len(entries)
  /\ mtx' = Free
  /\ loc' = [loc EXCEPT ![t] = NoLocals]
  /\ pc' = [pc EXCEPT ![t] = "idle"]
  /\ UNCHANGED <<config, counter, held, picks>>

-------------------------------------------------------------------------------
Step(t) ==
  \/ LockGate(t) \/ Leave(t) \/ Record(t)
  \/ \E ms \in Times \cup {0} : Generated(t, ms)
  \/ ResetSkips(t) \/ ResetLocks(t) \/ ResetOne(t) \/ EndReset(t)

Call(t) == BeginReset(t) \/ \E op \in {"generate", "forward"} : Begin(t, op)

Configure ==
  \/ \E id \in Ids, inst \in Insts, g \in Gates, s \in UsedStrategies : AddNew(id, inst, g, s)
  \/ \E i \in DOMAIN entries, inst \in Insts : Replace(i, inst)
  \/ \E i \in DOMAIN entries : RemoveBackend(i)
  \/ Clear
  \/ \E s \in UsedStrategies : SetStrategy(s)

Next == Configure \/ \E t \in Threads : Call(t) \/ Step(t)

Spec == Init /\ [][Next]_vars

\* A thread inside a call goes on, and gets a mutex that is free time and again:
\* nothing but a deadlock can keep it there.
LiveSpec == Spec /\ \A t \in Threads : SF_vars(Step(t))

-------------------------------------------------------------------------------
\* "Serializes concurrent calls that route to the SAME backend instance": no two
\* threads are inside one instance, in generate(), forward(), lm_head() or reset(),
\* whatever was added, removed or replaced since they picked it.
ComputeExclusive ==
  \A t, u \in Threads :
    /\ pc[t] \in Computing /\ pc[u] \in Computing
    /\ loc[t].inst = loc[u].inst
    => t = u

\* Issue 1348: a latency measured while entries were removed, added and reordered
\* ends up in the window of the id that was measured or nowhere.
SamplesOfOwnId ==
  \A i \in DOMAIN entries : \A k \in DOMAIN entries[i].from : entries[i].from[k] = entries[i].id

\* "4 GPU, 1 NPU, repeat": among any five picks in a row, wherever the counter
\* stood when the strategy was chosen.
Among(S) == Cardinality({k \in DOMAIN picks : picks[k] \in S})
Has(S) == \E i \in DOMAIN entries : entries[i].id \in S

BackfillShare ==
  Len(picks) = 5 /\ Has(GpuIds) /\ Has(NpuIds) =>
    /\ strategy = "GPU_BACKFILL" => Among(GpuIds) = 4 /\ Among(NpuIds) = 1
    /\ strategy = "NPU_BACKFILL" => Among(NpuIds) = 4 /\ Among(GpuIds) = 1

\* "Hold the entry's compute lock so an in-flight generate() isn't racing reset()":
\* reset_all() meets calls in flight, and it and they come to their ends.
CallsReturn == \A t \in Threads : pc[t] # "idle" ~> pc[t] = "idle"
===============================================================================
