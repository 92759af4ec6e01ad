---------------------------- MODULE BackendManager ----------------------------
(***************************************************************************)
(* src/backend_manager.cpp: which backends a model load brings up, which   *)
(* one serves the tokens, what re-evaluation, manual selection, failures   *)
(* and failover do.  The server serialises these calls (g_inference_mutex  *)
(* is held from set_strategy() to the last token), so each is one step,    *)
(* except a load, which waits for one backend's init() after another.      *)
(*                                                                         *)
(* Of the backends the ones that discover() found are in the list           *)
(* (`available' holds for them and auto_selectable always does); the       *)
(* fallback policy is the default, SEQUENTIAL.  An instance is a model and the number of      *)
(* tokens of the current session in its KV cache.                          *)
(***************************************************************************)
EXTENDS RouterPick, FiniteSets

CONSTANTS
  Ids,
  Machines,        \* what discover() may find: sets of ids
  CpuIds,          \* tier T3_CPU
  Stubs,           \* init() succeeds and can_infer() is false
  Priority,        \* priority, different for each id
  StartScore,      \* the score discover() gives
  Models,
  PreferredLists,  \* the lists select_backend_route() gives
  Times,           \* latencies
  MaxPos,          \* bound: tokens in a session
  MaxStray,        \* bound: tokens without a session, at most MaxPos
  None

ASSUME IdsAssumption ==
  /\ Machines \subseteq SUBSET Ids /\ {} \notin Machines
  /\ \A ids \in Machines : IsFiniteSet(ids)
  /\ PreferredLists \subseteq Seq(Ids)
  /\ CpuIds \subseteq Ids /\ Stubs \subseteq Ids
ASSUME PriorityAssumption ==
  /\ Priority \in [Ids -> Nat] /\ StartScore \in [Ids -> Nat]
  /\ \A a, b \in Ids : Priority[a] = Priority[b] => a = b
ASSUME NoneAssumption == None \notin Ids /\ None \notin Models /\ None \notin Ids \X {1, 2}
ASSUME TimesAssumption == Times \subseteq Nat
ASSUME BoundsAssumption == MaxPos \in Nat /\ MaxStray \in 0 .. MaxPos

VARIABLES
  backends,     \* backends_, as the sequence of the ids
  functional, score, inst,    \* fields of BackendInfo, by id
  active,       \* active_idx_, counted from 1
  cfg,          \* cfg_
  initialized,  \* initialized_
  entries, routing, counter,  \* the router: entries_, strategy_, round_robin_counter_
  model, ctx,   \* of each instance
  load,         \* the load under way: where it is and its local variables
  open, pos     \* did a reset open a session, and the tokens fed since

infoVars == <<backends, functional, score, inst, active>>
routerVars == <<entries, routing, counter>>
objVars == <<model, ctx>>
sessionVars == <<open, pos>>
vars == <<infoVars, cfg, initialized, routerVars, objVars, load, sessionVars>>

\* A backend's instances.  A second one exists only while the router holds the first.
Objs == Ids \X {1, 2}

SelectionStrategies == {"FASTEST", "LOWEST_POWER", "MANUAL", "ROUND_ROBIN"}

\* What discover() found.
Found == ToSet(backends)

NoLoad == [at |-> "none", todo |-> <<>>, accel |-> FALSE, cpu |-> FALSE, anyOk |-> FALSE]

TypeOK ==
  /\ backends \in Seq(Ids) /\ Found \in Machines /\ Len(backends) = Cardinality(Found)
  /\ functional \in [Ids -> BOOLEAN] /\ score \in [Ids -> Nat]
  /\ inst \in [Ids -> Objs \cup {None}]
  /\ active \in DOMAIN backends
  /\ cfg \in Models \cup {None} /\ initialized \in BOOLEAN
  /\ \A i, j \in DOMAIN entries : entries[i].id = entries[j].id => i = j
  /\ routing \in Strategies /\ counter \in -CounterMax - 1 .. CounterMax
  /\ model \in [Objs -> Models \cup {None}] /\ ctx \in [Objs -> 0 .. MaxPos]
  /\ load.at \in {"none", "try", "init", "late"}
  /\ open \in BOOLEAN /\ pos \in 0 .. MaxPos

(***************************************************************************)
(* rank_backends().  R is the set of the pairs whose first comes before    *)
(* the second.                                                             *)
(***************************************************************************)
Ordered(S, R) ==
  CHOOSE order \in [1 .. Cardinality(S) -> S] :
    \A i, j \in 1 .. Cardinality(S) : i < j => <<order[i], order[j]>> \in R

Ranked(ids, func, scores, strat) ==
  LET ByScore(a, b) ==
        IF (scores[a] > 0) # (scores[b] > 0) THEN scores[a] > 0
        ELSE IF scores[a] # scores[b] THEN scores[a] < scores[b]
        ELSE Priority[a] > Priority[b]
      Better(a, b) ==
        IF func[a] # func[b] THEN func[a]
        ELSE IF strat = "FASTEST" THEN ByScore(a, b) ELSE Priority[a] > Priority[b]
  IN  Ordered(ids, {p \in ids \X ids : Better(p[1], p[2])})

IndexOf(order, id) ==
  CHOOSE i \in DOMAIN order :
    order[i] = id /\ \A j \in DOMAIN order : order[j] = id => i <= j
ActiveId == backends[active]

\* discover(), then nothing loaded.
Init ==
  /\ functional = [id \in Ids |-> FALSE]
  /\ score = StartScore
  /\ \E ids \in Machines : backends = Ranked(ids, functional, score, "FASTEST")
  /\ inst = [id \in Ids |-> None]
  /\ active = 1
  /\ cfg = None /\ initialized = FALSE
  /\ entries = <<>> /\ routing = "FASTEST" /\ counter = 0
  /\ model = [o \in Objs |-> None] /\ ctx = [o \in Objs |-> 0]
  /\ load = NoLoad
  /\ open = FALSE /\ pos = 0

(***************************************************************************)
(* Instances.  Assigning a new one to a backend frees the old one, unless  *)
(* the router holds it too.                                                *)
(***************************************************************************)
RoutedTo == {entries[i].inst : i \in DOMAIN entries}
New(id) == CHOOSE o \in {id} \X {1, 2} : o \notin RoutedTo

WithNew(ids) == [id \in Ids |-> IF id \in ids THEN New(id) ELSE inst[id]]
NewOf(ids) == {New(id) : id \in ids}
EmptiedFor(ids) == [o \in Objs |-> IF o \in NewOf(ids) THEN 0 ELSE ctx[o]]
LoadedInto(ids) == [o \in Objs |-> IF o \in NewOf(ids) THEN cfg ELSE model[o]]

(***************************************************************************)
(* init() and init_in_order()                                              *)
(***************************************************************************)
Idle == load.at = "none"

\* Error: the preferred backends are tried again among the others.
PreferredTwice(preferred) == SelectSeq(preferred, LAMBDA id : id \in Found) \o backends

\* The preferred ids in the order given, then the others in the order of the list.
TryOrder(preferred) ==
  LET Place(id) == IF id \in ToSet(preferred) THEN IndexOf(preferred, id)
                   ELSE Len(preferred) + IndexOf(backends, id)
  IN  Ordered(Found, {p \in Found \X Found : Place(p[1]) < Place(p[2])})

\* Error: the router keeps the entries of the previous model.
BeginLoadKeepingRoutes(m, preferred) ==
  /\ Idle /\ ~open
  /\ cfg' = m
  /\ load' = [NoLoad EXCEPT !.at = "try", !.todo = TryOrder(preferred)]
  /\ UNCHANGED <<infoVars, initialized, routerVars, objVars, open, pos>>

BeginLoad(m, preferred) ==
  /\ Idle /\ ~open
  /\ cfg' = m
  /\ entries' = <<>>
  /\ load' = [NoLoad EXCEPT !.at = "try", !.todo = TryOrder(preferred)]
  /\ UNCHANGED <<infoVars, initialized, routing, counter, objVars, open, pos>>

Loading == Head(load.todo)
Advanced(l) == [l EXCEPT !.at = "try", !.todo = Tail(@)]

\* create_instance_rt(), and init() is started on a thread of its own.
StartInit ==
  /\ load.at = "try" /\ load.todo # <<>>
  /\ inst' = WithNew({Loading})
  /\ model' = LoadedInto({Loading})
  /\ ctx' = EmptiedFor({Loading})
  /\ load' = [load EXCEPT !.at = "init"]
  /\ UNCHANGED <<backends, functional, score, active, cfg, initialized,
                 routerVars, sessionVars>>

\* destroy_instance(): the instance, with its model and caches, is gone.
Destroyed ==
  /\ inst' = [inst EXCEPT ![Loading] = None]
  /\ model' = [model EXCEPT ![inst[Loading]] = None]
  /\ ctx' = [ctx EXCEPT ![inst[Loading]] = 0]

\* init() returned false or threw; `functional' keeps its value.
InitFails ==
  /\ load.at = "init"
  /\ Destroyed
  /\ load' = Advanced(load)
  /\ UNCHANGED <<backends, functional, score, active, cfg, initialized,
                 routerVars, sessionVars>>

\* wait_for(120 s) gives up.  The future that std::async made is destroyed next, and
\* its destructor waits for the thread.
InitLate ==
  /\ load.at = "init"
  /\ Destroyed
  /\ load' = [load EXCEPT !.at = "late"]
  /\ UNCHANGED <<backends, functional, score, active, cfg, initialized,
                 routerVars, sessionVars>>

LateInitReturns ==
  /\ load.at = "late"
  /\ load' = Advanced(load)
  /\ UNCHANGED <<infoVars, cfg, initialized, routerVars, objVars, sessionVars>>

IsCpu(id) == id \in CpuIds

\* Error: a second accelerator or CPU backend is not noticed.
AlwaysRoom(id) == TRUE

\* Issue 1427: one accelerator and one CPU backend.
Room(id) == IF IsCpu(id) THEN ~load.cpu ELSE ~load.accel
Taken(id) == IF IsCpu(id) THEN [load EXCEPT !.cpu = TRUE] ELSE [load EXCEPT !.accel = TRUE]

InitSkipped ==
  /\ load.at = "init" /\ ~Room(Loading)
  /\ Destroyed
  /\ load' = Advanced(load)
  /\ UNCHANGED <<backends, functional, score, active, cfg, initialized,
                 routerVars, sessionVars>>

\* Error: can_infer() is not asked.
InferenceNotAsked(id) == TRUE

CanInfer(id) == id \notin Stubs

InitOfStub ==
  /\ load.at = "init" /\ Room(Loading) /\ ~CanInfer(Loading)
  /\ functional' = [functional EXCEPT ![Loading] = FALSE]
  /\ Destroyed
  /\ load' = Advanced(Taken(Loading))
  /\ UNCHANGED <<backends, score, active, cfg, initialized, routerVars,
                 sessionVars>>

RoutingOf(id) == IF id \in NpuIds THEN "NPU_BACKFILL"
                 ELSE IF id \in GpuIds THEN "GPU_BACKFILL" ELSE "FASTEST"

InitSucceeds ==
  /\ load.at = "init" /\ Room(Loading) /\ CanInfer(Loading)
  /\ functional' = [functional EXCEPT ![Loading] = TRUE]
  /\ active' = IndexOf(backends, Loading)
  /\ initialized' = TRUE
  /\ entries' = Append(entries, [id |-> Loading, inst |-> inst[Loading], alive |-> TRUE,
                                 lat |-> <<>>])
  /\ routing' = RoutingOf(Loading)
  /\ load' = Advanced([Taken(Loading) EXCEPT !.anyOk = TRUE])
  /\ UNCHANGED <<backends, score, inst, cfg, counter, objVars, sessionVars>>

EndLoad ==
  /\ load.at = "try" /\ load.todo = <<>>
  /\ load' = NoLoad
  /\ UNCHANGED <<infoVars, cfg, initialized, routerVars, objVars, sessionVars>>

LoadStep == StartInit \/ InitSkipped \/ InitOfStub \/ InitSucceeds \/ EndLoad

(***************************************************************************)
(* set_strategy() with re_evaluate(), and select_backend()                 *)
(***************************************************************************)
\* The first index of `order' in the sequence of indices `path' that is functional.
FirstFunctional(order, path) ==
  LET hits == {k \in DOMAIN path : functional[order[path[k]]]}
  IN  IF hits = {} THEN {} ELSE {path[CHOOSE k \in hits : \A j \in hits : k <= j]}

InOrder(order) == [k \in DOMAIN order |-> k]
After(order, i) == [k \in DOMAIN order |-> ((i + k - 1) % Len(order)) + 1]

BestScored(order) ==
  LET scored == {i \in DOMAIN order : functional[order[i]] /\ score[order[i]] > 0}
      best == {i \in scored : \A j \in scored : score[order[i]] <= score[order[j]]}
  IN  IF best = {} THEN {} ELSE {CHOOSE i \in best : \A j \in best : i <= j}

Chosen(order, s) ==
  CASE s = "FASTEST" -> IF BestScored(order) # {} THEN BestScored(order)
                        ELSE FirstFunctional(order, InOrder(order))
    [] s = "LOWEST_POWER" -> FirstFunctional(order, InOrder(order))
    [] s = "ROUND_ROBIN" -> FirstFunctional(order, After(order, IndexOf(order, ActiveId)))

SetStrategy(s) ==
  /\ Idle
  /\ IF s = "MANUAL" THEN UNCHANGED <<backends, active>>
     ELSE /\ backends' = Ranked(Found, functional, score, s)
          /\ active' = IF Chosen(backends', s) = {} THEN active
                       ELSE CHOOSE i \in Chosen(backends', s) : TRUE
  /\ UNCHANGED <<functional, score, inst, cfg, initialized, routerVars, objVars, load, open, pos>>

SelectBackend(id) ==
  /\ Idle /\ functional[id]
  /\ active' = IndexOf(backends, id)
  /\ UNCHANGED <<backends, functional, score, inst, cfg, initialized, routerVars, objVars,
                 load, open, pos>>

(***************************************************************************)
(* reset(), generate() and failover(), health_check()                      *)
(***************************************************************************)
Outcomes == {"ok", "false", "threw"}

\* Error: the instances that are routed to are not reset.
ResetNone(out, i) == {}

\* The instances that router_.reset_all() resets in entry i.
ResetIn(out, i) == IF out[i] = "ok" THEN {entries[i].inst} ELSE {}

\* reset() through the router: dead entries are passed over, an entry whose reset
\* throws is dead from then on, and only a `false' makes the result false.
ResetRouted ==
  \E out \in [DOMAIN entries -> Outcomes \cup {"dead"}] :
    LET done == UNION {ResetIn(out, i) : i \in DOMAIN entries}
    IN  /\ Idle /\ entries # <<>>
        /\ \A i \in DOMAIN entries : out[i] = "dead" <=> ~entries[i].alive
        /\ entries' = [i \in DOMAIN entries |->
                         IF out[i] = "threw" THEN [entries[i] EXCEPT !.alive = FALSE] ELSE entries[i]]
        /\ ctx' = [o \in Objs |-> IF o \in done THEN 0 ELSE ctx[o]]
        /\ open' = \A i \in DOMAIN entries : out[i] # "false"
        /\ pos' = 0
        /\ UNCHANGED <<infoVars, cfg, initialized, routing, counter, model, load>>

\* reset() of the active backend; a success makes it functional again.
ResetActive ==
  /\ Idle /\ entries = <<>>
  /\ pos' = 0
  /\ \/ /\ inst[ActiveId] # None
        /\ ctx' = [ctx EXCEPT ![inst[ActiveId]] = 0]
        /\ functional' = [functional EXCEPT ![ActiveId] = TRUE]
        /\ open' = TRUE
     \/ open' = FALSE /\ UNCHANGED <<ctx, functional>>
  /\ UNCHANGED <<backends, score, inst, active, cfg, initialized, routerVars,
                 model, load>>

\* The caller ends its sequence of calls.
EndSession ==
  /\ Idle /\ open
  /\ open' = FALSE /\ pos' = 0
  /\ UNCHANGED <<infoVars, cfg, initialized, routerVars, objVars, load>>

\* A token goes to instance o; c are the caches before.
Fed(c, o) ==
  /\ c[o] < MaxPos
  /\ ctx' = [c EXCEPT ![o] = @ + 1]
  /\ pos' = pos + 1

\* The chat handler calls generate() after a reset, the scheduler's gen_single_ and the
\* image tokens come without one.
InCall == Idle /\ pos < IF open THEN MaxPos ELSE MaxStray

\* With entries in the router, the router's answer is the answer.
GenerateRouted ==
  LET i == Pick(entries, routing, counter)
      e == entries[i]
  IN  /\ InCall /\ entries # <<>>
      /\ counter' = CounterAfter(entries, routing, counter)
      /\ \/ \E ms \in Times :
              /\ entries' = [entries EXCEPT ![i].lat = Recorded(@, ms)]
              /\ Fed(ctx, e.inst)
         \/ UNCHANGED <<entries, ctx, pos>>
      /\ UNCHANGED <<infoVars, cfg, initialized, routing, model, load, open>>

\* Without any: the active backend.  Its score moves towards the measured time.
GenerateActive ==
  LET o == inst[ActiveId]
  IN  /\ InCall /\ entries = <<>> /\ initialized
      /\ functional[ActiveId] /\ o # None
      /\ \E ms \in (Times \cup {score[ActiveId]}) \ {0} : score' = [score EXCEPT ![ActiveId] = ms]
      /\ Fed(ctx, o)
      /\ UNCHANGED <<backends, functional, inst, active, cfg, initialized,
                     routerVars, model, load, open>>

\* It failed, or is not functional: failover() looks at the others in turn.  `inits'
\* are the backends that come up if they are created now.
Failover(inits, f) ==
  LET others == SubSeq(After(backends, active), 1, Len(backends) - 1)
      usable == {k \in DOMAIN others :
                   LET id == backends[others[k]]
                   IN  IF inst[id] = None THEN id \in inits \ Stubs ELSE f[id]}
      k0 == CHOOSE k \in usable : \A j \in usable : k <= j
      seen == IF usable = {} THEN DOMAIN others ELSE 1 .. k0
      made == {backends[others[k]] : k \in seen} \cap inits
      id0 == backends[others[k0]]
      caches == [EmptiedFor(made) EXCEPT ![WithNew(made)[id0]] = 0]
  IN  /\ inst' = WithNew(made) /\ model' = LoadedInto(made)
      /\ IF usable = {}
           THEN /\ functional' = f
                /\ ctx' = EmptiedFor(made)
                /\ UNCHANGED <<active, pos>>
           ELSE /\ active' = others[k0]
                /\ \/ /\ functional' = [f EXCEPT ![id0] = TRUE]
                      /\ Fed(caches, inst'[id0])
                   \/ /\ functional' = [f EXCEPT ![id0] = FALSE]
                      /\ ctx' = caches
                      /\ UNCHANGED pos

GenerateFailsOver ==
  /\ InCall /\ entries = <<>> /\ initialized
  /\ \E inits \in SUBSET {id \in Found \ {ActiveId} : inst[id] = None} :
       Failover(inits, [functional EXCEPT ![ActiveId] = FALSE])
  /\ UNCHANGED <<backends, score, cfg, initialized, routerVars, load, open>>

\* health_check(): the probe is a reset of the active backend's instance.
HealthCheck ==
  LET o == inst[ActiveId]
  IN  /\ Idle /\ ~open /\ o # None
      /\ \E ok \in BOOLEAN :
           /\ ActiveId \in Stubs => ~ok
           /\ functional' = [functional EXCEPT ![ActiveId] = ok]
           /\ ctx' = IF ok THEN [ctx EXCEPT ![o] = 0] ELSE ctx
          /\ UNCHANGED <<backends, score, inst, active, cfg, initialized, routerVars,
                     model, load, open, pos>>

-------------------------------------------------------------------------------
Load ==
  \/ \E m \in Models, preferred \in PreferredLists : BeginLoad(m, preferred)
  \/ LoadStep \/ InitFails \/ InitLate \/ LateInitReturns

Select ==
  \/ \E s \in SelectionStrategies : SetStrategy(s)
  \/ \E id \in Found : SelectBackend(id)

Infer ==
  \/ ResetRouted \/ ResetActive \/ EndSession
  \/ GenerateRouted \/ GenerateActive \/ GenerateFailsOver
  \/ HealthCheck

Next == Load \/ Select \/ Infer

Spec == Init /\ [][Next]_vars

-------------------------------------------------------------------------------
\* After any sequence of loads, failures and failovers, the router hands tokens
\* only to instances of the model loaded last, the ones the manager itself holds,
\* of backends that can infer.
RoutesAreCurrent ==
  \A i \in DOMAIN entries :
    /\ model[entries[i].inst] = cfg
    /\ entries[i].inst = inst[entries[i].id]

RoutesCanInfer == \A i \in DOMAIN entries : entries[i].id \notin Stubs

\* Issue 1427: once a model is loaded, one accelerator and one CPU backend at most
\* hold a copy of it.
OneCopyPerKind ==
  Idle /\ entries # <<>> =>
    /\ Cardinality({id \in Ids \ CpuIds : inst[id] # None}) <= 1
    /\ Cardinality({id \in CpuIds : inst[id] # None}) <= 1

\* Two entries, and a strategy that hands every fifth token to the other kind: what came
\* up last is an accelerator, so the CPU backend came up before it.
Backfills == Counts(entries, routing)

\* "The router's backend is the one that processed the prefill": in a session that a
\* reset opened, as long as no reset threw and the router does not backfill, the
\* instance a token is routed to has seen exactly the tokens of this session before it.
RoutedTokenHasContext ==
  [][open /\ pos' > pos /\ entries # <<>> /\ (\A i \in DOMAIN entries : entries[i].alive)
       /\ ~Backfills
     => \A o \in RoutedTo : ctx'[o] > ctx[o] => ctx[o] = pos]_vars
===============================================================================
