------------------------- MODULE BackendManagerProofs -------------------------
(***************************************************************************)
(* For every machine, priority, score and route, and any number of loads:  *)
(* the router of the backend manager holds instances of the model loaded   *)
(* last, of backends that can infer, one per kind; and unless it backfills *)
(* two of them, a routed token meets its own session in the cache.         *)
(***************************************************************************)
EXTENDS BackendManager, DataLemmas, SequenceTheorems

Entry == [id : Ids, inst : Objs, alive : BOOLEAN, lat : Seq(Times)]
Routed == {entries[i].id : i \in DOMAIN entries}
ToTry == {load.todo[i] : i \in DOMAIN load.todo}

Types ==
  /\ entries \in Seq(Entry)
  /\ load \in [at : {"none", "try", "init", "late"}, todo : Seq(Ids),
               accel : BOOLEAN, cpu : BOOLEAN, anyOk : BOOLEAN]

\* The ids still to be tried are different, found, and not in the router.
LoadAgrees ==
  /\ \A i, j \in DOMAIN load.todo : load.todo[i] = load.todo[j] => i = j
  /\ ToTry \subseteq Found \ Routed
  /\ load.at = "none" => load.todo = <<>>
  /\ load.at \in {"init", "late"} => load.todo # <<>>
  /\ load.at = "init" => inst[Loading] # None /\ model[inst[Loading]] = cfg
  /\ load.at = "late" => inst[Loading] = None

\* A backend holds an instance of its own, and only what was found has one.
OwnInstance == \A id \in Ids : inst[id] # None => id \in Found /\ inst[id] \in {id} \X {1, 2}

\* Once a load has begun, what holds an instance is in the router or still to be
\* tried, and a failover comes only when the router is empty.
CopiesKnown ==
  load.at # "none" \/ entries # <<>> =>
    \A id \in Ids : inst[id] # None => id \in ToTry \cup Routed

OneEntryPerKind ==
  /\ \A i, j \in DOMAIN entries : (IsCpu(entries[i].id) <=> IsCpu(entries[j].id)) => i = j
  /\ load.at # "none" =>
       \A i \in DOMAIN entries : IF IsCpu(entries[i].id) THEN load.cpu ELSE load.accel

MInv ==
  /\ TypeOK /\ Types /\ LoadAgrees /\ OwnInstance /\ CopiesKnown /\ OneEntryPerKind
  /\ RoutesAreCurrent /\ RoutesCanInfer

AllAlive == \A i \in DOMAIN entries : entries[i].alive

\* Where the router does not backfill, only the first entry is ever measured.
FirstServes ==
  /\ routing \in {"FASTEST", "GPU_BACKFILL", "NPU_BACKFILL"}
  /\ AllAlive /\ ~Backfills => \A i \in DOMAIN entries : i # 1 => entries[i].lat = <<>>

SessionInFirst == open /\ entries # <<>> /\ AllAlive /\ ~Backfills => ctx[entries[1].inst] = pos

\* No session is open while a load runs.
LoadsAlone == open => load.at = "none"

SInv == MInv /\ FirstServes /\ SessionInFirst /\ LoadsAlone

-----------------------------------------------------------------------------
(* A strict total order on a set, as the set of its pairs. *)
StrictOrder(S, R) ==
  /\ \A a \in S : <<a, a>> \notin R
  /\ \A a, b, c \in S : <<a, b>> \in R /\ <<b, c>> \in R => <<a, c>> \in R
  /\ \A a, b \in S : a # b => <<a, b>> \in R \/ <<b, a>> \in R

(* Sorting by a strict total order gives each element one place. *)
LEMMA OrderedProperties ==
  ASSUME NEW S, IsFiniteSet(S), NEW R, StrictOrder(S, R)
  PROVE  /\ Ordered(S, R) \in [1 .. Cardinality(S) -> S]
         /\ \A i, j \in 1 .. Cardinality(S) :
              i < j => <<Ordered(S, R)[i], Ordered(S, R)[j]>> \in R
         /\ \A i, j \in 1 .. Cardinality(S) : Ordered(S, R)[i] = Ordered(S, R)[j] => i = j
         /\ \A x \in S : \E i \in 1 .. Cardinality(S) : Ordered(S, R)[i] = x
<1> DEFINE n == Cardinality(S)
           Before(x) == {y \in S : <<y, x>> \in R}
           rank == [x \in S |-> Cardinality(Before(x)) + 1]
           Sorted(q) == \A i, j \in 1 .. n : i < j => <<q[i], q[j]>> \in R
<1>1. n \in Nat /\ IsFiniteSet(1 .. n) /\ Cardinality(1 .. n) = n
  BY FS_CardinalityType, FS_Interval
<1>2. \A x \in S : IsFiniteSet(Before(x)) /\ Cardinality(Before(x)) \in Nat
  BY FS_Subset, FS_CardinalityType
<1>3. ASSUME NEW x \in S, NEW y \in S, <<x, y>> \in R
      PROVE  rank[x] < rank[y]
  <2>1. Before(x) \subseteq Before(y) /\ Before(x) # Before(y)
    BY <1>3 DEF StrictOrder
  <2>2. /\ Cardinality(Before(x)) <= Cardinality(Before(y))
        /\ Cardinality(Before(x)) # Cardinality(Before(y))
    <3> HIDE DEF Before
    <3> QED
      BY <1>2, <2>1, FS_Subset
  <2> QED
    BY <1>2, <2>2
<1>4. rank \in [S -> 1 .. n]
  <2> SUFFICES ASSUME NEW x \in S PROVE rank[x] \in 1 .. n
    OBVIOUS
  <2>1. Before(x) \subseteq S /\ Before(x) # S
    BY DEF StrictOrder
  <2>2. Cardinality(Before(x)) <= n /\ Cardinality(Before(x)) # n
    <3> HIDE DEF Before
    <3> QED
      BY <2>1, FS_Subset
  <2> QED
    BY <1>1, <1>2, <2>2
<1> HIDE DEF rank
<1>5. \A x, y \in S : x # y => rank[x] # rank[y]
  <2> SUFFICES ASSUME NEW x \in S, NEW y \in S, x # y PROVE rank[x] # rank[y]
    OBVIOUS
  <2>1. rank[x] < rank[y] \/ rank[y] < rank[x]
    BY <1>3 DEF StrictOrder
  <2>2. rank[x] \in Nat /\ rank[y] \in Nat
    BY <1>1, <1>4
  <2> QED
    BY <2>1, <2>2
<1>6. \A k \in 1 .. n : \E x \in S : rank[x] = k
  <2>1. rank \in Injection(S, 1 .. n)
    BY <1>4, <1>5 DEF Injection, IsInjective
  <2>2. rank \in Surjection(S, 1 .. n)
    BY <1>1, <2>1, FS_Injection
  <2> QED
    BY <2>2 DEF Surjection
<1>7. \E q \in [1 .. n -> S] : Sorted(q)
  <2> DEFINE q == [k \in 1 .. n |-> CHOOSE x \in S : rank[x] = k]
  <2>1. \A k \in 1 .. n : q[k] \in S /\ rank[q[k]] = k
    BY <1>6
  <2> HIDE DEF q
  <2>2. ASSUME NEW i \in 1 .. n, NEW j \in 1 .. n, i < j
        PROVE  <<q[i], q[j]>> \in R
    <3>1. q[i] # q[j]
      BY <1>1, <2>1, <2>2
    <3>2. ~(rank[q[j]] < rank[q[i]])
      BY <1>1, <2>1, <2>2
    <3> QED
      BY <1>3, <2>1, <3>1, <3>2 DEF StrictOrder
  <2>3. q \in [1 .. n -> S]
    BY <2>1 DEF q
  <2> QED
    BY <2>2, <2>3
<1> DEFINE order == Ordered(S, R)
<1>8. order \in [1 .. n -> S] /\ Sorted(order)
  BY <1>7 DEF Ordered
<1> HIDE DEF order
<1>9. \A i, j \in 1 .. n : order[i] = order[j] => i = j
  <2> SUFFICES ASSUME NEW i \in 1 .. n, NEW j \in 1 .. n, i < j
               PROVE  order[i] # order[j]
    BY <1>1
  <2> QED
    BY <1>8 DEF StrictOrder
<1>10. \A x \in S : \E i \in 1 .. n : order[i] = x
  <2>1. order \in Injection(1 .. n, S)
    BY <1>8, <1>9 DEF Injection, IsInjective
  <2>2. order \in Surjection(1 .. n, S)
    BY <1>1, <2>1, FS_Injection
  <2> QED
    BY <2>2 DEF Surjection
<1> QED
  BY <1>8, <1>9, <1>10 DEF order

(* rank_backends() sorts by a strict total order: the list keeps what was  *)
(* found, each once.                                                       *)
LEMMA RankedProperties ==
  ASSUME NEW ids \in Machines, NEW func \in [Ids -> BOOLEAN], NEW scores \in [Ids -> Nat],
         NEW strat
  PROVE  LET q == Ranked(ids, func, scores, strat)
         IN  /\ q \in Seq(Ids) /\ Len(q) = Cardinality(ids) /\ ToSet(q) = ids
             /\ Len(q) # 0
<1> DEFINE ByScore(a, b) ==
             IF (scores[a] > 0) # (scores[b] > 0) THEN scores[a] > 0
             ELSE IF scores[a] # scores[b] THEN scores[a] < scores[b]
             ELSE Priority[a] > Priority[b]
           Better(a, b) ==
             IF func[a] # func[b] THEN func[a]
             ELSE IF strat = "FASTEST" THEN ByScore(a, b) ELSE Priority[a] > Priority[b]
           R == {p \in ids \X ids : Better(p[1], p[2])}
<1>1. ids \subseteq Ids /\ IsFiniteSet(ids) /\ ids # {}
  BY IdsAssumption
<1>2. /\ \A a \in Ids : func[a] \in BOOLEAN /\ scores[a] \in Nat /\ Priority[a] \in Nat
      /\ \A a, b \in Ids : Priority[a] = Priority[b] => a = b
  BY PriorityAssumption
<1>3. /\ \A a \in ids : ~ByScore(a, a)
      /\ \A a, b, c \in ids : ByScore(a, b) /\ ByScore(b, c) => ByScore(a, c)
      /\ \A a, b \in ids : a # b => ByScore(a, b) \/ ByScore(b, a)
  BY <1>1, <1>2
<1>4. /\ \A a \in ids : ~(Priority[a] > Priority[a])
      /\ \A a, b, c \in ids : Priority[a] > Priority[b] /\ Priority[b] > Priority[c]
                                => Priority[a] > Priority[c]
      /\ \A a, b \in ids : a # b => Priority[a] > Priority[b] \/ Priority[b] > Priority[a]
  BY <1>1, <1>2
<1> HIDE DEF ByScore
<1>5. /\ \A a \in ids : ~Better(a, a)
      /\ \A a, b, c \in ids : Better(a, b) /\ Better(b, c) => Better(a, c)
      /\ \A a, b \in ids : a # b => Better(a, b) \/ Better(b, a)
  BY <1>1, <1>2, <1>3, <1>4, Zenon
<1> HIDE DEF Better
<1>6. StrictOrder(ids, R)
  BY <1>5 DEF StrictOrder
<1>7. Ranked(ids, func, scores, strat) = Ordered(ids, R)
  BY DEF Ranked, Better, ByScore
<1> DEFINE q == Ordered(ids, R)
<1> HIDE DEF R
<1>8. /\ q \in [1 .. Cardinality(ids) -> ids]
      /\ \A x \in ids : \E i \in 1 .. Cardinality(ids) : q[i] = x
  BY <1>1, <1>6, OrderedProperties
<1>9. Cardinality(ids) \in Nat \ {0}
  BY <1>1, FS_CardinalityType, FS_EmptySet
<1> HIDE DEF q
<1>10. q \in Seq(Ids) /\ Len(q) = Cardinality(ids)
  BY <1>1, <1>8, <1>9
<1>11. ToSet(q) = ids
  BY <1>8 DEF ToSet
<1> QED
  BY <1>7, <1>9, <1>10, <1>11 DEF q

(* The first place of an id in a list that has it. *)
LEMMA IndexOfProperties ==
  ASSUME NEW order \in Seq(Ids), NEW id \in ToSet(order)
  PROVE  /\ IndexOf(order, id) \in DOMAIN order /\ order[IndexOf(order, id)] = id
         /\ \A j \in DOMAIN order : order[j] = id => IndexOf(order, id) <= j
<1> DEFINE places == {i \in DOMAIN order : order[i] = id}
<1>1. places \in SUBSET Nat /\ places # {}
  BY DEF ToSet
<1>2. \E i \in places : \A j \in places : i <= j
  BY <1>1, LeastNumber
<1>3. \E i \in DOMAIN order :
        order[i] = id /\ \A j \in DOMAIN order : order[j] = id => i <= j
  BY <1>2
<1> QED
  BY <1>3 DEF IndexOf

(* The order of a load: what was found, each once.                         *)
LEMMA TryOrderProperties ==
  ASSUME TypeOK, NEW preferred \in PreferredLists
  PROVE  LET q == TryOrder(preferred)
         IN  /\ q \in Seq(Ids)
             /\ \A i, j \in DOMAIN q : q[i] = q[j] => i = j
             /\ \A i \in DOMAIN q : q[i] \in Found
             /\ \A id \in Found : \E i \in DOMAIN q : q[i] = id
<1> DEFINE Place(id) == IF id \in ToSet(preferred) THEN IndexOf(preferred, id)
                        ELSE Len(preferred) + IndexOf(backends, id)
           R == {p \in Found \X Found : Place(p[1]) < Place(p[2])}
           q == Ordered(Found, R)
           n == Cardinality(Found)
<1>1. Found \in Machines /\ Found \subseteq Ids /\ IsFiniteSet(Found) /\ n \in Nat
  BY IdsAssumption, FS_CardinalityType DEF TypeOK
<1>2. preferred \in Seq(Ids) /\ backends \in Seq(Ids)
  BY IdsAssumption DEF TypeOK
<1>3. ASSUME NEW id \in ToSet(preferred)
      PROVE  /\ Place(id) \in 1 .. Len(preferred) /\ preferred[Place(id)] = id
             /\ \A j \in DOMAIN preferred : preferred[j] = id => Place(id) <= j
  BY <1>2, IndexOfProperties
<1>4. ASSUME NEW id \in Found, id \notin ToSet(preferred)
      PROVE  /\ Place(id) \in Nat /\ Place(id) > Len(preferred)
             /\ backends[Place(id) - Len(preferred)] = id
  <2>1. IndexOf(backends, id) \in 1 .. Len(backends) /\ backends[IndexOf(backends, id)] = id
    BY <1>2, IndexOfProperties DEF Found
  <2>2. Place(id) = Len(preferred) + IndexOf(backends, id)
    BY <1>4
  <2> QED
    BY <1>2, <2>1, <2>2
<1> HIDE DEF Place
<1>5. \A a \in Found : Place(a) \in Nat
  BY <1>2, <1>3, <1>4
<1>6. \A a, b \in Found : a # b => Place(a) # Place(b)
  <2> SUFFICES ASSUME NEW a \in Found, NEW b \in Found, Place(a) = Place(b) PROVE a = b
    OBVIOUS
  <2>1. CASE a \in ToSet(preferred) /\ b \in ToSet(preferred)
    BY <1>3, <2>1
  <2>2. CASE a \notin ToSet(preferred) /\ b \notin ToSet(preferred)
    BY <1>4, <2>2
  <2>3. CASE (a \in ToSet(preferred)) # (b \in ToSet(preferred))
    BY <1>2, <1>3, <1>4, <2>3
  <2> QED
    BY <2>1, <2>2, <2>3
<1>7. StrictOrder(Found, R)
  BY <1>5, <1>6 DEF StrictOrder
<1>8. TryOrder(preferred) = q
  BY DEF TryOrder, Place
<1>9. /\ q \in [1 .. n -> Found]
      /\ \A i, j \in 1 .. n : i < j => <<q[i], q[j]>> \in R
      /\ \A i, j \in 1 .. n : q[i] = q[j] => i = j
      /\ \A id \in Found : \E i \in 1 .. n : q[i] = id
  <2> HIDE DEF R
  <2> QED
    BY <1>1, <1>7, OrderedProperties
<1> HIDE DEF q
<1>10. q \in Seq(Ids) /\ DOMAIN q = 1 .. n
  BY <1>1, <1>9
<1> QED
  BY <1>8, <1>9, <1>10

-----------------------------------------------------------------------------
(* The fields of an entry. *)
LEMMA EntryFields ==
  ASSUME Types, NEW i \in DOMAIN entries
  PROVE  /\ entries[i] \in Entry
         /\ entries[i].id \in Ids /\ entries[i].id \in Routed
         /\ entries[i].inst \in Objs /\ entries[i].inst \in RoutedTo
<1>1. entries[i] \in Entry
  BY DEF Types
<1> QED
  BY <1>1 DEF Entry, Routed, RoutedTo

(* An instance made for a backend that the router does not hold is its own *)
(* and not routed to.                                                      *)
LEMMA NewProperties ==
  ASSUME MInv, NEW id \in Ids \ Routed
  PROVE  New(id) \in {id} \X {1, 2} /\ New(id) \notin RoutedTo
<1>1. \A i \in DOMAIN entries : entries[i].inst \in {entries[i].id} \X {1, 2}
  <2> SUFFICES ASSUME NEW i \in DOMAIN entries
               PROVE  entries[i].inst \in {entries[i].id} \X {1, 2}
    OBVIOUS
  <2>2. entries[i].id \in Ids /\ entries[i].inst \in Objs
    BY EntryFields DEF MInv
  <2>3. entries[i].inst = inst[entries[i].id] /\ entries[i].inst # None
    BY <2>2, NoneAssumption DEF MInv, RoutesAreCurrent, Objs
  <2> QED
    BY <2>2, <2>3 DEF MInv, OwnInstance
<1>2. \A i \in DOMAIN entries : entries[i].id # id
  BY DEF Routed
<1>3. <<id, 1>> \notin RoutedTo
  BY <1>1, <1>2 DEF RoutedTo
<1>4. \E o \in {id} \X {1, 2} : o \notin RoutedTo
  BY <1>3
<1> QED
  BY <1>4 DEF New

(* A load moves on to the next id. *)
LEMMA NextToTry ==
  ASSUME MInv, load.todo # <<>>
  PROVE  /\ Loading \in ToTry /\ Loading \in Ids
         /\ Tail(load.todo) \in Seq(Ids)
         /\ \A i, j \in DOMAIN Tail(load.todo) : Tail(load.todo)[i] = Tail(load.todo)[j] => i = j
         /\ {Tail(load.todo)[i] : i \in DOMAIN Tail(load.todo)} = ToTry \ {Loading}
<1> DEFINE q == load.todo
           t == Tail(q)
<1>1. q \in Seq(Ids) /\ \A i, j \in DOMAIN q : q[i] = q[j] => i = j
  BY DEF MInv, Types, LoadAgrees
<1> HIDE DEF q
<1>2. q # <<>>
  BY DEF q
<1>3. /\ t \in Seq(Ids) /\ DOMAIN t = 1 .. Len(q) - 1 /\ DOMAIN q = 1 .. Len(q)
      /\ Len(q) \in Nat \ {0}
      /\ \A i \in DOMAIN t : t[i] = q[i + 1] /\ i + 1 \in DOMAIN q
  BY <1>1, <1>2
<1>4. Head(q) = q[1] /\ 1 \in DOMAIN q /\ q[1] \in Ids
  BY <1>1, <1>2, <1>3
<1> HIDE DEF t
<1>5. \A i, j \in DOMAIN t : t[i] = t[j] => i = j
  BY <1>1, <1>3
<1>6. \A i \in DOMAIN t : t[i] # q[1]
  BY <1>1, <1>3, <1>4
<1>7. \A i \in DOMAIN q : i # 1 => i - 1 \in DOMAIN t /\ t[i - 1] = q[i]
  BY <1>3
<1>8. {t[i] : i \in DOMAIN t} = {q[i] : i \in DOMAIN q} \ {q[1]}
  BY <1>3, <1>6, <1>7
<1> QED
  BY <1>3, <1>4, <1>5, <1>8 DEF Loading, ToTry, q, t

(* What is left alone by every step that moves no instance in or out. *)
LEMMA RoutesFrame ==
  ASSUME MInv, UNCHANGED <<inst, model, cfg, load>>, Found' = Found,
         entries' \in Seq(Entry), DOMAIN entries' = DOMAIN entries,
         \A i \in DOMAIN entries : entries'[i].id = entries[i].id
                                   /\ entries'[i].inst = entries[i].inst
  PROVE  /\ Types' /\ LoadAgrees' /\ OwnInstance' /\ CopiesKnown' /\ OneEntryPerKind'
         /\ RoutesAreCurrent' /\ RoutesCanInfer'
<1>1. Routed' = Routed /\ ToTry' = ToTry /\ Loading' = Loading
  BY DEF Routed, ToTry, Loading
<1>2. Types' /\ LoadAgrees' /\ OwnInstance'
  BY <1>1 DEF MInv, Types, LoadAgrees, OwnInstance
<1>3. entries' # <<>> <=> entries # <<>>
  BY DEF MInv, Types
<1>4. CopiesKnown' /\ OneEntryPerKind'
  BY <1>1, <1>3 DEF MInv, CopiesKnown, OneEntryPerKind, IsCpu
<1>5. RoutesAreCurrent' /\ RoutesCanInfer'
  BY DEF MInv, RoutesAreCurrent, RoutesCanInfer
<1> QED
  BY <1>2, <1>4, <1>5

(* The initial state. *)
LEMMA InitMInv == Init => MInv
<1> SUFFICES ASSUME Init PROVE MInv
  OBVIOUS
<1>1. functional \in [Ids -> BOOLEAN] /\ score \in [Ids -> Nat]
  BY PriorityAssumption DEF Init
<1>2. PICK ids \in Machines : backends = Ranked(ids, functional, score, "FASTEST")
  BY DEF Init
<1>3. backends \in Seq(Ids) /\ Found = ids /\ Len(backends) = Cardinality(ids)
      /\ Len(backends) # 0
  BY <1>1, <1>2, RankedProperties DEF Found
<1>4. active \in DOMAIN backends
  BY <1>3 DEF Init
<1>5. TypeOK
  <2>1. inst \in [Ids -> Objs \cup {None}] /\ model \in [Objs -> Models \cup {None}]
    BY DEF Init
  <2>2. ctx \in [Objs -> 0 .. MaxPos] /\ pos \in 0 .. MaxPos
    BY BoundsAssumption DEF Init
  <2>3. routing \in Strategies /\ counter \in -CounterMax - 1 .. CounterMax
    BY CounterMaxAssumption DEF Init, Strategies
  <2>4. DOMAIN entries = {} /\ load.at = "none" /\ cfg = None /\ initialized = FALSE
        /\ open = FALSE
    BY DEF Init, NoLoad
  <2> QED
    BY <1>1, <1>2, <1>3, <1>4, <2>1, <2>2, <2>3, <2>4 DEF TypeOK
<1>6. Types
  BY DEF Init, Types, NoLoad
<1> QED
  BY <1>5, <1>6 DEF Init, MInv, NoLoad, LoadAgrees, OwnInstance, CopiesKnown, OneEntryPerKind,
     RoutesAreCurrent, RoutesCanInfer, ToTry, Routed

-----------------------------------------------------------------------------
(* A load begins: every backend that was found is to be tried, and the     *)
(* router holds nothing of the model before.                               *)
LEMMA BeginLoadStep ==
  ASSUME MInv, NEW m \in Models, NEW preferred \in PreferredLists, BeginLoad(m, preferred)
  PROVE  MInv'
<1> DEFINE q == TryOrder(preferred)
<1>1. /\ entries' = <<>> /\ cfg' = m
      /\ load' = [at |-> "try", todo |-> q, accel |-> FALSE, cpu |-> FALSE, anyOk |-> FALSE]
      /\ UNCHANGED <<infoVars, initialized, routing, counter, objVars, open, pos>>
  BY DEF BeginLoad, NoLoad
<1>2. /\ q \in Seq(Ids)
      /\ \A i, j \in DOMAIN q : q[i] = q[j] => i = j
      /\ \A i \in DOMAIN q : q[i] \in Found
  BY TryOrderProperties DEF MInv
<1> HIDE DEF q
<1>3. \A id \in Found : \E i \in DOMAIN q : q[i] = id
  BY TryOrderProperties DEF q, MInv
<1>4. Found' = Found /\ Routed' = {} /\ ToTry' = Found
  BY <1>1, <1>2, <1>3 DEF infoVars, Found, Routed, ToTry
<1>5. TypeOK'
  BY <1>1, <1>4 DEF MInv, TypeOK, infoVars, objVars
<1>6. Types'
  BY <1>1, <1>2 DEF Types
<1>7. LoadAgrees'
  BY <1>1, <1>2, <1>4 DEF LoadAgrees
<1>8. OwnInstance' /\ CopiesKnown'
  BY <1>1, <1>4 DEF MInv, OwnInstance, CopiesKnown, infoVars
<1>9. OneEntryPerKind' /\ RoutesAreCurrent' /\ RoutesCanInfer'
  BY <1>1 DEF OneEntryPerKind, RoutesAreCurrent, RoutesCanInfer
<1> QED
  BY <1>5, <1>6, <1>7, <1>8, <1>9 DEF MInv

(* The next backend gets an instance of the new model. *)
LEMMA StartInitStep ==
  ASSUME MInv, StartInit
  PROVE  MInv'
<1> DEFINE id == Loading
           o == New(id)
<1>1. /\ load.at = "try" /\ load.todo # <<>>
      /\ inst' = WithNew({id}) /\ model' = LoadedInto({id}) /\ ctx' = EmptiedFor({id})
      /\ load' = [load EXCEPT !.at = "init"]
      /\ UNCHANGED <<backends, functional, score, active, cfg, initialized,
                     routerVars, sessionVars>>
  BY DEF StartInit
<1>2. id \in ToTry /\ id \in Ids /\ id \in Found \ Routed
  BY <1>1, NextToTry DEF MInv, LoadAgrees
<1>3. o \in {id} \X {1, 2} /\ o \notin RoutedTo /\ o \in Objs /\ o # None
  BY <1>2, NewProperties, NoneAssumption DEF Objs
<1>4. load' \in [at : {"none", "try", "init", "late"}, todo : Seq(Ids),
                 accel : BOOLEAN, cpu : BOOLEAN, anyOk : BOOLEAN]
      /\ load'.at = "init" /\ load'.todo = load.todo /\ load'.cpu = load.cpu
      /\ load'.accel = load.accel
  BY <1>1 DEF MInv, Types
<1>5. ToTry' = ToTry /\ Loading' = id /\ Found' = Found /\ Routed' = Routed
  BY <1>1, <1>4 DEF ToTry, Loading, Found, Routed, routerVars
<1> HIDE DEF id, o
<1>6. inst'[id] = o /\ \A a \in Ids \ {id} : inst'[a] = inst[a]
  BY <1>1, <1>2 DEF WithNew, o
<1>7. model'[o] = cfg /\ \A b \in Objs \ {o} : model'[b] = model[b]
  BY <1>1, <1>3 DEF LoadedInto, NewOf, o
<1>8. TypeOK'
  <2>1. inst' \in [Ids -> Objs \cup {None}]
    BY <1>1, <1>3 DEF MInv, TypeOK, WithNew, o
  <2>2. model' \in [Objs -> Models \cup {None}]
    BY <1>1 DEF MInv, TypeOK, LoadedInto
  <2>3. ctx' \in [Objs -> 0 .. MaxPos]
    BY <1>1, BoundsAssumption DEF MInv, TypeOK, EmptiedFor
  <2> QED
    BY <1>1, <1>4, <1>5, <2>1, <2>2, <2>3 DEF MInv, TypeOK, routerVars, sessionVars
<1>9. Types'
  BY <1>1, <1>4 DEF MInv, Types, routerVars
<1>10. LoadAgrees'
  BY <1>1, <1>3, <1>4, <1>5, <1>6, <1>7 DEF MInv, LoadAgrees
<1>11. OwnInstance'
  BY <1>2, <1>3, <1>5, <1>6 DEF MInv, OwnInstance
<1>12. CopiesKnown'
  BY <1>1, <1>2, <1>5, <1>6 DEF MInv, CopiesKnown
<1>13. RoutesAreCurrent' /\ RoutesCanInfer'
  <2> SUFFICES ASSUME NEW i \in DOMAIN entries
               PROVE  /\ model'[entries[i].inst] = cfg
                      /\ entries[i].inst = inst'[entries[i].id]
                      /\ entries[i].id \notin Stubs
    BY <1>1 DEF RoutesAreCurrent, RoutesCanInfer, routerVars
  <2>1. entries[i].id \in Ids \ {id} /\ entries[i].inst \in Objs \ {o}
    BY <1>2, <1>3, EntryFields DEF MInv
  <2> QED
    BY <1>6, <1>7, <2>1 DEF MInv, RoutesAreCurrent, RoutesCanInfer
<1>14. OneEntryPerKind'
  BY <1>1, <1>4 DEF MInv, OneEntryPerKind, routerVars, IsCpu
<1> QED
  BY <1>8, <1>9, <1>10, <1>11, <1>12, <1>13, <1>14 DEF MInv

(* The instance that was being initialised is gone again. *)
LEMMA DestroyedStep ==
  ASSUME MInv, load.at = "init", Destroyed,
         functional' \in [Ids -> BOOLEAN],
         UNCHANGED <<backends, score, active, cfg, initialized, routerVars, sessionVars>>,
         load' \in [at : {"try", "late"}, todo : Seq(Ids),
                   accel : BOOLEAN, cpu : BOOLEAN, anyOk : BOOLEAN],
         load.cpu => load'.cpu, load.accel => load'.accel,
         \/ load'.at = "late" /\ load'.todo = load.todo
         \/ load'.at = "try" /\ load'.todo = Tail(load.todo)
  PROVE  MInv'
<1> DEFINE id == Loading
           o == inst[id]
<1>1. /\ inst' = [inst EXCEPT ![id] = None]
      /\ model' = [model EXCEPT ![o] = None]
      /\ ctx' = [ctx EXCEPT ![o] = 0]
      /\ UNCHANGED <<entries, backends, cfg>>
  BY DEF Destroyed, routerVars
<1>2. load.todo # <<>> /\ id \in ToTry /\ id \in Ids \ Routed /\ id \in Found
  BY NextToTry DEF MInv, LoadAgrees
<1>3. o # None /\ o \in {id} \X {1, 2}
  BY <1>2 DEF MInv, LoadAgrees, OwnInstance
<1>4. Found' = Found /\ Routed' = Routed
  BY <1>1 DEF Found, Routed
<1>5. ToTry \ {id} \subseteq ToTry' /\ ToTry' \subseteq ToTry
      /\ \A i, j \in DOMAIN load'.todo : load'.todo[i] = load'.todo[j] => i = j
  <2>1. CASE load'.todo = load.todo
    BY <2>1 DEF ToTry, MInv, LoadAgrees
  <2>2. CASE load'.todo = Tail(load.todo)
    <3>1. ToTry' = {Tail(load.todo)[i] : i \in DOMAIN Tail(load.todo)}
      BY <2>2 DEF ToTry
    <3> QED
      BY <1>2, <2>2, <3>1, NextToTry
  <2> QED
    BY <2>1, <2>2
<1> HIDE DEF id, o
<1>6. inst'[id] = None /\ \A a \in Ids \ {id} : inst'[a] = inst[a]
  BY <1>1, <1>2 DEF MInv, TypeOK
<1>7. TypeOK'
  <2>1. inst' \in [Ids -> Objs \cup {None}] /\ model' \in [Objs -> Models \cup {None}]
    BY <1>1 DEF MInv, TypeOK
  <2>2. ctx' \in [Objs -> 0 .. MaxPos]
    <3>1. 0 \in 0 .. MaxPos /\ ctx \in [Objs -> 0 .. MaxPos]
      BY BoundsAssumption DEF MInv, TypeOK
    <3> QED
      BY <1>1, <3>1, Zenon
  <2> QED
    BY <1>1, <1>4, <2>1, <2>2 DEF MInv, TypeOK, routerVars, sessionVars
<1>8. Types'
  BY <1>1 DEF MInv, Types
<1>9. LoadAgrees'
  <2>1. load'.at = "late" => Loading' = id
    BY DEF Loading, id
  <2> QED
    BY <1>2, <1>4, <1>5, <1>6, <2>1 DEF MInv, LoadAgrees
<1>10. OwnInstance'
  BY <1>4, <1>6 DEF MInv, OwnInstance
<1>11. CopiesKnown'
  BY <1>1, <1>4, <1>5, <1>6 DEF MInv, CopiesKnown
<1>12. OneEntryPerKind'
  BY <1>1 DEF MInv, OneEntryPerKind, IsCpu
<1>13. RoutesAreCurrent' /\ RoutesCanInfer'
  <2> SUFFICES ASSUME NEW i \in DOMAIN entries
               PROVE  /\ model'[entries[i].inst] = cfg
                      /\ entries[i].inst = inst'[entries[i].id]
                      /\ entries[i].id \notin Stubs
    BY <1>1 DEF RoutesAreCurrent, RoutesCanInfer
  <2>1. entries[i].id \in Ids \ {id} /\ entries[i].inst \in Objs
    BY <1>2, EntryFields DEF MInv
  <2>2. entries[i].inst = inst[entries[i].id] /\ entries[i].inst # None
    BY <2>1, NoneAssumption DEF MInv, RoutesAreCurrent, Objs
  <2>3. entries[i].inst \in {entries[i].id} \X {1, 2}
    BY <2>1, <2>2 DEF MInv, OwnInstance
  <2>4. entries[i].inst # o
    BY <1>3, <2>1, <2>3
  <2> QED
    BY <1>1, <1>6, <2>1, <2>4 DEF MInv, TypeOK, RoutesAreCurrent, RoutesCanInfer
<1> QED
  BY <1>7, <1>8, <1>9, <1>10, <1>11, <1>12, <1>13 DEF MInv

(* The ways in which an init() comes to nothing. *)
LEMMA FruitlessInitStep ==
  ASSUME MInv, InitFails \/ InitLate \/ InitSkipped \/ InitOfStub
  PROVE  MInv'
<1>1. load.at = "init" /\ load.todo # <<>>
  BY DEF MInv, LoadAgrees, InitFails, InitLate, InitSkipped, InitOfStub
<1>2. /\ load \in [at : {"none", "try", "init", "late"}, todo : Seq(Ids),
                   accel : BOOLEAN, cpu : BOOLEAN, anyOk : BOOLEAN]
      /\ Tail(load.todo) \in Seq(Ids) /\ functional \in [Ids -> BOOLEAN]
  BY <1>1, NextToTry DEF MInv, Types, TypeOK
<1>3. CASE InitFails \/ InitSkipped
  <2>1. load' = [load EXCEPT !.at = "try", !.todo = Tail(@)]
    BY <1>3 DEF InitFails, InitSkipped, Advanced
  <2>2. /\ load' \in [at : {"try", "late"}, todo : Seq(Ids),
                      accel : BOOLEAN, cpu : BOOLEAN, anyOk : BOOLEAN]
        /\ load'.cpu = load.cpu /\ load'.accel = load.accel
        /\ load'.at = "try" /\ load'.todo = Tail(load.todo)
    BY <1>2, <2>1
  <2> QED
    BY <1>1, <1>2, <1>3, <2>2, DestroyedStep DEF InitFails, InitSkipped
<1>4. CASE InitLate
  <2>1. load' = [load EXCEPT !.at = "late"]
    BY <1>4 DEF InitLate
  <2>2. /\ load' \in [at : {"try", "late"}, todo : Seq(Ids),
                      accel : BOOLEAN, cpu : BOOLEAN, anyOk : BOOLEAN]
        /\ load'.cpu = load.cpu /\ load'.accel = load.accel
        /\ load'.at = "late" /\ load'.todo = load.todo
    BY <1>2, <2>1
  <2> QED
    BY <1>1, <1>2, <1>4, <2>2, DestroyedStep DEF InitLate
<1>5. CASE InitOfStub
  <2>1. load' = Advanced(Taken(Loading)) /\ functional' \in [Ids -> BOOLEAN]
    BY <1>2, <1>5 DEF InitOfStub
  <2>2. /\ load' \in [at : {"try", "late"}, todo : Seq(Ids),
                      accel : BOOLEAN, cpu : BOOLEAN, anyOk : BOOLEAN]
        /\ load.cpu => load'.cpu
        /\ load.accel => load'.accel
        /\ load'.at = "try" /\ load'.todo = Tail(load.todo)
    BY <1>2, <2>1 DEF Advanced, Taken
  <2> QED
    BY <1>1, <1>5, <2>1, <2>2, DestroyedStep DEF InitOfStub
<1> QED
  BY <1>3, <1>4, <1>5

(* An init() that succeeds: the backend enters the router. *)
LEMMA InitSucceedsStep ==
  ASSUME MInv, InitSucceeds
  PROVE  MInv'
<1> DEFINE id == Loading
           e == [id |-> id, inst |-> inst[id], alive |-> TRUE, lat |-> <<>>]
<1>1. /\ load.at = "init" /\ Room(id) /\ id \notin Stubs
      /\ functional' = [functional EXCEPT ![id] = TRUE]
      /\ active' = IndexOf(backends, id)
      /\ initialized' = TRUE
      /\ entries' = Append(entries, e)
      /\ routing' = RoutingOf(id)
      /\ load' = Advanced([Taken(id) EXCEPT !.anyOk = TRUE])
      /\ UNCHANGED <<backends, score, inst, cfg, counter, objVars, sessionVars>>
  BY DEF InitSucceeds, CanInfer
<1>2. /\ load.todo # <<>> /\ id \in ToTry /\ id \in Ids \ Routed /\ id \in Found
      /\ Tail(load.todo) \in Seq(Ids)
      /\ \A i, j \in DOMAIN Tail(load.todo) : Tail(load.todo)[i] = Tail(load.todo)[j] => i = j
      /\ {Tail(load.todo)[i] : i \in DOMAIN Tail(load.todo)} = ToTry \ {id}
  BY <1>1, NextToTry DEF MInv, LoadAgrees
<1>3. inst[id] \in Objs /\ model[inst[id]] = cfg /\ inst[id] # None
  BY <1>1, <1>2 DEF MInv, LoadAgrees, TypeOK
<1>4. /\ load' \in [at : {"none", "try", "init", "late"}, todo : Seq(Ids),
                    accel : BOOLEAN, cpu : BOOLEAN, anyOk : BOOLEAN]
      /\ load'.at = "try" /\ load'.todo = Tail(load.todo)
      /\ load'.cpu = (load.cpu \/ IsCpu(id)) /\ load'.accel = (load.accel \/ ~IsCpu(id))
  <2>1. load \in [at : {"none", "try", "init", "late"}, todo : Seq(Ids),
                  accel : BOOLEAN, cpu : BOOLEAN, anyOk : BOOLEAN]
    BY DEF MInv, Types
  <2> QED
    BY <1>1, <1>2, <2>1 DEF Advanced, Taken
<1>5. e \in Entry
  BY <1>2, <1>3 DEF Entry
<1> HIDE DEF id
<1>6. /\ entries' \in Seq(Entry) /\ DOMAIN entries = 1 .. Len(entries)
      /\ Len(entries) \in Nat /\ DOMAIN entries' = 1 .. Len(entries) + 1
      /\ \A i \in DOMAIN entries : entries'[i] = entries[i]
      /\ entries'[Len(entries) + 1] = e
  <2> HIDE DEF e
  <2> QED
    BY <1>1, <1>5 DEF MInv, Types
<1>7. \A i \in DOMAIN entries' :
        \/ i \in DOMAIN entries /\ entries'[i] = entries[i]
        \/ i = Len(entries) + 1 /\ entries'[i] = e
  <2> HIDE DEF e
  <2> QED
    BY <1>6
<1>8. Routed' = Routed \cup {id} /\ ToTry' = ToTry \ {id} /\ Found' = Found
  <2>1. Routed' = Routed \cup {e.id}
    <3> HIDE DEF e
    <3>1. \A x : x \in Routed' <=> x \in Routed \/ x = e.id
      BY <1>6, <1>7 DEF Routed
    <3> QED
      BY <3>1
  <2>2. ToTry' = {Tail(load.todo)[i] : i \in DOMAIN Tail(load.todo)}
    BY <1>4 DEF ToTry
  <2> QED
    BY <1>1, <1>2, <2>1, <2>2 DEF Found
<1>9. \A i \in DOMAIN entries : entries[i].id # id
  BY <1>2 DEF Routed
<1>10. TypeOK'
  <2>1. active' \in DOMAIN backends
    BY <1>1, <1>2, IndexOfProperties DEF MInv, TypeOK, Found
  <2>2. \A i, j \in DOMAIN entries' : entries'[i].id = entries'[j].id => i = j
    BY <1>7, <1>9 DEF MInv, TypeOK
  <2>3. routing' \in Strategies
    BY <1>1 DEF RoutingOf, Strategies
  <2>4. functional' \in [Ids -> BOOLEAN]
    BY <1>1 DEF MInv, TypeOK
  <2> QED
    BY <1>1, <1>4, <1>8, <2>1, <2>2, <2>3, <2>4 DEF MInv, TypeOK, objVars, sessionVars
<1>11. Types'
  BY <1>4, <1>6 DEF Types
<1>12. LoadAgrees'
  BY <1>2, <1>4, <1>8 DEF MInv, LoadAgrees
<1>13. OwnInstance' /\ CopiesKnown'
  BY <1>1, <1>8 DEF MInv, OwnInstance, CopiesKnown
<1>14. RoutesAreCurrent' /\ RoutesCanInfer'
  BY <1>1, <1>3, <1>7 DEF MInv, RoutesAreCurrent, RoutesCanInfer, objVars
<1>15. OneEntryPerKind'
  <2>1. \A i \in DOMAIN entries : ~(IsCpu(entries[i].id) <=> IsCpu(id))
    BY <1>1 DEF MInv, OneEntryPerKind, Room
  <2>2. \A i, j \in DOMAIN entries' : (IsCpu(entries'[i].id) <=> IsCpu(entries'[j].id)) => i = j
    BY <1>7, <2>1 DEF MInv, OneEntryPerKind
  <2>3. \A i \in DOMAIN entries' : IF IsCpu(entries'[i].id) THEN load'.cpu ELSE load'.accel
    BY <1>1, <1>4, <1>7 DEF MInv, OneEntryPerKind
  <2> QED
    BY <2>2, <2>3 DEF OneEntryPerKind, IsCpu
<1> QED
  BY <1>10, <1>11, <1>12, <1>13, <1>14, <1>15 DEF MInv

(* A late init() returns at last, and a load ends. *)
LEMMA EndOfLoadStep ==
  ASSUME MInv, LateInitReturns \/ EndLoad
  PROVE  MInv'
<1>1. UNCHANGED <<infoVars, cfg, initialized, routerVars, objVars, sessionVars>>
  BY DEF LateInitReturns, EndLoad
<1>2. Found' = Found /\ Routed' = Routed /\ UNCHANGED <<entries, inst, model, cfg, backends>>
  BY <1>1 DEF infoVars, routerVars, objVars, Found, Routed
<1>3. RoutesAreCurrent' /\ RoutesCanInfer' /\ OwnInstance'
  BY <1>2 DEF MInv, RoutesAreCurrent, RoutesCanInfer, OwnInstance
<1>4. load \in [at : {"none", "try", "init", "late"}, todo : Seq(Ids),
                accel : BOOLEAN, cpu : BOOLEAN, anyOk : BOOLEAN]
  BY DEF MInv, Types
<1>5. CASE LateInitReturns
  <2>1. /\ load.todo # <<>> /\ Loading \in ToTry
        /\ Tail(load.todo) \in Seq(Ids)
        /\ \A i, j \in DOMAIN Tail(load.todo) : Tail(load.todo)[i] = Tail(load.todo)[j] => i = j
        /\ {Tail(load.todo)[i] : i \in DOMAIN Tail(load.todo)} = ToTry \ {Loading}
    BY <1>5, NextToTry DEF MInv, LoadAgrees, LateInitReturns
  <2>2. /\ load' \in [at : {"none", "try", "init", "late"}, todo : Seq(Ids),
                      accel : BOOLEAN, cpu : BOOLEAN, anyOk : BOOLEAN]
        /\ load'.at = "try" /\ load'.todo = Tail(load.todo)
        /\ load'.cpu = load.cpu /\ load'.accel = load.accel
    BY <1>4, <1>5, <2>1 DEF LateInitReturns, Advanced
  <2>3. ToTry' = ToTry \ {Loading}
    <3>1. ToTry' = {Tail(load.todo)[i] : i \in DOMAIN Tail(load.todo)}
      BY <2>2 DEF ToTry
    <3> QED
      BY <2>1, <3>1
  <2>4. load.at = "late" /\ inst[Loading] = None
    BY <1>5 DEF MInv, LoadAgrees, LateInitReturns
  <2>5. TypeOK'
    BY <1>1, <1>2, <2>2 DEF MInv, TypeOK, infoVars, routerVars, objVars, sessionVars
  <2>6. Types' /\ LoadAgrees'
    BY <1>2, <2>1, <2>2, <2>3 DEF MInv, Types, LoadAgrees
  <2>7. CopiesKnown'
    BY <1>2, <2>3, <2>4 DEF MInv, CopiesKnown
  <2>8. OneEntryPerKind'
    BY <1>2, <2>2, <2>4 DEF MInv, OneEntryPerKind, IsCpu
  <2> QED
    BY <1>3, <2>2, <2>5, <2>6, <2>7, <2>8 DEF MInv
<1>6. CASE EndLoad
  <2>1. /\ load.at = "try" /\ load.todo = <<>> /\ load' = NoLoad
    BY <1>6 DEF EndLoad
  <2>2. ToTry = {} /\ ToTry' = {}
    BY <2>1 DEF ToTry, NoLoad
  <2>3. TypeOK'
    BY <1>1, <1>2, <2>1 DEF MInv, TypeOK, NoLoad, infoVars, routerVars, objVars, sessionVars
  <2>4. Types' /\ LoadAgrees'
    BY <1>2, <2>1, <2>2 DEF MInv, Types, LoadAgrees, NoLoad
  <2>5. CopiesKnown' /\ OneEntryPerKind'
    BY <1>2, <2>1, <2>2 DEF MInv, CopiesKnown, OneEntryPerKind, NoLoad, IsCpu
  <2> QED
    BY <1>3, <2>3, <2>4, <2>5 DEF MInv
<1> QED
  BY <1>5, <1>6

-----------------------------------------------------------------------------
(* What re-evaluation chooses is a place in the list. *)
LEMMA ChosenInList ==
  ASSUME NEW order, NEW s \in {"FASTEST", "LOWEST_POWER", "ROUND_ROBIN"},
         order \in Seq(Ids), Len(order) # 0, IndexOf(order, ActiveId) \in Nat
  PROVE  Chosen(order, s) \subseteq DOMAIN order
<1>1. DOMAIN order = 1 .. Len(order) /\ Len(order) \in Nat \ {0}
  OBVIOUS
<1>2. ASSUME NEW path \in [DOMAIN order -> DOMAIN order]
      PROVE  FirstFunctional(order, path) \subseteq DOMAIN order
  <2> DEFINE hits == {k \in DOMAIN path : functional[order[path[k]]]}
  <2>1. CASE hits = {}
    BY <2>1 DEF FirstFunctional
  <2>2. CASE hits # {}
    <3>1. hits \in SUBSET Nat
      BY <1>1
    <3>2. \E k \in hits : \A j \in hits : k <= j
      <4> HIDE DEF hits
      <4> QED
        BY <2>2, <3>1, LeastNumber
    <3>3. (CHOOSE k \in hits : \A j \in hits : k <= j) \in DOMAIN order
      BY <3>2
    <3> HIDE DEF hits
    <3> QED
      BY <2>2, <3>3 DEF FirstFunctional, hits
  <2> QED
    BY <2>1, <2>2
<1>3. InOrder(order) \in [DOMAIN order -> DOMAIN order]
  BY DEF InOrder
<1>4. After(order, IndexOf(order, ActiveId)) \in [DOMAIN order -> DOMAIN order]
  <2>1. \A i \in Nat, k \in DOMAIN order : ((i + k - 1) % Len(order)) + 1 \in DOMAIN order
    BY <1>1
  <2> QED
    BY <2>1 DEF After
<1>5. BestScored(order) \subseteq DOMAIN order
  <2> DEFINE scored == {i \in DOMAIN order : functional[order[i]] /\ score[order[i]] > 0}
             best == {i \in scored : \A j \in scored : score[order[i]] <= score[order[j]]}
  <2>1. best \in SUBSET Nat /\ best \subseteq DOMAIN order
    BY <1>1
  <2>2. BestScored(order) = IF best = {} THEN {} ELSE {CHOOSE i \in best : \A j \in best : i <= j}
    BY DEF BestScored
  <2> HIDE DEF best
  <2>3. best # {} => \E i \in best : \A j \in best : i <= j
    BY <2>1, LeastNumber
  <2> QED
    BY <2>1, <2>2, <2>3
<1> QED
  BY <1>2, <1>3, <1>4, <1>5 DEF Chosen

(* set_strategy() and select_backend(). *)
LEMMA SelectStep ==
  ASSUME MInv, \/ \E s \in SelectionStrategies : SetStrategy(s)
               \/ \E id \in Found : SelectBackend(id)
  PROVE  MInv'
<1>1. CASE \E s \in SelectionStrategies : SetStrategy(s)
  <2> PICK s \in SelectionStrategies : SetStrategy(s)
    BY <1>1
  <2>1. UNCHANGED <<functional, score, inst, cfg, initialized, routerVars, objVars, load, open, pos>>
    BY DEF SetStrategy
  <2>2. /\ backends' \in Seq(Ids) /\ Found' = Found /\ Len(backends') = Cardinality(Found)
        /\ active' \in DOMAIN backends'
    <3>1. CASE s = "MANUAL"
      BY <3>1 DEF SetStrategy, MInv, TypeOK, Found
    <3>2. CASE s # "MANUAL"
      <4>1. /\ backends' = Ranked(Found, functional, score, s)
            /\ active' = IF Chosen(backends', s) = {} THEN active
                         ELSE CHOOSE i \in Chosen(backends', s) : TRUE
        BY <3>2 DEF SetStrategy
      <4>2. /\ backends' \in Seq(Ids) /\ Len(backends') = Cardinality(Found)
            /\ ToSet(backends') = Found /\ Len(backends') # 0
        BY <4>1, RankedProperties DEF MInv, TypeOK
      <4>3. active \in DOMAIN backends /\ DOMAIN backends' = DOMAIN backends
        BY <4>2 DEF MInv, TypeOK
      <4>4. IndexOf(backends', ActiveId) \in Nat
        <5>1. ActiveId \in ToSet(backends')
          BY <4>2, <4>3 DEF ActiveId, Found, ToSet
        <5>2. IndexOf(backends', ActiveId) \in DOMAIN backends'
          BY <4>2, <5>1, IndexOfProperties
        <5> QED
          BY <4>2, <5>2
      <4>5. Chosen(backends', s) \subseteq DOMAIN backends'
        BY <3>2, <4>2, <4>4, ChosenInList DEF SelectionStrategies
      <4>6. active' \in DOMAIN backends'
        BY <4>1, <4>3, <4>5
      <4> QED
        BY <4>2, <4>6 DEF Found
    <3> QED
      BY <3>1, <3>2
  <2>3. TypeOK'
    BY <2>1, <2>2 DEF MInv, TypeOK, routerVars, objVars
  <2>4. /\ Types' /\ LoadAgrees' /\ OwnInstance' /\ CopiesKnown' /\ OneEntryPerKind'
        /\ RoutesAreCurrent' /\ RoutesCanInfer'
    BY <2>1, <2>2, RoutesFrame DEF MInv, Types, routerVars, objVars
  <2> QED
    BY <2>3, <2>4 DEF MInv
<1>2. CASE \E id \in Found : SelectBackend(id)
  <2> PICK id \in Found : SelectBackend(id)
    BY <1>2
  <2>1. /\ active' = IndexOf(backends, id)
        /\ UNCHANGED <<backends, functional, score, inst, cfg, initialized, routerVars, objVars,
                       load, open, pos>>
    BY DEF SelectBackend
  <2>2. active' \in DOMAIN backends
    BY <2>1, IndexOfProperties DEF MInv, TypeOK, Found
  <2>3. Found' = Found /\ TypeOK'
    BY <2>1, <2>2 DEF MInv, TypeOK, Found, routerVars, objVars
  <2>4. /\ Types' /\ LoadAgrees' /\ OwnInstance' /\ CopiesKnown' /\ OneEntryPerKind'
        /\ RoutesAreCurrent' /\ RoutesCanInfer'
    BY <2>1, <2>3, RoutesFrame DEF MInv, Types, routerVars, objVars
  <2> QED
    BY <2>3, <2>4 DEF MInv
<1> QED
  BY <1>1, <1>2

(* reset() of the routed instances, or of the active one. *)
LEMMA ResetStep ==
  ASSUME MInv, ResetRouted \/ ResetActive \/ EndSession
  PROVE  MInv'
<1>1. UNCHANGED <<inst, model, cfg, load, backends>> /\ Found' = Found
  BY DEF ResetRouted, ResetActive, EndSession, infoVars, objVars, Found
<1>2. /\ entries' \in Seq(Entry) /\ DOMAIN entries' = DOMAIN entries
      /\ \A i \in DOMAIN entries : entries'[i].id = entries[i].id
                                   /\ entries'[i].inst = entries[i].inst
  <2>1. CASE ResetRouted
    <3>1. PICK out \in [DOMAIN entries -> Outcomes \cup {"dead"}] :
            entries' = [i \in DOMAIN entries |->
                         IF out[i] = "threw" THEN [entries[i] EXCEPT !.alive = FALSE] ELSE entries[i]]
      BY <2>1 DEF ResetRouted
    <3>2. DOMAIN entries = 1 .. Len(entries) /\ Len(entries) \in Nat
      BY DEF MInv, Types
    <3>3. ASSUME NEW i \in DOMAIN entries
          PROVE  entries'[i] \in Entry /\ entries'[i].id = entries[i].id
                 /\ entries'[i].inst = entries[i].inst
      <4>1. entries[i] \in Entry
        BY EntryFields DEF MInv
      <4> QED
        BY <3>1, <4>1 DEF Entry
    <3> QED
      BY <3>1, <3>2, <3>3
  <2>2. CASE ResetActive \/ EndSession
    BY <2>2 DEF ResetActive, EndSession, routerVars, MInv, Types
  <2> QED
    BY <2>1, <2>2
<1>3. TypeOK'
  <2>1. 0 \in 0 .. MaxPos
    BY BoundsAssumption
  <2>2. ctx' \in [Objs -> 0 .. MaxPos]
    <3>1. CASE ResetRouted
      <4>1. PICK out \in [DOMAIN entries -> Outcomes \cup {"dead"}] :
              ctx' = [o \in Objs |-> IF o \in UNION {ResetIn(out, i) : i \in DOMAIN entries}
                                      THEN 0 ELSE ctx[o]]
        BY <3>1 DEF ResetRouted
      <4> QED
        BY <2>1, <4>1 DEF MInv, TypeOK
    <3>2. CASE ResetActive
      BY <2>1, <3>2, Zenon DEF ResetActive, MInv, TypeOK
    <3>3. CASE EndSession
      BY <3>3 DEF EndSession, objVars, MInv, TypeOK
    <3> QED
      BY <3>1, <3>2, <3>3
  <2>3. functional' \in [Ids -> BOOLEAN]
    BY DEF ResetRouted, ResetActive, EndSession, infoVars, MInv, TypeOK
  <2>4. open' \in BOOLEAN /\ pos' = 0
    BY DEF ResetRouted, ResetActive, EndSession
  <2>5. UNCHANGED <<backends, score, inst, active, cfg, initialized, routing, counter, model, load>>
    BY DEF ResetRouted, ResetActive, EndSession, infoVars, routerVars, objVars
  <2>6. \A i, j \in DOMAIN entries' : entries'[i].id = entries'[j].id => i = j
    BY <1>2 DEF MInv, TypeOK
  <2> QED
    BY <1>1, <2>1, <2>2, <2>3, <2>4, <2>5, <2>6 DEF MInv, TypeOK
<1> QED
  BY <1>1, <1>2, <1>3, RoutesFrame DEF MInv

(* The window of an entry keeps its type. *)
LEMMA RecordedType ==
  ASSUME NEW lat \in Seq(Times), NEW ms \in Times
  PROVE  Recorded(lat, ms) \in Seq(Times)
<1> DEFINE longer == Append(lat, ms)
<1>1. longer \in Seq(Times) /\ longer # <<>>
  BY AppendProperties
<1> HIDE DEF longer
<1>2. Tail(longer) \in Seq(Times)
  BY <1>1
<1> QED
  BY <1>1, <1>2 DEF Recorded, longer

(* A token that is fed to an instance stays within the bound. *)
LEMMA FedTypes ==
  ASSUME NEW c \in [Objs -> 0 .. MaxPos], NEW o, Fed(c, o), TypeOK, InCall
  PROVE  ctx' \in [Objs -> 0 .. MaxPos] /\ pos' \in 0 .. MaxPos
<1>1. pos < MaxPos /\ pos' = pos + 1
  BY BoundsAssumption DEF InCall, TypeOK, Fed
<1>2. ctx' \in [Objs -> 0 .. MaxPos]
  <2>1. CASE o \in Objs
    <3>1. c[o] + 1 \in 0 .. MaxPos
      BY <2>1, BoundsAssumption DEF Fed
    <3> QED
      BY <3>1 DEF Fed
  <2>2. CASE o \notin Objs
    BY <2>2 DEF Fed
  <2> QED
    BY <2>1, <2>2
<1> QED
  BY <1>1, <1>2, BoundsAssumption DEF TypeOK

(* A token through the router. *)
LEMMA GenerateRoutedStep ==
  ASSUME MInv, GenerateRouted
  PROVE  MInv'
<1> DEFINE i == Pick(entries, routing, counter)
           e == entries[i]
<1>1. /\ InCall /\ counter' = CounterAfter(entries, routing, counter)
      /\ \/ \E ms \in Times :
              /\ entries' = [entries EXCEPT ![i].lat = Recorded(@, ms)]
              /\ Fed(ctx, e.inst)
         \/ UNCHANGED <<entries, ctx, pos>>
      /\ UNCHANGED <<infoVars, cfg, initialized, routing, model, load, open>>
  BY DEF GenerateRouted
<1> HIDE DEF i
<1>2. /\ entries' \in Seq(Entry) /\ DOMAIN entries' = DOMAIN entries
      /\ \A j \in DOMAIN entries : entries'[j].id = entries[j].id
                                   /\ entries'[j].inst = entries[j].inst
  <2>1. ASSUME NEW ms \in Times, entries' = [entries EXCEPT ![i].lat = Recorded(@, ms)]
        PROVE  /\ entries' \in Seq(Entry) /\ DOMAIN entries' = DOMAIN entries
               /\ \A j \in DOMAIN entries : entries'[j].id = entries[j].id
                                           /\ entries'[j].inst = entries[j].inst
    <3>1. DOMAIN entries = 1 .. Len(entries) /\ Len(entries) \in Nat
          /\ DOMAIN entries' = DOMAIN entries
      BY <2>1 DEF MInv, Types
    <3>2. ASSUME NEW j \in DOMAIN entries
          PROVE  entries'[j] \in Entry /\ entries'[j].id = entries[j].id
                 /\ entries'[j].inst = entries[j].inst
      <4>1. entries[j] \in Entry
        BY EntryFields DEF MInv
      <4>2. Recorded(entries[j].lat, ms) \in Seq(Times)
        BY <4>1, RecordedType DEF Entry
      <4> QED
        BY <2>1, <4>1, <4>2 DEF Entry
    <3>3. entries' = [j \in DOMAIN entries |-> entries'[j]]
      BY <2>1
    <3>4. entries' \in Seq(Entry)
      <4> DEFINE f(j) == entries'[j]
      <4> HIDE DEF f
      <4>1. [j \in 1 .. Len(entries) |-> f(j)] \in Seq(Entry)
        <5>1. \A j \in 1 .. Len(entries) : f(j) \in Entry
          BY <3>1, <3>2 DEF f
        <5> QED
          BY <3>1, <5>1
      <4> QED
        BY <3>1, <3>3, <4>1 DEF f
    <3> QED
      BY <3>1, <3>2, <3>4
  <2>2. CASE UNCHANGED entries
    BY <2>2 DEF MInv, Types
  <2> QED
    BY <1>1, <2>1, <2>2
<1>3. counter' \in -CounterMax - 1 .. CounterMax
  BY <1>1, CounterMaxAssumption DEF MInv, TypeOK, CounterAfter, Incremented
<1>4. ctx' \in [Objs -> 0 .. MaxPos] /\ pos' \in 0 .. MaxPos
  BY <1>1, FedTypes DEF MInv, TypeOK
<1>5. Found' = Found /\ UNCHANGED <<inst, model, cfg, load>>
  BY <1>1 DEF infoVars, Found
<1>6. TypeOK'
  BY <1>1, <1>2, <1>3, <1>4, <1>5 DEF MInv, TypeOK, infoVars
<1> QED
  BY <1>2, <1>5, <1>6, RoutesFrame DEF MInv

(* A token on the active backend, and the probe. *)
LEMMA ActiveStep ==
  ASSUME MInv, GenerateActive \/ HealthCheck
  PROVE  MInv'
<1>1. /\ UNCHANGED <<backends, inst, active, cfg, initialized, routerVars, model, load, open>>
  BY DEF GenerateActive, HealthCheck
<1>2. functional' \in [Ids -> BOOLEAN] /\ score' \in [Ids -> Nat]
  <2>1. CASE GenerateActive
    <3>1. PICK ms \in (Times \cup {score[ActiveId]}) \ {0} :
            score' = [score EXCEPT ![ActiveId] = ms]
      BY <2>1 DEF GenerateActive
    <3>2. ActiveId \in Ids
      BY DEF MInv, TypeOK, ActiveId
    <3>3. ms \in Nat
      BY <3>2, TimesAssumption DEF MInv, TypeOK
    <3> QED
      BY <2>1, <3>1, <3>3 DEF MInv, TypeOK, GenerateActive
  <2>2. CASE HealthCheck
    BY <2>2 DEF MInv, TypeOK, HealthCheck
  <2> QED
    BY <2>1, <2>2
<1>3. ctx' \in [Objs -> 0 .. MaxPos] /\ pos' \in 0 .. MaxPos
  <2>1. CASE GenerateActive
    BY <2>1, FedTypes DEF MInv, TypeOK, GenerateActive
  <2>2. CASE HealthCheck
    <3>1. 0 \in 0 .. MaxPos
      BY BoundsAssumption
    <3>2. pos' = pos /\ (ctx' = ctx \/ ctx' = [ctx EXCEPT ![inst[ActiveId]] = 0])
      BY <2>2 DEF HealthCheck
    <3> QED
      BY <3>1, <3>2, Zenon DEF MInv, TypeOK
  <2> QED
    BY <2>1, <2>2
<1>4. Found' = Found
  BY <1>1 DEF Found
<1>5. TypeOK'
  BY <1>1, <1>2, <1>3, <1>4 DEF MInv, TypeOK, routerVars
<1> QED
  BY <1>1, <1>4, <1>5, RoutesFrame DEF MInv, Types, routerVars

(* failover(): the backends it creates are the manager's only ones, as the *)
(* router is empty.                                                        *)
LEMMA FailoverStep ==
  ASSUME MInv, GenerateFailsOver
  PROVE  MInv'
<1>1. /\ InCall /\ entries = <<>> /\ initialized /\ load.at = "none"
      /\ UNCHANGED <<backends, score, cfg, initialized, routerVars, load, open>>
  BY DEF GenerateFailsOver, InCall, Idle
<1> DEFINE f == [functional EXCEPT ![ActiveId] = FALSE]
<1>2. PICK inits \in SUBSET {id \in Found \ {ActiveId} : inst[id] = None} : Failover(inits, f)
  BY DEF GenerateFailsOver
<1> DEFINE others == SubSeq(After(backends, active), 1, Len(backends) - 1)
           usable == {k \in DOMAIN others :
                        LET id == backends[others[k]]
                        IN  IF inst[id] = None THEN id \in inits \ Stubs ELSE f[id]}
           k0 == CHOOSE k \in usable : \A j \in usable : k <= j
           seen == IF usable = {} THEN DOMAIN others ELSE 1 .. k0
           made == {backends[others[k]] : k \in seen} \cap inits
           id0 == backends[others[k0]]
           caches == [EmptiedFor(made) EXCEPT ![WithNew(made)[id0]] = 0]
<1>3. /\ inst' = WithNew(made) /\ model' = LoadedInto(made)
      /\ IF usable = {}
           THEN /\ functional' = f
                /\ ctx' = EmptiedFor(made)
                /\ UNCHANGED <<active, pos>>
           ELSE /\ active' = others[k0]
                /\ \/ /\ functional' = [f EXCEPT ![id0] = TRUE]
                      /\ Fed(caches, inst'[id0])
                   \/ /\ functional' = [f EXCEPT ![id0] = FALSE]
                      /\ ctx' = caches
                      /\ UNCHANGED pos
  BY <1>2 DEF Failover
<1>4. made \subseteq Found /\ Found \subseteq Ids /\ Routed = {}
  BY <1>1, IdsAssumption DEF MInv, TypeOK, Routed
<1>5. f \in [Ids -> BOOLEAN]
  BY DEF MInv, TypeOK
<1>6. usable # {} => k0 \in DOMAIN others /\ others[k0] \in DOMAIN backends
  <2>1. Len(backends) \in Nat /\ DOMAIN backends = 1 .. Len(backends)
        /\ active \in 1 .. Len(backends)
    BY DEF MInv, TypeOK
  <2>2. /\ others = [k \in 1 .. Len(backends) - 1 |-> After(backends, active)[k]]
        /\ \A k \in 1 .. Len(backends) - 1 : After(backends, active)[k] \in DOMAIN backends
    <3>1. \A k \in 1 .. Len(backends) :
            ((active + k - 1) % Len(backends)) + 1 \in 1 .. Len(backends)
      BY <2>1
    <3>2. After(backends, active) \in [1 .. Len(backends) -> 1 .. Len(backends)]
      BY <2>1, <3>1 DEF After
    <3>3. After(backends, active) \in Seq(1 .. Len(backends))
          /\ Len(After(backends, active)) = Len(backends)
      BY <2>1, <3>2
    <3> HIDE DEF others
    <3>4. others = [k \in 1 .. Len(backends) - 1 |-> After(backends, active)[k]]
      <4> DEFINE q == After(backends, active)
      <4> HIDE DEF q
      <4>1. SubSeq(q, 1, Len(backends) - 1) = [k \in 1 .. Len(backends) - 1 |-> q[k]]
        BY <2>1, <3>3 DEF q
      <4> QED
        BY <4>1 DEF others, q
    <3> QED
      BY <2>1, <3>2, <3>4
  <2> HIDE DEF others
  <2>3. usable \in SUBSET Nat /\ usable \subseteq DOMAIN others
    BY <2>1, <2>2
  <2> HIDE DEF usable
  <2>4. usable # {} => k0 \in usable
    BY <2>3, LeastNumber
  <2> QED
    BY <2>1, <2>2, <2>3, <2>4
<1> HIDE DEF made, usable, others, f
<1>7. ASSUME NEW id \in made PROVE New(id) \in {id} \X {1, 2} /\ New(id) \in Objs
  BY <1>4, NewProperties DEF Objs
<1>8. /\ WithNew(made) \in [Ids -> Objs \cup {None}]
      /\ LoadedInto(made) \in [Objs -> Models \cup {None}]
      /\ EmptiedFor(made) \in [Objs -> 0 .. MaxPos]
      /\ caches \in [Objs -> 0 .. MaxPos]
  <2>1. 0 \in 0 .. MaxPos
    BY BoundsAssumption
  <2>2. WithNew(made) \in [Ids -> Objs \cup {None}]
    BY <1>7 DEF WithNew, MInv, TypeOK
  <2>3. LoadedInto(made) \in [Objs -> Models \cup {None}]
    BY DEF LoadedInto, MInv, TypeOK
  <2>4. EmptiedFor(made) \in [Objs -> 0 .. MaxPos]
    BY <2>1 DEF EmptiedFor, MInv, TypeOK
  <2> QED
    BY <2>1, <2>2, <2>3, <2>4, Zenon
<1> HIDE DEF caches
<1>9. ctx' \in [Objs -> 0 .. MaxPos] /\ pos' \in 0 .. MaxPos
  <2>1. pos \in 0 .. MaxPos /\ TypeOK
    BY DEF MInv, TypeOK
  <2>2. CASE usable = {}
    BY <1>3, <1>8, <2>1, <2>2
  <2>3. CASE usable # {} /\ Fed(caches, inst'[id0])
    BY <1>1, <1>8, <2>1, <2>3, FedTypes
  <2>4. CASE usable # {} /\ ctx' = caches /\ UNCHANGED pos
    BY <1>8, <2>1, <2>4
  <2> QED
    BY <1>3, <2>2, <2>3, <2>4
<1>10. functional' \in [Ids -> BOOLEAN] /\ active' \in DOMAIN backends
  <2>1. active \in DOMAIN backends
    BY DEF MInv, TypeOK
  <2> QED
    BY <1>3, <1>5, <1>6, <2>1
<1>11. Found' = Found /\ DOMAIN backends' = DOMAIN backends
       /\ UNCHANGED <<entries, load, cfg, routing, counter>>
  BY <1>1 DEF Found, routerVars
<1>12. TypeOK'
  BY <1>1, <1>3, <1>8, <1>9, <1>10, <1>11 DEF MInv, TypeOK
<1>13. Types'
  BY <1>11 DEF MInv, Types
<1>14. LoadAgrees'
  BY <1>1, <1>11 DEF MInv, LoadAgrees, ToTry
<1>15. OwnInstance'
  <2> SUFFICES ASSUME NEW id \in Ids, inst'[id] # None
               PROVE  id \in Found /\ inst'[id] \in {id} \X {1, 2}
    BY <1>11 DEF OwnInstance
  <2>1. CASE id \in made
    BY <1>3, <1>4, <1>7, <2>1 DEF WithNew
  <2>2. CASE id \notin made
    BY <1>3, <2>2 DEF WithNew, MInv, OwnInstance
  <2> QED
    BY <2>1, <2>2
<1>16. CopiesKnown' /\ OneEntryPerKind' /\ RoutesAreCurrent' /\ RoutesCanInfer'
  BY <1>1, <1>11 DEF CopiesKnown, OneEntryPerKind, RoutesAreCurrent, RoutesCanInfer
<1> QED
  BY <1>12, <1>13, <1>14, <1>15, <1>16 DEF MInv

(* The invariant is inductive. *)
LEMMA MInductive ==
  ASSUME MInv, [Next]_vars
  PROVE  MInv'
<1>1. CASE Load
  BY <1>1, BeginLoadStep, StartInitStep, FruitlessInitStep, InitSucceedsStep, EndOfLoadStep
     DEF Load, LoadStep
<1>2. CASE Select
  BY <1>2, SelectStep DEF Select
<1>3. CASE Infer
  BY <1>3, ResetStep, GenerateRoutedStep, ActiveStep, FailoverStep DEF Infer
<1>4. CASE UNCHANGED vars
  <2>1. UNCHANGED <<infoVars, cfg, initialized, routerVars, objVars, load, sessionVars>>
    BY <1>4 DEF vars
  <2>2. Found' = Found /\ TypeOK'
    BY <2>1 DEF MInv, TypeOK, Found, infoVars, routerVars, objVars, sessionVars
  <2> QED
    BY <2>1, <2>2, RoutesFrame DEF MInv, Types, infoVars, routerVars, objVars
<1> QED
  BY <1>1, <1>2, <1>3, <1>4 DEF Next

-----------------------------------------------------------------------------
(* The types hold, for every machine, score and route. *)
THEOREM BackendTypesCorrect == Spec => []TypeOK
<1>1. MInv => TypeOK
  BY DEF MInv
<1> QED
  BY <1>1, InitMInv, MInductive, PTL DEF Spec

(* After any sequence of loads, failures and failovers, the router hands   *)
(* tokens only to instances of the model loaded last that the manager      *)
(* itself holds: a load clears the router before it creates instances, and *)
(* an instance leaves the manager only while its id is still to be tried.  *)
THEOREM RoutesStayCurrent == Spec => []RoutesAreCurrent
<1>1. MInv => RoutesAreCurrent
  BY DEF MInv
<1> QED
  BY <1>1, InitMInv, MInductive, PTL DEF Spec

(* No backend whose can_infer() is false is ever in the router. *)
THEOREM RoutesStayAble == Spec => []RoutesCanInfer
<1>1. MInv => RoutesCanInfer
  BY DEF MInv
<1> QED
  BY <1>1, InitMInv, MInductive, PTL DEF Spec

(* Issue 1427, whatever the machine and the route: after a load one        *)
(* accelerator and one CPU backend at most hold a copy of the model.       *)
THEOREM OneCopyOfEachKind == Spec => []OneCopyPerKind
<1>1. ASSUME MInv PROVE OneCopyPerKind
  <2> SUFFICES ASSUME load.at = "none", entries # <<>>
               PROVE  /\ Cardinality({id \in Ids \ CpuIds : inst[id] # None}) <= 1
                      /\ Cardinality({id \in CpuIds : inst[id] # None}) <= 1
    BY DEF OneCopyPerKind, Idle
  <2>1. \A id \in Ids : inst[id] # None => \E i \in DOMAIN entries : entries[i].id = id
    BY <1>1 DEF MInv, LoadAgrees, CopiesKnown, ToTry, Routed
  <2>2. \A a, b \in Ids : inst[a] # None /\ inst[b] # None /\ (IsCpu(a) <=> IsCpu(b)) => a = b
    BY <1>1, <2>1 DEF MInv, OneEntryPerKind, IsCpu
  <2>3. ASSUME NEW S, \A a, b \in S : a = b
        PROVE  Cardinality(S) <= 1
    <3>1. CASE S = {}
      BY <3>1, FS_EmptySet
    <3>2. CASE S # {}
      <4>1. PICK a \in S : S = {a}
        BY <2>3, <3>2
      <4>2. Cardinality({a}) = 1
        BY FS_Singleton
      <4> QED
        BY <4>1, <4>2
    <3> QED
      BY <3>1, <3>2
  <2>4. \A a, b \in {id \in Ids \ CpuIds : inst[id] # None} : a = b
    BY <2>2 DEF IsCpu
  <2>5. \A a, b \in {id \in CpuIds : inst[id] # None} : a = b
    BY <2>2, IdsAssumption DEF IsCpu
  <2> QED
    BY <2>3, <2>4, <2>5
<1> QED
  BY <1>1, InitMInv, MInductive, PTL DEF Spec

-----------------------------------------------------------------------------
(* Where the router does not backfill, the first entry is the one every    *)
(* token goes to, until one of the entries is dead.                        *)
LEMMA FirstIsPicked ==
  ASSUME MInv, FirstServes, AllAlive, ~Backfills, entries # <<>>
  PROVE  Pick(entries, routing, counter) = 1
<1>1. DOMAIN entries = 1 .. Len(entries) /\ Len(entries) \in Nat \ {0}
  BY DEF MInv, Types
<1>2. CASE Len(entries) = 1
  BY <1>2 DEF Pick
<1>3. CASE Len(entries) # 1
  <2>1. routing = "FASTEST"
    BY <1>1, <1>3 DEF FirstServes, Backfills, Counts
  <2>2. FastestOf(entries) = 1
    <3> DEFINE alive == {i \in DOMAIN entries : entries[i].alive}
               measured == {i \in alive : entries[i].lat # <<>>}
               best == {i \in measured : \A j \in measured : ~Faster(entries[j], entries[i])}
               candidates == IF measured # {} THEN best ELSE alive
    <3>1. alive = 1 .. Len(entries)
      BY <1>1 DEF AllAlive
    <3>2. measured \subseteq {1}
      BY <3>1, <1>1 DEF FirstServes
    <3>3. \/ candidates = {} \/ candidates = {1} \/ candidates = 1 .. Len(entries)
      BY <3>1, <3>2
    <3>4. FastestOf(entries) = IF candidates = {} THEN 1
                               ELSE CHOOSE i \in candidates : \A j \in candidates : i <= j
      BY DEF FastestOf
    <3> HIDE DEF candidates
    <3>5. candidates # {} => 1 \in candidates /\ \A j \in candidates : j \in Nat /\ 1 <= j
      BY <1>1, <3>3
    <3> QED
      BY <3>4, <3>5
  <2> QED
    BY <1>3, <2>1, <2>2 DEF Pick
<1> QED
  BY <1>2, <1>3

(* A step that leaves the router and the session alone. *)
LEMMA SessionFrame ==
  ASSUME SInv, MInv', UNCHANGED <<entries, routing>>,
         open' => load'.at = "none",
         \/ ~open'
         \/ UNCHANGED <<open, pos>> /\ \A o \in RoutedTo : ctx'[o] = ctx[o]
  PROVE  SInv'
<1>1. FirstServes' /\ AllAlive' = AllAlive /\ Backfills' = Backfills
  BY DEF SInv, FirstServes, AllAlive, Backfills
<1>2. SessionInFirst'
  <2>1. entries # <<>> => entries[1].inst \in RoutedTo
    BY DEF SInv, MInv, Types, RoutedTo
  <2> QED
    BY <1>1, <2>1 DEF SInv, SessionInFirst
<1>3. LoadsAlone'
  BY DEF LoadsAlone
<1> QED
  BY <1>1, <1>2, <1>3 DEF SInv

(* A load begins with an empty router. *)
LEMMA BeginLoadSession ==
  ASSUME SInv, MInv', NEW m \in Models, NEW preferred \in PreferredLists,
         BeginLoad(m, preferred)
  PROVE  SInv'
<1>1. entries' = <<>> /\ routing' = routing /\ ~open'
  BY DEF BeginLoad
<1>2. FirstServes'
  BY <1>1 DEF SInv, FirstServes
<1> QED
  BY <1>1, <1>2 DEF SInv, SessionInFirst, LoadsAlone

(* The steps of a load that leave the router alone. *)
LEMMA LoadSession ==
  ASSUME SInv, MInv',
         StartInit \/ InitFails \/ InitLate \/ InitSkipped \/ InitOfStub
           \/ LateInitReturns \/ EndLoad
  PROVE  SInv'
<1>1. load.at # "none" /\ ~open /\ open' = open
  BY DEF SInv, LoadsAlone, StartInit, InitFails, InitLate, InitSkipped, InitOfStub,
     LateInitReturns, EndLoad, sessionVars
<1>2. UNCHANGED <<entries, routing>>
  BY DEF StartInit, InitFails, InitLate, InitSkipped, InitOfStub,
     LateInitReturns, EndLoad, routerVars
<1> QED
  BY <1>1, <1>2, SessionFrame

(* A backend enters the router behind the one that is in it, if any, and   *)
(* has not been measured.                                                  *)
LEMMA InitSucceedsSession ==
  ASSUME SInv, MInv', InitSucceeds
  PROVE  SInv'
<1> DEFINE e == [id |-> Loading, inst |-> inst[Loading], alive |-> TRUE, lat |-> <<>>]
           n == Len(entries)
<1>1. /\ load.at = "init" /\ ~open /\ open' = open
      /\ entries' = Append(entries, e) /\ routing' = RoutingOf(Loading)
  BY DEF SInv, LoadsAlone, InitSucceeds, sessionVars
<1>2. /\ n \in Nat /\ DOMAIN entries' = 1 .. n + 1 /\ entries'[n + 1] = e
  <2> HIDE DEF e
  <2>1. entries \in Seq(Entry)
    BY DEF SInv, MInv, Types
  <2> QED
    BY <1>1, <2>1
<1>3. \A i \in DOMAIN entries' : i = 1 \/ i = n + 1
  <2> SUFFICES ASSUME NEW i \in DOMAIN entries', i # 1, i # n + 1 PROVE FALSE
    OBVIOUS
  <2>1. 1 \in DOMAIN entries' /\ n + 1 \in DOMAIN entries' /\ n + 1 # 1
    BY <1>2
  <2> QED
    BY <2>1 DEF MInv, OneEntryPerKind
<1>4. FirstServes'
  <2>1. \A i \in DOMAIN entries' : i # 1 => entries'[i].lat = <<>>
    BY <1>2, <1>3
  <2> QED
    BY <1>1, <2>1 DEF FirstServes, RoutingOf
<1> QED
  BY <1>1, <1>4 DEF SInv, SessionInFirst, LoadsAlone

(* A reset that leaves every entry alive and opens a session has emptied   *)
(* the cache of the first one.                                             *)
LEMMA ResetSession ==
  ASSUME SInv, MInv', ResetRouted
  PROVE  SInv'
<1>1. PICK out \in [DOMAIN entries -> Outcomes \cup {"dead"}] :
        /\ \A i \in DOMAIN entries : out[i] = "dead" <=> ~entries[i].alive
        /\ entries' = [i \in DOMAIN entries |->
                         IF out[i] = "threw" THEN [entries[i] EXCEPT !.alive = FALSE] ELSE entries[i]]
        /\ ctx' = [o \in Objs |-> IF o \in UNION {ResetIn(out, i) : i \in DOMAIN entries}
                                  THEN 0 ELSE ctx[o]]
        /\ open' = \A i \in DOMAIN entries : out[i] # "false"
  BY DEF ResetRouted
<1>2. entries # <<>> /\ load.at = "none" /\ pos' = 0
      /\ UNCHANGED <<routing, load>>
  BY DEF ResetRouted, Idle
<1>3. DOMAIN entries = 1 .. Len(entries) /\ Len(entries) \in Nat \ {0}
      /\ DOMAIN entries' = DOMAIN entries /\ Len(entries') = Len(entries)
  BY <1>1, <1>2 DEF SInv, MInv, Types
<1>4. \A i \in DOMAIN entries :
        /\ entries'[i].id = entries[i].id /\ entries'[i].lat = entries[i].lat
        /\ entries'[i].inst = entries[i].inst
        /\ entries'[i].alive => entries[i].alive /\ out[i] \notin {"threw", "dead"}
  <2> SUFFICES ASSUME NEW i \in DOMAIN entries
               PROVE  /\ entries'[i].id = entries[i].id /\ entries'[i].lat = entries[i].lat
                      /\ entries'[i].inst = entries[i].inst
                      /\ entries'[i].alive => entries[i].alive /\ out[i] \notin {"threw", "dead"}
    OBVIOUS
  <2>1. entries[i] \in Entry
    BY EntryFields DEF SInv, MInv
  <2> QED
    BY <1>1, <2>1 DEF Entry
<1>5. FirstServes'
  <2>1. AllAlive' => AllAlive
    BY <1>3, <1>4 DEF AllAlive
  <2>2. Backfills' = Backfills
    BY <1>2, <1>3 DEF Backfills, Counts
  <2> QED
    BY <1>2, <1>3, <1>4, <2>1, <2>2 DEF SInv, FirstServes
<1>6. SessionInFirst'
  <2> SUFFICES ASSUME open', AllAlive' PROVE ctx'[entries[1].inst] = 0
    BY <1>2, <1>3, <1>4 DEF SessionInFirst
  <2>1. 1 \in DOMAIN entries /\ entries[1].inst \in Objs
    BY <1>3, EntryFields DEF SInv, MInv
  <2>2. out[1] = "ok"
    <3>1. out[1] # "false" /\ out[1] \notin {"threw", "dead"}
      BY <1>1, <1>3, <1>4, <2>1 DEF AllAlive
    <3> QED
      BY <1>1, <2>1, <3>1 DEF Outcomes
  <2>3. entries[1].inst \in ResetIn(out, 1)
    BY <2>2 DEF ResetIn
  <2> QED
    BY <1>1, <2>1, <2>3
<1>7. LoadsAlone'
  BY <1>2 DEF LoadsAlone
<1> QED
  BY <1>5, <1>6, <1>7 DEF SInv

(* A token of a session goes to the first entry, and its context grows     *)
(* with the session.                                                       *)
LEMMA GenerateSession ==
  ASSUME SInv, MInv', GenerateRouted
  PROVE  SInv'
<1> DEFINE i == Pick(entries, routing, counter)
           e == entries[i]
<1>1. /\ entries # <<>> /\ load.at = "none" /\ UNCHANGED <<routing, load, open>>
      /\ \/ \E ms \in Times :
              /\ entries' = [entries EXCEPT ![i].lat = Recorded(@, ms)]
              /\ Fed(ctx, e.inst)
         \/ UNCHANGED <<entries, ctx, pos>>
  BY DEF GenerateRouted, InCall, Idle
<1>2. AllAlive /\ ~Backfills => i = 1
  BY <1>1, FirstIsPicked DEF SInv
<1> HIDE DEF i
<1>3. CASE UNCHANGED <<entries, ctx, pos>>
  BY <1>1, <1>3, SessionFrame
<1>4. CASE \E ms \in Times : /\ entries' = [entries EXCEPT ![i].lat = Recorded(@, ms)]
                             /\ Fed(ctx, e.inst)
  <2>1. PICK ms \in Times : /\ entries' = [entries EXCEPT ![i].lat = Recorded(@, ms)]
                            /\ Fed(ctx, e.inst)
    BY <1>4
  <2>2. DOMAIN entries = 1 .. Len(entries) /\ Len(entries) \in Nat \ {0}
        /\ DOMAIN entries' = DOMAIN entries /\ Len(entries') = Len(entries)
    BY <1>1, <2>1 DEF SInv, MInv, Types
  <2>3. \A j \in DOMAIN entries :
          /\ entries'[j].id = entries[j].id /\ entries'[j].inst = entries[j].inst
          /\ entries'[j].alive = entries[j].alive
          /\ j # i => entries'[j].lat = entries[j].lat
    <3> SUFFICES ASSUME NEW j \in DOMAIN entries
                 PROVE  /\ entries'[j].id = entries[j].id /\ entries'[j].inst = entries[j].inst
                        /\ entries'[j].alive = entries[j].alive
                        /\ j # i => entries'[j].lat = entries[j].lat
      OBVIOUS
    <3>1. entries[j] \in Entry
      BY EntryFields DEF SInv, MInv
    <3> QED
      BY <2>1, <3>1 DEF Entry
  <2>4. (AllAlive' <=> AllAlive) /\ Backfills' = Backfills
    BY <1>1, <2>2, <2>3 DEF AllAlive, Backfills, Counts
  <2>5. FirstServes'
    BY <1>1, <1>2, <2>2, <2>3, <2>4 DEF SInv, FirstServes
  <2>6. SessionInFirst'
    <3> SUFFICES ASSUME open, AllAlive, ~Backfills PROVE ctx'[entries[1].inst] = pos'
      BY <1>1, <2>2, <2>3, <2>4 DEF SessionInFirst
    <3>1. ctx[entries[1].inst] = pos /\ i = 1
      BY <1>1, <1>2 DEF SInv, SessionInFirst
    <3>2. entries[1].inst \in Objs
      BY <2>2, EntryFields DEF SInv, MInv
    <3> QED
      BY <2>1, <3>1, <3>2 DEF Fed, SInv, MInv, TypeOK
  <2> QED
    BY <1>1, <2>5, <2>6 DEF SInv, LoadsAlone
<1> QED
  BY <1>1, <1>3, <1>4

(* The steps between loads that move no routed cache of a session. *)
LEMMA OtherSession ==
  ASSUME SInv, MInv',
         \/ Select \/ ResetActive \/ EndSession \/ GenerateActive \/ GenerateFailsOver
         \/ HealthCheck \/ UNCHANGED vars
  PROVE  SInv'
<1>1. UNCHANGED <<entries, routing, load>>
  BY DEF Select, SetStrategy, SelectBackend, ResetActive, EndSession, GenerateActive,
     GenerateFailsOver, HealthCheck, vars, routerVars
<1>2. open' => load'.at = "none"
  BY <1>1 DEF SInv, LoadsAlone, Select, SetStrategy, SelectBackend, ResetActive, EndSession,
     GenerateActive, GenerateFailsOver, HealthCheck, InCall, Idle, vars, sessionVars
<1>3. CASE entries = <<>>
  <2>1. FirstServes'
    BY <1>1, <1>3 DEF SInv, FirstServes
  <2>2. SessionInFirst' /\ LoadsAlone'
    BY <1>1, <1>2, <1>3 DEF SessionInFirst, LoadsAlone
  <2> QED
    BY <2>1, <2>2 DEF SInv
<1>4. CASE entries # <<>>
  <2>1. \/ ~open'
        \/ UNCHANGED <<open, pos>> /\ \A o \in RoutedTo : ctx'[o] = ctx[o]
    BY <1>4 DEF Select, SetStrategy, SelectBackend, ResetActive, EndSession,
       GenerateActive, GenerateFailsOver, HealthCheck, vars, sessionVars, objVars
  <2> QED
    BY <1>1, <1>2, <2>1, SessionFrame
<1> QED
  BY <1>3, <1>4

(* The invariant of sessions is inductive. *)
LEMMA SInductive ==
  ASSUME SInv, [Next]_vars
  PROVE  SInv'
<1>1. MInv'
  BY MInductive DEF SInv
<1>2. CASE Load
  BY <1>1, <1>2, BeginLoadSession, LoadSession, InitSucceedsSession DEF Load, LoadStep
<1>3. CASE Infer
  BY <1>1, <1>3, ResetSession, GenerateSession, OtherSession DEF Infer
<1> QED
  BY <1>1, <1>2, <1>3, OtherSession DEF Next

(* In a session that a reset opened, as long as no reset threw and the     *)
(* router does not backfill two entries, the instance a token is routed to *)
(* has seen exactly the tokens of the session before it.  For every        *)
(* machine and route, any loads, strategies, stray tokens and failovers:   *)
(* two entries may be in the router, but only the first one is measured,   *)
(* so it stays the fastest.                                                *)
THEOREM TokensMeetTheirContext == Spec => RoutedTokenHasContext
<1> DEFINE Kept == open /\ pos' > pos /\ entries # <<>> /\ AllAlive /\ ~Backfills
                     => \A o \in RoutedTo : ctx'[o] > ctx[o] => ctx[o] = pos
<1>1. Init => SInv
  BY InitMInv DEF Init, SInv, NoLoad, FirstServes, SessionInFirst, LoadsAlone
<1>2. SInv /\ [Next]_vars => SInv'
  BY SInductive
<1>3. SInv /\ [Next]_vars => [Kept]_vars
  <2> SUFFICES ASSUME SInv, Next, open, pos' > pos, entries # <<>>, AllAlive, ~Backfills,
                      NEW o \in RoutedTo, ctx'[o] > ctx[o]
               PROVE  ctx[o] = pos
    OBVIOUS
  <2>1. pos \in Nat /\ ctx \in [Objs -> 0 .. MaxPos] /\ o \in Objs
    BY BoundsAssumption, EntryFields DEF SInv, MInv, TypeOK, RoutedTo
  <2>2. GenerateRouted
    <3>1. Load => pos' = pos
      BY DEF Load, LoadStep, BeginLoad, StartInit, InitFails, InitLate, LateInitReturns,
         InitSkipped, InitOfStub, InitSucceeds, EndLoad, sessionVars
    <3>2. Select => pos' = pos
      BY DEF Select, SetStrategy, SelectBackend
    <3>3. ResetRouted \/ ResetActive \/ EndSession \/ HealthCheck => pos' = pos \/ pos' = 0
      BY DEF ResetRouted, ResetActive, EndSession, HealthCheck
    <3>4. ~GenerateActive /\ ~GenerateFailsOver
      BY DEF GenerateActive, GenerateFailsOver
    <3>5. pos' # pos /\ pos' # 0
      BY <2>1
    <3> QED
      BY <3>1, <3>2, <3>3, <3>4, <3>5 DEF Next, Infer
  <2>3. Pick(entries, routing, counter) = 1
    BY FirstIsPicked DEF SInv
  <2>4. Fed(ctx, entries[1].inst)
    BY <2>1, <2>2, <2>3 DEF GenerateRouted
  <2>5. o = entries[1].inst
    BY <2>1, <2>4 DEF Fed
  <2> QED
    BY <2>5 DEF SInv, SessionInFirst
<1>4. Kept <=> (open /\ pos' > pos /\ entries # <<>> /\ (\A i \in DOMAIN entries : entries[i].alive)
                  /\ ~Backfills => \A o \in RoutedTo : ctx'[o] > ctx[o] => ctx[o] = pos)
  BY DEF AllAlive
<1> HIDE DEF Kept
<1> QED
  BY <1>1, <1>2, <1>3, <1>4, PTL DEF Spec, RoutedTokenHasContext

=============================================================================
