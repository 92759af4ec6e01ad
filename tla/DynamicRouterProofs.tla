------------------------- MODULE DynamicRouterProofs -------------------------
(***************************************************************************)
(* For any number of threads, ids, instances and mutexes: the types of the *)
(* router, that no two threads are inside one instance, and that a sample  *)
(* stays with its id.  What makes it work is not the picked entry, which   *)
(* may be gone, but the pair of instance and gate that was copied from it: *)
(* one instance is only ever seen with one gate.  At the end: how the      *)
(* router can come to a stand, which is in one way only.                   *)
(***************************************************************************)
EXTENDS DynamicRouter, DataLemmas, SequenceTheorems

\* The threads that have an instance and its gate in their local variables.
Using == {t \in Threads : pc[t] \in {"lock", "compute", "record", "resetting"}}

GatesKnown == \A t \in Using : loc[t].gate \in Gates

\* A thread inside an instance, or recording its sample, holds the gate it copied.
HoldersHold == \A t \in Threads : pc[t] \in Holding => held[loc[t].gate] = t

\* An instance has one gate, wherever the two are stored together.
OneGate ==
  /\ \A i, j \in DOMAIN entries :
       entries[i].inst = entries[j].inst => entries[i].gate = entries[j].gate
  /\ \A t \in Using, i \in DOMAIN entries :
       loc[t].inst = entries[i].inst => loc[t].gate = entries[i].gate
  /\ \A t, u \in Using : loc[t].inst = loc[u].inst => loc[t].gate = loc[u].gate

IInv == TypeOK /\ GatesKnown /\ HoldersHold /\ OneGate /\ SamplesOfOwnId

-----------------------------------------------------------------------------
(* The operators on sequences. *)

\* The window after a sample: of the right length, the sample among old samples.
LEMMA RecordedProperties ==
  ASSUME NEW S, NEW lat \in Seq(S), NEW x \in S
  PROVE  /\ Recorded(lat, x) \in Seq(S)
         /\ Len(lat) <= Window => Len(Recorded(lat, x)) <= Window
         /\ \A k \in DOMAIN Recorded(lat, x) :
              Recorded(lat, x)[k] = x \/ \E j \in DOMAIN lat : Recorded(lat, x)[k] = lat[j]
<1> DEFINE longer == Append(lat, x)
<1>1. /\ longer \in Seq(S) /\ Len(longer) = Len(lat) + 1 /\ longer # <<>>
      /\ \A k \in 1 .. Len(lat) + 1 : longer[k] = IF k = Len(lat) + 1 THEN x ELSE lat[k]
  BY AppendProperties
<1>2. /\ Tail(longer) \in Seq(S)
      /\ Len(Tail(longer)) = Len(lat)
      /\ \A k \in 1 .. Len(lat) : Tail(longer)[k] = longer[k + 1]
  BY <1>1, HeadTailProperties
<1>3. CASE Len(longer) > Window
  <2>1. Recorded(lat, x) = Tail(longer)
    BY <1>3 DEF Recorded
  <2>2. ASSUME NEW k \in 1 .. Len(lat)
        PROVE  Tail(longer)[k] = x \/ \E j \in DOMAIN lat : Tail(longer)[k] = lat[j]
    BY <1>1, <1>2
  <2> QED
    BY <1>2, <2>1, <2>2
<1>4. CASE ~(Len(longer) > Window)
  <2>1. Recorded(lat, x) = longer
    BY <1>4 DEF Recorded
  <2> QED
    BY <1>1, <1>4, <2>1, WindowAssumption
<1> QED
  BY <1>3, <1>4

\* Removing a place of a sequence: the rest keeps its order and its elements.
LEMMA RemoveAtProperties ==
  ASSUME NEW S, NEW s \in Seq(S), NEW i \in DOMAIN s
  PROVE  /\ RemoveAt(s, i) \in Seq(S)
         /\ Len(RemoveAt(s, i)) = Len(s) - 1
         /\ \A k \in 1 .. Len(s) - 1 : RemoveAt(s, i)[k] = s[IF k < i THEN k ELSE k + 1]
<1> DEFINE a == SubSeq(s, 1, i - 1)
           b == SubSeq(s, i + 1, Len(s))
<1>1. i \in 1 .. Len(s) /\ Len(s) \in Nat
  OBVIOUS
<1>2. a \in Seq(S) /\ Len(a) = i - 1 /\ \A k \in 1 .. i - 1 : a[k] = s[k]
  BY <1>1, SubSeqProperties
<1>3. b \in Seq(S) /\ Len(b) = Len(s) - i /\ \A k \in 1 .. Len(s) - i : b[k] = s[i + k]
  <2>1. i + 1 \in Int /\ Len(s) \in Int /\ \A k \in i + 1 .. Len(s) : s[k] \in S
    BY <1>1, ElementOfSeq
  <2>2. /\ b \in Seq(S) /\ Len(b) = IF i + 1 <= Len(s) THEN Len(s) - (i + 1) + 1 ELSE 0
        /\ \A k \in 1 .. Len(s) - (i + 1) + 1 : b[k] = s[i + 1 + k - 1]
    BY <2>1, SubSeqProperties
  <2> QED
    BY <1>1, <2>2
<1>4. RemoveAt(s, i) = a \o b
  BY DEF RemoveAt
<1> HIDE DEF a, b
<1>5. /\ a \o b \in Seq(S) /\ Len(a \o b) = Len(a) + Len(b)
      /\ \A k \in 1 .. Len(a) + Len(b) : (a \o b)[k] = IF k <= Len(a) THEN a[k] ELSE b[k - Len(a)]
  BY <1>2, <1>3, ConcatProperties
<1>6. Len(a) + Len(b) = Len(s) - 1
  BY <1>1, <1>2, <1>3
<1>7. ASSUME NEW k \in 1 .. Len(s) - 1
      PROVE  (a \o b)[k] = s[IF k < i THEN k ELSE k + 1]
  <2>1. CASE k < i
    BY <1>1, <1>2, <1>5, <1>6, <2>1
  <2>2. CASE ~(k < i)
    <3>1. k - (i - 1) \in 1 .. Len(s) - i /\ i + (k - (i - 1)) = k + 1
      BY <1>1, <2>2
    <3>2. (a \o b)[k] = b[k - (i - 1)]
      BY <1>1, <1>2, <1>5, <1>6, <2>2
    <3> QED
      BY <1>3, <2>2, <3>1, <3>2
  <2> QED
    BY <2>1, <2>2
<1> QED
  BY <1>4, <1>5, <1>6, <1>7

\* The counter stays an int.
LEMMA CounterType ==
  ASSUME NEW e, NEW s, NEW c \in -CounterMax - 1 .. CounterMax
  PROVE  CounterAfter(e, s, c) \in -CounterMax - 1 .. CounterMax
BY CounterMaxAssumption DEF CounterAfter, Incremented

\* The trimmed window is a sequence over the same set.
LEMMA LastFiveType == ASSUME NEW S, NEW s \in Seq(S) PROVE LastFive(s) \in Seq(S)
BY DEF LastFive

-----------------------------------------------------------------------------
(* The initial state, and what the invariant says of one entry. *)
LEMMA InitIInv == Init => IInv
<1> SUFFICES ASSUME Init PROVE IInv
  OBVIOUS
<1>1. entries = <<>> /\ DOMAIN entries = {} /\ Using = {}
  BY DEF Init, Using
<1>2. TypeOK
  <2>1. NoLocals \in Locals
    BY DEF NoLocals, Locals
  <2>2. <<>> \in Seq(Entries) /\ <<>> \in Seq(Ids)
    OBVIOUS
  <2>3. counter \in -CounterMax - 1 .. CounterMax
    BY CounterMaxAssumption DEF Init
  <2> QED
    BY <1>1, <2>1, <2>2, <2>3 DEF Init, TypeOK, Strategies
<1>3. HoldersHold
  BY DEF Init, HoldersHold, Holding, Computing
<1> QED
  BY <1>1, <1>2, <1>3 DEF IInv, GatesKnown, OneGate, SamplesOfOwnId

\* The fields of an entry of a well-typed list.
LEMMA EntryFacts ==
  ASSUME TypeOK, NEW i \in DOMAIN entries
  PROVE  /\ i \in 1 .. Len(entries) /\ entries[i] \in Entries
         /\ entries[i].id \in Ids /\ entries[i].inst \in Insts /\ entries[i].gate \in Gates
         /\ entries[i].lat \in Seq(Times) /\ entries[i].from \in Seq(Ids)
         /\ Len(entries[i].lat) <= Window
<1>1. entries \in Seq(Entries) /\ Len(entries[i].lat) <= Window
  BY DEF TypeOK
<1>2. i \in 1 .. Len(entries)
  BY <1>1
<1>3. entries[i] \in Entries
  BY <1>1, <1>2, ElementOfSeq
<1> QED
  BY <1>1, <1>2, <1>3 DEF Entries

(***************************************************************************)
(* The operations on the list.  An instance that is added is in no other   *)
(* entry and in no thread's hands, so that OneGate says nothing about it;   *)
(* every other pair of instance and gate was there before.                  *)
(***************************************************************************)
LEMMA ConfiguredStep ==
  ASSUME IInv, Configured, strategy' \in Strategies,
         entries' \in Seq(Entries),
         \A i, j \in DOMAIN entries' : entries'[i].id = entries'[j].id => i = j,
         \A i \in DOMAIN entries' : Len(entries'[i].lat) <= Window,
         \A i, j \in DOMAIN entries' :
           entries'[i].inst = entries'[j].inst => entries'[i].gate = entries'[j].gate,
         \A t \in Using, i \in DOMAIN entries' :
           loc[t].inst = entries'[i].inst => loc[t].gate = entries'[i].gate,
         \A i \in DOMAIN entries' : \A k \in DOMAIN entries'[i].from :
           entries'[i].from[k] = entries'[i].id
  PROVE  IInv'
<1>1. UNCHANGED <<counter, mtx, held, pc, loc>> /\ picks' = <<>>
  BY DEF Configured
<1>2. TypeOK'
  BY <1>1 DEF IInv, TypeOK
<1>3. Using' = Using
  BY <1>1 DEF Using
<1>4. GatesKnown' /\ HoldersHold'
  BY <1>1, <1>3 DEF IInv, GatesKnown, HoldersHold
<1>5. OneGate'
  BY <1>1, <1>3 DEF IInv, OneGate
<1>6. SamplesOfOwnId'
  BY DEF SamplesOfOwnId
<1> QED
  BY <1>2, <1>4, <1>5, <1>6 DEF IInv

\* add_backend() of a new id appends an entry with a new gate.
LEMMA AddNewStep ==
  ASSUME IInv, NEW id \in Ids, NEW inst \in Insts, NEW g \in Gates, NEW s \in UsedStrategies,
         AddNew(id, inst, g, s)
  PROVE  IInv'
<1> DEFINE e == [id |-> id, inst |-> inst, gate |-> g, alive |-> TRUE, lat |-> <<>>, from |-> <<>>]
           n == Len(entries)
<1>1. /\ Configured /\ entries' = Append(entries, e) /\ strategy' = s
      /\ \A i \in DOMAIN entries : entries[i].inst # inst /\ entries[i].id # id
      /\ \A t \in Using : loc[t].inst # inst
  BY DEF AddNew, Fresh, Busy, Using
<1>2. e \in Entries /\ e.id = id /\ e.inst = inst /\ e.lat = <<>> /\ e.from = <<>>
  BY DEF Entries
<1>3. entries \in Seq(Entries) /\ n \in Nat /\ DOMAIN entries = 1 .. n
  BY DEF IInv, TypeOK
<1> HIDE DEF e
<1>4. /\ entries' \in Seq(Entries) /\ DOMAIN entries' = 1 .. n + 1
      /\ \A i \in 1 .. n : entries'[i] = entries[i]
      /\ entries'[n + 1] = e
  BY <1>1, <1>2, <1>3, AppendProperties
<1>5. \A i \in 1 .. n + 1 : i \in 1 .. n \/ i = n + 1
  BY <1>3
<1>6. strategy' \in Strategies
  BY <1>1, UsedStrategiesAssumption
<1>7. \A i, j \in DOMAIN entries' : entries'[i].id = entries'[j].id => i = j
  BY <1>1, <1>2, <1>3, <1>4, <1>5 DEF IInv, TypeOK
<1>8. \A i \in DOMAIN entries' : Len(entries'[i].lat) <= Window
  BY <1>2, <1>3, <1>4, <1>5, WindowAssumption DEF IInv, TypeOK
<1>9. \A i, j \in DOMAIN entries' :
        entries'[i].inst = entries'[j].inst => entries'[i].gate = entries'[j].gate
  BY <1>1, <1>2, <1>3, <1>4, <1>5 DEF IInv, OneGate
<1>10. \A t \in Using, i \in DOMAIN entries' :
         loc[t].inst = entries'[i].inst => loc[t].gate = entries'[i].gate
  BY <1>1, <1>2, <1>3, <1>4, <1>5 DEF IInv, OneGate
<1>11. \A i \in DOMAIN entries' : \A k \in DOMAIN entries'[i].from :
         entries'[i].from[k] = entries'[i].id
  BY <1>2, <1>3, <1>4, <1>5 DEF IInv, SamplesOfOwnId
<1> QED
  BY <1>1, <1>4, <1>6, <1>7, <1>8, <1>9, <1>10, <1>11, ConfiguredStep

\* add_backend() of a known id: the entry's gate comes to guard a new instance that nobody uses.
LEMMA ReplaceStep ==
  ASSUME IInv, NEW i0 \in DOMAIN entries, NEW inst \in Insts, Replace(i0, inst)
  PROVE  IInv'
<1>1. /\ Configured /\ UNCHANGED strategy
      /\ entries' = [entries EXCEPT ![i0].inst = inst, ![i0].alive = TRUE]
      /\ \A i \in DOMAIN entries : entries[i].inst # inst
      /\ \A t \in Using : loc[t].inst # inst
  BY DEF Replace, Fresh, Busy, Using
<1>2. TypeOK /\ entries \in Seq(Entries) /\ DOMAIN entries = 1 .. Len(entries)
  BY DEF IInv, TypeOK
<1> DEFINE e == [entries[i0] EXCEPT !.inst = inst, !.alive = TRUE]
<1>3. /\ e \in Entries /\ e.inst = inst /\ e.id = entries[i0].id
      /\ e.lat = entries[i0].lat /\ e.from = entries[i0].from
  BY <1>2, EntryFacts DEF Entries
<1>4. entries' = [entries EXCEPT ![i0] = e]
  BY <1>1, <1>2
<1> HIDE DEF e
<1>5. /\ entries' \in Seq(Entries) /\ DOMAIN entries' = DOMAIN entries
      /\ \A i \in DOMAIN entries : entries'[i] = IF i = i0 THEN e ELSE entries[i]
  BY <1>2, <1>3, <1>4, ExceptSeq
<1>6. strategy' \in Strategies
  BY <1>1 DEF IInv, TypeOK
<1>7. \A i \in DOMAIN entries : /\ entries'[i].id = entries[i].id /\ entries'[i].lat = entries[i].lat
                                /\ entries'[i].from = entries[i].from
  BY <1>3, <1>5
<1>8. \A i, j \in DOMAIN entries' :
        entries'[i].inst = entries'[j].inst => entries'[i].gate = entries'[j].gate
  BY <1>1, <1>3, <1>5 DEF IInv, OneGate
<1>9. \A t \in Using, i \in DOMAIN entries' :
        loc[t].inst = entries'[i].inst => loc[t].gate = entries'[i].gate
  BY <1>1, <1>3, <1>5 DEF IInv, OneGate
<1>10. /\ \A i, j \in DOMAIN entries' : entries'[i].id = entries'[j].id => i = j
       /\ \A i \in DOMAIN entries' : Len(entries'[i].lat) <= Window
  BY <1>5, <1>7 DEF IInv, TypeOK
<1>11. \A i \in DOMAIN entries' : \A k \in DOMAIN entries'[i].from :
         entries'[i].from[k] = entries'[i].id
  BY <1>5, <1>7 DEF IInv, SamplesOfOwnId
<1> QED
  BY <1>1, <1>5, <1>6, <1>8, <1>9, <1>10, <1>11, ConfiguredStep

\* remove_backend() takes an entry out; threads inside it keep its gate.
LEMMA RemoveStep ==
  ASSUME IInv, NEW i0 \in DOMAIN entries, RemoveBackend(i0)
  PROVE  IInv'
<1> DEFINE n == Len(entries)
           old == [i \in 1 .. n - 1 |-> IF i < i0 THEN i ELSE i + 1]
<1>1. /\ Configured /\ UNCHANGED strategy /\ entries' = RemoveAt(entries, i0)
  BY DEF RemoveBackend
<1>2. entries \in Seq(Entries) /\ DOMAIN entries = 1 .. n /\ n \in Nat /\ i0 \in 1 .. n
  BY DEF IInv, TypeOK
<1>3. /\ entries' \in Seq(Entries) /\ Len(entries') = n - 1
      /\ \A i \in 1 .. n - 1 : entries'[i] = entries[IF i < i0 THEN i ELSE i + 1]
  BY <1>1, <1>2, RemoveAtProperties
<1>4. DOMAIN entries' = 1 .. n - 1
  BY <1>3
<1>5. ASSUME NEW i \in DOMAIN entries'
      PROVE  old[i] \in DOMAIN entries /\ entries'[i] = entries[old[i]]
  BY <1>2, <1>3, <1>4
<1>6. ASSUME NEW i \in DOMAIN entries', NEW j \in DOMAIN entries', old[i] = old[j]
      PROVE  i = j
  BY <1>2, <1>4, <1>6
<1>7. strategy' \in Strategies
  BY <1>1 DEF IInv, TypeOK
<1> HIDE DEF old
<1>8. ASSUME NEW i \in DOMAIN entries', NEW j \in DOMAIN entries', entries'[i].id = entries'[j].id
      PROVE  i = j
  <2>1. old[i] = old[j]
    BY <1>5, <1>8 DEF IInv, TypeOK
  <2> QED
    BY <1>6, <2>1
<1>9. \A i \in DOMAIN entries' : Len(entries'[i].lat) <= Window
  BY <1>5 DEF IInv, TypeOK
<1>10. ASSUME NEW i \in DOMAIN entries', NEW j \in DOMAIN entries', entries'[i].inst = entries'[j].inst
       PROVE  entries'[i].gate = entries'[j].gate
  BY <1>5, <1>10 DEF IInv, OneGate
<1>11. ASSUME NEW t \in Using, NEW i \in DOMAIN entries', loc[t].inst = entries'[i].inst
       PROVE  loc[t].gate = entries'[i].gate
  BY <1>5, <1>11 DEF IInv, OneGate
<1>12. \A i \in DOMAIN entries' : \A k \in DOMAIN entries'[i].from :
         entries'[i].from[k] = entries'[i].id
  BY <1>5 DEF IInv, SamplesOfOwnId
<1> QED
  BY <1>1, <1>3, <1>7, <1>8, <1>9, <1>10, <1>11, <1>12, ConfiguredStep

\* All operations on the list preserve the invariant.
LEMMA ConfigureStep == ASSUME IInv, Configure PROVE IInv'
<1>1. CASE Clear
  <2>1. Configured /\ entries' = <<>> /\ strategy' \in Strategies
    BY <1>1 DEF Clear, IInv, TypeOK
  <2> QED
    BY <2>1, ConfiguredStep
<1>2. ASSUME NEW s \in UsedStrategies, SetStrategy(s) PROVE IInv'
  <2>1. Configured /\ UNCHANGED entries /\ strategy' \in Strategies
    BY <1>2, UsedStrategiesAssumption DEF SetStrategy
  <2> QED
    BY <2>1, ConfiguredStep DEF IInv, TypeOK, OneGate, SamplesOfOwnId
<1> QED
  BY <1>1, <1>2, AddNewStep, ReplaceStep, RemoveStep DEF Configure

(***************************************************************************)
(* The steps of a thread.  None of them changes an entry's id, instance or *)
(* gate; the instance and the gate in a thread's local variables are those *)
(* it had or those of an entry; and a gate is taken when it is free and    *)
(* given back by its holder, so that the others keep theirs.                *)
(***************************************************************************)
Places == {"idle", "lock", "compute", "record", "next", "resetting"}
UsingPlaces == {"lock", "compute", "record", "resetting"}

EntriesKept ==
  /\ entries' \in Seq(Entries) /\ DOMAIN entries' = DOMAIN entries
  /\ \A i \in DOMAIN entries :
       /\ entries'[i].id = entries[i].id
       /\ entries'[i].inst = entries[i].inst /\ entries'[i].gate = entries[i].gate
       /\ Len(entries'[i].lat) <= Window
       /\ \A k \in DOMAIN entries'[i].from : entries'[i].from[k] = entries[i].id

GatesKept(t) ==
  /\ held' \in [Gates -> Threads \cup {Free}]
  /\ \A u \in Threads : u # t /\ pc[u] \in Holding => held'[loc[u].gate] = u

RestTyped ==
  /\ strategy' = strategy /\ counter' \in -CounterMax - 1 .. CounterMax
  /\ mtx' \in Threads \cup {Free} /\ picks' \in Seq(Ids)

CopiedPair(t, l) ==
  \/ pc[t] \in UsingPlaces /\ l.inst = loc[t].inst /\ l.gate = loc[t].gate
  \/ \E i \in DOMAIN entries : l.inst = entries[i].inst /\ l.gate = entries[i].gate

\* What the steps of threads have in common: the entries keep their instances and gates.
LEMMA ThreadMoves ==
  ASSUME IInv, NEW t \in Threads, NEW q \in Places, NEW l \in Locals,
         pc' = [pc EXCEPT ![t] = q], loc' = [loc EXCEPT ![t] = l],
         RestTyped, EntriesKept, GatesKept(t),
         q \in UsingPlaces => CopiedPair(t, l),
         q \in Holding => held'[l.gate] = t
  PROVE  IInv'
<1> USE DEF RestTyped, EntriesKept, GatesKept, CopiedPair
<1>1. TypeOK /\ Using = {u \in Threads : pc[u] \in UsingPlaces}
  BY DEF IInv, Using, UsingPlaces
<1>2. /\ pc' \in [Threads -> Places] /\ pc'[t] = q /\ \A u \in Threads : u # t => pc'[u] = pc[u]
      /\ loc' \in [Threads -> Locals] /\ loc'[t] = l /\ \A u \in Threads : u # t => loc'[u] = loc[u]
  BY <1>1 DEF TypeOK, Places
<1>3. TypeOK'
  <2>1. \A i, j \in DOMAIN entries' : entries'[i].id = entries'[j].id => i = j
    BY <1>1 DEF TypeOK
  <2> QED
    BY <1>1, <1>2, <2>1 DEF TypeOK, Places
<1>4. Using' = {u \in Threads : pc'[u] \in UsingPlaces}
  BY DEF Using, UsingPlaces
<1>5. \A u \in Using' : u = t \/ (u \in Using /\ loc'[u] = loc[u])
  BY <1>1, <1>2, <1>4
<1>6. t \in Using' => \/ t \in Using /\ l.inst = loc[t].inst /\ l.gate = loc[t].gate
                      \/ \E i \in DOMAIN entries : l.inst = entries[i].inst /\ l.gate = entries[i].gate
  BY <1>1, <1>2, <1>4
<1>7. GatesKnown'
  <2>1. \A i \in DOMAIN entries : entries[i].gate \in Gates
    BY <1>1, EntryFacts
  <2> QED
    BY <1>2, <1>5, <1>6, <2>1 DEF IInv, GatesKnown
<1>8. HoldersHold'
  BY <1>2 DEF HoldersHold
<1>9. OneGate'
  <2>1. \A i, j \in DOMAIN entries' : entries'[i].inst = entries'[j].inst => entries'[i].gate = entries'[j].gate
    BY DEF IInv, OneGate
  <2>2. ASSUME NEW u \in Using', NEW i \in DOMAIN entries', loc'[u].inst = entries'[i].inst
        PROVE  loc'[u].gate = entries'[i].gate
    BY <1>2, <1>5, <1>6, <2>2 DEF IInv, OneGate
  <2>3. ASSUME NEW u \in Using', NEW v \in Using', loc'[u].inst = loc'[v].inst
        PROVE  loc'[u].gate = loc'[v].gate
    <3>1. CASE u = t /\ v = t
      BY <3>1
    <3>2. CASE u # t /\ v = t
      BY <1>2, <1>5, <1>6, <2>3, <3>2 DEF IInv, OneGate
    <3>3. CASE u = t /\ v # t
      BY <1>2, <1>5, <1>6, <2>3, <3>3 DEF IInv, OneGate
    <3>4. CASE u # t /\ v # t
      BY <1>5, <2>3, <3>4 DEF IInv, OneGate
    <3> QED
      BY <3>1, <3>2, <3>3, <3>4
  <2> QED
    BY <2>1, <2>2, <2>3 DEF OneGate
<1>10. SamplesOfOwnId'
  BY DEF SamplesOfOwnId
<1> QED
  BY <1>3, <1>7, <1>8, <1>9, <1>10 DEF IInv

\* A thread that takes its free gate: it is the only holder of it.
LEMMA GateTaken ==
  ASSUME IInv, NEW t \in Threads, NEW g \in Gates, held[g] = Free, held' = [held EXCEPT ![g] = t]
  PROVE  GatesKept(t) /\ held'[g] = t
<1>1. held \in [Gates -> Threads \cup {Free}]
  BY DEF IInv, TypeOK
<1>2. ASSUME NEW u \in Threads, pc[u] \in Holding
      PROVE  held[loc[u].gate] = u /\ loc[u].gate \in Gates /\ loc[u].gate # g
  <2>1. u \in Using
    BY <1>2 DEF Holding, Computing, Using
  <2> QED
    BY <1>2, <2>1, FreeAssumption DEF IInv, HoldersHold, GatesKnown
<1> QED
  BY <1>1, <1>2 DEF GatesKept

\* A thread that gives its gate back leaves the others' gates alone.
LEMMA GateGivenBack ==
  ASSUME IInv, NEW t \in Threads, pc[t] \in Holding, held' = [held EXCEPT ![loc[t].gate] = Free]
  PROVE  GatesKept(t)
<1>1. held \in [Gates -> Threads \cup {Free}]
  BY DEF IInv, TypeOK
<1>2. ASSUME NEW u \in Threads, pc[u] \in Holding
      PROVE  held[loc[u].gate] = u /\ loc[u].gate \in Gates
  <2>1. u \in Using
    BY <1>2 DEF Holding, Computing, Using
  <2> QED
    BY <1>2, <2>1 DEF IInv, HoldersHold, GatesKnown
<1> QED
  BY <1>1, <1>2 DEF GatesKept

\* What ThreadMoves asks of steps that leave the entries, or the gates, alone.
LEMMA NothingMoved ==
  ASSUME IInv
  PROVE  /\ UNCHANGED entries => EntriesKept
         /\ \A t \in Threads : UNCHANGED held => GatesKept(t)
         /\ entries \in Seq(Entries) /\ mtx \in Threads \cup {Free}
         /\ counter \in -CounterMax - 1 .. CounterMax /\ picks \in Seq(Ids)
         /\ \A i \in DOMAIN entries :
              /\ Len(entries[i].lat) <= Window
              /\ \A k \in DOMAIN entries[i].from : entries[i].from[k] = entries[i].id
         /\ \A t \in Threads : /\ loc[t] \in Locals
                              /\ loc = [loc EXCEPT ![t] = loc[t]] /\ pc = [pc EXCEPT ![t] = pc[t]]
<1>1. /\ entries \in Seq(Entries) /\ mtx \in Threads \cup {Free}
      /\ counter \in -CounterMax - 1 .. CounterMax /\ picks \in Seq(Ids)
      /\ \A i \in DOMAIN entries :
           /\ Len(entries[i].lat) <= Window
           /\ \A k \in DOMAIN entries[i].from : entries[i].from[k] = entries[i].id
      /\ \A t \in Threads : /\ loc[t] \in Locals
                           /\ loc = [loc EXCEPT ![t] = loc[t]] /\ pc = [pc EXCEPT ![t] = pc[t]]
  BY DEF IInv, TypeOK, SamplesOfOwnId
<1>2. UNCHANGED entries => EntriesKept
  BY <1>1 DEF EntriesKept
<1>3. \A t \in Threads : UNCHANGED held => GatesKept(t)
  BY DEF IInv, TypeOK, HoldersHold, GatesKept
<1> QED
  BY <1>1, <1>2, <1>3

\* The pick copies instance and gate of one entry.
LEMMA BeginStep ==
  ASSUME IInv, NEW t \in Threads, NEW op \in {"generate", "forward"}, Begin(t, op) PROVE IInv'
<1> PICK i \in DOMAIN entries :
      /\ pc' = [pc EXCEPT ![t] = "lock"]
      /\ loc' = [loc EXCEPT ![t] = [op |-> op, k |-> i, id |-> entries[i].id,
                   inst |-> entries[i].inst, gate |-> entries[i].gate, ms |-> 0]]
      /\ counter' = CounterAfter(entries, strategy, counter)
      /\ picks' = LastFive(Append(picks, entries[i].id))
      /\ UNCHANGED <<entries, strategy, mtx, held>>
  BY DEF Begin, config
<1> DEFINE l == [op |-> op, k |-> i, id |-> entries[i].id,
                 inst |-> entries[i].inst, gate |-> entries[i].gate, ms |-> 0]
<1>1. i \in 1 .. Len(entries) /\ entries[i].id \in Ids /\ entries[i].inst \in Insts /\ entries[i].gate \in Gates
  BY EntryFacts DEF IInv
<1>2. i \in Nat \ {0}
  BY <1>1
<1>3. l \in Locals
  BY <1>1, <1>2 DEF Locals
<1>4. l.inst = entries[i].inst /\ l.gate = entries[i].gate
  OBVIOUS
<1>5. picks' \in Seq(Ids)
  BY <1>1, NothingMoved, LastFiveType, AppendProperties
<1>6. counter' \in -CounterMax - 1 .. CounterMax
  BY CounterType, NothingMoved
<1>7. "lock" \in Places /\ "lock" \notin Holding
  BY DEF Places, Holding, Computing
<1>8. RestTyped /\ EntriesKept /\ GatesKept(t)
  BY <1>5, <1>6, NothingMoved DEF RestTyped
<1>9. CopiedPair(t, l)
  BY <1>4 DEF CopiedPair
<1>10. loc' = [loc EXCEPT ![t] = l]
  OBVIOUS
<1> HIDE DEF l
<1> QED
  BY <1>3, <1>7, <1>8, <1>9, <1>10, ThreadMoves

\* The compute mutex of the copied gate is taken.
LEMMA LockGateStep == ASSUME IInv, NEW t \in Threads, LockGate(t) PROVE IInv'
<1>1. /\ pc[t] = "lock" /\ held[loc[t].gate] = Free
      /\ held' = [held EXCEPT ![loc[t].gate] = t] /\ pc' = [pc EXCEPT ![t] = "compute"]
      /\ UNCHANGED <<entries, strategy, counter, mtx, loc, picks>>
  BY DEF LockGate, config
<1>2. loc[t].gate \in Gates
  BY <1>1 DEF IInv, GatesKnown, Using
<1>3. GatesKept(t) /\ held'[loc[t].gate] = t
  BY <1>1, <1>2, GateTaken
<1>4. loc' = [loc EXCEPT ![t] = loc[t]] /\ loc[t] \in Locals
  BY <1>1, NothingMoved
<1>5. "compute" \in Places /\ CopiedPair(t, loc[t])
  BY <1>1 DEF Places, UsingPlaces, CopiedPair
<1>6. RestTyped /\ EntriesKept
  BY <1>1, NothingMoved DEF RestTyped
<1> QED
  BY <1>1, <1>3, <1>4, <1>5, <1>6, ThreadMoves

\* generate() of the instance returned; the gate is still held.
LEMMA GeneratedStep ==
  ASSUME IInv, NEW t \in Threads, NEW ms \in Times \cup {0}, Generated(t, ms) PROVE IInv'
<1> DEFINE l == [loc[t] EXCEPT !.ms = ms]
<1>1. /\ pc[t] = "compute" /\ loc' = [loc EXCEPT ![t].ms = ms] /\ pc' = [pc EXCEPT ![t] = "record"]
      /\ UNCHANGED <<entries, strategy, counter, mtx, held, picks>>
  BY DEF Generated, config
<1>2. loc[t] \in Locals
  BY NothingMoved
<1>3. l \in Locals /\ l.inst = loc[t].inst /\ l.gate = loc[t].gate
  BY <1>2 DEF Locals
<1>4. loc' = [loc EXCEPT ![t] = l]
  BY <1>1 DEF IInv, TypeOK
<1>5. "record" \in Places /\ CopiedPair(t, l)
  BY <1>1, <1>3 DEF UsingPlaces, Places, CopiedPair
<1>6. held'[l.gate] = t
  BY <1>1, <1>3 DEF Holding, Computing, IInv, HoldersHold
<1>7. RestTyped /\ EntriesKept /\ GatesKept(t)
  BY <1>1, NothingMoved DEF RestTyped
<1> HIDE DEF l
<1> QED
  BY <1>1, <1>3, <1>4, <1>5, <1>6, <1>7, ThreadMoves

\* A thread without a call has well-typed locals and uses nothing.
LEMMA NoLocalsType == NoLocals \in Locals /\ "idle" \in Places /\ "idle" \notin Holding \cup UsingPlaces
BY DEF NoLocals, Locals, Places, Holding, Computing, UsingPlaces

\* A call ends without a sample: the gate is free again.
LEMMA LeaveStep == ASSUME IInv, NEW t \in Threads, Leave(t) PROVE IInv'
<1>1. /\ pc[t] = "compute" /\ held' = [held EXCEPT ![loc[t].gate] = Free]
      /\ loc' = [loc EXCEPT ![t] = NoLocals] /\ pc' = [pc EXCEPT ![t] = "idle"]
      /\ UNCHANGED <<entries, strategy, counter, mtx, picks>>
  BY DEF Leave, Release, config
<1>2. GatesKept(t)
  BY <1>1, GateGivenBack DEF Holding, Computing
<1>3. RestTyped /\ EntriesKept
  BY <1>1, NothingMoved DEF RestTyped
<1> QED
  BY <1>1, <1>2, <1>3, NoLocalsType, ThreadMoves

\* Whichever entry with the thread's id takes the sample, it is one of its own.
LEMMA SampledProperties ==
  ASSUME IInv, NEW t \in Threads, NEW i0 \in DOMAIN entries, entries[i0].id = loc[t].id
  PROVE  /\ Sampled(i0, t) \in Seq(Entries) /\ DOMAIN Sampled(i0, t) = DOMAIN entries
         /\ \A i \in DOMAIN entries :
              /\ Sampled(i0, t)[i].id = entries[i].id
              /\ Sampled(i0, t)[i].inst = entries[i].inst /\ Sampled(i0, t)[i].gate = entries[i].gate
              /\ Len(Sampled(i0, t)[i].lat) <= Window
              /\ \A k \in DOMAIN Sampled(i0, t)[i].from : Sampled(i0, t)[i].from[k] = entries[i].id
<1>1. CASE loc[t].ms = 0
  BY <1>1, NothingMoved DEF Sampled
<1>2. CASE loc[t].ms # 0
  <2> DEFINE lat2 == Recorded(entries[i0].lat, loc[t].ms)
             from2 == Recorded(entries[i0].from, loc[t].id)
             e == [entries[i0] EXCEPT !.lat = lat2, !.from = from2]
  <2>1. loc[t].ms \in Times
    BY <1>2, NothingMoved DEF Locals
  <2>2. /\ entries[i0] \in Entries /\ entries[i0].lat \in Seq(Times) /\ entries[i0].from \in Seq(Ids)
        /\ loc[t].id \in Ids /\ Len(entries[i0].lat) <= Window
    BY EntryFacts DEF IInv
  <2>3. lat2 \in Seq(Times) /\ Len(lat2) <= Window
    BY <2>1, <2>2, RecordedProperties
  <2>4. from2 \in Seq(Ids)
    BY <2>2, RecordedProperties
  <2>5. ASSUME NEW k \in DOMAIN from2 PROVE from2[k] = entries[i0].id
    <3>1. from2[k] = loc[t].id \/ \E j \in DOMAIN entries[i0].from : from2[k] = entries[i0].from[j]
      BY <2>2, RecordedProperties
    <3> QED
      BY <3>1 DEF IInv, SamplesOfOwnId
  <2> HIDE DEF lat2, from2
  <2>6. /\ e \in Entries /\ e.id = entries[i0].id /\ e.inst = entries[i0].inst
        /\ e.gate = entries[i0].gate /\ e.lat = lat2 /\ e.from = from2
    BY <2>2, <2>3, <2>4 DEF Entries
  <2>7. Sampled(i0, t) = [entries EXCEPT ![i0] = e]
    BY <1>2, NothingMoved DEF Sampled, lat2, from2
  <2> HIDE DEF e
  <2>8. /\ Sampled(i0, t) \in Seq(Entries) /\ DOMAIN Sampled(i0, t) = DOMAIN entries
        /\ \A i \in DOMAIN entries : Sampled(i0, t)[i] = IF i = i0 THEN e ELSE entries[i]
    BY <2>6, <2>7, NothingMoved, ExceptSeq
  <2> QED
    BY <2>3, <2>5, <2>6, <2>8, NothingMoved
<1> QED
  BY <1>1, <1>2

\* The sample goes into the window of the entry whose id was picked, if there is one.
LEMMA RecordStep == ASSUME IInv, NEW t \in Threads, Record(t) PROVE IInv'
<1>1. /\ pc[t] = "record" /\ held' = [held EXCEPT ![loc[t].gate] = Free]
      /\ loc' = [loc EXCEPT ![t] = NoLocals] /\ pc' = [pc EXCEPT ![t] = "idle"]
      /\ UNCHANGED <<strategy, counter, mtx, picks>>
      /\ \/ UNCHANGED entries
         \/ \E i \in DOMAIN entries : entries[i].id = loc[t].id /\ entries' = Sampled(i, t)
  BY DEF Record, Release
<1>2. GatesKept(t)
  BY <1>1, GateGivenBack DEF Holding, Computing
<1>3. RestTyped
  BY <1>1, NothingMoved DEF RestTyped
<1>4. EntriesKept
  <2>1. ASSUME NEW i \in DOMAIN entries, entries[i].id = loc[t].id, entries' = Sampled(i, t)
        PROVE  EntriesKept
    BY <2>1, SampledProperties DEF EntriesKept
  <2> QED
    BY <1>1, <2>1, NothingMoved
<1> QED
  BY <1>1, <1>2, <1>3, <1>4, NoLocalsType, ThreadMoves

\* A step of reset_all() that neither takes nor gives back a gate.
LEMMA ResetMoves ==
  ASSUME IInv, NEW t \in Threads, NEW q \in {"idle", "next"}, NEW l \in Locals,
         pc' = [pc EXCEPT ![t] = q], loc' = [loc EXCEPT ![t] = l],
         UNCHANGED <<entries, strategy, counter, held, picks>>, mtx' \in Threads \cup {Free}
  PROVE  IInv'
<1>1. q \in Places /\ q \notin Holding /\ q \notin UsingPlaces
  BY DEF Places, Holding, Computing, UsingPlaces
<1>2. RestTyped /\ EntriesKept /\ GatesKept(t)
  BY NothingMoved DEF RestTyped
<1> QED
  BY <1>1, <1>2, ThreadMoves

\* reset_all() takes mtx_.
LEMMA BeginResetStep == ASSUME IInv, NEW t \in Threads, BeginReset(t) PROVE IInv'
<1>1. /\ mtx' = t /\ pc' = [pc EXCEPT ![t] = "next"]
      /\ UNCHANGED <<entries, strategy, counter, held, loc, picks>>
  BY DEF BeginReset, config
<1>2. loc' = [loc EXCEPT ![t] = loc[t]] /\ loc[t] \in Locals
  BY <1>1, NothingMoved
<1> QED
  BY <1>1, <1>2, ResetMoves

\* reset_all() skips a dead entry.
LEMMA ResetSkipsStep == ASSUME IInv, NEW t \in Threads, ResetSkips(t) PROVE IInv'
<1> DEFINE l == [loc[t] EXCEPT !.k = @ + 1]
<1>1. /\ pc[t] = "next" /\ loc' = [loc EXCEPT ![t].k = @ + 1]
      /\ UNCHANGED <<entries, strategy, counter, mtx, held, pc, picks>>
  BY DEF ResetSkips, config
<1>2. l \in Locals
  <2>1. loc[t] \in Locals
    BY NothingMoved
  <2>2. loc[t].k + 1 \in Nat \ {0}
    BY <2>1 DEF Locals
  <2> QED
    BY <2>1, <2>2 DEF Locals
<1>3. loc' = [loc EXCEPT ![t] = l] /\ pc' = [pc EXCEPT ![t] = "next"]
  BY <1>1, NothingMoved DEF IInv, TypeOK
<1>4. mtx' \in Threads \cup {Free}
  BY <1>1, NothingMoved
<1> HIDE DEF l
<1> QED
  BY <1>1, <1>2, <1>3, <1>4, ResetMoves

\* reset_all() frees mtx_.
LEMMA EndResetStep == ASSUME IInv, NEW t \in Threads, EndReset(t) PROVE IInv'
<1>1. /\ mtx' = Free /\ pc' = [pc EXCEPT ![t] = "idle"] /\ loc' = [loc EXCEPT ![t] = NoLocals]
      /\ UNCHANGED <<entries, strategy, counter, held, picks>>
  BY DEF EndReset, config
<1> QED
  BY <1>1, NoLocalsType, ResetMoves

\* reset_all() takes the compute mutex of the next entry.
LEMMA ResetLocksStep == ASSUME IInv, NEW t \in Threads, ResetLocks(t) PROVE IInv'
<1> DEFINE e == entries[loc[t].k]
           l == [loc[t] EXCEPT !.id = e.id, !.inst = e.inst, !.gate = e.gate]
<1>1. /\ loc[t].k <= Len(entries) /\ held[e.gate] = Free
      /\ held' = [held EXCEPT ![e.gate] = t]
      /\ loc' = [loc EXCEPT ![t].id = e.id, ![t].inst = e.inst, ![t].gate = e.gate]
      /\ pc' = [pc EXCEPT ![t] = "resetting"]
      /\ UNCHANGED <<entries, strategy, counter, mtx, picks>>
  BY DEF ResetLocks, config
<1>2. loc[t] \in Locals /\ loc[t].k \in Nat \ {0}
  BY NothingMoved DEF Locals
<1>3. loc[t].k \in DOMAIN entries
  BY <1>1, <1>2, NothingMoved
<1>4. e.id \in Ids /\ e.inst \in Insts /\ e.gate \in Gates
  BY <1>3, EntryFacts DEF IInv
<1>5. l \in Locals /\ l.inst = e.inst /\ l.gate = e.gate
  BY <1>2, <1>4 DEF Locals
<1>6. loc' = [loc EXCEPT ![t] = l]
  BY <1>1, <1>2 DEF IInv, TypeOK
<1>7. CopiedPair(t, l)
  BY <1>3, <1>5 DEF CopiedPair
<1>8. GatesKept(t) /\ held'[l.gate] = t
  BY <1>1, <1>4, <1>5, GateTaken
<1>9. RestTyped /\ EntriesKept
  BY <1>1, NothingMoved DEF RestTyped
<1>10. "resetting" \in Places
  BY DEF Places
<1> HIDE DEF l
<1> QED
  BY <1>1, <1>5, <1>6, <1>7, <1>8, <1>9, <1>10, ThreadMoves

\* reset_all() has reset an entry, or its reset threw, and frees the gate.
LEMMA ResetOneStep == ASSUME IInv, NEW t \in Threads, ResetOne(t) PROVE IInv'
<1> DEFINE k0 == loc[t].k
           l == [NoLocals EXCEPT !.k = k0 + 1]
<1>1. /\ pc[t] = "resetting"
      /\ UNCHANGED entries \/ entries' = [entries EXCEPT ![k0].alive = FALSE]
      /\ held' = [held EXCEPT ![loc[t].gate] = Free]
      /\ loc' = [loc EXCEPT ![t] = l] /\ pc' = [pc EXCEPT ![t] = "next"]
      /\ UNCHANGED <<strategy, counter, mtx, picks>>
  BY DEF ResetOne
<1>2. l \in Locals
  BY NothingMoved DEF NoLocals, Locals
<1>3. GatesKept(t)
  BY <1>1, GateGivenBack DEF Holding, Computing
<1>4. RestTyped
  BY <1>1, NothingMoved DEF RestTyped
<1>5. EntriesKept
  <2>1. CASE UNCHANGED entries
    BY <2>1, NothingMoved
  <2>2. CASE k0 \in DOMAIN entries /\ entries' = [entries EXCEPT ![k0].alive = FALSE]
    <3> DEFINE e == [entries[k0] EXCEPT !.alive = FALSE]
    <3>1. /\ e \in Entries /\ e.id = entries[k0].id /\ e.inst = entries[k0].inst
          /\ e.gate = entries[k0].gate /\ e.lat = entries[k0].lat /\ e.from = entries[k0].from
      BY <2>2, EntryFacts DEF IInv, Entries
    <3>2. entries' = [entries EXCEPT ![k0] = e]
      BY <2>2, NothingMoved
    <3> HIDE DEF e, k0, l
    <3>3. /\ entries' \in Seq(Entries) /\ DOMAIN entries' = DOMAIN entries
          /\ \A i \in DOMAIN entries : entries'[i] = IF i = k0 THEN e ELSE entries[i]
      <4>1. entries \in Seq(Entries) /\ k0 \in 1 .. Len(entries)
        BY <2>2, NothingMoved
      <4> QED
        BY <3>1, <3>2, <4>1, ExceptSeq
    <3> QED
      BY <3>1, <3>3, NothingMoved DEF EntriesKept
  <2>3. CASE k0 \notin DOMAIN entries
    <3>1. entries' = entries
      BY <1>1, <2>3, NothingMoved
    <3> QED
      BY <3>1, NothingMoved
  <2> QED
    BY <1>1, <2>1, <2>2, <2>3
<1>6. "next" \in Places /\ "next" \notin Holding /\ "next" \notin UsingPlaces
  BY DEF Places, Holding, Computing, UsingPlaces
<1> HIDE DEF l
<1> QED
  BY <1>1, <1>2, <1>3, <1>4, <1>5, <1>6, ThreadMoves

-----------------------------------------------------------------------------
\* Every step of the router preserves the invariant.
LEMMA Inductive == IInv /\ [Next]_vars => IInv'
<1> SUFFICES ASSUME IInv, [Next]_vars PROVE IInv'
  OBVIOUS
<1>1. CASE UNCHANGED vars
  BY <1>1 DEF vars, IInv, TypeOK, GatesKnown, HoldersHold, OneGate, SamplesOfOwnId, Using
<1>2. CASE Configure
  BY <1>2, ConfigureStep
<1>3. ASSUME NEW t \in Threads, Call(t) PROVE IInv'
  BY <1>3, BeginResetStep, BeginStep DEF Call
<1>4. ASSUME NEW t \in Threads, Step(t) PROVE IInv'
  BY <1>4, LockGateStep, LeaveStep, RecordStep, GeneratedStep, ResetSkipsStep, ResetLocksStep,
     ResetOneStep, EndResetStep DEF Step
<1> QED
  BY <1>1, <1>2, <1>3, <1>4 DEF Next

\* The inductive invariant holds in every state of the router.
THEOREM RouterInvariant == Spec => []IInv
BY InitIInv, Inductive, PTL DEF Spec

\* Every variable of the router keeps its type, ids are different, and no window
\* is longer than kWindow, for any number of threads, ids and instances.
THEOREM RouterTypeCorrect == Spec => []TypeOK
<1>1. IInv => TypeOK
  BY DEF IInv
<1> QED
  BY <1>1, RouterInvariant, PTL

\* No two threads are inside one instance, in generate(), forward(), lm_head()
\* or reset(), whatever happened to the entry since they picked it: they hold
\* the instance's one gate.
THEOREM ComputeIsExclusive == Spec => []ComputeExclusive
<1>1. IInv => ComputeExclusive
  <2> SUFFICES ASSUME IInv, NEW t \in Threads, NEW u \in Threads,
                      pc[t] \in Computing, pc[u] \in Computing, loc[t].inst = loc[u].inst
               PROVE  t = u
    BY DEF ComputeExclusive
  <2>1. t \in Using /\ u \in Using /\ held[loc[t].gate] = t /\ held[loc[u].gate] = u
    BY DEF Computing, Holding, Using, IInv, HoldersHold
  <2>2. loc[t].gate = loc[u].gate
    BY <2>1 DEF IInv, OneGate
  <2> QED
    BY <2>1, <2>2
<1> QED
  BY <1>1, RouterInvariant, PTL

\* A latency ends up in the window of the id that was measured, or nowhere,
\* although entries are added, removed and replaced during the inference.
THEOREM SamplesStay == Spec => []SamplesOfOwnId
<1>1. IInv => SamplesOfOwnId
  BY DEF IInv
<1> QED
  BY <1>1, RouterInvariant, PTL

(***************************************************************************)
(* The share of the backfill strategies.  While the configuration stays,   *)
(* the picks are those of the last values of the counter, one of each five *)
(* of which goes to the other kind.                                        *)
(***************************************************************************)
\* No id is of both kinds, and picking stops before the counter wraps around.
ShareHypothesis == GpuIds \cap NpuIds = {} /\ CounterBound \in 0 .. CounterMax

Backfilling == strategy \in {"GPU_BACKFILL", "NPU_BACKFILL"} /\ Has(GpuIds) /\ Has(NpuIds)
Preferred == IF strategy = "GPU_BACKFILL" THEN GpuIds ELSE NpuIds
Other == IF strategy = "GPU_BACKFILL" THEN NpuIds ELSE GpuIds

PicksFollowCounter ==
  /\ counter \in 0 .. CounterBound /\ picks \in Seq(Ids)
  /\ Backfilling =>
       /\ Len(picks) <= 5 /\ Len(picks) <= counter
       /\ \A k \in 1 .. Len(picks) :
            picks[k] \in IF (counter - Len(picks) + k - 1) % 5 < 4 THEN Preferred ELSE Other

\* The entry of a kind that is there is of that kind.
LEMMA FirstOfKind ==
  ASSUME TypeOK, NEW S, Has(S)
  PROVE  FirstOf(entries, S) \in DOMAIN entries /\ entries[FirstOf(entries, S)].id \in S
<1> DEFINE hits == {i \in DOMAIN entries : entries[i].id \in S}
<1>1. hits \in SUBSET Nat /\ hits # {}
  BY DEF Has, TypeOK
<1>2. \E i \in hits : \A j \in hits : i <= j
  BY <1>1, LeastNumber
<1>3. FirstOf(entries, S) \in hits
  BY <1>1, <1>2 DEF FirstOf
<1> QED
  BY <1>3

\* A pick while both kinds are there: of the kind that the counter says.
LEMMA BackfillPick ==
  ASSUME ShareHypothesis, TypeOK, Backfilling, counter \in Nat
  PROVE  /\ entries[Pick(entries, strategy, counter)].id
              \in IF counter % 5 < 4 THEN Preferred ELSE Other
         /\ CounterAfter(entries, strategy, counter) = Incremented(counter)
<1>1. PICK i \in DOMAIN entries : entries[i].id \in GpuIds
  BY DEF Backfilling, Has
<1>2. PICK j \in DOMAIN entries : entries[j].id \in NpuIds
  BY DEF Backfilling, Has
<1>3. i # j /\ i \in 1 .. Len(entries) /\ j \in 1 .. Len(entries) /\ Len(entries) \in Nat
  BY <1>1, <1>2 DEF ShareHypothesis, TypeOK
<1>4. Len(entries) > 1 /\ Len(entries) # 1
  BY <1>3
<1>5. Cycle(counter) = counter % 5
  BY DEF Cycle
<1>6. CASE strategy = "GPU_BACKFILL"
  <2>1. Pick(entries, strategy, counter) =
          FirstOf(entries, IF counter % 5 < 4 THEN GpuIds ELSE NpuIds)
    BY <1>4, <1>5, <1>6 DEF Pick
  <2> QED
    BY <1>4, <1>6, <2>1, FirstOfKind DEF Backfilling, Preferred, Other, CounterAfter, Counts
<1>7. CASE strategy = "NPU_BACKFILL"
  <2>1. Pick(entries, strategy, counter) =
          FirstOf(entries, IF counter % 5 < 4 THEN NpuIds ELSE GpuIds)
    BY <1>4, <1>5, <1>7 DEF Pick
  <2> QED
    BY <1>4, <1>7, <2>1, FirstOfKind DEF Backfilling, Preferred, Other, CounterAfter, Counts
<1> QED
  BY <1>6, <1>7 DEF Backfilling

\* The sequence of the last five, one longer and shifted if it was full.
LEMMA LastFiveProperties ==
  ASSUME NEW s \in Seq(Ids), NEW x \in Ids, Len(s) <= 5
  PROVE  LET r == LastFive(Append(s, x))
         IN  /\ r \in Seq(Ids)
             /\ Len(r) = IF Len(s) = 5 THEN 5 ELSE Len(s) + 1
             /\ r[Len(r)] = x
             /\ \A k \in 1 .. Len(r) - 1 : r[k] = s[k + Len(s) + 1 - Len(r)]
<1> DEFINE longer == Append(s, x)
<1>1. /\ longer \in Seq(Ids) /\ Len(longer) = Len(s) + 1 /\ longer # <<>>
      /\ \A k \in 1 .. Len(s) + 1 : longer[k] = IF k = Len(s) + 1 THEN x ELSE s[k]
  BY AppendProperties
<1>2. /\ Tail(longer) \in Seq(Ids)
      /\ Len(Tail(longer)) = Len(s)
      /\ \A k \in 1 .. Len(s) : Tail(longer)[k] = longer[k + 1]
  BY <1>1, HeadTailProperties
<1> DEFINE r == LastFive(longer)
           n == Len(s)
<1> HIDE DEF longer
<1>3. n \in 0 .. 5
  <2>1. n \in Nat /\ n <= 5
    OBVIOUS
  <2> HIDE DEF n
  <2> QED
    BY <2>1
<1>4. r = IF n = 5 THEN Tail(longer) ELSE longer
  BY <1>1, <1>3 DEF LastFive
<1> HIDE DEF r
<1>5. CASE n = 5
  <2>1. r = Tail(longer) /\ Len(r) = n
    BY <1>2, <1>4, <1>5
  <2>2. \A k \in 1 .. n : r[k] = longer[k + 1]
    BY <1>2, <2>1
  <2> HIDE DEF n
  <2>3. r[n] = longer[n + 1] /\ \A k \in 1 .. n - 1 : r[k] = longer[k + 1]
    BY <1>5, <2>2
  <2>4. longer[n + 1] = x /\ \A k \in 1 .. n - 1 : longer[k + 1] = s[k + 1]
    BY <1>1, <1>5 DEF n
  <2>5. \A k \in 1 .. n - 1 : k + n + 1 - n = k + 1
    BY <1>5
  <2>6. \A k \in 1 .. Len(r) - 1 : r[k] = s[k + n + 1 - Len(r)]
    BY <2>1, <2>3, <2>4, <2>5
  <2> QED
    BY <1>2, <1>5, <2>1, <2>3, <2>4, <2>6 DEF r, longer, n
<1>6. CASE n # 5
  <2>1. r = longer /\ n + 1 \in 1 .. n + 1
    BY <1>3, <1>4, <1>6
  <2>2. Len(r) = n + 1 /\ r[n + 1] = x /\ \A k \in 1 .. n : r[k] = s[k]
    BY <1>1, <1>3, <2>1
  <2>3. \A k \in 1 .. n + 1 - 1 : k \in 1 .. n /\ k + n + 1 - (n + 1) = k
    BY <1>3
  <2>4. \A k \in 1 .. Len(r) - 1 : r[k] = s[k + n + 1 - Len(r)]
    BY <2>2, <2>3
  <2> QED
    BY <1>1, <1>6, <2>1, <2>2, <2>4 DEF r, longer
<1> QED
  BY <1>5, <1>6

\* What a step inside a call leaves alone.
LEMMA StepKeepsPicks ==
  ASSUME IInv, NEW t \in Threads, Step(t) \/ BeginReset(t) \/ UNCHANGED vars
  PROVE  /\ UNCHANGED <<strategy, counter, picks>>
         /\ DOMAIN entries' = DOMAIN entries
         /\ \A i \in DOMAIN entries : entries'[i].id = entries[i].id
<1>1. UNCHANGED <<strategy, counter, picks>>
  BY DEF Step, LockGate, Leave, Record, Generated, ResetSkips, ResetLocks, ResetOne, EndReset,
     BeginReset, config, vars
<1>2. CASE Record(t)
  <2>1. \/ UNCHANGED entries
        \/ \E i \in DOMAIN entries : entries[i].id = loc[t].id /\ entries' = Sampled(i, t)
    BY <1>2 DEF Record
  <2> QED
    BY <1>1, <2>1, SampledProperties
<1>3. CASE ResetOne(t)
  <2>1. UNCHANGED entries \/ entries' = [entries EXCEPT ![loc[t].k].alive = FALSE]
    BY <1>3 DEF ResetOne
  <2>2. DOMAIN entries' = DOMAIN entries
    BY <2>1
  <2>3. ASSUME NEW i \in DOMAIN entries PROVE entries'[i].id = entries[i].id
    <3>1. entries[i] \in Entries
      BY EntryFacts DEF IInv
    <3>2. entries'[i] = entries[i] \/ entries'[i] = [entries[i] EXCEPT !.alive = FALSE]
      BY <2>1
    <3> QED
      BY <3>1, <3>2 DEF Entries
  <2> QED
    BY <1>1, <2>2, <2>3
<1>4. CASE ~Record(t) /\ ~ResetOne(t)
  <2>1. UNCHANGED entries
    BY <1>4 DEF Step, LockGate, Leave, Generated, ResetSkips, ResetLocks, EndReset, BeginReset,
       config, vars
  <2> QED
    BY <1>1, <2>1
<1> QED
  BY <1>2, <1>3, <1>4

\* A pick.
LEMMA BeginPicks ==
  ASSUME ShareHypothesis, IInv, PicksFollowCounter, NEW t \in Threads,
         NEW op \in {"generate", "forward"}, Begin(t, op)
  PROVE  PicksFollowCounter'
<1> DEFINE i == Pick(entries, strategy, counter)
           x == entries[i].id
           n == Len(picks)
<1>1. /\ i \in DOMAIN entries /\ counter < CounterBound
      /\ counter' = CounterAfter(entries, strategy, counter)
      /\ picks' = LastFive(Append(picks, x))
      /\ UNCHANGED <<entries, strategy>>
  BY DEF Begin, config
<1>2. x \in Ids
  BY <1>1, EntryFacts DEF IInv
<1>3. /\ counter \in Nat /\ counter < CounterMax /\ CounterBound \in Nat
      /\ Incremented(counter) = counter + 1 /\ counter' \in 0 .. CounterBound
  BY <1>1, CounterMaxAssumption
     DEF PicksFollowCounter, ShareHypothesis, Incremented, CounterAfter
<1>4. picks' \in Seq(Ids)
  <2>1. Append(picks, x) \in Seq(Ids)
    BY <1>2, AppendProperties DEF PicksFollowCounter
  <2> QED
    BY <1>1, <2>1, LastFiveType
<1>5. Backfilling' = Backfilling /\ Preferred' = Preferred /\ Other' = Other
  BY <1>1 DEF Backfilling, Preferred, Other, Has
<1>6. ASSUME Backfilling
      PROVE  /\ Len(picks') <= 5 /\ Len(picks') <= counter'
             /\ \A k \in 1 .. Len(picks') :
                  picks'[k] \in IF (counter' - Len(picks') + k - 1) % 5 < 4
                                THEN Preferred ELSE Other
  <2>1. x \in IF counter % 5 < 4 THEN Preferred ELSE Other
    BY <1>3, <1>6, BackfillPick DEF IInv
  <2>2. counter' = counter + 1
    BY <1>1, <1>3, <1>6, BackfillPick DEF IInv
  <2>3. /\ picks \in Seq(Ids) /\ n \in Nat /\ n <= 5 /\ n <= counter
        /\ \A k \in 1 .. n : picks[k] \in IF (counter - n + k - 1) % 5 < 4 THEN Preferred ELSE Other
    BY <1>6 DEF PicksFollowCounter
  <2> DEFINE m == Len(picks')
  <2>4. /\ m = IF n = 5 THEN 5 ELSE n + 1
        /\ picks'[m] = x
        /\ \A k \in 1 .. m - 1 : picks'[k] = picks[k + n + 1 - m]
    BY <1>1, <1>2, <2>3, LastFiveProperties
  <2> HIDE DEF i, x, n, m
  <2>5. ASSUME NEW k \in 1 .. m
        PROVE  picks'[k] \in IF (counter' - m + k - 1) % 5 < 4 THEN Preferred ELSE Other
    <3>1. CASE k = m
      <4>1. counter' - m + k - 1 = counter
        BY <1>3, <2>2, <2>3, <2>4, <3>1
      <4> QED
        BY <2>1, <2>4, <3>1, <4>1
    <3>2. CASE k # m
      <4>1. /\ k \in 1 .. m - 1 /\ k + n + 1 - m \in 1 .. n
            /\ counter' - m + k - 1 = counter - n + (k + n + 1 - m) - 1
        BY <1>3, <2>2, <2>3, <2>4, <3>2
      <4> QED
        BY <2>3, <2>4, <4>1
    <3> QED
      BY <3>1, <3>2
  <2> QED
    BY <1>3, <2>2, <2>3, <2>4, <2>5 DEF m
<1> QED
  BY <1>3, <1>4, <1>5, <1>6 DEF PicksFollowCounter

\* Every step keeps the picks those of the last values of the counter.
LEMMA PicksInductive ==
  ASSUME ShareHypothesis, IInv, PicksFollowCounter, [Next]_vars
  PROVE  PicksFollowCounter'
<1>1. CASE Configure
  <2>1. picks' = <<>> /\ counter' = counter
    BY <1>1 DEF Configure, AddNew, Replace, RemoveBackend, Clear, SetStrategy, Configured
  <2> QED
    BY <2>1 DEF PicksFollowCounter, ShareHypothesis
<1>2. ASSUME NEW t \in Threads, Step(t) \/ BeginReset(t) \/ UNCHANGED vars
      PROVE  PicksFollowCounter'
  <2>1. /\ UNCHANGED <<strategy, counter, picks>>
        /\ DOMAIN entries' = DOMAIN entries
        /\ \A i \in DOMAIN entries : entries'[i].id = entries[i].id
    BY <1>2, StepKeepsPicks
  <2>2. Backfilling' <=> Backfilling
    BY <2>1 DEF Backfilling, Has
  <2> QED
    BY <2>1, <2>2 DEF PicksFollowCounter, Preferred, Other
<1>3. ASSUME NEW t \in Threads, NEW op \in {"generate", "forward"}, Begin(t, op)
      PROVE  PicksFollowCounter'
  BY <1>3, BeginPicks
<1>4. CASE UNCHANGED vars
  <2>1. UNCHANGED <<strategy, counter, picks, entries>>
    BY <1>4 DEF vars, config
  <2> QED
    BY <2>1 DEF PicksFollowCounter, Backfilling, Preferred, Other, Has
<1> QED
  BY <1>1, <1>2, <1>3, <1>4 DEF Next, Call

\* Five numbers in a row have one that is 4 modulo 5.
LEMMA OneOfFive ==
  ASSUME NEW c \in Nat
  PROVE  \E k \in 1 .. 5 : \A j \in 1 .. 5 : (c + j - 1) % 5 < 4 <=> j # k
<1>1. /\ c % 5 \in 0 .. 4
      /\ c \div 5 \in Int
      /\ c = 5 * (c \div 5) + (c % 5)
  <2>1. c % 5 \in 0 .. 4
    OBVIOUS
  <2>2. c \div 5 \in Int
    OBVIOUS
  <2>3. c = 5 * (c \div 5) + (c % 5)
    OBVIOUS
  <2> QED
    BY <2>1, <2>2, <2>3
<1> DEFINE q == c \div 5
           r == c % 5
<1> HIDE DEF q, r
<1>2. \A j \in 1 .. 5 : (c + j - 1) % 5 = IF r + j - 1 < 5 THEN r + j - 1 ELSE r + j - 6
  BY <1>1 DEF q, r
<1>3. 5 - r \in 1 .. 5 /\ \A j \in 1 .. 5 : (c + j - 1) % 5 < 4 <=> j # 5 - r
  BY <1>1, <1>2 DEF r
<1> QED
  BY <1>3

\* "4 GPU, 1 NPU, repeat": among any five picks in a row while both kinds are there
\* and the strategy stays, whatever the number of entries, their order, the calls in
\* flight and the value the counter had.
THEOREM FourToOne ==
  ASSUME ShareHypothesis
  PROVE  Spec => []BackfillShare
<1>1. Init => PicksFollowCounter
  BY DEF Init, PicksFollowCounter, ShareHypothesis, Backfilling
<1>2. ASSUME IInv, PicksFollowCounter PROVE BackfillShare
  <2> SUFFICES ASSUME Len(picks) = 5, Backfilling
               PROVE  Among(Preferred) = 4 /\ Among(Other) = 1
    BY DEF BackfillShare, Backfilling, Preferred, Other
  <2>1. /\ counter - 5 \in Nat /\ DOMAIN picks = 1 .. 5
        /\ \A k \in 1 .. 5 : picks[k] \in IF (counter - 5 + k - 1) % 5 < 4 THEN Preferred ELSE Other
    BY <1>2 DEF PicksFollowCounter, ShareHypothesis
  <2>2. PICK k \in 1 .. 5 : \A j \in 1 .. 5 : (counter - 5 + j - 1) % 5 < 4 <=> j # k
    BY <2>1, OneOfFive
  <2>3. Preferred \cap Other = {}
    BY DEF ShareHypothesis, Preferred, Other
  <2>4. /\ {j \in DOMAIN picks : picks[j] \in Preferred} = (1 .. 5) \ {k}
        /\ {j \in DOMAIN picks : picks[j] \in Other} = {k}
    <3>1. \A j \in 1 .. 5 : (picks[j] \in Preferred <=> j # k) /\ (picks[j] \in Other <=> j = k)
      BY <2>1, <2>2, <2>3
    <3> HIDE DEF Preferred, Other
    <3> QED
      BY <2>1, <3>1
  <2>5. IsFiniteSet(1 .. 5) /\ Cardinality(1 .. 5) = 5
    <3>1. \A n \in Nat : IsFiniteSet(1 .. n) /\ Cardinality(1 .. n) = n
      BY FS_Interval
    <3> QED
      BY <3>1
  <2>6. Cardinality((1 .. 5) \ {k}) = 4 /\ Cardinality({k}) = 1
    <3>1. Cardinality((1 .. 5) \ {k}) = 5 - 1
      BY <2>5, FS_RemoveElement
    <3>2. Cardinality({k}) = 1
      BY FS_Singleton
    <3> QED
      BY <3>1, <3>2
  <2> QED
    BY <2>4, <2>6 DEF Among
<1>3. IInv /\ PicksFollowCounter /\ [Next]_vars => PicksFollowCounter'
  BY PicksInductive
<1> QED
  BY <1>1, <1>2, <1>3, RouterInvariant, PTL DEF Spec

-----------------------------------------------------------------------------
(***************************************************************************)
(* Who waits for whom.  A thread in reset_all() has mtx_ and wants a gate, *)
(* a thread at the end of generate() has its gate and wants mtx_.          *)
(***************************************************************************)
\* mtx_ and the gates are held by threads that are where they give them back.
MtxOwned ==
  /\ mtx # Free => pc[mtx] \in {"next", "resetting"}
  /\ \A t \in Threads : pc[t] \in {"next", "resetting"} => mtx = t

GatesOwned ==
  \A g \in Gates : held[g] # Free => pc[held[g]] \in Holding /\ loc[held[g]].gate = g

WaitInv == IInv /\ MtxOwned /\ GatesOwned

\* The gate that reset_all() of thread t locks next.
NextGate(t) == entries[loc[t].k].gate
WantsNext(t) == pc[t] = "next" /\ loc[t].k \in DOMAIN entries /\ entries[loc[t].k].alive

\* A thread inside a call that cannot go on: in every other place one of its steps has all
\* of its guards (LockGate, Leave, Record, ResetLocks, ResetSkips, ResetOne, EndReset).
Waits(t) ==
  \/ pc[t] = "lock" /\ held[loc[t].gate] # Free
  \/ pc[t] = "record" /\ mtx # Free
  \/ WantsNext(t) /\ held[NextGate(t)] # Free

Stuck == Busy # {} /\ \A t \in Busy : Waits(t)

\* Thread t, in reset_all(), waits for the gate of u, which waits for mtx_.
WaitForEachOther(t, u) ==
  /\ mtx = t /\ WantsNext(t) /\ held[NextGate(t)] = u
  /\ pc[u] = "record" /\ loc[u].gate = NextGate(t)

\* What a step of a thread leaves of the others, from the types.
LEMMA OthersStay ==
  ASSUME TypeOK, NEW t \in Threads, NEW q, NEW l,
         pc' = [pc EXCEPT ![t] = q], loc' = [loc EXCEPT ![t] = l]
  PROVE  /\ pc'[t] = q /\ loc'[t] = l
         /\ \A u \in Threads : u # t => pc'[u] = pc[u] /\ loc'[u] = loc[u]
BY DEF TypeOK

\* Owners stay known when a thread moves and neither mtx_ nor a gate changes hands.
LEMMA OwnersStay ==
  ASSUME WaitInv, NEW t \in Threads, NEW q, NEW l, UNCHANGED <<mtx, held>>,
         pc' = [pc EXCEPT ![t] = q], loc' = [loc EXCEPT ![t] = l],
         pc[t] \in {"next", "resetting"} <=> q \in {"next", "resetting"},
         pc[t] \in Holding => q \in Holding /\ l.gate = loc[t].gate
  PROVE  MtxOwned' /\ GatesOwned'
<1>1. TypeOK
  BY DEF WaitInv, IInv
<1>2. /\ pc'[t] = q /\ loc'[t] = l
      /\ \A u \in Threads : u # t => pc'[u] = pc[u] /\ loc'[u] = loc[u]
  BY <1>1, OthersStay
<1>3. mtx \in Threads \cup {Free} /\ held \in [Gates -> Threads \cup {Free}]
  BY <1>1 DEF TypeOK
<1>4. MtxOwned'
  BY <1>2, <1>3 DEF WaitInv, MtxOwned
<1>5. ASSUME NEW g \in Gates, held[g] # Free
      PROVE  pc'[held[g]] \in Holding /\ loc'[held[g]].gate = g
  <2>1. held[g] \in Threads /\ pc[held[g]] \in Holding /\ loc[held[g]].gate = g
    BY <1>3, <1>5 DEF WaitInv, GatesOwned
  <2> QED BY <1>2, <2>1
<1> QED BY <1>4, <1>5 DEF GatesOwned

\* The same for a thread that gives its gate back.
LEMMA OwnersAfterRelease ==
  ASSUME WaitInv, NEW t \in Threads, NEW q, NEW l, UNCHANGED mtx, pc[t] \in Holding,
         held' = [held EXCEPT ![loc[t].gate] = Free],
         pc' = [pc EXCEPT ![t] = q], loc' = [loc EXCEPT ![t] = l],
         pc[t] \in {"next", "resetting"} <=> q \in {"next", "resetting"}
  PROVE  MtxOwned' /\ GatesOwned'
<1>1. TypeOK
  BY DEF WaitInv, IInv
<1>2. /\ pc'[t] = q /\ loc'[t] = l
      /\ \A u \in Threads : u # t => pc'[u] = pc[u] /\ loc'[u] = loc[u]
  BY <1>1, OthersStay
<1>3. mtx \in Threads \cup {Free} /\ held \in [Gates -> Threads \cup {Free}]
  BY <1>1 DEF TypeOK
<1>4. MtxOwned'
  BY <1>2, <1>3 DEF WaitInv, MtxOwned
<1>5. ASSUME NEW g \in Gates, held'[g] # Free
      PROVE  pc'[held'[g]] \in Holding /\ loc'[held'[g]].gate = g
  <2>1. held'[g] = held[g] /\ g # loc[t].gate
    BY <1>3, <1>5
  <2>2. held[g] \in Threads /\ pc[held[g]] \in Holding /\ loc[held[g]].gate = g
    BY <1>3, <1>5, <2>1 DEF WaitInv, GatesOwned
  <2> QED BY <1>2, <2>1, <2>2
<1> QED BY <1>4, <1>5 DEF GatesOwned

\* The same for a thread that takes a free gate.
LEMMA OwnersAfterTaking ==
  ASSUME WaitInv, NEW t \in Threads, NEW q \in Holding, NEW l, NEW g \in Gates, UNCHANGED mtx,
         pc[t] \notin Holding, held[g] = Free, l.gate = g,
         held' = [held EXCEPT ![g] = t],
         pc' = [pc EXCEPT ![t] = q], loc' = [loc EXCEPT ![t] = l],
         pc[t] \in {"next", "resetting"} <=> q \in {"next", "resetting"}
  PROVE  MtxOwned' /\ GatesOwned'
<1>1. TypeOK
  BY DEF WaitInv, IInv
<1>2. /\ pc'[t] = q /\ loc'[t] = l
      /\ \A u \in Threads : u # t => pc'[u] = pc[u] /\ loc'[u] = loc[u]
  BY <1>1, OthersStay
<1>3. mtx \in Threads \cup {Free} /\ held \in [Gates -> Threads \cup {Free}]
  BY <1>1 DEF TypeOK
<1>4. MtxOwned'
  BY <1>2, <1>3 DEF WaitInv, MtxOwned
<1>5. ASSUME NEW h \in Gates, held'[h] # Free
      PROVE  pc'[held'[h]] \in Holding /\ loc'[held'[h]].gate = h
  <2>1. CASE h = g
    BY <1>2, <1>3, <2>1
  <2>2. CASE h # g
    <3>1. held'[h] = held[h]
      BY <2>2, <1>3
    <3>2. held[h] \in Threads /\ pc[held[h]] \in Holding /\ loc[held[h]].gate = h
      BY <1>3, <1>5, <3>1 DEF WaitInv, GatesOwned
    <3> QED BY <1>2, <3>1, <3>2
  <2> QED BY <2>1, <2>2
<1> QED BY <1>4, <1>5 DEF GatesOwned

\* Every step keeps what is known of the owners.
LEMMA WaitStep == WaitInv /\ [Next]_vars => WaitInv'
<1> SUFFICES ASSUME WaitInv, [Next]_vars PROVE MtxOwned' /\ GatesOwned'
  BY Inductive DEF WaitInv
<1>0. /\ IInv /\ TypeOK /\ mtx \in Threads \cup {Free} /\ held \in [Gates -> Threads \cup {Free}]
      /\ \A t \in Threads : loc[t] \in Locals /\ loc = [loc EXCEPT ![t] = loc[t]]
                            /\ pc = [pc EXCEPT ![t] = pc[t]]
  BY NothingMoved DEF WaitInv, IInv, TypeOK
<1>1. CASE UNCHANGED <<mtx, held, pc, loc>>
  BY <1>1 DEF WaitInv, MtxOwned, GatesOwned
<1>2. ASSUME NEW t \in Threads, BeginReset(t) PROVE MtxOwned' /\ GatesOwned'
  <2>1. /\ pc[t] = "idle" /\ mtx = Free /\ mtx' = t
        /\ pc' = [pc EXCEPT ![t] = "next"] /\ held' = held /\ loc' = loc
    BY <1>2 DEF BeginReset
  <2>2. pc'[t] = "next" /\ \A u \in Threads : u # t => pc'[u] = pc[u]
    BY <1>0, <2>1 DEF TypeOK
  <2>3. MtxOwned'
    BY <1>0, <2>1, <2>2, FreeAssumption DEF WaitInv, MtxOwned
  <2>4. ASSUME NEW g \in Gates, held[g] # Free
        PROVE  pc'[held[g]] \in Holding /\ loc[held[g]].gate = g
    <3>1. held[g] \in Threads /\ pc[held[g]] \in Holding /\ loc[held[g]].gate = g
      BY <1>0, <2>4 DEF WaitInv, GatesOwned
    <3> QED BY <2>1, <2>2, <3>1 DEF Holding, Computing
  <2> QED BY <2>1, <2>3, <2>4 DEF GatesOwned
<1>3. ASSUME NEW t \in Threads, NEW op \in {"generate", "forward"}, Begin(t, op)
      PROVE  MtxOwned' /\ GatesOwned'
  <2>1. PICK i \in DOMAIN entries :
          /\ pc[t] = "idle" /\ pc' = [pc EXCEPT ![t] = "lock"] /\ UNCHANGED <<mtx, held>>
          /\ loc' = [loc EXCEPT ![t] = [op |-> op, k |-> i, id |-> entries[i].id,
                       inst |-> entries[i].inst, gate |-> entries[i].gate, ms |-> 0]]
    BY <1>3 DEF Begin
  <2> QED BY <2>1, OwnersStay DEF Holding, Computing
<1>4. ASSUME NEW t \in Threads, LockGate(t) PROVE MtxOwned' /\ GatesOwned'
  <2>1. /\ pc[t] = "lock" /\ held[loc[t].gate] = Free /\ held' = [held EXCEPT ![loc[t].gate] = t]
        /\ pc' = [pc EXCEPT ![t] = "compute"] /\ UNCHANGED mtx /\ loc' = [loc EXCEPT ![t] = loc[t]]
    BY <1>0, <1>4 DEF LockGate
  <2>2. loc[t].gate \in Gates
    BY <1>0, <2>1 DEF IInv, GatesKnown, Using
  <2>3. "compute" \in Holding /\ "lock" \notin Holding
    BY DEF Holding, Computing
  <2> QED BY <2>1, <2>2, <2>3, OwnersAfterTaking
<1>5. ASSUME NEW t \in Threads, NEW ms \in Times \cup {0}, Generated(t, ms)
      PROVE  MtxOwned' /\ GatesOwned'
  <2>1. /\ pc[t] = "compute" /\ pc' = [pc EXCEPT ![t] = "record"] /\ UNCHANGED <<mtx, held>>
        /\ loc' = [loc EXCEPT ![t] = [loc[t] EXCEPT !.ms = ms]]
    BY <1>0, <1>5 DEF Generated
  <2>2. [loc[t] EXCEPT !.ms = ms].gate = loc[t].gate
    BY <1>0 DEF Locals
  <2>3. "record" \in Holding
    BY DEF Holding
  <2> QED BY <2>1, <2>2, <2>3, OwnersStay
<1>6. ASSUME NEW t \in Threads, Leave(t) \/ Record(t) PROVE MtxOwned' /\ GatesOwned'
  <2>1. /\ pc[t] \in {"compute", "record"} /\ UNCHANGED mtx /\ held' = [held EXCEPT ![loc[t].gate] = Free]
        /\ pc' = [pc EXCEPT ![t] = "idle"] /\ loc' = [loc EXCEPT ![t] = NoLocals]
    BY <1>6, Zenon DEF Leave, Record, Release
  <2> QED BY <2>1, OwnersAfterRelease DEF Holding, Computing
<1>7. ASSUME NEW t \in Threads, ResetSkips(t) PROVE MtxOwned' /\ GatesOwned'
  <2>1. /\ pc[t] = "next" /\ pc' = [pc EXCEPT ![t] = pc[t]] /\ UNCHANGED <<mtx, held>>
        /\ loc' = [loc EXCEPT ![t] = [loc[t] EXCEPT !.k = @ + 1]]
    BY <1>0, <1>7 DEF ResetSkips
  <2>2. "next" \notin Holding
    BY DEF Holding, Computing
  <2> QED BY <2>1, <2>2, OwnersStay
<1>8. ASSUME NEW t \in Threads, ResetLocks(t) PROVE MtxOwned' /\ GatesOwned'
  <2> DEFINE e == entries[loc[t].k]
             l == [loc[t] EXCEPT !.id = e.id, !.inst = e.inst, !.gate = e.gate]
  <2>1. /\ pc[t] = "next" /\ loc[t].k \in DOMAIN entries /\ held[e.gate] = Free
        /\ held' = [held EXCEPT ![e.gate] = t] /\ UNCHANGED mtx
        /\ loc' = [loc EXCEPT ![t] = l] /\ pc' = [pc EXCEPT ![t] = "resetting"]
    <3>1. loc[t].k \in Nat \ {0}
      BY <1>0 DEF Locals
    <3>2. loc[t].k \in DOMAIN entries
      BY <1>0, <1>8, <3>1 DEF ResetLocks, TypeOK
    <3> QED BY <1>0, <1>8, <3>2 DEF ResetLocks
  <2>2. e.gate \in Gates
    BY <1>0, <2>1, EntryFacts
  <2>3. l.gate = e.gate
    BY <1>0 DEF Locals
  <2>4. "resetting" \in Holding /\ "next" \notin Holding
    BY DEF Holding, Computing
  <2> HIDE DEF e, l
  <2> QED BY <2>1, <2>2, <2>3, <2>4, OwnersAfterTaking
<1>9. ASSUME NEW t \in Threads, ResetOne(t) PROVE MtxOwned' /\ GatesOwned'
  <2>1. /\ pc[t] = "resetting" /\ UNCHANGED mtx /\ held' = [held EXCEPT ![loc[t].gate] = Free]
        /\ pc' = [pc EXCEPT ![t] = "next"]
        /\ loc' = [loc EXCEPT ![t] = [NoLocals EXCEPT !.k = loc[t].k + 1]]
    BY <1>9 DEF ResetOne
  <2> QED BY <2>1, OwnersAfterRelease DEF Holding, Computing
<1>10. ASSUME NEW t \in Threads, EndReset(t) PROVE MtxOwned' /\ GatesOwned'
  <2>1. /\ pc[t] = "next" /\ mtx' = Free /\ held' = held
        /\ pc' = [pc EXCEPT ![t] = "idle"] /\ loc' = [loc EXCEPT ![t] = NoLocals]
    BY <1>10 DEF EndReset
  <2>2. /\ pc'[t] = "idle" /\ \A u \in Threads : u # t => pc'[u] = pc[u] /\ loc'[u] = loc[u]
    BY <1>0, <2>1, OthersStay
  <2>3. MtxOwned'
    BY <2>1, <2>2 DEF WaitInv, MtxOwned
  <2>4. ASSUME NEW g \in Gates, held[g] # Free
        PROVE  pc'[held[g]] \in Holding /\ loc'[held[g]].gate = g
    <3>1. held[g] \in Threads /\ pc[held[g]] \in Holding /\ loc[held[g]].gate = g
      BY <1>0, <2>4 DEF WaitInv, GatesOwned
    <3>2. held[g] # t
      BY <2>1, <3>1 DEF Holding, Computing
    <3> QED BY <2>2, <3>1, <3>2
  <2> QED BY <2>1, <2>3, <2>4 DEF GatesOwned
<1>11. CASE Configure
  <2>1. UNCHANGED <<mtx, held, pc, loc>>
    BY <1>11 DEF Configure, AddNew, Replace, RemoveBackend, Clear, SetStrategy, Configured
  <2> QED BY <1>1, <2>1
<1>12. CASE UNCHANGED vars
  BY <1>1, <1>12 DEF vars
<1> QED
  BY <1>2, <1>3, <1>4, <1>5, <1>6, <1>7, <1>8, <1>9, <1>10, <1>11, <1>12 DEF Next, Call, Step

LEMMA WaitStart == Init => WaitInv
<1> SUFFICES ASSUME Init PROVE MtxOwned /\ GatesOwned
  BY InitIInv DEF WaitInv
<1> QED BY DEF Init, MtxOwned, GatesOwned

\* Where everybody waits, who has a gate is recording, so mtx_ is taken, and its owner wants
\* the gate of one that records.
LEMMA StuckIsCircular == ASSUME WaitInv, Stuck PROVE \E t, u \in Threads : WaitForEachOther(t, u)
<1>0. /\ TypeOK /\ mtx \in Threads \cup {Free} /\ held \in [Gates -> Threads \cup {Free}]
      /\ \A t \in Threads : loc[t] \in Locals
  BY DEF WaitInv, IInv, TypeOK
\* Who holds a gate that is waited for is recording, and waits for mtx_.
<1>1. ASSUME NEW g \in Gates, held[g] # Free
      PROVE  held[g] \in Threads /\ pc[held[g]] = "record" /\ loc[held[g]].gate = g /\ mtx # Free
  <2>1. held[g] \in Threads /\ pc[held[g]] \in Holding /\ loc[held[g]].gate = g
    BY <1>0, <1>1 DEF WaitInv, GatesOwned
  <2>2. Waits(held[g])
    BY <2>1 DEF Stuck, Busy, Holding, Computing
  <2> QED BY <2>1, <2>2 DEF Waits, WantsNext, Holding, Computing
<1>2. mtx # Free
  <2>1. PICK t \in Busy : Waits(t)
    BY DEF Stuck
  <2>2. CASE pc[t] = "lock" /\ held[loc[t].gate] # Free
    <3>1. loc[t].gate \in Gates
      BY <2>2 DEF WaitInv, IInv, GatesKnown, Using, Busy
    <3> QED BY <1>1, <2>2, <3>1
  <2>3. CASE WantsNext(t) /\ held[NextGate(t)] # Free
    <3>1. NextGate(t) \in Gates
      BY <1>0, <2>3, EntryFacts DEF WantsNext, NextGate
    <3> QED BY <1>1, <2>3, <3>1
  <2> QED BY <2>1, <2>2, <2>3 DEF Waits
<1>3. mtx \in Threads /\ pc[mtx] \in {"next", "resetting"}
  BY <1>0, <1>2 DEF WaitInv, MtxOwned
<1>4. WantsNext(mtx) /\ held[NextGate(mtx)] # Free
  BY <1>3 DEF Stuck, Busy, Waits, WantsNext
<1>5. NextGate(mtx) \in Gates
  BY <1>0, <1>4, EntryFacts DEF WantsNext, NextGate
<1>6. WaitForEachOther(mtx, held[NextGate(mtx)])
  BY <1>1, <1>4, <1>5 DEF WaitForEachOther
<1> QED BY <1>1, <1>3, <1>4, <1>5, <1>6

\* Two threads that wait for each other do so for ever: no step of any thread and no change
\* of the entries lets one of them go on.
LEMMA CircleStays ==
  ASSUME WaitInv, NEW t \in Threads, NEW u \in Threads, WaitForEachOther(t, u), [Next]_vars
  PROVE  WaitForEachOther(t, u)'
<1> DEFINE g == NextGate(t)
<1>0. /\ TypeOK /\ mtx = t /\ mtx # Free /\ pc[t] = "next" /\ pc[u] = "record" /\ t # u
      /\ loc[t].k \in DOMAIN entries /\ entries[loc[t].k].alive /\ held[g] = u /\ u # Free
      /\ g \in Gates /\ held \in [Gates -> Threads \cup {Free}] /\ loc[u].gate = g
      /\ loc[t].k \in 1 .. Len(entries)
  <2>1. TypeOK /\ held \in [Gates -> Threads \cup {Free}]
    BY DEF WaitInv, IInv, TypeOK
  <2>2. g \in Gates
    BY <2>1, EntryFacts DEF WaitForEachOther, WantsNext, NextGate
  <2> QED BY <2>1, <2>2, FreeAssumption DEF WaitForEachOther, WantsNext, TypeOK
<1>1. ASSUME UNCHANGED <<entries, mtx>>, pc'[t] = pc[t], pc'[u] = pc[u], loc'[t] = loc[t], loc'[u] = loc[u],
             held'[g] = held[g]
      PROVE  WaitForEachOther(t, u)'
  BY <1>0, <1>1 DEF WaitForEachOther, WantsNext, NextGate
<1> HIDE DEF g
<1>2. CASE Configure
  BY <1>0, <1>2 DEF Configure, AddNew, Replace, RemoveBackend, Clear, SetStrategy, Configured
<1>3. ASSUME NEW v \in Threads, Call(v) PROVE FALSE
  BY <1>0, <1>3 DEF Call, BeginReset, Begin
<1>4. ASSUME NEW v \in Threads, Step(v) PROVE WaitForEachOther(t, u)'
  <2>1. v = t \/ pc[v] \notin {"next", "resetting"}
    BY <1>0 DEF WaitInv, MtxOwned
  <2>2. CASE LockGate(v)
    <3>1. v # t /\ v # u /\ loc[v].gate # g
      BY <1>0, <2>2 DEF LockGate
    <3>2. UNCHANGED <<entries, mtx, loc>> /\ pc' = [pc EXCEPT ![v] = "compute"]
          /\ held' = [held EXCEPT ![loc[v].gate] = v]
      BY <2>2 DEF LockGate, config
    <3> QED BY <1>0, <1>1, <3>1, <3>2 DEF TypeOK
  <2>3. CASE Leave(v)
    <3>1. v # t /\ v # u /\ pc[v] = "compute"
      BY <1>0, <2>3 DEF Leave
    <3>2. loc[v].gate # g
      BY <1>0, <3>1 DEF WaitInv, IInv, HoldersHold, Holding, Computing
    <3>3. UNCHANGED <<entries, mtx>> /\ pc' = [pc EXCEPT ![v] = "idle"]
          /\ held' = [held EXCEPT ![loc[v].gate] = Free] /\ loc' = [loc EXCEPT ![v] = NoLocals]
      BY <2>3 DEF Leave, Release, config
    <3> QED BY <1>0, <1>1, <3>1, <3>2, <3>3 DEF TypeOK
  <2>4. ASSUME NEW ms \in Times \cup {0}, Generated(v, ms) PROVE WaitForEachOther(t, u)'
    <3>1. v # t /\ v # u
      BY <1>0, <2>4 DEF Generated
    <3>2. UNCHANGED <<entries, mtx, held>> /\ pc' = [pc EXCEPT ![v] = "record"]
          /\ loc' = [loc EXCEPT ![v].ms = ms]
      BY <2>4 DEF Generated, config
    <3> QED BY <1>0, <1>1, <3>1, <3>2 DEF TypeOK
  <2>5. ~Record(v)
    BY <1>0 DEF Record
  <2>6. ~ResetOne(v) /\ ~ResetSkips(v) /\ ~ResetLocks(v) /\ ~EndReset(v)
    <3>1. ~ResetOne(v)
      BY <1>0, <2>1 DEF ResetOne
    <3>2. ~ResetSkips(v)
      BY <1>0, <2>1 DEF ResetSkips
    <3>3. ~EndReset(v)
      BY <1>0, <2>1 DEF EndReset
    <3>4. ~ResetLocks(v)
      BY <1>0, <2>1 DEF ResetLocks, g, NextGate
    <3> QED BY <3>1, <3>2, <3>3, <3>4
  <2> QED BY <1>4, <2>2, <2>3, <2>4, <2>5, <2>6 DEF Step
<1>5. CASE UNCHANGED vars
  BY <1>1, <1>5 DEF vars
<1> QED BY <1>2, <1>3, <1>4, <1>5 DEF Next

\* The router comes to a stand in one way only, for any number of threads and entries: a
\* thread in reset_all() has mtx_ and waits for the gate of an entry, and the thread that has
\* this gate is back from the backend's generate() and waits for mtx_ to note its latency.
\* Once there, it stays so.  Where no reset_all() meets a generate(), nobody waits for ever.
THEOREM OnlyResetAllBlocks ==
  Spec => /\ [](Stuck => \E t, u \in Threads : WaitForEachOther(t, u))
          /\ [][\A t, u \in Threads : WaitForEachOther(t, u) => WaitForEachOther(t, u)']_vars
<1>1. WaitInv => (Stuck => \E t, u \in Threads : WaitForEachOther(t, u))
  BY StuckIsCircular
<1>2. WaitInv /\ [Next]_vars =>
        [\A t, u \in Threads : WaitForEachOther(t, u) => WaitForEachOther(t, u)']_vars
  BY CircleStays
<1> QED BY <1>1, <1>2, WaitStart, WaitStep, PTL DEF Spec

=============================================================================
