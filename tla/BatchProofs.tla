----------------------------- MODULE BatchProofs ------------------------------
(***************************************************************************)
(* For every number of slots, requests and tokens, and every max_tokens:   *)
(* the invariants of BatchScheduler, and that it implements the safety     *)
(* part of CompletionService.  Everything follows from one inductive       *)
(* invariant, IInv.  For every number of handlers and every prompt length: *)
(* BatchedCompletions implements BatchScheduler, the completions of        *)
(* unified_server are computed from their own context, chat turns from     *)
(* theirs, and the batched callback never waits for a handler.             *)
(***************************************************************************)
EXTENDS BatchedCompletions, FiniteSetTheorems, TLAPS

\* The output of a slot is an answer in the making: no end-of-sequence token,
\* and short of the limit, so that one more token makes a valid prefix.
OutputsOpen ==
  \A s \in Active :
    /\ \A k \in 1 .. Len(slots[s].output) : slots[s].output[k] # Eos
    /\ slots[s].output = <<>> \/ Len(slots[s].output) < MaxTokens[slots[s].req]

\* Results wait only for slots that are decoding.
ResultsDecoding == pc = "deliver" => DOMAIN results \subseteq SlotsIn("DECODING")

\* A promise is set only for a submitted request, to a valid answer.
AnswersValid ==
  \A r \in Requests : answer[r] # <<>> =>
    client[r] # "new" /\ Service!ValidAnswer(r, answer[r])

\* The flag and the progress of the destructor agree.
StopAgrees == running <=> owner = "alive"

\* Only the wait of the loop sleeps, and what it sleeps on is announced.
SleepAgrees == asleep => pc = "wait"

IInv == TypeOK /\ OnePlace /\ NoRequestLost /\ OutputsOpen /\ ResultsDecoding
        /\ AnswersValid /\ StopAgrees /\ SleepAgrees /\ NoLostWakeup
        /\ DrainedBeforeJoin

-----------------------------------------------------------------------------
(* The number of slots in a state is a number. *)
LEMMA SlotCount == \A st : Cardinality(SlotsIn(st)) \in Nat
<1>1. IsFiniteSet(Slots)
  BY FS_Interval, NumSlotsAssumption DEF Slots
<1> QED
  BY <1>1, FS_Subset, FS_CardinalityType DEF SlotsIn

(* The initial state. *)
LEMMA InitIInv == Init => IInv
<1> SUFFICES ASSUME Init PROVE IInv
  OBVIOUS
<1>1. Active = {}
  BY DEF Init, Active, Idle, SlotsIn
<1>2. TypeOK
  <2>1. \A S : <<>> \in Seq(S)
    OBVIOUS
  <2>2. slots \in [Slots -> SlotRecords]
    BY <2>1 DEF Init, SlotRecords
  <2>3. answer \in [Requests -> Seq(Tokens)]
    BY <2>1 DEF Init
  <2>4. DOMAIN results = {}
    BY DEF Init
  <2> QED
    BY <2>1, <2>2, <2>3, <2>4 DEF Init, TypeOK
<1>3. OnePlace /\ NoRequestLost /\ OutputsOpen
  BY <1>1 DEF Init, OnePlace, NoRequestLost, OutputsOpen, Queued, Accepted
<1>4. ResultsDecoding /\ AnswersValid /\ StopAgrees /\ SleepAgrees
  BY DEF Init, ResultsDecoding, AnswersValid, StopAgrees, SleepAgrees
<1>5. NoLostWakeup /\ DrainedBeforeJoin
  BY DEF Init, NoLostWakeup, DrainedBeforeJoin
<1> QED
  BY <1>2, <1>3, <1>4, <1>5 DEF IInv

(* submit() puts a request that is nowhere yet at the end of the queue. *)
LEMMA SubmitStep ==
  ASSUME IInv, NEW r \in Requests, Submit(r)
  PROVE  IInv'
<1> USE DEF IInv
<1>1. pending \in Seq(Requests) /\ pending' = Append(pending, r)
  BY DEF TypeOK, Submit
<1>2. TypeOK'
  BY <1>1 DEF TypeOK, Submit
<1>3. slots' = slots /\ Active' = Active /\ SlotsIn("DECODING")' = SlotsIn("DECODING")
  BY DEF Submit, Active, Idle, SlotsIn
<1>4. Queued' = Queued \cup {r}
  BY <1>1 DEF Queued
<1>5. r \notin Accepted /\ Accepted' = Accepted \cup {r}
  BY DEF Submit, Accepted, AnswersValid, TypeOK
<1>6. \A j, k \in 1 .. Len(pending') : pending'[j] = pending'[k] => j = k
  BY <1>1, <1>5 DEF OnePlace, Queued
<1>7. OnePlace'
  BY <1>3, <1>4, <1>5, <1>6 DEF OnePlace
<1>8. NoRequestLost' /\ OutputsOpen' /\ ResultsDecoding'
  BY <1>3, <1>4, <1>5 DEF Submit, NoRequestLost, OutputsOpen, ResultsDecoding
<1>9. AnswersValid'
  BY DEF Submit, AnswersValid, TypeOK, Service!ValidAnswer
<1>10. StopAgrees' /\ SleepAgrees' /\ DrainedBeforeJoin'
  BY DEF Submit, StopAgrees, SleepAgrees, DrainedBeforeJoin
<1>11. NoLostWakeup'
  BY DEF Submit, NoLostWakeup, TypeOK
<1> QED
  BY <1>2, <1>7, <1>8, <1>9, <1>10, <1>11

(* A step that moves no request and changes no output keeps the conjuncts  *)
(* about them.                                                             *)
LEMMA RequestsUnmoved ==
  ASSUME IInv, pending' = pending, slots' = slots, answer' = answer,
         \A r \in Requests : client'[r] = "new" <=> client[r] = "new"
  PROVE  /\ OnePlace' /\ NoRequestLost' /\ OutputsOpen' /\ AnswersValid'
         /\ Active' = Active /\ Accepted' = Accepted
         /\ \A st : SlotsIn(st)' = SlotsIn(st)
<1>1. \A st : SlotsIn(st)' = SlotsIn(st)
  BY DEF SlotsIn
<1>2. Active' = Active /\ Queued' = Queued /\ Accepted' = Accepted
  BY DEF Active, Idle, SlotsIn, Queued, Accepted
<1>3. OnePlace' /\ NoRequestLost' /\ OutputsOpen'
  BY <1>2 DEF IInv, OnePlace, NoRequestLost, OutputsOpen
<1>4. AnswersValid'
  BY DEF IInv, AnswersValid, Service!ValidAnswer
<1> QED
  BY <1>1, <1>2, <1>3, <1>4

(* The notification after submit(), and the return of the future. *)
LEMMA ClientStep ==
  ASSUME IInv, NEW r \in Requests, Notify(r) \/ Get(r)
  PROVE  IInv'
<1>1. TypeOK'
  BY DEF IInv, TypeOK, Notify, Get
<1>2. \A q \in Requests : client'[q] = "new" <=> client[q] = "new"
  BY DEF IInv, TypeOK, Notify, Get
<1>3. /\ OnePlace' /\ NoRequestLost' /\ OutputsOpen' /\ AnswersValid'
      /\ Active' = Active /\ Accepted' = Accepted
      /\ \A st : SlotsIn(st)' = SlotsIn(st)
  BY <1>2, RequestsUnmoved DEF Notify, Get
<1>4. ResultsDecoding' /\ StopAgrees' /\ SleepAgrees' /\ DrainedBeforeJoin'
  BY <1>3 DEF IInv, Notify, Get, ResultsDecoding, StopAgrees, SleepAgrees, DrainedBeforeJoin
<1>5. NoLostWakeup'
  <2>1. CASE Notify(r)
    BY <2>1 DEF Notify, NoLostWakeup
  <2>2. CASE Get(r)
    <3>1. \A q \in Requests : client[q] = "notify" => client'[q] = "notify"
      BY <2>2 DEF Get, IInv, TypeOK
    <3> QED
      BY <2>2, <3>1, <1>3 DEF Get, IInv, NoLostWakeup, WorkToDo
  <2> QED
    BY <2>1, <2>2
<1> QED
  BY <1>1, <1>3, <1>4, <1>5 DEF IInv

(* The wait of the loop. *)
LEMMA WaitStep ==
  ASSUME IInv, Sleep \/ SpuriousWakeup \/ WakeUp
  PROVE  IInv'
<1> USE DEF DecodeLocal, Sleep, SpuriousWakeup, WakeUp
<1>1. TypeOK'
  BY DEF IInv, TypeOK
<1>2. /\ OnePlace' /\ NoRequestLost' /\ OutputsOpen' /\ AnswersValid'
      /\ Active' = Active /\ Accepted' = Accepted
      /\ \A st : SlotsIn(st)' = SlotsIn(st)
  BY RequestsUnmoved
<1>3. ResultsDecoding' /\ StopAgrees' /\ SleepAgrees'
  BY DEF IInv, ResultsDecoding, StopAgrees, SleepAgrees
<1>4. NoLostWakeup'
  <2>1. WorkToDo' <=> WorkToDo
    BY <1>2 DEF WorkToDo
  <2>2. Sleep => ~WorkToDo
    OBVIOUS
  <2>3. SpuriousWakeup \/ WakeUp => ~asleep'
    OBVIOUS
  <2> QED
    BY <2>1, <2>2, <2>3 DEF NoLostWakeup
<1>5. DrainedBeforeJoin'
  <2>1. CASE pc' = "exited"
    <3>1. ~running /\ pending = <<>> /\ Active = {}
      BY <2>1
    <3>2. Queued = {}
      BY <3>1 DEF Queued
    <3>3. Accepted = {}
      BY <3>1, <3>2 DEF IInv, NoRequestLost
    <3> QED
      BY <3>1, <3>3, <1>2 DEF DrainedBeforeJoin
  <2> QED
    BY <2>1 DEF DrainedBeforeJoin
<1> QED
  BY <1>1, <1>2, <1>3, <1>4, <1>5 DEF IInv

(* The steps of a pass that move the decode thread on and nothing else. *)
LEMMA PassStep ==
  ASSUME IInv, AdmitDone \/ PrefillDone \/ Decode \/ DecodeFails \/ DeliverDone
  PROVE  IInv'
<1> USE DEF DecodeLocal, AdmitDone, PrefillDone, Decode, DecodeFails, DeliverDone
<1>1. TypeOK'
  <2>1. \A st : SlotsIn(st) \subseteq Slots
    BY DEF SlotsIn
  <2>2. activeCount' \in Nat
    BY SlotCount DEF IInv, TypeOK
  <2>3. DOMAIN results' \subseteq Slots /\ \A s \in DOMAIN results' : results'[s] \in Tokens
    BY <2>1 DEF IInv, TypeOK
  <2> QED
    BY <2>2, <2>3 DEF IInv, TypeOK
<1>2. /\ OnePlace' /\ NoRequestLost' /\ OutputsOpen' /\ AnswersValid'
      /\ Active' = Active /\ Accepted' = Accepted
      /\ \A st : SlotsIn(st)' = SlotsIn(st)
  BY RequestsUnmoved
<1>3. ~asleep /\ ~asleep'
  BY DEF IInv, SleepAgrees
<1>4. ResultsDecoding'
  BY <1>2 DEF IInv, ResultsDecoding
<1>5. StopAgrees' /\ SleepAgrees' /\ NoLostWakeup' /\ DrainedBeforeJoin'
  BY <1>3 DEF IInv, StopAgrees, SleepAgrees, NoLostWakeup, DrainedBeforeJoin
<1> QED
  BY <1>1, <1>2, <1>4, <1>5 DEF IInv

(* The destructor. *)
LEMMA DestructorStep ==
  ASSUME IInv, Stop \/ StopNotify \/ Join
  PROVE  IInv'
<1> USE DEF OwnerLocal, Stop, StopNotify, Join
<1>1. TypeOK'
  BY DEF IInv, TypeOK
<1>2. /\ OnePlace' /\ NoRequestLost' /\ OutputsOpen' /\ AnswersValid'
      /\ Active' = Active /\ Accepted' = Accepted
      /\ \A st : SlotsIn(st)' = SlotsIn(st)
  BY RequestsUnmoved
<1>3. ResultsDecoding' /\ StopAgrees' /\ SleepAgrees' /\ DrainedBeforeJoin'
  BY <1>2 DEF IInv, ResultsDecoding, StopAgrees, SleepAgrees, DrainedBeforeJoin
<1>4. NoLostWakeup'
  BY <1>2 DEF IInv, NoLostWakeup, WorkToDo, SleepAgrees
<1> QED
  BY <1>1, <1>2, <1>3, <1>4 DEF IInv

(* admit_pending() moves the head of the queue into an idle slot. *)
LEMMA AdmitSlotStep ==
  ASSUME IInv, NEW s \in Slots, AdmitSlot(s)
  PROVE  IInv'
<1> DEFINE r == Head(pending)
<1>1. /\ pc = "admit" /\ pc' = "admit" /\ pending # <<>> /\ slots[s].state = "IDLE"
      /\ slots' = [slots EXCEPT ![s] = [state |-> "PREFILLING", req |-> r, output |-> <<>>]]
      /\ pending' = Tail(pending)
      /\ UNCHANGED <<asleep, results, activeCount, answer, running, client, owner>>
  BY DEF AdmitSlot, IsFirst, Idle, SlotsIn, DecodeLocal
<1>2. pending \in Seq(Requests) /\ slots \in [Slots -> SlotRecords]
  BY DEF IInv, TypeOK
<1>3. r \in Requests /\ r \in Queued
  BY <1>1, <1>2 DEF Queued
<1>4. \A k \in 1 .. Len(pending') : pending'[k] = pending[k + 1] /\ k + 1 \in 1 .. Len(pending)
  BY <1>1, <1>2
<1>5. Queued' = Queued \ {r}
  <2>1. \A q : q \in Queued' => q \in Queued \ {r}
    BY <1>1, <1>2, <1>4 DEF Queued, IInv, OnePlace
  <2>2. ASSUME NEW q \in Queued \ {r} PROVE q \in Queued'
    <3>1. PICK k \in 1 .. Len(pending) : pending[k] = q
      BY DEF Queued
    <3>2. k # 1
      BY <1>1, <1>2, <3>1
    <3>3. k - 1 \in 1 .. Len(pending') /\ pending'[k - 1] = q
      BY <1>1, <1>2, <3>1, <3>2
    <3> QED
      BY <3>3 DEF Queued
  <2> QED
    BY <2>1, <2>2
<1>6. Active' = Active \cup {s} /\ s \notin Active
  BY <1>1, <1>2 DEF Active, Idle, SlotsIn
<1>7. slots'[s].req = r /\ slots'[s].output = <<>> /\ \A t \in Active : slots'[t] = slots[t]
  BY <1>1, <1>2, <1>6 DEF Active
<1>8. TypeOK'
  <2>1. [state |-> "PREFILLING", req |-> r, output |-> <<>>] \in SlotRecords
    BY <1>3 DEF SlotRecords
  <2>2. slots' \in [Slots -> SlotRecords]
    BY <2>1, <1>1, <1>2
  <2>3. pending' \in Seq(Requests)
    BY <1>1, <1>2
  <2> QED
    BY <1>1, <2>2, <2>3 DEF IInv, TypeOK
<1>9. Accepted' = Accepted
  BY <1>1 DEF Accepted
<1>10. OnePlace'
  <2>1. \A j, k \in 1 .. Len(pending') : pending'[j] = pending'[k] => j = k
    BY <1>1, <1>2, <1>4 DEF IInv, OnePlace
  <2>2. \A t \in Active' : slots'[t].req \in Accepted' \ Queued'
    BY <1>3, <1>5, <1>6, <1>7, <1>9 DEF IInv, OnePlace
  <2>3. \A t, u \in Active' : slots'[t].req = slots'[u].req => t = u
    BY <1>3, <1>6, <1>7 DEF IInv, OnePlace
  <2>4. Queued' \subseteq Accepted'
    BY <1>5, <1>9 DEF IInv, OnePlace
  <2> QED
    BY <2>1, <2>2, <2>3, <2>4 DEF OnePlace
<1>11. NoRequestLost'
  BY <1>5, <1>6, <1>7, <1>9 DEF IInv, NoRequestLost
<1>12. OutputsOpen'
  BY <1>6, <1>7 DEF IInv, OutputsOpen
<1>13. ResultsDecoding' /\ StopAgrees' /\ SleepAgrees' /\ NoLostWakeup' /\ DrainedBeforeJoin'
  BY <1>1 DEF IInv, ResultsDecoding, StopAgrees, SleepAgrees, NoLostWakeup, DrainedBeforeJoin
<1>14. AnswersValid'
  BY <1>1 DEF IInv, AnswersValid, Service!ValidAnswer
<1> QED
  BY <1>8, <1>10, <1>11, <1>12, <1>13, <1>14 DEF IInv

(* The prefill of a slot changes its state only. *)
LEMMA PrefillSlotStep ==
  ASSUME IInv, NEW s \in Slots, PrefillSlot(s)
  PROVE  IInv'
<1>1. /\ pc = "prefill" /\ slots[s].state = "PREFILLING"
      /\ slots' = [slots EXCEPT ![s].state = "DECODING"]
      /\ UNCHANGED <<pending, pc, asleep, results, activeCount, answer, running, client, owner>>
  BY DEF PrefillSlot, IsFirst, SlotsIn, DecodeLocal
<1>2. slots \in [Slots -> SlotRecords]
  BY DEF IInv, TypeOK
<1>3. slots' \in [Slots -> SlotRecords]
  BY <1>1, <1>2 DEF SlotRecords
<1>4. \A t \in Slots : slots'[t].req = slots[t].req /\ slots'[t].output = slots[t].output
  BY <1>1, <1>2 DEF SlotRecords
<1>5. Active' = Active
  BY <1>1, <1>2 DEF Active, Idle, SlotsIn, SlotRecords
<1>6. Queued' = Queued /\ Accepted' = Accepted
  BY <1>1 DEF Queued, Accepted
<1>7. TypeOK'
  BY <1>1, <1>3 DEF IInv, TypeOK
<1>8. OnePlace' /\ NoRequestLost' /\ OutputsOpen'
  BY <1>1, <1>4, <1>5, <1>6 DEF IInv, OnePlace, NoRequestLost, OutputsOpen, Active
<1>9. ResultsDecoding' /\ StopAgrees' /\ SleepAgrees' /\ NoLostWakeup' /\ DrainedBeforeJoin'
  BY <1>1 DEF IInv, ResultsDecoding, StopAgrees, SleepAgrees, NoLostWakeup, DrainedBeforeJoin
<1>10. AnswersValid'
  BY <1>1 DEF IInv, AnswersValid, Service!ValidAnswer
<1> QED
  BY <1>7, <1>8, <1>9, <1>10 DEF IInv

(* One more token makes an open output an open output, or a valid answer. *)
LEMMA OneMoreToken ==
  ASSUME IInv, NEW s \in Active, NEW tok \in Tokens
  PROVE  LET r == slots[s].req
             output == Append(slots[s].output, tok)
         IN  /\ output \in Seq(Tokens) /\ output # <<>>
             /\ Stops(r, output) => Service!ValidAnswer(r, output)
             /\ ~Stops(r, output) =>
                  /\ \A k \in 1 .. Len(output) : output[k] # Eos
                  /\ Len(output) < MaxTokens[r]
<1> DEFINE r == slots[s].req
           old == slots[s].output
           output == Append(old, tok)
<1>1. old \in Seq(Tokens) /\ r \in Requests
  BY DEF IInv, TypeOK, SlotRecords, OnePlace, Accepted, Active
<1>2. MaxTokens[r] \in Nat
  BY <1>1, MaxTokensAssumption
<1>3. /\ output \in Seq(Tokens) /\ Len(output) = Len(old) + 1 /\ output[Len(output)] = tok
      /\ \A k \in 1 .. Len(old) : output[k] = old[k]
  BY <1>1
<1>4. /\ \A k \in 1 .. Len(old) : old[k] # Eos
      /\ Len(old) = 0 \/ Len(old) < MaxTokens[r]
  BY <1>1 DEF IInv, OutputsOpen
<1>5. output # <<>>
  BY <1>1, <1>3
<1>6. Stops(r, output) => Service!ValidAnswer(r, output)
  BY <1>1, <1>2, <1>3, <1>4, <1>5 DEF Stops, Service!ValidAnswer
<1>7. ~Stops(r, output) =>
        (\A k \in 1 .. Len(output) : output[k] # Eos) /\ Len(output) < MaxTokens[r]
  BY <1>1, <1>2, <1>3, <1>4 DEF Stops
<1> QED
  BY <1>3, <1>5, <1>6, <1>7

(* Handing a token to a slot: what Deliver does, with the facts that its   *)
(* two outcomes share.                                                     *)
LEMMA DeliverFacts ==
  ASSUME IInv, NEW s \in Slots, Deliver(s)
  PROVE  LET r == slots[s].req
             output == Append(slots[s].output, results[s])
         IN  /\ pc = "deliver" /\ s \in Active /\ slots[s].state = "DECODING"
             /\ r \in Accepted \ Queued /\ output \in Seq(Tokens) /\ output # <<>>
             /\ ~asleep
             /\ DOMAIN results' = DOMAIN results \ {s}
             /\ \A t \in DOMAIN results' : results'[t] = results[t]
             /\ UNCHANGED <<pending, pc, asleep, activeCount, running, client, owner>>
             /\ Stops(r, output) =>
                  /\ Service!ValidAnswer(r, output)
                  /\ answer' = [answer EXCEPT ![r] = output]
                  /\ slots' = [slots EXCEPT ![s].state = "IDLE", ![s].output = <<>>]
             /\ ~Stops(r, output) =>
                  /\ \A k \in 1 .. Len(output) : output[k] # Eos
                  /\ Len(output) < MaxTokens[r]
                  /\ slots' = [slots EXCEPT ![s].output = output]
                  /\ answer' = answer
<1>1. pc = "deliver" /\ s \in DOMAIN results
  BY DEF Deliver, IsFirst
<1>2. s \in Active /\ slots[s].state = "DECODING"
  BY <1>1 DEF IInv, ResultsDecoding, SlotsIn, Active, Idle
<1>3. results[s] \in Tokens
  BY <1>1 DEF IInv, TypeOK
<1>4. slots[s].req \in Accepted \ Queued
  BY <1>2 DEF IInv, OnePlace
<1>5. ~asleep
  BY <1>1 DEF IInv, SleepAgrees
<1> HIDE DEF IInv
<1>6. /\ DOMAIN results' = DOMAIN results \ {s}
      /\ \A t \in DOMAIN results' : results'[t] = results[t]
  BY DEF Deliver
<1> QED
  BY <1>1, <1>2, <1>3, <1>4, <1>5, <1>6, OneMoreToken DEF Deliver, DecodeLocal

\* A delivery appends a token, and answers or keeps the slot: the open outputs stay open.
LEMMA DeliverStep ==
  ASSUME IInv, NEW s \in Slots, Deliver(s)
  PROVE  IInv'
<1> DEFINE r == slots[s].req
           output == Append(slots[s].output, results[s])
<1> HIDE DEF output
<1>1. /\ pc = "deliver" /\ s \in Active /\ slots[s].state = "DECODING"
      /\ r \in Accepted \ Queued /\ output \in Seq(Tokens) /\ output # <<>>
      /\ ~asleep
      /\ DOMAIN results' = DOMAIN results \ {s}
      /\ \A t \in DOMAIN results' : results'[t] = results[t]
      /\ UNCHANGED <<pending, pc, asleep, activeCount, running, client, owner>>
  BY DeliverFacts DEF output
<1>2. slots \in [Slots -> SlotRecords] /\ answer \in [Requests -> Seq(Tokens)]
  BY DEF IInv, TypeOK
<1>3. StopAgrees' /\ SleepAgrees' /\ NoLostWakeup' /\ DrainedBeforeJoin'
  BY <1>1 DEF IInv, StopAgrees, SleepAgrees, NoLostWakeup, DrainedBeforeJoin
<1>4. Queued' = Queued /\ r \in Requests
  BY <1>1 DEF Queued, Accepted
<1>5. CASE Stops(r, output)
  <2>1. /\ Service!ValidAnswer(r, output)
        /\ answer' = [answer EXCEPT ![r] = output]
        /\ slots' = [slots EXCEPT ![s].state = "IDLE", ![s].output = <<>>]
    BY <1>5, DeliverFacts DEF output
  <2>2. slots' \in [Slots -> SlotRecords]
    <3>1. <<>> \in Seq(Tokens)
      OBVIOUS
    <3> QED
      BY <1>2, <2>1, <3>1 DEF SlotRecords
  <2>3. \A t \in Slots \ {s} : slots'[t] = slots[t]
    BY <1>2, <2>1
  <2>4. Active' = Active \ {s}
    BY <1>1, <1>2, <2>1, <2>3 DEF Active, Idle, SlotsIn, SlotRecords
  <2>5. Accepted' = Accepted \ {r}
    BY <1>1, <1>2, <1>4, <2>1 DEF Accepted
  <2>6. TypeOK'
    BY <1>1, <1>2, <1>4, <2>1, <2>2 DEF IInv, TypeOK
  <2>7. \A t \in Active' : slots'[t] = slots[t] /\ slots[t].req # r
    BY <1>1, <2>3, <2>4 DEF IInv, OnePlace, Active
  <2>8. OnePlace'
    BY <1>1, <1>4, <2>4, <2>5, <2>7 DEF IInv, OnePlace
  <2>9. NoRequestLost'
    BY <1>1, <1>4, <2>4, <2>5, <2>7 DEF IInv, NoRequestLost
  <2>10. OutputsOpen'
    BY <2>4, <2>7 DEF IInv, OutputsOpen
  <2>11. ResultsDecoding'
    BY <1>1, <2>3 DEF IInv, ResultsDecoding, SlotsIn
  <2>12. AnswersValid'
    <3>1. client'[r] # "new" /\ answer'[r] = output
      BY <1>1, <1>2, <1>4, <2>1 DEF Accepted
    <3>2. \A q \in Requests \ {r} : answer'[q] = answer[q] /\ client'[q] = client[q]
      BY <1>1, <1>2, <2>1
    <3> QED
      BY <2>1, <3>1, <3>2 DEF IInv, AnswersValid, Service!ValidAnswer
  <2> QED
    BY <1>3, <2>6, <2>8, <2>9, <2>10, <2>11, <2>12 DEF IInv
<1>6. CASE ~Stops(r, output)
  <2>1. /\ \A k \in 1 .. Len(output) : output[k] # Eos
        /\ Len(output) < MaxTokens[r]
        /\ slots' = [slots EXCEPT ![s].output = output]
        /\ answer' = answer
    BY <1>6, DeliverFacts DEF output
  <2>2. slots' \in [Slots -> SlotRecords]
    BY <1>1, <1>2, <2>1 DEF SlotRecords
  <2>3. /\ \A t \in Slots : slots'[t].req = slots[t].req /\ slots'[t].state = slots[t].state
        /\ \A t \in Slots \ {s} : slots'[t] = slots[t]
        /\ slots'[s].output = output
    BY <1>1, <1>2, <2>1 DEF SlotRecords
  <2>4. Active' = Active /\ Accepted' = Accepted
    BY <1>1, <1>2, <2>1, <2>3 DEF Active, Idle, SlotsIn, Accepted
  <2>5. TypeOK'
    BY <1>1, <1>2, <2>1, <2>2 DEF IInv, TypeOK
  <2>6. OnePlace' /\ NoRequestLost'
    BY <1>1, <1>4, <2>3, <2>4 DEF IInv, OnePlace, NoRequestLost, Active
  <2>7. OutputsOpen'
    BY <1>1, <2>1, <2>3, <2>4 DEF IInv, OutputsOpen, Active
  <2>8. ResultsDecoding'
    BY <1>1, <2>3 DEF IInv, ResultsDecoding, SlotsIn
  <2>9. AnswersValid'
    BY <1>1, <2>1 DEF IInv, AnswersValid, Service!ValidAnswer
  <2> QED
    BY <1>3, <2>5, <2>6, <2>7, <2>8, <2>9 DEF IInv
<1> QED
  BY <1>5, <1>6

-----------------------------------------------------------------------------
(* IInv is inductive. *)
LEMMA Inductive == IInv /\ [Next]_schedVars => IInv'
<1> SUFFICES ASSUME IInv, [Next]_schedVars PROVE IInv'
  OBVIOUS
<1>1. ASSUME NEW r \in Requests, Client(r) PROVE IInv'
  BY <1>1, SubmitStep, ClientStep DEF Client
<1>2. ASSUME NEW s \in Slots, AdmitSlot(s) \/ PrefillSlot(s) \/ Deliver(s) PROVE IInv'
  BY <1>2, AdmitSlotStep, PrefillSlotStep, DeliverStep
<1>3. CASE DecodeThread \/ SpuriousWakeup
  BY <1>2, <1>3, WaitStep, PassStep DEF DecodeThread
<1>4. CASE Destructor
  BY <1>4, DestructorStep DEF Destructor
<1>5. CASE UNCHANGED schedVars
  <2>1. /\ OnePlace' /\ NoRequestLost' /\ OutputsOpen' /\ AnswersValid'
        /\ Active' = Active /\ Accepted' = Accepted
        /\ \A st : SlotsIn(st)' = SlotsIn(st)
    BY <1>5, RequestsUnmoved DEF schedVars
  <2>2. TypeOK'
    BY <1>5 DEF IInv, TypeOK, schedVars
  <2>3. ResultsDecoding' /\ StopAgrees' /\ SleepAgrees' /\ DrainedBeforeJoin'
    BY <1>5, <2>1 DEF IInv, ResultsDecoding, StopAgrees, SleepAgrees, DrainedBeforeJoin, schedVars
  <2>4. NoLostWakeup'
    BY <1>5, <2>1 DEF IInv, NoLostWakeup, WorkToDo, schedVars
  <2> QED
    BY <2>1, <2>2, <2>3, <2>4 DEF IInv
<1> QED
  BY <1>1, <1>3, <1>4, <1>5 DEF Next, Running, Finished

(* The inductive invariant holds in every reachable state. *)
THEOREM InvariantHolds == Spec => []IInv
<1> QED
  BY InitIInv, Inductive, PTL DEF Spec

(* Type correctness: the variables of the scheduler keep their ranges. *)
THEOREM TypeCorrect == Spec => []TypeOK
<1>1. IInv => TypeOK
  BY DEF IInv
<1> QED
  BY <1>1, InvariantHolds, PTL

(* No promise is set twice and no request is decoded twice: a request is   *)
(* in the queue once, or in one slot.                                      *)
THEOREM EachRequestInOnePlace == Spec => []OnePlace
<1>1. IInv => OnePlace
  BY DEF IInv
<1> QED
  BY <1>1, InvariantHolds, PTL

(* A request that was accepted and not answered is in the queue or in a    *)
(* slot, wherever admission, completion and shutdown are.                  *)
THEOREM NoneIsLost == Spec => []NoRequestLost
<1>1. IInv => NoRequestLost
  BY DEF IInv
<1> QED
  BY <1>1, InvariantHolds, PTL

(* Whatever the interleaving of submit(), the wait of run() and the        *)
(* destructor, the decode thread does not sleep on work unannounced.       *)
THEOREM WakeupsNotLost == Spec => []NoLostWakeup
<1>1. IInv => NoLostWakeup
  BY DEF IInv
<1> QED
  BY <1>1, InvariantHolds, PTL

(* The thread the destructor joins left nothing unanswered. *)
THEOREM DrainedAtExit == Spec => []DrainedBeforeJoin
<1>1. IInv => DrainedBeforeJoin
  BY DEF IInv
<1> QED
  BY <1>1, InvariantHolds, PTL

-----------------------------------------------------------------------------
(* The refinement: submit() accepts, the last token of a slot answers, and *)
(* no other step shows to the callers.                                     *)
LEMMA InitRefines == Init => Service!Init
  BY DEF Init, Service!Init, phaseOf

\* Steps that change neither the phase nor the answer of a request are not seen by the service.
LEMMA UnseenStep ==
  ASSUME client' = client \/ (\A r \in Requests : client'[r] = "new" <=> client[r] = "new"),
         answer' = answer
  PROVE  UNCHANGED <<phaseOf, answer>>
  BY DEF phaseOf

\* submit() is the service's Accept.
LEMMA SubmitRefines ==
  ASSUME IInv, NEW r \in Requests, Submit(r)
  PROVE  Service!Accept(r)
<1>1. client[r] = "new" /\ client' = [client EXCEPT ![r] = "notify"] /\ answer' = answer
  BY DEF Submit
<1>2. client \in [Requests -> {"new", "notify", "get", "done"}] /\ answer[r] = <<>>
  BY <1>1 DEF IInv, TypeOK, AnswersValid
<1>3. phaseOf[r] = "new"
  BY <1>1 DEF phaseOf
<1>4. phaseOf' = [phaseOf EXCEPT ![r] = "accepted"]
  BY <1>1, <1>2 DEF phaseOf
<1> QED
  BY <1>1, <1>3, <1>4 DEF Service!Accept

\* A delivery that completes a request is the service's Answer; any other is not seen.
LEMMA DeliverRefines ==
  ASSUME IInv, NEW s \in Slots, Deliver(s)
  PROVE  (\E r \in Requests : Service!Answer(r)) \/ UNCHANGED <<phaseOf, answer>>
<1> DEFINE r == slots[s].req
           output == Append(slots[s].output, results[s])
<1>1. r \in Accepted /\ client' = client /\ output \in Seq(Tokens) /\ output # <<>>
  BY DeliverFacts
<1> HIDE DEF output
<1>2. answer \in [Requests -> Seq(Tokens)] /\ r \in Requests
  BY <1>1 DEF IInv, TypeOK, Accepted
<1>3. CASE Stops(r, output)
  <2>1. Service!ValidAnswer(r, output) /\ answer' = [answer EXCEPT ![r] = output]
    BY <1>3, DeliverFacts DEF output
  <2>2. answer'[r] = output
    BY <1>2, <2>1
  <2>3. phaseOf[r] = "accepted"
    BY <1>1, <1>2 DEF phaseOf, Accepted
  <2>4. phaseOf' = [phaseOf EXCEPT ![r] = "answered"]
    BY <1>1, <1>2, <2>1, <2>2 DEF phaseOf, Accepted
  <2>5. Service!Answer(r)
    BY <2>1, <2>2, <2>3, <2>4 DEF Service!Answer
  <2> QED
    BY <1>2, <2>5
<1>4. CASE ~Stops(r, output)
  <2>1. answer' = answer
    BY <1>4, DeliverFacts DEF output
  <2> QED
    BY <1>1, <2>1, UnseenStep
<1> QED
  BY <1>3, <1>4

\* Every step of the scheduler is a step of the service or none.
LEMMA StepRefines == IInv /\ [Next]_schedVars => [Service!Next]_<<phaseOf, answer>>
<1> SUFFICES ASSUME IInv, [Next]_schedVars
             PROVE  Service!Next \/ UNCHANGED <<phaseOf, answer>>
  OBVIOUS
<1>1. ASSUME NEW r \in Requests, Client(r)
      PROVE  Service!Next \/ UNCHANGED <<phaseOf, answer>>
  <2>1. CASE Submit(r)
    BY <2>1, SubmitRefines DEF Service!Next
  <2>2. CASE Notify(r) \/ Get(r)
    <3>1. \A q \in Requests : client'[q] = "new" <=> client[q] = "new"
      BY <2>2 DEF IInv, TypeOK, Notify, Get
    <3>2. answer' = answer
      BY <2>2 DEF Notify, Get
    <3> QED
      BY <3>1, <3>2, UnseenStep
  <2> QED
    BY <1>1, <2>1, <2>2 DEF Client
<1>2. ASSUME NEW s \in Slots, AdmitSlot(s) \/ PrefillSlot(s) \/ Deliver(s)
      PROVE  Service!Next \/ UNCHANGED <<phaseOf, answer>>
  <2>1. CASE AdmitSlot(s) \/ PrefillSlot(s)
    BY <2>1, UnseenStep DEF AdmitSlot, PrefillSlot, DecodeLocal
  <2>2. CASE Deliver(s)
    BY <2>2, DeliverRefines DEF Service!Next
  <2> QED
    BY <1>2, <2>1, <2>2
<1>3. CASE Sleep \/ SpuriousWakeup \/ WakeUp
  BY <1>3, UnseenStep DEF Sleep, SpuriousWakeup, WakeUp, DecodeLocal
<1>4. CASE AdmitDone \/ PrefillDone \/ Decode \/ DecodeFails \/ DeliverDone
  BY <1>4, UnseenStep DEF AdmitDone, PrefillDone, Decode, DecodeFails, DeliverDone, DecodeLocal
<1>5. CASE Destructor
  BY <1>5, UnseenStep DEF Destructor, Stop, StopNotify, Join, OwnerLocal
<1>6. CASE UNCHANGED schedVars
  BY <1>6, UnseenStep DEF schedVars
<1> QED
  BY <1>1, <1>2, <1>3, <1>4, <1>5, <1>6 DEF Next, Running, Finished, DecodeThread

(* BatchScheduler implements CompletionService: every accepted request is  *)
(* answered at most once, with an answer the stop rule allows.             *)
THEOREM ImplementsService == Spec => ServiceSafety
  BY InvariantHolds, InitRefines, StepRefines, PTL
     DEF Spec, ServiceSafety, Service!Safety, Service!serviceVars

-----------------------------------------------------------------------------
(***************************************************************************)
(* The wiring of the batched decode path.  The worker ignores slot numbers *)
(* and remembers one reset only; that this does no harm follows from       *)
(* g_inference_mutex alone, which lets one request be in the scheduler, so *)
(* that slot 0 is the only one in use.  A call of the worker may fail or   *)
(* cost the cache: what is cached is then less, but nobody else's.         *)
(***************************************************************************)
\* A handler between submit() and the answer holds the mutex.
OneOwner ==
  /\ infer \in Owners \cup {Free}
  /\ \A r \in Requests : client[r] \in {"notify", "get"} => infer = r
  /\ \A r \in Requests : client[r] = "done" => answer[r] # <<>>

CacheTypes ==
  /\ kv \in [Slots -> Seq(Owners)]
  /\ kvReady \in BOOLEAN /\ resetAll \in BOOLEAN
  /\ resetSlot \in Slots \cup {NoSlot}

\* A worker that is not there has nothing cached.
EngineTypes ==
  /\ CacheTypes
  /\ npu \in {"absent", "up", "late", "dead"}
  /\ npu \in {"absent", "dead"} => ~kvReady
  /\ prefilled \in Nat /\ lost \in BOOLEAN

\* A cache that holds tokens of one owner only.
Only(cache, r) == \A k \in 1 .. Len(cache) : cache[k] = r

\* What the worker has seen of the request in slot 0, if no call failed: its prompt but
\* for the last token, its output, and the token of this pass.
Seen ==
  PromptLen[slots[0].req] - 1 + Len(slots[0].output)
    + (IF pc = "deliver" /\ 0 \in DOMAIN results THEN 1 ELSE 0)

CacheAgrees ==
  /\ 0 \in Active => Only(AfterResets[0], slots[0].req)
  /\ 0 \in SlotsIn("PREFILLING") => slots[0].output = <<>>
  /\ 0 \notin SlotsIn("PREFILLING") => prefilled = 0
  /\ Intact /\ 0 \in SlotsIn("PREFILLING") => Len(AfterResets[0]) = prefilled
  /\ Intact /\ 0 \in SlotsIn("DECODING") => Len(AfterResets[0]) = Seen

BatchedInv ==
  /\ IInv /\ OneOwner /\ EngineTypes
  /\ pc # "crashed"
  /\ Active \subseteq {0}
  /\ CacheAgrees
  /\ ChatContextIsOwn

-----------------------------------------------------------------------------
(* Slot 0 exists. *)
LEMMA FirstSlot == 0 \in Slots /\ \A s \in Slots : 0 <= s
  BY NumSlotsAssumption DEF Slots

(* Every slot in use decodes for the holder of the mutex. *)
LEMMA ActiveOfHolder ==
  ASSUME IInv, OneOwner
  PROVE  /\ \A r \in Accepted : infer = r
         /\ \A s \in Active : infer = slots[s].req /\ slots[s].req \in Requests
<1>1. \A r \in Accepted : r \in Requests /\ client[r] \in {"notify", "get"}
  BY DEF IInv, TypeOK, OneOwner, Accepted
<1>2. \A s \in Active : slots[s].req \in Accepted
  BY DEF IInv, OnePlace
<1> QED
  BY <1>1, <1>2 DEF OneOwner

(* While a chat turn or nobody holds the mutex, the scheduler is empty. *)
LEMMA IdleWithoutHolder ==
  ASSUME IInv, OneOwner, infer \notin Requests
  PROVE  Active = {} /\ Queued = {} /\ pending = <<>>
<1>1. Active = {}
  BY ActiveOfHolder
<1>2. Queued = {}
  <2>1. \A r \in Queued : r \in Accepted /\ r \in Requests
    BY DEF IInv, OnePlace, Accepted
  <2> QED
    BY <2>1, ActiveOfHolder
<1>3. pending = <<>>
  <2>1. pending \in Seq(Requests)
    BY DEF IInv, TypeOK
  <2>2. CASE Len(pending) > 0
    <3>1. 1 \in 1 .. Len(pending)
      BY <2>1, <2>2
    <3> QED
      BY <1>2, <3>1 DEF Queued
  <2> QED
    BY <2>1, <2>2
<1> QED
  BY <1>1, <1>2, <1>3

(* What the caches are once the resets are acted on. *)
LEMMA ResetTypes ==
  ASSUME CacheTypes
  PROVE  AfterResets \in [Slots -> Seq(Owners)]
<1>1. EmptyKv \in [Slots -> Seq(Owners)]
  BY DEF EmptyKv
<1> QED
  BY <1>1 DEF CacheTypes, AfterResets

(* After an operation of the worker no reset is left to act on. *)
LEMMA RunTypes ==
  ASSUME CacheTypes, NEW fed \in [Slots -> Seq(Owners)], WorkerRuns(fed)
  PROVE  CacheTypes' /\ \A w \in Slots : AfterResets'[w] = AfterResets[w] \o fed[w]
<1>1. AfterResets \in [Slots -> Seq(Owners)]
  BY ResetTypes
<1>2. kv' \in [Slots -> Seq(Owners)]
  BY <1>1 DEF WorkerRuns
<1>3. kvReady' = TRUE /\ resetAll' = FALSE /\ resetSlot' = NoSlot
  BY DEF WorkerRuns
<1>4. CacheTypes'
  BY <1>2, <1>3 DEF CacheTypes
<1>5. AfterResets' = kv'
  BY <1>3 DEF AfterResets
<1> QED
  BY <1>4, <1>5 DEF WorkerRuns

(* A worker that ends leaves nothing. *)
LEMMA GoneTypes ==
  ASSUME CachesGone
  PROVE  CacheTypes' /\ kvReady' = FALSE /\ AfterResets'[0] = <<>>
<1>1. EmptyKv \in [Slots -> Seq(Owners)] /\ EmptyKv[0] = <<>>
  BY FirstSlot DEF EmptyKv
<1> QED
  BY <1>1 DEF CachesGone, CacheTypes, AfterResets, EmptyKv

\* One more token of the same owner.
LEMMA OneMore ==
  ASSUME NEW S, NEW cache \in Seq(S), NEW r \in S
  PROVE  /\ cache \o <<r>> \in Seq(S) /\ Len(cache \o <<r>>) = Len(cache) + 1
         /\ Only(cache, r) => Only(cache \o <<r>>, r)
  BY DEF Only

\* Nothing added.
LEMMA NothingMore ==
  ASSUME NEW S, NEW cache \in Seq(S)
  PROVE  cache \o <<>> = cache
  OBVIOUS

(* Whatever comes of an op 32 with a token of r: a cache of r's tokens     *)
(* stays one, and if nothing was lost it has one token more.               *)
LEMMA GenerateKeeps ==
  ASSUME EngineTypes, prefilled' \in Nat, NEW r \in Owners,
         NEW fed \in [Slots -> Seq(Owners)], fed[0] = <<r>>, Generate(fed)
  PROVE  /\ EngineTypes'
         /\ Only(AfterResets[0], r) => Only(AfterResets'[0], r)
         /\ Intact' => Intact /\ Len(AfterResets'[0]) = Len(AfterResets[0]) + 1
<1>1. CacheTypes /\ AfterResets[0] \in Seq(Owners)
  BY ResetTypes, FirstSlot DEF EngineTypes
<1>2. npu \in {"absent", "up", "late", "dead"} /\ lost \in BOOLEAN
  BY DEF EngineTypes
<1>3. ASSUME WorkerRuns(fed), npu' \in {"up", "late"}
      PROVE  /\ CacheTypes' /\ AfterResets'[0] = AfterResets[0] \o <<r>>
             /\ Only(AfterResets[0], r) => Only(AfterResets'[0], r)
             /\ Len(AfterResets'[0]) = Len(AfterResets[0]) + 1
  <2>1. CacheTypes' /\ AfterResets'[0] = AfterResets[0] \o fed[0]
    BY <1>1, <1>3, RunTypes, FirstSlot
  <2>2. AfterResets'[0] = AfterResets[0] \o <<r>>
    BY <2>1
  <2> QED
    BY <1>1, <2>1, <2>2, OneMore
<1>4. CASE CallSucceeds(fed)
  <2>1. WorkerRuns(fed) /\ lost' = lost /\ npu # "dead"
        /\ npu' = (IF npu = "absent" THEN "up" ELSE npu)
    BY <1>4 DEF CallSucceeds, Started
  <2>2. npu' \in {"up", "late"} /\ (npu' = "up" => npu \in {"absent", "up"})
    BY <1>2, <2>1
  <2>3. /\ CacheTypes'
        /\ Only(AfterResets[0], r) => Only(AfterResets'[0], r)
        /\ Len(AfterResets'[0]) = Len(AfterResets[0]) + 1
    BY <1>3, <2>1, <2>2
  <2>4. EngineTypes'
    BY <1>2, <2>1, <2>2, <2>3 DEF EngineTypes
  <2>5. Intact' => Intact
    BY <2>1, <2>2 DEF Intact
  <2> QED
    BY <2>3, <2>4, <2>5
<1>5. CASE CallFails(fed)
  <2>1. lost' = TRUE /\ ~Intact'
    BY <1>5 DEF CallFails, Intact
  <2>2. CASE UNCHANGED <<caches, npu>>
    <3>1. AfterResets' = AfterResets /\ CacheTypes' /\ kvReady' = kvReady /\ npu' = npu
      BY <1>1, <2>2 DEF caches, AfterResets, EmptyKv, CacheTypes
    <3>2. EngineTypes'
      BY <2>1, <3>1 DEF EngineTypes
    <3> QED
      BY <2>1, <3>1, <3>2
  <2>3. CASE npu # "dead" /\ npu' = Started /\ WorkerRuns(NoTokens)
    <3>1. npu' \in {"up", "late"}
      BY <1>2, <2>3 DEF Started
    <3>2. NoTokens \in [Slots -> Seq(Owners)] /\ NoTokens[0] = <<>>
      BY FirstSlot DEF NoTokens, OnSlot0
    <3>3. CacheTypes' /\ AfterResets'[0] = AfterResets[0] \o <<>>
      BY <1>1, <2>3, <3>2, RunTypes, FirstSlot
    <3>4. AfterResets'[0] = AfterResets[0]
      BY <1>1, <3>3, NothingMore
    <3>5. EngineTypes'
      BY <2>1, <3>1, <3>3 DEF EngineTypes
    <3> QED
      BY <2>1, <3>4, <3>5
  <2>4. CASE npu # "dead" /\ npu' = "late" /\ WorkerRuns(fed)
    <3>1. CacheTypes' /\ (Only(AfterResets[0], r) => Only(AfterResets'[0], r))
      BY <1>3, <2>4
    <3>2. EngineTypes'
      BY <2>1, <2>4, <3>1 DEF EngineTypes
    <3> QED
      BY <2>1, <3>1, <3>2
  <2>5. CASE npu # "dead" /\ npu' = "dead" /\ CachesGone
    <3>1. EngineTypes'
      BY <2>1, <2>5, GoneTypes DEF EngineTypes
    <3>2. Only(AfterResets'[0], r)
      BY <2>5, GoneTypes DEF Only
    <3> QED
      BY <2>1, <3>1, <3>2
  <2> QED
    BY <1>5, <2>2, <2>3, <2>4, <2>5 DEF CallFails
<1>6. CASE CallReleases
  <2>1. lost' = TRUE /\ ~Intact' /\ npu' = "absent" /\ CachesGone
    BY <1>6 DEF CallReleases, Intact
  <2>2. EngineTypes'
    BY <2>1, GoneTypes DEF EngineTypes
  <2>3. Only(AfterResets'[0], r)
    BY <2>1, GoneTypes DEF Only
  <2> QED
    BY <2>1, <2>2, <2>3
<1> QED
  BY <1>4, <1>5, <1>6 DEF Generate

(* A step of the wiring that moves the scheduler is a step of BatchScheduler. *)
LEMMA StepIsScheduled ==
  ASSUME BatchedNext \/ UNCHANGED vars, pc # "crashed"
  PROVE  [Next]_schedVars
<1>1. CASE UNCHANGED vars
  BY <1>1 DEF vars
<1>2. CASE ChatHandler
  BY <1>2 DEF ChatHandler, ChatBegin, ChatToken, ChatEnd
<1>3. CASE Spurious
  BY <1>3 DEF Spurious, Next, Running
<1>4. ASSUME NEW r \in Requests, Handler(r) PROVE [Next]_schedVars
  BY <1>4 DEF Handler, LockInference, HandlerSubmit, HandlerNotify, HandlerReturn,
              Next, Running, Client
<1>5. CASE WithoutWorker
  BY <1>5 DEF WithoutWorker, Next, Running, DecodeThread
<1>6. CASE DecodeOnWorker
  BY <1>6 DEF DecodeOnWorker, Next, Running, DecodeThread
<1>7. ASSUME NEW s \in Slots, AdmitAndReset(s) \/ PrefillOnWorker(s) \/ Prefilled(s)
      PROVE  [Next]_schedVars
  BY <1>7 DEF AdmitAndReset, PrefillOnWorker, Prefilled, Next, Running, DecodeThread
<1>8. CASE WorkerDies
  BY <1>8 DEF WorkerDies
<1> QED
  BY <1>1, <1>2, <1>3, <1>4, <1>5, <1>6, <1>7, <1>8 DEF BatchedNext, SchedulerThread

-----------------------------------------------------------------------------
(* Without a change to slots and results, CacheAgrees is about the same     *)
(* token count, unless the pass moves to or from its delivery.             *)
LEMMA SeenFrame ==
  ASSUME slots' = slots, results' = results,
         pc' = "deliver" <=> pc = "deliver",
         CacheAgrees, UNCHANGED engineVars
  PROVE  CacheAgrees'
<1>1. (\A st : SlotsIn(st)' = SlotsIn(st)) /\ Active' = Active
  BY DEF SlotsIn, Active, Idle
<1>2. Seen' = Seen
  BY DEF Seen
<1>3. AfterResets' = AfterResets /\ prefilled' = prefilled /\ Intact' = Intact
  BY DEF engineVars, caches, AfterResets, EmptyKv, Intact
<1> QED
  BY <1>1, <1>2, <1>3 DEF CacheAgrees, Only

\* A step that leaves the engine alone leaves the caches alone.
LEMMA EngineFrame ==
  ASSUME UNCHANGED engineVars
  PROVE  /\ AfterResets' = AfterResets /\ Intact' = Intact /\ prefilled' = prefilled
         /\ EngineTypes => EngineTypes'
  BY DEF engineVars, caches, AfterResets, EmptyKv, EngineTypes, CacheTypes, Intact

(* The scheduler's steps that do not touch a slot. *)
LEMMA PassKeeps ==
  ASSUME BatchedInv, IInv',
         Sleep \/ WakeUp \/ AdmitDone \/ PrefillDone \/ DeliverDone \/ SpuriousWakeup,
         UNCHANGED <<infer, engineVars>>
  PROVE  BatchedInv'
<1> USE DEF DecodeLocal
<1>1. /\ slots' = slots /\ results' = results /\ UNCHANGED <<client, answer, infer>>
      /\ pc' # "deliver" /\ pc' # "crashed"
      /\ pc = "deliver" => DOMAIN results = {}
  BY DEF BatchedInv, Sleep, WakeUp, AdmitDone, PrefillDone, DeliverDone, SpuriousWakeup
<1>2. AfterResets' = AfterResets /\ Intact' = Intact /\ prefilled' = prefilled /\ EngineTypes'
  BY EngineFrame DEF BatchedInv
<1>3. OneOwner' /\ ChatContextIsOwn'
  BY <1>1, <1>2 DEF BatchedInv, OneOwner, ChatContextIsOwn
<1>4. Active' = Active /\ \A st : SlotsIn(st)' = SlotsIn(st)
  BY <1>1 DEF Active, Idle, SlotsIn
<1>5. Seen' = Seen
  BY <1>1 DEF Seen
<1>6. CacheAgrees'
  BY <1>1, <1>2, <1>4, <1>5 DEF BatchedInv, CacheAgrees, Only
<1> QED
  BY <1>1, <1>2, <1>3, <1>4, <1>6 DEF BatchedInv

(* A token is handed to its slot: from the results into the output. *)
LEMMA DeliverKeeps ==
  ASSUME BatchedInv, IInv', NEW s \in Slots, Deliver(s), UNCHANGED <<infer, engineVars>>
  PROVE  BatchedInv'
<1>1. pc = "deliver" /\ s \in DOMAIN results /\ UNCHANGED <<pc, client, infer>>
      /\ DOMAIN results' = DOMAIN results \ {s}
  BY DEF Deliver, IsFirst, DecodeLocal
<1>2. s \in SlotsIn("DECODING") /\ s \in Active
  BY <1>1 DEF BatchedInv, IInv, ResultsDecoding, SlotsIn, Active, Idle
<1>3. s = 0
  BY <1>2 DEF BatchedInv
<1>4. slots \in [Slots -> SlotRecords] /\ slots[s].output \in Seq(Tokens)
      /\ slots[s].req \in Requests
  BY <1>2, ActiveOfHolder DEF BatchedInv, IInv, TypeOK, SlotRecords, Active
<1>5. AfterResets' = AfterResets /\ Intact' = Intact /\ prefilled' = prefilled /\ EngineTypes'
  BY EngineFrame DEF BatchedInv
<1>6. ChatContextIsOwn'
  BY <1>1, <1>5 DEF BatchedInv, ChatContextIsOwn
<1> DEFINE r == slots[s].req
           output == Append(slots[s].output, results[s])
<1>7. output # <<>> /\ Len(output) = Len(slots[s].output) + 1
  BY <1>4
<1> HIDE DEF output
<1>8. CASE Stops(r, output)
  <2>1. /\ answer' = [answer EXCEPT ![r] = output]
        /\ slots' = [slots EXCEPT ![s].state = "IDLE", ![s].output = <<>>]
    BY <1>8 DEF Deliver, output
  <2>2. Active' = {} /\ SlotsIn("PREFILLING")' \subseteq Active' /\ SlotsIn("DECODING")' \subseteq Active'
    BY <1>3, <1>4, <2>1 DEF BatchedInv, Active, Idle, SlotsIn, SlotRecords
  <2>3. CacheAgrees'
    <3>1. 0 \notin SlotsIn("PREFILLING")
      BY <1>2, <1>3 DEF SlotsIn
    <3> QED
      BY <1>5, <2>2, <3>1 DEF BatchedInv, CacheAgrees
  <2>4. OneOwner'
    BY <1>1, <1>7, <2>1 DEF BatchedInv, OneOwner, IInv, TypeOK
  <2> QED
    BY <1>1, <1>5, <1>6, <2>2, <2>3, <2>4 DEF BatchedInv
<1>9. CASE ~Stops(r, output)
  <2>1. slots' = [slots EXCEPT ![s].output = output] /\ answer' = answer
    BY <1>9 DEF Deliver, output
  <2>2. /\ slots'[0].req = slots[0].req /\ slots'[0].output = output
        /\ \A t \in Slots : slots'[t].state = slots[t].state
    BY <1>3, <1>4, <2>1 DEF SlotRecords
  <2>3. Active' = Active /\ \A st : SlotsIn(st)' = SlotsIn(st)
    BY <2>2 DEF Active, Idle, SlotsIn
  <2>4. Seen' = Seen
    <3>1. 0 \in DOMAIN results /\ 0 \notin DOMAIN results' /\ pc' = "deliver"
      BY <1>1, <1>3
    <3>2. PromptLen[slots[0].req] \in Nat /\ Len(slots[0].output) \in Nat
      BY <1>3, <1>4, PromptLenAssumption
    <3>3. Seen = PromptLen[slots[0].req] - 1 + Len(slots[0].output) + 1
      BY <1>1, <3>1 DEF Seen
    <3>4. Seen' = PromptLen[slots[0].req] - 1 + Len(output) + 0
      BY <2>2, <3>1 DEF Seen
    <3>5. Len(output) = Len(slots[0].output) + 1
      BY <1>3, <1>7
    <3>6. \A p, n \in Nat : p - 1 + n + 1 = p - 1 + (n + 1) + 0
      OBVIOUS
    <3> QED
      BY <3>2, <3>3, <3>4, <3>5, <3>6, Zenon
  <2>5. CacheAgrees'
    <3>1. 0 \notin SlotsIn("PREFILLING")
      BY <1>2, <1>3 DEF SlotsIn
    <3> QED
      BY <1>5, <2>2, <2>3, <2>4, <3>1 DEF BatchedInv, CacheAgrees, Only
  <2>6. OneOwner'
    BY <1>1, <2>1 DEF BatchedInv, OneOwner
  <2> QED
    BY <1>1, <1>5, <1>6, <2>3, <2>5, <2>6 DEF BatchedInv
<1> QED
  BY <1>8, <1>9

(* The batch is slot 0 or empty. *)
LEMMA SlotZeroOnly ==
  ASSUME BatchedInv
  PROVE  /\ Batch \subseteq {0}
         /\ \A s \in Batch : slots[s].req \in Requests /\ WorkerSlot(s) = 0
<1>1. Batch \subseteq {0} /\ \A s \in Batch : slots[s].req \in Requests
  BY ActiveOfHolder DEF BatchedInv, Batch, SlotsIn, Active, Idle
<1>2. \A s \in Batch : {t \in Batch : t < s} = {}
  <2>1. \A s, t \in Batch : s = 0 /\ t = 0
    BY <1>1
  <2> QED
    BY <2>1
<1>3. \A s \in Batch : WorkerSlot(s) = 0
  BY <1>2, FS_EmptySet DEF WorkerSlot
<1> QED
  BY <1>1, <1>3

(* A token is decoded: one slot at most, which is the worker's slot 0. *)
LEMMA DecodeKeeps ==
  ASSUME BatchedInv, IInv', DecodeOnWorker
  PROVE  BatchedInv'
<1>1. /\ pc = "decode" /\ pc' = "deliver" /\ DOMAIN results' = Batch
      /\ UNCHANGED <<slots, client, answer, infer, prefilled>>
  BY DEF DecodeOnWorker, Decode, DecodeLocal, Batch
<1> DEFINE fed == [w \in Slots |->
              IF \E s \in Batch : WorkerSlot(s) = w
                THEN <<slots[CHOOSE s \in Batch : WorkerSlot(s) = w].req>> ELSE <<>>]
<1>2. IF Cardinality(Batch) = 1 THEN Generate(fed) ELSE infer = Free /\ CallSucceeds(fed)
  BY DEF DecodeOnWorker
<1>3. Batch \subseteq {0} /\ \A s \in Batch : slots[s].req \in Requests
  BY SlotZeroOnly
<1>4. \A s \in Batch : WorkerSlot(s) = 0
  BY SlotZeroOnly
<1>5. 0 \in Batch => fed[0] = <<slots[0].req>>
  BY <1>3, <1>4, FirstSlot
<1>6. \A w \in Slots : fed[w] \in Seq(Owners)
  <2>1. ASSUME NEW w \in Slots, \E s \in Batch : WorkerSlot(s) = w
        PROVE  fed[w] \in Seq(Owners)
    <3> DEFINE chosen == CHOOSE s \in Batch : WorkerSlot(s) = w
    <3>1. slots[chosen].req \in Owners
      BY <1>3, <2>1 DEF Owners
    <3>2. fed[w] = <<slots[chosen].req>>
      BY <2>1
    <3> HIDE DEF fed, chosen
    <3> QED
      BY <3>1, <3>2
  <2>2. ASSUME NEW w \in Slots, ~\E s \in Batch : WorkerSlot(s) = w
        PROVE  fed[w] \in Seq(Owners)
    BY <2>2
  <2> QED
    BY <2>1, <2>2
<1>7. fed \in [Slots -> Seq(Owners)]
  BY <1>6
<1> HIDE DEF fed
<1>8. Active' = Active /\ \A st : SlotsIn(st)' = SlotsIn(st)
  BY <1>1 DEF Active, Idle, SlotsIn
<1>9. OneOwner'
  BY <1>1 DEF BatchedInv, OneOwner
<1>10. CASE Cardinality(Batch) = 1
  <2> DEFINE r == slots[0].req
  <2>1. 0 \in Batch
    <3>1. Batch # {}
      BY <1>10, FS_EmptySet
    <3> QED
      BY <1>3, <3>1
  <2>2. r \in Requests /\ r \in Owners /\ slots[0].output \in Seq(Tokens) /\ infer = r
    BY <1>3, <2>1, FirstSlot, ActiveOfHolder
       DEF BatchedInv, IInv, TypeOK, SlotRecords, Owners, Batch, SlotsIn, Active, Idle
  <2>3. 0 \in SlotsIn("DECODING") /\ 0 \notin SlotsIn("PREFILLING") /\ 0 \in Active
    BY <2>1 DEF Batch, SlotsIn, Active, Idle
  <2>4. Generate(fed) /\ fed[0] = <<r>> /\ prefilled' = prefilled /\ prefilled = 0
    BY <1>1, <1>2, <1>5, <1>10, <2>1, <2>3 DEF BatchedInv, CacheAgrees
  <2>5. /\ EngineTypes'
        /\ Only(AfterResets[0], r) => Only(AfterResets'[0], r)
        /\ Intact' => Intact /\ Len(AfterResets'[0]) = Len(AfterResets[0]) + 1
    <3> HIDE DEF r
    <3> QED
      BY <1>7, <2>2, <2>4, GenerateKeeps DEF BatchedInv
  <2>6. Seen' = Seen + 1
    <3>1. PromptLen[r] \in Nat /\ Len(slots[0].output) \in Nat
      BY <2>2, PromptLenAssumption
    <3>2. Seen = PromptLen[r] - 1 + Len(slots[0].output) + 0
      BY <1>1 DEF Seen
    <3>3. Seen' = PromptLen[r] - 1 + Len(slots[0].output) + 1
      BY <1>1, <2>1 DEF Seen
    <3> QED
      BY <3>1, <3>2, <3>3
  <2>7. Only(AfterResets[0], r) /\ (Intact => Len(AfterResets[0]) = Seen)
    BY <2>3 DEF BatchedInv, CacheAgrees
  <2>8. CacheAgrees'
    BY <1>1, <1>8, <2>3, <2>4, <2>5, <2>6, <2>7 DEF CacheAgrees, Only
  <2>9. ChatContextIsOwn'
    BY <1>1, <2>2, OwnersAssumption DEF ChatContextIsOwn
  <2> QED
    BY <1>1, <1>8, <1>9, <2>5, <2>8, <2>9 DEF BatchedInv
<1>11. CASE Cardinality(Batch) # 1
  <2>1. infer = Free /\ CallSucceeds(fed)
    BY <1>2, <1>11
  <2>2. Active = {}
    BY <2>1, IdleWithoutHolder, OwnersAssumption DEF BatchedInv
  <2>3. EngineTypes'
    <3>1. npu' \in {"up", "late"} /\ lost' = lost
      BY <2>1 DEF CallSucceeds, Started, BatchedInv, EngineTypes
    <3>2. CacheTypes'
      BY <1>7, <2>1, RunTypes DEF CallSucceeds, BatchedInv, EngineTypes
    <3> QED
      BY <1>1, <3>1, <3>2 DEF BatchedInv, EngineTypes
  <2>4. CacheAgrees'
    BY <1>1, <1>8, <2>2 DEF BatchedInv, CacheAgrees, Active, Idle, SlotsIn
  <2>5. ChatContextIsOwn'
    BY <1>1, <2>1, OwnersAssumption DEF ChatContextIsOwn
  <2> QED
    BY <1>1, <1>8, <1>9, <2>3, <2>4, <2>5 DEF BatchedInv
<1> QED
  BY <1>10, <1>11

(* A request is admitted: the one of the holder, into slot 0, whose reset  *)
(* the worker notes, if there is one; else nothing is cached.              *)
LEMMA AdmitKeeps ==
  ASSUME BatchedInv, IInv', NEW s \in Slots, AdmitAndReset(s)
  PROVE  BatchedInv'
<1>1. /\ pc = "admit" /\ pc' = pc /\ pending # <<>> /\ IsFirst(s, Idle)
      /\ slots' = [slots EXCEPT ![s] = [state |-> "PREFILLING", req |-> Head(pending),
                                        output |-> <<>>]]
      /\ UNCHANGED <<client, answer, infer, kv, kvReady, resetAll, prefilled>>
      /\ lost' = FALSE
  BY DEF AdmitAndReset, AdmitSlot, DecodeLocal
<1>2. Head(pending) \in Queued
  <2>1. pending \in Seq(Requests)
    BY DEF BatchedInv, IInv, TypeOK
  <2> QED
    BY <1>1, <2>1 DEF Queued
<1>3. infer \in Requests /\ infer = Head(pending)
  <2>1. Head(pending) \in Accepted /\ Accepted \subseteq Requests
    BY <1>2 DEF BatchedInv, IInv, OnePlace, Accepted
  <2> QED
    BY <2>1, ActiveOfHolder DEF BatchedInv
<1>4. Active = {}
  <2>1. ASSUME NEW t \in Active PROVE FALSE
    <3>1. slots[t].req = Head(pending)
      BY <1>3, ActiveOfHolder DEF BatchedInv
    <3>2. slots[t].req \notin Queued
      BY DEF BatchedInv, IInv, OnePlace
    <3> QED
      BY <1>2, <3>1, <3>2
  <2> QED
    BY <2>1
<1>5. s = 0
  <2>1. 0 \in Idle
    BY <1>4, FirstSlot DEF Active
  <2>2. s <= 0
    BY <1>1, <2>1 DEF IsFirst
  <2> QED
    BY <2>2, FirstSlot DEF Slots
<1>6. slots \in [Slots -> SlotRecords]
  BY DEF BatchedInv, IInv, TypeOK
<1>7. /\ slots'[0].state = "PREFILLING" /\ slots'[0].output = <<>>
      /\ \A t \in Slots \ {0} : slots'[t].state = "IDLE"
  BY <1>1, <1>4, <1>5, <1>6 DEF Active, Idle, SlotsIn
<1>8. Active' \subseteq {0} /\ 0 \notin SlotsIn("DECODING")' /\ 0 \in SlotsIn("PREFILLING")'
  BY <1>7, FirstSlot DEF Active, Idle, SlotsIn
<1>9. prefilled' = 0
  <2>1. 0 \notin SlotsIn("PREFILLING")
    BY <1>4 DEF Active, Idle, SlotsIn
  <2> QED
    BY <1>1, <2>1 DEF BatchedInv, CacheAgrees
<1>10. EngineTypes' /\ AfterResets'[0] = <<>>
  <2>1. EmptyKv[0] = <<>>
    BY FirstSlot DEF EmptyKv
  <2>2. CASE npu # "dead" /\ resetSlot' = s /\ npu' \in {Started, "late"}
    <3>1. npu' \in {"up", "late"}
      BY <2>2 DEF Started, BatchedInv, EngineTypes
    <3>2. EngineTypes'
      BY <1>1, <1>9, <2>2, <3>1 DEF BatchedInv, EngineTypes, CacheTypes
    <3>3. resetSlot' = 0 /\ 0 # NoSlot /\ kv' \in [Slots -> Seq(Owners)]
      BY <1>5, <2>2, <3>2, OwnersAssumption DEF EngineTypes, CacheTypes
    <3> QED
      BY <2>1, <3>2, <3>3, FirstSlot DEF AfterResets
  <2>3. CASE npu \in {"absent", "dead"} /\ UNCHANGED <<resetSlot, npu>>
    <3>1. EngineTypes'
      BY <1>1, <1>9, <2>3 DEF BatchedInv, EngineTypes, CacheTypes
    <3>2. ~kvReady'
      BY <1>1, <2>3 DEF BatchedInv, EngineTypes
    <3> QED
      BY <2>1, <3>1, <3>2 DEF AfterResets, EmptyKv
  <2> QED
    BY <2>2, <2>3 DEF AdmitAndReset
<1>11. CacheAgrees'
  BY <1>7, <1>8, <1>9, <1>10 DEF CacheAgrees, Only
<1>12. ChatContextIsOwn'
  BY <1>1, <1>3, OwnersAssumption DEF ChatContextIsOwn
<1>13. OneOwner'
  BY <1>1 DEF BatchedInv, OneOwner
<1> QED
  BY <1>1, <1>8, <1>10, <1>11, <1>12, <1>13 DEF BatchedInv

(* A token of the prompt of the request in slot 0 goes to the worker. *)
LEMMA PrefillKeeps ==
  ASSUME BatchedInv, IInv', NEW s \in Slots, PrefillOnWorker(s)
  PROVE  BatchedInv'
<1>1. /\ pc = "prefill" /\ s \in SlotsIn("PREFILLING")
      /\ UNCHANGED <<pc, slots, client, answer, infer, results>>
      /\ prefilled' = prefilled + 1
      /\ Generate(OnSlot0(<<slots[s].req>>))
  BY DEF PrefillOnWorker, IsFirst, schedVars
<1>2. s \in Active /\ s = 0
  BY <1>1 DEF BatchedInv, SlotsIn, Active, Idle
<1> DEFINE r == slots[0].req
           fed == OnSlot0(<<r>>)
<1>3. r \in Requests /\ r \in Owners /\ infer = r
  BY <1>2, ActiveOfHolder DEF BatchedInv, Owners
<1>4. prefilled \in Nat /\ prefilled' \in Nat
  BY <1>1 DEF BatchedInv, EngineTypes
<1>5. fed \in [Slots -> Seq(Owners)] /\ fed[0] = <<r>>
  <2>1. <<r>> \in Seq(Owners) /\ <<>> \in Seq(Owners)
    BY <1>3
  <2> QED
    BY <2>1, FirstSlot DEF OnSlot0
<1>6. /\ EngineTypes'
      /\ Only(AfterResets[0], r) => Only(AfterResets'[0], r)
      /\ Intact' => Intact /\ Len(AfterResets'[0]) = Len(AfterResets[0]) + 1
  <2>1. Generate(fed)
    BY <1>1, <1>2
  <2> HIDE DEF fed, r
  <2> QED
    BY <1>3, <1>4, <1>5, <2>1, GenerateKeeps DEF BatchedInv
<1>7. Active' = Active /\ \A st : SlotsIn(st)' = SlotsIn(st)
  BY <1>1 DEF Active, Idle, SlotsIn
<1>8. 0 \in SlotsIn("PREFILLING") /\ 0 \notin SlotsIn("DECODING")
  BY <1>1, <1>2 DEF SlotsIn
<1>9. CacheAgrees'
  BY <1>1, <1>2, <1>6, <1>7, <1>8 DEF BatchedInv, CacheAgrees, Only
<1>10. ChatContextIsOwn'
  BY <1>1, <1>3, OwnersAssumption DEF ChatContextIsOwn
<1>11. OneOwner'
  BY <1>1 DEF BatchedInv, OneOwner
<1> QED
  BY <1>1, <1>6, <1>7, <1>9, <1>10, <1>11 DEF BatchedInv

(* The prompt is through: the slot decodes from its last token on. *)
LEMMA PrefilledKeeps ==
  ASSUME BatchedInv, IInv', NEW s \in Slots, Prefilled(s)
  PROVE  BatchedInv'
<1>1. /\ pc = "prefill" /\ pc' = pc /\ s \in SlotsIn("PREFILLING")
      /\ slots' = [slots EXCEPT ![s].state = "DECODING"]
      /\ prefilled = PromptLen[slots[s].req] - 1 /\ prefilled' = 0
      /\ UNCHANGED <<client, answer, infer, results, caches, npu, lost>>
  BY DEF Prefilled, PrefillSlot, IsFirst, DecodeLocal
<1>2. s \in Active /\ s = 0
  BY <1>1 DEF BatchedInv, SlotsIn, Active, Idle
<1> DEFINE r == slots[0].req
<1>3. slots \in [Slots -> SlotRecords] /\ r \in Requests /\ infer = r
  BY <1>2, ActiveOfHolder DEF BatchedInv, IInv, TypeOK
<1>4. slots'[0].state = "DECODING" /\ slots'[0].req = r
      /\ slots'[0].output = slots[0].output
      /\ \A t \in Slots \ {0} : slots'[t] = slots[t]
  BY <1>1, <1>2, <1>3 DEF SlotRecords
<1>5. Active' \subseteq {0} /\ 0 \notin SlotsIn("PREFILLING")'
  BY <1>4 DEF BatchedInv, Active, Idle, SlotsIn
<1>6. AfterResets' = AfterResets /\ Intact' = Intact /\ EngineTypes'
  BY <1>1 DEF BatchedInv, caches, AfterResets, EmptyKv, Intact, EngineTypes, CacheTypes
<1>7. Only(AfterResets[0], r) /\ (Intact => Len(AfterResets[0]) = prefilled)
      /\ slots[0].output = <<>>
  BY <1>1, <1>2 DEF BatchedInv, CacheAgrees
<1>8. Seen' = prefilled
  <2>1. PromptLen[r] \in Nat
    BY <1>3, PromptLenAssumption
  <2>2. Seen' = PromptLen[r] - 1 + 0 + 0
    BY <1>1, <1>4, <1>7 DEF Seen
  <2> QED
    BY <1>1, <1>2, <2>1, <2>2
<1>9. CacheAgrees'
  BY <1>1, <1>4, <1>5, <1>6, <1>7, <1>8 DEF CacheAgrees, Only
<1>10. ChatContextIsOwn'
  BY <1>1, <1>3, OwnersAssumption DEF ChatContextIsOwn
<1>11. OneOwner'
  BY <1>1 DEF BatchedInv, OneOwner
<1> QED
  BY <1>1, <1>5, <1>6, <1>9, <1>10, <1>11 DEF BatchedInv

(* The worker dies between two calls: nothing is cached. *)
LEMMA DiesKeeps ==
  ASSUME BatchedInv, IInv', WorkerDies
  PROVE  BatchedInv'
<1>1. /\ UNCHANGED <<pc, slots, client, answer, infer, results, prefilled, lost>>
      /\ npu' = "dead" /\ CachesGone
  BY DEF WorkerDies, schedVars
<1>2. CacheTypes' /\ kvReady' = FALSE /\ AfterResets'[0] = <<>>
  BY <1>1, GoneTypes
<1>3. EngineTypes' /\ ~Intact'
  BY <1>1, <1>2 DEF BatchedInv, EngineTypes, Intact
<1>4. Active' = Active /\ \A st : SlotsIn(st)' = SlotsIn(st)
  BY <1>1 DEF Active, Idle, SlotsIn
<1>5. CacheAgrees'
  BY <1>1, <1>2, <1>3, <1>4 DEF BatchedInv, CacheAgrees, Only
<1>6. ChatContextIsOwn'
  BY <1>2 DEF ChatContextIsOwn
<1>7. OneOwner'
  BY <1>1 DEF BatchedInv, OneOwner
<1> QED
  BY <1>1, <1>3, <1>4, <1>5, <1>6, <1>7 DEF BatchedInv

(* Until a completion has an answer, its handler keeps the mutex. *)
LEMMA HandlerKeeps ==
  ASSUME BatchedInv, IInv', NEW r \in Requests, Handler(r)
  PROVE  BatchedInv'
<1> USE DEF LockInference, HandlerSubmit, HandlerNotify, HandlerReturn,
            Submit, Notify, Get
<1>1. /\ UNCHANGED <<slots, results, pc, answer>>
      /\ UNCHANGED engineVars
  BY DEF Handler, schedVars
<1>2. EngineTypes'
  BY <1>1, EngineFrame DEF BatchedInv
<1>3. CacheAgrees'
  BY <1>1, SeenFrame DEF BatchedInv
<1>4. Active' = Active
  BY <1>1 DEF Active, Idle, SlotsIn
<1>5. client \in [Requests -> {"new", "notify", "get", "done"}]
  BY DEF BatchedInv, IInv, TypeOK
<1>6. OneOwner'
  <2>1. CASE LockInference(r)
    <3>1. \A q \in Requests : client[q] \in {"notify", "get"} => infer = q
      BY DEF BatchedInv, OneOwner
    <3>2. infer = Free /\ infer' = r /\ client' = client
      BY <2>1 DEF schedVars
    <3> QED
      BY <1>1, <3>1, <3>2, OwnersAssumption DEF BatchedInv, OneOwner, Owners
  <2>2. CASE HandlerSubmit(r) \/ HandlerNotify(r)
    BY <1>1, <1>5, <2>2 DEF BatchedInv, OneOwner, Handler
  <2>3. CASE HandlerReturn(r)
    BY <1>1, <1>5, <2>3 DEF BatchedInv, OneOwner
  <2> QED
    BY <2>1, <2>2, <2>3 DEF Handler
<1>7. infer' # Chat
  <2>1. infer' \in Requests \cup {Free}
    BY DEF Handler, BatchedInv, OneOwner
  <2> QED
    BY <2>1, OwnersAssumption
<1>8. ChatContextIsOwn'
  BY <1>7 DEF ChatContextIsOwn
<1> QED
  BY <1>1, <1>2, <1>3, <1>4, <1>6, <1>8 DEF BatchedInv

(* A chat turn begins with a reset of every cache, adds tokens and ends. *)
LEMMA ChatKeeps ==
  ASSUME BatchedInv, IInv', ChatHandler
  PROVE  BatchedInv'
<1> USE DEF ChatBegin, ChatToken, ChatEnd, schedVars
<1>1. UNCHANGED <<slots, results, pc, answer, client>>
  BY DEF ChatHandler
<1>2. infer \notin Requests /\ infer' \in {Chat, Free}
  BY OwnersAssumption DEF ChatHandler
<1>3. Active = {} /\ Active' = {}
  BY <1>1, <1>2, IdleWithoutHolder DEF BatchedInv, Active, Idle, SlotsIn
<1>4. prefilled = 0 /\ prefilled' = prefilled
  <2>1. prefilled = 0
    BY <1>3 DEF BatchedInv, CacheAgrees, Active, Idle, SlotsIn
  <2> QED
    BY <2>1 DEF ChatHandler, engineVars
<1>5. CacheAgrees'
  BY <1>3, <1>4 DEF CacheAgrees, Active, Idle, SlotsIn
<1>6. OneOwner'
  BY <1>1, <1>2 DEF BatchedInv, OneOwner, Owners
<1>7. CASE ChatBegin
  <2>1. UNCHANGED <<kv, kvReady, resetSlot>> /\ lost' = FALSE
    BY <1>7
  <2>2. CASE npu \in {"up", "late"} /\ resetAll' = TRUE /\ npu' \in {npu, "late"}
    <3>1. EngineTypes'
      BY <1>4, <2>1, <2>2 DEF BatchedInv, EngineTypes, CacheTypes
    <3>2. AfterResets'[0] = <<>>
      BY <2>2, FirstSlot DEF AfterResets, EmptyKv
    <3> QED
      BY <3>1, <3>2, <1>1, <1>3, <1>5, <1>6 DEF BatchedInv, ChatContextIsOwn
  <2>3. CASE npu \in {"absent", "dead"} /\ UNCHANGED <<resetAll, npu>>
    <3>1. EngineTypes' /\ ~kvReady'
      BY <1>4, <2>1, <2>3 DEF BatchedInv, EngineTypes, CacheTypes
    <3>2. AfterResets'[0] = <<>>
      BY <3>1, FirstSlot DEF AfterResets, EmptyKv
    <3> QED
      BY <3>1, <3>2, <1>1, <1>3, <1>5, <1>6 DEF BatchedInv, ChatContextIsOwn
  <2> QED
    BY <1>7, <2>2, <2>3
<1>8. CASE ChatToken
  <2> DEFINE fed == OnSlot0(<<Chat>>)
  <2>1. <<Chat>> \in Seq(Owners) /\ <<>> \in Seq(Owners) /\ Chat \in Owners
    BY DEF Owners
  <2>2. fed \in [Slots -> Seq(Owners)] /\ fed[0] = <<Chat>>
    BY <2>1, FirstSlot DEF OnSlot0
  <2>3. infer = Chat /\ Generate(fed) /\ prefilled' \in Nat
    BY <1>4, <1>8
  <2> HIDE DEF fed
  <2>4. EngineTypes' /\ (Only(AfterResets[0], Chat) => Only(AfterResets'[0], Chat))
    BY <2>1, <2>2, <2>3, GenerateKeeps DEF BatchedInv
  <2>5. Only(AfterResets[0], Chat)
    BY <2>3 DEF BatchedInv, ChatContextIsOwn, Only
  <2>6. ChatContextIsOwn'
    BY <2>4, <2>5 DEF ChatContextIsOwn, Only
  <2> QED
    BY <1>1, <1>3, <1>5, <1>6, <2>4, <2>6 DEF BatchedInv
<1>9. CASE ChatEnd
  <2>1. UNCHANGED engineVars /\ infer' = Free
    BY <1>9
  <2>2. EngineTypes'
    BY <2>1, EngineFrame DEF BatchedInv
  <2>3. ChatContextIsOwn'
    BY <2>1, OwnersAssumption DEF ChatContextIsOwn
  <2> QED
    BY <1>1, <1>3, <1>5, <1>6, <2>2, <2>3 DEF BatchedInv
<1> QED
  BY <1>7, <1>8, <1>9 DEF ChatHandler

-----------------------------------------------------------------------------
(* The initial state. *)
LEMMA BatchedInitInv == BatchedInit => BatchedInv
<1> SUFFICES ASSUME BatchedInit PROVE BatchedInv
  OBVIOUS
<1>1. IInv
  BY InitIInv DEF BatchedInit
<1>2. Active = {}
  BY DEF BatchedInit, Init, Active, Idle, SlotsIn
<1>3. OneOwner
  BY DEF BatchedInit, Init, OneOwner
<1>4. EngineTypes
  <2>1. <<>> \in Seq(Owners)
    OBVIOUS
  <2>2. EmptyKv \in [Slots -> Seq(Owners)]
    BY <2>1 DEF EmptyKv
  <2> QED
    BY <2>2 DEF BatchedInit, EngineTypes, CacheTypes
<1>5. CacheAgrees
  BY <1>2 DEF BatchedInit, CacheAgrees, Active, Idle, SlotsIn
<1>6. ChatContextIsOwn
  BY OwnersAssumption DEF BatchedInit, ChatContextIsOwn
<1> QED
  BY <1>1, <1>2, <1>3, <1>4, <1>5, <1>6 DEF BatchedInit, Init, BatchedInv

(* BatchedInv is inductive. *)
LEMMA BatchedInductive == BatchedInv /\ [BatchedNext]_vars => BatchedInv'
<1> SUFFICES ASSUME BatchedInv, [BatchedNext]_vars PROVE BatchedInv'
  OBVIOUS
<1>1. IInv'
  BY StepIsScheduled, Inductive DEF BatchedInv
<1>2. CASE WithoutWorker
  BY <1>1, <1>2, PassKeeps, DeliverKeeps DEF WithoutWorker
<1>3. CASE DecodeOnWorker
  BY <1>1, <1>3, DecodeKeeps
<1>4. ASSUME NEW s \in Slots, AdmitAndReset(s) \/ PrefillOnWorker(s) \/ Prefilled(s)
      PROVE  BatchedInv'
  BY <1>1, <1>4, AdmitKeeps, PrefillKeeps, PrefilledKeeps
<1>5. CASE Spurious
  BY <1>1, <1>5, PassKeeps DEF Spurious
<1>6. CASE ChatHandler
  BY <1>1, <1>6, ChatKeeps
<1>7. ASSUME NEW r \in Requests, Handler(r) PROVE BatchedInv'
  BY <1>1, <1>7, HandlerKeeps
<1>8. CASE UNCHANGED vars
  <2>1. UNCHANGED <<slots, results, pc, client, answer, infer>> /\ UNCHANGED engineVars
    BY <1>8 DEF vars, schedVars
  <2>2. AfterResets' = AfterResets /\ EngineTypes'
    BY <2>1, EngineFrame DEF BatchedInv
  <2>3. CacheAgrees'
    BY <2>1, SeenFrame DEF BatchedInv
  <2>4. Active' = Active
    BY <2>1 DEF Active, Idle, SlotsIn
  <2>5. OneOwner' /\ ChatContextIsOwn'
    BY <2>1, <2>2 DEF BatchedInv, OneOwner, ChatContextIsOwn
  <2> QED
    BY <1>1, <2>1, <2>2, <2>3, <2>4, <2>5 DEF BatchedInv
<1>9. CASE WorkerDies
  BY <1>1, <1>9, DiesKeeps
<1> QED
  BY <1>2, <1>3, <1>4, <1>5, <1>6, <1>7, <1>8, <1>9 DEF BatchedNext, SchedulerThread

(* The inductive invariant holds in every state of the wired scheduler. *)
THEOREM BatchedInvariant == BatchedSpec => []BatchedInv
  BY BatchedInitInv, BatchedInductive, PTL DEF BatchedSpec

(* unified_server's wiring implements BatchScheduler, whose decode thread   *)
(* never reads the empty result of a failed batch in it.                   *)
THEOREM BatchedImplementsScheduler == BatchedSpec => Spec
<1>1. BatchedInit => Init
  BY DEF BatchedInit
<1>2. BatchedInv /\ [BatchedNext]_vars => [Next]_schedVars
  BY StepIsScheduled DEF BatchedInv
<1> QED
  BY <1>1, <1>2, BatchedInvariant, PTL DEF BatchedSpec, Spec

(* The next token of a completion is computed from tokens of its own only, *)
(* although op 33 drops the slot numbers, op 34 remembers one reset only,  *)
(* and calls fail; and from its whole prompt and output if, since it was   *)
(* admitted, no call failed, no slow call released the worker, and the     *)
(* worker is neither dead nor late.                                        *)
THEOREM CompletionsFromOwnContext == BatchedSpec => []NextTokenFromOwnContext
<1>1. BatchedInv => NextTokenFromOwnContext
  <2> SUFFICES ASSUME BatchedInv, pc = "decode", NEW s \in Batch
               PROVE  /\ Only(AfterResets[WorkerSlot(s)], slots[s].req)
                      /\ Intact => Len(AfterResets[WorkerSlot(s)]) =
                                     PromptLen[slots[s].req] - 1 + Len(slots[s].output)
    BY DEF NextTokenFromOwnContext, Only
  <2>1. s = 0 /\ WorkerSlot(s) = 0
    BY SlotZeroOnly
  <2>2. /\ Only(AfterResets[0], slots[0].req)
        /\ Intact => Len(AfterResets[0]) = Seen
    BY <2>1 DEF BatchedInv, CacheAgrees, Batch, SlotsIn, Active, Idle
  <2>3. Seen = PromptLen[slots[0].req] - 1 + Len(slots[0].output)
    <3>1. slots[0].req \in Requests /\ slots[0].output \in Seq(Tokens)
      BY <2>1, ActiveOfHolder, FirstSlot
         DEF BatchedInv, IInv, TypeOK, SlotRecords, Batch, Active, Idle, SlotsIn
    <3>2. PromptLen[slots[0].req] \in Nat /\ Len(slots[0].output) \in Nat
      BY <3>1, PromptLenAssumption
    <3>3. Seen = PromptLen[slots[0].req] - 1 + Len(slots[0].output) + 0
      BY DEF Seen
    <3> QED
      BY <3>2, <3>3
  <2> QED
    BY <2>1, <2>2, <2>3
<1> QED
  BY <1>1, BatchedInvariant, PTL

(* A chat turn is computed from its own tokens. *)
THEOREM ChatFromOwnContext == BatchedSpec => []ChatContextIsOwn
<1>1. BatchedInv => ChatContextIsOwn
  BY DEF BatchedInv
<1> QED
  BY <1>1, BatchedInvariant, PTL

(* The decode thread, whose caller holds g_inference_mutex, never has to   *)
(* take it: there is no batch of two.                                      *)
THEOREM CallbackNeverBlocks == BatchedSpec => []NoCallbackDeadlock
<1>1. BatchedInv => NoCallbackDeadlock
  <2> SUFFICES ASSUME BatchedInv PROVE ~(Cardinality(Batch) > 1)
    BY DEF NoCallbackDeadlock
  <2>1. Batch \subseteq {0}
    BY SlotZeroOnly
  <2>2. IsFiniteSet({0}) /\ Cardinality({0}) = 1
    BY FS_Singleton
  <2>3. Cardinality(Batch) <= 1 /\ Cardinality(Batch) \in Nat
    <3> HIDE DEF Batch
    <3>1. IsFiniteSet(Batch) /\ Cardinality(Batch) <= Cardinality({0})
      BY <2>1, <2>2, FS_Subset
    <3> QED
      BY <2>2, <3>1, FS_CardinalityType
  <2> QED
    BY <2>3
<1> QED
  BY <1>1, BatchedInvariant, PTL
=============================================================================
