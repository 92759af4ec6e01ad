---------------------------- MODULE BatchScheduler ----------------------------
(***************************************************************************)
(* include/batch_scheduler.h: handler threads submit() a request and block *)
(* on its future; one decode thread admits requests into slots, prefills   *)
(* them, decodes one token for every active slot per pass and completes    *)
(* the promise of the slots that are done; a destructor drains and joins.  *)
(*                                                                         *)
(* Each request is one call of submit() by a thread of its own.  A step is *)
(* what happens between two points where another thread could get in: the  *)
(* decode thread holds mu_ only while pc = "admit" and inside the one-step *)
(* evaluation of the wait predicate.  Token values are abstract; prompts   *)
(* matter only to the engine (module BatchedCompletions).                          *)
(***************************************************************************)
EXTENDS Integers, Sequences, FiniteSets

CONSTANTS
  Requests,      \* calls of submit()
  NumSlots,      \* max_slots_
  Tokens,        \* tokens the engine returns; -1 is one of them
  Eos,           \* eos_id
  MaxTokens,     \* max_tokens of each request
  BatchMayFail,  \* may generate_batch() return an empty vector?
  NoRequest      \* content of a slot that never held a request

ASSUME NumSlotsAssumption == NumSlots \in Nat \ {0}
ASSUME TokensAssumption == Eos \in Tokens
ASSUME MaxTokensAssumption == MaxTokens \in [Requests -> Nat]
ASSUME BatchMayFailAssumption == BatchMayFail \in BOOLEAN
ASSUME NoRequestAssumption == NoRequest \notin Requests

Slots == 0 .. NumSlots - 1

VARIABLES
  pending,      \* pending_: the requests queued, oldest first
  running,      \* running_
  slots,        \* slots_: the state, request and output_tokens of each slot
  pc,           \* where the decode thread is
  asleep,       \* the decode thread sleeps in cv_.wait
  results,      \* the tokens of this pass, by slot, not handed out yet
  activeCount,  \* active_count_
  client,       \* where each caller of submit() is
  answer,       \* the value of each request's promise, <<>> while unset
  owner         \* where the destructor is

schedVars == <<pending, running, slots, pc, asleep, results, activeCount,
               client, answer, owner>>

SlotRecords == [state  : {"IDLE", "PREFILLING", "DECODING"},
                req    : Requests \cup {NoRequest},
                output : Seq(Tokens)]

TypeOK ==
  /\ pending \in Seq(Requests)
  /\ running \in BOOLEAN
  /\ slots \in [Slots -> SlotRecords]
  /\ pc \in {"wait", "admit", "prefill", "decode", "deliver", "exited", "crashed"}
  /\ asleep \in BOOLEAN
  /\ DOMAIN results \subseteq Slots
  /\ \A s \in DOMAIN results : results[s] \in Tokens
  /\ activeCount \in Nat
  /\ client \in [Requests -> {"new", "notify", "get", "done"}]
  /\ answer \in [Requests -> Seq(Tokens)]
  /\ owner \in {"alive", "notify", "join", "destroyed"}

SlotsIn(st) == {s \in Slots : slots[s].state = st}
Idle == SlotsIn("IDLE")
Active == Slots \ Idle
IsFirst(s, S) == s \in S /\ \A t \in S : s <= t

Init ==
  /\ pending = <<>>
  /\ running = TRUE
  /\ slots = [s \in Slots |-> [state |-> "IDLE", req |-> NoRequest, output |-> <<>>]]
  /\ pc = "wait"
  /\ asleep = FALSE
  /\ results = <<>>
  /\ activeCount = 0
  /\ client = [r \in Requests |-> "new"]
  /\ answer = [r \in Requests |-> <<>>]
  /\ owner = "alive"

(***************************************************************************)
(* The handler threads.                                                    *)
(***************************************************************************)
MuFree == pc # "admit"

\* submit() up to the end of the block that holds mu_.
Submit(r) ==
  /\ client[r] = "new" /\ owner = "alive" /\ MuFree
  /\ pending' = Append(pending, r)
  /\ client' = [client EXCEPT ![r] = "notify"]
  /\ UNCHANGED <<running, slots, pc, asleep, results, activeCount, answer, owner>>

\* Error: the notification is forgotten.
NotifyNobody(r) ==
  /\ client[r] = "notify"
  /\ client' = [client EXCEPT ![r] = "get"]
  /\ UNCHANGED <<pending, running, slots, pc, asleep, results, activeCount, answer, owner>>

\* cv_.notify_one() after mu_ was released; the decode thread is the only waiter.
Notify(r) ==
  /\ client[r] = "notify"
  /\ client' = [client EXCEPT ![r] = "get"]
  /\ asleep' = FALSE
  /\ UNCHANGED <<pending, running, slots, pc, results, activeCount, answer, owner>>

\* fut.get() returns.
Get(r) ==
  /\ client[r] = "get" /\ answer[r] # <<>>
  /\ client' = [client EXCEPT ![r] = "done"]
  /\ UNCHANGED <<pending, running, slots, pc, asleep, results, activeCount, answer, owner>>

(***************************************************************************)
(* The decode thread: run().                                               *)
(***************************************************************************)
DecodeLocal == UNCHANGED <<running, client, owner>>

WorkToDo == ~running \/ pending # <<>> \/ Active # {}

\* Error: the wait predicate looks at the queue and not at the slots.
SleepOnActiveSlots ==
  /\ pc = "wait" /\ ~asleep /\ running /\ pending = <<>>
  /\ asleep' = TRUE
  /\ UNCHANGED <<pending, slots, pc, results, activeCount, answer>> /\ DecodeLocal

Sleep ==
  /\ pc = "wait" /\ ~asleep /\ ~WorkToDo
  /\ asleep' = TRUE
  /\ UNCHANGED <<pending, slots, pc, results, activeCount, answer>> /\ DecodeLocal

SpuriousWakeup ==
  /\ pc = "wait" /\ asleep
  /\ asleep' = FALSE
  /\ UNCHANGED <<pending, slots, pc, results, activeCount, answer>> /\ DecodeLocal

\* Error: running_ alone decides whether the loop is over.
WakeUpAndLeave ==
  /\ pc = "wait" /\ ~asleep /\ WorkToDo
  /\ pc' = IF ~running THEN "exited" ELSE "admit"
  /\ UNCHANGED <<pending, slots, asleep, results, activeCount, answer>> /\ DecodeLocal

\* The predicate holds: leave the loop when it is over, go on otherwise.
WakeUp ==
  /\ pc = "wait" /\ ~asleep /\ WorkToDo
  /\ pc' = IF ~running /\ pending = <<>> /\ Active = {} THEN "exited" ELSE "admit"
  /\ UNCHANGED <<pending, slots, asleep, results, activeCount, answer>> /\ DecodeLocal

\* Error: the admitted request stays in the queue.
AdmitWithoutPop(s) ==
  /\ pc = "admit" /\ pending # <<>> /\ IsFirst(s, Idle)
  /\ slots' = [slots EXCEPT ![s] = [state |-> "PREFILLING", req |-> Head(pending),
                                    output |-> <<>>]]
  /\ UNCHANGED <<pending, pc, asleep, results, activeCount, answer>> /\ DecodeLocal

\* One iteration of admit_pending() that finds an idle slot, reset_slot_(s) included.
AdmitSlot(s) ==
  /\ pc = "admit" /\ pending # <<>> /\ IsFirst(s, Idle)
  /\ slots' = [slots EXCEPT ![s] = [state |-> "PREFILLING", req |-> Head(pending),
                                    output |-> <<>>]]
  /\ pending' = Tail(pending)
  /\ UNCHANGED <<pc, asleep, results, activeCount, answer>> /\ DecodeLocal

\* Error: the request is popped before the idle slot is found.
PopThenGiveUp ==
  /\ pc = "admit" /\ (pending = <<>> \/ Idle = {})
  /\ pc' = "prefill"
  /\ pending' = IF pending = <<>> THEN pending ELSE Tail(pending)
  /\ UNCHANGED <<slots, asleep, results, activeCount, answer>> /\ DecodeLocal

AdmitDone ==
  /\ pc = "admit" /\ (pending = <<>> \/ Idle = {})
  /\ pc' = "prefill"
  /\ UNCHANGED <<pending, slots, asleep, results, activeCount, answer>> /\ DecodeLocal

\* The prompt of one slot goes through gen_single_, the results are dropped.
PrefillSlot(s) ==
  /\ pc = "prefill" /\ IsFirst(s, SlotsIn("PREFILLING"))
  /\ slots' = [slots EXCEPT ![s].state = "DECODING"]
  /\ UNCHANGED <<pending, pc, asleep, results, activeCount, answer>> /\ DecodeLocal

PrefillDone ==
  /\ pc = "prefill" /\ SlotsIn("PREFILLING") = {}
  /\ activeCount' = Cardinality(SlotsIn("DECODING"))
  /\ pc' = IF SlotsIn("DECODING") = {} THEN "wait" ELSE "decode"
  /\ UNCHANGED <<pending, slots, asleep, results, answer>> /\ DecodeLocal

\* gen_single_ for a batch of one, gen_batch_ for a larger one: one token a slot.
Decode ==
  /\ pc = "decode"
  /\ results' \in [SlotsIn("DECODING") -> Tokens]
  /\ pc' = "deliver"
  /\ UNCHANGED <<pending, slots, asleep, activeCount, answer>> /\ DecodeLocal

\* gen_batch_ returned {} (no backend, or op 33 failed): results[0] reads through
\* the null pointer of an empty vector, and the process ends.
DecodeFails ==
  /\ BatchMayFail
  /\ pc = "decode" /\ Cardinality(SlotsIn("DECODING")) > 1
  /\ pc' = "crashed"
  /\ UNCHANGED <<pending, slots, asleep, results, activeCount, answer>> /\ DecodeLocal

\* Error: one token too many.
StopsLate(r, output) == output[Len(output)] = Eos \/ Len(output) > MaxTokens[r]

\* One iteration of the loop over the results.
Stops(r, output) == output[Len(output)] = Eos \/ Len(output) >= MaxTokens[r]

Deliver(s) ==
  LET r == slots[s].req
      output == Append(slots[s].output, results[s])
  IN  /\ pc = "deliver" /\ IsFirst(s, DOMAIN results)
      /\ results' = [t \in DOMAIN results \ {s} |-> results[t]]
      /\ IF Stops(r, output)
           THEN /\ answer' = [answer EXCEPT ![r] = output]
                /\ slots' = [slots EXCEPT ![s].state = "IDLE", ![s].output = <<>>]
           ELSE /\ slots' = [slots EXCEPT ![s].output = output]
                /\ UNCHANGED answer
      /\ UNCHANGED <<pending, pc, asleep, activeCount>> /\ DecodeLocal

DeliverDone ==
  /\ pc = "deliver" /\ DOMAIN results = {}
  /\ activeCount' = Cardinality(SlotsIn("DECODING"))
  /\ pc' = "wait"
  /\ UNCHANGED <<pending, slots, asleep, results, answer>> /\ DecodeLocal

(***************************************************************************)
(* The destructor.  Nobody calls submit() on an object that is being       *)
(* destroyed, and no call is still inside; futures may still be unread.    *)
(***************************************************************************)
OwnerLocal == UNCHANGED <<pending, slots, pc, results, activeCount, client, answer>>

Stop ==
  /\ owner = "alive" /\ MuFree
  /\ \A r \in Requests : client[r] # "notify"
  /\ running' = FALSE
  /\ owner' = "notify"
  /\ UNCHANGED asleep /\ OwnerLocal

\* Error: the destructor joins without notifying.
StopQuietly ==
  /\ owner = "notify"
  /\ owner' = "join"
  /\ UNCHANGED <<running, asleep>> /\ OwnerLocal

StopNotify ==
  /\ owner = "notify"
  /\ asleep' = FALSE
  /\ owner' = "join"
  /\ UNCHANGED running /\ OwnerLocal

Join ==
  /\ owner = "join" /\ pc = "exited"
  /\ owner' = "destroyed"
  /\ UNCHANGED <<running, asleep>> /\ OwnerLocal

-------------------------------------------------------------------------------
Client(r) == Submit(r) \/ Notify(r) \/ Get(r)

DecodeThread ==
  \/ Sleep \/ WakeUp
  \/ AdmitDone \/ PrefillDone \/ Decode \/ DecodeFails \/ DeliverDone
  \/ \E s \in Slots : AdmitSlot(s) \/ PrefillSlot(s) \/ Deliver(s)

Destructor == Stop \/ StopNotify \/ Join

\* The object is gone, or the process is.
Over == pc = "crashed" \/ (owner = "destroyed" /\ \A r \in Requests : client[r] \in {"new", "done"})
Finished == Over /\ UNCHANGED schedVars

Running ==
  /\ pc # "crashed"
  /\ \/ \E r \in Requests : Client(r)
     \/ DecodeThread \/ SpuriousWakeup
     \/ Destructor

Next == Running \/ Finished

Spec == Init /\ [][Next]_schedVars

\* Every thread that can run does: nothing obliges anyone to call submit() or to
\* destroy the scheduler, and a crash is never obliged to happen.
Fairness ==
  /\ WF_schedVars(pc # "crashed" /\ DecodeThread)
  /\ \A r \in Requests : WF_schedVars(pc # "crashed" /\ (Notify(r) \/ Get(r)))
  /\ WF_schedVars(pc # "crashed" /\ (StopNotify \/ Join))

FairSpec == Spec /\ Fairness

-------------------------------------------------------------------------------
\* The slots hold different accepted requests, none of which is also queued; a
\* request is queued once: no promise can be set twice (which would throw in the
\* decode thread) and no request is decoded twice.
Queued == {pending[k] : k \in 1 .. Len(pending)}
Accepted == {r \in Requests : client[r] # "new" /\ answer[r] = <<>>}

OnePlace ==
  /\ \A j, k \in 1 .. Len(pending) : pending[j] = pending[k] => j = k
  /\ \A s \in Active : slots[s].req \in Accepted \ Queued
  /\ \A s, t \in Active : slots[s].req = slots[t].req => s = t
  /\ Queued \subseteq Accepted

\* A request that was accepted and not answered is in the queue or in a slot:
\* no admission, completion or shutdown loses it.
NoRequestLost == Accepted \subseteq Queued \cup {slots[s].req : s \in Active}

\* The decode thread never sleeps on work: if it sleeps while there is some, a
\* notification that will wake it is still to come.
NoLostWakeup ==
  asleep /\ WorkToDo =>
    \/ \E r \in Requests : client[r] = "notify"
    \/ owner = "notify"

\* The destructor joins only after every accepted request got its answer.
DrainedBeforeJoin == pc = "exited" => Accepted = {} /\ ~running

\* What the callers are promised.
phaseOf == [r \in Requests |-> IF client[r] = "new" THEN "new"
                               ELSE IF answer[r] = <<>> THEN "accepted" ELSE "answered"]

Service == INSTANCE CompletionService WITH phase <- phaseOf

ServiceSafety == Service!Safety

\* Unless the process ends (DecodeFails), every call of submit() gets its future
\* completed and its caller continues.
EveryCallReturns ==
  \A r \in Requests : client[r] = "notify" ~> client[r] = "done" \/ pc = "crashed"

\* Likewise a destructor that has started comes to its end.
ShutdownCompletes == owner = "notify" ~> owner = "destroyed" \/ pc = "crashed"
===============================================================================
