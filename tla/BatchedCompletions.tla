-------------------------- MODULE BatchedCompletions --------------------------
(***************************************************************************)
(* BatchScheduler as unified_server wires it: the /v1/completions handlers *)
(* call it with g_inference_mutex held, and its callbacks run on the NPU   *)
(* backend, whose worker process keeps one KV cache per worker slot.  The  *)
(* chat handler uses the same mutex and the same worker directly.          *)
(*                                                                         *)
(* The content of a KV cache is the sequence of the owners of its tokens.  *)
(* The worker resets a slot lazily (op 34 only records ONE slot number,    *)
(* the next op 32 or 33 acts on it), op 32 runs on worker slot 0, and op   *)
(* 33 runs the k-th token of its payload on worker slot k - 1: the slot    *)
(* numbers of the batch do not reach the worker.                           *)
(*                                                                         *)
(* The worker may crash, hang, answer an error, be slow or not start, and  *)
(* the scheduler goes on whatever gen_single_ and reset_slot_ return.  The *)
(* NPU backend is the only one here; what the pipes do to the replies is   *)
(* NpuWorker's.                                                            *)
(***************************************************************************)
EXTENDS BatchScheduler

CONSTANTS
  PromptLen,    \* tokens in each prompt, after a leading eos is dropped
  Chat,         \* the chat handler, as owner of the mutex and of KV entries
  Free,         \* nobody holds g_inference_mutex
  NoSlot,       \* fuse_reset_slot = -1
  MaxChat       \* bound: tokens of a chat turn

ASSUME PromptLenAssumption == PromptLen \in [Requests -> Nat \ {0}]
ASSUME OwnersAssumption ==
  Chat \notin Requests /\ Free \notin Requests \cup {Chat} /\ NoSlot \notin Slots

VARIABLES
  infer,        \* who holds g_inference_mutex
  kv,           \* fuse_kv, fuse_pos: the owners of the cached tokens, by worker slot
  kvReady,      \* fuse_kv_init
  resetAll,     \* fuse_reset
  resetSlot,    \* fuse_reset_slot
  npu,          \* the worker: "absent" (to be started), "up", "late" (alive, with a
                \* request its caller gave up on) or "dead" (and not noticed)
  prefilled,    \* prompt tokens of the slot being prefilled that were given to op 32
  lost          \* history: since the session (an admission or a chat turn) began, a
                \* call failed or the worker was released

caches == <<kv, kvReady, resetAll, resetSlot>>
engineVars == <<caches, npu, prefilled, lost>>
vars == <<schedVars, infer, engineVars>>

Owners == Requests \cup {Chat}

EmptyKv == [w \in Slots |-> <<>>]

BatchedInit ==
  /\ Init
  /\ infer = Free
  /\ kv = EmptyKv
  /\ kvReady = FALSE /\ resetAll = FALSE
  /\ resetSlot = NoSlot
  /\ npu = "absent" /\ prefilled = 0 /\ lost = FALSE

(***************************************************************************)
(* The worker process.                                                     *)
(***************************************************************************)
\* The caches once the resets noted so far have been acted on.
AfterResets ==
  IF resetAll \/ ~kvReady THEN EmptyKv
  ELSE IF resetSlot # NoSlot THEN [kv EXCEPT ![resetSlot] = <<>>] ELSE kv

\* Op 32 or 33: fed[w] is what is appended to worker slot w.
WorkerRuns(fed) ==
  /\ kv' = [w \in Slots |-> AfterResets[w] \o fed[w]]
  /\ kvReady' = TRUE /\ resetAll' = FALSE /\ resetSlot' = NoSlot

\* A process that ends takes its caches and the noted resets with it.
CachesGone ==
  /\ kv' = EmptyKv
  /\ kvReady' = FALSE /\ resetAll' = FALSE /\ resetSlot' = NoSlot

\* It may be killed or crash between two calls too; `ready' stays.
WorkerDies ==
  /\ npu \in {"up", "late"}
  /\ npu' = "dead" /\ CachesGone
  /\ UNCHANGED <<schedVars, infer, prefilled, lost>>

(***************************************************************************)
(* NPUBackend::generate() as the manager calls it: one op 32.              *)
(***************************************************************************)
\* ensure_worker().
Started == IF npu = "absent" THEN "up" ELSE npu

OnSlot0(tokens) == [w \in Slots |-> IF w = 0 THEN tokens ELSE <<>>]
NoTokens == OnSlot0(<<>>)

CallSucceeds(fed) ==
  /\ npu # "dead" /\ npu' = Started
  /\ WorkerRuns(fed)
  /\ UNCHANGED lost

\* -1.  The call did not get to a worker (none started, EPIPE, the manager does not use
\* a backend that failed); or op 32 threw before fuse_pos advanced; or the read gave up,
\* and the worker gets to the request later, but before any other; or the worker died.
CallFails(fed) ==
  /\ lost' = TRUE
  /\ \/ UNCHANGED <<caches, npu>>
     \/ npu # "dead" /\ npu' = Started /\ WorkerRuns(NoTokens)
     \/ npu # "dead" /\ npu' = "late" /\ WorkerRuns(fed)
     \/ npu # "dead" /\ npu' = "dead" /\ CachesGone

\* A call of IDLE_RELEASE_SECS or more succeeds and releases the worker it used.
CallReleases ==
  /\ npu # "dead" /\ npu' = "absent"
  /\ CachesGone
  /\ lost' = TRUE

Generate(fed) == CallSucceeds(fed) \/ CallFails(fed) \/ CallReleases

\* The batch is in slot order: the worker slot that each of its slots runs on.
Batch == SlotsIn("DECODING")
WorkerSlot(s) == Cardinality({t \in Batch : t < s})

(***************************************************************************)
(* The handlers: the mutex is taken first and held until the answer is out. *)
(***************************************************************************)
\* Error: the handler does not take the mutex.
NoLock(r) ==
  /\ client[r] = "new"
  /\ infer' = r
  /\ UNCHANGED <<schedVars, engineVars>>

LockInference(r) ==
  /\ infer = Free /\ client[r] = "new"
  /\ infer' = r
  /\ UNCHANGED <<schedVars, engineVars>>

HandlerSubmit(r) == infer = r /\ Submit(r) /\ UNCHANGED <<infer, engineVars>>

\* Error: the handler unlocks before it waits for the answer.
NotifyAndUnlock(r) == Notify(r) /\ infer' = Free /\ UNCHANGED engineVars

HandlerNotify(r) == Notify(r) /\ UNCHANGED <<infer, engineVars>>

HandlerReturn(r) == Get(r) /\ infer' = Free /\ UNCHANGED engineVars

\* Error: a chat turn starts without a reset.
ChatBeginDirty ==
  /\ infer = Free
  /\ infer' = Chat
  /\ UNCHANGED <<schedVars, engineVars>>

\* generate_completion(): reset the backend (op 31 if there is a worker; the outcome is
\* ignored), then token after token.
ChatBegin ==
  /\ infer = Free
  /\ infer' = Chat
  /\ \/ npu \in {"up", "late"} /\ resetAll' = TRUE /\ npu' \in {npu, "late"}
     \/ npu \in {"absent", "dead"} /\ UNCHANGED <<resetAll, npu>>
  /\ lost' = FALSE
  /\ UNCHANGED <<schedVars, kv, kvReady, resetSlot, prefilled>>

ChatToken ==
  /\ infer = Chat
  /\ Len(AfterResets[0]) < MaxChat
  /\ Generate(OnSlot0(<<Chat>>))
  /\ UNCHANGED <<schedVars, infer, prefilled>>

ChatEnd ==
  /\ infer = Chat
  /\ infer' = Free
  /\ UNCHANGED <<schedVars, engineVars>>

(***************************************************************************)
(* The decode thread with its callbacks.                                   *)
(***************************************************************************)
\* reset_slot_(s): op 34, one number remembered.  The read of its reply may give up;
\* a worker that cannot be started or is dead takes none.  The outcome is ignored.
AdmitAndReset(s) ==
  /\ AdmitSlot(s)
  /\ \/ npu # "dead" /\ resetSlot' = s /\ npu' \in {Started, "late"}
     \/ npu \in {"absent", "dead"} /\ UNCHANGED <<resetSlot, npu>>
  /\ lost' = FALSE
  /\ UNCHANGED <<infer, kv, kvReady, resetAll, prefilled>>

\* gen_single_ for one of the tokens of the prompt before the last: op 32, without a
\* lock.  The result is dropped.
PrefillOnWorker(s) ==
  LET r == slots[s].req
  IN  /\ pc = "prefill" /\ IsFirst(s, SlotsIn("PREFILLING"))
      /\ prefilled < PromptLen[r] - 1
      /\ prefilled' = prefilled + 1
      /\ Generate(OnSlot0(<<r>>))
      /\ UNCHANGED <<schedVars, infer>>

\* The loop over the prompt is done.
Prefilled(s) ==
  /\ PrefillSlot(s)
  /\ prefilled = PromptLen[slots[s].req] - 1
  /\ prefilled' = 0
  /\ UNCHANGED <<infer, caches, npu, lost>>

\* A batch of one: op 32, no lock, and the scheduler goes on with what it gets, -1
\* (one of Tokens, the worker reads it as token 0) like any other token.  Several:
\* gen_batch_ takes g_inference_mutex, op 33; if it fails, DecodeFails.
DecodeOnWorker ==
  LET fed == [w \in Slots |->
               IF \E s \in Batch : WorkerSlot(s) = w
                 THEN <<slots[CHOOSE s \in Batch : WorkerSlot(s) = w].req>> ELSE <<>>]
  IN  /\ Decode
      /\ IF Cardinality(Batch) = 1 THEN Generate(fed)
         ELSE infer = Free /\ CallSucceeds(fed)
      /\ UNCHANGED <<infer, prefilled>>

WithoutWorker ==
  /\ \/ Sleep \/ WakeUp \/ AdmitDone \/ PrefillDone \/ DeliverDone
     \/ \E s \in Slots : Deliver(s)
  /\ UNCHANGED <<infer, engineVars>>

SchedulerThread ==
  \/ WithoutWorker
  \/ DecodeOnWorker
  \/ \E s \in Slots : AdmitAndReset(s) \/ PrefillOnWorker(s) \/ Prefilled(s)

Handler(r) ==
  \/ LockInference(r)
  \/ HandlerSubmit(r)
  \/ HandlerNotify(r)
  \/ HandlerReturn(r)

ChatHandler == ChatBegin \/ ChatToken \/ ChatEnd

Spurious == SpuriousWakeup /\ UNCHANGED <<infer, engineVars>>

BatchedNext ==
  \/ SchedulerThread \/ Spurious \/ ChatHandler \/ WorkerDies
  \/ \E r \in Requests : Handler(r)

\* Threads that can run do; nobody is obliged to send a request.
BatchedFairness ==
  /\ WF_vars(SchedulerThread)
  /\ WF_vars(ChatEnd)
  /\ \A r \in Requests :
       WF_vars(HandlerSubmit(r) \/ HandlerNotify(r) \/ HandlerReturn(r))

BatchedSpec == BatchedInit /\ [][BatchedNext]_vars /\ BatchedFairness

-------------------------------------------------------------------------------
\* The worker that will compute the next token has acted on every call of the session.
Intact == ~lost /\ npu \in {"absent", "up"}

\* Whatever the worker did with slot numbers and lazy resets, and whatever failed, the
\* next token of a request is computed from nothing an earlier request or a chat turn
\* left in the cache; and from the request's own prompt and output, all of it, if since
\* its admission no call failed, no slow call released the worker, and the worker is
\* neither dead nor late with its replies.
NextTokenFromOwnContext ==
  pc = "decode" =>
    \A s \in Batch :
      LET cache == AfterResets[WorkerSlot(s)]
          r == slots[s].req
      IN  /\ \A k \in 1 .. Len(cache) : cache[k] = r
          /\ Intact => Len(cache) = PromptLen[r] - 1 + Len(slots[s].output)

\* gen_batch_ never waits for the mutex that a handler holds until gen_batch_ is done.
NoCallbackDeadlock ==
  pc = "decode" /\ Cardinality(Batch) > 1 => infer = Free

\* A chat turn is never mixed with the tokens of a completion either, whatever failed.
ChatContextIsOwn ==
  infer = Chat => \A k \in 1 .. Len(AfterResets[0]) : AfterResets[0][k] = Chat

\* A handler that got the mutex answers and gives it back.
HandlersReturn == \A r \in Requests : infer = r ~> infer # r
===============================================================================
