------------------------------- MODULE NpuQueue -------------------------------
(***************************************************************************)
(* How the web server of src/src/server/server.cpp lets one request at a   *)
(* time use the NPU: NPUAccessManager's flag, the queue of the requests    *)
(* that found it taken, and process_next_npu_request(), which the request  *)
(* that is done runs to hand the NPU to the next one.                      *)
(*                                                                         *)
(* A session is one connection with a request to one of the endpoints of   *)
(* requires_npu_access().  Whatever a handler does in between, it ends in  *)
(* one call of process_next_npu_request(): in send_response(), in the last *)
(* send_streaming_response(), or in the catch blocks of process_task (a    *)
(* handler that throws after it answered, and so calls it twice, is left   *)
(* out).  Some code of the handler still runs after that call.             *)
(***************************************************************************)
EXTENDS Naturals, FiniteSets, Sequences

CONSTANTS
  Sessions,     \* connections
  MaxNpuQueue,  \* max_npu_queue_
  IoThreads     \* io_thread_count_

ASSUME NpuQueueAssumption == MaxNpuQueue \in Nat /\ IoThreads \in Nat \ {0}

VARIABLES
  inUse,      \* g_npu_in_use
  npuQueue,   \* npu_request_queue_, the oldest first
  phase       \* where each session is

queueVars == <<inUse, npuQueue, phase>>

\* A session that runs on an I/O thread: the threads never leave a handler, or the
\* cooldown, for another session.
OnThread == {s \in Sessions : phase[s] \in {"try", "push", "running", "handOn", "cooldown", "tail"}}
ThreadFree == Cardinality(OnThread) < IoThreads

GoTo(s, p) == phase' = [phase EXCEPT ![s] = p]

NpuQueueInit == inUse = FALSE /\ npuQueue = <<>> /\ phase = [s \in Sessions |-> "away"]

\* A request was read and its endpoint needs the NPU.
Request(s) ==
  /\ phase[s] = "away" /\ ThreadFree
  /\ GoTo(s, "try") /\ UNCHANGED <<inUse, npuQueue>>

\* try_acquire_npu_access(): the one that sets the flag runs its handler at once.
TryAcquire(s) ==
  /\ phase[s] = "try"
  /\ inUse' = TRUE
  /\ GoTo(s, IF inUse THEN "push" ELSE "running")
  /\ UNCHANGED npuQueue

\* The others queue, under npu_queue_mutex_, or are told that the queue is full.
Push(s) ==
  /\ phase[s] = "push"
  /\ IF Len(npuQueue) >= MaxNpuQueue
       THEN GoTo(s, "away") /\ UNCHANGED npuQueue
       ELSE GoTo(s, "queued") /\ npuQueue' = Append(npuQueue, s)
  /\ UNCHANGED inUse

\* An I/O thread runs a task that was posted.
RunPosted(s) ==
  /\ phase[s] = "posted" /\ ThreadFree
  /\ GoTo(s, "running") /\ UNCHANGED <<inUse, npuQueue>>

\* The handler answers, streams its last chunk, or throws.
Answer(s) ==
  /\ phase[s] = "running"
  /\ GoTo(s, "handOn") /\ UNCHANGED <<inUse, npuQueue>>

\* Error: the NPU is released whoever waits.
HandOnReleases(s) ==
  /\ phase[s] = "handOn"
  /\ inUse' = FALSE /\ GoTo(s, "tail")
  /\ UNCHANGED npuQueue

\* process_next_npu_request(), the first look at the queue: nobody waits, the NPU is
\* free; or sleep for the cooldown.
HandOn(s) ==
  /\ phase[s] = "handOn"
  /\ inUse' = (npuQueue # <<>>)
  /\ GoTo(s, IF npuQueue = <<>> THEN "tail" ELSE "cooldown")
  /\ UNCHANGED npuQueue

\* Error: the NPU is released and the next task posted as well.
PopNextReleases(s) ==
  /\ phase[s] = "cooldown"
  /\ npuQueue # <<>>
  /\ npuQueue' = Tail(npuQueue)
  /\ phase' = [phase EXCEPT ![Head(npuQueue)] = "posted", ![s] = "tail"]
  /\ inUse' = FALSE

\* After the cooldown: the second look at the queue, and the oldest task is posted.
PopNext(s) ==
  /\ phase[s] = "cooldown"
  /\ IF npuQueue = <<>>
       THEN /\ inUse' = FALSE /\ GoTo(s, "tail") /\ UNCHANGED npuQueue
       ELSE /\ npuQueue' = Tail(npuQueue)
            /\ phase' = [phase EXCEPT ![Head(npuQueue)] = "posted", ![s] = "tail"]
            /\ UNCHANGED inUse

\* What is left of the handler (clear_context(), the prompt cache), and the answer is
\* written; the connection closes, another one may take its place.
Return(s) ==
  /\ phase[s] = "tail"
  /\ GoTo(s, "away") /\ UNCHANGED <<inUse, npuQueue>>

SessionStep(s) ==
  TryAcquire(s) \/ Push(s) \/ RunPosted(s) \/ Answer(s) \/ HandOn(s) \/ PopNext(s) \/ Return(s)

NpuQueueNext == \E s \in Sessions : Request(s) \/ SessionStep(s)

\* A handler ends (a model's answer has a length limit, a cancelled one stops) and a
\* thread goes on; a posted task is taken before long, since the I/O context is a queue.
NpuQueueFairness ==
  \A s \in Sessions : WF_queueVars(SessionStep(s)) /\ SF_queueVars(RunPosted(s))

NpuQueueSpec == NpuQueueInit /\ [][NpuQueueNext]_queueVars /\ NpuQueueFairness

-----------------------------------------------------------------------------
\* Sessions that have the NPU, or have been promised it.
Holders == {s \in Sessions : phase[s] \in {"posted", "running", "handOn", "cooldown"}}

\* The flag stands for one session: as long as it is set there is exactly one that runs,
\* waits for a thread with the NPU already its own, or is handing it on, and none when
\* it is not; and who is in the queue waits, once each.  (A release too many in
\* process_next_npu_request() and two models run on the NPU at once.)
NpuExclusive ==
  /\ inUse = (Holders # {})
  /\ \A s, t \in Holders : s = t
  /\ {s \in Sessions : phase[s] = "queued"} = {npuQueue[i] : i \in DOMAIN npuQueue}
  /\ \A i, j \in DOMAIN npuQueue : npuQueue[i] = npuQueue[j] => i = j

\* Who waits in the queue while the NPU is taken gets it.  (Not: who waits.  A request
\* that found the flag set and is pushed after the last holder released it waits until
\* some later request has come and gone.)
QueueDrainsWhileBusy ==
  \A s \in Sessions : (phase[s] = "queued" /\ inUse) ~> phase[s] = "running"
===============================================================================
