------------------------------ MODULE NpuWorker ------------------------------
(***************************************************************************)
(* src/backend_npu.cpp and the worker loop of npu_engine_universal: the    *)
(* NPU backend starts a worker process, writes a request to its stdin and  *)
(* reads the reply from its stdout.  A read gives up after 30 s (GEMM_     *)
(* TIMEOUT_MS); the worker may crash; it is released by generate() if more *)
(* than IDLE_RELEASE_SECS passed since last_use_.                          *)
(*                                                                         *)
(* One caller (g_inference_mutex keeps the others out: Generation) runs    *)
(* sessions: reset(), then generate() token after token; a token that      *)
(* fails is tried again a bounded number of times (the fallback loop of    *)
(* generate_completion with this backend only), then the session ends.     *)
(* A token is <<session, position>>; a KV cache is the tokens fed to it,   *)
(* and so is the recurrent (GDN) state; the model is one with MoE layers,  *)
(* which have it.                                                          *)
(***************************************************************************)
EXTENDS Naturals, Sequences

CONSTANTS
  MaxSessions,   \* bound: sessions opened
  MaxPos,        \* bound: tokens fed in a session
  MaxTries,      \* calls of generate() for a token before the session ends
  None           \* no request, no reply

ASSUME BoundsAssumption == MaxSessions \in Nat /\ MaxPos \in Nat /\ MaxTries \in Nat \ {0}

VARIABLES
  workerReady, \* NpuWorker::ready
  worker,     \* the process: "absent", "alive" or "dead" (crashed)
  toChild,    \* requests written and not read by the worker
  fromChild,  \* replies written and not read by the backend
  workerKv,   \* the worker's KV cache
  gdn,        \* fuse_gdn_state_slots[0]: the tokens in the recurrent state
  resetNoted, \* fuse_reset: op 31 was received, the next op 32 acts on it
  callAt,         \* "idle" between calls, "ensured", "reading", "returned"
  req,        \* the request of the current call
  result,     \* the reply it returned, None if it failed
  session,    \* number of the session
  open,       \* does the caller go on with the session?
  fed,        \* tokens of the session that were generated on successfully
  tries,      \* failed tries of the current token
  gaveUp,     \* history: a read gave up since the worker was started
  released    \* history: the worker was released within this session

linkVars == <<workerReady, worker, toChild, fromChild>>
childVars == <<workerKv, gdn, resetNoted>>
callerVars == <<session, open, fed, tries>>
histVars == <<gaveUp, released>>
workerVars == <<linkVars, childVars, callAt, req, result, callerVars, histVars>>

Tok == (1 .. MaxSessions) \X (1 .. MaxPos)
WorkerRequests == [op : {31}, tok : {None}, try : {0}] \cup [op : {32}, tok : Tok, try : 0 .. MaxTries]
Replies == [to : WorkerRequests, ok : BOOLEAN, ctx : Seq(Tok), rec : Seq(Tok)]

ASSUME NoneAssumption == None \notin WorkerRequests /\ None \notin Replies

WorkerTypeOK ==
  /\ workerReady \in BOOLEAN
  /\ worker \in {"absent", "alive", "dead"}
  /\ toChild \in Seq(WorkerRequests) /\ fromChild \in Seq(Replies)
  /\ workerKv \in Seq(Tok) /\ gdn \in Seq(Tok) /\ resetNoted \in BOOLEAN
  /\ callAt \in {"idle", "ensured", "reading", "returned"}
  /\ req \in WorkerRequests \cup {None}
  /\ result \in Replies \cup {None}
  /\ session \in 0 .. MaxSessions /\ open \in BOOLEAN
  /\ fed \in 0 .. MaxPos /\ tries \in 0 .. MaxTries
  /\ gaveUp \in BOOLEAN /\ released \in BOOLEAN

WorkerInit ==
  /\ workerReady = FALSE /\ worker = "absent"
  /\ toChild = <<>> /\ fromChild = <<>>
  /\ workerKv = <<>> /\ gdn = <<>> /\ resetNoted = FALSE
  /\ callAt = "idle" /\ req = None /\ result = None
  /\ session = 0 /\ open = FALSE /\ fed = 0 /\ tries = 0
  /\ gaveUp = FALSE /\ released = FALSE

(***************************************************************************)
(* The link.                                                               *)
(***************************************************************************)
\* gemm(): the request is written; a dead worker's pipe refuses it (EPIPE).
Write(r) ==
  /\ req' = r
  /\ IF worker = "alive"
       THEN toChild' = Append(toChild, r) /\ callAt' = "reading"
       ELSE UNCHANGED toChild /\ callAt' = "returned"
  /\ result' = None
  /\ UNCHANGED <<workerReady, worker, fromChild>>

\* spawn(): new pipes, a new process with an empty cache.
Spawned ==
  /\ workerReady' = TRUE /\ worker' = "alive"
  /\ toChild' = <<>> /\ fromChild' = <<>>
  /\ workerKv' = <<>> /\ gdn' = <<>> /\ resetNoted' = FALSE
  /\ gaveUp' = FALSE

\* shutdown(): the process ends, its pipes are closed.
ShutDown ==
  /\ workerReady' = FALSE /\ worker' = "absent"
  /\ toChild' = <<>> /\ fromChild' = <<>>
  /\ workerKv' = <<>> /\ gdn' = <<>> /\ resetNoted' = FALSE

(***************************************************************************)
(* The caller and the backend.                                             *)
(***************************************************************************)
\* Error: reset() does not wait for its reply.
OpenWithoutReading ==
  /\ callAt = "idle" /\ ~open /\ session < MaxSessions
  /\ session' = session + 1 /\ open' = TRUE /\ fed' = 0 /\ tries' = 0
  /\ toChild' = IF workerReady /\ worker = "alive"
                  THEN Append(toChild, [op |-> 31, tok |-> None, try |-> 0]) ELSE toChild
  /\ released' = FALSE
  /\ UNCHANGED <<workerReady, worker, fromChild, childVars, callAt, req, result, gaveUp>>

\* reset(): op 31 if there is a worker; its result is ignored.
OpenSession ==
  /\ callAt = "idle" /\ ~open /\ session < MaxSessions
  /\ session' = session + 1 /\ open' = TRUE /\ fed' = 0 /\ tries' = 0
  /\ IF workerReady THEN Write([op |-> 31, tok |-> None, try |-> 0])
     ELSE UNCHANGED <<linkVars, callAt, req, result>>
  /\ released' = FALSE
  /\ UNCHANGED <<childVars, gaveUp>>

EndSession ==
  /\ callAt = "idle" /\ open
  /\ open' = FALSE
  /\ UNCHANGED <<linkVars, childVars, callAt, req, result, session, fed, tries, histVars>>

\* ensure_worker() at the start of generate(): only a worker that is not `ready'
\* is started.
EnsureWorker ==
  /\ callAt = "idle" /\ open /\ fed < MaxPos
  /\ callAt' = "ensured"
  /\ IF workerReady THEN UNCHANGED <<linkVars, childVars, gaveUp>> ELSE Spawned
  /\ UNCHANGED <<req, result, callerVars, released>>

SpawnFails ==
  /\ callAt = "idle" /\ open /\ fed < MaxPos /\ ~workerReady
  /\ callAt' = "returned"
  /\ req' = [op |-> 32, tok |-> <<session, fed + 1>>, try |-> tries]
  /\ result' = None
  /\ UNCHANGED <<linkVars, childVars, callerVars, histVars>>

WriteToken ==
  /\ callAt = "ensured"
  /\ Write([op |-> 32, tok |-> <<session, fed + 1>>, try |-> tries])
  /\ UNCHANGED <<childVars, callerVars, histVars>>

\* A reply is there: it is taken for the reply to this call.  An error reply fails the
\* call.  A generate() that took long enough releases the worker it has just used.
Read ==
  /\ callAt = "reading" /\ fromChild # <<>>
  /\ callAt' = "returned"
  /\ result' = IF Head(fromChild).ok THEN Head(fromChild) ELSE None
  /\ \/ /\ fromChild' = Tail(fromChild)
        /\ UNCHANGED <<workerReady, worker, toChild, childVars, histVars>>
     \/ /\ req.op = 32 /\ Head(fromChild).ok
        /\ ShutDown /\ released' = TRUE
        /\ UNCHANGED gaveUp
  /\ UNCHANGED <<req, callerVars>>

\* The worker is gone and so is everything it wrote: end of file.
ReadEof ==
  /\ callAt = "reading" /\ fromChild = <<>> /\ worker = "dead"
  /\ callAt' = "returned"
  /\ UNCHANGED <<linkVars, childVars, req, result, callerVars, histVars>>

\* Error: read() without a limit.
NeverTimeOut == FALSE

\* read_with_timeout() gives up; the request is still with the worker.
TimeOut ==
  /\ callAt = "reading" /\ fromChild = <<>> /\ worker = "alive"
  /\ callAt' = "returned"
  /\ gaveUp' = TRUE
  /\ UNCHANGED <<linkVars, childVars, req, result, callerVars, released>>

\* Is there another try after one that failed?
AnotherTry == tries + 1 < MaxTries

\* Back in the caller: the next token, another try, or the end of the session.
Returned ==
  /\ callAt = "returned"
  /\ callAt' = "idle" /\ req' = None /\ result' = None
  /\ \/ /\ req.op = 31
        /\ UNCHANGED <<open, fed, tries>>
     \/ /\ req.op = 32 /\ result # None
        /\ fed' = fed + 1 /\ tries' = 0
        /\ UNCHANGED open
     \/ /\ req.op = 32 /\ result = None
        /\ tries' = tries + 1
        /\ open' = AnotherTry
        /\ UNCHANGED fed
  /\ UNCHANGED <<linkVars, childVars, session, histVars>>

\* The backend manager reloads: destroy(), then init() (which starts no worker).
Reload ==
  /\ callAt = "idle" /\ ~open /\ worker # "absent"
  /\ ShutDown
  /\ UNCHANGED <<callAt, req, result, callerVars, histVars>>

(***************************************************************************)
(* The worker process.                                                     *)
(***************************************************************************)
\* Error: op 31 is answered and not acted on.
ServeWithoutReset ==
  LET r == Head(toChild)
  IN  /\ worker = "alive" /\ toChild # <<>>
      /\ toChild' = Tail(toChild)
      /\ workerKv' = IF r.op = 31 THEN workerKv ELSE Append(workerKv, r.tok)
      /\ fromChild' = Append(fromChild, [to |-> r, ok |-> TRUE, ctx |-> workerKv', rec |-> gdn])
      /\ UNCHANGED <<gdn, resetNoted, workerReady, worker, callAt, req, result, callerVars, histVars>>

\* Op 31 is acted on by the next op 32: the caches are made anew, the recurrent state
\* is resized to the size it has, which leaves its content.
AfterReset == IF resetNoted THEN <<>> ELSE workerKv

Serve ==
  LET r == Head(toChild)
  IN  /\ worker = "alive" /\ toChild # <<>>
      /\ toChild' = Tail(toChild)
      /\ IF r.op = 31
           THEN /\ resetNoted' = TRUE
                /\ fromChild' = Append(fromChild, [to |-> r, ok |-> TRUE, ctx |-> <<>>, rec |-> <<>>])
                /\ UNCHANGED <<workerKv, gdn>>
           ELSE /\ resetNoted' = FALSE
                /\ workerKv' = Append(AfterReset, r.tok)
                /\ gdn' = Append(gdn, r.tok)
                /\ fromChild' = Append(fromChild, [to |-> r, ok |-> TRUE, ctx |-> workerKv', rec |-> gdn'])
      /\ UNCHANGED <<workerReady, worker, callAt, req, result, callerVars, histVars>>

\* Op 32 throws before the position advances; layers that ran have updated the
\* recurrent state.
ServeFails ==
  LET r == Head(toChild)
  IN  /\ worker = "alive" /\ toChild # <<>> /\ r.op = 32
      /\ toChild' = Tail(toChild)
      /\ resetNoted' = FALSE /\ workerKv' = AfterReset
      /\ gdn' \in {gdn, Append(gdn, r.tok)}
      /\ fromChild' = Append(fromChild, [to |-> r, ok |-> FALSE, ctx |-> <<>>, rec |-> <<>>])
      /\ UNCHANGED <<workerReady, worker, callAt, req, result, callerVars, histVars>>

Crash ==
  /\ worker = "alive"
  /\ worker' = "dead" /\ toChild' = <<>>
  /\ UNCHANGED <<workerReady, fromChild, childVars, callAt, req, result, callerVars, histVars>>

-------------------------------------------------------------------------------
Backend == EnsureWorker \/ SpawnFails \/ WriteToken \/ Read \/ ReadEof \/ TimeOut \/ Returned
Caller == OpenSession \/ EndSession \/ Reload

WorkerNext == Backend \/ Caller \/ Serve \/ ServeFails \/ Crash

\* A call that has begun runs on: the caller's thread is scheduled and a read
\* ends at its limit.  Nothing is assumed of the worker: it may hang for ever.
WorkerFairness == WF_workerVars(callAt # "idle" /\ Backend)

WorkerSpec == WorkerInit /\ [][WorkerNext]_workerVars
WorkerFairSpec == WorkerSpec /\ WorkerFairness

-------------------------------------------------------------------------------
\* "Send a GEMM operation, read back result": the reply that a call returns is
\* the reply to the request that it wrote.
ReplyIsToThisCall == callAt = "returned" /\ result # None => result.to = req

\* It is unless a read gave up on this worker process: crashes, error replies and
\* restarts do not put the two ends of the pipes out of step.
ReplyInStep == ~gaveUp => ReplyIsToThisCall

\* The token that generate() returns was computed from every token of its own
\* session up to this one, each once, and from no other: as long as no read gave up
\* and no slow call released the worker, a crash, an error or a reload never loses
\* the context without the caller being told.
TokenFromWholeSession ==
  callAt = "returned" /\ result # None /\ req.op = 32 /\ ~gaveUp /\ ~released =>
    result.ctx = [k \in 1 .. fed + 1 |-> <<session, k>>]

\* "Reset ALL KV caches + GDN state (new conversation)": the recurrent state that a
\* token is computed from holds no token of an earlier session.
RecurrentStateOfSession ==
  callAt = "returned" /\ result # None /\ req.op = 32 =>
    \A k \in DOMAIN result.rec : result.rec[k][1] = session

\* A call returns whatever the worker does (issue 20: a hung worker must not
\* block the calling thread for ever).
WorkerCallsReturn == callAt # "idle" ~> callAt = "idle"
===============================================================================
