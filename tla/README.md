# The 1bit-systems inference servers in TLA+

A model of the part of the repository that decides, while requests come in, which
backend computes which token on which cache, and who waits for whom: the tokenizer, the
completion scheduler, the token loop, speculative decoding, the NPU worker process, the
fused GPU and NPU pipeline, the per-token router and the backend manager, as
`tools/unified_server.cpp` puts them together; and beside them the NPU queue of the web
server, the accounts of the Jarvis server and the daemon that supervises a backend
process.  Paths below are relative to `src/` of this project, so
`src/dynamic_router.cpp` is `src/src/dynamic_router.cpp` in `PROJECT.json`.

## 1. The system

| component | state | operations | talks to | what makes it correct |
|---|---|---|---|---|
| Batch scheduler, `include/batch_scheduler.h` | queue, slots, `running_`, mutex and condition variable, promises | `submit`, the decode thread (admit, prefill, decode, deliver), destructor | handlers (futures), three callbacks | no request lost or answered twice, no lost wake-up, shutdown drains |
| Handlers and wiring, `tools/unified_server.cpp` | `g_inference_mutex`, `g_mgr_mutex`, `g_strategy_mutex`, current model | `/v1/completions`, chat completions, select endpoints, `generate_completion`, the callbacks `reset_slot`, `gen_single`, `gen_batch` | scheduler, manager, NPU backend | a token is computed in its own request's cache; no callback blocks its caller; a deadline ends the answer |
| Speculative decoding, `run_spec_decode` in `tools/unified_server.cpp` | two KV caches, pending logits | prefill, propose, verify, accept, roll back | two llama contexts | the answer is the target's own greedy one; the caches agree |
| Tokenizer, `src/tokenizer.cpp` | position in the text, pieces | cut at special tokens, pre-tokenize, merge | vocabulary | no text is lost; chunks and merges are those of the documented scheme |
| NPU worker link, `src/backend_npu.cpp` | process, two pipes, `ready`, `last_use_` | `spawn`, `gemm`, `generate`, `reset`, `shutdown`, idle release | worker process | replies match requests; context is not silently lost; a call returns |
| NPU worker process, `engine/npu/src/npu_engine_universal.cpp` | KV caches and recurrent state by slot, noted resets | ops 31 to 34 | link | a reset resets everything, before the next token |
| Fused backend, `src/backend_fused.cpp`, `src/backend_fused_npu.cpp` | hidden state, KV cache, two shared slots, one future | `load`, `forward` with an asynchronous FFN job per layer, `reset`, `destroy` | GPU, NPU | every layer sees the whole of the layer before; no job outlives the call |
| Dynamic router, `src/dynamic_router.{h,cpp}` | entries, strategy, counter, `mtx_`, one compute mutex per entry | `add_backend`, `remove_backend`, `clear`, `set_strategy`, `generate`, `forward`, `lm_head`, `reset_all` | backend instances | one thread per instance; samples stay with their backend; shares; no deadlock |
| Backend manager, `src/backend_manager.cpp` | list of backends, active index, scores, instances, the router, `mtx_` and a compute mutex per backend | `init`, `re_evaluate`, `select_backend`, `set_strategy`, `reset`, `generate`, `forward`, `failover`, `health_check`, `benchmark_all` | router, instances, watchdog | what is routed to is loaded and current; memory bound; a session's tokens meet its cache; one thread per instance |
| Model router, `src/model_router.cpp` | a table | `select_backend_route` | manager | the order in which kinds are tried |
| Watchdog, `src/agent_watchdog.cpp` | a thread, thresholds | probe every 10 s, `benchmark_all` | manager | does not disturb inference (nobody creates one in the server) |
| FLM web server, `src/src/server/` | request queue, NPU flag, connection counter | accept, queue, respond, hand on | NPU | one request at a time on the NPU; a queued request is served |
| Jarvis server, `tools/jarvis_server.cpp`, `tools/jarvis/` | keys in memory and in a file, buckets, usage | validate, rate limit, usage limit, chat, create and revoke keys | file, clock | an issued key survives a restart; rate and usage stay in bounds |
| Daemon, `tools/onebitd.cpp` | child process, signal flag, server thread | fork, wait for health, serve, stop, `kill_child` | child process, signals | it ends, and leaves no process |
| PILOT prefetch, `include/pilot.h` | queue of 32 hints, a thread | `start`, `enqueue`, `stop` | page cache | hints are bounded, stop joins |
| Unified pool, `src/unified_pool.cpp` | mapped models, reference counts | load, unload, acquire | backends | a slot in use is not unmapped |

Not listed as state machines: the backends' numerics, kernels, model file readers, media
front ends, other command-line programs, and third-party code.  `PROJECT.json` lists them
with the reason.

**How a token is made.**  A handler takes `g_inference_mutex` and keeps it to the end of
its answer.  The chat handler calls `set_strategy`, `reset` and then `generate` of the
manager token after token; the manager passes each to the router if that has entries, to
the active backend otherwise.  `/v1/completions` on the NPU calls `submit` and blocks on
the future *with the mutex held*; the scheduler's thread calls back into the NPU backend,
without the mutex for single tokens and with it for a batch.  The NPU backend turns each
call into a request on a pipe to its worker process.

**What is hard about it.**  The mutex is not held by the thread that computes; the
compute mutexes outlive the entries they were copied from, and router and manager each
have their own for the same instance; a worker process may hang, die or answer late;
resets are lazy and remembered in one variable; a job of the last layer runs beside this
one; two caches are extended by guesses and rolled back; a model load goes through
several backends each of which may fail, hang or be superfluous, and leaves state behind
that later calls index into; a key file is emptied before it is written.  The hazards in
`PROJECT.json` name each place.

## 2. Modules

| module | models | state and steps against the code |
|---|---|---|
| `CompletionService` | what a caller of `submit` is promised | `Accept`, `Answer`; an answer obeys the stop rule |
| `BatchScheduler` | `batch_scheduler.h` | variables are the members of the class; `pc` is the decode thread; a step is what happens between two points where another thread can get in, so one iteration of `admit_pending` is a step under `mu_` (`MuFree` keeps others out) and the evaluation of the wait predicate with the decision to sleep is one step |
| `BatchedCompletions` | the scheduler with `g_inference_mutex`, the callbacks and the worker's slots | extends `BatchScheduler`; each action is one of its actions together with what the callback does, except that each token of a prompt is a step of its own; a call of the NPU backend may succeed, fail in each way it can, or release the worker, the worker may die, and the scheduler goes on; a KV cache is the sequence of the owners of its tokens |
| `NpuWorker` | `backend_npu.cpp` and ops 31 and 32 of the worker | pipes are sequences; a token is `<<session, position>>`; `gaveUp` and `released` are history |
| `Tokenizer` | `rcpp_tokenizer_encode` | `CutSpecial` and `CutRest` cut the text at the special tokens, `NextChunk` takes one chunk of one of the two pre-tokenizers, or fails, `Merge` is one iteration of the merge loop, `EndChunk` appends its tokens; characters are classes |
| `Generation` | `generate_completion`, the model switch and the select endpoints | one step per call of the manager and per mutex; a cache is the number of the context's tokens in it, or garbled; the deadline may pass before any look at the clock |
| `SpecDecode` | `run_spec_decode`, `verify_batch`, `rollback` | one step per decode call; caches are sequences of tokens, logits the token they prefer; the draft may propose anything |
| `FusedPipeline` | the fused backend | the call and its `std::async` job are two processes over two shared slots; a hidden state is the list of stages it went through; a step is a copy, a kernel or a wait |
| `RouterPick` | the pure part of the router | `pick_backend`, `record_latency`, the `int` counter with its width |
| `DynamicRouter` | the router with its locks | extends `RouterPick`; blocks under `mtx_` are one step, except `reset_all`, which holds `mtx_` across steps; `held` are the compute mutexes |
| `BackendManager` | `backend_manager.cpp` as the server calls it | extends `RouterPick`, so it uses the router's own choice; one step per call, except a load, which has one step before and after each `init()` |
| `ManagerLocks` | the locks of `backend_manager.cpp` | handler and watchdog as two threads; one step per acquisition and release of `mtx_`, `compute_mtx` and the entry's mutex |
| `NpuQueue` | the NPU flag and queue of `server.cpp` | a session is a connection; one step per critical section of `process_next_npu_request`, the sleep in between is the cooldown |
| `JarvisAccounts` | `auth.cpp`, `usage.cpp` and the handlers around them | one step per call, which holds the class's mutex; `save_keys` is two, and its write may fail unnoticed; `told`, `excused`, `accepted` are history |
| `Onebitd` | `main()` of `onebitd.cpp` | one step per round of each waiting loop and per system call that another process or thread can see; `listen()` returns in a step after `stop()`, once the proxy handlers under way have |
| `MCBatchScheduler`, `MCBatchedCompletions`, `MCDynamicRouter`, `MCBackendManager`, `MCSpecDecode`, `MCTokenizer` | instances for TLC | sizes, symmetry, texts, the target model's choice |
| `MCCompletions`, `MCRestarts`, `MCParts` | several instances in one run | see below |
| `DecodeProofs`, `InferenceProofs`, `BatchProofs`, `DynamicRouterProofs`, `BackendManagerProofs`, `ServerProofs`, `TokenizerProofs`, `DataLemmas` | theorems | section 4 |

`MCCompletions` (tokenizer, wired scheduler, worker link), `MCRestarts` (manager,
accounts) and `MCParts` (fused pipeline, speculative decoding, locks, token loop, NPU
queue, daemon) put modules that share no state beside each other: a variable of the first
state says which one moves, the others stay where they are.  The states of such a run are
those of its modules one after another, nothing is multiplied and nothing is hidden; each
property speaks of one module and is judged in all of its states.  Fairness is assumed of
the module that moves only.

Mutated definitions (comment "Error: ...") stand before the definition they mutate.  No
specification uses them; they are the plausible bugs the properties are measured against.

**Abstractions.**  Token values, prompts and logits are left out except where a choice
depends on them (`SpecDecode`); an engine may return any token, -1 included.  A cache is
who wrote it, how much of the session is in it, or the tokens themselves where they are
rolled back.  Backends are ids; `available` and `auto_selectable` hold for all of them.  A
registered instance is new in nobody's hands (`Fresh`), as `init_in_order` creates it
right before.  HTTP, JSON, sampling, cascade and vision do not appear.  In
`BackendManager` the calls the server makes are atomic because it makes them under
`g_inference_mutex`; what another thread sees in between is `ManagerLocks`, where the
backends are as a load left them.  `health_check` is in both though nothing but the
watchdog and `BackendMonitor` call it.  Tokens without a session are in `BackendManager`
because the `gen_single` callback and the image tokens call `generate()` without a reset;
the theorems allow any number of them, the run none.  In `BatchedCompletions` the NPU
backend is the only one, and `late` stands for a reply that a later call may take: what
that call is told is `NpuWorker`'s.
`strategy_` is not kept there: in the server only the re-evaluation inside `set_strategy`
reads it.  In `Tokenizer` a character has one class, the vocabulary's byte strings and
ids are inverse to each other.  In `JarvisAccounts` there is one owner with one plan, and
keys do not expire.

## 3. Runs

| run | question | result |
|---|---|---|
| `Batch` | requests, promises, sleeping and waking, draining, the refinement of `CompletionService` and liveness of the scheduler | holds |
| `Completions` | tokenizer: are chunks, merges and text right; wiring: does each token see its own cache and nothing else, though calls fail and the worker is released or dies, can a callback block, do handlers return; link: do replies match, is context kept, does every call return | holds, with the exceptions stated in the properties |
| `Router` | exclusive instances, samples, shares | holds |
| `Restarts` | manager: routes, memory, contexts over loads and failures; accounts: keys, usage and rate over crashes | holds; the contexts unless the router backfills between two entries |
| `Parts` | fused pipeline: does a token pass all layers; speculative decoding: is it greedy; locks: one thread per instance, do calls return; token loop: cache and deadline; NPU queue: exclusion, is it drained; daemon: does it end, is the process gone | holds, with the exceptions stated in the properties |
| `NpuWorkerLate` | "Send a GEMM operation, read back result" | violated: the late reply is taken by the next call |
| `NpuWorkerGdn` | "Reset ALL KV caches + GDN state" | violated: `resize` keeps the recurrent state |
| `RouterDeadlock` | do `reset_all` and `generate` come to their ends | violated: lock order |
| `FusedWeights` | is a layer's FFN computed with the layer's weights | violated: one buffer for all layers |
| `SpecLossless` | "Lossless vs greedy" | violated: an accepted end of sequence does not end the answer |
| `TokenizerRegex` | "matching the tiktoken cl100k_base regex" | violated where blanks stand together |
| `JarvisLimit` | "Monthly token limit exceeded" | violated: the period never ends |

**Bounds, and why they are enough.**

- `Batch`: three requests over two slots, so that one waits for a slot while the others
  decode, a slot is used again, and two slots decode at once.  `max_tokens` 0 (the token
  that is appended before the check) and more; two token values, one of them the end of
  sequence.  A batched step may fail here only, where the process then ends (section 5).
- The scheduler in `Completions`: two requests and two slots, as a handler that does not
  hold the mutex would fill the second one (the mutants do), and the mutex lets one request
  in at a time; a chat turn of up to two tokens before, between and after them.  Prompts
  with none and with two tokens to prefill and answers of up to two, so that a call may
  fail before, between and after others.  Any call may fail, be slow or meet a dead
  worker, any number of times.
- The tokenizer in `Completions`: one character of each class, texts of up to four: the
  expression never looks further than a contraction of three or a run of blanks with one
  character behind it.  All lists of three merges over two letters, with repetitions, and special
  tokens of which one begins with another.  Texts of up to five characters, and of six
  letters for the merges, were run as well.
- The worker in `Completions`: two sessions of up to two tokens with two tries each: a
  request and its late reply from the session before, a retry of the same token, and a
  crash or release in between.
- `Completions` checks deadlock; its ends are written down (`Ended`): a text that is
  encoded, sessions that are used up.
- `Router`: two threads, two ids, three instances and two gates: both entries, and an
  instance still in use that its entry has been replaced by or lost.  `CounterBound` 7
  gives windows of five picks from three different starts; `Window` 1 makes each sample
  push one out; the strategies are the two that use the counter (the others return an
  index of the same list).  Threads, instances and gates are interchangeable.
  `CHECK_DEADLOCK FALSE` because of `RouterDeadlock`.
- The manager in `Restarts`: two machines, one with NPU, GPU and CPU, one whose only
  accelerator cannot infer; two models; a table row that names all backends and one that,
  like most rows of the code, names one accelerator and the CPU: where that one fails the
  CPU backend comes up before the other accelerator.  `MaxPos` 2 tokens per session (the
  second is the first that needs context): enough to reach a failover, because a reload in
  which nothing comes up leaves the manager initialized with an empty router.  `MaxStray`
  0 and `CounterMax` 0 keep the run short: a token without a session leaves the caches as
  the end of a session does, the counter is used only while the router backfills, where
  the property is silent, and the counter itself is `Router`'s.  One latency tells
  measured from unmeasured.
- The accounts in `Restarts`: two handlers, a key that is there and one to be drawn, a
  limit of one token and answers of at most one (so two answers overshoot), a burst of two
  and a refill every second tick of three (so fractions are lost or not), one crash; a save may fail at the open and at the write.
  `CHECK_DEADLOCK FALSE`: clock and keys run out.
- `Parts`.  Fused pipeline: three layers, as the two slots take turns from the third one
  on, two positions, one reset.  Speculative decoding: three tokens, two proposals per
  round (none, some or all are accepted), answers of up to five tokens: three rounds;
  the target's choice depends on every token and its place, so that a shifted cache shows.
  Locks: three backends, of which two suit the model, one round of the watchdog between
  any two steps of the handler.  Token loop: two handlers, two backends of which one has
  `generate_text`, prompts and answers of two.  NPU queue: three sessions, a queue of one
  (the third is turned away), two threads.  Daemon: two rounds of each of its loops.
  `CHECK_DEADLOCK FALSE`: the locks do deadlock while the router is empty (section 5), and
  the daemon ends.

**Fairness.**  The scheduler's thread, the handlers inside a call and a started
destructor are weakly fair: they are threads the system schedules.  Nobody is obliged to
submit or destroy, and the process end that an empty batch result leads to is excused in
the properties.  Of the NPU worker nothing is assumed: it may hang for ever, and a call
ends because the reader's limit passes.  Router threads and the handler in `ManagerLocks`
are strongly fair: a thread that waits for a mutex which is free again and again gets it
(the watchdog sleeps 10 s between its rounds); the counterexample of `RouterDeadlock` is a
state in which neither can move at all.  In `NpuQueue` a session's thread is fair once it
has work, clients are not.  In `Onebitd` `main()` is fair, and the handlers
that `listen()` waits for after `stop()` come to an end, as their reads have a limit of
300 s; signals, the death of the child and the start of the server's thread are not
promised.

**Mutants.**  Every property of a passing run is violated by a mutant of a mapped
definition, for instance an admission that does not pop, a wait that looks at the queue
only, a handler that unlocks before it waits, a worker that answers op 31 without acting
on it, a sample recorded by place (issue 1348), a third copy of the model (issue 1427), a
rollback that keeps one proposal too many, a hidden state read before the job put the FFN
into it (issue 1231), a revocation that is not saved, a refill whose time is not noted.

## 4. Theorems

Proved by TLAPS for all values of the constants, from the named assumptions in the
modules.  These say that there is at least one slot, layer, thread, try and proposal, that
`Eos`, the first key, the router's backend and the token 0 are what they are called, that
bounds and measured times are natural numbers, clients and the backends of a machine
finitely many, that priorities of backends differ and scores and priorities are natural
numbers, that routes and machines are made of ids, and that the values that stand for
"none" are not among the others; of `Tokenizer` that a character has one class, that texts,
tokens and contractions are made of characters, and that no special token is empty (the
code skips those).  Three theorems have a hypothesis of their own:

- `TargetChoosesTokens` (`SpecDecode`): after any sequence of tokens the target model
  prefers a token;
- `ShareHypothesis` (`FourToOne`): an id is not of both kinds, and the counter stays below
  the largest `int`; beyond, the property is false (section 5);
- `MadeBefore` (`MergesAsListed`): where a merge makes a part of another one, it is listed
  before that one.  It holds of every list in the run (`ListsAssumption`, which TLC
  evaluates) and of a vocabulary that was trained by merging, if each token came from one
  merge.  Where two merges make the same token, as `(a,b)`, `(b,c)`, `(a,bc)`, `(abc,d)`,
  `(ab,c)` do with `abc`, it is false and so is the property: a merge can become possible
  again after its turn, and the loop takes it, as tiktoken's does.

*`BatchProofs`, the scheduler.*  The inductive invariant `IInv` is the type invariant, the
safety properties and what they lack to be inductive: outputs of active slots are open
(no end of sequence, below the limit: needed to see that an answer obeys the stop rule),
results wait only for decoding slots (otherwise a delivery could complete an idle slot),
set promises are valid and belong to submitted requests, `running` agrees with the
destructor, and only the wait sleeps.  From it: `TypeCorrect`, `EachRequestInOnePlace`,
`NoneIsLost`, `WakeupsNotLost`, `DrainedAtExit`.  `ImplementsService`: every step of the
scheduler is, under the refinement mapping `phaseOf`, a step of `CompletionService` or
none; `Submit` is `Accept`, the completing `Deliver` is `Answer`.

*`BatchProofs`, the wiring.*  `BatchedImplementsScheduler`: each action of
`BatchedCompletions` is a step of `BatchScheduler` or leaves it alone, so `IInv` and the
refinement above are at hand.  `BatchedInv` adds why dropped slot numbers and a single
noted reset do no harm: who is between `submit` and the answer has `g_inference_mutex`
(`OneOwner`), so one request at most is in the scheduler and the first idle slot is always
slot 0 (`SlotZeroOnly`); and the cache of slot 0, seen through the resets still to be done
(`AfterResets`), has tokens of that request only, and, while the worker has acted on every
call since the admission (`Intact`), as many of its prompt and output as the phase of its
slot says (`CacheAgrees`).  `GenerateKeeps` has the ways a call can end, `DiesKeeps` the
worker's death.  From it: `CompletionsFromOwnContext`, `ChatFromOwnContext`,
`CallbackNeverBlocks`.

*`DynamicRouterProofs`.*  `ComputeExclusive` is not inductive: the entry a thread picked
may be gone when it computes.  `OneGate` says what survives: one instance is stored with
one gate only, in the entries and in the threads' local variables.  `HoldersHold` says a
thread that computes or records holds the gate it copied, `GatesKnown` that it is a gate.
With the type invariant and `SamplesOfOwnId` they are inductive: `ThreadMoves` covers what
all steps of threads have in common, `ConfiguredStep` what all operations on the list
have, and each action has a lemma that reduces it to one of the two.  From it:
`RouterTypeCorrect`, `ComputeIsExclusive`, `SamplesStay`.  `OnlyResetAllBlocks` says how far
the deadlock of the run `RouterDeadlock` reaches.  `MtxOwned` and `GatesOwned` name the owner
of each mutex and where it stands; so where all threads inside calls wait, whoever holds a
gate is recording, `mtx_` is taken, and its owner is in `reset_all` and wants the gate of a
thread that records.  `CircleStays` shows that no step of a third thread and no change of
the entries ends that.  The theorem speaks of the guards (`Waits`), not of `ENABLED`.  `FourToOne` rests on
`PicksFollowCounter`: each of the last five picks is of the kind that the value of the
counter at that pick stood for, wherever the counter began; five values in a row have one
remainder 4.

*`BackendManagerProofs`.*  `MInv` says what a load has put where at each of its steps:
which backends hold an instance (those in the router and those still to be tried,
`CopiesKnown`), that the flags for "an accelerator is in" and "a CPU backend is in" cover
the entries (`OneEntryPerKind`), that an instance is the backend's own (`OwnInstance`).
The order in which backends are tried is a sort by a strict order followed by the route;
`OrderedProperties` shows that such a sort has each element once, which is what makes
`OneCopyOfEachKind` true (issue 1427 was a backend tried twice).  From it:
`BackendTypesCorrect`, `RoutesStayCurrent`, `RoutesStayAble`, `OneCopyOfEachKind`.
`TokensMeetTheirContext` needs `SInv`: no load ever sets the strategy to round robin, so as
long as the router does not backfill (`Backfills`: two entries, and the strategy noted
last prefers one kind with every fifth token to the other), it picks the first entry, only
that one is ever measured, and it is the one whose cache holds the session.  The theorem
asks nothing of routes, machines and scores.

*`DecodeProofs`, the NPU worker.*  `WorkerInv` says what is in the two pipes at each point of a call
(nothing, the request, or its reply: as long as no read has given up), and which tokens
the worker has in its context there (as long as it was not lost or released in the
session).  Each action keeps the five parts; the sequences of the
session's tokens get lemmas of their own.  From it: `RepliesInStep` and
`TokensFromWholeSession`, over any number of crashes, respawns and sessions.

*`DecodeProofs`, the fused pipeline.*  The invariant follows a hidden state through a
layer: which stages are in the call's copy and in the slot before, during and after the
job, and that the rows of each layer's cache up to the position went through the layers
below.  From it: `FusedTokenThroughAllLayers` for any number of layers, `FusedSettled`.

*`DecodeProofs`, speculative decoding.*  The invariant says what both caches, the pending
logits and the proposals are at each step of a round, in terms of prompt and answer; it
needs that a prefix of a concatenation is what it should be, hence the lemmas on
sequences.  From it: `SpecCachesAgree` and `SpecTokensAreGreedy`: whatever the draft
proposes, each emitted token is the target's own greedy choice.  Where the answer *ends*
is another matter (`SpecLossless`).

*`InferenceProofs`*: `GenerationCacheIsContext`, `GenerationDeadline`, from who has
`g_inference_mutex` and how much each stage of the request has fed;
`LocksOneThreadPerInstance`, from which mutexes each thread holds wherever it is.
`LocksNeverCircular`, the safety half of `LockedCallsReturn`, needs the converse too: where
the owner of each mutex stands (`OwnersKnown`).  With a router the handler takes `mtx_`
and entries' mutexes, the watchdog `mtx_` and `compute_mtx`, so only `mtx_` is ever waited
for, and the thread that has it waits for nobody.

*`ServerProofs`.*  `QueueNpuExclusive`: the NPU flag stands for exactly one session; the
proof of `PopNext` shows that the head of the queue is waiting and once in it.
`QueueServesInOrder`, a property of steps: while the flag is set only the head of the queue
is given the NPU, and the queue changes at its two ends only.  (With the flag down a new
request does overtake one that waits: section 5.)
`DaemonLeavesNoChild`: what `main()` knows of the process number at each place.
`DaemonGoesOn`, the safety half of `DaemonEnds`: a step of `main()` leads to a later place or
counts a round of a bounded loop, and the last `waitpid` finds a process that has ended.
`KeysSurvive`: memory and file both cover what the answers said and what a client at its
answer is about to say; a client that saves has its change in memory, and a key that was
not drawn is unknown everywhere, so nobody's answer speaks of it.  `OvershootIsBounded`:
the bound is inductive once each admitted answer counts with its largest cost.
`RateIsBounded`: the inductive invariant says for every earlier tick `s` what the requests
since `s` cost the bucket (`Earned`): while it was not refilled since, they came out of
its burst, otherwise what they took and what is left is at most the burst, the refills
since `s` and one.  The one more is for the fraction of a refill that `s` cut through.

*`TokenizerProofs`.*  `TkInv` says that the tokens behind the BOS, those of the current
chunk, what is left of the segments and what is not cut yet make the text one behind the
other, that a segment that is split has no special token in it, and where `from` and `at`
stand.  `BestIs`: before the special token that is cut next none starts.  `CutAt`,
`FlattenConcat` and `MergedText` say how the parts move when a piece is cut, a chunk is
split off and two tokens become one.  From it: `TextStays` and `TokensAreTheText`.
`SingleBlanksAsExpression` needs of `TkInv` that a chunk starts inside its segment; the
rest is `EndsAgree`, about any text at any place: for each of patterns 1 to 4 the code's end and the
longest match of the alternative are the same or neither is there (`LettersAgree`,
`NumbersAgree`, `OthersAgree`, `Contracted`), and a single blank comes to the same chunk
in patterns 5 and 6 with the fallback as in the last three alternatives.
`MergesUntilNoneIsLeft` needs that a chunk has as many iterations left as tokens
(`ItersLeft`): a merge costs one of each.  `MergesAsListed` has the invariant `OnTheWay`:
carrying out all merges of the list one after another on the tokens of now gives what it
gives on the characters.  A step of the loop merges the pair of the lowest rank `r` at its
first place.  The merges before `r` find nothing, neither before that step
(`LowerMergesDoNothing`) nor after it, as the new token is a part of later merges only
(`NoneOfJoined`, where `MadeBefore` is needed); and merge `r` itself, which goes from left
to right, begins with that very place (`FirstJoined`).  At the end there is nothing to
merge, and the list leaves the tokens alone.  The folds of `ReplacePair` and `MergedBy`
are taken apart by `FoldRuns`, `ScanRuns` and `MergesRun`: a fold over a sequence is the
last of its intermediate results.

*`DataLemmas`.*  The least number principle and induction over a set of numbers, from
which the other modules prove what recursion and counting need.

**Only model-checked:** all liveness and the fairness it needs: `EveryCallReturns`,
`ShutdownCompletes`, `HandlersReturn`, `WorkerCallsReturn`, `LockedCallsReturn`,
`QueueDrainsWhileBusy`, `DaemonEnds`.  Every safety property of a passing run is a theorem.  `ENABLED` is outside what the prover does, and so
are the library's induction theorems, which take an operator; what is proved by induction
here uses the set form in `DataLemmas`.

## 5. Divergences

Each with a run (details and quotations in `PROJECT.json`, findings): the late reply, the
recurrent state after a reset, the lock order of `reset_all`, the one weight buffer, the
accepted end of sequence, the runs of blanks, the period that never ends.

How far they reach.  The router's deadlock needs `reset_all` and `generate` at once; the
server's mutex keeps chat turns apart, and the unlocked `gen_single` callback runs while
its handler holds the mutex, so it takes another user of the classes to meet it.

Seen in the code, stated by no property here:

NPU link and scheduler

- a crashed worker stays `ready` and `ensure_worker` (`backend_npu.cpp:594`) does not
  start it again, though the comment at 590 says it does;
- the idle release sits in `generate` itself: an unused worker is never released, and a
  single slow token releases it in the middle of a session (`backend_npu.cpp:631`);
- a prefill call that failed is dropped, and the -1 of a failed decode call is pushed on
  as a token (`batch_scheduler.h:139-141`, 162): the answer goes on from a context with a
  hole, or, after a release or the worker's death, from an empty one.  So
  `NextTokenFromOwnContext` asks for *all* of the context only where no call failed
  (`Intact`), for *nothing but* the own context always;
- a failed batch operation is an empty vector that the scheduler indexes
  (`batch_scheduler.h:169`).

Router and manager

- FASTEST never measures a second backend (`dynamic_router.cpp:119`);
- past the largest `int` the counter's remainder is negative and the preferred kind gets
  every token for as long (`dynamic_router.cpp:86`);
- an accelerator that comes up after the CPU backend sets a BACKFILL strategy over two
  entries, and a session's tokens alternate between two KV caches
  (`backend_manager.cpp:567`; the comment at 849 rules it out).  The rows of
  `model_router.cpp` name one to four backends, so it takes no more than that the named
  accelerators fail and one comes up that the row does not name.  `RoutedTokenHasContext`
  excludes it by `Backfills`, which says so in terms of the router's state;
- the failover announced in `backend_manager.h:7` is not reached while the router has
  entries (`backend_manager.cpp:725`);
- the future of a hung `init()` waits in its destructor, so the 120 s limit at 507 does
  not return;
- a manual selection does not reach the router (`backend_manager.cpp:685`), and a default
  chat request sets the strategy back to FASTEST;
- `functional` survives the instance it was set for (`backend_manager.cpp:541`), a backend
  that cannot infer takes the place of the accelerator after it (544), a re-evaluation
  with nobody functional sorts the list under `active_idx_` (1125);
- a backend whose `reset()` threw is not reset again and still gets tokens, with the
  call reported as a success (`dynamic_router.cpp:43`); `BackendManager` has it,
  `Generation` takes the routed reset to succeed;
- with the router empty a failed `generate` tries its token again on another backend
  (`backend_manager.cpp:813-836`); `BackendManager` has it, `Generation` leaves it out, as
  a request with a failed call is not `clean` there;
- paths of a load that are left out: `create_instance_rt` without a result (493-497), a
  `reset()` that throws out of `init` (555, outside the `try`), an `init()` that throws in
  the failover (937), and `remove_backend` at 540, which finds nothing to remove;
- the manager's `compute_mtx` and the router entry's mutex are two mutexes for one
  instance: `health_check` and `benchmark_all` run beside a routed call, and reset its
  cache in the middle of a session (`backend_manager.cpp:973`); hence the condition
  `routed = {}` of `OneThreadPerInstance`;
- with the router empty, `generate` takes `mtx_` with `compute_mtx` held (777) and the
  watchdog the other way round: both wait for ever; and statistics go to the index of
  before a sort.  Nobody creates a watchdog in the server.

Requests

- an image is fed into the caches before the text prompt, then `generate_completion`
  resets them (`unified_server.cpp:1936` and 656; the comment at 1921 says it is spliced
  in before the prompt);
- the fallback after a failed call feeds its token a second time, which is why
  `CacheIsContext` asks for calls that did not fail;
- the model switch is skipped for models of the same width and depth, and `current_cfg` is
  set before an `init` whose result is ignored (`unified_server.cpp:2103`);
- the strategy endpoints change the active backend under `g_strategy_mutex` only, while a
  request generates under `g_inference_mutex` (2243);
- a speculative answer that met its deadline is not marked as timed out, with no timeout
  set every round is over its deadline, and a prompt of nothing but BOS makes every token
  0.

Fused backend

- a failed FFN before the last layer is never computed, neither on the NPU nor on the GPU
  (`backend_fused.cpp:500`), which `lost` records; the NPU's FFN has no RMSNorm; `destroy`
  deletes the slots before it waits for the job and does not set `pos` back.

Web server

- a request that found the NPU taken and is pushed after the last holder released it waits
  until a later request has come and gone (`server.cpp:874`), so `QueueDrainsWhileBusy`
  speaks of a taken NPU;
- some code of a handler touches the engine after the NPU was handed on; two endpoints
  that use the NPU are not in `requires_npu_access`; a timeout counts a connection down
  twice; a handler that throws after it answered hands the NPU on twice, which
  `NpuQueue` leaves out.

Tokenizer

- U+00A0 is letter and blank at once; decoding writes special tokens out though the
  comment says it does not; `SimpleTokenizer` cuts at 4096 ids (`simple_tokenizer.cpp:94`)
  and its fallback does not decode to what was encoded (100, 163).

Jarvis server

- usage is never saved nor loaded; keys are loaded from the file in `JARVIS_KEYS_FILE`
  (`jarvis_server.cpp:671`) and saved to `keys.json`; the result of `save_keys` is not
  looked at, nor the stream after its write (`auth.cpp:474`), and a failed write or a crash
  while it writes loses all keys, after which no request is let in
  that could create one (`excused` in `IssuedKeysSurvive`); the refill drops fractions.
- `ContextMemory::build_context` locks the mutex of the context and calls `get_recent`, which
  locks it again (`context.cpp:104-107`, 92-93); the mutex is not recursive, and every chat
  calls it (`jarvis_server.cpp:540`, 1135).  Read as C++ that is undefined and hangs with the
  usual library.  `JarvisAccounts` takes the call to return, so that what the accounts promise
  around a chat can be asked at all; an answer of the vision backend is not counted as usage.

Daemon

- the loop that notices the child's death leaves `g_child_pid` set, so `kill_child` sends
  SIGTERM and SIGKILL to a number that is no longer the child's (`onebitd.cpp:53`); `stop()`
  before `listen()` is without effect and the join waits for ever, so `DaemonEnds` excuses
  it; a failed `listen()` is not noticed.

## 6. Not modelled, and why

- `BackendManager`: `benchmark_all`'s scores, `set_score`, plugins and `best_for_tier`: they
  change the order in which backends are tried, which `StartScore` and `Priority` fix.
- The watchdog's adaptation rules and the text analysis of the strategies: arithmetic on
  measurements that no one in the server collects.
- PILOT: the manager attaches it to the fast tiers only, and only `backend_cpu.cpp`
  (780-838) calls its hooks; the queue therefore never has an element.
- The unified pool: reference counts called by one thread, without a caller in the server.
- The separate engine of `spec-decode/`: header only, not used by the server.
- Connections and streaming of the web server, its REST handlers; the Jarvis server's
  plans, expiry, voice and agent handlers; the other command-line servers: HTTP and JSON
  around one call.
- Model files and loaders, discovery of hardware, numerics and kernels: parsing, probing and
  floating-point computation; they are most of the repository's lines.  To the models they
  are a load that may fail, a set of ids, and a name of a stage.
- Vendored code, site, packaging, converters, benchmarks.

Left for an extension: the abstract service that `Generation` and `SpecDecode` share
(greedy decoding that stops at the end of sequence), which `SpecDecode` refines only where
no end of sequence is accepted.
