---------------------------- MODULE FusedPipeline ----------------------------
(***************************************************************************)
(* src/backend_fused.cpp with src/backend_fused_npu.cpp: attention on the  *)
(* GPU, the feed-forward part (FFN) of a layer on the NPU in a job of its  *)
(* own (std::async) or on the GPU.  The job works in one of two shared     *)
(* slots; the call copies the hidden state in and the result out.          *)
(*                                                                         *)
(* The hidden state is the token it started from and the stages it went    *)
(* through: <<"attn", layer, tokens read>> and <<"ffn", layer>>.  A row of *)
(* the KV cache is the hidden state it was computed from.  All layers have *)
(* all their weights.  A refused or failed HIP call aborts the process.    *)
(***************************************************************************)
EXTENDS Naturals, Sequences

CONSTANTS
  NumLayers,      \* NC
  MaxSeq,         \* max_seq
  FusedSessions,  \* bound: resets
  NoLayer,        \* no layer
  NoJob,          \* npu_future_ is not valid
  NoRow           \* a zeroed row of the KV cache, a slot nothing was written to

ASSUME NumLayersAssumption == NumLayers \in Nat \ {0}
ASSUME MaxSeqAssumption == MaxSeq \in Nat \ {0}

VARIABLES
  fusedAt,    \* where the backend is: "off", "packing", "idle" or in forward()
  npuFfn,     \* is USE_NPU_FFN set?
  npuOk,      \* npu_ok
  packedB,    \* the layer whose weights the B buffers of the NPU kernels hold
  layer,      \* the loop variable l
  dh,         \* the hidden state on the GPU
  slot,       \* the two shared buffers
  job,        \* npu_future_
  kvRows,     \* devK and devV
  pos,        \* tokens in the KV cache
  ffnWeights, \* history: the layer whose weights the last FFN of each layer used
  resets,     \* number of the session
  lost        \* history: did the session lose the FFN of a layer?

fusedVars == <<fusedAt, npuFfn, npuOk, packedB, layer, dh, slot, job, kvRows, pos,
               ffnWeights, resets, lost>>

Layers == 0 .. NumLayers - 1
EmptyKvRows == [l \in Layers |-> [p \in 1 .. MaxSeq |-> NoRow]]

\* use_npu: the layer's FFN goes to the NPU.
UseNpu == npuOk /\ npuFfn

Jobs == [layer : Layers, state : {"running", "ok", "failed"}]

ASSUME NoJobAssumption == NoJob \notin Jobs

FusedInit ==
  /\ fusedAt = "off" /\ npuFfn = FALSE /\ npuOk = FALSE /\ packedB = NoLayer
  /\ layer = 0 /\ dh = NoRow /\ slot = [i \in 0 .. 1 |-> NoRow] /\ job = NoJob
  /\ kvRows = EmptyKvRows /\ pos = 0
  /\ ffnWeights = [l \in Layers |-> NoLayer]
  /\ resets = 0 /\ lost = FALSE

(***************************************************************************)
(* Loading.                                                                *)
(***************************************************************************)
\* init(): with an NPU the weights are packed layer by layer, and the slots allocated.
FusedLoad ==
  /\ fusedAt = "off"
  /\ npuFfn' \in BOOLEAN
  /\ \E present \in BOOLEAN :
       /\ npuOk' = present
       /\ fusedAt' = IF present THEN "packing" ELSE "idle"
  /\ layer' = 0
  /\ UNCHANGED <<packedB, dh, slot, job, kvRows, pos, ffnWeights, resets, lost>>

\* npu_state_pack_layer(): both kernels have one B buffer each.  After the last layer the
\* slots are allocated, or cannot be: GPU only.
PackLayer ==
  /\ fusedAt = "packing"
  /\ packedB' = layer
  /\ layer' = layer + 1
  /\ IF layer' < NumLayers
     THEN UNCHANGED <<fusedAt, npuOk>>
     ELSE fusedAt' = "idle" /\ npuOk' \in BOOLEAN
  /\ UNCHANGED <<npuFfn, dh, slot, job, kvRows, pos, ffnWeights, resets, lost>>

(***************************************************************************)
(* forward().                                                              *)
(***************************************************************************)
\* The embedding of the token; a full cache refuses the call.
Embed ==
  /\ fusedAt = "idle" /\ pos < MaxSeq
  /\ dh' = [tok |-> <<resets, pos + 1>>, stages |-> <<>>]
  /\ layer' = 0
  /\ fusedAt' = "await"
  /\ UNCHANGED <<npuFfn, npuOk, packedB, slot, job, kvRows, pos, ffnWeights, resets, lost>>

JobOver == job # NoJob /\ job.state # "running"

\* Error: regression #1231, the attention does not wait for the FFN before it.
AwaitNothing ==
  /\ fusedAt = "await" /\ fusedAt' = "attention"
  /\ UNCHANGED <<npuFfn, npuOk, packedB, layer, dh, slot, job, kvRows, pos, ffnWeights,
                 resets, lost>>

\* Phase A: the FFN of the layer before is collected before the attention of this one.
AwaitFfn ==
  /\ fusedAt = "await"
  /\ fusedAt' = "attention"
  /\ \/ /\ ~ (UseNpu /\ layer > 0)
        /\ UNCHANGED <<dh, job, npuOk, lost>>
     \/ /\ UseNpu /\ layer > 0 /\ JobOver /\ job.state = "ok"
        /\ dh' = slot[(layer - 1) % 2]
        /\ job' = NoJob
        /\ UNCHANGED <<npuOk, lost>>
     \/ /\ UseNpu /\ layer > 0 /\ JobOver /\ job.state = "failed"
        /\ npuOk' = FALSE   \* and the FFN of layer - 1 is not computed on the GPU
        /\ lost' = TRUE
        /\ job' = NoJob
        /\ UNCHANGED dh
  /\ UNCHANGED <<npuFfn, packedB, layer, slot, kvRows, pos, ffnWeights, resets>>

\* The tokens that rows 1 .. pos + 1 of a layer come from.
TokensRead(rows) == [p \in 1 .. pos + 1 |-> rows[p].tok]

AfterAttention(h, l, rows) ==
  [tok |-> h.tok, stages |-> Append(h.stages, <<"attn", l, TokensRead(rows)>>)]

\* The attention of a layer writes the row of the token and reads the rows up to it.
StoreRow == [kvRows EXCEPT ![layer][pos + 1] = dh]
Attention ==
  /\ fusedAt = "attention"
  /\ kvRows' = StoreRow
  /\ dh' = AfterAttention(dh, layer, kvRows'[layer])
  /\ fusedAt' = "ffn"
  /\ UNCHANGED <<npuFfn, npuOk, packedB, layer, slot, job, pos, ffnWeights, resets, lost>>

AfterFfn(h, l) == [tok |-> h.tok, stages |-> Append(h.stages, <<"ffn", l>>)]
NextLayer ==
  /\ layer' = layer + 1
  /\ fusedAt' = IF layer' < NumLayers THEN "await" ELSE "last"

GpuFfn ==
  /\ fusedAt = "ffn" /\ ~ UseNpu
  /\ dh' = AfterFfn(dh, layer)
  /\ ffnWeights' = [ffnWeights EXCEPT ![layer] = layer]
  /\ NextLayer
  /\ UNCHANGED <<npuFfn, npuOk, packedB, slot, job, kvRows, pos, resets, lost>>

SlotOf(l) == l % 2
LaunchNpuFfn ==
  /\ fusedAt = "ffn" /\ UseNpu
  /\ slot' = [slot EXCEPT ![SlotOf(layer)] = dh]
  /\ job' = [layer |-> layer, state |-> "running"]
  /\ NextLayer
  /\ UNCHANGED <<npuFfn, npuOk, packedB, dh, kvRows, pos, ffnWeights, resets, lost>>

\* npu_state_ffn() in the job's thread: in place in the slot, or an exception.
NpuComputes ==
  /\ job # NoJob /\ job.state = "running"
  /\ \/ /\ slot' = [slot EXCEPT ![SlotOf(job.layer)] = AfterFfn(@, job.layer)]
        /\ ffnWeights' = [ffnWeights EXCEPT ![job.layer] = packedB]
        /\ job' = [job EXCEPT !.state = "ok"]
     \/ /\ job' = [job EXCEPT !.state = "failed"]
        /\ UNCHANGED <<slot, ffnWeights>>
  /\ UNCHANGED <<fusedAt, npuFfn, npuOk, packedB, layer, dh, kvRows, pos, resets, lost>>

\* Error: the last layer's FFN is not waited for.
ReadbackAtOnce ==
  /\ fusedAt = "last" /\ fusedAt' = "idle"
  /\ pos' = pos + 1
  /\ UNCHANGED <<npuFfn, npuOk, packedB, layer, dh, slot, job, kvRows, ffnWeights, resets,
                 lost>>

\* Phase 3 and the readback: the last FFN is collected, or computed on the GPU.
Readback ==
  /\ fusedAt = "last"
  /\ fusedAt' = "idle"
  /\ pos' = pos + 1
  /\ \/ /\ ~ UseNpu
        /\ UNCHANGED <<dh, job, ffnWeights>>
     \/ /\ UseNpu /\ JobOver /\ job.state = "ok"
        /\ dh' = slot[SlotOf(NumLayers - 1)]
        /\ job' = NoJob
        /\ UNCHANGED ffnWeights
     \/ /\ UseNpu /\ JobOver /\ job.state = "failed"
        /\ dh' = AfterFfn(dh, NumLayers - 1)
        /\ ffnWeights' = [ffnWeights EXCEPT ![NumLayers - 1] = NumLayers - 1]
        /\ job' = NoJob
  /\ UNCHANGED <<npuFfn, npuOk, packedB, layer, slot, kvRows, resets, lost>>

(***************************************************************************)
(* reset() and destroy().                                                  *)
(***************************************************************************)
FusedReset ==
  /\ fusedAt = "idle" /\ resets < FusedSessions
  /\ pos' = 0
  /\ kvRows' = EmptyKvRows
  /\ resets' = resets + 1 /\ lost' = FALSE
  /\ UNCHANGED <<fusedAt, npuFfn, npuOk, packedB, layer, dh, slot, job, ffnWeights>>

\* The slots are deleted before npu_future_ is waited for, then the NPU state.  A load
\* creates another backend; callers do not destroy one inside forward().
FusedDestroy ==
  /\ fusedAt = "idle"
  /\ fusedAt' = "off" /\ npuFfn' = FALSE /\ npuOk' = FALSE /\ packedB' = NoLayer
  /\ layer' = 0 /\ dh' = NoRow /\ slot' = [i \in 0 .. 1 |-> NoRow]
  /\ kvRows' = EmptyKvRows /\ pos' = 0
  /\ ffnWeights' = [l \in Layers |-> NoLayer]
  /\ resets' = 0 /\ lost' = FALSE
  /\ UNCHANGED job

FusedNext ==
  \/ FusedLoad \/ PackLayer
  \/ Embed \/ AwaitFfn \/ Attention \/ GpuFfn \/ LaunchNpuFfn \/ Readback
  \/ NpuComputes
  \/ FusedReset \/ FusedDestroy

FusedSpec == FusedInit /\ [][FusedNext]_fusedVars

(***************************************************************************)
(* Properties.                                                             *)
(***************************************************************************)
\* Layers 0 .. n - 1 applied in order to token p of session s: each layer is an attention
\* over the tokens of this session up to p, and then the layer's FFN.
OwnTokens(s, p) == [i \in 1 .. p |-> <<s, i>>]
StagesUpTo(n, s, p) ==
  [i \in 1 .. 2 * n |-> IF i % 2 = 1 THEN <<"attn", i \div 2, OwnTokens(s, p)>>
                                     ELSE <<"ffn", i \div 2 - 1>>]
Through(n, s, p) == [tok |-> <<s, p>>, stages |-> StagesUpTo(n, s, p)]

FusedTypeOK ==
  /\ fusedAt \in {"off", "packing", "idle", "await", "attention", "ffn", "last"}
  /\ npuFfn \in BOOLEAN /\ npuOk \in BOOLEAN /\ lost \in BOOLEAN
  /\ packedB \in Layers \cup {NoLayer}
  /\ layer \in 0 .. NumLayers
  /\ job \in Jobs \cup {NoJob}
  /\ pos \in 0 .. MaxSeq /\ resets \in Nat
  /\ ffnWeights \in [Layers -> Layers \cup {NoLayer}]

\* The token that forward() returns went through every layer once and in order, and so
\* did the rows its attention read, which are of this session, in every way the NPU job
\* and the call interleave: unless an FFN before the last layer was lost in the session.
\* (Regression #1231 read the hidden state before the FFN was in it; one KV cache for all
\* layers and a residual taken after the norm are in the comments of forward() and init().)
TokenThroughAllLayers ==
  fusedAt = "idle" /\ pos > 0 /\ ~ lost =>
    /\ dh = Through(NumLayers, resets, pos)
    /\ \A l \in Layers : \A p \in 1 .. pos : kvRows[l][p] = Through(l, resets, p)

\* No job runs when no call is in forward(): the next call overwrites npu_future_ and
\* destroy() deletes the slots before it waits.
SettledWhenIdle ==
  fusedAt \in {"off", "packing", "idle"} => job = NoJob

\* "compute copies live on GPU ... and in the packed NPU state" (backend_fused.cpp:433):
\* the FFN of a layer is computed with the weights of this layer.
LayerUsesOwnWeights == \A l \in Layers : ffnWeights[l] \in {l, NoLayer}
===============================================================================
