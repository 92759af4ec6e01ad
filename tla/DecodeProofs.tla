----------------------------- MODULE DecodeProofs -----------------------------
(***************************************************************************)
(* The decoders.  For every number of layers and every length of the       *)
(* cache: the type invariant of FusedPipeline, that no NPU job outlives    *)
(* forward(), and that a token goes through all layers.  For every target  *)
(* model, every draft, every vocabulary and every n_draft: the caches of   *)
(* SpecDecode agree at the start of a round and the answer is greedy.  For *)
(* any number of sessions, tokens and tries: the type invariant of         *)
(* NpuWorker, that replies stay in step with the calls, and that a token   *)
(* is computed from its whole session.                                     *)
(***************************************************************************)
EXTENDS FusedPipeline, SpecDecode, NpuWorker, SequenceTheorems, TLAPS

(***************************************************************************)
(* Stages.                                                                 *)
(***************************************************************************)
LEMMA AppendIs ==
  ASSUME NEW m \in Nat, NEW s, s = [i \in 1 .. m |-> s[i]], NEW e
  PROVE  Append(s, e) = [i \in 1 .. m + 1 |-> IF i = m + 1 THEN e ELSE s[i]]
<1>1. Len(s) = m
  OBVIOUS
<1> QED BY <1>1

\* A layer is two stages.
LEMMA TwoStages ==
  ASSUME NEW n \in Nat, NEW s, NEW p, NEW a, NEW f,
         a = <<"attn", n, OwnTokens(s, p)>>, f = <<"ffn", n>>
  PROVE  Append(Append(StagesUpTo(n, s, p), a), f) = StagesUpTo(n + 1, s, p)
<1> DEFINE z == StagesUpTo(n, s, p)
           h == Append(z, a)
           t == StagesUpTo(n + 1, s, p)
<1>1. z = [i \in 1 .. 2 * n |-> z[i]]
  BY DEF StagesUpTo
<1>2. h = [i \in 1 .. 2 * n + 1 |-> IF i = 2 * n + 1 THEN a ELSE z[i]]
  <2> HIDE DEF z
  <2>1. 2 * n \in Nat
    OBVIOUS
  <2> QED BY <1>1, <2>1, AppendIs
<1>3. h = [i \in 1 .. 2 * n + 1 |-> h[i]]
  <2> HIDE DEF h, z
  <2> QED BY <1>2
<1>4. Append(h, f) = [i \in 1 .. 2 * n + 2 |-> IF i = 2 * n + 2 THEN f ELSE h[i]]
  <2> HIDE DEF h
  <2>1. 2 * n + 1 \in Nat /\ (2 * n + 1) + 1 = 2 * n + 2
    OBVIOUS
  <2> QED BY <1>3, <2>1, AppendIs
<1>5. t = [i \in 1 .. 2 * n + 2 |-> t[i]]
  BY DEF StagesUpTo
<1>6. ASSUME NEW i \in 1 .. 2 * n + 2
      PROVE  (IF i = 2 * n + 2 THEN f ELSE h[i]) = t[i]
  <2>1. t[i] = IF i % 2 = 1 THEN <<"attn", i \div 2, OwnTokens(s, p)>>
                            ELSE <<"ffn", i \div 2 - 1>>
    BY DEF StagesUpTo
  <2>2. CASE i = 2 * n + 2
    <3>1. i % 2 = 0 /\ i \div 2 - 1 = n
      BY <2>2
    <3> QED BY <2>1, <2>2, <3>1
  <2>3. CASE i = 2 * n + 1
    <3>1. i % 2 = 1 /\ i \div 2 = n /\ i # 2 * n + 2 /\ i \in 1 .. 2 * n + 1
      BY <2>3
    <3>2. h[i] = a
      <4> HIDE DEF h, z
      <4> QED BY <1>2, <2>3, <3>1
    <3> QED BY <2>1, <3>1, <3>2
  <2>4. CASE i \in 1 .. 2 * n
    <3>1. h[i] = z[i] /\ i # 2 * n + 2
      <4> HIDE DEF h, z
      <4> QED BY <1>2, <2>4
    <3>2. z[i] = IF i % 2 = 1 THEN <<"attn", i \div 2, OwnTokens(s, p)>>
                              ELSE <<"ffn", i \div 2 - 1>>
      BY <2>4 DEF StagesUpTo
    <3> QED BY <2>1, <3>1, <3>2
  <2>5. i = 2 * n + 2 \/ i = 2 * n + 1 \/ i \in 1 .. 2 * n
    OBVIOUS
  <2> HIDE DEF h, t
  <2> QED BY <2>2, <2>3, <2>4, <2>5
<1>7. Append(h, f) = t
  <2>1. [i \in 1 .. 2 * n + 2 |-> IF i = 2 * n + 2 THEN f ELSE h[i]]
          = [i \in 1 .. 2 * n + 2 |-> t[i]]
    <3> HIDE DEF h, t
    <3> QED BY <1>6
  <2> HIDE DEF h, t
  <2> QED BY <1>4, <1>5, <2>1
<1> QED BY <1>7

\* A hidden state between the attention and the FFN of layer n.
Halfway(n, s, p) ==
  [tok |-> <<s, p>>, stages |-> Append(StagesUpTo(n, s, p), <<"attn", n, OwnTokens(s, p)>>)]

\* The FFN of layer n completes the layer.
LEMMA FfnCompletesLayer ==
  ASSUME NEW n \in Nat, NEW s, NEW p
  PROVE  AfterFfn(Halfway(n, s, p), n) = Through(n + 1, s, p)
<1> DEFINE half == Append(StagesUpTo(n, s, p), <<"attn", n, OwnTokens(s, p)>>)
<1>1. Append(half, <<"ffn", n>>) = StagesUpTo(n + 1, s, p)
  BY TwoStages, Zenon
<1>2. AfterFfn(Halfway(n, s, p), n) = [tok |-> <<s, p>>, stages |-> Append(half, <<"ffn", n>>)]
  <2> HIDE DEF half
  <2>1. Halfway(n, s, p) = [tok |-> <<s, p>>, stages |-> half]
    BY DEF Halfway, half
  <2> QED BY <2>1 DEF AfterFfn
<1> QED
  <2> HIDE DEF half
  <2> QED BY <1>1, <1>2 DEF Through

(***************************************************************************)
(* The inductive invariant.                                                *)
(***************************************************************************)
InForward == fusedAt \in {"await", "attention", "ffn", "last"}

\* The FFN of the layer before was given to the NPU and has not been collected.
Collecting == fusedAt \in {"await", "last"} /\ UseNpu /\ layer > 0

\* Where the loop is.
LoopOK ==
  /\ fusedAt \in {"packing", "await", "attention", "ffn"} => layer < NumLayers
  /\ fusedAt = "last" => layer = NumLayers
  /\ InForward => pos < MaxSeq
  /\ fusedAt \in {"off", "packing"} => pos = 0

\* There is a job exactly when there is something to collect, and it is that.
JobOK == IF Collecting THEN job # NoJob /\ job.layer = layer - 1 ELSE job = NoJob

\* The rows written in the session are those of its tokens.
Written(l, p) ==
  p <= pos \/ (InForward /\ p = pos + 1 /\ (l < layer \/ (fusedAt = "ffn" /\ l = layer)))
RowsOK ==
  ~ lost => \A l \in Layers : \A p \in 1 .. MaxSeq : Written(l, p) => kvRows[l][p] = Through(l, resets, p)

\* The hidden state at each place in the loop.
HiddenOK ==
  ~ lost =>
    /\ fusedAt = "idle" /\ pos > 0 => dh = Through(NumLayers, resets, pos)
    /\ fusedAt = "attention" => dh = Through(layer, resets, pos + 1)
    /\ fusedAt = "ffn" => dh = Halfway(layer, resets, pos + 1)
    /\ fusedAt \in {"await", "last"} /\ ~ Collecting => dh = Through(layer, resets, pos + 1)
    /\ Collecting =>
         /\ dh = Halfway(layer - 1, resets, pos + 1)
         /\ slot[SlotOf(layer - 1)] = IF job.state = "ok" THEN Through(layer, resets, pos + 1)
                                                        ELSE Halfway(layer - 1, resets, pos + 1)

\* The cache has rows for all layers and positions; there are two slots.
KvShape == kvRows = [l \in Layers |-> [p \in 1 .. MaxSeq |-> kvRows[l][p]]]
SlotShape == slot = [i \in 0 .. 1 |-> slot[i]]

FusedInv == KvShape /\ SlotShape /\ FusedTypeOK /\ LoopOK /\ JobOK /\ RowsOK /\ HiddenOK

\* Nothing is loaded at first.
LEMMA FusedInitInv == FusedInit => FusedInv
<1> SUFFICES ASSUME FusedInit PROVE FusedInv
  OBVIOUS
<1> USE NumLayersAssumption, MaxSeqAssumption
<1>1. KvShape /\ SlotShape
  BY DEF FusedInit, EmptyKvRows, KvShape, SlotShape
<1>2. FusedTypeOK
  <2>1. ffnWeights \in [Layers -> Layers \cup {NoLayer}]
    BY DEF FusedInit
  <2>2. layer \in 0 .. NumLayers /\ pos \in 0 .. MaxSeq
    BY DEF FusedInit
  <2>3. fusedAt = "off" /\ npuFfn = FALSE /\ npuOk = FALSE /\ lost = FALSE
    BY DEF FusedInit
  <2>4. packedB = NoLayer /\ job = NoJob /\ resets = 0
    BY DEF FusedInit
  <2> QED BY <2>1, <2>2, <2>3, <2>4 DEF FusedTypeOK
<1>3. LoopOK /\ JobOK
  BY DEF FusedInit, LoopOK, JobOK, InForward, Collecting, UseNpu
<1>4. RowsOK /\ HiddenOK
  BY DEF FusedInit, RowsOK, HiddenOK, Written, InForward, Collecting
<1> QED BY <1>1, <1>2, <1>3, <1>4 DEF FusedInv

(***************************************************************************)
(* Every step preserves it: one lemma per action.                          *)
(***************************************************************************)
LEMMA FusedLoadStep == FusedInv /\ FusedLoad => FusedInv'
<1> SUFFICES ASSUME FusedInv, FusedLoad PROVE FusedInv'
  OBVIOUS
<1> USE NumLayersAssumption
<1>1. KvShape' /\ SlotShape'
  BY DEF FusedInv, FusedLoad, KvShape, SlotShape
<1>2. FusedTypeOK'
  BY DEF FusedInv, FusedLoad, FusedTypeOK
<1>3. LoopOK' /\ JobOK'
  BY DEF FusedInv, FusedLoad, FusedTypeOK, LoopOK, JobOK, InForward, Collecting
<1>4. RowsOK' /\ HiddenOK'
  BY DEF FusedInv, FusedLoad, FusedTypeOK, LoopOK, RowsOK, HiddenOK, Written, InForward, Collecting
<1> QED BY <1>1, <1>2, <1>3, <1>4 DEF FusedInv

\* Packing touches no hidden state and no row; the loop variable stays below NumLayers.
LEMMA PackLayerStep == FusedInv /\ PackLayer => FusedInv'
<1> SUFFICES ASSUME FusedInv, PackLayer PROVE FusedInv'
  OBVIOUS
<1> USE NumLayersAssumption
<1>1. KvShape' /\ SlotShape'
  BY DEF FusedInv, PackLayer, KvShape, SlotShape
<1>2. layer \in Layers
  BY DEF FusedInv, PackLayer, FusedTypeOK, LoopOK, Layers
<1>3. FusedTypeOK'
  <2>1. fusedAt' \in {"packing", "idle"} /\ npuOk' \in BOOLEAN
    BY DEF FusedInv, PackLayer, FusedTypeOK
  <2>2. layer' \in 0 .. NumLayers /\ packedB' \in Layers \cup {NoLayer}
    BY <1>2 DEF PackLayer, Layers
  <2> QED BY <2>1, <2>2 DEF FusedInv, PackLayer, FusedTypeOK
<1>4. LoopOK' /\ JobOK'
  BY DEF FusedInv, PackLayer, FusedTypeOK, LoopOK, JobOK, InForward, Collecting
<1>5. RowsOK' /\ HiddenOK'
  BY DEF FusedInv, PackLayer, FusedTypeOK, LoopOK, RowsOK, HiddenOK, Written, InForward,
         Collecting
<1> QED BY <1>1, <1>3, <1>4, <1>5 DEF FusedInv

\* The new hidden state went through no stage yet.
LEMMA EmbedStep == FusedInv /\ Embed => FusedInv'
<1> SUFFICES ASSUME FusedInv, Embed PROVE FusedInv'
  OBVIOUS
<1> USE NumLayersAssumption
<1>1. KvShape' /\ SlotShape'
  BY DEF FusedInv, Embed, KvShape, SlotShape
<1>2. FusedTypeOK' /\ LoopOK' /\ JobOK'
  BY DEF FusedInv, Embed, FusedTypeOK, LoopOK, JobOK, InForward, Collecting
<1>3. StagesUpTo(0, resets, pos + 1) = <<>>
  BY DEF StagesUpTo
<1>4. RowsOK'
  BY DEF FusedInv, Embed, FusedTypeOK, RowsOK, Written, InForward, Layers
<1>5. HiddenOK'
  BY <1>3 DEF Embed, HiddenOK, Through, Collecting
<1> QED BY <1>1, <1>2, <1>4, <1>5 DEF FusedInv

\* Collecting layer - 1: the slot holds what the loop expects, or the session is lost.
LEMMA AwaitFfnStep == FusedInv /\ AwaitFfn => FusedInv'
<1> SUFFICES ASSUME FusedInv, AwaitFfn PROVE FusedInv'
  OBVIOUS
<1>1. KvShape' /\ SlotShape'
  BY DEF FusedInv, AwaitFfn, KvShape, SlotShape
<1>2. FusedTypeOK' /\ LoopOK' /\ JobOK'
  BY DEF FusedInv, AwaitFfn, FusedTypeOK, LoopOK, JobOK, InForward, Collecting, UseNpu
<1>3. RowsOK'
  BY DEF FusedInv, AwaitFfn, FusedTypeOK, RowsOK, Written, InForward
<1>4. HiddenOK'
  BY DEF FusedInv, AwaitFfn, FusedTypeOK, HiddenOK, Collecting, UseNpu, SlotOf
<1> QED BY <1>1, <1>2, <1>3, <1>4 DEF FusedInv

\* The row of this layer and position is written, then read with the rows before it.
LEMMA AttentionStep == FusedInv /\ Attention => FusedInv'
<1> SUFFICES ASSUME FusedInv, Attention PROVE FusedInv'
  OBVIOUS
<1>1. layer \in Layers /\ pos + 1 \in 1 .. MaxSeq /\ layer \in Nat
  BY NumLayersAssumption, MaxSeqAssumption
  DEF FusedInv, Attention, FusedTypeOK, LoopOK, InForward, Layers
<1>2. kvRows' = [l \in Layers |-> [p \in 1 .. MaxSeq |->
                    IF l = layer /\ p = pos + 1 THEN dh ELSE kvRows[l][p]]]
  BY <1>1 DEF FusedInv, KvShape, Attention, StoreRow
<1>3. KvShape' /\ SlotShape'
  <2>1. KvShape'
    BY <1>2 DEF KvShape
  <2> QED BY <2>1 DEF FusedInv, Attention, SlotShape
<1>4. FusedTypeOK' /\ LoopOK' /\ JobOK'
  BY DEF FusedInv, Attention, FusedTypeOK, LoopOK, JobOK, InForward, Collecting
<1>5. RowsOK'
  <2> SUFFICES ASSUME ~ lost, NEW l \in Layers, NEW p \in 1 .. MaxSeq, Written(l, p)'
               PROVE  kvRows'[l][p] = Through(l, resets, p)
    BY DEF RowsOK, Attention
  <2>1. CASE l = layer /\ p = pos + 1
    BY <1>1, <1>2, <2>1 DEF FusedInv, Attention, HiddenOK
  <2>2. CASE ~ (l = layer /\ p = pos + 1)
    <3>1. Written(l, p)
      BY <2>2 DEF Written, Attention, InForward
    <3> QED BY <1>2, <2>2, <3>1 DEF FusedInv, RowsOK
  <2> QED BY <2>1, <2>2
<1>6. ~ lost => TokensRead(kvRows'[layer]) = OwnTokens(resets, pos + 1)
  <2> SUFFICES ASSUME ~ lost PROVE TokensRead(kvRows'[layer]) = OwnTokens(resets, pos + 1)
    OBVIOUS
  <2>1. ASSUME NEW p \in 1 .. pos + 1
        PROVE  kvRows'[layer][p].tok = <<resets, p>>
    <3>1. pos \in Nat /\ p \in 1 .. MaxSeq
      BY <1>1, MaxSeqAssumption DEF FusedInv, FusedTypeOK
    <3>2. Written(layer, p)'
      BY <3>1 DEF Attention, Written, InForward
    <3>3. kvRows'[layer][p] = Through(layer, resets, p)
      BY <1>1, <1>5, <3>1, <3>2 DEF RowsOK, Attention
    <3> QED BY <3>3 DEF Through
  <2> QED BY <2>1 DEF TokensRead, OwnTokens
<1>7. ~ lost => dh' = Halfway(layer, resets, pos + 1)
  <2> SUFFICES ASSUME ~ lost PROVE dh' = Halfway(layer, resets, pos + 1)
    OBVIOUS
  <2>1. dh = Through(layer, resets, pos + 1)
    BY DEF FusedInv, HiddenOK, Attention
  <2>2. dh' = AfterAttention(dh, layer, kvRows'[layer])
    BY DEF Attention
  <2> QED BY <1>6, <2>1, <2>2 DEF AfterAttention, Through, Halfway
<1>8. HiddenOK'
  BY <1>7 DEF HiddenOK, Attention, Collecting
<1> QED BY <1>3, <1>4, <1>5, <1>8 DEF FusedInv

\* The FFN on the GPU completes the layer.
LEMMA GpuFfnStep == FusedInv /\ GpuFfn => FusedInv'
<1> SUFFICES ASSUME FusedInv, GpuFfn PROVE FusedInv'
  OBVIOUS
<1>1. layer \in Layers /\ layer \in Nat /\ layer < NumLayers
  BY NumLayersAssumption DEF FusedInv, GpuFfn, FusedTypeOK, LoopOK, Layers
<1>2. KvShape' /\ SlotShape'
  BY DEF FusedInv, GpuFfn, KvShape, SlotShape
<1>3. FusedTypeOK'
  <2>1. ffnWeights' \in [Layers -> Layers \cup {NoLayer}]
    BY <1>1 DEF FusedInv, GpuFfn, FusedTypeOK
  <2>2. layer' \in 0 .. NumLayers /\ fusedAt' \in {"await", "last"}
    BY <1>1, NumLayersAssumption DEF GpuFfn, NextLayer
  <2> QED BY <2>1, <2>2 DEF FusedInv, GpuFfn, FusedTypeOK
<1>4. LoopOK' /\ JobOK'
  BY <1>1, NumLayersAssumption
  DEF FusedInv, GpuFfn, NextLayer, LoopOK, JobOK, InForward, Collecting, UseNpu
<1>5. RowsOK'
  BY <1>1 DEF FusedInv, GpuFfn, NextLayer, FusedTypeOK, RowsOK, Written, InForward, Layers
<1>6. HiddenOK'
  <2>1. ~ lost => dh' = Through(layer + 1, resets, pos + 1)
    <3>1. ~ lost => dh = Halfway(layer, resets, pos + 1)
      BY DEF FusedInv, HiddenOK, GpuFfn
    <3> QED BY <1>1, <3>1, FfnCompletesLayer DEF GpuFfn
  <2>2. fusedAt' \in {"await", "last"} /\ ~ Collecting' /\ layer' = layer + 1
    BY DEF GpuFfn, NextLayer, Collecting, UseNpu
  <2> QED BY <2>1, <2>2 DEF HiddenOK, GpuFfn
<1> QED BY <1>2, <1>3, <1>4, <1>5, <1>6 DEF FusedInv

\* The slot of the layer gets the hidden state; the job is the one to collect.
LEMMA LaunchNpuFfnStep == FusedInv /\ LaunchNpuFfn => FusedInv'
<1> SUFFICES ASSUME FusedInv, LaunchNpuFfn PROVE FusedInv'
  OBVIOUS
<1>1. layer \in Layers /\ layer \in Nat /\ layer < NumLayers
  BY NumLayersAssumption DEF FusedInv, LaunchNpuFfn, FusedTypeOK, LoopOK, Layers
<1>2. SlotOf(layer) \in 0 .. 1
  BY <1>1 DEF SlotOf
<1>3. KvShape' /\ SlotShape' /\ slot'[SlotOf(layer)] = dh
  BY <1>2 DEF FusedInv, LaunchNpuFfn, KvShape, SlotShape
<1>4. job' \in Jobs /\ job'.layer = layer /\ job'.state = "running"
  BY <1>1 DEF LaunchNpuFfn, Jobs
<1>5. FusedTypeOK'
  <2>1. layer' \in 0 .. NumLayers /\ fusedAt' \in {"await", "last"}
    BY <1>1, NumLayersAssumption DEF LaunchNpuFfn, NextLayer
  <2> QED BY <1>4, <2>1 DEF FusedInv, LaunchNpuFfn, FusedTypeOK
<1>6. LoopOK' /\ JobOK'
  <2>1. LoopOK'
    BY <1>1, NumLayersAssumption
    DEF FusedInv, LaunchNpuFfn, NextLayer, LoopOK, InForward
  <2>2. Collecting' /\ layer' - 1 = layer
    BY <1>1 DEF LaunchNpuFfn, NextLayer, Collecting, UseNpu
  <2> QED BY <1>4, <2>1, <2>2, NoJobAssumption DEF JobOK
<1>7. RowsOK'
  BY <1>1 DEF FusedInv, LaunchNpuFfn, NextLayer, FusedTypeOK, RowsOK, Written, InForward, Layers
<1>8. HiddenOK'
  <2>1. ~ lost => dh = Halfway(layer, resets, pos + 1)
    BY DEF FusedInv, HiddenOK, LaunchNpuFfn
  <2>2. fusedAt' \in {"await", "last"} /\ Collecting' /\ layer' - 1 = layer
    BY <1>1 DEF LaunchNpuFfn, NextLayer, Collecting, UseNpu
  <2> QED BY <1>3, <1>4, <2>1, <2>2 DEF HiddenOK, LaunchNpuFfn
<1> QED BY <1>3, <1>5, <1>6, <1>7, <1>8 DEF FusedInv

\* The job completes the layer in its slot, or leaves the slot as it is.
LEMMA NpuComputesStep == FusedInv /\ NpuComputes => FusedInv'
<1> SUFFICES ASSUME FusedInv, NpuComputes PROVE FusedInv'
  OBVIOUS
<1>1. Collecting /\ job.layer = layer - 1 /\ layer \in Nat /\ layer - 1 \in Nat /\ job \in Jobs
  BY DEF FusedInv, NpuComputes, JobOK, Collecting, FusedTypeOK
<1>2. SlotOf(layer - 1) \in 0 .. 1
  BY <1>1 DEF SlotOf
<1>3. KvShape' /\ SlotShape'
  BY <1>1, <1>2 DEF FusedInv, NpuComputes, KvShape, SlotShape
<1>4. job' \in Jobs /\ job'.layer = layer - 1 /\ job'.state \in {"ok", "failed"}
  BY <1>1 DEF NpuComputes, Jobs
<1>5. FusedTypeOK'
  <2>1. ffnWeights' \in [Layers -> Layers \cup {NoLayer}]
    BY <1>1 DEF FusedInv, NpuComputes, FusedTypeOK, Jobs
  <2> QED BY <1>4, <2>1 DEF FusedInv, NpuComputes, FusedTypeOK
<1>6. LoopOK' /\ JobOK' /\ Collecting'
  BY <1>1, <1>4, NoJobAssumption
  DEF FusedInv, NpuComputes, LoopOK, JobOK, InForward, Collecting, UseNpu
<1>7. RowsOK'
  BY DEF FusedInv, NpuComputes, RowsOK, Written, InForward
<1>8. HiddenOK'
  <2>1. ~ lost => dh = Halfway(layer - 1, resets, pos + 1)
                  /\ slot[SlotOf(layer - 1)] = Halfway(layer - 1, resets, pos + 1)
    BY <1>1 DEF FusedInv, HiddenOK, NpuComputes
  <2>2. CASE job'.state = "ok"
    <3>1. slot' = [slot EXCEPT ![SlotOf(layer - 1)] = AfterFfn(@, layer - 1)]
      BY <1>1, <2>2 DEF NpuComputes, Jobs
    <3>2. slot'[SlotOf(layer - 1)] = AfterFfn(slot[SlotOf(layer - 1)], layer - 1)
      BY <1>2, <3>1 DEF FusedInv, SlotShape
    <3>3. (layer - 1) + 1 = layer
      BY <1>1
    <3>4. ~ lost => slot'[SlotOf(layer - 1)] = Through(layer, resets, pos + 1)
      BY <1>1, <2>1, <3>2, <3>3, FfnCompletesLayer
    <3> QED BY <1>1, <1>6, <2>1, <2>2, <3>4 DEF HiddenOK, NpuComputes, Collecting
  <2>3. CASE job'.state = "failed"
    <3>1. slot' = slot
      BY <1>1, <2>3 DEF NpuComputes, Jobs
    <3> QED BY <1>1, <1>6, <2>1, <2>3, <3>1 DEF HiddenOK, NpuComputes, Collecting
  <2> QED BY <1>4, <2>2, <2>3
<1> QED BY <1>3, <1>5, <1>6, <1>7, <1>8 DEF FusedInv

\* The last layer is completed, on the GPU if the job failed: the token went through all.
LEMMA ReadbackStep == FusedInv /\ Readback => FusedInv'
<1> SUFFICES ASSUME FusedInv, Readback PROVE FusedInv'
  OBVIOUS
<1>1. layer = NumLayers /\ layer > 0 /\ layer - 1 \in Nat /\ (layer - 1) + 1 = layer
  BY NumLayersAssumption DEF FusedInv, Readback, LoopOK
<1>2. KvShape' /\ SlotShape'
  BY DEF FusedInv, Readback, KvShape, SlotShape
<1>3. FusedTypeOK'
  <2>1. ffnWeights' \in [Layers -> Layers \cup {NoLayer}]
    BY NumLayersAssumption DEF FusedInv, Readback, FusedTypeOK, Layers
  <2>2. pos' \in 0 .. MaxSeq
    BY MaxSeqAssumption DEF FusedInv, Readback, FusedTypeOK, LoopOK, InForward
  <2> QED BY <2>1, <2>2 DEF FusedInv, Readback, FusedTypeOK
<1>4. LoopOK' /\ JobOK'
  BY <1>1 DEF FusedInv, Readback, LoopOK, JobOK, InForward, Collecting, UseNpu
<1>5. RowsOK'
  <2> SUFFICES ASSUME ~ lost, NEW l \in Layers, NEW p \in 1 .. MaxSeq, Written(l, p)'
               PROVE  kvRows[l][p] = Through(l, resets, p)
    BY DEF RowsOK, Readback
  <2>1. Written(l, p)
    BY <1>1 DEF Written, Readback, InForward, Layers, FusedInv, FusedTypeOK
  <2> QED BY <2>1 DEF FusedInv, RowsOK
<1>6. HiddenOK'
  <2>1. ~ lost => dh' = Through(NumLayers, resets, pos + 1)
    <3> SUFFICES ASSUME ~ lost PROVE dh' = Through(NumLayers, resets, pos + 1)
      OBVIOUS
    <3>1. CASE ~ UseNpu
      BY <1>1, <3>1 DEF FusedInv, Readback, HiddenOK, Collecting
    <3>2. CASE UseNpu
      <4>1. /\ dh = Halfway(layer - 1, resets, pos + 1)
            /\ slot[SlotOf(layer - 1)] =
                 IF job.state = "ok" THEN Through(layer, resets, pos + 1)
                                     ELSE Halfway(layer - 1, resets, pos + 1)
        BY <1>1, <3>2 DEF FusedInv, Readback, HiddenOK, Collecting
      <4>2. CASE job.state = "ok"
        BY <1>1, <3>2, <4>1, <4>2 DEF Readback
      <4>3. CASE job.state # "ok"
        <5>1. dh' = AfterFfn(dh, layer - 1)
          BY <1>1, <3>2, <4>3 DEF Readback
        <5> QED BY <1>1, <4>1, <5>1, FfnCompletesLayer
      <4> QED BY <4>2, <4>3
    <3> QED BY <3>1, <3>2
  <2> QED BY <2>1 DEF HiddenOK, Readback, Collecting
<1> QED BY <1>2, <1>3, <1>4, <1>5, <1>6 DEF FusedInv

\* A reset forgets the rows and starts another session.
LEMMA FusedResetStep == FusedInv /\ FusedReset => FusedInv'
<1> SUFFICES ASSUME FusedInv, FusedReset PROVE FusedInv'
  OBVIOUS
<1>1. KvShape' /\ SlotShape'
  BY DEF FusedInv, FusedReset, EmptyKvRows, KvShape, SlotShape
<1>2. FusedTypeOK'
  <2>1. pos' \in 0 .. MaxSeq /\ resets' \in Nat
    <3>1. resets \in Nat
      BY DEF FusedInv, FusedTypeOK
    <3>2. pos' = 0 /\ resets' = resets + 1
      BY DEF FusedReset
    <3> QED BY <3>1, <3>2, MaxSeqAssumption
  <2>2. FusedTypeOK /\ UNCHANGED <<fusedAt, npuFfn, npuOk, packedB, layer, job, ffnWeights>>
    BY DEF FusedInv, FusedReset
  <2>3. lost' = FALSE
    BY DEF FusedReset
  <2> QED BY <2>1, <2>2, <2>3 DEF FusedTypeOK
<1>3. LoopOK' /\ JobOK'
  BY DEF FusedInv, FusedReset, LoopOK, JobOK, InForward, Collecting
<1>4. RowsOK' /\ HiddenOK'
  BY DEF FusedReset, RowsOK, HiddenOK, Written, InForward, Collecting
<1> QED BY <1>1, <1>2, <1>3, <1>4 DEF FusedInv

\* destroy() returns to the first state; there is no job to wait for.
LEMMA FusedDestroyStep == FusedInv /\ FusedDestroy => FusedInv'
<1> SUFFICES ASSUME FusedInv, FusedDestroy PROVE FusedInv'
  OBVIOUS
<1>1. KvShape' /\ SlotShape'
  BY DEF FusedDestroy, EmptyKvRows, KvShape, SlotShape
<1>2. FusedTypeOK'
  <2>1. ffnWeights' \in [Layers -> Layers \cup {NoLayer}]
    BY DEF FusedDestroy
  <2>2. layer' \in 0 .. NumLayers /\ pos' \in 0 .. MaxSeq
    BY NumLayersAssumption, MaxSeqAssumption DEF FusedDestroy
  <2>3. job' \in Jobs \cup {NoJob}
    BY DEF FusedInv, FusedDestroy, FusedTypeOK
  <2>4. fusedAt' = "off" /\ npuFfn' = FALSE /\ npuOk' = FALSE /\ lost' = FALSE
    BY DEF FusedDestroy
  <2>5. packedB' = NoLayer /\ resets' = 0
    BY DEF FusedDestroy
  <2> QED BY <2>1, <2>2, <2>3, <2>4, <2>5 DEF FusedTypeOK
<1>3. LoopOK' /\ JobOK'
  BY DEF FusedInv, FusedDestroy, LoopOK, JobOK, InForward, Collecting
<1>4. RowsOK' /\ HiddenOK'
  BY DEF FusedDestroy, RowsOK, HiddenOK, Written, InForward, Collecting
<1> QED BY <1>1, <1>2, <1>3, <1>4 DEF FusedInv

\* The invariant looks at the variables of the backend only.
LEMMA FusedStutter == FusedInv /\ UNCHANGED fusedVars => FusedInv'
<1> SUFFICES ASSUME FusedInv, UNCHANGED fusedVars PROVE FusedInv'
  OBVIOUS
<1>1. KvShape' /\ SlotShape'
  BY DEF FusedInv, fusedVars, KvShape, SlotShape
<1>2. FusedTypeOK' /\ LoopOK' /\ JobOK'
  BY DEF fusedVars, FusedInv, FusedTypeOK, LoopOK, JobOK, InForward, Collecting, UseNpu
<1>3. RowsOK' /\ HiddenOK'
  BY DEF fusedVars, FusedInv, RowsOK, HiddenOK, Written, InForward, Collecting, UseNpu
<1> QED BY <1>1, <1>2, <1>3 DEF FusedInv

\* The invariant holds in every run.
THEOREM FusedInvariant == FusedSpec => []FusedInv
<1>1. FusedInv /\ [FusedNext]_fusedVars => FusedInv'
  <2> SUFFICES ASSUME FusedInv, [FusedNext]_fusedVars PROVE FusedInv'
    OBVIOUS
  <2>1. CASE UNCHANGED fusedVars
    BY <2>1, FusedStutter
  <2>2. CASE FusedNext
    BY <2>2, FusedLoadStep, PackLayerStep, EmbedStep, AwaitFfnStep, AttentionStep, GpuFfnStep,
       LaunchNpuFfnStep, NpuComputesStep, ReadbackStep, FusedResetStep, FusedDestroyStep
    DEF FusedNext
  <2> QED BY <2>1, <2>2
<1> QED BY <1>1, FusedInitInv, PTL DEF FusedSpec

\* FusedTypeOK for every number of layers, length of the cache and number of sessions.
THEOREM FusedTypeCorrect == FusedSpec => []FusedTypeOK
<1>1. FusedInv => FusedTypeOK
  BY DEF FusedInv
<1> QED BY <1>1, FusedInvariant, PTL

\* No NPU job outlives the forward() that launched it: a later call never overwrites a
\* running job's future, and destroy() deletes slots that nobody writes to.
THEOREM FusedSettled == FusedSpec => []SettledWhenIdle
<1>1. FusedInv => SettledWhenIdle
  BY DEF FusedInv, JobOK, Collecting, SettledWhenIdle
<1> QED BY <1>1, FusedInvariant, PTL

\* However the job and the call interleave, the token that forward() returns went through
\* every layer once and in order, and read the rows of its own session only.
THEOREM FusedTokenThroughAllLayers == FusedSpec => []TokenThroughAllLayers
<1>1. FusedInv => TokenThroughAllLayers
  <2> SUFFICES ASSUME FusedInv, fusedAt = "idle", pos > 0, ~ lost
               PROVE  /\ dh = Through(NumLayers, resets, pos)
                      /\ \A l \in Layers : \A p \in 1 .. pos : kvRows[l][p] = Through(l, resets, p)
    BY DEF TokenThroughAllLayers
  <2>1. \A p \in 1 .. pos : p \in 1 .. MaxSeq /\ p <= pos
    BY MaxSeqAssumption DEF FusedInv, FusedTypeOK
  <2> QED BY <2>1 DEF FusedInv, HiddenOK, RowsOK, Written
<1> QED BY <1>1, FusedInvariant, PTL

-----------------------------------------------------------------------------
(***************************************************************************)
(* Sequences.                                                              *)
(***************************************************************************)
\* A prefix of a sequence is a sequence.
LEMMA PrefixOf ==
  ASSUME NEW S, NEW s \in Seq(S), NEW n \in 0 .. Len(s)
  PROVE  /\ SubSeq(s, 1, n) \in Seq(S)
         /\ Len(SubSeq(s, 1, n)) = n
         /\ \A i \in 1 .. n : SubSeq(s, 1, n)[i] = s[i]
<1>1. \A i \in 1 .. n : s[i] \in S
  OBVIOUS
<1> QED BY <1>1, SubSeqProperties

\* The prefix of a prefix.
LEMMA PrefixOfPrefix ==
  ASSUME NEW S, NEW s \in Seq(S), NEW n \in 0 .. Len(s), NEW m \in 0 .. n
  PROVE  SubSeq(SubSeq(s, 1, n), 1, m) = SubSeq(s, 1, m)
<1> DEFINE a == SubSeq(SubSeq(s, 1, n), 1, m)
           b == SubSeq(s, 1, m)
<1>1. m \in 0 .. Len(s) /\ SubSeq(s, 1, n) \in Seq(S) /\ m \in 0 .. Len(SubSeq(s, 1, n))
  BY PrefixOf
<1>2. a \in Seq(S) /\ Len(a) = m /\ \A i \in 1 .. m : a[i] = SubSeq(s, 1, n)[i]
  BY <1>1, PrefixOf
<1>3. b \in Seq(S) /\ Len(b) = m /\ \A i \in 1 .. m : b[i] = s[i]
  BY <1>1, PrefixOf
<1>4. \A i \in 1 .. m : SubSeq(s, 1, n)[i] = s[i]
  BY PrefixOf
<1> HIDE DEF a, b
<1>5. a = b
  BY <1>2, <1>3, <1>4, SeqEqual
<1> QED BY <1>5 DEF a, b

\* The prefixes of a concatenation.
LEMMA PrefixOfConcat ==
  ASSUME NEW S, NEW s \in Seq(S), NEW t \in Seq(S), NEW m \in 0 .. Len(t)
  PROVE  SubSeq(s \o t, 1, Len(s) + m) = s \o SubSeq(t, 1, m)
<1> DEFINE a == SubSeq(s \o t, 1, Len(s) + m)
           b == s \o SubSeq(t, 1, m)
<1>1. s \o t \in Seq(S) /\ Len(s \o t) = Len(s) + Len(t)
  BY ConcatProperties
<1>2. Len(s) \in Nat /\ Len(t) \in Nat /\ Len(s) + m \in 0 .. Len(s \o t)
  BY <1>1, LenProperties
<1>3. /\ a \in Seq(S) /\ Len(a) = Len(s) + m
      /\ \A i \in 1 .. Len(s) + m : a[i] = (s \o t)[i]
  BY <1>1, <1>2, PrefixOf
<1>4. /\ SubSeq(t, 1, m) \in Seq(S) /\ Len(SubSeq(t, 1, m)) = m
      /\ \A i \in 1 .. m : SubSeq(t, 1, m)[i] = t[i]
  BY PrefixOf
<1>5. /\ b \in Seq(S) /\ Len(b) = Len(s) + m
      /\ \A i \in 1 .. Len(s) + m :
           b[i] = IF i <= Len(s) THEN s[i] ELSE SubSeq(t, 1, m)[i - Len(s)]
  BY <1>4, ConcatProperties
<1>6. ASSUME NEW i \in 1 .. Len(s) + m
      PROVE  a[i] = b[i]
  <2>1. (s \o t)[i] = IF i <= Len(s) THEN s[i] ELSE t[i - Len(s)]
    BY <1>2, ConcatProperties
  <2>2. i > Len(s) => SubSeq(t, 1, m)[i - Len(s)] = t[i - Len(s)]
    BY <1>2, <1>4
  <2> HIDE DEF a, b
  <2> QED BY <1>3, <1>5, <2>1, <2>2
<1> HIDE DEF a, b
<1>7. a = b
  BY <1>3, <1>5, <1>6, SeqEqual
<1> QED BY <1>7 DEF a, b

\* The same for a prefix within the first part.
LEMMA PrefixWithin ==
  ASSUME NEW S, NEW s \in Seq(S), NEW t \in Seq(S), NEW m \in 0 .. Len(s)
  PROVE  SubSeq(s \o t, 1, m) = SubSeq(s, 1, m)
<1>1. CASE m = 0
  BY <1>1, SubSeqEmpty
<1>2. CASE m # 0
  <2>1. Len(s) \in Nat
    BY LenProperties
  <2> QED BY <1>2, <2>1, SubSeqOfConcat1
<1> QED BY <1>1, <1>2

\* Concatenation is associative.
LEMMA Associative ==
  ASSUME NEW S, NEW s \in Seq(S), NEW t \in Seq(S), NEW u \in Seq(S)
  PROVE  s \o (t \o u) = (s \o t) \o u
  BY ConcatAssociative

\* Greedy continuations of greedy answers are greedy.
LEMMA GreedyExtends ==
  ASSUME NEW p \in Seq(Tokens), NEW o \in Seq(Tokens), NEW q \in Seq(Tokens),
         Greedy(p, o),
         \A j \in 1 .. Len(q) : q[j] = TargetNext((p \o o) \o SubSeq(q, 1, j - 1))
  PROVE  Greedy(p, o \o q)
<1>1. Len(o) \in Nat /\ Len(q) \in Nat /\ Len(o \o q) = Len(o) + Len(q)
  BY LenProperties, ConcatProperties
<1>2. ASSUME NEW u \in Seq(Tokens) PROVE p \o (o \o u) = (p \o o) \o u
  BY Associative
<1>3. ASSUME NEW i \in 1 .. Len(o) + Len(q)
      PROVE  (o \o q)[i] = TargetNext(p \o SubSeq(o \o q, 1, i - 1))
  <2>0. (o \o q)[i] = IF i <= Len(o) THEN o[i] ELSE q[i - Len(o)]
    BY ConcatProperties
  <2>1. CASE i <= Len(o)
    <3>1. i - 1 \in 0 .. Len(o) /\ i \in 1 .. Len(o)
      BY <1>1, <2>1
    <3>2. SubSeq(o \o q, 1, i - 1) = SubSeq(o, 1, i - 1)
      BY <3>1, PrefixWithin
    <3> QED BY <2>0, <2>1, <3>1, <3>2 DEF Greedy
  <2>2. CASE i > Len(o)
    <3> DEFINE j == i - Len(o)
    <3>1. j \in 1 .. Len(q) /\ j - 1 \in 0 .. Len(q) /\ i - 1 = Len(o) + (j - 1)
      BY <1>1, <2>2
    <3>2. SubSeq(o \o q, 1, i - 1) = o \o SubSeq(q, 1, j - 1)
      BY <3>1, PrefixOfConcat
    <3>3. SubSeq(q, 1, j - 1) \in Seq(Tokens)
      BY <3>1, PrefixOf
    <3>4. p \o (o \o SubSeq(q, 1, j - 1)) = (p \o o) \o SubSeq(q, 1, j - 1)
      BY <3>3, <1>2
    <3>5. (o \o q)[i] = q[j]
      BY <2>0, <2>2, <1>1
    <3> QED BY <3>1, <3>2, <3>4, <3>5
  <2> QED BY <1>1, <2>1, <2>2
<1> QED BY <1>1, <1>3 DEF Greedy

(***************************************************************************)
(* The inductive invariant.                                                *)
(***************************************************************************)
\* The prompt and the answer so far.
Context == prompt \o out

\* What each cache and each logit stands for, at each place.
PrefillOK ==
  specAt = "prefill" =>
    /\ targetKv = SubSeq(prompt, 1, prefilled) /\ draftKv = targetKv
    /\ out = <<>> /\ kvBase = Len(prompt) + 1
LogitsOK == specAt \in {"round", "verify", "accept"} => prevLogits = TargetNext(Context)
ProposedOK == specAt \in {"verify", "accept"} => Len(proposals) = NDraft
RoundOK ==
  /\ specAt \in {"round", "verify"} => targetKv = Context
  /\ specAt \in {"verify", "accept"} => draftKv = Context \o proposals
  /\ specAt \in {"verify", "accept"} => Len(out) < maxTokens
  /\ specAt = "accept" => targetKv = Context \o proposals
  /\ specAt \in {"round", "verify", "accept"} => kvBase = Len(prompt) + Len(out)
VerifiedOK ==
  specAt = "accept" =>
    /\ Len(verified) = NDraft
    /\ \A i \in 1 .. NDraft : verified[i] = TargetNext(Context \o SubSeq(proposals, 1, i))
EmitOK ==
  specAt = "emit" /\ Len(out) < maxTokens =>
    /\ targetKv = Append(Context, tok) /\ draftKv = Context
    /\ kvBase = Len(prompt) + Len(out) + 1
    /\ prevLogits = TargetNext(targetKv)
    /\ prompt # <<>> => tok = TargetNext(Context)

SpecInv ==
  /\ SpecTypeOK /\ PrefillOK /\ LogitsOK /\ ProposedOK /\ RoundOK /\ VerifiedOK /\ EmitOK
  /\ specAt = "round" => draftKv = Context
  /\ TokensAreGreedy
\* No request yet.
LEMMA SpecInitInv == SpecInit => SpecInv
  BY TokenZeroAssumption
  DEF SpecInit, SpecInv, SpecTypeOK, PrefillOK, LogitsOK, ProposedOK, RoundOK, VerifiedOK, EmitOK,
      TokensAreGreedy, Greedy

(***************************************************************************)
(* Every step preserves it.                                                *)
(***************************************************************************)
LEMMA BeginRequestStep == SpecInv /\ BeginRequest => SpecInv'
<1> SUFFICES ASSUME SpecInv, BeginRequest PROVE SpecInv'
  OBVIOUS
<1>1. prompt' \in Seq(Tokens) /\ Len(prompt') \in Nat
  BY DEF BeginRequest
<1>2. SpecTypeOK'
  BY <1>1 DEF SpecInv, SpecTypeOK, BeginRequest, roundVars
<1>3. PrefillOK'
  <2>1. SubSeq(prompt', 1, 0) = <<>>
    BY SubSeqEmpty
  <2> QED BY <2>1 DEF PrefillOK, BeginRequest
<1>4. TokensAreGreedy'
  BY DEF TokensAreGreedy, Greedy, BeginRequest
<1>5. specAt' = "prefill"
  BY DEF BeginRequest
<1> QED BY <1>2, <1>3, <1>4, <1>5
    DEF SpecInv, LogitsOK, ProposedOK, RoundOK, VerifiedOK, EmitOK

\* Both caches hold the same part of the prompt.
LEMMA PrefillStep == SpecInv /\ Prefill => SpecInv'
<1> SUFFICES ASSUME SpecInv, Prefill PROVE SpecInv'
  OBVIOUS
<1>1. /\ prompt \in Seq(Tokens) /\ Len(prompt) \in Nat /\ prefilled \in Nat
      /\ prefilled + 1 \in 1 .. Len(prompt)
  BY DEF SpecInv, SpecTypeOK, Prefill
<1>2. prompt[prefilled + 1] \in Tokens
  BY <1>1
<1>3. SpecTypeOK'
  BY <1>1, <1>2 DEF SpecInv, SpecTypeOK, Prefill, roundVars
<1>4. PrefillOK'
  <2>1. SubSeq(prompt, 1, prefilled + 1) = SubSeq(prompt, 1, prefilled) \o <<prompt[prefilled + 1]>>
    <3>1. 1 \in 1 .. Len(prompt) /\ prefilled + 1 \in 1 .. Len(prompt)
          /\ (prefilled + 1) - 1 = prefilled
      BY <1>1
    <3> QED BY <1>1, <3>1, SubSeqRecursiveSecond
  <2>2. SubSeq(prompt, 1, prefilled) \in Seq(Tokens)
    BY <1>1, PrefixOf
  <2>3. Append(SubSeq(prompt, 1, prefilled), prompt[prefilled + 1])
          = SubSeq(prompt, 1, prefilled) \o <<prompt[prefilled + 1]>>
    BY <1>2, <2>2, AppendIsConcat
  <2> QED BY <2>1, <2>3 DEF SpecInv, PrefillOK, Prefill
<1>5. TokensAreGreedy' /\ specAt' = "prefill"
  BY DEF SpecInv, TokensAreGreedy, Greedy, Prefill
<1> QED BY <1>3, <1>4, <1>5
    DEF SpecInv, LogitsOK, ProposedOK, RoundOK, VerifiedOK, EmitOK

\* The first token is the target's choice after the prompt, and is in both caches.
LEMMA FirstTokenStep ==
  ASSUME TargetChoosesTokens
  PROVE  SpecInv /\ FirstToken => SpecInv'
<1> SUFFICES ASSUME SpecInv, FirstToken PROVE SpecInv'
  OBVIOUS
<1> DEFINE first == ArgMax(TargetNext(targetKv))
<1>1. /\ prompt \in Seq(Tokens) /\ Len(prompt) \in Nat /\ out = <<>>
      /\ targetKv = prompt /\ draftKv = prompt /\ kvBase = Len(prompt) + 1
  <2>1. prompt \in Seq(Tokens) /\ SubSeq(prompt, 1, Len(prompt)) = prompt
    BY SubSeqFull DEF SpecInv, SpecTypeOK
  <2> QED BY <2>1 DEF SpecInv, FirstToken, PrefillOK
<1>2. first \in Tokens
  BY <1>1, TokenZeroAssumption DEF ArgMax, TargetChoosesTokens
<1>3. /\ targetKv' = Append(prompt, first) /\ draftKv' = Append(prompt, first)
      /\ out' = <<first>> /\ prevLogits' = TargetNext(targetKv')
      /\ specAt' = "round" /\ prompt' = prompt /\ kvBase' = kvBase
  BY <1>1 DEF FirstToken
<1> HIDE DEF first
<1>4. out' \in Seq(Tokens) /\ Len(out') = 1 /\ targetKv' \in Seq(Tokens)
  BY <1>1, <1>2, <1>3
<1>5. Append(prompt, first) = prompt \o <<first>>
  BY <1>1, <1>2, AppendIsConcat
<1>6. SpecTypeOK'
  <2>1. prevLogits' \in Tokens
    BY <1>3, <1>4 DEF TargetChoosesTokens
  <2> QED BY <1>1, <1>2, <1>3, <1>4, <2>1 DEF SpecInv, SpecTypeOK, FirstToken
<1>7. PrefillOK' /\ LogitsOK' /\ ProposedOK' /\ RoundOK' /\ VerifiedOK' /\ EmitOK'
      /\ draftKv' = Context'
  BY <1>1, <1>3, <1>4, <1>5
  DEF PrefillOK, LogitsOK, ProposedOK, RoundOK, VerifiedOK, EmitOK, Context
<1>8. TokensAreGreedy'
  <2>1. prompt # <<>> => first = TargetNext(prompt)
    BY <1>1 DEF first, ArgMax
  <2>2. prompt \o <<>> = prompt
    BY <1>1, ConcatEmptySeq
  <2>3. prompt # <<>> => Greedy(prompt, out')
    <3> SUFFICES ASSUME prompt # <<>>, NEW i \in 1 .. Len(out')
                 PROVE  out'[i] = TargetNext(prompt \o SubSeq(out', 1, i - 1))
      BY DEF Greedy
    <3>1. i = 1 /\ i - 1 \in Int /\ i - 1 < 1
      BY <1>4
    <3>2. SubSeq(out', 1, i - 1) = <<>>
      BY <3>1, SubSeqEmpty
    <3>3. out'[i] = first
      BY <1>3, <3>1
    <3> QED BY <2>1, <2>2, <3>2, <3>3
  <2>4. Len(out') <= maxTokens'
    BY <1>4 DEF SpecInv, SpecTypeOK, FirstToken
  <2> QED BY <1>3, <2>3, <2>4 DEF TokensAreGreedy
<1> QED BY <1>3, <1>6, <1>7, <1>8 DEF SpecInv

\* Context is a sequence of tokens.
LEMMA ContextIsSeq ==
  ASSUME SpecInv
  PROVE  Context \in Seq(Tokens) /\ Len(Context) = Len(prompt) + Len(out)
         /\ Len(prompt) \in Nat /\ Len(out) \in Nat
  BY ConcatProperties, LenProperties DEF SpecInv, SpecTypeOK, Context

\* More tokens after the answer are more tokens after the context.
LEMMA ContextAndMore ==
  ASSUME SpecInv, NEW u \in Seq(Tokens)
  PROVE  prompt \o (out \o u) = Context \o u
<1>1. prompt \in Seq(Tokens) /\ out \in Seq(Tokens)
  BY DEF SpecInv, SpecTypeOK
<1> QED BY <1>1, Associative DEF Context

\* The draft runs ahead by its proposals.
LEMMA ProposeStep == SpecInv /\ Propose => SpecInv'
<1> SUFFICES ASSUME SpecInv, Propose PROVE SpecInv'
  OBVIOUS
<1>1. proposals' \in Seq(Tokens) /\ Len(proposals') = NDraft
  BY NDraftAssumption DEF Propose
<1>2. draftKv = Context /\ draftKv' = Context \o proposals'
  BY DEF SpecInv, Propose
<1>3. draftKv' \in Seq(Tokens)
  BY <1>1, <1>2, ContextIsSeq, ConcatProperties
<1>4. SpecTypeOK'
  BY <1>1, <1>3 DEF SpecInv, SpecTypeOK, Propose
<1>5. specAt' = "verify" /\ Context' = Context
  BY DEF Propose, Context
<1>6. PrefillOK' /\ LogitsOK' /\ ProposedOK' /\ RoundOK' /\ VerifiedOK' /\ EmitOK'
  BY <1>1, <1>2, <1>5
  DEF SpecInv, PrefillOK, LogitsOK, ProposedOK, RoundOK, VerifiedOK, EmitOK, Propose
<1>7. TokensAreGreedy'
  BY DEF SpecInv, TokensAreGreedy, Greedy, Propose
<1> QED BY <1>4, <1>5, <1>6, <1>7 DEF SpecInv

\* The target's cache holds the proposals too; verified choice i is the one after proposal i.
LEMMA VerifyBatchStep ==
  ASSUME TargetChoosesTokens
  PROVE  SpecInv /\ VerifyBatch => SpecInv'
<1> SUFFICES ASSUME SpecInv, VerifyBatch PROVE SpecInv'
  OBVIOUS
<1>1. proposals \in Seq(Tokens) /\ Len(proposals) = NDraft /\ targetKv = Context
  BY DEF SpecInv, SpecTypeOK, ProposedOK, RoundOK, VerifyBatch
<1>2. targetKv' = Context \o proposals /\ targetKv' \in Seq(Tokens)
  BY <1>1, ContextIsSeq, ConcatProperties DEF VerifyBatch
<1>3. \A i \in 1 .. NDraft : verified'[i] = TargetNext(Context \o SubSeq(proposals, 1, i))
  BY <1>1 DEF VerifyBatch
<1>4. verified' \in Seq(Tokens) /\ Len(verified') = NDraft
  <2>1. ASSUME NEW i \in 1 .. NDraft
        PROVE  TargetNext(targetKv \o SubSeq(proposals, 1, i)) \in Tokens
    <3>1. i \in 0 .. Len(proposals)
      BY <1>1, NDraftAssumption
    <3>2. SubSeq(proposals, 1, i) \in Seq(Tokens)
      BY <1>1, <3>1, PrefixOf
    <3>3. targetKv \o SubSeq(proposals, 1, i) \in Seq(Tokens)
      BY <1>1, <3>2, ContextIsSeq, ConcatProperties
    <3> QED BY <3>3 DEF TargetChoosesTokens
  <2>2. verified' \in [1 .. NDraft -> Tokens]
    BY <2>1 DEF VerifyBatch
  <2> QED BY <2>2, NDraftAssumption
<1>5. SpecTypeOK'
  BY <1>2, <1>4 DEF SpecInv, SpecTypeOK, VerifyBatch
<1>6. specAt' = "accept" /\ Context' = Context
  BY DEF VerifyBatch, Context
<1>7. PrefillOK' /\ LogitsOK' /\ ProposedOK' /\ RoundOK' /\ VerifiedOK' /\ EmitOK'
  BY <1>1, <1>2, <1>3, <1>4, <1>6
  DEF SpecInv, PrefillOK, LogitsOK, ProposedOK, RoundOK, VerifiedOK, EmitOK, VerifyBatch
<1>8. TokensAreGreedy'
  BY DEF SpecInv, TokensAreGreedy, Greedy, VerifyBatch
<1> QED BY <1>5, <1>6, <1>7, <1>8 DEF SpecInv

\* What the target chooses at the position of each proposal.
LEMMA Choices ==
  ASSUME TargetChoosesTokens, SpecInv, specAt = "accept", NEW i \in 1 .. NDraft + 1
  PROVE  /\ Choice(i) \in Tokens
         /\ prompt # <<>> => Choice(i) = TargetNext(Context \o SubSeq(proposals, 1, i - 1))
<1> DEFINE c == IF i = 1 THEN prevLogits ELSE verified[i - 1]
<1>1. c = TargetNext(Context \o SubSeq(proposals, 1, i - 1)) /\ c \in Tokens
  <2>1. CASE i = 1
    <3>1. i - 1 \in Int /\ i - 1 < 1
      BY <2>1
    <3>2. SubSeq(proposals, 1, i - 1) = <<>>
      BY <3>1, SubSeqEmpty
    <3>3. Context \o <<>> = Context
      BY ContextIsSeq, ConcatEmptySeq
    <3> QED BY <2>1, <3>2, <3>3 DEF SpecInv, SpecTypeOK, LogitsOK
  <2>2. CASE i # 1
    <3>1. i - 1 \in 1 .. NDraft
      BY <2>2, NDraftAssumption
    <3>2. Len(verified) = NDraft /\ verified \in Seq(Tokens)
      BY DEF SpecInv, SpecTypeOK, VerifiedOK
    <3>3. verified[i - 1] \in Tokens
      BY <3>1, <3>2
    <3> QED BY <2>2, <3>1, <3>3 DEF SpecInv, VerifiedOK
  <2> QED BY <2>1, <2>2
<1>2. Choice(i) = ArgMax(c)
  BY DEF Choice
<1> HIDE DEF c
<1> QED BY <1>1, <1>2, TokenZeroAssumption DEF ArgMax

\* What is emitted of the accepted proposals.
LEMMA Accepted ==
  ASSUME TargetChoosesTokens, SpecInv, specAt = "accept", NEW n \in 0 .. NDraft,
         IsAccepted(n), EmitAccepted(n), prompt' = prompt, maxTokens' = maxTokens
  PROVE  /\ out' \in Seq(Tokens) /\ Len(out') <= maxTokens
         /\ prompt # <<>> => Greedy(prompt, out')
         /\ Len(out') < maxTokens =>
              Len(out') = Len(out) + n /\ Context' = Context \o SubSeq(proposals, 1, n)
<1> DEFINE room == maxTokens - Len(out)
           k == IF n < room THEN n ELSE room
           q == SubSeq(proposals, 1, k)
<1>1. /\ out \in Seq(Tokens) /\ Len(out) \in Nat /\ maxTokens \in Nat /\ Len(out) < maxTokens
      /\ proposals \in Seq(Tokens) /\ Len(proposals) = NDraft /\ prompt \in Seq(Tokens)
  BY LenProperties DEF SpecInv, SpecTypeOK, ProposedOK, RoundOK
<1>2. k \in 0 .. NDraft /\ k <= n /\ Len(out) + k <= maxTokens
      /\ (Len(out) + k < maxTokens => k = n)
  BY <1>1, NDraftAssumption
<1>3. out' = out \o q
  BY DEF EmitAccepted
<1> HIDE DEF k
<1>4. q \in Seq(Tokens) /\ Len(q) = k /\ \A j \in 1 .. k : q[j] = proposals[j]
  BY <1>1, <1>2, PrefixOf
<1>5. out' \in Seq(Tokens) /\ Len(out') = Len(out) + k
  BY <1>1, <1>3, <1>4, ConcatProperties
<1>6. prompt # <<>> => Greedy(prompt, out')
  <2> SUFFICES ASSUME prompt # <<>> PROVE Greedy(prompt, out')
    OBVIOUS
  <2>1. Greedy(prompt, out)
    BY DEF SpecInv, TokensAreGreedy
  <2>2. ASSUME NEW j \in 1 .. Len(q)
        PROVE  q[j] = TargetNext((prompt \o out) \o SubSeq(q, 1, j - 1))
    <3>1. j \in 1 .. n /\ j \in 1 .. NDraft + 1 /\ j \in 1 .. k
      BY <1>2, <1>4, NDraftAssumption
    <3>2. q[j] = Choice(j)
      BY <1>4, <3>1 DEF IsAccepted
    <3>3. Choice(j) = TargetNext(Context \o SubSeq(proposals, 1, j - 1))
      BY <3>1, Choices
    <3>4. SubSeq(q, 1, j - 1) = SubSeq(proposals, 1, j - 1)
      <4>1. k \in 0 .. Len(proposals) /\ j - 1 \in 0 .. k
        BY <1>1, <1>2, <3>1
      <4> QED BY <1>1, <4>1, PrefixOfPrefix
    <3> HIDE DEF q
    <3> QED BY <3>2, <3>3, <3>4 DEF Context
  <2> HIDE DEF q
  <2> QED BY <1>1, <1>3, <1>4, <2>1, <2>2, GreedyExtends
<1>7. Len(out') < maxTokens => Context' = Context \o SubSeq(proposals, 1, n)
  <2> SUFFICES ASSUME Len(out') < maxTokens PROVE Context' = Context \o SubSeq(proposals, 1, n)
    OBVIOUS
  <2>1. k = n
    BY <1>2, <1>5
  <2>2. Context' = prompt \o (out \o q)
    BY <1>3 DEF Context
  <2>3. prompt \o (out \o q) = Context \o q
    <3> HIDE DEF q
    <3> QED BY <1>4, ContextAndMore
  <2> QED BY <2>1, <2>2, <2>3
<1> QED BY <1>1, <1>2, <1>5, <1>6, <1>7

\* All proposals were the target's choices, and so is the token after them.
LEMMA AcceptAllStep ==
  ASSUME TargetChoosesTokens
  PROVE  SpecInv /\ AcceptAll => SpecInv'
<1> SUFFICES ASSUME SpecInv, AcceptAll PROVE SpecInv'
  OBVIOUS
<1>1. /\ proposals \in Seq(Tokens) /\ Len(proposals) = NDraft
      /\ targetKv = Context \o proposals /\ draftKv = Context \o proposals
      /\ kvBase = Len(prompt) + Len(out)
  BY DEF SpecInv, SpecTypeOK, ProposedOK, RoundOK, AcceptAll
<1>2. NDraft \in 0 .. NDraft /\ NDraft + 1 \in 1 .. NDraft + 1 /\ (NDraft + 1) - 1 = NDraft
  BY NDraftAssumption
<1>3. /\ out' \in Seq(Tokens) /\ Len(out') <= maxTokens
      /\ prompt # <<>> => Greedy(prompt, out')
      /\ Len(out') < maxTokens =>
           Len(out') = Len(out) + NDraft /\ Context' = Context \o SubSeq(proposals, 1, NDraft)
  BY <1>2, Accepted DEF AcceptAll
<1>4. SubSeq(proposals, 1, NDraft) = proposals
  BY <1>1, SubSeqFull
<1>5. /\ tok' \in Tokens
      /\ prompt # <<>> => tok' = TargetNext(Context \o proposals)
  <2>1. tok' = Choice(NDraft + 1)
    BY DEF AcceptAll
  <2> QED BY <1>2, <1>4, <2>1, Choices DEF AcceptAll
<1>6. /\ targetKv' = Append(Context \o proposals, tok') /\ targetKv' \in Seq(Tokens)
      /\ prevLogits' = TargetNext(targetKv') /\ prevLogits' \in Tokens
  <2>1. Context \o proposals \in Seq(Tokens)
    BY <1>1, ContextIsSeq, ConcatProperties
  <2>2. targetKv' = Append(Context \o proposals, tok') /\ prevLogits' = TargetNext(targetKv')
    BY <1>1 DEF AcceptAll
  <2>3. targetKv' \in Seq(Tokens)
    BY <1>5, <2>1, <2>2, AppendProperties
  <2> QED BY <2>2, <2>3 DEF TargetChoosesTokens
<1>7. SpecTypeOK'
  BY <1>3, <1>5, <1>6, NDraftAssumption DEF SpecInv, SpecTypeOK, AcceptAll
<1>8. specAt' = "emit" /\ prompt' = prompt /\ maxTokens' = maxTokens /\ draftKv' = draftKv
      /\ kvBase' = kvBase + NDraft + 1
  BY DEF AcceptAll
<1>9. EmitOK'
  <2> SUFFICES ASSUME Len(out') < maxTokens
               PROVE  /\ targetKv' = Append(Context', tok') /\ draftKv' = Context'
                      /\ kvBase' = Len(prompt) + Len(out') + 1
                      /\ prevLogits' = TargetNext(targetKv')
                      /\ prompt # <<>> => tok' = TargetNext(Context')
    BY <1>8 DEF EmitOK
  <2>1. Context' = Context \o proposals /\ Len(out') = Len(out) + NDraft
    BY <1>3, <1>4
  <2>2. kvBase' = Len(prompt) + Len(out') + 1
    BY <1>1, <1>8, <2>1, ContextIsSeq, NDraftAssumption
  <2> QED BY <1>1, <1>5, <1>6, <1>8, <2>1, <2>2
<1>10. TokensAreGreedy'
  BY <1>3, <1>8 DEF TokensAreGreedy
<1> QED BY <1>7, <1>8, <1>9, <1>10
    DEF SpecInv, PrefillOK, LogitsOK, ProposedOK, RoundOK, VerifiedOK

\* The caches are cut after the accepted proposals; the target's choice replaces the next.
LEMMA RejectStep ==
  ASSUME TargetChoosesTokens
  PROVE  SpecInv /\ Reject => SpecInv'
<1> SUFFICES ASSUME SpecInv, Reject PROVE SpecInv'
  OBVIOUS
<1>1. PICK n \in 0 .. NDraft - 1 :
        /\ IsAccepted(n) /\ EmitAccepted(n)
        /\ tok' = Choice(n + 1)
        /\ targetKv' = Append(Rollback(targetKv, kvBase + n), tok')
        /\ draftKv' = Rollback(draftKv, kvBase + n)
        /\ kvBase' = kvBase + n + 1
  BY DEF Reject
<1>2. /\ proposals \in Seq(Tokens) /\ Len(proposals) = NDraft
      /\ targetKv = Context \o proposals /\ draftKv = Context \o proposals
      /\ kvBase = Len(prompt) + Len(out)
  BY DEF SpecInv, SpecTypeOK, ProposedOK, RoundOK, Reject
<1>3. n \in 0 .. NDraft /\ n + 1 \in 1 .. NDraft + 1 /\ (n + 1) - 1 = n /\ n < NDraft /\ n \in Nat
  BY NDraftAssumption
<1>4. specAt = "accept" /\ specAt' = "emit" /\ prompt' = prompt /\ maxTokens' = maxTokens
      /\ prevLogits' = TargetNext(targetKv')
  BY DEF Reject
<1> DEFINE kept == Context \o SubSeq(proposals, 1, n)
<1>5. /\ out' \in Seq(Tokens) /\ Len(out') <= maxTokens
      /\ prompt # <<>> => Greedy(prompt, out')
      /\ Len(out') < maxTokens => Len(out') = Len(out) + n /\ Context' = kept
  BY <1>1, <1>3, <1>4, Accepted
<1>6. /\ tok' \in Tokens
      /\ prompt # <<>> => tok' = TargetNext(kept)
  BY <1>1, <1>3, <1>4, Choices
<1>7. Rollback(Context \o proposals, kvBase + n) = kept /\ kept \in Seq(Tokens)
  <2>1. /\ Len(Context \o proposals) = Len(Context) + NDraft
        /\ Len(Context) = kvBase /\ Len(Context) \in Nat /\ Context \in Seq(Tokens)
    BY <1>2, ContextIsSeq, ConcatProperties, LenProperties
  <2>2. ~ (kvBase + n >= Len(Context \o proposals))
    BY <1>3, <2>1, NDraftAssumption
  <2>3. n \in 0 .. Len(proposals)
    BY <1>2, <1>3
  <2>4. SubSeq(Context \o proposals, 1, Len(Context) + n) = kept
    BY <1>2, <2>1, <2>3, PrefixOfConcat
  <2>5. kept \in Seq(Tokens)
    BY <1>2, <2>1, <2>3, PrefixOf, ConcatProperties
  <2> HIDE DEF kept
  <2> QED BY <2>1, <2>2, <2>4, <2>5 DEF Rollback
<1> HIDE DEF kept
<1>8. /\ targetKv' = Append(kept, tok') /\ draftKv' = kept
      /\ targetKv' \in Seq(Tokens) /\ prevLogits' \in Tokens
  <2>1. targetKv' = Append(kept, tok') /\ draftKv' = kept
    BY <1>1, <1>2, <1>7
  <2>2. targetKv' \in Seq(Tokens)
    BY <1>6, <1>7, <2>1, AppendProperties
  <2> QED BY <1>4, <2>1, <2>2 DEF TargetChoosesTokens
<1>9. SpecTypeOK'
  <2>1. kvBase' \in Nat
    BY <1>1, <1>3 DEF SpecInv, SpecTypeOK
  <2> QED BY <1>4, <1>5, <1>6, <1>7, <1>8, <2>1 DEF SpecInv, SpecTypeOK, Reject
<1>10. EmitOK'
  <2> SUFFICES ASSUME Len(out') < maxTokens
               PROVE  /\ targetKv' = Append(Context', tok') /\ draftKv' = Context'
                      /\ kvBase' = Len(prompt) + Len(out') + 1
                      /\ prevLogits' = TargetNext(targetKv')
                      /\ prompt # <<>> => tok' = TargetNext(Context')
    BY <1>4 DEF EmitOK
  <2>1. /\ kvBase' = kvBase + n + 1 /\ kvBase = Len(prompt) + Len(out)
        /\ Len(out') = Len(out) + n
    BY <1>1, <1>2, <1>5
  <2>2. Len(prompt) \in Nat /\ Len(out) \in Nat /\ n \in Nat
    BY <1>3, ContextIsSeq
  <2>3. kvBase' = Len(prompt) + Len(out') + 1
    BY <2>1, <2>2
  <2> QED BY <1>4, <1>5, <1>6, <1>8, <2>3
<1>11. TokensAreGreedy'
  BY <1>4, <1>5 DEF TokensAreGreedy
<1> QED BY <1>4, <1>9, <1>10, <1>11
    DEF SpecInv, PrefillOK, LogitsOK, ProposedOK, RoundOK, VerifiedOK

\* The token joins the answer and the draft's cache: all three agree again.
LEMMA EmitChoiceStep == SpecInv /\ EmitChoice => SpecInv'
<1> SUFFICES ASSUME SpecInv, EmitChoice PROVE SpecInv'
  OBVIOUS
<1>1. /\ targetKv = Append(Context, tok) /\ draftKv = Context
      /\ kvBase = Len(prompt) + Len(out) + 1 /\ prevLogits = TargetNext(targetKv)
      /\ prompt # <<>> => tok = TargetNext(Context)
  BY DEF SpecInv, EmitOK, EmitChoice
<1>2. /\ out \in Seq(Tokens) /\ prompt \in Seq(Tokens) /\ tok \in Tokens /\ Len(out) \in Nat
      /\ Len(prompt) \in Nat
  BY LenProperties DEF SpecInv, SpecTypeOK
<1>3. /\ out' = Append(out, tok) /\ out' \in Seq(Tokens) /\ Len(out') = Len(out) + 1
      /\ out' = out \o <<tok>>
  BY <1>2, AppendProperties, AppendIsConcat DEF EmitChoice
<1>4. Context' = Append(Context, tok)
  <2> DEFINE q == <<tok>>
  <2>1. Context' = prompt \o (out \o q)
    BY <1>3 DEF Context, EmitChoice
  <2>2. q \in Seq(Tokens)
    BY <1>2
  <2>3. Append(Context, tok) = Context \o q
    BY <1>2, ContextIsSeq, AppendIsConcat
  <2> HIDE DEF q
  <2>4. prompt \o (out \o q) = Context \o q
    BY <1>2, <2>2, ConcatAssociative DEF Context
  <2> QED BY <2>1, <2>3, <2>4
<1>5. /\ draftKv' = Append(Context, tok) /\ targetKv' = targetKv /\ prompt' = prompt
      /\ kvBase' = kvBase /\ prevLogits' = prevLogits /\ maxTokens' = maxTokens
      /\ specAt' \in {"round", "done"} /\ specAt = "emit"
  BY <1>1 DEF EmitChoice, roundVars
<1>6. SpecTypeOK'
  <2>1. draftKv' \in Seq(Tokens)
    BY <1>2, <1>5, ContextIsSeq, AppendProperties
  <2> QED BY <1>3, <1>5, <2>1 DEF SpecInv, SpecTypeOK, EmitChoice, roundVars
<1>7. TokensAreGreedy'
  <2>1. prompt # <<>> => Greedy(prompt, out \o <<tok>>)
    <3> SUFFICES ASSUME prompt # <<>> PROVE Greedy(prompt, out \o <<tok>>)
      OBVIOUS
    <3> DEFINE q == <<tok>>
    <3>1. q \in Seq(Tokens) /\ Len(q) = 1 /\ q[1] = tok
      BY <1>2
    <3>2. ASSUME NEW j \in 1 .. Len(q)
          PROVE  q[j] = TargetNext((prompt \o out) \o SubSeq(q, 1, j - 1))
      <4>1. j = 1 /\ j - 1 \in Int /\ j - 1 < 1
        BY <3>1
      <4>2. SubSeq(q, 1, j - 1) = <<>>
        BY <4>1, SubSeqEmpty
      <4>3. Context \o <<>> = Context
        BY ContextIsSeq, ConcatEmptySeq
      <4> HIDE DEF q
      <4> QED BY <1>1, <3>1, <4>1, <4>2, <4>3 DEF Context
    <3>3. Greedy(prompt, out)
      BY DEF SpecInv, TokensAreGreedy
    <3> HIDE DEF q
    <3>4. Greedy(prompt, out \o q)
      BY <1>2, <3>1, <3>2, <3>3, GreedyExtends
    <3> QED BY <3>4 DEF q
  <2>2. Len(out') <= maxTokens
    BY <1>2, <1>3 DEF EmitChoice, SpecInv, SpecTypeOK
  <2> QED BY <1>3, <1>5, <2>1, <2>2 DEF TokensAreGreedy
<1>8. kvBase' = Len(prompt) + Len(out')
  BY <1>1, <1>2, <1>3, <1>5
<1>9. LogitsOK' /\ RoundOK' /\ (specAt' = "round" => draftKv' = Context')
  BY <1>1, <1>4, <1>5, <1>8 DEF LogitsOK, RoundOK
<1> QED BY <1>5, <1>6, <1>7, <1>9 DEF SpecInv, PrefillOK, ProposedOK, VerifiedOK, EmitOK

\* The ways out of a round keep the answer or forget it.
LEMMA EndSteps == SpecInv /\ (StopRound \/ SpecFails \/ EndRequest) => SpecInv'
<1> SUFFICES ASSUME SpecInv, StopRound \/ SpecFails \/ EndRequest PROVE SpecInv'
  OBVIOUS
<1>1. specAt' \in {"done", "fallback", "free"}
  BY DEF StopRound, SpecFails, EndRequest
<1>2. SpecTypeOK'
  <2>1. CASE StopRound
    BY <2>1 DEF StopRound, SpecInv, SpecTypeOK, cacheVars, roundVars
  <2>2. CASE SpecFails
    BY <2>2 DEF SpecFails, SpecInv, SpecTypeOK, roundVars
  <2>3. CASE EndRequest
    BY <2>3, TokenZeroAssumption DEF EndRequest, SpecInv, SpecTypeOK
  <2> QED BY <2>1, <2>2, <2>3
<1>3. TokensAreGreedy'
  <2>1. CASE StopRound \/ SpecFails
    BY <2>1 DEF StopRound, SpecFails, SpecInv, TokensAreGreedy, Greedy
  <2>2. CASE EndRequest
    BY <2>2 DEF EndRequest, TokensAreGreedy, Greedy
  <2> QED BY <2>1, <2>2
<1> QED BY <1>1, <1>2, <1>3
    DEF SpecInv, PrefillOK, LogitsOK, ProposedOK, RoundOK, VerifiedOK, EmitOK

\* The invariant looks at the variables of the request only.
LEMMA SpecStutter == SpecInv /\ UNCHANGED specVars => SpecInv'
  BY DEF specVars, cacheVars, roundVars, SpecInv, SpecTypeOK, PrefillOK, LogitsOK, ProposedOK,
         RoundOK, VerifiedOK, EmitOK, TokensAreGreedy, Greedy, Context

\* The invariant holds in every run.
THEOREM SpecInvariant ==
  ASSUME TargetChoosesTokens
  PROVE  SpecSpec => []SpecInv
<1>1. SpecInv /\ [SpecNext]_specVars => SpecInv'
  <2> SUFFICES ASSUME SpecInv, [SpecNext]_specVars PROVE SpecInv'
    OBVIOUS
  <2>1. CASE UNCHANGED specVars
    BY <2>1, SpecStutter
  <2>2. CASE SpecNext
    BY <2>2, BeginRequestStep, PrefillStep, FirstTokenStep, ProposeStep, VerifyBatchStep,
       AcceptAllStep, RejectStep, EmitChoiceStep, EndSteps DEF SpecNext
  <2> QED BY <2>1, <2>2
<1> QED BY <1>1, SpecInitInv, PTL DEF SpecSpec

\* Types, for every vocabulary, target and draft.
THEOREM SpecTypeCorrect ==
  ASSUME TargetChoosesTokens
  PROVE  SpecSpec => []SpecTypeOK
<1>1. SpecInv => SpecTypeOK
  BY DEF SpecInv
<1> QED BY <1>1, SpecInvariant, PTL

\* After any number of rounds, of any mix of accepted and rejected proposals, the draft's
\* and the target's caches hold the prompt and the answer when the next round starts.
THEOREM SpecCachesAgree ==
  ASSUME TargetChoosesTokens
  PROVE  SpecSpec => []CachesAgree
<1>1. SpecInv => CachesAgree
  BY DEF SpecInv, RoundOK, CachesAgree, Context
<1> QED BY <1>1, SpecInvariant, PTL

\* Speculative decoding never emits a token that the target would not have chosen.
THEOREM SpecTokensAreGreedy ==
  ASSUME TargetChoosesTokens
  PROVE  SpecSpec => []TokensAreGreedy
<1>1. SpecInv => TokensAreGreedy
  BY DEF SpecInv
<1> QED BY <1>1, SpecInvariant, PTL

-----------------------------------------------------------------------------
(***************************************************************************)
(* The calls to the NPU worker.                                            *)
(***************************************************************************)
ResetRequest == [op |-> 31, tok |-> None, try |-> 0]
TokenRequest == [op |-> 32, tok |-> <<session, fed + 1>>, try |-> tries]

\* The first n tokens of the session.
Own(n) == [k \in 1 .. n |-> <<session, k>>]

(***************************************************************************)
(* The inductive invariant.                                                *)
(***************************************************************************)
\* What the call in progress asks for.
CallOK ==
  /\ callAt # "idle" => open
  /\ open => tries < MaxTries /\ session # 0
  /\ callAt # "returned" => result = None
  /\ callAt = "ensured" => fed < MaxPos
  /\ callAt \in {"reading", "returned"} =>
       \/ req = ResetRequest /\ fed = 0
       \/ req = TokenRequest /\ fed < MaxPos

\* There is a process exactly when the backend thinks so; it is there in a call, and is
\* gone in the middle of a session only if it was released.
ProcessOK ==
  /\ worker = "absent" <=> ~workerReady
  /\ callAt \in {"ensured", "reading"} => workerReady
  /\ callAt = "returned" /\ result # None => workerReady \/ released
  /\ open /\ ~workerReady /\ ~released => fed = 0

\* The one reply in the pipe.
Reply == fromChild[1]
Answered == toChild = <<>> /\ fromChild # <<>> /\ fromChild = <<Reply>> /\ Reply.to = req
Asked == toChild = <<req>> /\ fromChild = <<>>
Quiet == toChild = <<>> /\ fromChild = <<>>

\* As long as no read gave up there is at most one request or reply in the pipes, that of
\* the call which is reading.
PipesOK ==
  ~gaveUp =>
    /\ callAt # "reading" => Quiet
    /\ callAt = "reading" => Asked \/ Answered \/ (Quiet /\ worker = "dead")
    /\ Asked /\ callAt = "reading" => worker = "alive"
    /\ callAt = "returned" /\ result # None => result.to = req /\ result.ok

\* What the next token will be computed on top of.
WorkerContext == AfterReset

\* As long as no read gave up and the worker was not released, it is the tokens generated
\* on in the session.
ContextOK ==
  ~gaveUp /\ ~released =>
    /\ worker = "alive" /\ open =>
         /\ callAt \in {"idle", "ensured"} => WorkerContext = Own(fed)
         /\ callAt = "returned" =>
              WorkerContext = Own(IF req.op = 32 /\ result # None THEN fed + 1 ELSE fed)
         /\ callAt = "reading" /\ Asked /\ req.op = 32 => WorkerContext = Own(fed)
         /\ callAt = "reading" /\ Answered =>
              WorkerContext = Own(IF req.op = 32 /\ Reply.ok THEN fed + 1 ELSE fed)
    /\ callAt = "reading" /\ Answered /\ req.op = 32 /\ Reply.ok => Reply.ctx = Own(fed + 1)
    /\ callAt = "returned" /\ result # None /\ req.op = 32 => result.ctx = Own(fed + 1)

WorkerInv == WorkerTypeOK /\ CallOK /\ ProcessOK /\ PipesOK /\ ContextOK

(***************************************************************************)
(* Sequences.                                                              *)
(***************************************************************************)
\* Nothing is fed in a session that begins.
LEMMA OwnNone == Own(0) = <<>>
BY DEF Own

\* Append, by its elements.
LEMMA AppendElements ==
  ASSUME NEW n \in Nat, NEW s, s = [k \in 1 .. n |-> s[k]], NEW e
  PROVE  Append(s, e) = [k \in 1 .. n + 1 |-> IF k = n + 1 THEN e ELSE s[k]]
<1>1. Len(s) = n
  OBVIOUS
<1> QED BY <1>1

\* One more token.
LEMMA OwnNext == ASSUME NEW n \in Nat PROVE Append(Own(n), <<session, n + 1>>) = Own(n + 1)
<1> DEFINE s == Own(n)
           e == <<session, n + 1>>
<1>1. s = [k \in 1 .. n |-> s[k]]
  BY DEF Own
<1>2. Append(s, e) = [k \in 1 .. n + 1 |-> IF k = n + 1 THEN e ELSE s[k]]
  <2> HIDE DEF s, e
  <2> QED BY <1>1, AppendElements
<1>3. [k \in 1 .. n + 1 |-> IF k = n + 1 THEN e ELSE s[k]] = [k \in 1 .. n + 1 |-> <<session, k>>]
  BY DEF Own
<1> QED BY <1>2, <1>3 DEF Own

\* A pipe with one thing in it.
LEMMA OneInPipe ==
  ASSUME NEW x
  PROVE  Head(<<x>>) = x /\ Tail(<<x>>) = <<>> /\ <<x>> # <<>> /\ Append(<<>>, x) = <<x>>
OBVIOUS

\* A reply is not None.
LEMMA RepliesAreSomething == ASSUME NEW r \in Replies PROVE r # None /\ r.ok \in BOOLEAN
BY NoneAssumption DEF Replies

(***************************************************************************)
(* Types.                                                                  *)
(***************************************************************************)
\* The type invariant in four parts.
FlagTypes ==
  /\ workerReady \in BOOLEAN /\ resetNoted \in BOOLEAN /\ open \in BOOLEAN
  /\ gaveUp \in BOOLEAN /\ released \in BOOLEAN
CallTypes ==
  /\ worker \in {"absent", "alive", "dead"}
  /\ callAt \in {"idle", "ensured", "reading", "returned"}
  /\ req \in WorkerRequests \cup {None} /\ result \in Replies \cup {None}
CountTypes == session \in 0 .. MaxSessions /\ fed \in 0 .. MaxPos /\ tries \in 0 .. MaxTries
SequenceTypes ==
  /\ toChild \in Seq(WorkerRequests) /\ fromChild \in Seq(Replies)
  /\ workerKv \in Seq(Tok) /\ gdn \in Seq(Tok)

\* They are the type invariant, before and after a step.
LEMMA TypeParts ==
  /\ WorkerTypeOK <=> FlagTypes /\ CallTypes /\ CountTypes /\ SequenceTypes
  /\ WorkerTypeOK' <=> FlagTypes' /\ CallTypes' /\ CountTypes' /\ SequenceTypes'
<1>1. WorkerTypeOK <=> FlagTypes /\ CallTypes /\ CountTypes /\ SequenceTypes
  BY Zenon DEF WorkerTypeOK, FlagTypes, CallTypes, CountTypes, SequenceTypes
<1>2. WorkerTypeOK' <=> FlagTypes' /\ CallTypes' /\ CountTypes' /\ SequenceTypes'
  BY Zenon DEF WorkerTypeOK, FlagTypes, CallTypes, CountTypes, SequenceTypes
<1> QED BY <1>1, <1>2

\* Append keeps the type of a sequence.
LEMMA AppendType == ASSUME NEW S, NEW s \in Seq(S), NEW e \in S PROVE Append(s, e) \in Seq(S)
OBVIOUS

\* Tail and Head of one that is not empty are of its type.
LEMMA TailType ==
  ASSUME NEW S, NEW s \in Seq(S), s # <<>> PROVE Tail(s) \in Seq(S) /\ Head(s) \in S
OBVIOUS

\* The requests that are made are requests.
LEMMA RequestTypes ==
  ASSUME WorkerTypeOK, CallOK
  PROVE  /\ ResetRequest \in WorkerRequests
         /\ open /\ fed < MaxPos /\ session # 0 => TokenRequest \in WorkerRequests
         /\ session \in Nat /\ fed \in Nat /\ tries \in Nat
BY BoundsAssumption DEF WorkerTypeOK, CallOK, ResetRequest, TokenRequest, WorkerRequests, Tok

\* First state.
LEMMA WorkerInitInv == WorkerInit => WorkerInv
<1> SUFFICES ASSUME WorkerInit PROVE WorkerInv
  OBVIOUS
<1>1. WorkerTypeOK
  <2>1. toChild \in Seq(WorkerRequests) /\ fromChild \in Seq(Replies)
        /\ workerKv \in Seq(Tok) /\ gdn \in Seq(Tok)
    BY DEF WorkerInit
  <2>2. session \in 0 .. MaxSessions /\ fed \in 0 .. MaxPos /\ tries \in 0 .. MaxTries
    BY BoundsAssumption DEF WorkerInit
  <2>3. callAt = "idle" /\ worker = "absent" /\ req = None /\ result = None
    BY DEF WorkerInit
  <2>4. /\ workerReady \in BOOLEAN /\ resetNoted \in BOOLEAN /\ open \in BOOLEAN
        /\ gaveUp \in BOOLEAN /\ released \in BOOLEAN
    BY DEF WorkerInit
  <2> QED BY <2>1, <2>2, <2>3, <2>4 DEF WorkerTypeOK
<1>2. CallOK /\ ProcessOK /\ PipesOK /\ ContextOK
  BY DEF WorkerInit, CallOK, ProcessOK, PipesOK, ContextOK, Quiet, Asked, Answered
<1> QED BY <1>1, <1>2 DEF WorkerInv

(***************************************************************************)
(* Every step preserves it: one lemma per action.                          *)
(***************************************************************************)
\* A call of reset() begins, or there is no worker to reset.
LEMMA OpenSessionStep == WorkerInv /\ OpenSession => WorkerInv'
<1> SUFFICES ASSUME WorkerInv, OpenSession PROVE WorkerInv'
  OBVIOUS
<1>1. /\ session' \in 1 .. MaxSessions /\ session' # 0 /\ fed' = 0 /\ tries' = 0 /\ open' = TRUE
      /\ 0 \in 0 .. MaxPos /\ 0 \in 0 .. MaxTries /\ 0 < MaxTries
      /\ released' = FALSE /\ UNCHANGED <<childVars, gaveUp>>
  BY BoundsAssumption DEF WorkerInv, OpenSession, WorkerTypeOK
<1>2. ResetRequest \in WorkerRequests
  BY RequestTypes DEF WorkerInv
<1>3. FlagTypes /\ CallTypes /\ CountTypes /\ SequenceTypes
  BY TypeParts DEF WorkerInv
<1>4. CountTypes'
  BY <1>1 DEF CountTypes
<1>5. CASE ~workerReady
  <2>1. UNCHANGED <<linkVars, childVars, callAt, req, result, gaveUp>> /\ released' = FALSE
    BY <1>1, <1>5 DEF OpenSession
  <2>2. WorkerTypeOK'
    <3>1. FlagTypes'
      BY <1>1, <1>3, <2>1 DEF FlagTypes, linkVars, childVars
    <3>2. CallTypes' /\ SequenceTypes'
      BY <1>3, <2>1 DEF CallTypes, SequenceTypes, linkVars, childVars
    <3> QED BY <1>4, <3>1, <3>2, TypeParts
  <2> QED
    BY <1>1, <1>5, <2>1, <2>2
    DEF WorkerInv, OpenSession, linkVars, childVars, CallOK, ProcessOK, PipesOK, ContextOK, Quiet
<1>6. CASE workerReady
  <2>1. /\ req' = ResetRequest /\ result' = None
        /\ IF worker = "alive" THEN toChild' = Append(toChild, ResetRequest) /\ callAt' = "reading"
                               ELSE toChild' = toChild /\ callAt' = "returned"
        /\ UNCHANGED <<workerReady, worker, fromChild, childVars, gaveUp>> /\ released' = FALSE
    BY <1>6 DEF OpenSession, Write, ResetRequest
  <2>2. WorkerTypeOK'
    <3>1. SequenceTypes'
      BY <1>2, <1>3, <2>1, AppendType DEF SequenceTypes, childVars
    <3>2. FlagTypes'
      BY <1>1, <1>3, <2>1 DEF FlagTypes, childVars
    <3>3. CallTypes'
      BY <1>2, <1>3, <2>1 DEF CallTypes
    <3> QED BY <1>4, <3>1, <3>2, <3>3, TypeParts
  <2>3. CallOK' /\ ProcessOK'
    BY <1>1, <1>6, <2>1 DEF WorkerInv, OpenSession, CallOK, ProcessOK, ResetRequest
  <2>4. PipesOK'
    BY <1>6, <2>1, OneInPipe DEF WorkerInv, OpenSession, PipesOK, Quiet, Asked, Answered
  <2>5. ContextOK'
    BY <1>6, <2>1, <2>4, OneInPipe
    DEF WorkerInv, OpenSession, PipesOK, ProcessOK, ContextOK, Quiet, Asked, Answered, ResetRequest
  <2> QED BY <2>2, <2>3, <2>4, <2>5 DEF WorkerInv
<1> QED BY <1>5, <1>6

\* The caller lets the session go.
LEMMA EndSessionStep == WorkerInv /\ EndSession => WorkerInv'
<1> SUFFICES ASSUME WorkerInv, EndSession PROVE WorkerInv'
  OBVIOUS
<1> QED
  BY DEF WorkerInv, EndSession, linkVars, childVars, histVars, WorkerTypeOK, CallOK, ProcessOK,
         PipesOK, ContextOK, Quiet, Asked, Answered, Reply, WorkerContext, AfterReset, Own

\* A worker is started if there is none: nothing was fed in this session yet, or it was
\* released.
LEMMA EnsureWorkerStep == WorkerInv /\ EnsureWorker => WorkerInv'
<1> SUFFICES ASSUME WorkerInv, EnsureWorker PROVE WorkerInv'
  OBVIOUS
<1>1. CASE workerReady
  BY <1>1
  DEF WorkerInv, EnsureWorker, linkVars, childVars, callerVars, WorkerTypeOK, CallOK, ProcessOK,
      PipesOK, ContextOK, Quiet, Asked, Answered, Reply, WorkerContext, AfterReset, Own
<1>2. CASE ~workerReady
  <2>1. Spawned /\ callAt' = "ensured" /\ UNCHANGED <<req, result, callerVars, released>>
    BY <1>2 DEF EnsureWorker
  <2>2. WorkerTypeOK'
    <3>1. FlagTypes /\ CallTypes /\ CountTypes /\ SequenceTypes
      BY TypeParts DEF WorkerInv
    <3>2. FlagTypes'
      BY <2>1, <3>1 DEF FlagTypes, Spawned, callerVars
    <3>3. CallTypes' /\ CountTypes' /\ SequenceTypes'
      BY <2>1, <3>1 DEF CallTypes, CountTypes, SequenceTypes, Spawned, callerVars
    <3> QED BY <3>2, <3>3, TypeParts
  <2>3. CallOK' /\ ProcessOK' /\ PipesOK'
    BY <1>2 DEF WorkerInv, EnsureWorker, Spawned, callerVars, CallOK, ProcessOK, PipesOK, Quiet
  <2>4. ~released => fed = 0
    BY <1>2 DEF WorkerInv, EnsureWorker, ProcessOK
  <2>5. WorkerContext' = <<>>
    BY <1>2 DEF EnsureWorker, Spawned, WorkerContext, AfterReset
  <2>6. ContextOK'
    BY <1>2, <2>4, <2>5, OwnNone DEF EnsureWorker, callerVars, ContextOK, Own
  <2> QED BY <2>2, <2>3, <2>6 DEF WorkerInv
<1> QED BY <1>1, <1>2

\* No worker can be started: the call fails.
LEMMA SpawnFailsStep == WorkerInv /\ SpawnFails => WorkerInv'
<1> SUFFICES ASSUME WorkerInv, SpawnFails PROVE WorkerInv'
  OBVIOUS
<1> USE DEF WorkerInv
<1>1. req' = TokenRequest /\ TokenRequest' = TokenRequest /\ TokenRequest \in WorkerRequests
  BY RequestTypes DEF SpawnFails, callerVars, TokenRequest, CallOK
<1>2. WorkerTypeOK'
  BY <1>1 DEF SpawnFails, linkVars, childVars, callerVars, histVars, WorkerTypeOK
<1>3. CallOK' /\ ProcessOK' /\ PipesOK'
  BY <1>1
  DEF SpawnFails, linkVars, childVars, callerVars, histVars, CallOK, ProcessOK, PipesOK, Quiet
<1>4. ContextOK'
  BY DEF SpawnFails, linkVars, childVars, callerVars, histVars, ProcessOK, ContextOK
<1> QED BY <1>2, <1>3, <1>4

\* The request of a token is written, if there is a process to take it.
LEMMA WriteTokenStep == WorkerInv /\ WriteToken => WorkerInv'
<1> SUFFICES ASSUME WorkerInv, WriteToken PROVE WorkerInv'
  OBVIOUS
<1>1. TokenRequest' = TokenRequest /\ TokenRequest \in WorkerRequests /\ TokenRequest.op = 32
  BY RequestTypes DEF WorkerInv, WriteToken, callerVars, TokenRequest, CallOK
<1>2. /\ callAt = "ensured" /\ req' = TokenRequest /\ result' = None
      /\ IF worker = "alive" THEN toChild' = Append(toChild, TokenRequest) /\ callAt' = "reading"
                             ELSE toChild' = toChild /\ callAt' = "returned"
      /\ UNCHANGED <<workerReady, worker, fromChild, childVars, callerVars, histVars>>
  BY DEF WriteToken, Write, TokenRequest
<1>3. WorkerTypeOK'
  <2>1. FlagTypes /\ CallTypes /\ CountTypes /\ SequenceTypes
    BY TypeParts DEF WorkerInv
  <2>2. SequenceTypes'
    BY <1>1, <1>2, <2>1, AppendType DEF SequenceTypes, childVars
  <2>3. FlagTypes' /\ CountTypes'
    BY <1>2, <2>1 DEF FlagTypes, CountTypes, childVars, callerVars, histVars
  <2>4. CallTypes'
    BY <1>1, <1>2, <2>1 DEF CallTypes
  <2> QED BY <2>2, <2>3, <2>4, TypeParts
<1> USE DEF WorkerInv, callerVars, histVars, childVars
<1>4. CallOK' /\ ProcessOK'
  BY <1>1, <1>2 DEF CallOK, ProcessOK
<1>5. PipesOK'
  BY <1>1, <1>2, OneInPipe DEF PipesOK, Quiet, Asked, Answered
<1>6. ContextOK'
  BY <1>1, <1>2, OneInPipe
  DEF PipesOK, ContextOK, Quiet, Asked, Answered, WorkerContext, AfterReset, Own
<1> QED BY <1>3, <1>4, <1>5, <1>6

\* A reply is taken: if no read gave up it is the reply to this call.
LEMMA ReadStep == WorkerInv /\ Read => WorkerInv'
<1> SUFFICES ASSUME WorkerInv, Read PROVE WorkerInv'
  OBVIOUS
<1>1. FlagTypes /\ CallTypes /\ CountTypes /\ SequenceTypes
  BY TypeParts DEF WorkerInv
<1>2. /\ callAt = "reading" /\ fromChild # <<>> /\ callAt' = "returned"
      /\ result' = IF Head(fromChild).ok THEN Head(fromChild) ELSE None
      /\ UNCHANGED <<req, session, open, fed, tries>>
  BY DEF Read, callerVars
<1>3. Head(fromChild) \in Replies /\ Tail(fromChild) \in Seq(Replies)
  BY <1>1, <1>2, TailType DEF SequenceTypes
<1>4. result' \in Replies \cup {None}
  BY <1>2, <1>3
<1>5. (worker' \in {"absent", "alive", "dead"} => CallTypes') /\ CountTypes'
  BY <1>1, <1>2, <1>4 DEF CallTypes, CountTypes
<1>6. ~gaveUp => /\ Answered /\ Head(fromChild) = Reply /\ Tail(fromChild) = <<>>
                 /\ Head(fromChild).to = req
  BY <1>2, OneInPipe DEF WorkerInv, PipesOK, Asked, Answered, Quiet
<1>7. CallOK'
  BY <1>2 DEF WorkerInv, CallOK, ResetRequest, TokenRequest
<1>8. CASE fromChild' = Tail(fromChild) /\ UNCHANGED <<workerReady, worker, toChild, childVars, histVars>>
  <2>1. WorkerTypeOK'
    <3>1. FlagTypes'
      BY <1>1, <1>2, <1>8 DEF FlagTypes, childVars, histVars
    <3>2. CallTypes' /\ CountTypes'
      BY <1>1, <1>5, <1>8 DEF CallTypes
    <3>3. SequenceTypes'
      BY <1>1, <1>3, <1>8 DEF SequenceTypes, childVars
    <3> QED BY <3>1, <3>2, <3>3, TypeParts
  <2>2. ProcessOK'
    BY <1>2, <1>8 DEF WorkerInv, ProcessOK, histVars
  <2>3. PipesOK'
    BY <1>2, <1>6, <1>8 DEF PipesOK, Answered, Quiet, histVars
  <2>4. ContextOK'
    <3> SUFFICES ASSUME ~gaveUp, ~released PROVE ContextOK'
      BY <1>8 DEF ContextOK, histVars
    <3>1. WorkerContext' = WorkerContext
      BY <1>8 DEF WorkerContext, AfterReset, childVars
    <3>2. result' # None <=> Reply.ok
      BY <1>2, <1>3, <1>6, RepliesAreSomething
    <3>3. worker = "alive" /\ open =>
            WorkerContext = Own(IF req.op = 32 /\ Reply.ok THEN fed + 1 ELSE fed)
      BY <1>2, <1>6 DEF WorkerInv, ContextOK
    <3>4. result' # None /\ req.op = 32 => result'.ctx = Own(fed + 1)
      BY <1>2, <1>6, <3>2 DEF WorkerInv, ContextOK
    <3>5. worker' = worker /\ callAt' = "returned" /\ UNCHANGED <<open, req, fed, session>>
      BY <1>2, <1>8
    <3>6. worker' = "alive" /\ open' =>
            WorkerContext' = Own(IF req.op = 32 /\ result' # None THEN fed + 1 ELSE fed)
      BY <3>1, <3>2, <3>3, <3>5
    <3>7. Own(fed + 1)' = Own(fed + 1) /\ Own(fed)' = Own(fed)
      BY <3>5 DEF Own
    <3>8. (Own(IF req.op = 32 /\ result # None THEN fed + 1 ELSE fed))' =
            Own(IF req.op = 32 /\ result' # None THEN fed + 1 ELSE fed)
      BY <3>5 DEF Own
    <3> QED BY <3>4, <3>5, <3>6, <3>7, <3>8 DEF ContextOK
  <2> QED BY <1>7, <2>1, <2>2, <2>3, <2>4 DEF WorkerInv
<1>9. CASE req.op = 32 /\ Head(fromChild).ok /\ ShutDown /\ released' = TRUE /\ UNCHANGED gaveUp
  <2>1. WorkerTypeOK'
    <3>1. FlagTypes'
      BY <1>1, <1>2, <1>9 DEF FlagTypes, ShutDown
    <3>2. CallTypes' /\ CountTypes'
      BY <1>5, <1>9 DEF ShutDown
    <3>3. SequenceTypes'
      BY <1>9 DEF SequenceTypes, ShutDown
    <3> QED BY <3>1, <3>2, <3>3, TypeParts
  <2>2. ProcessOK'
    BY <1>2, <1>9 DEF ProcessOK, ShutDown
  <2>3. PipesOK'
    BY <1>2, <1>6, <1>9 DEF PipesOK, Quiet, ShutDown
  <2>4. ContextOK'
    BY <1>9 DEF ContextOK
  <2> QED BY <1>7, <2>1, <2>2, <2>3, <2>4 DEF WorkerInv
<1> QED BY <1>8, <1>9 DEF Read

\* End of file: the call fails and nothing else changes.
LEMMA ReadEofStep == WorkerInv /\ ReadEof => WorkerInv'
<1> SUFFICES ASSUME WorkerInv, ReadEof PROVE WorkerInv'
  OBVIOUS
<1>1. /\ callAt = "reading" /\ fromChild = <<>> /\ worker = "dead" /\ callAt' = "returned" /\ result = None
      /\ UNCHANGED <<linkVars, childVars, req, result, callerVars, histVars>>
  BY DEF ReadEof, WorkerInv, CallOK
<1> USE DEF linkVars, childVars, callerVars, histVars
<1>2. WorkerTypeOK'
  BY <1>1 DEF WorkerInv, WorkerTypeOK
<1>3. CallOK'
  BY <1>1 DEF WorkerInv, CallOK, ResetRequest, TokenRequest
<1>4. ProcessOK' /\ PipesOK' /\ ContextOK'
  BY <1>1 DEF WorkerInv, ProcessOK, PipesOK, ContextOK, Asked, Answered, Quiet
<1> QED BY <1>2, <1>3, <1>4 DEF WorkerInv

\* A read that gives up takes the guarantees with it.
LEMMA TimeOutStep == WorkerInv /\ TimeOut => WorkerInv'
<1> SUFFICES ASSUME WorkerInv, TimeOut PROVE WorkerInv'
  OBVIOUS
<1>1. /\ callAt = "reading" /\ callAt' = "returned" /\ gaveUp' = TRUE /\ result = None
      /\ UNCHANGED <<linkVars, childVars, req, result, callerVars, released>>
  BY DEF TimeOut, WorkerInv, CallOK
<1> USE DEF linkVars, childVars, callerVars
<1>2. WorkerTypeOK'
  BY <1>1 DEF WorkerInv, WorkerTypeOK
<1>3. CallOK'
  BY <1>1 DEF WorkerInv, CallOK, ResetRequest, TokenRequest
<1>4. ProcessOK' /\ PipesOK' /\ ContextOK'
  BY <1>1 DEF WorkerInv, ProcessOK, PipesOK, ContextOK
<1> QED BY <1>2, <1>3, <1>4 DEF WorkerInv

\* The caller goes on: the token counts as fed exactly if the call returned it.
LEMMA ReturnedStep == WorkerInv /\ Returned => WorkerInv'
<1> SUFFICES ASSUME WorkerInv, Returned PROVE WorkerInv'
  OBVIOUS
<1>1. /\ callAt = "returned" /\ callAt' = "idle" /\ req' = None /\ result' = None
      /\ UNCHANGED <<workerReady, worker, toChild, fromChild, workerKv, gdn, resetNoted,
                     session, gaveUp, released>>
  BY DEF Returned, linkVars, childVars, histVars
<1>2. /\ open /\ tries < MaxTries /\ session # 0
      /\ \/ req.op = 31 /\ fed = 0
         \/ req.op = 32 /\ fed < MaxPos
  BY <1>1 DEF WorkerInv, CallOK, ResetRequest, TokenRequest
<1>3. FlagTypes /\ CallTypes /\ CountTypes /\ SequenceTypes
  BY TypeParts DEF WorkerInv
<1>4. /\ open' \in BOOLEAN /\ fed' \in 0 .. MaxPos /\ tries' \in 0 .. MaxTries
      /\ open' => tries' < MaxTries
      /\ fed' = IF req.op = 32 /\ result # None THEN fed + 1 ELSE fed
  <2>1. CASE req.op = 31 /\ UNCHANGED <<open, fed, tries>>
    BY <1>2, <1>3, <2>1 DEF CountTypes, FlagTypes
  <2>2. CASE req.op = 32 /\ result # None /\ fed' = fed + 1 /\ tries' = 0 /\ UNCHANGED open
    BY <1>2, <1>3, <2>2, BoundsAssumption DEF CountTypes, FlagTypes
  <2>3. CASE req.op = 32 /\ result = None /\ tries' = tries + 1 /\ open' = AnotherTry /\ UNCHANGED fed
    <3>1. fed' \in 0 .. MaxPos /\ tries' \in 0 .. MaxTries /\ fed' = fed
      BY <1>2, <1>3, <2>3, BoundsAssumption DEF CountTypes
    <3>2. open' = (tries' < MaxTries)
      BY <2>3 DEF AnotherTry
    <3>3. (tries' < MaxTries) \in BOOLEAN
      BY <3>1, BoundsAssumption
    <3>4. open' \in BOOLEAN
      BY <3>2, <3>3, Zenon
    <3>5. open' => tries' < MaxTries
      BY <3>2, Zenon
    <3> QED BY <2>3, <3>1, <3>4, <3>5
  <2> QED BY <2>1, <2>2, <2>3 DEF Returned
<1>5. WorkerTypeOK'
  <2>1. FlagTypes'
    BY <1>1, <1>3, <1>4 DEF FlagTypes
  <2>2. CallTypes' /\ CountTypes' /\ SequenceTypes'
    BY <1>1, <1>3, <1>4 DEF CallTypes, CountTypes, SequenceTypes
  <2> QED BY <2>1, <2>2, TypeParts
<1>6. CallOK'
  BY <1>1, <1>2, <1>4 DEF CallOK
<1>7. ProcessOK'
  BY <1>1, <1>2, <1>4 DEF WorkerInv, ProcessOK
<1>8. PipesOK'
  BY <1>1 DEF WorkerInv, PipesOK, Quiet
<1>9. ContextOK'
  <2>1. WorkerContext' = WorkerContext /\ Own(fed)' = Own(IF req.op = 32 /\ result # None THEN fed + 1 ELSE fed)
    BY <1>1, <1>4 DEF WorkerContext, AfterReset, Own
  <2> QED BY <1>1, <1>2, <2>1 DEF WorkerInv, ContextOK
<1> QED BY <1>5, <1>6, <1>7, <1>8, <1>9 DEF WorkerInv

\* Between two sessions the worker is not missed.
LEMMA ReloadStep == WorkerInv /\ Reload => WorkerInv'
<1> SUFFICES ASSUME WorkerInv, Reload PROVE WorkerInv'
  OBVIOUS
<1>1. /\ callAt = "idle" /\ open = FALSE /\ ShutDown
      /\ UNCHANGED <<callAt, req, result, session, open, fed, tries, gaveUp, released>>
  BY DEF Reload, callerVars, histVars, WorkerInv, WorkerTypeOK
<1>2. FlagTypes /\ CallTypes /\ CountTypes /\ SequenceTypes
  BY TypeParts DEF WorkerInv
<1>3. WorkerTypeOK'
  <2>1. FlagTypes'
    BY <1>1, <1>2 DEF FlagTypes, ShutDown
  <2>2. CallTypes' /\ CountTypes' /\ SequenceTypes'
    BY <1>1, <1>2 DEF CallTypes, CountTypes, SequenceTypes, ShutDown
  <2> QED BY <2>1, <2>2, TypeParts
<1>4. CallOK' /\ ProcessOK' /\ PipesOK' /\ ContextOK'
  BY <1>1 DEF WorkerInv, ShutDown, CallOK, ProcessOK, PipesOK, ContextOK, Quiet
<1> QED BY <1>3, <1>4 DEF WorkerInv

\* A crash: what was written and not read is gone.
LEMMA CrashStep == WorkerInv /\ Crash => WorkerInv'
<1> SUFFICES ASSUME WorkerInv, Crash PROVE WorkerInv'
  OBVIOUS
<1>1. /\ worker = "alive" /\ worker' = "dead" /\ toChild' = <<>>
      /\ UNCHANGED <<workerReady, fromChild, workerKv, gdn, resetNoted, callAt, req, result,
                     session, open, fed, tries, gaveUp, released>>
  BY DEF Crash, childVars, callerVars, histVars
<1>2. FlagTypes /\ CallTypes /\ CountTypes /\ SequenceTypes
  BY TypeParts DEF WorkerInv
<1>3. WorkerTypeOK'
  <2>1. FlagTypes'
    BY <1>1, <1>2 DEF FlagTypes
  <2>2. CallTypes' /\ CountTypes' /\ SequenceTypes'
    BY <1>1, <1>2 DEF CallTypes, CountTypes, SequenceTypes
  <2> QED BY <2>1, <2>2, TypeParts
<1>4. CallOK'
  BY <1>1 DEF WorkerInv, CallOK, ResetRequest, TokenRequest
<1>5. ProcessOK' /\ PipesOK'
  BY <1>1 DEF WorkerInv, ProcessOK, PipesOK, Quiet, Asked, Answered, Reply
<1>6. ContextOK'
  BY <1>1 DEF WorkerInv, PipesOK, ContextOK, Asked, Answered, Quiet, Reply, Own
<1> QED BY <1>3, <1>4, <1>5, <1>6 DEF WorkerInv

\* The worker answers the request it is asked: what it was to compute the token from is
\* what it has.
LEMMA ServeStep == WorkerInv /\ Serve => WorkerInv'
<1> SUFFICES ASSUME WorkerInv, Serve PROVE WorkerInv'
  OBVIOUS
<1> DEFINE r == Head(toChild)
<1>1. /\ worker = "alive" /\ toChild # <<>> /\ toChild' = Tail(toChild)
      /\ UNCHANGED <<workerReady, worker, callAt, req, result, session, open, fed, tries, gaveUp, released>>
  BY DEF Serve, callerVars, histVars
<1>2. FlagTypes /\ CallTypes /\ CountTypes /\ SequenceTypes
  BY TypeParts DEF WorkerInv
<1>3. r \in WorkerRequests /\ toChild' \in Seq(WorkerRequests)
  BY <1>1, <1>2, TailType DEF SequenceTypes
<1>4. ~gaveUp => callAt = "reading" /\ Asked /\ r = req /\ toChild' = <<>>
  BY <1>1, OneInPipe DEF WorkerInv, PipesOK, Asked, Answered, Quiet
<1>5. CallOK'
  BY <1>1 DEF WorkerInv, CallOK, ResetRequest, TokenRequest
<1>6. ProcessOK'
  BY <1>1 DEF WorkerInv, ProcessOK
<1>7. CASE r.op = 31
  <2> DEFINE reply == [to |-> r, ok |-> TRUE, ctx |-> <<>>, rec |-> <<>>]
  <2>1. resetNoted' = TRUE /\ fromChild' = Append(fromChild, reply) /\ UNCHANGED <<workerKv, gdn>>
    BY <1>7 DEF Serve
  <2>2. reply \in Replies
    BY <1>3 DEF Replies
  <2>3. WorkerTypeOK'
    <3>1. FlagTypes'
      BY <1>1, <1>2, <2>1 DEF FlagTypes
    <3>2. SequenceTypes'
      <4> HIDE DEF reply
      <4> QED BY <1>2, <1>3, <2>1, <2>2, AppendType DEF SequenceTypes
    <3>3. CallTypes' /\ CountTypes'
      BY <1>1, <1>2 DEF CallTypes, CountTypes
    <3> QED BY <3>1, <3>2, <3>3, TypeParts
  <2>4. ~gaveUp => fromChild' = <<reply>> /\ toChild' = <<>>
    BY <1>4, <2>1, OneInPipe DEF Asked
  <2>5. PipesOK'
    BY <1>1, <1>4, <2>4 DEF PipesOK, Asked, Answered, Quiet, Reply
  <2>6. ContextOK'
    <3>1. ~gaveUp => req.op # 32 /\ fed = 0
      BY <1>4, <1>7 DEF WorkerInv, CallOK, TokenRequest
    <3>2. WorkerContext' = <<>>
      BY <2>1 DEF WorkerContext, AfterReset
    <3>3. WorkerContext' = Own(0) /\ Own(0)' = Own(0)
      BY <1>1, <3>2, OwnNone DEF Own
    <3> QED BY <1>1, <1>4, <2>4, <3>1, <3>3 DEF ContextOK, Asked, Own
  <2> QED BY <1>5, <1>6, <2>3, <2>5, <2>6 DEF WorkerInv
<1>8. CASE r.op = 32
  <2> DEFINE reply == [to |-> r, ok |-> TRUE, ctx |-> workerKv', rec |-> gdn']
  <2>1. /\ resetNoted' = FALSE /\ workerKv' = Append(AfterReset, r.tok) /\ gdn' = Append(gdn, r.tok)
        /\ fromChild' = Append(fromChild, reply)
    BY <1>8 DEF Serve
  <2>2. r.tok \in Tok /\ AfterReset \in Seq(Tok)
    BY <1>2, <1>3, <1>8 DEF WorkerRequests, SequenceTypes, AfterReset
  <2>3. workerKv' \in Seq(Tok) /\ gdn' \in Seq(Tok)
    BY <1>2, <2>1, <2>2, AppendType DEF SequenceTypes
  <2>4. reply \in Replies
    BY <1>3, <2>3 DEF Replies
  <2>5. WorkerTypeOK'
    <3>1. FlagTypes'
      BY <1>1, <1>2, <2>1 DEF FlagTypes
    <3>2. SequenceTypes'
      <4> HIDE DEF reply
      <4> QED BY <1>2, <1>3, <2>1, <2>3, <2>4, AppendType DEF SequenceTypes
    <3>3. CallTypes' /\ CountTypes'
      BY <1>1, <1>2 DEF CallTypes, CountTypes
    <3> QED BY <3>1, <3>2, <3>3, TypeParts
  <2>6. ~gaveUp => fromChild' = <<reply>> /\ toChild' = <<>>
    BY <1>4, <2>1, OneInPipe DEF Asked
  <2>7. PipesOK'
    BY <1>1, <1>4, <2>6 DEF PipesOK, Asked, Answered, Quiet, Reply
  <2>8. ContextOK'
    <3> SUFFICES ASSUME ~gaveUp, ~released PROVE ContextOK'
      BY <1>1 DEF ContextOK
    <3>1. r = req /\ req = TokenRequest /\ callAt = "reading" /\ open
      BY <1>4, <1>8 DEF WorkerInv, CallOK, ResetRequest
    <3>2. AfterReset = Own(fed)
      BY <1>1, <1>4, <1>8, <3>1 DEF WorkerInv, ContextOK, WorkerContext
    <3>3. workerKv' = Own(fed + 1)
      <4>1. fed \in Nat
        BY <1>2 DEF CountTypes
      <4>2. r.tok = <<session, fed + 1>>
        BY <3>1 DEF TokenRequest
      <4> QED BY <2>1, <3>2, <4>1, <4>2, OwnNext
    <3>4. WorkerContext' = Own(fed + 1)
      BY <2>1, <3>3 DEF WorkerContext, AfterReset
    <3>5. Own(fed + 1)' = Own(fed + 1)
      BY <1>1 DEF Own
    <3>6. Reply' = reply /\ reply.ok /\ reply.ctx = Own(fed + 1)
      BY <2>6, <3>3 DEF Reply
    <3>7. (Own(IF req.op = 32 /\ Reply.ok THEN fed + 1 ELSE fed))' = Own(fed + 1)
      BY <1>1, <1>8, <3>1, <3>6 DEF Own
    <3>8. ~Asked'
      BY <2>6 DEF Asked
    <3> QED BY <1>1, <3>1, <3>4, <3>5, <3>6, <3>7, <3>8 DEF ContextOK
  <2> QED BY <1>5, <1>6, <2>5, <2>7, <2>8 DEF WorkerInv
<1> QED BY <1>3, <1>7, <1>8 DEF WorkerRequests

\* The worker answers with an error: a reset it had noted is done, the token is not fed.
LEMMA ServeFailsStep == WorkerInv /\ ServeFails => WorkerInv'
<1> SUFFICES ASSUME WorkerInv, ServeFails PROVE WorkerInv'
  OBVIOUS
<1> DEFINE r == Head(toChild)
           reply == [to |-> r, ok |-> FALSE, ctx |-> <<>>, rec |-> <<>>]
<1>1. /\ worker = "alive" /\ toChild # <<>> /\ toChild' = Tail(toChild) /\ r.op = 32
      /\ resetNoted' = FALSE /\ workerKv' = AfterReset
      /\ gdn' \in {gdn, Append(gdn, r.tok)}
      /\ fromChild' = Append(fromChild, reply)
      /\ UNCHANGED <<workerReady, worker, callAt, req, result, session, open, fed, tries, gaveUp, released>>
  BY DEF ServeFails, callerVars, histVars
<1>2. FlagTypes /\ CallTypes /\ CountTypes /\ SequenceTypes
  BY TypeParts DEF WorkerInv
<1>3. r \in WorkerRequests /\ toChild' \in Seq(WorkerRequests)
  BY <1>1, <1>2, TailType DEF SequenceTypes
<1>4. ~gaveUp => /\ callAt = "reading" /\ Asked /\ r = req
                 /\ toChild' = <<>> /\ fromChild' = <<reply>>
  <2> HIDE DEF reply
  <2> QED BY <1>1, OneInPipe DEF WorkerInv, PipesOK, Asked, Answered, Quiet
<1>5. WorkerTypeOK'
  <2>1. r.tok \in Tok /\ AfterReset \in Seq(Tok)
    BY <1>1, <1>2, <1>3 DEF WorkerRequests, SequenceTypes, AfterReset
  <2>2. Append(gdn, r.tok) \in Seq(Tok)
    BY <1>2, <2>1, AppendType DEF SequenceTypes
  <2>3. reply \in Replies
    BY <1>3 DEF Replies
  <2>4. FlagTypes'
    BY <1>1, <1>2 DEF FlagTypes
  <2>5. SequenceTypes'
    <3> HIDE DEF reply
    <3> QED BY <1>1, <1>2, <1>3, <2>1, <2>2, <2>3, AppendType DEF SequenceTypes
  <2>6. CallTypes' /\ CountTypes'
    BY <1>1, <1>2 DEF CallTypes, CountTypes
  <2> QED BY <2>4, <2>5, <2>6, TypeParts
<1>6. CallOK'
  BY <1>1 DEF WorkerInv, CallOK, ResetRequest, TokenRequest
<1>7. ProcessOK'
  BY <1>1 DEF WorkerInv, ProcessOK
<1>8. PipesOK'
  BY <1>1, <1>4 DEF PipesOK, Asked, Answered, Quiet, Reply
<1>9. ContextOK'
  <2>1. WorkerContext' = WorkerContext
    BY <1>1 DEF WorkerContext, AfterReset
  <2>2. ~gaveUp => Reply' = reply /\ ~reply.ok /\ ~Asked'
    BY <1>4 DEF Reply, Asked
  <2>3. Own(fed)' = Own(fed)
    BY <1>1 DEF Own
  <2>4. ~gaveUp => (Own(IF req.op = 32 /\ Reply.ok THEN fed + 1 ELSE fed))' = Own(fed)
    BY <1>1, <2>2 DEF Own
  <2> QED BY <1>1, <1>4, <2>1, <2>2, <2>3, <2>4 DEF WorkerInv, ContextOK
<1> QED BY <1>5, <1>6, <1>7, <1>8, <1>9 DEF WorkerInv

\* Every step, and none.
LEMMA WorkerInductive == WorkerInv /\ [WorkerNext]_workerVars => WorkerInv'
<1> SUFFICES ASSUME WorkerInv, [WorkerNext]_workerVars PROVE WorkerInv'
  OBVIOUS
<1>1. CASE Caller
  BY <1>1, OpenSessionStep, EndSessionStep, ReloadStep DEF Caller
<1>2. CASE Backend
  BY <1>2, EnsureWorkerStep, SpawnFailsStep, WriteTokenStep, ReadStep, ReadEofStep,
     TimeOutStep, ReturnedStep DEF Backend
<1>3. CASE Serve \/ ServeFails \/ Crash
  BY <1>3, ServeStep, ServeFailsStep, CrashStep
<1>4. CASE UNCHANGED workerVars
  BY <1>4
  DEF workerVars, linkVars, childVars, callerVars, histVars, WorkerInv, WorkerTypeOK, CallOK,
      ResetRequest, TokenRequest, ProcessOK, PipesOK, ContextOK, Quiet, Asked, Answered, Reply,
      WorkerContext, AfterReset, Own
<1> QED BY <1>1, <1>2, <1>3, <1>4 DEF WorkerNext

(***************************************************************************)
(* The theorems.                                                           *)
(***************************************************************************)
\* The inductive invariant holds in every behaviour of the link, the caller and the worker
\* process (src/backend_npu.cpp).
THEOREM WorkerInvariant == WorkerSpec => []WorkerInv
<1>1. WorkerInit => WorkerInv
  BY WorkerInitInv
<1>2. WorkerInv /\ [WorkerNext]_workerVars => WorkerInv'
  BY WorkerInductive
<1> QED BY <1>1, <1>2, PTL DEF WorkerSpec

\* Types: whatever crashes, time-outs and restarts there are, there are never more tries of
\* a token than max_tries and never more tokens than fit.
THEOREM WorkerTypeCorrect == WorkerSpec => []WorkerTypeOK
<1>1. WorkerInv => WorkerTypeOK
  BY DEF WorkerInv
<1> QED BY <1>1, WorkerInvariant, PTL

\* Unless a read gave up on this worker process, the reply that gemm() returns is the reply
\* to the request it wrote: crashes, errors and restarts do not put the pipes out of step.
THEOREM RepliesInStep == WorkerSpec => []ReplyInStep
<1>1. WorkerInv => ReplyInStep
  BY DEF WorkerInv, PipesOK, ReplyInStep, ReplyIsToThisCall
<1> QED BY <1>1, WorkerInvariant, PTL

\* Unless a read gave up or a slow call released the worker, the token that generate()
\* returns was computed from the tokens of its own session, each once and in order.
THEOREM TokensFromWholeSession == WorkerSpec => []TokenFromWholeSession
<1>1. WorkerInv => TokenFromWholeSession
  BY DEF WorkerInv, ContextOK, TokenFromWholeSession, Own
<1> QED BY <1>1, WorkerInvariant, PTL
=============================================================================
