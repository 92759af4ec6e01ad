------------------------------ MODULE RouterPick ------------------------------
(***************************************************************************)
(* src/dynamic_router.cpp, the pure part: which entry pick_backend()       *)
(* chooses, and what a measurement does to an entry.  An entry is a record *)
(* with at least the fields id, alive and lat (recent_latencies).          *)
(***************************************************************************)
EXTENDS Integers, Sequences, SequencesExt

CONSTANTS
  GpuIds, NpuIds,          \* ids that contain "gpu" or "hip", ids that contain "npu"
  GpuOnlyIds, NpuOnlyIds,  \* the ids GPU_ONLY and NPU_ONLY name
  Window,                  \* WINDOW_SIZE
  CounterMax               \* the largest int; the smallest is -CounterMax - 1

ASSUME WindowAssumption == Window \in Nat \ {0}
ASSUME CounterMaxAssumption == CounterMax \in Nat

Strategies == {"FASTEST", "GPU_BACKFILL", "NPU_BACKFILL", "GPU_ONLY", "NPU_ONLY"}

\* The index of the first entry whose id is in S, the first entry if there is none.
FirstOf(entries, S) ==
  LET hits == {i \in DOMAIN entries : entries[i].id \in S}
  IN  IF hits = {} THEN 1 ELSE CHOOSE i \in hits : \A j \in hits : i <= j

Sum(lat) == FoldSeq(+, 0, lat)

\* window_avg() of an empty window is 1e30, which is not below 1e30.
Faster(a, b) == Sum(a.lat) * Len(b.lat) < Sum(b.lat) * Len(a.lat)

FastestOf(entries) ==
  LET alive == {i \in DOMAIN entries : entries[i].alive}
      measured == {i \in alive : entries[i].lat # <<>>}
      best == {i \in measured : \A j \in measured : ~Faster(entries[j], entries[i])}
      candidates == IF measured # {} THEN best ELSE alive
  IN  IF candidates = {} THEN 1
      ELSE CHOOSE i \in candidates : \A j \in candidates : i <= j

\* round_robin_counter_++ % 5: the remainder has the sign of the counter, and an
\* int that is incremented past its largest value goes on at the smallest.
Cycle(counter) == IF counter >= 0 THEN counter % 5 ELSE -((-counter) % 5)
Incremented(counter) == IF counter = CounterMax THEN -CounterMax - 1 ELSE counter + 1

Counts(entries, strategy) ==
  Len(entries) > 1 /\ strategy \in {"GPU_BACKFILL", "NPU_BACKFILL"}

CounterAfter(entries, strategy, counter) ==
  IF Counts(entries, strategy) THEN Incremented(counter) ELSE counter

\* Error: five tokens for the preferred backend before the other one gets one.
PickOneLate(entries, strategy, counter) ==
  IF Len(entries) = 1 THEN 1 ELSE
  CASE strategy = "GPU_BACKFILL" ->
         FirstOf(entries, IF Cycle(counter) <= 4 THEN GpuIds ELSE NpuIds)
    [] strategy = "NPU_BACKFILL" ->
         FirstOf(entries, IF Cycle(counter) <= 4 THEN NpuIds ELSE GpuIds)
    [] OTHER -> FastestOf(entries)

\* pick_backend() on a list that is not empty.
Pick(entries, strategy, counter) ==
  IF Len(entries) = 1 THEN 1 ELSE
  CASE strategy = "GPU_ONLY" -> FirstOf(entries, GpuOnlyIds)
    [] strategy = "NPU_ONLY" -> FirstOf(entries, NpuOnlyIds)
    [] strategy = "GPU_BACKFILL" ->
         FirstOf(entries, IF Cycle(counter) < 4 THEN GpuIds ELSE NpuIds)
    [] strategy = "NPU_BACKFILL" ->
         FirstOf(entries, IF Cycle(counter) < 4 THEN NpuIds ELSE GpuIds)
    [] OTHER -> FastestOf(entries)

\* record_latency() of a success: the last Window samples are kept.
Recorded(lat, sample) ==
  LET longer == Append(lat, sample)
  IN  IF Len(longer) > Window THEN Tail(longer) ELSE longer
===============================================================================
