\* Two threads, two ids; entries come and go.  The router may deadlock: RouterDeadlock.
SPECIFICATION Spec
CONSTANTS
  Threads = {t1, t2}
  Ids = {hip, npu}
  GpuIds = {hip}
  NpuIds = {npu}
  GpuOnlyIds = {hip}
  NpuOnlyIds = {npu}
  Insts = {i1, i2, i3}
  Gates = {g1, g2}
  Times = {1}
  Window = 1
  CounterMax = 100
  CounterBound = 7
  UsedStrategies = {"GPU_BACKFILL", "NPU_BACKFILL"}
  Free = Free
  None = None
SYMMETRY MCSymmetry
CHECK_DEADLOCK FALSE
INVARIANTS
  ComputeExclusive
  SamplesOfOwnId
  BackfillShare
