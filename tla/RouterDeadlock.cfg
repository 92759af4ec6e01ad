\* One instance, one gate: a thread in reset_all() and one in generate().
SPECIFICATION LiveSpec
CONSTANTS
  Threads = {t1, t2}
  Ids = {hip}
  GpuIds = {hip}
  NpuIds = {}
  GpuOnlyIds = {hip}
  NpuOnlyIds = {}
  Insts = {i1}
  Gates = {g1}
  Times = {1}
  Window = 1
  CounterMax = 100
  CounterBound = 1
  UsedStrategies = {"GPU_BACKFILL"}
  Free = Free
  None = None
CHECK_DEADLOCK FALSE
PROPERTY CallsReturn
