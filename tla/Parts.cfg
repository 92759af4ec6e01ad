\* Six parts that share no state, see MCParts.
CONSTANTS
  \* FusedPipeline: two slots take turns from the third layer on.
  NumLayers = 3
  MaxSeq = 2
  FusedSessions = 1
  NoLayer = NoLayer
  NoJob = NoJob
  NoRow = NoRow
  \* SpecDecode
  Tokens = {0, 1, 2}
  TokenZero = 0
  TargetNext <- MCTargetNext
  NDraft = 2
  Eos = 2
  MaxTokens = 5
  MaxPrompt = 2
  \* ManagerLocks
  npu = npu
  gpu = gpu
  cpu = cpu
  Backends = {gpu, npu, cpu}
  Compatible = {gpu, cpu}
  Nobody = Nobody
  MaxRounds = 1
  \* Generation
  Handlers = {h1, h2}
  Bs = {npu, gpu}
  TextBs = {npu}
  RoutedB = NoB
  NoB = NoB
  Garbled = Garbled
  NoHandler = NoHandler
  MaxPromptLen = 2
  MaxAnswer = 2
  \* NpuQueue
  Sessions = {s1, s2, s3}
  MaxNpuQueue = 1
  IoThreads = 2
  \* Onebitd
  HealthRounds = 2
  GraceRounds = 2
SPECIFICATION PartsSpec
INVARIANTS
  TokenThroughAllLayers SettledWhenIdle
  CachesAgree TokensAreGreedy
  OneThreadPerInstance
  CacheIsContext OneTokenAfterDeadline
  NpuExclusive
  NoChildLeft
PROPERTIES
  LockedCallsReturn
  QueueDrainsWhileBusy
  DaemonEnds
\* ManagerLocks really stops, with an empty router: see OneThreadPerInstance there.
CHECK_DEADLOCK FALSE
