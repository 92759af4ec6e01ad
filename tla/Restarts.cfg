\* BackendManager and JarvisAccounts, see MCRestarts.
SPECIFICATION RestartsSpec
CONSTANTS
  \* BackendManager: two machines, two models; a route that names all accelerators, one that names one.
  Ids = {"npu", "gpu", "onnx", "cpu"}
  Machines <- MCMachines
  CpuIds = {"cpu"}
  Stubs = {"onnx"}
  GpuIds = {"gpu"}
  NpuIds = {"npu"}
  GpuOnlyIds = {"gpu"}
  NpuOnlyIds = {"npu"}
  Priority <- MCPriority
  StartScore <- MCStartScore
  Models = {"A", "B"}
  PreferredLists <- MCPreferredLists
  Times = {1}
  MaxPos = 2
  MaxStray = 0
  Window = 1
  CounterMax = 0
  None = None
  \* JarvisAccounts: two handlers, a second key, a limit of one token, two requests at once.
  Clients = {c1, c2}
  Keys = {k0, k1}
  FirstKey = k0
  Limit = 1
  MaxCost = 1
  Burst = 2
  RefillTicks = 2
  PeriodTicks = 1
  MaxClock = 2
  MaxCrashes = 1
  Nobody = Nobody
INVARIANTS
  TypeOK
  RoutesAreCurrent
  RoutesCanInfer
  OneCopyPerKind
  IssuedKeysSurvive
  BoundedOvershoot
  RateBound
PROPERTIES
  RoutedTokenHasContext

\* The clock and the keys to draw run out.
CHECK_DEADLOCK FALSE
