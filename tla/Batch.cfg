\* Three requests over two slots; a batched step may fail.
SPECIFICATION FairSpec
CONSTANTS
  r1 = r1
  r2 = r2
  r3 = r3
  Requests = {r1, r2, r3}
  NumSlots = 2
  Eos = eos
  Tokens = {eos, tok}
  MaxTokens <- MCMaxTokens
  BatchMayFail = TRUE
  NoRequest = NoRequest
INVARIANTS
  OnePlace
  NoRequestLost
  NoLostWakeup
  DrainedBeforeJoin
PROPERTIES
  ServiceSafety
  EveryCallReturns
  ShutdownCompletes
