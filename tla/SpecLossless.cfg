CONSTANTS
  Tokens = {0, 1, 2}
  TokenZero = 0
  TargetNext <- MCTargetNext
  NDraft = 2
  Eos = 2
  MaxTokens = 5
  MaxPrompt = 2
SPECIFICATION SpecSpec
INVARIANT StopsAtEos
