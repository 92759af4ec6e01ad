\* Tokenizer, BatchedCompletions and NpuWorker, see MCCompletions.
SPECIFICATION CompletionsSpec
CONSTANTS
  \* Tokenizer: one character of each class; "'s" is a contraction.
  Letters = {"s", "l"}
  Numbers = {"1"}
  Others = {".", "'"}
  Newlines = {"nl"}
  Tabs = {"tab"}
  Space = " "
  Apostrophe = "'"
  Contractions <- MCContractions
  Bos = "bos"
  Inputs <- MCInputs
  \* BatchedCompletions: two handlers and a chat handler, two scheduler slots.
  r1 = r1
  r2 = r2
  Requests = {r1, r2}
  NumSlots = 2
  Eos = eos
  Tokens = {eos, tok}
  MaxTokens <- MCMaxTokens
  PromptLen <- MCPromptLen
  BatchMayFail = FALSE
  NoRequest = NoRequest
  Chat = Chat
  Free = Free
  NoSlot = NoSlot
  MaxChat = 2
  \* NpuWorker: two sessions; the worker may crash, hang, fail and be slow.
  MaxSessions = 2
  MaxPos = 2
  MaxTries = 2
  None = None
INVARIANTS
  SingleBlanksMatchRegex
  MergesInRankOrder
  TextIsKept
  NextTokenFromOwnContext
  ChatContextIsOwn
  NoCallbackDeadlock
  ReplyInStep
  TokenFromWholeSession
PROPERTIES
  HandlersReturn
  WorkerCallsReturn
