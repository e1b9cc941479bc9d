SPECIFICATION Spec
CONSTANTS
  Cores = 3
  NULL = 0
  Minus1 = 5
  MaxThreads = 3
  WordBytes = 2
  Base = 4
  FrameSize = 3
  Programs <- MCPrograms
  NumBuf = 2
  MsgWords = 2
  CountMod = 3
  MaxMsgs = 3
  SampleWords = 2
  MaxSamples = 3
INVARIANTS LoadedIsSent  RunsWhatWasLoaded NobodyAheadOfNetwork JoinGetsItsResult ArgumentIsItsOwn HeldMessagesIntact MutualExclusion ReadsOneFreshSample
PROPERTIES IsBoundedFifo 
CHECK_DEADLOCK FALSE
