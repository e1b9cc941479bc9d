CONSTANTS
  FrameLens = {2, 4, 5}
  Odd = {TRUE, FALSE}
  Marks = {0, 5, 6}
  MinGap = 1
  CntWidth = 4
  Size = 8
  FilterIndex = 5
  MayStall = FALSE
SPECIFICATION FairSpec
INVARIANTS RxTypeOK CounterFollowsBus BufferHoldsPending
PROPERTIES HandsOnWantedFrames WantedFramesArrive
