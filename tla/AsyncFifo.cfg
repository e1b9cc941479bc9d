CONSTANTS
  ADDR_WIDTH = 2
  FrameLens = {2, 3, 5}
  Tags = {a}
SPECIFICATION FairSpec
INVARIANTS ViewsAreOrdered NoGapInFrame
PROPERTIES IsFrameFifo FramesAppear
