CONSTANTS
  FrameLens = {3}
  Odd = {FALSE}
  Marks = {0, 5}
  MinGap = 0
  CntWidth = 4
  Size = 8
  FilterIndex = 4
  MayStall = FALSE
SPECIFICATION FairSpec
PROPERTY HandsOnWantedFrames
