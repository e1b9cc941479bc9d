CONSTANTS
  FrameLens = {2}
  Odd = {FALSE}
  Marks = {1}
  MinGap = 4
  CntWidth = 4
  Size = 8
  FilterIndex = 0
  FifoDepth = 4
SPECIFICATION FairSpec
PROPERTY ReadsAnswered
