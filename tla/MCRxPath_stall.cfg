CONSTANTS
  FrameLens = {3}
  Odd = {FALSE}
  Marks = {0, 3}
  MinGap = 0
  CntWidth = 4
  Size = 8
  FilterIndex = 2
  MayStall = TRUE
SPECIFICATION FairSpec
INVARIANT CounterFollowsBus
