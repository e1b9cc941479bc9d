CONSTANTS
  FrameLens = {2}
  Odd = {FALSE}
  Marks = {0, 1}
  MinGap = 4
  CntWidth = 4
  Size = 8
  FilterIndex = 0
  FifoDepth = 8
SPECIFICATION Spec
INVARIANTS TypeOK FrontIsHeader DriverReadsWholeFrames ResponseHasCommand RecordingNeverStalls
