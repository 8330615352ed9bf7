\* Buffers of one to two lines, lines that fit in no buffer, floods.
CONSTANTS
  BufferSize = 3
  Lengths = {1, 2, 4}
  DropAbove = 3
  Null = Null
  MaxLines = 6
SPECIFICATION FairSpec
INVARIANTS BuffersConsistent LinesInOrder
PROPERTIES FullBuffersCollected IntervalServes
CHECK_DEADLOCK FALSE
