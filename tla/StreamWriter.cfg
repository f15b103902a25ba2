CONSTANTS
  Null = Null
  chunkSize = 2
  maxLinks = 2
  TagSize = 1
  MaxBytes = 9
  MaxAppend = 5
  MaxCalls = 6
  Overlapping = FALSE
SPECIFICATION Spec
INVARIANT FilesReadBack
INVARIANT StreamsSeek
