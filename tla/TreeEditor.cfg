CONSTANTS
  Null = Null
  chunkSize = 2
  maxLinks = 2
  TagSize = 1
  Names = {1, 2}
  Contents <- MCContents
  MaxEntries = 4
  Folder = Folder
  NoEdit = NoEdit
SPECIFICATION Spec
INVARIANT CurrentPathExists
PROPERTY ImplementsFileTree
