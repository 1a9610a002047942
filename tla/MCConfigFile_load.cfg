SPECIFICATION FairFileSpec
CONSTANTS
  MaxVersion = 2
  Missing = Missing
  Default = Default
  Zero = Zero
INVARIANTS
  FileTypeOK
  RepliesInOrder
PROPERTIES
  BadReplyKeepsFile
  FileCatchesUp
