SPECIFICATION FairPublicationSpec
CONSTANTS
  Client = {c1, c2}
  File = {f1, f2, f3}
  NoFile = NoFile
INVARIANTS
  PublishedIsComplete
  OneLiveFile
  OneCreator
PROPERTIES
  CallsReturn
