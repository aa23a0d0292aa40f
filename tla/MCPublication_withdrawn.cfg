SPECIFICATION PublicationSpec
CONSTANTS
  Client = {c1, c2}
  File = {f1, f2}
  NoFile = NoFile
INVARIANT
  AcknowledgedStaysPublished
