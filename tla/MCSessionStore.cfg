SPECIFICATION SessionSpec
CONSTANTS
  Mine = Mine
  Other = Other
  Globe = Globe
  Mollweide = Mollweide
  BadZoom = BadZoom
  NoSidecar = NoSidecar
  NoView = NoView
  NoHandle = NoHandle
  NoMetadata = NoMetadata
  Handle <- Handles
  Project <- Projects
  ProjectOf <- Owners
  View <- Views
  ValidView = {Globe, Mollweide}
  Write <- Writes
  Initial <- Files
  Created = "t0"
  LastRevision = 3
INVARIANTS
  ViewIsOneWrite
  RevisionCountsWrites
PROPERTY
  ForeignSidecarUntouched
