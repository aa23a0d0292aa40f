SPECIFICATION ContentSpec
CONSTANTS
  Resource = {r1, r2}
  Identity = {i1}
  Model = {Unspecified, Sinusoidal}
  Sinusoidal = Sinusoidal
  Meridian = {Zero}
  Worldview = {w1}
  Layer = {l1, l2, l3}
  LayerState = {on, off}
  Slot = {a, b}
  Source = {src}
  Style = {s1, s2, s3}
  Body = {plain, bold}
  r1 = r1
  r2 = r2
  i1 = i1
  l1 = l1
  l2 = l2
  l3 = l3
  s1 = s1
  s2 = s2
  s3 = s3
  a = a
  b = b
  on = on
  off = off
  src = src
  plain = plain
  bold = bold
  Unspecified = Unspecified
  Zero = Zero
  Absent = Absent
  Unbound = Unbound
  NoLayer = NoLayer
  NoStyle = NoStyle
  NoParent = NoParent
  NoCall = NoCall
  ContentCall <- Requests
  OrdinalShift = 1000000
  MaxLayers = 3
  MaxBindings = 1
  MaxStyles = 3
  MaxStyleSlots = 1
  MaxRevision = 8
INVARIANTS
  ReorderSucceeds
  StyleForest
  ReadersAccept
  FrozenReproducible
  ExactRetry
  FrozenClaim
  ProjectionSynchronized
PROPERTIES
  ThawOnlyByExternalRequirement
  RevisionPerContentMutation
CHECK_DEADLOCK FALSE
