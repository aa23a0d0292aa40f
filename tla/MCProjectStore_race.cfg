SPECIFICATION RaceSpec
CONSTANTS
  Resource = {r1}
  Identity = {i1, i2}
  Model = {Unspecified, Sinusoidal}
  Meridian = {Zero}
  Worldview = {w1, w2}
  Handle = {h1, h2}
  h1 = h1
  h2 = h2
  r1 = r1
  i1 = i1
  i2 = i2
  w1 = w1
  w2 = w2
  Sinusoidal = Sinusoidal
  Unspecified = Unspecified
  Zero = Zero
  Absent = Absent
  NoHandle = NoHandle
  NoMetadata = NoMetadata
  NoDocument = NoDocument
  CallsOf <- RaceCalls
  MaxRevision = 2
INVARIANT ProjectionMutationsSerialize
