SPECIFICATION PipelineSpec
CONSTANTS
  Turn = 32
  Pole = 12
  Roundoff = 1
  Part <- Parts
  Central <- Meridians
  PieceLimit = {2, 4}
  Sample <- Samples
INVARIANTS
  AcceptedByStorage
  SplitIsPartition
  PolygonIsShown
