SPECIFICATION WorldSpec
CONSTANTS
  h1 = h1
  h2 = h2
  Handle = {h1, h2}
  Resource = {}
  Identity = {}
  Model = {Unspecified}
  Unspecified = Unspecified
  Meridian = {Zero}
  Zero = Zero
  Worldview = {w1}
  Absent = Absent
  Layer = {"builtin.political.labels", "builtin.political.borders", "builtin.political.countries", "builtin.physical.coastline", "builtin.physical.land", "builtin.physical.surface-classification"}
  LayerState <- LayerStates
  Slot = {"geometry", "properties", "classification"}
  Source = {"land", "countries", "shelves", "surfaces"}
  Style = {}
  Unbound = Unbound
  NoLayer = NoLayer
  MaxLayers = 6
  MaxBindings = 1024
  OrdinalShift = 1000000
  MaxRevision = 6
  Missing = Missing
  Offer <- Offers
  SurfaceClass = {"ice"}
  WorldCall <- WorldCalls
  UserCall <- Edits
SYMMETRY HandleSymmetry
INVARIANTS
  ChannelsAreStored
PROPERTIES
  CompositionAnswersTrue
  UserStateSurvives
CHECK_DEADLOCK FALSE
