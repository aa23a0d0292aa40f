SPECIFICATION ImportSpec
CONSTANTS
  h1 = h1
  h2 = h2
  Handle = {h1, h2}
  low = low
  imported = imported
  Source = {low, imported}
  ImportSource = {imported}
  Provenance <- Provenances
  Feature <- FeatureIds
  Shape <- Shapes
  Value = {"", "x", "y", "x4", "y4", "floating"}
  NoValue = ""
  Missing = Missing
  NoCall = NoCall
  Call <- Calls
  MaxRevision = 3
  Manifest <- Manifests
  Root <- Roots
  Binding <- Bindings
  Registered = {"land", "admin0", "cartography", "shelves", "external"}
  External = "external"
  Claim <- Claims
  NoPin = NoPin
  NullShape = NullShape
  Malformed = Malformed
  FloatingIceShelf = "floating"
CONSTRAINT OneSourceInPlay
SYMMETRY Symmetry
INVARIANTS
  OutcomeIsTrue
  LoadIsConsistent
  PartsAgree
  RecordedIsAcquired
PROPERTIES
  CatalogSpec
