SPECIFICATION Spec
CONSTANTS
  Want = {"plain", "noted", "without"}
  Off = {"without"}
  Gone = Gone
  Field = {"note", "data", "key"}
  Annotation = {"note"}
  Carried = "key"
  Value = {"one", "two"}
  NoValue = NoValue
  Manifest <- MCManifest
  FreshValue = {"one", "two"}
  NoObject = NoObject
  NoCall = NoCall
  MaxEdits = 2
  MaxFailures = 1
  MaxInterference = 1
INVARIANT TypeOK
PROPERTY ManagedSpec Converges CollectedWithOwner
CHECK_DEADLOCK FALSE
