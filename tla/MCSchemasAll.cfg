SPECIFICATION Spec
CONSTANTS
  Types <- Four
  Named <- Names5
  Pos <- Positions
  Apis <- AllApis
  Shapes <- AllShapes
INVARIANTS
  Components AlwaysReady DependenciesFirst SourceFirst FailsWithCause
PROPERTIES
  Loads
CHECK_DEADLOCK FALSE
