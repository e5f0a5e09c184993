SPECIFICATION Spec
CONSTANTS
  TypeRefs <- MCTypeRefs
  LastPart <- MCLastPart
  Commands <- MCCommands
  Renders <- Outcomes
  Foreign <- ForeignIn
INVARIANTS
  AllOrNothing ExitTells RendersUnlessCause Documented Linked
CHECK_DEADLOCK FALSE
