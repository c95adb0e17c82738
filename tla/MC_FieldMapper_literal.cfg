CONSTANTS
  Attrs <- MCAttrsBracketLiteral
  Mappers <- MCMappers
  BoolAttrs <- MCBoolAttrs
  Records <- MCRecords
  JsonGet <- MCJsonGet
SPECIFICATION Spec
CHECK_DEADLOCK FALSE
INVARIANTS MapStrAsSpecified
