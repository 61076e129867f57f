SPECIFICATION Spec
CONSTANTS
  Inputs <- MCInputs
  MaxToken = 4
CHECK_DEADLOCK FALSE
INVARIANTS
  DecoderExact
  StopExact
  ParserExact
  PlainArgsCompose
PROPERTIES
  EmissionsLegal
