SPECIFICATION JDSpec
CONSTANTS
  Cmds = {c1, c2}
  CommandLines <- MCCommands
  InitialNodes <- MCInitialNodes
  Uuid <- MCUuid
  NoUuid = "none"
  MaxCalls = 1
SYMMETRY Sym
CHECK_DEADLOCK FALSE
INVARIANTS JobsSound Accounted
PROPERTIES CommandSteps
