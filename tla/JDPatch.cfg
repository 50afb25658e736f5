SPECIFICATION JDSpec
CONSTANTS
  Cmds = {c1, c2}
  CommandLines <- MCCommands
  InitialNodes <- MCInitialNodes
  Uuid <- MCUuid
  NoUuid = "none"
  MaxCalls = 1
PROPERTY PatchExact
SYMMETRY Sym
CHECK_DEADLOCK FALSE
