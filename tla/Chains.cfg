SPECIFICATION MCSpec
CONSTANTS
  Slots = {1, 2}
  Ports = {1, 2, 3}
  MaxAttempts = 2
  MaxCalls = 2
  Txs = 2
  KeySets <- MCKeySets
  SendAttempts = 2
  ConfirmAttempts = 2
CHECK_DEADLOCK FALSE
INVARIANTS ResourcesSound AnswersSound
PROPERTIES AllEnd
