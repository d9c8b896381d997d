SPECIFICATION AnsweringSpec
CONSTANTS
  Handles = {h1}
  Slots = 2
  None = none
INVARIANTS
  TypeOK
  OneTransferPerEndpoint
  NoSlotLeak
PROPERTY
  CloseEnds
