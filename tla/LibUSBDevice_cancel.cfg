SPECIFICATION Spec
CONSTANTS
  Handles = {h1}
  Slots = 2
  None = none
INVARIANT
  WaitingIsCancellable
