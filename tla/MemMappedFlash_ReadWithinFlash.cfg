CONSTANTS
  Width = 8
  FlashSize = 192
  NULL = NULL
SPECIFICATION Spec
INVARIANT ReadWithinFlash
