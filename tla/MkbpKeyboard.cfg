CONSTANTS
  Rows = 3
  Cols = 2
  ByteBits = 4
  KeyFifoSize = 3
  MkbpLayoutSize = 96
  MaxDown = 4
  Scancodes <- MCScancodes
  Layout <- MCLayout
  ArrowKeys <- MCArrowKeys
SPECIFICATION Spec
INVARIANT NoPhantomKeys
