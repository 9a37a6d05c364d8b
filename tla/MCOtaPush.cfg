CONSTANTS
  K4 = 2
  K32 = 4
  K64 = 8
  FlashSize = 18
  Areas <- MCAreas
  Chips <- MCChips
  BlSize = 1
  Skips <- MCSkips
  MaxChunk = 3
  Word = 64
SPECIFICATION FairSpec
INVARIANTS
  OutsideKept
  EraseComplete
  EveryByteInPlace
PROPERTY EraseEnds
