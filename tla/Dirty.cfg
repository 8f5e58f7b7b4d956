CONSTANTS
  Total = 3
  WordBits = 2
  Drainers = {d1, d2}
  TileSize = 3
  MaxSize = 9
SPECIFICATION MCSpec
INVARIANTS NoStrayBits EveryMarkIsDrained EveryScreenIsTiled
PROPERTIES ImplementsAccumulator SetAllMarksAll MarkIsTaken
