SPECIFICATION Spec
CONSTANTS
  empty = empty
  one = one
  large = large
  strict = strict
  None = None
  Unreadable = Unreadable
  Down = Down
  Absent = Absent
  Live = Live
  Values <- States
  Fresh = empty
  Oversized <- TooLarge
  Unloadable <- TooStrict
  HeaderBlocks = 1
  BodyBlocks = 1
  MaxSaves = 2
  MaxStops = 2
  MaxDamages = 1
INVARIANTS
  ImageIsWhole
  TemporariesAccounted
PROPERTIES
  ImplementsAtomicImage
CHECK_DEADLOCK FALSE
