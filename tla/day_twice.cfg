SPECIFICATION FileSpec
INVARIANTS DayOnce
CONSTANTS
  BlockSize = 5
  LastBlock = 3
  Lengths = {2}
  CardFails = FALSE
  MaxDay = 5
