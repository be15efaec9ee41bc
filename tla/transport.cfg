SPECIFICATION Spec
CONSTANTS
  Sounds <- TwoSounds
  Frames <- Lengths
  Block = 3
  Ahead = 5
  QueueCap = 2
  Pitch = {1, 4}
  Uses <- Profiles
PROPERTY PlaysThrough
PROPERTY ReadsInBounds
PROPERTY StopsOnTime
PROPERTY ClickFree
