CONSTANTS
  home = home
  other = other
  a = a
  b = b
  c = c
  dead = dead
  Channel = {home, other}
  Home = home
  Block = {a, b, c, dead}
  Dead = {dead}
  Editions <- AllEditions
  First <- FirstDecks
  Writes <- Documents
  MaxEvents = 2
  None = None
SPECIFICATION Spec
INVARIANTS
  BoardTypeOK
  WholePicture
  PictureIsCurrent
  WalkInOrder
PROPERTIES
  ModeReachesPanel
  EveryPictureIsShown
