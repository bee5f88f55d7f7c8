CONSTANTS
  home = home
  other = other
  a = a
  b = b
  c = c
  dead = dead
  Channel = {home}
  Home = home
  Block = {a, b, c, dead}
  Dead = {dead}
  Editions <- HoleEditions
  First <- FirstHole
  Writes = {}
  MaxEvents = 0
  None = None
SPECIFICATION Spec
PROPERTY
  DeckIsTraversed
