CONSTANTS
  Creators = {c1}
  Updaters = {}
  Sizes = {1, 2, 3}
  MaxMoves = 1
SPECIFICATION PeersSpec
INVARIANT
  NodeCountTold
CHECK_DEADLOCK FALSE
