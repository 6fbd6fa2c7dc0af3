CONSTANTS
  red = red
  green = green
  Tile <- Tiles
  GRID_WIDTH = 3
  GRID_HEIGHT = 3
  START = 1
  Inputs <- Buttons
SYMMETRY TileSymmetry
SPECIFICATION Spec
INVARIANTS CandyTypeOK SettledBoard
PROPERTIES HonestTurn ImplementsDesktop
