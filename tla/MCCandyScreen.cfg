CONSTANTS
  red = red
  green = green
  WHITE = WHITE
  BLACK = BLACK
  Tile <- Tiles
  GRID_WIDTH = 2
  GRID_HEIGHT = 5
  START = 1
  Inputs <- Buttons
  TILE_SIZE = 3
  CURSOR_BORDER = 1
  X_MARGIN = 1
  Y_MARGIN = 1
  SCREEN_WIDTH = 8
SYMMETRY TileSymmetry
SPECIFICATION ScreenSpec
INVARIANTS ShowsBoard MarginsKept
PROPERTY LastFrame
