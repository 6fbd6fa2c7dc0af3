CONSTANTS
  WIDTH = 3
  Taps = {0, 2}
  Seed = {0}
  SCREEN_WIDTH = 6
  SCREEN_HEIGHT = 7
  PADDLE_WIDTH = 2
  PADDLE_START = 1
  BALL_START = 1
  COLOUR_BITS = 2
  BG_COLOR = {0, 1}
  BLACK = {}
  RED = {1}
SPECIFICATION FairSpec
INVARIANTS TypeOK BallInside PictureExact NeverAllZero
PROPERTIES MissedStaysMissed ComesDown ParityChanges
