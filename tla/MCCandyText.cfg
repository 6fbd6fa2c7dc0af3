CONSTANTS
  Font <- OnePixelFont
  MAX_SCORE = 12
SPECIFICATION TextSpec
INVARIANT BlocksErased
