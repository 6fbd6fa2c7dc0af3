---------------------------- MODULE CandyScreen ----------------------------
(***************************************************************************)
(* What candycrvsh.rs draws while CandyCrush plays.  The board is drawn    *)
(* once after every turn; a round first shows the swapped board and then,  *)
(* frame by frame, whitens the matched tiles or lets the tiles above them  *)
(* fall.  A pixel of a tile is named by the tile and its place in it.      *)
(***************************************************************************)
EXTENDS CandyCrush, Integers

CONSTANTS
  TILE_SIZE,         \* 32
  CURSOR_BORDER,     \* 3
  X_MARGIN,          \* 0
  Y_MARGIN,          \* 8
  SCREEN_WIDTH,      \* 320
  WHITE, BLACK

SCREEN_HEIGHT == 2 * Y_MARGIN + GRID_HEIGHT * TILE_SIZE

ASSUME TileAssumption == TILE_SIZE \in Nat \ {0} /\ CURSOR_BORDER \in Nat

\* Without the margin the last frame of WhiteOut would leave the frame buffer.
ASSUME MarginAssumption ==
  /\ X_MARGIN \in Nat /\ Y_MARGIN \in Nat \ {0} /\ SCREEN_WIDTH \in Nat
  /\ X_MARGIN + GRID_WIDTH * TILE_SIZE <= SCREEN_WIDTH

Pixels == (0 .. SCREEN_HEIGHT - 1) \X (0 .. SCREEN_WIDTH - 1)

VARIABLES
  screen,
  frames     \* frames of this round's animation drawn so far

screenVars == <<screen, frames>>

\* The pixels of the tiles from the cell tl to before the cell br, drawn from
\* the pixel `start'.
Area(tl, br, start) ==
  (start[1] .. start[1] + (br[1] - tl[1]) * TILE_SIZE - 1)
    \X (start[2] .. start[2] + (br[2] - tl[2]) * TILE_SIZE - 1)

OnBorder(t) == t < CURSOR_BORDER \/ t >= TILE_SIZE - CURSOR_BORDER

\* The pixel at offset `at' of a drawing of the tiles from the cell tl.
TilePixel(selected, tl, at) ==
  LET cell == <<tl[1] + at[1] \div TILE_SIZE, tl[2] + at[2] \div TILE_SIZE>>
      ty == at[1] % TILE_SIZE
      tx == at[2] % TILE_SIZE
  IN  IF cell \in selected /\ (OnBorder(ty) \/ OnBorder(tx)) THEN BLACK
      ELSE <<grid[cell], ty, tx>>

\* selected is the set of the cells with a cursor: one or none.
render_grid(selected, tl, br, start) ==
  [p \in Pixels |->
    IF p \in Area(tl, br, start)
    THEN TilePixel(selected, tl, <<p[1] - start[1], p[2] - start[2]>>) ELSE screen[p]]

Corner == <<Y_MARGIN, X_MARGIN>>
Whole  == <<GRID_HEIGHT, GRID_WIDTH>>

\* The cursor, and one drawn at the transposed cell in the mutant.
SelectedXY == {<<selected_x, selected_y>>}
Selected   == {<<selected_y, selected_x>>}

WholeBoard == render_grid(Selected, <<0, 0>>, Whole, Corner)

\* The box around the matches.
match_ymin(m) == Min({c[1] : c \in m})
match_ymax(m) == Max({c[1] : c \in m})
match_xmin(m) == Min({c[2] : c \in m})
match_xmax(m) == Max({c[2] : c \in m})

\* The tiles fall by the height of the box; by a tile less, or by its distance
\* from the top, in the mutants.
ShiftFromTop(m) == (match_ymax(m) + 1) * TILE_SIZE
ShiftShort(m) == (match_ymax(m) - match_ymin(m)) * TILE_SIZE
y_shift(m)    == (match_ymax(m) - match_ymin(m) + 1) * TILE_SIZE

fb_xmin(m) == match_xmin(m) * TILE_SIZE + X_MARGIN
fb_xmax(m) == match_xmax(m) * TILE_SIZE + X_MARGIN + TILE_SIZE

\* An index out of range or a failed assertion is a panic.
Draw(cells, picture) ==
  /\ screen' = picture
  /\ phase' = IF cells \subseteq Pixels THEN phase ELSE "panic"
  /\ UNCHANGED <<grid, selected_y, selected_x, gamepad_prior>>

ScreenInit ==
  /\ Init
  /\ screen = [p \in Pixels |-> WHITE]
  /\ frames = 0

-----------------------------------------------------------------------------
Play == Turn /\ UNCHANGED screenVars

\* A round first draws the board as the swap or the round before left it.
ShowSwapped ==
  /\ phase = "match" /\ frames = 0 /\ check_matches(grid) # {}
  /\ Draw(Area(<<0, 0>>, Whole, Corner), WholeBoard)
  /\ frames' = 1

\* Matches in the top row: the box is whitened, one row of pixels a frame, and
\* one row more than it is high.
WhiteOut ==
  LET m     == check_matches(grid)
      ys    == frames - 1
      cells == {Y_MARGIN + ys} \X (fb_xmin(m) .. fb_xmax(m) - 1)
  IN /\ phase = "match" /\ m # {}
     /\ match_ymin(m) = 0 /\ frames > 0 /\ ys <= y_shift(m)
     /\ Draw(cells, [p \in Pixels |-> IF p \in cells THEN WHITE ELSE screen[p]])
     /\ frames' = frames + 1

\* Matches below it: all tiles above the box are drawn lower and lower.
FallingTiles ==
  LET m     == check_matches(grid)
      ys    == frames
      tl    == <<0, match_xmin(m)>>
      br    == <<match_ymin(m), match_xmax(m) + 1>>
      start == <<Y_MARGIN + ys, fb_xmin(m)>>
  IN /\ phase = "match" /\ m # {}
     /\ match_ymin(m) > 0 /\ frames > 0 /\ ys <= y_shift(m)
     /\ Draw(Area(tl, br, start), render_grid({}, tl, br, start))
     /\ frames' = frames + 1

\* After the last frame the board changes, and the screen does not.
Drop ==
  /\ Round
  /\ LET m == check_matches(grid) IN
       frames = y_shift(m) + (IF match_ymin(m) = 0 THEN 2 ELSE 1)
  /\ frames' = 0
  /\ UNCHANGED screen

DrawBoard ==
  /\ Settle
  /\ screen' = WholeBoard
  /\ UNCHANGED frames

ScreenNext == Play \/ ShowSwapped \/ WhiteOut \/ FallingTiles \/ Drop \/ DrawBoard

ScreenSpec == ScreenInit /\ [][ScreenNext]_<<vars, screenVars>>

-----------------------------------------------------------------------------
ShownPixel(cell, ty, tx) ==
  screen[<<Y_MARGIN + cell[1] * TILE_SIZE + ty, X_MARGIN + cell[2] * TILE_SIZE + tx>>]

\* The tile is shown whole, without cursor, in the cell.
Shows(cell, tile) ==
  \A ty, tx \in 0 .. TILE_SIZE - 1 : ShownPixel(cell, ty, tx) = <<tile, ty, tx>>

\* Between two turns the player sees the board and the cursor as they are,
\* whatever the animations before painted over; before the first turn ends
\* the screen is blank.
ShowsBoard ==
  phase = "poll" /\ screen # [p \in Pixels |-> WHITE] =>
    LET cursor == <<selected_y, selected_x>> IN
    /\ \A cell \in Cells \ {cursor} : Shows(cell, grid[cell])
    /\ \A ty, tx \in 0 .. TILE_SIZE - 1 :
         ShownPixel(cursor, ty, tx) =
           IF OnBorder(ty) \/ OnBorder(tx) THEN BLACK ELSE <<grid[cursor], ty, tx>>

\* No animation, however high its box, leaves the frame buffer or a trace
\* beside the board, where nothing would repair it.
MarginsKept ==
  /\ phase # "panic"
  /\ \A p \in Pixels :
       screen[p] # WHITE =>
         /\ p[1] \in Y_MARGIN .. Y_MARGIN + GRID_HEIGHT * TILE_SIZE - 1
         /\ p[2] \in X_MARGIN .. X_MARGIN + GRID_WIDTH * TILE_SIZE - 1

\* The last frame of a fall is where the board takes over: in a column matched
\* over the whole height of the box every tile that fell is where it was drawn
\* last, so the next drawing makes none of them jump.
LastFrame ==
  [][grid' # grid /\ phase = "match" /\ match_ymin(check_matches(grid)) > 0 =>
       LET m      == check_matches(grid)
           box    == match_ymin(m) .. match_ymax(m)
           height == match_ymax(m) - match_ymin(m) + 1
       IN \A x \in Cols :
            (\A y \in box : <<y, x>> \in m) =>
              \A y \in height .. match_ymax(m) : Shows(<<y, x>>, grid'[<<y, x>>])
    ]_<<vars, screenVars>>
=============================================================================
