------------------------- MODULE CandyScreenProofs -------------------------
(***************************************************************************)
(* What the player sees, for every size of board, tile, border and margin  *)
(* and every frame the animations stop at.  First the arithmetic of pixels *)
(* in equal parts and of the box of the matches; then one lemma per action *)
(* for the invariant ScreenInv; last, how far the box's columns fall.      *)
(***************************************************************************)
EXTENDS CandyProofs, CandyScreen

\* Products with the size of a tile keep sums and order.
LEMMA Products ==
  ASSUME NEW a \in Int, NEW b \in Int, NEW t \in Nat
  PROVE  /\ a * t \in Int
         /\ (a + b) * t = a * t + b * t
         /\ (a - b) * t = a * t - b * t
         /\ a >= 0 => a * t >= 0
         /\ a <= b => a * t <= b * t
         /\ a + 1 <= b => a * t + t <= b * t
<1>1. /\ a * t \in Int /\ (a + b) * t = a * t + b * t /\ (a - b) * t = a * t - b * t
  OBVIOUS
<1>2. \A n \in Int : n >= 0 => n * t >= 0
  OBVIOUS
<1>3. ASSUME NEW c \in Int, c <= b
      PROVE  c * t <= b * t
  <2>1. b - c \in Int /\ b - c >= 0 /\ (b - c) * t = b * t - c * t
    BY <1>3
  <2>2. (b - c) * t >= 0
    BY <1>2, <2>1
  <2> QED
    BY <2>1, <2>2
<1>4. (a + 1) * t = a * t + t /\ a + 1 \in Int
  OBVIOUS
<1> QED
  BY <1>1, <1>2, <1>3, <1>4

\* An offset into the c-th of equal parts, divided by their size.
LEMMA Quotients ==
  ASSUME NEW size \in Nat \ {0}, NEW c \in Nat, NEW t \in 0 .. size - 1
  PROVE  (c * size + t) \div size = c /\ (c * size + t) % size = t
<1> DEFINE n == c * size + t
           q == n \div size
           r == n % size
<1>1. n \in Nat
  OBVIOUS
<1>2. q \in Int /\ r \in 0 .. size - 1 /\ n = q * size + r
  BY <1>1
<1> HIDE DEF q, r
<1>3. c * size + t = q * size + r
  BY <1>2
<1>4. ~(c + 1 <= q)
  <2> SUFFICES ASSUME c + 1 <= q PROVE FALSE
    OBVIOUS
  <2>1. c * size + size <= q * size
    BY <1>2, Products
  <2> QED
    BY <1>2, <1>3, <2>1
<1>5. ~(q + 1 <= c)
  <2> SUFFICES ASSUME q + 1 <= c PROVE FALSE
    OBVIOUS
  <2>1. q * size + size <= c * size
    BY <1>2, Products
  <2> QED
    BY <1>2, <1>3, <2>1
<1>6. q = c
  BY <1>2, <1>4, <1>5
<1>7. r = t
  BY <1>2, <1>3, <1>6
<1> QED
  BY <1>6, <1>7 DEF q, r, n

\* The least and the greatest of numbers below a bound.
LEMMA Extremes ==
  ASSUME NEW top \in Nat, NEW S \in SUBSET (0 .. top), S # {}
  PROVE  /\ Min(S) \in S /\ \A n \in S : Min(S) <= n
         /\ Max(S) \in S /\ \A n \in S : n <= Max(S)
<1>1. \E x \in S : \A y \in S : x <= y
  <2>1. S \in SUBSET Nat
    OBVIOUS
  <2> QED
    BY <2>1, LeastNumber
<1>2. \E x \in S : \A y \in S : x >= y
  <2> DEFINE T == {top - n : n \in S}
  <2>0. \A n \in 0 .. top : top - n \in Nat
    OBVIOUS
  <2>1. T \in SUBSET Nat /\ T # {}
    BY <2>0
  <2>2. PICK z \in T : \A u \in T : z <= u
    BY <2>1, LeastNumber
  <2>3. PICK x \in S : z = top - x
    OBVIOUS
  <2>4. ASSUME NEW y \in S
        PROVE  x >= y
    <3>1. top - x <= top - y
      BY <2>2, <2>3
    <3>2. x \in Int /\ y \in Int
      OBVIOUS
    <3> QED
      BY <3>1, <3>2
  <2> QED
    BY <2>4
<1>3. Min(S) \in S /\ \A n \in S : Min(S) <= n
  BY <1>1 DEF Min
<1>4. Max(S) \in S /\ \A n \in S : Max(S) >= n
  BY <1>2 DEF Max
<1>5. \A n \in S : n \in Int
  OBVIOUS
<1> QED
  BY <1>3, <1>4, <1>5


\* The box around some matches.
LEMMA BoxParts ==
  ASSUME NEW m \in SUBSET Cells, m # {}
  PROVE  /\ match_ymin(m) \in Rows /\ match_ymax(m) \in Rows
         /\ match_xmin(m) \in Cols /\ match_xmax(m) \in Cols
         /\ match_ymin(m) <= match_ymax(m) /\ match_xmin(m) <= match_xmax(m)
         /\ \A c \in m : /\ match_ymin(m) <= c[1] /\ c[1] <= match_ymax(m)
                         /\ match_xmin(m) <= c[2] /\ c[2] <= match_xmax(m)
<1> DEFINE ys == {c[1] : c \in m}
           xs == {c[2] : c \in m}
<1>1. \A c \in m : c[1] \in Rows /\ c[2] \in Cols
  BY CellParts
<1>2. /\ ys # {} /\ ys \in SUBSET (0 .. GRID_HEIGHT - 1) /\ GRID_HEIGHT - 1 \in Nat
      /\ xs # {} /\ xs \in SUBSET (0 .. GRID_WIDTH - 1) /\ GRID_WIDTH - 1 \in Nat
  BY <1>1, SizeAssumption DEF Rows, Cols
<1> HIDE DEF ys, xs
<1>3. Min(ys) \in ys /\ (\A n \in ys : Min(ys) <= n) /\ Max(ys) \in ys /\ (\A n \in ys : n <= Max(ys))
  BY <1>2, Extremes
<1>4. Min(xs) \in xs /\ (\A n \in xs : Min(xs) <= n) /\ Max(xs) \in xs /\ (\A n \in xs : n <= Max(xs))
  BY <1>2, Extremes
<1>5. /\ match_ymin(m) = Min(ys) /\ match_ymax(m) = Max(ys)
      /\ match_xmin(m) = Min(xs) /\ match_xmax(m) = Max(xs)
  BY DEF match_ymin, match_ymax, match_xmin, match_xmax, ys, xs
<1>6. \A c \in m : c[1] \in ys /\ c[2] \in xs
  BY DEF ys, xs
<1> QED
  BY <1>2, <1>3, <1>4, <1>5, <1>6 DEF Rows, Cols

\* The part of the screen that shows the board.
BoardPixels == Area(<<0, 0>>, Whole, Corner)

\* The board with its margins fits the screen.
LEMMA ScreenSizes ==
  /\ TILE_SIZE \in Nat /\ TILE_SIZE > 0
  /\ X_MARGIN \in Nat /\ Y_MARGIN \in Nat /\ Y_MARGIN > 0
  /\ GRID_HEIGHT * TILE_SIZE \in Int /\ GRID_WIDTH * TILE_SIZE \in Int
  /\ SCREEN_WIDTH \in Nat /\ SCREEN_WIDTH >= X_MARGIN + GRID_WIDTH * TILE_SIZE
  /\ SCREEN_HEIGHT = 2 * Y_MARGIN + GRID_HEIGHT * TILE_SIZE
  BY Sizes, TileAssumption, MarginAssumption DEF SCREEN_HEIGHT

\* The pixels of the board are a box.
LEMMA BoardArea ==
  BoardPixels = (Y_MARGIN .. Y_MARGIN + GRID_HEIGHT * TILE_SIZE - 1)
                  \X (X_MARGIN .. X_MARGIN + GRID_WIDTH * TILE_SIZE - 1)
<1>1. GRID_HEIGHT - 0 = GRID_HEIGHT /\ GRID_WIDTH - 0 = GRID_WIDTH
  BY Sizes
<1> QED
  BY <1>1 DEF BoardPixels, Area, Whole, Corner

\* The board is on the screen.
LEMMA BoardOnScreen == BoardPixels \subseteq Pixels
<1>1. /\ 0 <= Y_MARGIN /\ Y_MARGIN + GRID_HEIGHT * TILE_SIZE - 1 <= SCREEN_HEIGHT - 1
      /\ 0 <= X_MARGIN /\ X_MARGIN + GRID_WIDTH * TILE_SIZE - 1 <= SCREEN_WIDTH - 1
      /\ SCREEN_HEIGHT \in Int
  BY ScreenSizes
<1> QED
  BY <1>1, BoardArea, ScreenSizes DEF Pixels

\* The box in pixels.
LEMMA BoxPixels ==
  ASSUME NEW m \in SUBSET Cells, m # {}
  PROVE  LET y0 == match_ymin(m) * TILE_SIZE
             y1 == match_ymax(m) * TILE_SIZE
             x0 == match_xmin(m) * TILE_SIZE
             x1 == match_xmax(m) * TILE_SIZE
         IN /\ y0 \in Int /\ y1 \in Int /\ x0 \in Int /\ x1 \in Int
            /\ 0 <= y0 /\ y0 <= y1 /\ y1 + TILE_SIZE <= GRID_HEIGHT * TILE_SIZE
            /\ 0 <= x0 /\ x0 <= x1 /\ x1 + TILE_SIZE <= GRID_WIDTH * TILE_SIZE
            /\ y_shift(m) = y1 - y0 + TILE_SIZE
            /\ (match_ymin(m) - 0) * TILE_SIZE = y0
            /\ ((match_xmax(m) + 1) - match_xmin(m)) * TILE_SIZE = x1 - x0 + TILE_SIZE
<1> DEFINE ya == match_ymin(m)
           yb == match_ymax(m)
           xa == match_xmin(m)
           xb == match_xmax(m)
<1>1. /\ ya \in Int /\ yb \in Int /\ 0 <= ya /\ ya <= yb /\ yb + 1 <= GRID_HEIGHT
      /\ xa \in Int /\ xb \in Int /\ 0 <= xa /\ xa <= xb /\ xb + 1 <= GRID_WIDTH
  BY BoxParts, Sizes DEF Rows, Cols
<1>2. y_shift(m) = (yb - ya + 1) * TILE_SIZE
  BY DEF y_shift
<1> HIDE DEF ya, yb, xa, xb
<1>3. /\ ya * TILE_SIZE \in Int /\ yb * TILE_SIZE \in Int
      /\ 0 <= ya * TILE_SIZE /\ ya * TILE_SIZE <= yb * TILE_SIZE
      /\ yb * TILE_SIZE + TILE_SIZE <= GRID_HEIGHT * TILE_SIZE
  BY <1>1, ScreenSizes, Sizes, Products
<1>4. /\ xa * TILE_SIZE \in Int /\ xb * TILE_SIZE \in Int
      /\ 0 <= xa * TILE_SIZE /\ xa * TILE_SIZE <= xb * TILE_SIZE
      /\ xb * TILE_SIZE + TILE_SIZE <= GRID_WIDTH * TILE_SIZE
  BY <1>1, ScreenSizes, Sizes, Products
<1>5. /\ (yb - ya + 1) * TILE_SIZE = yb * TILE_SIZE - ya * TILE_SIZE + TILE_SIZE
      /\ ((xb + 1) - xa) * TILE_SIZE = xb * TILE_SIZE - xa * TILE_SIZE + TILE_SIZE
      /\ ya - 0 = ya
  BY <1>1, ScreenSizes
<1> QED
  BY <1>2, <1>3, <1>4, <1>5 DEF ya, yb, xa, xb

\* A row that WhiteOut whitens.
LEMMA WhiteOnScreen ==
  ASSUME NEW m \in SUBSET Cells, m # {}, match_ymin(m) = 0,
         NEW ys \in Nat, ys <= y_shift(m)
  PROVE  {Y_MARGIN + ys} \X (fb_xmin(m) .. fb_xmax(m) - 1) \subseteq Pixels
<1> DEFINE y1 == match_ymax(m) * TILE_SIZE
           x0 == match_xmin(m) * TILE_SIZE
           x1 == match_xmax(m) * TILE_SIZE
<1>1. /\ y1 \in Int /\ x0 \in Int /\ x1 \in Int
      /\ y1 + TILE_SIZE <= GRID_HEIGHT * TILE_SIZE
      /\ 0 <= x0 /\ x0 <= x1 /\ x1 + TILE_SIZE <= GRID_WIDTH * TILE_SIZE
      /\ y_shift(m) = y1 - match_ymin(m) * TILE_SIZE + TILE_SIZE
  BY BoxPixels
<1>2. y_shift(m) = y1 + TILE_SIZE
  BY <1>1, ScreenSizes
<1>3. fb_xmin(m) = x0 + X_MARGIN /\ fb_xmax(m) = x1 + X_MARGIN + TILE_SIZE
  BY DEF fb_xmin, fb_xmax
<1> HIDE DEF y1, x0, x1
<1>4. Y_MARGIN + ys \in 0 .. SCREEN_HEIGHT - 1
  BY <1>1, <1>2, ScreenSizes
<1>5. \A x \in fb_xmin(m) .. fb_xmax(m) - 1 : x \in 0 .. SCREEN_WIDTH - 1
  BY <1>1, <1>3, ScreenSizes
<1> QED
  BY <1>4, <1>5 DEF Pixels

\* The area of a drawing is a box from its start.
LEMMA AreaParts ==
  ASSUME NEW t, NEW l, NEW b, NEW r, NEW y, NEW x
  PROVE  Area(<<t, l>>, <<b, r>>, <<y, x>>)
           = (y .. y + (b - t) * TILE_SIZE - 1) \X (x .. x + (r - l) * TILE_SIZE - 1)
  BY DEF Area

\* Where FallingTiles draws the tiles above the box, ys pixels lower.
FallArea(m, ys) ==
  Area(<<0, match_xmin(m)>>, <<match_ymin(m), match_xmax(m) + 1>>, <<Y_MARGIN + ys, fb_xmin(m)>>)

\* The falling region is the box above the matches, moved down.
LEMMA FallAreaParts ==
  ASSUME NEW m \in SUBSET Cells, m # {}, NEW ys \in Nat
  PROVE  FallArea(m, ys)
           = (Y_MARGIN + ys .. Y_MARGIN + ys + match_ymin(m) * TILE_SIZE - 1)
               \X (X_MARGIN + match_xmin(m) * TILE_SIZE
                     .. X_MARGIN + match_xmax(m) * TILE_SIZE + TILE_SIZE - 1)
<1>1. /\ (match_ymin(m) - 0) * TILE_SIZE = match_ymin(m) * TILE_SIZE
      /\ ((match_xmax(m) + 1) - match_xmin(m)) * TILE_SIZE
           = match_xmax(m) * TILE_SIZE - match_xmin(m) * TILE_SIZE + TILE_SIZE
      /\ match_xmin(m) * TILE_SIZE \in Int /\ match_xmax(m) * TILE_SIZE \in Int
  BY BoxPixels
<1>2. FallArea(m, ys)
        = (Y_MARGIN + ys .. Y_MARGIN + ys + (match_ymin(m) - 0) * TILE_SIZE - 1)
            \X (fb_xmin(m) .. fb_xmin(m) + ((match_xmax(m) + 1) - match_xmin(m)) * TILE_SIZE - 1)
  <2> DEFINE l == match_xmin(m)
             b == match_ymin(m)
             r == match_xmax(m) + 1
             y == Y_MARGIN + ys
             x == fb_xmin(m)
  <2>1. FallArea(m, ys) = Area(<<0, l>>, <<b, r>>, <<y, x>>)
    BY DEF FallArea
  <2> HIDE DEF l, b, r, y, x
  <2>2. Area(<<0, l>>, <<b, r>>, <<y, x>>)
          = (y .. y + (b - 0) * TILE_SIZE - 1) \X (x .. x + (r - l) * TILE_SIZE - 1)
    BY AreaParts
  <2> QED
    BY <2>1, <2>2 DEF l, b, r, y, x
<1> DEFINE x0 == match_xmin(m) * TILE_SIZE
           x1 == match_xmax(m) * TILE_SIZE
<1>3. fb_xmin(m) = x0 + X_MARGIN /\ x0 \in Int /\ x1 \in Int
  BY <1>1 DEF fb_xmin
<1> HIDE DEF x0, x1
<1>4. /\ fb_xmin(m) = X_MARGIN + x0
      /\ fb_xmin(m) + (x1 - x0 + TILE_SIZE) - 1 = X_MARGIN + x1 + TILE_SIZE - 1
  BY <1>3, ScreenSizes
<1> QED
  BY <1>1, <1>2, <1>4 DEF x0, x1

\* However far it has fallen, it is on the board.
LEMMA FallOnBoard ==
  ASSUME NEW m \in SUBSET Cells, m # {}, NEW ys \in Nat, ys <= y_shift(m)
  PROVE  FallArea(m, ys) \subseteq BoardPixels
<1> DEFINE y0 == match_ymin(m) * TILE_SIZE
           y1 == match_ymax(m) * TILE_SIZE
           x0 == match_xmin(m) * TILE_SIZE
           x1 == match_xmax(m) * TILE_SIZE
<1>1. /\ y0 \in Int /\ y1 \in Int /\ x0 \in Int /\ x1 \in Int
      /\ y1 + TILE_SIZE <= GRID_HEIGHT * TILE_SIZE
      /\ 0 <= x0 /\ x1 + TILE_SIZE <= GRID_WIDTH * TILE_SIZE
      /\ y_shift(m) = y1 - y0 + TILE_SIZE
  BY BoxPixels
<1>2. FallArea(m, ys) = (Y_MARGIN + ys .. Y_MARGIN + ys + y0 - 1)
                          \X (X_MARGIN + x0 .. X_MARGIN + x1 + TILE_SIZE - 1)
  BY FallAreaParts
<1> HIDE DEF y0, y1, x0, x1
<1>3. /\ Y_MARGIN <= Y_MARGIN + ys
      /\ Y_MARGIN + ys + y0 - 1 <= Y_MARGIN + GRID_HEIGHT * TILE_SIZE - 1
      /\ X_MARGIN <= X_MARGIN + x0
      /\ X_MARGIN + x1 + TILE_SIZE - 1 <= X_MARGIN + GRID_WIDTH * TILE_SIZE - 1
  BY <1>1, ScreenSizes
<1> QED
  BY <1>1, <1>2, <1>3, BoardArea, ScreenSizes

-----------------------------------------------------------------------------
\* What the last frame of a fall has drawn.
FallShown ==
  LET m == check_matches(grid) IN
  phase = "match" /\ m # {} /\ match_ymin(m) > 0 /\ frames > 1 =>
    \A p \in FallArea(m, frames - 1) :
      screen[p] = TilePixel({}, <<0, match_xmin(m)>>,
                            <<p[1] - (Y_MARGIN + (frames - 1)), p[2] - fb_xmin(m)>>)

AnyScreen == screen = [p \in Pixels |-> screen[p]] /\ frames \in Nat

\* The animation of a round starts with its first frame.
Unanimated == phase = "poll" \/ check_matches(grid) = {} => frames = 0

ScreenInv ==
  Inv /\ AnyScreen /\ Unanimated /\ MarginsKept /\ ShowsBoard /\ FallShown

\* A pixel of the screen is on the board if it is between the margins.
LEMMA OnBoard ==
  ASSUME NEW p \in Pixels
  PROVE  p \in BoardPixels <=>
           /\ p[1] \in Y_MARGIN .. Y_MARGIN + GRID_HEIGHT * TILE_SIZE - 1
           /\ p[2] \in X_MARGIN .. X_MARGIN + GRID_WIDTH * TILE_SIZE - 1
  BY BoardArea DEF Pixels

\* A drawing within the board.
LEMMA DrawsOnBoard ==
  ASSUME Inv, MarginsKept, NEW cells, cells \subseteq BoardPixels,
         NEW picture, picture = [p \in Pixels |-> picture[p]],
         \A p \in Pixels \ cells : picture[p] = screen[p],
         Draw(cells, picture)
  PROVE  /\ Inv' /\ UNCHANGED vars
         /\ screen' = picture /\ screen' = [p \in Pixels |-> screen'[p]]
         /\ MarginsKept'
<1>1. cells \subseteq Pixels
  BY BoardOnScreen
<1>2. UNCHANGED vars
  BY <1>1 DEF Draw, vars
<1>3. Inv'
  BY <1>2, StepKeeps
<1>4. screen' = picture
  BY DEF Draw
<1>5. phase' # "panic"
  BY <1>3 DEF Inv, CandyTypeOK
<1>6. \A p \in Pixels \ BoardPixels : screen'[p] = WHITE
  <2>1. \A p \in Pixels \ BoardPixels : screen[p] = WHITE
    BY OnBoard DEF MarginsKept
  <2> QED
    BY <1>4, <2>1
<1>7. MarginsKept'
  <2> SUFFICES ASSUME NEW p \in Pixels, screen'[p] # WHITE
               PROVE  p \in BoardPixels
    BY <1>5, OnBoard DEF MarginsKept
  <2> QED
    BY <1>6
<1> QED
  BY <1>2, <1>3, <1>4, <1>7

-----------------------------------------------------------------------------
Offsets == 0 .. TILE_SIZE - 1

\* The pixel of a tile at an offset from the start of a drawing.
LEMMA TileAt ==
  ASSUME NEW selected, NEW t \in Int, NEW l \in Int, NEW dy \in Nat, NEW dx \in Nat,
         NEW ty \in Offsets, NEW tx \in Offsets
  PROVE  TilePixel(selected, <<t, l>>, <<dy * TILE_SIZE + ty, dx * TILE_SIZE + tx>>)
           = IF <<t + dy, l + dx>> \in selected /\ (OnBorder(ty) \/ OnBorder(tx)) THEN BLACK
             ELSE <<grid[<<t + dy, l + dx>>], ty, tx>>
<1> DEFINE y == dy * TILE_SIZE + ty
           x == dx * TILE_SIZE + tx
<1>1. TILE_SIZE \in Nat \ {0}
  BY ScreenSizes
<1>2. y \div TILE_SIZE = dy /\ y % TILE_SIZE = ty
  BY <1>1, Quotients DEF Offsets
<1>3. x \div TILE_SIZE = dx /\ x % TILE_SIZE = tx
  BY <1>1, Quotients DEF Offsets
<1> HIDE DEF y, x
<1>4. TilePixel(selected, <<t, l>>, <<y, x>>)
        = IF <<t + (y \div TILE_SIZE), l + (x \div TILE_SIZE)>> \in selected
               /\ (OnBorder(y % TILE_SIZE) \/ OnBorder(x % TILE_SIZE))
          THEN BLACK
          ELSE <<grid[<<t + (y \div TILE_SIZE), l + (x \div TILE_SIZE)>>],
                 y % TILE_SIZE, x % TILE_SIZE>>
  BY DEF TilePixel
<1> QED
  BY <1>2, <1>3, <1>4 DEF y, x

\* A cell of the board is drawn within it.
LEMMA PixelOnBoard ==
  ASSUME NEW y \in Rows, NEW x \in Cols, NEW ty \in Offsets, NEW tx \in Offsets
  PROVE  /\ y * TILE_SIZE \in Int /\ x * TILE_SIZE \in Int
         /\ y * TILE_SIZE >= 0 /\ x * TILE_SIZE >= 0
         /\ <<Y_MARGIN + y * TILE_SIZE + ty, X_MARGIN + x * TILE_SIZE + tx>> \in BoardPixels
         /\ <<Y_MARGIN + y * TILE_SIZE + ty, X_MARGIN + x * TILE_SIZE + tx>> \in Pixels
<1>1. /\ y \in Int /\ 0 <= y /\ y + 1 <= GRID_HEIGHT /\ x \in Int /\ 0 <= x /\ x + 1 <= GRID_WIDTH
      /\ GRID_HEIGHT \in Int /\ GRID_WIDTH \in Int
  BY Sizes DEF Rows, Cols
<1>2. y * TILE_SIZE \in Int /\ y * TILE_SIZE >= 0
      /\ y * TILE_SIZE + TILE_SIZE <= GRID_HEIGHT * TILE_SIZE
  BY <1>1, ScreenSizes, Products
<1>3. x * TILE_SIZE \in Int /\ x * TILE_SIZE >= 0
      /\ x * TILE_SIZE + TILE_SIZE <= GRID_WIDTH * TILE_SIZE
  BY <1>1, ScreenSizes, Products
<1> DEFINE v == y * TILE_SIZE
           u == x * TILE_SIZE
           p == Y_MARGIN + v + ty
           q == X_MARGIN + u + tx
<1> HIDE DEF v, u
<1>4. /\ Y_MARGIN <= p /\ p <= Y_MARGIN + GRID_HEIGHT * TILE_SIZE - 1 /\ p \in Int
      /\ X_MARGIN <= q /\ q <= X_MARGIN + GRID_WIDTH * TILE_SIZE - 1 /\ q \in Int
  BY <1>2, <1>3, ScreenSizes DEF Offsets, v, u
<1> HIDE DEF p, q
<1>5. <<p, q>> \in BoardPixels
  BY <1>4, BoardArea, ScreenSizes
<1> QED
  BY <1>2, <1>3, <1>5, BoardOnScreen DEF v, u, p, q

\* The board and the cursor, drawn.
LEMMA WholeBoardShows ==
  ASSUME CandyTypeOK, NEW y \in Rows, NEW x \in Cols, NEW ty \in Offsets, NEW tx \in Offsets
  PROVE  WholeBoard[<<Y_MARGIN + y * TILE_SIZE + ty, X_MARGIN + x * TILE_SIZE + tx>>]
           = IF <<y, x>> \in Selected /\ (OnBorder(ty) \/ OnBorder(tx)) THEN BLACK
             ELSE <<grid[<<y, x>>], ty, tx>>
<1> DEFINE v == y * TILE_SIZE
           u == x * TILE_SIZE
           p == <<Y_MARGIN + v + ty, X_MARGIN + u + tx>>
<1>1. p \in BoardPixels /\ p \in Pixels /\ v \in Int /\ u \in Int
  BY PixelOnBoard
<1>2. TilePixel(Selected, <<0, 0>>, <<v + ty, u + tx>>)
        = IF <<0 + y, 0 + x>> \in Selected /\ (OnBorder(ty) \/ OnBorder(tx)) THEN BLACK
          ELSE <<grid[<<0 + y, 0 + x>>], ty, tx>>
  <2>1. y \in Nat /\ x \in Nat /\ 0 \in Int
    BY Sizes DEF Rows, Cols
  <2> QED
    BY <2>1, TileAt
<1> HIDE DEF v, u
<1>3. WholeBoard[p] = TilePixel(Selected, <<0, 0>>, <<p[1] - Corner[1], p[2] - Corner[2]>>)
  BY <1>1 DEF WholeBoard, render_grid, BoardPixels
<1>4. p[1] - Corner[1] = v + ty /\ p[2] - Corner[2] = u + tx
  BY <1>1, ScreenSizes DEF Corner, Offsets
<1>5. 0 + y = y /\ 0 + x = x
  BY Sizes
<1> QED
  BY <1>2, <1>3, <1>4, <1>5 DEF v, u, p

\* Every cell is drawn as the player is to see it.
LEMMA WholeBoardIsShown ==
  ASSUME CandyTypeOK, screen' = WholeBoard, UNCHANGED <<grid, selected_y, selected_x>>
  PROVE  ShowsBoard'
<1>1. \A cell \in Cells : \A ty, tx \in Offsets :
        ShownPixel(cell, ty, tx)'
          = IF cell \in Selected /\ (OnBorder(ty) \/ OnBorder(tx)) THEN BLACK
            ELSE <<grid[cell], ty, tx>>
  <2> TAKE cell \in Cells
  <2> TAKE ty, tx \in Offsets
  <2>1. PICK y \in Rows, x \in Cols : cell = <<y, x>>
    BY DEF Cells
  <2>2. cell[1] = y /\ cell[2] = x
    BY <2>1
  <2>3. ShownPixel(cell, ty, tx)'
          = WholeBoard[<<Y_MARGIN + y * TILE_SIZE + ty, X_MARGIN + x * TILE_SIZE + tx>>]
    BY <2>2 DEF ShownPixel
  <2> QED
    BY <2>1, <2>3, WholeBoardShows
<1>2. <<selected_y, selected_x>> \in Cells
  BY DEF CandyTypeOK, Cells
<1>3. Selected = {<<selected_y, selected_x>>}
  BY DEF Selected
<1>4. grid' = grid /\ selected_y' = selected_y /\ selected_x' = selected_x
  OBVIOUS
<1>5. \A cell \in Cells \ {<<selected_y, selected_x>>} : Shows(cell, grid[cell])'
  BY <1>1, <1>3 DEF Shows, Offsets
<1>6. \A ty, tx \in Offsets :
        ShownPixel(<<selected_y, selected_x>>, ty, tx)'
          = IF OnBorder(ty) \/ OnBorder(tx) THEN BLACK
            ELSE <<grid[<<selected_y, selected_x>>], ty, tx>>
  BY <1>1, <1>2, <1>3
<1> QED
  BY <1>4, <1>5, <1>6 DEF ShowsBoard, Shows, ShownPixel, Offsets

-----------------------------------------------------------------------------
\* Outside the frames of an animation the invariant says nothing of the fall.
LEMMA PlayKeeps ==
  ASSUME ScreenInv, Play
  PROVE  ScreenInv'
<1>1. Turn /\ UNCHANGED <<screen, frames>> /\ phase = "poll" /\ phase' = "match"
  BY DEF Play, screenVars, Turn
<1>2. Inv'
  BY <1>1, StepKeeps DEF ScreenInv, Next
<1>3. frames = 0
  BY <1>1 DEF ScreenInv, Unanimated
<1>4. AnyScreen' /\ Unanimated' /\ FallShown'
  BY <1>1, <1>3 DEF ScreenInv, AnyScreen, Unanimated, FallShown
<1>5. MarginsKept' /\ ShowsBoard'
  BY <1>1 DEF ScreenInv, MarginsKept, ShowsBoard
<1> QED
  BY <1>2, <1>4, <1>5 DEF ScreenInv

\* The frame of the swapped tiles draws the whole board.
LEMMA ShowSwappedKeeps ==
  ASSUME ScreenInv, ShowSwapped
  PROVE  ScreenInv'
<1>1. /\ phase = "match" /\ check_matches(grid) # {} /\ frames' = 1
      /\ Draw(BoardPixels, WholeBoard)
  BY DEF ShowSwapped, BoardPixels
<1>2. /\ WholeBoard = [p \in Pixels |-> WholeBoard[p]]
      /\ \A p \in Pixels \ BoardPixels : WholeBoard[p] = screen[p]
  BY DEF WholeBoard, render_grid, BoardPixels
<1>3. Inv' /\ UNCHANGED vars /\ screen' = [p \in Pixels |-> screen'[p]] /\ MarginsKept'
  BY <1>1, <1>2, DrawsOnBoard DEF ScreenInv
<1>4. UNCHANGED <<grid, phase>> /\ check_matches(grid') = check_matches(grid)
  BY <1>3 DEF vars
<1>5. AnyScreen' /\ Unanimated' /\ ShowsBoard' /\ FallShown'
  BY <1>1, <1>3, <1>4 DEF AnyScreen, Unanimated, ShowsBoard, FallShown
<1> QED
  BY <1>3, <1>5 DEF ScreenInv

\* A white frame whitens a row of pixels, of the board or of the margin below.
LEMMA WhiteOutKeeps ==
  ASSUME ScreenInv, WhiteOut
  PROVE  ScreenInv'
<1> DEFINE m       == check_matches(grid)
           ys      == frames - 1
           cells   == {Y_MARGIN + ys} \X (fb_xmin(m) .. fb_xmax(m) - 1)
           picture == [p \in Pixels |-> IF p \in cells THEN WHITE ELSE screen[p]]
<1>1. /\ phase = "match" /\ m # {} /\ match_ymin(m) = 0 /\ frames > 0 /\ ys <= y_shift(m)
      /\ Draw(cells, picture) /\ frames' = frames + 1
  BY DEF WhiteOut
<1>2. m \in SUBSET Cells /\ ys \in Nat /\ frames \in Nat
  BY <1>1, MatchesOnBoard DEF ScreenInv, AnyScreen
<1> HIDE DEF m, ys
<1>3. cells \subseteq Pixels
  BY <1>1, <1>2, WhiteOnScreen
<1>4. /\ picture = [p \in Pixels |-> picture[p]]
      /\ \A p \in Pixels : picture[p] = screen[p] \/ picture[p] = WHITE
  OBVIOUS
<1> HIDE DEF cells, picture
<1>5. UNCHANGED vars /\ screen' = picture
  BY <1>1, <1>3 DEF Draw, vars
<1>6. Inv'
  BY <1>5, StepKeeps DEF ScreenInv
<1>7. UNCHANGED <<grid, phase>> /\ check_matches(grid') = m
  BY <1>5 DEF vars, m
<1>8. AnyScreen' /\ Unanimated' /\ ShowsBoard' /\ FallShown'
  BY <1>1, <1>2, <1>4, <1>5, <1>7 DEF AnyScreen, Unanimated, ShowsBoard, FallShown
<1>9. MarginsKept'
  BY <1>4, <1>5, <1>7 DEF ScreenInv, MarginsKept
<1> QED
  BY <1>6, <1>8, <1>9 DEF ScreenInv

\* A frame of the fall draws the region one pixel further down.
LEMMA FallingTilesKeeps ==
  ASSUME ScreenInv, FallingTiles
  PROVE  ScreenInv'
<1> DEFINE m     == check_matches(grid)
           tl    == <<0, match_xmin(m)>>
           br    == <<match_ymin(m), match_xmax(m) + 1>>
           start == <<Y_MARGIN + frames, fb_xmin(m)>>
           cells == FallArea(m, frames)
           picture == render_grid({}, tl, br, start)
<1>1. /\ phase = "match" /\ m # {} /\ match_ymin(m) > 0 /\ frames > 0 /\ frames <= y_shift(m)
      /\ Draw(cells, picture) /\ frames' = frames + 1
  BY DEF FallingTiles, FallArea
<1>2. m \in SUBSET Cells /\ frames \in Nat
  BY MatchesOnBoard DEF ScreenInv, AnyScreen
<1>3. /\ picture = [p \in Pixels |-> picture[p]]
      /\ \A p \in Pixels \ cells : picture[p] = screen[p]
      /\ \A p \in Pixels \cap cells :
           picture[p] = TilePixel({}, tl, <<p[1] - (Y_MARGIN + frames), p[2] - fb_xmin(m)>>)
  BY DEF render_grid, FallArea
<1> HIDE DEF m, picture, cells, tl
<1>4. cells \subseteq BoardPixels
  BY <1>1, <1>2, FallOnBoard DEF cells
<1>5. /\ Inv' /\ UNCHANGED vars /\ screen' = picture
      /\ screen' = [p \in Pixels |-> screen'[p]] /\ MarginsKept'
  BY <1>1, <1>3, <1>4, DrawsOnBoard DEF ScreenInv
<1>6. UNCHANGED <<grid, phase>> /\ check_matches(grid') = m
  BY <1>5 DEF vars, m
<1>7. AnyScreen' /\ Unanimated' /\ ShowsBoard'
  BY <1>1, <1>2, <1>5, <1>6 DEF AnyScreen, Unanimated, ShowsBoard
<1>8. FallShown'
  <2>1. frames' - 1 = frames
    BY <1>1, <1>2
  <2>2. \A p \in FallArea(m, frames) :
          screen'[p] = TilePixel({}, <<0, match_xmin(m)>>,
                                 <<p[1] - (Y_MARGIN + frames), p[2] - fb_xmin(m)>>)
    BY <1>3, <1>4, <1>5, BoardOnScreen DEF cells, tl
  <2>3. ASSUME NEW l, NEW at
        PROVE  TilePixel({}, <<0, l>>, at)' = TilePixel({}, <<0, l>>, at)
    BY <1>6 DEF TilePixel
  <2> QED
    BY <1>6, <2>1, <2>2, <2>3 DEF FallShown
<1> QED
  BY <1>5, <1>7, <1>8 DEF ScreenInv

\* The round itself draws nothing.
LEMMA DropKeeps ==
  ASSUME ScreenInv, Drop
  PROVE  ScreenInv'
<1>1. Round /\ frames' = 0 /\ UNCHANGED <<screen, phase>> /\ phase = "match"
  BY DEF Drop, Round
<1>2. Inv'
  BY <1>1, StepKeeps DEF ScreenInv, Next
<1>3. AnyScreen' /\ Unanimated' /\ MarginsKept' /\ ShowsBoard' /\ FallShown'
  BY <1>1 DEF ScreenInv, AnyScreen, Unanimated, MarginsKept, ShowsBoard, FallShown
<1> QED
  BY <1>2, <1>3 DEF ScreenInv

\* The drawing at the end repairs whatever the animations left.
LEMMA DrawBoardKeeps ==
  ASSUME ScreenInv, DrawBoard
  PROVE  ScreenInv'
<1>1. /\ Settle /\ screen' = WholeBoard /\ frames' = frames /\ phase' = "poll"
      /\ check_matches(grid) = {} /\ UNCHANGED <<grid, selected_y, selected_x>>
  BY DEF DrawBoard, Settle
<1>2. Inv'
  BY <1>1, StepKeeps DEF ScreenInv, Next
<1>3. /\ WholeBoard = [p \in Pixels |-> WholeBoard[p]]
      /\ \A p \in Pixels \ BoardPixels : WholeBoard[p] = screen[p]
  BY DEF WholeBoard, render_grid, BoardPixels
<1>4. AnyScreen' /\ Unanimated' /\ FallShown'
  BY <1>1, <1>3 DEF ScreenInv, AnyScreen, Unanimated, FallShown
<1>5. ShowsBoard'
  BY <1>1, WholeBoardIsShown DEF ScreenInv, Inv
<1>6. MarginsKept'
  <2> SUFFICES ASSUME NEW p \in Pixels, screen'[p] # WHITE
               PROVE  p \in BoardPixels
    BY <1>1, OnBoard DEF MarginsKept
  <2> QED
    BY <1>1, <1>3, OnBoard DEF ScreenInv, MarginsKept
<1> QED
  BY <1>2, <1>4, <1>5, <1>6 DEF ScreenInv

\* Every step of the game and its animations preserves the invariant.
LEMMA ScreenInvariance == ScreenSpec => []ScreenInv
<1>1. ScreenInit => ScreenInv
  <2> SUFFICES ASSUME ScreenInit
               PROVE  ScreenInv
    OBVIOUS
  <2>1. Inv
    <3>1. check_matches(grid) = {}
      BY MixedIsSettled DEF ScreenInit, Init
    <3> QED
      BY <3>1, Sizes DEF ScreenInit, Init, Inv, CandyTypeOK, SettledBoard
  <2>2. phase = "poll" /\ screen = [p \in Pixels |-> WHITE] /\ frames = 0
    BY DEF ScreenInit, Init
  <2> QED
    BY <2>1, <2>2 DEF ScreenInv, AnyScreen, Unanimated, MarginsKept, ShowsBoard, FallShown
<1>2. ScreenInv /\ [ScreenNext]_<<vars, screenVars>> => ScreenInv'
  <2> SUFFICES ASSUME ScreenInv, [ScreenNext]_<<vars, screenVars>>
               PROVE  ScreenInv'
    OBVIOUS
  <2>1. CASE Play
    BY <2>1, PlayKeeps
  <2>2. CASE ShowSwapped
    BY <2>2, ShowSwappedKeeps
  <2>3. CASE WhiteOut
    BY <2>3, WhiteOutKeeps
  <2>4. CASE FallingTiles
    BY <2>4, FallingTilesKeeps
  <2>5. CASE Drop
    BY <2>5, DropKeeps
  <2>6. CASE DrawBoard
    BY <2>6, DrawBoardKeeps
  <2>7. CASE UNCHANGED <<vars, screenVars>>
    <3>1. Inv'
      BY <2>7, StepKeeps DEF ScreenInv
    <3>2. /\ UNCHANGED <<grid, phase, selected_y, selected_x, screen, frames>>
          /\ check_matches(grid') = check_matches(grid)
      BY <2>7 DEF vars, screenVars
    <3>3. AnyScreen' /\ Unanimated' /\ MarginsKept'
      BY <3>2 DEF ScreenInv, AnyScreen, Unanimated, MarginsKept
    <3>4. ShowsBoard'
      BY <3>2 DEF ScreenInv, ShowsBoard, Shows, ShownPixel
    <3>5. FallShown'
      BY <3>2 DEF ScreenInv, FallShown, TilePixel
    <3> QED
      BY <3>1, <3>3, <3>4, <3>5 DEF ScreenInv
  <2> QED
    BY <2>1, <2>2, <2>3, <2>4, <2>5, <2>6, <2>7 DEF ScreenNext
<1> QED
  BY <1>1, <1>2, PTL DEF ScreenSpec

\* Between two turns the player sees the board and the cursor as they are, on a
\* board and with tiles of any size, whatever the animations painted over.
THEOREM BoardIsShown == ScreenSpec => []ShowsBoard
<1>1. ScreenInv => ShowsBoard
  BY DEF ScreenInv
<1> QED
  BY <1>1, ScreenInvariance, PTL

\* No animation panics or leaves a trace beside the board, however high its box
\* and however large the tiles and the margin.
THEOREM MarginsStayBlank == ScreenSpec => []MarginsKept
<1>1. ScreenInv => MarginsKept
  BY DEF ScreenInv
<1> QED
  BY <1>1, ScreenInvariance, PTL

-----------------------------------------------------------------------------
\* A column of cells has as many cells as rows.
LEMMA ColumnHeight ==
  ASSUME NEW a \in Int, NEW b \in Int, a <= b, NEW x
  PROVE  Cardinality({<<y, x>> : y \in a .. b}) = b - a + 1
<1> DEFINE S == a .. b
           T == {<<y, x>> : y \in S}
           f == [y \in S |-> <<y, x>>]
<1>1. IsFiniteSet(S) /\ Cardinality(S) = b - a + 1
  BY FS_Interval
<1> HIDE DEF S
<1>2. f \in Bijection(S, T)
  <2>1. f \in [S -> T] /\ \A y \in S : f[y] = <<y, x>>
    OBVIOUS
  <2>2. \A y, z \in S : <<y, x>> = <<z, x>> => y = z
    OBVIOUS
  <2>3. \A t \in T : \E y \in S : t = <<y, x>>
    OBVIOUS
  <2> HIDE DEF f, T
  <2> QED
    BY <2>1, <2>2, <2>3 DEF Bijection, Injection, IsInjective, Surjection
<1>3. ExistsBijection(S, T)
  BY <1>2 DEF ExistsBijection
<1> HIDE DEF T
<1>4. Cardinality(T) = Cardinality(S)
  BY <1>1, <1>3, FS_Bijection
<1> QED
  BY <1>1, <1>4 DEF T, S

\* A tile above a box that is matched all through in its column falls by the
\* height of the box.
LEMMA FallsByTheBox ==
  ASSUME grid \in Grid, Round, NEW x \in Cols,
         \A y \in match_ymin(check_matches(grid)) .. match_ymax(check_matches(grid)) :
           <<y, x>> \in check_matches(grid),
         NEW y \in Rows, y < match_ymin(check_matches(grid))
  PROVE  LET m == check_matches(grid)
             height == match_ymax(m) - match_ymin(m) + 1
         IN grid'[<<y + height, x>>] = grid[<<y, x>>]
<1> DEFINE m  == check_matches(grid)
           ya == match_ymin(m)
           yb == match_ymax(m)
<1>1. m \in SUBSET Cells /\ m # {}
  BY MatchesOnBoard DEF Round
<1>2. /\ ya \in Rows /\ yb \in Rows /\ ya <= yb
      /\ \A c \in m : ya <= c[1] /\ c[1] <= yb
  BY <1>1, BoxParts
<1>3. \A i \in ya .. yb : <<i, x>> \in m
  OBVIOUS
<1>4. y < ya /\ y \in Int /\ ya \in Int /\ yb \in Int /\ yb < GRID_HEIGHT
  BY <1>2, Sizes DEF Rows
<1>5. <<y, x>> \notin m
  <2>1. <<y, x>>[1] = y
    OBVIOUS
  <2> QED
    BY <1>2, <1>4, <2>1
<1>6. LET k == Cardinality(Between(m, x, y, GRID_HEIGHT)) IN
        grid'[<<y + k, x>>] = grid[<<y, x>>]
  BY <1>5, RoundFalls
<1> HIDE DEF m, ya, yb
<1>7. Between(m, x, y, GRID_HEIGHT) = {<<i, x>> : i \in ya .. yb}
  <2>1. ASSUME NEW c \in Between(m, x, y, GRID_HEIGHT)
        PROVE  c \in {<<i, x>> : i \in ya .. yb}
    <3>1. c \in m /\ c[2] = x /\ c = <<c[1], c[2]>> /\ c[1] \in ya .. yb
      BY <1>1, <1>2, CellParts, Sizes DEF Between
    <3> QED
      BY <3>1
  <2>2. ASSUME NEW i \in ya .. yb
        PROVE  <<i, x>> \in Between(m, x, y, GRID_HEIGHT)
    <3>1. <<i, x>> \in m /\ i > y /\ i < GRID_HEIGHT
      BY <1>3, <1>4, Sizes
    <3> QED
      BY <3>1 DEF Between
  <2> QED
    BY <2>1, <2>2
<1>8. Cardinality(Between(m, x, y, GRID_HEIGHT)) = yb - ya + 1
  BY <1>2, <1>4, <1>7, ColumnHeight
<1> QED
  BY <1>6, <1>8 DEF m, ya, yb

\* Where the last frame drew the tile that will fall to row y.
LEMMA LastDrawn ==
  ASSUME ScreenInv, Drop, match_ymin(check_matches(grid)) > 0,
         NEW y \in Rows, NEW x \in Cols,
         match_ymax(check_matches(grid)) - match_ymin(check_matches(grid)) + 1 <= y,
         y <= match_ymax(check_matches(grid)),
         match_xmin(check_matches(grid)) <= x, x <= match_xmax(check_matches(grid)),
         NEW ty \in Offsets, NEW tx \in Offsets
  PROVE  LET m == check_matches(grid)
             height == match_ymax(m) - match_ymin(m) + 1
         IN ShownPixel(<<y, x>>, ty, tx) = <<grid[<<y - height, x>>], ty, tx>>
<1> DEFINE m  == check_matches(grid)
           ya == match_ymin(m)
           yb == match_ymax(m)
           xa == match_xmin(m)
           xb == match_xmax(m)
           h  == yb - ya + 1
           ys == y_shift(m)
           d  == y - h
           e  == x - xa
<1>1. m \in SUBSET Cells /\ m # {} /\ phase = "match" /\ frames = ys + 1
  BY MatchesOnBoard DEF Drop, Round
<1>2. /\ ya \in Int /\ yb \in Int /\ xa \in Int /\ xb \in Int /\ y \in Int /\ x \in Int
      /\ 0 < ya /\ ya <= yb /\ 0 <= xa /\ xa <= x /\ x <= xb /\ h <= y /\ y <= yb
  BY <1>1, BoxParts, Sizes DEF Rows, Cols
<1>3. ys = h * TILE_SIZE /\ h \in Int /\ h >= 1
  BY <1>2 DEF y_shift
<1> HIDE DEF ya, yb, xa, xb, m, ys
<1>4. d \in Nat /\ d + 1 <= ya /\ e \in Nat /\ y = d + h /\ x = e + xa
  BY <1>2
<1> HIDE DEF d, e, h
<1>5. /\ d * TILE_SIZE \in Int /\ h * TILE_SIZE \in Int /\ e * TILE_SIZE \in Int /\ xa * TILE_SIZE \in Int
      /\ y * TILE_SIZE = d * TILE_SIZE + h * TILE_SIZE
      /\ x * TILE_SIZE = e * TILE_SIZE + xa * TILE_SIZE
      /\ d * TILE_SIZE >= 0 /\ d * TILE_SIZE + TILE_SIZE <= ya * TILE_SIZE
      /\ ya * TILE_SIZE \in Int
  BY <1>2, <1>3, <1>4, ScreenSizes, Products
<1>6. /\ e * TILE_SIZE >= 0 /\ xb * TILE_SIZE \in Int /\ x * TILE_SIZE <= xb * TILE_SIZE
      /\ h * TILE_SIZE >= TILE_SIZE
  BY <1>2, <1>3, <1>4, ScreenSizes, Products
<1> DEFINE dT  == d * TILE_SIZE
           hT  == h * TILE_SIZE
           eT  == e * TILE_SIZE
           xaT == xa * TILE_SIZE
           yaT == ya * TILE_SIZE
           xbT == xb * TILE_SIZE
           p1  == Y_MARGIN + y * TILE_SIZE + ty
           p2  == X_MARGIN + x * TILE_SIZE + tx
<1> HIDE DEF dT, hT, eT, xaT, yaT, xbT, p1, p2
<1>7. /\ dT \in Int /\ hT \in Int /\ eT \in Int /\ xaT \in Int /\ yaT \in Int /\ xbT \in Int
      /\ dT >= 0 /\ dT + TILE_SIZE <= yaT /\ eT >= 0 /\ eT + xaT <= xbT
      /\ hT >= TILE_SIZE /\ ys = hT
  BY <1>3, <1>5, <1>6 DEF dT, hT, eT, xaT, yaT, xbT
<1>8. p1 = Y_MARGIN + dT + hT + ty /\ p2 = X_MARGIN + eT + xaT + tx
  BY <1>5, ScreenSizes DEF p1, p2, dT, hT, eT, xaT, Offsets
<1>9. /\ p1 \in Y_MARGIN + ys .. Y_MARGIN + ys + yaT - 1
      /\ p2 \in X_MARGIN + xaT .. X_MARGIN + xbT + TILE_SIZE - 1
  BY <1>7, <1>8, ScreenSizes DEF Offsets
<1>10. ys \in Nat /\ frames - 1 = ys /\ frames > 1
  BY <1>1, <1>7, ScreenSizes
<1>11. <<p1, p2>> \in FallArea(m, frames - 1)
  <2>1. FallArea(m, ys) = (Y_MARGIN + ys .. Y_MARGIN + ys + yaT - 1)
                            \X (X_MARGIN + xaT .. X_MARGIN + xbT + TILE_SIZE - 1)
    BY <1>1, <1>10, FallAreaParts DEF yaT, xaT, xbT, ya, xa, xb
  <2> QED
    BY <1>9, <1>10, <2>1
<1>12. fb_xmin(m) = xaT + X_MARGIN
  BY DEF fb_xmin, xaT, xa
<1>13. screen[<<p1, p2>>]
         = TilePixel({}, <<0, xa>>, <<p1 - (Y_MARGIN + (frames - 1)), p2 - fb_xmin(m)>>)
  <2>1. \A p \in FallArea(m, frames - 1) :
          screen[p] = TilePixel({}, <<0, xa>>,
                                <<p[1] - (Y_MARGIN + (frames - 1)), p[2] - fb_xmin(m)>>)
    BY <1>1, <1>10 DEF ScreenInv, FallShown, m, xa
  <2>2. <<p1, p2>>[1] = p1 /\ <<p1, p2>>[2] = p2
    OBVIOUS
  <2> QED
    BY <1>11, <2>1, <2>2
<1>14. p1 - (Y_MARGIN + (frames - 1)) = dT + ty /\ p2 - fb_xmin(m) = eT + tx
  BY <1>7, <1>8, <1>10, <1>12, ScreenSizes DEF Offsets
<1>15. TilePixel({}, <<0, xa>>, <<dT + ty, eT + tx>>) = <<grid[<<0 + d, xa + e>>], ty, tx>>
  <2> DEFINE none == {}
             top  == 0
  <2>1. top \in Int /\ \A cell : cell \notin none
    OBVIOUS
  <2> HIDE DEF none, top
  <2>2. TilePixel(none, <<top, xa>>, <<d * TILE_SIZE + ty, e * TILE_SIZE + tx>>)
          = IF <<top + d, xa + e>> \in none /\ (OnBorder(ty) \/ OnBorder(tx)) THEN BLACK
            ELSE <<grid[<<top + d, xa + e>>], ty, tx>>
    BY <1>2, <1>4, <2>1, TileAt
  <2>3. TilePixel(none, <<top, xa>>, <<dT + ty, eT + tx>>) = <<grid[<<top + d, xa + e>>], ty, tx>>
    BY <2>1, <2>2 DEF dT, eT
  <2> QED
    BY <2>3 DEF none, top
<1>16. ShownPixel(<<y, x>>, ty, tx) = screen[<<p1, p2>>]
  BY DEF ShownPixel, p1, p2
<1>17. 0 + d = d /\ xa + e = x
  BY <1>2, <1>4
<1> QED
  BY <1>13, <1>14, <1>15, <1>16, <1>17 DEF d, h, ya, yb, m

\* After a fall every tile of a column matched through the height of the box is
\* where the last frame showed it, on a board and with tiles of any size: the
\* next drawing makes none of them jump.
THEOREM FallsEndInPlace == ScreenSpec => LastFrame
<1> DEFINE Lands ==
      grid' # grid /\ phase = "match" /\ match_ymin(check_matches(grid)) > 0 =>
       LET m      == check_matches(grid)
           box    == match_ymin(m) .. match_ymax(m)
           height == match_ymax(m) - match_ymin(m) + 1
       IN \A x \in Cols :
            (\A y \in box : <<y, x>> \in m) =>
              \A y \in height .. match_ymax(m) : Shows(<<y, x>>, grid'[<<y, x>>])
<1>1. ScreenInv /\ [ScreenNext]_<<vars, screenVars>> => [Lands]_<<vars, screenVars>>
  <2> DEFINE m      == check_matches(grid)
             ya     == match_ymin(m)
             yb     == match_ymax(m)
             height == yb - ya + 1
  <2> SUFFICES ASSUME ScreenInv, ScreenNext, grid' # grid, phase = "match", ya > 0,
                      NEW x \in Cols, \A y \in ya .. yb : <<y, x>> \in m,
                      NEW y \in height .. yb, NEW ty \in Offsets, NEW tx \in Offsets
               PROVE  ShownPixel(<<y, x>>, ty, tx) = <<grid'[<<y, x>>], ty, tx>>
    BY DEF Shows, Offsets
  <2>1. Drop /\ Round
    BY DEF ScreenNext, Play, Turn, ShowSwapped, WhiteOut, FallingTiles, Draw, Drop, DrawBoard, Settle
  <2>2. m \in SUBSET Cells /\ m # {} /\ grid \in Grid
    BY <2>1, MatchesOnBoard DEF Round, ScreenInv, Inv, CandyTypeOK
  <2>3. /\ ya \in Rows /\ yb \in Rows /\ ya <= yb
        /\ \A c \in m : match_xmin(m) <= c[2] /\ c[2] <= match_xmax(m)
    BY <2>2, BoxParts
  <2>4. match_xmin(m) <= x /\ x <= match_xmax(m)
    <3>1. \A i \in ya .. yb : <<i, x>> \in m
      OBVIOUS
    <3> HIDE DEF m, ya, yb
    <3>2. ya \in ya .. yb
      BY <2>3, Sizes
    <3>3. <<ya, x>> \in m /\ <<ya, x>>[2] = x
      BY <3>1, <3>2
    <3> QED
      BY <2>3, <3>3 DEF m
  <2>5. /\ y \in Rows /\ height <= y /\ y <= yb /\ y \in Int /\ height \in Int
        /\ y - height \in Rows /\ y - height < ya /\ (y - height) + height = y
    BY <2>3, Sizes DEF Rows
  <2>6. ShownPixel(<<y, x>>, ty, tx) = <<grid[<<y - height, x>>], ty, tx>>
    BY <2>1, <2>4, <2>5, LastDrawn
  <2>7. grid'[<<(y - height) + height, x>>] = grid[<<y - height, x>>]
    BY <2>1, <2>2, <2>5, FallsByTheBox
  <2> QED
    BY <2>5, <2>6, <2>7
<1>2. ScreenSpec => [][Lands]_<<vars, screenVars>>
  BY <1>1, ScreenInvariance, PTL DEF ScreenSpec
<1> QED
  BY <1>2 DEF LastFrame
====
