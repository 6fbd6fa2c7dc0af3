---------------------------- MODULE CandyCrush ----------------------------
(***************************************************************************)
(* The game of hw6-cache/atarvi-native/src/bin/candycrvsh.rs: its board,   *)
(* cursor, gamepad and rounds of matches.  An iteration of the main loop   *)
(* is a Turn, as many Rounds as there are matches, and Settle.  The score  *)
(* and the drawing are in CandyText and CandyScreen.                       *)
(***************************************************************************)
EXTENDS Naturals, SequencesExt

CONSTANTS
  GRID_WIDTH, GRID_HEIGHT,
  Tile,
  START,     \* the first row and column of the cursor: 3
  Inputs     \* the sets of buttons a poll of MMAP_USB may find pressed

ASSUME SizeAssumption == GRID_WIDTH \in Nat \ {0, 1} /\ GRID_HEIGHT \in Nat \ {0, 1}

ASSUME StartAssumption == START \in 0 .. GRID_HEIGHT - 1 /\ START \in 0 .. GRID_WIDTH - 1

\* The buttons the program looks at.
Button == {"left", "right", "up", "down", "x", "y", "a", "b"}

ASSUME InputsAssumption == Inputs \subseteq SUBSET Button

Rows  == 0 .. GRID_HEIGHT - 1
Cols  == 0 .. GRID_WIDTH - 1
Cells == Rows \X Cols
Grid  == [Cells -> Tile]

VARIABLES
  grid,
  selected_y, selected_x,
  gamepad_prior,
  phase       \* "poll": at the top of the loop; "match": in the while loop

vars == <<grid, selected_y, selected_x, gamepad_prior, phase>>

\* check_matches: the cells of three equal tiles in a row or in a column.
Triples == {{<<y, x>>, <<y, x+1>>, <<y, x+2>>} : y \in Rows, x \in 0 .. GRID_WIDTH - 3}
           \cup {{<<y, x>>, <<y+1, x>>, <<y+2, x>>} : y \in 0 .. GRID_HEIGHT - 3, x \in Cols}

Equal(g, cells) == \A c, d \in cells : g[c] = g[d]

check_matches(g) == UNION {cells \in Triples : Equal(g, cells)}

\* Tile::random and the loop that fills the board: any tile but the one above
\* and the one to the left.  The mutant forgets the one to the left.
ExcludeAbove(g, y, x) == y > 0 => g[<<y, x>>] # g[<<y-1, x>>]
Excluded(g, y, x) ==
  /\ y > 0 => g[<<y, x>>] # g[<<y-1, x>>]
  /\ x > 0 => g[<<y, x>>] # g[<<y, x-1>>]

Init ==
  /\ grid \in {g \in Grid : \A c \in Cells : Excluded(g, c[1], c[2])}
  /\ selected_y = START /\ selected_x = START
  /\ gamepad_prior = {}
  /\ phase = "poll"

-----------------------------------------------------------------------------
\* A button counts when it is released.
Released(now) == gamepad_prior \ now

\* The cursor moves left, right, up and down in that order, and stops at the
\* border, or one step behind it in the mutant.
RaiseOver(pressed, v, top) == IF pressed /\ v <= top THEN v + 1 ELSE v
Lower(pressed, v)      == IF pressed /\ v > 0 THEN v - 1 ELSE v
Raise(pressed, v, top) == IF pressed /\ v < top THEN v + 1 ELSE v

MovedX(r) == Raise("right" \in r, Lower("left" \in r, selected_x), GRID_WIDTH - 1)
MovedY(r) == Raise("down" \in r, Lower("up" \in r, selected_y), GRID_HEIGHT - 1)

\* Swap the selected tile with the one at `to' and follow it; undo the swap if
\* it makes no match.  The mutant forgets half of the undo.
Swapped(g, a, b) == [g EXCEPT ![a] = g[b], ![b] = g[a]]

TryHalfUndo(s, pressed, to) ==
  IF ~(pressed /\ to \in Cells) THEN s
  ELSE LET g == Swapped(s.grid, <<s.y, s.x>>, to) IN
       IF check_matches(g) # {} THEN [grid |-> g, y |-> to[1], x |-> to[2]]
       ELSE [s EXCEPT !.grid = [g EXCEPT ![<<s.y, s.x>>] = g[to]]]

Try(s, pressed, to) ==
  LET g == Swapped(s.grid, <<s.y, s.x>>, to) IN
  IF pressed /\ to \in Cells /\ check_matches(g) # {}
  THEN [grid |-> g, y |-> to[1], x |-> to[2]]
  ELSE s

\* The four swaps, in the order of the source.
Swaps(s0, r) ==
  LET s1 == Try(s0, "x" \in r, <<s0.y - 1, s0.x>>)
      s2 == Try(s1, "y" \in r, <<s1.y, s1.x - 1>>)
      s3 == Try(s2, "b" \in r, <<s2.y + 1, s2.x>>)
  IN  Try(s3, "a" \in r, <<s3.y, s3.x + 1>>)

Turn ==
  /\ phase = "poll"
  /\ \E now \in Inputs :
       LET r == Released(now)
           s == Swaps([grid |-> grid, y |-> MovedY(r), x |-> MovedX(r)], r)
       IN /\ grid' = s.grid
          /\ selected_y' = s.y /\ selected_x' = s.x
          /\ gamepad_prior' = now
  /\ phase' = "match"

-----------------------------------------------------------------------------
\* The row that the k-th of the copies of a slide fills: from the matched row y
\* up, in place, so that a tile is copied before it is overwritten.  The mutant
\* goes down.
RowDown(y, k)  == k
MatchRow(y, k) == y - k + 1

\* Each row takes the tile above it, and a random one enters at the top.  A
\* column is a sequence from the top, so row y is its entry y+1.
Copied(col, y) ==
  LET after[k \in 0 .. y] ==
        IF k = 0 THEN col
        ELSE LET row == MatchRow(y, k)
             IN  [after[k-1] EXCEPT ![row + 1] = after[k-1][row]]
  IN  after[y]

Slide(col, y, new) == [Copied(col, y) EXCEPT ![1] = new]

\* The rows are gone through from the top.
ColumnAfter(x, matches, fill) ==
  LET after[n \in 0 .. GRID_HEIGHT] ==
        IF n = 0 THEN [i \in 1 .. GRID_HEIGHT |-> grid[<<i-1, x>>]]
        ELSE IF <<n-1, x>> \in matches
             THEN Slide(after[n-1], n-1, fill[<<n-1, x>>])
             ELSE after[n-1]
  IN  after[GRID_HEIGHT]

Round ==
  /\ phase = "match" /\ check_matches(grid) # {}
  /\ LET matches == check_matches(grid) IN
       \E fill \in [matches -> Tile] :
         LET column == [x \in Cols |-> ColumnAfter(x, matches, fill)] IN
         grid' = [c \in Cells |-> column[c[2]][c[1] + 1]]
  /\ UNCHANGED <<selected_y, selected_x, gamepad_prior, phase>>

\* The while loop ends and the board is drawn.
Settle ==
  /\ phase = "match" /\ check_matches(grid) = {}
  /\ phase' = "poll"
  /\ UNCHANGED <<grid, selected_y, selected_x, gamepad_prior>>

Next == Turn \/ Round \/ Settle

Spec == Init /\ [][Next]_vars

-----------------------------------------------------------------------------
\* Every variable has its type; in particular the cursor, an unsigned pair
\* that is decremented, stays on the board.
CandyTypeOK ==
  /\ grid \in Grid
  /\ selected_y \in Rows /\ selected_x \in Cols
  /\ gamepad_prior \in Inputs \cup {{}}
  /\ phase \in {"poll", "match"}

\* A player never sees a board with a match left on it: not the first one,
\* whose tiles avoid only two of their neighbours, nor one after a swap was
\* undone or a chain of rounds.
SettledBoard == phase = "poll" => check_matches(grid) = {}

Count(g, t) == Cardinality({c \in Cells : g[c] = t})

\* A turn leaves the board alone, or rearranges its tiles into a board with a
\* match; with several swaps released in one poll no tile is lost either.
HonestTurn ==
  [][phase = "poll" =>
       \/ grid' = grid
       \/ /\ check_matches(grid') # {}
          /\ \A t \in Tile : Count(grid', t) = Count(grid, t)]_vars

\* A released button does what its key does in the desktop version.
Key(button) ==
  CASE button = "x" -> "W" [] button = "y" -> "A" [] button = "b" -> "S" [] button = "a" -> "D"
    [] OTHER -> button

Desktop ==
  INSTANCE CandyDesktop
    WITH KeySets <- {{Key(b) : b \in prior \ now} : prior \in Inputs \cup {{}}, now \in Inputs}

\* The game on the board is a game of the desktop version: the buttons do what
\* its keys do, in its order, and a round whose columns slide one matched cell
\* at a time lets every unmatched tile fall by the number of matched tiles
\* below it, skips none, doubles none, and never lets one pass another.
ImplementsDesktop == Desktop!Spec
=============================================================================
