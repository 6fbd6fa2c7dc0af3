---------------------------- MODULE CandyDesktop ----------------------------
(***************************************************************************)
(* The game as hw6-cache/atarvi-sim/src/main.rs plays it in a window, the  *)
(* version the one for the board was developed from.  Stated by what each  *)
(* part does and not by its loops: it is the abstract game that CandyCrush *)
(* implements.                                                             *)
(***************************************************************************)
EXTENDS Integers, FiniteSets

CONSTANTS
  GRID_WIDTH, GRID_HEIGHT,
  Tile,
  START,      \* the first row and column of the cursor: 3
  KeySets     \* the sets of keys a pass of the loop may find pressed

VARIABLES grid, selected_y, selected_x, phase

deskVars == <<grid, selected_y, selected_x, phase>>

Board == (0 .. GRID_HEIGHT - 1) \X (0 .. GRID_WIDTH - 1)

\* Three neighbouring cells from c to the right, or from c down.
Lines == {l \in {{<<c[1] + k * d[1], c[2] + k * d[2]>> : k \in 0 .. 2} :
                    c \in Board, d \in {<<0, 1>>, <<1, 0>>}} : l \subseteq Board}

Matched(g) == UNION {l \in Lines : Cardinality({g[c] : c \in l}) = 1}

\* Every tile differs from the one above and from the one to the left.
Mixed(g) ==
  \A c, d \in Board :
    (c[1] = d[1] /\ c[2] + 1 = d[2]) \/ (c[2] = d[2] /\ c[1] + 1 = d[1]) => g[c] # g[d]

Init ==
  /\ grid \in {g \in [Board -> Tile] : Mixed(g)}
  /\ selected_y = START /\ selected_x = START
  /\ phase = "poll"

-----------------------------------------------------------------------------
\* A step back, not beyond zero, and then a step forth, not beyond the top.
BackForth(v, back, forth, top) ==
  LET low == IF back /\ v > 0 THEN v - 1 ELSE v
  IN  IF forth /\ low < top THEN low + 1 ELSE low

Cursor(keys) ==
  <<BackForth(selected_y, "up" \in keys, "down" \in keys, GRID_HEIGHT - 1),
    BackForth(selected_x, "left" \in keys, "right" \in keys, GRID_WIDTH - 1)>>

\* A swap that makes a match stands and takes the cursor along; another one
\* never happened.
AfterSwap(s, pressed, dy, dx) ==
  LET to == <<s.at[1] + dy, s.at[2] + dx>>
      g  == [c \in Board |-> s.grid[IF c = s.at THEN to ELSE IF c = to THEN s.at ELSE c]]
  IN  IF pressed /\ to \in Board /\ Matched(g) # {} THEN [grid |-> g, at |-> to] ELSE s

\* The key of each swap and its direction, in the order they are looked at.
AfterSwaps(s, keys) ==
  LET s1 == AfterSwap(s,  "W" \in keys, -1, 0)
      s2 == AfterSwap(s1, "A" \in keys, 0, -1)
      s3 == AfterSwap(s2, "S" \in keys, 1, 0)
  IN  AfterSwap(s3, "D" \in keys, 0, 1)

Play ==
  /\ phase = "poll"
  /\ \E keys \in KeySets :
       LET s == AfterSwaps([grid |-> grid, at |-> Cursor(keys)], keys)
       IN grid' = s.grid /\ selected_y' = s.at[1] /\ selected_x' = s.at[2]
  /\ phase' = "match"

\* Every unmatched tile falls by the number of matched ones below it; what
\* comes in above them is random.
Fall ==
  LET gone        == Matched(grid)
      below(y, x) == Cardinality({c \in gone : c[2] = x /\ c[1] > y})
  IN /\ phase = "match" /\ gone # {}
     /\ grid' \in [Board -> Tile]
     /\ \A c \in Board \ gone : grid'[<<c[1] + below(c[1], c[2]), c[2]>>] = grid[c]
     /\ UNCHANGED <<selected_y, selected_x, phase>>

Rest ==
  /\ phase = "match" /\ Matched(grid) = {}
  /\ phase' = "poll"
  /\ UNCHANGED <<grid, selected_y, selected_x>>

\* Closing the window, or the escape key, ends the game between two turns.
Close ==
  /\ phase = "poll"
  /\ phase' = "closed"
  /\ UNCHANGED <<grid, selected_y, selected_x>>

Next == Play \/ Fall \/ Rest \/ Close

Spec == Init /\ [][Next]_deskVars
=============================================================================
