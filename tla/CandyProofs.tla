---------------------------- MODULE CandyProofs ----------------------------
(***************************************************************************)
(* On a board of any size, with any tiles and any buttons: the player is   *)
(* shown no match, a turn rearranges the tiles into a match or leaves them *)
(* alone, and the game is one of the desktop version.                      *)
(*                                                                         *)
(* The columns of a round slide by a recursion over their rows, and each   *)
(* slide by one over its copies.  What they compute is proved by an        *)
(* induction on sets of naturals, which the library's well-founded minimum *)
(* gives without operator parameters.                                      *)
(***************************************************************************)
EXTENDS CandyCrush, FiniteSetTheorems, SequenceTheorems, WellFoundedInduction, TLAPS

Inv == CandyTypeOK /\ SettledBoard

\* The board has at least a row and a column.
LEMMA Sizes ==
  /\ GRID_WIDTH \in Int /\ GRID_HEIGHT \in Int
  /\ START \in Rows /\ START \in Cols
  /\ Rows \subseteq Int /\ Cols \subseteq Int
  BY SizeAssumption, StartAssumption DEF Rows, Cols

\* A cell is its row and its column.
LEMMA CellParts ==
  ASSUME NEW c \in Cells
  PROVE  c = <<c[1], c[2]>> /\ c[1] \in Rows /\ c[2] \in Cols
  BY DEF Cells

\* A board has finitely many cells, so its tiles can be counted.
LEMMA CellsFinite == IsFiniteSet(Cells)
<1>1. IsFiniteSet(Rows) /\ IsFiniteSet(Cols)
  BY SizeAssumption, FS_Interval DEF Rows, Cols
<1> QED
  BY <1>1, FS_Product DEF Cells

-----------------------------------------------------------------------------
\* Tiles that differ from those above and to the left make no match: two
\* neighbours of three in a line would have to be equal.
LEMMA MixedIsSettled ==
  ASSUME NEW g, \A c \in Cells : Excluded(g, c[1], c[2])
  PROVE  check_matches(g) = {}
<1>1. SUFFICES ASSUME NEW cells \in Triples, Equal(g, cells)
               PROVE  FALSE
  BY DEF check_matches
<1>2. CASE \E y \in Rows, x \in 0 .. GRID_WIDTH - 3 :
             cells = {<<y, x>>, <<y, x+1>>, <<y, x+2>>}
  <2>1. PICK y \in Rows, x \in 0 .. GRID_WIDTH - 3 :
          cells = {<<y, x>>, <<y, x+1>>, <<y, x+2>>}
    BY <1>2
  <2>2. <<y, x+1>> \in Cells /\ x \in Int /\ x >= 0
    BY Sizes DEF Cells, Cols
  <2>3. Excluded(g, y, x+1)
    BY <2>2
  <2>4. g[<<y, x+1>>] = g[<<y, x>>]
    BY <1>1, <2>1 DEF Equal
  <2>5. x + 1 > 0 /\ x + 1 - 1 = x
    BY <2>2
  <2> QED
    BY <2>3, <2>4, <2>5 DEF Excluded
<1>3. CASE \E y \in 0 .. GRID_HEIGHT - 3, x \in Cols :
             cells = {<<y, x>>, <<y+1, x>>, <<y+2, x>>}
  <2>1. PICK y \in 0 .. GRID_HEIGHT - 3, x \in Cols :
          cells = {<<y, x>>, <<y+1, x>>, <<y+2, x>>}
    BY <1>3
  <2>2. <<y+1, x>> \in Cells /\ y \in Int /\ y >= 0
    BY Sizes DEF Cells, Rows
  <2>3. Excluded(g, y+1, x)
    BY <2>2
  <2>4. g[<<y+1, x>>] = g[<<y, x>>]
    BY <1>1, <2>1 DEF Equal
  <2>5. y + 1 > 0 /\ y + 1 - 1 = y
    BY <2>2
  <2> QED
    BY <2>3, <2>4, <2>5 DEF Excluded
<1> QED
  BY <1>1, <1>2, <1>3 DEF Triples

-----------------------------------------------------------------------------
\* A swap keeps the number of tiles of each kind.
LEMMA SwapKeepsCount ==
  ASSUME NEW g \in Grid, NEW a \in Cells, NEW b \in Cells, NEW t
  PROVE  /\ Swapped(g, a, b) \in Grid
         /\ Count(Swapped(g, a, b), t) = Count(g, t)
<1> DEFINE h  == Swapped(g, a, b)
           p(c) == IF c = a THEN b ELSE IF c = b THEN a ELSE c
           S  == {c \in Cells : h[c] = t}
           T  == {c \in Cells : g[c] = t}
           f  == [c \in S |-> p(c)]
<1>1. h \in Grid /\ \A c \in Cells : h[c] = g[p(c)]
  BY DEF Swapped, Grid
<1>2. \A c \in Cells : p(c) \in Cells /\ p(p(c)) = c
  OBVIOUS
<1> HIDE DEF h, p
<1>3. f \in [S -> T]
  BY <1>1, <1>2
<1>4. \A c, d \in S : f[c] = f[d] => c = d
  BY <1>2
<1>5. \A d \in T : \E c \in S : f[c] = d
  <2> SUFFICES ASSUME NEW d \in T
               PROVE  \E c \in S : f[c] = d
    OBVIOUS
  <2>1. p(d) \in S /\ f[p(d)] = d
    BY <1>1, <1>2
  <2> QED
    BY <2>1
<1>6. f \in Bijection(S, T)
  BY <1>3, <1>4, <1>5 DEF Bijection, Injection, Surjection, IsInjective
<1>7. IsFiniteSet(S)
  BY CellsFinite, FS_Subset
<1>8. Cardinality(T) = Cardinality(S)
  BY <1>6, <1>7, FS_Bijection DEF ExistsBijection
<1> QED
  BY <1>1, <1>8 DEF Count, h

\* What a sequence of swaps may do to a board.
Honest(g, h) ==
  \/ h = g
  \/ check_matches(h) # {} /\ \A t \in Tile : Count(h, t) = Count(g, t)

\* Two honest changes are one.
LEMMA HonestChain ==
  ASSUME NEW f, NEW g, NEW h, Honest(f, g), Honest(g, h)
  PROVE  Honest(f, h)
  BY DEF Honest

IsPosition(s) == s.grid \in Grid /\ s.y \in Rows /\ s.x \in Cols

\* One swap, kept or undone.
LEMMA TryIsHonest ==
  ASSUME NEW s, IsPosition(s), NEW pressed, NEW to
  PROVE  IsPosition(Try(s, pressed, to)) /\ Honest(s.grid, Try(s, pressed, to).grid)
<1> DEFINE from == <<s.y, s.x>>
           g    == Swapped(s.grid, from, to)
<1>1. CASE pressed /\ to \in Cells /\ check_matches(g) # {}
  <2>1. Try(s, pressed, to) = [grid |-> g, y |-> to[1], x |-> to[2]]
    BY <1>1 DEF Try
  <2>2. from \in Cells
    BY DEF IsPosition, Cells
  <2>3. g \in Grid /\ \A t \in Tile : Count(g, t) = Count(s.grid, t)
    BY <1>1, <2>2, SwapKeepsCount DEF IsPosition
  <2>4. to[1] \in Rows /\ to[2] \in Cols
    BY <1>1, CellParts
  <2> HIDE DEF g
  <2>5. /\ Try(s, pressed, to).grid = g
        /\ Try(s, pressed, to).y = to[1] /\ Try(s, pressed, to).x = to[2]
    BY <2>1
  <2> QED
    BY <1>1, <2>3, <2>4, <2>5 DEF IsPosition, Honest
<1>2. CASE ~(pressed /\ to \in Cells /\ check_matches(g) # {})
  <2>1. Try(s, pressed, to) = s
    BY <1>2 DEF Try
  <2> QED
    BY <2>1 DEF Honest
<1> QED
  BY <1>1, <1>2

\* All four swaps of one poll.
LEMMA SwapsAreHonest ==
  ASSUME NEW s0, IsPosition(s0), NEW r
  PROVE  IsPosition(Swaps(s0, r)) /\ Honest(s0.grid, Swaps(s0, r).grid)
<1> DEFINE s1 == Try(s0, "x" \in r, <<s0.y - 1, s0.x>>)
           s2 == Try(s1, "y" \in r, <<s1.y, s1.x - 1>>)
           s3 == Try(s2, "b" \in r, <<s2.y + 1, s2.x>>)
           s4 == Try(s3, "a" \in r, <<s3.y, s3.x + 1>>)
<1>1. IsPosition(s1) /\ Honest(s0.grid, s1.grid)
  BY TryIsHonest
<1> HIDE DEF s1
<1>2. IsPosition(s2) /\ Honest(s1.grid, s2.grid)
  BY <1>1, TryIsHonest
<1> HIDE DEF s2
<1>3. IsPosition(s3) /\ Honest(s2.grid, s3.grid)
  BY <1>2, TryIsHonest
<1> HIDE DEF s3
<1>4. IsPosition(s4) /\ Honest(s3.grid, s4.grid)
  BY <1>3, TryIsHonest
<1> HIDE DEF s4
<1>5. Honest(s0.grid, s2.grid)
  BY <1>1, <1>2, HonestChain
<1>6. Honest(s0.grid, s3.grid)
  BY <1>3, <1>5, HonestChain
<1>7. Honest(s0.grid, s4.grid)
  BY <1>4, <1>6, HonestChain
<1>8. Swaps(s0, r) = s4
  BY DEF Swaps, s1, s2, s3, s4
<1> QED
  BY <1>4, <1>7, <1>8

\* The cursor moves on the board.
LEMMA MovesOnBoard ==
  ASSUME CandyTypeOK, NEW r
  PROVE  MovedY(r) \in Rows /\ MovedX(r) \in Cols
  BY Sizes DEF CandyTypeOK, MovedY, MovedX, Raise, Lower, Rows, Cols

\* A poll with all its moves and swaps keeps the types and is honest.
LEMMA TurnIsHonest ==
  ASSUME CandyTypeOK, Turn
  PROVE  CandyTypeOK' /\ Honest(grid, grid')
<1>1. PICK now \in Inputs :
        LET r == Released(now)
            s == Swaps([grid |-> grid, y |-> MovedY(r), x |-> MovedX(r)], r)
        IN /\ grid' = s.grid /\ selected_y' = s.y /\ selected_x' = s.x
           /\ gamepad_prior' = now /\ phase' = "match"
  BY DEF Turn
<1> DEFINE r  == Released(now)
           s0 == [grid |-> grid, y |-> MovedY(r), x |-> MovedX(r)]
<1> HIDE DEF r
<1>2. IsPosition(s0) /\ s0.grid = grid
  BY MovesOnBoard DEF IsPosition, CandyTypeOK
<1> HIDE DEF s0
<1>3. IsPosition(Swaps(s0, r)) /\ Honest(grid, Swaps(s0, r).grid)
  BY <1>2, SwapsAreHonest
<1>4. /\ grid' = Swaps(s0, r).grid
      /\ selected_y' = Swaps(s0, r).y /\ selected_x' = Swaps(s0, r).x
  BY <1>1 DEF r, s0
<1> QED
  BY <1>1, <1>3, <1>4 DEF IsPosition, CandyTypeOK

-----------------------------------------------------------------------------
\* A set of naturals that is not empty has a least element.
LEMMA LeastNumber ==
  ASSUME NEW T \in SUBSET Nat, T # {}
  PROVE  \E x \in T : \A y \in T : x <= y
<1> DEFINE R == OpToRel(<, Nat)
<1>1. IsWellFoundedOn(R, Nat)
  BY NatLessThanWellFounded
<1>2. \A x, y \in Nat : <<x, y>> \in R <=> x < y
  BY DEF OpToRel
<1> HIDE DEF R
<1>3. PICK x \in T : \A y \in T : ~ (<<y, x>> \in R)
  BY <1>1, WFMin
<1>4. SUFFICES ASSUME NEW y \in T
               PROVE  x <= y
  OBVIOUS
<1>5. x \in Nat /\ y \in Nat
  OBVIOUS
<1>6. ~(y < x)
  BY <1>2, <1>3, <1>5
<1> QED
  BY <1>5, <1>6

\* Induction up to a bound, for the set of the numbers that have the property.
LEMMA Induction ==
  ASSUME NEW top \in Nat, NEW S, 0 \in S,
         \A n \in 0 .. top : n < top /\ n \in S => n + 1 \in S
  PROVE  \A n \in 0 .. top : n \in S
<1> DEFINE T == {n \in 0 .. top : n \notin S}
<1>1. SUFFICES ASSUME T # {}
               PROVE  FALSE
  OBVIOUS
<1>2. T \in SUBSET Nat
  OBVIOUS
<1>3. PICK x \in T : \A y \in T : x <= y
  BY <1>1, <1>2, LeastNumber
<1>4. x \in Nat /\ x # 0 /\ x <= top /\ x \notin S
  BY <1>2
<1>5. x - 1 \in 0 .. top /\ x - 1 < top /\ ~(x <= x - 1)
  BY <1>4
<1>6. x - 1 \in S
  BY <1>3, <1>5
<1> QED
  BY <1>4, <1>5, <1>6

\* The column after k copies of a slide from row y: the rows from y up to the
\* last one filled hold what was above them.
Moved(col, y, k) ==
  [i \in 1 .. GRID_HEIGHT |-> IF y - k + 2 <= i /\ i <= y + 1 THEN col[i-1] ELSE col[i]]

\* One copy.
Copy(col, y, k) == [col EXCEPT ![MatchRow(y, k) + 1] = col[MatchRow(y, k)]]

\* f is the recursion of the copies.
Copies(f, col, y) == f = [k \in 0 .. y |-> IF k = 0 THEN col ELSE Copy(f[k-1], y, k)]

\* The k-th copy reads a row that no copy before it has filled.
LEMMA CopyMoves ==
  ASSUME NEW col \in Seq(Tile), Len(col) = GRID_HEIGHT, NEW y \in Rows, NEW k \in 1 .. y
  PROVE  Copy(Moved(col, y, k - 1), y, k) = Moved(col, y, k)
<1> DEFINE m == Moved(col, y, k - 1)
           c == Copy(m, y, k)
           row == MatchRow(y, k)
<1>0. y \in Nat /\ GRID_HEIGHT \in Nat /\ y < GRID_HEIGHT
  BY SizeAssumption DEF Rows
<1>1. row = y - k + 1 /\ row \in 1 .. GRID_HEIGHT /\ row + 1 \in 1 .. GRID_HEIGHT
  BY <1>0 DEF MatchRow
<1>2. \A i \in 1 .. GRID_HEIGHT :
        m[i] = IF y - (k - 1) + 2 <= i /\ i <= y + 1 THEN col[i-1] ELSE col[i]
  BY DEF Moved
<1>3. DOMAIN m = 1 .. GRID_HEIGHT
  BY DEF Moved
<1> HIDE DEF m, row
<1>4. m[row] = col[row]
  BY <1>0, <1>1, <1>2
<1>5. c = [i \in 1 .. GRID_HEIGHT |-> IF i = row + 1 THEN m[row] ELSE m[i]]
  BY <1>3 DEF Copy, row
<1>6. ASSUME NEW i \in 1 .. GRID_HEIGHT
      PROVE  (IF i = row + 1 THEN m[row] ELSE m[i])
               = (IF y - k + 2 <= i /\ i <= y + 1 THEN col[i-1] ELSE col[i])
  <2>1. CASE i = row + 1
    <3>1. i - 1 = row /\ y - k + 2 <= i /\ i <= y + 1
      BY <1>0, <1>1, <2>1
    <3> QED
      BY <1>4, <2>1, <3>1
  <2>2. CASE i # row + 1
    <3>1. (y - (k - 1) + 2 <= i) <=> (y - k + 2 <= i)
      BY <1>0, <1>1, <2>2
    <3> QED
      BY <1>2, <2>2, <3>1
  <2> QED
    BY <2>1, <2>2
<1>7. c = Moved(col, y, k)
  <2> HIDE DEF c
  <2> QED
    BY <1>5, <1>6 DEF Moved
<1> QED
  BY <1>7 DEF c, m

\* The copies of a slide move the tiles above row y down by one.
LEMMA CopiesMove ==
  ASSUME NEW col \in Seq(Tile), Len(col) = GRID_HEIGHT, NEW y \in Rows
  PROVE  Copied(col, y) = Moved(col, y, y)
<1> DEFINE F == [k \in 0 .. y |-> Moved(col, y, k)]
           after == CHOOSE f : Copies(f, col, y)
<1>0. y \in Nat /\ GRID_HEIGHT \in Nat /\ y < GRID_HEIGHT
  BY SizeAssumption DEF Rows
<1>1. Moved(col, y, 0) = col
  <2>1. col = [i \in 1 .. GRID_HEIGHT |-> col[i]]
    OBVIOUS
  <2>2. \A i \in 1 .. GRID_HEIGHT : ~(y - 0 + 2 <= i /\ i <= y + 1)
    BY <1>0
  <2> QED
    BY <2>1, <2>2 DEF Moved
<1>2. Copies(F, col, y)
  <2>1. \A k \in 0 .. y : F[k] = IF k = 0 THEN col ELSE Copy(F[k-1], y, k)
    <3> TAKE k \in 0 .. y
    <3>1. CASE k = 0
      BY <1>0, <1>1, <3>1
    <3>2. CASE k # 0
      <4>1. k \in 1 .. y /\ k - 1 \in 0 .. y
        BY <1>0, <3>2
      <4> QED
        BY <3>2, <4>1, CopyMoves
    <3> QED
      BY <3>1, <3>2
  <2>2. F = [k \in 0 .. y |-> F[k]]
    OBVIOUS
  <2> HIDE DEF F
  <2> QED
    BY <2>1, <2>2 DEF Copies
<1>3. Copies(after, col, y)
  BY <1>2
<1>4. Copied(col, y) = after[y]
  BY DEF Copied, Copies, Copy
<1> HIDE DEF after
<1>5. \A k \in 0 .. y : after[k] = IF k = 0 THEN col ELSE Copy(after[k-1], y, k)
  BY <1>3 DEF Copies
<1> DEFINE S == {k \in 0 .. y : after[k] = Moved(col, y, k)}
<1>6. 0 \in S
  BY <1>0, <1>1, <1>5
<1>7. \A k \in 0 .. y : k < y /\ k \in S => k + 1 \in S
  <2> TAKE k \in 0 .. y
  <2> HAVE k < y /\ k \in S
  <2>1. k + 1 \in 1 .. y /\ k + 1 # 0 /\ k + 1 - 1 = k
    BY <1>0
  <2>2. after[k + 1] = Copy(Moved(col, y, k), y, k + 1)
    BY <1>5, <2>1
  <2>3. after[k + 1] = Moved(col, y, k + 1)
    BY <2>1, <2>2, CopyMoves
  <2> QED
    BY <2>1, <2>3
<1>8. \A k \in 0 .. y : k \in S
  <2> HIDE DEF S
  <2> QED
    BY <1>0, <1>6, <1>7, Induction
<1> QED
  BY <1>0, <1>4, <1>8

\* A slide puts the new tile on top, moves the tiles down to y by one, and
\* leaves those below alone.
LEMMA SlideTyped ==
  ASSUME NEW col \in Seq(Tile), Len(col) = GRID_HEIGHT, NEW y \in Rows, NEW new \in Tile
  PROVE  /\ Slide(col, y, new) \in Seq(Tile) /\ Len(Slide(col, y, new)) = GRID_HEIGHT
         /\ Slide(col, y, new)[1] = new
         /\ \A i \in 2 .. y + 1 : Slide(col, y, new)[i] = col[i-1]
         /\ \A i \in y + 2 .. GRID_HEIGHT : Slide(col, y, new)[i] = col[i]
<1> DEFINE m == Moved(col, y, y)
           s == [i \in 1 .. GRID_HEIGHT |-> IF i = 1 THEN new ELSE m[i]]
<1>0. y \in Nat /\ GRID_HEIGHT \in Nat /\ y < GRID_HEIGHT
  BY SizeAssumption DEF Rows
<1>1. \A i \in 1 .. GRID_HEIGHT :
        m[i] = IF y - y + 2 <= i /\ i <= y + 1 THEN col[i-1] ELSE col[i]
  BY DEF Moved
<1>2. \A i \in 2 .. y + 1 : m[i] = col[i-1]
  BY <1>0, <1>1
<1>3. \A i \in y + 2 .. GRID_HEIGHT : m[i] = col[i]
  BY <1>0, <1>1
<1>4. DOMAIN m = 1 .. GRID_HEIGHT
  BY DEF Moved
<1>5. Slide(col, y, new) = [m EXCEPT ![1] = new]
  BY CopiesMove DEF Slide
<1> HIDE DEF m
<1>6. Slide(col, y, new) = s
  BY <1>0, <1>4, <1>5
<1>7. s[1] = new /\ \A i \in 2 .. GRID_HEIGHT : s[i] = m[i]
  BY <1>0
<1>8. ASSUME NEW i \in 1 .. GRID_HEIGHT
      PROVE  s[i] \in Tile
  <2>1. CASE i = 1
    BY <1>7, <2>1
  <2>2. CASE i \in 2 .. y + 1
    <3>1. i - 1 \in 1 .. GRID_HEIGHT /\ i \in 2 .. GRID_HEIGHT
      BY <1>0, <2>2
    <3> QED
      BY <1>2, <1>7, <2>2, <3>1
  <2>3. CASE i \in y + 2 .. GRID_HEIGHT
    <3>1. i \in 2 .. GRID_HEIGHT
      BY <1>0, <2>3
    <3> QED
      BY <1>3, <1>7, <2>3, <3>1
  <2> QED
    BY <1>0, <2>1, <2>2, <2>3
<1>9. s \in [1 .. GRID_HEIGHT -> Tile]
  BY <1>8
<1>10. s \in Seq(Tile) /\ Len(s) = GRID_HEIGHT
  <2> HIDE DEF s
  <2> QED
    BY <1>0, <1>9
<1>11. \A i \in 2 .. y + 1 : s[i] = col[i-1]
  BY <1>0, <1>2, <1>7
<1>12. \A i \in y + 2 .. GRID_HEIGHT : s[i] = col[i]
  BY <1>0, <1>3, <1>7
<1> HIDE DEF s
<1> QED
  BY <1>6, <1>7, <1>10, <1>11, <1>12

\* One matched cell or unmatched cell of column x.
Stepped(col, x, y, matches, fill) ==
  IF <<y, x>> \in matches THEN Slide(col, y, fill[<<y, x>>]) ELSE col

FirstColumn(x) == [i \in 1 .. GRID_HEIGHT |-> grid[<<i-1, x>>]]

\* f is the recursion up to row m.
Slid(f, m, x, matches, fill) ==
  f = [n \in 0 .. m |->
        IF n = 0 THEN FirstColumn(x) ELSE Stepped(f[n-1], x, n-1, matches, fill)]

\* The sliding of a column is the function its recursion describes.
LEMMA Recursion ==
  ASSUME NEW x, NEW matches, NEW fill
  PROVE  \E after :
           /\ ColumnAfter(x, matches, fill) = after[GRID_HEIGHT]
           /\ after[0] = FirstColumn(x)
           /\ \A n \in 0 .. GRID_HEIGHT : n < GRID_HEIGHT =>
                after[n+1] = Stepped(after[n], x, n, matches, fill)
<1> DEFINE P(f, m) == Slid(f, m, x, matches, fill)
           G == {m \in 0 .. GRID_HEIGHT : \E f : P(f, m)}
           after == CHOOSE f : P(f, GRID_HEIGHT)
<1>1. GRID_HEIGHT \in Nat
  BY SizeAssumption
<1>2. 0 \in G
  <2> DEFINE f == [n \in 0 .. 0 |-> FirstColumn(x)]
  <2>1. P(f, 0)
    BY DEF Slid
  <2> HIDE DEF P
  <2> QED
    BY <1>1, <2>1
<1>3. ASSUME NEW m \in 0 .. GRID_HEIGHT, m < GRID_HEIGHT, m \in G
      PROVE  m + 1 \in G
  <2>1. PICK f : P(f, m)
    BY <1>3
  <2> DEFINE g == [n \in 0 .. m + 1 |->
                    IF n <= m THEN f[n] ELSE Stepped(f[m], x, m, matches, fill)]
  <2>2. \A n \in 0 .. m :
          f[n] = IF n = 0 THEN FirstColumn(x) ELSE Stepped(f[n-1], x, n-1, matches, fill)
    BY <2>1 DEF Slid
  <2>3. \A n \in 0 .. m : g[n] = f[n]
    BY <1>1
  <2>4. g[m+1] = Stepped(g[m], x, m, matches, fill)
    BY <1>1
  <2>5. g = [n \in 0 .. m + 1 |-> g[n]]
    OBVIOUS
  <2> HIDE DEF g
  <2>6. \A n \in 0 .. m + 1 :
          g[n] = IF n = 0 THEN FirstColumn(x) ELSE Stepped(g[n-1], x, n-1, matches, fill)
    <3> TAKE n \in 0 .. m + 1
    <3>1. CASE n \in 0 .. m
      <4>1. n # 0 => n - 1 \in 0 .. m
        BY <1>1, <3>1
      <4> QED
        BY <2>2, <2>3, <3>1, <4>1
    <3>2. CASE n = m + 1
      <4>1. n - 1 = m /\ n # 0
        BY <1>1, <3>2
      <4> QED
        BY <2>4, <3>2, <4>1
    <3> QED
      BY <1>1, <3>1, <3>2
  <2>7. P(g, m + 1)
    BY <2>5, <2>6 DEF Slid
  <2> HIDE DEF P
  <2> QED
    BY <1>1, <1>3, <2>7
<1>4. GRID_HEIGHT \in G
  <2> HIDE DEF G
  <2> QED
    BY <1>1, <1>2, <1>3, Induction
<1>5. P(after, GRID_HEIGHT)
  <2> HIDE DEF P
  <2> QED
    BY <1>4
<1>6. ColumnAfter(x, matches, fill) = after[GRID_HEIGHT]
  BY DEF ColumnAfter, FirstColumn, Stepped, Slid
<1> HIDE DEF after
<1>7. after[0] = FirstColumn(x)
  BY <1>1, <1>5 DEF Slid
<1>8. ASSUME NEW n \in 0 .. GRID_HEIGHT, n < GRID_HEIGHT
      PROVE  after[n+1] = Stepped(after[n], x, n, matches, fill)
  <2>1. n + 1 \in 0 .. GRID_HEIGHT /\ n + 1 # 0 /\ n + 1 - 1 = n
    BY <1>1, <1>8
  <2> QED
    BY <1>5, <2>1 DEF Slid
<1> QED
  BY <1>6, <1>7, <1>8

\* The matched cells of column x below row y and above row n.
Between(matches, x, y, n) == {c \in matches : c[2] = x /\ c[1] > y /\ c[1] < n}

\* The matched cells between two rows, with one row more.
LEMMA BetweenGrows ==
  ASSUME NEW matches \in SUBSET Cells, NEW x \in Cols, NEW y \in Rows, NEW n \in Rows
  PROVE  /\ Cardinality(Between(matches, x, y, n)) \in Nat
         /\ n <= y + 1 => Cardinality(Between(matches, x, y, n)) = 0
         /\ <<n, x>> \in matches /\ n > y =>
              Cardinality(Between(matches, x, y, n+1)) = Cardinality(Between(matches, x, y, n)) + 1
         /\ ~(<<n, x>> \in matches /\ n > y) =>
              Between(matches, x, y, n+1) = Between(matches, x, y, n)
<1> DEFINE B(m) == Between(matches, x, y, m)
<1>1. \A c \in matches : c = <<c[1], c[2]>> /\ c[1] \in Int
  BY CellParts, Sizes
<1>2. n \in Int /\ y \in Int
  BY Sizes
<1>3. IsFiniteSet(B(n))
  BY CellsFinite, FS_Subset DEF Between
<1>4. n <= y + 1 => B(n) = {}
  BY <1>1, <1>2 DEF Between
<1>5. <<n, x>> \in matches /\ n > y => B(n+1) = B(n) \cup {<<n, x>>}
  BY <1>1, <1>2 DEF Between
<1>6. <<n, x>> \notin B(n)
  BY <1>2 DEF Between
<1>7. ~(<<n, x>> \in matches /\ n > y) => B(n+1) = B(n)
  BY <1>1, <1>2 DEF Between
<1> HIDE DEF B
<1>8. Cardinality(B(n)) \in Nat
  BY <1>3, FS_CardinalityType
<1>9. B(n) = {} => Cardinality(B(n)) = 0
  BY <1>3, FS_EmptySet
<1>10. Cardinality(B(n) \cup {<<n, x>>}) = Cardinality(B(n)) + 1
  BY <1>3, <1>6, FS_AddElement
<1> QED
  BY <1>4, <1>5, <1>7, <1>8, <1>9, <1>10 DEF B

\* After the cells above row n of column x have been looked at, an unmatched
\* tile above it has fallen by the matched cells between, and the tiles from
\* row n on are where they were.
Fallen(col, x, n, matches) ==
  /\ col \in Seq(Tile) /\ Len(col) = GRID_HEIGHT
  /\ \A y \in Rows : <<y, x>> \notin matches =>
       LET k == Cardinality(Between(matches, x, y, n)) IN
       IF y < n THEN k \in Nat /\ y + k < n /\ col[y + k + 1] = grid[<<y, x>>]
       ELSE col[y + 1] = grid[<<y, x>>]

\* One pass of the loop over rows: what had fallen by the rows above n has
\* fallen by those down to n.
LEMMA StepFalls ==
  ASSUME NEW matches \in SUBSET Cells, NEW fill \in [matches -> Tile],
         NEW x \in Cols, NEW n \in Rows, NEW col, Fallen(col, x, n, matches)
  PROVE  Fallen(Stepped(col, x, n, matches, fill), x, n + 1, matches)
<1> DEFINE new == Stepped(col, x, n, matches, fill)
<1>1. n \in Int /\ 0 <= n /\ n < GRID_HEIGHT /\ GRID_HEIGHT \in Int
  BY Sizes DEF Rows
<1>2. \A y \in Rows : y \in Int /\ 0 <= y /\ y < GRID_HEIGHT
  BY Sizes DEF Rows
<1>3. /\ col \in Seq(Tile) /\ Len(col) = GRID_HEIGHT
      /\ \A y \in Rows : <<y, x>> \notin matches =>
           LET k == Cardinality(Between(matches, x, y, n)) IN
           IF y < n THEN k \in Nat /\ y + k < n /\ col[y + k + 1] = grid[<<y, x>>]
           ELSE col[y + 1] = grid[<<y, x>>]
  BY DEF Fallen
<1>0. col \in Seq(Tile) /\ Len(col) = GRID_HEIGHT
  BY DEF Fallen
<1>4. CASE <<n, x>> \in matches
  <2> DEFINE tile == fill[<<n, x>>]
  <2>0. tile \in Tile
    BY <1>4
  <2> HIDE DEF tile
  <2>1. new = Slide(col, n, tile)
    BY <1>4 DEF Stepped, tile
  <2> HIDE DEF new
  <2>2. /\ new \in Seq(Tile) /\ Len(new) = GRID_HEIGHT
        /\ \A i \in 2 .. n + 1 : new[i] = col[i-1]
        /\ \A i \in n + 2 .. GRID_HEIGHT : new[i] = col[i]
    <3> DEFINE moved == Slide(col, n, tile)
    <3>1. /\ moved \in Seq(Tile) /\ Len(moved) = GRID_HEIGHT
          /\ \A i \in 2 .. n + 1 : moved[i] = col[i-1]
          /\ \A i \in n + 2 .. GRID_HEIGHT : moved[i] = col[i]
      BY <1>0, <2>0, SlideTyped
    <3> QED
      BY <2>1, <3>1
  <2>3. ASSUME NEW y \in Rows, <<y, x>> \notin matches
        PROVE  LET k == Cardinality(Between(matches, x, y, n + 1)) IN
               IF y < n + 1 THEN k \in Nat /\ y + k < n + 1 /\ new[y + k + 1] = grid[<<y, x>>]
               ELSE new[y + 1] = grid[<<y, x>>]
    <3> DEFINE j == Cardinality(Between(matches, x, y, n))
               k == Cardinality(Between(matches, x, y, n + 1))
    <3>1. y # n
      BY <1>4, <2>3
    <3>2. CASE y < n
      <4>1. j \in Nat /\ y + j < n /\ col[y + j + 1] = grid[<<y, x>>]
        BY <1>3, <2>3, <3>2
      <4>2. k = j + 1
        BY <1>1, <1>2, <1>4, <3>2, BetweenGrows
      <4> HIDE DEF j, k
      <4>3. PICK i \in 2 .. n + 1 : i = y + k + 1 /\ i - 1 = y + j + 1
        BY <1>1, <1>2, <4>1, <4>2
      <4>4. new[i] = col[i - 1]
        BY <2>2, <4>3
      <4>5. k \in Nat /\ y + k < n + 1 /\ y < n + 1
        BY <1>1, <1>2, <3>2, <4>1, <4>2
      <4>6. new[y + k + 1] = grid[<<y, x>>]
        BY <4>1, <4>3, <4>4
      <4> QED
        BY <4>5, <4>6 DEF k
    <3>3. CASE y > n
      <4>1. col[y + 1] = grid[<<y, x>>]
        BY <1>1, <1>2, <1>3, <2>3, <3>3
      <4>2. y + 1 \in n + 2 .. GRID_HEIGHT /\ ~(y < n + 1)
        BY <1>1, <1>2, <3>3
      <4> QED
        BY <2>2, <4>1, <4>2
    <3> QED
      BY <1>1, <1>2, <3>1, <3>2, <3>3
  <2> QED
    BY <2>2, <2>3 DEF Fallen, new
<1>5. CASE <<n, x>> \notin matches
  <2>1. new = col
    BY <1>5 DEF Stepped
  <2>2. ASSUME NEW y \in Rows, <<y, x>> \notin matches
        PROVE  LET k == Cardinality(Between(matches, x, y, n + 1)) IN
               IF y < n + 1 THEN k \in Nat /\ y + k < n + 1 /\ col[y + k + 1] = grid[<<y, x>>]
               ELSE col[y + 1] = grid[<<y, x>>]
    <3> DEFINE j == Cardinality(Between(matches, x, y, n))
    <3>1. Cardinality(Between(matches, x, y, n + 1)) = j
      BY <1>5, BetweenGrows
    <3>2. j \in Nat /\ (n <= y + 1 => j = 0)
      BY BetweenGrows
    <3>3. IF y < n THEN j \in Nat /\ y + j < n /\ col[y + j + 1] = grid[<<y, x>>]
          ELSE col[y + 1] = grid[<<y, x>>]
      BY <1>3, <2>2
    <3> HIDE DEF j
    <3>4. IF y < n + 1 THEN j \in Nat /\ y + j < n + 1 /\ col[y + j + 1] = grid[<<y, x>>]
          ELSE col[y + 1] = grid[<<y, x>>]
      <4>1. CASE y < n
        <5>1. y < n + 1 /\ \A m \in Nat : y + m < n => y + m < n + 1
          BY <1>1, <1>2, <4>1
        <5> QED
          BY <3>3, <4>1, <5>1
      <4>2. CASE y = n
        <5>1. j = 0 /\ y + 0 + 1 = y + 1 /\ y < n + 1 /\ y + 0 < n + 1 /\ ~(y < n)
          BY <1>1, <1>2, <3>2, <4>2
        <5>2. col[y + 0 + 1] = grid[<<y, x>>]
          BY <3>3, <5>1
        <5> QED
          BY <5>1, <5>2
      <4>3. CASE y > n
        <5>1. ~(y < n) /\ ~(y < n + 1)
          BY <1>1, <1>2, <4>3
        <5> QED
          BY <3>3, <5>1
      <4> QED
        BY <1>1, <1>2, <4>1, <4>2, <4>3
    <3> QED
      BY <3>1, <3>4
  <2> QED
    BY <1>3, <2>1, <2>2 DEF Fallen
<1> QED
  BY <1>4, <1>5

\* What the sliding of a column computes.
LEMMA ColumnFalls ==
  ASSUME grid \in Grid, NEW matches \in SUBSET Cells, NEW fill \in [matches -> Tile],
         NEW x \in Cols
  PROVE  Fallen(ColumnAfter(x, matches, fill), x, GRID_HEIGHT, matches)
<1>1. PICK after : /\ ColumnAfter(x, matches, fill) = after[GRID_HEIGHT]
                   /\ after[0] = FirstColumn(x)
                   /\ \A n \in 0 .. GRID_HEIGHT : n < GRID_HEIGHT =>
                        after[n+1] = Stepped(after[n], x, n, matches, fill)
  BY Recursion
<1> DEFINE G == {n \in 0 .. GRID_HEIGHT : Fallen(after[n], x, n, matches)}
<1>2. GRID_HEIGHT \in Nat /\ Rows = 0 .. GRID_HEIGHT - 1
  BY SizeAssumption DEF Rows
<1>3. 0 \in G
  <2>1. \A i \in 1 .. GRID_HEIGHT : i - 1 \in Rows /\ <<i - 1, x>> \in Cells
    BY <1>2 DEF Cells
  <2>2. \A i \in 1 .. GRID_HEIGHT : grid[<<i - 1, x>>] \in Tile
    BY <2>1 DEF Grid
  <2>3. FirstColumn(x) \in Seq(Tile) /\ Len(FirstColumn(x)) = GRID_HEIGHT
    BY <1>2, <2>2 DEF FirstColumn
  <2>4. \A y \in Rows : ~(y < 0) /\ FirstColumn(x)[y + 1] = grid[<<y, x>>]
    BY <1>2 DEF FirstColumn
  <2>5. Fallen(after[0], x, 0, matches)
    BY <1>1, <2>3, <2>4 DEF Fallen
  <2> QED
    BY <1>2, <2>5
<1>4. ASSUME NEW n \in 0 .. GRID_HEIGHT, n < GRID_HEIGHT, n \in G
      PROVE  n + 1 \in G
  <2>1. n \in Rows /\ n + 1 \in 0 .. GRID_HEIGHT
    BY <1>2, <1>4
  <2>2. Fallen(after[n+1], x, n+1, matches)
    BY <1>1, <1>4, <2>1, StepFalls
  <2> QED
    BY <2>1, <2>2
<1> HIDE DEF G
<1>5. GRID_HEIGHT \in G
  BY <1>2, <1>3, <1>4, Induction
<1> QED
  BY <1>1, <1>5 DEF G

\* Three in a line are cells of the board.
LEMMA TripleOnBoard ==
  ASSUME NEW cells \in Triples
  PROVE  cells \subseteq Cells /\ cells # {}
<1>1. \A y \in Rows, x \in 0 .. GRID_WIDTH - 3 :
        <<y, x>> \in Cells /\ <<y, x+1>> \in Cells /\ <<y, x+2>> \in Cells
  BY Sizes DEF Cells, Cols
<1>2. \A y \in 0 .. GRID_HEIGHT - 3, x \in Cols :
        <<y, x>> \in Cells /\ <<y+1, x>> \in Cells /\ <<y+2, x>> \in Cells
  BY Sizes DEF Cells, Rows
<1>3. CASE \E y \in Rows, x \in 0 .. GRID_WIDTH - 3 :
             cells = {<<y, x>>, <<y, x+1>>, <<y, x+2>>}
  BY <1>1, <1>3
<1>4. CASE \E y \in 0 .. GRID_HEIGHT - 3, x \in Cols :
             cells = {<<y, x>>, <<y+1, x>>, <<y+2, x>>}
  BY <1>2, <1>4
<1> QED
  BY <1>3, <1>4 DEF Triples

\* Matches are cells of the board.
LEMMA MatchesOnBoard ==
  ASSUME NEW g
  PROVE  check_matches(g) \in SUBSET Cells
  BY TripleOnBoard DEF check_matches

\* A round lets every unmatched tile fall by the matched cells below it in its
\* column.
LEMMA RoundFalls ==
  ASSUME grid \in Grid, Round
  PROVE  /\ grid' \in Grid
         /\ LET m == check_matches(grid) IN
              \A y \in Rows, x \in Cols : <<y, x>> \notin m =>
                LET k == Cardinality(Between(m, x, y, GRID_HEIGHT)) IN
                  k \in Nat /\ y + k \in Rows /\ grid'[<<y + k, x>>] = grid[<<y, x>>]
<1> DEFINE m == check_matches(grid)
<1>1. PICK fill \in [m -> Tile] :
        grid' = [c \in Cells |-> [x \in Cols |-> ColumnAfter(x, m, fill)][c[2]][c[1] + 1]]
  BY DEF Round
<1>2. m \in SUBSET Cells
  BY MatchesOnBoard
<1> HIDE DEF m
<1>3. \A x \in Cols : Fallen(ColumnAfter(x, m, fill), x, GRID_HEIGHT, m)
  BY <1>2, ColumnFalls
<1>4. \A y \in Rows, x \in Cols : grid'[<<y, x>>] = ColumnAfter(x, m, fill)[y + 1]
  BY <1>1 DEF Cells
<1>5. \A y \in Rows : y \in Int /\ 0 <= y /\ y < GRID_HEIGHT /\ y + 1 \in 1 .. GRID_HEIGHT
  BY Sizes DEF Rows
<1>6. \A x \in Cols : /\ ColumnAfter(x, m, fill) \in Seq(Tile)
                      /\ Len(ColumnAfter(x, m, fill)) = GRID_HEIGHT
  BY <1>3 DEF Fallen
<1>7. grid' \in Grid
  <2>1. \A y \in Rows, x \in Cols : ColumnAfter(x, m, fill)[y + 1] \in Tile
    BY <1>5, <1>6
  <2>2. \A c \in Cells : grid'[c] \in Tile
    BY <1>4, <2>1, CellParts
  <2>3. grid' = [c \in Cells |-> grid'[c]]
    BY <1>1
  <2> QED
    BY <2>2, <2>3 DEF Grid
<1>8. ASSUME NEW y \in Rows, NEW x \in Cols, <<y, x>> \notin m
      PROVE  LET k == Cardinality(Between(m, x, y, GRID_HEIGHT)) IN
               k \in Nat /\ y + k \in Rows /\ grid'[<<y + k, x>>] = grid[<<y, x>>]
  <2> DEFINE k == Cardinality(Between(m, x, y, GRID_HEIGHT))
  <2>1. k \in Nat /\ y + k < GRID_HEIGHT
        /\ ColumnAfter(x, m, fill)[y + k + 1] = grid[<<y, x>>]
    BY <1>3, <1>5, <1>8 DEF Fallen
  <2> HIDE DEF k
  <2>2. y + k \in Rows
    BY <1>5, <2>1, Sizes DEF Rows
  <2> QED
    BY <1>4, <2>1, <2>2 DEF k
<1> QED
  BY <1>7, <1>8 DEF m

\* Every step preserves the invariant.
LEMMA StepKeeps ==
  ASSUME Inv, [Next]_vars
  PROVE  Inv'
<1> USE DEF Inv
<1>1. CASE Turn
  <2>1. CandyTypeOK'
    BY <1>1, TurnIsHonest
  <2>2. phase' = "match"
    BY <1>1 DEF Turn
  <2> QED
    BY <2>1, <2>2 DEF SettledBoard
<1>2. CASE Round
  <2>1. grid' \in Grid
    BY <1>2, RoundFalls DEF CandyTypeOK
  <2>2. UNCHANGED <<selected_y, selected_x, gamepad_prior, phase>> /\ phase = "match"
    BY <1>2 DEF Round
  <2> QED
    BY <2>1, <2>2 DEF CandyTypeOK, SettledBoard
<1>3. CASE Settle
  BY <1>3 DEF Settle, CandyTypeOK, SettledBoard, check_matches, Equal
<1>4. CASE UNCHANGED vars
  BY <1>4 DEF vars, CandyTypeOK, SettledBoard, check_matches, Equal
<1> QED
  BY <1>1, <1>2, <1>3, <1>4 DEF Next

\* The invariant of the game holds always.
LEMMA Invariance == Spec => []Inv
<1>1. Init => Inv
  <2> SUFFICES ASSUME Init
               PROVE  Inv
    OBVIOUS
  <2>2. check_matches(grid) = {}
    BY MixedIsSettled DEF Init
  <2> QED
    BY <2>2, Sizes DEF Init, Inv, CandyTypeOK, SettledBoard
<1>2. Inv /\ [Next]_vars => Inv'
  BY StepKeeps
<1> QED
  BY <1>1, <1>2, PTL DEF Spec

\* Every variable keeps its type on a board of any size, whatever buttons are
\* held: the cursor stays on the board and every cell has a tile, also after
\* the columns have slid.
THEOREM Types == Spec => []CandyTypeOK
<1>1. Inv => CandyTypeOK
  BY DEF Inv
<1> QED
  BY <1>1, Invariance, PTL

\* No board that waits for the player has a match on it.
THEOREM BoardIsSettled == Spec => []SettledBoard
<1>1. Inv => SettledBoard
  BY DEF Inv
<1> QED
  BY <1>1, Invariance, PTL

\* However many swaps a poll finds, the turn leaves the board alone or
\* rearranges its tiles into a board with a match.
THEOREM TurnsAreHonest == Spec => HonestTurn
<1> DEFINE Turned == phase = "poll" =>
                       \/ grid' = grid
                       \/ /\ check_matches(grid') # {}
                          /\ \A t \in Tile : Count(grid', t) = Count(grid, t)
<1>1. Inv /\ [Next]_vars => [Turned]_vars
  <2> SUFFICES ASSUME Inv, Next, phase = "poll"
               PROVE  Honest(grid, grid')
    BY DEF Honest
  <2>1. CASE Turn
    BY <2>1, TurnIsHonest DEF Inv
  <2>2. CASE Round \/ Settle
    BY <2>2 DEF Round, Settle
  <2> QED
    BY <2>1, <2>2 DEF Next
<1>2. Spec => [][Turned]_vars
  BY <1>1, Invariance, PTL DEF Spec
<1> QED
  BY <1>2 DEF HonestTurn

-----------------------------------------------------------------------------
\* The desktop version's board, and what it calls a match.
LEMMA SameBoard == Desktop!Board = Cells
  BY DEF Desktop!Board, Cells, Rows, Cols

\* The cells of a line from c in direction d, written out.
LEMMA LineCells ==
  ASSUME NEW c \in Cells, NEW dy \in {0, 1}, NEW dx \in {0, 1}
  PROVE  {<<c[1] + k * dy, c[2] + k * dx>> : k \in 0 .. 2}
           = {<<c[1], c[2]>>, <<c[1] + dy, c[2] + dx>>, <<c[1] + 2 * dy, c[2] + 2 * dx>>}
<1>1. c[1] \in Int /\ c[2] \in Int
  BY CellParts, Sizes
<1>2. 0 .. 2 = {0, 1, 2}
  OBVIOUS
<1>3. /\ c[1] + 0 * dy = c[1] /\ c[2] + 0 * dx = c[2]
      /\ c[1] + 1 * dy = c[1] + dy /\ c[2] + 1 * dx = c[2] + dx
  BY <1>1
<1> QED
  BY <1>2, <1>3

\* The two versions look at the same lines of three.
LEMMA SameLines == Desktop!Lines = Triples
<1> DEFINE L(c, d) == {<<c[1] + k * d[1], c[2] + k * d[2]>> : k \in 0 .. 2}
<1>1. ASSUME NEW c \in Cells
      PROVE  /\ L(c, <<0, 1>>) = {<<c[1], c[2]>>, <<c[1], c[2]+1>>, <<c[1], c[2]+2>>}
             /\ L(c, <<1, 0>>) = {<<c[1], c[2]>>, <<c[1]+1, c[2]>>, <<c[1]+2, c[2]>>}
  <2>1. c[1] \in Int /\ c[2] \in Int
    BY CellParts, Sizes
  <2>2. /\ c[1] + 0 = c[1] /\ c[2] + 0 = c[2] /\ c[1] + 2 * 0 = c[1] /\ c[2] + 2 * 0 = c[2]
        /\ 2 * 1 = 2
    BY <2>1
  <2>3. L(c, <<0, 1>>) = {<<c[1], c[2]>>, <<c[1] + 0, c[2] + 1>>, <<c[1] + 2 * 0, c[2] + 2 * 1>>}
    BY LineCells
  <2>4. L(c, <<1, 0>>) = {<<c[1], c[2]>>, <<c[1] + 1, c[2] + 0>>, <<c[1] + 2 * 1, c[2] + 2 * 0>>}
    BY LineCells
  <2> QED
    BY <2>2, <2>3, <2>4
<1>2. Desktop!Lines = {l \in {L(c, d) : c \in Cells, d \in {<<0, 1>>, <<1, 0>>}} : l \subseteq Cells}
  BY SameBoard DEF Desktop!Lines
<1> HIDE DEF L
<1>3. ASSUME NEW l \in Triples
      PROVE  l \in Desktop!Lines
  <2>1. l \subseteq Cells
    BY TripleOnBoard
  <2>2. CASE \E y \in Rows, x \in 0 .. GRID_WIDTH - 3 :
               l = {<<y, x>>, <<y, x+1>>, <<y, x+2>>}
    <3>1. PICK y \in Rows, x \in 0 .. GRID_WIDTH - 3 :
            l = {<<y, x>>, <<y, x+1>>, <<y, x+2>>}
      BY <2>2
    <3>2. <<y, x>> \in Cells
      BY <2>1, <3>1
    <3>3. l = L(<<y, x>>, <<0, 1>>)
      BY <1>1, <3>1, <3>2
    <3> QED
      BY <1>2, <2>1, <3>2, <3>3
  <2>3. CASE \E y \in 0 .. GRID_HEIGHT - 3, x \in Cols :
               l = {<<y, x>>, <<y+1, x>>, <<y+2, x>>}
    <3>1. PICK y \in 0 .. GRID_HEIGHT - 3, x \in Cols :
            l = {<<y, x>>, <<y+1, x>>, <<y+2, x>>}
      BY <2>3
    <3>2. <<y, x>> \in Cells
      BY <2>1, <3>1
    <3>3. l = L(<<y, x>>, <<1, 0>>)
      BY <1>1, <3>1, <3>2
    <3> QED
      BY <1>2, <2>1, <3>2, <3>3
  <2> QED
    BY <2>2, <2>3 DEF Triples
<1>4. ASSUME NEW l \in Desktop!Lines
      PROVE  l \in Triples
  <2>1. l \subseteq Cells
    BY <1>2
  <2>2. PICK c \in Cells, d \in {<<0, 1>>, <<1, 0>>} : l = L(c, d)
    BY <1>2
  <2>3. c[1] \in Rows /\ c[2] \in Cols
    BY CellParts
  <2>4. CASE d = <<0, 1>>
    <3>1. l = {<<c[1], c[2]>>, <<c[1], c[2]+1>>, <<c[1], c[2]+2>>}
      BY <1>1, <2>2, <2>4
    <3>2. c[2] + 2 \in Cols
      BY <2>1, <3>1 DEF Cells
    <3>3. c[2] \in 0 .. GRID_WIDTH - 3
      BY <2>3, <3>2, Sizes DEF Cols
    <3> QED
      BY <2>3, <3>1, <3>3 DEF Triples
  <2>5. CASE d = <<1, 0>>
    <3>1. l = {<<c[1], c[2]>>, <<c[1]+1, c[2]>>, <<c[1]+2, c[2]>>}
      BY <1>1, <2>2, <2>5
    <3>2. c[1] + 2 \in Rows
      BY <2>1, <3>1 DEF Cells
    <3>3. c[1] \in 0 .. GRID_HEIGHT - 3
      BY <2>3, <3>2, Sizes DEF Rows
    <3> QED
      BY <2>3, <3>1, <3>3 DEF Triples
  <2> QED
    BY <2>2, <2>4, <2>5
<1> QED
  BY <1>3, <1>4

\* The abstract game counts as this one does.
LEMMA SameCount ==
  ASSUME NEW S
  PROVE  Desktop!Cardinality(S) = Cardinality(S)
  BY DEF Desktop!Cardinality, Cardinality

\* Three tiles are of one kind when they are equal.
LEMMA SameMatches ==
  ASSUME NEW g
  PROVE  Desktop!Matched(g) = check_matches(g)
<1>1. ASSUME NEW l \in Triples
      PROVE  Cardinality({g[c] : c \in l}) = 1 <=> Equal(g, l)
  <2> DEFINE T == {g[c] : c \in l}
  <2>1. PICK d : d \in l
    BY TripleOnBoard
  <2>2. Equal(g, l) => T = {g[d]}
    BY <2>1 DEF Equal
  <2>3. T = {g[d]} => Cardinality(T) = 1
    BY FS_Singleton
  <2>4. ASSUME Cardinality(T) = 1
        PROVE  Equal(g, l)
    <3>1. IsFiniteSet(T)
      <4>1. IsFiniteSet(l)
        BY CellsFinite, FS_Subset, TripleOnBoard
      <4> DEFINE f == [c \in l |-> g[c]]
      <4>2. f \in Surjection(l, T)
        BY DEF Surjection
      <4> QED
        BY <4>1, <4>2, FS_Surjection
    <3>2. PICK t : T = {t}
      BY <2>4, <3>1, FS_Singleton
    <3> QED
      BY <3>2 DEF Equal
  <2> QED
    BY <2>2, <2>3, <2>4
<1>2. {l \in Desktop!Lines : Cardinality({g[c] : c \in l}) = 1} = {l \in Triples : Equal(g, l)}
  BY <1>1, SameLines
<1>3. Desktop!Matched(g) = UNION {l \in Desktop!Lines : Cardinality({g[c] : c \in l}) = 1}
  BY SameCount DEF Desktop!Matched
<1>4. check_matches(g) = UNION {l \in Triples : Equal(g, l)}
  BY DEF check_matches
<1> QED
  BY <1>2, <1>3, <1>4

\* The first board.
LEMMA InitRefines == Init => Desktop!Init
<1> SUFFICES ASSUME Init
             PROVE  Desktop!Init
  OBVIOUS
<1>1. ASSUME NEW c \in Cells, NEW d \in Cells,
             (c[1] = d[1] /\ c[2] + 1 = d[2]) \/ (c[2] = d[2] /\ c[1] + 1 = d[1])
      PROVE  grid[c] # grid[d]
  <2>1. /\ c = <<c[1], c[2]>> /\ d = <<d[1], d[2]>>
        /\ c[1] \in Nat /\ c[2] \in Nat /\ d[1] \in Nat /\ d[2] \in Nat
    BY CellParts, Sizes DEF Rows, Cols
  <2>2. Excluded(grid, d[1], d[2])
    BY DEF Init
  <2>3. CASE c[1] = d[1] /\ c[2] + 1 = d[2]
    <3>1. d[2] > 0 /\ d[2] - 1 = c[2]
      BY <2>1, <2>3
    <3> QED
      BY <2>1, <2>2, <2>3, <3>1 DEF Excluded
  <2>4. CASE c[2] = d[2] /\ c[1] + 1 = d[1]
    <3>1. d[1] > 0 /\ d[1] - 1 = c[1]
      BY <2>1, <2>4
    <3> QED
      BY <2>1, <2>2, <2>4, <3>1 DEF Excluded
  <2> QED
    BY <1>1, <2>3, <2>4
<1>2. Desktop!Mixed(grid)
  BY <1>1, SameBoard DEF Desktop!Mixed
<1> QED
  BY <1>2, SameBoard DEF Init, Grid, Desktop!Init

\* The keys pressed when the buttons of r are released.
Keys(r) == {Key(b) : b \in r}

\* The keys of the desktop version are the buttons of the other.
LEMMA SameKeys ==
  ASSUME NEW r \in SUBSET Button
  PROVE  /\ "W" \in Keys(r) <=> "x" \in r
         /\ "A" \in Keys(r) <=> "y" \in r
         /\ "S" \in Keys(r) <=> "b" \in r
         /\ "D" \in Keys(r) <=> "a" \in r
         /\ \A k \in {"left", "right", "up", "down"} : k \in Keys(r) <=> k \in r
<1>1. /\ Key("x") = "W" /\ Key("y") = "A" /\ Key("b") = "S" /\ Key("a") = "D"
      /\ \A k \in {"left", "right", "up", "down"} : Key(k) = k
  BY DEF Key
<1>2. \A b \in r : b \in {"left", "right", "up", "down", "x", "y", "a", "b"}
  BY DEF Button
<1> QED
  BY <1>1, <1>2 DEF Keys

\* The abstract game's view of a position between two swaps.
View(s) == [grid |-> s.grid, at |-> <<s.y, s.x>>]

\* A try, with its undo, is what the desktop version makes of a swap.
LEMMA SameSwap ==
  ASSUME NEW s, IsPosition(s), NEW pressed, NEW dy \in Int, NEW dx \in Int
  PROVE  Desktop!AfterSwap(View(s), pressed, dy, dx)
           = View(Try(s, pressed, <<s.y + dy, s.x + dx>>))
<1> DEFINE from == <<s.y, s.x>>
           to   == <<s.y + dy, s.x + dx>>
           g    == [c \in Cells |-> s.grid[IF c = from THEN to ELSE IF c = to THEN from ELSE c]]
           h    == Swapped(s.grid, from, to)
<1>1. View(s).grid = s.grid /\ View(s).at = from /\ from[1] = s.y /\ from[2] = s.x
  BY DEF View
<1>2. from \in Cells /\ s.grid \in Grid
  BY DEF IsPosition, Cells
<1>3. ASSUME to \in Cells
      PROVE  g = h
  <2>1. s.grid = [c \in Cells |-> s.grid[c]]
    BY <1>2 DEF Grid
  <2> HIDE DEF from, to
  <2>2. h = [c \in Cells |-> IF c = to THEN s.grid[from] ELSE IF c = from THEN s.grid[to] ELSE s.grid[c]]
    BY <1>2, <1>3, <2>1 DEF Swapped
  <2> QED
    BY <1>2, <1>3, <2>2
<1>4. Desktop!AfterSwap(View(s), pressed, dy, dx)
        = IF pressed /\ to \in Cells /\ check_matches(g) # {} THEN [grid |-> g, at |-> to]
          ELSE View(s)
  BY <1>1, SameBoard, SameMatches DEF Desktop!AfterSwap
<1>5. Try(s, pressed, to)
        = IF pressed /\ to \in Cells /\ check_matches(h) # {}
          THEN [grid |-> h, y |-> to[1], x |-> to[2]] ELSE s
  BY DEF Try
<1>6. to = <<to[1], to[2]>>
  OBVIOUS
<1> HIDE DEF to, g, h
<1>7. CASE pressed /\ to \in Cells /\ check_matches(h) # {}
  <2>1. Desktop!AfterSwap(View(s), pressed, dy, dx) = [grid |-> h, at |-> to]
    BY <1>3, <1>4, <1>7
  <2> DEFINE t == [grid |-> h, y |-> to[1], x |-> to[2]]
  <2>2. Try(s, pressed, to) = t
    BY <1>5, <1>7
  <2>3. t.grid = h /\ t.y = to[1] /\ t.x = to[2]
    OBVIOUS
  <2> HIDE DEF t
  <2>4. View(t) = [grid |-> h, at |-> to]
    BY <1>6, <2>3 DEF View
  <2> QED
    BY <2>1, <2>2, <2>4 DEF to
<1>8. CASE ~(pressed /\ to \in Cells /\ check_matches(h) # {})
  <2>1. Desktop!AfterSwap(View(s), pressed, dy, dx) = View(s)
    BY <1>3, <1>4, <1>8
  <2>2. Try(s, pressed, to) = s
    BY <1>5, <1>8
  <2> QED
    BY <2>1, <2>2 DEF to
<1> QED
  BY <1>7, <1>8

\* So are the four tries in their order.
LEMMA SameSwaps ==
  ASSUME NEW s0, IsPosition(s0), NEW r \in SUBSET Button
  PROVE  Desktop!AfterSwaps(View(s0), Keys(r)) = View(Swaps(s0, r))
<1> DEFINE s1 == Try(s0, "x" \in r, <<s0.y - 1, s0.x>>)
           s2 == Try(s1, "y" \in r, <<s1.y, s1.x - 1>>)
           s3 == Try(s2, "b" \in r, <<s2.y + 1, s2.x>>)
           s4 == Try(s3, "a" \in r, <<s3.y, s3.x + 1>>)
           d1 == Desktop!AfterSwap(View(s0), "W" \in Keys(r), -1, 0)
           d2 == Desktop!AfterSwap(d1, "A" \in Keys(r), 0, -1)
           d3 == Desktop!AfterSwap(d2, "S" \in Keys(r), 1, 0)
           d4 == Desktop!AfterSwap(d3, "D" \in Keys(r), 0, 1)
<1>1. ASSUME NEW s, IsPosition(s)
      PROVE  /\ s.y - 1 = s.y + (-1) /\ s.y = s.y + 0
             /\ s.x - 1 = s.x + (-1) /\ s.x = s.x + 0
  <2>1. s.y \in Int /\ s.x \in Int
    BY <1>1, Sizes DEF IsPosition
  <2>2. \A i \in Int : i - 1 = i + (-1) /\ i = i + 0
    OBVIOUS
  <2> QED
    BY <2>1, <2>2
<1>2. ("W" \in Keys(r)) = ("x" \in r) /\ ("A" \in Keys(r)) = ("y" \in r)
      /\ ("S" \in Keys(r)) = ("b" \in r) /\ ("D" \in Keys(r)) = ("a" \in r)
  BY SameKeys
<1>3. d1 = View(s1) /\ IsPosition(s1)
  BY <1>1, <1>2, SameSwap, TryIsHonest
<1> HIDE DEF s1, d1
<1>4. d2 = View(s2) /\ IsPosition(s2)
  BY <1>1, <1>2, <1>3, SameSwap, TryIsHonest
<1> HIDE DEF s2, d2
<1>5. d3 = View(s3) /\ IsPosition(s3)
  BY <1>1, <1>2, <1>4, SameSwap, TryIsHonest
<1> HIDE DEF s3, d3
<1>6. d4 = View(s4)
  BY <1>1, <1>2, <1>5, SameSwap
<1> HIDE DEF s4, d4
<1>7. Swaps(s0, r) = s4
  BY DEF Swaps, s1, s2, s3, s4
<1>8. Desktop!AfterSwaps(View(s0), Keys(r)) = d4
  BY DEF Desktop!AfterSwaps, d1, d2, d3, d4
<1> QED
  BY <1>6, <1>7, <1>8

\* A turn is the desktop version reading its keys.
LEMMA TurnRefines ==
  ASSUME CandyTypeOK, Turn
  PROVE  Desktop!Play
<1>1. PICK now \in Inputs :
        LET r == Released(now)
            s == Swaps([grid |-> grid, y |-> MovedY(r), x |-> MovedX(r)], r)
        IN grid' = s.grid /\ selected_y' = s.y /\ selected_x' = s.x
  BY DEF Turn
<1> DEFINE r  == Released(now)
           s0 == [grid |-> grid, y |-> MovedY(r), x |-> MovedX(r)]
           s  == Swaps(s0, r)
<1>2. /\ r = gamepad_prior \ now
      /\ gamepad_prior \in Inputs \cup {{}}
      /\ r \in SUBSET Button
  BY InputsAssumption DEF Released, CandyTypeOK
<1>3. Keys(r) \in {{Key(b) : b \in prior \ new} : prior \in Inputs \cup {{}}, new \in Inputs}
  BY <1>2 DEF Keys
<1> HIDE DEF r
<1>4. Desktop!Cursor(Keys(r)) = <<MovedY(r), MovedX(r)>>
  BY <1>2, SameKeys DEF Desktop!Cursor, Desktop!BackForth, MovedY, MovedX, Raise, Lower
<1>5. IsPosition(s0)
  BY MovesOnBoard DEF IsPosition, CandyTypeOK
<1>6. View(s0) = [grid |-> grid, at |-> Desktop!Cursor(Keys(r))]
  BY <1>4 DEF View
<1> HIDE DEF s0
<1>7. Desktop!AfterSwaps([grid |-> grid, at |-> Desktop!Cursor(Keys(r))], Keys(r)) = View(s)
  BY <1>2, <1>5, <1>6, SameSwaps
<1>8. grid' = s.grid /\ selected_y' = s.y /\ selected_x' = s.x
  BY <1>1 DEF r, s0
<1> HIDE DEF s
<1>9. /\ View(s).grid = s.grid /\ View(s).at[1] = s.y /\ View(s).at[2] = s.x
  BY DEF View
<1> QED
  BY <1>3, <1>7, <1>8, <1>9 DEF Turn, Desktop!Play

\* A round, with columns slid in place, is a fall of the desktop version.
LEMMA RoundRefines ==
  ASSUME CandyTypeOK, Round
  PROVE  Desktop!Fall
<1> DEFINE m == check_matches(grid)
           below(y, x) == Desktop!Cardinality({c \in m : c[2] = x /\ c[1] > y})
<1>1. m \in SUBSET Cells
  BY MatchesOnBoard
<1>2. ASSUME NEW y \in Rows, NEW x \in Cols
      PROVE  below(y, x) = Cardinality(Between(m, x, y, GRID_HEIGHT))
  <2>1. \A c \in m : c[1] < GRID_HEIGHT
    BY <1>1, CellParts, Sizes DEF Rows
  <2>2. {c \in m : c[2] = x /\ c[1] > y} = Between(m, x, y, GRID_HEIGHT)
    BY <2>1 DEF Between
  <2> QED
    BY <2>2, SameCount
<1>3. /\ grid' \in Grid
      /\ \A y \in Rows, x \in Cols : <<y, x>> \notin m =>
           LET k == Cardinality(Between(m, x, y, GRID_HEIGHT)) IN
             grid'[<<y + k, x>>] = grid[<<y, x>>]
  BY RoundFalls DEF CandyTypeOK
<1> HIDE DEF below
<1>4. ASSUME NEW c \in Cells \ m
      PROVE  grid'[<<c[1] + below(c[1], c[2]), c[2]>>] = grid[c]
  <2>1. c = <<c[1], c[2]>> /\ c[1] \in Rows /\ c[2] \in Cols
    BY CellParts
  <2> QED
    BY <1>2, <1>3, <1>4, <2>1
<1>5. /\ phase = "match" /\ m # {}
      /\ UNCHANGED <<selected_y, selected_x, phase>>
  BY DEF Round
<1>6. Desktop!Matched(grid) = m
  BY SameMatches
<1> HIDE DEF m
<1> QED
  BY <1>3, <1>4, <1>5, <1>6, SameBoard DEF Desktop!Fall, Grid, below

\* A pass that finds no match is the rest of the desktop version.
LEMMA SettleRefines ==
  ASSUME Settle
  PROVE  Desktop!Rest
  BY SameMatches DEF Settle, Desktop!Rest

\* The game on a board of any size is a game of the desktop version: the same
\* moves of the cursor, the same swaps in the same order, and rounds in which
\* every unmatched tile falls by the number of matched tiles below it.
THEOREM DesktopRefinement == Spec => ImplementsDesktop
<1>1. Inv /\ [Next]_vars => [Desktop!Next]_Desktop!deskVars
  <2> SUFFICES ASSUME Inv, [Next]_vars
               PROVE  [Desktop!Next]_Desktop!deskVars
    OBVIOUS
  <2>1. CASE Turn
    BY <2>1, TurnRefines DEF Inv, Desktop!Next
  <2>2. CASE Round
    BY <2>2, RoundRefines DEF Inv, Desktop!Next
  <2>3. CASE Settle
    BY <2>3, SettleRefines DEF Desktop!Next
  <2>4. CASE UNCHANGED vars
    BY <2>4 DEF vars, Desktop!deskVars
  <2> QED
    BY <2>1, <2>2, <2>3, <2>4 DEF Next
<1> QED
  BY <1>1, InitRefines, Invariance, PTL DEF Spec, ImplementsDesktop, Desktop!Spec
=============================================================================
