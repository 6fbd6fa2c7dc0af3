----------------------------- MODULE CandyText -----------------------------
(***************************************************************************)
(* The two lines of numbers of candycrvsh.rs beside the board: the points  *)
(* of the last round and the score.  Their letters are drawn one over the  *)
(* other unless the line is erased in between.                             *)
(***************************************************************************)
EXTENDS Integers, SequencesExt

CONSTANTS
  Font,          \* FONT8X8: the black pixels of each character, Plus and digits,
                 \* as <<row, column>> in 0..7
  MAX_SCORE      \* bound of the score, below 100

Plus == 10

\* Column and row.
SCORE_VALUE_LOCATION == <<210, 80>>
MOVE_SCORE0_LOCATION == <<210, 88>>
MOVE_SCORE1_LOCATION == <<218, 88>>

VARIABLES
  score,
  black,      \* the black pixels beside the board, as <<row, column>>
  line        \* "blank", "points", or "erased": the line of the points

textVars == <<score, black, line>>

\* itoa::Buffer::format
Digits(n) == IF n < 10 THEN <<n>> ELSE <<n \div 10, n % 10>>

render_text(s, start) ==
  UNION {{<<start[2] + b[1], start[1] + (ci - 1) * 8 + b[2]>> : b \in Font[s[ci]]} :
           ci \in DOMAIN s}

\* The pixels erase_text writes to.
erase_text(num_chars, start) == (start[2] .. start[2] + 7) \X (start[1] .. num_chars * 8 - 1)

TextInit == score = 0 /\ black = {} /\ line = "blank"

\* Points by the number of matched tiles.
move_score(num_tiles_matches) ==
  CASE num_tiles_matches = 3 -> 1 [] num_tiles_matches = 4 -> 2
    [] num_tiles_matches = 5 -> 3 [] OTHER -> 4

ShowPoints ==
  /\ line # "points"
  /\ \E n \in 3 .. 6 :
       /\ score + move_score(n) <= MAX_SCORE
       /\ score' = score + move_score(n)
       /\ black' = black \cup render_text(<<Plus>>, MOVE_SCORE0_LOCATION)
                         \cup render_text(Digits(move_score(n)), MOVE_SCORE1_LOCATION)
  /\ line' = "points"

ErasePoints ==
  /\ line = "points"
  /\ black' = black \ erase_text(4, MOVE_SCORE0_LOCATION)
  /\ line' = "erased"
  /\ UNCHANGED score

ShowScore ==
  /\ line # "points"
  /\ black' = (black \ erase_text(8, SCORE_VALUE_LOCATION))
                \cup render_text(Digits(score), SCORE_VALUE_LOCATION)
  /\ UNCHANGED <<score, line>>

TextNext == ShowPoints \/ ErasePoints \/ ShowScore

TextSpec == TextInit /\ [][TextNext]_textVars

-----------------------------------------------------------------------------
\* The comment on erase_text: it erases num_chars blocks of eight by eight
\* pixels from render_start on.  The code takes the width num_chars * 8 for
\* the last column, which lies left of the text.
BlocksErased ==
  line = "erased" =>
    black \cap ((88 .. 88 + 7) \X (210 .. 210 + 4 * 8 - 1)) = {}
=============================================================================
