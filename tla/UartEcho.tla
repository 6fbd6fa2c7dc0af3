------------------------------ MODULE UartEcho ------------------------------
(***************************************************************************)
(* The serial echo of hw5-pipelined: system/System.sv joins two serial     *)
(* lines to the processor by a memory cell each, and uart-c/uart.c polls   *)
(* the one and fills the other.  Neither cell has a flag: the program      *)
(* empties the input cell by writing zero, and the transmitter sends       *)
(* whatever the output cell holds, again and again, without ever telling   *)
(* the program.  Between two stores to the cell the program waits for a    *)
(* loop of 333 turns, and how many characters the transmitter starts in it *)
(* is decided by two clocks: none, one, or several.                        *)
(*                                                                         *)
(* The n-th character typed is the number n, and the zero of an empty cell *)
(* is a character too, which a terminal does not show.                     *)
(***************************************************************************)
EXTENDS Naturals, SequencesExt

CONSTANTS
  MAX_LEN,       \* 8
  Samples,       \* how many characters the transmitter may start in a delay
  MAX_TYPED      \* bound of the characters typed

ASSUME LengthAssumption == MAX_LEN \in Nat \ {0} /\ MAX_TYPED \in Nat

\* Nothing is assumed of the delay: it may be shorter than a character, of which
\* the transmitter then starts none or one, or outlast several.
ASSUME SamplesAssumption == Samples \subseteq Nat /\ Samples # {}

\* An echo is a line and its end; the lines that can be typed bound the history
\* of what is sent, and that bound stops no echo of them.
EchoLen  == MAX_LEN + 2
MAX_SENT == (MAX_TYPED \div MAX_LEN) * EchoLen

LF == MAX_TYPED + 1
CR == MAX_TYPED + 2

VARIABLES
  INPUT, OUTPUT,       \* the two cells
  buffer,              \* buffer[0 .. input_len - 1]
  new_char,            \* 0 but during the delay before the input cell is cleared
  written,             \* characters of the echo written so far
  samples,             \* what is left of the delay
  typed,               \* history: characters typed,
  stored,              \*   stored in the buffer,
  sent                 \*   and sent during the delay after each store to OUTPUT

progVars == <<buffer, new_char, written, samples>>
vars     == <<INPUT, OUTPUT, progVars, typed, stored, sent>>

Init ==
  /\ INPUT = 0 /\ OUTPUT = 0
  /\ buffer = <<>> /\ new_char = 0 /\ written = 0 /\ samples = 0
  /\ typed = 0 /\ stored = <<>> /\ sent = <<>>

-----------------------------------------------------------------------------
\* The receiver overwrites the input cell, read or not.
Receive ==
  /\ typed < MAX_TYPED
  /\ typed' = typed + 1
  /\ INPUT' = typed'
  /\ UNCHANGED <<OUTPUT, progVars, stored, sent>>

\* The transmitter, free again, starts to send what the cell holds, be it new
\* or not.  While no delay runs the cell holds zero, or has just been filled.
Transmit ==
  /\ samples > 0
  /\ samples' = samples - 1
  /\ sent' = IF OUTPUT = 0 THEN sent ELSE [sent EXCEPT ![Len(sent)] = Append(@, OUTPUT)]
  /\ UNCHANGED <<INPUT, OUTPUT, buffer, new_char, written, typed, stored>>

Delay == samples' \in Samples

\* The program looks at the input cell, between two delays and two echoes.
Poll ==
  /\ samples = 0 /\ new_char = 0 /\ Len(buffer) < MAX_LEN
  /\ INPUT # 0
  /\ new_char' = INPUT
  /\ Delay
  /\ UNCHANGED <<INPUT, OUTPUT, buffer, written, typed, stored, sent>>

\* After the delay it empties the cell; the mutant leaves the character there.
LeftThere == INPUT
Cleared   == 0

Store ==
  /\ samples = 0 /\ new_char # 0
  /\ INPUT' = Cleared
  /\ buffer' = Append(buffer, new_char)
  /\ stored' = Append(stored, new_char)
  /\ new_char' = 0
  /\ UNCHANGED <<OUTPUT, written, samples, typed, sent>>

\* The characters of the echo, from the first to the line's end; the mutant
\* starts with the oldest.
InOrder(n)  == IF n < MAX_LEN THEN buffer[n + 1] ELSE IF n = MAX_LEN THEN LF ELSE CR
Reversed(n) == IF n < MAX_LEN THEN buffer[MAX_LEN - n] ELSE IF n = MAX_LEN THEN LF ELSE CR

Write ==
  /\ samples = 0 /\ Len(buffer) = MAX_LEN /\ written < MAX_LEN + 2
  /\ Len(sent) < MAX_SENT
  /\ OUTPUT' = Reversed(written)
  /\ written' = written + 1
  /\ Delay
  /\ sent' = Append(sent, <<>>)
  /\ UNCHANGED <<INPUT, buffer, new_char, typed, stored>>

\* input_len = 0; the mutant forgets it.
KeptOn    == buffer
Restarted == <<>>

\* After the last delay it empties the output cell too; the mutant leaves the
\* carriage return there, to be sent on.
LeftOver == OUTPUT
Emptied  == 0

EndEcho ==
  /\ samples = 0 /\ written = MAX_LEN + 2
  /\ OUTPUT' = Emptied
  /\ buffer' = Restarted
  /\ written' = 0
  /\ UNCHANGED <<INPUT, new_char, samples, typed, stored, sent>>

Next == Receive \/ Transmit \/ Poll \/ Store \/ Write \/ EndEcho

Spec == Init /\ [][Next]_vars

\* The transmitter and the processor run; nobody has to type.
FairSpec ==
  /\ Spec
  /\ WF_vars(Transmit) /\ WF_vars(Poll) /\ WF_vars(Store) /\ WF_vars(Write) /\ WF_vars(EndEcho)

-----------------------------------------------------------------------------
\* A character typed at a bad moment may be lost, since nothing tells a cell
\* that was read from one that was not; but none is ever taken twice, invented
\* or passed by a later one, whenever it arrives.
TakenOnce ==
  /\ \A n \in DOMAIN stored : stored[n] \in 1 .. typed
  /\ \A m, n \in DOMAIN stored : m < n => stored[m] < stored[n]

Lines == Len(stored) \div MAX_LEN

\* The character at a place of a line's echo, which ends the line or is of a
\* line stored; and the n-th character of the echoes of all lines.
LineEcho(line, place) ==
  CASE place < MAX_LEN -> stored[line * MAX_LEN + (MAX_LEN - place)]
    [] place = MAX_LEN -> LF
    [] OTHER -> CR

Echoed(n) == LineEcho((n - 1) \div EchoLen, (n - 1) % EchoLen)

\* The delay after the n-th store to OUTPUT is over.
DelayOver(n) == n < Len(sent) \/ samples = 0 \/ written = 0

\* Each store to OUTPUT puts the next character of the lines stored, reversed
\* and ended, on the line: until its delay is over that character and no other
\* is sent, as many times as the delay allows, and never again later; and once
\* an echo ends its line is complete.  So whatever else is seen on the terminal
\* is the delay's doing: a character is missing where no sending started in it,
\* and doubled where two did.
EchoedInTurn ==
  /\ \A n \in DOMAIN sent : \A k \in DOMAIN sent[n] : sent[n][k] = Echoed(n)
  /\ \A n \in DOMAIN sent : DelayOver(n) => Len(sent[n]) \in Samples
  /\ Len(sent) <= Lines * EchoLen
  /\ Len(buffer) < MAX_LEN => Len(sent) = Lines * EchoLen

\* A character that waits in the input cell is taken at last, also when it
\* arrives during an echo.
InputEmptied == INPUT # 0 ~> INPUT = 0
=============================================================================
