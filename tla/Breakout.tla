------------------------------ MODULE Breakout ------------------------------
(***************************************************************************)
(* The paddle game of hw6-cache/atarvi-native/src/main.rs, with the random *)
(* number generator that runs beside it.  A Frame is an iteration of the   *)
(* main loop; the generator ticks between frames, and the reset button     *)
(* restarts both.  The program draws on its picture and never redraws it,  *)
(* so every frame must repair exactly what the one before left behind.     *)
(***************************************************************************)
EXTENDS Rng, Integers

CONSTANTS
  SCREEN_WIDTH, SCREEN_HEIGHT,     \* 40 and 30
  PADDLE_WIDTH,                    \* 4
  PADDLE_START,                    \* the paddle's first column: 2
  BALL_START,                      \* the ball's first column and row: 10
  COLOUR_BITS,                     \* a colour is a byte
  BG_COLOR, BLACK, RED             \* colours, as sets of one bits

PADDLE_ROW == SCREEN_HEIGHT - 2

Pixels == (0 .. SCREEN_HEIGHT - 1) \X (0 .. SCREEN_WIDTH - 1)
Colour == SUBSET (0 .. COLOUR_BITS - 1)

ASSUME ScreenAssumption ==
  /\ SCREEN_WIDTH \in Nat /\ SCREEN_HEIGHT \in Nat /\ PADDLE_WIDTH \in Nat
  /\ PADDLE_START \in Nat /\ BALL_START \in Nat
  /\ PADDLE_WIDTH > 0 /\ PADDLE_START + PADDLE_WIDTH <= SCREEN_WIDTH
  /\ BALL_START > 0 /\ BALL_START + 2 < SCREEN_WIDTH
  /\ BALL_START + 2 < PADDLE_ROW

ASSUME ColourAssumption == BG_COLOR \in Colour /\ BLACK \in Colour /\ RED \in Colour

VARIABLES
  screen,
  paddle_start_x,
  ball, ball_color,
  gamepad_prior, gamepad,     \* buttons held at the last poll; presses recorded
  game                        \* "play", "lost", or "crashed" by an index

gameVars == <<screen, paddle_start_x, ball, ball_color, gamepad_prior, gamepad, game>>
vars     == <<gameVars, rngVars>>

\* Writes outside of the frame buffer are left to `game'.
Paint(s, cells, colour) == [p \in Pixels |-> IF p \in cells THEN colour ELSE s[p]]

PaddleCells(start) == {<<PADDLE_ROW, i>> : i \in start .. start + PADDLE_WIDTH - 1}
BallCells(b)       == {b.y, b.y + 1} \X {b.x, b.x + 1}

FirstBall   == [x |-> BALL_START, y |-> BALL_START, dx |-> 1, dy |-> -1]
FirstScreen == Paint([p \in Pixels |-> BG_COLOR], PaddleCells(PADDLE_START), BLACK)

\* The screen is cleared and the paddle drawn, the ball not yet.
GameInit ==
  /\ screen = FirstScreen
  /\ paddle_start_x = PADDLE_START
  /\ ball = FirstBall
  /\ ball_color = BLACK
  /\ gamepad_prior = {} /\ gamepad = {}
  /\ game = "play"

Init == GameInit /\ RngInit

-----------------------------------------------------------------------------
\* Both buttons held move the paddle both ways, unless it is at a border, which
\* the mutant does not test.
RightHeld(now) == "right" \in now
GoesLeft(now)  == "left" \in now /\ paddle_start_x > 0
GoesRight(now) == "right" \in now /\ paddle_start_x + PADDLE_WIDTH < SCREEN_WIDTH

MovedPaddle(now) ==
  paddle_start_x - (IF GoesLeft(now) THEN 1 ELSE 0) + (IF GoesRight(now) THEN 1 ELSE 0)

\* A press is recorded when the button is let go, and forgotten when the
\* paddle moves that way.
Presses(now) ==
  (gamepad \cup (gamepad_prior \ now))
    \ ({d \in {"left"} : GoesLeft(now)} \cup {d \in {"right"} : GoesRight(now)})

\* The paddle is drawn by the two pixels in which it differs.
PaddleStrokes(new) ==
  IF new < paddle_start_x
  THEN [draw |-> {<<PADDLE_ROW, new>>}, clear |-> {<<PADDLE_ROW, paddle_start_x + PADDLE_WIDTH - 1>>}]
  ELSE IF new > paddle_start_x
  THEN [draw |-> {<<PADDLE_ROW, new + PADDLE_WIDTH - 1>>}, clear |-> {<<PADDLE_ROW, paddle_start_x>>}]
  ELSE [draw |-> {}, clear |-> {}]

\* The ball is erased but for the pixel it moves towards, or away from in the
\* mutant.
Behind(b) == <<b.y + (IF b.dy = 1 THEN 0 ELSE 1), b.x + (IF b.dx = 1 THEN 0 ELSE 1)>>
Ahead(b)  == <<b.y + (IF b.dy = 1 THEN 1 ELSE 0), b.x + (IF b.dx = 1 THEN 1 ELSE 0)>>
Erased(b) == BallCells(b) \ {Ahead(b)}

Moved(b) == [b EXCEPT !.x = b.x + b.dx, !.y = b.y + b.dy]

\* The mutant lets the ball bounce in any row from the paddle's top down.
HitsPaddleLate(b, start) ==
  b.x + 1 >= start /\ b.x <= start + PADDLE_WIDTH /\ b.y + 2 >= PADDLE_ROW
HitsPaddle(b, start) ==
  b.x + 1 >= start /\ b.x <= start + PADDLE_WIDTH /\ b.y + 2 = PADDLE_ROW

\* The mutants test the right side one column late, or forget the top.
HitsSideLate(b) == b.x = 0 \/ b.x + 1 >= SCREEN_WIDTH
NeverTop(b)     == FALSE

HitsSide(b) == b.x = 0 \/ b.x + 2 >= SCREEN_WIDTH
HitsTop(b)  == b.y = 0

Bounced(b, start) ==
  [b EXCEPT !.dx = IF HitsSide(b) THEN -b.dx ELSE b.dx,
            !.dy = IF HitsTop(b) \/ HitsPaddle(b, start) THEN -b.dy ELSE b.dy]

\* The ball on the ground ends the game.
OnGround(b) == b.y + 2 >= SCREEN_HEIGHT

\* A ball that hits the paddle takes the generator's low byte for its colour.
NewColour(b, start) ==
  IF OnGround(b) THEN RED
  ELSE IF HitsPaddle(b, start) THEN rng_state \cap (0 .. COLOUR_BITS - 1)
  ELSE ball_color

Frame ==
  /\ game = "play"
  /\ \E now \in SUBSET {"left", "right"} :
       LET start   == MovedPaddle(now)
           strokes == PaddleStrokes(start)
           b       == Moved(ball)
           colour  == NewColour(b, start)
           written == strokes.draw \cup strokes.clear \cup Erased(ball) \cup BallCells(b)
           drawn   == Paint(Paint(screen, strokes.draw, BLACK), strokes.clear, BG_COLOR)
       IN /\ screen' = Paint(Paint(drawn, Erased(ball), BG_COLOR), BallCells(b), colour)
          /\ paddle_start_x' = start
          /\ ball' = Bounced(b, start)
          /\ ball_color' = colour
          /\ gamepad' = Presses(now)
          /\ gamepad_prior' = now
          /\ game' = IF ~(written \subseteq Pixels) THEN "crashed"
                     ELSE IF OnGround(b) THEN "lost" ELSE "play"
  /\ UNCHANGED rngVars

\* The panic handler runs until the reset button is pressed.
Reset ==
  /\ ResetEdge
  /\ screen' = FirstScreen /\ paddle_start_x' = PADDLE_START
  /\ ball' = FirstBall /\ ball_color' = BLACK
  /\ gamepad_prior' = {} /\ gamepad' = {}
  /\ game' = "play"

Tick == ClockEdge /\ UNCHANGED gameVars

Next == Frame \/ Tick \/ Reset

Spec == Init /\ [][Next]_vars

\* The program and the clock run, and the reset button is let go at last.
FairSpec == Spec /\ WF_vars(Frame) /\ WF_vars(Tick) /\ <>[][~Reset]_vars

-----------------------------------------------------------------------------
\* Every variable has its type.
TypeOK ==
  /\ screen \in [Pixels -> Colour]
  /\ paddle_start_x \in 0 .. SCREEN_WIDTH - PADDLE_WIDTH
  /\ ball \in [x : Int, y : Int, dx : {-1, 1}, dy : {-1, 1}]
  /\ ball_color \in Colour
  /\ gamepad_prior \subseteq {"left", "right"} /\ gamepad \subseteq {"left", "right"}
  /\ game \in {"play", "lost", "crashed"}

\* The ball, whose unsigned coordinates index the frame buffer after a signed
\* step, never leaves the screen, and heads inwards at every border it
\* touches: also in a corner, on a paddle at the border, and after any reset.
BallInside ==
  /\ game # "crashed"
  /\ ball.x \in 0 .. SCREEN_WIDTH - 2 /\ ball.y \in 0 .. SCREEN_HEIGHT - 2
  /\ ball.x = 0 => ball.dx = 1
  /\ ball.x = SCREEN_WIDTH - 2 => ball.dx = -1
  /\ ball.y = 0 => ball.dy = 1
  /\ game = "lost" <=> ball.y = SCREEN_HEIGHT - 2

\* What the screen should show: the ball over the paddle over the background.
Picture ==
  [p \in Pixels |->
    IF p \in BallCells(ball) THEN ball_color
    ELSE IF p \in PaddleCells(paddle_start_x) THEN BLACK ELSE BG_COLOR]

\* While the game lasts the screen shows just that: the strokes of a frame
\* leave no trace of the ball or of the paddle and tear no hole in either,
\* also when they are beside each other.  Before the first frame the ball is
\* not on the screen.
PictureExact ==
  game = "play" =>
    \/ screen = Picture
    \/ screen = FirstScreen /\ ball = FirstBall /\ paddle_start_x = PADDLE_START

\* The ball has passed the paddle.
Missed == ball.dy = 1 /\ ball.y + 2 >= PADDLE_ROW

\* A ball that has passed the paddle's top is past saving: no move of the
\* paddle under it or beside it makes it bounce, until the reset button.
MissedStaysMissed == [][Missed => Missed' \/ Reset]_vars

\* The ball always comes down to the paddle, or the game is lost.
ComesDown == []<>(game = "lost" \/ ball.y + 2 = PADDLE_ROW)
=============================================================================
