--------------------------- MODULE BreakoutProofs ---------------------------
(***************************************************************************)
(* The paddle game on every screen, with every paddle and every set of     *)
(* colours: the ball stays inside, the picture stays exact, and a missed   *)
(* ball stays missed.  And the generator beside it never dies, for every   *)
(* width, every set of taps with the top bit and every seed but zero.      *)
(***************************************************************************)
EXTENDS Breakout, FiniteSetTheorems, TLAPS

\* The sum of the taps is a bit.
LEMMA XorIsBit ==
  ASSUME NEW reg, reg \subseteq Bits
  PROVE  Xor(reg) \in {0, 1}
<1>1. IsFiniteSet(Bits)
  BY WidthAssumption, FS_Interval DEF Bits
<1>2. Cardinality(Taps \cap reg) \in Nat
  BY <1>1, FS_Subset, FS_CardinalityType
<1> QED
  BY <1>2 DEF Xor

\* Alone in the register, the top bit feeds back.
LEMMA TopFeedsBack == Xor({Top}) = 1
<1>1. Taps \cap {Top} = {Top}
  BY TapsAssumption
<1>2. Cardinality({Top}) = 1
  BY FS_Singleton
<1> QED
  BY <1>1, <1>2 DEF Xor

\* A shift keeps the register in its width.
LEMMA ShiftedInWidth ==
  ASSUME NEW reg, NEW bit, reg \subseteq Bits
  PROVE  Shifted(reg, bit) \subseteq Bits
  BY WidthAssumption DEF Shifted, Bits, Top

\* Only the top bit can be shifted out.
LEMMA ShiftedToNothing ==
  ASSUME NEW reg, NEW bit, Shifted(reg, bit) = {}
  PROVE  reg \subseteq {Top} /\ bit # 1
<1>1. \A b \in reg \ {Top} : b + 1 \in Shifted(reg, bit)
  BY DEF Shifted
<1>2. bit = 1 => 0 \in Shifted(reg, bit)
  BY DEF Shifted
<1> QED
  BY <1>1, <1>2

\* The step that would reach the all-zero state would have to start from the
\* register that holds the top bit alone, and that one feeds back a one.
LEMMA ClockKeeps ==
  ASSUME NeverAllZero, ClockEdge
  PROVE  NeverAllZero'
<1> USE DEF NeverAllZero, ClockEdge
<1>1. rng_state' \subseteq Bits
  BY ShiftedInWidth
<1>2. feedback' \in {0, 1}
  BY XorIsBit
<1>3. rng_state' # {} \/ feedback' = 1
  <2>1. SUFFICES ASSUME rng_state' = {}
                 PROVE  feedback' = 1
    OBVIOUS
  <2>2. rng_state \subseteq {Top} /\ feedback # 1
    BY <2>1, ShiftedToNothing
  <2>3. rng_state = {Top}
    BY <2>2
  <2> QED
    BY <2>3, TopFeedsBack
<1> QED
  BY <1>1, <1>2, <1>3

-----------------------------------------------------------------------------
\* The positions a ball can have, and the directions it flies in.
Balls == [x : Int, y : Int, dx : {-1, 1}, dy : {-1, 1}]

\* The positions the program computes with.
PositionsOK ==
  /\ paddle_start_x \in 0 .. SCREEN_WIDTH - PADDLE_WIDTH
  /\ ball \in Balls
  /\ game \in {"play", "lost", "crashed"}

\* The colours and the buttons are what the program's types hold.
ColoursOK ==
  /\ screen \in [Pixels -> Colour]
  /\ ball_color \in Colour
  /\ gamepad_prior \subseteq {"left", "right"} /\ gamepad \subseteq {"left", "right"}

\* A ball below the paddle's top is falling.
LowBallFalls == ball.y + 2 > PADDLE_ROW => ball.dy = 1

\* What every frame preserves: the picture is exact only because a ball beside
\* the paddle is on its last frame.
Inv == PositionsOK /\ ColoursOK /\ BallInside /\ LowBallFalls /\ PictureExact

\* The screen is wide and high enough for the paddle and for the ball.
LEMMA Sizes ==
  /\ SCREEN_WIDTH \in Int /\ SCREEN_HEIGHT \in Int /\ PADDLE_WIDTH \in Int
  /\ PADDLE_START \in Int /\ BALL_START \in Int
  /\ PADDLE_WIDTH > 0 /\ PADDLE_START >= 0 /\ PADDLE_START + PADDLE_WIDTH <= SCREEN_WIDTH
  /\ BALL_START > 0 /\ BALL_START + 2 < SCREEN_WIDTH /\ BALL_START + 2 < PADDLE_ROW
  /\ PADDLE_ROW = SCREEN_HEIGHT - 2
  BY ScreenAssumption DEF PADDLE_ROW

\* A pixel is a row and a column.
LEMMA PixelParts ==
  ASSUME NEW p \in Pixels
  PROVE  /\ p = <<p[1], p[2]>>
         /\ p[1] \in Int /\ p[2] \in Int
         /\ 0 <= p[1] /\ p[1] < SCREEN_HEIGHT /\ 0 <= p[2] /\ p[2] < SCREEN_WIDTH
  BY Sizes DEF Pixels

\* The ball is a square of four pixels.
LEMMA InBall ==
  ASSUME NEW b, NEW p \in Pixels
  PROVE  p \in BallCells(b) <=> p[1] \in {b.y, b.y + 1} /\ p[2] \in {b.x, b.x + 1}
  BY PixelParts DEF BallCells

\* The paddle is a stroke in its row.
LEMMA InPaddle ==
  ASSUME NEW start \in Int, NEW p \in Pixels
  PROVE  p \in PaddleCells(start)
           <=> p[1] = PADDLE_ROW /\ start <= p[2] /\ p[2] < start + PADDLE_WIDTH
  BY PixelParts, Sizes DEF PaddleCells

\* A frame changes the coordinates and the directions of the ball, each by itself.
LEMMA MovedParts ==
  ASSUME NEW b \in Balls
  PROVE  /\ Moved(b) \in Balls
         /\ Moved(b).x = b.x + b.dx /\ Moved(b).y = b.y + b.dy
         /\ Moved(b).dx = b.dx /\ Moved(b).dy = b.dy
<1> DEFINE x == b.x + b.dx
           y == b.y + b.dy
<1>1. x \in Int /\ y \in Int
  BY DEF Balls
<1>2. Moved(b) = [b EXCEPT !.x = x, !.y = y]
  BY DEF Moved
<1> HIDE DEF x, y
<1>3. Moved(b) = [x |-> x, y |-> y, dx |-> b.dx, dy |-> b.dy]
  BY <1>2 DEF Balls
<1>4. /\ Moved(b) \in Balls
      /\ Moved(b).x = x /\ Moved(b).y = y
      /\ Moved(b).dx = b.dx /\ Moved(b).dy = b.dy
  BY <1>1, <1>3 DEF Balls
<1> QED
  BY <1>4 DEF x, y

\* A bounce changes the direction only.
LEMMA BouncedParts ==
  ASSUME NEW b \in Balls, NEW start
  PROVE  /\ Bounced(b, start) \in Balls
         /\ Bounced(b, start).x = b.x /\ Bounced(b, start).y = b.y
         /\ Bounced(b, start).dx = IF HitsSide(b) THEN -b.dx ELSE b.dx
         /\ Bounced(b, start).dy =
              IF HitsTop(b) \/ HitsPaddle(b, start) THEN -b.dy ELSE b.dy
<1> DEFINE dx == IF HitsSide(b) THEN -b.dx ELSE b.dx
           dy == IF HitsTop(b) \/ HitsPaddle(b, start) THEN -b.dy ELSE b.dy
<1>1. dx \in {-1, 1} /\ dy \in {-1, 1}
  BY DEF Balls
<1>2. Bounced(b, start) = [b EXCEPT !.dx = dx, !.dy = dy]
  BY DEF Bounced
<1> HIDE DEF dx, dy
<1>3. Bounced(b, start) = [x |-> b.x, y |-> b.y, dx |-> dx, dy |-> dy]
  BY <1>2 DEF Balls
<1>4. /\ Bounced(b, start) \in Balls
      /\ Bounced(b, start).x = b.x /\ Bounced(b, start).y = b.y
      /\ Bounced(b, start).dx = dx /\ Bounced(b, start).dy = dy
  BY <1>1, <1>3 DEF Balls
<1> QED
  BY <1>4 DEF dx, dy

\* The pixel that is not erased is one of the moved ball.
LEMMA AheadIsKept ==
  ASSUME NEW b \in Balls
  PROVE  Ahead(b) \in BallCells(Moved(b)) \cap BallCells(b)
<1>1. Moved(b).x = b.x + b.dx /\ Moved(b).y = b.y + b.dy
  BY MovedParts
<1> QED
  BY <1>1 DEF Ahead, BallCells, Balls

\* Clearing and drawing move the paddle exactly.
LEMMA StrokesMoveThePaddle ==
  ASSUME PositionsOK, NEW now \in SUBSET {"left", "right"}
  PROVE  LET start   == MovedPaddle(now)
             strokes == PaddleStrokes(start)
         IN /\ start \in 0 .. SCREEN_WIDTH - PADDLE_WIDTH
            /\ strokes.draw \cup strokes.clear \subseteq Pixels
            /\ \A p \in Pixels :
                 p \in PaddleCells(start)
                   <=> p \notin strokes.clear
                       /\ (p \in strokes.draw \/ p \in PaddleCells(paddle_start_x))
            /\ strokes.clear \subseteq PaddleCells(paddle_start_x)
<1> DEFINE start   == MovedPaddle(now)
           strokes == PaddleStrokes(start)
<1>1. /\ start \in 0 .. SCREEN_WIDTH - PADDLE_WIDTH
      /\ start \in {paddle_start_x - 1, paddle_start_x, paddle_start_x + 1}
  BY Sizes DEF PositionsOK, MovedPaddle, GoesLeft, GoesRight
<1>2. paddle_start_x \in Int /\ start \in Int
  BY <1>1, Sizes DEF PositionsOK
<1> HIDE DEF start
<1>3. CASE start = paddle_start_x - 1
  <2>1. /\ strokes.draw = {<<PADDLE_ROW, start>>}
        /\ strokes.clear = {<<PADDLE_ROW, start + PADDLE_WIDTH>>}
    BY <1>2, <1>3, Sizes DEF PaddleStrokes
  <2> HIDE DEF strokes
  <2>2. strokes.draw \cup strokes.clear \subseteq Pixels
    BY <2>1, <1>1, <1>2, <1>3, Sizes DEF Pixels, PositionsOK
  <2>3. \A p \in Pixels :
          p \in PaddleCells(start)
            <=> p \notin strokes.clear
                /\ (p \in strokes.draw \/ p \in PaddleCells(paddle_start_x))
    BY <2>1, <1>2, <1>3, InPaddle, PixelParts, Sizes
  <2>4. strokes.clear \subseteq PaddleCells(paddle_start_x)
    BY <2>1, <2>2, <1>2, <1>3, InPaddle, Sizes
  <2> QED
    BY <1>1, <2>2, <2>3, <2>4 DEF start, strokes
<1>4. CASE start = paddle_start_x + 1
  <2>1. /\ strokes.draw = {<<PADDLE_ROW, start + PADDLE_WIDTH - 1>>}
        /\ strokes.clear = {<<PADDLE_ROW, paddle_start_x>>}
    BY <1>2, <1>4, Sizes DEF PaddleStrokes
  <2> HIDE DEF strokes
  <2>2. strokes.draw \cup strokes.clear \subseteq Pixels
    BY <2>1, <1>1, <1>2, <1>4, Sizes DEF Pixels, PositionsOK
  <2>3. \A p \in Pixels :
          p \in PaddleCells(start)
            <=> p \notin strokes.clear
                /\ (p \in strokes.draw \/ p \in PaddleCells(paddle_start_x))
    BY <2>1, <1>2, <1>4, InPaddle, PixelParts, Sizes
  <2>4. strokes.clear \subseteq PaddleCells(paddle_start_x)
    BY <2>1, <2>2, <1>2, <1>4, InPaddle, Sizes
  <2> QED
    BY <1>1, <2>2, <2>3, <2>4 DEF start, strokes
<1>5. CASE start = paddle_start_x
  <2>1. strokes.draw = {} /\ strokes.clear = {}
    BY <1>2, <1>5 DEF PaddleStrokes
  <2> QED
    BY <1>1, <1>5, <2>1 DEF start, strokes
<1> QED
  BY <1>1, <1>3, <1>4, <1>5

\* A frame moves the ball by a pixel each way and keeps it inside.
LEMMA FrameMovesTheBall ==
  ASSUME PositionsOK, BallInside, LowBallFalls, game = "play",
         NEW start \in 0 .. SCREEN_WIDTH - PADDLE_WIDTH
  PROVE  LET b == Moved(ball)
             n == Bounced(b, start)
         IN /\ b.x = ball.x + ball.dx /\ b.y = ball.y + ball.dy
            /\ n.x = b.x /\ n.y = b.y
            /\ n \in Balls
            /\ b.x \in 0 .. SCREEN_WIDTH - 2 /\ b.y \in 0 .. SCREEN_HEIGHT - 2
            /\ b.x = 0 => n.dx = 1
            /\ b.x = SCREEN_WIDTH - 2 => n.dx = -1
            /\ b.y = 0 => n.dy = 1
            /\ b.y + 2 > PADDLE_ROW => n.dy = 1
            /\ OnGround(b) <=> b.y = SCREEN_HEIGHT - 2
<1> DEFINE b == Moved(ball)
           n == Bounced(b, start)
<1>1. /\ ball.x \in Int /\ ball.y \in Int /\ ball.dx \in {-1, 1} /\ ball.dy \in {-1, 1}
      /\ ball \in Balls
  BY DEF PositionsOK, Balls
<1>2. /\ b.x = ball.x + ball.dx /\ b.y = ball.y + ball.dy
      /\ b.dx = ball.dx /\ b.dy = ball.dy
      /\ b \in Balls
  BY <1>1, MovedParts
<1>3. b.x \in 0 .. SCREEN_WIDTH - 2 /\ b.y \in 0 .. SCREEN_HEIGHT - 2
  BY <1>1, <1>2, Sizes DEF BallInside
<1> HIDE DEF b
<1>4. /\ n.x = b.x /\ n.y = b.y
      /\ n.dx = IF HitsSide(b) THEN -b.dx ELSE b.dx
      /\ n.dy = IF HitsTop(b) \/ HitsPaddle(b, start) THEN -b.dy ELSE b.dy
      /\ n \in Balls
  BY <1>2, BouncedParts
<1> HIDE DEF n
<1>5. b.x = 0 => n.dx = 1
  BY <1>1, <1>2, <1>4, Sizes DEF HitsSide, BallInside
<1>6. b.x = SCREEN_WIDTH - 2 => n.dx = -1
  BY <1>1, <1>2, <1>4, Sizes DEF HitsSide, BallInside
<1>7. b.y = 0 => n.dy = 1
  BY <1>1, <1>2, <1>4, Sizes DEF HitsTop, HitsPaddle, BallInside
<1>8. b.y + 2 > PADDLE_ROW => n.dy = 1
  BY <1>1, <1>2, <1>4, Sizes DEF HitsTop, HitsPaddle, BallInside, LowBallFalls
<1>9. OnGround(b) <=> b.y = SCREEN_HEIGHT - 2
  BY <1>3, Sizes DEF OnGround
<1> QED
  BY <1>2, <1>3, <1>4, <1>5, <1>6, <1>7, <1>8, <1>9 DEF b, n

\* All that a frame writes is on the screen.
LEMMA BallOnScreen ==
  ASSUME NEW b, b.x \in 0 .. SCREEN_WIDTH - 2, b.y \in 0 .. SCREEN_HEIGHT - 2
  PROVE  BallCells(b) \subseteq Pixels
  BY Sizes DEF BallCells, Pixels

\* The strokes of a frame turn the exact picture into the next one.
LEMMA FrameRepairs ==
  ASSUME PositionsOK, BallInside, LowBallFalls, PictureExact, game = "play",
         NEW now \in SUBSET {"left", "right"},
         ball.y + ball.dy < PADDLE_ROW,
         NEW colour
  PROVE  LET start   == MovedPaddle(now)
             strokes == PaddleStrokes(start)
             b       == Moved(ball)
             drawn   == Paint(Paint(screen, strokes.draw, BLACK), strokes.clear, BG_COLOR)
         IN Paint(Paint(drawn, Erased(ball), BG_COLOR), BallCells(b), colour)
              = [p \in Pixels |->
                  IF p \in BallCells(b) THEN colour
                  ELSE IF p \in PaddleCells(start) THEN BLACK ELSE BG_COLOR]
<1> DEFINE start   == MovedPaddle(now)
           strokes == PaddleStrokes(start)
           b       == Moved(ball)
           drawn   == Paint(Paint(screen, strokes.draw, BLACK), strokes.clear, BG_COLOR)
           result  == Paint(Paint(drawn, Erased(ball), BG_COLOR), BallCells(b), colour)
<1>1. /\ start \in Int /\ paddle_start_x \in Int
      /\ \A p \in Pixels :
           p \in PaddleCells(start)
             <=> p \notin strokes.clear
                 /\ (p \in strokes.draw \/ p \in PaddleCells(paddle_start_x))
      /\ strokes.clear \subseteq PaddleCells(paddle_start_x)
  BY StrokesMoveThePaddle, Sizes DEF PositionsOK
<1>2. /\ ball.x \in Int /\ ball.y \in Int /\ ball.dx \in {-1, 1} /\ ball.dy \in {-1, 1}
      /\ b.x = ball.x + ball.dx /\ b.y = ball.y + ball.dy
  BY MovedParts DEF PositionsOK, Balls
<1>3. ball.y + 1 < PADDLE_ROW
  BY <1>2, Sizes DEF LowBallFalls
<1>4. Ahead(ball) \in BallCells(b)
  BY AheadIsKept DEF PositionsOK
<1>5. \A p \in Pixels : p \in BallCells(ball) =>
        p \notin PaddleCells(start) /\ p \notin PaddleCells(paddle_start_x)
  BY <1>1, <1>2, <1>3, InBall, InPaddle, PixelParts, Sizes
<1>6. \A p \in Pixels : p \notin BallCells(ball) =>
        screen[p] = IF p \in PaddleCells(paddle_start_x) THEN BLACK ELSE BG_COLOR
  <2>1. CASE screen = Picture
    BY <2>1 DEF Picture
  <2>2. CASE screen = FirstScreen /\ paddle_start_x = PADDLE_START
    BY <2>2 DEF FirstScreen, Paint
  <2> QED
    BY <2>1, <2>2 DEF PictureExact
<1> HIDE DEF start, strokes, b
<1>7. ASSUME NEW p \in Pixels
      PROVE  result[p] = IF p \in BallCells(b) THEN colour
                         ELSE IF p \in PaddleCells(start) THEN BLACK ELSE BG_COLOR
  <2>1. result[p] = IF p \in BallCells(b) THEN colour
                    ELSE IF p \in Erased(ball) THEN BG_COLOR
                    ELSE IF p \in strokes.clear THEN BG_COLOR
                    ELSE IF p \in strokes.draw THEN BLACK ELSE screen[p]
    BY DEF Paint
  <2>2. CASE p \in BallCells(b)
    BY <2>1, <2>2
  <2>3. CASE p \notin BallCells(b) /\ p \in BallCells(ball)
    <3>1. p \in Erased(ball)
      BY <2>3, <1>4 DEF Erased
    <3> QED
      BY <3>1, <2>1, <2>3, <1>5
  <2>4. CASE p \notin BallCells(b) /\ p \notin BallCells(ball)
    <3>1. p \notin Erased(ball)
      BY <2>4 DEF Erased
    <3> QED
      BY <3>1, <2>1, <2>4, <1>1, <1>6
  <2> QED
    BY <2>2, <2>3, <2>4
<1>8. result = [p \in Pixels |-> result[p]]
  BY DEF Paint
<1> HIDE DEF result
<1>9. result = [p \in Pixels |->
                  IF p \in BallCells(b) THEN colour
                  ELSE IF p \in PaddleCells(start) THEN BLACK ELSE BG_COLOR]
  BY <1>7, <1>8
<1> QED
  BY <1>9 DEF result, start, strokes, b

\* What is painted in colours is a picture.
LEMMA PaintedInColours ==
  ASSUME NEW s \in [Pixels -> Colour], NEW cells, NEW colour \in Colour
  PROVE  Paint(s, cells, colour) \in [Pixels -> Colour]
  BY DEF Paint

\* The first screen is coloured everywhere.
LEMMA FirstScreenInColours == FirstScreen \in [Pixels -> Colour]
<1>1. [p \in Pixels |-> BG_COLOR] \in [Pixels -> Colour]
  BY ColourAssumption
<1> QED
  BY <1>1, ColourAssumption, PaintedInColours DEF FirstScreen

\* The generator's low bits are a colour.
LEMMA FrameColours ==
  ASSUME ColoursOK, Frame
  PROVE  ColoursOK'
<1>1. PICK now \in SUBSET {"left", "right"} :
        LET start   == MovedPaddle(now)
            strokes == PaddleStrokes(start)
            b       == Moved(ball)
            colour  == NewColour(b, start)
            drawn   == Paint(Paint(screen, strokes.draw, BLACK), strokes.clear, BG_COLOR)
        IN /\ screen' = Paint(Paint(drawn, Erased(ball), BG_COLOR), BallCells(b), colour)
           /\ ball_color' = colour
           /\ gamepad' = Presses(now)
           /\ gamepad_prior' = now
  BY DEF Frame
<1>2. \A b, start : NewColour(b, start) \in Colour
  BY ColourAssumption DEF NewColour, ColoursOK, Colour
<1>3. screen' \in [Pixels -> Colour]
  BY <1>1, <1>2, ColourAssumption, PaintedInColours DEF ColoursOK
<1>4. Presses(now) \subseteq {"left", "right"}
  BY DEF Presses, ColoursOK
<1> QED
  BY <1>1, <1>2, <1>3, <1>4 DEF ColoursOK

\* A frame preserves the invariant, and with it a missed ball stays missed.
LEMMA FrameKeeps ==
  ASSUME Inv, Frame
  PROVE  Inv' /\ (Missed => Missed')
<1>1. game = "play"
  BY DEF Frame
<1>2. PICK now \in SUBSET {"left", "right"} :
        LET start   == MovedPaddle(now)
            strokes == PaddleStrokes(start)
            b       == Moved(ball)
            colour  == NewColour(b, start)
            written == strokes.draw \cup strokes.clear \cup Erased(ball) \cup BallCells(b)
            drawn   == Paint(Paint(screen, strokes.draw, BLACK), strokes.clear, BG_COLOR)
        IN /\ screen' = Paint(Paint(drawn, Erased(ball), BG_COLOR), BallCells(b), colour)
           /\ paddle_start_x' = start
           /\ ball' = Bounced(b, start)
           /\ ball_color' = colour
           /\ game' = IF ~(written \subseteq Pixels) THEN "crashed"
                      ELSE IF OnGround(b) THEN "lost" ELSE "play"
  BY DEF Frame
<1> DEFINE start   == MovedPaddle(now)
           strokes == PaddleStrokes(start)
           b       == Moved(ball)
<1>3. /\ start \in 0 .. SCREEN_WIDTH - PADDLE_WIDTH
      /\ strokes.draw \cup strokes.clear \subseteq Pixels
  BY StrokesMoveThePaddle DEF Inv
<1>4. /\ b.x = ball.x + ball.dx /\ b.y = ball.y + ball.dy
      /\ ball'.x = b.x /\ ball'.y = b.y
      /\ ball' \in Balls
      /\ b.x \in 0 .. SCREEN_WIDTH - 2 /\ b.y \in 0 .. SCREEN_HEIGHT - 2
      /\ b.x = 0 => ball'.dx = 1
      /\ b.x = SCREEN_WIDTH - 2 => ball'.dx = -1
      /\ b.y = 0 => ball'.dy = 1
      /\ b.y + 2 > PADDLE_ROW => ball'.dy = 1
      /\ OnGround(b) <=> b.y = SCREEN_HEIGHT - 2
  BY <1>1, <1>2, <1>3, FrameMovesTheBall DEF Inv
<1>5. Erased(ball) \subseteq Pixels /\ BallCells(b) \subseteq Pixels
  BY <1>4, BallOnScreen DEF Inv, BallInside, Erased
<1>6. game' = IF OnGround(b) THEN "lost" ELSE "play"
  BY <1>2, <1>3, <1>5
<1>7. PositionsOK'
  BY <1>2, <1>3, <1>4, <1>6 DEF PositionsOK
<1>8. BallInside'
  BY <1>4, <1>6 DEF BallInside
<1>9. LowBallFalls'
  BY <1>4 DEF LowBallFalls, PADDLE_ROW
<1>10. PictureExact'
  <2>1. SUFFICES ASSUME game' = "play"
                 PROVE  screen' = Picture'
    BY DEF PictureExact
  <2>2. ball.y + ball.dy < PADDLE_ROW
    BY <2>1, <1>4, <1>6, Sizes
  <2>3. screen' = [p \in Pixels |->
                    IF p \in BallCells(b) THEN ball_color'
                    ELSE IF p \in PaddleCells(start) THEN BLACK ELSE BG_COLOR]
    BY <2>2, <1>1, <1>2, FrameRepairs DEF Inv
  <2>4. BallCells(b) = BallCells(ball')
    BY <1>4 DEF BallCells
  <2> QED
    BY <2>3, <2>4, <1>2 DEF Picture
<1>11. Missed => Missed'
  <2>1. SUFFICES ASSUME ball.dy = 1, ball.y + 2 >= PADDLE_ROW
                 PROVE  ball'.dy = 1 /\ ball'.y + 2 >= PADDLE_ROW
    BY DEF Missed, PADDLE_ROW
  <2>2. ball.y \in Int /\ PADDLE_ROW \in Int
    BY Sizes DEF Inv, PositionsOK, Balls
  <2> HIDE DEF b
  <2> QED
    BY <2>1, <2>2, <1>4
<1>12. ColoursOK'
  BY FrameColours DEF Inv
<1> QED
  BY <1>7, <1>8, <1>9, <1>10, <1>11, <1>12 DEF Inv

\* The power-up state and every reset satisfy the invariant.
LEMMA FirstHolds ==
  ASSUME GameInit
  PROVE  Inv
<1>1. ball.x = BALL_START /\ ball.y = BALL_START /\ ball.dx = 1 /\ ball.dy = -1
  BY DEF GameInit, FirstBall
<1>2. ball \in Balls
  BY Sizes DEF GameInit, FirstBall, Balls
<1>3. ColoursOK
  BY ColourAssumption, FirstScreenInColours DEF GameInit, ColoursOK
<1> QED
  BY <1>1, <1>2, <1>3, Sizes
     DEF GameInit, Inv, PositionsOK, BallInside, LowBallFalls, PictureExact

\* Every step preserves the invariant.
LEMMA StepKeeps ==
  ASSUME Inv, [Next]_vars
  PROVE  Inv' /\ (Missed => Missed' \/ Reset)
<1>1. CASE Frame
  BY <1>1, FrameKeeps
<1>2. CASE Tick \/ UNCHANGED vars
  <2>1. UNCHANGED gameVars
    BY <1>2 DEF Tick, vars
  <2> QED
    BY <2>1 DEF gameVars, Inv, PositionsOK, ColoursOK, BallInside, LowBallFalls, PictureExact, Picture,
                Missed
<1>3. CASE Reset
  <2>1. /\ screen' = FirstScreen /\ paddle_start_x' = PADDLE_START
        /\ ball' = FirstBall /\ game' = "play"
    BY <1>3 DEF Reset
  <2>2. /\ ball'.x = BALL_START /\ ball'.y = BALL_START /\ ball'.dx = 1 /\ ball'.dy = -1
        /\ ball' \in Balls
    BY <2>1, Sizes DEF FirstBall, Balls
  <2>3. ColoursOK'
    BY <1>3, ColourAssumption, FirstScreenInColours DEF Reset, ColoursOK
  <2> QED
    BY <1>3, <2>1, <2>2, <2>3, Sizes
       DEF Inv, PositionsOK, BallInside, LowBallFalls, PictureExact, PADDLE_ROW
<1> QED
  BY <1>1, <1>2, <1>3 DEF Next

\* The invariant of the game holds always.
LEMMA Invariance == Spec => []Inv
<1>1. Init => Inv
  BY FirstHolds DEF Init
<1>2. Inv /\ [Next]_vars => Inv'
  BY StepKeeps
<1> QED
  BY <1>1, <1>2, PTL DEF Spec

\* The generator never reaches the all-zero state, which it could not leave,
\* whatever the unset feedback register powers up with, and whenever the
\* program reads it or is reset.
THEOREM NeverDies == Spec => []NeverAllZero
<1>1. Init => NeverAllZero
  BY SeedAssumption DEF Init, RngInit, NeverAllZero
<1>2. NeverAllZero /\ [Next]_vars => NeverAllZero'
  <2> SUFFICES ASSUME NeverAllZero, [Next]_vars
               PROVE  NeverAllZero'
    OBVIOUS
  <2>1. CASE Tick
    BY <2>1, ClockKeeps DEF Tick
  <2>2. CASE Reset
    BY <2>2, SeedAssumption DEF Reset, ResetEdge, NeverAllZero
  <2>3. CASE Frame \/ UNCHANGED vars
    BY <2>3 DEF Frame, vars, rngVars, NeverAllZero
  <2> QED
    BY <2>1, <2>2, <2>3 DEF Next
<1> QED
  BY <1>1, <1>2, PTL DEF Spec

\* Every variable keeps its type: no stroke puts anything but a colour on the
\* screen.
THEOREM Types == Spec => []TypeOK
<1>1. Inv => TypeOK
  BY DEF Inv, PositionsOK, ColoursOK, Balls, TypeOK
<1> QED
  BY <1>1, Invariance, PTL

\* On every screen the ball stays inside and no index is out of range.
THEOREM StaysInside == Spec => []BallInside
<1>1. Inv => BallInside
  BY DEF Inv
<1> QED
  BY <1>1, Invariance, PTL

\* The strokes of a frame leave the exact picture, for every size of the
\* screen and of the paddle and for every colour the generator gives.
THEOREM DrawsExactly == Spec => []PictureExact
<1>1. Inv => PictureExact
  BY DEF Inv
<1> QED
  BY <1>1, Invariance, PTL

\* No move of the paddle saves a ball that has passed its top.
THEOREM NoLateSave == Spec => MissedStaysMissed
<1>1. Inv /\ [Next]_vars => [Missed => Missed' \/ Reset]_vars
  BY StepKeeps
<1> QED
  BY <1>1, Invariance, PTL DEF Spec, MissedStaysMissed
=============================================================================
