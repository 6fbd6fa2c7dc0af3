--------------------------- MODULE UartEchoProofs ---------------------------
(***************************************************************************)
(* The serial echo, for every length of a line, every delay and every      *)
(* moment of typing: the program takes no character twice, each store to   *)
(* the output cell sends the next character of the lines it took, reversed *)
(* and ended, as often as the delay allows.                                *)
(***************************************************************************)
EXTENDS UartEcho, Integers, SequenceTheorems, TLAPS

\* n was typed, and after all that is stored.
Fresh(n) == n \in 1 .. typed /\ \A m \in DOMAIN stored : stored[m] < n

\* A character is fresh while it is held, and so is the one in the cell unless
\* it is the one held, which the program is about to clear.
Inv ==
  /\ typed \in Nat /\ stored \in Seq(Nat)
  /\ TakenOnce
  /\ new_char # 0 => Fresh(new_char)
  /\ INPUT # 0 /\ new_char = 0 => Fresh(INPUT)

\* Nothing is typed at first.
LEMMA InitHolds == Init => Inv
  BY DEF Init, Inv, TakenOnce, Fresh

\* What is typed now is after all that is stored.
LEMMA ReceiveKeeps ==
  ASSUME Inv, Receive
  PROVE  Inv'
<1> USE DEF Inv, Receive, progVars
<1>1. typed' \in Nat /\ stored' \in Seq(Nat) /\ typed' > typed
  OBVIOUS
<1>2. TakenOnce'
  BY DEF TakenOnce
<1>3. (new_char # 0 => Fresh(new_char))'
  BY DEF Fresh
<1>4. (INPUT # 0 /\ new_char = 0 => Fresh(INPUT))'
  <2>1. \A m \in DOMAIN stored : stored[m] \in Nat /\ stored[m] <= typed
    BY DEF TakenOnce
  <2> QED
    BY <2>1 DEF Fresh
<1> QED
  BY <1>1, <1>2, <1>3, <1>4

\* The character that is stored comes after the others.
LEMMA StoreKeeps ==
  ASSUME Inv, Store
  PROVE  Inv'
<1> USE DEF Inv, Store
<1>1. Fresh(new_char) /\ new_char \in Nat
  BY DEF Fresh
<1>2. stored' = Append(stored, new_char) /\ stored' \in Seq(Nat) /\ UNCHANGED typed
  BY <1>1
<1>3. /\ DOMAIN stored = 1 .. Len(stored) /\ DOMAIN stored' = 1 .. Len(stored) + 1
      /\ Len(stored) \in Nat
      /\ \A m \in DOMAIN stored : stored'[m] = stored[m]
      /\ stored'[Len(stored) + 1] = new_char
  BY <1>1, <1>2
<1>4. \A n \in DOMAIN stored' : stored'[n] \in 1 .. typed
  <2> TAKE n \in DOMAIN stored'
  <2>1. CASE n \in DOMAIN stored
    BY <2>1, <1>3 DEF TakenOnce
  <2>2. CASE n = Len(stored) + 1
    BY <2>2, <1>1, <1>3 DEF Fresh
  <2> QED
    BY <1>3, <2>1, <2>2
<1>5. \A m, n \in DOMAIN stored' : m < n => stored'[m] < stored'[n]
  <2> TAKE m, n \in DOMAIN stored'
  <2> HAVE m < n
  <2>1. m \in DOMAIN stored
    BY <1>3
  <2>2. CASE n \in DOMAIN stored
    BY <2>1, <2>2, <1>3 DEF TakenOnce
  <2>3. CASE n = Len(stored) + 1
    BY <2>1, <2>3, <1>1, <1>3 DEF Fresh
  <2> QED
    BY <1>3, <2>2, <2>3
<1>6. TakenOnce'
  BY <1>2, <1>4, <1>5 DEF TakenOnce
<1> QED
  BY <1>2, <1>6 DEF Cleared

\* Every step preserves the invariant.
LEMMA StepKeeps ==
  ASSUME Inv, [Next]_vars
  PROVE  Inv'
<1>1. CASE Receive
  BY <1>1, ReceiveKeeps
<1>2. CASE Store
  BY <1>2, StoreKeeps
<1>3. CASE Poll
  BY <1>3 DEF Poll, Inv, TakenOnce, Fresh
<1>4. CASE Transmit \/ Write \/ EndEcho \/ UNCHANGED vars
  <2>1. UNCHANGED <<INPUT, new_char, typed, stored>>
    BY <1>4 DEF Transmit, Write, EndEcho, vars, progVars
  <2> QED
    BY <2>1 DEF Inv, TakenOnce, Fresh
<1> QED
  BY <1>1, <1>2, <1>3, <1>4 DEF Next

\* No character is taken twice, invented or passed by another, whatever the
\* moments they are typed at and however long the delays last.
THEOREM NoneTakenTwice == Spec => []TakenOnce
<1>1. Inv => TakenOnce
  BY DEF Inv
<1> QED
  BY <1>1, InitHolds, StepKeeps, PTL DEF Spec

-----------------------------------------------------------------------------
\* Products with a fixed factor.
LEMMA Products ==
  ASSUME NEW a \in Int, NEW b \in Int, NEW t \in Nat
  PROVE  /\ a * t \in Int
         /\ (a + b) * t = a * t + b * t
         /\ (a - b) * t = a * t - b * t
         /\ a >= 0 => a * t >= 0
         /\ a <= b => a * t <= b * t
         /\ a + 1 <= b => a * t + t <= b * t
<1>1. /\ a * t \in Int /\ (a + b) * t = a * t + b * t /\ (a - b) * t = a * t - b * t
  OBVIOUS
<1>2. \A n \in Int : n >= 0 => n * t >= 0
  OBVIOUS
<1>3. ASSUME NEW c \in Int, c <= b
      PROVE  c * t <= b * t
  <2>1. b - c \in Int /\ b - c >= 0 /\ (b - c) * t = b * t - c * t
    BY <1>3
  <2>2. (b - c) * t >= 0
    BY <1>2, <2>1
  <2> QED
    BY <2>1, <2>2
<1>4. (a + 1) * t = a * t + t /\ a + 1 \in Int
  OBVIOUS
<1> QED
  BY <1>1, <1>2, <1>3, <1>4

\* An offset into the c-th of equal parts, divided by their size.
LEMMA Quotients ==
  ASSUME NEW size \in Nat \ {0}, NEW c \in Nat, NEW t \in 0 .. size - 1
  PROVE  (c * size + t) \div size = c /\ (c * size + t) % size = t
<1> DEFINE n == c * size + t
           q == n \div size
           r == n % size
<1>1. n \in Nat
  OBVIOUS
<1>2. q \in Int /\ r \in 0 .. size - 1 /\ n = q * size + r
  BY <1>1
<1> HIDE DEF q, r
<1>3. c * size + t = q * size + r
  BY <1>2
<1>4. ~(c + 1 <= q)
  <2> SUFFICES ASSUME c + 1 <= q PROVE FALSE
    OBVIOUS
  <2>1. c * size + size <= q * size
    BY <1>2, Products
  <2> QED
    BY <1>2, <1>3, <2>1
<1>5. ~(q + 1 <= c)
  <2> SUFFICES ASSUME q + 1 <= c PROVE FALSE
    OBVIOUS
  <2>1. q * size + size <= c * size
    BY <1>2, Products
  <2> QED
    BY <1>2, <1>3, <2>1
<1>6. q = c
  BY <1>2, <1>4, <1>5
<1>7. r = t
  BY <1>2, <1>3, <1>6
<1> QED
  BY <1>6, <1>7 DEF q, r, n

\* Quotient and remainder.
LEMMA Division ==
  ASSUME NEW size \in Nat \ {0}, NEW n \in Nat
  PROVE  /\ n \div size \in Nat /\ n % size \in 0 .. size - 1
         /\ n = (n \div size) * size + (n % size)
<1> DEFINE q == n \div size
           r == n % size
<1>1. q \in Int /\ r \in 0 .. size - 1 /\ n = q * size + r
  OBVIOUS
<1> HIDE DEF q, r
<1>2. ~(q + 1 <= 0)
  <2> SUFFICES ASSUME q + 1 <= 0 PROVE FALSE
    OBVIOUS
  <2>1. q * size + size <= 0 * size /\ 0 * size = 0
    BY <1>1, Products
  <2> QED
    BY <1>1, <2>1
<1>3. q \in Nat
  BY <1>1, <1>2
<1> QED
  BY <1>1, <1>3 DEF q, r

\* The sizes of a line and of its echo.
LEMMA Lengths ==
  /\ MAX_LEN \in Nat /\ MAX_LEN >= 1 /\ MAX_LEN \in Nat \ {0}
  /\ EchoLen \in Nat \ {0} /\ EchoLen = MAX_LEN + 2
  /\ MAX_TYPED \in Nat /\ LF = MAX_TYPED + 1 /\ CR = MAX_TYPED + 2
  BY LengthAssumption DEF EchoLen, LF, CR

\* The line and the place of a character of the echo.
LEMMA EchoedAt ==
  ASSUME NEW d \in Nat, NEW place \in 0 .. EchoLen - 1
  PROVE  /\ d * EchoLen \in Nat
         /\ Echoed(d * EchoLen + place + 1) = LineEcho(d, place)
<1> DEFINE n == d * EchoLen + place + 1
<1>1. d * EchoLen \in Nat
  BY Lengths
<1>2. n - 1 = d * EchoLen + place
  BY <1>1, Lengths
<1>3. (n - 1) \div EchoLen = d /\ (n - 1) % EchoLen = place
  BY <1>2, Lengths, Quotients
<1> HIDE DEF n
<1>4. Echoed(n) = LineEcho(d, place)
  BY <1>3 DEF Echoed
<1> QED
  BY <1>1, <1>4 DEF n

\* Where a character of the echoes of d lines comes from.
LEMMA LineOf ==
  ASSUME NEW d \in Nat, NEW n \in 1 .. d * EchoLen
  PROVE  LET line  == (n - 1) \div EchoLen
             place == (n - 1) % EchoLen
         IN /\ line \in Nat /\ line + 1 <= d /\ place \in 0 .. EchoLen - 1
            /\ place < MAX_LEN => line * MAX_LEN + (MAX_LEN - place) \in 1 .. d * MAX_LEN
<1> DEFINE line  == (n - 1) \div EchoLen
           place == (n - 1) % EchoLen
<1>1. d * EchoLen \in Nat /\ d * MAX_LEN \in Nat
  BY Lengths
<1>2. n - 1 \in Nat /\ n - 1 < d * EchoLen
  BY <1>1
<1>3. line \in Nat /\ place \in 0 .. EchoLen - 1 /\ n - 1 = line * EchoLen + place
  BY <1>2, Lengths, Division
<1> HIDE DEF line, place
<1>4. line + 1 <= d
  <2> SUFFICES ASSUME d <= line PROVE FALSE
    BY <1>3
  <2>1. d * EchoLen <= line * EchoLen /\ line * EchoLen \in Int
    BY <1>3, Lengths, Products
  <2> QED
    BY <1>1, <1>2, <1>3, <2>1
<1>5. line * MAX_LEN \in Nat /\ line * MAX_LEN + MAX_LEN <= d * MAX_LEN
  BY <1>3, <1>4, Lengths, Products
<1> QED
  BY <1>1, <1>3, <1>4, <1>5, Lengths DEF line, place

-----------------------------------------------------------------------------
\* The lines whose echo has ended.
Finished == (Len(stored) - Len(buffer)) \div MAX_LEN

\* The buffer holds what was stored since the last echo ended.
BufferKept ==
  /\ buffer \in Seq(Nat) /\ Len(buffer) <= MAX_LEN
  /\ Finished \in Nat
  /\ Len(stored) = Finished * MAX_LEN + Len(buffer)
  /\ \A i \in 1 .. Len(buffer) : buffer[i] = stored[Finished * MAX_LEN + i]

\* The program writes an echo only of a full buffer, and its last character
\* waits in the cell.
EchoUnderWay ==
  /\ written \in 0 .. EchoLen /\ samples \in Nat
  /\ written > 0 => Len(buffer) = MAX_LEN
  /\ new_char # 0 => Len(buffer) < MAX_LEN
  /\ OUTPUT = IF written = 0 THEN 0 ELSE LineEcho(Finished, written - 1)

\* Each store to the cell is a character of the echo, sent as often as a delay
\* allows, or still to be sent for what is left of it.
SentSoFar ==
  /\ sent \in Seq(Seq(Nat)) /\ Len(sent) = Finished * EchoLen + written
  /\ \A n \in 1 .. Len(sent) : \A k \in 1 .. Len(sent[n]) : sent[n][k] = Echoed(n)
  /\ \A n \in 1 .. Len(sent) : n < Len(sent) \/ written = 0 => Len(sent[n]) \in Samples
  /\ written > 0 => Len(sent[Len(sent)]) + samples \in Samples

EchoInv == Inv /\ BufferKept /\ EchoUnderWay /\ SentSoFar

\* Characters stored are characters typed.
LEMMA StoredTypes ==
  ASSUME EchoInv
  PROVE  /\ Len(stored) \in Nat /\ DOMAIN stored = 1 .. Len(stored)
         /\ \A n \in 1 .. Len(stored) : stored[n] \in Nat /\ stored[n] >= 1
  BY DEF EchoInv, Inv, TakenOnce

\* A character of the echo of a line that is stored.
LEMMA LineEchoes ==
  ASSUME EchoInv, NEW d \in Nat, d * MAX_LEN + MAX_LEN <= Len(stored),
         NEW place \in 0 .. EchoLen - 1
  PROVE  /\ LineEcho(d, place) \in Nat /\ LineEcho(d, place) # 0
<1>1. d * MAX_LEN \in Nat /\ place \in Int
  BY Lengths
<1>2. CASE place < MAX_LEN
  <2> DEFINE i == d * MAX_LEN + (MAX_LEN - place)
  <2>1. i \in 1 .. Len(stored)
    BY <1>1, <1>2, Lengths, StoredTypes
  <2>2. LineEcho(d, place) = stored[i]
    BY <1>2 DEF LineEcho
  <2> HIDE DEF i
  <2>3. stored[i] \in Nat /\ stored[i] # 0
    BY <2>1, StoredTypes, Lengths
  <2> QED
    BY <1>1, <1>2, <2>1, <2>2, <2>3, Lengths DEF i
<1>3. CASE place = MAX_LEN
  <2>1. LineEcho(d, place) = LF
    BY <1>3, Lengths DEF LineEcho
  <2> QED
    BY <1>3, <2>1, Lengths
<1>4. CASE place = MAX_LEN + 1
  <2>1. LineEcho(d, place) = CR
    BY <1>4, Lengths DEF LineEcho
  <2> QED
    BY <1>4, <2>1, Lengths
<1> QED
  BY <1>1, <1>2, <1>3, <1>4, Lengths

\* The character that waits in the cell during an echo: its place in the echo
\* of all lines, and it is none that a terminal leaves out.
LEMMA CharacterWaiting ==
  ASSUME EchoInv, written > 0
  PROVE  /\ OUTPUT = Echoed(Len(sent)) /\ Len(sent) \in Nat /\ Len(sent) > 0
         /\ OUTPUT \in Nat /\ OUTPUT # 0
<1> DEFINE d == Finished
           place == written - 1
<1>1. d \in Nat /\ written \in Nat /\ place \in 0 .. EchoLen - 1 /\ written <= EchoLen
  BY Lengths DEF EchoInv, EchoUnderWay, BufferKept
<1>2. Len(stored) = d * MAX_LEN + MAX_LEN
  BY DEF EchoInv, EchoUnderWay, BufferKept
<1>3. OUTPUT = LineEcho(d, place)
  BY <1>1 DEF EchoInv, EchoUnderWay
<1> HIDE DEF d
<1>4. d * EchoLen \in Nat /\ d * EchoLen + place + 1 = d * EchoLen + written
  BY <1>1, Lengths
<1>5. Echoed(d * EchoLen + place + 1) = LineEcho(d, place)
  BY <1>1, EchoedAt
<1>6. OUTPUT \in Nat /\ OUTPUT # 0
  <2>1. d * MAX_LEN + MAX_LEN <= Len(stored)
    BY <1>1, <1>2, Lengths
  <2> QED
    BY <1>1, <1>3, <2>1, LineEchoes
<1>7. Len(sent) = d * EchoLen + written
  BY DEF EchoInv, SentSoFar, d
<1> QED
  BY <1>1, <1>3, <1>4, <1>5, <1>6, <1>7

-----------------------------------------------------------------------------
\* A character whose delay is over was sent as often as the delay allowed.
LEMMA SentWhenOver ==
  ASSUME EchoInv, NEW n \in 1 .. Len(sent), DelayOver(n)
  PROVE  Len(sent[n]) \in Samples
<1>1. /\ sent \in Seq(Seq(Nat)) /\ Len(sent) \in Nat /\ written \in Nat
      /\ n < Len(sent) \/ written = 0 => Len(sent[n]) \in Samples
      /\ written > 0 => Len(sent[Len(sent)]) + samples \in Samples
  BY DEF EchoInv, SentSoFar, EchoUnderWay
<1>2. CASE n < Len(sent) \/ written = 0
  BY <1>1, <1>2
<1>3. CASE n = Len(sent) /\ written > 0
  <2>1. samples = 0
    BY <1>1, <1>3 DEF DelayOver
  <2>2. sent[n] \in Seq(Nat)
    BY <1>1
  <2>3. Len(sent[n]) \in Nat /\ Len(sent[n]) + 0 \in Samples
    BY <1>1, <1>3, <2>1, <2>2
  <2> QED
    BY <2>3
<1> QED
  BY <1>1, <1>2, <1>3

\* What happens apart from the echo leaves it alone.
LEMMA ElsewhereKeeps ==
  ASSUME EchoInv, Receive \/ Poll \/ UNCHANGED vars
  PROVE  EchoInv'
<1>1. Inv'
  BY StepKeeps DEF EchoInv, Next
<1>2. UNCHANGED <<buffer, written, stored, sent, OUTPUT>>
  BY DEF Receive, Poll, progVars, vars
<1>3. BufferKept' /\ UNCHANGED Finished
  BY <1>2 DEF EchoInv, BufferKept, Finished
<1>4. written = 0 \/ UNCHANGED <<samples, new_char>>
  BY Lengths DEF Receive, Poll, progVars, vars, EchoInv, EchoUnderWay, BufferKept
<1>5. samples' \in Nat /\ (new_char' # 0 => Len(buffer) < MAX_LEN)
  BY SamplesAssumption DEF Receive, Poll, Delay, progVars, vars, EchoInv, EchoUnderWay
<1>6. EchoUnderWay'
  BY <1>2, <1>3, <1>4, <1>5 DEF EchoInv, EchoUnderWay, LineEcho
<1>7. SentSoFar'
  <2>1. \A n \in 1 .. Len(sent) : Echoed(n)' = Echoed(n)
    BY <1>2 DEF Echoed, LineEcho
  <2>2. written > 0 => Len(sent[Len(sent)]) + samples' \in Samples
    BY <1>4 DEF EchoInv, SentSoFar, EchoUnderWay
  <2> QED
    BY <1>2, <1>3, <2>1, <2>2 DEF EchoInv, SentSoFar, EchoLen
<1> QED
  BY <1>1, <1>3, <1>6, <1>7 DEF EchoInv

\* The transmitter sends the character that waits, once more.
LEMMA TransmitKeeps ==
  ASSUME EchoInv, Transmit
  PROVE  EchoInv'
<1>1. Inv'
  BY StepKeeps DEF EchoInv, Next
<1>2. /\ UNCHANGED <<buffer, new_char, written, stored, typed, OUTPUT>>
      /\ samples' = samples - 1 /\ samples > 0
      /\ sent' = IF OUTPUT = 0 THEN sent ELSE [sent EXCEPT ![Len(sent)] = Append(sent[Len(sent)], OUTPUT)]
  BY DEF Transmit
<1>3. BufferKept' /\ UNCHANGED Finished
  BY <1>2 DEF EchoInv, BufferKept, Finished
<1>4. samples' \in Nat
  BY <1>2 DEF EchoInv, EchoUnderWay
<1>5. EchoUnderWay'
  BY <1>2, <1>3, <1>4 DEF EchoInv, EchoUnderWay, LineEcho
<1>6. /\ sent \in Seq(Seq(Nat)) /\ Len(sent) = Finished * EchoLen + written
      /\ \A n \in 1 .. Len(sent) : \A k \in 1 .. Len(sent[n]) : sent[n][k] = Echoed(n)
      /\ \A n \in 1 .. Len(sent) : n < Len(sent) \/ written = 0 => Len(sent[n]) \in Samples
      /\ written > 0 => Len(sent[Len(sent)]) + samples \in Samples
      /\ written \in Nat /\ samples \in Nat
  BY DEF EchoInv, SentSoFar, EchoUnderWay
<1>7. \A n \in 1 .. Len(sent) : Echoed(n)' = Echoed(n)
  BY <1>2 DEF Echoed, LineEcho
<1>8. SentSoFar'
  <2>1. CASE written = 0
    <3>1. sent' = sent
      BY <1>2, <2>1 DEF EchoInv, EchoUnderWay
    <3>2. \A n \in 1 .. Len(sent) : \A k \in 1 .. Len(sent[n]) : sent[n][k] = Echoed(n)'
      BY <1>6, <1>7
    <3>3. \A n \in 1 .. Len(sent) : Len(sent[n]) \in Samples
      BY <1>6, <2>1
    <3>4. Len(sent) = Finished * EchoLen + 0
      BY <1>6, <2>1
    <3>5. written' = 0
      BY <1>2, <2>1
    <3> HIDE DEF EchoInv
    <3> QED
      BY <1>3, <1>6, <3>1, <3>2, <3>3, <3>4, <3>5 DEF SentSoFar, EchoLen
  <2>2. CASE written > 0
    <3> DEFINE m    == Len(sent)
               slot == Append(sent[m], OUTPUT)
    <3>1. m \in Nat /\ m \in 1 .. m /\ OUTPUT = Echoed(m) /\ OUTPUT \in Nat /\ OUTPUT # 0
      BY <2>2, CharacterWaiting
    <3>2. sent[m] \in Seq(Nat)
      BY <1>6, <3>1
    <3>3. /\ slot \in Seq(Nat) /\ Len(slot) = Len(sent[m]) + 1 /\ Len(sent[m]) \in Nat
          /\ \A k \in 1 .. Len(sent[m]) : slot[k] = sent[m][k]
          /\ slot[Len(sent[m]) + 1] = OUTPUT
      BY <3>1, <3>2, AppendProperties
    <3> HIDE DEF m, slot
    <3>4. /\ sent' = [sent EXCEPT ![m] = slot] /\ m = Len(sent)
      BY <1>2, <3>1 DEF m, slot
    <3>5. /\ sent' \in Seq(Seq(Nat)) /\ Len(sent') = m /\ sent'[m] = slot
          /\ \A n \in 1 .. m : n # m => sent'[n] = sent[n]
      BY <1>6, <3>1, <3>3, <3>4
    <3>6. \A k \in 1 .. Len(slot) : slot[k] = Echoed(m)
      <4> TAKE k \in 1 .. Len(slot)
      <4>1. k \in 1 .. Len(sent[m]) \/ k = Len(sent[m]) + 1
        BY <3>3
      <4> QED
        BY <1>6, <3>1, <3>3, <3>4, <4>1
    <3>7. \A n \in 1 .. m : \A k \in 1 .. Len(sent'[n]) : sent'[n][k] = Echoed(n)
      BY <1>6, <3>4, <3>5, <3>6
    <3>8. \A n \in 1 .. m : n < m => Len(sent'[n]) \in Samples
      BY <1>6, <3>1, <3>4, <3>5
    <3>9. Len(slot) + samples' \in Samples
      <4>1. Len(slot) + samples' = Len(sent[m]) + samples
        BY <1>2, <1>6, <3>3
      <4> QED
        BY <1>6, <2>2, <3>4, <4>1
    <3> QED
      BY <1>2, <1>3, <1>6, <1>7, <2>2, <3>1, <3>4, <3>5, <3>7, <3>8, <3>9 DEF SentSoFar, EchoLen
  <2> QED
    BY <1>6, <2>1, <2>2
<1> QED
  BY <1>1, <1>3, <1>5, <1>8 DEF EchoInv

\* The character that is stored is also the next of the buffer.
LEMMA StoreKeepsEcho ==
  ASSUME EchoInv, Store
  PROVE  EchoInv'
<1>1. Inv'
  BY StepKeeps DEF EchoInv, Next
<1>2. /\ samples = 0 /\ new_char # 0 /\ new_char' = 0
      /\ buffer' = Append(buffer, new_char) /\ stored' = Append(stored, new_char)
      /\ UNCHANGED <<OUTPUT, written, samples, typed, sent>>
  BY DEF Store
<1>3. Fresh(new_char) /\ new_char \in Nat
  BY <1>2 DEF EchoInv, Inv, Fresh
<1>4. Len(buffer) < MAX_LEN /\ written = 0
  BY <1>2, Lengths DEF EchoInv, EchoUnderWay, BufferKept
<1>5. /\ stored \in Seq(Nat) /\ Len(stored) \in Nat /\ buffer \in Seq(Nat) /\ Len(buffer) \in Nat
      /\ DOMAIN stored = 1 .. Len(stored) /\ DOMAIN stored' = 1 .. Len(stored) + 1
  BY <1>2, <1>3 DEF EchoInv, Inv, BufferKept
<1>6. /\ stored' \in Seq(Nat) /\ Len(stored') = Len(stored) + 1
      /\ \A n \in 1 .. Len(stored) : stored'[n] = stored[n]
      /\ stored'[Len(stored) + 1] = new_char
  BY <1>2, <1>3, <1>5, AppendProperties
<1>7. /\ buffer' \in Seq(Nat) /\ Len(buffer') = Len(buffer) + 1
      /\ \A n \in 1 .. Len(buffer) : buffer'[n] = buffer[n]
      /\ buffer'[Len(buffer) + 1] = new_char
  BY <1>2, <1>3, <1>5, AppendProperties
<1> DEFINE d == Finished
<1>9. d \in Nat /\ Len(stored) = d * MAX_LEN + Len(buffer)
      /\ \A i \in 1 .. Len(buffer) : buffer[i] = stored[d * MAX_LEN + i]
  BY DEF EchoInv, BufferKept
<1>10. Finished' = d
  <2>1. Len(stored') - Len(buffer') = Len(stored) - Len(buffer)
    BY <1>5, <1>6, <1>7
  <2> QED
    BY <2>1 DEF Finished
<1> HIDE DEF d
<1>11. d * MAX_LEN \in Nat /\ d * EchoLen \in Nat
  BY <1>9, Lengths
<1>12. BufferKept'
  <2>1. Len(buffer') <= MAX_LEN /\ Len(stored') = d * MAX_LEN + Len(buffer')
    BY <1>4, <1>5, <1>6, <1>7, <1>9, <1>11, Lengths
  <2>2. ASSUME NEW i \in 1 .. Len(buffer')
        PROVE  buffer'[i] = stored'[d * MAX_LEN + i]
    <3>1. CASE i \in 1 .. Len(buffer)
      <4>1. d * MAX_LEN + i \in 1 .. Len(stored)
        BY <1>5, <1>9, <1>11, <3>1
      <4> QED
        BY <1>6, <1>7, <1>9, <3>1, <4>1
    <3>2. CASE i = Len(buffer) + 1
      <4>1. d * MAX_LEN + i = Len(stored) + 1
        BY <1>5, <1>9, <1>11, <3>2
      <4> QED
        BY <1>6, <1>7, <3>2, <4>1
    <3> QED
      BY <1>5, <1>7, <3>1, <3>2
  <2> QED
    BY <1>7, <1>9, <1>10, <2>1, <2>2 DEF BufferKept
<1>13. EchoUnderWay'
  BY <1>2, <1>4, Lengths DEF EchoInv, EchoUnderWay
<1>14. SentSoFar'
  <2>1. /\ sent \in Seq(Seq(Nat)) /\ Len(sent) = d * EchoLen
        /\ \A n \in 1 .. Len(sent) : \A k \in 1 .. Len(sent[n]) : sent[n][k] = Echoed(n)
        /\ \A n \in 1 .. Len(sent) : Len(sent[n]) \in Samples
    BY <1>4, <1>11 DEF EchoInv, SentSoFar, d
  <2>2. ASSUME NEW n \in 1 .. Len(sent)
        PROVE  Echoed(n)' = Echoed(n)
    <3> DEFINE line  == (n - 1) \div EchoLen
               place == (n - 1) % EchoLen
    <3>1. place < MAX_LEN => line * MAX_LEN + (MAX_LEN - place) \in 1 .. d * MAX_LEN
      BY <1>9, <2>1, LineOf
    <3> HIDE DEF line, place
    <3>2. place < MAX_LEN => stored'[line * MAX_LEN + (MAX_LEN - place)]
                              = stored[line * MAX_LEN + (MAX_LEN - place)]
      <4>1. \A i \in 1 .. d * MAX_LEN : i \in 1 .. Len(stored)
        BY <1>5, <1>9, <1>11
      <4> QED
        BY <1>6, <3>1, <4>1
    <3>3. LineEcho(line, place)' = LineEcho(line, place)
      BY <3>2 DEF LineEcho
    <3> QED
      BY <3>3 DEF Echoed, line, place, EchoLen
  <2> QED
    BY <1>2, <1>4, <1>10, <1>11, <2>1, <2>2 DEF SentSoFar, EchoLen
<1> QED
  BY <1>1, <1>12, <1>13, <1>14 DEF EchoInv

\* The next character is the next of the line's echo, and the one before it
\* was sent for the whole of its delay.
LEMMA WriteKeeps ==
  ASSUME EchoInv, Write
  PROVE  EchoInv'
<1>1. Inv'
  BY StepKeeps DEF EchoInv, Next
<1>2. /\ samples = 0 /\ Len(buffer) = MAX_LEN /\ written < MAX_LEN + 2
      /\ OUTPUT' = Reversed(written) /\ written' = written + 1 /\ samples' \in Samples
      /\ sent' = Append(sent, <<>>)
      /\ UNCHANGED <<buffer, new_char, typed, stored>>
  BY DEF Write, Delay
<1>3. BufferKept' /\ UNCHANGED Finished
  BY <1>2 DEF EchoInv, BufferKept, Finished
<1>4. samples' \in Nat
  BY <1>2, SamplesAssumption
<1>5. written \in Nat /\ written' \in 0 .. EchoLen /\ written' > 0 /\ written' - 1 = written
  BY <1>2, Lengths DEF EchoInv, EchoUnderWay
<1> DEFINE d == Finished
<1>6. d \in Nat /\ \A i \in 1 .. Len(buffer) : buffer[i] = stored[d * MAX_LEN + i]
  BY DEF EchoInv, BufferKept
<1>7. Reversed(written) = LineEcho(d, written)
  <2>1. CASE written < MAX_LEN
    <3> DEFINE i == MAX_LEN - written
    <3>1. i \in 1 .. Len(buffer)
      BY <1>2, <1>5, <2>1, Lengths
    <3>2. Reversed(written) = buffer[i] /\ LineEcho(d, written) = stored[d * MAX_LEN + i]
      BY <1>5, <2>1, Lengths DEF Reversed, LineEcho
    <3> HIDE DEF i, d
    <3> QED
      BY <1>6, <3>1, <3>2
  <2>2. CASE ~(written < MAX_LEN)
    BY <2>2 DEF Reversed, LineEcho
  <2> QED
    BY <2>1, <2>2
<1>8. OUTPUT' = LineEcho(Finished, written)
  BY <1>2, <1>7
<1>9. EchoUnderWay'
  BY <1>2, <1>3, <1>4, <1>5, <1>8, Lengths DEF EchoInv, EchoUnderWay, LineEcho
<1>10. SentSoFar'
  <2>1. /\ sent \in Seq(Seq(Nat)) /\ Len(sent) \in Nat /\ Len(sent) = Finished * EchoLen + written
        /\ \A n \in 1 .. Len(sent) : \A k \in 1 .. Len(sent[n]) : sent[n][k] = Echoed(n)
        /\ \A n \in 1 .. Len(sent) : n < Len(sent) \/ written = 0 => Len(sent[n]) \in Samples
        /\ written > 0 => Len(sent[Len(sent)]) + samples \in Samples
    BY DEF EchoInv, SentSoFar
  <2>2. \A n \in 1 .. Len(sent) : Len(sent[n]) \in Samples
    BY <1>2, SentWhenOver DEF DelayOver
  <2>3. <<>> \in Seq(Nat) /\ Len(<<>>) = 0
    OBVIOUS
  <2>4. /\ sent' \in Seq(Seq(Nat)) /\ Len(sent') = Len(sent) + 1
        /\ \A n \in 1 .. Len(sent) : sent'[n] = sent[n]
        /\ sent'[Len(sent) + 1] = <<>>
    BY <1>2, <2>1, <2>3, AppendProperties
  <2>5. Len(sent') = Finished * EchoLen + written'
    <3>1. Finished * EchoLen \in Nat
      BY Lengths DEF EchoInv, BufferKept
    <3> QED
      BY <1>2, <1>5, <2>1, <2>4, <3>1
  <2>6. \A n \in 1 .. Len(sent') : n \in 1 .. Len(sent) \/ n = Len(sent')
    BY <2>1, <2>4
  <2>7. \A n \in 1 .. Len(sent') : \A k \in 1 .. Len(sent'[n]) : sent'[n][k] = Echoed(n)
    <3> TAKE n \in 1 .. Len(sent')
    <3>1. CASE n \in 1 .. Len(sent)
      BY <2>1, <2>4, <3>1
    <3>2. CASE n = Len(sent')
      BY <2>3, <2>4, <3>2
    <3> QED
      BY <2>6, <3>1, <3>2
  <2>8. \A n \in 1 .. Len(sent') : n < Len(sent') => Len(sent'[n]) \in Samples
    <3>1. \A n \in 1 .. Len(sent) : Len(sent'[n]) \in Samples
      BY <2>2, <2>4
    <3> QED
      BY <2>1, <2>4, <2>6, <3>1
  <2>9. Len(sent'[Len(sent')]) + samples' \in Samples
    BY <1>2, <1>4, <2>3, <2>4
  <2>10. \A n \in 1 .. Len(sent') : Echoed(n)' = Echoed(n)
    BY <1>2 DEF Echoed, LineEcho
  <2> QED
    BY <1>3, <1>5, <2>4, <2>5, <2>7, <2>8, <2>9, <2>10 DEF SentSoFar, EchoLen
<1> QED
  BY <1>1, <1>3, <1>9, <1>10 DEF EchoInv

\* The echo is complete, and its line is finished.
LEMMA EndEchoKeeps ==
  ASSUME EchoInv, EndEcho
  PROVE  EchoInv'
<1>1. Inv'
  BY StepKeeps DEF EchoInv, Next
<1>2. /\ samples = 0 /\ written = EchoLen /\ OUTPUT' = 0 /\ buffer' = <<>> /\ written' = 0
      /\ UNCHANGED <<new_char, samples, typed, stored, sent>>
  BY DEF EndEcho, Restarted, Emptied, EchoLen
<1>3. \A n \in 1 .. Len(sent) : Len(sent[n]) \in Samples
  BY <1>2, SentWhenOver DEF DelayOver
<1> DEFINE d == Finished
<1>4. /\ d \in Nat /\ Len(stored) = d * MAX_LEN + MAX_LEN /\ Len(sent) = d * EchoLen + EchoLen
  <2>1. written > 0
    BY <1>2, Lengths
  <2>2. Len(buffer) = MAX_LEN
    BY <2>1 DEF EchoInv, EchoUnderWay
  <2>3. d \in Nat /\ Len(stored) = d * MAX_LEN + MAX_LEN
    BY <2>2 DEF EchoInv, BufferKept
  <2>4. Len(sent) = d * EchoLen + EchoLen
    BY <1>2 DEF EchoInv, SentSoFar
  <2> QED
    BY <2>3, <2>4
<1>5. /\ d + 1 \in Nat /\ Len(stored) = (d + 1) * MAX_LEN /\ Len(sent) = (d + 1) * EchoLen
      /\ (d + 1) * MAX_LEN \in Nat /\ (d + 1) * EchoLen \in Nat
  <2> HIDE DEF d
  <2>1. (d + 1) * MAX_LEN = d * MAX_LEN + MAX_LEN /\ (d + 1) * EchoLen = d * EchoLen + EchoLen
    BY <1>4, Lengths
  <2>2. d + 1 \in Nat /\ (d + 1) * MAX_LEN \in Nat /\ (d + 1) * EchoLen \in Nat
    BY <1>4, Lengths
  <2> QED
    BY <1>4, <2>1, <2>2
<1>6. Finished' = d + 1
  <2> DEFINE e == d + 1
  <2> HIDE DEF e
  <2>1. Len(stored') - Len(buffer') = e * MAX_LEN + 0 /\ e \in Nat
    BY <1>2, <1>5 DEF e
  <2>2. (e * MAX_LEN + 0) \div MAX_LEN = e
    BY <2>1, Lengths, Quotients
  <2>3. Finished' = e
    BY <2>1, <2>2 DEF Finished
  <2> QED
    BY <2>3 DEF e
<1> HIDE DEF d
<1>7. BufferKept'
  BY <1>2, <1>5, <1>6, Lengths DEF BufferKept
<1>8. EchoUnderWay'
  BY <1>2, Lengths DEF EchoInv, EchoUnderWay
<1>9. SentSoFar'
  <2>1. \A n \in 1 .. Len(sent) : Echoed(n)' = Echoed(n)
    BY <1>2 DEF Echoed, LineEcho
  <2> QED
    BY <1>2, <1>3, <1>5, <1>6, <2>1 DEF EchoInv, SentSoFar, EchoLen
<1> QED
  BY <1>1, <1>7, <1>8, <1>9 DEF EchoInv

\* The invariant of the echo holds always.
LEMMA EchoInvariance == Spec => []EchoInv
<1>1. Init => EchoInv
  <2> SUFFICES ASSUME Init
               PROVE  EchoInv
    OBVIOUS
  <2>1. Inv
    BY InitHolds
  <2>2. /\ Len(stored) = 0 /\ Len(buffer) = 0 /\ Len(sent) = 0 /\ written = 0
        /\ buffer \in Seq(Nat) /\ sent \in Seq(Seq(Nat))
    BY DEF Init
  <2>3. Finished = 0
    <3>1. Len(stored) - Len(buffer) = 0 * MAX_LEN + 0 /\ 0 \in Nat
      BY <2>2, Lengths
    <3>2. (0 * MAX_LEN + 0) \div MAX_LEN = 0
      BY Lengths, Quotients
    <3> QED
      BY <3>1, <3>2 DEF Finished
  <2>4. 0 * MAX_LEN = 0 /\ 0 * EchoLen = 0
    BY Lengths
  <2>5. BufferKept
    BY <2>2, <2>3, <2>4, Lengths DEF BufferKept
  <2>6. EchoUnderWay
    BY <2>2, Lengths DEF Init, EchoUnderWay
  <2>7. SentSoFar
    BY <2>2, <2>3, <2>4 DEF SentSoFar
  <2> QED
    BY <2>1, <2>5, <2>6, <2>7 DEF EchoInv
<1>2. EchoInv /\ [Next]_vars => EchoInv'
  <2> SUFFICES ASSUME EchoInv, [Next]_vars
               PROVE  EchoInv'
    OBVIOUS
  <2>1. CASE Receive \/ Poll \/ UNCHANGED vars
    BY <2>1, ElsewhereKeeps
  <2>2. CASE Transmit
    BY <2>2, TransmitKeeps
  <2>3. CASE Store
    BY <2>3, StoreKeepsEcho
  <2>4. CASE Write
    BY <2>4, WriteKeeps
  <2>5. CASE EndEcho
    BY <2>5, EndEchoKeeps
  <2> QED
    BY <2>1, <2>2, <2>3, <2>4, <2>5 DEF Next
<1> QED
  BY <1>1, <1>2, PTL DEF Spec

\* The whole lines stored are the finished ones and the one in a full buffer.
LEMMA LinesAre ==
  ASSUME EchoInv
  PROVE  Lines = IF Len(buffer) = MAX_LEN THEN Finished + 1 ELSE Finished
<1> DEFINE d == Finished
<1>1. /\ d \in Nat /\ Len(stored) = d * MAX_LEN + Len(buffer)
      /\ Len(buffer) \in Nat /\ Len(buffer) <= MAX_LEN
  BY DEF EchoInv, BufferKept
<1> HIDE DEF d
<1>2. CASE Len(buffer) = MAX_LEN
  <2> DEFINE e == d + 1
  <2>1. e \in Nat /\ e * MAX_LEN = d * MAX_LEN + MAX_LEN /\ e * MAX_LEN \in Nat
    BY <1>1, Lengths
  <2> HIDE DEF e
  <2>2. Len(stored) = e * MAX_LEN + 0
    BY <1>1, <1>2, <2>1
  <2>3. (e * MAX_LEN + 0) \div MAX_LEN = e
    BY <2>1, Lengths, Quotients
  <2>4. Lines = e
    BY <2>2, <2>3 DEF Lines
  <2> QED
    BY <1>2, <2>4 DEF d, e
<1>3. CASE Len(buffer) \in 0 .. MAX_LEN - 1
  <2>1. (d * MAX_LEN + Len(buffer)) \div MAX_LEN = d
    BY <1>1, <1>3, Lengths, Quotients
  <2>2. Lines = d
    BY <1>1, <2>1 DEF Lines
  <2> QED
    BY <1>3, <2>2, Lengths DEF d
<1> QED
  BY <1>1, <1>2, <1>3, Lengths

\* Each store to the cell sends the next character of the lines stored, each
\* reversed, for lines of any length and whatever the delays are: as often as
\* its delay allows and in no other's; when no echo is under way all of them
\* are complete.
THEOREM EchoInTurn == Spec => []EchoedInTurn
<1>1. EchoInv => EchoedInTurn
  <2> SUFFICES ASSUME EchoInv
               PROVE  EchoedInTurn
    OBVIOUS
  <2>1. /\ sent \in Seq(Seq(Nat)) /\ DOMAIN sent = 1 .. Len(sent) /\ Len(sent) \in Nat
        /\ \A n \in 1 .. Len(sent) : DOMAIN sent[n] = 1 .. Len(sent[n])
        /\ \A n \in 1 .. Len(sent) : \A k \in 1 .. Len(sent[n]) : sent[n][k] = Echoed(n)
    <3>1. /\ sent \in Seq(Seq(Nat))
          /\ \A n \in 1 .. Len(sent) : \A k \in 1 .. Len(sent[n]) : sent[n][k] = Echoed(n)
      BY DEF EchoInv, SentSoFar
    <3>2. DOMAIN sent = 1 .. Len(sent) /\ Len(sent) \in Nat
      BY <3>1
    <3>3. \A n \in 1 .. Len(sent) : sent[n] \in Seq(Nat)
      BY <3>1
    <3>4. \A n \in 1 .. Len(sent) : DOMAIN sent[n] = 1 .. Len(sent[n])
      BY <3>3
    <3> QED
      BY <3>1, <3>2, <3>4
  <2>2. Len(sent) <= Lines * EchoLen /\ (Len(buffer) < MAX_LEN => Len(sent) = Lines * EchoLen)
    <3> DEFINE d == Finished
    <3>1. /\ d \in Nat /\ Len(buffer) \in Nat /\ Len(buffer) <= MAX_LEN
          /\ written \in 0 .. EchoLen /\ (written > 0 => Len(buffer) = MAX_LEN)
          /\ Len(sent) = d * EchoLen + written
      BY DEF EchoInv, BufferKept, EchoUnderWay, SentSoFar
    <3>2. Lines = IF Len(buffer) = MAX_LEN THEN d + 1 ELSE d
      BY LinesAre
    <3> HIDE DEF d
    <3>3. d * EchoLen \in Nat /\ (d + 1) * EchoLen = d * EchoLen + EchoLen
      BY <3>1, Lengths
    <3>4. CASE Len(buffer) = MAX_LEN
      <4>1. Lines = d + 1
        BY <3>2, <3>4
      <4>2. Lines * EchoLen = d * EchoLen + EchoLen
        BY <3>3, <4>1
      <4> QED
        BY <3>1, <3>3, <3>4, <4>2, Lengths
    <3>5. CASE Len(buffer) < MAX_LEN
      <4>1. Lines = d /\ written = 0
        BY <3>1, <3>2, <3>5, Lengths
      <4> QED
        BY <3>1, <3>3, <4>1
    <3> QED
      BY <3>1, <3>4, <3>5, Lengths
  <2>3. \A n \in 1 .. Len(sent) : DelayOver(n) => Len(sent[n]) \in Samples
    BY SentWhenOver
  <2>4. \A n \in DOMAIN sent : \A k \in DOMAIN sent[n] : sent[n][k] = Echoed(n)
    BY <2>1
  <2>5. \A n \in DOMAIN sent : DelayOver(n) => Len(sent[n]) \in Samples
    BY <2>1, <2>3
  <2> QED
    BY <2>2, <2>4, <2>5 DEF EchoedInTurn
<1> QED
  BY <1>1, EchoInvariance, PTL
=============================================================================
