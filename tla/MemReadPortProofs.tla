------------------------- MODULE MemReadPortProofs -------------------------
(***************************************************************************)
(* The read-only port keeps every request and answers it with its own      *)
(* word, for every set of addresses and values.                            *)
(*                                                                         *)
(* PortInv adds SeenNow to the checked invariants: the history follows     *)
(* memory, so that the word a buffered request is answered with, read some *)
(* edges after it was accepted, is one the history has seen.               *)
(***************************************************************************)
EXTENDS MemReadPort, SequenceTheorems, TLAPS

Entry == [addr : Address, seen : SUBSET Value]

SeenNow == \A k \in 1..Len(asked) : mem_array[asked[k].addr] \in asked[k].seen

PortInv == TypeOK /\ NoneLost /\ AnswersItsRequest /\ SeenNow

\* The history after the requests taken and accepted at this edge.
Kept == IF Taken THEN Tail(asked) ELSE asked
Due  == IF Accepted THEN <<Open(ro_AR)>> ELSE <<>>

\* The history is typed, as long as the queue of this edge, keeps its
\* addresses, and adds to each entry the value its word has next.
LEMMA Recorded ==
  ASSUME PortInv, Record, mem_array' \in [Address -> Value]
  PROVE  LET q == Kept \o Due IN
           /\ asked' \in Seq(Entry)
           /\ Len(asked') = Len(q)
           /\ \A k \in 1..Len(q) : /\ asked'[k].addr = q[k].addr
                                   /\ q[k].seen \subseteq asked'[k].seen
                                   /\ mem_array'[q[k].addr] \in asked'[k].seen
<1> DEFINE q == Kept \o Due
<1>1. Kept \in Seq(Entry)
  <2>1. CASE Taken
    <3>1. asked # <<>> /\ asked \in Seq(Entry)
      BY <2>1 DEF PortInv, TypeOK, NoneLost, Taken, Entry
    <3> QED
      BY <3>1, <2>1 DEF Kept
  <2>2. CASE ~Taken
    BY <2>2 DEF Kept, PortInv, TypeOK, Entry
  <2> QED
    BY <2>1, <2>2
<1>2. Due \in Seq(Entry)
  <2>1. ro_AR # None => Open(ro_AR) \in Entry
    BY DEF PortInv, TypeOK, Open, Entry
  <2> QED
    BY <2>1 DEF Due, Accepted
<1>3. q \in Seq(Entry)
  BY <1>1, <1>2
<1> HIDE DEF q
<1>4. asked' = [k \in 1..Len(q) |->
                  [q[k] EXCEPT !.seen = @ \cup {mem_array'[q[k].addr]}]]
  <2>1. asked' = Follow(q)
    BY DEF Record, q, Kept, Due
  <2>2. DOMAIN q = 1..Len(q)
    BY <1>3
  <2> QED
    BY <2>1, <2>2 DEF Follow
<1>5. \A k \in 1..Len(q) : q[k] \in Entry
  BY <1>3
<1>6. \A k \in 1..Len(q) : asked'[k] \in Entry
  BY <1>4, <1>5 DEF Entry
<1>7. asked' \in Seq(Entry) /\ Len(asked') = Len(q)
  BY <1>3, <1>4, <1>6
<1>8. \A k \in 1..Len(q) : /\ asked'[k].addr = q[k].addr
                           /\ q[k].seen \subseteq asked'[k].seen
                           /\ mem_array'[q[k].addr] \in asked'[k].seen
  BY <1>4, <1>5 DEF Entry
<1> QED
  BY <1>7, <1>8 DEF q

\* The port's registers stay in their types.
LEMMA PortTyped ==
  ASSUME PortInv, ClockEdge
  PROVE  TypeOK'
<1>1. mem_array' \in [Address -> Value]
  BY DEF PortInv, TypeOK, ClockEdge, WriteStep
<1>2. asked' \in Seq(Entry)
  BY <1>1, Recorded DEF ClockEdge
<1>3. ro_AR' \in Address \cup {None} /\ ro_RREADY' \in BOOLEAN
  BY DEF PortInv, TypeOK, ClockEdge, FetchStep
<1>4. \A a \in Address : mem_array[a] \in Value
  BY DEF PortInv, TypeOK
<1>5. ro_R' \in Value \cup {None} /\ ro_araddr' \in Address \cup {None}
       /\ ro_ARREADY' \in BOOLEAN
  BY <1>4 DEF PortInv, TypeOK, ClockEdge, PortTick, AnswerBuffered, KeepBuffered,
              BufferRequest, AnswerAtOnce, Retire, PortIdle, portVars, Respond,
              Buffered, Accepted
<1> QED
  BY <1>1, <1>2, <1>3, <1>5 DEF TypeOK, Entry

\* Queues of at most two entries.
LEMMA ShortTails ==
  ASSUME NEW S, NEW s \in Seq(S)
  PROVE  /\ s \o <<>> = s
         /\ Len(s) = 1 => Tail(s) = <<>>
         /\ Len(s) = 2 => Tail(s) \in Seq(S) /\ Len(Tail(s)) = 1 /\ Tail(s)[1] = s[2]
<1>1. s \o <<>> = s
  BY ConcatEmptySeq
<1>2. ASSUME s # <<>>, NEW t, t = Tail(s)
      PROVE  /\ t \in Seq(S) /\ Len(t) = Len(s) - 1
             /\ \A i \in 1..Len(t) : t[i] = s[i+1]
  BY <1>2, HeadTailProperties
<1>3. Len(s) \in {1, 2} => s # <<>>
  BY EmptySeq
<1>4. ASSUME NEW t \in Seq(S), Len(t) = 0
      PROVE  t = <<>>
  BY <1>4, EmptySeq
<1>5. ASSUME NEW t, t = Tail(s)
      PROVE  /\ Len(s) = 1 => t = <<>>
             /\ Len(s) = 2 => t \in Seq(S) /\ Len(t) = 1 /\ t[1] = s[2]
  <2>1. CASE Len(s) = 1
    BY <1>2, <1>3, <1>4, <1>5, <2>1
  <2>2. CASE Len(s) = 2
    <3>1. t \in Seq(S) /\ Len(t) = 1 /\ \A i \in 1..Len(t) : t[i] = s[i+1]
      BY <1>2, <1>3, <1>5, <2>2
    <3> QED
      BY <3>1, <2>2
  <2> QED
    BY <2>1, <2>2
<1> QED
  BY <1>1, <1>5

\* A request joins an empty queue or a queue of one.
LEMMA ShortJoins ==
  ASSUME NEW S, NEW s \in Seq(S), NEW x \in S
  PROVE  /\ <<>> \o <<x>> = <<x>>
         /\ Len(s) = 1 => Len(s \o <<x>>) = 2 /\ (s \o <<x>>)[1] = s[1] /\ (s \o <<x>>)[2] = x
<1>1. <<x>> \in Seq(S) /\ Len(<<x>>) = 1 /\ <<x>>[1] = x
  OBVIOUS
<1>2. <<>> \o <<x>> = <<x>>
  BY <1>1, ConcatEmptySeq
<1>3. ASSUME NEW c, c = s \o <<x>>, Len(s) = 1
      PROVE  Len(c) = 2 /\ c[1] = s[1] /\ c[2] = x
  <2>1. PICK u \in Seq(S) : u = <<x>> /\ Len(u) = 1 /\ u[1] = x
    BY <1>1
  <2>2. /\ Len(c) = Len(s) + Len(u)
        /\ \A i \in 1 .. Len(s) + Len(u) : c[i] = IF i <= Len(s) THEN s[i] ELSE u[i - Len(s)]
    BY <1>3, <2>1, ConcatProperties
  <2> QED
    BY <1>3, <2>1, <2>2
<1> QED
  BY <1>2, <1>3

\* What is known of the history before the edge.
LEMMA Outstanding ==
  ASSUME PortInv
  PROVE  /\ asked \in Seq(Entry)
         /\ ro_R = None => asked = <<>>
         /\ ro_R # None /\ ~Buffered => Len(asked) = 1
         /\ Buffered => Len(asked) = 2 /\ ro_R # None /\ ro_araddr = asked[2].addr
         /\ ro_ARREADY <=> ~Buffered
         /\ \A a \in Address : mem_array[a] \in Value /\ mem_array[a] # None
<1>1. asked \in Seq(Entry)
  BY DEF PortInv, TypeOK, Entry
<1> QED
  BY <1>1, NoneApart DEF PortInv, NoneLost, TypeOK

\* The responses and the requests they answer, by the branch of the port.
LEMMA TickKeeps ==
  ASSUME PortInv, ClockEdge
  PROVE  NoneLost' /\ AnswersItsRequest' /\ SeenNow'
<1> DEFINE q == Kept \o Due
<1>1. mem_array' \in [Address -> Value]
  BY DEF PortInv, TypeOK, ClockEdge, WriteStep
<1>2. /\ asked' \in Seq(Entry) /\ Len(asked') = Len(q)
      /\ \A k \in 1..Len(q) : /\ asked'[k].addr = q[k].addr
                              /\ q[k].seen \subseteq asked'[k].seen
                              /\ mem_array'[q[k].addr] \in asked'[k].seen
  BY <1>1, Recorded DEF ClockEdge
<1>3. SeenNow'
  BY <1>2 DEF SeenNow
<1>4. /\ asked \in Seq(Entry)
      /\ ro_R = None => asked = <<>>
      /\ ro_R # None /\ ~Buffered => Len(asked) = 1
      /\ Buffered => Len(asked) = 2 /\ ro_R # None /\ ro_araddr = asked[2].addr
      /\ ro_ARREADY <=> ~Buffered
      /\ \A a \in Address : mem_array[a] \in Value /\ mem_array[a] # None
  BY Outstanding
<1>5. /\ ro_AR \in Address \cup {None} /\ ro_araddr \in Address \cup {None}
      /\ ro_R # None => ro_R \in asked[1].seen
  BY DEF PortInv, TypeOK, AnswersItsRequest
<1>6. /\ mem_array[ro_AR] \in Open(ro_AR).seen /\ Open(ro_AR).addr = ro_AR
      /\ ro_AR # None => Open(ro_AR) \in Entry
  BY <1>4, <1>5 DEF Open, Entry
<1>7. SUFFICES \/ ro_R' = None /\ ~Buffered' /\ ro_ARREADY' /\ Len(q) = 0
               \/ ro_R' # None /\ ~Buffered' /\ ro_ARREADY' /\ Len(q) = 1 /\ ro_R' \in q[1].seen
               \/ /\ ro_R' # None /\ Buffered' /\ ~ro_ARREADY' /\ Len(q) = 2
                  /\ ro_R' \in q[1].seen /\ ro_araddr' = q[2].addr
  BY <1>2, <1>3 DEF NoneLost, AnswersItsRequest
<1>8. CASE AnswerBuffered
  <2>1. Len(asked) = 2 /\ Taken /\ ~Accepted /\ ro_araddr = asked[2].addr
    BY <1>4, <1>8 DEF AnswerBuffered, Taken, Accepted
  <2>2. Len(q) = 1 /\ q[1] = asked[2]
    <3>1. Kept \in Seq(Entry) /\ Len(Kept) = 1 /\ Kept[1] = asked[2]
      BY <1>4, <2>1, ShortTails DEF Kept
    <3>2. q = Kept
      BY <2>1, <3>1, ShortTails DEF Due
    <3> QED
      BY <3>1, <3>2
  <2>3. mem_array[asked[2].addr] \in asked[2].seen
    BY <2>1 DEF PortInv, SeenNow
  <2>4. ro_R' = mem_array[ro_araddr] /\ ~Buffered' /\ ro_ARREADY'
    BY <1>8 DEF AnswerBuffered, Respond, Buffered
  <2>5. ro_R' # None
    BY <1>4, <1>5, <1>8, <2>4 DEF AnswerBuffered, Buffered
  <2> QED
    BY <2>1, <2>2, <2>3, <2>4, <2>5
<1>9. CASE KeepBuffered
  <2>1. ~Taken /\ ~Accepted /\ Len(asked) = 2 /\ ro_R # None /\ ro_araddr = asked[2].addr
    BY <1>4, <1>9 DEF KeepBuffered, Taken, Accepted
  <2>2. Len(q) = 2 /\ q[1] = asked[1] /\ q[2] = asked[2]
    BY <1>4, <1>6, <2>1, ShortTails, ShortJoins DEF Kept, Due, Accepted
  <2>3. ro_R' = ro_R /\ ro_araddr' = ro_araddr /\ Buffered' /\ ~ro_ARREADY'
    BY <1>4, <1>9 DEF KeepBuffered, portVars, Buffered
  <2> QED
    BY <1>5, <2>1, <2>2, <2>3
<1>10. CASE BufferRequest
  <2>1. ~Taken /\ Accepted /\ ro_R # None /\ Len(asked) = 1
    BY <1>4, <1>10 DEF BufferRequest, Taken, RoomToRespond, Refused
  <2>2. Len(q) = 2 /\ q[1] = asked[1] /\ q[2] = Open(ro_AR)
    BY <1>4, <1>6, <2>1, ShortTails, ShortJoins DEF Kept, Due, Accepted
  <2>3. ro_R' = ro_R /\ ro_araddr' = ro_AR /\ Buffered' /\ ~ro_ARREADY'
    BY <1>10 DEF BufferRequest, Buffered, Accepted
  <2> QED
    BY <1>5, <1>6, <2>1, <2>2, <2>3
<1>11. CASE AnswerAtOnce
  <2>1. Accepted /\ ~Buffered /\ (ro_R = None \/ Taken)
    BY <1>11 DEF AnswerAtOnce, Taken, RoomToRespond, Refused
  <2>2. Kept = <<>>
    BY <1>4, <1>6, <2>1, ShortTails, ShortJoins DEF Kept, Taken, Accepted
  <2>3. Len(q) = 1 /\ q[1] = Open(ro_AR)
    BY <1>4, <1>6, <2>1, <2>2, ShortTails, ShortJoins DEF Due, Accepted
  <2>4. ro_R' = mem_array[ro_AR] /\ ~Buffered' /\ ro_ARREADY'
    BY <1>11, <2>1 DEF AnswerAtOnce, Respond, Buffered, Accepted
  <2>5. ro_R' # None
    BY <1>4, <1>5, <2>1, <2>4 DEF Accepted
  <2> QED
    BY <1>6, <2>3, <2>4, <2>5
<1>12. CASE Retire
  <2>1. Kept = <<>> /\ Due = <<>>
    BY <1>4, <1>12, ShortTails, ShortJoins DEF Retire, Kept, Due, Taken
  <2>2. ro_R' = None /\ ~Buffered' /\ ro_ARREADY'
    BY <1>12 DEF Retire, Buffered
  <2> QED
    BY <2>1, <2>2
<1>13. CASE PortIdle
  <2>1. ~Taken /\ ~Accepted /\ ~Buffered
    BY <1>13 DEF PortIdle
  <2>2. Len(q) = Len(asked) /\ (Len(asked) = 1 => q[1] = asked[1])
    BY <1>4, <1>6, <2>1, ShortTails, ShortJoins DEF Kept, Due, Accepted
  <2>3. ro_R' = ro_R /\ ~Buffered' /\ ro_ARREADY'
    BY <1>4, <1>13, <2>1 DEF PortIdle, portVars, Buffered
  <2> QED
    BY <1>4, <1>5, <2>1, <2>2, <2>3
<1> QED
  BY <1>8, <1>9, <1>10, <1>11, <1>12, <1>13 DEF ClockEdge, PortTick

\* A reset empties the port and the history alike.
LEMMA ResetKeeps ==
  ASSUME PortInv, ResetEdge
  PROVE  PortInv'
BY DEF PortInv, ResetEdge, PortReset, TypeOK, NoneLost, AnswersItsRequest, SeenNow, Buffered

\* Nothing moves.
LEMMA StutterKeeps ==
  ASSUME PortInv, UNCHANGED vars
  PROVE  PortInv'
BY DEF PortInv, vars, fetchVars, portVars, TypeOK, NoneLost, AnswersItsRequest, SeenNow, Buffered

\* The port never loses, duplicates or reorders a fetch, and every response is
\* the word of the request it answers.
THEOREM PortInvariance == Spec => []PortInv
<1>1. Init => PortInv
  BY DEF Init, PortInit, PortInv, TypeOK, NoneLost, AnswersItsRequest, SeenNow, Buffered
<1>2. PortInv /\ [Next]_vars => PortInv'
  BY TickKeeps, PortTyped, ResetKeeps, StutterKeeps DEF Next, PortInv
<1> QED
  BY <1>1, <1>2, PTL DEF Spec

\* Every variable of datapath, port and history keeps its type, however long
\* the refused responses wait.
THEOREM Types == Spec => []TypeOK
BY PortInvariance, PTL DEF PortInv

\* Every accepted fetch is in the port until it is answered, in order.
THEOREM FetchesKept == Spec => []NoneLost
BY PortInvariance, PTL DEF PortInv

\* A response is a value its own word had after the request was accepted.
THEOREM FetchesAnswered == Spec => []AnswersItsRequest
BY PortInvariance, PTL DEF PortInv

\* Refused responses stay offered unchanged.
THEOREM ResponsesHeld == Spec => ResponseHeld
<1>1. PortInv /\ [Next]_vars => [Refused => ro_R' = ro_R \/ asked' = <<>>]_vars
  <2> SUFFICES ASSUME PortInv, Next, Refused
               PROVE  ro_R' = ro_R \/ asked' = <<>>
    OBVIOUS
  <2>1. CASE ResetEdge
    BY <2>1 DEF ResetEdge
  <2>2. CASE ClockEdge
    BY <2>2 DEF ClockEdge, PortTick, AnswerBuffered, KeepBuffered, BufferRequest, AnswerAtOnce,
                Retire, PortIdle, portVars, Refused, Taken, RoomToRespond
  <2> QED
    BY <2>1, <2>2 DEF Next
<1> QED
  BY <1>1, PortInvariance, PTL DEF Spec, ResponseHeld
=============================================================================
