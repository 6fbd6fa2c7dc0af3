---------------------------- MODULE MemReadPort ----------------------------
(***************************************************************************)
(* The read-only port (port_ro) of the AxilMemory of                       *)
(* hw6-cache/AxilCache_ref.sv, through which the datapath fetches          *)
(* instructions, while port_rw writes the same array.                      *)
(*                                                                         *)
(* The port has one register, ro_araddr, for a request accepted while a    *)
(* response is refused.  A step is a rising clock edge; a channel is its   *)
(* payload, or None while VALID is low.                                    *)
(***************************************************************************)
EXTENDS Naturals, Sequences

CONSTANTS
  Address,    \* word addresses
  Value,      \* the contents of a word
  None        \* a channel whose VALID is low

ASSUME NoneApart == None \notin Address \cup Value

VARIABLES
  ro_AR,        \* ARVALID and ARADDR, driven by the datapath
  ro_RREADY,    \* driven by the datapath
  ro_ARREADY,
  ro_R,         \* RVALID and RDATA
  ro_araddr,    \* ro_araddr_valid and ro_araddr
  mem_array,
  asked         \* history: the accepted and unanswered requests, oldest first

fetchVars == <<ro_AR, ro_RREADY>>
portVars  == <<ro_ARREADY, ro_R, ro_araddr>>
vars == <<fetchVars, portVars, mem_array, asked>>

Accepted == ro_AR # None /\ ro_ARREADY
Taken    == ro_R # None /\ ro_RREADY
Refused  == ro_R # None /\ ~ro_RREADY
Buffered == ro_araddr # None

\* A response carries the word as it is before this edge's write.  The mutants
\* answer with the address itself, answer what is on the wires, forget RVALID.
RespondAddress(a) == ro_R' = a
RespondToWires(a) == ro_R' = mem_array[IF ro_AR # None THEN ro_AR ELSE a]
RespondSilently(a) == UNCHANGED ro_R
Respond(a) == ro_R' = mem_array[a]

\* Is there room to answer at once?  The mutant looks at RVALID alone.
RoomIgnored == TRUE
RoomToRespond == ~Refused

-----------------------------------------------------------------------------
\* Power-up and the first reset edge.
PortInit == ro_ARREADY = TRUE /\ ro_R = None /\ ro_araddr = None

\* Mutant: reset leaves ARREADY alone.
PortResetKeepsReady == UNCHANGED ro_ARREADY /\ ro_R' = None /\ ro_araddr' = None
PortReset == ro_ARREADY' = TRUE /\ ro_R' = None /\ ro_araddr' = None

\* A buffered request waits for the manager, then is answered.
AnswerBuffered ==
  /\ Buffered /\ ro_RREADY
  /\ Respond(ro_araddr)
  /\ ro_araddr' = None
  /\ ro_ARREADY' = TRUE

KeepBuffered == Buffered /\ ~ro_RREADY /\ UNCHANGED portVars

BufferRequest ==
  /\ ~Buffered /\ Accepted /\ ~RoomToRespond
  /\ ro_araddr' = ro_AR
  /\ ro_ARREADY' = FALSE
  /\ UNCHANGED ro_R

AnswerAtOnce ==
  /\ ~Buffered /\ Accepted /\ RoomToRespond
  /\ Respond(ro_AR)
  /\ UNCHANGED <<ro_araddr, ro_ARREADY>>

Retire ==
  /\ ~Buffered /\ ~Accepted /\ Taken
  /\ ro_R' = None
  /\ ro_ARREADY' = TRUE
  /\ UNCHANGED ro_araddr

PortIdle == ~Buffered /\ ~Accepted /\ ~Taken /\ UNCHANGED portVars

PortTick ==
  AnswerBuffered \/ KeepBuffered \/ BufferRequest \/ AnswerAtOnce \/ Retire \/ PortIdle

-----------------------------------------------------------------------------
\* The datapath holds a request until it is accepted; port_rw writes at most
\* one word per edge.
FetchStep ==
  /\ ro_AR' \in IF ro_AR # None /\ ~Accepted THEN {ro_AR} ELSE Address \cup {None}
  /\ ro_RREADY' \in BOOLEAN

WriteStep ==
  \/ UNCHANGED mem_array
  \/ \E a \in Address, v \in Value : mem_array' = [mem_array EXCEPT ![a] = v]

\* An entry of the history is an address and every value its word has had
\* since the request was accepted.
Open(a) == [addr |-> a, seen |-> {mem_array[a]}]

Follow(q) == [k \in DOMAIN q |-> [q[k] EXCEPT !.seen = @ \cup {mem_array'[q[k].addr]}]]

Record ==
  asked' = Follow((IF Taken THEN Tail(asked) ELSE asked)
                    \o (IF Accepted THEN <<Open(ro_AR)>> ELSE <<>>))

Init ==
  /\ PortInit
  /\ ro_AR \in Address \cup {None} /\ ro_RREADY \in BOOLEAN
  /\ mem_array \in [Address -> Value]
  /\ asked = <<>>

ClockEdge == PortTick /\ FetchStep /\ WriteStep /\ Record

\* A reset drops every request; the array keeps its contents.
ResetEdge ==
  /\ PortReset
  /\ ro_AR' \in Address \cup {None} /\ ro_RREADY' \in BOOLEAN
  /\ asked' = <<>>
  /\ UNCHANGED mem_array

Next == ClockEdge \/ ResetEdge

Spec == Init /\ [][Next]_vars

\* The clock runs, and the datapath eventually raises RREADY.
FairSpec == Spec /\ WF_vars(ClockEdge /\ ro_RREADY')

-----------------------------------------------------------------------------
\* Every variable has its type.
TypeOK ==
  /\ ro_AR \in Address \cup {None}
  /\ ro_R \in Value \cup {None}
  /\ ro_araddr \in Address \cup {None}
  /\ ro_RREADY \in BOOLEAN /\ ro_ARREADY \in BOOLEAN
  /\ mem_array \in [Address -> Value]
  /\ asked \in Seq([addr : Address, seen : SUBSET Value])

\* Exactly the accepted and unanswered requests are in the port: the oldest is
\* the one whose response is offered, the second is in ro_araddr, and there is
\* never a third, ARREADY being low while the register is full.
NoneLost ==
  /\ Len(asked) = (IF ro_R # None THEN 1 ELSE 0) + (IF Buffered THEN 1 ELSE 0)
  /\ Buffered => ro_R # None /\ ro_araddr = asked[2].addr
  /\ ro_ARREADY <=> ~Buffered

\* The response offered to the oldest request is a value its word had between
\* the acceptance of the request and now, whatever port_rw wrote meanwhile.
AnswersItsRequest == ro_R # None => ro_R \in asked[1].seen

\* An offered response does not change until it is taken.
ResponseHeld == [][Refused => ro_R' = ro_R \/ asked' = <<>>]_vars

\* Every accepted request is answered and every offered one accepted.
Answered == (asked # <<>>) ~> (Taken \/ asked = <<>>)
FetchTaken == (ro_AR # None) ~> (Accepted \/ ro_AR = None)
=============================================================================
