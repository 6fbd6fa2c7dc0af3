------------------------------ MODULE AxiLite ------------------------------
(***************************************************************************)
(* The AXI-Lite interface `axi_if' of hw6-cache/AxilCache_ref.sv, and the  *)
(* instance of it between a manager (the datapath) and the subordinate     *)
(* that serves it ("proc", the cache).                                     *)
(*                                                                         *)
(* Every signal is a register sampled at the rising clock edge, so a state *)
(* of the specification is one clock cycle and a step is one edge.         *)
(*                                                                         *)
(* A channel is one variable holding its payload, or None while its VALID  *)
(* is low: every assignment of the source that lowers VALID also zeroes    *)
(* the payload.  AW and W are one channel because the cache assumes that   *)
(* address, data and strobe arrive in the same cycle (AxilCache_ref.sv,    *)
(* line 304).  ARPROT is constantly 0 and RRESP, BRESP are constantly OK.  *)
(***************************************************************************)
EXTENDS Naturals

CONSTANTS
  Tag,      \* the upper address bits
  Index,    \* the set index bits of an address, one per line of the cache
  Lane,     \* the byte lanes of a word, one per bit of WSTRB
  Byte,     \* the contents of a lane
  Tag0,     \* the tag whose bits are all zero
  Byte0,    \* the zero byte
  None,     \* a channel whose VALID is low
  Reads,    \* the addresses the manager may read
  Writes    \* the writes the manager may issue

\* A 4-byte aligned address, split the way AxilCache splits it (lines 222-224).
Addr == [tag : Tag, index : Index]

Word == [Lane -> Byte]

ZeroWord == [l \in Lane |-> Byte0]

WriteRequest == [addr : Addr, wdata : Word, wstrb : SUBSET Lane]

ASSUME NoneAssumption == None \notin Addr \cup Word \cup WriteRequest

ASSUME ZeroAssumption == Tag0 \in Tag /\ Byte0 \in Byte

ASSUME RequestAssumption == Reads \subseteq Addr /\ Writes \subseteq WriteRequest

VARIABLES
  \* driven by the manager
  proc_AR,        \* ARVALID and ARADDR
  proc_AW,        \* AWVALID, AWADDR, WVALID, WDATA and WSTRB
  proc_RREADY,
  proc_BREADY,
  \* driven by the subordinate
  proc_ARREADY,
  proc_AWREADY,
  proc_WREADY,
  proc_R,         \* RVALID and RDATA
  proc_BVALID

managerVars == <<proc_AR, proc_AW, proc_RREADY, proc_BREADY>>
readyVars   == <<proc_ARREADY, proc_AWREADY, proc_WREADY>>
replyVars   == <<proc_R, proc_BVALID>>
procVars    == <<managerVars, readyVars, replyVars>>

\* The lanes selected by the strobe take the new bytes, the others keep theirs.
Merge(old, new, strb) == [l \in Lane |-> IF l \in strb THEN new[l] ELSE old[l]]

\* Handshakes of the cycle: VALID and READY both high at the edge.
ReadAccepted    == proc_AR # None /\ proc_ARREADY
WriteAccepted   == proc_AW # None /\ proc_AWREADY /\ proc_WREADY
ReadReplyTaken  == proc_R # None /\ proc_RREADY
WriteReplyTaken == proc_BVALID /\ proc_BREADY

\* The cycle offers a response that the manager does not take.
ReadReplyRefused  == proc_R # None /\ ~proc_RREADY
WriteReplyRefused == proc_BVALID /\ ~proc_BREADY

-----------------------------------------------------------------------------
\* The manager: any client that keeps the AXI rule that a request, once
\* offered, stays offered unchanged until it is accepted, and the rule the
\* cache asserts (line 270) that reads and writes never share a cycle.
AnyOffer ==
  /\ proc_AR \in Reads \cup {None}
  /\ proc_AW \in Writes \cup {None}
  /\ proc_AR = None \/ proc_AW = None
  /\ proc_RREADY \in BOOLEAN
  /\ proc_BREADY \in BOOLEAN

ManagerStep ==
  /\ proc_AR' \in IF proc_AR # None /\ ~ReadAccepted THEN {proc_AR} ELSE Reads \cup {None}
  /\ proc_AW' \in IF proc_AW # None /\ ~WriteAccepted THEN {proc_AW} ELSE Writes \cup {None}
  /\ proc_AR' = None \/ proc_AW' = None
  /\ proc_RREADY' \in BOOLEAN
  /\ proc_BREADY' \in BOOLEAN

\* Reset drops what was offered.
ManagerReset ==
  /\ proc_AR' \in Reads \cup {None}
  /\ proc_AW' \in Writes \cup {None}
  /\ proc_AR' = None \/ proc_AW' = None
  /\ proc_RREADY' \in BOOLEAN
  /\ proc_BREADY' \in BOOLEAN

\* What a subordinate may be sent, by whatever manager: a read or a write of
\* some address, and never both in one cycle.
AnyRequest ==
  /\ proc_AR \in Addr \cup {None}
  /\ proc_AW \in WriteRequest \cup {None}
  /\ proc_AR = None \/ proc_AW = None
  /\ {proc_RREADY, proc_BREADY} \subseteq BOOLEAN

ReplyTypeOK ==
  /\ proc_R \in Word \cup {None}
  /\ {proc_ARREADY, proc_AWREADY, proc_WREADY, proc_BVALID} \subseteq BOOLEAN

AxiTypeOK ==
  /\ proc_AR \in Reads \cup {None}
  /\ proc_AW \in Writes \cup {None}
  /\ {proc_RREADY, proc_BREADY} \subseteq BOOLEAN
  /\ ReplyTypeOK
=============================================================================
