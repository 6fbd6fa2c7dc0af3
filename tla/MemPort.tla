------------------------------ MODULE MemPort ------------------------------
(***************************************************************************)
(* The second instance of `axi_if': between the cache (manager) and the    *)
(* read-write port of the memory (subordinate), with the channels          *)
(* represented as in AxiLite.                                              *)
(***************************************************************************)
EXTENDS AxiLite

Writeback == [addr : Addr, wdata : Word]

ASSUME WritebackAssumption == None \notin Writeback

VARIABLES
  \* driven by the cache
  mem_AR,         \* ARVALID and ARADDR
  mem_RREADY,
  mem_AW,         \* AWVALID, AWADDR, WVALID and WDATA; WSTRB is always 4'hF
  mem_BREADY,
  \* driven by the memory
  mem_R,          \* RVALID and RDATA
  mem_BVALID

memReqVars   == <<mem_AR, mem_RREADY, mem_AW, mem_BREADY>>
memReplyVars == <<mem_R, mem_BVALID>>

MemTypeOK ==
  /\ mem_AR \in Addr \cup {None}
  /\ mem_AW \in Writeback \cup {None}
  /\ mem_R \in Word \cup {None}
  /\ {mem_RREADY, mem_BREADY, mem_BVALID} \subseteq BOOLEAN
=============================================================================
