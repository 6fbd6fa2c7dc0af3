---------------------------- MODULE AxilMemory ----------------------------
(***************************************************************************)
(* The read-write port (port_rw) of the AxilMemory of                      *)
(* hw6-cache/AxilCache_ref.sv, the copy of which in AxilCache.sv is the    *)
(* same text.  Its ARREADY, AWREADY and WREADY are raised at reset         *)
(* (lines 116-118) and never lowered, so they are TRUE throughout and the  *)
(* memory accepts in every cycle.  It ignores RREADY and BREADY: a         *)
(* response is offered for exactly one cycle.                              *)
(***************************************************************************)
EXTENDS MemPort

CONSTANT Images   \* the memory contents a run may start from ($readmemh)

ASSUME ImagesAssumption == Images \subseteq [Addr -> Word]

VARIABLE mem_array

\* After the first reset edge.  Reset does not assign port_rw.BVALID, whose
\* power-up value is whatever the register holds.
MemInit ==
  /\ mem_array \in Images
  /\ mem_R = None
  /\ mem_BVALID \in BOOLEAN

MemRead ==
  mem_R' = IF mem_AR # None THEN mem_array[mem_AR] ELSE None

\* Mutant: BVALID is never lowered.
MemWriteSticky ==
  IF mem_AW # None
  THEN /\ mem_array' = [mem_array EXCEPT ![mem_AW.addr] = mem_AW.wdata]
       /\ mem_BVALID' = TRUE
  ELSE UNCHANGED <<mem_BVALID, mem_array>>

MemWrite ==
  IF mem_AW # None
  THEN /\ mem_array' = [mem_array EXCEPT ![mem_AW.addr] = mem_AW.wdata]
       /\ mem_BVALID' = TRUE
  ELSE /\ mem_BVALID' = FALSE
       /\ UNCHANGED mem_array

MemTick == MemRead /\ MemWrite

\* ARESETn low at the edge: no write is performed, BVALID keeps its value.
MemReset ==
  /\ mem_R' = None
  /\ UNCHANGED <<mem_BVALID, mem_array>>
=============================================================================
