----------------------------- MODULE AxilCache -----------------------------
(***************************************************************************)
(* The direct-mapped, write-back, write-allocate cache of                  *)
(* hw6-cache/AxilCache_ref.sv (module AxilCache with WAYS = 1 and one      *)
(* 4-byte word per line).  One action per branch of the clocked process.   *)
(*                                                                         *)
(* With one way the LRU bits are written and never read: victim_way_index  *)
(* is 0 and way_hit_index is 0.  They are left out, as is the 1-hot        *)
(* encoder.                                                                *)
(***************************************************************************)
EXTENDS MemPort

AVAILABLE     == "CACHE_AVAILABLE"
FILL          == "CACHE_AWAIT_FILL_RESPONSE"
WRITEBACK     == "CACHE_AWAIT_WRITEBACK_RESPONSE"
MANAGER_READY == "CACHE_AWAIT_MANAGER_READY"

CacheState == {AVAILABLE, FILL, WRITEBACK, MANAGER_READY}

VARIABLES
  current_state,
  data, tag, valid, dirty,   \* the lines, by index
  read_miss,
  saved                      \* the request being served, None after reset

lineVars  == <<data, tag, valid, dirty>>
cacheVars == <<current_state, lineVars, read_miss, saved>>

Request == [is_read : BOOLEAN, addr : Addr, wdata : Word, wstrb : SUBSET Lane]

\* The request on the wires; meaningful only while one is valid.
req_addr == IF proc_AR # None THEN proc_AR ELSE proc_AW.addr

is_request == ReadAccepted \/ WriteAccepted

Hit(a) == valid[a.index] /\ tag[a.index] = a.tag

\* "either we're not sending a response, or our response was accepted"; the
\* write response is not consulted.
can_send_new_response == proc_R = None \/ ReadReplyTaken

victim_addr(i) == [tag |-> tag[i], index |-> i]

\* A read request leaves WDATA and WSTRB to whatever the write channel holds;
\* nothing looks at them.
RequestOnWires ==
  IF proc_AR # None
  THEN [is_read |-> TRUE, addr |-> proc_AR, wdata |-> ZeroWord, wstrb |-> {}]
  ELSE [is_read |-> FALSE, addr |-> proc_AW.addr,
        wdata |-> proc_AW.wdata, wstrb |-> proc_AW.wstrb]

SetReadys(b) ==
  /\ proc_ARREADY' = b
  /\ proc_AWREADY' = b
  /\ proc_WREADY'  = b

\* Lines 434-440: a response the manager took is withdrawn.
\* The mutant keeps offering what was taken.
KeepWrite   == UNCHANGED proc_BVALID
RetireRead  == proc_R' = IF ReadReplyTaken THEN None ELSE proc_R
RetireWrite == proc_BVALID' = (proc_BVALID /\ ~WriteReplyTaken)

\* The line is dirty after a write that strobes some lane.
DirtyIfWholeWord(was, strb) == was \/ strb = Lane   \* mutant: only a full write
DirtyAfter(was, strb) == was \/ strb # {}

\* The READYs come back; after a hit only if the manager takes responses.
KeepReadys == UNCHANGED readyVars                   \* mutant: they stay low
RaiseReadys == SetReadys(TRUE)

HitReadys == SetReadys(proc_RREADY /\ proc_BREADY)

\* Requests to memory: of a fill, and of the writeback of line i.  The mutants
\* forget to raise VALID, or put the whole saved request on ARADDR.
RequestFillSilent(a) == UNCHANGED mem_AR /\ mem_RREADY' = TRUE
RequestFillWide(a) == mem_AR' = saved' /\ mem_RREADY' = TRUE
RequestFill(a) == mem_AR' = a /\ mem_RREADY' = TRUE

RequestWritebackSilent(i) == UNCHANGED mem_AW /\ mem_BREADY' = TRUE
RequestWriteback(i) ==
  /\ mem_AW' = [addr |-> victim_addr(i), wdata |-> data[i]]
  /\ mem_BREADY' = TRUE

\* A miss is remembered, with its kind.
RecordMiss == read_miss' = (proc_AR # None) /\ saved' = RequestOnWires

\* The line after the fill: a write miss merges its bytes into it.  The mutant
\* takes the written word whole, strobed or not.
FilledUnmerged == IF read_miss THEN mem_R ELSE saved.wdata
FilledWord == IF read_miss THEN mem_R ELSE Merge(mem_R, saved.wdata, saved.wstrb)

-----------------------------------------------------------------------------
\* Power-up contents of the lines, then the first reset edge.
CacheInit ==
  /\ current_state = AVAILABLE
  /\ data  = [i \in Index |-> ZeroWord]
  /\ tag   = [i \in Index |-> Tag0]
  /\ valid = [i \in Index |-> FALSE]
  /\ dirty = [i \in Index |-> FALSE]
  /\ read_miss = FALSE
  /\ saved = None
  /\ proc_ARREADY = TRUE /\ proc_AWREADY = TRUE /\ proc_WREADY = TRUE
  /\ proc_R = None /\ proc_BVALID = FALSE
  /\ mem_AR = None /\ mem_RREADY = FALSE
  /\ mem_AW = None /\ mem_BREADY = FALSE

\* ARESETn low at the edge: the lines survive.
CacheReset ==
  /\ current_state' = AVAILABLE
  /\ read_miss' = FALSE
  /\ saved' = None
  /\ SetReadys(TRUE)
  /\ proc_R' = None /\ proc_BVALID' = FALSE
  /\ mem_AR' = None /\ mem_RREADY' = FALSE
  /\ mem_AW' = None /\ mem_BREADY' = FALSE
  /\ UNCHANGED lineVars

-----------------------------------------------------------------------------
\* CACHE_AVAILABLE
ReadHit ==
  /\ current_state = AVAILABLE
  /\ ReadAccepted /\ Hit(proc_AR) /\ can_send_new_response
  /\ proc_R' = data[proc_AR.index]
  /\ RetireWrite
  /\ HitReadys
  /\ UNCHANGED <<cacheVars, memReqVars>>

WriteHit ==
  /\ current_state = AVAILABLE
  /\ WriteAccepted /\ proc_AR = None /\ Hit(proc_AW.addr) /\ can_send_new_response
  /\ LET i == proc_AW.addr.index IN
       /\ data'  = [data EXCEPT ![i] = Merge(@, proc_AW.wdata, proc_AW.wstrb)]
       /\ dirty' = [dirty EXCEPT ![i] = DirtyAfter(@, proc_AW.wstrb)]
  /\ proc_BVALID' = TRUE
  /\ RetireRead
  /\ HitReadys
  /\ UNCHANGED <<current_state, tag, valid, read_miss, saved, memReqVars>>

\* A hit while a read response is refused: keep the request for later.
BufferHit ==
  /\ current_state = AVAILABLE
  /\ is_request /\ Hit(req_addr) /\ ~can_send_new_response
  /\ saved' = RequestOnWires
  /\ current_state' = MANAGER_READY
  /\ HitReadys
  /\ UNCHANGED proc_R
  /\ IF WriteAccepted THEN UNCHANGED proc_BVALID ELSE RetireWrite
  /\ UNCHANGED <<lineVars, read_miss, memReqVars>>

\* What both kinds of miss do.
Miss ==
  /\ current_state = AVAILABLE
  /\ is_request /\ ~Hit(req_addr)
  /\ RecordMiss
  /\ SetReadys(FALSE)
  /\ RetireRead /\ RetireWrite
  /\ UNCHANGED lineVars

CleanMiss ==
  /\ Miss
  /\ ~dirty[req_addr.index]
  /\ RequestFill(req_addr)
  /\ current_state' = FILL
  /\ UNCHANGED <<mem_AW, mem_BREADY>>

DirtyMiss ==
  /\ Miss
  /\ dirty[req_addr.index]
  /\ RequestWriteback(req_addr.index)
  /\ current_state' = WRITEBACK
  /\ UNCHANGED <<mem_AR, mem_RREADY>>

Idle ==
  /\ current_state = AVAILABLE
  /\ ~is_request
  /\ RaiseReadys
  /\ RetireRead /\ RetireWrite
  /\ UNCHANGED <<cacheVars, memReqVars>>

-----------------------------------------------------------------------------
\* CACHE_AWAIT_MANAGER_READY
AwaitManager ==
  /\ current_state = MANAGER_READY /\ ~proc_RREADY
  /\ UNCHANGED <<cacheVars, readyVars, replyVars, memReqVars>>

AnswerBuffered ==
  /\ current_state = MANAGER_READY /\ proc_RREADY
  /\ proc_R' = data[saved.addr.index]
  /\ current_state' = AVAILABLE
  /\ UNCHANGED <<lineVars, read_miss, saved, readyVars, proc_BVALID, memReqVars>>

\* CACHE_AWAIT_FILL_RESPONSE.  The memory's ARREADY is always high, so the
\* request is withdrawn after one cycle.
AwaitFill ==
  /\ current_state = FILL /\ mem_R = None
  /\ mem_AR' = None
  /\ UNCHANGED <<cacheVars, readyVars, replyVars, mem_RREADY, mem_AW, mem_BREADY>>

FillDone ==
  /\ current_state = FILL /\ mem_R # None
  /\ LET i == saved.addr.index IN
       /\ valid' = [valid EXCEPT ![i] = TRUE]
       /\ tag'   = [tag EXCEPT ![i] = saved.addr.tag]
       /\ data'  = [data EXCEPT ![i] = FilledWord]
       /\ dirty' = [dirty EXCEPT ![i] = ~read_miss /\ DirtyAfter(FALSE, saved.wstrb)]
  /\ IF read_miss
     THEN proc_R' = mem_R /\ UNCHANGED proc_BVALID
     ELSE proc_BVALID' = TRUE /\ UNCHANGED proc_R
  /\ mem_AR' = None
  /\ mem_RREADY' = FALSE
  /\ current_state' = AVAILABLE
  /\ RaiseReadys
  /\ UNCHANGED <<read_miss, saved, mem_AW, mem_BREADY>>

\* CACHE_AWAIT_WRITEBACK_RESPONSE.  The memory's AWREADY is always high.
AwaitWriteback ==
  /\ current_state = WRITEBACK /\ ~mem_BVALID
  /\ mem_AW' = None
  /\ UNCHANGED <<cacheVars, readyVars, replyVars, mem_AR, mem_RREADY, mem_BREADY>>

WritebackDone ==
  /\ current_state = WRITEBACK /\ mem_BVALID
  /\ mem_AW' = None
  /\ RequestFill(saved.addr)
  /\ mem_BREADY' = FALSE
  /\ current_state' = FILL
  /\ UNCHANGED <<lineVars, read_miss, saved, readyVars, replyVars>>

CacheTick ==
  \/ ReadHit \/ WriteHit \/ BufferHit \/ CleanMiss \/ DirtyMiss \/ Idle
  \/ AwaitManager \/ AnswerBuffered
  \/ AwaitFill \/ FillDone \/ AwaitWriteback \/ WritebackDone

CacheTypeOK ==
  /\ current_state \in CacheState
  /\ data  \in [Index -> Word]
  /\ tag   \in [Index -> Tag]
  /\ valid \in [Index -> BOOLEAN]
  /\ dirty \in [Index -> BOOLEAN]
  /\ read_miss \in BOOLEAN
  /\ saved \in Request \cup {None}
=============================================================================
