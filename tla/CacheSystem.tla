---------------------------- MODULE CacheSystem ----------------------------
(***************************************************************************)
(* A manager, the AxilCache and the AxilMemory on one clock, as wired in   *)
(* hw6-cache/DatapathPipelinedCache.sv (Processor, lines 91-157).  A step  *)
(* is a rising edge: every component moves at once.                        *)
(***************************************************************************)
EXTENDS AxilCache, AxilMemory, Sequences

vars == <<procVars, memReqVars, memReplyVars, cacheVars, mem_array>>

Init == CacheInit /\ MemInit /\ AnyOffer

ClockEdge == CacheTick /\ MemTick /\ ManagerStep

ResetEdge == CacheReset /\ MemReset /\ ManagerReset

\* Any manager at all.
AnySpec == Init /\ [][ClockEdge \/ ResetEdge]_vars

(***************************************************************************)
(* The managers the cache serves.  The source says of its manager that it  *)
(* "will always be RREADY/BREADY" (line 166).  The tests go further, and   *)
(* not all of them get what they expect:                                   *)
(*   - RREADY low while reads of cached lines queue up                     *)
(*     (testbench_dmcache_hit.py, testLazyManager2): the cache serves it;  *)
(*   - RREADY low while a miss is accepted behind a refused hit            *)
(*     (testbench_dmcache_miss.py, testReadMissAfterWaitingHit): the cache *)
(*     withdraws a taken response only in CACHE_AVAILABLE (lines 434-440), *)
(*     so it offers the hit's again until the fill overwrites it, and      *)
(*     promises nothing (TakenReplyWithdrawn in MCCacheSystem);            *)
(*   - a write accepted behind a refused read response: it is dropped      *)
(*     (BufferedRequestIsRead there).                                      *)
(* So Contract is a condition on managers, and it excludes the last two:   *)
(* in a cycle in which a request is accepted every offered response is     *)
(* taken, or the request reads a cached line and at most one of the two    *)
(* responses is refused.                                                   *)
(***************************************************************************)
Contract ==
  is_request =>
    \/ ~ReadReplyRefused /\ ~WriteReplyRefused
    \/ /\ ReadAccepted /\ Hit(proc_AR)
       /\ ~ReadReplyRefused \/ ~WriteReplyRefused

Next == (ClockEdge \/ ResetEdge) /\ Contract'

Spec == Init /\ [][Next]_vars

\* The clock runs, and a manager eventually takes what it is offered.
Fairness ==
  /\ WF_vars(ClockEdge /\ Contract' /\ proc_RREADY')
  /\ WF_vars(ClockEdge /\ Contract' /\ proc_BREADY')

FairSpec == Spec /\ Fairness

-----------------------------------------------------------------------------
\* The refinement: what the atomic memory's state is, in this state.
Cached(a) == IF Hit(a) THEN data[a.index] ELSE mem_array[a]

Busy == current_state # AVAILABLE

ServingWrite == Busy /\ ~saved.is_read
ServingRead  == Busy /\ saved.is_read

AbsStore == [a \in Addr |-> Cached(a)]

AbsPend ==
  IF ServingWrite
  THEN [addr |-> saved.addr, wdata |-> saved.wdata, wstrb |-> saved.wstrb]
  ELSE None

\* The response on the wires, then the one being prepared.
Offered  == IF proc_R # None THEN <<proc_R>> ELSE <<>>
InFlight == IF ServingRead THEN <<Cached(saved.addr)>> ELSE <<>>
AbsOwedR == Offered \o InFlight

AbsOwedB == (IF proc_BVALID THEN 1 ELSE 0) + (IF ServingWrite THEN 1 ELSE 0)

Atomic == INSTANCE AtomicMemory WITH
  store <- AbsStore, pend <- AbsPend, owedR <- AbsOwedR, owedB <- AbsOwedB

\* The cache and its memory are an atomic memory to the manager: each accepted
\* request is answered once and in order, reads with the last value written,
\* and no write that took effect is lost by an eviction or a reset.
ImplementsAtomicMemory == Atomic!Spec

-----------------------------------------------------------------------------
\* Every variable has its type.
TypeOK ==
  /\ AxiTypeOK
  /\ MemTypeOK
  /\ CacheTypeOK
  /\ mem_array \in [Addr -> Word]

\* The three READYs, assigned by separate statements of five branches, agree,
\* and none is high while a request is being served: a handshake then would
\* be a request no branch looks at.
ReadysAgree ==
  /\ proc_ARREADY = proc_AWREADY
  /\ proc_ARREADY = proc_WREADY
  /\ Busy => ~proc_ARREADY

\* What Contract buys: no miss is outstanding behind an offered response, and
\* a buffered request is a read of a line still cached, behind an offered read
\* response.  Of other managers neither holds.
ReplySlotFree ==
  /\ current_state \in {FILL, WRITEBACK} => proc_R = None /\ ~proc_BVALID
  /\ current_state = MANAGER_READY =>
       proc_R # None /\ ~proc_BVALID /\ saved.is_read /\ Hit(saved.addr)

\* The request being served is saved, and it is a miss while memory is used.
SavedIsServed ==
  /\ Busy => saved \in Request
  /\ current_state \in {FILL, WRITEBACK} =>
       ~Hit(saved.addr) /\ read_miss = saved.is_read

\* A line that is not dirty is what memory holds, and only a valid line is
\* dirty, so evicting a line without a writeback, or writing one back, loses
\* nothing.  While a fill is awaited the victim is already safe.
LinesCoherent ==
  /\ \A i \in Index : dirty[i] => valid[i]
  /\ \A i \in Index : valid[i] /\ ~dirty[i] => data[i] = mem_array[victim_addr(i)]
  /\ current_state = FILL =>
       LET i == saved.addr.index IN valid[i] => data[i] = mem_array[victim_addr(i)]

\* Cache and memory keep step.  The memory offers a response for one cycle and
\* does not look at RREADY or BREADY (lines 166-167), so the cache must be
\* waiting for it in that very cycle, and a BVALID left over from power-up or
\* from before a reset must be gone before a writeback can be answered.
MemoryInStep ==
  /\ mem_RREADY <=> current_state = FILL
  /\ mem_BREADY <=> current_state = WRITEBACK
  /\ current_state \in {AVAILABLE, MANAGER_READY} =>
       mem_AR = None /\ mem_AW = None /\ mem_R = None
  /\ current_state = FILL =>
       /\ mem_AW = None /\ ~mem_BVALID
       /\ mem_AR = IF mem_R = None THEN saved.addr ELSE None
       /\ mem_R \in {None, mem_array[saved.addr]}
  /\ current_state = WRITEBACK =>
       LET i == saved.addr.index IN
         /\ mem_AR = None /\ mem_R = None
         /\ dirty[i]
         /\ mem_AW = IF mem_BVALID THEN None
                     ELSE [addr |-> victim_addr(i), wdata |-> data[i]]
         /\ mem_BVALID => mem_array[victim_addr(i)] = data[i]

PartsTypeOK ==
  /\ AnyRequest /\ ReplyTypeOK /\ MemTypeOK /\ CacheTypeOK
  /\ mem_array \in [Addr -> Word]

\* Of cache and memory whoever the manager is, as long as the wires carry
\* requests at all: inductive without Contract.
AnyInv ==
  /\ PartsTypeOK
  /\ ReadysAgree
  /\ SavedIsServed
  /\ LinesCoherent
  /\ MemoryInStep

\* What Contract adds to it.
CacheInv == AnyInv /\ Contract /\ ReplySlotFree

\* The inductive invariant of Spec.
IInv == AnyOffer /\ CacheInv
=============================================================================
