---------------------------- MODULE CacheProofs ----------------------------
(***************************************************************************)
(* Proofs about CacheSystem for every number of sets and tags and every    *)
(* word size.  First what no manager can break: AnyInv is inductive, and   *)
(* one lemma per branch of the cache's clocked process shows that the      *)
(* branch, together with the memory and the manager, preserves it.  Then   *)
(* what the contract adds: the registers of the responses are free.  Then  *)
(* the refinement: under the contract CacheSystem implements AtomicMemory, *)
(* where the store is the coherent view of lines and memory, the pending   *)
(* write is the write miss being served, and the owed read values are the  *)
(* one on the wires followed by the one being fetched or buffered.  Last,  *)
(* a manager of OneAtATime keeps the contract, so that it gets all of this *)
(* from the cache alone.                                                   *)
(***************************************************************************)
EXTENDS CacheSystem, OneAtATime, SequenceTheorems, TLAPS

\* The names of the cache's states are distinct, and a tuple of unchanged
\* variables is unfolded, in every proof.
USE DEF AVAILABLE, FILL, WRITEBACK, MANAGER_READY,
        cacheVars, lineVars, memReqVars, memReplyVars, readyVars, replyVars,
        SetReadys, RaiseReadys, RequestFill, RequestWriteback, RecordMiss, FilledWord, DirtyAfter

-----------------------------------------------------------------------------
\* The signals of a request have the types of its fields.
LEMMA WireTypes ==
  ASSUME PartsTypeOK, is_request
  PROVE  /\ req_addr \in Addr
         /\ req_addr.index \in Index
         /\ req_addr.tag \in Tag
         /\ RequestOnWires \in Request
         /\ RequestOnWires.addr = req_addr
         /\ RequestOnWires.is_read <=> proc_AR # None
         /\ proc_AR # None => req_addr = proc_AR /\ ReadAccepted /\ ~WriteAccepted
         /\ proc_AR = None => req_addr = proc_AW.addr /\ proc_AW \in WriteRequest /\ WriteAccepted
<1>1. proc_AR # None => proc_AR \in Addr /\ ReadAccepted /\ ~WriteAccepted
  BY DEF PartsTypeOK, AnyRequest, ReplyTypeOK, is_request, ReadAccepted, WriteAccepted
<1>2. proc_AR = None => proc_AW \in WriteRequest /\ WriteAccepted
  BY DEF PartsTypeOK, AnyRequest, ReplyTypeOK, is_request, ReadAccepted, WriteAccepted
<1>3. ZeroWord \in Word
  BY ZeroAssumption DEF ZeroWord, Word
<1> QED
  BY <1>1, <1>2, <1>3 DEF req_addr, RequestOnWires, Request, WriteRequest, Addr

\* A merged word is a word.
LEMMA MergeType ==
  ASSUME NEW old \in Word, NEW new \in Word, NEW strb
  PROVE  Merge(old, new, strb) \in Word
  BY DEF Merge, Word

\* Whatever the manager does, it offers requests it may issue, one at a time.
LEMMA ManagerOffers ==
  ASSUME AnyOffer, ManagerStep \/ ManagerReset
  PROVE  AnyOffer' /\ AnyRequest'
<1>1. AnyOffer'
  BY DEF AnyOffer, ManagerStep, ManagerReset
<1> QED
  BY <1>1, RequestAssumption DEF AnyOffer, AnyRequest

\* What a step leaves of the memory's side of the type invariant.
LEMMA MemoryTypes ==
  ASSUME PartsTypeOK, MemTick
  PROVE  /\ mem_array' \in [Addr -> Word]
         /\ mem_R' \in Word \cup {None}
         /\ mem_BVALID' \in BOOLEAN
  BY DEF PartsTypeOK, MemTypeOK, MemTick, MemRead, MemWrite, Writeback

\* A read of a cached line is answered from the line.
LEMMA ReadHitKeeps ==
  ASSUME AnyInv, ReadHit, MemTick, AnyRequest'
  PROVE  AnyInv'
<1> USE DEF AnyInv, ReadHit
<1>1. PartsTypeOK'
  BY MemoryTypes DEF HitReadys, RetireWrite, WriteReplyTaken, ReadAccepted, Addr, PartsTypeOK, AnyRequest, ReplyTypeOK, MemTypeOK, CacheTypeOK
<1>2. ReadysAgree'
  BY DEF ReadysAgree, Busy, HitReadys
<1>3. SavedIsServed'
  BY DEF SavedIsServed, Busy, Hit
<1>4. LinesCoherent'
  BY DEF LinesCoherent, MemoryInStep, victim_addr, MemTick, MemRead, MemWrite
<1>5. MemoryInStep'
  BY DEF MemoryInStep, MemTick, MemRead, MemWrite
<1> QED
  BY <1>1, <1>2, <1>3, <1>4, <1>5

\* A write of a cached line dirties the line if it strobes a lane.
LEMMA WriteHitKeeps ==
  ASSUME AnyInv, WriteHit, MemTick, AnyRequest'
  PROVE  AnyInv'
<1> USE DEF AnyInv, WriteHit
<1>a. proc_AW.addr.index \in Index /\ proc_AW.wdata \in Word
  BY DEF PartsTypeOK, AnyRequest, ReplyTypeOK, WriteAccepted, WriteRequest, Addr
<1>b. proc_AW.wstrb = {} => Merge(data[proc_AW.addr.index], proc_AW.wdata, proc_AW.wstrb) = data[proc_AW.addr.index]
  BY <1>a DEF Merge, PartsTypeOK, CacheTypeOK, Word
<1>1. PartsTypeOK'
  BY <1>a, MemoryTypes, MergeType DEF HitReadys, RetireRead, PartsTypeOK, AnyRequest, ReplyTypeOK, MemTypeOK, CacheTypeOK
<1>2. ReadysAgree'
  BY DEF ReadysAgree, Busy, HitReadys
<1>3. SavedIsServed'
  BY DEF SavedIsServed, Busy, Hit
<1>4. LinesCoherent'
  BY <1>a, <1>b DEF LinesCoherent, MemoryInStep, Hit, victim_addr, PartsTypeOK, CacheTypeOK, MemTick, MemRead, MemWrite
<1>5. MemoryInStep'
  BY DEF MemoryInStep, MemTick, MemRead, MemWrite
<1> QED
  BY <1>1, <1>2, <1>3, <1>4, <1>5

\* A request for a cached line is buffered, a write too.
LEMMA BufferHitKeeps ==
  ASSUME AnyInv, BufferHit, MemTick, AnyRequest'
  PROVE  AnyInv'
<1> USE DEF AnyInv, BufferHit
<1>a. is_request /\ saved' = RequestOnWires /\ RequestOnWires \in Request /\ RequestOnWires.addr = req_addr
  BY WireTypes
<1>b. ReadReplyRefused
  BY DEF can_send_new_response, ReadReplyRefused, ReadReplyTaken
<1>1. PartsTypeOK'
  BY <1>a, MemoryTypes DEF HitReadys, RetireWrite, CacheState, PartsTypeOK, AnyRequest, ReplyTypeOK, MemTypeOK, CacheTypeOK
<1>2. ReadysAgree'
  BY <1>b DEF ReadysAgree, Busy, HitReadys, ReadReplyRefused
<1>3. SavedIsServed'
  BY <1>a DEF SavedIsServed, Busy, Hit
<1>4. LinesCoherent'
  BY DEF LinesCoherent, MemoryInStep, victim_addr, MemTick, MemRead, MemWrite
<1>5. MemoryInStep'
  BY DEF MemoryInStep, MemTick, MemRead, MemWrite
<1> QED
  BY <1>1, <1>2, <1>3, <1>4, <1>5

\* A miss on a line that is not dirty asks memory for the fill.
LEMMA CleanMissKeeps ==
  ASSUME AnyInv, CleanMiss, MemTick, AnyRequest'
  PROVE  AnyInv'
<1> USE DEF AnyInv, CleanMiss
<1>a. is_request /\ saved' = RequestOnWires /\ RequestOnWires \in Request /\ RequestOnWires.addr = req_addr /\ (RequestOnWires.is_read <=> proc_AR # None)
  BY WireTypes DEF Miss
<1>b. req_addr \in Addr /\ req_addr.index \in Index /\ ~Hit(req_addr)
  BY <1>a, WireTypes DEF Miss
<1>1. PartsTypeOK'
  BY <1>a, <1>b, MemoryTypes DEF Miss, RetireRead, RetireWrite, CacheState, Writeback, victim_addr, Addr, PartsTypeOK, AnyRequest, ReplyTypeOK, MemTypeOK, CacheTypeOK
<1>2. ReadysAgree'
  BY DEF ReadysAgree, Busy, Miss
<1>3. SavedIsServed'
  BY <1>a, <1>b DEF SavedIsServed, Busy, Miss, Hit, Request
<1>4. LinesCoherent'
  BY <1>a, <1>b DEF LinesCoherent, MemoryInStep, Miss, victim_addr, MemTick, MemRead, MemWrite
<1>5. MemoryInStep'
  BY <1>a, <1>b, NoneAssumption, WritebackAssumption DEF MemoryInStep, Miss, victim_addr, PartsTypeOK, MemTypeOK, MemTick, MemRead, MemWrite
<1> QED
  BY <1>1, <1>2, <1>3, <1>4, <1>5

\* A miss on a dirty line writes it back first.
LEMMA DirtyMissKeeps ==
  ASSUME AnyInv, DirtyMiss, MemTick, AnyRequest'
  PROVE  AnyInv'
<1> USE DEF AnyInv, DirtyMiss
<1>a. is_request /\ saved' = RequestOnWires /\ RequestOnWires \in Request /\ RequestOnWires.addr = req_addr /\ (RequestOnWires.is_read <=> proc_AR # None)
  BY WireTypes DEF Miss
<1>b. req_addr \in Addr /\ req_addr.index \in Index /\ ~Hit(req_addr)
  BY <1>a, WireTypes DEF Miss
<1>1. PartsTypeOK'
  BY <1>a, <1>b, MemoryTypes DEF Miss, RetireRead, RetireWrite, CacheState, Writeback, victim_addr, Addr, PartsTypeOK, AnyRequest, ReplyTypeOK, MemTypeOK, CacheTypeOK
<1>2. ReadysAgree'
  BY DEF ReadysAgree, Busy, Miss
<1>3. SavedIsServed'
  BY <1>a, <1>b DEF SavedIsServed, Busy, Miss, Hit, Request
<1>4. LinesCoherent'
  BY <1>a, <1>b DEF LinesCoherent, MemoryInStep, Miss, victim_addr, MemTick, MemRead, MemWrite
<1>5. MemoryInStep'
  BY <1>a, <1>b, NoneAssumption, WritebackAssumption DEF MemoryInStep, Miss, victim_addr, PartsTypeOK, MemTypeOK, MemTick, MemRead, MemWrite
<1> QED
  BY <1>1, <1>2, <1>3, <1>4, <1>5

\* A cycle without a request only retires what was taken.
LEMMA IdleKeeps ==
  ASSUME AnyInv, Idle, MemTick, AnyRequest'
  PROVE  AnyInv'
<1> USE DEF AnyInv, Idle
<1>1. PartsTypeOK'
  BY MemoryTypes DEF RetireRead, RetireWrite, PartsTypeOK, AnyRequest, ReplyTypeOK, MemTypeOK, CacheTypeOK
<1>2. ReadysAgree'
  BY DEF ReadysAgree, Busy
<1>3. SavedIsServed'
  BY DEF SavedIsServed, Busy, Hit
<1>4. LinesCoherent'
  BY DEF LinesCoherent, MemoryInStep, victim_addr, MemTick, MemRead, MemWrite
<1>5. MemoryInStep'
  BY DEF MemoryInStep, MemTick, MemRead, MemWrite
<1> QED
  BY <1>1, <1>2, <1>3, <1>4, <1>5

\* A buffered read waits for RREADY.
LEMMA AwaitManagerKeeps ==
  ASSUME AnyInv, AwaitManager, MemTick, AnyRequest'
  PROVE  AnyInv'
<1> USE DEF AnyInv, AwaitManager
<1>1. PartsTypeOK'
  BY MemoryTypes DEF PartsTypeOK, AnyRequest, ReplyTypeOK, MemTypeOK, CacheTypeOK
<1>2. ReadysAgree'
  BY DEF ReadysAgree, Busy
<1>3. SavedIsServed'
  BY DEF SavedIsServed, Busy, Hit
<1>4. LinesCoherent'
  BY DEF LinesCoherent, MemoryInStep, victim_addr, MemTick, MemRead, MemWrite
<1>5. MemoryInStep'
  BY DEF MemoryInStep, MemTick, MemRead, MemWrite
<1> QED
  BY <1>1, <1>2, <1>3, <1>4, <1>5

\* The buffered read is answered from its line, which is still cached.
LEMMA AnswerBufferedKeeps ==
  ASSUME AnyInv, AnswerBuffered, MemTick, AnyRequest'
  PROVE  AnyInv'
<1> USE DEF AnyInv, AnswerBuffered
<1>1. PartsTypeOK'
  BY MemoryTypes DEF SavedIsServed, Busy, Request, Addr, CacheState, PartsTypeOK, AnyRequest, ReplyTypeOK, MemTypeOK, CacheTypeOK
<1>2. ReadysAgree'
  BY DEF ReadysAgree, Busy
<1>3. SavedIsServed'
  BY DEF SavedIsServed, Busy, Hit
<1>4. LinesCoherent'
  BY DEF LinesCoherent, MemoryInStep, victim_addr, MemTick, MemRead, MemWrite
<1>5. MemoryInStep'
  BY DEF MemoryInStep, MemTick, MemRead, MemWrite
<1> QED
  BY <1>1, <1>2, <1>3, <1>4, <1>5

\* The fill request is withdrawn and the memory answers it.
LEMMA AwaitFillKeeps ==
  ASSUME AnyInv, AwaitFill, MemTick, AnyRequest'
  PROVE  AnyInv'
<1> USE DEF AnyInv, AwaitFill
<1>a. saved.addr \in Addr
  BY DEF SavedIsServed, Busy, Request
<1>1. PartsTypeOK'
  BY MemoryTypes DEF PartsTypeOK, AnyRequest, ReplyTypeOK, MemTypeOK, CacheTypeOK
<1>2. ReadysAgree'
  BY DEF ReadysAgree, Busy
<1>3. SavedIsServed'
  BY DEF SavedIsServed, Busy, Hit
<1>4. LinesCoherent'
  BY DEF LinesCoherent, MemoryInStep, victim_addr, MemTick, MemRead, MemWrite
<1>5. MemoryInStep'
  BY <1>a, NoneAssumption DEF MemoryInStep, PartsTypeOK, MemTick, MemRead, MemWrite
<1> QED
  BY <1>1, <1>2, <1>3, <1>4, <1>5

\* The line is replaced; a write miss merges its bytes into it.
LEMMA FillDoneKeeps ==
  ASSUME AnyInv, FillDone, MemTick, AnyRequest'
  PROVE  AnyInv'
<1> USE DEF AnyInv, FillDone
<1>a. saved \in Request /\ saved.addr \in Addr /\ saved.addr.index \in Index
  BY DEF SavedIsServed, Busy, Request, Addr
<1>b. mem_R \in Word /\ mem_R = mem_array[saved.addr] /\ mem_array' = mem_array
  BY DEF PartsTypeOK, MemTypeOK, MemoryInStep, MemTick, MemRead, MemWrite
<1>c. [tag |-> saved.addr.tag, index |-> saved.addr.index] = saved.addr
  BY <1>a DEF Addr
<1>d. saved.wstrb = {} => Merge(mem_R, saved.wdata, saved.wstrb) = mem_R
  BY <1>b DEF Merge, Word
<1>1. PartsTypeOK'
  <2>1. data' \in [Index -> Word]
    BY <1>a, <1>b, MergeType DEF Request, PartsTypeOK, CacheTypeOK
  <2>2. valid' \in [Index -> BOOLEAN] /\ tag' \in [Index -> Tag] /\ dirty' \in [Index -> BOOLEAN]
    BY <1>a DEF Addr, PartsTypeOK, CacheTypeOK
  <2>3. proc_R' \in Word \cup {None} /\ proc_BVALID' \in BOOLEAN
    BY <1>b DEF PartsTypeOK, AnyRequest, ReplyTypeOK
  <2> QED
    BY <2>1, <2>2, <2>3, MemoryTypes DEF CacheState, PartsTypeOK, AnyRequest, ReplyTypeOK, MemTypeOK, CacheTypeOK
<1>2. ReadysAgree'
  BY DEF ReadysAgree, Busy
<1>3. SavedIsServed'
  BY DEF SavedIsServed, Busy, Hit
<1>4. LinesCoherent'
  <2>1. ASSUME NEW i \in Index, i # saved.addr.index
        PROVE  data'[i] = data[i] /\ tag'[i] = tag[i] /\ (valid'[i] <=> valid[i]) /\ (dirty'[i] <=> dirty[i])
    BY <2>1, <1>a DEF PartsTypeOK, CacheTypeOK
  <2>2. LET i == saved.addr.index IN
          valid'[i] /\ tag'[i] = saved.addr.tag /\ (~dirty'[i] => data'[i] = mem_R)
    BY <1>a, <1>d DEF PartsTypeOK, CacheTypeOK
  <2> QED
    BY <1>a, <1>b, <1>c, <2>1, <2>2 DEF LinesCoherent, victim_addr
<1>5. MemoryInStep'
  BY DEF MemoryInStep, MemTick, MemRead, MemWrite
<1> QED
  BY <1>1, <1>2, <1>3, <1>4, <1>5

\* The memory takes the victim.
LEMMA AwaitWritebackKeeps ==
  ASSUME AnyInv, AwaitWriteback, MemTick, AnyRequest'
  PROVE  AnyInv'
<1> USE DEF AnyInv, AwaitWriteback
<1>a. saved.addr.index \in Index
  BY DEF SavedIsServed, Busy, Request, Addr
<1>b. mem_AW = [addr |-> victim_addr(saved.addr.index), wdata |-> data[saved.addr.index]] /\ mem_AW # None
  BY <1>a, WritebackAssumption DEF MemoryInStep, PartsTypeOK, MemTypeOK, CacheTypeOK, victim_addr, Addr, Writeback
<1>c. victim_addr(saved.addr.index) \in Addr
  BY <1>a DEF PartsTypeOK, CacheTypeOK, victim_addr, Addr
<1>d. mem_BVALID' /\ mem_R' = None /\ mem_array' = [mem_array EXCEPT ![victim_addr(saved.addr.index)] = data[saved.addr.index]]
  BY <1>b DEF MemoryInStep, MemTick, MemRead, MemWrite
<1>1. PartsTypeOK'
  BY MemoryTypes DEF PartsTypeOK, AnyRequest, ReplyTypeOK, MemTypeOK, CacheTypeOK
<1>2. ReadysAgree'
  BY DEF ReadysAgree, Busy
<1>3. SavedIsServed'
  BY DEF SavedIsServed, Busy, Hit
<1>4. LinesCoherent'
  BY <1>a, <1>c, <1>d DEF LinesCoherent, MemoryInStep, victim_addr, PartsTypeOK, CacheTypeOK
<1>5. MemoryInStep'
  BY <1>a, <1>c, <1>d DEF MemoryInStep, victim_addr, PartsTypeOK
<1> QED
  BY <1>1, <1>2, <1>3, <1>4, <1>5

\* The victim is in memory; the fill is requested.
LEMMA WritebackDoneKeeps ==
  ASSUME AnyInv, WritebackDone, MemTick, AnyRequest'
  PROVE  AnyInv'
<1> USE DEF AnyInv, WritebackDone
<1>a. saved.addr \in Addr /\ saved.addr.index \in Index
  BY DEF SavedIsServed, Busy, Request, Addr
<1>1. PartsTypeOK'
  BY <1>a, MemoryTypes DEF CacheState, PartsTypeOK, AnyRequest, ReplyTypeOK, MemTypeOK, CacheTypeOK
<1>2. ReadysAgree'
  BY DEF ReadysAgree, Busy
<1>3. SavedIsServed'
  BY DEF SavedIsServed, Busy, Hit
<1>4. LinesCoherent'
  BY <1>a DEF LinesCoherent, MemoryInStep, victim_addr, MemTick, MemRead, MemWrite
<1>5. MemoryInStep'
  BY <1>a, NoneAssumption DEF MemoryInStep, MemTick, MemRead, MemWrite
<1> QED
  BY <1>1, <1>2, <1>3, <1>4, <1>5

\* Reset forgets the request and the replies; the lines and memory agree as
\* they did.
LEMMA ResetKeeps ==
  ASSUME AnyInv, CacheReset, MemReset, AnyRequest'
  PROVE  AnyInv'
<1> USE DEF AnyInv, CacheReset, MemReset
<1>1. PartsTypeOK'
  BY DEF CacheState, PartsTypeOK, AnyRequest, ReplyTypeOK, MemTypeOK, CacheTypeOK
<1>2. ReadysAgree'
  BY DEF ReadysAgree, Busy
<1>3. SavedIsServed'
  BY DEF SavedIsServed, Busy
<1>4. LinesCoherent'
  BY DEF LinesCoherent, victim_addr
<1>5. MemoryInStep'
  BY DEF MemoryInStep
<1> QED
  BY <1>1, <1>2, <1>3, <1>4, <1>5

\* Nothing moves.
LEMMA StutterAny ==
  ASSUME AnyInv, UNCHANGED vars
  PROVE  AnyInv'
<1> USE DEF vars, procVars, managerVars
<1>1. PartsTypeOK'
  BY DEF AnyInv, PartsTypeOK, AnyRequest, ReplyTypeOK, MemTypeOK, CacheTypeOK
<1>2. ReadysAgree' /\ SavedIsServed'
  BY DEF AnyInv, ReadysAgree, SavedIsServed, Busy, Hit
<1>3. LinesCoherent' /\ MemoryInStep'
  BY DEF AnyInv, LinesCoherent, MemoryInStep, victim_addr
<1> QED
  BY <1>1, <1>2, <1>3 DEF AnyInv

\* After the first reset edge, whatever is on the wires.
LEMMA CacheInitAny ==
  ASSUME CacheInit, MemInit, AnyRequest
  PROVE  AnyInv
<1> USE DEF CacheInit, MemInit
<1>1. PartsTypeOK
  BY ZeroAssumption, ImagesAssumption
     DEF PartsTypeOK, ReplyTypeOK, MemTypeOK, CacheTypeOK, CacheState, ZeroWord, Word
<1>2. ReadysAgree /\ SavedIsServed
  BY DEF ReadysAgree, SavedIsServed, Busy
<1>3. LinesCoherent /\ MemoryInStep
  BY DEF LinesCoherent, MemoryInStep
<1> QED
  BY <1>1, <1>2, <1>3 DEF AnyInv

\* An edge of cache and memory, with whatever requests follow.
LEMMA TickAny ==
  ASSUME AnyInv, CacheTick, MemTick, AnyRequest'
  PROVE  AnyInv'
  BY ReadHitKeeps, WriteHitKeeps, BufferHitKeeps, CleanMissKeeps,
     DirtyMissKeeps, IdleKeeps, AwaitManagerKeeps, AnswerBufferedKeeps,
     AwaitFillKeeps, FillDoneKeeps, AwaitWritebackKeeps, WritebackDoneKeeps
     DEF CacheTick

\* Every edge keeps the part of the invariant that no manager can break.
LEMMA StepAny ==
  ASSUME AnyOffer, AnyInv, [ClockEdge \/ ResetEdge]_vars
  PROVE  AnyOffer' /\ AnyInv'
<1>1. CASE ClockEdge
  BY <1>1, ManagerOffers, TickAny DEF ClockEdge
<1>2. CASE ResetEdge
  BY <1>2, ManagerOffers, ResetKeeps DEF ResetEdge
<1>3. CASE UNCHANGED vars
  BY <1>3, StutterAny DEF AnyOffer, vars, procVars, managerVars
<1> QED
  BY <1>1, <1>2, <1>3

\* It holds after power-up.
LEMMA InitAny == Init => AnyOffer /\ AnyInv
<1>1. AnyOffer => AnyRequest
  BY RequestAssumption DEF AnyOffer, AnyRequest
<1> QED
  BY <1>1, CacheInitAny DEF Init

\* The invariant of cache and memory under every manager whatever.
THEOREM AnyInvariance == AnySpec => [](AnyOffer /\ AnyInv)
<1>1. AnyOffer /\ AnyInv /\ [ClockEdge \/ ResetEdge]_vars => AnyOffer' /\ AnyInv'
  BY StepAny
<1> QED
  BY <1>1, InitAny, PTL DEF AnySpec

\* Every variable of manager, cache and memory keeps its type.
THEOREM TypeCorrect == AnySpec => []TypeOK
<1>1. AnyOffer /\ AnyInv => TypeOK
  BY DEF AnyInv, PartsTypeOK, AnyRequest, AnyOffer, TypeOK, AxiTypeOK
<1> QED
  BY <1>1, AnyInvariance, PTL

\* No eviction, fill, write or reset leaves a clean line differing from memory,
\* not even under a manager that breaks the contract.
THEOREM Coherence == AnySpec => []LinesCoherent
<1>1. AnyInv => LinesCoherent
  BY DEF AnyInv
<1> QED
  BY <1>1, AnyInvariance, PTL

\* The memory's one-cycle responses always find the cache waiting for them,
\* whatever the manager does with its own.
THEOREM InStepWithMemory == AnySpec => []MemoryInStep
<1>1. AnyInv => MemoryInStep
  BY DEF AnyInv
<1> QED
  BY <1>1, AnyInvariance, PTL

-----------------------------------------------------------------------------
\* Under the contract a miss finds both response registers free, or being
\* freed, and only a read of a cached line is buffered.
LEMMA SlotKept ==
  ASSUME CacheInv, CacheTick
  PROVE  ReplySlotFree'
<1> USE DEF CacheInv, AnyInv
<1>1. CASE ReadHit \/ WriteHit \/ Idle \/ AnswerBuffered \/ FillDone
  BY <1>1 DEF ReplySlotFree, ReadHit, WriteHit, Idle, AnswerBuffered, FillDone
<1>2. CASE BufferHit
  <2>1. is_request /\ saved' = RequestOnWires /\ RequestOnWires.addr = req_addr
    BY <1>2, WireTypes DEF BufferHit
  <2>2. ReadReplyRefused
    BY <1>2 DEF BufferHit, can_send_new_response, ReadReplyRefused, ReadReplyTaken
  <2>3. ~WriteReplyRefused /\ RequestOnWires.is_read /\ Hit(req_addr) /\ ~WriteAccepted
    BY <2>1, <2>2, WireTypes DEF Contract, ReadAccepted
  <2> QED
    BY <1>2, <2>1, <2>2, <2>3 DEF ReplySlotFree, BufferHit, ReadReplyRefused, WriteReplyRefused,
       RetireWrite, WriteReplyTaken, Hit
<1>3. CASE CleanMiss \/ DirtyMiss
  <2>1. is_request /\ ~Hit(req_addr)
    BY <1>3 DEF CleanMiss, DirtyMiss, Miss
  <2>2. ~ReadReplyRefused /\ ~WriteReplyRefused
    BY <2>1, WireTypes DEF Contract, ReadAccepted
  <2> QED
    BY <1>3, <2>2 DEF ReplySlotFree, CleanMiss, DirtyMiss, Miss, RetireRead, RetireWrite,
       ReadReplyRefused, WriteReplyRefused, ReadReplyTaken, WriteReplyTaken
<1>4. CASE AwaitManager \/ AwaitFill \/ AwaitWriteback \/ WritebackDone
  BY <1>4 DEF ReplySlotFree, AwaitManager, AwaitFill, AwaitWriteback, WritebackDone, Hit
<1> QED
  BY <1>1, <1>2, <1>3, <1>4 DEF CacheTick

\* An edge of cache and memory, if the next cycle keeps the contract.
LEMMA TickKeeps ==
  ASSUME CacheInv, CacheTick, MemTick, AnyRequest', Contract'
  PROVE  CacheInv'
  BY TickAny, SlotKept DEF CacheInv

\* A reset ends what was outstanding.
LEMMA ResetKeepsAll ==
  ASSUME AnyInv, CacheReset, MemReset, AnyRequest', Contract'
  PROVE  CacheInv'
<1>1. ReplySlotFree'
  BY DEF ReplySlotFree, CacheReset
<1> QED
  BY <1>1, ResetKeeps DEF CacheInv

\* Nothing moves.
LEMMA StutterKeeps ==
  ASSUME CacheInv, UNCHANGED vars
  PROVE  CacheInv'
<1> USE DEF vars, procVars, managerVars
<1>1. Contract'
  BY DEF CacheInv, Contract, is_request, ReadAccepted, WriteAccepted,
         ReadReplyRefused, WriteReplyRefused, Hit
<1>2. ReplySlotFree'
  BY DEF CacheInv, ReplySlotFree, Hit
<1> QED
  BY <1>1, <1>2, StutterAny DEF CacheInv

\* After the first reset edge nothing is offered that could be refused.
LEMMA CacheInitInv ==
  ASSUME CacheInit, MemInit, AnyRequest
  PROVE  CacheInv
<1>1. Contract /\ ReplySlotFree
  BY DEF CacheInit, Contract, ReadReplyRefused, WriteReplyRefused, ReplySlotFree
<1> QED
  BY <1>1, CacheInitAny DEF CacheInv

\* The invariant holds after power-up.
LEMMA InitInv == Init => IInv
<1>1. AnyOffer => AnyRequest
  BY RequestAssumption DEF AnyOffer, AnyRequest
<1> QED
  BY <1>1, CacheInitInv DEF Init, IInv

\* Every edge keeps the invariant.
LEMMA StepInv == IInv /\ [Next]_vars => IInv'
<1> SUFFICES ASSUME IInv, [Next]_vars PROVE IInv'
  OBVIOUS
<1>1. CASE ClockEdge /\ Contract'
  <2>1. AnyOffer' /\ AnyRequest'
    BY <1>1, ManagerOffers DEF IInv, ClockEdge
  <2> QED
    BY <1>1, <2>1, TickKeeps DEF IInv, ClockEdge
<1>2. CASE ResetEdge /\ Contract'
  <2>1. AnyOffer' /\ AnyRequest'
    BY <1>2, ManagerOffers DEF IInv, ResetEdge
  <2> QED
    BY <1>2, <2>1, ResetKeepsAll DEF IInv, CacheInv, ResetEdge
<1>3. CASE UNCHANGED vars
  <2>1. AnyOffer'
    BY <1>3 DEF IInv, AnyOffer, vars, procVars, managerVars
  <2> QED
    BY <1>3, <2>1, StutterKeeps DEF IInv
<1> QED
  BY <1>1, <1>2, <1>3 DEF Next

\* The invariant of the composed system under the contract.
THEOREM Invariance == Spec => []IInv
  BY InitInv, StepInv, PTL DEF Spec

-----------------------------------------------------------------------------
\* Sequences of at most two owed values.
LEMMA PairConcat ==
  ASSUME NEW a, NEW b
  PROVE  <<a>> \o <<b>> = <<a, b>>
<1> DEFINE S == {a, b}
<1>1. <<a>> \in Seq(S) /\ <<b>> \in Seq(S) /\ <<a, b>> \in Seq(S)
  OBVIOUS
<1>2. <<a>> \o <<b>> \in Seq(S) /\ Len(<<a>> \o <<b>>) = 2
  BY <1>1, ConcatProperties
<1>3. (<<a>> \o <<b>>)[1] = a /\ (<<a>> \o <<b>>)[2] = b
  BY <1>1
<1>4. \A i \in 1 .. Len(<<a>> \o <<b>>) : (<<a>> \o <<b>>)[i] = <<a, b>>[i]
  <2>1. ASSUME NEW i \in 1 .. 2 PROVE (<<a>> \o <<b>>)[i] = <<a, b>>[i]
    <3>1. i = 1 \/ i = 2
      BY <2>1
    <3> QED
      BY <3>1, <1>3
  <2> QED
    BY <2>1, <1>2
<1>5. Len(<<a, b>>) = 2
  OBVIOUS
<1> HIDE DEF S
<1> QED
  BY <1>1, <1>2, <1>4, <1>5, SeqEqual

\* At most two responses are owed: the sequences that occur.
LEMMA OwedSequences ==
  ASSUME NEW a, NEW b
  PROVE  /\ <<>> \o <<>> = <<>> /\ <<a>> \o <<>> = <<a>> /\ <<>> \o <<a>> = <<a>>
         /\ <<a>> # <<>> /\ Head(<<a>>) = a /\ Tail(<<a>>) = <<>>
         /\ <<a>> \o <<b>> # <<>> /\ Head(<<a>> \o <<b>>) = a
         /\ Tail(<<a>> \o <<b>>) = <<b>>
<1>1. /\ <<>> \o <<>> = <<>> /\ <<a>> \o <<>> = <<a>> /\ <<>> \o <<a>> = <<a>>
      /\ <<a>> # <<>> /\ Head(<<a>>) = a
  OBVIOUS
<1>2. Tail(<<a>>) = <<>>
  OBVIOUS
<1>3. <<a, b>> # <<>> /\ Head(<<a, b>>) = a
  OBVIOUS
<1>4. Tail(<<a, b>>) = <<b>>
  OBVIOUS
<1> QED
  BY <1>1, <1>2, <1>3, <1>4, PairConcat

\* Without a change to a line, no step of the memory changes the view: the
\* only write it performs is of a line that the cache still holds.
LEMMA StoreKept ==
  ASSUME CacheInv, MemTick, UNCHANGED lineVars
  PROVE  /\ AbsStore' = AbsStore
         /\ \A a \in Addr : Cached(a)' = Cached(a)
<1>1. ASSUME NEW a \in Addr PROVE Cached(a)' = Cached(a)
  <2>1. CASE mem_AW = None
    BY <2>1 DEF MemTick, MemWrite, Cached, Hit, lineVars
  <2>2. CASE mem_AW # None
    <3>1. current_state = WRITEBACK
      BY <2>2 DEF CacheInv, AnyInv, MemoryInStep, PartsTypeOK, CacheTypeOK, CacheState
    <3>2. saved.addr.index \in Index
      BY <3>1 DEF CacheInv, AnyInv, SavedIsServed, Busy, Request, Addr
    <3>3. mem_AW.addr = victim_addr(saved.addr.index) /\ valid[saved.addr.index]
      BY <2>2, <3>1, <3>2 DEF CacheInv, AnyInv, MemoryInStep, LinesCoherent
    <3>4. CASE a = mem_AW.addr
      BY <3>3, <3>4 DEF Cached, Hit, victim_addr, lineVars
    <3>5. CASE a # mem_AW.addr
      <4>1. mem_array' = [mem_array EXCEPT ![mem_AW.addr] = mem_AW.wdata]
        BY <2>2 DEF MemTick, MemWrite
      <4>2. mem_array'[a] = mem_array[a]
        BY <4>1, <3>5 DEF CacheInv, AnyInv, PartsTypeOK
      <4> QED
        BY <4>2 DEF Cached, Hit, lineVars
    <3> QED
      BY <3>4, <3>5
  <2> QED
    BY <2>1, <2>2
<1> QED
  BY <1>1 DEF AbsStore

-----------------------------------------------------------------------------
\* The parts of AtomicMemory's Cycle, in terms of the view.
AcceptPart ==
  /\ ReadAccepted \/ WriteAccepted => AbsPend = None
  /\ \/ WriteAccepted /\ AbsStore' = Atomic!Apply(proc_AW) /\ AbsPend' = None
     \/ WriteAccepted /\ AbsPend' = proc_AW /\ UNCHANGED AbsStore
     \/ ~WriteAccepted /\ AbsPend # None /\ AbsStore' = Atomic!Apply(AbsPend) /\ AbsPend' = None
     \/ ~WriteAccepted /\ UNCHANGED <<AbsStore, AbsPend>>

OweReadPart ==
  AbsOwedR' = (IF ReadReplyTaken THEN Tail(AbsOwedR) ELSE AbsOwedR)
              \o (IF ReadAccepted THEN <<AbsStore[proc_AR]>> ELSE <<>>)

OweWritePart ==
  AbsOwedB' = (IF WriteReplyTaken THEN AbsOwedB - 1 ELSE AbsOwedB)
              + (IF WriteAccepted THEN 1 ELSE 0)

OfferReadPart ==
  /\ proc_R' # None => AbsOwedR' # <<>> /\ proc_R' = Head(AbsOwedR')
  /\ ReadReplyRefused => proc_R' = proc_R

OfferWritePart ==
  /\ proc_BVALID' => AbsOwedB' > (IF AbsPend' # None THEN 1 ELSE 0)
  /\ WriteReplyRefused => proc_BVALID'

\* All that a cycle says but what the manager does next.
CycleParts ==
  AcceptPart /\ OweReadPart /\ OweWritePart /\ OfferReadPart /\ OfferWritePart

\* What is offered after a step is the oldest read owed, and a write that is
\* no longer pending; so a step only has to keep what was refused.
LEMMA OfferParts ==
  ASSUME ReadReplyRefused => proc_R' = proc_R,
         WriteReplyRefused => proc_BVALID'
  PROVE  OfferReadPart /\ OfferWritePart
<1>1. proc_R' # None => AbsOwedR' # <<>> /\ proc_R' = Head(AbsOwedR')
  BY OwedSequences DEF AbsOwedR, Offered, InFlight
<1>2. proc_BVALID' => AbsOwedB' > (IF AbsPend' # None THEN 1 ELSE 0)
  BY DEF AbsOwedB, AbsPend
<1> QED
  BY <1>1, <1>2 DEF OfferReadPart, OfferWritePart

\* Nothing is owed but what is offered while no request is served; nothing is
\* accepted while one is.
LEMMA AvailableView ==
  ASSUME current_state = AVAILABLE
  PROVE  /\ AbsPend = None
         /\ AbsOwedR = Offered
         /\ AbsOwedB = IF proc_BVALID THEN 1 ELSE 0
  BY OwedSequences DEF AbsPend, AbsOwedR, AbsOwedB, ServingWrite, ServingRead, Busy, Offered, InFlight

\* When the cache is available again, only the offered responses are owed.
LEMMA AvailableViewNext ==
  ASSUME current_state' = AVAILABLE
  PROVE  /\ AbsPend' = None
         /\ AbsOwedR' = Offered'
         /\ AbsOwedB' = IF proc_BVALID' THEN 1 ELSE 0
  BY OwedSequences DEF AbsPend, AbsOwedR, AbsOwedB, ServingWrite, ServingRead, Busy, Offered, InFlight

\* A cache that serves a request accepts no other.
LEMMA BusyAcceptsNothing ==
  ASSUME CacheInv, Busy
  PROVE  ~ReadAccepted /\ ~WriteAccepted
  BY DEF CacheInv, AnyInv, ReadysAgree, ReadAccepted, WriteAccepted

\* Retiring a taken write response is all that changes the count.
LEMMA RetiredWriteCount ==
  ASSUME RetireWrite, ~WriteAccepted, current_state = AVAILABLE, current_state' = AVAILABLE
  PROVE  OweWritePart
<1>1. CASE WriteReplyTaken
  <2>1. proc_BVALID /\ proc_BVALID' = FALSE
    BY <1>1 DEF RetireWrite, WriteReplyTaken
  <2>2. AbsOwedB = 1 /\ AbsOwedB' = 0
    BY <2>1, AvailableView, AvailableViewNext
  <2> QED
    BY <1>1, <2>2 DEF OweWritePart
<1>2. CASE ~WriteReplyTaken
  <2>1. proc_BVALID' <=> proc_BVALID
    BY <1>2 DEF RetireWrite, WriteReplyTaken
  <2>2. AbsOwedB' = AbsOwedB /\ AbsOwedB \in Nat
    BY <2>1, AvailableView, AvailableViewNext
  <2> QED
    BY <1>2, <2>2 DEF OweWritePart
<1> QED
  BY <1>1, <1>2

-----------------------------------------------------------------------------
\* Steps that end with the cache available: reads and writes of cached lines,
\* idle cycles.
LEMMA ReadHitRefines ==
  ASSUME CacheInv, ReadHit, MemTick
  PROVE  CycleParts
<1> USE DEF ReadHit
<1>1. AbsStore' = AbsStore
  BY StoreKept
<1>2. ~WriteAccepted /\ proc_AR \in Addr
  BY RequestAssumption DEF CacheInv, AnyInv, PartsTypeOK, AnyRequest, ReplyTypeOK, ReadAccepted, WriteAccepted
<1>3. AbsStore[proc_AR] = data[proc_AR.index]
  BY <1>2 DEF AbsStore, Cached
<1>4. AcceptPart
  BY <1>1, <1>2, AvailableView, AvailableViewNext DEF AcceptPart
<1>5. (IF ReadReplyTaken THEN Tail(Offered) ELSE Offered) = <<>>
  BY OwedSequences DEF Offered, can_send_new_response, ReadReplyTaken
<1>6. Offered' = <<data[proc_AR.index]>>
  BY <1>2, NoneAssumption DEF Offered, CacheInv, AnyInv, PartsTypeOK, CacheTypeOK, Addr
<1>7. OweReadPart
  BY <1>3, <1>5, <1>6, AvailableView, AvailableViewNext, OwedSequences DEF OweReadPart
<1>8. OweWritePart
  BY <1>2, RetiredWriteCount
<1>9. OfferReadPart /\ OfferWritePart
  BY OfferParts DEF RetireWrite, ReadReplyRefused, can_send_new_response,
                    ReadReplyTaken, WriteReplyRefused, WriteReplyTaken
<1> QED
  BY <1>4, <1>7, <1>8, <1>9 DEF CycleParts

\* Under the contract no response is refused when a write is accepted.
LEMMA WriteHitRefines ==
  ASSUME CacheInv, WriteHit, MemTick
  PROVE  CycleParts
<1> USE DEF WriteHit
<1>1. ~ReadAccepted /\ proc_AW.addr \in Addr /\ proc_AW.addr.index \in Index
  BY RequestAssumption DEF CacheInv, AnyInv, PartsTypeOK, AnyRequest, ReplyTypeOK, ReadAccepted, WriteAccepted, WriteRequest, Addr
<1>2. ~ReadReplyRefused /\ ~WriteReplyRefused
  BY <1>1 DEF CacheInv, AnyInv, Contract, is_request
<1>3. mem_array' = mem_array
  BY DEF CacheInv, AnyInv, MemoryInStep, MemTick, MemWrite
<1>4. ASSUME NEW a \in Addr
      PROVE  Cached(a)' = IF a = proc_AW.addr
                          THEN Merge(Cached(a), proc_AW.wdata, proc_AW.wstrb) ELSE Cached(a)
  <2>1. Hit(a)' <=> Hit(a)
    BY DEF Hit
  <2>2. CASE a = proc_AW.addr
    BY <1>1, <2>1, <2>2 DEF Cached, CacheInv, AnyInv, PartsTypeOK, CacheTypeOK
  <2>3. CASE a # proc_AW.addr /\ a.index = proc_AW.addr.index
    <3>1. ~Hit(a)
      BY <1>1, <2>3 DEF Hit, Addr
    <3> QED
      BY <1>3, <2>1, <2>3, <3>1 DEF Cached
  <2>4. CASE a # proc_AW.addr /\ a.index # proc_AW.addr.index
    BY <1>1, <1>3, <2>1, <2>4 DEF Cached, CacheInv, AnyInv, PartsTypeOK, CacheTypeOK
  <2> QED
    BY <2>2, <2>3, <2>4
<1>5. AbsStore' = Atomic!Apply(proc_AW)
  BY <1>1, <1>4 DEF AbsStore, Atomic!Apply, Atomic!Merge, Merge
<1>6. AcceptPart
  BY <1>1, <1>5, AvailableView, AvailableViewNext DEF AcceptPart
<1>7. OweReadPart
  BY <1>1, AvailableView, AvailableViewNext, OwedSequences
     DEF OweReadPart, Offered, RetireRead, ReadReplyTaken
<1>8. OweWritePart
  <2>1. AbsOwedB' = 1
    BY AvailableViewNext
  <2>2. CASE proc_BVALID
    BY <1>2, <2>1, <2>2, AvailableView DEF OweWritePart, WriteReplyRefused, WriteReplyTaken
  <2>3. CASE ~proc_BVALID
    BY <2>1, <2>3, AvailableView DEF OweWritePart, WriteReplyTaken
  <2> QED
    BY <2>2, <2>3
<1>9. OfferReadPart /\ OfferWritePart
  BY <1>2, OfferParts
<1> QED
  BY <1>6, <1>7, <1>8, <1>9 DEF CycleParts

\* A cycle without a request.
LEMMA IdleRefines ==
  ASSUME CacheInv, Idle, MemTick
  PROVE  CycleParts
<1> USE DEF Idle
<1>a. ~ReadAccepted /\ ~WriteAccepted
  BY DEF is_request
<1>1. AcceptPart
  BY <1>a, StoreKept, AvailableView, AvailableViewNext DEF AcceptPart
<1>2. OweReadPart
  BY <1>a, AvailableView, AvailableViewNext, OwedSequences
     DEF OweReadPart, Offered, RetireRead, ReadReplyTaken
<1>3. OweWritePart
  BY <1>a, RetiredWriteCount
<1>4. OfferReadPart /\ OfferWritePart
  BY OfferParts DEF RetireRead, RetireWrite, ReadReplyRefused, ReadReplyTaken,
                    WriteReplyRefused, WriteReplyTaken
<1> QED
  BY <1>1, <1>2, <1>3, <1>4 DEF CycleParts

-----------------------------------------------------------------------------
\* Steps that start serving a request, keep at it, or finish it.
LEMMA BufferHitRefines ==
  ASSUME CacheInv, BufferHit, MemTick
  PROVE  CycleParts
<1> USE DEF BufferHit
<1>1. is_request /\ saved' = RequestOnWires /\ req_addr \in Addr
      /\ RequestOnWires.addr = req_addr /\ (RequestOnWires.is_read <=> proc_AR # None)
      /\ (proc_AR # None => req_addr = proc_AR /\ ReadAccepted /\ ~WriteAccepted)
  BY WireTypes DEF CacheInv, AnyInv
<1>2. proc_R # None /\ ~proc_RREADY
  BY DEF can_send_new_response, ReadReplyTaken
<1>3. ReadAccepted /\ ~WriteAccepted /\ req_addr = proc_AR /\ saved'.is_read /\ ~WriteReplyRefused
  BY <1>1, <1>2 DEF CacheInv, AnyInv, Contract, ReadReplyRefused, ReadAccepted
<1>4. ServingRead' /\ ~ServingWrite' /\ InFlight' = <<Cached(saved.addr)'>>
  BY <1>3 DEF ServingRead, ServingWrite, Busy, InFlight
<1>5. Cached(saved.addr)' = Cached(proc_AR) /\ AbsStore' = AbsStore /\ AbsStore[proc_AR] = Cached(proc_AR)
  BY <1>1, <1>3, StoreKept DEF AbsStore
<1>6. AcceptPart
  BY <1>3, <1>4, <1>5, AvailableView DEF AcceptPart, AbsPend
<1>7. OweReadPart
  BY <1>2, <1>3, <1>4, <1>5, AvailableView DEF OweReadPart, AbsOwedR, Offered, ReadReplyTaken
<1>8. OweWritePart
  <2>1. proc_BVALID' = FALSE /\ (proc_BVALID <=> WriteReplyTaken)
    BY <1>3 DEF RetireWrite, WriteReplyRefused, WriteReplyTaken
  <2>2. AbsOwedB' = 0
    BY <1>4, <2>1 DEF AbsOwedB
  <2> QED
    BY <1>3, <2>1, <2>2, AvailableView DEF OweWritePart
<1>9. OfferReadPart /\ OfferWritePart
  BY <1>3, OfferParts
<1> QED
  BY <1>6, <1>7, <1>8, <1>9 DEF CycleParts

\* Under the contract every response is taken when a miss is accepted.
LEMMA MissRefines ==
  ASSUME CacheInv, Miss, Busy', MemTick
  PROVE  CycleParts
<1> USE DEF Miss
<1>1. /\ is_request /\ saved' = RequestOnWires /\ req_addr \in Addr
      /\ RequestOnWires.addr = req_addr /\ (RequestOnWires.is_read <=> proc_AR # None)
      /\ proc_AR # None => req_addr = proc_AR /\ ReadAccepted /\ ~WriteAccepted
      /\ proc_AR = None => req_addr = proc_AW.addr /\ proc_AW \in WriteRequest /\ WriteAccepted
  BY WireTypes DEF CacheInv, AnyInv
<1>2. ~ReadReplyRefused /\ ~WriteReplyRefused
  BY <1>1 DEF CacheInv, AnyInv, Contract, ReadAccepted
<1>3. proc_R' = None /\ proc_BVALID' = FALSE
      /\ (proc_R # None <=> ReadReplyTaken) /\ (proc_BVALID <=> WriteReplyTaken)
  BY <1>2 DEF RetireRead, RetireWrite, ReadReplyRefused, WriteReplyRefused,
              ReadReplyTaken, WriteReplyTaken
<1>4. (IF ReadReplyTaken THEN Tail(AbsOwedR) ELSE AbsOwedR) = <<>>
  BY <1>3, AvailableView, OwedSequences DEF Offered
<1>5. (IF WriteReplyTaken THEN AbsOwedB - 1 ELSE AbsOwedB) = 0
  BY <1>3, AvailableView
<1>6. Offered' = <<>>
  BY <1>3 DEF Offered
<1>7. AbsStore' = AbsStore /\ \A a \in Addr : Cached(a)' = Cached(a)
  BY StoreKept
<1>8. CASE proc_AR # None
  <2>1. ServingRead' /\ ~ServingWrite' /\ InFlight' = <<Cached(saved.addr)'>>
    BY <1>1, <1>8 DEF ServingRead, ServingWrite, InFlight
  <2>2. Cached(saved.addr)' = AbsStore[proc_AR]
    BY <1>1, <1>7, <1>8 DEF AbsStore
  <2>3. AcceptPart
    BY <1>1, <1>7, <1>8, <2>1, AvailableView DEF AcceptPart, AbsPend
  <2>4. OweReadPart
    BY <1>1, <1>4, <1>6, <1>8, <2>1, <2>2 DEF OweReadPart, AbsOwedR
  <2>5. AbsOwedB' = 0
    BY <1>3, <2>1 DEF AbsOwedB
  <2>6. OweWritePart
    BY <1>1, <1>5, <1>8, <2>5 DEF OweWritePart
  <2> QED
    BY <1>2, <2>3, <2>4, <2>6, OfferParts DEF CycleParts
<1>9. CASE proc_AR = None
  <2>1. ServingWrite' /\ ~ServingRead' /\ InFlight' = <<>>
    BY <1>1, <1>9 DEF ServingRead, ServingWrite, InFlight
  <2>2. AbsPend' = proc_AW
    BY <1>1, <1>9, <2>1 DEF AbsPend, RequestOnWires, WriteRequest
  <2>3. AcceptPart
    BY <1>1, <1>7, <1>9, <2>2, AvailableView DEF AcceptPart
  <2>4. ~ReadAccepted
    BY <1>9 DEF ReadAccepted
  <2>5. OweReadPart
    BY <1>4, <1>6, <2>1, <2>4, OwedSequences DEF OweReadPart, AbsOwedR
  <2>6. AbsOwedB' = 1
    BY <1>3, <2>1 DEF AbsOwedB
  <2>7. OweWritePart
    BY <1>1, <1>5, <1>9, <2>6 DEF OweWritePart
  <2> QED
    BY <1>2, <2>3, <2>5, <2>7, OfferParts DEF CycleParts
<1> QED
  BY <1>8, <1>9

\* Waiting for memory: no response is offered, none is taken, the view stays.
LEMMA WaitRefines ==
  ASSUME CacheInv, MemTick,
         Busy, Busy', ReadReplyTaken => FALSE, WriteReplyTaken => FALSE,
         UNCHANGED <<lineVars, replyVars, saved>>
  PROVE  CycleParts
<1>1. ~ReadAccepted /\ ~WriteAccepted
  BY BusyAcceptsNothing
<1>2. AbsStore' = AbsStore /\ Cached(saved.addr)' = Cached(saved.addr)
  BY StoreKept DEF CacheInv, AnyInv, SavedIsServed, Request
<1>3. (ServingRead' <=> ServingRead) /\ (ServingWrite' <=> ServingWrite)
  BY DEF ServingRead, ServingWrite
<1>4. AbsPend' = AbsPend /\ AbsOwedB' = AbsOwedB
  BY <1>3 DEF AbsPend, AbsOwedB
<1>5. AbsOwedR' = AbsOwedR /\ AbsOwedR \o <<>> = AbsOwedR
  BY <1>2, <1>3, OwedSequences, PairConcat DEF AbsOwedR, Offered, InFlight
<1>6. AcceptPart
  BY <1>1, <1>2, <1>4 DEF AcceptPart
<1>7. OweReadPart
  BY <1>1, <1>5 DEF OweReadPart
<1>8. OweWritePart
  BY <1>1, <1>4 DEF OweWritePart, AbsOwedB
<1>9. OfferReadPart /\ OfferWritePart
  BY OfferParts DEF WriteReplyRefused
<1> QED
  BY <1>6, <1>7, <1>8, <1>9 DEF CycleParts

\* The buffered hit is answered.
LEMMA AnswerBufferedRefines ==
  ASSUME CacheInv, AnswerBuffered, MemTick
  PROVE  CycleParts
<1> USE DEF AnswerBuffered
<1>1. ~ReadAccepted /\ ~WriteAccepted
  BY BusyAcceptsNothing DEF Busy
<1>2. /\ proc_R # None /\ ~proc_BVALID /\ saved.is_read /\ Hit(saved.addr)
      /\ saved.addr \in Addr /\ saved.addr.index \in Index
  BY DEF CacheInv, AnyInv, ReplySlotFree, SavedIsServed, Busy, Request, Addr
<1>3. AbsOwedR = <<proc_R>> \o <<data[saved.addr.index]>>
  BY <1>2 DEF AbsOwedR, Offered, InFlight, ServingRead, Busy, Cached
<1>4. AbsOwedR' = <<data[saved.addr.index]>>
  BY <1>2, NoneAssumption, AvailableViewNext DEF Offered, CacheInv, AnyInv, PartsTypeOK, CacheTypeOK
<1>5. OweReadPart
  BY <1>1, <1>2, <1>3, <1>4, OwedSequences DEF OweReadPart, ReadReplyTaken
<1>6. AbsPend = None /\ AbsPend' = None /\ AbsStore' = AbsStore
  BY <1>2, StoreKept, AvailableViewNext DEF AbsPend, ServingWrite
<1>7. AcceptPart
  BY <1>1, <1>6 DEF AcceptPart
<1>8. OweWritePart
  BY <1>1, <1>2, AvailableViewNext DEF OweWritePart, AbsOwedB, ServingWrite, WriteReplyTaken
<1>9. OfferReadPart /\ OfferWritePart
  BY <1>2, OfferParts DEF ReadReplyRefused, WriteReplyRefused
<1> QED
  BY <1>5, <1>7, <1>8, <1>9 DEF CycleParts

\* The fill answers the miss: a read with the value memory had for it, a write
\* by taking effect.
LEMMA FillDoneRefines ==
  ASSUME CacheInv, FillDone, MemTick
  PROVE  CycleParts
<1> USE DEF FillDone
<1>1. ~ReadAccepted /\ ~WriteAccepted
  BY BusyAcceptsNothing DEF Busy
<1>2. proc_R = None /\ ~proc_BVALID /\ (read_miss <=> saved.is_read) /\ ~Hit(saved.addr)
  BY DEF CacheInv, AnyInv, ReplySlotFree, SavedIsServed
<1>3. saved \in Request /\ saved.addr \in Addr /\ saved.addr.index \in Index
  BY DEF CacheInv, AnyInv, SavedIsServed, Busy, Request, Addr
<1>4. mem_R = mem_array[saved.addr] /\ mem_R \in Word /\ mem_array' = mem_array
  BY DEF CacheInv, AnyInv, MemoryInStep, PartsTypeOK, MemTypeOK, MemTick, MemWrite
<1> DEFINE i == saved.addr.index
           v == IF read_miss THEN mem_R ELSE Merge(mem_R, saved.wdata, saved.wstrb)
<1>5. data' = [data EXCEPT ![i] = v] /\ tag' = [tag EXCEPT ![i] = saved.addr.tag]
      /\ valid' = [valid EXCEPT ![i] = TRUE]
  OBVIOUS
<1>6. Cached(saved.addr) = mem_R
  BY <1>2, <1>4 DEF Cached
<1>7. ASSUME NEW a \in Addr
      PROVE  Cached(a)' = IF a = saved.addr THEN v ELSE Cached(a)
  <2>1. CASE a = saved.addr
    <3>1. Hit(a)'
      BY <1>3, <1>5, <2>1 DEF Hit, CacheInv, AnyInv, PartsTypeOK, CacheTypeOK
    <3> QED
      BY <1>3, <1>5, <2>1, <3>1 DEF Cached, CacheInv, AnyInv, PartsTypeOK, CacheTypeOK
  <2>2. CASE a # saved.addr /\ a.index = i
    <3>1. a.tag # saved.addr.tag
      BY <1>3, <2>2 DEF Addr
    <3>2. ~Hit(a)'
      BY <1>3, <1>5, <2>2, <3>1 DEF Hit, CacheInv, AnyInv, PartsTypeOK, CacheTypeOK
    <3>3. Cached(a)' = mem_array[a]
      BY <1>4, <3>2 DEF Cached
    <3>4. Hit(a) => data[i] = mem_array[a]
      <4>1. Hit(a) => a = victim_addr(i) /\ valid[i]
        BY <2>2 DEF Hit, victim_addr, Addr
      <4> QED
        BY <4>1 DEF CacheInv, AnyInv, LinesCoherent
    <3> QED
      BY <2>2, <3>3, <3>4 DEF Cached
  <2>3. CASE a.index # i
    <3>1. (Hit(a)' <=> Hit(a)) /\ data'[a.index] = data[a.index]
      BY <1>3, <1>5, <2>3 DEF Hit, CacheInv, AnyInv, PartsTypeOK, CacheTypeOK, Addr
    <3> QED
      BY <1>4, <2>3, <3>1 DEF Cached
  <2> QED
    BY <2>1, <2>2, <2>3
<1>8. CASE read_miss
  <2>1. AbsStore' = AbsStore /\ AbsPend = None /\ AbsPend' = None
    BY <1>2, <1>6, <1>7, <1>8, AvailableViewNext DEF AbsStore, AbsPend, ServingWrite
  <2>2. AbsOwedR = <<mem_R>> /\ AbsOwedR' = <<mem_R>>
    BY <1>2, <1>6, <1>8, AvailableViewNext, OwedSequences
       DEF AbsOwedR, Offered, InFlight, ServingRead, Busy
  <2>3. OweReadPart
    BY <1>1, <1>2, <2>2, OwedSequences DEF OweReadPart, ReadReplyTaken
  <2>4. OweWritePart
    BY <1>1, <1>2, <1>8, AvailableViewNext DEF OweWritePart, AbsOwedB, ServingWrite, WriteReplyTaken
  <2>5. AcceptPart
    BY <1>1, <2>1 DEF AcceptPart
  <2> QED
    BY <1>2, <2>3, <2>4, <2>5, OfferParts DEF CycleParts, ReadReplyRefused, WriteReplyRefused
<1>9. CASE ~read_miss
  <2>1. ServingWrite /\ ~ServingRead
    BY <1>2, <1>9 DEF ServingWrite, ServingRead, Busy
  <2>2. AbsPend = [addr |-> saved.addr, wdata |-> saved.wdata, wstrb |-> saved.wstrb]
        /\ AbsPend \in WriteRequest /\ AbsPend' = None
    BY <1>3, <2>1, AvailableViewNext DEF AbsPend, Request, WriteRequest
  <2>3. AbsStore' = Atomic!Apply(AbsPend)
    BY <1>3, <1>6, <1>7, <1>9, <2>2 DEF AbsStore, Atomic!Apply, Atomic!Merge, Merge
  <2>4. OweReadPart
    BY <1>1, <1>2, <1>9, <2>1, AvailableViewNext, OwedSequences
       DEF OweReadPart, AbsOwedR, Offered, InFlight, ReadReplyTaken
  <2>5. OweWritePart
    BY <1>1, <1>2, <1>9, <2>1, AvailableViewNext DEF OweWritePart, AbsOwedB, WriteReplyTaken
  <2>6. AcceptPart
    BY <1>1, <2>2, <2>3, NoneAssumption DEF AcceptPart
  <2> QED
    BY <1>2, <2>4, <2>5, <2>6, OfferParts DEF CycleParts, ReadReplyRefused, WriteReplyRefused
<1> QED
  BY <1>8, <1>9

-----------------------------------------------------------------------------
\* The steps of cache and memory together, without their manager.
LEMMA TickRefines ==
  ASSUME CacheInv, CacheTick, MemTick
  PROVE  CycleParts
<1>1. CASE CleanMiss \/ DirtyMiss
  BY <1>1, MissRefines DEF CleanMiss, DirtyMiss, Busy
<1>2. CASE AwaitFill \/ AwaitWriteback \/ WritebackDone
  <2>1. proc_R = None /\ ~proc_BVALID
    BY <1>2 DEF CacheInv, AnyInv, ReplySlotFree, AwaitFill, AwaitWriteback, WritebackDone
  <2>2. Busy /\ Busy' /\ UNCHANGED <<lineVars, replyVars, saved>>
    BY <1>2 DEF Busy, AwaitFill, AwaitWriteback, WritebackDone
  <2> QED
    BY <2>1, <2>2, WaitRefines DEF ReadReplyTaken, WriteReplyTaken
<1>3. CASE AwaitManager
  <2>1. ~proc_BVALID
    BY <1>3 DEF CacheInv, AnyInv, ReplySlotFree, AwaitManager
  <2> QED
    BY <1>3, <2>1, WaitRefines DEF AwaitManager, Busy, ReadReplyTaken, WriteReplyTaken
<1> QED
  BY <1>1, <1>2, <1>3, ReadHitRefines, WriteHitRefines, BufferHitRefines,
     IdleRefines, AnswerBufferedRefines, FillDoneRefines DEF CacheTick

\* A reset answers nothing and keeps the store.
LEMMA ResetView ==
  ASSUME CacheReset, MemReset
  PROVE  /\ AbsStore' = AbsStore
         /\ AbsPend' = None /\ AbsOwedR' = <<>> /\ AbsOwedB' = 0
<1> USE DEF CacheReset, MemReset
<1>1. AbsStore' = AbsStore
  BY DEF AbsStore, Cached, Hit
<1>2. AbsPend' = None /\ AbsOwedR' = <<>> /\ AbsOwedB' = 0
  BY AvailableViewNext DEF Offered
<1> QED
  BY <1>1, <1>2

\* Nothing moves in the abstract memory either.
LEMMA StutterView ==
  ASSUME UNCHANGED vars
  PROVE  UNCHANGED <<AbsStore, AbsPend, AbsOwedR, AbsOwedB>>
  BY DEF vars, procVars, AbsStore, AbsPend, AbsOwedR, AbsOwedB, Cached, Hit,
         Offered, InFlight, ServingRead, ServingWrite, Busy

\* At power-up the abstract memory owes nothing.
LEMMA InitView ==
  ASSUME CacheInv, CacheInit
  PROVE  /\ AbsStore \in [Addr -> Word]
         /\ AbsPend = None /\ AbsOwedR = <<>> /\ AbsOwedB = 0
<1>1. ASSUME NEW a \in Addr PROVE Cached(a) \in Word
  BY DEF CacheInv, AnyInv, PartsTypeOK, CacheTypeOK, Cached, Addr
<1>2. AbsPend = None /\ AbsOwedR = <<>> /\ AbsOwedB = 0
  BY AvailableView DEF CacheInit, Offered
<1> QED
  BY <1>1, <1>2 DEF AbsStore

-----------------------------------------------------------------------------
\* The parts make a cycle of the atomic memory.
LEMMA CycleFromParts ==
  ASSUME ManagerStep, CycleParts
  PROVE  Atomic!Cycle
<1>1. /\ Atomic!ReadAccepted = ReadAccepted /\ Atomic!WriteAccepted = WriteAccepted
      /\ Atomic!ReadReplyTaken = ReadReplyTaken /\ Atomic!WriteReplyTaken = WriteReplyTaken
      /\ Atomic!ReadReplyRefused = ReadReplyRefused /\ Atomic!WriteReplyRefused = WriteReplyRefused
      /\ Atomic!ManagerStep = ManagerStep
  BY DEF Atomic!ReadAccepted, ReadAccepted, Atomic!WriteAccepted, WriteAccepted,
         Atomic!ReadReplyTaken, ReadReplyTaken, Atomic!WriteReplyTaken, WriteReplyTaken,
         Atomic!ReadReplyRefused, ReadReplyRefused, Atomic!WriteReplyRefused,
         WriteReplyRefused, Atomic!ManagerStep, ManagerStep
<1> QED
  BY <1>1 DEF Atomic!Cycle, Atomic!Accept, Atomic!Owe, Atomic!Offer,
              CycleParts, AcceptPart, OweReadPart, OweWritePart, OfferReadPart, OfferWritePart

\* Every edge is a cycle or a reset of the atomic memory.
LEMMA StepRefines ==
  ASSUME IInv, IInv', [Next]_vars
  PROVE  [Atomic!Cycle \/ Atomic!Reset]_Atomic!vars
<1>1. CASE ClockEdge
  BY <1>1, TickRefines, CycleFromParts DEF ClockEdge, IInv
<1>2. CASE ResetEdge
  BY <1>2, ResetView DEF ResetEdge, CacheReset, Atomic!Reset, Atomic!ManagerReset, ManagerReset
<1>3. CASE UNCHANGED vars
  BY <1>3, StutterView DEF vars, procVars, Atomic!vars, Atomic!procVars, managerVars,
     Atomic!managerVars, Atomic!readyVars, Atomic!replyVars
<1> QED
  BY <1>1, <1>2, <1>3 DEF Next

\* After power-up the abstract memory is in an initial state.
LEMMA InitRefines == Init => Atomic!Init
<1> SUFFICES ASSUME Init PROVE Atomic!Init
  OBVIOUS
<1>1. IInv
  BY InitInv
<1> QED
  BY <1>1, InitView DEF IInv, Init, CacheInit, AnyOffer, Atomic!Init, Atomic!AnyOffer,
                        Atomic!Addr, Atomic!Word, Addr, Word

\* The cache and its memory are an atomic memory to every manager that keeps
\* the contract: each accepted request is answered once, in order, with the
\* last value written, and no acknowledged write is lost by eviction or reset.
THEOREM Refinement == Spec => ImplementsAtomicMemory
<1>1. Init => Atomic!Init
  BY InitRefines
<1>2. IInv /\ IInv' /\ [Next]_vars => [Atomic!Cycle \/ Atomic!Reset]_Atomic!vars
  BY StepRefines
<1> QED
  BY <1>1, <1>2, Invariance, PTL DEF Spec, Atomic!Spec, ImplementsAtomicMemory

-----------------------------------------------------------------------------
\* The values owed, on the wires and behind them, are words.
LEMMA OwedWords ==
  ASSUME CacheInv
  PROVE  AbsOwedR \in Seq(Word) /\ (proc_R # None => AbsOwedR # <<>>)
<1>1. Offered \in Seq(Word)
  BY DEF Offered, CacheInv, AnyInv, PartsTypeOK, ReplyTypeOK
<1>2. InFlight \in Seq(Word)
  <2>1. ServingRead => Cached(saved.addr) \in Word
    BY DEF ServingRead, Cached, Request, Addr, CacheInv, AnyInv, SavedIsServed, PartsTypeOK, CacheTypeOK
  <2> QED
    BY <2>1 DEF InFlight
<1>3. proc_R # None => Len(Offered) = 1
  BY DEF Offered
<1> QED
  BY <1>1, <1>2, <1>3, ConcatProperties DEF AbsOwedR

\* A cycle changes their number by the handshakes of the read channels.
LEMMA OwedLength ==
  ASSUME CacheInv, OweReadPart
  PROVE  /\ Len(AbsOwedR) \in Nat /\ Len(AbsOwedR') \in Nat
         /\ Len(AbsOwedR') = Len(AbsOwedR) + One(ReadAccepted) - One(ReadReplyTaken)
<1> DEFINE kept == IF ReadReplyTaken THEN Tail(AbsOwedR) ELSE AbsOwedR
           new  == IF ReadAccepted THEN <<AbsStore[proc_AR]>> ELSE <<>>
<1>1. AbsOwedR \in Seq(Word) /\ (ReadReplyTaken => AbsOwedR # <<>>)
  BY OwedWords DEF ReadReplyTaken
<1>2. kept \in Seq(Word) /\ Len(kept) = Len(AbsOwedR) - One(ReadReplyTaken)
  BY <1>1, HeadTailProperties, LenProperties DEF One
<1>3. new \in Seq(Word) /\ Len(new) = One(ReadAccepted)
  <2>1. ReadAccepted => proc_AR \in Addr
    BY DEF ReadAccepted, CacheInv, AnyInv, PartsTypeOK, AnyRequest
  <2>2. ReadAccepted => AbsStore[proc_AR] \in Word
    BY <2>1 DEF AbsStore, Cached, Addr, CacheInv, AnyInv, PartsTypeOK, CacheTypeOK
  <2> QED
    BY <2>2 DEF One
<1>4. AbsOwedR' = kept \o new
  BY DEF OweReadPart
<1> HIDE DEF kept, new
<1>5. Len(AbsOwedR') = Len(kept) + Len(new)
  BY <1>2, <1>3, <1>4, ConcatProperties
<1>6. Len(AbsOwedR) \in Nat /\ Len(kept) \in Nat /\ Len(new) \in Nat
  BY <1>1, <1>2, <1>3, LenProperties
<1> QED
  BY <1>2, <1>3, <1>5, <1>6 DEF One

\* Every edge of the manager keeps its count right.
LEMMA CountKept ==
  ASSUME CacheInv, CountedRight, OneEdge
  PROVE  CountedRight'
<1>1. CycleParts
  BY TickRefines DEF OneEdge, ClockEdge
<1>2. /\ Len(AbsOwedR) \in Nat /\ Len(AbsOwedR') \in Nat
      /\ Len(AbsOwedR') = Len(AbsOwedR) + One(ReadAccepted) - One(ReadReplyTaken)
  BY <1>1, OwedLength DEF CycleParts
<1>3. AbsOwedB \in Nat /\ AbsOwedB' = AbsOwedB + One(WriteAccepted) - One(WriteReplyTaken)
  BY <1>1 DEF CycleParts, OweWritePart, One, AbsOwedB
<1> DEFINE ar == One(ReadAccepted)
           aw == One(WriteAccepted)
           r  == One(ReadReplyTaken)
           b  == One(WriteReplyTaken)
<1>4. ar \in 0 .. 1 /\ aw \in 0 .. 1 /\ r \in 0 .. 1 /\ b \in 0 .. 1
  BY DEF One
<1>5. outstanding' = outstanding + ar + aw - r - b
  BY DEF OneEdge, Counted
<1>6. outstanding = Len(AbsOwedR) + AbsOwedB
  BY DEF CountedRight
<1>7. Len(AbsOwedR') = Len(AbsOwedR) + ar - r /\ AbsOwedB' = AbsOwedB + aw - b
  BY <1>2, <1>3
<1> HIDE DEF ar, aw, r, b
<1>8. outstanding' = Len(AbsOwedR') + AbsOwedB'
  BY <1>2, <1>3, <1>4, <1>5, <1>6, <1>7
<1> QED
  BY <1>8 DEF CountedRight

\* A patient manager that counts right asks only when nothing is offered.
LEMMA PatienceSuffices ==
  ASSUME CountedRight', Patient'
  PROVE  Contract'
<1>1. /\ Len(AbsOwedR') \in Nat
      /\ proc_R' # None => Len(AbsOwedR') > 0
  <2>1. proc_R' # None => Offered' = <<proc_R'>>
    BY DEF Offered
  <2>2. proc_R' = None => Offered' = <<>>
    BY DEF Offered
  <2>3. InFlight' = <<Cached(saved.addr)'>> \/ InFlight' = <<>>
    BY DEF InFlight
  <2>4. AbsOwedR' = Offered' \o InFlight'
    BY DEF AbsOwedR
  <2>5. CASE proc_R' # None
    BY <2>1, <2>3, <2>4, <2>5, OwedSequences, PairConcat
  <2>6. CASE proc_R' = None
    BY <2>2, <2>3, <2>4, <2>6, OwedSequences
  <2> QED
    BY <2>5, <2>6
<1>2. AbsOwedB' \in Nat /\ (proc_BVALID' => AbsOwedB' > 0)
  BY DEF AbsOwedB
<1>3. is_request' => Len(AbsOwedR') + AbsOwedB' = 0
  BY DEF CountedRight, Patient, is_request, ReadAccepted, WriteAccepted
<1>4. is_request' => proc_R' = None /\ ~proc_BVALID'
  BY <1>1, <1>2, <1>3
<1> QED
  BY <1>4 DEF Contract, ReadReplyRefused, WriteReplyRefused

\* A step of this manager is a step of the system under the contract.
LEMMA OneStep ==
  ASSUME IInv, CountedRight, [OneEdge \/ OneReset]_oneVars
  PROVE  IInv' /\ CountedRight' /\ [Next]_vars
<1>1. CASE OneEdge
  <2>1. CountedRight'
    BY <1>1, CountKept DEF IInv
  <2>2. Contract'
    BY <1>1, <2>1, PatienceSuffices DEF OneEdge
  <2> QED
    BY <1>1, <2>1, <2>2, StepInv DEF OneEdge, Next
<1>2. CASE OneReset
  <2>1. Contract'
    BY <1>2 DEF OneReset, ResetEdge, CacheReset, Contract, ReadReplyRefused, WriteReplyRefused
  <2>2. [Next]_vars
    BY <1>2, <2>1 DEF OneReset, Next
  <2>3. CountedRight'
    BY <1>2, ResetView DEF CountedRight, OneReset, ResetEdge
  <2> QED
    BY <2>2, <2>3, StepInv
<1>3. CASE UNCHANGED oneVars
  <2>1. UNCHANGED vars /\ outstanding' = outstanding
    BY <1>3 DEF oneVars
  <2> QED
    BY <2>1, StutterView, StepInv DEF CountedRight
<1> QED
  BY <1>1, <1>2, <1>3

\* The system with this manager is the system under the contract.
LEMMA OneIsAManager == OneSpec => Spec /\ []IInv
<1>1. OneInit => Init /\ IInv /\ CountedRight
  <2>1. SUFFICES ASSUME OneInit PROVE Init /\ IInv /\ CountedRight
    OBVIOUS
  <2>2. Init /\ IInv
    BY <2>1, InitInv DEF OneInit
  <2> QED
    BY <2>1, <2>2, InitView DEF CountedRight, OneInit, Init, IInv
<1>2. IInv /\ CountedRight /\ [OneEdge \/ OneReset]_oneVars => IInv' /\ CountedRight' /\ [Next]_vars
  BY OneStep
<1> QED
  BY <1>1, <1>2, PTL DEF OneSpec, Spec

\* A manager with one request outstanding keeps the contract, whatever it does
\* with its READYs and whenever it is reset.
THEOREM OneKeepsContract == OneSpec => []Contract
<1>1. IInv => Contract
  BY DEF IInv, CacheInv
<1> QED
  BY <1>1, OneIsAManager, PTL

\* So the manager of the tests sees an atomic memory, with no condition left.
THEOREM OneIsServed == OneSpec => ImplementsAtomicMemory
  BY OneIsAManager, Refinement, PTL
=============================================================================
