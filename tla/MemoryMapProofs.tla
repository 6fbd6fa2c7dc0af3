-------------------------- MODULE MemoryMapProofs --------------------------
(***************************************************************************)
(* Proofs about the memory map in front of the cache, for every set of     *)
(* devices whose addresses the program's memory does not use.  The cache's *)
(* own lemmas do the part behind the map: the map only has to show that    *)
(* the wires carry requests, that its datapath keeps the contract, and     *)
(* what it does itself in the cycles in which a device is asked.           *)
(***************************************************************************)
EXTENDS CacheProofs, MemoryMapHistory

USE DEF AVAILABLE, FILL, WRITEBACK, MANAGER_READY

-----------------------------------------------------------------------------
\* What either side accepts: the cache takes only requests to addresses of
\* memory, a device everything else.
LEMMA Accepted ==
  ASSUME SidesAgree
  PROVE  /\ ReadAccepted <=> CpuReadAccepted /\ cpu_AR \notin DeviceReads
         /\ ReadAccepted => proc_AR = cpu_AR /\ cpu_AR \in Reads /\ cpu_AR \in Addr /\ cpu_AR \notin Devices
         /\ CpuReadAccepted /\ cpu_AR \in DeviceReads => proc_AR = None /\ proc_AW = None
         /\ WriteAccepted <=> CpuWriteAccepted /\ cpu_AW \notin LedWrites \cup PixelWrites
         /\ WriteAccepted => proc_AW = cpu_AW /\ cpu_AW \in Writes /\ cpu_AW.addr \notin Devices
         /\ CpuWriteAccepted /\ cpu_AW \in LedWrites \cup PixelWrites => proc_AR = None /\ proc_AW = None
         /\ ~CpuReadAccepted \/ ~CpuWriteAccepted
<1> USE DEF SidesAgree, is_read, is_write, CpuReads, CpuWrites
<1>1. None \notin Reads \cup DeviceReads \cup Writes \cup LedWrites \cup PixelWrites
  BY RequestAssumption, NoneAssumption, DeviceAssumption
<1>2. \A a \in Reads : a \notin Devices /\ a \notin DeviceReads
  BY ProgramAssumption DEF Devices
<1>3. \A w \in Writes : w.addr \notin Devices /\ w \notin LedWrites \cup PixelWrites
  BY ProgramAssumption DEF Devices
<1>4. Reads \subseteq Addr
  BY RequestAssumption
<1> QED
  BY <1>1, <1>2, <1>3, <1>4 DEF ReadAccepted, CpuReadAccepted, WriteAccepted, CpuWriteAccepted

\* The map leaves requests on the wires, and this datapath refuses nothing.
LEMMA SidesKept ==
  ASSUME SidesAgree, CpuStep \/ CpuReset, CacheSide
  PROVE  SidesAgree' /\ AnyRequest' /\ Contract'
<1>1. SidesAgree'
  BY DEF SidesAgree, CpuStep, CpuReset, CacheSide, is_read, is_write, CpuReads, CpuWrites
<1>2. AnyRequest'
  BY <1>1, RequestAssumption, DeviceAssumption
     DEF SidesAgree, AnyRequest, is_read, is_write, CpuReads, CpuWrites
<1>3. Contract'
  BY <1>1 DEF SidesAgree, Contract, ReadReplyRefused, WriteReplyRefused
<1> QED
  BY <1>1, <1>2, <1>3

\* Behind the map the cache keeps its invariant, and the wires agree.
LEMMA CacheKept ==
  ASSUME CacheInv, SidesAgree, MapEdge \/ MapReset
  PROVE  CacheInv' /\ SidesAgree'
<1>1. SidesAgree' /\ AnyRequest' /\ Contract'
  BY SidesKept DEF MapEdge, MapReset
<1> QED
  BY <1>1, TickKeeps, ResetKeepsAll DEF CacheInv, MapEdge, MapReset

\* The cycle in which a device is asked is an idle one for the cache, which
\* retires what it offered.
LEMMA DeviceAsked ==
  ASSUME CacheInv, SidesAgree, MapEdge,
         \/ CpuReadAccepted /\ cpu_AR \in DeviceReads
         \/ CpuWriteAccepted /\ cpu_AW \in LedWrites \cup PixelWrites
  PROVE  current_state' = AVAILABLE /\ proc_R' = None /\ ~proc_BVALID'
<1>1. ~is_request
  BY Accepted DEF is_request, ReadAccepted, WriteAccepted
<1>2. current_state = AVAILABLE
  BY DEF CacheInv, AnyInv, ReadysAgree, Busy, CpuReadAccepted, CpuWriteAccepted
<1>3. Idle
  BY <1>1, <1>2 DEF MapEdge, CacheTick, ReadHit, WriteHit, BufferHit, CleanMiss, DirtyMiss, Miss,
     is_request, AwaitManager, AnswerBuffered, AwaitFill, FillDone, AwaitWriteback, WritebackDone
<1> QED
  BY <1>2, <1>3 DEF Idle, RetireRead, RetireWrite, ReadReplyTaken, WriteReplyTaken, SidesAgree, cacheVars

\* The next cycle remembers what was asked in this one.
LEMMA Remembered ==
  ASSUME Remember
  PROVE  /\ was_read' <=> CpuReadAccepted /\ cpu_AR \in DeviceReads
         /\ was_read' => last_AR' = cpu_AR
         /\ was_led' <=> CpuWriteAccepted /\ cpu_AW \in LedWrites
         /\ was_hdmi' <=> CpuWriteAccepted /\ cpu_AW \in PixelWrites
         /\ was_led' \/ was_hdmi' => last_AW' = cpu_AW
         /\ was_write' <=> CpuWriteAccepted /\ cpu_AW \in LedWrites \cup PixelWrites
<1>1. None \notin DeviceReads \cup LedWrites \cup PixelWrites
  BY DeviceAssumption, NoneAssumption
<1> QED
  BY <1>1 DEF Remember, was_read, was_write, was_led, was_hdmi

\* A device is asked when the cache could accept, and answers in the next
\* cycle, in which the cache is still available and has nothing to offer.
LEMMA DeviceAnswersAloneKept ==
  ASSUME CacheInv, SidesAgree, DeviceAnswersAlone, MapEdge
  PROVE  DeviceAnswersAlone'
<1>2. /\ was_read' <=> CpuReadAccepted /\ cpu_AR \in DeviceReads
      /\ was_write' <=> CpuWriteAccepted /\ cpu_AW \in LedWrites \cup PixelWrites
  BY Remembered DEF MapEdge
<1>3. ~BufferHit
  BY DEF BufferHit, can_send_new_response, ReadReplyTaken, SidesAgree
<1>4. current_state' # MANAGER_READY
  BY <1>3 DEF DeviceAnswersAlone, MapEdge, CacheTick, ReadHit, WriteHit, CleanMiss, DirtyMiss, Idle,
     AwaitManager, AnswerBuffered, AwaitFill, FillDone, AwaitWriteback, WritebackDone, cacheVars
<1> QED
  BY <1>2, <1>4, DeviceAsked, Accepted DEF DeviceAnswersAlone

-----------------------------------------------------------------------------
\* What the cache serves, and so what it keeps, is never a device's.
LEMMA DevicesUncachedKept ==
  ASSUME CacheInv, SidesAgree, DevicesUncached, CacheTick
  PROVE  DevicesUncached'
<1>1. is_request => RequestOnWires.addr \notin Devices
  <2>1. SUFFICES ASSUME is_request PROVE RequestOnWires.addr \notin Devices
    OBVIOUS
  <2>2. RequestOnWires.addr = req_addr
    BY <2>1, WireTypes DEF CacheInv, AnyInv
  <2>3. CASE proc_AR # None
    BY <2>1, <2>2, <2>3, WireTypes, Accepted DEF CacheInv, AnyInv
  <2>4. CASE proc_AR = None
    BY <2>1, <2>2, <2>4, WireTypes, Accepted DEF CacheInv, AnyInv
  <2> QED
    BY <2>3, <2>4
<1>2. CASE BufferHit \/ Miss
  BY <1>1, <1>2 DEF BufferHit, Miss, RecordMiss, DevicesUncached, victim_addr, lineVars
<1>3. CASE FillDone
  <2>1. saved.addr \in Addr /\ saved.addr \notin Devices /\ saved.addr.index \in Index
    BY <1>3 DEF FillDone, CacheInv, AnyInv, SavedIsServed, Busy, Request, DevicesUncached, Addr
  <2>2. ~Busy'
    BY <1>3 DEF FillDone, Busy
  <2>3. ASSUME NEW i \in Index, valid'[i]
        PROVE  [tag |-> tag'[i], index |-> i] \notin Devices
    <3>1. CASE i = saved.addr.index
      BY <1>3, <2>1, <3>1 DEF FillDone, Addr, CacheInv, AnyInv, PartsTypeOK, CacheTypeOK
    <3>2. CASE i # saved.addr.index
      BY <1>3, <2>1, <2>3, <3>2 DEF FillDone, DevicesUncached, victim_addr, CacheInv, AnyInv, PartsTypeOK, CacheTypeOK
    <3> QED
      BY <3>1, <3>2
  <2> QED
    BY <2>2, <2>3 DEF DevicesUncached, victim_addr
<1>4. CASE UNCHANGED <<tag, valid>> /\ (Busy' => Busy) /\ saved' = saved
  BY <1>4 DEF DevicesUncached, victim_addr
<1> QED
  BY <1>2, <1>3, <1>4 DEF CacheTick, ReadHit, WriteHit, CleanMiss, DirtyMiss, Idle, AwaitManager,
     AnswerBuffered, AwaitFill, AwaitWriteback, WritebackDone, cacheVars, lineVars, Busy

-----------------------------------------------------------------------------
\* What the cache owes: at most one response of either kind, and nothing is
\* accepted while it prepares one.
LEMMA CacheOwes ==
  ASSUME CacheInv, DeviceAnswersAlone
  PROVE  /\ proc_R # None => AbsOwedR = <<proc_R>> /\ ~Busy
         /\ proc_R = None => AbsOwedR = InFlight
         /\ AbsOwedR = <<>> \/ \E v : AbsOwedR = <<v>>
         /\ proc_BVALID => AbsOwedB = 1 /\ ~Busy
         /\ ~proc_BVALID => AbsOwedB \in {0, 1} /\ (AbsOwedB = 1 => Busy)
         /\ proc_R = None /\ ~Busy => AbsOwedR = <<>>
<1>1. Busy => proc_R = None /\ ~proc_BVALID
  BY DEF Busy, DeviceAnswersAlone, CacheInv, AnyInv, ReplySlotFree, PartsTypeOK, CacheTypeOK, CacheState
<1>2. InFlight = <<>> \/ (Busy /\ \E v : InFlight = <<v>>)
  BY DEF InFlight, ServingRead
<1>3. CASE proc_R # None
  <2>1. Offered = <<proc_R>> /\ InFlight = <<>> /\ ~Busy
    BY <1>1, <1>3 DEF Offered, InFlight, ServingRead
  <2>2. AbsOwedR = <<proc_R>>
    BY <2>1, OwedSequences DEF AbsOwedR
  <2> QED
    BY <1>3, <2>1, <2>2, <1>1 DEF AbsOwedB, ServingWrite
<1>4. CASE proc_R = None
  <2>1. Offered = <<>>
    BY <1>4 DEF Offered
  <2>2. AbsOwedR = InFlight
    BY <1>2, <2>1, OwedSequences DEF AbsOwedR
  <2> QED
    BY <1>1, <1>2, <1>4, <2>2 DEF AbsOwedB, ServingWrite
<1> QED
  BY <1>3, <1>4

\* What of it remains when this cycle's responses are taken, and what remains
\* of what the map owes.
LeftR == IF ReadReplyTaken THEN Tail(AbsOwedR) ELSE AbsOwedR
LeftB == IF WriteReplyTaken THEN AbsOwedB - 1 ELSE AbsOwedB

MapLeftR == IF cpu_R # None /\ owed # <<>> THEN Tail(owed) ELSE owed
MapLeftB == IF cpu_BVALID THEN owedB - 1 ELSE owedB

\* Once this cycle's responses are taken, the datapath is owed what the cache
\* owes it: a device answers within a cycle.
LEMMA Left ==
  ASSUME MapInv
  PROVE  /\ LeftR = <<>> => MapLeftR = <<>>
         /\ LeftR # <<>> => \E a \in Reads : MapLeftR = <<[addr |-> a, value |-> Head(LeftR)]>>
         /\ MapLeftB = LeftB /\ LeftB \in {0, 1}
         /\ LeftR = <<>> \/ LeftB = 0
         /\ ~Busy => LeftR = <<>> /\ LeftB = 0
<1> USE DEF MapInv
<1>1. /\ ReadReplyTaken <=> proc_R # None
      /\ WriteReplyTaken <=> proc_BVALID
  BY DEF SidesAgree, ReadReplyTaken, WriteReplyTaken
<1>2. input # None
  BY DeviceAssumption
<1>3. CASE was_read
  <2>1. proc_R = None /\ ~proc_BVALID /\ ~Busy /\ AbsOwedR = <<>> /\ AbsOwedB = 0 /\ ~was_write
    BY <1>3, CacheOwes DEF DeviceAnswersAlone, Busy, AbsOwedB, ServingWrite
  <2>2. LeftR = <<>> /\ LeftB = 0 /\ MapLeftB = 0
    BY <1>1, <2>1 DEF LeftR, LeftB, MapLeftB, cpu_BVALID, OwedOnce
  <2>3. owed = <<[addr |-> last_AR, value |-> None]>> /\ cpu_R # None
    BY <1>2, <1>3 DEF OwedOnce, cpu_R
  <2>4. MapLeftR = <<>>
    BY <2>3, OwedSequences DEF MapLeftR
  <2> QED
    BY <2>2, <2>4
<1>4. CASE ~was_read
  <2>1. cpu_R = proc_R
    BY <1>4 DEF cpu_R
  <2>2. MapLeftB = LeftB /\ LeftB \in {0, 1} /\ (~Busy => LeftB = 0)
    <3>1. CASE was_write
      <4>1. ~proc_BVALID /\ AbsOwedB = 0 /\ owedB = 1
        BY <3>1 DEF DeviceAnswersAlone, AbsOwedB, ServingWrite, Busy, OwedOnce
      <4> QED
        BY <1>1, <3>1, <4>1 DEF LeftB, MapLeftB, cpu_BVALID
    <3>2. CASE ~was_write
      <4>1. owedB = AbsOwedB /\ (cpu_BVALID <=> proc_BVALID) /\ AbsOwedB \in {0, 1}
        BY <3>2, CacheOwes DEF OwedOnce, cpu_BVALID
      <4> QED
        BY <1>1, <4>1, CacheOwes DEF LeftB, MapLeftB
    <3> QED
      BY <3>1, <3>2
  <2>3. CASE proc_R # None
    <3>1. AbsOwedR = <<proc_R>> /\ AbsOwedR # <<>>
      BY <2>3, CacheOwes, OwedSequences
    <3>2. PICK a \in Reads : owed = <<[addr |-> a, value |-> Head(AbsOwedR)]>>
      BY <1>4, <3>1 DEF OwedOnce
    <3>3. LeftR = <<>>
      BY <1>1, <2>3, <3>1, OwedSequences DEF LeftR
    <3>4. MapLeftR = <<>>
      BY <2>1, <2>3, <3>2, OwedSequences DEF MapLeftR
    <3> QED
      BY <2>2, <3>3, <3>4
  <2>4. CASE proc_R = None
    <3>1. LeftR = AbsOwedR /\ MapLeftR = owed
      BY <1>1, <2>1, <2>4 DEF LeftR, MapLeftR
    <3>2. ~Busy => LeftR = <<>>
      BY <2>4, <3>1, CacheOwes
    <3>3. LeftR # <<>> => LeftB = 0
      <4>1. SUFFICES ASSUME LeftR # <<>> PROVE LeftB = 0
        OBVIOUS
      <4>2. PICK a \in Reads : owed = <<[addr |-> a, value |-> Head(AbsOwedR)]>>
        BY <1>4, <3>1, <4>1 DEF OwedOnce
      <4>3. Len(owed) = 1 /\ owedB \in Nat
        BY <4>2, CacheOwes DEF OwedOnce
      <4>4. owedB = 0
        BY <4>3 DEF OwedOnce
      <4> QED
        BY <2>2, <4>4 DEF MapLeftB
    <3>4. /\ LeftR = <<>> => MapLeftR = <<>>
          /\ LeftR # <<>> => \E a \in Reads : MapLeftR = <<[addr |-> a, value |-> Head(LeftR)]>>
      BY <1>4, <3>1 DEF OwedOnce
    <3> QED
      BY <2>2, <3>2, <3>3, <3>4
  <2> QED
    BY <2>3, <2>4
<1> QED
  BY <1>3, <1>4

\* Each accepted access is owed once, and what is answered is owed no more.
LEMMA OwedOnceKept ==
  ASSUME MapInv, CacheInv', HEdge
  PROVE  OwedOnce'
<1>1. /\ AbsOwedR' = LeftR \o (IF ReadAccepted THEN <<AbsStore[proc_AR]>> ELSE <<>>)
      /\ AbsOwedB' = LeftB + (IF WriteAccepted THEN 1 ELSE 0)
  <2>1. CycleParts
    BY TickRefines DEF HEdge, MapInv, MapEdge
  <2> QED
    BY <2>1 DEF CycleParts, OweReadPart, OweWritePart, LeftR, LeftB
<1>2. /\ owed' = MapLeftR \o (IF CpuReadAccepted THEN <<Promise>> ELSE <<>>)
      /\ owedB' = MapLeftB + (IF CpuWriteAccepted THEN 1 ELSE 0)
  BY DEF HEdge, MapLeftR, MapLeftB
<1>3. /\ was_read' <=> CpuReadAccepted /\ cpu_AR \in DeviceReads
      /\ was_read' => last_AR' = cpu_AR
      /\ was_write' <=> CpuWriteAccepted /\ cpu_AW \in LedWrites \cup PixelWrites
  BY Remembered DEF HEdge, MapEdge
<1>4. CpuReadAccepted \/ CpuWriteAccepted => LeftR = <<>> /\ LeftB = 0
  <2>1. CpuReadAccepted \/ CpuWriteAccepted => ~Busy
    BY DEF MapInv, CacheInv, AnyInv, ReadysAgree, CpuReadAccepted, CpuWriteAccepted
  <2> QED
    BY <2>1, Left
<1>5. CASE CpuReadAccepted
  <2>1. MapLeftR = <<>> /\ MapLeftB = 0 /\ ~CpuWriteAccepted /\ ~WriteAccepted
    BY <1>4, <1>5, Left, Accepted DEF MapInv
  <2>2. owed' = <<Promise>> /\ owedB' = 0 /\ AbsOwedB' = 0 /\ ~was_write' /\ Len(owed') + owedB' <= 1
    <3>1. owed' = <<Promise>>
      BY <1>2, <1>5, <2>1, OwedSequences
    <3>2. owedB' = 0 /\ AbsOwedB' = 0 /\ ~was_write'
      BY <1>1, <1>2, <1>3, <1>4, <1>5, <2>1
    <3>3. Len(owed') = 1
      BY <3>1
    <3> QED
      BY <3>1, <3>2, <3>3
  <2>3. CASE cpu_AR \in DeviceReads
    <3>1. Promise = [addr |-> cpu_AR, value |-> None] /\ was_read' /\ last_AR' = cpu_AR
      BY <1>3, <1>5, <2>3 DEF Promise
    <3> QED
      BY <2>2, <3>1 DEF OwedOnce
  <2>4. CASE cpu_AR \notin DeviceReads
    <3>1. ReadAccepted /\ proc_AR = cpu_AR /\ cpu_AR \in Reads /\ cpu_AR \in Addr
      BY <1>5, <2>4, Accepted DEF MapInv
    <3>2. Promise = [addr |-> cpu_AR, value |-> Cached(cpu_AR)] /\ ~was_read'
      BY <1>3, <2>4 DEF Promise
    <3>3. AbsOwedR' = <<Cached(cpu_AR)>>
      BY <1>1, <1>4, <1>5, <3>1, OwedSequences DEF AbsStore
    <3>4. AbsOwedR' # <<>> /\ Head(AbsOwedR') = Cached(cpu_AR)
      BY <3>3, OwedSequences
    <3> QED
      BY <2>2, <3>1, <3>2, <3>4 DEF OwedOnce
  <2> QED
    BY <2>3, <2>4
<1>6. CASE ~CpuReadAccepted
  <2>1. ~ReadAccepted /\ ~was_read'
    BY <1>3, <1>6, Accepted DEF MapInv
  <2>2. AbsOwedR' = LeftR /\ owed' = MapLeftR
    <3>1. /\ LeftR = <<>> \/ \E v : LeftR = <<v>>
          /\ MapLeftR = <<>> \/ \E v : MapLeftR = <<v>>
      BY CacheOwes, Left, OwedSequences DEF LeftR, MapInv
    <3> QED
      BY <1>1, <1>2, <1>6, <2>1, <3>1, OwedSequences
  <2>3. owedB' = AbsOwedB' + (IF was_write' THEN 1 ELSE 0)
    <3>1. WriteAccepted <=> CpuWriteAccepted /\ ~was_write'
      BY <1>3, Accepted DEF MapInv
    <3> QED
      BY <1>1, <1>2, <1>3, <3>1, Left
  <2>4. Len(owed') + owedB' <= 1
    <3>1. CASE CpuWriteAccepted
      <4>1. owed' = <<>> /\ owedB' = 1
        BY <1>2, <1>4, <2>2, <3>1, Left
      <4> QED
        BY <4>1
    <3>2. CASE ~CpuWriteAccepted
      <4>1. owedB' = LeftB /\ LeftB \in {0, 1}
        BY <1>2, <3>2, Left
      <4>2. CASE LeftR = <<>>
        BY <2>2, <4>1, <4>2, Left
      <4>3. CASE LeftR # <<>>
        <5>1. Len(owed') = 1 /\ LeftB = 0
          BY <2>2, <4>3, Left
        <5> QED
          BY <4>1, <5>1
      <4> QED
        BY <4>2, <4>3
    <3> QED
      BY <3>1, <3>2
  <2> QED
    BY <2>1, <2>2, <2>3, <2>4, Left DEF OwedOnce
<1> QED
  BY <1>5, <1>6

-----------------------------------------------------------------------------
\* The devices catch up with the last cycle's write, while this one's is
\* already on the record.
LEMMA ScreenLagsKept ==
  ASSUME MapInv, HEdge
  PROVE  /\ ScreenLags'
         /\ led_state' \in Word /\ frame_buffer' \in [Pixel -> Byte]
<1> USE DEF HEdge
<1>1. led_state' = lights /\ frame_buffer' = screen
  BY DEF MapInv, ScreenLags, MapEdge, DeviceTick, StoredLane, Pixel
<1>2. /\ was_led' <=> CpuWriteAccepted /\ cpu_AW \in LedWrites
      /\ was_hdmi' <=> CpuWriteAccepted /\ cpu_AW \in PixelWrites
      /\ was_led' \/ was_hdmi' => last_AW' = cpu_AW
  BY Remembered DEF MapEdge
<1>3. ScreenLags'
  BY <1>1, <1>2 DEF ScreenLags
<1>4. was_led \/ was_hdmi => last_AW.wdata \in Word
  BY DeviceAssumption DEF was_led, was_hdmi, WriteRequest
<1>5. lights \in Word
  BY <1>4 DEF MapInv, ScreenLags
<1>6. screen \in [Pixel -> Byte]
  BY <1>4 DEF MapInv, ScreenLags, Word, Pixel
<1> QED
  BY <1>1, <1>3, <1>5, <1>6

-----------------------------------------------------------------------------
\* The invariant holds after power-up.
LEMMA MapInitInv == HInit => MapInv
<1> SUFFICES ASSUME HInit PROVE MapInv
  OBVIOUS
<1> USE DEF HInit, MapInit
<1>1. None \notin DeviceReads \cup LedWrites \cup PixelWrites
  BY DeviceAssumption, NoneAssumption
<1>2. ~was_read /\ ~was_led /\ ~was_hdmi /\ ~was_write
  BY <1>1 DEF was_read, was_led, was_hdmi, was_write
<1>3. SidesAgree /\ AnyRequest
  BY <1>1 DEF SidesAgree, AnyRequest, is_read, is_write, CpuReads, CpuWrites
<1>4. CacheInv
  BY <1>3, CacheInitInv
<1>5. DeviceAnswersAlone /\ DevicesUncached /\ ScreenLags
  BY <1>2 DEF DeviceAnswersAlone, DevicesUncached, ScreenLags, CacheInit, Busy
<1>6. OwedOnce
  BY <1>2, <1>4, InitView DEF OwedOnce
<1>7. led_state \in Word /\ frame_buffer \in [Pixel -> Byte]
  BY ZeroAssumption DEF ZeroWord, Word
<1> QED
  BY <1>3, <1>4, <1>5, <1>6, <1>7 DEF MapInv, CpuReads, CpuWrites

\* Every edge, reset edges too, keeps the invariant.
LEMMA MapStepInv ==
  ASSUME MapInv, [HEdge \/ HReset]_<<vars, mapVars, historyVars>>
  PROVE  MapInv'
<1>1. CASE HEdge
  <2>1. MapEdge
    BY <1>1 DEF HEdge
  <2>2. CacheInv' /\ SidesAgree'
    BY <2>1, CacheKept DEF MapInv
  <2>3. last_AR' \in CpuReads /\ last_AW' \in CpuWrites /\ input' \in Input
    BY <2>1 DEF MapEdge, Remember, DeviceTick, MapInv, SidesAgree, CpuReads, CpuWrites
  <2>4. DeviceAnswersAlone' /\ DevicesUncached'
    BY <2>1, DeviceAnswersAloneKept, DevicesUncachedKept DEF MapInv, MapEdge
  <2> QED
    BY <1>1, <2>2, <2>3, <2>4, OwedOnceKept, ScreenLagsKept DEF MapInv
<1>2. CASE HReset
  <2>1. MapReset
    BY <1>2 DEF HReset
  <2>2. CacheInv' /\ SidesAgree'
    BY <2>1, CacheKept DEF MapInv
  <2>3. ~was_read' /\ ~was_led' /\ ~was_hdmi' /\ ~was_write'
    BY <2>1, DeviceAssumption, NoneAssumption DEF MapReset, was_read, was_led, was_hdmi, was_write
  <2>4. last_AR' \in CpuReads /\ last_AW' \in CpuWrites /\ input' \in Input /\ led_state' \in Word
        /\ frame_buffer' \in [Pixel -> Byte]
    BY <2>1, ZeroAssumption DEF MapReset, DeviceReset, MapInv, CpuReads, CpuWrites, ZeroWord, Word
  <2>5. DeviceAnswersAlone'
    BY <2>1, <2>3 DEF MapReset, CacheReset, DeviceAnswersAlone
  <2>6. DevicesUncached'
    BY <2>1 DEF MapReset, CacheReset, lineVars, DevicesUncached, Busy, victim_addr, MapInv
  <2>7. OwedOnce'
    <3>1. AbsOwedR' = <<>> /\ AbsOwedB' = 0
      BY <2>1, ResetView DEF MapReset
    <3>2. owed' = <<>> /\ owedB' = 0
      BY <1>2 DEF HReset
    <3> QED
      BY <2>3, <3>1, <3>2 DEF OwedOnce
  <2>8. ScreenLags'
    BY <1>2, <2>1, <2>3 DEF HReset, MapReset, DeviceReset, ScreenLags
  <2> QED
    BY <2>2, <2>4, <2>5, <2>6, <2>7, <2>8 DEF MapInv
<1>3. CASE UNCHANGED <<vars, mapVars, historyVars>>
  <2> USE <1>3 DEF mapVars, deviceVars, historyVars
  <2>1. CacheInv'
    BY StutterKeeps DEF MapInv
  <2>2. UNCHANGED <<was_read, was_led, was_hdmi, was_write, AbsOwedR, AbsOwedB>>
    BY StutterView DEF was_read, was_led, was_hdmi, was_write
  <2>3. UNCHANGED <<current_state, proc_R, proc_BVALID, proc_AR, proc_AW, proc_RREADY, proc_BREADY,
                    proc_ARREADY, proc_AWREADY, proc_WREADY, valid, tag, saved>>
    BY DEF vars, procVars, managerVars, readyVars, replyVars, cacheVars, lineVars
  <2>4. SidesAgree' /\ DeviceAnswersAlone' /\ DevicesUncached' /\ ScreenLags'
    BY <2>2, <2>3 DEF MapInv, SidesAgree, is_read, is_write, DeviceAnswersAlone, DevicesUncached,
       victim_addr, Busy, ScreenLags
  <2>5. OwedOnce'
    BY <2>2 DEF MapInv, OwedOnce
  <2> QED
    BY <2>1, <2>4, <2>5 DEF MapInv
<1> QED
  BY <1>1, <1>2, <1>3

\* The inductive invariant of the map with the cache behind it.
THEOREM MapInvariance == HSpec => []MapInv
<1>1. MapInv /\ [HEdge \/ HReset]_<<vars, mapVars, historyVars>> => MapInv'
  BY MapStepInv
<1> QED
  BY <1>1, MapInitInv, PTL DEF HSpec

\* Every variable of map, cache and memory keeps its type.
THEOREM MapTypes == HSpec => []MapTypeOK
<1>1. MapInv => MapTypeOK
  BY DEF MapInv, MapTypeOK, CacheInv, AnyInv, PartsTypeOK, SidesAgree
<1> QED
  BY <1>1, MapInvariance, PTL

\* A device's answer never hides one of the cache's, which would be taken
\* without having been seen.
THEOREM NothingHidden == HSpec => []NoResponseHidden
<1>1. MapInv => NoResponseHidden
  BY DEF MapInv, DeviceAnswersAlone, NoResponseHidden
<1> QED
  BY <1>1, MapInvariance, PTL

\* The datapath sees one response for each access, in order, from the device or
\* the cache that serves the address.
THEOREM InOrder == HSpec => []AnsweredInOrder
<1>1. MapInv => AnsweredInOrder
  <2>1. SUFFICES ASSUME MapInv PROVE AnsweredInOrder
    OBVIOUS
  <2>2. ASSUME cpu_R # None
        PROVE  /\ owed # <<>>
               /\ was_read <=> Head(owed).addr \in DeviceReads
               /\ ~was_read => cpu_R = Head(owed).value
    <3>1. CASE was_read
      <4>1. owed = <<[addr |-> last_AR, value |-> None]>>
        BY <2>1, <3>1 DEF MapInv, OwedOnce
      <4>2. owed # <<>> /\ Head(owed).addr = last_AR
        BY <4>1, OwedSequences
      <4> QED
        BY <3>1, <4>2 DEF was_read
    <3>2. CASE ~was_read
      <4>1. AbsOwedR = <<proc_R>> /\ cpu_R = proc_R
        BY <2>1, <2>2, <3>2, CacheOwes DEF MapInv, cpu_R
      <4>2. AbsOwedR # <<>> /\ Head(AbsOwedR) = cpu_R
        BY <4>1, OwedSequences
      <4>3. PICK a \in Reads : owed = <<[addr |-> a, value |-> cpu_R]>>
        BY <2>1, <3>2, <4>2 DEF MapInv, OwedOnce
      <4>4. owed # <<>> /\ Head(owed).addr = a /\ Head(owed).value = cpu_R
        BY <4>3, OwedSequences
      <4>5. a \notin DeviceReads
        BY ProgramAssumption DEF Devices
      <4> QED
        BY <3>2, <4>4, <4>5
    <3> QED
      BY <3>1, <3>2
  <2>3. cpu_BVALID => owedB > 0
    <3>1. proc_BVALID => AbsOwedB = 1 /\ ~was_write
      BY <2>1, CacheOwes DEF MapInv, DeviceAnswersAlone
    <3>2. ~proc_BVALID => AbsOwedB \in {0, 1}
      BY <2>1, CacheOwes DEF MapInv
    <3> QED
      BY <2>1, <3>1, <3>2 DEF MapInv, OwedOnce, cpu_BVALID
  <2> QED
    BY <2>1, <2>2, <2>3 DEF AnsweredInOrder, MapInv, OwedOnce
<1> QED
  BY <1>1, MapInvariance, PTL

\* Of a program that asks of devices only what they serve (ProgramAssumption), no
\* access that a device serves reaches the cache: no line and no request of the
\* cache has a device's address.
THEOREM DevicesStayOut == HSpec => []DevicesUncached
<1>1. MapInv => DevicesUncached
  BY DEF MapInv
<1> QED
  BY <1>1, MapInvariance, PTL

\* Pixels and LEDs are one cycle behind the accepted writes, and exact.
THEOREM ScreenExact == HSpec => []ScreenFollows
<1>1. MapInv => ScreenFollows
  BY DEF MapInv, ScreenLags, ScreenFollows, was_hdmi, was_led
<1> QED
  BY <1>1, MapInvariance, PTL

-----------------------------------------------------------------------------
\* The datapath's requests to memory, as the atomic memory's manager.
LEMMA CachedOffer ==
  ASSUME MapInv, CpuStep
  PROVE  Through!ManagerStep
<1>1. /\ CachedRead # None => cpu_AR \in Reads /\ CachedRead = cpu_AR
      /\ CachedWrite # None => cpu_AW \in Writes /\ CachedWrite = cpu_AW
  BY DEF CachedRead, CachedWrite, MapInv, SidesAgree, CpuReads, CpuWrites
<1>2. /\ CachedRead' \in Reads \cup {None} /\ CachedWrite' \in Writes \cup {None}
      /\ CachedRead' = None \/ CachedWrite' = None
  <2>1. cpu_AR' \in CpuReads /\ cpu_AW' \in CpuWrites /\ (cpu_AR' = None \/ cpu_AW' = None)
    BY DEF CpuStep, MapInv, SidesAgree
  <2>2. None \notin DeviceReads \cup LedWrites \cup PixelWrites
    BY DeviceAssumption, NoneAssumption
  <2> QED
    BY <2>1, <2>2 DEF CachedRead, CachedWrite, CpuReads, CpuWrites
<1>3. CachedRead # None /\ ~proc_ARREADY => CachedRead' = CachedRead
  BY <1>1 DEF CachedRead, CpuStep, CpuReadAccepted
<1>4. CachedWrite # None /\ ~(proc_AWREADY /\ proc_WREADY) => CachedWrite' = CachedWrite
  BY <1>1 DEF CachedWrite, CpuStep, CpuWriteAccepted
<1> QED
  BY <1>2, <1>3, <1>4 DEF Through!ManagerStep, Through!ReadAccepted, Through!WriteAccepted, CpuStep

\* Every edge is a cycle of the atomic memory, without the device requests.
LEMMA MapRefines ==
  ASSUME MapInv, MapInv', [HEdge \/ HReset]_<<vars, mapVars, historyVars>>
  PROVE  [Through!Cycle \/ Through!Reset]_Through!vars
<1>1. CASE HEdge
  <2>1. CycleParts /\ Through!ManagerStep
    BY <1>1, TickRefines, CachedOffer DEF HEdge, MapEdge, MapInv
  <2>2. /\ CachedRead # None /\ proc_ARREADY <=> ReadAccepted
        /\ ReadAccepted => CachedRead = proc_AR
        /\ CachedWrite # None /\ proc_AWREADY /\ proc_WREADY <=> WriteAccepted
        /\ WriteAccepted => CachedWrite = proc_AW
    BY Accepted DEF MapInv, CachedRead, CachedWrite, CpuReadAccepted, CpuWriteAccepted
  <2>3. /\ Through!ReadAccepted <=> ReadAccepted
        /\ Through!WriteAccepted <=> WriteAccepted
        /\ Through!ReadReplyTaken <=> ReadReplyTaken
        /\ Through!WriteReplyTaken <=> WriteReplyTaken
        /\ Through!ReadReplyRefused <=> ReadReplyRefused
        /\ Through!WriteReplyRefused <=> WriteReplyRefused
    BY <2>2 DEF Through!ReadAccepted, Through!WriteAccepted, Through!ReadReplyTaken, ReadReplyTaken,
       Through!WriteReplyTaken, WriteReplyTaken, Through!ReadReplyRefused, ReadReplyRefused,
       Through!WriteReplyRefused, WriteReplyRefused
  <2>4. Through!Accept
    BY <2>1, <2>2, <2>3 DEF CycleParts, AcceptPart, Through!Accept, Through!Apply, Atomic!Apply,
       Through!Merge, Atomic!Merge
  <2>5. Through!Owe
    BY <2>1, <2>2, <2>3 DEF CycleParts, OweReadPart, OweWritePart, Through!Owe
  <2>6. Through!Offer
    BY <2>1, <2>3 DEF CycleParts, OfferReadPart, OfferWritePart, Through!Offer
  <2> QED
    BY <2>1, <2>4, <2>5, <2>6 DEF Through!Cycle
<1>2. CASE HReset
  <2>1. CachedRead' = None /\ CachedWrite' = None
    BY <1>2 DEF HReset, MapReset, CpuReset, CachedRead, CachedWrite
  <2> QED
    BY <1>2, <2>1, ResetView DEF HReset, MapReset, CacheReset, CpuReset, Through!Reset, Through!ManagerReset
<1>3. CASE UNCHANGED <<vars, mapVars, historyVars>>
  BY <1>3, StutterView DEF mapVars, vars, procVars, managerVars, readyVars, replyVars, CachedRead, CachedWrite,
     Through!vars, Through!procVars, Through!managerVars, Through!readyVars, Through!replyVars
<1> QED
  BY <1>1, <1>2, <1>3

\* Through the map, to the addresses of memory, the datapath sees the atomic
\* memory that the cache promises.
THEOREM MapRefinement == HSpec => CachedTrafficAtomic
<1>1. HInit => Through!Init
  <2>1. SUFFICES ASSUME HInit PROVE Through!Init
    OBVIOUS
  <2>2. MapInv
    BY <2>1, MapInitInv
  <2>3. CachedRead = None /\ CachedWrite = None
    BY <2>1 DEF HInit, MapInit, CachedRead, CachedWrite
  <2> QED
    BY <2>1, <2>2, <2>3, InitView DEF MapInv, HInit, MapInit, CacheInit, Through!Init, Through!AnyOffer,
       Through!Addr, Through!Word, Addr, Word
<1>2. MapInv /\ MapInv' /\ [HEdge \/ HReset]_<<vars, mapVars, historyVars>>
        => [Through!Cycle \/ Through!Reset]_Through!vars
  BY MapRefines
<1> QED
  BY <1>1, <1>2, MapInvariance, PTL DEF HSpec, Through!Spec, CachedTrafficAtomic
=============================================================================
