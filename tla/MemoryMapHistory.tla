-------------------------- MODULE MemoryMapHistory --------------------------
(***************************************************************************)
(* What the memory map promises the datapath, stated with history          *)
(* variables that record what the datapath is owed: `owed' is the sequence *)
(* of reads accepted and not answered, each with the value it must be      *)
(* answered with (None for a device, whose value is that of the cycle in   *)
(* which it answers), and `owedB' counts the writes.  `screen' and         *)
(* `lights' are the pixels and LEDs as if every accepted write had taken   *)
(* effect at once.                                                         *)
(***************************************************************************)
EXTENDS MemoryMap

VARIABLES owed, owedB, screen, lights

historyVars == <<owed, owedB, screen, lights>>

HInit == MapInit /\ owed = <<>> /\ owedB = 0 /\ screen = frame_buffer /\ lights = led_state

Promise == [addr |-> cpu_AR, value |-> IF cpu_AR \in DeviceReads THEN None ELSE Cached(cpu_AR)]

HEdge ==
  /\ MapEdge
  /\ owed' = (IF cpu_R # None /\ owed # <<>> THEN Tail(owed) ELSE owed)
             \o (IF CpuReadAccepted THEN <<Promise>> ELSE <<>>)
  /\ owedB' = (IF cpu_BVALID THEN owedB - 1 ELSE owedB) + (IF CpuWriteAccepted THEN 1 ELSE 0)
  /\ screen' = IF CpuWriteAccepted /\ cpu_AW \in PixelWrites
               THEN [p \in Pixel |-> IF p[1] = cpu_AW.addr /\ cpu_AW.wstrb = {p[2]}
                                     THEN cpu_AW.wdata[p[2]] ELSE screen[p]]
               ELSE screen
  /\ lights' = IF CpuWriteAccepted /\ cpu_AW \in LedWrites THEN cpu_AW.wdata ELSE lights

\* A pixel write accepted in the cycle before a reset is dropped with the rest.
HReset ==
  /\ MapReset
  /\ owed' = <<>> /\ owedB' = 0 /\ screen' = frame_buffer /\ lights' = ZeroWord

HSpec == HInit /\ [][HEdge \/ HReset]_<<vars, mapVars, historyVars>>

-----------------------------------------------------------------------------
\* Every variable of the map has its type, and the cache under it.
MapTypeOK ==
  /\ CacheTypeOK /\ MemTypeOK
  /\ cpu_AR \in CpuReads /\ last_AR \in CpuReads
  /\ cpu_AW \in CpuWrites /\ last_AW \in CpuWrites
  /\ led_state \in Word
  /\ frame_buffer \in [Pixel -> Byte]

\* The multiplexers of lines 182 and 199 have room for one response: when a
\* device answers, the cache is not offering one that would be hidden, and
\* taken for taken, behind it.
NoResponseHidden ==
  /\ was_read  => proc_R = None
  /\ was_write => ~proc_BVALID

\* The datapath's accesses are answered in order, each once: the response it
\* sees is that of its oldest read, from the device or the cache that serves
\* the address, with the last value written there when it was accepted; and at
\* most one is owed at a time, so none can overtake another.
AnsweredInOrder ==
  /\ cpu_R # None =>
       /\ owed # <<>>
       /\ was_read <=> Head(owed).addr \in DeviceReads
       /\ ~was_read => cpu_R = Head(owed).value
  /\ cpu_BVALID => owedB > 0
  /\ Len(owed) + owedB <= 1

\* An access that a device serves is never also served by the cache: as long as
\* the program asks of devices only what they serve (ProgramAssumption), no line
\* and no request of the cache has a device's address.  The accesses the map
\* does not hide (a load of a pixel, a store to the buttons) are outside of it.
DevicesUncached ==
  /\ \A i \in Index : valid[i] => victim_addr(i) \notin Devices
  /\ Busy => saved.addr \notin Devices

\* The frame buffer and the LEDs are one cycle behind the accepted writes, and
\* no write is skipped, doubled or put in the wrong pixel.
ScreenFollows ==
  /\ ~was_hdmi => frame_buffer = screen
  /\ ~was_led  => led_state = lights
  /\ \A p \in Pixel : frame_buffer[p] # screen[p] => was_hdmi /\ last_AW.addr = p[1]

\* To the cached addresses the datapath still sees an atomic memory: what the
\* map hides from the cache, the datapath did not ask of it.
CachedRead  == IF cpu_AR \in DeviceReads THEN None ELSE cpu_AR
CachedWrite == IF cpu_AW \in LedWrites \cup PixelWrites THEN None ELSE cpu_AW

Through == INSTANCE AtomicMemory WITH
  proc_AR <- CachedRead, proc_AW <- CachedWrite,
  store <- AbsStore, pend <- AbsPend, owedR <- AbsOwedR, owedB <- AbsOwedB

CachedTrafficAtomic == Through!Spec

-----------------------------------------------------------------------------
\* The datapath's side and the cache's side of the request channels.
SidesAgree ==
  /\ cpu_AR \in CpuReads /\ cpu_AW \in CpuWrites
  /\ cpu_AR = None \/ cpu_AW = None
  /\ proc_RREADY = TRUE /\ proc_BREADY = TRUE
  /\ proc_AR = IF is_read(cpu_AR, proc_ARREADY) THEN None ELSE cpu_AR
  /\ proc_AW = IF is_write(cpu_AW, proc_AWREADY /\ proc_WREADY) THEN None ELSE cpu_AW

\* A device answers in a cycle in which the cache has nothing to say, and the
\* cache never has to wait for the datapath.
DeviceAnswersAlone ==
  /\ was_read \/ was_write => current_state = AVAILABLE /\ proc_R = None /\ ~proc_BVALID
  /\ ~was_read \/ ~was_write
  /\ current_state # MANAGER_READY

\* One response is owed at most: the device's, or the one the cache offers or
\* prepares.
OwedOnce ==
  /\ was_read => owed = <<[addr |-> last_AR, value |-> None]>>
  /\ ~was_read /\ AbsOwedR = <<>> => owed = <<>>
  /\ ~was_read /\ AbsOwedR # <<>> =>
       \E a \in Reads : owed = <<[addr |-> a, value |-> Head(AbsOwedR)]>>
  /\ owedB = AbsOwedB + (IF was_write THEN 1 ELSE 0)
  /\ Len(owed) + owedB <= 1

\* Pixels and LEDs lack the write of the last cycle, if it was theirs.
ScreenLags ==
  /\ lights = IF was_led THEN last_AW.wdata ELSE led_state
  /\ screen = IF was_hdmi
              THEN [p \in Pixel |-> IF p[1] = last_AW.addr /\ last_AW.wstrb = {p[2]}
                                    THEN last_AW.wdata[p[2]] ELSE frame_buffer[p]]
              ELSE frame_buffer

\* The inductive invariant of HSpec.
MapInv ==
  /\ CacheInv /\ SidesAgree
  /\ last_AR \in CpuReads /\ last_AW \in CpuWrites /\ input \in Input
  /\ led_state \in Word /\ frame_buffer \in [Pixel -> Byte]
  /\ DeviceAnswersAlone /\ OwedOnce /\ DevicesUncached /\ ScreenLags
=============================================================================
