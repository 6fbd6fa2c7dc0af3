----------------------------- MODULE MemoryMap -----------------------------
(***************************************************************************)
(* The module MemoryMap of hw6-cache/system/System.sv: the "bump on the    *)
(* wire" between the datapath and the data cache.  It answers accesses to  *)
(* device addresses itself, one cycle later, hides them from the cache,    *)
(* and passes everything else through; it keeps of the last cycle what     *)
(* was accepted in it.                                                     *)
(*                                                                         *)
(* cpu_AR and cpu_AW are the datapath's side of the request channels (the  *)
(* interface `proc' of the source); proc_AR and proc_AW of AxiLite are the *)
(* cache's side (the interface `cache').  They are wires: a step sets them *)
(* from the values cpu_AR, cpu_AW and the READYs take in that step.  The   *)
(* other signals are one wire on both sides, but for the responses, which  *)
(* the datapath sees through a multiplexer.                                *)
(***************************************************************************)
EXTENDS CacheSystem

CONSTANTS
  DeviceReads,    \* MmapButtons, MmapUsb, MmapRng
  LedWrites,      \* writes to MmapLeds
  PixelWrites,    \* writes between MmapHdmiStart and MmapHdmiEnd
  Input           \* what a device reads as

Devices == DeviceReads \cup {w.addr : w \in LedWrites \cup PixelWrites}
Pixel   == {w.addr : w \in PixelWrites} \X Lane

\* The address map of lines 154-172.
ASSUME DeviceAssumption ==
  /\ DeviceReads \subseteq Addr
  /\ LedWrites \subseteq WriteRequest /\ PixelWrites \subseteq WriteRequest
  /\ {w.addr : w \in LedWrites} \cap {w.addr : w \in PixelWrites} = {}
  /\ None \notin Input \cup LedWrites \cup PixelWrites

\* Of the program, not of the map: it loads from a device only what reads as
\* that device and stores only what the device is to show, as the games do
\* (read_volatile and write_volatile in atarvi-native/src).  The map
\* does not see to it.  Lines 207-211 hide loads of buttons, gamepad and random
\* numbers, and lines 218-221 stores to LEDs and pixels; a load of a pixel or a
\* store to the buttons' address goes on to the cache like any other access,
\* and from there, its address truncated by AxilMemory, to a word that may be
\* the program's own.
ASSUME ProgramAssumption ==
  Devices \cap (Reads \cup {w.addr : w \in Writes}) = {}

VARIABLES
  cpu_AR, cpu_AW,
  last_AR,        \* the address of the read accepted in the last cycle, or None
  last_AW,        \* the write accepted in the last cycle, or None
  input,          \* the buttons, gamepad and random numbers of this cycle
  led_state,
  frame_buffer

deviceVars == <<input, led_state, frame_buffer>>
mapVars == <<cpu_AR, cpu_AW, last_AR, last_AW, deviceVars>>

\* A request of this cycle that a device serves.  The mutants leave it to the
\* cache as well.
HideNoRead(ar, ready)  == FALSE
HideNoWrite(aw, ready) == FALSE
is_read(ar, ready)  == ready /\ ar \in DeviceReads
is_write(aw, ready) == ready /\ aw \in LedWrites \cup PixelWrites

\* Lines 178 and 191-192: what the cache sees of the request channels.
CacheSide ==
  /\ proc_AR' = IF is_read(cpu_AR', proc_ARREADY') THEN None ELSE cpu_AR'
  /\ proc_AW' = IF is_write(cpu_AW', proc_AWREADY' /\ proc_WREADY') THEN None ELSE cpu_AW'

\* Lines 212-216 and 222-225: is a device answering in this cycle?
was_read  == last_AR \in DeviceReads
was_led   == last_AW \in LedWrites
was_hdmi  == last_AW \in PixelWrites
was_write == was_led \/ was_hdmi

\* Lines 182-186 and 199: the responses the datapath sees.
cpu_R == IF was_read THEN input ELSE proc_R
cpu_BVALID == was_write \/ proc_BVALID

CpuReadAccepted  == cpu_AR # None /\ proc_ARREADY
CpuWriteAccepted == cpu_AW # None /\ proc_AWREADY /\ proc_WREADY

\* Lines 241-251.  The mutant forgets last_arready.
RememberOffered ==
  last_AR' = cpu_AR /\ last_AW' = IF CpuWriteAccepted THEN cpu_AW ELSE None
Remember ==
  /\ last_AR' = IF CpuReadAccepted THEN cpu_AR ELSE None
  /\ last_AW' = IF CpuWriteAccepted THEN cpu_AW ELSE None

\* Lines 274-282 and 342-362: a pixel is a byte, and only a store of one byte
\* changes it.  The mutant colours the pixel of lane 0 whatever the strobe.
FirstLane(w) == {CHOOSE l \in Lane : \A k \in Lane : l <= k}
StoredLane(w) == {l \in Lane : w.wstrb = {l}}

DeviceTick ==
  /\ led_state' = IF was_led THEN last_AW.wdata ELSE led_state
  /\ frame_buffer' = IF was_hdmi
                     THEN [p \in Pixel |->
                             IF p[1] = last_AW.addr /\ p[2] \in StoredLane(last_AW)
                             THEN last_AW.wdata[p[2]] ELSE frame_buffer[p]]
                     ELSE frame_buffer
  /\ input' \in Input

DeviceReset ==
  /\ led_state' = ZeroWord
  /\ UNCHANGED frame_buffer
  /\ input' \in Input

-----------------------------------------------------------------------------
\* The datapath always takes responses (AxilCache_ref.sv, lines 166-167), holds
\* a request until it is accepted, and never offers both kinds at once.  What it
\* asks is what the program does: the cached accesses Reads and Writes, and of
\* each device what it serves (ProgramAssumption).
CpuReads  == Reads \cup DeviceReads \cup {None}
CpuWrites == Writes \cup LedWrites \cup PixelWrites \cup {None}

CpuStep ==
  /\ cpu_AR' \in IF cpu_AR # None /\ ~CpuReadAccepted THEN {cpu_AR} ELSE CpuReads
  /\ cpu_AW' \in IF cpu_AW # None /\ ~CpuWriteAccepted THEN {cpu_AW} ELSE CpuWrites
  /\ cpu_AR' = None \/ cpu_AW' = None
  /\ proc_RREADY' = TRUE /\ proc_BREADY' = TRUE

CpuReset ==
  /\ cpu_AR' = None /\ cpu_AW' = None
  /\ proc_RREADY' = TRUE /\ proc_BREADY' = TRUE

MapInit ==
  /\ CacheInit /\ MemInit
  /\ cpu_AR = None /\ cpu_AW = None
  /\ proc_AR = None /\ proc_AW = None
  /\ proc_RREADY = TRUE /\ proc_BREADY = TRUE
  /\ last_AR = None /\ last_AW = None
  /\ input \in Input
  /\ led_state = ZeroWord
  /\ frame_buffer \in [Pixel -> {Byte0}]

MapEdge == CacheTick /\ MemTick /\ CpuStep /\ CacheSide /\ Remember /\ DeviceTick

MapReset ==
  /\ CacheReset /\ MemReset /\ CpuReset /\ CacheSide
  /\ last_AR' = None /\ last_AW' = None
  /\ DeviceReset

MapSpec == MapInit /\ [][MapEdge \/ MapReset]_<<vars, mapVars>>
=============================================================================
