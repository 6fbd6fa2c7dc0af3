--------------------------- MODULE MCCacheSystem ---------------------------
(***************************************************************************)
(* Small instances of CacheSystem for TLC: two sets, two tags.  Two of the *)
(* three addresses used share a set, so that lines are evicted; the third  *)
(* lives in the other set, so that a line survives its neighbour's misses. *)
(***************************************************************************)
EXTENDS CacheSystem

CONSTANTS t0, t1

AllTags == {t0, t1}

At(t, i) == [tag |-> t, index |-> i]

\* A conflicting pair and a bystander.
ThreeAddresses == {At(t0, 0), At(t1, 0), At(t0, 1)}

Write(a, v, lanes) ==
  [addr |-> a, wdata |-> [l \in Lane |-> v], wstrb |-> lanes]

\* Two-lane words: both values in a lane of one address, the empty strobe, the
\* other lane of the address it conflicts with, and a whole word next door.
PartialWrites ==
  {Write(At(t0, 0), 0, {0}), Write(At(t0, 0), 1, {0}), Write(At(t0, 0), 1, {}),
   Write(At(t1, 0), 1, {1}), Write(At(t0, 1), 1, Lane)}

\* One-lane words, for what does not depend on lanes.
WordWrites ==
  {Write(At(t0, 0), 0, Lane), Write(At(t0, 0), 1, Lane), Write(At(t0, 0), 1, {}),
   Write(At(t1, 0), 1, Lane), Write(At(t0, 1), 1, Lane)}

\* Memory that starts with the zero byte everywhere.
ZeroImages == {[a \in Addr |-> ZeroWord]}

\* Control only: every word is the same, every request is still distinguished.
PlainWrites == {Write(a, 0, Lane) : a \in ThreeAddresses}

\* Every read and every write that was accepted is eventually answered.
ReadsAnswered  == Atomic!ReadsAnswered
WritesAnswered == Atomic!WritesAnswered

\* A request that is offered is eventually accepted, unless a reset drops it.
RequestsTaken ==
  (proc_AR # None \/ proc_AW # None) ~>
    \/ ReadAccepted \/ WriteAccepted
    \/ proc_AR = None /\ proc_AW = None

-----------------------------------------------------------------------------
\* What the source says of the cache, under any manager (AnySpec).

\* AxilCache_ref.sv line 445: assert(saved.is_read).
BufferedRequestIsRead ==
  current_state = MANAGER_READY /\ proc_RREADY => saved.is_read

\* testbench_dmcache_miss.py lines 181-183, testReadMissAfterWaitingHit: a read
\* response (there a hit's) that was refused when a read miss was accepted
\* behind it, and is taken while that miss is being served, is no longer offered.
TakenReplyWithdrawn ==
  [][ReadReplyTaken /\ current_state' = FILL /\ saved'.is_read => proc_R' = None]_vars
=============================================================================
