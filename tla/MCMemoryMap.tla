---------------------------- MODULE MCMemoryMap ----------------------------
(***************************************************************************)
(* The memory map in front of a cache of one line: two cached addresses    *)
(* that conflict, a device to read, LEDs and a word of two pixels.         *)
(***************************************************************************)
EXTENDS MemoryMapHistory

CONSTANTS t0, t1, t2, t3, t4

MCTags == {t0, t1, t2, t3, t4}
At(t) == [tag |-> t, index |-> 0]
Bytes(v) == [l \in Lane |-> v]
Store(t, v, lanes) == [addr |-> At(t), wdata |-> Bytes(v), wstrb |-> lanes]

MCReads       == {At(t0), At(t1)}
MCWrites      == {Store(t0, 1, {0}), Store(t1, 1, Lane)}
MCDeviceReads == {At(t2)}
MCLedWrites   == {Store(t3, 1, {0}), Store(t3, 0, {0})}
MCPixelWrites == {Store(t4, 1, {l}) : l \in Lane} \cup {Store(t4, 0, Lane)}
MCInput       == {Bytes(0), Bytes(1)}
MCImages      == {[a \in Addr |-> Bytes(0)]}
=============================================================================
