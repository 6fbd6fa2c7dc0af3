----------------------------- MODULE OneAtATime -----------------------------
(***************************************************************************)
(* Which managers keep Contract.  A manager that offers a request only     *)
(* when every response to its earlier ones has been taken is the one of    *)
(* most of the tests (cocotb's AxiLiteMaster, testbench_dmcache_hit.py).   *)
(* In a cycle in which the manager of this specification is patient it     *)
(* does as it likes with RREADY and BREADY, and nothing says Contract of   *)
(* that cycle: that Contract holds all the same is a result.               *)
(***************************************************************************)
EXTENDS CacheSystem

VARIABLE outstanding   \* what the manager counts: responses it awaits

oneVars == <<vars, outstanding>>

One(happened) == IF happened THEN 1 ELSE 0

\* The manager counts the handshakes it sees.
Counted ==
  outstanding' = outstanding + One(ReadAccepted) + One(WriteAccepted)
                             - One(ReadReplyTaken) - One(WriteReplyTaken)

Patient == proc_AR # None \/ proc_AW # None => outstanding = 0

OneInit == Init /\ outstanding = 0

OneEdge == ClockEdge /\ Counted /\ (Contract' \/ Patient')

OneReset == ResetEdge /\ outstanding' = 0

OneSpec == OneInit /\ [][OneEdge \/ OneReset]_oneVars

-----------------------------------------------------------------------------
\* The manager counts right: what it awaits is what the atomic memory owes it.
CountedRight == outstanding = Len(AbsOwedR) + AbsOwedB
=============================================================================
