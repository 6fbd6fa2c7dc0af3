--------------------------- MODULE AtomicMemory ---------------------------
(***************************************************************************)
(* What an AXI-Lite memory subordinate promises its manager, with no word  *)
(* about lines, tags or states: every accepted request is answered exactly *)
(* once; read responses come in the order of the reads and carry the value *)
(* of the store when the read was accepted; a write response is offered    *)
(* only once the write is in the store; a response stays offered until it  *)
(* is taken; and a reset loses no write that is in the store.              *)
(***************************************************************************)
EXTENDS AxiLite, Sequences

VARIABLES
  store,    \* the value of each address
  pend,     \* a write accepted but not yet in the store, or None
  owedR,    \* the read values owed to the manager, oldest first
  owedB     \* the number of write responses owed to the manager

vars == <<procVars, store, pend, owedR, owedB>>

Apply(w) == [store EXCEPT ![w.addr] = Merge(@, w.wdata, w.wstrb)]

Init ==
  /\ AnyOffer
  /\ proc_R = None /\ proc_BVALID = FALSE
  /\ store \in [Addr -> Word]
  /\ pend = None
  /\ owedR = <<>>
  /\ owedB = 0

\* Requests are taken one at a time: none while a write is pending.
Accept ==
  /\ ReadAccepted \/ WriteAccepted => pend = None
  /\ \/ WriteAccepted /\ store' = Apply(proc_AW) /\ pend' = None
     \/ WriteAccepted /\ pend' = proc_AW /\ UNCHANGED store
     \/ ~WriteAccepted /\ pend # None /\ store' = Apply(pend) /\ pend' = None
     \/ ~WriteAccepted /\ UNCHANGED <<store, pend>>

Owe ==
  /\ owedR' = (IF ReadReplyTaken THEN Tail(owedR) ELSE owedR)
              \o (IF ReadAccepted THEN <<store[proc_AR]>> ELSE <<>>)
  /\ owedB' = (IF WriteReplyTaken THEN owedB - 1 ELSE owedB)
              + (IF WriteAccepted THEN 1 ELSE 0)

Offer ==
  /\ proc_R' # None => owedR' # <<>> /\ proc_R' = Head(owedR')
  /\ ReadReplyRefused => proc_R' = proc_R
  /\ proc_BVALID' => owedB' > (IF pend' # None THEN 1 ELSE 0)
  /\ WriteReplyRefused => proc_BVALID'

Cycle == Accept /\ Owe /\ Offer /\ ManagerStep

Reset ==
  /\ pend' = None
  /\ owedR' = <<>>
  /\ owedB' = 0
  /\ proc_R' = None /\ proc_BVALID' = FALSE
  /\ UNCHANGED store
  /\ ManagerReset

Spec == Init /\ [][Cycle \/ Reset]_vars

\* An owed response is eventually offered, unless a reset cancels it.
ReadsAnswered  == owedR # <<>> ~> proc_R # None \/ owedR = <<>>
WritesAnswered == owedB > 0 ~> proc_BVALID \/ owedB = 0
=============================================================================
