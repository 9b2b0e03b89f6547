------------------------------ MODULE UringFifo ------------------------------
(***************************************************************************)
(* What the pair of rings promises, with no cursors and no slots: requests *)
(* reach the kernel in the order they were queued, each exactly once, and  *)
(* the program reads completions in the order the kernel posted them, each *)
(* exactly once, and gives back only the ones it has read.                 *)
(***************************************************************************)
EXTENDS Sequences, Naturals, FiniteSets, SequencesExt

CONSTANT Ops

VARIABLES
  sq,        \* queued requests, oldest first
  inflight,  \* requests the kernel has taken and not completed
  cq,        \* posted completions, oldest first
  batch      \* completions the program has read and not given back

vars == <<sq, inflight, cq, batch>>

InUse == ToSet(sq) \cup inflight \cup ToSet(cq)

\* Non-empty sequences of distinct requests that are not in use.
Fresh == {b \in UNION {[1 .. n -> Ops \ InUse] : n \in 1 .. Cardinality(Ops)} :
            IsInjective(b)}

Init == sq = <<>> /\ inflight = {} /\ cq = <<>> /\ batch = <<>>

Queue(b) ==
  /\ sq' = sq \o b
  /\ UNCHANGED <<inflight, cq, batch>>

\* The kernel takes the n oldest requests.
Consume(n) ==
  /\ sq' = SubSeq(sq, n + 1, Len(sq))
  /\ inflight' = inflight \cup {sq[i] : i \in 1 .. n}
  /\ UNCHANGED <<cq, batch>>

Post(o) ==
  /\ inflight' = inflight \ {o}
  /\ cq' = Append(cq, o)
  /\ UNCHANGED <<sq, batch>>

Read ==
  /\ cq # <<>>
  /\ batch' = cq
  /\ UNCHANGED <<sq, inflight, cq>>

Retire ==
  /\ cq' = SubSeq(cq, Len(batch) + 1, Len(cq))
  /\ batch' = <<>>
  /\ UNCHANGED <<sq, inflight>>

Next ==
  \/ \E b \in Fresh : Queue(b)
  \/ \E n \in 1 .. Len(sq) : Consume(n)
  \/ \E o \in inflight : Post(o)
  \/ Read
  \/ Retire

Spec == Init /\ [][Next]_vars
=============================================================================
