------------------------------- MODULE IoUring -------------------------------
(***************************************************************************)
(* uring/src/lib.rs and detail.rs: the life of a ring.  with_params sets   *)
(* it up with up to four system calls, any of which may fail; the queues   *)
(* of UringQueues work between that and the drop, which takes it down.     *)
(* Other threads of the process map memory meanwhile, where it is free.    *)
(***************************************************************************)
EXTENDS UringQueues

CONSTANTS
  Features,     \* whether the kernel reports SINGLE_MMAP: a set of BOOLEANs
  Null,
  AvoidSingle   \* with SINGLE_MMAP the mapping of the SQEs does not fail

Addrs == 1 .. 3

ASSUME UringAssumption ==
  Features \subseteq BOOLEAN /\ AvoidSingle \in BOOLEAN /\ Null \notin Addrs

VARIABLES
  phase,        \* the next step of with_params, "open", "undo", "failed", "dropped"
  single,       \* Features::SINGLE_MMAP
  fd,           \* "none", "open" or "closed"
  sqRing, cqRing, sqesAt,   \* the pointers: an address or Null
  space,        \* address -> whose mapping is there: "free", "ring", "other"
  array,        \* the indirection array of the submission ring
  undo,         \* system calls still to be made: addresses to unmap, then close
  harm          \* history: a mapping of another thread was unmapped

ringVars == <<phase, single, fd, sqRing, cqRing, sqesAt, space, array, undo, harm>>
uringVars == <<vars, ringVars>>

UringInit ==
  /\ Init
  /\ phase = "setup" /\ single \in Features /\ fd = "none"
  /\ sqRing = Null /\ cqRing = Null /\ sqesAt = Null
  /\ space = [a \in Addrs |-> "free"]
  /\ array = [s \in 0 .. SqEntries - 1 |-> 0]
  /\ undo = <<>> /\ harm = FALSE

-----------------------------------------------------------------------------
(* with_params and mmap_queues.                                             *)

Lowest(a) == space[a] = "free" /\ \A b \in Addrs : b < a => space[b] # "free"

\* The error path: unmap what is given, close, return Err.
Fail(addrs) == phase' = "undo" /\ undo' = addrs

\* io_uring_setup
Setup(ok) ==
  /\ phase = "setup"
  /\ phase' = IF ok THEN "sq" ELSE "failed"
  /\ fd' = IF ok THEN "open" ELSE fd
  /\ UNCHANGED <<vars, single, sqRing, cqRing, sqesAt, space, array, undo, harm>>

MapSq(ok) ==
  /\ phase = "sq"
  /\ IF ok
     THEN \E a \in Addrs : /\ Lowest(a) /\ space' = [space EXCEPT ![a] = "ring"]
                           /\ sqRing' = a /\ phase' = "cq" /\ UNCHANGED undo
     ELSE Fail(<<>>) /\ UNCHANGED <<space, sqRing>>
  /\ UNCHANGED <<vars, single, fd, cqRing, sqesAt, array, harm>>

\* With SINGLE_MMAP both rings are in the one mapping.
ShareMapping ==
  /\ phase = "cq" /\ single
  /\ cqRing' = sqRing /\ phase' = "sqes"
  /\ UNCHANGED <<vars, single, fd, sqRing, sqesAt, space, array, undo, harm>>

MapCq(ok) ==
  /\ phase = "cq" /\ ~single
  /\ IF ok
     THEN \E a \in Addrs : /\ Lowest(a) /\ space' = [space EXCEPT ![a] = "ring"]
                           /\ cqRing' = a /\ phase' = "sqes" /\ UNCHANGED undo
     ELSE Fail(<<sqRing>>) /\ UNCHANGED <<space, cqRing>>
  /\ UNCHANGED <<vars, single, fd, sqRing, sqesAt, array, harm>>

\* Seeded fault: the mapping of the completion ring is forgotten.
BadSqesFailure == <<sqRing>>

\* What is unmapped when the SQEs cannot be mapped: both pointers, even when
\* they are the same.
SqesFailure == <<sqRing, cqRing>>

MapSqes(ok) ==
  /\ phase = "sqes"
  /\ ok \/ ~(AvoidSingle /\ single)
  /\ IF ok
     THEN \E a \in Addrs : /\ Lowest(a) /\ space' = [space EXCEPT ![a] = "ring"]
                           /\ sqesAt' = a /\ phase' = "array" /\ UNCHANGED undo
     ELSE Fail(SqesFailure) /\ UNCHANGED <<space, sqesAt>>
  /\ UNCHANGED <<vars, single, fd, sqRing, cqRing, array, harm>>

\* Seeded fault: the last entry is left out.
BadFilled == [s \in 0 .. SqEntries - 1 |-> IF s < SqEntries - 1 THEN s ELSE 0]

\* The indirection array, for i in 0 .. mask + 1 (kring_mask is entries - 1).
Filled == [s \in 0 .. SqEntries - 1 |-> s]

FillArray ==
  /\ phase = "array"
  /\ array' = Filled
  /\ phase' = "open"
  /\ UNCHANGED <<vars, single, fd, sqRing, cqRing, sqesAt, space, undo, harm>>

-----------------------------------------------------------------------------
(* Drop and the error paths.                                                *)

\* unmap_queues: the rings, once if they share a mapping.  The mapping of the
\* SQEs is not among them.
DropRing ==
  /\ phase = "open" /\ sys.at = "user" /\ batch = <<>>
  /\ undo' = IF cqRing # sqRing THEN <<sqRing, cqRing>> ELSE <<sqRing>>
  /\ phase' = "undo"
  /\ UNCHANGED <<vars, single, fd, sqRing, cqRing, sqesAt, space, array, harm>>

\* munmap of the next address, whoever's mapping is there by now.
Unmap ==
  /\ phase = "undo" /\ undo # <<>>
  /\ harm' = (harm \/ space[Head(undo)] = "other")
  /\ space' = [space EXCEPT ![Head(undo)] = "free"]
  /\ undo' = Tail(undo)
  /\ UNCHANGED <<vars, phase, single, fd, sqRing, cqRing, sqesAt, array>>

Close ==
  /\ phase = "undo" /\ undo = <<>>
  /\ fd' = "closed"
  /\ phase' = IF sqesAt = Null THEN "failed" ELSE "dropped"
  /\ UNCHANGED <<vars, single, sqRing, cqRing, sqesAt, space, array, undo, harm>>

\* Another thread maps memory; it matters where the ring has just left.
OtherMaps ==
  /\ phase = "undo"
  /\ \E a \in Addrs : Lowest(a) /\ space' = [space EXCEPT ![a] = "other"]
  /\ UNCHANGED <<vars, phase, single, fd, sqRing, cqRing, sqesAt, array, undo, harm>>

-----------------------------------------------------------------------------
SetupStep(ok) == Setup(ok) \/ MapSq(ok) \/ MapCq(ok) \/ MapSqes(ok)

\* The queues are there while the ring is open.
UringNext ==
  \/ \E ok \in BOOLEAN : SetupStep(ok)
  \/ ShareMapping \/ FillArray \/ DropRing \/ Unmap \/ Close \/ OtherMaps
  \/ phase = "open" /\ Next /\ UNCHANGED ringVars

UringSpec == UringInit /\ [][UringNext]_uringVars

\* Step A of the queues of an open ring.
Working(A) == phase = "open" /\ A /\ UNCHANGED ringVars

\* While the ring is open the program keeps submitting and reaping, stores
\* become visible, the kernel serves what it takes, and a call that fails with
\* EAGAIN or EBUSY does not fail forever.  Nothing makes the owner drop it.
FairUringSpec ==
  /\ UringSpec
  /\ WF_uringVars(Working(SqAdvance)) /\ WF_uringVars(Working(StoreVisible))
  /\ WF_uringVars(Working(SubmitAndWait(0))) /\ SF_uringVars(Working(EnterTakes))
  /\ WF_uringVars(Working(EnterWakes)) /\ WF_uringVars(Working(EnterReturns))
  /\ WF_uringVars(Working(PollTakes))
  /\ \A o \in Ops : SF_uringVars(Working(Post(o)))
  /\ WF_uringVars(Working(Available)) /\ WF_uringVars(Working(CqAdvance))

-----------------------------------------------------------------------------
(* Properties.                                                              *)

Mapped == {a \in Addrs : space[a] = "ring"}

\* A ring that with_params has returned is what the queues take for granted:
\* every region they read and write is mapped, the regions are different but
\* for the shared one, and slot s of the ring names SQE s.
OpenIsReady ==
  phase = "open" =>
    /\ fd = "open" /\ {sqRing, cqRing, sqesAt} = Mapped
    /\ sqesAt \notin {sqRing, cqRing} /\ (sqRing = cqRing <=> single)
    /\ \A s \in 0 .. SqEntries - 1 : array[s] = s

\* Whichever call fails, an Err leaves nothing mapped and no descriptor open; a
\* drop unmaps both rings and closes; and no memory of another thread is ever
\* unmapped.
FailureIsClean ==
  /\ ~harm
  /\ phase = "failed" => Mapped = {} /\ fd # "open"
  /\ phase = "dropped" => Mapped \cap {sqRing, cqRing} = {} /\ fd = "closed"

\* Every queued request is eventually completed and read by the program unless
\* the ring is dropped first, with a kernel that takes all it is offered and a
\* processor that keeps the order of a store and a later load.
EveryRequestCompletes ==
  \A o \in Ops :
    ~mode.short /\ ~mode.buffered /\ o \in ToSet(SqContents)
      ~> o \in ToSet(batch) \/ phase # "open"
=============================================================================
