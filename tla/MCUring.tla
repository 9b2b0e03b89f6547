------------------------------- MODULE MCUring -------------------------------
(***************************************************************************)
(* The rings and what is written into them, in two parts that share no     *)
(* state; a behaviour is about the one that `part` names.                  *)
(*                                                                         *)
(* - UringQueues: a request is reused once its completion was given back,  *)
(*   so the cursors run through U32 any number of times and every          *)
(*   alignment of head, tail and wrap occurs.                              *)
(* - SqePrepare: in a ring of two slots, the first is used by any request  *)
(*   type after any other, the second by what LinkedSubmitter links.       *)
(***************************************************************************)
EXTENDS UringQueues, SqePrepare, TLC

VARIABLE part

Entered == [sqpoll |-> FALSE, short |-> FALSE, buffered |-> FALSE]
EnteredShort == [sqpoll |-> FALSE, short |-> TRUE, buffered |-> FALSE]
Polled == [sqpoll |-> TRUE, short |-> FALSE, buffered |-> FALSE]

EachMode == {Entered, EnteredShort, Polled}

\* Types whose prep_sqe stores all settings.
Complete == DOMAIN Builders \
  {"ReadVectored", "WriteVectored", "ReadFixed", "WriteFixed", "SendMsg", "RecvMsg"}

MCInit ==
  /\ Init
  /\ \/ /\ part = "queues"
        /\ slots = <<>> /\ tail = 0 /\ chain = <<>> /\ asked = <<>> /\ sent = <<>>
     \/ part = "prepare" /\ mode = Entered /\ PrepInit

QueuesStep == part = "queues" /\ Next /\ UNCHANGED <<part, prepVars>>

PrepareStep ==
  /\ part = "prepare"
  /\ PrepNext
  /\ slots'[1].opcode \in {"Nop", "Read", "Write", "ProvideBuffers"}
  /\ UNCHANGED <<part, vars>>

MCNext == QueuesStep \/ PrepareStep

MCSpec == MCInit /\ [][MCNext]_<<part, vars, prepVars>>

\* Requests are interchangeable (used with safety properties only).
Symmetry == Permutations(Ops)
=============================================================================
