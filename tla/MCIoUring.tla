------------------------------ MODULE MCIoUring ------------------------------
(* The life of a small ring, with each way to have the queue looked at.    *)
EXTENDS IoUring

Entered == [sqpoll |-> FALSE, short |-> FALSE, buffered |-> FALSE]
Polled == [sqpoll |-> TRUE, short |-> FALSE, buffered |-> FALSE]
PolledBuffered == [sqpoll |-> TRUE, short |-> FALSE, buffered |-> TRUE]

AnyTrigger == {Entered, Polled, PolledBuffered}
=============================================================================
