--------------------------------- MODULE Join ---------------------------------
(***************************************************************************)
(* hamerkop/src/util/join.rs: Join, as a task awaits join.next() in a loop *)
(* until it returns None.  A poll runs on the runtime's thread, which also *)
(* processes the completions, so nothing happens in the middle of one.     *)
(***************************************************************************)
EXTENDS Naturals, FiniteSets

CONSTANT NFuts      \* futures joined (STARTING_BUFFERS in the ping server)

VARIABLES
  finished,         \* futures whose operation has completed
  taken,            \* `state`: futures whose result next() has returned
  registered,       \* futures that will wake the task when they complete
  joiner            \* the task: "ready" (to be polled), "asleep" or "joined"

joinVars == <<finished, taken, registered, joiner>>

Futs == 1 .. NFuts

JoinInit ==
  /\ finished = {} /\ taken = {} /\ registered = {}
  /\ joiner = "ready"

\* The completion of one operation wakes the task if it waits for that one.
FutFinishes(f) ==
  /\ f \in Futs \ finished
  /\ finished' = finished \cup {f}
  /\ registered' = registered \ {f}
  /\ joiner' = IF f \in registered /\ joiner = "asleep" THEN "ready" ELSE joiner
  /\ UNCHANGED taken

Waiting == Futs \ taken
Before(f) == {g \in Waiting : g < f}

\* Seeded fault: the futures are looked at, not polled with the task's waker.
BadPollNone ==
  /\ joiner = "ready" /\ Waiting # {} /\ Waiting \cap finished = {}
  /\ joiner' = "asleep"
  /\ UNCHANGED <<finished, taken, registered>>

\* JoinNext::poll, when a future is ready: the ones before it were polled, the
\* ones after it were not.  The task takes the result and awaits next() again.
PollTakes(f) ==
  /\ joiner = "ready"
  /\ f \in Waiting \cap finished /\ Before(f) \cap finished = {}
  /\ taken' = taken \cup {f}
  /\ registered' = registered \cup Before(f)
  /\ UNCHANGED <<finished, joiner>>

\* When none is ready: Pending if there was one to poll.
PollNone ==
  /\ joiner = "ready" /\ Waiting # {} /\ Waiting \cap finished = {}
  /\ registered' = registered \cup Waiting
  /\ joiner' = "asleep"
  /\ UNCHANGED <<finished, taken>>

\* None: all results have been returned.
PollEnds ==
  /\ joiner = "ready" /\ Waiting = {}
  /\ joiner' = "joined"
  /\ UNCHANGED <<finished, taken, registered>>
=============================================================================
