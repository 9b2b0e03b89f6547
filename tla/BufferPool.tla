------------------------------ MODULE BufferPool ------------------------------
(***************************************************************************)
(* What the executor's pool of provided buffers promises: where the memory *)
(* of each buffer is, and who may hand it on.  Any number of buffers may   *)
(* move in one step, since one pass over the completion ring handles all   *)
(* of its entries.                                                         *)
(***************************************************************************)
CONSTANT Bufs

VARIABLE place

\* A buffer id is
\*   "out"      not in use: the memory belongs to a task, if it exists,
\*   "offered"  in the pool, and named by a request to provide it,
\*   "group"    in the pool, and the kernel's to fill,
\*   "picked"   in the pool, and named by the completion of a read,
\*   "leaked"   in the pool for good: the future that would have taken it out
\*              was dropped.
Places == {"out", "offered", "group", "picked", "leaked"}

Moves == { <<"out", "offered">>,
           <<"offered", "group">>, <<"offered", "out">>, <<"offered", "leaked">>,
           <<"group", "picked">>,
           <<"picked", "out">>, <<"picked", "leaked">> }

Init == place = [b \in Bufs |-> "out"]

Move(b, to) == to = place[b] \/ <<place[b], to>> \in Moves

Next ==
  /\ place' \in [Bufs -> Places]
  /\ \A b \in Bufs : Move(b, place'[b])

Spec == Init /\ [][Next]_place
=============================================================================
