------------------------------- MODULE LazyCell -------------------------------
(***************************************************************************)
(* metrics/src/lazy_cell.rs: a cell that any number of threads force at the*)
(* same time; the first one runs the initialiser, the others spin.  Then   *)
(* the owner may use it alone (&mut self), take it apart or drop it.       *)
(*                                                                         *)
(* The accesses to `state` are atomic steps.  Its acquire loads and release*)
(* stores order the plain accesses to func and value around them, so those *)
(* are steps of their own.  funcEnds and valueEnds are history variables:  *)
(* how often the closure and the value were moved out or dropped.          *)
(***************************************************************************)
EXTENDS Naturals

CONSTANT Threads

VARIABLES
  state,      \* UNINIT, INIT_IN_PROGRESS, INIT or POISONED
  value,      \* "uninit" or "live", what the UnsafeCell holds
  alive,      \* the cell has not been dropped
  pc,         \* thread -> where it is in force; "ref": it holds a reference
  funcEnds, valueEnds

vars == <<state, value, alive, pc, funcEnds, valueEnds>>
cell == <<state, value, alive, funcEnds, valueEnds>>

Init ==
  /\ state = "UNINIT"
  /\ value = "uninit"
  /\ alive = TRUE
  /\ pc = [th \in Threads |-> "idle"]
  /\ funcEnds = 0 /\ valueEnds = 0

Goto(th, l) == pc' = [pc EXCEPT ![th] = l]

-----------------------------------------------------------------------------
(* &self: force (Deref) and get.                                            *)

\* get: a reference if there is one to have.
Get(th) ==
  /\ alive /\ pc[th] = "idle" /\ state = "INIT"
  /\ Goto(th, "ref")
  /\ UNCHANGED cell

\* force: the first load.
ForceLoad(th) ==
  /\ alive /\ pc[th] = "idle"
  /\ Goto(th, CASE state = "INIT" -> "ref"
                [] state = "POISONED" -> "panic"
                [] state \in {"INIT_IN_PROGRESS", "UNINIT"} -> "cas")
  /\ UNCHANGED cell

\* Seeded fault: a load and a store in place of the compare_exchange, here
\* seen as a thread that goes ahead while another one is initialising.
BadInitCas(th) ==
  /\ pc[th] = "cas"
  /\ IF state \in {"UNINIT", "INIT_IN_PROGRESS"}
     THEN /\ state' = "INIT_IN_PROGRESS"
          /\ funcEnds' = funcEnds + 1
          /\ Goto(th, "call")
     ELSE /\ Goto(th, IF state = "INIT" THEN "ref" ELSE "panic")
          /\ UNCHANGED <<state, funcEnds>>
  /\ UNCHANGED <<value, alive, valueEnds>>

\* init: the winner of the compare_exchange moves the closure out.
InitCas(th) ==
  /\ pc[th] = "cas"
  /\ IF state = "UNINIT"
     THEN /\ state' = "INIT_IN_PROGRESS"
          /\ funcEnds' = funcEnds + 1
          /\ Goto(th, "call")
     ELSE /\ Goto(th, CASE state = "INIT" -> "ref"
                        [] state = "INIT_IN_PROGRESS" -> "spin"
                        [] state = "POISONED" -> "panic")
          /\ UNCHANGED <<state, funcEnds>>
  /\ UNCHANGED <<value, alive, valueEnds>>

FuncReturns(th) ==
  /\ pc[th] = "call"
  /\ Goto(th, "write")
  /\ UNCHANGED cell

\* Seeded fault: the panic passes through and leaves the cell as it is.
BadFuncPanics(th) ==
  /\ pc[th] = "call"
  /\ Goto(th, "panic")
  /\ UNCHANGED cell

FuncPanics(th) ==
  /\ pc[th] = "call"
  /\ state' = "POISONED"
  /\ Goto(th, "panic")
  /\ UNCHANGED <<value, alive, funcEnds, valueEnds>>

WriteValue(th) ==
  /\ pc[th] = "write"
  /\ value' = "live"
  /\ Goto(th, "publish")
  /\ UNCHANGED <<state, alive, funcEnds, valueEnds>>

Publish(th) ==
  /\ pc[th] = "publish"
  /\ state' = "INIT"
  /\ Goto(th, "ref")
  /\ UNCHANGED <<value, alive, funcEnds, valueEnds>>

\* Seeded fault: the spinning thread does not wait for the value.
BadSpin(th) ==
  /\ pc[th] = "spin"
  /\ Goto(th, IF state = "POISONED" THEN "panic" ELSE "ref")
  /\ UNCHANGED cell

\* The loop of a thread that lost the race.
Spin(th) ==
  /\ pc[th] = "spin" /\ state # "INIT_IN_PROGRESS"
  /\ Goto(th, IF state = "INIT" THEN "ref" ELSE "panic")
  /\ UNCHANGED cell

\* The reference goes out of scope, or the panic is caught by the caller.
Release(th) ==
  /\ pc[th] \in {"ref", "panic"}
  /\ Goto(th, "idle")
  /\ UNCHANGED cell

-----------------------------------------------------------------------------
(* &mut self and self: the borrow checker lets no thread be inside.         *)

Exclusive == alive /\ \A th \in Threads : pc[th] = "idle"

\* force_mut of an unused cell: init_mut, whose closure returns ...
ForceMut ==
  /\ Exclusive /\ state = "UNINIT"
  /\ funcEnds' = funcEnds + 1
  /\ value' = "live"
  /\ state' = "INIT"
  /\ UNCHANGED <<alive, pc, valueEnds>>

\* ... or panics.
ForceMutPanics ==
  /\ Exclusive /\ state = "UNINIT"
  /\ funcEnds' = funcEnds + 1
  /\ state' = "POISONED"
  /\ UNCHANGED <<value, alive, pc, valueEnds>>

\* Seeded fault: the closure of an initialised cell is dropped as well.
BadDropFunc(st) == IF st \in {"UNINIT", "INIT"} THEN 1 ELSE 0

\* What Drop::drop drops in each state.
DropFunc(st) == IF st = "UNINIT" THEN 1 ELSE 0
DropValue(st) == IF st = "INIT" THEN 1 ELSE 0

DropCell ==
  /\ Exclusive
  /\ alive' = FALSE
  /\ funcEnds' = funcEnds + DropFunc(state)
  /\ valueEnds' = valueEnds + DropValue(state)
  /\ UNCHANGED <<state, value, pc>>

\* into_inner, and the drop of self at its end: in state INIT the value is
\* moved out and the state set to POISONED first.
IntoInner ==
  /\ Exclusive
  /\ state' = IF state = "INIT" THEN "POISONED" ELSE state
  /\ value' = IF state = "INIT" THEN "uninit" ELSE value
  /\ funcEnds' = funcEnds + DropFunc(state')
  /\ valueEnds' = valueEnds + (IF state = "INIT" THEN 1 ELSE 0) + DropValue(state')
  /\ alive' = FALSE
  /\ UNCHANGED pc

Shared(th) ==
  \/ InitCas(th) \/ FuncReturns(th) \/ FuncPanics(th)
  \/ WriteValue(th) \/ Publish(th) \/ Spin(th)

Step(th) == Shared(th) \/ Get(th) \/ ForceLoad(th) \/ Release(th)

Next ==
  \/ \E th \in Threads : Step(th)
  \/ ForceMut \/ ForceMutPanics \/ DropCell \/ IntoInner

Spec == Init /\ [][Next]_vars

-----------------------------------------------------------------------------
(* Properties.                                                              *)

PCs == {"idle", "cas", "call", "write", "publish", "spin", "ref", "panic"}

TypeOK ==
  /\ state \in {"UNINIT", "INIT_IN_PROGRESS", "INIT", "POISONED"}
  /\ value \in {"uninit", "live"}
  /\ alive \in BOOLEAN
  /\ pc \in [Threads -> PCs]
  /\ funcEnds \in Nat /\ valueEnds \in Nat

\* The contract of inner(): a reference handed out by force or get refers to a
\* value that was written and not moved out or dropped.
RefsValid == \A th \in Threads : pc[th] = "ref" => value = "live" /\ valueEnds = 0

\* The SAFETY comments of init: one thread at a time runs the closure or writes
\* the value, and while it does no thread holds a reference.
OneInitialiser ==
  \A th \in Threads : pc[th] \in {"call", "write", "publish"} =>
    \A u \in Threads \ {th} : pc[u] \notin {"call", "write", "publish", "ref"}

\* The unreachable!() arms: the state is never UNINIT again under a spinning
\* thread, nor INIT_IN_PROGRESS for a caller with exclusive access.
NoUnreachable ==
  /\ \A th \in Threads : pc[th] = "spin" => state # "UNINIT"
  /\ Exclusive => state # "INIT_IN_PROGRESS"

\* The closure and the value are moved out or dropped at most once, and when
\* the cell is gone exactly once: no double drop and no leak.
DroppedOnce ==
  /\ funcEnds <= 1 /\ valueEnds <= 1
  /\ ~alive => funcEnds = 1 /\ (value = "live" => valueEnds = 1)

\* What makes the above inductive: where the threads are, the state and the
\* contents of the cell determine each other.
Working == {"call", "write", "publish"}

CellInv ==
  /\ funcEnds = IF alive /\ state = "UNINIT" THEN 0 ELSE 1
  /\ alive => /\ valueEnds = 0
              /\ state = "INIT" => value = "live"
              /\ state \in {"UNINIT", "POISONED"} => value = "uninit"
  /\ ~alive => /\ \A th \in Threads : pc[th] = "idle"
               /\ valueEnds <= 1
               /\ value = "live" => valueEnds = 1

ThreadInv ==
  \A th \in Threads :
    /\ pc[th] \in Working => state = "INIT_IN_PROGRESS"
    /\ pc[th] \in {"call", "write"} => value = "uninit"
    /\ pc[th] = "publish" => value = "live"
    /\ pc[th] = "spin" => state # "UNINIT"
    /\ pc[th] = "ref" => state = "INIT"

OneWorker ==
  /\ \A th, u \in Threads : pc[th] \in Working /\ pc[u] \in Working => th = u
  /\ state = "INIT_IN_PROGRESS" => \E th \in Threads : pc[th] \in Working

IInv == TypeOK /\ CellInv /\ ThreadInv /\ OneWorker

\* A thread that waits for another one's initialisation does not wait forever.
SpinEnds == \A th \in Threads : pc[th] = "spin" ~> pc[th] # "spin"
=============================================================================
