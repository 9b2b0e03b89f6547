------------------------------ MODULE FixedVec ------------------------------
(***************************************************************************)
(* hamerkop/src/fixedvec.rs: vectors over a boxed slice of MaybeUninit<T>. *)
(* A call has the vector to itself (&mut self), so it is one step; what    *)
(* the client's code does in the middle of it - a drop, a clone, a closure *)
(* that panics - is chosen by the step.  A Drain borrows the vector from   *)
(* one call to the next.                                                   *)
(*                                                                         *)
(* A slot that was never written and one that lies beyond len after a call *)
(* are both Uninit: no call may read either as a T.  Within a call, and    *)
(* while a Drain exists, ptr::read and drop_in_place leave the bytes.      *)
(* owner is a history variable: who has to end the element.  sound becomes *)
(* FALSE when the code reads outside of the slice, reads an Uninit slot as *)
(* a T, or drops or hands out an element that is not the vector's any more.*)
(***************************************************************************)
EXTENDS Naturals, Sequences, SequencesExt, FiniteSets

CONSTANTS
  Elems,        \* objects of type T
  Vecs,
  Cap,          \* capacity of each vector
  Uninit,
  AvoidDrain,   \* no element that needs a drop is taken out of a Drain
  AvoidAppend,  \* append only when excise_front copies what it should
  AvoidOverfull \* extend_from_slice only when there is room for the slice

ASSUME VecAssumption ==
  Cap \in Nat /\ AvoidOverfull \in BOOLEAN /\ Uninit \notin Elems /\ Uninit \notin Vecs

VARIABLES
  copy,         \* T is Copy, so it needs no drop
  mem, len,     \* vector -> data, vector -> size
  owner,        \* element -> "client", "vec" or "leaked"
  drain,        \* the Drain in existence
  sound,
  done          \* the last call and what it returned, as in VecContents

vecVars == <<copy, mem, len, owner, drain, sound, done>>

NoDrain == [vec |-> Uninit]
At == 0 .. Cap - 1
Call(op, v, at, result) == [op |-> op, vec |-> v, at |-> at, result |-> result]

VecInit ==
  /\ copy \in BOOLEAN
  /\ mem = [v \in Vecs |-> [i \in At |-> Uninit]]
  /\ len = [v \in Vecs |-> 0]
  /\ owner = [e \in Elems |-> "client"]
  /\ drain = NoDrain
  /\ sound = TRUE
  /\ \E v \in Vecs : done = Call("new", v, 0, <<>>)

\* No one else has borrowed the vector.
Free(v) == drain.vec # v /\ UNCHANGED <<copy, drain>>

Available(v) == Cap - len[v]
Lesser(m, n) == IF m < n THEN m ELSE n

\* Slots S of the array m hold elements the vector has to end, each once.
Owns(m, S) ==
  /\ \A i \in S : i < Cap /\ m[i] # Uninit
  /\ copy \/ \A i, j \in S : owner[m[i]] = "vec" /\ (m[i] = m[j] => i = j)

Held(m, S) == {m[i] : i \in S}

Give(E, who) ==
  owner' = [e \in Elems |-> IF e \in E /\ ~copy THEN who ELSE owner[e]]

\* The element in slot i is moved out to the caller.
TakeOut(m, i) == Give({m[i]}, "client") /\ sound' = (sound /\ Owns(m, {i}))

\* Slots lo .. hi - 1 are dropped one by one, up to slot k, whose drop panics,
\* or to the end; the elements of lost are never dropped then.
DropLoop(m, lo, hi, k, lost) ==
  /\ k = hi \/ (k \in lo .. hi - 1 /\ ~copy)
  /\ LET dropped == Held(m, lo .. Lesser(k, hi - 1))
         leaked  == Held(m, k + 1 .. hi - 1) \cup (IF k < hi THEN lost ELSE {})
     IN owner' = [e \in Elems |-> IF copy THEN owner[e]
                                   ELSE IF e \in dropped THEN "client"
                                   ELSE IF e \in leaked THEN "leaked"
                                   ELSE owner[e]]
  /\ sound' = (sound /\ (copy \/ Owns(m, lo .. Lesser(k, hi - 1))))

\* ptr::copy of n slots, and the slots of one vector after it.
Copied(src, dst, from, to, n) ==
  [i \in At |-> IF i \in to .. to + n - 1 /\ i - to + from < Cap
                THEN src[i - to + from] ELSE dst[i]]

\* The first n slots of m; the code may not read the others again.
Cut(m, n) == [i \in At |-> IF i < n THEN m[i] ELSE Uninit]

Sets(v, m, n) ==
  mem' = [mem EXCEPT ![v] = Cut(m, n)] /\ len' = [len EXCEPT ![v] = n]

-----------------------------------------------------------------------------
Clients(s) == IsInjective(s) /\ \A n \in DOMAIN s : owner[s[n]] = "client"

\* push: a full vector gives the element back.
VecPush(v, e) ==
  /\ Free(v) /\ Clients(<<e>>)
  /\ IF Available(v) = 0
     THEN /\ done' = Call("push", v, 0, <<e>>)
          /\ UNCHANGED <<mem, len, owner>>
     ELSE /\ done' = Call("push", v, 0, <<>>)
          /\ Sets(v, [mem[v] EXCEPT ![len[v]] = e], len[v] + 1)
          /\ Give({e}, "vec")
  /\ UNCHANGED sound

\* pop: size is decremented before the read.
VecPop(v) ==
  /\ Free(v) /\ len[v] > 0
  /\ Sets(v, mem[v], len[v] - 1)
  /\ TakeOut(mem[v], len[v] - 1)
  /\ done' = Call("pop", v, 0, <<mem[v][len[v] - 1]>>)

\* swap_remove: a swap with the last element, then pop.
VecSwapRemove(v, k) ==
  /\ Free(v) /\ k < len[v]
  /\ Sets(v, [mem[v] EXCEPT ![k] = mem[v][len[v] - 1],
                            ![len[v] - 1] = mem[v][k]], len[v] - 1)
  /\ TakeOut(mem[v], k)
  /\ done' = Call("swap_remove", v, k + 1, <<mem[v][k]>>)

VecInsert(v, k, e) ==
  /\ Free(v) /\ Clients(<<e>>)
  /\ k <= len[v] /\ Available(v) > 0
  /\ Sets(v, [Copied(mem[v], mem[v], k, k + 1, len[v] - k) EXCEPT ![k] = e],
          len[v] + 1)
  /\ Give({e}, "vec")
  /\ done' = Call("insert", v, k + 1, <<>>)
  /\ UNCHANGED sound

\* Seeded fault: the tail that moves down is one element short.
BadRemove(v, k) ==
  /\ Free(v) /\ k < len[v]
  /\ Sets(v, Copied(mem[v], mem[v], k + 1, k, IF len[v] > k + 1 THEN len[v] - k - 2 ELSE 0),
          len[v] - 1)
  /\ TakeOut(mem[v], k)
  /\ done' = Call("remove", v, k + 1, <<mem[v][k]>>)

VecRemove(v, k) ==
  /\ Free(v) /\ k < len[v]
  /\ Sets(v, Copied(mem[v], mem[v], k + 1, k, len[v] - k - 1), len[v] - 1)
  /\ TakeOut(mem[v], k)
  /\ done' = Call("remove", v, k + 1, <<mem[v][k]>>)

-----------------------------------------------------------------------------
\* Seeded fault: the length is set after the loop, and not at all when a drop
\* panics.
BadTruncate(v, n) ==
  /\ Free(v)
  /\ IF n >= len[v] THEN UNCHANGED <<mem, len, owner, sound>>
     ELSE \E k \in n .. len[v] :
            /\ DropLoop(mem[v], n, len[v], k, {})
            /\ Sets(v, mem[v], IF k = len[v] THEN n ELSE len[v])
  /\ done' = Call("truncate", v, n, <<>>)

\* truncate, with 0 clear and the drop of a vector, resize_with to less.  The
\* length is set first, so a drop that panics leaks and repeats nothing.
VecTruncate(v, n) ==
  /\ Free(v)
  /\ IF n >= len[v] THEN UNCHANGED <<mem, len, owner, sound>>
     ELSE /\ Sets(v, mem[v], n)
          /\ \E k \in n .. len[v] : DropLoop(mem[v], n, len[v], k, {})
  /\ done' = Call("truncate", v, n, <<>>)

\* The first n elements of s, as far as there is room for them.
Fitting(v, s, n) == SubSeq(s, 1, Lesser(n, Available(v)))

\* Elements of s are made and written one by one while there is room; n of them
\* when making the next one panics.
Extended(v, s, n) ==
  /\ Free(v) /\ Clients(s)
  /\ n = Len(s) \/ ~copy
  /\ LET taken == Fitting(v, s, n) IN
     /\ Sets(v, [i \in At |-> IF i \in len[v] .. len[v] + Len(taken) - 1
                              THEN taken[i - len[v] + 1] ELSE mem[v][i]],
             len[v] + Len(taken))
     /\ Give(ToSet(taken), "vec")
  /\ UNCHANGED sound

\* extend, Write::write and resize_with.
VecExtend(v, s, n) == Extended(v, s, n) /\ done' = Call("extend", v, n, s)

\* extend_from_slice cuts the slice to the room there is.
VecExtendFromSlice(v, s, n) ==
  /\ AvoidOverfull => Len(s) <= Available(v)
  /\ Extended(v, s, n) /\ done' = Call("extend_from_slice", v, n, s)

\* An element that stays is swapped with the first slot of those that do not.
SwapDown(r, i) ==
  [m |-> [r.m EXCEPT ![i] = r.m[r.j], ![r.j] = r.m[i]], j |-> r.j + 1]

\* The loop of retain up to slot n.
Swapped(v, S, n) ==
  LET loop[k \in Nat] ==
        IF k = 0 THEN [m |-> mem[v], j |-> 0]
        ELSE IF k - 1 \in S THEN SwapDown(loop[k - 1], k - 1) ELSE loop[k - 1]
  IN loop[n]

\* retain keeps the slots S and truncates to their number.
VecRetain(v, S) ==
  /\ Free(v) /\ S \subseteq 0 .. len[v] - 1
  /\ LET r == Swapped(v, S, len[v]) IN
     /\ Sets(v, r.m, r.j)
     /\ \E k \in r.j .. len[v] : DropLoop(r.m, r.j, len[v], k, {})
  /\ done' = Call("retain", v, Cardinality(S), <<>>)

\* The predicate panics at slot n.
VecRetainPanics(v, S, n) ==
  /\ Free(v) /\ n < len[v] /\ S \subseteq 0 .. n - 1
  /\ Sets(v, Swapped(v, S, n).m, len[v])
  /\ done' = Call("retain", v, 0, <<>>)
  /\ UNCHANGED <<owner, sound>>

-----------------------------------------------------------------------------
\* drain: the vector is cut to start until the Drain is dropped.
DrainNew(v, a, b) ==
  /\ drain = NoDrain
  /\ a <= b /\ b <= len[v]
  /\ drain' = [vec |-> v, start |-> a, end |-> b, current |-> a, len |-> len[v]]
  /\ len' = [len EXCEPT ![v] = a]
  /\ done' = Call("drain", v, a, <<>>)
  /\ UNCHANGED <<copy, mem, owner, sound>>

DrainNext(v) ==
  /\ drain.vec = v /\ drain.current < drain.end
  /\ AvoidDrain => copy
  /\ TakeOut(mem[v], drain.current)
  /\ drain' = [drain EXCEPT !.current = @ + 1]
  /\ done' = Call("next", v, 0, <<mem[v][drain.current]>>)
  /\ UNCHANGED <<copy, mem, len>>

AfterRange == drain.end .. drain.len - 1

\* Drain::drop drops the whole range from start, whatever was yielded, moves
\* the tail down and restores the length; a drop that panics ends it early.
DrainDrop(v) ==
  /\ drain.vec = v
  /\ \E k \in drain.start .. drain.end :
       /\ DropLoop(mem[v], drain.start, drain.end, k, Held(mem[v], AfterRange))
       /\ IF k = drain.end
          THEN /\ Sets(v, Copied(mem[v], mem[v], drain.end, drain.start,
                                 drain.len - drain.end),
                       drain.len - (drain.end - drain.start))
               /\ done' = Call("drop", v, 0, <<>>)
          ELSE /\ Sets(v, mem[v], len[v])
               /\ done' = Call("forget", v, 0, <<>>)
  /\ drain' = NoDrain /\ UNCHANGED copy

\* mem::forget: what was not yielded is leaked, the tail with it.
DrainForget(v) ==
  /\ drain.vec = v
  /\ Give(Held(mem[v], drain.current .. drain.len - 1), "leaked")
  /\ Sets(v, mem[v], len[v])
  /\ drain' = NoDrain
  /\ done' = Call("forget", v, 0, <<>>)
  /\ UNCHANGED <<copy, sound>>

\* excise_front(n) moves n slots to the front, not the len - n that remain.
ExciseFront(m, n) == Copied(m, m, n, 0, n)

\* append
VecAppend(v, w) ==
  LET n == Lesser(Available(v), len[w]) IN
  /\ v # w /\ Free(v) /\ Free(w)
  /\ AvoidAppend => len[w] <= 2 * n /\ 2 * n <= Cap
  /\ mem' = [mem EXCEPT ![v] = Copied(mem[w], mem[v], 0, len[v], n),
                        ![w] = Cut(ExciseFront(mem[w], n), len[w] - n)]
  /\ len' = [len EXCEPT ![v] = @ + n, ![w] = @ - n]
  /\ sound' = (sound /\ 2 * n <= Cap)
  /\ done' = Call("append", v, 0, <<>>)
  /\ UNCHANGED owner

Slices == SeqOf(Elems, 2)

VecStep(v) ==
  \/ VecPop(v) \/ DrainNext(v) \/ DrainDrop(v) \/ DrainForget(v)
  \/ \E e \in Elems : VecPush(v, e) \/ \E k \in At : VecInsert(v, k, e)
  \/ \E k \in At : VecSwapRemove(v, k) \/ VecRemove(v, k)
  \/ \E n \in 0 .. Cap : VecTruncate(v, n)
  \/ \E s \in Slices : \E n \in 0 .. Len(s) : VecExtend(v, s, n) \/ VecExtendFromSlice(v, s, n)
  \/ \E S \in SUBSET At : VecRetain(v, S) \/ \E n \in At : VecRetainPanics(v, S, n)
  \/ \E a, b \in 0 .. Cap : DrainNew(v, a, b)

VecNext == \E v \in Vecs : VecStep(v) \/ \E w \in Vecs : VecAppend(v, w)

VecSpec == VecInit /\ [][VecNext]_vecVars

-----------------------------------------------------------------------------
(* Properties.                                                              *)

\* The slots of v between lo and hi, as a sequence.
Piece(v, lo, hi) == [n \in 1 .. hi - lo |-> mem[v][lo + n - 1]]

Contents(v) ==
  IF drain.vec = v
  THEN Piece(v, 0, drain.start) \o Piece(v, drain.end, drain.len)
  ELSE Piece(v, 0, len[v])

Pending ==
  IF drain = NoDrain THEN <<>> ELSE Piece(drain.vec, drain.current, drain.end)

\* The SAFETY side of every unsafe block: no call, in no order and with no
\* panic of the client's code, reads outside of the slice or a slot that was
\* never written, or ends an element twice; and what the vectors have to end
\* is exactly what they still hold, so nothing is forgotten either.
MemorySafe ==
  /\ sound
  /\ \A v \in Vecs : Uninit \notin ToSet(Contents(v))
  /\ ~copy => {e \in Elems : owner[e] = "vec"}
                = ToSet(Pending) \cup UNION {ToSet(Contents(v)) : v \in Vecs}

\* The vectors do to their elements what the documentation of each call says,
\* and return what it says they return, for clients that make neither of the
\* calls that do otherwise: append of a vector that excise_front then spoils, and
\* extend_from_slice of more than there is room for, which is cut and not refused.
Promise == INSTANCE VecContents WITH
  items <- [v \in Vecs |-> Contents(v)], rest <- Pending

ImplementsVec == Promise!SeqSpec
=============================================================================
