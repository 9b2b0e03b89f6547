----------------------------- MODULE VecContents -----------------------------
(***************************************************************************)
(* What a vector of fixed capacity promises: a sequence for each vector,   *)
(* with no memory in sight.  A panic of the client's code leaves what the  *)
(* documentation calls unspecified, but never anything that was not there. *)
(* The last call is part of the state, with what it returned.              *)
(***************************************************************************)
EXTENDS Naturals, Sequences, SequencesExt

CONSTANTS Elems, Vecs, Cap

VARIABLES
  items,      \* vector -> its contents
  rest,       \* what the draining iterator has still to yield
  done        \* the last call: [op, vec, at, result]

seqVars == <<items, rest, done>>

Call(op, v, at, result) == [op |-> op, vec |-> v, at |-> at, result |-> result]

SeqInit ==
  /\ items = [v \in Vecs |-> <<>>]
  /\ rest = <<>>
  /\ \E v \in Vecs : done = Call("new", v, 0, <<>>)

Sets(v, s) == items' = [items EXCEPT ![v] = s] /\ UNCHANGED rest
Room(v) == Cap - Len(items[v])
Fewer(m, n) == IF m < n THEN m ELSE n
Pick(s, S) == [n \in 1 .. Cardinality(S) |-> s[SetToSortSeq(S, <)[n]]]

\* A full vector gives the element back.
Push(v, e) ==
  LET full == Room(v) = 0 IN
  /\ done' = Call("push", v, 0, IF full THEN <<e>> ELSE <<>>)
  /\ Sets(v, IF full THEN items[v] ELSE Append(items[v], e))

Pop(v) ==
  /\ items[v] # <<>>
  /\ done' = Call("pop", v, 0, <<Last(items[v])>>)
  /\ Sets(v, Front(items[v]))

\* The last element takes the place of the one removed.
SwapRemoveAt(v, k) ==
  /\ k \in 1 .. Len(items[v])
  /\ done' = Call("swap_remove", v, k, <<items[v][k]>>)
  /\ Sets(v, Front([items[v] EXCEPT ![k] = Last(items[v])]))

Insert(v, k, e) ==
  /\ done' = Call("insert", v, k, <<>>)
  /\ Room(v) > 0 /\ k \in 1 .. Len(items[v]) + 1
  /\ Sets(v, InsertAt(items[v], k, e))

TakeOut(v, k) ==
  /\ k \in 1 .. Len(items[v])
  /\ done' = Call("remove", v, k, <<items[v][k]>>)
  /\ Sets(v, RemoveAt(items[v], k))

\* clear, truncate, resize to less: whether or not a drop panics.
Cut(v, n) ==
  /\ done' = Call("truncate", v, n, <<>>)
  /\ Sets(v, SubSeq(items[v], 1, Fewer(n, Len(items[v]))))

\* extend, write, resize to more: as much of the elements offered as there is
\* room for, or the first n when making the next one panics.
Extend(v) ==
  LET offered == done'.result  n == done'.at IN
  /\ done' = Call("extend", v, n, offered)
  /\ n \in 0 .. Len(offered) /\ offered \in Seq(Elems)
  /\ Sets(v, items[v] \o SubSeq(offered, 1, Fewer(n, Room(v))))

\* extend_from_slice returns only if there is room for the whole slice, and
\* appends all of it, or the first n when the clone of the next one panics.
ExtendFromSlice(v) ==
  LET offered == done'.result  n == done'.at IN
  /\ done' = Call("extend_from_slice", v, n, offered)
  /\ n \in 0 .. Len(offered) /\ offered \in Seq(Elems) /\ Len(offered) <= Room(v)
  /\ Sets(v, items[v] \o SubSeq(offered, 1, n))

\* The elements at S, in their order.
Retain(v, S) ==
  /\ done' = Call("retain", v, Cardinality(S), <<>>)
  /\ S \subseteq 1 .. Len(items[v])
  /\ Sets(v, Pick(items[v], S))

\* The predicate panics: all the elements, in some order.
RetainPanics(v) ==
  /\ done' = Call("retain", v, 0, <<>>)
  /\ \E p \in [1 .. Len(items[v]) -> 1 .. Len(items[v])] :
       /\ IsInjective(p)
       /\ Sets(v, [n \in 1 .. Len(items[v]) |-> items[v][p[n]]])

\* The range leaves the vector at once and is yielded by the iterator.
Drain(v, a, b) ==
  /\ done' = Call("drain", v, a, <<>>)
  /\ a \in 0 .. b /\ b \in 0 .. Len(items[v])
  /\ rest' = SubSeq(items[v], a + 1, b)
  /\ items' = [items EXCEPT ![v] = SubSeq(@, 1, a) \o SubSeq(@, b + 1, Len(@))]

DrainNext(v) ==
  /\ rest # <<>> /\ done' = Call("next", v, 0, <<Head(rest)>>)
  /\ rest' = Tail(rest)
  /\ UNCHANGED items

\* An iterator that is forgotten, or whose drop panics, takes a tail with it.
DrainEnds(v, op, n) ==
  /\ done' = Call(op, v, 0, <<>>)
  /\ rest' = <<>>
  /\ n <= Len(items[v])
  /\ items' = [items EXCEPT ![v] = SubSeq(@, 1, n)]
  /\ op = "drop" => n = Len(items[v])

\* As many elements as possible move from w to v.
Take(v, w) ==
  LET n == Fewer(Room(v), Len(items[w])) IN
  /\ done' = Call("append", v, 0, <<>>)
  /\ v # w
  /\ items' = [items EXCEPT ![v] = @ \o SubSeq(items[w], 1, n),
                            ![w] = SubSeq(@, n + 1, Len(@))]
  /\ UNCHANGED rest

SeqNext ==
  \E v \in Vecs :
    \/ Pop(v) \/ Extend(v) \/ ExtendFromSlice(v) \/ RetainPanics(v) \/ DrainNext(v)
    \/ \E e \in Elems : Push(v, e) \/ \E k \in 1 .. Cap : Insert(v, k, e)
    \/ \E k \in 1 .. Cap : SwapRemoveAt(v, k) \/ TakeOut(v, k)
    \/ \E n \in 0 .. Cap : Cut(v, n)
    \/ \E S \in SUBSET (1 .. Cap) : Retain(v, S)
    \/ \E a, b \in 0 .. Cap : Drain(v, a, b)
    \/ \E op \in {"drop", "forget"} : \E n \in 0 .. Cap : DrainEnds(v, op, n)
    \/ \E w \in Vecs : Take(v, w)

SeqSpec == SeqInit /\ [][SeqNext]_seqVars
=============================================================================
