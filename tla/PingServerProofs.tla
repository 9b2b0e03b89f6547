--------------------------- MODULE PingServerProofs ---------------------------
(***************************************************************************)
(* The ping server for any number of connections, any buffer and chunk     *)
(* size and any number of pings: a client that sends nothing but pings is  *)
(* never turned away, as long as there is a buffer for each connection and *)
(* the client does not leave more unanswered than the transfer buffer can  *)
(* keep.                                                                   *)
(***************************************************************************)
EXTENDS PingServer, Integers, FiniteSetTheorems, SequenceTheorems, TLAPS

\* There are as many buffers as connections, and what a round cannot answer of
\* Window pings fits in the transfer buffer.
Enough == Cardinality(Conns) <= NFuts /\ (Window + 1) * CHUNK <= 2 * BUF

-----------------------------------------------------------------------------
(* The inductive invariant.                                                *)

\* s is the piece of the client's stream that begins at byte a.
IsBytes(s, a) == s \in Seq(Nat) /\ \A k \in 1 .. Len(s) : s[k] = (a + k - 1) % CHUNK

Aligned(a) == a % CHUNK = 0

\* The first byte that is not answered.
Unanswered(c) == out[c] + wbuf[c]

\* The state i of an iterator over t and r of which w bytes were answered: the
\* chunk being put together and what the slices have left are the stream from
\* byte a, the first one that is not answered, to the end of r.
IterState(i, a, w, t, r) ==
  /\ i = [tmp |-> i.tmp, none |-> i.none, slices |-> i.slices]
  /\ IsBytes(i.tmp, a) /\ Len(i.tmp) <= CHUNK /\ i.none \in BOOLEAN
  /\ i.none => i.slices = <<>> /\ Len(i.tmp) < CHUNK
  /\ i.slices \in Seq(Seq(Nat)) /\ Len(i.slices) <= 2
  /\ Len(i.slices) = 0 => w + Len(i.tmp) = Len(t) + Len(r)
  /\ Len(i.slices) = 1 =>
       /\ IsBytes(i.slices[1], a + Len(i.tmp))
       /\ w + Len(i.tmp) + Len(i.slices[1]) = Len(t) + Len(r)
  /\ Len(i.slices) = 2 =>
       /\ i.slices[1] = r
       /\ IsBytes(i.slices[2], a + Len(i.tmp))
       /\ w + Len(i.tmp) + Len(i.slices[2]) = Len(t)

IterInv(c) == IterState(iter[c], Unanswered(c), wbuf[c], tbuf[c], rbuf[c])

\* What was answered, what waits in wbuf to be written, and what was sent.
CountInv(c) ==
  /\ sent[c] \in Nat /\ out[c] \in Nat /\ wbuf[c] \in Nat
  /\ tbuf[c] \in Seq(Nat) /\ rbuf[c] \in Seq(Nat) /\ Len(tbuf[c]) <= BUF /\ wbuf[c] <= BUF
  /\ Aligned(Unanswered(c)) /\ Unanswered(c) <= sent[c] /\ sent[c] <= out[c] + Window * CHUNK
  /\ task[c] \in {"none", "reading"} => wbuf[c] = 0

\* The socket holds the end of the stream.
SockInv(c) ==
  Len(sock[c]) <= sent[c] /\ IsBytes(sock[c], sent[c] - Len(sock[c]))

\* Between two rounds, the transfer buffer holds what is neither answered nor
\* in the socket.
RestInv(c) ==
  task[c] \in {"none", "reading", "chain", "write", "write_all"} =>
    /\ IsBytes(tbuf[c], Unanswered(c))
    /\ Unanswered(c) + Len(tbuf[c]) + Len(sock[c]) = sent[c]

\* In a round, the transfer buffer and the read buffer do.
RoundInv(c) ==
  task[c] = "process" =>
    /\ IsBytes(tbuf[c], out[c]) /\ IsBytes(rbuf[c], out[c] + Len(tbuf[c]))
    /\ out[c] + Len(tbuf[c]) + Len(rbuf[c]) + Len(sock[c]) = sent[c]
    /\ IterInv(c)

StreamInv(c) == CountInv(c) /\ SockInv(c) /\ RestInv(c) /\ RoundInv(c)

States == {"none", "reading", "giveback", "process", "chain", "write", "write_all", "done"}

TypeInv ==
  /\ task \in [Conns -> States]
  /\ DOMAIN sent = Conns /\ DOMAIN sock = Conns /\ DOMAIN out = Conns
  /\ DOMAIN tbuf = Conns /\ DOMAIN rbuf = Conns /\ DOMAIN wbuf = Conns /\ DOMAIN iter = Conns

\* A connection is handed over once: until then it is with the acceptor or in
\* the channel, and has no task.
HandInv ==
  /\ channel \in Seq(Conns)
  /\ \A i, j \in DOMAIN channel : channel[i] = channel[j] => i = j
  /\ \A i \in DOMAIN channel : task[channel[i]] = "none"
  /\ \/ acceptor = <<"accept">>
     \/ \E c \in Conns : /\ acceptor \in {<<"notify", c>>, <<"send", c>>}
                         /\ task[c] = "none"
                         /\ \A i \in DOMAIN channel : channel[i] # c

\* The tasks that hold a buffer of the pool.
Holders == {c \in Conns : task[c] \in {"process", "giveback", "chain"}}

\* Every buffer that was provided is in the pool or with a task, and all of them
\* were provided before the first task was spawned.
PoolInv ==
  /\ pool \in Nat /\ finished \subseteq Futs /\ taken \subseteq finished
  /\ Cardinality(finished) = pool + Cardinality(Holders)
  /\ joiner = "joined" => taken = Futs
  /\ main \in {"join", "read", "iter"} /\ (main # "join" => joiner = "joined")
  /\ (\E c \in Conns : task[c] # "none") => main # "join"

ServerInv == TypeInv /\ HandInv /\ PoolInv /\ \A c \in Conns : StreamInv(c)

-----------------------------------------------------------------------------
(* Pieces of the stream.                                                   *)

\* Nothing is a piece that begins anywhere.
LEMMA NoBytes == \A a : IsBytes(<<>>, a)
BY DEF IsBytes

\* What the client sends.
LEMMA SentBytes ==
  ASSUME NEW a \in Nat, NEW n \in Nat
  PROVE  IsBytes(Bytes(a, n), a) /\ Len(Bytes(a, n)) = n
<1>0. CHUNK \in Nat \ {0}
  BY ServerAssumption
<1>1. \A k \in 1 .. n : (a + k - 1) % CHUNK \in Nat
  BY <1>0
<1>2. Bytes(a, n) \in [1 .. n -> Nat]
  BY <1>1 DEF Bytes
<1>3. Bytes(a, n) \in Seq(Nat) /\ Len(Bytes(a, n)) = n
  BY <1>2
<1> QED BY <1>3 DEF IsBytes, Bytes

\* Two adjacent pieces are one.
LEMMA JoinBytes ==
  ASSUME NEW a \in Nat, NEW s, NEW t, IsBytes(s, a), IsBytes(t, a + Len(s))
  PROVE  IsBytes(s \o t, a) /\ Len(s \o t) = Len(s) + Len(t)
<1>1. s \in Seq(Nat) /\ t \in Seq(Nat) /\ s \o t \in Seq(Nat) /\ Len(s \o t) = Len(s) + Len(t)
      /\ Len(s) \in Nat /\ Len(t) \in Nat
  BY DEF IsBytes
<1>2. ASSUME NEW k \in 1 .. Len(s) + Len(t) PROVE (s \o t)[k] = (a + k - 1) % CHUNK
  <2>1. CASE k <= Len(s)
    <3>1. (s \o t)[k] = s[k] /\ k \in 1 .. Len(s)
      BY <1>1, <2>1
    <3> QED BY <3>1 DEF IsBytes
  <2>2. CASE k > Len(s)
    <3>1. (s \o t)[k] = t[k - Len(s)] /\ k - Len(s) \in 1 .. Len(t)
      BY <1>1, <2>2
    <3>2. a + Len(s) + (k - Len(s)) - 1 = a + k - 1
      BY <1>1
    <3> QED BY <3>1, <3>2 DEF IsBytes
  <2> QED BY <1>1, <2>1, <2>2
<1> QED BY <1>1, <1>2 DEF IsBytes

\* A part of a piece.
LEMMA PartBytes ==
  ASSUME NEW a \in Nat, NEW s, IsBytes(s, a), NEW m \in 0 .. Len(s), NEW n \in m .. Len(s)
  PROVE  IsBytes(SubSeq(s, m + 1, n), a + m) /\ Len(SubSeq(s, m + 1, n)) = n - m
<1> DEFINE t == SubSeq(s, m + 1, n)
<1>1. s \in Seq(Nat) /\ Len(s) \in Nat
  BY DEF IsBytes
<1>2. t \in Seq(Nat) /\ Len(t) = n - m /\ \A k \in 1 .. n - m : t[k] = s[m + k]
  BY <1>1
<1> HIDE DEF t
<1>3. ASSUME NEW k \in 1 .. n - m PROVE t[k] = (a + m + k - 1) % CHUNK
  <2>1. m + k \in 1 .. Len(s) /\ a + (m + k) - 1 = a + m + k - 1
    BY <1>1
  <2> QED BY <1>2, <2>1 DEF IsBytes
<1>4. IsBytes(t, a + m) /\ Len(t) = n - m
  BY <1>2, <1>3 DEF IsBytes
<1> QED BY <1>4 DEF t

\* Adding a chunk keeps the alignment.
LEMMA AlignedChunk ==
  ASSUME NEW a \in Nat, Aligned(a)
  PROVE  Aligned(a + CHUNK)
<1>0. CHUNK \in Nat \ {0}
  BY ServerAssumption
<1> DEFINE q == a \div CHUNK
<1>1. a = CHUNK * q /\ q \in Nat
  BY <1>0 DEF Aligned
<1> HIDE DEF q
<1>2. a + CHUNK = CHUNK * (q + 1) /\ q + 1 \in Nat /\ a + CHUNK \in Nat
  BY <1>0, <1>1
<1>3. \A p \in Nat : \A x \in Nat : x = CHUNK * p => x % CHUNK = 0
  BY <1>0
<1>4. (a + CHUNK) % CHUNK = 0
  BY <1>2, <1>3
<1> QED BY <1>4 DEF Aligned

\* A chunk that begins at the beginning of a ping is a ping.
LEMMA ChunkIsPing ==
  ASSUME NEW a \in Nat, Aligned(a), NEW s, IsBytes(s, a), Len(s) = CHUNK
  PROVE  s = Ping
<1>0. CHUNK \in Nat \ {0}
  BY ServerAssumption
<1>1. ASSUME NEW k \in 1 .. CHUNK PROVE (a + k - 1) % CHUNK = k - 1
  <2> DEFINE q == a \div CHUNK
  <2>1. a = CHUNK * q /\ q \in Nat
    BY <1>0 DEF Aligned
  <2> HIDE DEF q
  <2>2. a + k - 1 = CHUNK * q + (k - 1) /\ k - 1 \in 0 .. CHUNK - 1
    BY <1>0, <2>1
  <2>3. \A r \in 0 .. CHUNK - 1 : \A x \in Nat : x = CHUNK * q + r => x % CHUNK = r
    BY <1>0, <2>1
  <2> QED BY <1>0, <2>2, <2>3
<1>2. s \in Seq(Nat) /\ \A k \in 1 .. CHUNK : s[k] = k - 1
  BY <1>1 DEF IsBytes
<1>3. s = [k \in 1 .. CHUNK |-> s[k]]
  BY <1>0, <1>2
<1> QED BY <1>2, <1>3 DEF Ping

\* Whole answers of no more than was sent are answers to whole pings.
LEMMA AlignedBelow ==
  ASSUME NEW a \in Nat, NEW b \in Nat, Aligned(a), a <= b
  PROVE  a <= CHUNK * (b \div CHUNK)
<1>0. CHUNK \in Nat \ {0}
  BY ServerAssumption
<1> DEFINE p == a \div CHUNK
           q == b \div CHUNK
<1>1. a = CHUNK * p /\ p \in Nat
  BY <1>0 DEF Aligned
<1>2. b = CHUNK * q + (b % CHUNK) /\ b % CHUNK \in 0 .. CHUNK - 1 /\ q \in Nat
  BY <1>0
<1> HIDE DEF p, q
<1>3. p <= q
  <2> SUFFICES ASSUME p >= q + 1 PROVE FALSE
    BY <1>1, <1>2
  <2>1. CHUNK * p >= CHUNK * (q + 1)
    BY <1>0, <1>1, <1>2
  <2> QED BY <1>0, <1>1, <1>2, <2>1
<1>4. CHUNK * p <= CHUNK * q
  BY <1>0, <1>1, <1>2, <1>3
<1> QED BY <1>1, <1>4 DEF q

-----------------------------------------------------------------------------
(* The stream of one connection.                                           *)

\* The numbers of a connection are naturals, by the invariant.
Counted(c) ==
  /\ sent[c] \in Nat /\ out[c] \in Nat /\ wbuf[c] \in Nat /\ Unanswered(c) \in Nat
  /\ Len(tbuf[c]) \in Nat /\ Len(rbuf[c]) \in Nat /\ Len(sock[c]) \in Nat
  /\ BUF \in Nat /\ CHUNK \in Nat /\ BUF > CHUNK

\* The invariant gives these numbers.
LEMMA StreamCounted ==
  ASSUME NEW c \in Conns, StreamInv(c)
  PROVE  Counted(c)
<1>1. BUF \in Nat /\ CHUNK \in Nat /\ BUF > CHUNK
  BY ServerAssumption
<1>2. sent[c] \in Nat /\ out[c] \in Nat /\ wbuf[c] \in Nat /\ tbuf[c] \in Seq(Nat) /\ rbuf[c] \in Seq(Nat)
  BY DEF StreamInv, CountInv
<1>3. sock[c] \in Seq(Nat)
  BY DEF StreamInv, SockInv, IsBytes
<1>4. Unanswered(c) \in Nat
  BY <1>2 DEF Unanswered
<1>5. Len(tbuf[c]) \in Nat /\ Len(rbuf[c]) \in Nat /\ Len(sock[c]) \in Nat
  BY <1>2, <1>3
<1> QED BY <1>1, <1>2, <1>4, <1>5 DEF Counted

\* A connection whose task moves on while its buffers stay where they are.
LEMMA StreamMoves ==
  ASSUME NEW c \in Conns, StreamInv(c),
         UNCHANGED <<sent[c], sock[c], out[c], tbuf[c], rbuf[c], wbuf[c]>>,
         \/ task'[c] = task[c] /\ iter'[c] = iter[c]
         \/ task'[c] \in {"giveback", "done"}
         \/ task[c] = "none" /\ task'[c] = "reading"
         \/ task[c] = "chain" /\ task'[c] = "write"
  PROVE  StreamInv(c)'
<1>1. Unanswered(c)' = Unanswered(c)
  BY DEF Unanswered
<1>2. IterInv(c) /\ iter'[c] = iter[c] => IterInv(c)'
  BY <1>1 DEF IterInv
<1>3. CountInv(c)' /\ SockInv(c)'
  BY <1>1 DEF StreamInv, CountInv, SockInv
<1>4. RestInv(c)'
  BY <1>1 DEF StreamInv, RestInv
<1>5. RoundInv(c)'
  BY <1>1, <1>2 DEF StreamInv, RoundInv
<1> QED BY <1>3, <1>4, <1>5 DEF StreamInv

\* The client's bytes go to the end of the socket.
LEMMA StreamSends ==
  ASSUME TypeInv, NEW c \in Conns, StreamInv(c), NEW n \in 1 .. BUF, ClientSends(c, n)
  PROVE  StreamInv(c)'
<1>t. Counted(c)
  BY StreamCounted
<1> DEFINE a == sent[c] - Len(sock[c])
           b == Bytes(sent[c], n)
<1>1. sent'[c] = sent[c] + n /\ UNCHANGED <<task, out, tbuf, rbuf, wbuf, iter>>
  BY DEF ClientSends, TypeInv
<1>s. sock'[c] = sock[c] \o b
  BY DEF ClientSends, TypeInv
<1>0. n \in Nat
  BY ServerAssumption
<1>2. a \in Nat /\ sent[c] = a + Len(sock[c])
  BY <1>t DEF Counted, StreamInv, SockInv
<1>3. IsBytes(b, sent[c]) /\ Len(b) = n
  BY <1>0, <1>t, SentBytes DEF Counted
<1>4. IsBytes(sock[c], a)
  BY DEF StreamInv, SockInv
<1> HIDE DEF a, b
<1>5. IsBytes(sock'[c], a)
  BY <1>s, <1>2, <1>3, <1>4, JoinBytes
<1>l. Len(sock'[c]) = Len(sock[c]) + n
  BY <1>s, <1>2, <1>3, <1>4, JoinBytes
<1>6. sent'[c] - Len(sock'[c]) = a /\ Len(sock'[c]) <= sent'[c]
  BY <1>0, <1>1, <1>2, <1>l, <1>t DEF Counted
<1>7. SockInv(c)'
  BY <1>5, <1>6 DEF SockInv
<1>8. Unanswered(c)' = Unanswered(c) /\ (IterInv(c) => IterInv(c)')
  BY <1>1 DEF Unanswered, IterInv
<1>9. CountInv(c)'
  <2>1. sent'[c] <= out'[c] + Window * CHUNK
    BY <1>1 DEF ClientSends
  <2>2. sent'[c] \in Nat /\ Unanswered(c)' <= sent'[c]
    BY <1>0, <1>1, <1>8, <1>t DEF Counted, StreamInv, CountInv
  <2> QED BY <1>1, <1>8, <2>1, <2>2 DEF StreamInv, CountInv
<1>10. RestInv(c)'
  <2>1. Unanswered(c) + Len(tbuf[c]) + Len(sock[c]) = sent[c]
          => Unanswered(c)' + Len(tbuf'[c]) + Len(sock'[c]) = sent'[c]
    <3> DEFINE d == Unanswered(c) + Len(tbuf[c])
    <3>1. d \in Nat
      BY <1>t DEF Counted
    <3>2. Unanswered(c)' + Len(tbuf'[c]) = d
      BY <1>1, <1>8
    <3> HIDE DEF d
    <3>3. d + Len(sock[c]) = sent[c] => d + Len(sock'[c]) = sent'[c]
      BY <1>0, <1>1, <1>l, <1>t, <3>1 DEF Counted
    <3> QED BY <3>2, <3>3 DEF d
  <2> QED BY <1>1, <1>8, <2>1 DEF StreamInv, RestInv
<1>11. RoundInv(c)'
  <2>1. out[c] + Len(tbuf[c]) + Len(rbuf[c]) + Len(sock[c]) = sent[c]
          => out'[c] + Len(tbuf'[c]) + Len(rbuf'[c]) + Len(sock'[c]) = sent'[c]
    <3> DEFINE d == out[c] + Len(tbuf[c]) + Len(rbuf[c])
    <3>1. d \in Nat
      BY <1>t DEF Counted
    <3>2. out'[c] + Len(tbuf'[c]) + Len(rbuf'[c]) = d
      BY <1>1
    <3> HIDE DEF d
    <3>3. d + Len(sock[c]) = sent[c] => d + Len(sock'[c]) = sent'[c]
      BY <1>0, <1>1, <1>l, <1>t, <3>1 DEF Counted
    <3> QED BY <3>2, <3>3 DEF d
  <2> QED BY <1>1, <1>8, <2>1 DEF StreamInv, RoundInv
<1> QED BY <1>7, <1>9, <1>10, <1>11 DEF StreamInv

\* A read takes the beginning of the socket into the read buffer.
LEMMA StreamReads ==
  ASSUME TypeInv, NEW c \in Conns, StreamInv(c), NEW n \in 0 .. BUF, ReadDone(c, n), pool # 0
  PROVE  StreamInv(c)'
<1>t. Counted(c)
  BY StreamCounted
<1> DEFINE a == sent[c] - Len(sock[c])
           m == Len(sock[c])
           r == SubSeq(sock[c], 1, n)
           s == SubSeq(sock[c], n + 1, m)
<1>1. /\ task[c] = "reading" /\ n <= m
      /\ rbuf'[c] = r /\ sock'[c] = s
      /\ iter'[c] = [tmp |-> <<>>, none |-> FALSE, slices |-> <<r, tbuf[c]>>]
      /\ task'[c] \in {"giveback", "process"}
      /\ UNCHANGED <<sent, out, tbuf, wbuf>>
  BY DEF ReadDone, Goto, TypeInv, InTask, netVars, Chunks!New
<1>0. n \in Nat /\ m \in Nat
  BY ServerAssumption, <1>t DEF Counted
<1>10. wbuf[c] = 0
  BY <1>1 DEF StreamInv, CountInv
<1>11. Unanswered(c) = out[c]
  BY <1>10, <1>t DEF Counted, Unanswered
<1>12. a \in Nat /\ sent[c] = a + m /\ IsBytes(sock[c], a)
  BY <1>t DEF Counted, StreamInv, SockInv
<1>13. IsBytes(tbuf[c], out[c]) /\ out[c] + Len(tbuf[c]) = a
  BY <1>1, <1>11, <1>t DEF Counted, StreamInv, RestInv
<1>2. a \in Nat /\ sent[c] = a + m /\ wbuf[c] = 0 /\ Unanswered(c) = out[c]
      /\ IsBytes(tbuf[c], out[c]) /\ out[c] + Len(tbuf[c]) = a
  BY <1>10, <1>11, <1>12, <1>13
<1>3. IsBytes(r, a) /\ Len(r) = n /\ r \in Seq(Nat)
  <2>1. 0 \in 0 .. m /\ n \in 0 .. m
    BY <1>0, <1>1
  <2>2. IsBytes(SubSeq(sock[c], 0 + 1, n), a + 0) /\ Len(SubSeq(sock[c], 0 + 1, n)) = n - 0
    BY <1>12, <2>1, PartBytes
  <2>3. 0 + 1 = 1 /\ a + 0 = a /\ n - 0 = n
    BY <1>0, <1>2
  <2> QED BY <2>2, <2>3 DEF IsBytes
<1>4. IsBytes(s, a + n) /\ Len(s) = m - n
  <2>1. n \in 0 .. m /\ m \in n .. m
    BY <1>0, <1>1
  <2> QED BY <1>12, <2>1, PartBytes
<1> HIDE DEF a, m, r, s
<1>5. Unanswered(c)' = Unanswered(c)
  BY <1>1 DEF Unanswered
<1>6. IterInv(c)'
  <2> DEFINE i == iter'[c]
  <2>1. i.slices = <<r, tbuf[c]>> /\ i.tmp = <<>> /\ i.none = FALSE
        /\ i = [tmp |-> i.tmp, none |-> i.none, slices |-> i.slices]
    BY <1>1
  <2>2. tbuf[c] \in Seq(Nat)
    BY <1>2 DEF IsBytes
  <2>3. i.slices \in Seq(Seq(Nat)) /\ Len(i.slices) = 2 /\ i.slices[1] = r /\ i.slices[2] = tbuf[c]
    BY <1>3, <2>1, <2>2
  <2>4. IsBytes(i.tmp, Unanswered(c)') /\ Len(i.tmp) = 0
    BY <2>1, NoBytes
  <2>5. wbuf'[c] + Len(i.tmp) + Len(i.slices[2]) = Len(tbuf'[c])
    BY <1>1, <1>2, <2>3, <2>4, <1>t DEF Counted
  <2>6. IsBytes(i.slices[2], Unanswered(c)' + Len(i.tmp))
    BY <1>2, <1>5, <2>3, <2>4, <1>t DEF Counted
  <2>7. Len(i.tmp) <= CHUNK
    BY <2>4, ServerAssumption
  <2> HIDE DEF i
  <2>8. i.none \in BOOLEAN /\ ~i.none
    BY <2>1
  <2> QED BY <1>1, <2>1, <2>3, <2>4, <2>5, <2>6, <2>7, <2>8 DEF IterInv, IterState, i
<1>7. RoundInv(c)'
  <2>1. out'[c] + Len(tbuf'[c]) + Len(rbuf'[c]) + Len(sock'[c]) = sent'[c]
    BY <1>0, <1>1, <1>2, <1>3, <1>4, <1>t DEF Counted
  <2>2. IsBytes(rbuf'[c], out'[c] + Len(tbuf'[c])) /\ IsBytes(tbuf'[c], out'[c])
    BY <1>1, <1>2, <1>3
  <2> QED BY <1>6, <2>1, <2>2 DEF RoundInv
<1>8. SockInv(c)'
  <2>1. sent'[c] - Len(sock'[c]) = a + n /\ Len(sock'[c]) <= sent'[c]
    BY <1>0, <1>1, <1>2, <1>4
  <2> QED BY <1>1, <1>4, <2>1 DEF SockInv
<1>9. CountInv(c)' /\ RestInv(c)'
  BY <1>1, <1>3, <1>5 DEF StreamInv, CountInv, RestInv
<1> QED BY <1>7, <1>8, <1>9 DEF StreamInv

\* One round of the loop in next, on the slice at the top.
Cut(a, tmp, first, count, more, left) ==
  /\ a \in Nat /\ IsBytes(tmp, a) /\ Len(tmp) < CHUNK /\ IsBytes(first, a + Len(tmp))
  /\ count = Chunks!Smaller(Len(first), CHUNK - Len(tmp))
  /\ more = tmp \o SubSeq(first, 1, count)
  /\ left = SubSeq(first, count + 1, Len(first))

\* The chunk grows by the beginning of the slice, and what is left of the slice
\* follows on.
LEMMA PartTaken ==
  ASSUME NEW a, NEW tmp, NEW first, NEW count, NEW more, NEW left,
         Cut(a, tmp, first, count, more, left)
  PROVE  /\ IsBytes(more, a) /\ Len(more) <= CHUNK
         /\ IsBytes(left, a + Len(more))
         /\ Len(more) + Len(left) = Len(tmp) + Len(first)
<1> DEFINE part == SubSeq(first, 1, count)
<1>1. CHUNK \in Nat /\ Len(tmp) \in Nat /\ Len(first) \in Nat /\ a \in Nat
  BY ServerAssumption DEF IsBytes, Cut
<1>2. count \in 0 .. Len(first) /\ count <= CHUNK - Len(tmp) /\ count \in Nat
  BY <1>1 DEF Chunks!Smaller, Cut
<1>9. IsBytes(tmp, a) /\ IsBytes(first, a + Len(tmp))
  BY DEF Cut
<1>10. left = SubSeq(first, count + 1, Len(first)) /\ more = tmp \o part
  BY DEF Cut
<1>3. IsBytes(part, a + Len(tmp)) /\ Len(part) = count
  <2>1. a + Len(tmp) \in Nat /\ 0 \in 0 .. Len(first) /\ count \in 0 .. Len(first)
    BY <1>1, <1>2
  <2>2. IsBytes(SubSeq(first, 0 + 1, count), (a + Len(tmp)) + 0) /\ Len(SubSeq(first, 0 + 1, count)) = count - 0
    BY <1>9, <2>1, PartBytes
  <2>3. 0 + 1 = 1 /\ (a + Len(tmp)) + 0 = a + Len(tmp) /\ count - 0 = count
    BY <1>1, <1>2
  <2> QED BY <2>2, <2>3
<1>4. IsBytes(left, (a + Len(tmp)) + count) /\ Len(left) = Len(first) - count
  <2>1. a + Len(tmp) \in Nat /\ Len(first) \in count .. Len(first)
    BY <1>1, <1>2
  <2> QED BY <1>2, <1>9, <1>10, <2>1, PartBytes
<1> HIDE DEF part
<1>5. IsBytes(more, a) /\ Len(more) = Len(tmp) + count
  BY <1>1, <1>3, <1>9, <1>10, JoinBytes
<1>6. Len(more) <= CHUNK /\ Len(more) + Len(left) = Len(tmp) + Len(first)
  <2>1. Len(more) = Len(tmp) + count /\ Len(left) = Len(first) - count
    BY <1>4, <1>5
  <2> QED BY <1>1, <1>2, <2>1
<1>7. IsBytes(left, a + Len(more))
  <2>1. (a + Len(tmp)) + count = a + Len(more)
    BY <1>1, <1>2, <1>5
  <2> QED BY <1>4, <2>1
<1> QED BY <1>5, <1>6, <1>7

\* A stack of one or two slices, taken apart.
LEMMA TopSlice ==
  ASSUME NEW s \in Seq(Seq(Nat))
  PROVE  /\ Len(s) = 1 => Chunks!Last(s) = s[1] /\ Chunks!Front(s) = <<>>
         /\ Len(s) = 2 => Chunks!Last(s) = s[2] /\ Chunks!Front(s) = <<s[1]>>
<1>1. ASSUME Len(s) = 1 PROVE Chunks!Front(s) = <<>>
  BY <1>1 DEF Chunks!Front
<1>2. ASSUME Len(s) = 2 PROVE Chunks!Front(s) = <<s[1]>>
  <2>1. Chunks!Front(s) = SubSeq(s, 1, 1)
    BY <1>2 DEF Chunks!Front
  <2>2. SubSeq(s, 1, 1) \in Seq(Seq(Nat)) /\ Len(SubSeq(s, 1, 1)) = 1 /\ SubSeq(s, 1, 1)[1] = s[1]
    BY <1>2
  <2>3. <<s[1]>> \in Seq(Seq(Nat)) /\ Len(<<s[1]>>) = 1 /\ <<s[1]>>[1] = s[1]
    BY <1>2
  <2> DEFINE x == SubSeq(s, 1, 1)
             y == <<s[1]>>
  <2> HIDE DEF x, y
  <2>4. Len(x) = Len(y) /\ \A i \in 1 .. Len(x) : x[i] = y[i]
    BY <2>2, <2>3 DEF x, y
  <2>5. x = y
    BY <2>2, <2>3, <2>4, SeqEqual DEF x, y
  <2> QED BY <2>1, <2>5 DEF x, y
<1> QED BY <1>1, <1>2 DEF Chunks!Last

\* Without slices there is no chunk: the iterator ends with what it has.
LEMMA PartEnds ==
  ASSUME NEW i, NEW a \in Nat, NEW w \in Nat, NEW t \in Seq(Nat), NEW r \in Seq(Nat),
         IterState(i, a, w, t, r), Len(i.tmp) # CHUNK, i.slices = <<>>
  PROVE  IterState(Chunks!TakePart(i), a, w, t, r)
<1> DEFINE j == Chunks!TakePart(i)
<1>1. i = [tmp |-> i.tmp, none |-> i.none, slices |-> i.slices]
  BY DEF IterState
<1>2. j = [i EXCEPT !.none = TRUE]
  BY DEF Chunks!TakePart
<1>3. j.tmp = i.tmp /\ j.none = TRUE /\ j.slices = <<>> /\ j = [tmp |-> j.tmp, none |-> j.none, slices |-> j.slices]
  BY <1>1, <1>2
<1> HIDE DEF j
<1>4. Len(i.tmp) < CHUNK /\ Len(j.slices) = 0 /\ w + Len(i.tmp) = Len(t) + Len(r) /\ j.slices \in Seq(Seq(Nat))
  <2>1. Len(i.tmp) \in Nat /\ CHUNK \in Nat
    BY ServerAssumption DEF IterState, IsBytes
  <2>2. Len(i.slices) = 0
    OBVIOUS
  <2> QED BY <1>3, <2>1, <2>2 DEF IterState
<1>5. IterState(j, a, w, t, r)
  BY <1>3, <1>4 DEF IterState
<1> QED BY <1>5 DEF j

\* An iterator that looks for the rest of a chunk and has slices.
Grows(i, a, w, t, r, o) ==
  /\ o \in Nat /\ w \in Nat /\ a = o + w /\ t \in Seq(Nat) /\ r \in Seq(Nat)
  /\ IterState(i, a, w, t, r) /\ IsBytes(r, o + Len(t))
  /\ Len(i.tmp) # CHUNK /\ i.slices # <<>>

\* The chunk grows, and the order of the stream is kept.
LEMMA PartGrows ==
  ASSUME NEW i, NEW a, NEW w, NEW t, NEW r, NEW o, Grows(i, a, w, t, r, o)
  PROVE  IterState(Chunks!TakePart(i), a, w, t, r)
<1> DEFINE j == Chunks!TakePart(i)
           first == Chunks!Last(i.slices)
           rest == Chunks!Front(i.slices)
           count == Chunks!Smaller(Len(first), CHUNK - Len(i.tmp))
           more == i.tmp \o SubSeq(first, 1, count)
           left == SubSeq(first, count + 1, Len(first))
<1>1. i.slices \in Seq(Seq(Nat)) /\ (Len(i.slices) = 1 \/ Len(i.slices) = 2)
  <2>1. i.slices \in Seq(Seq(Nat)) /\ Len(i.slices) <= 2 /\ i.slices # <<>>
    BY DEF IterState, Grows
  <2>2. Len(i.slices) \in Nat \ {0}
    BY <2>1, EmptySeq
  <2>3. \A n \in Nat \ {0} : n <= 2 => n = 1 \/ n = 2
    OBVIOUS
  <2> QED BY <2>1, <2>2, <2>3
<1>2. j.tmp = more /\ j.none = FALSE /\ j.slices = rest \o (IF left = <<>> THEN <<>> ELSE <<left>>)
      /\ j = [tmp |-> j.tmp, none |-> j.none, slices |-> j.slices]
  <2>1. i.slices # <<>>
    BY DEF Grows
  <2> QED BY <2>1 DEF Chunks!TakePart
<1>3. IsBytes(i.tmp, a) /\ Len(i.tmp) < CHUNK /\ Len(i.tmp) \in Nat
  <2>1. Len(i.tmp) \in Nat /\ CHUNK \in Nat
    BY ServerAssumption DEF IterState, IsBytes, Grows
  <2> QED BY <2>1 DEF IterState, Grows
<1>4. IsBytes(first, a + Len(i.tmp))
  BY <1>1, TopSlice DEF IterState, Grows
<1>5. IsBytes(more, a) /\ Len(more) <= CHUNK /\ IsBytes(left, a + Len(more))
      /\ Len(more) + Len(left) = Len(i.tmp) + Len(first)
  <2>1. a \in Nat
    BY DEF Grows
  <2>2. Cut(a, i.tmp, first, count, more, left)
    BY <1>3, <1>4, <2>1 DEF Cut
  <2> HIDE DEF more, left, count, rest, first, j
  <2> QED BY <2>2, PartTaken
<1> HIDE DEF more, left, count, rest, first, j
<1>s. Len(more) + Len(left) = Len(i.tmp) + Len(first)
  BY <1>5
<1>6. more \in Seq(Nat) /\ left \in Seq(Nat) /\ first \in Seq(Nat)
  BY <1>4, <1>5 DEF IsBytes
<1>n. Len(more) \in Nat /\ Len(left) \in Nat /\ Len(first) \in Nat /\ Len(t) \in Nat /\ Len(r) \in Nat
      /\ w \in Nat /\ o \in Nat /\ a = o + w /\ Len(i.tmp) \in Nat
  BY <1>3, <1>6 DEF Grows
<1>k. IsBytes(j.tmp, a) /\ Len(j.tmp) <= CHUNK /\ j.none \in BOOLEAN /\ ~j.none /\ j.tmp = more
  BY <1>2, <1>5
<1>r. j = [tmp |-> j.tmp, none |-> j.none, slices |-> j.slices]
  BY <1>2
<1>q. j.slices = rest \o (IF left = <<>> THEN <<>> ELSE <<left>>)
  BY <1>2
<1> SUFFICES IterState(j, a, w, t, r)
  BY DEF j
<1>7. CASE Len(i.slices) = 1
  <2>1. rest = <<>> /\ first = i.slices[1]
    BY <1>1, <1>7, TopSlice DEF rest, first
  <2>2. w + Len(i.tmp) + Len(first) = Len(t) + Len(r)
    BY <1>7, <2>1 DEF IterState, Grows
  <2>3. w + Len(more) + Len(left) = Len(t) + Len(r)
    BY <1>s, <1>n, <2>2
  <2>4. CASE left = <<>>
    <3>1. j.slices = <<>>
      BY <1>q, <2>1, <2>4
    <3>2. w + Len(more) = Len(t) + Len(r)
      BY <1>n, <2>3, <2>4
    <3> QED BY <1>k, <1>r, <3>1, <3>2 DEF IterState
  <2>5. CASE left # <<>>
    <3>1. j.slices = <<left>>
      BY <1>q, <1>6, <2>1, <2>5
    <3>2. j.slices \in Seq(Seq(Nat)) /\ Len(j.slices) = 1 /\ j.slices[1] = left
      BY <1>6, <3>1
    <3>3. IsBytes(left, a + Len(more))
      BY <1>5
    <3> QED BY <1>k, <1>r, <2>3, <3>2, <3>3 DEF IterState
  <2> QED BY <2>4, <2>5
<1>8. CASE Len(i.slices) = 2
  <2>1. rest = <<r>> /\ first = i.slices[2]
    BY <1>1, <1>8, TopSlice DEF rest, first, IterState, Grows
  <2>2. w + Len(i.tmp) + Len(first) = Len(t)
    BY <1>8, <2>1 DEF IterState, Grows
  <2>3. w + Len(more) + Len(left) = Len(t)
    BY <1>s, <1>n, <2>2
  <2>4. CASE left = <<>>
    <3>1. j.slices = <<r>>
      BY <1>q, <2>1, <2>4
    <3>2. w + Len(more) = Len(t)
      BY <1>n, <2>3, <2>4
    <3>3. a + Len(more) = o + Len(t) /\ w + Len(more) + Len(r) = Len(t) + Len(r)
      BY <1>n, <3>2
    <3>4. j.slices \in Seq(Seq(Nat)) /\ Len(j.slices) = 1 /\ j.slices[1] = r
      BY <3>1 DEF Grows
    <3>5. IsBytes(r, a + Len(more))
      BY <3>3 DEF Grows
    <3> QED BY <1>k, <1>r, <3>3, <3>4, <3>5 DEF IterState
  <2>5. CASE left # <<>>
    <3>1. j.slices = <<r>> \o <<left>>
      BY <1>q, <2>1, <2>5
    <3>4. <<r>> \in Seq(Seq(Nat)) /\ <<left>> \in Seq(Seq(Nat)) /\ Len(<<r>>) = 1 /\ Len(<<left>>) = 1
          /\ <<r>>[1] = r /\ <<left>>[1] = left
      BY <1>6 DEF Grows
    <3> DEFINE x == <<r>>
               y == <<left>>
    <3> HIDE DEF x, y
    <3>5. x \in Seq(Seq(Nat)) /\ y \in Seq(Seq(Nat)) /\ Len(x) = 1 /\ Len(y) = 1 /\ x[1] = r /\ y[1] = left
      BY <3>4 DEF x, y
    <3>6. x \o y \in Seq(Seq(Nat)) /\ Len(x \o y) = 2 /\ (x \o y)[1] = x[1] /\ (x \o y)[2] = y[1]
      <4>1. x \o y \in Seq(Seq(Nat)) /\ Len(x \o y) = Len(x) + Len(y)
        BY <3>5, ConcatProperties
      <4>2. \A k \in 1 .. Len(x) + Len(y) : (x \o y)[k] = IF k <= Len(x) THEN x[k] ELSE y[k - Len(x)]
        BY <3>5, ConcatProperties
      <4>3. 1 \in 1 .. 2 /\ 2 \in 1 .. 2 /\ 1 <= 1 /\ ~(2 <= 1) /\ 2 - 1 = 1 /\ 1 + 1 = 2
        OBVIOUS
      <4> QED BY <3>5, <4>1, <4>2, <4>3
    <3>7. j.slices = x \o y
      BY <3>1 DEF x, y
    <3>2. j.slices \in Seq(Seq(Nat)) /\ Len(j.slices) = 2 /\ j.slices[1] = r /\ j.slices[2] = left
      BY <3>5, <3>6, <3>7
    <3>3. IsBytes(left, a + Len(more))
      BY <1>5
    <3> QED BY <1>k, <1>r, <2>3, <3>2, <3>3 DEF IterState
  <2> QED BY <2>4, <2>5
<1> QED BY <1>1, <1>7, <1>8

\* One round of the loop in next.
LEMMA StreamParts ==
  ASSUME TypeInv, NEW c \in Conns, StreamInv(c), ChunkPart(c)
  PROVE  StreamInv(c)'
<1>1. /\ task[c] = "process" /\ ~iter[c].none /\ Len(iter[c].tmp) # CHUNK
      /\ iter'[c] = Chunks!TakePart(iter[c])
      /\ UNCHANGED <<task, sent, sock, out, tbuf, rbuf, wbuf>>
  BY DEF ChunkPart, Answering, Chunks!IsWhole, TypeInv, InTask, netVars
<1>2. Unanswered(c)' = Unanswered(c) /\ Unanswered(c) = out[c] + wbuf[c]
  BY <1>1 DEF Unanswered
<1>3. IterInv(c) /\ IsBytes(rbuf[c], out[c] + Len(tbuf[c]))
  BY <1>1 DEF StreamInv, RoundInv
<1>4. Unanswered(c) \in Nat /\ out[c] \in Nat /\ wbuf[c] \in Nat /\ tbuf[c] \in Seq(Nat) /\ rbuf[c] \in Seq(Nat)
  BY StreamCounted DEF StreamInv, CountInv, Counted
<1>5. IterState(Chunks!TakePart(iter[c]), Unanswered(c), wbuf[c], tbuf[c], rbuf[c])
  <2>1. CASE iter[c].slices = <<>>
    BY <1>1, <1>3, <1>4, <2>1, PartEnds DEF IterInv
  <2>2. CASE iter[c].slices # <<>>
    <3>1. Grows(iter[c], Unanswered(c), wbuf[c], tbuf[c], rbuf[c], out[c])
      BY <1>1, <1>2, <1>3, <1>4, <2>2 DEF IterInv, Grows
    <3> QED BY <3>1, PartGrows
  <2> QED BY <2>1, <2>2
<1>6. IterInv(c)'
  BY <1>1, <1>2, <1>5 DEF IterInv
<1> QED BY <1>1, <1>2, <1>6 DEF StreamInv, CountInv, SockInv, RestInv, RoundInv

\* An iterator that has put a chunk together.
Full(i, a, w, t, r) ==
  /\ a \in Nat /\ w \in Nat /\ t \in Seq(Nat) /\ r \in Seq(Nat)
  /\ IterState(i, a, w, t, r) /\ Len(i.tmp) = CHUNK

\* What has been put together is in the two buffers.
LEMMA ChunkInside ==
  ASSUME NEW i, NEW a, NEW w, NEW t, NEW r, IterState(i, a, w, t, r), w \in Nat, t \in Seq(Nat), r \in Seq(Nat)
  PROVE  w + Len(i.tmp) <= Len(t) + Len(r)
<1>1. Len(i.tmp) \in Nat /\ i.slices \in Seq(Seq(Nat)) /\ Len(i.slices) <= 2
  BY DEF IterState, IsBytes
<1>2. Len(t) \in Nat /\ Len(r) \in Nat /\ Len(i.slices) \in Nat
  BY <1>1
<1>3. Len(i.slices) = 0 \/ Len(i.slices) = 1 \/ Len(i.slices) = 2
  <2>1. \A n \in Nat : n <= 2 => n = 0 \/ n = 1 \/ n = 2
    OBVIOUS
  <2> QED BY <1>1, <1>2, <2>1
<1>n. Len(i.tmp) \in Nat /\ Len(t) \in Nat /\ Len(r) \in Nat
  BY <1>1, <1>2
<1>m. \A x, y, p, q, z \in Nat : (x + y + z = p + q \/ x + y + z = p \/ x + y = p + q) => x + y <= p + q
  OBVIOUS
<1>4. CASE Len(i.slices) = 0
  <2>1. w + Len(i.tmp) = Len(t) + Len(r)
    BY <1>4 DEF IterState
  <2> QED BY <1>n, <1>m, <2>1
<1>5. CASE Len(i.slices) = 1
  <2>1. w + Len(i.tmp) + Len(i.slices[1]) = Len(t) + Len(r)
    BY <1>5 DEF IterState
  <2>2. Len(i.slices[1]) \in Nat
    BY <1>5 DEF IterState, IsBytes
  <2> QED BY <1>n, <1>m, <2>1, <2>2
<1>6. CASE Len(i.slices) = 2
  <2>1. w + Len(i.tmp) + Len(i.slices[2]) = Len(t)
    BY <1>6 DEF IterState
  <2>2. Len(i.slices[2]) \in Nat
    BY <1>6 DEF IterState, IsBytes
  <2> QED BY <1>n, <1>m, <2>1, <2>2
<1> QED BY <1>3, <1>4, <1>5, <1>6

\* When next returns the chunk, the next one begins where it ends.
LEMMA ChunkTaken ==
  ASSUME NEW i, NEW a, NEW w, NEW t, NEW r, Full(i, a, w, t, r)
  PROVE  IterState(Chunks!Taken(i), a + CHUNK, w + CHUNK, t, r)
<1> DEFINE j == Chunks!Taken(i)
<1>1. i = [tmp |-> i.tmp, none |-> i.none, slices |-> i.slices] /\ i.none \in BOOLEAN
  BY DEF Full, IterState
<1>2. j = [i EXCEPT !.tmp = <<>>]
  BY DEF Chunks!Taken
<1>3. j.tmp = <<>> /\ j.none = i.none /\ j.slices = i.slices
      /\ j = [tmp |-> j.tmp, none |-> j.none, slices |-> j.slices]
  BY <1>1, <1>2
<1> HIDE DEF j
<1>4. CHUNK \in Nat /\ a \in Nat /\ w \in Nat /\ Len(i.tmp) = CHUNK /\ Len(t) \in Nat /\ Len(r) \in Nat
  BY ServerAssumption DEF Full
<1>5. ~i.none
  BY <1>4 DEF Full, IterState
<1>6. IsBytes(j.tmp, a + CHUNK) /\ Len(j.tmp) = 0
  BY <1>3, NoBytes
<1>7. Len(j.tmp) <= CHUNK /\ a + Len(i.tmp) = a + CHUNK + Len(j.tmp) /\ w + Len(i.tmp) = w + CHUNK + Len(j.tmp)
  BY <1>4, <1>6
<1>8. j.slices \in Seq(Seq(Nat)) /\ Len(j.slices) <= 2
  BY <1>3 DEF Full, IterState
<1>9. Len(j.slices) = 0 => w + CHUNK + Len(j.tmp) = Len(t) + Len(r)
  BY <1>3, <1>7 DEF Full, IterState
<1>10. Len(j.slices) = 1 =>
         /\ IsBytes(j.slices[1], a + CHUNK + Len(j.tmp))
         /\ w + CHUNK + Len(j.tmp) + Len(j.slices[1]) = Len(t) + Len(r)
  BY <1>3, <1>7 DEF Full, IterState
<1>11. Len(j.slices) = 2 =>
         /\ j.slices[1] = r
         /\ IsBytes(j.slices[2], a + CHUNK + Len(j.tmp))
         /\ w + CHUNK + Len(j.tmp) + Len(j.slices[2]) = Len(t)
  BY <1>3, <1>7 DEF Full, IterState
<1>12. j.none \in BOOLEAN /\ ~j.none
  BY <1>1, <1>3, <1>5
<1>13. j = [tmp |-> j.tmp, none |-> j.none, slices |-> j.slices]
  BY <1>3
<1>14. IterState(j, a + CHUNK, w + CHUNK, t, r)
  BY <1>6, <1>7, <1>8, <1>9, <1>10, <1>11, <1>12, <1>13 DEF IterState
<1> QED BY <1>14 DEF j

\* A chunk is a ping, and is answered.
LEMMA StreamAnswers ==
  ASSUME TypeInv, NEW c \in Conns, StreamInv(c), AnswerChunk(c)
  PROVE  StreamInv(c)' /\ task'[c] = "process" /\ task' = task /\ rbuf' = rbuf
<1>t. Counted(c)
  BY StreamCounted
<1>1. task[c] = "process" /\ BUF - wbuf[c] > CHUNK /\ Len(iter[c].tmp) = CHUNK
  BY DEF AnswerChunk, Answering, Chunks!IsWhole
<1>2. IterInv(c) /\ IsBytes(rbuf[c], out[c] + Len(tbuf[c])) /\ IsBytes(tbuf[c], out[c])
      /\ out[c] + Len(tbuf[c]) + Len(rbuf[c]) + Len(sock[c]) = sent[c]
  BY <1>1 DEF StreamInv, RoundInv
<1>3. Full(iter[c], Unanswered(c), wbuf[c], tbuf[c], rbuf[c])
  BY <1>t, <1>1, <1>2 DEF Full, Counted, IterInv, StreamInv, CountInv
<1>4. iter[c].tmp = Ping
  <2>1. Aligned(Unanswered(c)) /\ IsBytes(iter[c].tmp, Unanswered(c))
    BY <1>2 DEF StreamInv, CountInv, IterInv, IterState
  <2> QED BY <1>t, <1>1, <2>1, ChunkIsPing DEF Counted
<1>5. /\ wbuf'[c] = wbuf[c] + CHUNK /\ iter'[c] = Chunks!Taken(iter[c])
      /\ UNCHANGED <<task, sent, sock, out, tbuf, rbuf>>
  BY <1>4 DEF AnswerChunk, TypeInv, InTask, netVars
<1>6. Unanswered(c)' = Unanswered(c) + CHUNK
  BY <1>t, <1>5 DEF Unanswered, Counted
<1>7. IterInv(c)'
  BY <1>3, <1>5, <1>6, ChunkTaken DEF IterInv
<1>8. wbuf'[c] \in Nat /\ wbuf'[c] <= BUF
  BY <1>t, <1>1, <1>5 DEF Counted
<1>9. Unanswered(c)' <= sent'[c]
  <2>1. wbuf[c] + Len(iter[c].tmp) <= Len(tbuf[c]) + Len(rbuf[c])
    BY <1>3, ChunkInside DEF Full
  <2>2. out[c] + (wbuf[c] + CHUNK) <= sent[c]
    <3>1. \A x, y, p, q, z, s \in Nat : y <= p + q /\ x + p + q + z = s => x + y <= s
      OBVIOUS
    <3>2. wbuf[c] + CHUNK \in Nat /\ wbuf[c] + CHUNK <= Len(tbuf[c]) + Len(rbuf[c])
      <4>1. Len(iter[c].tmp) = CHUNK
        BY <1>1
      <4>2. wbuf[c] + CHUNK \in Nat
        BY <1>t DEF Counted
      <4> QED BY <2>1, <4>1, <4>2
    <3> QED BY <1>t, <1>2, <3>1, <3>2 DEF Counted
  <2> QED BY <1>5, <2>2 DEF Unanswered
<1>10. Aligned(Unanswered(c)')
  BY <1>t, <1>6, AlignedChunk DEF StreamInv, CountInv, Counted
<1>11. CountInv(c)'
  BY <1>1, <1>5, <1>8, <1>9, <1>10 DEF StreamInv, CountInv
<1>12. RoundInv(c)'
  BY <1>2, <1>5, <1>7 DEF RoundInv
<1>13. SockInv(c)' /\ RestInv(c)'
  BY <1>1, <1>5 DEF StreamInv, SockInv, RestInv
<1> QED BY <1>1, <1>5, <1>11, <1>12, <1>13 DEF StreamInv

\* Two buffers of which count bytes are done, with a buffer's worth left.
Leftover(a, b, count, o) ==
  /\ o \in Nat /\ count \in Nat /\ IsBytes(a, o) /\ IsBytes(b, o + Len(a))
  /\ count <= Len(a) + Len(b) /\ Len(a) + Len(b) <= BUF + count

\* transfer_remainder keeps all of what is left.
LEMMA RemainderBytes ==
  ASSUME NEW a, NEW b, NEW count, NEW o, Leftover(a, b, count, o)
  PROVE  /\ IsBytes(Remainder(a, b, count), o + count)
         /\ Len(Remainder(a, b, count)) = Len(a) + Len(b) - count
<1> DEFINE ac == Chunks!Smaller(count, Len(a))
           left == SubSeq(a, ac + 1, Len(a))
           rest == SubSeq(b, count - ac + 1, Len(b))
           m == Chunks!Smaller(Len(rest), BUF - Len(left))
<1>1. o \in Nat /\ count \in Nat /\ Len(a) \in Nat /\ Len(b) \in Nat /\ BUF \in Nat
      /\ count <= Len(a) + Len(b) /\ Len(a) + Len(b) <= BUF + count
  BY ServerAssumption DEF Leftover, IsBytes
<1>2. IsBytes(a, o) /\ IsBytes(b, o + Len(a))
  BY DEF Leftover
<1>3. ac \in 0 .. Len(a) /\ count - ac \in 0 .. Len(b) /\ ac \in Nat /\ (ac = count \/ ac = Len(a))
  BY <1>1 DEF Chunks!Smaller
<1> HIDE DEF ac
<1>4. IsBytes(left, o + ac) /\ Len(left) = Len(a) - ac
  <2>1. Len(a) \in ac .. Len(a)
    BY <1>1, <1>3
  <2> QED BY <1>1, <1>2, <1>3, <2>1, PartBytes
<1>5. IsBytes(rest, (o + Len(a)) + (count - ac)) /\ Len(rest) = Len(b) - (count - ac)
  <2>1. Len(b) \in (count - ac) .. Len(b) /\ o + Len(a) \in Nat
    BY <1>1, <1>3
  <2> QED BY <1>2, <1>3, <2>1, PartBytes
<1>6. Remainder(a, b, count) = left \o SubSeq(rest, 1, m)
  BY DEF Remainder, ac
<1> HIDE DEF left, rest
<1>7. m = Len(rest) /\ Len(rest) \in Nat
  <2>1. Len(left) = Len(a) - ac /\ Len(rest) = Len(b) - (count - ac)
    BY <1>4, <1>5
  <2> QED BY <1>1, <1>3, <2>1 DEF Chunks!Smaller
<1> HIDE DEF m
<1>8. SubSeq(rest, 1, m) = rest
  <2>1. rest \in Seq(Nat)
    BY <1>5 DEF IsBytes
  <2> QED BY <1>7, <2>1
<1>9. IsBytes(left, o + count) /\ IsBytes(rest, (o + count) + Len(left))
  <2>1. CASE ac = count
    <3>1. (o + Len(a)) + (count - ac) = (o + count) + Len(left)
      BY <1>1, <1>3, <1>4, <2>1
    <3> QED BY <1>4, <1>5, <2>1, <3>1
  <2>2. CASE ac = Len(a)
    <3>1. (o + Len(a)) + (count - ac) = (o + count) + Len(left) /\ Len(left) = 0
      BY <1>1, <1>3, <1>4, <2>2
    <3>2. left = <<>>
      BY <1>4, <3>1 DEF IsBytes
    <3> QED BY <1>5, <3>1, <3>2, NoBytes
  <2> QED BY <1>3, <2>1, <2>2
<1>10. IsBytes(left \o rest, o + count) /\ Len(left \o rest) = Len(left) + Len(rest)
  <2>1. o + count \in Nat
    BY <1>1
  <2> QED BY <1>9, <2>1, JoinBytes
<1>11. Len(left) + Len(rest) = Len(a) + Len(b) - count
  <2>1. Len(left) = Len(a) - ac /\ Len(rest) = Len(b) - (count - ac)
    BY <1>4, <1>5
  <2> QED BY <1>1, <1>3, <2>1
<1> QED BY <1>6, <1>8, <1>10, <1>11

\* What a round leaves fits in the transfer buffer: it is less than a chunk if
\* the iterator came to its end, and if wbuf was full first, it is what Window
\* pings have beyond the answers in wbuf.
LEMMA LeftoverFits ==
  ASSUME Enough, NEW c \in Conns, StreamInv(c), task[c] = "process", ~Answering(c)
  PROVE  Leftover(tbuf[c], rbuf[c], wbuf[c], out[c])
<1>t. Counted(c)
  BY StreamCounted
<1>1. IterInv(c) /\ IsBytes(rbuf[c], out[c] + Len(tbuf[c])) /\ IsBytes(tbuf[c], out[c])
      /\ out[c] + Len(tbuf[c]) + Len(rbuf[c]) + Len(sock[c]) = sent[c]
  BY DEF StreamInv, RoundInv
<1>2. wbuf[c] + Len(iter[c].tmp) <= Len(tbuf[c]) + Len(rbuf[c]) /\ Len(iter[c].tmp) \in Nat
  <2>1. IterState(iter[c], Unanswered(c), wbuf[c], tbuf[c], rbuf[c])
    BY <1>1 DEF IterInv
  <2>2. tbuf[c] \in Seq(Nat) /\ rbuf[c] \in Seq(Nat) /\ wbuf[c] \in Nat
    BY DEF StreamInv, CountInv
  <2>3. Len(iter[c].tmp) \in Nat
    BY <2>1 DEF IterState, IsBytes
  <2> QED BY <2>1, <2>2, <2>3, ChunkInside
<1>s. \A x, y, z \in Nat : x + y <= z => x <= z
  OBVIOUS
<1>p. Len(tbuf[c]) + Len(rbuf[c]) \in Nat /\ wbuf[c] \in Nat
  <2>1. \A x, y \in Nat : x + y \in Nat
    OBVIOUS
  <2> QED BY <1>t, <2>1 DEF Counted
<1>3. wbuf[c] <= Len(tbuf[c]) + Len(rbuf[c])
  <2> QED BY <1>2, <1>p, <1>s
<1>4. Len(tbuf[c]) + Len(rbuf[c]) <= BUF + wbuf[c]
  <2>1. CASE iter[c].none
    <3>1. Len(iter[c].tmp) < CHUNK /\ wbuf[c] + Len(iter[c].tmp) = Len(tbuf[c]) + Len(rbuf[c])
      BY <1>1, <2>1 DEF IterInv, IterState
    <3>2. \A x, y, z, g, h \in Nat : x < g /\ h > g /\ y + x = z => z <= h + y
      OBVIOUS
    <3>4. Len(iter[c].tmp) \in Nat
      BY <1>2
    <3> QED BY <1>t, <1>p, <3>1, <3>2, <3>4 DEF Counted
  <2>2. CASE ~(BUF - wbuf[c] > CHUNK)
    <3> DEFINE k == Window * CHUNK
    <3>1. k \in Nat /\ (Window + 1) * CHUNK = k + CHUNK
      BY ServerAssumption
    <3>2. sent[c] <= out[c] + k /\ (Window + 1) * CHUNK <= 2 * BUF
      BY DEF StreamInv, CountInv, Enough
    <3> HIDE DEF k
    <3>3. k + CHUNK <= 2 * BUF /\ BUF <= wbuf[c] + CHUNK
      BY <1>t, <2>2, <3>1, <3>2 DEF Counted
    <3>5. out[c] \in Nat /\ Len(tbuf[c]) \in Nat /\ Len(rbuf[c]) \in Nat /\ Len(sock[c]) \in Nat
          /\ sent[c] \in Nat /\ k \in Nat /\ wbuf[c] \in Nat /\ CHUNK \in Nat /\ BUF \in Nat
      BY <1>t, <3>1 DEF Counted
    <3>6. out[c] + Len(tbuf[c]) + Len(rbuf[c]) + Len(sock[c]) = sent[c] /\ sent[c] <= out[c] + k
      BY <1>1, <3>2
    <3> DEFINE x == out[c]
               y == Len(tbuf[c])
               z == Len(rbuf[c])
               s == Len(sock[c])
               q == sent[c]
               w == wbuf[c]
    <3>7. x \in Nat /\ y \in Nat /\ z \in Nat /\ s \in Nat /\ q \in Nat /\ k \in Nat /\ w \in Nat
          /\ CHUNK \in Nat /\ BUF \in Nat
      BY <3>5
    <3>8. x + y + z + s = q /\ q <= x + k /\ k + CHUNK <= 2 * BUF /\ BUF <= w + CHUNK
      BY <3>3, <3>6
    <3> HIDE DEF x, y, z, s, q, w
    <3>9. y + z <= BUF + w
      BY <3>7, <3>8
    <3> QED BY <3>9 DEF y, z, w
  <2> QED BY <2>1, <2>2 DEF Answering
<1> QED BY <1>t, <1>1, <1>3, <1>4 DEF Leftover, Counted

\* The end of a round.
LEMMA StreamSubmits ==
  ASSUME Enough, TypeInv, NEW c \in Conns, StreamInv(c), SubmitChain(c)
  PROVE  StreamInv(c)'
<1>t. Counted(c)
  BY StreamCounted
<1> DEFINE m == Remainder(tbuf[c], rbuf[c], wbuf[c])
<1>1. task[c] = "process" /\ ~Answering(c) /\ tbuf'[c] = m /\ rbuf'[c] = <<>> /\ task'[c] = "chain"
      /\ UNCHANGED <<wbuf, sent, sock, out>>
  BY DEF SubmitChain, Goto, TypeInv, InTask, netVars
<1>2. Leftover(tbuf[c], rbuf[c], wbuf[c], out[c])
  BY <1>1, LeftoverFits
<1>3. IsBytes(m, out[c] + wbuf[c]) /\ Len(m) = Len(tbuf[c]) + Len(rbuf[c]) - wbuf[c]
  BY <1>2, RemainderBytes
<1> HIDE DEF m
<1>4. Unanswered(c)' = Unanswered(c) /\ Unanswered(c) = out[c] + wbuf[c]
  BY <1>1 DEF Unanswered
<1>5. Len(tbuf'[c]) <= BUF /\ tbuf'[c] \in Seq(Nat)
  <2>1. Len(tbuf[c]) + Len(rbuf[c]) <= BUF + wbuf[c]
    BY <1>2 DEF Leftover
  <2>2. Len(m) <= BUF
    <3>1. \A y, z, w, b \in Nat : y + z <= b + w => y + z - w <= b
      OBVIOUS
    <3>2. Len(tbuf[c]) + Len(rbuf[c]) - wbuf[c] <= BUF
      BY <1>t, <2>1, <3>1 DEF Counted
    <3> QED BY <1>3, <3>2
  <2> QED BY <1>1, <1>3, <2>2 DEF IsBytes
<1>6. CountInv(c)'
  BY <1>1, <1>4, <1>5 DEF StreamInv, CountInv
<1>7. RestInv(c)'
  <2>1. out[c] + Len(tbuf[c]) + Len(rbuf[c]) + Len(sock[c]) = sent[c]
    BY <1>1 DEF StreamInv, RoundInv
  <2>2. out[c] + wbuf[c] + Len(m) + Len(sock[c]) = sent[c]
    <3>1. \A x, w, y, z, s, q \in Nat : x + y + z + s = q => x + w + (y + z - w) + s = q
      OBVIOUS
    <3>2. Len(m) = Len(tbuf[c]) + Len(rbuf[c]) - wbuf[c]
      BY <1>3
    <3>3. out[c] + wbuf[c] + (Len(tbuf[c]) + Len(rbuf[c]) - wbuf[c]) + Len(sock[c]) = sent[c]
      BY <1>t, <2>1, <3>1 DEF Counted
    <3> QED BY <3>2, <3>3
  <2> QED BY <1>1, <1>3, <1>4, <2>2 DEF RestInv
<1>8. SockInv(c)' /\ RoundInv(c)'
  BY <1>1 DEF StreamInv, SockInv, RoundInv
<1> QED BY <1>6, <1>7, <1>8 DEF StreamInv

\* A write moves answers from wbuf to the client.
LEMMA StreamWrites ==
  ASSUME TypeInv, NEW c \in Conns, StreamInv(c), NEW n \in 0 .. BUF, WriteDone(c, n)
  PROVE  StreamInv(c)'
<1>t. Counted(c)
  BY StreamCounted
<1>0. n \in Nat /\ n <= wbuf[c]
  BY ServerAssumption DEF WriteDone
<1>1. /\ task[c] \in {"write", "write_all"}
      /\ task'[c] = IF n = wbuf[c] THEN "reading" ELSE "write_all"
      /\ out'[c] = out[c] + n /\ wbuf'[c] = wbuf[c] - n
      /\ UNCHANGED <<sent, sock, tbuf, rbuf, iter>>
  BY DEF WriteDone, Goto, TypeInv, InTask, netVars
<1>2. Unanswered(c)' = Unanswered(c)
  BY <1>t, <1>0, <1>1 DEF Unanswered, Counted
<1>3. out'[c] \in Nat /\ wbuf'[c] \in Nat /\ wbuf'[c] <= BUF /\ (n = wbuf[c] => wbuf'[c] = 0)
  <2>1. wbuf[c] <= BUF
    BY DEF StreamInv, CountInv
  <2> QED BY <1>t, <1>0, <1>1, <2>1 DEF Counted
<1>4. sent'[c] <= out'[c] + Window * CHUNK
  <2> DEFINE k == Window * CHUNK
  <2>1. k \in Nat
    BY ServerAssumption
  <2>2. sent[c] <= out[c] + k
    BY DEF StreamInv, CountInv
  <2> HIDE DEF k
  <2>3. sent'[c] <= out'[c] + k
    BY <1>t, <1>0, <1>1, <2>1, <2>2 DEF Counted
  <2> QED BY <2>3 DEF k
<1>5. CountInv(c)'
  BY <1>1, <1>2, <1>3, <1>4 DEF StreamInv, CountInv
<1>6. RestInv(c)' /\ SockInv(c)' /\ RoundInv(c)'
  BY <1>1, <1>2 DEF StreamInv, RestInv, SockInv, RoundInv
<1> QED BY <1>5, <1>6 DEF StreamInv

-----------------------------------------------------------------------------
(* The steps of a connection.                                              *)

\* A connection that a step of another one leaves alone.
Untouched(d) ==
  UNCHANGED <<sent[d], sock[d], out[d], tbuf[d], rbuf[d], wbuf[d], task[d], iter[d]>>

\* Its stream is as it was.
LEMMA StreamUntouched ==
  ASSUME NEW d \in Conns, StreamInv(d), Untouched(d)
  PROVE  StreamInv(d)'
<1>1. UNCHANGED <<sent[d], sock[d], out[d], tbuf[d], rbuf[d], wbuf[d]>>
      /\ task'[d] = task[d] /\ iter'[d] = iter[d]
  BY DEF Untouched
<1> QED BY <1>1, StreamMoves

\* A read finds a buffer: all NFuts of them were provided, and the other
\* connections hold one each at most.
LEMMA BufferLeft ==
  ASSUME Enough, PoolInv, NEW c \in Conns, task[c] = "reading"
  PROVE  pool # 0
<1>1. finished = Futs
  BY DEF PoolInv
<1>2. Cardinality(finished) = NFuts
  <2>1. NFuts \in Nat
    BY ServerAssumption
  <2>2. Cardinality(1 .. NFuts) = NFuts
    BY <2>1, FS_Interval
  <2> QED BY <1>1, <2>2 DEF Futs
<1>3. IsFiniteSet(Conns)
  BY ServerAssumption
<1>4. IsFiniteSet(Conns \ {c}) /\ Cardinality(Conns \ {c}) = Cardinality(Conns) - 1
  BY <1>3, FS_RemoveElement
<1>5. Holders \subseteq Conns \ {c}
  BY DEF Holders
<1>6. Cardinality(Holders) <= Cardinality(Conns \ {c}) /\ IsFiniteSet(Holders)
  BY <1>4, <1>5, FS_Subset
<1>7. Cardinality(Conns) \in Nat /\ Cardinality(Holders) \in Nat
  BY <1>3, <1>6, FS_CardinalityType
<1>8. NFuts = pool + Cardinality(Holders) /\ Cardinality(Conns) <= NFuts
  BY <1>2 DEF PoolInv, Enough
<1>9. NFuts \in Nat
  BY ServerAssumption
<1> QED BY <1>4, <1>6, <1>7, <1>8, <1>9

\* What the step of a task may do: the other connections, the acceptor and the
\* main task are left alone, and a buffer of the pool goes from the pool to the
\* task or back.
TaskEffect(c) ==
  /\ UNCHANGED <<joinVars, handVars, main>>
  /\ TypeInv'
  /\ task[c] # "none" /\ task'[c] # "none"
  /\ \A d \in Conns \ {c} : task'[d] = task[d]
  /\ \/ pool' = pool /\ (c \in Holders' <=> c \in Holders)
     \/ pool # 0 /\ pool' = pool - 1 /\ c \notin Holders /\ c \in Holders'
     \/ pool' = pool + 1 /\ c \in Holders /\ c \notin Holders'

\* Every step of a task does that, and keeps its stream.
LEMMA TaskSteps ==
  ASSUME Enough, TypeInv, PoolInv, NEW c \in Conns, StreamInv(c), ConnStep(c)
  PROVE  /\ TaskEffect(c) /\ StreamInv(c)'
         /\ \A d \in Conns \ {c} : Untouched(d)
<1>1. CASE \E n \in 0 .. BUF : ReadDone(c, n)
  <2>1. PICK n \in 0 .. BUF : ReadDone(c, n)
    BY <1>1
  <2>2. task[c] = "reading"
    BY <2>1 DEF ReadDone
  <2>3. pool # 0
    BY <2>2, BufferLeft
  <2>4. StreamInv(c)'
    BY <2>1, <2>3, StreamReads
  <2>5. task' = [task EXCEPT ![c] = IF n = 0 THEN "giveback" ELSE "process"] /\ pool' = pool - 1
        /\ UNCHANGED <<joinVars, handVars, main, sent, out, tbuf, wbuf>>
    BY <2>1, <2>3 DEF ReadDone, Goto, InTask, netVars
  <2>6. \A d \in Conns \ {c} : Untouched(d)
    BY <2>1, <2>3, <2>5 DEF ReadDone, TypeInv, Untouched
  <2>7. TypeInv'
    BY <2>1, <2>3, <2>5 DEF ReadDone, TypeInv, States
  <2>8. task'[c] \in {"giveback", "process"} /\ \A d \in Conns \ {c} : task'[d] = task[d]
    BY <2>5 DEF TypeInv
  <2>9. c \notin Holders /\ c \in Holders'
    BY <2>2, <2>8 DEF Holders
  <2> QED BY <2>2, <2>3, <2>4, <2>5, <2>6, <2>7, <2>8, <2>9 DEF TaskEffect
<1>2. CASE \E n \in 0 .. BUF : WriteDone(c, n)
  <2>1. PICK n \in 0 .. BUF : WriteDone(c, n)
    BY <1>2
  <2>2. StreamInv(c)'
    BY <2>1, StreamWrites
  <2>3. task[c] \in {"write", "write_all"} /\ pool' = pool
        /\ task' = [task EXCEPT ![c] = IF n = wbuf[c] THEN "reading" ELSE "write_all"]
        /\ UNCHANGED <<joinVars, handVars, main, sent, sock, tbuf, rbuf, iter>>
    BY <2>1 DEF WriteDone, Goto, InTask, netVars
  <2>4. \A d \in Conns \ {c} : Untouched(d)
    BY <2>1, <2>3 DEF WriteDone, TypeInv, Untouched
  <2>5. TypeInv'
    BY <2>1, <2>3 DEF WriteDone, TypeInv, States
  <2>6. task'[c] \in {"reading", "write_all"} /\ \A d \in Conns \ {c} : task'[d] = task[d]
    BY <2>3 DEF TypeInv
  <2>7. c \notin Holders /\ c \notin Holders'
    BY <2>3, <2>6 DEF Holders
  <2> QED BY <2>2, <2>3, <2>4, <2>5, <2>6, <2>7 DEF TaskEffect
<1>3. CASE GiveBack(c) \/ ChainProvides(c)
  <2>1. (task[c] = "giveback" /\ task' = [task EXCEPT ![c] = "done"]) \/
        (task[c] = "chain" /\ task' = [task EXCEPT ![c] = "write"])
    BY <1>3 DEF GiveBack, ChainProvides, Goto
  <2>2. pool' = pool + 1 /\ UNCHANGED <<joinVars, handVars, main, sent, sock, tbuf, rbuf, wbuf, iter, out>>
    BY <1>3 DEF GiveBack, ChainProvides, InTask, netVars
  <2>3. task'[c] \in {"done", "write"} /\ \A d \in Conns \ {c} : task'[d] = task[d]
    BY <2>1 DEF TypeInv
  <2>4. \A d \in Conns \ {c} : Untouched(d)
    BY <2>2, <2>3 DEF Untouched
  <2>5. task'[c] = "done" \/ (task[c] = "chain" /\ task'[c] = "write")
    BY <2>1 DEF TypeInv
  <2>6. StreamInv(c)'
    BY <2>2, <2>5, StreamMoves
  <2>7. TypeInv'
    BY <2>1, <2>2 DEF TypeInv, States
  <2>8. c \in Holders /\ c \notin Holders' /\ task[c] # "none"
    BY <2>1, <2>3 DEF Holders
  <2> QED BY <2>2, <2>3, <2>4, <2>6, <2>7, <2>8 DEF TaskEffect
<1>4. CASE ChunkPart(c)
  <2>1. StreamInv(c)'
    BY <1>4, StreamParts
  <2>2. task[c] = "process" /\ pool' = pool /\ task' = task
        /\ UNCHANGED <<joinVars, handVars, main, sent, sock, tbuf, rbuf, wbuf, out>>
    BY <1>4 DEF ChunkPart, InTask, netVars
  <2>3. \A d \in Conns \ {c} : Untouched(d)
    BY <1>4, <2>2 DEF ChunkPart, TypeInv, Untouched
  <2>4. TypeInv'
    BY <1>4, <2>2 DEF ChunkPart, TypeInv
  <2>5. c \in Holders /\ c \in Holders'
    BY <2>2 DEF Holders
  <2> QED BY <2>1, <2>2, <2>3, <2>4, <2>5 DEF TaskEffect
<1>5. CASE AnswerChunk(c)
  <2>1. StreamInv(c)' /\ task'[c] = "process" /\ task' = task /\ rbuf' = rbuf
    BY <1>5, StreamAnswers
  <2>2. pool' = pool /\ UNCHANGED <<joinVars, handVars, main, sent, sock, tbuf, out>>
    BY <1>5 DEF AnswerChunk, InTask, netVars
  <2>3. task[c] = "process"
    BY <1>5 DEF AnswerChunk
  <2>4. \A d \in Conns \ {c} : Untouched(d)
    BY <1>5, <2>1, <2>2 DEF AnswerChunk, TypeInv, Untouched
  <2>5. TypeInv'
    BY <1>5, <2>1, <2>2 DEF AnswerChunk, TypeInv
  <2>6. c \in Holders /\ c \in Holders'
    BY <2>1, <2>3 DEF Holders
  <2> QED BY <2>1, <2>2, <2>3, <2>4, <2>5, <2>6 DEF TaskEffect
<1>6. CASE SubmitChain(c)
  <2>1. StreamInv(c)'
    BY <1>6, StreamSubmits
  <2>2. task[c] = "process" /\ pool' = pool /\ task' = [task EXCEPT ![c] = "chain"]
        /\ UNCHANGED <<joinVars, handVars, main, sent, sock, wbuf, out>>
    BY <1>6 DEF SubmitChain, Goto, InTask, netVars
  <2>3. \A d \in Conns \ {c} : Untouched(d)
    BY <1>6, <2>2 DEF SubmitChain, TypeInv, Untouched
  <2>4. TypeInv'
    BY <1>6, <2>2 DEF SubmitChain, TypeInv, States
  <2>5. task'[c] = "chain" /\ \A d \in Conns \ {c} : task'[d] = task[d]
    BY <2>2 DEF TypeInv
  <2>6. c \in Holders /\ c \in Holders'
    BY <2>2, <2>5 DEF Holders
  <2> QED BY <2>1, <2>2, <2>3, <2>4, <2>5, <2>6 DEF TaskEffect
<1>7. CASE IOFails(c)
  <2>1. task[c] \in {"reading", "write", "write_all"} /\ pool' = pool /\ task' = [task EXCEPT ![c] = "done"]
        /\ UNCHANGED <<joinVars, handVars, main, sent, sock, tbuf, rbuf, wbuf, iter, out>>
    BY <1>7 DEF IOFails, Goto, InTask, netVars
  <2>2. task'[c] = "done" /\ \A d \in Conns \ {c} : task'[d] = task[d]
    BY <2>1 DEF TypeInv
  <2>3. \A d \in Conns \ {c} : Untouched(d)
    BY <2>1, <2>2 DEF Untouched
  <2>4. StreamInv(c)'
    BY <2>1, <2>2, StreamMoves
  <2>5. TypeInv'
    BY <2>1 DEF TypeInv, States
  <2>6. c \notin Holders /\ c \notin Holders' /\ task[c] # "none"
    BY <2>1, <2>2 DEF Holders
  <2> QED BY <2>1, <2>2, <2>3, <2>4, <2>5, <2>6 DEF TaskEffect
<1> QED BY <1>1, <1>2, <1>3, <1>4, <1>5, <1>6, <1>7 DEF ConnStep

\* A task's step keeps the hand-over.
LEMMA TaskHands ==
  ASSUME HandInv, NEW c \in Conns, TaskEffect(c)
  PROVE  HandInv'
<1>1. UNCHANGED <<acceptor, channel>>
  BY DEF TaskEffect, handVars
<1>2. \A d \in Conns : task[d] = "none" => task'[d] = "none"
  BY DEF TaskEffect
<1>3. \A i \in DOMAIN channel : channel[i] \in Conns
  BY DEF HandInv
<1> QED BY <1>1, <1>2, <1>3 DEF HandInv

\* And it keeps the count of the buffers.
LEMMA TaskPool ==
  ASSUME TypeInv, PoolInv, NEW c \in Conns, TaskEffect(c)
  PROVE  PoolInv'
<1>1. UNCHANGED <<finished, taken, joiner, main>> /\ task[c] # "none"
  BY DEF TaskEffect, joinVars
<1>2. \A d \in Conns \ {c} : d \in Holders' <=> d \in Holders
  BY DEF TaskEffect, Holders
<1>3. IsFiniteSet(Holders) /\ Cardinality(Holders) \in Nat /\ Holders \subseteq Conns /\ Holders' \subseteq Conns
  <2>1. IsFiniteSet(Conns) /\ Holders \subseteq Conns /\ Holders' \subseteq Conns
    BY ServerAssumption DEF Holders
  <2> QED BY <2>1, FS_Subset, FS_CardinalityType
<1>4. pool \in Nat /\ Cardinality(finished) = pool + Cardinality(Holders)
  BY DEF PoolInv
<1>5. pool' \in Nat /\ Cardinality(finished) = pool' + Cardinality(Holders')
  <2>1. CASE pool' = pool /\ (c \in Holders' <=> c \in Holders)
    <3>1. Holders' = Holders
      BY <1>2, <1>3, <2>1
    <3> QED BY <1>4, <2>1, <3>1
  <2>2. CASE pool # 0 /\ pool' = pool - 1 /\ c \notin Holders /\ c \in Holders'
    <3>1. Holders' = Holders \cup {c}
      BY <1>2, <1>3, <2>2
    <3>2. Cardinality(Holders') = Cardinality(Holders) + 1
      BY <1>3, <2>2, <3>1, FS_AddElement
    <3> QED BY <1>3, <1>4, <2>2, <3>2
  <2>3. CASE pool' = pool + 1 /\ c \in Holders /\ c \notin Holders'
    <3>1. Holders' = Holders \ {c}
      BY <1>2, <1>3, <2>3
    <3>2. Cardinality(Holders') = Cardinality(Holders) - 1
      BY <1>3, <2>3, <3>1, FS_RemoveElement
    <3> QED BY <1>3, <1>4, <2>3, <3>2
  <2> QED BY <2>1, <2>2, <2>3 DEF TaskEffect
<1>6. (\E d \in Conns : task[d] # "none") /\ main # "join"
  BY <1>1 DEF PoolInv
<1> QED BY <1>1, <1>4, <1>5, <1>6 DEF PoolInv

\* So every step of a task keeps the invariant.
LEMMA TaskInvariant ==
  ASSUME Enough, ServerInv, NEW c \in Conns, ConnStep(c)
  PROVE  ServerInv'
<1>1. TaskEffect(c) /\ StreamInv(c)' /\ \A d \in Conns \ {c} : Untouched(d)
  BY TaskSteps DEF ServerInv
<1>2. \A d \in Conns : StreamInv(d)'
  BY <1>1, StreamUntouched DEF ServerInv
<1>3. HandInv' /\ PoolInv'
  BY <1>1, TaskHands, TaskPool DEF ServerInv
<1>4. TypeInv'
  BY <1>1 DEF TaskEffect
<1> QED BY <1>2, <1>3, <1>4 DEF ServerInv

\* A client's step.
LEMMA ClientInvariant ==
  ASSUME ServerInv, NEW c \in Conns, ClientStep(c)
  PROVE  ServerInv'
<1>1. UNCHANGED <<joinVars, handVars, main, task, tbuf, rbuf, wbuf, iter, out, pool>>
  BY DEF ClientStep, ClientSends, ClientEnds, connVars
<1>2. HandInv'
  BY <1>1 DEF ServerInv, HandInv, handVars
<1>3. Holders' = Holders
  BY <1>1 DEF Holders
<1>4. PoolInv'
  BY <1>1, <1>3 DEF ServerInv, PoolInv, joinVars
<1>5. CASE \E n \in 1 .. BUF : ClientSends(c, n)
  <2>1. PICK n \in 1 .. BUF : ClientSends(c, n)
    BY <1>5
  <2>2. TypeInv'
    BY <1>1, <2>1 DEF ServerInv, TypeInv, ClientSends
  <2>3. StreamInv(c)'
    BY <2>1, StreamSends DEF ServerInv
  <2>4. \A d \in Conns \ {c} : Untouched(d)
    BY <1>1, <2>1 DEF ServerInv, TypeInv, ClientSends, Untouched
  <2>5. \A d \in Conns : StreamInv(d)'
    BY <2>3, <2>4, StreamUntouched DEF ServerInv
  <2> QED BY <1>2, <1>4, <2>2, <2>5 DEF ServerInv
<1>6. CASE \E how \in {"closed", "reset"} : ClientEnds(c, how)
  <2>1. UNCHANGED <<sent, sock>>
    BY <1>6 DEF ClientEnds, connVars
  <2>2. TypeInv' /\ \A d \in Conns : Untouched(d)
    BY <1>1, <2>1 DEF ServerInv, TypeInv, Untouched
  <2>3. \A d \in Conns : StreamInv(d)'
    BY <2>2, StreamUntouched DEF ServerInv
  <2> QED BY <1>2, <1>4, <2>2, <2>3 DEF ServerInv
<1> QED BY <1>5, <1>6 DEF ClientStep

-----------------------------------------------------------------------------
(* The acceptor and the main task.                                         *)

\* A step that leaves the connections alone.
LEMMA StreamsKept ==
  ASSUME ServerInv, UNCHANGED <<sent, sock, out, tbuf, rbuf, wbuf, task, iter>>
  PROVE  TypeInv' /\ Holders' = Holders /\ \A d \in Conns : StreamInv(d)'
<1>1. \A d \in Conns : Untouched(d)
  BY DEF Untouched
<1> QED BY <1>1, StreamUntouched DEF ServerInv, TypeInv, Holders

\* The acceptor's steps.
LEMMA AcceptorInvariant ==
  ASSUME ServerInv, AcceptorStep \/ \E c \in Conns : Accept(c)
  PROVE  ServerInv'
<1>1. UNCHANGED <<finished, taken, joiner, main, pool, sent, sock, out, tbuf, rbuf, wbuf, task, iter>>
  BY DEF AcceptorStep, Accept, Notify, SendConn, joinVars, netVars, connVars
<1>2. TypeInv' /\ Holders' = Holders /\ \A d \in Conns : StreamInv(d)'
  BY <1>1, StreamsKept
<1>3. PoolInv'
  BY <1>1, <1>2 DEF ServerInv, PoolInv
<1>4. HandInv
  BY DEF ServerInv
<1>5. HandInv'
  <2>1. CASE \E c \in Conns : Accept(c)
    <3>1. PICK c \in Conns : Accept(c)
      BY <2>1
    <3>2. task[c] = "none" /\ \A i \in DOMAIN channel : channel[i] # c
      BY <3>1 DEF Accept, ToSet
    <3>3. acceptor' = <<"notify", c>> /\ UNCHANGED <<channel, task>>
      BY <1>1, <3>1 DEF Accept
    <3> QED BY <1>4, <3>2, <3>3 DEF HandInv
  <2>2. CASE Notify
    <3>1. acceptor[1] = "notify" /\ acceptor' = <<"send", acceptor[2]>> /\ UNCHANGED <<channel, task>>
      BY <1>1, <2>2 DEF Notify
    <3>2. PICK c \in Conns : /\ acceptor \in {<<"notify", c>>, <<"send", c>>}
                             /\ task[c] = "none" /\ \A i \in DOMAIN channel : channel[i] # c
      BY <1>4, <3>1 DEF HandInv
    <3>3. acceptor' = <<"send", c>>
      BY <3>1, <3>2
    <3> QED BY <1>4, <3>1, <3>2, <3>3 DEF HandInv
  <2>3. CASE SendConn
    <3>1. acceptor[1] = "send" /\ acceptor' = <<"accept">> /\ channel' = Append(channel, acceptor[2]) /\ task' = task
      BY <1>1, <2>3 DEF SendConn
    <3>2. PICK c \in Conns : /\ acceptor \in {<<"notify", c>>, <<"send", c>>}
                             /\ task[c] = "none" /\ \A i \in DOMAIN channel : channel[i] # c
      BY <1>4, <3>1 DEF HandInv
    <3>3. channel' = Append(channel, c)
      BY <3>1, <3>2
    <3>4. channel \in Seq(Conns)
      BY <1>4 DEF HandInv
    <3>5. channel' \in Seq(Conns) /\ DOMAIN channel' = 1 .. Len(channel) + 1 /\ DOMAIN channel = 1 .. Len(channel)
          /\ Len(channel) \in Nat
      BY <3>3, <3>4
    <3>6. channel'[Len(channel) + 1] = c /\ \A i \in DOMAIN channel : channel'[i] = channel[i]
      BY <3>3, <3>4
    <3>7. \A i \in DOMAIN channel' : i \in DOMAIN channel \/ i = Len(channel) + 1
      BY <3>5
    <3>8. \A i \in DOMAIN channel' : task'[channel'[i]] = "none"
      BY <1>4, <3>1, <3>2, <3>6, <3>7 DEF HandInv
    <3>9. \A i, j \in DOMAIN channel' : channel'[i] = channel'[j] => i = j
      BY <1>4, <3>2, <3>6, <3>7 DEF HandInv
    <3> QED BY <3>1, <3>5, <3>8, <3>9 DEF HandInv
  <2> QED BY <2>1, <2>2, <2>3 DEF AcceptorStep
<1> QED BY <1>2, <1>3, <1>5 DEF ServerInv

\* A provide request completes.
LEMMA ProvideInvariant ==
  ASSUME ServerInv, NEW f \in Futs, Provide(f)
  PROVE  ServerInv'
<1>1. UNCHANGED <<taken, acceptor, channel, main, sent, sock, out, tbuf, rbuf, wbuf, task, iter>>
      /\ pool' = pool + 1 /\ f \in Futs \ finished /\ finished' = finished \cup {f}
      /\ (joiner' = "joined" => joiner = "joined") /\ (joiner = "joined" => joiner' = "joined")
  BY DEF Provide, FutFinishes, handVars, netVars
<1>2. TypeInv' /\ Holders' = Holders /\ \A d \in Conns : StreamInv(d)'
  BY <1>1, StreamsKept
<1>3. HandInv'
  BY <1>1 DEF ServerInv, HandInv
<1>4. IsFiniteSet(finished) /\ Cardinality(finished) = pool + Cardinality(Holders) /\ pool \in Nat
  <2>1. IsFiniteSet(Futs)
    BY ServerAssumption, FS_Interval DEF Futs
  <2> QED BY <2>1, FS_Subset DEF ServerInv, PoolInv
<1>5. Cardinality(finished') = Cardinality(finished) + 1
  BY <1>1, <1>4, FS_AddElement
<1>6. Cardinality(Holders) \in Nat
  <2>1. IsFiniteSet(Holders)
    BY ServerAssumption, FS_Subset DEF Holders
  <2> QED BY <2>1, FS_CardinalityType
<1>7. pool' \in Nat /\ Cardinality(finished') = pool' + Cardinality(Holders')
  BY <1>1, <1>2, <1>4, <1>5, <1>6
<1>8. PoolInv'
  BY <1>1, <1>7 DEF ServerInv, PoolInv
<1> QED BY <1>2, <1>3, <1>8 DEF ServerInv

\* A step of the main task.
LEMMA MainInvariant ==
  ASSUME ServerInv, MainStep
  PROVE  ServerInv'
<1>1. CASE PollJoin
  <2>1. UNCHANGED <<finished, pool, acceptor, channel, sent, sock, out, tbuf, rbuf, wbuf, task, iter>>
    BY <1>1 DEF PollJoin, PollTakes, PollNone, PollEnds, handVars, netVars, connVars
  <2>2. TypeInv' /\ Holders' = Holders /\ \A d \in Conns : StreamInv(d)'
    BY <2>1, StreamsKept
  <2>3. HandInv'
    BY <2>1 DEF ServerInv, HandInv
  <2>4. main = "join" /\ main' = (IF joiner' = "joined" THEN "read" ELSE main)
    BY <1>1 DEF PollJoin
  <2>5. PoolInv
    BY DEF ServerInv
  <2>6. joiner = "ready" /\ taken' \subseteq finished /\ (joiner' = "joined" => taken' = Futs)
    BY <1>1, <2>5 DEF PollJoin, PollTakes, PollNone, PollEnds, Waiting, PoolInv
  <2>7. PoolInv'
    BY <2>1, <2>2, <2>4, <2>5, <2>6 DEF PoolInv
  <2> QED BY <2>2, <2>3, <2>7 DEF ServerInv
<1>2. CASE ReadEvent
  <2>1. UNCHANGED <<finished, taken, joiner, pool, acceptor, channel, sent, sock, out, tbuf, rbuf, wbuf, task, iter>>
        /\ main = "read" /\ main' = "iter"
    BY <1>2 DEF ReadEvent, joinVars, netVars, connVars
  <2>2. TypeInv' /\ Holders' = Holders /\ \A d \in Conns : StreamInv(d)'
    BY <2>1, StreamsKept
  <2>3. HandInv'
    BY <2>1 DEF ServerInv, HandInv
  <2>4. PoolInv'
    BY <2>1, <2>2 DEF ServerInv, PoolInv
  <2> QED BY <2>2, <2>3, <2>4 DEF ServerInv
<1>3. CASE TryIter
  <2>1. main = "iter" /\ UNCHANGED <<finished, taken, joiner, pool, acceptor, sent, sock, out, tbuf, rbuf, wbuf, iter>>
    BY <1>3 DEF TryIter, joinVars, netVars
  <2>2. CASE channel = <<>>
    <3>1. main' = "read" /\ UNCHANGED <<channel, task>>
      BY <1>3, <2>2 DEF TryIter
    <3>2. TypeInv' /\ Holders' = Holders /\ \A d \in Conns : StreamInv(d)'
      BY <2>1, <3>1, StreamsKept
    <3>3. HandInv'
      BY <2>1, <3>1 DEF ServerInv, HandInv
    <3>4. PoolInv'
      BY <2>1, <3>1, <3>2 DEF ServerInv, PoolInv
    <3> QED BY <3>2, <3>3, <3>4 DEF ServerInv
  <2>3. CASE channel # <<>>
    <3>a. channel \in Seq(Conns) /\ Len(channel) \in Nat \ {0} /\ 1 \in DOMAIN channel
      BY <2>3, EmptySeq DEF ServerInv, HandInv
    <3>b. PICK c \in Conns : c = channel[1]
      BY <3>a
    <3>1. channel' = Tail(channel) /\ task' = [task EXCEPT ![c] = "reading"] /\ main' = main
      <4>1. Head(channel) = c
        BY <3>a, <3>b
      <4> QED BY <1>3, <2>3, <4>1 DEF TryIter
    <3>2. channel \in Seq(Conns) /\ Len(channel) \in Nat \ {0} /\ 1 \in DOMAIN channel /\ c \in Conns
      BY <3>a
    <3>3. task[c] = "none" /\ \A i, j \in DOMAIN channel : channel[i] = channel[j] => i = j
      BY <3>a, <3>b DEF ServerInv, HandInv
    <3>4. TypeInv' /\ task'[c] = "reading" /\ \A d \in Conns \ {c} : task'[d] = task[d]
      BY <2>1, <3>1, <3>2 DEF ServerInv, TypeInv, States
    <3>5. Holders' = Holders
      BY <3>2, <3>3, <3>4 DEF Holders
    <3>6. PoolInv'
      BY <2>1, <3>1, <3>5 DEF ServerInv, PoolInv
    <3>7. StreamInv(c)'
      <4>1. StreamInv(c)
        BY <3>2 DEF ServerInv
      <4>2. UNCHANGED <<sent[c], sock[c], out[c], tbuf[c], rbuf[c], wbuf[c]>>
        BY <2>1
      <4> QED BY <3>2, <3>3, <3>4, <4>1, <4>2, StreamMoves
    <3>8. \A d \in Conns \ {c} : Untouched(d)
      BY <2>1, <3>4 DEF Untouched
    <3>9. \A d \in Conns : StreamInv(d)'
      <4>1. ASSUME NEW d \in Conns \ {c} PROVE StreamInv(d)'
        BY <3>8, StreamUntouched DEF ServerInv
      <4> QED BY <3>7, <4>1
    <3>10. channel' \in Seq(Conns) /\ \A i \in DOMAIN channel' : i + 1 \in DOMAIN channel /\ channel'[i] = channel[i + 1] /\ i \in Nat /\ i # 0
      BY <3>1, <3>2
    <3>11. \A i \in DOMAIN channel' : channel'[i] # c /\ channel'[i] \in Conns /\ task[channel'[i]] = "none"
      <4> TAKE i \in DOMAIN channel'
      <4>1. i + 1 \in DOMAIN channel /\ channel'[i] = channel[i + 1] /\ i + 1 # 1
        BY <3>10
      <4>2. channel[i + 1] # channel[1]
        BY <3>2, <3>3, <4>1
      <4>3. channel[i + 1] \in Conns /\ task[channel[i + 1]] = "none"
        BY <3>2, <4>1 DEF ServerInv, HandInv
      <4> QED BY <3>b, <4>1, <4>2, <4>3
    <3>12. \A i, j \in DOMAIN channel' : channel'[i] = channel'[j] => i = j
      <4> TAKE i, j \in DOMAIN channel'
      <4>1. channel'[i] = channel'[j] => i + 1 = j + 1
        BY <3>3, <3>10
      <4>2. i \in Nat /\ j \in Nat
        BY <3>10
      <4> QED BY <4>1, <4>2
    <3>13. \A i \in DOMAIN channel' : task'[channel'[i]] = "none"
      BY <3>4, <3>11
    <3>14. \A d \in Conns : task[d] = "none" /\ (\A i \in DOMAIN channel : channel[i] # d)
             => task'[d] = "none" /\ \A i \in DOMAIN channel' : channel'[i] # d
      BY <3>2, <3>b, <3>4, <3>10
    <3>15. HandInv'
      BY <2>1, <3>10, <3>12, <3>13, <3>14 DEF ServerInv, HandInv
    <3> QED BY <3>4, <3>6, <3>9, <3>15 DEF ServerInv
  <2> QED BY <2>2, <2>3
<1> QED BY <1>1, <1>2, <1>3 DEF MainStep

-----------------------------------------------------------------------------
(* The theorems.                                                           *)

\* At the start there is nothing in the stream, the channel and the pool.
LEMMA ServerStart == ServerInit => ServerInv
<1> SUFFICES ASSUME ServerInit PROVE ServerInv
  OBVIOUS
<1> USE DEF ServerInit, Per
<1>1. TypeInv
  BY DEF TypeInv, States
<1>2. HandInv
  BY DEF HandInv
<1>3. PoolInv
  <2>1. Holders = {} /\ finished = {} /\ taken = {} /\ joiner = "ready"
    BY DEF Holders, JoinInit
  <2>2. Cardinality({}) = 0
    BY FS_EmptySet
  <2> QED BY <2>1, <2>2 DEF PoolInv
<1>4. ASSUME NEW c \in Conns PROVE StreamInv(c)
  <2>1. sent[c] = 0 /\ out[c] = 0 /\ wbuf[c] = 0 /\ tbuf[c] = <<>> /\ rbuf[c] = <<>> /\ sock[c] = <<>>
        /\ task[c] = "none"
    BY <1>4
  <2>2. Unanswered(c) = 0 /\ CHUNK \in Nat \ {0} /\ Window \in Nat /\ BUF \in Nat
    BY <2>1, ServerAssumption DEF Unanswered
  <2>3. Aligned(0)
    BY <2>2 DEF Aligned
  <2>4. 0 <= 0 + Window * CHUNK
    BY <2>2
  <2> USE DEF ServerInit
  <2>5. CountInv(c)
    BY <2>1, <2>2, <2>3, <2>4 DEF CountInv
  <2>6. SockInv(c) /\ RestInv(c) /\ RoundInv(c)
    BY <2>1, <2>2, NoBytes DEF SockInv, RestInv, RoundInv
  <2> QED BY <2>5, <2>6 DEF StreamInv
<1> QED BY <1>1, <1>2, <1>3, <1>4 DEF ServerInv

\* Every step of the server, of its clients and of the kernel keeps it.
LEMMA ServerStep ==
  ASSUME Enough, ServerInv, [ServerNext]_serverVars
  PROVE  ServerInv'
<1>1. CASE \E c \in Conns : Accept(c)
  BY <1>1, AcceptorInvariant
<1>2. CASE \E c \in Conns : ClientStep(c)
  BY <1>2, ClientInvariant
<1>3. CASE \E c \in Conns : ConnStep(c)
  BY <1>3, TaskInvariant
<1>4. CASE AcceptorStep
  BY <1>4, AcceptorInvariant
<1>5. CASE MainStep
  BY <1>5, MainInvariant
<1>6. CASE \E f \in Futs : Provide(f)
  BY <1>6, ProvideInvariant
<1>7. CASE UNCHANGED serverVars
  <2>1. UNCHANGED <<finished, taken, joiner, main, pool, acceptor, channel, sent, sock, out, tbuf, rbuf, wbuf, task, iter>>
    BY <1>7 DEF serverVars, joinVars, handVars, netVars, connVars
  <2>2. TypeInv' /\ Holders' = Holders /\ \A d \in Conns : StreamInv(d)'
    BY <2>1, StreamsKept
  <2>3. HandInv' /\ PoolInv'
    BY <2>1, <2>2 DEF ServerInv, HandInv, PoolInv
  <2> QED BY <2>2, <2>3 DEF ServerInv
<1> QED BY <1>1, <1>2, <1>3, <1>4, <1>5, <1>6, <1>7 DEF ServerNext

\* The invariant says that a client that sends pings is not turned away.
LEMMA ServerSafe == ServerInv => NeverRejected
<1> SUFFICES ASSUME ServerInv, NEW c \in Conns
             PROVE  /\ task[c] \notin {"rejected", "starved"}
                    /\ out[c] + wbuf[c] <= CHUNK * (sent[c] \div CHUNK)
  BY DEF NeverRejected
<1>1. task[c] \in States
  BY DEF ServerInv, TypeInv
<1>2. StreamInv(c)
  BY DEF ServerInv
<1>3. Unanswered(c) \in Nat /\ sent[c] \in Nat /\ Aligned(Unanswered(c)) /\ Unanswered(c) <= sent[c]
  BY <1>2, StreamCounted DEF Counted, StreamInv, CountInv
<1>4. Unanswered(c) <= CHUNK * (sent[c] \div CHUNK)
  BY <1>3, AlignedBelow
<1> QED BY <1>1, <1>4 DEF States, Unanswered

\* Where the bytes of every connection are, who holds the buffers of the pool
\* and how a connection is handed over, in every reachable state of
\* examples/pingserver.rs with enough buffers.
THEOREM ServerInvariance == Enough => (ServerSpec => []ServerInv)
<1> SUFFICES ASSUME Enough PROVE ServerSpec => []ServerInv
  OBVIOUS
<1>1. ServerInit => ServerInv
  BY ServerStart
<1>2. ServerInv /\ [ServerNext]_serverVars => ServerInv'
  BY ServerStep
<1> QED BY <1>1, <1>2, PTL DEF ServerSpec

\* conn_task_: however the stream is cut into reads and the answers into
\* writes, no chunk is taken for a bad one, no read finds the pool empty and
\* nothing is answered that was not sent.
THEOREM PingsNeverRejected == Enough => (ServerSpec => []NeverRejected)
<1> SUFFICES ASSUME Enough PROVE ServerSpec => []NeverRejected
  OBVIOUS
<1>1. ServerSpec => []ServerInv
  BY ServerInvariance
<1>2. ServerInv => NeverRejected
  BY ServerSafe
<1> QED BY <1>1, <1>2, PTL

=============================================================================
