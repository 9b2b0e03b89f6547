------------------------------ MODULE PingServer ------------------------------
(***************************************************************************)
(* hamerkop/examples/pingserver.rs: the server that uses the runtime.  An  *)
(* acceptor thread hands connections to the main task through a channel    *)
(* and an eventfd; the main task joins the provide_buffer futures first    *)
(* and then spawns a task per connection, which answers every ping.        *)
(*                                                                         *)
(* A ping is the bytes 0 .. CHUNK - 1 (PING\r\n in the code, CHUNK = 6),   *)
(* and so is its answer.  The client may cut its pings anywhere, and waits *)
(* when Window of them are unanswered.  A read takes a buffer from the     *)
(* pool that the kernel picks from, one of those provided at the start.    *)
(* Requests fail where a client is the reason: provide_buffer, whose error  *)
(* (the kernel is out of memory) would end the task that awaits it, always  *)
(* succeeds here.                                                          *)
(***************************************************************************)
EXTENDS Join, Sequences, SequencesExt, Functions

CONSTANTS
  Conns,
  BUF,        \* BUFFER_SIZE
  CHUNK,
  Pings,      \* connection -> how many pings its client sends
  Window

ASSUME ServerAssumption ==
  /\ CHUNK \in Nat \ {0} /\ BUF \in Nat /\ BUF > CHUNK
  /\ Window \in Nat /\ NFuts \in Nat
  /\ IsFiniteSet(Conns)

Chunks == INSTANCE DisjointChunks WITH N <- CHUNK

VARIABLES
  acceptor,   \* <<"accept">>, <<"notify", c>> or <<"send", c>>
  eventfd,    \* its counter
  channel,    \* connections sent and not received
  main,       \* the main task: "join", "read" or "iter"
  pool,       \* buffers the kernel may pick
  task,       \* connection -> where its task is
  sent, sock, \* bytes the client has sent, and those the server has not read
  client,     \* connection -> "open", "closed" or "reset"
  tbuf, rbuf, wbuf,
  iter,       \* the DisjointChunksExact over tbuf and rbuf
  out         \* bytes of answers the client has received

handVars == <<acceptor, eventfd, channel>>
netVars  == <<sent, client>>
connVars == <<task, sock, tbuf, rbuf, wbuf, iter, out, pool>>
serverVars == <<joinVars, handVars, main, netVars, connVars>>

Per(x) == [c \in Conns |-> x]

ServerInit ==
  /\ JoinInit
  /\ acceptor = <<"accept">> /\ eventfd = 0 /\ channel = <<>>
  /\ main = "join" /\ pool = 0
  /\ task = Per("none") /\ client = Per("open")
  /\ sent = Per(0) /\ sock = Per(<<>>) /\ out = Per(0)
  /\ tbuf = Per(<<>>) /\ rbuf = Per(<<>>) /\ wbuf = Per(0) /\ iter = Per(Chunks!New(<<>>, <<>>))

-----------------------------------------------------------------------------
(* The acceptor thread and the main task.                                   *)

Accept(c) ==
  /\ acceptor = <<"accept">> /\ task[c] = "none"
  /\ c \notin ToSet(channel)
  /\ acceptor' = <<"notify", c>>
  /\ UNCHANGED <<joinVars, eventfd, channel, main, netVars, connVars>>

\* The eventfd is written before the connection is sent.
Notify ==
  /\ acceptor[1] = "notify"
  /\ eventfd' = eventfd + 1
  /\ acceptor' = <<"send", acceptor[2]>>
  /\ UNCHANGED <<joinVars, channel, main, netVars, connVars>>

SendConn ==
  /\ acceptor[1] = "send"
  /\ channel' = Append(channel, acceptor[2])
  /\ acceptor' = <<"accept">>
  /\ UNCHANGED <<joinVars, eventfd, main, netVars, connVars>>

\* The start of main_task: a buffer is the kernel's once its provide request
\* has completed.
Provide(f) ==
  /\ FutFinishes(f)
  /\ pool' = pool + 1
  /\ UNCHANGED <<handVars, main, netVars, task, sock, tbuf, rbuf, wbuf, iter, out>>

PollJoin ==
  /\ main = "join"
  /\ (\E f \in Futs : PollTakes(f)) \/ PollNone \/ PollEnds
  /\ main' = IF joiner' = "joined" THEN "read" ELSE main
  /\ UNCHANGED <<handVars, netVars, connVars>>

\* The read of the eventfd completes.
ReadEvent ==
  /\ main = "read" /\ eventfd > 0
  /\ eventfd' = 0
  /\ main' = "iter"
  /\ UNCHANGED <<joinVars, acceptor, channel, netVars, connVars>>

\* Seeded fault: one connection per notification.
BadTryIter ==
  /\ main = "iter"
  /\ main' = "read"
  /\ IF channel = <<>> THEN UNCHANGED <<channel, task>>
     ELSE channel' = Tail(channel) /\ task' = [task EXCEPT ![Head(channel)] = "reading"]
  /\ UNCHANGED <<joinVars, acceptor, eventfd, netVars, sock, tbuf, rbuf, wbuf, iter, out, pool>>

\* One turn of the loop over try_iter: a task is spawned, which starts with a
\* read, or the channel is empty.
TryIter ==
  /\ main = "iter"
  /\ IF channel = <<>> THEN main' = "read" /\ UNCHANGED <<channel, task>>
     ELSE /\ channel' = Tail(channel)
          /\ task' = [task EXCEPT ![Head(channel)] = "reading"]
          /\ UNCHANGED main
  /\ UNCHANGED <<joinVars, acceptor, eventfd, netVars, sock, tbuf, rbuf, wbuf, iter, out, pool>>

-----------------------------------------------------------------------------
(* The client.                                                              *)

Bytes(from, n) == [k \in 1 .. n |-> (from + k - 1) % CHUNK]

ClientSends(c, n) ==
  /\ client[c] = "open" /\ task[c] # "none"
  /\ sent[c] + n <= Pings[c] * CHUNK
  /\ sent[c] + n <= out[c] + Window * CHUNK
  /\ sent' = [sent EXCEPT ![c] = @ + n]
  /\ sock' = [sock EXCEPT ![c] = @ \o Bytes(sent[c], n)]
  /\ UNCHANGED <<joinVars, handVars, main, client, task, tbuf, rbuf, wbuf, iter, out, pool>>

\* After the last answer, or at any time by a reset.
ClientEnds(c, how) ==
  /\ client[c] = "open" /\ task[c] # "none"
  /\ how = "closed" => out[c] = Pings[c] * CHUNK
  /\ client' = [client EXCEPT ![c] = how]
  /\ UNCHANGED <<joinVars, handVars, main, sent, connVars>>

-----------------------------------------------------------------------------
(* conn_task_                                                               *)

InTask == <<joinVars, handVars, main, netVars>>
Goto(c, l) == task' = [task EXCEPT ![c] = l]

\* A read completes: with up to BUF bytes in a buffer of the pool, or nothing
\* at the end of the stream; without a buffer it fails (ENOBUFS).
ReadDone(c, n) ==
  /\ task[c] = "reading" /\ client[c] # "reset"
  /\ n <= BUF /\ n <= Len(sock[c])
  /\ n = 0 => sock[c] = <<>> /\ client[c] = "closed"
  /\ IF pool = 0
     THEN Goto(c, "starved") /\ UNCHANGED <<rbuf, iter, sock, pool>>
     ELSE /\ rbuf' = [rbuf EXCEPT ![c] = SubSeq(sock[c], 1, n)]
          /\ iter' = [iter EXCEPT ![c] = Chunks!New(tbuf[c], rbuf'[c])]
          /\ sock' = [sock EXCEPT ![c] = SubSeq(@, n + 1, Len(@))]
          /\ pool' = pool - 1
          /\ Goto(c, IF n = 0 THEN "giveback" ELSE "process")
  /\ UNCHANGED <<InTask, tbuf, wbuf, out>>

\* The last provide_buffer, after which the task returns.
GiveBack(c) ==
  /\ task[c] = "giveback"
  /\ pool' = pool + 1
  /\ Goto(c, "done")
  /\ UNCHANGED <<InTask, sock, tbuf, rbuf, wbuf, iter, out>>

Ping == [k \in 1 .. CHUNK |-> k - 1]

\* Seeded fault: the bytes of the first buffer are not accounted for.
BadRemainder(a, b, count) == SubSeq(b, count + 1, Len(b))

\* transfer_remainder: what is left of a and b, in a as far as it has room.
Remainder(a, b, count) ==
  LET aCount == Chunks!Smaller(count, Len(a))
      left == SubSeq(a, aCount + 1, Len(a))
      rest == SubSeq(b, count - aCount + 1, Len(b))
  IN left \o SubSeq(rest, 1, Chunks!Smaller(Len(rest), BUF - Len(left)))

\* The loop over the chunks runs while wbuf has more than a chunk's room and
\* the iterator has a chunk.
Answering(c) == BUF - wbuf[c] > CHUNK /\ ~iter[c].none

\* One round of the loop in next.
ChunkPart(c) ==
  /\ task[c] = "process" /\ Answering(c) /\ ~Chunks!IsWhole(iter[c])
  /\ iter' = [iter EXCEPT ![c] = Chunks!TakePart(@)]
  /\ UNCHANGED <<InTask, task, sock, tbuf, rbuf, wbuf, out, pool>>

\* A chunk is answered, or ends the task if it is no ping.
AnswerChunk(c) ==
  /\ task[c] = "process" /\ Answering(c) /\ Chunks!IsWhole(iter[c])
  /\ IF iter[c].tmp = Ping
     THEN wbuf' = [wbuf EXCEPT ![c] = @ + CHUNK] /\ UNCHANGED <<task, rbuf>>
     ELSE /\ Goto(c, "rejected") /\ rbuf' = [rbuf EXCEPT ![c] = <<>>]
          /\ UNCHANGED wbuf
  /\ iter' = [iter EXCEPT ![c] = Chunks!Taken(@)]
  /\ UNCHANGED <<InTask, sock, tbuf, out, pool>>

\* After the loop: transfer_remainder, whose count is the length of wbuf, and
\* the linked chain of provide_buffer, write and read.  What the transfer
\* leaves in rbuf goes back to the pool with it.
SubmitChain(c) ==
  /\ task[c] = "process" /\ ~Answering(c)
  /\ tbuf' = [tbuf EXCEPT ![c] = Remainder(@, rbuf[c], wbuf[c])]
  /\ rbuf' = [rbuf EXCEPT ![c] = <<>>]
  /\ iter' = [iter EXCEPT ![c] = Chunks!New(<<>>, <<>>)]
  /\ Goto(c, "chain")
  /\ UNCHANGED <<InTask, wbuf, sock, out, pool>>

\* The first request of the chain completes.
ChainProvides(c) ==
  /\ task[c] = "chain"
  /\ pool' = pool + 1
  /\ Goto(c, "write")
  /\ UNCHANGED <<InTask, sock, tbuf, rbuf, wbuf, iter, out>>

\* Seeded fault: the rest of a short write is not written.
BadWriteDone(c, n) ==
  /\ task[c] \in {"write", "write_all"} /\ client[c] # "reset"
  /\ n <= wbuf[c] /\ (n = 0 => wbuf[c] = 0)
  /\ out' = [out EXCEPT ![c] = @ + n]
  /\ wbuf' = [wbuf EXCEPT ![c] = 0]
  /\ Goto(c, "reading")
  /\ UNCHANGED <<InTask, sock, tbuf, rbuf, iter, pool>>

\* A write completes with n bytes.  In the chain, a short one breaks the link,
\* so the read is cancelled; write_all writes the rest, and the next read is a
\* request of its own.
WriteDone(c, n) ==
  /\ task[c] \in {"write", "write_all"} /\ client[c] # "reset"
  /\ n <= wbuf[c] /\ (n = 0 => wbuf[c] = 0)
  /\ out' = [out EXCEPT ![c] = @ + n]
  /\ wbuf' = [wbuf EXCEPT ![c] = @ - n]
  /\ Goto(c, IF n = wbuf[c] THEN "reading" ELSE "write_all")
  /\ UNCHANGED <<InTask, sock, tbuf, rbuf, iter, pool>>

\* A read or write on a connection that was reset fails, and ends the task.
IOFails(c) ==
  /\ task[c] \in {"reading", "write", "write_all"} /\ client[c] = "reset"
  /\ Goto(c, "done")
  /\ UNCHANGED <<InTask, sock, tbuf, rbuf, wbuf, iter, out, pool>>

ConnStep(c) ==
  \/ \E n \in 0 .. BUF : ReadDone(c, n) \/ WriteDone(c, n)
  \/ GiveBack(c) \/ ChunkPart(c) \/ AnswerChunk(c) \/ SubmitChain(c) \/ ChainProvides(c) \/ IOFails(c)

MainStep == PollJoin \/ ReadEvent \/ TryIter
AcceptorStep == Notify \/ SendConn
ClientStep(c) ==
  \/ \E n \in 1 .. BUF : ClientSends(c, n)
  \/ \E how \in {"closed", "reset"} : ClientEnds(c, how)

ServerNext ==
  \/ \E c \in Conns : Accept(c) \/ ClientStep(c) \/ ConnStep(c)
  \/ AcceptorStep \/ MainStep
  \/ \E f \in Futs : Provide(f)

ServerSpec == ServerInit /\ [][ServerNext]_serverVars

\* The runtime polls what is woken, the acceptor thread runs, and the kernel
\* completes what can complete.  Nothing makes a client connect or send.
FairServerSpec ==
  /\ ServerSpec
  /\ \A c \in Conns : WF_serverVars(ConnStep(c))
  /\ WF_serverVars(AcceptorStep) /\ WF_serverVars(MainStep)
  /\ \A f \in Futs : WF_serverVars(Provide(f))

-----------------------------------------------------------------------------
(* Properties.                                                              *)

\* However the stream is cut into reads and however the writes are cut short,
\* a client that sends nothing but pings is never turned away for a bad chunk,
\* no read finds the pool empty, and there is no answer without a ping.
NeverRejected ==
  \A c \in Conns : /\ task[c] \notin {"rejected", "starved"}
                   /\ out[c] + wbuf[c] <= CHUNK * (sent[c] \div CHUNK)

\* Every ping is answered, whole, unless the client resets the connection.
EveryPingAnswered ==
  \A c \in Conns : \A k \in 1 .. Pings[c] :
    sent[c] >= k * CHUNK ~> out[c] >= k * CHUNK \/ client[c] = "reset"

\* A connection that is in the channel when there is a notification to read is
\* spawned, however many connections share the notification.  (One that the
\* main task was notified of before it was sent waits for the next.)
SpawnedByNext ==
  \A c \in Conns : c \in ToSet(channel) /\ eventfd > 0 ~> task[c] # "none"

\* The start-up join ends, and it ends with every buffer in the pool.
StartsServing ==
  /\ <>(main = "read")
  /\ [](main # "join" => taken = Futs /\ finished = Futs)
=============================================================================
