------------------------------ MODULE SqePrepare ------------------------------
(***************************************************************************)
(* uring/src/sqe_types.rs and the SubmissionQueueEvent half of sqe.rs: how *)
(* a request builder (ReadVectored::new(..).offset(..)) becomes an SQE, in *)
(* a slot that still holds the SQE of an earlier request, and how          *)
(* LinkedSubmitter (handle.rs) adds user data and chain flags to it.       *)
(*                                                                         *)
(* The value of a setting is the token <<request, setting>>; an SQE field  *)
(* holds the set of tokens written to it.  Constants (fd = -1, len = 1)    *)
(* and defaults carry no setting and are {}.                               *)
(***************************************************************************)
EXTENDS Naturals, Sequences

CONSTANTS
  Ids,        \* request identities, the user_data of their SQEs
  Types,        \* request types used, a subset of DOMAIN Builders
  Entries     \* slots of the ring

ASSUME PrepareAssumption == Entries \in Nat \ {0}

VARIABLES
  slots,      \* the SQE slots
  tail,
  chain,      \* requests prepared by the LinkedSubmitter, in order
  asked, sent \* history: the last chain and the SQEs the kernel took for it

prepVars == <<slots, tail, chain, asked, sent>>

-----------------------------------------------------------------------------
(* The request types.  req: arguments of new(); opt: settings with a        *)
(* default; tgt: arguments of type Target; at: which setting prep_sqe       *)
(* stores in which SQE field.                                               *)

\* A function with the entries of both.
f ++ g == [x \in DOMAIN f \cup DOMAIN g |-> IF x \in DOMAIN f THEN f[x] ELSE g[x]]

B(req, opt, tgt, at) == [req |-> req, opt |-> opt, tgt |-> tgt, at |-> at]

ReadWriteVectoredAndFixed ==
  LET opt == {"ioprio", "offset", "rw_flags"}
      at == [fd |-> "fd", len |-> "len", ioprio |-> "ioprio", off |-> "offset"]
      vec == B({"fd", "iovec", "len"}, opt, {"fd"}, at ++ [addr |-> "iovec"])
      fix == B({"fd", "buf", "len", "buf_index"}, opt, {"fd"},
               at ++ [addr |-> "buf", extra |-> "buf_index"]) IN
  [Nop |-> B({}, {}, {}, << >>),
   ReadVectored |-> vec, WriteVectored |-> vec, ReadFixed |-> fix, WriteFixed |-> fix]

PollSyncAndMessages ==
  LET msg == B({"fd", "msg"}, {"ioprio", "flags"}, {"fd"},
               [fd |-> "fd", addr |-> "msg", op_flags |-> "flags"]) IN
  [PollAdd |-> B({"fd", "poll_events"}, {}, {"fd"}, [fd |-> "fd", op_flags |-> "poll_events"]),
   PollRemove |-> B({"user_data"}, {}, {}, [addr |-> "user_data"]),
   SyncFileRange |-> B({"fd", "len"}, {"offset", "flags"}, {"fd"},
                       [fd |-> "fd", len |-> "len", off |-> "offset", op_flags |-> "flags"]),
   SendMsg |-> msg, RecvMsg |-> msg]

TimeoutsAndConnections ==
  LET byData == B({"user_data"}, {"flags"}, {}, [addr |-> "user_data", op_flags |-> "flags"])
      socket == [fd |-> "fd", addr |-> "addr", off |-> "addrlen"]
      spec == [addr |-> "timespec", op_flags |-> "flags"] IN
  [Timeout |-> B({"timespec"}, {"count", "flags"}, {}, spec ++ [off |-> "count"]),
   LinkTimeout |-> B({"timespec"}, {"flags"}, {}, spec),
   TimeoutRemove |-> byData, AsyncCancel |-> byData,
   Accept |-> B({"fd", "addr", "addrlen"}, {"flags"}, {"fd"}, socket ++ [op_flags |-> "flags"]),
   Connect |-> B({"fd", "addr", "addrlen"}, {}, {"fd"}, socket)]

\* The default length of OpenAt2 is a size, not zero: it counts as given.
FilesAndPaths ==
  LET path == [fd |-> "dirfd", addr |-> "pathname"] IN
  [Fallocate |-> B({"fd", "len"}, {"offset", "mode"}, {"fd"},
                   [fd |-> "fd", addr |-> "len", off |-> "offset", len |-> "mode"]),
   Fadvise |-> B({"fd", "len", "advice"}, {"offset"}, {"fd"},
                 [fd |-> "fd", len |-> "len", off |-> "offset", op_flags |-> "advice"]),
   Madvise |-> B({"addr", "len", "advice"}, {}, {},
                 [addr |-> "addr", len |-> "len", op_flags |-> "advice"]),
   OpenAt |-> B({"dirfd", "pathname"}, {"flags", "mode"}, {},
                path ++ [len |-> "mode", op_flags |-> "flags"]),
   OpenAt2 |-> B({"dirfd", "pathname", "how", "len"}, {}, {}, path ++ [len |-> "len", off |-> "how"]),
   Close |-> B({"fd"}, {}, {}, [fd |-> "fd"]),
   Statx |-> B({"dirfd", "pathname", "statxbuf"}, {"flags", "mask"}, {},
               path ++ [len |-> "mask", off |-> "statxbuf", op_flags |-> "flags"])]

\* Seeded fault: Read and Write forget the file offset.
BadReadWriteSendRecv ==
  LET at == [fd |-> "fd", addr |-> "buf", len |-> "len"]
      rw == B({"fd", "buf", "len"}, {"ioprio", "offset", "rw_flags"}, {"fd"},
              at ++ [ioprio |-> "ioprio", op_flags |-> "rw_flags"])
      sr == B({"fd", "buf", "len"}, {"flags"}, {"fd"}, at ++ [op_flags |-> "flags"]) IN
  [Read |-> rw, Write |-> rw, Send |-> sr, Recv |-> sr]

ReadWriteSendRecv ==
  LET at == [fd |-> "fd", addr |-> "buf", len |-> "len"]
      rw == B({"fd", "buf", "len"}, {"ioprio", "offset", "rw_flags"}, {"fd"},
              at ++ [ioprio |-> "ioprio", off |-> "offset", op_flags |-> "rw_flags"])
      sr == B({"fd", "buf", "len"}, {"flags"}, {"fd"}, at ++ [op_flags |-> "flags"]) IN
  [Read |-> rw, Write |-> rw, Send |-> sr, Recv |-> sr]

EpollSpliceAndBuffers ==
  LET tee == [fd |-> "fd_out", len |-> "len", extra |-> "fd_in", op_flags |-> "flags"] IN
  [EpollCtl |-> B({"epfd", "fd", "op", "ev"}, {}, {"epfd"},
                  [fd |-> "epfd", addr |-> "ev", len |-> "op", off |-> "fd"]),
   Splice |-> B({"fd_in", "off_in", "fd_out", "off_out", "len"}, {"flags"}, {"fd_in", "fd_out"},
                tee ++ [off |-> "off_out", addr |-> "off_in"]),
   Tee |-> B({"fd_in", "fd_out", "len"}, {"flags"}, {"fd_in", "fd_out"}, tee),
   FilesUpdate |-> B({"fds", "len"}, {"offset"}, {}, [addr |-> "fds", len |-> "len", off |-> "offset"]),
   ProvideBuffers |-> B({"addr", "len", "nbufs", "buf_group", "buf_id"}, {}, {},
                        [fd |-> "nbufs", addr |-> "addr", len |-> "len", off |-> "buf_id",
                         extra |-> "buf_group"]),
   RemoveBuffers |-> B({"nbufs", "buf_group"}, {}, {}, [fd |-> "nbufs", extra |-> "buf_group"])]

Builders ==
  ReadWriteVectoredAndFixed ++ PollSyncAndMessages ++ TimeoutsAndConnections
    ++ FilesAndPaths ++ ReadWriteSendRecv ++ EpollSpliceAndBuffers

-----------------------------------------------------------------------------
(* Preparing one SQE.                                                       *)

SqeFields == {"ioprio", "fd", "off", "addr", "len", "op_flags", "extra"}
ZeroSqe == [opcode |-> "Nop", flags |-> {}, user_data |-> 0, data |-> [f \in SqeFields |-> {}]]

\* Seeded fault: the slot is not cleared.
BadClear(sqe) == sqe

\* SubmissionQueueEvent::clear, and ..zeroed() in the struct expressions.
Clear(sqe) == ZeroSqe

\* A request: its type, the optional settings made, its Fixed targets, and
\* whether the kernel selects the buffer (LinkedSubmitter::read).
Given(r) == Builders[r.op].req \cup r.set

\* Prepare::prep_sqe.  FIXED_FILE is about the fd of the SQE; the other target
\* of splice and tee has a flag of its own.
PrepSqe(sqe, r) ==
  LET at == Builders[r.op].at
      zero == Clear(sqe)
      inFixed == IF "fd_in" \in r.fixed THEN {<<r.id, "FD_IN_FIXED">>} ELSE {} IN
  [zero EXCEPT
     !.opcode = r.op,
     !.flags = @ \cup (IF r.fixed \ {"fd_in"} # {} THEN {"FIXED_FILE"} ELSE {}),
     !.data = [f \in SqeFields |->
                 IF f \in DOMAIN at
                 THEN {<<r.id, s>> : s \in Given(r) \cap {at[f]}}
                      \cup (IF f = "op_flags" THEN inFixed ELSE {})
                 ELSE @[f]]]

\* LinkedSubmitter::submit_sqe: the request, its flags, its id, the link.
Fill(sqe, r) ==
  LET prepared == PrepSqe(sqe, r)
      own == IF r.select THEN {"BUFFER_SELECT", "ASYNC"} ELSE prepared.flags IN
  [prepared EXCEPT !.user_data = r.id, !.flags = own \cup {"IO_LINK"}]

-----------------------------------------------------------------------------
PrepInit ==
  /\ slots = [i \in 0 .. Entries - 1 |-> ZeroSqe]
  /\ tail = 0
  /\ chain = <<>> /\ asked = <<>> /\ sent = <<>>

\* What LinkedSubmitter offers to link: read, read_buf, write_buf and
\* provide_buffer, with a plain fd.  IOHandle::submit_sqe takes any request but
\* submits it alone.
Linkable(r) == r.op \in {"Read", "Write", "ProvideBuffers"} /\ r.set = {} /\ r.fixed = {}

SubmitSqe(r) ==
  LET i == (tail + Len(chain)) % Entries IN
  /\ Len(chain) < Entries
  /\ r.select => Linkable(r)
  /\ chain # <<>> => Linkable(r) /\ Linkable(Head(chain))
  /\ \A j \in DOMAIN chain : chain[j].id # r.id
  /\ slots[i].user_data # r.id
  /\ slots' = [slots EXCEPT ![i] = Fill(@, r)]
  /\ chain' = Append(chain, r)
  /\ asked' = <<>> /\ sent' = <<>>
  /\ UNCHANGED tail

\* Seeded fault: the first SQE of the chain is unlinked, not the last.
BadChainEnd(n) == 1

ChainEnd(n) == n

\* LinkedSubmitter::submit, and the kernel taking the chain.
Submit ==
  LET n == Len(chain)
      slot(j) == (tail + j - 1) % Entries IN
  /\ n > 0
  /\ slots' = [slots EXCEPT ![slot(ChainEnd(n))].flags = @ \ {"IO_LINK"}]
  /\ tail' = (tail + n) % Entries
  /\ sent' = [j \in 1 .. n |-> slots'[slot(j)]]
  /\ asked' = chain
  /\ chain' = <<>>

\* Optional settings are made all or none, since each has a field of its own.
Request ==
  UNION {[id : Ids, op : {op}, set : {{}, Builders[op].opt}, fixed : SUBSET Builders[op].tgt,
          select : IF op = "Read" THEN BOOLEAN ELSE {FALSE}] : op \in Types}

PrepNext ==
  \/ \E r \in Request : SubmitSqe(r)
  \/ Submit

PrepSpec == PrepInit /\ [][PrepNext]_prepVars

-----------------------------------------------------------------------------
(* Properties of what the kernel is given for each request of a chain.      *)

\* Nothing the caller set is lost: every setting is in some field of the SQE
\* and every Fixed target is marked as such.
SettingsReachKernel ==
  \A i \in DOMAIN sent :
    LET r == asked[i]
        tokens == UNION {sent[i].data[f] : f \in SqeFields} IN
    /\ \A s \in Given(r) : <<r.id, s>> \in tokens
    /\ r.fixed \ {"fd_in"} # {} => "FIXED_FILE" \in sent[i].flags
    /\ "fd_in" \in r.fixed => <<r.id, "FD_IN_FIXED">> \in tokens

\* Nothing of the request that used the slot before is left: no setting, no
\* flag, no user data.
NothingStale ==
  \A i \in DOMAIN sent :
    LET r == asked[i] IN
    /\ sent[i].opcode = r.op
    /\ sent[i].user_data = r.id
    /\ \A f \in SqeFields : \A x \in sent[i].data[f] : x[1] = r.id
    /\ "FIXED_FILE" \in sent[i].flags => r.fixed \ {"fd_in"} # {}
    /\ "BUFFER_SELECT" \in sent[i].flags => r.select

\* The chain is what was asked for: every request but the last is linked to
\* the one behind it, and the last to nothing that is submitted later.
ChainShape ==
  \A i \in DOMAIN sent : ("IO_LINK" \in sent[i].flags) = (i < Len(sent))
=============================================================================
