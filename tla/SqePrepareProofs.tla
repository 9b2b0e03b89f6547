--------------------------- MODULE SqePrepareProofs ---------------------------
(***************************************************************************)
(* Proofs about SqePrepare, for a ring of any size, any set of request     *)
(* identities and any set of request types: what the kernel is given for a *)
(* request depends on that request alone and never on the SQE the slot     *)
(* held before, the chain is linked as asked, and, but for the six types   *)
(* whose prep_sqe drops a setting, every setting arrives.                  *)
(***************************************************************************)
EXTENDS SqePrepare, Integers, SequenceTheorems, TLAPS

-----------------------------------------------------------------------------
(* The table of builders.                                                  *)

\* The types whose prep_sqe does not store a setting that their builder takes:
\* rw_flags of the vectored and fixed transfers, ioprio of the messages.
Forgetful == {"ReadVectored", "WriteVectored", "ReadFixed", "WriteFixed", "SendMsg", "RecvMsg"}

\* Every setting has a field, and a type with a second target has the field of
\* that target's flag.
Stores(b) ==
  /\ DOMAIN b.at \subseteq SqeFields
  /\ \A s \in b.req \cup b.opt : \E f \in DOMAIN b.at : b.at[f] = s
  /\ "fd_in" \in b.tgt => "op_flags" \in DOMAIN b.at

\* It is enough that each setting has a field in one of the two halves of a table.
LEMMA StoresBoth ==
  ASSUME NEW req, NEW opt, NEW tgt, NEW f, NEW g,
         DOMAIN f \cup DOMAIN g \subseteq SqeFields, DOMAIN f \cap DOMAIN g = {},
         \A s \in req \cup opt : (\E x \in DOMAIN f : f[x] = s) \/ (\E x \in DOMAIN g : g[x] = s),
         "fd_in" \in tgt => "op_flags" \in DOMAIN f \cup DOMAIN g
  PROVE  Stores(B(req, opt, tgt, f ++ g))
BY DEF Stores, B, ++
\* The types of ReadWriteVectoredAndFixed.
LEMMA ReadWriteVectoredAndFixedStore ==
  \A op \in DOMAIN ReadWriteVectoredAndFixed \ Forgetful : Stores(ReadWriteVectoredAndFixed[op])
<1>1. DOMAIN ReadWriteVectoredAndFixed = {"Nop", "ReadVectored", "WriteVectored", "ReadFixed", "WriteFixed"}
  BY DEF ReadWriteVectoredAndFixed
<1>2. Stores(ReadWriteVectoredAndFixed["Nop"])
  BY DEF ReadWriteVectoredAndFixed, Stores, B, SqeFields
<1> QED BY <1>1, <1>2 DEF Forgetful

\* The types of PollSyncAndMessages.
LEMMA PollSyncAndMessagesStore ==
  \A op \in DOMAIN PollSyncAndMessages \ Forgetful : Stores(PollSyncAndMessages[op])
<1>1. DOMAIN PollSyncAndMessages = {"PollAdd", "PollRemove", "SyncFileRange", "SendMsg", "RecvMsg"}
  BY DEF PollSyncAndMessages
<1>2. Stores(PollSyncAndMessages["PollAdd"])
  BY DEF PollSyncAndMessages, Stores, B, SqeFields
<1>3. Stores(PollSyncAndMessages["PollRemove"])
  BY DEF PollSyncAndMessages, Stores, B, SqeFields
<1>4. Stores(PollSyncAndMessages["SyncFileRange"])
  BY DEF PollSyncAndMessages, Stores, B, SqeFields
<1> QED BY <1>1, <1>2, <1>3, <1>4 DEF Forgetful

\* The types of TimeoutsAndConnections.
LEMMA TimeoutsAndConnectionsStore ==
  \A op \in DOMAIN TimeoutsAndConnections \ Forgetful : Stores(TimeoutsAndConnections[op])
<1>1. DOMAIN TimeoutsAndConnections = {"Timeout", "LinkTimeout", "TimeoutRemove", "AsyncCancel", "Accept", "Connect"}
  BY DEF TimeoutsAndConnections
<1>2. Stores(TimeoutsAndConnections["Timeout"])
  <2>1. Stores(B({"timespec"}, {"count", "flags"}, {},
                [addr |-> "timespec", op_flags |-> "flags"] ++ [off |-> "count"]))
    <3> DEFINE f == [addr |-> "timespec", op_flags |-> "flags"]
               g == [off |-> "count"]
    <3>1. DOMAIN f \cup DOMAIN g \subseteq SqeFields /\ DOMAIN f \cap DOMAIN g = {}
      BY DEF SqeFields
    <3> QED BY <3>1, StoresBoth
  <2> QED BY <2>1 DEF TimeoutsAndConnections
<1>3. Stores(TimeoutsAndConnections["LinkTimeout"])
  BY DEF TimeoutsAndConnections, Stores, B, SqeFields
<1>4. Stores(TimeoutsAndConnections["TimeoutRemove"])
  BY DEF TimeoutsAndConnections, Stores, B, SqeFields
<1>5. Stores(TimeoutsAndConnections["AsyncCancel"])
  BY DEF TimeoutsAndConnections, Stores, B, SqeFields
<1>6. Stores(TimeoutsAndConnections["Accept"])
  <2>1. Stores(B({"fd", "addr", "addrlen"}, {"flags"}, {"fd"},
                [fd |-> "fd", addr |-> "addr", off |-> "addrlen"] ++ [op_flags |-> "flags"]))
    <3> DEFINE f == [fd |-> "fd", addr |-> "addr", off |-> "addrlen"]
               g == [op_flags |-> "flags"]
    <3>1. DOMAIN f \cup DOMAIN g \subseteq SqeFields /\ DOMAIN f \cap DOMAIN g = {}
      BY DEF SqeFields
    <3> QED BY <3>1, StoresBoth
  <2> QED BY <2>1 DEF TimeoutsAndConnections
<1>7. Stores(TimeoutsAndConnections["Connect"])
  BY DEF TimeoutsAndConnections, Stores, B, SqeFields
<1> QED BY <1>1, <1>2, <1>3, <1>4, <1>5, <1>6, <1>7

\* The types of FilesAndPaths.
LEMMA FilesAndPathsStore ==
  \A op \in DOMAIN FilesAndPaths \ Forgetful : Stores(FilesAndPaths[op])
<1>1. DOMAIN FilesAndPaths = {"Fallocate", "Fadvise", "Madvise", "OpenAt", "OpenAt2", "Close", "Statx"}
  BY DEF FilesAndPaths
<1>2. Stores(FilesAndPaths["Fallocate"])
  BY DEF FilesAndPaths, Stores, B, SqeFields
<1>3. Stores(FilesAndPaths["Fadvise"])
  BY DEF FilesAndPaths, Stores, B, SqeFields
<1>4. Stores(FilesAndPaths["Madvise"])
  BY DEF FilesAndPaths, Stores, B, SqeFields
<1>5. Stores(FilesAndPaths["OpenAt"])
  <2>1. Stores(B({"dirfd", "pathname"}, {"flags", "mode"}, {},
                [fd |-> "dirfd", addr |-> "pathname"] ++ [len |-> "mode", op_flags |-> "flags"]))
    <3> DEFINE f == [fd |-> "dirfd", addr |-> "pathname"]
               g == [len |-> "mode", op_flags |-> "flags"]
    <3>1. DOMAIN f \cup DOMAIN g \subseteq SqeFields /\ DOMAIN f \cap DOMAIN g = {}
      BY DEF SqeFields
    <3> QED BY <3>1, StoresBoth
  <2> QED BY <2>1 DEF FilesAndPaths
<1>6. Stores(FilesAndPaths["OpenAt2"])
  <2>1. Stores(B({"dirfd", "pathname", "how", "len"}, {}, {},
                [fd |-> "dirfd", addr |-> "pathname"] ++ [len |-> "len", off |-> "how"]))
    <3> DEFINE f == [fd |-> "dirfd", addr |-> "pathname"]
               g == [len |-> "len", off |-> "how"]
    <3>1. DOMAIN f \cup DOMAIN g \subseteq SqeFields /\ DOMAIN f \cap DOMAIN g = {}
      BY DEF SqeFields
    <3> QED BY <3>1, StoresBoth
  <2> QED BY <2>1 DEF FilesAndPaths
<1>7. Stores(FilesAndPaths["Close"])
  BY DEF FilesAndPaths, Stores, B, SqeFields
<1>8. Stores(FilesAndPaths["Statx"])
  <2>1. Stores(B({"dirfd", "pathname", "statxbuf"}, {"flags", "mask"}, {},
                [fd |-> "dirfd", addr |-> "pathname"] ++ [len |-> "mask", off |-> "statxbuf", op_flags |-> "flags"]))
    <3> DEFINE f == [fd |-> "dirfd", addr |-> "pathname"]
               g == [len |-> "mask", off |-> "statxbuf", op_flags |-> "flags"]
    <3>1. DOMAIN f \cup DOMAIN g \subseteq SqeFields /\ DOMAIN f \cap DOMAIN g = {}
      BY DEF SqeFields
    <3> QED BY <3>1, StoresBoth
  <2> QED BY <2>1 DEF FilesAndPaths
<1> QED BY <1>1, <1>2, <1>3, <1>4, <1>5, <1>6, <1>7, <1>8

\* The types of ReadWriteSendRecv.
LEMMA ReadWriteSendRecvStore ==
  \A op \in DOMAIN ReadWriteSendRecv \ Forgetful : Stores(ReadWriteSendRecv[op])
<1>1. DOMAIN ReadWriteSendRecv = {"Read", "Write", "Send", "Recv"}
  BY DEF ReadWriteSendRecv
<1>2. Stores(ReadWriteSendRecv["Read"])
  <2>1. Stores(B({"fd", "buf", "len"}, {"ioprio", "offset", "rw_flags"}, {"fd"},
                [fd |-> "fd", addr |-> "buf", len |-> "len"] ++ [ioprio |-> "ioprio", off |-> "offset", op_flags |-> "rw_flags"]))
    <3> DEFINE f == [fd |-> "fd", addr |-> "buf", len |-> "len"]
               g == [ioprio |-> "ioprio", off |-> "offset", op_flags |-> "rw_flags"]
    <3>1. DOMAIN f \cup DOMAIN g \subseteq SqeFields /\ DOMAIN f \cap DOMAIN g = {}
      BY DEF SqeFields
    <3> QED BY <3>1, StoresBoth
  <2> QED BY <2>1 DEF ReadWriteSendRecv
<1>3. Stores(ReadWriteSendRecv["Write"])
  <2>1. Stores(B({"fd", "buf", "len"}, {"ioprio", "offset", "rw_flags"}, {"fd"},
                [fd |-> "fd", addr |-> "buf", len |-> "len"] ++ [ioprio |-> "ioprio", off |-> "offset", op_flags |-> "rw_flags"]))
    <3> DEFINE f == [fd |-> "fd", addr |-> "buf", len |-> "len"]
               g == [ioprio |-> "ioprio", off |-> "offset", op_flags |-> "rw_flags"]
    <3>1. DOMAIN f \cup DOMAIN g \subseteq SqeFields /\ DOMAIN f \cap DOMAIN g = {}
      BY DEF SqeFields
    <3> QED BY <3>1, StoresBoth
  <2> QED BY <2>1 DEF ReadWriteSendRecv
<1>4. Stores(ReadWriteSendRecv["Send"])
  <2>1. Stores(B({"fd", "buf", "len"}, {"flags"}, {"fd"},
                [fd |-> "fd", addr |-> "buf", len |-> "len"] ++ [op_flags |-> "flags"]))
    <3> DEFINE f == [fd |-> "fd", addr |-> "buf", len |-> "len"]
               g == [op_flags |-> "flags"]
    <3>1. DOMAIN f \cup DOMAIN g \subseteq SqeFields /\ DOMAIN f \cap DOMAIN g = {}
      BY DEF SqeFields
    <3> QED BY <3>1, StoresBoth
  <2> QED BY <2>1 DEF ReadWriteSendRecv
<1>5. Stores(ReadWriteSendRecv["Recv"])
  <2>1. Stores(B({"fd", "buf", "len"}, {"flags"}, {"fd"},
                [fd |-> "fd", addr |-> "buf", len |-> "len"] ++ [op_flags |-> "flags"]))
    <3> DEFINE f == [fd |-> "fd", addr |-> "buf", len |-> "len"]
               g == [op_flags |-> "flags"]
    <3>1. DOMAIN f \cup DOMAIN g \subseteq SqeFields /\ DOMAIN f \cap DOMAIN g = {}
      BY DEF SqeFields
    <3> QED BY <3>1, StoresBoth
  <2> QED BY <2>1 DEF ReadWriteSendRecv
<1> QED BY <1>1, <1>2, <1>3, <1>4, <1>5

\* The types of EpollSpliceAndBuffers.
LEMMA EpollSpliceAndBuffersStore ==
  \A op \in DOMAIN EpollSpliceAndBuffers \ Forgetful : Stores(EpollSpliceAndBuffers[op])
<1>1. DOMAIN EpollSpliceAndBuffers = {"EpollCtl", "Splice", "Tee", "FilesUpdate", "ProvideBuffers", "RemoveBuffers"}
  BY DEF EpollSpliceAndBuffers
<1>2. Stores(EpollSpliceAndBuffers["EpollCtl"])
  BY DEF EpollSpliceAndBuffers, Stores, B, SqeFields
<1>3. Stores(EpollSpliceAndBuffers["Splice"])
  <2>1. Stores(B({"fd_in", "off_in", "fd_out", "off_out", "len"}, {"flags"}, {"fd_in", "fd_out"},
                [fd |-> "fd_out", len |-> "len", extra |-> "fd_in", op_flags |-> "flags"] ++ [off |-> "off_out", addr |-> "off_in"]))
    <3> DEFINE f == [fd |-> "fd_out", len |-> "len", extra |-> "fd_in", op_flags |-> "flags"]
               g == [off |-> "off_out", addr |-> "off_in"]
    <3>1. DOMAIN f \cup DOMAIN g \subseteq SqeFields /\ DOMAIN f \cap DOMAIN g = {}
      BY DEF SqeFields
    <3> QED BY <3>1, StoresBoth
  <2> QED BY <2>1 DEF EpollSpliceAndBuffers
<1>4. Stores(EpollSpliceAndBuffers["Tee"])
  BY DEF EpollSpliceAndBuffers, Stores, B, SqeFields
<1>5. Stores(EpollSpliceAndBuffers["FilesUpdate"])
  BY DEF EpollSpliceAndBuffers, Stores, B, SqeFields
<1>6. Stores(EpollSpliceAndBuffers["ProvideBuffers"])
  BY DEF EpollSpliceAndBuffers, Stores, B, SqeFields
<1>7. Stores(EpollSpliceAndBuffers["RemoveBuffers"])
  BY DEF EpollSpliceAndBuffers, Stores, B, SqeFields
<1> QED BY <1>1, <1>2, <1>3, <1>4, <1>5, <1>6, <1>7

\* A table made of two is complete when both are.
LEMMA TableOfBoth ==
  ASSUME NEW f, NEW g,
         \A op \in DOMAIN f \ Forgetful : Stores(f[op]),
         \A op \in DOMAIN g \ Forgetful : Stores(g[op])
  PROVE  \A op \in DOMAIN (f ++ g) \ Forgetful : Stores((f ++ g)[op])
BY DEF ++

\* Every type but the six stores every setting of its builder.
LEMMA BuildersStore == \A op \in DOMAIN Builders \ Forgetful : Stores(Builders[op])
<1> DEFINE Complete(f) == \A op \in DOMAIN f \ Forgetful : Stores(f[op])
           t1 == ReadWriteVectoredAndFixed ++ PollSyncAndMessages
           t2 == t1 ++ TimeoutsAndConnections
           t3 == t2 ++ FilesAndPaths
           t4 == t3 ++ ReadWriteSendRecv
<1>1. Complete(t1)
  BY TableOfBoth, ReadWriteVectoredAndFixedStore, PollSyncAndMessagesStore
<1>2. Complete(t2)
  <2> HIDE DEF t1
  <2> QED BY <1>1, TableOfBoth, TimeoutsAndConnectionsStore
<1>3. Complete(t3)
  <2> HIDE DEF t2
  <2> QED BY <1>2, TableOfBoth, FilesAndPathsStore
<1>4. Complete(t4)
  <2> HIDE DEF t3
  <2> QED BY <1>3, TableOfBoth, ReadWriteSendRecvStore
<1>5. Complete(t4 ++ EpollSpliceAndBuffers)
  <2> HIDE DEF t4
  <2> QED BY <1>4, TableOfBoth, EpollSpliceAndBuffersStore
<1> QED BY <1>5 DEF Builders

-----------------------------------------------------------------------------
(* One SQE.                                                                *)

\* The SQE of a request, in a slot that was never used.
Filled(r) == Fill(ZeroSqe, r)

\* What submit does to the last SQE of the chain.
Unlinked(sqe) == [sqe EXCEPT !.flags = @ \ {"IO_LINK"}]

\* What submit_sqe leaves in the slot does not depend on what it found there.
LEMMA FillForgets == \A sqe, r : Fill(sqe, r) = Filled(r)
BY DEF Fill, Filled, PrepSqe, Clear

\* The opcode, user data and flags of the SQE of a request.
LEMMA FilledSqe ==
  \A r : /\ Filled(r).opcode = r.op
         /\ Filled(r).user_data = r.id
         /\ Filled(r).flags = (IF r.select THEN {"BUFFER_SELECT", "ASYNC"}
                               ELSE IF r.fixed \ {"fd_in"} # {} THEN {"FIXED_FILE"} ELSE {})
                              \cup {"IO_LINK"}
BY DEF Filled, Fill, PrepSqe, Clear, ZeroSqe

\* A field of the SQE holds the setting the table names for it, if it was made,
\* and the field of the flags that of the second target.
LEMMA FilledData ==
  \A r : \A f \in SqeFields : \A x :
    x \in Filled(r).data[f] <=>
      /\ f \in DOMAIN Builders[r.op].at
      /\ \/ \E s \in Given(r) : s = Builders[r.op].at[f] /\ x = <<r.id, s>>
         \/ f = "op_flags" /\ "fd_in" \in r.fixed /\ x = <<r.id, "FD_IN_FIXED">>
<1> TAKE r
<1> TAKE f \in SqeFields
<1>1. Filled(r).data[f] =
        IF f \in DOMAIN Builders[r.op].at
        THEN {<<r.id, s>> : s \in Given(r) \cap {Builders[r.op].at[f]}}
             \cup (IF f = "op_flags"
                   THEN IF "fd_in" \in r.fixed THEN {<<r.id, "FD_IN_FIXED">>} ELSE {}
                   ELSE {})
        ELSE {}
  BY DEF Filled, Fill, PrepSqe, Clear, ZeroSqe
<1> QED BY <1>1

\* Removing the link changes the flags only.
LEMMA UnlinkedSqe ==
  \A r : /\ Unlinked(Filled(r)).opcode = Filled(r).opcode
         /\ Unlinked(Filled(r)).user_data = Filled(r).user_data
         /\ Unlinked(Filled(r)).data = Filled(r).data
         /\ Unlinked(Filled(r)).flags = Filled(r).flags \ {"IO_LINK"}
BY DEF Unlinked, Filled, Fill, PrepSqe, Clear, ZeroSqe

-----------------------------------------------------------------------------
(* The slots of a chain.                                                   *)

\* Numbers less than N apart have different remainders.
LEMMA SlotsApart ==
  ASSUME NEW N \in Nat \ {0}, NEW a \in Nat, NEW d \in 1 .. N - 1
  PROVE  (a + d) % N # a % N
<1> DEFINE p == (a + d) \div N
           q == a \div N
<1>1. p \in Int /\ q \in Int /\ a % N \in 0 .. N - 1
  OBVIOUS
<1>2. a = N * q + (a % N)
  OBVIOUS
<1>3. a + d = N * p + ((a + d) % N)
  OBVIOUS
<1>4. SUFFICES ASSUME (a + d) % N = a % N PROVE FALSE
  OBVIOUS
<1> HIDE DEF p, q
<1>5. d = N * (p - q) /\ p - q \in Int
  BY <1>1, <1>2, <1>3, <1>4
<1>6. CASE p - q <= 0
  BY <1>5, <1>6
<1>7. CASE p - q >= 1
  BY <1>5, <1>7
<1> QED BY <1>5, <1>6, <1>7

\* The slot of the j-th request of a chain that begins at t.
SlotAt(t, j) == (t + j - 1) % Entries

\* It is a slot of the ring.
LEMMA SlotAtType == \A t \in Nat : \A j \in Nat \ {0} : SlotAt(t, j) \in 0 .. Entries - 1
BY PrepareAssumption DEF SlotAt

\* Two requests of a chain never share a slot.
LEMMA ChainSlotsDiffer ==
  \A t \in Nat : \A j, k \in 1 .. Entries : j # k => SlotAt(t, j) # SlotAt(t, k)
<1> SUFFICES ASSUME NEW t \in Nat, NEW j \in 1 .. Entries, NEW k \in 1 .. Entries, j # k
             PROVE  (t + j - 1) % Entries # (t + k - 1) % Entries
  BY DEF SlotAt
<1> USE PrepareAssumption
<1>1. CASE j < k
  <2> DEFINE a == t + j - 1
             d == k - j
  <2>1. a \in Nat /\ d \in 1 .. Entries - 1 /\ t + k - 1 = a + d
    BY <1>1
  <2> HIDE DEF a, d
  <2>2. (a + d) % Entries # a % Entries
    BY <2>1, SlotsApart
  <2> QED BY <2>1, <2>2 DEF a
<1>2. CASE k < j
  <2> DEFINE a == t + k - 1
             d == j - k
  <2>1. a \in Nat /\ d \in 1 .. Entries - 1 /\ t + j - 1 = a + d
    BY <1>2
  <2> HIDE DEF a, d
  <2>2. (a + d) % Entries # a % Entries
    BY <2>1, SlotsApart
  <2> QED BY <2>1, <2>2 DEF a
<1> QED BY <1>1, <1>2

-----------------------------------------------------------------------------
(* The inductive invariant.                                                *)

\* Requests whose buffer the kernel selects come from LinkedSubmitter::read,
\* with a plain fd.
Proper(r) == r \in Request /\ (r.select => r.fixed = {})

\* The slots behind the tail hold the requests of the open chain, each as if
\* the slot had never been used.
ChainInv ==
  /\ tail \in 0 .. Entries - 1
  /\ chain \in Seq(Request) /\ Len(chain) <= Entries
  /\ \A j \in 1 .. Len(chain) : Proper(chain[j])
  /\ DOMAIN slots = 0 .. Entries - 1
  /\ \A j \in 1 .. Len(chain) : slots[SlotAt(tail, j)] = Filled(chain[j])

\* The kernel was given the SQEs of the chain that was asked for, in order.
SentInv ==
  /\ asked \in Seq(Request)
  /\ \A j \in 1 .. Len(asked) : Proper(asked[j])
  /\ DOMAIN sent = 1 .. Len(asked) /\ Len(sent) = Len(asked)
  /\ \A j \in 1 .. Len(asked) :
       sent[j] = IF j < Len(asked) THEN Filled(asked[j]) ELSE Unlinked(Filled(asked[j]))

PrepareInv == ChainInv /\ SentInv

\* Preparing a request fills the next slot and leaves the ones before it.
LEMMA SubmitSqeKeepsChain ==
  ASSUME PrepareInv, NEW r \in Request, SubmitSqe(r)
  PROVE  PrepareInv'
<1> DEFINE n == Len(chain)
<1>1. n \in Nat /\ n < Entries /\ n + 1 \in 1 .. Entries /\ tail \in Nat /\ tail + n = tail + (n + 1) - 1
  BY PrepareAssumption DEF SubmitSqe, PrepareInv, ChainInv
<1>2. /\ chain' = Append(chain, r) /\ tail' = tail /\ asked' = <<>> /\ sent' = <<>>
      /\ slots' = [slots EXCEPT ![SlotAt(tail, n + 1)] = Filled(r)]
  BY <1>1, FillForgets DEF SubmitSqe, SlotAt
<1>3. /\ chain' \in Seq(Request) /\ Len(chain') = n + 1
      /\ chain'[n + 1] = r
      /\ \A j \in 1 .. n : chain'[j] = chain[j]
  BY <1>1, <1>2 DEF PrepareInv, ChainInv
<1>4. Proper(r)
  BY DEF SubmitSqe, Linkable, Proper
<1>5. slots'[SlotAt(tail, n + 1)] = Filled(r)
  BY <1>1, <1>2, SlotAtType DEF PrepareInv, ChainInv
<1>6. ASSUME NEW j \in 1 .. n PROVE slots'[SlotAt(tail, j)] = Filled(chain[j])
  <2>1. j \in 1 .. Entries /\ j # n + 1
    BY <1>1, PrepareAssumption
  <2>2. SlotAt(tail, j) # SlotAt(tail, n + 1)
    BY <1>1, <2>1, ChainSlotsDiffer
  <2>3. SlotAt(tail, j) \in DOMAIN slots
    <3>1. j \in Nat \ {0}
      BY <1>1
    <3> QED BY <1>1, <3>1, SlotAtType DEF PrepareInv, ChainInv
  <2>4. slots'[SlotAt(tail, j)] = slots[SlotAt(tail, j)]
    BY <1>2, <2>2, <2>3
  <2> QED BY <2>4 DEF PrepareInv, ChainInv
<1>7. ASSUME NEW j \in 1 .. n + 1
      PROVE  slots'[SlotAt(tail, j)] = Filled(chain'[j]) /\ Proper(chain'[j])
  <2>1. CASE j = n + 1
    BY <1>3, <1>4, <1>5, <2>1
  <2>2. CASE j \in 1 .. n
    BY <1>3, <1>6, <2>2 DEF PrepareInv, ChainInv
  <2> QED BY <1>1, <2>1, <2>2
<1>8. ChainInv'
  <2>1. DOMAIN slots' = 0 .. Entries - 1
    BY <1>2 DEF PrepareInv, ChainInv
  <2>2. tail' \in 0 .. Entries - 1 /\ Len(chain') <= Entries
    BY <1>1, <1>2, <1>3 DEF PrepareInv, ChainInv
  <2> QED BY <1>2, <1>3, <1>7, <2>1, <2>2 DEF ChainInv
<1>9. SentInv'
  BY <1>2 DEF SentInv
<1> QED BY <1>8, <1>9 DEF PrepareInv

\* Submitting the chain gives the kernel its SQEs, the last one unlinked.
LEMMA SubmitSendsChain ==
  ASSUME PrepareInv, Submit
  PROVE  PrepareInv'
<1> DEFINE n == Len(chain)
<1>1. n \in 1 .. Entries /\ n \in Nat \ {0} /\ tail \in Nat
  BY PrepareAssumption DEF Submit, PrepareInv, ChainInv
<1>2. \A j \in 1 .. n : SlotAt(tail, j) \in DOMAIN slots
  <2> TAKE j \in 1 .. n
  <2>1. j \in Nat \ {0}
    BY <1>1
  <2> QED BY <1>1, <2>1, SlotAtType DEF PrepareInv, ChainInv
<1>3. /\ slots' = [slots EXCEPT ![SlotAt(tail, n)] = Unlinked(@)]
      /\ tail' = (tail + n) % Entries
      /\ sent' = [j \in 1 .. n |-> slots'[SlotAt(tail, j)]]
      /\ asked' = chain /\ chain' = <<>>
  BY DEF Submit, ChainEnd, SlotAt, Unlinked
<1>4. slots'[SlotAt(tail, n)] = Unlinked(Filled(chain[n]))
  <2>1. n \in 1 .. n
    BY <1>1
  <2>2. slots'[SlotAt(tail, n)] = Unlinked(slots[SlotAt(tail, n)])
    BY <1>2, <1>3, <2>1
  <2> QED BY <2>1, <2>2 DEF PrepareInv, ChainInv
<1>5. ASSUME NEW j \in 1 .. n, j < n
      PROVE  slots'[SlotAt(tail, j)] = Filled(chain[j])
  <2>1. j \in 1 .. Entries /\ j # n
    BY <1>1, <1>5, PrepareAssumption
  <2>2. SlotAt(tail, j) # SlotAt(tail, n)
    BY <1>1, <2>1, ChainSlotsDiffer
  <2>3. slots'[SlotAt(tail, j)] = slots[SlotAt(tail, j)]
    BY <1>2, <1>3, <2>2
  <2> QED BY <2>3 DEF PrepareInv, ChainInv
<1>6. ChainInv'
  <2>1. tail' \in 0 .. Entries - 1
    BY <1>1, <1>3, PrepareAssumption
  <2>2. chain' \in Seq(Request) /\ Len(chain') = 0
    BY <1>3
  <2>3. DOMAIN slots' = 0 .. Entries - 1
    BY <1>3 DEF PrepareInv, ChainInv
  <2> QED BY <2>1, <2>2, <2>3, PrepareAssumption DEF ChainInv
<1>7. SentInv'
  <2>1. DOMAIN sent' = 1 .. n /\ Len(sent') = n
    BY <1>1, <1>3
  <2>2. asked' \in Seq(Request) /\ Len(asked') = n /\ \A j \in 1 .. n : Proper(asked'[j])
    BY <1>3 DEF PrepareInv, ChainInv
  <2>3. ASSUME NEW j \in 1 .. n
        PROVE  sent'[j] = IF j < n THEN Filled(chain[j]) ELSE Unlinked(Filled(chain[j]))
    <3>1. sent'[j] = slots'[SlotAt(tail, j)]
      BY <1>3
    <3>2. CASE j < n
      BY <1>5, <3>1, <3>2
    <3>3. CASE ~(j < n)
      <4>1. j = n
        BY <1>1, <3>3
      <4> QED BY <1>4, <3>1, <3>3, <4>1
    <3> QED BY <3>2, <3>3
  <2> QED BY <1>3, <2>1, <2>2, <2>3 DEF SentInv
<1> QED BY <1>6, <1>7 DEF PrepareInv

\* The invariant of SqePrepare holds of every state of the ring, whatever
\* requests are made: a slot is used only through clear, fill and submit.
THEOREM PrepareInvariance == PrepSpec => []PrepareInv
<1>1. PrepInit => PrepareInv
  <2> SUFFICES ASSUME PrepInit PROVE PrepareInv
    OBVIOUS
  <2>1. ChainInv
    BY PrepareAssumption DEF PrepInit, ChainInv
  <2>2. SentInv
    BY DEF PrepInit, SentInv
  <2> QED BY <2>1, <2>2 DEF PrepareInv
<1>2. PrepareInv /\ [PrepNext]_prepVars => PrepareInv'
  <2> SUFFICES ASSUME PrepareInv, [PrepNext]_prepVars PROVE PrepareInv'
    OBVIOUS
  <2>1. CASE PrepNext
    BY <2>1, SubmitSqeKeepsChain, SubmitSendsChain DEF PrepNext
  <2>2. CASE UNCHANGED prepVars
    BY <2>2 DEF prepVars, PrepareInv, ChainInv, SentInv
  <2> QED BY <2>1, <2>2
<1> QED BY <1>1, <1>2, PTL DEF PrepSpec

-----------------------------------------------------------------------------
(* What the kernel is given.                                               *)

\* Each SQE that was sent is the one of its request, but for the link.
LEMMA SentSqe ==
  ASSUME SentInv, NEW i \in DOMAIN sent
  PROVE  /\ Proper(asked[i])
         /\ sent[i].opcode = asked[i].op
         /\ sent[i].user_data = asked[i].id
         /\ sent[i].data = Filled(asked[i]).data
         /\ sent[i].flags = IF i < Len(sent) THEN Filled(asked[i]).flags
                            ELSE Filled(asked[i]).flags \ {"IO_LINK"}
<1>1. i \in 1 .. Len(asked) /\ Proper(asked[i]) /\ Len(sent) = Len(asked)
  BY DEF SentInv
<1>2. CASE i < Len(asked)
  <2>1. sent[i] = Filled(asked[i])
    BY <1>1, <1>2 DEF SentInv
  <2> QED BY <1>1, <1>2, <2>1, FilledSqe
<1>3. CASE ~(i < Len(asked))
  <2>1. sent[i] = Unlinked(Filled(asked[i]))
    BY <1>1, <1>3 DEF SentInv
  <2> QED BY <1>1, <1>3, <2>1, FilledSqe, UnlinkedSqe
<1> QED BY <1>2, <1>3

\* Nothing of the request that used a slot before is left in the SQE the kernel
\* takes: prep_sqe clears the slot, whatever the ring's size and the order of
\* requests.
THEOREM SlotsAreClean == PrepSpec => []NothingStale
<1>1. PrepareInv => NothingStale
  <2> SUFFICES ASSUME SentInv, NEW i \in DOMAIN sent
               PROVE  LET r == asked[i] IN
                      /\ sent[i].opcode = r.op
                      /\ sent[i].user_data = r.id
                      /\ \A f \in SqeFields : \A x \in sent[i].data[f] : x[1] = r.id
                      /\ "FIXED_FILE" \in sent[i].flags => r.fixed \ {"fd_in"} # {}
                      /\ "BUFFER_SELECT" \in sent[i].flags => r.select
    BY DEF PrepareInv, NothingStale
  <2> DEFINE r == asked[i]
  <2>1. sent[i].opcode = r.op /\ sent[i].user_data = r.id
    BY SentSqe
  <2>2. ASSUME NEW f \in SqeFields, NEW x \in sent[i].data[f]
        PROVE  x[1] = r.id
    <3>1. x \in Filled(r).data[f]
      BY SentSqe
    <3>2. \E s : x = <<r.id, s>>
      BY <3>1, FilledData
    <3> QED BY <3>2
  <2>3. sent[i].flags \subseteq Filled(r).flags
    BY SentSqe
  <2>4. "FIXED_FILE" \in Filled(r).flags => r.fixed \ {"fd_in"} # {}
    BY FilledSqe
  <2>5. "BUFFER_SELECT" \in Filled(r).flags => r.select
    BY FilledSqe
  <2> QED BY <2>1, <2>2, <2>3, <2>4, <2>5
<1> QED BY <1>1, PrepareInvariance, PTL

\* LinkedSubmitter links every request to the one behind it and the last to
\* nothing, however long the chain and wherever in the ring it begins.
THEOREM ChainsAreShaped == PrepSpec => []ChainShape
<1>1. PrepareInv => ChainShape
  <2> SUFFICES ASSUME SentInv, NEW i \in DOMAIN sent
               PROVE  ("IO_LINK" \in sent[i].flags) = (i < Len(sent))
    BY DEF PrepareInv, ChainShape
  <2>1. "IO_LINK" \in Filled(asked[i]).flags
    BY FilledSqe
  <2>2. sent[i].flags = IF i < Len(sent) THEN Filled(asked[i]).flags
                        ELSE Filled(asked[i]).flags \ {"IO_LINK"}
    BY SentSqe
  <2>3. CASE i < Len(sent)
    BY <2>1, <2>2, <2>3
  <2>4. CASE ~(i < Len(sent))
    BY <2>2, <2>4
  <2> QED BY <2>3, <2>4
<1> QED BY <1>1, PrepareInvariance, PTL

\* Every setting a caller makes reaches the kernel, for all request types but
\* the six whose prep_sqe drops one.
THEOREM SettingsArrive ==
  ASSUME Types \subseteq DOMAIN Builders \ Forgetful
  PROVE  PrepSpec => []SettingsReachKernel
<1>1. PrepareInv => SettingsReachKernel
  <2> SUFFICES ASSUME SentInv, NEW i \in DOMAIN sent
               PROVE  LET r == asked[i]
                          tokens == UNION {sent[i].data[f] : f \in SqeFields} IN
                      /\ \A s \in Given(r) : <<r.id, s>> \in tokens
                      /\ r.fixed \ {"fd_in"} # {} => "FIXED_FILE" \in sent[i].flags
                      /\ "fd_in" \in r.fixed => <<r.id, "FD_IN_FIXED">> \in tokens
    BY DEF PrepareInv, SettingsReachKernel
  <2> DEFINE r == asked[i]
             b == Builders[r.op]
             tokens == UNION {sent[i].data[f] : f \in SqeFields}
  <2>1. r \in Request /\ (r.select => r.fixed = {})
    BY SentSqe DEF Proper
  <2>2. r.op \in Types /\ r.set \subseteq b.opt /\ r.fixed \subseteq b.tgt
    <3> HIDE DEF r
    <3> DEFINE Of(op) == [id : Ids, op : {op}, set : {{}, Builders[op].opt},
                          fixed : SUBSET Builders[op].tgt,
                          select : IF op = "Read" THEN BOOLEAN ELSE {FALSE}]
    <3>1. PICK op \in Types : r \in Of(op)
      <4>1. r \in UNION {Of(op) : op \in Types}
        BY <2>1 DEF Request
      <4> HIDE DEF Of
      <4> QED BY <4>1
    <3>2. r.op = op /\ r.set \in {{}, Builders[op].opt} /\ r.fixed \in SUBSET Builders[op].tgt
      BY <3>1
    <3> QED BY <3>1, <3>2
  <2>3. Stores(b)
    BY <2>2, BuildersStore
  <2>4. ASSUME NEW s \in Given(r) PROVE <<r.id, s>> \in tokens
    <3>1. PICK f \in DOMAIN b.at : b.at[f] = s
      BY <2>2, <2>3, <2>4 DEF Given, Stores
    <3>2. f \in SqeFields
      BY <2>3, <3>1 DEF Stores
    <3>3. <<r.id, s>> \in Filled(r).data[f]
      BY <2>4, <3>1, <3>2, FilledData
    <3> QED BY <3>2, <3>3, SentSqe
  <2>5. ASSUME "fd_in" \in r.fixed PROVE <<r.id, "FD_IN_FIXED">> \in tokens
    <3>1. "op_flags" \in DOMAIN b.at /\ "op_flags" \in SqeFields
      BY <2>2, <2>3, <2>5 DEF Stores, SqeFields
    <3>2. <<r.id, "FD_IN_FIXED">> \in Filled(r).data["op_flags"]
      BY <2>5, <3>1, FilledData
    <3> QED BY <3>1, <3>2, SentSqe
  <2>6. ASSUME r.fixed \ {"fd_in"} # {} PROVE "FIXED_FILE" \in sent[i].flags
    <3>1. "FIXED_FILE" \in Filled(r).flags
      BY <2>1, <2>6, FilledSqe
    <3> QED BY <3>1, SentSqe
  <2> QED BY <2>4, <2>5, <2>6
<1> QED BY <1>1, PrepareInvariance, PTL
=============================================================================
