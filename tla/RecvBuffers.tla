------------------------------ MODULE RecvBuffers ------------------------------
(***************************************************************************)
(* Receiving on one ring: the provided buffers and the token around one of *)
(* them (BufferRingCoordinator, ProvidedBufferToken), the multishot recv   *)
(* job that is handed them (MultishotRecvJob, HttpConnectionRecvHandler),  *)
(* and the two pools behind it: recv jobs, whose addresses the kernel      *)
(* keeps as user_data, and connections, which a recv job's handler knows   *)
(* by slot and generation. All of the code runs on the ring's thread; the  *)
(* kernel posts completions between its steps. When a connection closes is *)
(* the subject of HttpConnection; here it may do so whenever it runs.      *)
(***************************************************************************)
EXTENDS ThreadLocalPool

CONSTANTS
    buf_count,   \* entries of the buffer ring
    TailMod,     \* the ring's tail and the kernel's head count modulo this: 2^16
    ConnSlots,   \* capacity of the connection pool
    RecvSlots,   \* capacity of the recv job pool
    MaxConns,    \* bound: connections accepted
    MaxCq        \* bound: completions waiting

\* A power of two of at most 32768 entries (BufferRingLimits.hpp), so the count
\* divides TailMod and is smaller.
ASSUME BufferAssumption ==
    /\ buf_count \in Nat \ {0} /\ TailMod \in Nat /\ buf_count < TailMod
    /\ TailMod % buf_count = 0
    /\ ConnSlots \in Nat /\ RecvSlots \in Nat /\ MaxConns \in Nat /\ MaxCq \in Nat

VARIABLES
    conns, recvs,      \* pools of HttpConnectionJob and of MultishotRecvJob
    active_read_job_,  \* of the connection in a slot: its recv job, or nullptr
    handler_,          \* of the recv job in a slot: whose data it receives
    armed,             \* recv jobs the kernel will post completions for
    bufs, tail,        \* the buffer ring: entries, and where the next one is added
    head,              \* where the kernel takes the next one
    cq                 \* completions the kernel has posted

vars == <<conns, recvs, active_read_job_, handler_, armed, bufs, tail, head, cq>>

Buffers == 0 .. buf_count - 1
NoBuffer == -1

\* HttpConnectionRecvHandler, and the allocation it was made for, which the code
\* does not know.
Handlers == [connection : 0 .. ConnSlots, connection_gen : Nat, tenant : Nat]
NoHandler == [connection |-> NullSlot, connection_gen |-> 0, tenant |-> 0]

\* user_data, the allocation it was posted for, the selected buffer, IORING_CQE_F_MORE.
Completions == [job : 1 .. RecvSlots, tenant : Nat, buffer : Buffers \cup {NoBuffer}, more : BOOLEAN]

TypeOK ==
    /\ PoolType(conns, ConnSlots) /\ PoolType(recvs, RecvSlots)
    /\ active_read_job_ \in [1 .. ConnSlots -> 0 .. RecvSlots]
    /\ handler_ \in [1 .. RecvSlots -> Handlers]
    /\ armed \subseteq 1 .. RecvSlots
    /\ bufs \in [Buffers -> Buffers]
    /\ tail \in 0 .. TailMod - 1 /\ head \in 0 .. TailMod - 1
    /\ cq \in Seq(Completions)

\* setupBufferRing() has added every buffer.
Init ==
    /\ conns = NewPool(ConnSlots) /\ recvs = NewPool(RecvSlots)
    /\ active_read_job_ = [c \in 1 .. ConnSlots |-> NullSlot]
    /\ handler_ = [r \in 1 .. RecvSlots |-> NoHandler]
    /\ armed = {}
    /\ bufs = [i \in Buffers |-> i] /\ tail = buf_count /\ head = 0
    /\ cq = << >>

(***************************************************************************)
(* The kernel.                                                             *)
(***************************************************************************)
Post(r, b, more) ==
    /\ r \in armed /\ Len(cq) < MaxCq
    /\ cq' = Append(cq, [job |-> r, tenant |-> recvs.tenant[r], buffer |-> b, more |-> more])
    /\ armed' = IF more THEN armed ELSE armed \ {r}
    /\ UNCHANGED <<conns, recvs, active_read_job_, handler_, bufs, tail>>

\* Data arrived: the kernel takes the buffer at its head.
PostData(r, more) ==
    /\ head # tail
    /\ Post(r, bufs[head % buf_count], more)
    /\ head' = (head + 1) % TailMod

\* End of file, an error, a cancel, or no buffer left: nothing is taken.
PostError(r, more) ==
    /\ Post(r, NoBuffer, more)
    /\ UNCHANGED head

(***************************************************************************)
(* The ring's thread.                                                      *)
(***************************************************************************)
\* The first and only read of a new connection. An exhausted pool leaves it without
\* a recv; so does a submission queue without room, and the job goes back.
startReading(c, sqe) ==
    IF Exhausted(recvs)
    THEN /\ active_read_job_' = [active_read_job_ EXCEPT ![c] = NullSlot]
         /\ UNCHANGED <<recvs, handler_, armed>>
    ELSE LET r == allocated(recvs)
         IN  /\ recvs' = IF sqe THEN allocate(recvs) ELSE deallocate(allocate(recvs), r)
             /\ handler_' = [handler_ EXCEPT ![r] = [connection     |-> c,
                                                     connection_gen |-> generationOf(conns', c),
                                                     tenant         |-> conns'.tenant[c]]]
             /\ armed' = IF sqe THEN armed \cup {r} ELSE armed
             /\ active_read_job_' = [active_read_job_ EXCEPT ![c] = IF sqe THEN r ELSE NullSlot]

createConnectionHandler(sqe) ==
    /\ ~Exhausted(conns) /\ conns.allocs < MaxConns
    /\ conns' = allocate(conns)
    /\ startReading(allocated(conns), sqe)
    /\ UNCHANGED <<bufs, tail, head, cq>>

Close(c) ==
    /\ c \in Live(conns)
    /\ conns' = deallocate(conns, c)
    /\ active_read_job_' = [active_read_job_ EXCEPT ![c] = NullSlot]
    /\ UNCHANGED <<recvs, handler_, armed, bufs, tail, head, cq>>

Valid(r) ==
    LET h == handler_[r]
    IN  h.connection # NullSlot /\ isLive(conns, h.connection, h.connection_gen)

\* The handler's calls reach a connection that is still there. It may close itself;
\* and it forgets the job when it closes, or when it is told that the job is over.
Called(r, closes, over) ==
    IF Valid(r)
    THEN LET c == handler_[r].connection
         IN  /\ conns' = IF closes THEN deallocate(conns, c) ELSE conns
             /\ active_read_job_' = IF closes \/ over
                                    THEN [active_read_job_ EXCEPT ![c] = NullSlot]
                                    ELSE active_read_job_
    ELSE UNCHANGED <<conns, active_read_job_>>

\* The cleanup callback, once the handler has returned.
cleanupMultishotRecvJob(r) == recvs' = deallocate(recvs, r)

CompletionIs(r, data, more) ==
    /\ cq # << >> /\ cq[1].job = r /\ cq[1].more = more
    /\ data <=> cq[1].buffer # NoBuffer
    /\ cq' = Tail(cq)

ErrorGoesOn_Frees(r, closes) ==
    /\ CompletionIs(r, FALSE, TRUE)
    /\ Called(r, closes, TRUE)
    /\ cleanupMultishotRecvJob(r)
    /\ UNCHANGED <<handler_, armed, bufs, tail, head>>

\* An error that does not end the multishot: the job stays with the kernel.
ErrorGoesOn(r, closes) ==
    /\ CompletionIs(r, FALSE, TRUE)
    /\ Called(r, closes, TRUE)
    /\ UNCHANGED <<recvs, handler_, armed, bufs, tail, head>>

ErrorEnds(r, closes) ==
    /\ CompletionIs(r, FALSE, FALSE)
    /\ Called(r, closes, TRUE)
    /\ cleanupMultishotRecvJob(r)
    /\ UNCHANGED <<handler_, armed, bufs, tail, head>>

\* The token goes out of scope, whether or not a connection took the data.
recycleBuffer_OnlyIfValid(r) ==
    IF Valid(r)
    THEN /\ bufs' = [bufs EXCEPT ![tail % buf_count] = cq[1].buffer]
         /\ tail' = (tail + 1) % TailMod
    ELSE UNCHANGED <<bufs, tail>>

recycleBuffer(r) ==
    /\ bufs' = [bufs EXCEPT ![tail % buf_count] = cq[1].buffer]
    /\ tail' = (tail + 1) % TailMod

DataGoesOn(r, closes) ==
    /\ CompletionIs(r, TRUE, TRUE)
    /\ Called(r, closes, FALSE)
    /\ recycleBuffer(r)
    /\ UNCHANGED <<recvs, handler_, armed, head>>

\* The kernel ended the multishot with this data. A connection that is still
\* there afterwards and wants more is armed again, if there is room for it.
DataRearms(r) ==
    /\ CompletionIs(r, TRUE, FALSE)
    /\ Valid(r)
    /\ recycleBuffer(r)
    /\ armed' = armed \cup {r}
    /\ UNCHANGED <<conns, recvs, active_read_job_, handler_, head>>

\* Otherwise it hears of the end, if it is there, and the job goes back.
DataEnds(r, closes) ==
    /\ CompletionIs(r, TRUE, FALSE)
    /\ Called(r, closes, TRUE)
    /\ recycleBuffer(r)
    /\ cleanupMultishotRecvJob(r)
    /\ UNCHANGED <<handler_, armed, head>>

handleCompletion(r) ==
    \/ \E closes \in BOOLEAN : \/ ErrorGoesOn(r, closes) \/ ErrorEnds(r, closes)
                               \/ DataGoesOn(r, closes) \/ DataEnds(r, closes)
    \/ DataRearms(r)

Next ==
    \/ \E r \in 1 .. RecvSlots : \/ \E more \in BOOLEAN : PostData(r, more) \/ PostError(r, more)
                                 \/ handleCompletion(r)
    \/ \E sqe \in BOOLEAN : createConnectionHandler(sqe)
    \/ \E c \in 1 .. ConnSlots : Close(c)

Spec == Init /\ [][Next]_vars

-----------------------------------------------------------------------------
(***************************************************************************)
(* Both free lists hold exactly the slots that are not live.               *)
(***************************************************************************)
PoolsExact == ListExact(conns) /\ ListExact(recvs)

(***************************************************************************)
(* A recv job's (pointer, generation) is taken for a live connection       *)
(* exactly while the connection it was made for lives, however often the   *)
(* slot has been given to others since: no data reaches the wrong one.     *)
(***************************************************************************)
HandleExact ==
    \A r \in Live(recvs) :
        LET h == handler_[r]
        IN  Valid(r) <=> conns.live_[h.connection] /\ conns.tenant[h.connection] = h.tenant

(***************************************************************************)
(* A completion that waits is for the job that is in the slot now, never   *)
(* for an earlier one that was freed under the kernel; and a job is in the *)
(* pool exactly until its last completion: it is armed, or that one waits. *)
(***************************************************************************)
Final(i) == ~cq[i].more

JobOutlivesCompletions ==
    /\ \A i \in 1 .. Len(cq) : /\ recvs.live_[cq[i].job]
                               /\ cq[i].tenant = recvs.tenant[cq[i].job]
                               /\ Final(i) => cq[i].job \notin armed
    /\ \A i, j \in 1 .. Len(cq) : (Final(i) /\ cq[i].job = cq[j].job) => j <= i
    /\ \A r \in Live(recvs) : r \in armed \/ \E i \in 1 .. Len(cq) : cq[i].job = r /\ Final(i)
    /\ armed \subseteq Live(recvs)

(***************************************************************************)
(* Every buffer is in one place: in one entry of the ring between head and *)
(* tail, where the kernel may write it, or in one waiting completion. None *)
(* is lost, and none is handed to the kernel while its data is unread.     *)
(***************************************************************************)
InRing == {(head + k) % buf_count : k \in 0 .. ((tail - head) % TailMod) - 1}
Waiting == {i \in 1 .. Len(cq) : cq[i].buffer # NoBuffer}

BuffersConserved ==
    /\ (tail - head) % TailMod <= buf_count
    /\ \A i, j \in InRing : bufs[i] = bufs[j] => i = j
    /\ \A i, j \in Waiting : cq[i].buffer = cq[j].buffer => i = j
    /\ \A b \in Buffers : (\E i \in InRing : bufs[i] = b) <=> ~ \E i \in Waiting : cq[i].buffer = b
=============================================================================
