------------------------ MODULE HttpConnectionProofs ------------------------
(***************************************************************************)
(* The safety theorems of HttpConnection: IndInv is inductive, and it       *)
(* implies the safety invariants the runs check.                            *)
(***************************************************************************)
EXTENDS HttpConnectionRead

\* A step to a good state keeps the invariant of the jobs.
LEMMA BecomeGood ==
    ASSUME NEW t, Good(t), Become(t)
    PROVE  /\ Good(St)'
           /\ conn' \in [Conns -> ConnType]
           /\ recv' \in [Recvs -> RecvType]
           /\ timer' \in [Timers -> TimerType]
           /\ write' \in [Writes -> WriteType]
           /\ fdOwner' \in [Fds -> Conns \cup {None}]
<1>1. t \in StateType
  BY DEF Good
<1>2. t = [conn |-> t.conn, recv |-> t.recv, timer |-> t.timer, write |-> t.write,
           fdOwner |-> t.fdOwner]
  BY <1>1 DEF StateType
<1>3. St' = t
  BY <1>2 DEF Become, St
<1>4. Good(St')
  BY <1>3
<1>5. Good(St)'
  BY <1>4
<1> QED
  BY <1>1, <1>5 DEF Become, StateType

\* A step that writes nothing keeps the type of what the client got.
LEMMA NothingWrittenType ==
    ASSUME wire \in [Fds -> PieceType], NothingWritten
    PROVE  wire' \in [Fds -> PieceType]
<1>1. NoPiece \in PieceType
  BY BoundsAssumption DEF NoPiece, PieceType
<1> QED
  BY <1>1 DEF NothingWritten

\* A write keeps the type of what the client got.
LEMMA WrittenType ==
    ASSUME wire \in [Fds -> PieceType], write \in [Writes -> WriteType], NEW w \in Writes,
           NEW n \in Int, Written(w, n)
    PROVE  wire' \in [Fds -> PieceType]
<1> DEFINE p == [request |-> write[w].request, piece |-> write[w].done + n,
                 last |-> ~write[w].keep_alive]
<1>1. NoPiece \in PieceType
  BY BoundsAssumption DEF NoPiece, PieceType
<1>2. ASSUME n > 0 PROVE p \in PieceType
  <2>1. write[w].request \in Nat /\ write[w].done \in Nat
    BY DEF WriteType
  <2>2. write[w].done + n \in Nat
    BY <2>1, <1>2
  <2> QED
    BY <2>1, <2>2 DEF PieceType
<1>3. wire' = [f \in Fds |-> IF fdOwner'[f] = None THEN NoPiece
                             ELSE IF f = write[w].fd /\ n > 0 THEN p ELSE wire[f]]
  BY DEF Written
<1> HIDE DEF p
<1> QED
  BY <1>1, <1>2, <1>3

\* The slots a handler may allocate from are the free ones of the state it started in.
LEMMA StPools == Pools(St)
BY DEF Pools, St, FreeTimers, FreeWrites

\* A tracked job passes the generation check of its own completion.
LEMMA TrackedValid ==
    ASSUME NEW s, Good(s), NEW c \in Conns
    PROVE  /\ \A r \in Recvs : s.conn[c].active_read = r => isValid(s, c, s.recv[r].gen)
           /\ \A t \in Timers : s.conn[c].active_idle = t => isValid(s, c, s.timer[t].gen)
<1>1. s.conn[c].gen \in Nat /\ SlotInv(s, c)
  BY DEF Good, StateType, ConnType
<1>2. s.conn[c].active_read # None \/ s.conn[c].active_idle # None => s.conn[c].live
  BY <1>1, FreeConnFields DEF SlotInv, ConnInv
<1> QED
  BY <1>1, <1>2, JobsAssumption DEF SlotInv, ReadInv, IdleInv, isValid

\* The end of a multishot: re-armed in place, or reported to its owner and freed.
LEMMA EndedGood ==
    ASSUME NEW s, Good(s), NEW r \in Recvs, recv[r].owner \in Conns,
           s.recv[r].owner = recv[r].owner, s.recv[r].gen = recv[r].gen,
           NEW u \in Ended(s, r)
    PROVE  Good(u)
<1> DEFINE c == recv[r].owner
           left == IF isValid(s, c, recv[r].gen) THEN handleReadError(s, c) ELSE {s}
           freed == {[t EXCEPT !.recv[r] = NoRecv] : t \in left}
<1>1. ASSUME NEW t \in left, u = [t EXCEPT !.recv[r] = NoRecv] PROVE Good(u)
  <2>1. CASE isValid(s, c, recv[r].gen)
    <3>1. Post(c, s, t) /\ t.conn[c].active_read = None
      BY <1>1, <2>1, handleReadErrorGood DEF isValid
    <3>2. Good(t) /\ t.recv[r].owner = c
      BY <3>1 DEF Post, SameJobs, SameJob
    <3> QED
      BY <3>1, <3>2, <1>1, FreeRecvGood, JobsAssumption
  <2>2. CASE ~isValid(s, c, recv[r].gen)
    <3>1. t = s /\ s.conn[c].active_read # r
      BY <1>1, <2>2, TrackedValid
    <3> QED
      BY <3>1, <1>1, FreeRecvGood
  <2> QED
    BY <2>1, <2>2
<1>2. \/ u \in freed
      \/ wantsContinuedRead(s, c) /\ u = [s EXCEPT !.recv[r].op = "armed"]
  BY DEF Ended
<1>3. CASE u \in freed
  BY <1>1, <1>3
<1>4. CASE wantsContinuedRead(s, c) /\ u = [s EXCEPT !.recv[r].op = "armed"]
  BY <1>4, RearmGood
<1> QED
  BY <1>2, <1>3, <1>4

-----------------------------------------------------------------------------
(* Every step preserves the invariant *)

\* The invariant, as the lemmas on handlers use it.
LEMMA IndInvFields ==
    ASSUME IndInv
    PROVE  /\ Good(St)
           /\ wire \in [Fds -> PieceType]
           /\ write \in [Writes -> WriteType]
           /\ server \in {"Running", "Stopping", "Stopped"}
           /\ swept \in BOOLEAN
           /\ St.conn = conn /\ St.recv = recv /\ St.timer = timer /\ St.write = write
           /\ St.fdOwner = fdOwner
BY DEF IndInv, TypeOK, St

\* It is enough that the handlers end in a good state and the wire in its type.
LEMMA StepInv ==
    ASSUME IndInv, NEW t, Good(t), Become(t), wire' \in [Fds -> PieceType],
           UNCHANGED <<server, swept>>
    PROVE  IndInv'
BY BecomeGood DEF IndInv, TypeOK

\* An accepted connection keeps the invariant.
LEMMA NewConnectionInv ==
    ASSUME IndInv, NEW c \in Conns, NEW f \in Fds, NEW r \in Recvs \cup {None},
           NewConnection(c, f, r)
    PROVE  IndInv'
<1> DEFINE s == createConnectionHandler(St, c, f)
<1>1. /\ ~St.conn[c].live
      /\ St.fdOwner[f] = None
      /\ r # None => r \in Recvs /\ ~St.recv[r].live
  BY IndInvFields DEF NewConnection, FreeRecvs
<1>2. /\ Good(s)
      /\ s.conn[c].live
      /\ s.conn[c].deferred_close_fd = None
      /\ ~s.conn[c].read_cancel_pending
      /\ \A q \in Recvs : s.recv[q].live /\ s.recv[q].owner = c
                          => s.recv[q].gen < s.conn[c].gen
      /\ s.recv = St.recv /\ s.timer = St.timer /\ s.write = St.write
  BY <1>1, IndInvFields, createConnectionHandlerGood
<1>3. PICK v \in startReading(s, c, r) : Become(v)
  BY DEF NewConnection
<1> HIDE DEF s
<1>4. Pools(s)
  BY <1>2, StPools DEF Pools
<1>5. Good(v)
  BY <1>1, <1>2, <1>4, startReadingGood
<1>6. wire' \in [Fds -> PieceType] /\ UNCHANGED <<server, swept>>
  BY IndInvFields, NothingWrittenType DEF NewConnection
<1> QED
  BY <1>3, <1>5, <1>6, StepInv

\* A recv completion with data keeps the invariant.
LEMMA RecvDataInv ==
    ASSUME IndInv, NEW r \in Recvs, NEW data \in Chunks, NEW more \in BOOLEAN,
           RecvData(r, data, more)
    PROVE  IndInv'
<1> DEFINE c == recv[r].owner
           k == [conn[c] EXCEPT !.input = conn[c].input + Len(data)]
           s0 == Put(St, c, k)
<1>1. Good(St) /\ St.recv = recv /\ St.conn = conn /\ St.timer = timer /\ St.write = write
  BY IndInvFields
<1>2. c \in Conns
  BY <1>1 DEF RecvData, Good, OwnersInv
<1>3. data \in Seq(Symbol) /\ Len(data) \in Nat
  BY ChunksAssumption
<1>4. wire' \in [Fds -> PieceType] /\ UNCHANGED <<server, swept>>
  BY IndInvFields, NothingWrittenType DEF RecvData
<1>5. CASE isValid(St, c, recv[r].gen)
  <2>1. PICK s \in handleDataReceived(s0, c, data) :
               \E t \in IF more THEN {s} ELSE Ended(s, r) : Become(t)
    BY <1>1, <1>5 DEF RecvData, Put
  <2>2. conn[c] \in ConnType /\ conn[c].input \in Nat
    BY <1>1, <1>2 DEF Good, StateType, ConnType
  <2>3. conn[c].input + Len(data) \in Nat
    BY <2>2, <1>3
  <2>4. k \in ConnType /\ Similar(conn[c], k) /\ k.live = conn[c].live
    BY <2>2, <2>3 DEF ConnType, Similar
  <2>5. conn[c].live
    BY <1>1, <1>5 DEF isValid
  <2> HIDE DEF k
  <2>6. s0.conn[c] = k /\ s0.timer = timer /\ s0.write = write
    BY <2>4, <1>1, <1>2, PutFields DEF Good
  <2>7. Post(c, St, s0)
    BY <2>4, <2>5, <1>1, <1>2, PutGood DEF Post
  <2> HIDE DEF s0
  <2>8. Pools(s0)
    BY <2>6, <1>1, StPools DEF Pools
  <2>9. Post(c, s0, s)
    BY <2>4, <2>5, <2>6, <2>7, <2>8, <1>2, <1>3, handleDataReceivedGood DEF Post
  <2>10. Post(c, St, s)
    BY <2>7, <2>9, <1>2, PostTrans
  <2>11. Good(s) /\ s.recv[r].owner = c /\ s.recv[r].gen = recv[r].gen
    BY <2>10, <1>1 DEF Post, SameJobs, SameJob
  <2>12. PICK t \in IF more THEN {s} ELSE Ended(s, r) : Become(t)
    BY <2>1
  <2>13. Good(t)
    BY <2>11, <1>2, EndedGood
  <2> QED
    BY <2>12, <2>13, <1>4, StepInv
<1>6. CASE ~isValid(St, c, recv[r].gen)
  <2>1. PICK t \in IF more THEN {St} ELSE Ended(St, r) : Become(t)
    BY <1>6 DEF RecvData
  <2>2. Good(t)
    BY <1>1, <1>2, EndedGood
  <2> QED
    BY <2>1, <2>2, <1>4, StepInv
<1> QED
  BY <1>5, <1>6

\* A recv completion with an error keeps the invariant.
LEMMA RecvErrorInv ==
    ASSUME IndInv, NEW r \in Recvs, NEW more \in BOOLEAN, RecvError(r, more)
    PROVE  IndInv'
<1> DEFINE c == recv[r].owner
<1>1. Good(St) /\ St.recv = recv
  BY IndInvFields
<1>2. c \in Conns
  BY <1>1 DEF RecvError, Good, OwnersInv
<1>3. wire' \in [Fds -> PieceType] /\ UNCHANGED <<server, swept>>
  BY IndInvFields, NothingWrittenType DEF RecvError
<1>4. PICK s \in IF isValid(St, c, recv[r].gen) THEN handleReadError(St, c) ELSE {St} :
             Become(IF more THEN s ELSE [s EXCEPT !.recv[r] = NoRecv])
  BY DEF RecvError
<1>5. Good(s) /\ s.recv[r].owner = c /\ s.conn[c].active_read # r
  <2>1. CASE isValid(St, c, recv[r].gen)
    <3>1. Post(c, St, s) /\ s.conn[c].active_read = None
      BY <2>1, <1>1, <1>2, <1>4, handleReadErrorGood DEF isValid
    <3> QED
      BY <3>1, <1>1, JobsAssumption DEF Post, SameJobs, SameJob
  <2>2. CASE ~isValid(St, c, recv[r].gen)
    BY <2>2, <1>1, <1>2, <1>4, TrackedValid
  <2> QED
    BY <2>1, <2>2
<1> DEFINE freed == [s EXCEPT !.recv[r] = NoRecv]
<1>6. Good(freed)
  BY <1>5, FreeRecvGood
<1> HIDE DEF freed
<1>7. CASE more
  BY <1>3, <1>4, <1>5, <1>7, StepInv
<1>8. CASE ~more
  <2>1. Become(freed)
    BY <1>4, <1>8 DEF freed
  <2> QED
    BY <2>1, <1>3, <1>6, StepInv
<1> QED
  BY <1>7, <1>8

\* The completion of an idle timer keeps the invariant.
LEMMA TimerCompletionInv ==
    ASSUME IndInv, NEW t \in Timers, NEW res, TimerCompletion(t, res)
    PROVE  IndInv'
<1> DEFINE c == timer[t].owner
<1>1. Good(St) /\ St.timer = timer
  BY IndInvFields
<1>2. c \in Conns
  BY <1>1 DEF TimerCompletion, Good, OwnersInv
<1>3. wire' \in [Fds -> PieceType] /\ UNCHANGED <<server, swept>>
  BY IndInvFields, NothingWrittenType DEF TimerCompletion
<1>4. PICK s \in IF isValid(St, c, timer[t].gen)
                 THEN handleIdleTimeout(St, c, t, res) ELSE {St} :
             Become([s EXCEPT !.timer[t] = NoTimer])
  BY DEF TimerCompletion
<1>5. Good(s) /\ s.timer[t].owner = c /\ s.conn[c].active_idle # t
  <2>1. CASE isValid(St, c, timer[t].gen)
    <3>1. Post(c, St, s) /\ s.conn[c].active_idle # t
      BY <2>1, <1>1, <1>2, <1>4, handleIdleTimeoutGood DEF isValid
    <3> QED
      BY <3>1, <1>1 DEF Post, SameJobs, SameJob, TimerCompletion
  <2>2. CASE ~isValid(St, c, timer[t].gen)
    BY <2>2, <1>1, <1>2, <1>4, TrackedValid
  <2> QED
    BY <2>1, <2>2
<1> DEFINE freed == [s EXCEPT !.timer[t] = NoTimer]
<1>6. Good(freed)
  BY <1>5, FreeTimerGood
<1>7. Become(freed)
  BY <1>4
<1> HIDE DEF freed
<1> QED
  BY <1>3, <1>6, <1>7, StepInv

\* A short write keeps the invariant.
LEMMA WritePartialInv ==
    ASSUME IndInv, NEW w \in Writes, NEW n \in 1 .. Pieces - 1, WritePartial(w, n)
    PROVE  IndInv'
<1> DEFINE s == St
           c == write[w].owner
           j == [write[w] EXCEPT !.done = write[w].done + n]
           u == [s EXCEPT !.write[w] = j]
<1>1. /\ Good(s) /\ s.write = write
      /\ s \in StateType
      /\ write[w] \in WriteType /\ write[w].done \in Nat
      /\ n \in Nat
  BY IndInvFields, BoundsAssumption DEF Good, WriteType
<1>2. write[w].done + n \in Nat
  BY <1>1
<1>3. /\ j \in WriteType
      /\ j.live = write[w].live /\ j.owner = write[w].owner
      /\ j.gen = write[w].gen /\ j.fd = write[w].fd
  BY <1>1, <1>2 DEF WriteType
<1>4. Become(u)
  BY DEF WritePartial, Become, St
<1>e. u = [s EXCEPT !.write[w] = j]
  OBVIOUS
<1> HIDE DEF s, j, u
<1>5. /\ u \in StateType
      /\ u.write = [s.write EXCEPT ![w] = j]
  BY <1>e, <1>1, <1>3 DEF StateType
<1>5b. u.conn = s.conn /\ u.recv = s.recv /\ u.timer = s.timer /\ u.fdOwner = s.fdOwner
  BY <1>e, <1>1 DEF StateType
<1>6. u.write[w] = j /\ \A v \in Writes \ {w} : u.write[v] = s.write[v]
  BY <1>1, <1>5 DEF StateType
<1>7. c \in Conns /\ OwnersInv(s)
  BY <1>1 DEF Good, OwnersInv, WritePartial
<1>8. Frame(c, s, u) /\ OwnersInv(u)
  <2>1. s.write[w].owner = c /\ u.write[w].owner = c
    BY <1>1, <1>3, <1>6
  <2>2. \A d \in Conns \ {c} : u.conn[d] = s.conn[d]
    BY <1>5b
  <2>3. OnlyWrite(c, s, u, w)
    BY <2>1, <2>2, <1>5b, <1>6 DEF OnlyWrite
  <2> HIDE DEF c
  <2> QED
    BY <2>3, <1>7, WriteStep
<1> HIDE DEF c
<1>9. SlotInv(u, c)
  <2>1. SlotInv(s, c)
    BY <1>1, <1>7 DEF Good
  <2>2. \A v \in Writes : /\ u.write[v].live = s.write[v].live
                          /\ u.write[v].owner = s.write[v].owner
                          /\ u.write[v].gen = s.write[v].gen
                          /\ u.write[v].fd = s.write[v].fd
    BY <1>1, <1>3, <1>6
  <2>3. ResponseInv(c, s.conn[c], s.write)
    BY <2>1 DEF SlotInv
  <2>4. ResponseInv(c, s.conn[c], u.write)
    BY <2>2, <2>3, ResponseFields
  <2> QED
    BY <2>1, <2>4, <1>5b DEF SlotInv
<1>10. Good(u)
  BY <1>1, <1>5, <1>8, <1>9, FrameGood
<1>11. wire' \in [Fds -> PieceType] /\ UNCHANGED <<server, swept>>
  BY <1>1, IndInvFields, WrittenType DEF WritePartial
<1> QED
  BY <1>4, <1>10, <1>11, StepInv

\* A complete response keeps the invariant.
LEMMA WriteCompleteInv ==
    ASSUME IndInv, NEW w \in Writes, WriteComplete(w)
    PROVE  IndInv'
<1> DEFINE c == write[w].owner
           t == FinishWrite(St, c, w)
<1>1. Good(St) /\ St.write = write /\ write[w].live
  BY IndInvFields DEF WriteComplete
<1>2. c \in Conns /\ Good(t) /\ t.conn[c].live /\ Pools(t)
  BY <1>1, StPools, FinishWriteGood
<1>3. PICK u \in onResponseComplete([St EXCEPT !.write[w] = NoWrite], c,
                                    write[w].keep_alive) : Become(u)
  BY DEF WriteComplete
<1>4. \/ u \in closeConnection(t, c)
      \/ u \in processHttpRequests(t, c)
      \/ u \in armIdleTimeout(t, c)
  BY DEF onResponseComplete, FinishWrite
<1> HIDE DEF t
<1>5. Good(u)
  BY <1>2, <1>4, closeConnectionGood, processHttpRequestsGood, armIdleTimeoutGood DEF Post
<1>6. Pieces - write[w].done \in Int
  BY IndInvFields, BoundsAssumption DEF WriteType
<1>7. wire' \in [Fds -> PieceType] /\ UNCHANGED <<server, swept>>
  BY <1>6, IndInvFields, WrittenType DEF WriteComplete
<1> QED
  BY <1>3, <1>5, <1>7, StepInv

\* A failed response keeps the invariant.
LEMMA WriteErrorInv ==
    ASSUME IndInv, NEW w \in Writes, NEW n \in 0 .. Pieces - 1, WriteError(w, n)
    PROVE  IndInv'
<1> DEFINE c == write[w].owner
           t == FinishWrite(St, c, w)
<1>1. Good(St) /\ St.write = write /\ write[w].live
  BY IndInvFields DEF WriteError
<1>2. c \in Conns /\ Good(t) /\ t.conn[c].live
  BY <1>1, StPools, FinishWriteGood
<1>3. PICK u \in onResponseError([St EXCEPT !.write[w] = NoWrite], c) : Become(u)
  BY DEF WriteError
<1>4. u \in closeConnection(t, c)
  BY DEF onResponseError, FinishWrite
<1> HIDE DEF t
<1>5. Good(u)
  BY <1>2, <1>4, closeConnectionGood DEF Post
<1>6. n \in Int
  BY BoundsAssumption
<1>7. wire' \in [Fds -> PieceType] /\ UNCHANGED <<server, swept>>
  BY <1>6, IndInvFields, WrittenType DEF WriteError
<1> QED
  BY <1>3, <1>5, <1>7, StepInv

\* The shutdown sweep keeps the invariant.
LEMMA SweepInv ==
    ASSUME IndInv, NEW R \in SUBSET LiveRecvs, NEW T \in SUBSET LiveTimers, Sweep(R, T)
    PROVE  IndInv'
<1> DEFINE s == St
           u == [conn |-> conn, recv |-> recv', timer |-> timer', write |-> write,
                 fdOwner |-> fdOwner]
<1>1. /\ Good(s) /\ s.conn = conn /\ s.recv = recv /\ s.timer = timer /\ s.write = write
      /\ s.fdOwner = fdOwner
  BY IndInvFields
<1>2. /\ conn \in [Conns -> ConnType] /\ recv \in [Recvs -> RecvType]
      /\ timer \in [Timers -> TimerType] /\ write \in [Writes -> WriteType]
      /\ fdOwner \in [Fds -> Conns \cup {None}]
      /\ wire \in [Fds -> PieceType] /\ server \in {"Running", "Stopping", "Stopped"}
  BY DEF IndInv, TypeOK
<1>3. /\ recv' \in [Recvs -> RecvType]
      /\ \A r \in Recvs : SameJob(recv[r], recv'[r]) /\ recv'[r].fd = recv[r].fd
  BY <1>2, SMTT(40) DEF Sweep, RecvType, Op, SameJob
<1>4. /\ timer' \in [Timers -> TimerType]
      /\ \A t \in Timers : SameJob(timer[t], timer'[t])
  BY <1>2, SMTT(40) DEF Sweep, TimerType, Op, SameJob
<1>5. /\ u.conn = s.conn /\ u.recv = recv' /\ u.timer = timer' /\ u.write = s.write
      /\ u.fdOwner = s.fdOwner
  BY <1>1
<1>6. u \in StateType
  BY <1>2, <1>3, <1>4 DEF StateType
<1>7. Become(u)
  BY DEF Become, Sweep
<1> HIDE DEF s, u
<1>8. OwnersInv(u)
  BY <1>1, <1>3, <1>4, <1>5 DEF Good, OwnersInv, SameJob
<1>9. Frame(None, s, u)
  BY <1>1, <1>3, <1>4, <1>5 DEF Frame, RecvFrame, TimerFrame, WriteFrame, FdFrame
<1>10. Good(u)
  BY <1>1, <1>6, <1>8, <1>9, FrameGood, JobsAssumption
<1>11. /\ Good(St)' /\ conn' \in [Conns -> ConnType] /\ write' \in [Writes -> WriteType]
       /\ fdOwner' \in [Fds -> Conns \cup {None}]
  BY <1>7, <1>10, BecomeGood
<1>12. wire' = wire /\ server' = server /\ swept' = TRUE
  BY DEF Sweep
<1> QED
  BY <1>2, <1>3, <1>4, <1>11, <1>12 DEF IndInv, TypeOK

\* The invariant holds initially.
LEMMA InitInv == Init => IndInv
<1> SUFFICES ASSUME Init PROVE IndInv
  OBVIOUS
<1>1. FreeConn(0) \in ConnType /\ ConnInv(FreeConn(0)) /\ ~FreeConn(0).live
      /\ ~FreeConn(0).in_flight /\ FreeConn(0).active_read = None
      /\ FreeConn(0).active_idle = None
  BY FreeConnFields
<1>2. /\ NoRecv \in RecvType /\ ~NoRecv.live
      /\ NoTimer \in TimerType /\ ~NoTimer.live
      /\ NoWrite \in WriteType /\ ~NoWrite.live
  BY DEF NoRecv, RecvType, NoTimer, TimerType, NoWrite, WriteType, Op
<1>3. NoPiece \in PieceType
  BY BoundsAssumption DEF NoPiece, PieceType
<1>4. TypeOK
  BY <1>1, <1>2, <1>3 DEF Init, TypeOK
<1>5. /\ St \in StateType
      /\ St.conn = conn /\ St.recv = recv /\ St.timer = timer /\ St.write = write
      /\ St.fdOwner = fdOwner
  BY <1>4 DEF TypeOK, St, StateType
<1>6. /\ \A c \in Conns : conn[c] = FreeConn(0)
      /\ \A r \in Recvs : ~recv[r].live
      /\ \A t \in Timers : ~timer[t].live
      /\ \A w \in Writes : ~write[w].live
      /\ \A f \in Fds : fdOwner[f] = None
  BY <1>2 DEF Init
<1>7. OwnersInv(St)
  BY <1>5, <1>6 DEF OwnersInv
<1>8. ASSUME NEW c \in Conns PROVE SlotInv(St, c)
  <2>1. FdInv(c, conn[c], fdOwner)
    BY <1>1, <1>6, JobsAssumption DEF FdInv
  <2>2. ResponseInv(c, conn[c], write)
    BY <1>1, <1>6 DEF ResponseInv
  <2>3. ReadInv(c, conn[c], recv)
    BY <1>1, <1>6 DEF ReadInv
  <2>4. IdleInv(c, conn[c], timer)
    BY <1>1, <1>6 DEF IdleInv
  <2> QED
    BY <2>1, <2>2, <2>3, <2>4, <1>1, <1>5, <1>6 DEF SlotInv
<1> QED
  BY <1>4, <1>5, <1>7, <1>8 DEF IndInv, Good

\* Every step keeps the invariant.
LEMMA NextInv == IndInv /\ [Next]_vars => IndInv'
<1> SUFFICES ASSUME IndInv, [Next]_vars PROVE IndInv'
  OBVIOUS
<1>1. ASSUME NEW c \in Conns, NEW f \in Fds, NEW r \in Recvs \cup {None},
             NewConnection(c, f, r)
      PROVE  IndInv'
  BY <1>1, NewConnectionInv
<1>2. ASSUME NEW r \in Recvs, NEW data \in Chunks, NEW more \in BOOLEAN,
             RecvData(r, data, more)
      PROVE  IndInv'
  BY <1>2, RecvDataInv
<1>3. ASSUME NEW r \in Recvs, NEW more \in BOOLEAN, RecvError(r, more) PROVE IndInv'
  BY <1>3, RecvErrorInv
<1>4. ASSUME NEW t \in Timers, NEW res \in {"ETIME", "ECANCELED"}, TimerCompletion(t, res)
      PROVE  IndInv'
  BY <1>4, TimerCompletionInv
<1>5. ASSUME NEW w \in Writes, NEW n \in 1 .. Pieces - 1, WritePartial(w, n) PROVE IndInv'
  BY <1>5, WritePartialInv
<1>6. ASSUME NEW w \in Writes, WriteComplete(w) PROVE IndInv'
  BY <1>6, WriteCompleteInv
<1>7. ASSUME NEW w \in Writes, NEW n \in 0 .. Pieces - 1, WriteError(w, n) PROVE IndInv'
  BY <1>7, WriteErrorInv
<1>8. ASSUME NEW R \in SUBSET LiveRecvs, NEW T \in SUBSET LiveTimers, Sweep(R, T)
      PROVE  IndInv'
  BY <1>8, SweepInv
<1>9. ASSUME UNCHANGED <<conn, recv, timer, write, fdOwner, wire, swept>>,
             server' \in {"Running", "Stopping", "Stopped"}
      PROVE  IndInv'
  <2>1. St' = St
    BY <1>9 DEF St
  <2>2. Good(St') /\ TypeOK'
    BY <1>9, <2>1 DEF IndInv, TypeOK
  <2> QED
    BY <2>2 DEF IndInv
<1>10. CASE Stop \/ Settle
  BY <1>9, <1>10 DEF Stop, Settle
<1>11. CASE UNCHANGED vars
  BY <1>9, <1>11 DEF vars, IndInv, TypeOK
<1> QED
  BY <1>1, <1>2, <1>3, <1>4, <1>5, <1>6, <1>7, <1>8, <1>10, <1>11 DEF Next

\* The inductive invariant holds in every reachable state, for any number of
\* connections, jobs and descriptors and whatever fails to be allocated.
THEOREM Invariance == Spec => []IndInv
BY InitInv, NextInv, PTL DEF Spec

\* Every variable has its type in every reachable state.
THEOREM TypeCorrect == Spec => []TypeOK
<1>1. IndInv => TypeOK
  BY DEF IndInv
<1> QED
  BY <1>1, Invariance, PTL

\* A response callback never finds its connection freed or reused: the bare
\* `this` that WriteJob and HTTPFileJob capture in sendResponse is always valid.
THEOREM ResponseOwnerHolds == Spec => []ResponseOwner
<1>1. IndInv => ResponseOwner
  <2> SUFFICES ASSUME IndInv, NEW w \in Writes, write[w].live
               PROVE  LET c == write[w].owner
                      IN  /\ c # None
                          /\ isValid(St, c, write[w].gen)
                          /\ conn[c].in_flight
                          /\ conn[c].client_fd = write[w].fd
                          /\ write[w].fd # None
    BY DEF ResponseOwner
  <2>1. Good(St) /\ St.write = write /\ St.conn = conn
    BY IndInvFields
  <2>2. write[w].owner \in Conns
    BY <2>1 DEF Good, OwnersInv
  <2>3. ResponseInv(write[w].owner, conn[write[w].owner], write)
        /\ ConnInv(conn[write[w].owner])
    BY <2>1, <2>2 DEF Good, SlotInv
  <2> QED
    BY <2>1, <2>2, <2>3, JobsAssumption DEF ResponseInv, ConnInv, isValid
<1> QED
  BY <1>1, Invariance, PTL

\* response_in_flight_ holds exactly while one response job of the connection
\* exists: responses on a connection are strictly serialised.
THEOREM OneResponseHolds == Spec => []OneResponse
<1>1. IndInv => OneResponse
  <2> SUFFICES ASSUME IndInv, NEW c \in Conns
               PROVE  conn[c].in_flight <=>
                        \E w \in Writes : /\ write[w].live
                                          /\ write[w].owner = c
                                          /\ \A v \in Writes :
                                               write[v].live /\ write[v].owner = c => v = w
    BY DEF OneResponse
  <2>1. ResponseInv(c, conn[c], write)
    BY IndInvFields DEF Good, SlotInv
  <2> QED
    BY <2>1 DEF ResponseInv
<1> QED
  BY <1>1, Invariance, PTL

\* closeConnection closes each accepted descriptor once, and none is leaked.
THEOREM DescriptorOwnerHolds == Spec => []DescriptorOwner
<1>1. IndInv => DescriptorOwner
  <2> SUFFICES ASSUME IndInv, NEW f \in Fds, NEW c \in Conns
               PROVE  fdOwner[f] = c <=> conn[c].live /\ Fd(conn[c]) = f
    BY DEF DescriptorOwner
  <2>1. FdInv(c, conn[c], fdOwner)
    BY IndInvFields DEF Good, SlotInv
  <2> QED
    BY <2>1 DEF FdInv
<1> QED
  BY <1>1, Invariance, PTL

\* A deferred close only ever waits for live operations that were cancelled.
THEOREM JobsTrackedHolds == Spec => []JobsTracked
<1>1. IndInv => JobsTracked
  <2> SUFFICES ASSUME IndInv, NEW c \in Conns
               PROVE  ReadInv(c, conn[c], recv) /\ IdleInv(c, conn[c], timer)
    BY DEF JobsTracked, ReadInv, IdleInv
  <2> QED
    BY IndInvFields DEF Good, SlotInv
<1> QED
  BY <1>1, Invariance, PTL

\* A recv job that completes for a live connection is the one it tracks, unless
\* that connection has already dropped it: wantsContinuedRead() may rely on it.
THEOREM OneRecvHolds == Spec => []OneRecv
<1>1. IndInv => OneRecv
  <2> SUFFICES ASSUME IndInv, NEW r \in Recvs, NEW c \in Conns, recv[r].live,
                      recv[r].owner = c, isValid(St, c, recv[r].gen)
               PROVE  conn[c].active_read \in {r, None}
    BY DEF OneRecv
  <2>1. St.conn = conn /\ ReadInv(c, conn[c], recv) /\ conn[c].gen \in Nat
    BY IndInvFields DEF Good, SlotInv, StateType, ConnType
  <2> QED
    <3>1. recv[r].gen = conn[c].gen
      BY <2>1 DEF isValid
    <3>2. ~(recv[r].gen < conn[c].gen)
      BY <3>1, <2>1
    <3> QED
      BY <3>2, <2>1 DEF ReadInv
<1> QED
  BY <1>1, Invariance, PTL
=============================================================================
