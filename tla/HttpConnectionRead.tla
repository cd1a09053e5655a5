------------------------- MODULE HttpConnectionRead -------------------------
(***************************************************************************)
(* The invariant of HttpConnectionClose is preserved by what a completion of a*)
(* recv, a timer or a write sets off, and by the start of a connection.     *)
(***************************************************************************)
EXTENDS HttpConnectionRespond

\* handleDataReceived: the timer is cancelled, the data kept, a request taken.
LEMMA handleDataReceivedGood ==
    ASSUME NEW s, Good(s), NEW c \in Conns, s.conn[c].live, Pools(s),
           NEW data \in Seq(Symbol), NEW u \in handleDataReceived(s, c, data)
    PROVE  Post(c, s, u)
<1> DEFINE b == s.conn[c].buffer \o data
           t == SetBuffer(s, c, b)
<1>1. b \in Seq(Symbol)
  BY DEF Good, StateType, ConnType
<1>2. \/ u = s
      \/ u \in sendErrorAndClose(s, c)
      \/ u \in UNION {processHttpRequests(v, c) : v \in endIdleWait(t, c)}
  BY DEF handleDataReceived, SetBuffer
<1> HIDE DEF b
<1>3. Post(c, s, t) /\ t.conn[c].live /\ t.timer = s.timer /\ t.write = s.write
  BY <1>1, SetBufferGood
<1> HIDE DEF t
<1>4. Pools(t)
  BY <1>3 DEF Pools
<1>5. CASE u = s
  BY <1>5, PostSelf
<1>6. CASE u \in sendErrorAndClose(s, c)
  BY <1>6, sendErrorAndCloseGood
<1>7. CASE u \in UNION {processHttpRequests(v, c) : v \in endIdleWait(t, c)}
  <2>1. PICK v \in endIdleWait(t, c) : u \in processHttpRequests(v, c)
    BY <1>7
  <2>2. v = t \/ (t.conn[c].active_idle # None /\ v = submitIdleTimeoutCancel(t, c))
    BY DEF endIdleWait
  <2>3. Post(c, t, v) /\ v.conn[c].live /\ Pools(v)
    BY <2>2, <1>3, <1>4, submitIdleTimeoutCancelGood, PostSelf DEF Post
  <2>4. Post(c, v, u)
    BY <2>1, <2>3, processHttpRequestsGood DEF Post
  <2> QED
    BY <2>3, <2>4, <1>3, PostTrans
<1> QED
  BY <1>2, <1>5, <1>6, <1>7

\* handleReadError stops tracking the recv, then closes or completes the close.
LEMMA handleReadErrorGood ==
    ASSUME NEW s, Good(s), NEW c \in Conns, s.conn[c].live, NEW u \in handleReadError(s, c)
    PROVE  Post(c, s, u) /\ u.conn[c].active_read = None
<1> DEFINE k == [s.conn[c] EXCEPT !.active_read = None]
           t == Put(s, c, k)
<1>t. s \in StateType /\ s.conn[c] \in ConnType
  BY DEF Good, StateType
<1>1. k \in ConnType /\ Similar(s.conn[c], k) /\ k.live /\ k.active_read = None
  BY <1>t DEF ConnType, Similar
<1>2. u = t \/ u \in closeConnection(t, c)
  BY DEF handleReadError, Put
<1> HIDE DEF k
<1>3. t.conn[c] = k
  BY <1>1, <1>t, PutFields, SMTT(40)
<1>4. Post(c, s, t)
  BY <1>1, PutGood DEF Post
<1> HIDE DEF t
<1>5. CASE u = t
  BY <1>1, <1>3, <1>4, <1>5
<1>6. CASE u \in closeConnection(t, c)
  <2>1. Post(c, t, u)
    BY <1>1, <1>3, <1>4, <1>6, closeConnectionGood DEF Post
  <2>2. u.conn[c].active_read = None
    BY <2>1, <1>1, <1>3 DEF Post, SameJobs
  <2> QED
    BY <2>1, <2>2, <1>4, PostTrans
<1> QED
  BY <1>2, <1>5, <1>6

\* handleIdleTimeout stops tracking the timer that completes, and ignores others.
LEMMA handleIdleTimeoutGood ==
    ASSUME NEW s, Good(s), NEW c \in Conns, s.conn[c].live, NEW t \in Timers, NEW res,
           NEW u \in handleIdleTimeout(s, c, t, res)
    PROVE  Post(c, s, u) /\ u.conn[c].active_idle # t
<1> DEFINE k == [s.conn[c] EXCEPT !.active_idle = None]
           v == Put(s, c, k)
<1>t. s \in StateType /\ s.conn[c] \in ConnType
  BY DEF Good, StateType
<1>1. k \in ConnType /\ Similar(s.conn[c], k) /\ k.live /\ k.active_idle = None
  BY <1>t DEF ConnType, Similar
<1>2. \/ u = s /\ t # s.conn[c].active_idle
      \/ u = v
      \/ u \in closeConnection(v, c)
  BY DEF handleIdleTimeout, Put
<1> HIDE DEF k
<1>3. v.conn[c] = k
  BY <1>1, <1>t, PutFields, SMTT(40)
<1>4. Post(c, s, v)
  BY <1>1, PutGood DEF Post
<1> HIDE DEF v
<1>5. CASE u = s /\ t # s.conn[c].active_idle
  BY <1>5, PostSelf
<1>6. CASE u = v
  BY <1>1, <1>3, <1>4, <1>6, JobsAssumption
<1>7. CASE u \in closeConnection(v, c)
  <2>1. Post(c, v, u) /\ u.conn[c].active_idle = None
    BY <1>1, <1>3, <1>4, <1>7, closeConnectionGood DEF Post
  <2> QED
    BY <2>1, <1>4, PostTrans, JobsAssumption
<1> QED
  BY <1>2, <1>5, <1>6, <1>7

-----------------------------------------------------------------------------
(* Accepting a connection *)

\* A connection constructed in a free slot is younger than every job that names it.
LEMMA createConnectionHandlerGood ==
    ASSUME NEW s, Good(s), NEW c \in Conns, ~s.conn[c].live,
           NEW f \in Fds, s.fdOwner[f] = None
    PROVE  LET u == createConnectionHandler(s, c, f)
           IN  /\ Good(u)
               /\ u.conn[c].live
               /\ u.conn[c].client_fd = f
               /\ u.conn[c].deferred_close_fd = None
               /\ ~u.conn[c].read_cancel_pending
               /\ \A q \in Recvs : u.recv[q].live /\ u.recv[q].owner = c
                                   => u.recv[q].gen < u.conn[c].gen
               /\ u.recv = s.recv /\ u.timer = s.timer /\ u.write = s.write
<1> DEFINE h == s.conn[c]
           k == [FreeConn(h.gen) EXCEPT !.live = TRUE, !.client_fd = f]
           u == createConnectionHandler(s, c, f)
<1>t. /\ s \in StateType
      /\ s.conn \in [Conns -> ConnType]
      /\ s.recv \in [Recvs -> RecvType]
      /\ s.timer \in [Timers -> TimerType]
      /\ s.write \in [Writes -> WriteType]
      /\ s.fdOwner \in [Fds -> Conns \cup {None}]
      /\ h \in ConnType /\ h.gen \in Nat
  BY DEF Good, StateType, ConnType
<1>1. k \in ConnType
  <2>1. FreeConn(h.gen) \in ConnType
    BY <1>t, FreeConnFields
  <2> QED
    BY <2>1 DEF ConnType
<1>2. /\ k.live /\ k.gen = h.gen /\ k.client_fd = f /\ k.deferred_close_fd = None
      /\ ~k.in_flight /\ ~k.close_pending /\ k.active_read = None
      /\ ~k.read_cancel_pending /\ k.active_idle = None
  BY <1>t DEF FreeConn
<1>3. u = [s EXCEPT !.conn[c] = k, !.fdOwner[f] = c]
  BY DEF createConnectionHandler
<1> HIDE DEF u, k
<1>4. /\ u.conn = [s.conn EXCEPT ![c] = k]
      /\ u.fdOwner = [s.fdOwner EXCEPT ![f] = c]
      /\ u.recv = s.recv
      /\ u.timer = s.timer
      /\ u.write = s.write
      /\ u = [conn |-> u.conn, recv |-> u.recv, timer |-> u.timer, write |-> u.write,
              fdOwner |-> u.fdOwner]
  BY <1>3, <1>t DEF StateType
<1>5. u.conn \in [Conns -> ConnType] /\ u.fdOwner \in [Fds -> Conns \cup {None}]
  BY <1>1, <1>4, <1>t
<1>6. u \in StateType
  BY <1>4, <1>5, <1>t DEF StateType
<1>7. /\ u.conn[c] = k
      /\ \A d \in Conns \ {c} : u.conn[d] = s.conn[d]
      /\ u.fdOwner[f] = c
      /\ \A g \in Fds \ {f} : u.fdOwner[g] = s.fdOwner[g]
  BY <1>4, <1>t
<1>8. Frame(c, s, u)
  <2> SUFFICES ASSUME NEW d \in Conns \ {c}
               PROVE  /\ RecvFrame(d, s.recv, s.recv)
                      /\ TimerFrame(d, s.timer, s.timer)
                      /\ WriteFrame(d, s.write, s.write)
                      /\ FdFrame(d, s.fdOwner, u.fdOwner)
    BY <1>4, <1>7 DEF Frame
  <2>1. FdFrame(d, s.fdOwner, u.fdOwner)
    BY <1>7, JobsAssumption DEF FdFrame
  <2> QED
    BY <2>1 DEF RecvFrame, TimerFrame, WriteFrame, SameJob
<1>9. OwnersInv(u)
  BY <1>4 DEF Good, OwnersInv
<1>i. /\ ConnInv(h)
      /\ FdInv(c, h, s.fdOwner)
      /\ ResponseInv(c, h, s.write)
      /\ ReadInv(c, h, s.recv)
  BY DEF Good, SlotInv
<1>10. Fd(k) = f
  BY <1>2 DEF Fd
<1>11. ConnInv(k)
  BY <1>2, JobsAssumption DEF ConnInv
<1>12. FdInv(c, k, u.fdOwner)
  BY <1>i, <1>2, <1>7, <1>10 DEF FdInv
<1>13. ResponseInv(c, k, u.write)
  BY <1>i, <1>2, <1>4 DEF ResponseInv
<1>14. \A q \in Recvs : u.recv[q].live /\ u.recv[q].owner = c => u.recv[q].gen < k.gen
  BY <1>i, <1>2, <1>4 DEF ReadInv
<1>15. ReadInv(c, k, u.recv)
  BY <1>2, <1>14 DEF ReadInv
<1>16. IdleInv(c, k, u.timer)
  BY <1>2 DEF IdleInv
<1>17. Good(u)
  BY <1>6, <1>7, <1>8, <1>9, <1>11, <1>12, <1>13, <1>15, <1>16, FrameGood DEF SlotInv
<1> QED
  BY <1>2, <1>4, <1>7, <1>14, <1>17 DEF u

\* What startReading changes of a connection.
Tracking(h, r) == [h EXCEPT !.reading_active = TRUE, !.active_read = r]

\* It changes nothing that the invariants mention besides active_read_job_.
LEMMA TrackingFields ==
    ASSUME NEW h \in ConnType, NEW r \in Recvs
    PROVE  LET k == Tracking(h, r)
           IN  /\ k \in ConnType
               /\ k.live = h.live /\ k.gen = h.gen /\ k.client_fd = h.client_fd
               /\ k.deferred_close_fd = h.deferred_close_fd
               /\ k.in_flight = h.in_flight /\ k.close_pending = h.close_pending
               /\ k.active_read = r /\ k.read_cancel_pending = h.read_cancel_pending
               /\ k.active_idle = h.active_idle
               /\ k.idle_cancel_pending = h.idle_cancel_pending
BY DEF ConnType, Tracking

\* startReading tracks the recv it arms, or leaves none.
LEMMA startReadingGood ==
    ASSUME NEW s, Good(s), NEW c \in Conns, s.conn[c].live, Pools(s),
           s.conn[c].deferred_close_fd = None, ~s.conn[c].read_cancel_pending,
           \A q \in Recvs : s.recv[q].live /\ s.recv[q].owner = c
                            => s.recv[q].gen < s.conn[c].gen,
           NEW r \in Recvs \cup {None}, r # None => ~s.recv[r].live,
           NEW v \in startReading(s, c, r)
    PROVE  Good(v)
<1> DEFINE h == s.conn[c]
           k == Tracking(h, r)
           j == [live |-> TRUE, op |-> "armed", owner |-> c, gen |-> h.gen,
                 fd |-> h.client_fd]
           u == [s EXCEPT !.conn[c] = k, !.recv[r] = j]
<1>t. /\ s \in StateType
      /\ s.conn \in [Conns -> ConnType]
      /\ s.recv \in [Recvs -> RecvType]
      /\ s.timer \in [Timers -> TimerType]
      /\ s.write \in [Writes -> WriteType]
      /\ s.fdOwner \in [Fds -> Conns \cup {None}]
      /\ h \in ConnType /\ h.gen \in Nat /\ h.client_fd \in Fds \cup {None}
  BY DEF Good, StateType, ConnType
<1>1. CASE r = None
  BY <1>1 DEF startReading
<1>2. CASE r # None
  <2>r. r \in Recvs /\ ~s.recv[r].live
    BY <1>2
  <2>1. v \in armIdleTimeout(u, c)
    BY <1>2 DEF startReading, Tracking
  <2>2. k \in ConnType
    BY <2>r, <1>t, TrackingFields
  <2>3. /\ k.live = h.live /\ k.live /\ k.gen = h.gen /\ k.client_fd = h.client_fd
        /\ k.deferred_close_fd = None
        /\ k.in_flight = h.in_flight /\ k.close_pending = h.close_pending
        /\ k.active_read = r /\ ~k.read_cancel_pending
        /\ k.active_idle = h.active_idle
        /\ k.idle_cancel_pending = h.idle_cancel_pending
    <3>t. h \in ConnType /\ r \in Recvs
      BY <2>r, <1>t
    <3>2. h.live /\ h.deferred_close_fd = None /\ ~h.read_cancel_pending
      OBVIOUS
    <3> HIDE DEF h, u, j
    <3>1. /\ k.live = h.live /\ k.gen = h.gen /\ k.client_fd = h.client_fd
          /\ k.deferred_close_fd = h.deferred_close_fd
          /\ k.in_flight = h.in_flight /\ k.close_pending = h.close_pending
          /\ k.active_read = r /\ k.read_cancel_pending = h.read_cancel_pending
          /\ k.active_idle = h.active_idle
          /\ k.idle_cancel_pending = h.idle_cancel_pending
      BY <3>t, TrackingFields
    <3> HIDE DEF k
    <3> QED
      BY <3>1, <3>2
  <2>4. /\ j \in RecvType
        /\ j.live /\ j.owner = c /\ j.gen = h.gen /\ j.fd = h.client_fd
    BY <1>t DEF RecvType, Op
  <2>e. u = [s EXCEPT !.conn[c] = k, !.recv[r] = j]
    OBVIOUS
  <2>h. s.conn[c] = h /\ \A q \in Recvs : s.recv[q].live /\ s.recv[q].owner = c
                                         => s.recv[q].gen < h.gen
    OBVIOUS
  <2>i. /\ ConnInv(h)
        /\ FdInv(c, h, s.fdOwner)
        /\ ResponseInv(c, h, s.write)
        /\ IdleInv(c, h, s.timer)
    BY DEF Good, SlotInv
  <2>11. Fd(k) = Fd(h) /\ Fd(k) = h.client_fd
    BY <2>3 DEF Fd
  <2> HIDE DEF u, k, j, h
  <2>5. /\ u.conn = [s.conn EXCEPT ![c] = k]
        /\ u.recv = [s.recv EXCEPT ![r] = j]
    BY <2>e, <1>t DEF StateType
  <2>5b. u.timer = s.timer /\ u.write = s.write /\ u.fdOwner = s.fdOwner
    BY <2>e, <1>t DEF StateType
  <2>5a. u = [conn |-> u.conn, recv |-> u.recv, timer |-> u.timer, write |-> u.write,
              fdOwner |-> u.fdOwner]
    BY <2>e, <1>t DEF StateType
  <2>6. u.conn \in [Conns -> ConnType] /\ u.recv \in [Recvs -> RecvType]
    BY <2>2, <2>4, <2>5, <1>t, ZenonT(60)
  <2>7. u \in StateType
    BY <2>5a, <2>5b, <2>6, <1>t DEF StateType
  <2>8. /\ u.conn[c] = k
        /\ \A d \in Conns \ {c} : u.conn[d] = s.conn[d]
        /\ u.recv[r] = j
        /\ \A q \in Recvs \ {r} : u.recv[q] = s.recv[q]
    BY <2>5, <2>r, <1>t
  <2>9. OwnersInv(s)
    BY DEF Good
  <2>10. Frame(c, s, u) /\ OwnersInv(u)
    <3>1. u.recv[r].owner = c
      BY <2>4, <2>8
    <3>2. OnlyRecv(c, s, u, r)
      BY <3>1, <2>5b, <2>8, <2>r, Zenon DEF OnlyRecv
    <3> QED
      BY <3>2, <2>9, <2>r, RecvStep
  <2>12. ConnInv(k)
    BY <2>i, <2>3, <2>h DEF ConnInv
  <2>13. FdInv(c, k, s.fdOwner)
    BY <2>i, <2>3, <2>11, FdFields
  <2>14. ResponseInv(c, k, s.write)
    BY <2>i, <2>3, ResponseFields
  <2>15. ReadInv(c, k, u.recv)
    <3>1. /\ u.recv[r].live /\ u.recv[r].owner = c
          /\ u.recv[r].gen = k.gen /\ u.recv[r].fd = Fd(k)
      BY <2>3, <2>4, <2>8, <2>11
    <3>2. ASSUME NEW q \in Recvs, q # r, u.recv[q].live, u.recv[q].owner = c
          PROVE  u.recv[q].gen < k.gen
      BY <3>2, <2>3, <2>8, <2>h
    <3> QED
      BY <3>1, <3>2, <2>3 DEF ReadInv
  <2>16. IdleInv(c, k, s.timer)
    BY <2>i, <2>3 DEF IdleInv
  <2>17. SlotInv(u, c)
    BY <2>5b, <2>8, <2>12, <2>13, <2>14, <2>15, <2>16 DEF SlotInv
  <2>18. Good(u)
    BY <2>7, <2>10, <2>17, FrameGood
  <2>19. Pools(u) /\ u.conn[c].live
    BY <2>3, <2>5b, <2>8 DEF Pools
  <2> QED
    BY <2>1, <2>18, <2>19, armIdleTimeoutGood DEF Post
<1> QED
  BY <1>1, <1>2

-----------------------------------------------------------------------------
(* Completed jobs return to their pools *)

\* A recv that its owner does not track may be freed.
LEMMA FreeRecvGood ==
    ASSUME NEW s, Good(s), NEW r \in Recvs,
           s.recv[r].owner \in Conns => s.conn[s.recv[r].owner].active_read # r,
           NEW u, u = [s EXCEPT !.recv[r] = NoRecv]
    PROVE  Good(u)
<1> DEFINE c == s.recv[r].owner
<1>t. /\ s \in StateType
      /\ s.conn \in [Conns -> ConnType]
      /\ s.recv \in [Recvs -> RecvType]
  BY DEF Good, StateType
<1>1. NoRecv \in RecvType /\ ~NoRecv.live
  BY DEF NoRecv, RecvType, Op
<1>2. /\ u \in StateType
      /\ u.conn = s.conn /\ u.timer = s.timer /\ u.write = s.write
      /\ u.fdOwner = s.fdOwner
      /\ u.recv = [s.recv EXCEPT ![r] = NoRecv]
  BY <1>1, <1>t DEF StateType
<1>3. u.recv[r] = NoRecv /\ \A q \in Recvs \ {r} : u.recv[q] = s.recv[q]
  BY <1>2, <1>t
<1>4. OwnersInv(u)
  BY <1>1, <1>2, <1>3 DEF Good, OwnersInv
<1>5. Frame(c, s, u)
  BY <1>1, <1>2, <1>3 DEF Frame, RecvFrame, TimerFrame, WriteFrame, FdFrame, SameJob
<1>c. c \in Conns => s.conn[c].active_read # r
  OBVIOUS
<1> HIDE DEF c
<1>6. ASSUME c \in Conns PROVE SlotInv(u, c)
  <2>1. SlotInv(s, c) /\ s.conn[c].active_read # r
    BY <1>6, <1>c DEF Good
  <2>2. s.conn[c].active_read \in Recvs \cup {None}
    BY <1>6, <1>t DEF ConnType
  <2>3. ReadInv(c, s.conn[c], u.recv)
    BY <2>1, <2>2, <1>1, <1>3 DEF SlotInv, ReadInv
  <2> QED
    BY <2>1, <2>3, <1>2 DEF SlotInv
<1> QED
  BY <1>2, <1>4, <1>5, <1>6, FrameGood

\* A timer that its owner does not track may be freed.
LEMMA FreeTimerGood ==
    ASSUME NEW s, Good(s), NEW t \in Timers,
           s.timer[t].owner \in Conns => s.conn[s.timer[t].owner].active_idle # t,
           NEW u, u = [s EXCEPT !.timer[t] = NoTimer]
    PROVE  Good(u)
<1> DEFINE c == s.timer[t].owner
<1>t. /\ s \in StateType
      /\ s.conn \in [Conns -> ConnType]
      /\ s.timer \in [Timers -> TimerType]
  BY DEF Good, StateType
<1>1. NoTimer \in TimerType /\ ~NoTimer.live
  BY DEF NoTimer, TimerType, Op
<1>2. /\ u \in StateType
      /\ u.conn = s.conn /\ u.recv = s.recv /\ u.write = s.write
      /\ u.fdOwner = s.fdOwner
      /\ u.timer = [s.timer EXCEPT ![t] = NoTimer]
  BY <1>1, <1>t DEF StateType
<1>3. u.timer[t] = NoTimer /\ \A q \in Timers \ {t} : u.timer[q] = s.timer[q]
  BY <1>2, <1>t
<1>4. OwnersInv(u)
  BY <1>1, <1>2, <1>3 DEF Good, OwnersInv
<1>5. Frame(c, s, u)
  BY <1>1, <1>2, <1>3 DEF Frame, RecvFrame, TimerFrame, WriteFrame, FdFrame, SameJob
<1>c. c \in Conns => s.conn[c].active_idle # t
  OBVIOUS
<1> HIDE DEF c
<1>6. ASSUME c \in Conns PROVE SlotInv(u, c)
  <2>1. SlotInv(s, c) /\ s.conn[c].active_idle # t
    BY <1>6, <1>c DEF Good
  <2>2. s.conn[c].active_idle \in Timers \cup {None}
    BY <1>6, <1>t DEF ConnType
  <2>3. IdleInv(c, s.conn[c], u.timer)
    BY <2>1, <2>2, <1>1, <1>3 DEF SlotInv, IdleInv
  <2> QED
    BY <2>1, <2>3, <1>2 DEF SlotInv
<1> QED
  BY <1>2, <1>4, <1>5, <1>6, FrameGood

\* A recv that re-arms itself was not being cancelled by its connection.
LEMMA RearmGood ==
    ASSUME NEW s, Good(s), NEW r \in Recvs, s.recv[r].owner \in Conns,
           wantsContinuedRead(s, s.recv[r].owner),
           NEW u, u = [s EXCEPT !.recv[r].op = "armed"]
    PROVE  Good(u)
<1> DEFINE c == s.recv[r].owner
           j == [s.recv[r] EXCEPT !.op = "armed"]
<1>t. /\ s \in StateType
      /\ s.conn \in [Conns -> ConnType]
      /\ s.recv \in [Recvs -> RecvType]
  BY DEF Good, StateType
<1>1. /\ j \in RecvType
      /\ j.live = s.recv[r].live /\ j.owner = s.recv[r].owner
      /\ j.gen = s.recv[r].gen /\ j.fd = s.recv[r].fd
  BY <1>t DEF RecvType, Op
<1>2a. /\ u.conn = s.conn /\ u.timer = s.timer /\ u.write = s.write
       /\ u.fdOwner = s.fdOwner
  BY <1>t DEF StateType
<1>2. u.recv = [s.recv EXCEPT ![r] = j]
  BY <1>t DEF StateType
<1>3. u \in StateType
  BY <1>1, <1>t DEF StateType
<1> HIDE DEF j
<1>4. u.recv[r] = j /\ \A q \in Recvs \ {r} : u.recv[q] = s.recv[q]
  BY <1>2, <1>t
<1>5. OwnersInv(s)
  BY DEF Good
<1>6. Frame(c, s, u) /\ OwnersInv(u)
  <2>1. u.recv[r].owner = c
    BY <1>1, <1>4
  <2>2. \A d \in Conns \ {c} : u.conn[d] = s.conn[d]
    BY <1>2a
  <2>3. OnlyRecv(c, s, u, r)
    BY <2>1, <2>2, <1>2a, <1>4 DEF OnlyRecv
  <2> HIDE DEF c
  <2>4. c \in Conns
    BY DEF c
  <2> QED
    BY <2>3, <2>4, <1>5, RecvStep
<1>7. c \in Conns /\ SlotInv(s, c) /\ wantsContinuedRead(s, c)
  BY DEF Good
<1> HIDE DEF c
<1>8. ~s.conn[c].read_cancel_pending
  BY <1>7 DEF SlotInv, ConnInv, wantsContinuedRead
<1>9. s.conn[c].active_read \in Recvs \cup {None}
  BY <1>7, <1>t DEF ConnType
<1>10. ReadInv(c, s.conn[c], u.recv)
  <2>1. ReadInv(c, s.conn[c], s.recv)
    BY <1>7 DEF SlotInv
  <2>2. \A q \in Recvs : /\ u.recv[q].live = s.recv[q].live
                          /\ u.recv[q].owner = s.recv[q].owner
                          /\ u.recv[q].gen = s.recv[q].gen
                          /\ u.recv[q].fd = s.recv[q].fd
    BY <1>1, <1>4
  <2> DEFINE k == s.conn[c]
             a == k.active_read
  <2>3. a # None => /\ a \in Recvs
                    /\ s.recv[a].live /\ s.recv[a].owner = c
                    /\ s.recv[a].gen = k.gen /\ s.recv[a].fd = Fd(k)
    BY <2>1, <1>9 DEF ReadInv
  <2> HIDE DEF k, a
  <2>4. a # None => /\ u.recv[a].live /\ u.recv[a].owner = c
                    /\ u.recv[a].gen = k.gen /\ u.recv[a].fd = Fd(k)
    BY <2>2, <2>3
  <2>5. ASSUME NEW q \in Recvs, u.recv[q].live, u.recv[q].owner = c
        PROVE  \/ u.recv[q].gen < k.gen
               \/ k.live /\ u.recv[q].gen = k.gen /\ a \in {q, None}
    <3>1. s.recv[q].live /\ s.recv[q].owner = c /\ u.recv[q].gen = s.recv[q].gen
      BY <2>2, <2>5
    <3> QED
      BY <3>1, <2>1 DEF ReadInv, k, a
  <2> QED
    BY <2>4, <2>5, <1>8 DEF ReadInv, k, a
<1>11. SlotInv(u, c)
  BY <1>2a, <1>7, <1>10 DEF SlotInv
<1> QED
  BY <1>3, <1>6, <1>11, FrameGood

\* The response job is freed and its connection gets its response slot back,
\* before the callback goes on.
FinishWrite(s, c, w) == [[s EXCEPT !.write[w] = NoWrite] EXCEPT !.conn[c].in_flight = FALSE]

\* When a response job calls back, its connection is still there.
LEMMA FinishWriteGood ==
    ASSUME NEW s, Good(s), NEW w \in Writes, s.write[w].live, NEW c, c = s.write[w].owner,
           Pools(s)
    PROVE  LET u == FinishWrite(s, c, w)
           IN  c \in Conns /\ Good(u) /\ u.conn[c].live /\ Pools(u)
<1> DEFINE h == s.conn[c]
           k == [h EXCEPT !.in_flight = FALSE]
           u == FinishWrite(s, c, w)
<1>c. c \in Conns
  BY DEF Good, OwnersInv
<1>t. /\ s \in StateType
      /\ s.conn \in [Conns -> ConnType]
      /\ s.recv \in [Recvs -> RecvType]
      /\ s.timer \in [Timers -> TimerType]
      /\ s.write \in [Writes -> WriteType]
      /\ s.fdOwner \in [Fds -> Conns \cup {None}]
      /\ h \in ConnType
  BY <1>c DEF Good, StateType
<1>1. k \in ConnType
  BY <1>t DEF ConnType
<1>2. /\ k.live = h.live /\ k.gen = h.gen /\ k.client_fd = h.client_fd
      /\ k.deferred_close_fd = h.deferred_close_fd /\ ~k.in_flight
      /\ k.close_pending = h.close_pending /\ k.active_read = h.active_read
      /\ k.read_cancel_pending = h.read_cancel_pending
      /\ k.active_idle = h.active_idle /\ k.idle_cancel_pending = h.idle_cancel_pending
  BY <1>t DEF ConnType
<1>3. NoWrite \in WriteType /\ ~NoWrite.live
  BY DEF NoWrite, WriteType
<1>4. u = [s EXCEPT !.write[w] = NoWrite, !.conn[c] = k]
  BY <1>t DEF FinishWrite, StateType
<1> HIDE DEF u, k
<1>5. /\ u.conn = [s.conn EXCEPT ![c] = k]
      /\ u.write = [s.write EXCEPT ![w] = NoWrite]
  BY <1>4, <1>t DEF StateType
<1>5b. u.recv = s.recv /\ u.timer = s.timer /\ u.fdOwner = s.fdOwner
  BY <1>4, <1>t DEF StateType
<1>6. u = [conn |-> u.conn, recv |-> u.recv, timer |-> u.timer, write |-> u.write,
           fdOwner |-> u.fdOwner]
  BY <1>4, <1>t DEF StateType
<1>7. u.conn \in [Conns -> ConnType] /\ u.write \in [Writes -> WriteType]
  <2>1. u.conn \in [Conns -> ConnType]
    BY <1>c, <1>1, <1>5, <1>t
  <2>2. u.write \in [Writes -> WriteType]
    BY <1>3, <1>5, <1>t
  <2> QED
    BY <2>1, <2>2
<1>8. u \in StateType
  BY <1>5b, <1>6, <1>7, <1>t DEF StateType
<1>9. /\ u.conn[c] = k
      /\ \A d \in Conns \ {c} : u.conn[d] = s.conn[d]
      /\ u.write[w] = NoWrite
      /\ \A v \in Writes \ {w} : u.write[v] = s.write[v]
  <2>1. u.conn[c] = k /\ \A d \in Conns \ {c} : u.conn[d] = s.conn[d]
    BY <1>5, <1>c, <1>t
  <2>2. u.write[w] = NoWrite /\ \A v \in Writes \ {w} : u.write[v] = s.write[v]
    BY <1>5, <1>t
  <2> QED
    BY <2>1, <2>2
<1>10. OwnersInv(s)
  BY DEF Good
<1>11. Frame(c, s, u) /\ OwnersInv(u)
  <2>1. ~u.write[w].live
    BY <1>3, <1>9
  <2>2. OnlyWrite(c, s, u, w)
    BY <2>1, <1>5b, <1>9 DEF OnlyWrite
  <2> QED
    BY <2>2, <1>c, <1>10, WriteStep
<1>i. /\ ConnInv(h)
      /\ FdInv(c, h, s.fdOwner)
      /\ ResponseInv(c, h, s.write)
      /\ ReadInv(c, h, s.recv)
      /\ IdleInv(c, h, s.timer)
  BY <1>c DEF Good, SlotInv
<1> HIDE DEF h
<1>12. Fd(k) = Fd(h)
  BY <1>2 DEF Fd
<1>13. h.live
  BY <1>i DEF ResponseInv
<1>14. ConnInv(k)
  BY <1>i, <1>2, <1>13 DEF ConnInv
<1>15. FdInv(c, k, s.fdOwner)
  BY <1>i, <1>2, <1>12 DEF FdInv
<1>16. ResponseInv(c, k, u.write)
  <2>1. \A v \in Writes : ~(u.write[v].live /\ u.write[v].owner = c)
    BY <1>i, <1>3, <1>9 DEF ResponseInv
  <2> QED
    BY <2>1, <1>2 DEF ResponseInv
<1>17. ReadInv(c, k, s.recv)
  BY <1>i, <1>2, <1>12 DEF ReadInv
<1>18. IdleInv(c, k, s.timer)
  BY <1>i, <1>2 DEF IdleInv
<1>19. SlotInv(u, c)
  BY <1>5b, <1>9, <1>14, <1>15, <1>16, <1>17, <1>18 DEF SlotInv
<1>20. Good(u)
  BY <1>8, <1>11, <1>19, FrameGood
<1>21. Pools(u)
  BY <1>3, <1>5b, <1>9 DEF Pools, FreeWrites
<1> QED
  BY <1>2, <1>9, <1>13, <1>20, <1>21, <1>c DEF u

=============================================================================
