----------------------- MODULE HttpConnectionRespond ------------------------
(***************************************************************************)
(* The invariant of HttpConnectionClose is preserved by the operations that *)
(* parse a request, answer it, and arm or cancel the idle timer.            *)
(***************************************************************************)
EXTENDS HttpConnectionClose

\* armIdleTimeout tracks the timer it arms.
LEMMA armIdleTimeoutGood ==
    ASSUME NEW s, Good(s), NEW c \in Conns, s.conn[c].live, Pools(s),
           NEW u \in armIdleTimeout(s, c)
    PROVE  Post(c, s, u)
<1>t. /\ s \in StateType
      /\ s.conn \in [Conns -> ConnType]
      /\ s.timer \in [Timers -> TimerType]
      /\ s.conn[c] \in ConnType
      /\ s.conn[c].gen \in Nat
  BY DEF Good, StateType, ConnType
<1>1. CASE u = s
  BY <1>1, PostSelf
<1>2. CASE u # s
  <2>1. PICK t \in FreeTimers :
          u = [s EXCEPT !.timer[t] = [live |-> TRUE, op |-> "armed", owner |-> c,
                                      gen |-> s.conn[c].gen],
                        !.conn[c].active_idle = t,
                        !.conn[c].idle_cancel_pending = FALSE]
    BY <1>2 DEF armIdleTimeout
  <2> DEFINE h == s.conn[c]
             k == [h EXCEPT !.active_idle = t, !.idle_cancel_pending = FALSE]
             j == [live |-> TRUE, op |-> "armed", owner |-> c, gen |-> h.gen]
  <2>2. t \in Timers /\ ~s.timer[t].live
    BY DEF Pools, FreeTimers
  <2>3. k \in ConnType /\ j \in TimerType
    BY <1>t, <2>2 DEF ConnType, TimerType, Op
  <2>4. /\ k.live = h.live /\ k.gen = h.gen /\ k.client_fd = h.client_fd
        /\ k.deferred_close_fd = h.deferred_close_fd /\ k.in_flight = h.in_flight
        /\ k.close_pending = h.close_pending /\ k.active_read = h.active_read
        /\ k.read_cancel_pending = h.read_cancel_pending
        /\ k.active_idle = t /\ k.idle_cancel_pending = FALSE
    BY <1>t DEF ConnType
  <2>5. u.conn = [s.conn EXCEPT ![c] = k] /\ u.timer = [s.timer EXCEPT ![t] = j]
    BY <2>1, <1>t DEF StateType
  <2>6. u.recv = s.recv /\ u.write = s.write /\ u.fdOwner = s.fdOwner
    BY <2>1, <1>t DEF StateType
  <2>7. u = [conn |-> u.conn, recv |-> u.recv, timer |-> u.timer, write |-> u.write,
             fdOwner |-> u.fdOwner]
    BY <2>1, <1>t DEF StateType
  <2> HIDE DEF k
  <2>8a. /\ u.conn \in [Conns -> ConnType] /\ u.recv \in [Recvs -> RecvType]
       /\ u.timer \in [Timers -> TimerType] /\ u.write \in [Writes -> WriteType]
       /\ u.fdOwner \in [Fds -> Conns \cup {None}]
    <3> HIDE DEF j
    <3>1. s.recv \in [Recvs -> RecvType] /\ s.write \in [Writes -> WriteType]
          /\ s.fdOwner \in [Fds -> Conns \cup {None}]
      BY DEF Good, StateType
    <3> QED
      BY <3>1, <2>2, <2>3, <2>5, <2>6, <1>t
  <2>8. u \in StateType
    BY <2>7, <2>8a DEF StateType
  <2>9. u.conn[c] = k /\ \A d \in Conns \ {c} : u.conn[d] = s.conn[d]
    BY <2>5, <1>t
  <2>10. u.timer[t] = j /\ \A q \in Timers \ {t} : u.timer[q] = s.timer[q]
    BY <2>2, <2>5, <1>t
  <2>11. Frame(c, s, u)
    BY <2>2, <2>6, <2>9, <2>10 DEF Frame, RecvFrame, TimerFrame, WriteFrame, FdFrame, SameJob
  <2>12. OwnersInv(u)
    BY <2>6, <2>10 DEF Good, OwnersInv
  <2>i. /\ ConnInv(h)
        /\ FdInv(c, h, s.fdOwner)
        /\ ResponseInv(c, h, s.write)
        /\ ReadInv(c, h, s.recv)
    BY DEF Good, SlotInv
  <2>13. Fd(k) = Fd(h)
    BY <2>4 DEF Fd
  <2>14. ConnInv(k)
    BY <2>i, <2>4 DEF ConnInv
  <2>15. FdInv(c, k, s.fdOwner)
    BY <2>i, <2>4, <2>13 DEF FdInv
  <2>16. ResponseInv(c, k, s.write)
    BY <2>i, <2>4 DEF ResponseInv
  <2>17. ReadInv(c, k, s.recv)
    BY <2>i, <2>4, <2>13 DEF ReadInv
  <2>18. IdleInv(c, k, u.timer)
    BY <2>4, <2>10, SMTT(40) DEF IdleInv
  <2>19. SlotInv(u, c)
    BY <2>6, <2>9, <2>14, <2>15, <2>16, <2>17, <2>18 DEF SlotInv
  <2>20. Good(u)
    BY <2>8, <2>11, <2>12, <2>19, FrameGood
  <2>21. \A q \in Timers : s.timer[q].live => u.timer[q] = s.timer[q]
    BY <2>2, <2>10
  <2>22. u.recv = s.recv /\ u.conn[c].active_read = s.conn[c].active_read
    BY <2>4, <2>6, <2>9
  <2> QED
    BY <2>20, <2>21, <2>22 DEF Post, SameJobs, SameJob
<1> QED
  BY <1>1, <1>2

\* A connection that may start a response.
Ready(s, c) ==
    /\ s.conn[c].live
    /\ ~s.conn[c].in_flight
    /\ s.conn[c].client_fd # None

\* A response is started only when none is in flight, and is then the only one.
LEMMA startResponseGood ==
    ASSUME NEW s, Good(s), NEW c \in Conns, Ready(s, c),
           NEW w \in Writes, ~s.write[w].live, NEW persist \in BOOLEAN
    PROVE  Post(c, s, startResponse(s, c, w, persist))
<1> DEFINE h == s.conn[c]
           k == [h EXCEPT !.in_flight = TRUE, !.responses = h.responses + 1]
           j == [live |-> TRUE, owner |-> c, gen |-> h.gen, fd |-> h.client_fd,
                 request |-> h.responses + 1, done |-> 0, keep_alive |-> persist]
           u == startResponse(s, c, w, persist)
<1>t. /\ s \in StateType
      /\ s.conn \in [Conns -> ConnType]
      /\ s.write \in [Writes -> WriteType]
      /\ h \in ConnType
      /\ h.gen \in Nat /\ h.responses \in Nat /\ h.client_fd \in Fds \cup {None}
  BY DEF Good, StateType, ConnType
<1>1. u = [s EXCEPT !.conn[c] = k, !.write[w] = j]
  BY DEF startResponse
<1>2. /\ j \in WriteType
      /\ j.live /\ j.owner = c /\ j.gen = h.gen /\ j.fd = h.client_fd
  BY <1>t, SMTT(40) DEF WriteType
<1> HIDE DEF u, j
<1>n. h.responses + 1 \in Nat
  BY <1>t
<1>3. k \in ConnType
  BY <1>t, <1>n DEF ConnType
<1>4. /\ k.live = h.live /\ k.gen = h.gen /\ k.client_fd = h.client_fd
      /\ k.deferred_close_fd = h.deferred_close_fd /\ k.in_flight = TRUE
      /\ k.close_pending = h.close_pending /\ k.active_read = h.active_read
      /\ k.read_cancel_pending = h.read_cancel_pending
      /\ k.active_idle = h.active_idle /\ k.idle_cancel_pending = h.idle_cancel_pending
  BY <1>t DEF ConnType
<1>5. u.conn = [s.conn EXCEPT ![c] = k] /\ u.write = [s.write EXCEPT ![w] = j]
  BY <1>1, <1>t DEF StateType
<1>6. u.recv = s.recv /\ u.timer = s.timer /\ u.fdOwner = s.fdOwner
  BY <1>1, <1>t DEF StateType
<1>7. u = [conn |-> u.conn, recv |-> u.recv, timer |-> u.timer, write |-> u.write,
           fdOwner |-> u.fdOwner]
  BY <1>1, <1>t DEF StateType
<1> HIDE DEF k
<1>8a. /\ u.conn \in [Conns -> ConnType] /\ u.recv \in [Recvs -> RecvType]
     /\ u.timer \in [Timers -> TimerType] /\ u.write \in [Writes -> WriteType]
     /\ u.fdOwner \in [Fds -> Conns \cup {None}]
  BY <1>2, <1>3, <1>5, <1>6, <1>t, SMTT(40) DEF Good, StateType
<1>8. u \in StateType
  BY <1>7, <1>8a DEF StateType
<1>9. u.conn[c] = k /\ \A d \in Conns \ {c} : u.conn[d] = s.conn[d]
  BY <1>5, <1>t
<1>10. u.write[w] = j /\ \A v \in Writes \ {w} : u.write[v] = s.write[v]
  BY <1>5, <1>t
<1>11. Frame(c, s, u)
  BY <1>2, <1>6, <1>9, <1>10 DEF Frame, RecvFrame, TimerFrame, WriteFrame, FdFrame, SameJob
<1>12. OwnersInv(u)
  BY <1>2, <1>6, <1>10 DEF Good, OwnersInv
<1>i. /\ ConnInv(h)
      /\ FdInv(c, h, s.fdOwner)
      /\ ResponseInv(c, h, s.write)
      /\ ReadInv(c, h, s.recv)
      /\ IdleInv(c, h, s.timer)
  BY DEF Good, SlotInv
<1>13. Fd(k) = Fd(h)
  BY <1>4 DEF Fd
<1>14. ConnInv(k)
  BY <1>i, <1>4 DEF ConnInv, Ready
<1>15. FdInv(c, k, s.fdOwner)
  BY <1>i, <1>4, <1>13 DEF FdInv
<1>16. ResponseInv(c, k, u.write)
  <2>1. \A v \in Writes \ {w} : ~(s.write[v].live /\ s.write[v].owner = c)
    BY <1>i DEF ResponseInv, Ready
  <2>2. \A v \in Writes : u.write[v].live /\ u.write[v].owner = c <=> v = w
    BY <2>1, <1>2, <1>10
  <2>3. \A v \in Writes : u.write[v].live /\ u.write[v].owner = c => u.write[v] = j
    BY <2>2, <1>10
  <2>4. \A v \in Writes : u.write[v].live /\ u.write[v].owner = c =>
            k.live /\ k.gen = u.write[v].gen /\ k.in_flight /\ k.client_fd = u.write[v].fd
    BY <2>3, <1>2, <1>4 DEF Ready
  <2>5. \A v, x \in Writes : u.write[v].live /\ u.write[v].owner = c
                              /\ u.write[x].live /\ u.write[x].owner = c => v = x
    BY <2>2
  <2>6. \E v \in Writes : u.write[v].live /\ u.write[v].owner = c
    BY <2>2
  <2> QED
    BY <2>4, <2>5, <2>6 DEF ResponseInv
<1>17. ReadInv(c, k, s.recv)
  BY <1>i, <1>4, <1>13 DEF ReadInv
<1>18. IdleInv(c, k, s.timer)
  BY <1>i, <1>4 DEF IdleInv
<1>19. SlotInv(u, c)
  BY <1>6, <1>9, <1>14, <1>15, <1>16, <1>17, <1>18 DEF SlotInv
<1>20. Good(u)
  BY <1>8, <1>11, <1>12, <1>19, FrameGood
<1> QED
  BY <1>4, <1>6, <1>9, <1>20 DEF Post, SameJobs, SameJob, u

\* sendResponse starts a response, or closes when a pool is exhausted.
LEMMA sendResponseGood ==
    ASSUME NEW s, Good(s), NEW c \in Conns, Ready(s, c), Pools(s), NEW keep \in BOOLEAN,
           NEW u \in sendResponse(s, c, keep)
    PROVE  Post(c, s, u)
<1>1. CASE u \in closeConnection(s, c)
  BY <1>1, closeConnectionGood DEF Ready
<1>2. CASE u \notin closeConnection(s, c)
  <2> DEFINE choices == IF keep /\ ~isStopping THEN BOOLEAN ELSE {FALSE}
             started == {startResponse(s, c, w, persist) :
                            w \in FreeWrites, persist \in choices}
  <2>1. u \in started
    <3>1. sendResponse(s, c, keep) =
            (IF MayFail(FreeWrites) THEN closeConnection(s, c) ELSE {}) \cup started
      BY DEF sendResponse
    <3> HIDE DEF started
    <3> QED
      BY <3>1, <1>2
  <2>2. choices \subseteq BOOLEAN
    OBVIOUS
  <2> HIDE DEF choices
  <2>3. PICK w \in FreeWrites, persist \in choices : u = startResponse(s, c, w, persist)
    BY <2>1
  <2>4. w \in Writes /\ ~s.write[w].live /\ persist \in BOOLEAN
    BY <2>2 DEF Pools, FreeWrites
  <2> QED
    BY <2>3, <2>4, startResponseGood
<1> QED
  BY <1>1, <1>2

SetBuffer(s, c, b) == [s EXCEPT !.conn[c].buffer = b]

\* Assigning request_buffer_ keeps the invariant.
LEMMA SetBufferGood ==
    ASSUME NEW s, Good(s), NEW c \in Conns, s.conn[c].live, NEW b \in Seq(Symbol)
    PROVE  LET t == SetBuffer(s, c, b)
           IN  /\ Post(c, s, t)
               /\ t.conn[c].live
               /\ t.conn[c].client_fd = s.conn[c].client_fd
               /\ t.conn[c].in_flight = s.conn[c].in_flight
               /\ t.timer = s.timer
               /\ t.write = s.write
<1> DEFINE k == [s.conn[c] EXCEPT !.buffer = b]
           t == SetBuffer(s, c, b)
<1>t. s \in StateType /\ s.conn[c] \in ConnType
  BY DEF Good, StateType
<1>1. k \in ConnType /\ Similar(s.conn[c], k)
  BY <1>t DEF ConnType, Similar
<1>2. /\ k.live = s.conn[c].live
      /\ k.client_fd = s.conn[c].client_fd
      /\ k.in_flight = s.conn[c].in_flight
  BY <1>t DEF ConnType
<1>3. t = Put(s, c, k)
  BY DEF Put, SetBuffer
<1> HIDE DEF k, t
<1>4. t.conn[c] = k /\ t.timer = s.timer /\ t.write = s.write
  BY <1>1, <1>3, <1>t, PutFields
<1>5. Post(c, s, t)
  BY <1>1, <1>3, PutGood DEF Post
<1> QED
  BY <1>2, <1>4, <1>5 DEF t

\* sendErrorAndClose starts the last response, or closes.
LEMMA sendErrorAndCloseGood ==
    ASSUME NEW s, Good(s), NEW c \in Conns, s.conn[c].live, Pools(s),
           NEW u \in sendErrorAndClose(s, c)
    PROVE  Post(c, s, u)
<1> DEFINE t == SetBuffer(s, c, <<>>)
<1>1. /\ Post(c, s, t)
      /\ t.conn[c].live
      /\ Pools(t)
  <2>1. <<>> \in Seq(Symbol)
    OBVIOUS
  <2>2. Post(c, s, t) /\ t.conn[c].live /\ t.timer = s.timer /\ t.write = s.write
    BY <2>1, SetBufferGood
  <2> QED
    BY <2>2 DEF Pools
<1>2. IF t.conn[c].client_fd = None \/ t.conn[c].in_flight
      THEN u \in closeConnection(t, c)
      ELSE u \in sendResponse(t, c, FALSE)
  BY DEF sendErrorAndClose, SetBuffer
<1> HIDE DEF t
<1>3. CASE t.conn[c].client_fd = None \/ t.conn[c].in_flight
  BY <1>1, <1>2, <1>3, closeConnectionGood, PostTrans DEF Post
<1>4. CASE ~(t.conn[c].client_fd = None \/ t.conn[c].in_flight)
  <2>1. Ready(t, c)
    BY <1>1, <1>4 DEF Ready
  <2>2. Post(c, t, u)
    BY <2>1, <1>1, <1>2, <1>4, sendResponseGood DEF Post
  <2> QED
    BY <2>2, <1>1, PostTrans
<1> QED
  BY <1>3, <1>4

\* A set of naturals that is not empty has a least element.
LEMMA NatMin ==
    ASSUME NEW T, T \subseteq Nat, T # {}
    PROVE  \E i \in T : \A j \in T : i <= j
<1> DEFINE R == OpToRel(<, Nat)
<1>1. IsWellFoundedOn(R, Nat)
  BY NatLessThanWellFounded
<1> HIDE DEF R
<1>2. \E x \in T : \A y \in T : ~(<<y, x>> \in R)
  BY <1>1, WFMin
<1>3. \A x, y \in Nat : x < y => <<x, y>> \in R
  BY DEF R, OpToRel
<1>4. PICK x \in T : \A y \in T : ~(<<y, x>> \in R)
  BY <1>2
<1>5. \A y \in T : x <= y
  <2> TAKE y \in T
  <2>1. x \in Nat /\ y \in Nat
    OBVIOUS
  <2>2. ~(y < x)
    BY <2>1, <1>3, <1>4
  <2> QED
    BY <2>1, <2>2
<1> QED
  BY <1>5
\* The parser consumes no more than the buffer holds.
LEMMA RequestLengthInBuffer ==
    ASSUME NEW b \in Seq(Symbol)
    PROVE  RequestLength(b) \in 0 .. Len(b)
<1> DEFINE ends == {i \in DOMAIN b : b[i] # "h"}
<1>1. CASE ends = {}
  BY <1>1 DEF RequestLength
<1>2. CASE ends # {}
  <2>1. ends \subseteq 1 .. Len(b)
    OBVIOUS
  <2> HIDE DEF ends
  <2>2. ends \subseteq Nat
    BY <2>1
  <2>3. \E i \in ends : \A j \in ends : i <= j
    BY <1>2, <2>2, NatMin
  <2>4. RequestLength(b) \in ends
    BY <1>2, <2>3 DEF RequestLength, ends
  <2>5. RequestLength(b) \in 1 .. Len(b)
    BY <2>1, <2>4
  <2> QED
    BY <2>5
<1> QED
  BY <1>1, <1>2

\* processHttpRequests takes at most one request, and none during a response.
LEMMA processHttpRequestsGood ==
    ASSUME NEW s, Good(s), NEW c \in Conns, s.conn[c].live, Pools(s),
           NEW u \in processHttpRequests(s, c)
    PROVE  Post(c, s, u)
<1> DEFINE k == s.conn[c]
           n == RequestLength(k.buffer)
           b == SubSeq(k.buffer, n + 1, Len(k.buffer))
           t == SetBuffer(s, c, b)
<1>1. k.buffer \in Seq(Symbol)
  BY DEF Good, StateType, ConnType
<1>2. n \in 0 .. Len(k.buffer)
  BY <1>1, RequestLengthInBuffer
<1>3. \/ u = s
      \/ u \in sendErrorAndClose(s, c)
      \/ ~(k.in_flight \/ k.client_fd = None) /\ u \in sendResponse(t, c, k.buffer[n] = "k")
  BY DEF processHttpRequests, SetBuffer
<1> HIDE DEF n
<1>4. b \in Seq(Symbol)
  BY <1>1, <1>2
<1> HIDE DEF b
<1>5. CASE u = s
  BY <1>5, PostSelf
<1>6. CASE u \in sendErrorAndClose(s, c)
  BY <1>6, sendErrorAndCloseGood
<1>7. CASE ~(k.in_flight \/ k.client_fd = None) /\ u \in sendResponse(t, c, k.buffer[n] = "k")
  <2>1. Post(c, s, t) /\ Pools(t) /\ Ready(t, c)
    <3>1. /\ Post(c, s, t)
          /\ t.conn[c].live
          /\ t.conn[c].client_fd = k.client_fd
          /\ t.conn[c].in_flight = k.in_flight
          /\ t.timer = s.timer
          /\ t.write = s.write
      BY <1>4, SetBufferGood
    <3> HIDE DEF t
    <3>2. Pools(t)
      BY <3>1 DEF Pools
    <3> QED
      BY <3>1, <3>2, <1>7 DEF Ready
  <2>2. (k.buffer[n] = "k") \in BOOLEAN
    OBVIOUS
  <2> HIDE DEF t
  <2>3. Post(c, t, u)
    BY <1>7, <2>1, <2>2, sendResponseGood DEF Post
  <2> QED
    BY <2>1, <2>3, PostTrans
<1> QED
  BY <1>3, <1>5, <1>6, <1>7

-----------------------------------------------------------------------------
(* The handlers *)

\* submitIdleTimeoutCancel keeps the connection and the timer it tracks.
LEMMA submitIdleTimeoutCancelGood ==
    ASSUME NEW s, Good(s), NEW c \in Conns, s.conn[c].live, s.conn[c].active_idle # None,
           Pools(s)
    PROVE  LET u == submitIdleTimeoutCancel(s, c)
           IN  Post(c, s, u) /\ u.conn[c].live /\ Pools(u)
<1> DEFINE h == s.conn[c]
           a == h.active_idle
           k == [h EXCEPT !.idle_cancel_pending = TRUE]
           u == submitIdleTimeoutCancel(s, c)
<1>t. /\ s \in StateType
      /\ s.conn \in [Conns -> ConnType]
      /\ s.recv \in [Recvs -> RecvType]
      /\ s.timer \in [Timers -> TimerType]
      /\ s.write \in [Writes -> WriteType]
      /\ s.fdOwner \in [Fds -> Conns \cup {None}]
      /\ h \in ConnType
  BY DEF Good, StateType
<1>a. a \in Timers
  BY <1>t DEF ConnType
<1>1. k \in ConnType
  BY <1>t DEF ConnType
<1>2. /\ k.live = h.live /\ k.gen = h.gen /\ k.client_fd = h.client_fd
      /\ k.deferred_close_fd = h.deferred_close_fd /\ k.in_flight = h.in_flight
      /\ k.close_pending = h.close_pending /\ k.active_read = h.active_read
      /\ k.read_cancel_pending = h.read_cancel_pending
      /\ k.active_idle = h.active_idle
  BY <1>t DEF ConnType
<1>3. /\ u.conn = [s.conn EXCEPT ![c] = k]
      /\ u.timer = Cancel(s.timer, a)
      /\ u.recv = s.recv
      /\ u.write = s.write
      /\ u.fdOwner = s.fdOwner
  BY <1>t DEF submitIdleTimeoutCancel, StateType
<1> DEFINE ts == Cancel(s.timer, a)
<1>4. u = [conn |-> u.conn, recv |-> u.recv, timer |-> u.timer, write |-> u.write,
           fdOwner |-> u.fdOwner]
  <2>1. u = [s EXCEPT !.timer = ts, !.conn[c] = k]
    BY DEF submitIdleTimeoutCancel
  <2> HIDE DEF u, k, ts
  <2> QED
    BY <2>1, <1>t DEF StateType
<1> HIDE DEF u, k, a
<1>5. /\ u.timer \in [Timers -> TimerType]
      /\ \A t \in Timers : SameJob(s.timer[t], u.timer[t])
      /\ u.timer[a].op = "cancelled"
  BY <1>3, <1>a, <1>t, CancelTimer
<1>6. u.conn[c] = k /\ \A d \in Conns \ {c} : u.conn[d] = s.conn[d]
  BY <1>3, <1>t
<1>7. u.conn \in [Conns -> ConnType]
  BY <1>1, <1>3, <1>t
<1>8. u \in StateType
  BY <1>3, <1>4, <1>5, <1>7, <1>t DEF StateType
<1>9. Frame(c, s, u)
  BY <1>3, <1>5, <1>6 DEF Frame, RecvFrame, TimerFrame, WriteFrame, FdFrame, SameJob
<1>10. OwnersInv(u)
  BY <1>3, <1>5 DEF Good, OwnersInv, SameJob
<1>i. /\ ConnInv(h)
      /\ FdInv(c, h, s.fdOwner)
      /\ ResponseInv(c, h, s.write)
      /\ ReadInv(c, h, s.recv)
      /\ IdleInv(c, h, s.timer)
  BY DEF Good, SlotInv
<1>11. Fd(k) = Fd(h)
  BY <1>2 DEF Fd
<1>12. ConnInv(k)
  BY <1>i, <1>2 DEF ConnInv
<1>13. FdInv(c, k, s.fdOwner)
  BY <1>i, <1>2, <1>11 DEF FdInv
<1>14. ResponseInv(c, k, s.write)
  BY <1>i, <1>2 DEF ResponseInv
<1>15. ReadInv(c, k, s.recv)
  BY <1>i, <1>2, <1>11 DEF ReadInv
<1>16. IdleInv(c, k, u.timer)
  BY <1>i, <1>2, <1>5, <1>a DEF IdleInv, SameJob, a
<1>17. Good(u)
  BY <1>3, <1>6, <1>8, <1>9, <1>10, <1>12, <1>13, <1>14, <1>15, <1>16, FrameGood DEF SlotInv
<1>18. Post(c, s, u)
  BY <1>2, <1>3, <1>5, <1>6, <1>17 DEF Post, SameJobs, SameJob
<1>19. Pools(u)
  BY <1>3, <1>5 DEF Pools, SameJob, FreeTimers
<1> QED
  BY <1>2, <1>6, <1>18, <1>19 DEF u

=============================================================================
