------------------------ MODULE HttpConnectionClose -------------------------
(***************************************************************************)
(* The inductive invariant of HttpConnection, and the lemmas on closing a   *)
(* connection.  HttpConnectionRespond and HttpConnectionRead have those on the*)
(* other operations, HttpConnectionProofs the theorems.  The operations of a*)
(* connection work on a state record, so the invariant is stated of a record*)
(* as well, as one group of conditions per connection: an operation on one  *)
(* connection has to restore the group of that connection only, and the frame*)
(* lemmas carry those of all others over.                                   *)
(***************************************************************************)
EXTENDS HttpConnection, TLAPS, WellFoundedInduction

StateType ==
    [conn : [Conns -> ConnType], recv : [Recvs -> RecvType],
     timer : [Timers -> TimerType], write : [Writes -> WriteType],
     fdOwner : [Fds -> Conns \cup {None}]]

\* A connection is dead, or holds its descriptor in exactly one of two places:
\* in client_fd_, or in deferred_close_fd_ once a recv cancel was tried.
ConnInv(k) ==
    /\ ~k.live => k = FreeConn(k.gen)
    /\ k.live => k.client_fd # None \/ k.deferred_close_fd # None
    /\ k.deferred_close_fd # None => k.client_fd = None /\ k.close_pending
    /\ k.read_cancel_pending => k.deferred_close_fd # None
    /\ k.deferred_close_fd # None /\ k.active_read # None => k.read_cancel_pending
    /\ k.in_flight => k.client_fd # None

\* What holds between connection k in slot c and the open descriptors fs.
FdInv(c, k, fs) == \A f \in Fds : fs[f] = c <=> k.live /\ Fd(k) = f

\* ... the response jobs ws: the one that has its response slot, and no other.
ResponseInv(c, k, ws) ==
    /\ \A w \in Writes : ws[w].live /\ ws[w].owner = c =>
         /\ k.live
         /\ k.gen = ws[w].gen
         /\ k.in_flight
         /\ k.client_fd = ws[w].fd
    /\ \A v, w \in Writes :
         ws[v].live /\ ws[v].owner = c /\ ws[w].live /\ ws[w].owner = c => v = w
    /\ k.in_flight => \E w \in Writes : ws[w].live /\ ws[w].owner = c

\* ... the recv jobs rs: the one it tracks, and those of its dead incarnations.
ReadInv(c, k, rs) ==
    /\ k.active_read # None =>
         /\ rs[k.active_read].live
         /\ rs[k.active_read].owner = c
         /\ rs[k.active_read].gen = k.gen
         /\ rs[k.active_read].fd = Fd(k)
         /\ k.read_cancel_pending => rs[k.active_read].op = "cancelled"
    /\ \A r \in Recvs : rs[r].live /\ rs[r].owner = c =>
         \/ rs[r].gen < k.gen
         \/ k.live /\ rs[r].gen = k.gen /\ k.active_read \in {r, None}

\* ... the timers ts.
IdleInv(c, k, ts) ==
    k.active_idle # None =>
        /\ ts[k.active_idle].live
        /\ ts[k.active_idle].owner = c
        /\ ts[k.active_idle].gen = k.gen
        /\ k.idle_cancel_pending => ts[k.active_idle].op = "cancelled"

OwnersInv(s) ==
    /\ \A r \in Recvs : s.recv[r].live => s.recv[r].owner \in Conns
    /\ \A t \in Timers : s.timer[t].live => s.timer[t].owner \in Conns
    /\ \A w \in Writes : s.write[w].live => s.write[w].owner \in Conns

SlotInv(s, c) ==
    /\ ConnInv(s.conn[c])
    /\ FdInv(c, s.conn[c], s.fdOwner)
    /\ ResponseInv(c, s.conn[c], s.write)
    /\ ReadInv(c, s.conn[c], s.recv)
    /\ IdleInv(c, s.conn[c], s.timer)

Good(s) == s \in StateType /\ OwnersInv(s) /\ \A c \in Conns : SlotInv(s, c)

IndInv == TypeOK /\ Good(St)

-----------------------------------------------------------------------------
(* Frames: what a step may do to the jobs without disturbing connection d *)

SameJob(p, q) ==
    /\ q.live = p.live
    /\ q.owner = p.owner
    /\ q.gen = p.gen
    /\ p.op = "cancelled" => q.op = "cancelled"

RecvFrame(d, rs, us) ==
    \A r \in Recvs : \/ rs[r].live /\ rs[r].owner = d
                     \/ us[r].live /\ us[r].owner = d
                     => SameJob(rs[r], us[r]) /\ us[r].fd = rs[r].fd

TimerFrame(d, ts, us) ==
    \A t \in Timers : ts[t].live /\ ts[t].owner = d => SameJob(ts[t], us[t])

WriteFrame(d, ws, us) ==
    \A w \in Writes : \/ ws[w].live /\ ws[w].owner = d
                      \/ us[w].live /\ us[w].owner = d
                      => us[w] = ws[w]

FdFrame(d, fs, us) == \A f \in Fds : us[f] = d <=> fs[f] = d

\* A step on behalf of connection c leaves the other connections alone.
Frame(c, s, u) ==
    \A d \in Conns \ {c} :
        /\ u.conn[d] = s.conn[d]
        /\ RecvFrame(d, s.recv, u.recv)
        /\ TimerFrame(d, s.timer, u.timer)
        /\ WriteFrame(d, s.write, u.write)
        /\ FdFrame(d, s.fdOwner, u.fdOwner)

\* A step that leaves the recvs of d alone keeps what d says about its recv.
LEMMA ReadFrame ==
    ASSUME NEW d \in Conns, NEW k \in ConnType, NEW rs, NEW us,
           ReadInv(d, k, rs), RecvFrame(d, rs, us)
    PROVE  ReadInv(d, k, us)
<1>1. k.active_read \in Recvs \cup {None}
  BY DEF ConnType
<1>2. k.active_read # None =>
         /\ us[k.active_read].live
         /\ us[k.active_read].owner = d
         /\ us[k.active_read].gen = k.gen
         /\ us[k.active_read].fd = Fd(k)
         /\ k.read_cancel_pending => us[k.active_read].op = "cancelled"
  BY <1>1 DEF ReadInv, RecvFrame, SameJob
<1>3. ASSUME NEW r \in Recvs, us[r].live, us[r].owner = d
      PROVE  \/ us[r].gen < k.gen
             \/ k.live /\ us[r].gen = k.gen /\ k.active_read \in {r, None}
  <2>1. rs[r].live /\ rs[r].owner = d /\ rs[r].gen = us[r].gen
    BY <1>3 DEF RecvFrame, SameJob
  <2> QED
    BY <2>1 DEF ReadInv
<1> QED
  BY <1>2, <1>3 DEF ReadInv

\* A step that leaves the timers of d alone keeps what d says about its timer.
LEMMA IdleFrame ==
    ASSUME NEW d \in Conns, NEW k \in ConnType, NEW ts, NEW us,
           IdleInv(d, k, ts), TimerFrame(d, ts, us)
    PROVE  IdleInv(d, k, us)
<1>1. k.active_idle \in Timers \cup {None}
  BY DEF ConnType
<1> QED
  BY <1>1 DEF IdleInv, TimerFrame, SameJob

\* A step that leaves the writes of d alone keeps what d says about its response.
LEMMA ResponseFrame ==
    ASSUME NEW d \in Conns, NEW k \in ConnType, NEW ws, NEW us,
           ResponseInv(d, k, ws), WriteFrame(d, ws, us)
    PROVE  ResponseInv(d, k, us)
<1>1. \A w \in Writes : us[w].live /\ us[w].owner = d <=> ws[w].live /\ ws[w].owner = d
  BY DEF WriteFrame
<1>2. \A w \in Writes : us[w].live /\ us[w].owner = d => us[w] = ws[w]
  BY DEF WriteFrame
<1> QED
  BY <1>1, <1>2 DEF ResponseInv

\* A step that leaves the descriptor of d alone keeps what d says about it.
LEMMA FdFrameInv ==
    ASSUME NEW d \in Conns, NEW k, NEW fs, NEW us, FdInv(d, k, fs), FdFrame(d, fs, us)
    PROVE  FdInv(d, k, us)
BY DEF FdInv, FdFrame

\* What a connection says of its response depends on four fields of its own and on
\* four of each response job.
LEMMA ResponseFields ==
    ASSUME NEW c, NEW h, NEW k, NEW ws, NEW us, ResponseInv(c, h, ws),
           k.live = h.live, k.gen = h.gen, k.in_flight = h.in_flight,
           k.client_fd = h.client_fd,
           \A w \in Writes : /\ us[w].live = ws[w].live
                             /\ us[w].owner = ws[w].owner
                             /\ us[w].gen = ws[w].gen
                             /\ us[w].fd = ws[w].fd
    PROVE  ResponseInv(c, k, us)
<1>1. \A w \in Writes : us[w].live /\ us[w].owner = c <=> ws[w].live /\ ws[w].owner = c
  OBVIOUS
<1>2. ASSUME NEW w \in Writes, us[w].live, us[w].owner = c
      PROVE  k.live /\ k.gen = us[w].gen /\ k.in_flight /\ k.client_fd = us[w].fd
  BY <1>1, <1>2 DEF ResponseInv
<1>3. ASSUME NEW v \in Writes, NEW w \in Writes, us[v].live, us[v].owner = c,
             us[w].live, us[w].owner = c
      PROVE  v = w
  BY <1>1, <1>3 DEF ResponseInv
<1>4. k.in_flight => \E w \in Writes : us[w].live /\ us[w].owner = c
  BY <1>1 DEF ResponseInv
<1> QED
  BY <1>2, <1>3, <1>4 DEF ResponseInv

\* What a connection says of its descriptor depends on whether it is live and on Fd.
LEMMA FdFields ==
    ASSUME NEW c, NEW h, NEW k, NEW fs, FdInv(c, h, fs), k.live = h.live, Fd(k) = Fd(h)
    PROVE  FdInv(c, k, fs)
BY DEF FdInv

\* A step of connection c that changes, of all jobs, one recv of its own, or one that
\* was free.
OnlyRecv(c, s, u, r) ==
    /\ \A d \in Conns \ {c} : u.conn[d] = s.conn[d]
    /\ u.timer = s.timer /\ u.write = s.write /\ u.fdOwner = s.fdOwner
    /\ \A q \in Recvs \ {r} : u.recv[q] = s.recv[q]
    /\ s.recv[r].live => s.recv[r].owner = c
    /\ u.recv[r].live => u.recv[r].owner = c

\* Such a step leaves the other connections alone.
LEMMA RecvStep ==
    ASSUME NEW s, NEW u, NEW c \in Conns, NEW r \in Recvs, OwnersInv(s), OnlyRecv(c, s, u, r)
    PROVE  Frame(c, s, u) /\ OwnersInv(u)
<1> USE DEF OnlyRecv
<1>1. ASSUME NEW d \in Conns \ {c} PROVE RecvFrame(d, s.recv, u.recv)
  BY DEF RecvFrame, SameJob
<1>2. ASSUME NEW d \in Conns \ {c} PROVE TimerFrame(d, s.timer, u.timer)
  BY DEF TimerFrame, SameJob
<1>3. ASSUME NEW d \in Conns \ {c} PROVE WriteFrame(d, s.write, u.write)
  BY DEF WriteFrame
<1>4. ASSUME NEW d \in Conns \ {c} PROVE FdFrame(d, s.fdOwner, u.fdOwner)
  BY DEF FdFrame
<1>5. OwnersInv(u)
  BY DEF OwnersInv
<1> QED
  BY <1>1, <1>2, <1>3, <1>4, <1>5 DEF Frame

\* A step of connection c that changes, of all jobs, one response of its own.
OnlyWrite(c, s, u, w) ==
    /\ \A d \in Conns \ {c} : u.conn[d] = s.conn[d]
    /\ u.recv = s.recv /\ u.timer = s.timer /\ u.fdOwner = s.fdOwner
    /\ \A v \in Writes \ {w} : u.write[v] = s.write[v]
    /\ s.write[w].live => s.write[w].owner = c
    /\ u.write[w].live => u.write[w].owner = c

\* Such a step leaves the other connections alone.
LEMMA WriteStep ==
    ASSUME NEW s, NEW u, NEW c \in Conns, NEW w \in Writes, OwnersInv(s), OnlyWrite(c, s, u, w)
    PROVE  Frame(c, s, u) /\ OwnersInv(u)
<1> USE DEF OnlyWrite
<1>1. ASSUME NEW d \in Conns \ {c} PROVE RecvFrame(d, s.recv, u.recv)
  BY DEF RecvFrame, SameJob
<1>2. ASSUME NEW d \in Conns \ {c} PROVE TimerFrame(d, s.timer, u.timer)
  BY DEF TimerFrame, SameJob
<1>3. ASSUME NEW d \in Conns \ {c} PROVE WriteFrame(d, s.write, u.write)
  BY DEF WriteFrame
<1>4. ASSUME NEW d \in Conns \ {c} PROVE FdFrame(d, s.fdOwner, u.fdOwner)
  BY DEF FdFrame
<1>5. OwnersInv(u)
  BY DEF OwnersInv
<1> QED
  BY <1>1, <1>2, <1>3, <1>4, <1>5 DEF Frame

\* A job that was left alone twice was left alone.
LEMMA SameJobTrans ==
    ASSUME NEW p, NEW q, NEW r, SameJob(p, q), SameJob(q, r)
    PROVE  SameJob(p, r)
BY DEF SameJob

\* To restore the invariant it is enough to restore it for connection c.
LEMMA FrameGood ==
    ASSUME NEW s, NEW u, NEW c, Good(s), u \in StateType, OwnersInv(u),
           Frame(c, s, u), c \in Conns => SlotInv(u, c)
    PROVE  Good(u)
<1> SUFFICES ASSUME NEW d \in Conns, d # c PROVE SlotInv(u, d)
  BY DEF Good
<1>1. s.conn[d] \in ConnType /\ SlotInv(s, d)
  BY DEF Good, StateType
<1>2. /\ u.conn[d] = s.conn[d]
      /\ RecvFrame(d, s.recv, u.recv)
      /\ TimerFrame(d, s.timer, u.timer)
      /\ WriteFrame(d, s.write, u.write)
      /\ FdFrame(d, s.fdOwner, u.fdOwner)
  BY DEF Frame
<1>3. ReadInv(d, s.conn[d], u.recv)
  BY <1>1, <1>2, ReadFrame DEF SlotInv
<1>4. IdleInv(d, s.conn[d], u.timer)
  BY <1>1, <1>2, IdleFrame DEF SlotInv
<1>5. ResponseInv(d, s.conn[d], u.write)
  BY <1>1, <1>2, ResponseFrame DEF SlotInv
<1>6. FdInv(d, s.conn[d], u.fdOwner)
  BY <1>1, <1>2, FdFrameInv DEF SlotInv
<1> QED
  BY <1>1, <1>2, <1>3, <1>4, <1>5, <1>6 DEF SlotInv

-----------------------------------------------------------------------------
(* closeConnection *)

\* closeConnection leaves a well-formed connection, whichever cancels were submitted.
LEMMA LegsType ==
    ASSUME NEW k \in ConnType, NEW i \in BOOLEAN, NEW r \in BOOLEAN
    PROVE  Legs(k, i, r) \in ConnType
<1> DEFINE readSubmit == k.active_read # None /\ ~k.read_cancel_pending
           idleWait == k.active_idle # None /\ (k.idle_cancel_pending \/ i)
           readWait == k.active_read # None /\ (k.read_cancel_pending \/ r)
           a == k.idle_cancel_pending \/ idleWait
           b == k.read_cancel_pending \/ readWait
           t == IF idleWait THEN k.active_idle ELSE None
           d == IF readSubmit THEN k.client_fd ELSE k.deferred_close_fd
           f == IF readSubmit THEN None ELSE k.client_fd
           q == IF readWait THEN k.active_read ELSE None
<1>1. a \in BOOLEAN /\ b \in BOOLEAN
  OBVIOUS
<1>2. t \in Timers \cup {None} /\ q \in Recvs \cup {None}
  BY DEF ConnType
<1>3. d \in Fds \cup {None} /\ f \in Fds \cup {None}
  BY DEF ConnType
<1>4. Legs(k, i, r) = [k EXCEPT !.close_pending = TRUE, !.idle_cancel_pending = a,
                                !.active_idle = t, !.deferred_close_fd = d,
                                !.client_fd = f, !.read_cancel_pending = b,
                                !.active_read = q]
  BY DEF Legs
<1> HIDE DEF a, b, t, d, f, q
<1> QED
  BY <1>1, <1>2, <1>3, <1>4, ZenonT(60) DEF ConnType

\* What Legs changes, field by field.
LegsPost(k, l, i, r) ==
    /\ l.live = k.live
    /\ l.gen = k.gen
    /\ l.in_flight = k.in_flight
    /\ l.close_pending = TRUE
    /\ l.idle_cancel_pending <=> k.idle_cancel_pending \/ (k.active_idle # None /\ i)
    /\ l.active_idle = IF k.idle_cancel_pending \/ i THEN k.active_idle ELSE None
    /\ l.deferred_close_fd = IF k.active_read # None /\ ~k.read_cancel_pending
                             THEN k.client_fd ELSE k.deferred_close_fd
    /\ l.client_fd = IF k.active_read # None /\ ~k.read_cancel_pending
                     THEN None ELSE k.client_fd
    /\ l.read_cancel_pending <=> k.read_cancel_pending \/ (k.active_read # None /\ r)
    /\ l.active_read = IF k.read_cancel_pending \/ r THEN k.active_read ELSE None

\* The members of a connection after the two cancels of closeConnection.
LEMMA LegsFields ==
    ASSUME NEW k \in ConnType, NEW i \in BOOLEAN, NEW r \in BOOLEAN
    PROVE  LegsPost(k, Legs(k, i, r), i, r)
<1> DEFINE l == Legs(k, i, r)
<1>1. l.live = k.live /\ l.gen = k.gen /\ l.in_flight = k.in_flight /\ l.close_pending = TRUE
  BY DEF Legs, ConnType
<1>2. l.idle_cancel_pending <=> k.idle_cancel_pending \/ (k.active_idle # None /\ i)
  BY DEF Legs, ConnType
<1>3. l.active_idle = IF k.idle_cancel_pending \/ i THEN k.active_idle ELSE None
  BY DEF Legs, ConnType
<1>4. l.deferred_close_fd = IF k.active_read # None /\ ~k.read_cancel_pending
                            THEN k.client_fd ELSE k.deferred_close_fd
  BY DEF Legs, ConnType
<1>5. l.client_fd = IF k.active_read # None /\ ~k.read_cancel_pending
                    THEN None ELSE k.client_fd
  BY DEF Legs, ConnType
<1>6. l.read_cancel_pending <=> k.read_cancel_pending \/ (k.active_read # None /\ r)
  BY DEF Legs, ConnType
<1>7. l.active_read = IF k.read_cancel_pending \/ r THEN k.active_read ELSE None
  BY DEF Legs, ConnType
<1> QED
  BY <1>1, <1>2, <1>3, <1>4, <1>5, <1>6, <1>7 DEF LegsPost

\* Cancelling a recv changes nothing of any recv but that it is being cancelled.
LEMMA CancelRecv ==
    ASSUME NEW jobs \in [Recvs -> RecvType], NEW j \in Recvs
    PROVE  /\ Cancel(jobs, j) \in [Recvs -> RecvType]
           /\ \A r \in Recvs : /\ SameJob(jobs[r], Cancel(jobs, j)[r])
                               /\ Cancel(jobs, j)[r].fd = jobs[r].fd
           /\ Cancel(jobs, j)[j].op = "cancelled"
BY DEF Cancel, RecvType, Op, SameJob

\* Cancelling a timer changes nothing of any timer but that it is being cancelled.
LEMMA CancelTimer ==
    ASSUME NEW jobs \in [Timers -> TimerType], NEW j \in Timers
    PROVE  /\ Cancel(jobs, j) \in [Timers -> TimerType]
           /\ \A t \in Timers : SameJob(jobs[t], Cancel(jobs, j)[t])
           /\ Cancel(jobs, j)[j].op = "cancelled"
BY DEF Cancel, TimerType, Op, SameJob

\* A slot in the free list tracks no job, has no response and no descriptor.
LEMMA FreeConnFields ==
    ASSUME NEW g \in Nat
    PROVE  /\ FreeConn(g) \in ConnType
           /\ ConnInv(FreeConn(g))
           /\ FreeConn(g).live = FALSE
           /\ FreeConn(g).gen = g
           /\ FreeConn(g).in_flight = FALSE
           /\ FreeConn(g).active_read = None
           /\ FreeConn(g).active_idle = None
BY DEF FreeConn, ConnType, ConnInv

\* The recv jobs are those of s and the live timers are still there, some of them
\* cancelled; the tracked recv of c was not replaced.
SameJobs(c, s, u) ==
    /\ \A r \in Recvs : SameJob(s.recv[r], u.recv[r]) /\ u.recv[r].fd = s.recv[r].fd
    /\ \A t \in Timers : s.timer[t].live => SameJob(s.timer[t], u.timer[t])
    /\ u.conn[c].active_read \in {s.conn[c].active_read, None}

\* closeConnection with no response in flight: whichever of its cancels is refused,
\* the connection is freed, or waits for its recv with its descriptor deferred.
LEMMA CloseLegsGood ==
    ASSUME NEW s, Good(s), NEW c \in Conns, s.conn[c].live, ~s.conn[c].in_flight,
           NEW i \in BOOLEAN, NEW r \in BOOLEAN
    PROVE  LET u == CloseLegs(s, c, i, r)
           IN  /\ Good(u)
               /\ SameJobs(c, s, u)
               /\ u.conn[c].active_idle \in {s.conn[c].active_idle, None}
<1> DEFINE k == s.conn[c]
           l == Legs(k, i, r)
           waiting == l.active_idle # None \/ l.active_read # None
           idleSubmit == k.active_idle # None /\ ~k.idle_cancel_pending /\ i
           readSubmit == k.active_read # None /\ ~k.read_cancel_pending /\ r
           m == IF waiting THEN l ELSE FreeConn(k.gen + 1)
           u == CloseLegs(s, c, i, r)
<1>t. /\ s.conn \in [Conns -> ConnType]
      /\ s.recv \in [Recvs -> RecvType]
      /\ s.timer \in [Timers -> TimerType]
      /\ s.write \in [Writes -> WriteType]
      /\ s.fdOwner \in [Fds -> Conns \cup {None}]
  BY DEF Good, StateType
<1>k. /\ k \in ConnType
      /\ k.gen \in Nat
      /\ k.active_read \in Recvs \cup {None}
      /\ k.active_idle \in Timers \cup {None}
      /\ k.client_fd \in Fds \cup {None}
      /\ k.deferred_close_fd \in Fds \cup {None}
  BY <1>t DEF ConnType
<1>i. /\ ConnInv(k)
      /\ FdInv(c, k, s.fdOwner)
      /\ ResponseInv(c, k, s.write)
      /\ ReadInv(c, k, s.recv)
      /\ IdleInv(c, k, s.timer)
  BY DEF Good, SlotInv
<1>u. /\ u.conn = [s.conn EXCEPT ![c] = m]
      /\ u.recv = IF readSubmit THEN Cancel(s.recv, k.active_read) ELSE s.recv
      /\ u.timer = IF idleSubmit THEN Cancel(s.timer, k.active_idle) ELSE s.timer
      /\ u.write = s.write
      /\ u.fdOwner = IF waiting THEN s.fdOwner ELSE [s.fdOwner EXCEPT ![Fd(l)] = None]
  BY DEF CloseLegs
<1>u2. u = [conn |-> u.conn, recv |-> u.recv, timer |-> u.timer, write |-> u.write,
            fdOwner |-> u.fdOwner]
  BY DEF CloseLegs
<1> HIDE DEF u
<1>g. k.gen + 1 \in Nat
  BY <1>k
<1>fc. /\ FreeConn(k.gen + 1) \in ConnType
       /\ ConnInv(FreeConn(k.gen + 1))
       /\ FreeConn(k.gen + 1).live = FALSE
       /\ FreeConn(k.gen + 1).gen = k.gen + 1
       /\ FreeConn(k.gen + 1).in_flight = FALSE
       /\ FreeConn(k.gen + 1).active_read = None
       /\ FreeConn(k.gen + 1).active_idle = None
  BY <1>g, FreeConnFields
<1>l. l \in ConnType
  BY <1>k, LegsType
<1>m. m \in ConnType
  BY <1>l, <1>fc
<1>lf. LegsPost(k, l, i, r)
  BY <1>k, LegsFields
<1>w1. waiting => m = l
  OBVIOUS
<1>w2. ~waiting => m = FreeConn(k.gen + 1)
  OBVIOUS
<1> HIDE DEF l, m
<1>fd. Fd(l) = Fd(k) /\ Fd(k) \in Fds
  BY <1>k, <1>i, <1>lf DEF ConnInv, Fd, LegsPost
<1>c. /\ u.conn[c] = m
      /\ \A d \in Conns \ {c} : u.conn[d] = s.conn[d]
  BY <1>t, <1>u
<1>r. /\ u.recv \in [Recvs -> RecvType]
      /\ \A q \in Recvs : SameJob(s.recv[q], u.recv[q]) /\ u.recv[q].fd = s.recv[q].fd
      /\ readSubmit => u.recv[k.active_read].op = "cancelled"
  <2>1. CASE readSubmit
    <3>1. u.recv = Cancel(s.recv, k.active_read) /\ k.active_read \in Recvs
      BY <2>1, <1>u, <1>k
    <3> QED
      BY <3>1, <1>t, CancelRecv
  <2>2. CASE ~readSubmit
    <3>1. u.recv = s.recv
      BY <2>2, <1>u
    <3> QED
      BY <3>1, <2>2, <1>t DEF SameJob
  <2> QED
    BY <2>1, <2>2
<1>q. /\ u.timer \in [Timers -> TimerType]
      /\ \A t \in Timers : SameJob(s.timer[t], u.timer[t])
      /\ idleSubmit => u.timer[k.active_idle].op = "cancelled"
  <2>1. CASE idleSubmit
    <3>1. u.timer = Cancel(s.timer, k.active_idle) /\ k.active_idle \in Timers
      BY <2>1, <1>u, <1>k
    <3> QED
      BY <3>1, <1>t, CancelTimer
  <2>2. CASE ~idleSubmit
    <3>1. u.timer = s.timer
      BY <2>2, <1>u
    <3> QED
      BY <3>1, <2>2, <1>t DEF SameJob
  <2> QED
    BY <2>1, <2>2
<1>f. /\ u.fdOwner \in [Fds -> Conns \cup {None}]
      /\ \A f \in Fds : u.fdOwner[f] = IF ~waiting /\ f = Fd(k) THEN None ELSE s.fdOwner[f]
  BY <1>t, <1>u, <1>fd
<1> HIDE DEF k
<1>ms. /\ m.active_read \in {k.active_read, None}
       /\ m.active_idle \in {k.active_idle, None}
  BY <1>w1, <1>w2, <1>fc, <1>lf DEF LegsPost
<1>1. u \in StateType
  BY <1>t, <1>u, <1>u2, <1>r, <1>q, <1>f, <1>m DEF StateType
<1>2. OwnersInv(u)
  BY <1>u, <1>r, <1>q DEF Good, OwnersInv, SameJob
<1>3. Frame(c, s, u)
  <2> SUFFICES ASSUME NEW d \in Conns \ {c}
               PROVE  /\ RecvFrame(d, s.recv, u.recv)
                      /\ TimerFrame(d, s.timer, u.timer)
                      /\ WriteFrame(d, s.write, u.write)
                      /\ FdFrame(d, s.fdOwner, u.fdOwner)
    BY <1>c DEF Frame
  <2>1. \A f \in Fds : f = Fd(k) => s.fdOwner[f] = c
    BY <1>i DEF FdInv, k
  <2>2. FdFrame(d, s.fdOwner, u.fdOwner)
    BY <2>1, <1>f, JobsAssumption DEF FdFrame
  <2>3. RecvFrame(d, s.recv, u.recv)
    BY <1>r DEF RecvFrame
  <2>4. TimerFrame(d, s.timer, u.timer)
    BY <1>q DEF TimerFrame
  <2> QED
    BY <2>2, <2>3, <2>4, <1>u DEF WriteFrame
<1>4. SlotInv(u, c)
  <2>1. CASE waiting
    <3>1. m = l /\ l.live = k.live /\ l.gen = k.gen /\ Fd(l) = Fd(k)
      BY <2>1, <1>w1, <1>lf, <1>fd DEF LegsPost
    <3>2. ConnInv(m)
      BY <3>1, <1>i, <1>lf, <1>k DEF ConnInv, LegsPost, k
    <3>3. FdInv(c, m, u.fdOwner)
      BY <3>1, <2>1, <1>i, <1>f DEF FdInv
    <3>4. ResponseInv(c, m, u.write)
      BY <3>1, <1>i, <1>u, <1>lf DEF ResponseInv, LegsPost, k
    <3>5. ReadInv(c, m, u.recv)
      <4>1. l.active_read # None =>
              /\ l.active_read = k.active_read
              /\ l.read_cancel_pending => k.read_cancel_pending \/ r
        BY <1>lf DEF LegsPost
      <4>2. k.active_read # None =>
              /\ u.recv[k.active_read].live
              /\ u.recv[k.active_read].owner = c
              /\ u.recv[k.active_read].gen = k.gen
              /\ u.recv[k.active_read].fd = Fd(k)
              /\ k.read_cancel_pending \/ r => u.recv[k.active_read].op = "cancelled"
        BY <1>i, <1>k, <1>r DEF ReadInv, SameJob
      <4>3. ASSUME NEW q \in Recvs, u.recv[q].live, u.recv[q].owner = c
            PROVE  \/ u.recv[q].gen < k.gen
                   \/ k.live /\ u.recv[q].gen = k.gen /\ k.active_read \in {q, None}
        BY <4>3, <1>i, <1>r DEF ReadInv, SameJob
      <4> QED
        BY <4>1, <4>2, <4>3, <3>1, <1>ms DEF ReadInv
    <3>6. IdleInv(c, m, u.timer)
      <4>1. l.active_idle # None =>
              /\ l.active_idle = k.active_idle
              /\ l.idle_cancel_pending => k.idle_cancel_pending \/ i
        BY <1>lf DEF LegsPost
      <4>2. k.active_idle # None =>
              /\ u.timer[k.active_idle].live
              /\ u.timer[k.active_idle].owner = c
              /\ u.timer[k.active_idle].gen = k.gen
              /\ k.idle_cancel_pending \/ i => u.timer[k.active_idle].op = "cancelled"
        BY <1>i, <1>k, <1>q DEF IdleInv, SameJob
      <4> QED
        BY <4>1, <4>2, <3>1 DEF IdleInv
    <3> QED
      BY <3>2, <3>3, <3>4, <3>5, <3>6, <1>c DEF SlotInv
  <2>2. CASE ~waiting
    <3>1. /\ ~m.live
          /\ m.gen = k.gen + 1
          /\ ~m.in_flight
          /\ m.active_read = None
          /\ m.active_idle = None
          /\ ConnInv(m)
      BY <2>2, <1>w2, <1>fc
    <3>2. FdInv(c, m, u.fdOwner)
      BY <3>1, <2>2, <1>i, <1>f, JobsAssumption DEF FdInv
    <3>3. \A w \in Writes : ~(u.write[w].live /\ u.write[w].owner = c)
      BY <1>i, <1>u DEF ResponseInv, k
    <3>4. ResponseInv(c, m, u.write)
      BY <3>1, <3>3 DEF ResponseInv
    <3>5. ASSUME NEW q \in Recvs, u.recv[q].live, u.recv[q].owner = c
          PROVE  u.recv[q].gen < m.gen
      <4>1. u.recv[q].gen \in Nat
        BY <1>r DEF RecvType
      <4>2. u.recv[q].gen <= k.gen
        <5>1. s.recv[q].live /\ s.recv[q].owner = c /\ s.recv[q].gen = u.recv[q].gen
          BY <3>5, <1>r DEF SameJob
        <5>2. s.recv[q].gen < k.gen \/ s.recv[q].gen = k.gen
          BY <5>1, <1>i DEF ReadInv
        <5> QED
          BY <5>1, <5>2, <4>1, <1>k
      <4> QED
        BY <4>1, <4>2, <3>1, <1>k
    <3>6. ReadInv(c, m, u.recv)
      BY <3>1, <3>5 DEF ReadInv
    <3>7. IdleInv(c, m, u.timer)
      BY <3>1 DEF IdleInv
    <3> QED
      BY <3>1, <3>2, <3>4, <3>6, <3>7, <1>c DEF SlotInv
  <2> QED
    BY <2>1, <2>2
<1>5. Good(u)
  BY <1>1, <1>2, <1>3, <1>4, FrameGood
<1>6. SameJobs(c, s, u)
  BY <1>c, <1>r, <1>q, <1>ms DEF SameJobs, k
<1> QED
  BY <1>5, <1>6, <1>c, <1>ms DEF u, k

-----------------------------------------------------------------------------
(* Changes of one connection's own fields *)

Put(s, c, k) == [s EXCEPT !.conn[c] = k]

\* What an assignment to members of one connection changes.
LEMMA PutFields ==
    ASSUME NEW s \in StateType, NEW c \in Conns, NEW k \in ConnType
    PROVE  /\ Put(s, c, k) \in StateType
           /\ Put(s, c, k).conn \in [Conns -> ConnType]
           /\ Put(s, c, k).conn[c] = k
           /\ \A d \in Conns \ {c} : Put(s, c, k).conn[d] = s.conn[d]
           /\ Put(s, c, k).recv = s.recv
           /\ Put(s, c, k).timer = s.timer
           /\ Put(s, c, k).write = s.write
           /\ Put(s, c, k).fdOwner = s.fdOwner
BY DEF Put, StateType

\* k differs from h in fields the invariant does not speak of, or no longer
\* tracks a job.
Similar(h, k) ==
    /\ k.live = h.live
    /\ k.gen = h.gen
    /\ k.client_fd = h.client_fd
    /\ k.deferred_close_fd = h.deferred_close_fd
    /\ k.in_flight = h.in_flight
    /\ h.close_pending => k.close_pending
    /\ k.active_read \in {h.active_read, None}
    /\ k.read_cancel_pending = h.read_cancel_pending
    /\ k.active_idle \in {h.active_idle, None}
    /\ k.idle_cancel_pending = h.idle_cancel_pending

\* Assignments to members that no invariant mentions, or that end the tracking of a
\* job, keep the invariant.
LEMMA PutGood ==
    ASSUME NEW s, Good(s), NEW c \in Conns, s.conn[c].live,
           NEW k \in ConnType, Similar(s.conn[c], k)
    PROVE  Good(Put(s, c, k)) /\ SameJobs(c, s, Put(s, c, k))
<1> DEFINE u == Put(s, c, k)
           h == s.conn[c]
<1>1. s \in StateType
  BY DEF Good
<1>2. /\ u \in StateType
      /\ u.conn[c] = k
      /\ \A d \in Conns \ {c} : u.conn[d] = s.conn[d]
      /\ u.recv = s.recv
      /\ u.timer = s.timer
      /\ u.write = s.write
      /\ u.fdOwner = s.fdOwner
  BY <1>1, PutFields
<1> HIDE DEF u
<1>3. Frame(c, s, u)
  BY <1>2 DEF Frame, RecvFrame, TimerFrame, WriteFrame, FdFrame, SameJob
<1>4. OwnersInv(u)
  BY <1>2 DEF Good, OwnersInv
<1>5. Fd(k) = Fd(h)
  BY DEF Fd, Similar
<1>i. /\ ConnInv(h)
      /\ FdInv(c, h, s.fdOwner)
      /\ ResponseInv(c, h, s.write)
      /\ ReadInv(c, h, s.recv)
      /\ IdleInv(c, h, s.timer)
  BY DEF Good, SlotInv
<1>6. ConnInv(k)
  BY <1>i DEF ConnInv, Similar
<1>7. FdInv(c, k, s.fdOwner)
  BY <1>i, <1>5 DEF FdInv, Similar
<1>8. ResponseInv(c, k, s.write)
  BY <1>i DEF ResponseInv, Similar
<1>9. ReadInv(c, k, s.recv)
  BY <1>i, <1>5 DEF ReadInv, Similar
<1>10. IdleInv(c, k, s.timer)
  BY <1>i DEF IdleInv, Similar
<1>11. SlotInv(u, c)
  BY <1>2, <1>6, <1>7, <1>8, <1>9, <1>10 DEF SlotInv
<1>12. Good(u)
  BY <1>2, <1>3, <1>4, <1>11, FrameGood
<1>13. SameJobs(c, s, u)
  BY <1>2 DEF SameJobs, SameJob, Similar
<1> QED
  BY <1>12, <1>13 DEF u

\* What every operation on connection c guarantees.
Post(c, s, u) == Good(u) /\ SameJobs(c, s, u)

\* The slots the handler may allocate are free in s.
Pools(s) ==
    /\ \A t \in FreeTimers : ~s.timer[t].live
    /\ \A w \in FreeWrites : ~s.write[w].live

\* What two calls leave in turn is what one call may leave.
LEMMA PostTrans ==
    ASSUME NEW c \in Conns, NEW s, NEW t, NEW u, Post(c, s, t), Post(c, t, u)
    PROVE  Post(c, s, u)
<1>1. ASSUME NEW r \in Recvs
      PROVE  SameJob(s.recv[r], u.recv[r]) /\ u.recv[r].fd = s.recv[r].fd
  <2>1. /\ SameJob(s.recv[r], t.recv[r]) /\ t.recv[r].fd = s.recv[r].fd
        /\ SameJob(t.recv[r], u.recv[r]) /\ u.recv[r].fd = t.recv[r].fd
    BY DEF Post, SameJobs
  <2> QED
    BY <2>1, SameJobTrans
<1>2. ASSUME NEW q \in Timers, s.timer[q].live
      PROVE  SameJob(s.timer[q], u.timer[q])
  <2>1. SameJob(s.timer[q], t.timer[q])
    BY <1>2 DEF Post, SameJobs
  <2>2. t.timer[q].live
    BY <1>2, <2>1 DEF SameJob
  <2>3. SameJob(t.timer[q], u.timer[q])
    BY <2>2 DEF Post, SameJobs
  <2> QED
    BY <2>1, <2>3, SameJobTrans
<1>3. u.conn[c].active_read \in {s.conn[c].active_read, None}
  BY DEF Post, SameJobs
<1>4. Good(u)
  BY DEF Post
<1> QED
  BY <1>1, <1>2, <1>3, <1>4 DEF Post, SameJobs

\* A handler that returns early leaves a good state.
LEMMA PostSelf ==
    ASSUME NEW c \in Conns, NEW s, Good(s)
    PROVE  Post(c, s, s)
BY DEF Post, SameJobs, SameJob

\* closeConnection, with or without a response in flight.
LEMMA closeConnectionGood ==
    ASSUME NEW s, Good(s), NEW c \in Conns, s.conn[c].live, NEW u \in closeConnection(s, c)
    PROVE  Post(c, s, u) /\ u.conn[c].active_idle \in {s.conn[c].active_idle, None}
<1>t. s \in StateType /\ s.conn[c] \in ConnType
  BY DEF Good, StateType
<1>1. CASE s.conn[c].in_flight
  <2> DEFINE k == [s.conn[c] EXCEPT !.close_pending = TRUE]
  <2>1. k \in ConnType /\ Similar(s.conn[c], k) /\ k.active_idle = s.conn[c].active_idle
    BY <1>t DEF ConnType, Similar
  <2>2. u = Put(s, c, k)
    BY <1>1 DEF closeConnection, Put
  <2> HIDE DEF k
  <2>3. u.conn[c].active_idle = s.conn[c].active_idle
    BY <2>1, <2>2, <1>t, PutFields
  <2> QED
    BY <2>1, <2>2, <2>3, PutGood DEF Post
<1>2. CASE ~s.conn[c].in_flight
  <2>1. u \in {CloseLegs(s, c, i, r) : i \in Granted, r \in Granted}
    BY <1>2 DEF closeConnection
  <2>2. PICK i \in Granted, r \in Granted : u = CloseLegs(s, c, i, r)
    BY <2>1
  <2>3. i \in BOOLEAN /\ r \in BOOLEAN
    BY DEF Granted
  <2> QED
    BY <2>2, <2>3, <1>2, CloseLegsGood DEF Post
<1> QED
  BY <1>1, <1>2

=============================================================================
