--------------------------- MODULE HttpConnection ---------------------------
(***************************************************************************)
(* The life of the HttpConnectionJobs of one ring: the multishot recv, the *)
(* idle timer and the single response write of every connection, their     *)
(* cancellation, the deferred close and the return of every job to its     *)
(* pool (SingleRingHttpServer.cpp, MultishotRecvJob.hpp,                   *)
(* IdleTimeoutJob.cpp, WriteJob.cpp).                                      *)
(*                                                                         *)
(* A step is one completion (CQE) handled by the ring thread, with         *)
(* everything the handler calls.  A kernel operation that was posted but   *)
(* not yet reaped needs no state of its own: an armed operation may        *)
(* deliver any result it can have, and one whose cancel was submitted may  *)
(* still deliver a result that raced the cancel, but has to deliver a      *)
(* last one.  An allocation or an SQE request may fail whenever it is      *)
(* made, so an operation maps a state to the set of states it may leave.   *)
(***************************************************************************)
EXTENDS Naturals, Sequences, FiniteSets

CONSTANTS
    Conns,            \* slots of the HttpConnectionJob pool
    Recvs,            \* slots of the MultishotRecvJob pool
    Timers,           \* slots of the IdleTimeoutJob pool
    Writes,           \* slots of the response jobs (WriteJob, HTTPFileJob)
    Fds,              \* client descriptors
    None,             \* nullptr, and descriptor -1
    Chunks,           \* what one recv completion may carry, see Symbol
    Pieces,           \* completions it takes to write a whole response
    MaxRequestSize,   \* max_request_size_, in symbols
    IdleTimeout,      \* idle_timeout_ms_ # 0
    Exhaustion,       \* SQEs and CancelJobs may run out, and pools early
    ErrorMore,        \* a failed recv completion may carry IORING_CQE_F_MORE
    MaxGen,           \* bound: incarnations of a connection slot
    MaxInput          \* bound: symbols received by one incarnation

\* The request stream, cut to what the parser tells apart: "h" is a part of a
\* request that does not end it, "k" and "c" end a request that keeps or closes
\* the connection, "b" makes the request it is in malformed.
Symbol == {"h", "k", "c", "b"}

ASSUME JobsAssumption == None \notin Conns \cup Recvs \cup Timers \cup Writes \cup Fds
ASSUME ChunksAssumption == Chunks \subseteq Seq(Symbol) \ {<<>>}
ASSUME BoundsAssumption ==
    /\ Pieces \in Nat \ {0}
    /\ MaxRequestSize \in Nat \ {0}
    /\ MaxGen \in Nat
    /\ MaxInput \in Nat
    /\ IdleTimeout \in BOOLEAN
    /\ Exhaustion \in BOOLEAN
    /\ ErrorMore \in BOOLEAN

VARIABLES
    conn,      \* the HttpConnectionJob in each slot
    recv,      \* the MultishotRecvJob in each slot
    timer,     \* the IdleTimeoutJob in each slot
    write,     \* the response job in each slot
    fdOwner,   \* the connection each open descriptor was accepted for, or None
    wire,      \* the last piece of a response written to each open descriptor
    server,    \* the shared ServerState
    swept      \* the shutdown sweep of this ring has run

vars == <<conn, recv, timer, write, fdOwner, wire, server, swept>>

-----------------------------------------------------------------------------
(* State *)

Op == {"armed", "cancelled"}

FreeConn(g) ==
    [live |-> FALSE, gen |-> g, client_fd |-> None, deferred_close_fd |-> None,
     buffer |-> <<>>, reading_active |-> FALSE, in_flight |-> FALSE,
     close_pending |-> FALSE, active_read |-> None, read_cancel_pending |-> FALSE,
     active_idle |-> None, idle_cancel_pending |-> FALSE,
     responses |-> 0, input |-> 0]

ConnType ==
    [live : BOOLEAN, gen : Nat, client_fd : Fds \cup {None},
     deferred_close_fd : Fds \cup {None}, buffer : Seq(Symbol),
     reading_active : BOOLEAN, in_flight : BOOLEAN, close_pending : BOOLEAN,
     active_read : Recvs \cup {None}, read_cancel_pending : BOOLEAN,
     active_idle : Timers \cup {None}, idle_cancel_pending : BOOLEAN,
     responses : Nat, input : Nat]

NoRecv == [live |-> FALSE, op |-> "armed", owner |-> None, gen |-> 0, fd |-> None]
RecvType == [live : BOOLEAN, op : Op, owner : Conns \cup {None}, gen : Nat,
             fd : Fds \cup {None}]

NoTimer == [live |-> FALSE, op |-> "armed", owner |-> None, gen |-> 0]
TimerType == [live : BOOLEAN, op : Op, owner : Conns \cup {None}, gen : Nat]

\* owner is the `this` captured by the callbacks; gen is not stored by the code.
NoWrite == [live |-> FALSE, owner |-> None, gen |-> 0, fd |-> None,
            request |-> 0, done |-> 0, keep_alive |-> FALSE]
WriteType == [live : BOOLEAN, owner : Conns \cup {None}, gen : Nat,
              fd : Fds \cup {None}, request : Nat, done : Nat,
              keep_alive : BOOLEAN]

\* Where a response stream stands before the first response.
NoPiece == [request |-> 0, piece |-> Pieces, last |-> FALSE]
PieceType == [request : Nat, piece : Nat, last : BOOLEAN]

\* The part of the state the handlers work on, passed from call to call.
St == [conn |-> conn, recv |-> recv, timer |-> timer, write |-> write,
       fdOwner |-> fdOwner]

Become(s) ==
    /\ conn' = s.conn
    /\ recv' = s.recv
    /\ timer' = s.timer
    /\ write' = s.write
    /\ fdOwner' = s.fdOwner

\* Slots that are free when the handler starts: a job that completes is returned
\* to its pool after its handler, so its slot is not reused by it.
FreeRecvs == {r \in Recvs : ~recv[r].live}
FreeTimers == {t \in Timers : ~timer[t].live}
FreeWrites == {w \in Writes : ~write[w].live}

\* Whether a request for a job and an SQE is granted; free: the slots of its pool.
Granted == IF Exhaustion THEN BOOLEAN ELSE {TRUE}
MayFail(free) == Exhaustion \/ free = {}

isStopping == server = "Stopping"

\* Mutant: the generation is not compared, so a recycled slot looks valid.
isValid_NoGeneration(s, c, g) == s.conn[c].live

\* PoolManager::isValid(connection, generation)
isValid(s, c, g) == s.conn[c].live /\ s.conn[c].gen = g

-----------------------------------------------------------------------------
(* Operations of HttpConnectionJob *)

\* The descriptor of a connection, wherever closeConnection has put it.
Fd(k) == IF k.deferred_close_fd # None THEN k.deferred_close_fd ELSE k.client_fd

Cancel(jobs, j) == [jobs EXCEPT ![j] = [@ EXCEPT !.op = "cancelled"]]

\* The two legs of closeConnection on the connection itself.  i and r: the cancel
\* of the idle timer, and of the recv, was submitted if one was still due.
Legs(k, i, r) ==
    LET readSubmit == k.active_read # None /\ ~k.read_cancel_pending
        idleWait == k.active_idle # None /\ (k.idle_cancel_pending \/ i)
        readWait == k.active_read # None /\ (k.read_cancel_pending \/ r)
    IN  [k EXCEPT !.close_pending = TRUE,
                  !.idle_cancel_pending = @ \/ idleWait,
                  !.active_idle = IF idleWait THEN @ ELSE None,
                  !.deferred_close_fd = IF readSubmit THEN k.client_fd ELSE @,
                  !.client_fd = IF readSubmit THEN None ELSE @,
                  !.read_cancel_pending = @ \/ readWait,
                  !.active_read = IF readWait THEN @ ELSE None]

\* Mutant: client_fd is closed although the recv leg moved the descriptor.
CloseLegs_ClientFd(s, c, i, r) ==
    LET k == s.conn[c]
        l == Legs(k, i, r)
        waiting == l.active_idle # None \/ l.active_read # None
        idleSubmit == k.active_idle # None /\ ~k.idle_cancel_pending /\ i
        readSubmit == k.active_read # None /\ ~k.read_cancel_pending /\ r
    IN  [conn |-> [s.conn EXCEPT ![c] = IF waiting THEN l ELSE FreeConn(k.gen + 1)],
         recv |-> IF readSubmit THEN Cancel(s.recv, k.active_read) ELSE s.recv,
         timer |-> IF idleSubmit THEN Cancel(s.timer, k.active_idle) ELSE s.timer,
         write |-> s.write,
         fdOwner |-> IF waiting \/ l.client_fd = None THEN s.fdOwner
                     ELSE [s.fdOwner EXCEPT ![l.client_fd] = None]]

\* Mutant: the slot keeps its generation when the connection is returned to the pool.
CloseLegs_SameGeneration(s, c, i, r) ==
    LET k == s.conn[c]
        l == Legs(k, i, r)
        waiting == l.active_idle # None \/ l.active_read # None
        idleSubmit == k.active_idle # None /\ ~k.idle_cancel_pending /\ i
        readSubmit == k.active_read # None /\ ~k.read_cancel_pending /\ r
    IN  [conn |-> [s.conn EXCEPT ![c] = IF waiting THEN l ELSE FreeConn(k.gen)],
         recv |-> IF readSubmit THEN Cancel(s.recv, k.active_read) ELSE s.recv,
         timer |-> IF idleSubmit THEN Cancel(s.timer, k.active_idle) ELSE s.timer,
         write |-> s.write,
         fdOwner |-> IF waiting THEN s.fdOwner ELSE [s.fdOwner EXCEPT ![Fd(l)] = None]]

\* closeConnection with no response in flight: wait for the completions of what
\* was cancelled, or close the descriptor and return the connection to the pool.
CloseLegs(s, c, i, r) ==
    LET k == s.conn[c]
        l == Legs(k, i, r)
        waiting == l.active_idle # None \/ l.active_read # None
        idleSubmit == k.active_idle # None /\ ~k.idle_cancel_pending /\ i
        readSubmit == k.active_read # None /\ ~k.read_cancel_pending /\ r
    IN  [conn |-> [s.conn EXCEPT ![c] = IF waiting THEN l ELSE FreeConn(k.gen + 1)],
         recv |-> IF readSubmit THEN Cancel(s.recv, k.active_read) ELSE s.recv,
         timer |-> IF idleSubmit THEN Cancel(s.timer, k.active_idle) ELSE s.timer,
         write |-> s.write,
         fdOwner |-> IF waiting THEN s.fdOwner ELSE [s.fdOwner EXCEPT ![Fd(l)] = None]]

\* Mutant: the connection is closed under the response in flight.
closeConnection_Early(s, c) == {CloseLegs(s, c, i, r) : i \in Granted, r \in Granted}

closeConnection(s, c) ==
    IF s.conn[c].in_flight
    THEN {[s EXCEPT !.conn[c].close_pending = TRUE]}
    ELSE {CloseLegs(s, c, i, r) : i \in Granted, r \in Granted}

armIdleTimeout(s, c) ==
    IF ~IdleTimeout \/ s.conn[c].client_fd = None
    THEN {s}
    ELSE (IF MayFail(FreeTimers) THEN {s} ELSE {}) \cup
         {[s EXCEPT !.timer[t] = [live |-> TRUE, op |-> "armed", owner |-> c,
                                  gen |-> s.conn[c].gen],
                    !.conn[c].active_idle = t,
                    !.conn[c].idle_cancel_pending = FALSE] : t \in FreeTimers}

\* WriteJob::createFromPoolWithOwnedData and start, or HTTPFileJob, for the response at hand.
startResponse(s, c, w, persist) ==
    LET k == s.conn[c]
    IN  [s EXCEPT !.conn[c] = [k EXCEPT !.in_flight = TRUE, !.responses = k.responses + 1],
                  !.write[w] = [live |-> TRUE, owner |-> c, gen |-> k.gen,
                                fd |-> k.client_fd, request |-> k.responses + 1,
                                done |-> 0, keep_alive |-> persist]]

\* keep: the request asked for a persistent connection; the route handler may
\* still close it.  No slot, and WriteJob::abandon(), which frees the job before
\* it reports, both give the response slot back and close.
sendResponse(s, c, keep) ==
    (IF MayFail(FreeWrites) THEN closeConnection(s, c) ELSE {}) \cup
    {startResponse(s, c, w, persist) :
        w \in FreeWrites,
        persist \in IF keep /\ ~isStopping THEN BOOLEAN ELSE {FALSE}}

sendErrorAndClose(s, c) ==
    LET t == [s EXCEPT !.conn[c].buffer = <<>>]
    IN  IF t.conn[c].client_fd = None \/ t.conn[c].in_flight
        THEN closeConnection(t, c)
        ELSE sendResponse(t, c, FALSE)

\* HttpParser::parse_request on the buffer: 0 for Incomplete, else the length of
\* the request at the front, whose last symbol says what it is.
RequestLength(buffer) ==
    LET ends == {i \in DOMAIN buffer : buffer[i] # "h"}
    IN  IF ends = {} THEN 0 ELSE CHOOSE i \in ends : \A j \in ends : i <= j

\* Mutant: the next request is dispatched while a response is in flight.
processHttpRequests_Pipelined(s, c) ==
    LET k == s.conn[c]
        n == RequestLength(k.buffer)
    IN  IF k.client_fd = None \/ n = 0
        THEN {s}
        ELSE IF k.buffer[n] = "b"
        THEN sendErrorAndClose(s, c)
        ELSE sendResponse([s EXCEPT !.conn[c].buffer = SubSeq(@, n + 1, Len(@))],
                          c, k.buffer[n] = "k")

processHttpRequests(s, c) ==
    LET k == s.conn[c]
        n == RequestLength(k.buffer)
    IN  IF k.in_flight \/ k.client_fd = None \/ n = 0
        THEN {s}
        ELSE IF k.buffer[n] = "b"
        THEN sendErrorAndClose(s, c)
        ELSE sendResponse([s EXCEPT !.conn[c].buffer = SubSeq(@, n + 1, Len(@))],
                          c, k.buffer[n] = "k")

createConnectionHandler(s, c, f) ==
    [s EXCEPT !.conn[c] = [FreeConn(s.conn[c].gen) EXCEPT !.live = TRUE, !.client_fd = f],
              !.fdOwner[f] = c]

startReading(s, c, r) ==
    LET k == s.conn[c]
    IN  IF r = None
        THEN {s}
        ELSE armIdleTimeout(
               [s EXCEPT !.conn[c] = [k EXCEPT !.reading_active = TRUE, !.active_read = r],
                         !.recv[r] = [live |-> TRUE, op |-> "armed", owner |-> c,
                                      gen |-> k.gen, fd |-> k.client_fd]],
               c)

submitIdleTimeoutCancel(s, c) ==
    [s EXCEPT !.timer = Cancel(s.timer, s.conn[c].active_idle),
              !.conn[c].idle_cancel_pending = TRUE]

\* Data arrived: the timer that is armed, if any, is to be cancelled.
endIdleWait(s, c) ==
    IF s.conn[c].active_idle = None \/ s.conn[c].idle_cancel_pending
    THEN {s}
    ELSE {IF g THEN submitIdleTimeoutCancel(s, c) ELSE s : g \in Granted}

handleDataReceived(s, c, data) ==
    LET k == s.conn[c]
        t == [s EXCEPT !.conn[c].buffer = @ \o data]
    IN  IF k.client_fd = None
        THEN {s}
        ELSE IF Len(k.buffer) + Len(data) > MaxRequestSize
        THEN sendErrorAndClose(s, c)
        ELSE UNION {processHttpRequests(u, c) : u \in endIdleWait(t, c)}

\* Mutant: active_read_job_ keeps pointing at the job that ended.
handleReadError_Dangling(s, c) ==
    IF s.conn[c].client_fd = None /\ s.conn[c].deferred_close_fd = None
    THEN {s}
    ELSE closeConnection(s, c)

\* Mutant: a deferred close is taken for one that is already done.
handleReadError_Deferred(s, c) ==
    LET t == [s EXCEPT !.conn[c].active_read = None]
    IN  IF s.conn[c].client_fd = None THEN {t} ELSE closeConnection(t, c)

handleReadError(s, c) ==
    LET t == [s EXCEPT !.conn[c].active_read = None]
    IN  IF s.conn[c].client_fd = None /\ s.conn[c].deferred_close_fd = None
        THEN {t}
        ELSE closeConnection(t, c)

\* Mutant: response_in_flight_ is not given back when the connection idles.
onResponseComplete_SlotKept(s, c, keep) ==
    LET t == [s EXCEPT !.conn[c].in_flight = FALSE]
    IN  IF s.conn[c].close_pending \/ ~keep \/ isStopping
        THEN closeConnection(t, c)
        ELSE IF s.conn[c].buffer # <<>>
        THEN processHttpRequests(t, c)
        ELSE armIdleTimeout(s, c)

onResponseComplete(s, c, keep) ==
    LET t == [s EXCEPT !.conn[c].in_flight = FALSE]
    IN  IF s.conn[c].close_pending \/ ~keep \/ isStopping
        THEN closeConnection(t, c)
        ELSE IF s.conn[c].buffer # <<>>
        THEN processHttpRequests(t, c)
        ELSE armIdleTimeout(t, c)

onResponseError(s, c) ==
    closeConnection([s EXCEPT !.conn[c].in_flight = FALSE], c)

\* Mutant: a cancelled timer does not go on with the close that cancelled it.
handleIdleTimeout_NoReentry(s, c, t, res) ==
    LET u == [s EXCEPT !.conn[c].active_idle = None]
    IN  IF t # s.conn[c].active_idle
        THEN {s}
        ELSE IF res = "ECANCELED" THEN {u} ELSE closeConnection(u, c)

\* Mutant: an expired timer only closes a connection that is already closing.
handleIdleTimeout_NoClose(s, c, t, res) ==
    LET u == [s EXCEPT !.conn[c].active_idle = None]
    IN  IF t # s.conn[c].active_idle
        THEN {s}
        ELSE IF ~s.conn[c].close_pending THEN {u} ELSE closeConnection(u, c)

handleIdleTimeout(s, c, t, res) ==
    LET k == s.conn[c]
        u == [s EXCEPT !.conn[c].active_idle = None]
    IN  IF t # k.active_idle
        THEN {s}
        ELSE IF \/ res = "ECANCELED" /\ ~k.close_pending
                \/ res = "ETIME" /\ k.client_fd = None /\ k.deferred_close_fd = None
        THEN {u}
        ELSE closeConnection(u, c)

wantsContinuedRead(s, c) ==
    /\ s.conn[c].client_fd # None
    /\ ~s.conn[c].close_pending
    /\ s.conn[c].reading_active
    /\ s.conn[c].active_read # None

-----------------------------------------------------------------------------
(* Steps of the ring thread *)

Init ==
    /\ conn = [c \in Conns |-> FreeConn(0)]
    /\ recv = [r \in Recvs |-> NoRecv]
    /\ timer = [t \in Timers |-> NoTimer]
    /\ write = [w \in Writes |-> NoWrite]
    /\ fdOwner = [f \in Fds |-> None]
    /\ wire = [f \in Fds |-> NoPiece]
    /\ server = "Running"
    /\ swept = FALSE

\* n more pieces of a response are on the wire; what a closed descriptor carried
\* is forgotten.
Written(w, n) ==
    wire' = [f \in Fds |->
        IF fdOwner'[f] = None THEN NoPiece
        ELSE IF f = write[w].fd /\ n > 0
        THEN [request |-> write[w].request, piece |-> write[w].done + n,
              last |-> ~write[w].keep_alive]
        ELSE wire[f]]
NothingWritten == wire' = [f \in Fds |-> IF fdOwner'[f] = None THEN NoPiece ELSE wire[f]]

\* An accepted (or kTLS ready) descriptor gets a connection.  r = None: there is
\* no MultishotRecvJob or no SQE for it.  With no free connection slot the
\* descriptor is closed again and nothing changes.
NewConnection(c, f, r) ==
    /\ ~conn[c].live
    /\ conn[c].gen < MaxGen
    /\ fdOwner[f] = None
    /\ IF r = None THEN MayFail(FreeRecvs) ELSE r \in FreeRecvs
    /\ \E s \in startReading(createConnectionHandler(St, c, f), c, r) : Become(s)
    /\ NothingWritten
    /\ UNCHANGED <<server, swept>>

\* MultishotRecvJob::handleCompletion with data, once the handler has left s, on
\* a completion without IORING_CQE_F_MORE: the job re-arms itself in place, or
\* tells its connection that the stream ended and is freed.
Ended(s, r) ==
    LET c == recv[r].owner
        freed == {[t EXCEPT !.recv[r] = NoRecv] :
                    t \in IF isValid(s, c, recv[r].gen) THEN handleReadError(s, c) ELSE {s}}
    IN  IF isValid(s, c, recv[r].gen) /\ wantsContinuedRead(s, c)
        THEN {[s EXCEPT !.recv[r].op = "armed"]} \cup (IF Exhaustion THEN freed ELSE {})
        ELSE freed

\* MultishotRecvJob::handleCompletion with data.  more is IORING_CQE_F_MORE: the
\* kernel keeps the operation and the job.
RecvData(r, data, more) ==
    LET c == recv[r].owner
    IN  /\ recv[r].live
        /\ IF isValid(St, c, recv[r].gen)
           THEN /\ conn[c].input + Len(data) <= MaxInput
                /\ \E s \in handleDataReceived(
                              [St EXCEPT !.conn[c].input = @ + Len(data)], c, data) :
                     \E t \in IF more THEN {s} ELSE Ended(s, r) : Become(t)
           ELSE \E t \in IF more THEN {St} ELSE Ended(St, r) : Become(t)
        /\ NothingWritten
        /\ UNCHANGED <<server, swept>>

\* MultishotRecvJob::handleCompletion with EOF, an error or an unusable buffer.
RecvError(r, more) ==
    LET c == recv[r].owner
    IN  /\ recv[r].live
        /\ more => ErrorMore
        /\ \E s \in IF isValid(St, c, recv[r].gen) THEN handleReadError(St, c) ELSE {St} :
             Become(IF more THEN s ELSE [s EXCEPT !.recv[r] = NoRecv])
        /\ NothingWritten
        /\ UNCHANGED <<server, swept>>

\* IdleTimeoutJob::handleCompletion.  Only a cancelled timer reports ECANCELED,
\* and one that expired before its cancel got there still reports ETIME.
TimerCompletion(t, res) ==
    LET c == timer[t].owner
    IN  /\ timer[t].live
        /\ res = "ECANCELED" => timer[t].op = "cancelled"
        /\ \E s \in IF isValid(St, c, timer[t].gen)
                    THEN handleIdleTimeout(St, c, t, res) ELSE {St} :
             Become([s EXCEPT !.timer[t] = NoTimer])
        /\ NothingWritten
        /\ UNCHANGED <<server, swept>>

\* WriteJob::handleCompletion after a short write that was resubmitted.
WritePartial(w, n) ==
    /\ write[w].live
    /\ write[w].done + n < Pieces
    /\ write' = [write EXCEPT ![w].done = @ + n]
    /\ UNCHANGED <<conn, recv, timer, fdOwner, server, swept>>
    /\ Written(w, n)

\* WriteJob::handleCompletion when the last byte is out.
WriteComplete(w) ==
    /\ write[w].live
    /\ \E s \in onResponseComplete([St EXCEPT !.write[w] = NoWrite],
                                   write[w].owner, write[w].keep_alive) : Become(s)
    /\ Written(w, Pieces - write[w].done)
    /\ UNCHANGED <<server, swept>>

\* WriteJob::handleCompletion on an error (n = 0), or after a short write of n
\* pieces that could not be resubmitted.
WriteError(w, n) ==
    /\ write[w].live
    /\ write[w].done + n < Pieces
    /\ n > 0 => Exhaustion
    /\ \E s \in onResponseError([St EXCEPT !.write[w] = NoWrite], write[w].owner) :
         Become(s)
    /\ Written(w, n)
    /\ UNCHANGED <<server, swept>>

\* HttpServer::stop or Server::stop, on a foreign thread.
Stop ==
    /\ server = "Running"
    /\ server' = "Stopping"
    /\ UNCHANGED <<conn, recv, timer, write, fdOwner, wire, swept>>

\* HttpServer::stop finds no ring running and settles on Stopped.
Settle ==
    /\ server = "Stopping"
    /\ server' = "Stopped"
    /\ UNCHANGED <<conn, recv, timer, write, fdOwner, wire, swept>>

LiveRecvs == {r \in Recvs : recv[r].live}
LiveTimers == {t \in Timers : timer[t].live}

\* The shutdown sweep: requestShutdownCancel on every live recv and timer.  R
\* and T are those whose cancel was submitted.
Sweep(R, T) ==
    /\ server # "Running"
    /\ ~swept
    /\ ~Exhaustion => R = LiveRecvs /\ T = LiveTimers
    /\ swept' = TRUE
    /\ recv' = [r \in Recvs |-> IF r \in R THEN [recv[r] EXCEPT !.op = "cancelled"]
                                          ELSE recv[r]]
    /\ timer' = [t \in Timers |-> IF t \in T THEN [timer[t] EXCEPT !.op = "cancelled"]
                                            ELSE timer[t]]
    /\ UNCHANGED <<conn, write, fdOwner, wire, server>>

Next ==
    \/ \E c \in Conns, f \in Fds, r \in Recvs \cup {None} : NewConnection(c, f, r)
    \/ \E r \in Recvs, data \in Chunks, more \in BOOLEAN : RecvData(r, data, more)
    \/ \E r \in Recvs, more \in BOOLEAN : RecvError(r, more)
    \/ \E t \in Timers, res \in {"ETIME", "ECANCELED"} : TimerCompletion(t, res)
    \/ \E w \in Writes, n \in 1 .. Pieces - 1 : WritePartial(w, n)
    \/ \E w \in Writes : WriteComplete(w)
    \/ \E w \in Writes, n \in 0 .. Pieces - 1 : WriteError(w, n)
    \/ Stop
    \/ Settle
    \/ \E R \in SUBSET LiveRecvs, T \in SUBSET LiveTimers : Sweep(R, T)

Spec == Init /\ [][Next]_vars

-----------------------------------------------------------------------------
(* Properties *)

\* Every variable has its type.
TypeOK ==
    /\ conn \in [Conns -> ConnType]
    /\ recv \in [Recvs -> RecvType]
    /\ timer \in [Timers -> TimerType]
    /\ write \in [Writes -> WriteType]
    /\ fdOwner \in [Fds -> Conns \cup {None}]
    /\ wire \in [Fds -> PieceType]
    /\ server \in {"Running", "Stopping", "Stopped"}
    /\ swept \in BOOLEAN

\* The callbacks of a response capture a bare `this` and check nothing: as long
\* as a response job exists, the connection that started it must be that same
\* incarnation, hold its response slot for it, and still have the descriptor the
\* response is written to.
ResponseOwner ==
    \A w \in Writes : write[w].live =>
        LET c == write[w].owner
        IN  /\ c # None
            /\ isValid(St, c, write[w].gen)
            /\ conn[c].in_flight
            /\ conn[c].client_fd = write[w].fd
            /\ write[w].fd # None

\* response_in_flight_ is taken by exactly one response job, and given back.
OneResponse ==
    \A c \in Conns : conn[c].in_flight <=>
        \E w \in Writes : /\ write[w].live
                          /\ write[w].owner = c
                          /\ \A v \in Writes :
                                write[v].live /\ write[v].owner = c => v = w

\* A descriptor is open exactly while the connection it was accepted for holds
\* it: closeConnection closes the right one, once, and never leaks one.
DescriptorOwner ==
    \A c \in Conns, f \in Fds :
        fdOwner[f] = c <=> conn[c].live /\ Fd(conn[c]) = f

\* The recv and the timer a connection tracks are live jobs of that incarnation,
\* on its descriptor, and one it has marked as being cancelled really is: a
\* deferred close never waits for an operation that nothing ends.
JobsTracked ==
    \A c \in Conns :
        LET k == conn[c]
        IN  /\ k.active_read # None =>
                 /\ recv[k.active_read].live
                 /\ recv[k.active_read].owner = c
                 /\ recv[k.active_read].gen = k.gen
                 /\ recv[k.active_read].fd = Fd(k)
                 /\ k.read_cancel_pending => recv[k.active_read].op = "cancelled"
            /\ k.active_idle # None =>
                 /\ timer[k.active_idle].live
                 /\ timer[k.active_idle].owner = c
                 /\ timer[k.active_idle].gen = k.gen
                 /\ k.idle_cancel_pending => timer[k.active_idle].op = "cancelled"

\* wantsContinuedRead() answers for the completing job: "a connection arms at
\* most one recv at a time", so the tracked one is the one that completes.
OneRecv ==
    \A r \in Recvs, c \in Conns :
        /\ recv[r].live
        /\ recv[r].owner = c
        /\ isValid(St, c, recv[r].gen)
        => conn[c].active_read \in {r, None}

\* A connection that got as far as reading is never abandoned: some operation it
\* has in the kernel will call it back, and it is waiting for nothing else.
NeverStranded ==
    \A c \in Conns : conn[c].reading_active =>
        \/ conn[c].active_read # None
        \/ conn[c].in_flight
        \/ conn[c].close_pending /\ conn[c].active_idle # None

\* Pipelined responses reach the wire in request order, each of them whole, with
\* no byte of another response between its own, and none after a response that
\* announced "connection: close": a response always goes on exactly where the
\* wire stands.
WireInOrder ==
    \A w \in Writes : write[w].live =>
        wire[write[w].fd] =
            IF write[w].done = 0
            THEN [request |-> write[w].request - 1, piece |-> Pieces, last |-> FALSE]
            ELSE [request |-> write[w].request, piece |-> write[w].done,
                  last |-> ~write[w].keep_alive]

\* The connection a job was armed for has been returned to its pool.
Gone(job) == ~conn[job.owner].live \/ conn[job.owner].gen # job.gen

\* A completion of a recv or a timer whose connection is gone, its slot recycled
\* or not, changes no connection, no descriptor and starts no response.
StaleCompletionIgnored ==
    [][\/ \E r \in Recvs : recv[r].live /\ ~recv'[r].live /\ Gone(recv[r])
       \/ \E t \in Timers : timer[t].live /\ ~timer'[t].live /\ Gone(timer[t])
       => UNCHANGED <<conn, fdOwner, write>>]_vars

-----------------------------------------------------------------------------
(* Liveness *)

\* What the kernel owes: an operation whose cancel it was given ends, a timer
\* expires, and a response is written or fails (the peer reads, or goes away).
\* Nothing makes a peer send, so nothing is assumed of a recv left armed.
Fairness ==
    /\ \A r \in Recvs : WF_vars(recv[r].op = "cancelled" /\ RecvError(r, FALSE))
    /\ \A t \in Timers : WF_vars(\E res \in {"ETIME", "ECANCELED"} : TimerCompletion(t, res))
    /\ \A w \in Writes : WF_vars(WriteComplete(w) \/ WriteError(w, 0))

FairSpec == Spec /\ Fairness

\* A connection whose close was requested returns to its pool: neither the
\* response in flight nor the two cancels it waits for can hold it for ever.
ClosingEnds ==
    \A c \in Conns, g \in 0 .. MaxGen :
        conn[c].gen = g /\ conn[c].close_pending ~> conn[c].gen > g

\* A connection waiting for a request with its timer armed is closed, unless data
\* arrives or the shutdown sweep takes over.
IdleEnds ==
    \A c \in Conns, g \in 0 .. MaxGen, n \in 0 .. MaxInput :
        /\ conn[c].gen = g
        /\ conn[c].input = n
        /\ conn[c].active_idle # None
        /\ ~conn[c].idle_cancel_pending
        ~> conn[c].gen > g \/ conn[c].input > n \/ swept

=============================================================================
