--------------------------- MODULE ServerLifecycle ---------------------------
(***************************************************************************)
(* Running and stopping a server of several rings: HttpServer::run, stop   *)
(* and the destructor on their threads, ServiceRing, the event loop, stop  *)
(* signal, sweep and drain of Server, and the multishot accept of each     *)
(* ring with its error recovery (HttpServer.cpp, ServiceRing.cpp,          *)
(* Server.cpp, AcceptJob.cpp, SingleRingHttpServer.cpp).                   *)
(*                                                                         *)
(* The threads interleave at every access to what they share: the server   *)
(* state, the running flags, the listening descriptors and the stop        *)
(* signals.  A ring thread handles a completion in one step, except for a  *)
(* failed or ended accept, whose handler reads what other threads write up *)
(* to three times.  A connection is, here, one operation in flight         *)
(* (HttpConnection has the rest).                                          *)
(***************************************************************************)
EXTENDS Naturals, FiniteSets

CONSTANTS
    NumRings,     \* config_.num_rings
    Accepts,      \* slots of a ring's AcceptJob pool
    Stoppers,     \* foreign threads that may call HttpServer::stop
    Main,         \* the thread that owns the server
    None,         \* nullptr
    Exhaustion,   \* SQEs and CancelJobs may run out
    RingStops,    \* Server::stop may be called on a single ring
    Errors,       \* accept errors that may occur: EMFILE, EINVAL
    MaxAccepts,   \* bound: successful accept completions of a ring
    MaxErrors     \* bound: accept errors of a ring

Rings == 1 .. NumRings
Threads == Stoppers \cup {Main}

ASSUME RingsAssumption == NumRings \in Nat \ {0}
ASSUME SlotsAssumption == None \notin Accepts /\ IsFiniteSet(Accepts)
ASSUME ThreadsAssumption == Main \notin Stoppers
ASSUME LimitsAssumption ==
    /\ Exhaustion \in BOOLEAN
    /\ RingStops \in BOOLEAN
    /\ Errors \subseteq {"EMFILE", "EINVAL"}
    /\ MaxAccepts \in Nat
    /\ MaxErrors \in Nat

VARIABLES
    state,   \* HttpServer::state_, shared with every ring
    pc,      \* where each of Threads is, and the ring its loop is at
    ring     \* each ServiceRing with its Server and SingleRingHttpServer

vars == <<state, pc, ring>>

-----------------------------------------------------------------------------
(* State *)

\* An AcceptJob: in the pool, without an operation, or with one that is armed,
\* that is being cancelled, or that was submitted on a closed descriptor.
AcceptState == {"free", "idle", "armed", "cancelled", "failing"}

\* A ring thread: not started, started, at the top of the event loop, blocked in
\* processCompletions, handling completions there, blocked in drainCompletions,
\* handling completions there, and returned.
RingThread == {"none", "new", "loop", "wait", "batch", "dwait", "dbatch", "exited"}

RingType ==
    [running : BOOLEAN,                          \* ServiceRing::running_
     http_running : BOOLEAN,                     \* SingleRingHttpServer::running_
     listening : BOOLEAN,                        \* server_fd_ is open
     thread : RingThread,
     signal : BOOLEAN,                           \* the eventfd counter is not 0
     poll : {"none", "armed", "done"},           \* the poll on it
     accept : [Accepts -> AcceptState],
     accept_job : Accepts \cup {None},
     handling : Accepts \cup {None},             \* the AcceptJob whose handler
     at : {"none", "fatal", "recover", "retry"}, \* is half way, and where
     conns : Nat,                                \* connections with a recv armed
     closing : Nat,                              \* ... whose cancel was submitted
     cancels : Nat,                              \* CancelJobs in flight
     in_flight : Nat,                            \* Server::in_flight_
     accepted : Nat, errors : Nat]               \* for the bounds

\* A ring after startRings, and one that startRings did not get to.
Listening ==
    [running |-> FALSE, http_running |-> TRUE, listening |-> TRUE, thread |-> "none",
     signal |-> FALSE, poll |-> "none", accept |-> [a \in Accepts |-> "free"],
     accept_job |-> None, handling |-> None, at |-> "none", conns |-> 0,
     closing |-> 0, cancels |-> 0, in_flight |-> 0, accepted |-> 0, errors |-> 0]

Unbuilt == [Listening EXCEPT !.http_running = FALSE, !.listening = FALSE]

isStopping == state = "Stopping"

-----------------------------------------------------------------------------
(* Accepting, on the ring thread: from a ring to the rings it may become *)

\* registerJob and submit of an AcceptJob.
Arm(k, a) ==
    [k EXCEPT !.accept[a] = IF k.listening THEN "armed" ELSE "failing",
              !.in_flight = @ + 1]

startAccepting(k) ==
    IF ~k.http_running
    THEN {k}
    ELSE LET free == {a \in Accepts : k.accept[a] = "free"}
         IN  (IF Exhaustion \/ free = {} THEN {k} ELSE {}) \cup
             {[Arm(k, a) EXCEPT !.accept_job = a] : a \in free}

\* Mutant: a job that ends leaves accept_job_ pointing at it.
Freed_OwnerSlotKept(k, a) == [k EXCEPT !.accept[a] = "free"]

\* clearOwnerSlot and the cleanup callback.
Freed(k, a) == [k EXCEPT !.accept[a] = "free",
                         !.accept_job = IF @ = a THEN None ELSE @]

\* Server::handleCompletion after the job's handler, without IORING_CQE_F_MORE.
Completed(k) == [k EXCEPT !.in_flight = @ - 1]

\* The next completion of this batch, or the end of it, is next.
Handled(k) == [k EXCEPT !.thread = IF @ \in {"wait", "batch"} THEN "batch" ELSE "dbatch"]

\* ... after a handler of several steps.
Finished(k) == [Handled(Completed(k)) EXCEPT !.handling = None, !.at = "none"]

\* The ring thread may handle a completion.
Ready(r) ==
    /\ ring[r].thread \in {"wait", "batch", "dwait", "dbatch"}
    /\ ring[r].handling = None

Become(r, k) == ring' = [ring EXCEPT ![r] = k]

-----------------------------------------------------------------------------
(* Ring threads *)

\* ServiceRing::run enters Server::run: armStopSignal, and the startup function.
RingBegin(r) ==
    /\ ring[r].thread = "new"
    /\ \E k \in startAccepting([ring[r] EXCEPT !.poll = "armed", !.thread = "loop"]) :
         Become(r, k)
    /\ UNCHANGED <<state, pc>>


\* drainCompletions waits while something is in flight.
Drain(k) == [k EXCEPT !.thread = IF k.in_flight > 0 THEN "dwait" ELSE "exited"]

\* All completions that were ready are handled: the loop tests its condition.
RingLoop(r) ==
    /\ ring[r].handling = None
    /\ \/ /\ ring[r].thread \in {"loop", "batch"}
          /\ Become(r, IF state = "Running" THEN [ring[r] EXCEPT !.thread = "wait"]
                                           ELSE Drain(ring[r]))
       \/ /\ ring[r].thread = "dbatch"
          /\ Become(r, Drain(ring[r]))
    /\ UNCHANGED <<state, pc>>


\* The shutdown sweep: n of the connections, and the accept if both, get a cancel.
Swept(k, n, both) ==
    LET a == k.accept_job
        hit == both /\ a # None
        m == n + IF hit THEN 1 ELSE 0
    IN  [k EXCEPT !.conns = @ - n, !.closing = @ + n, !.accept_job = None,
                  !.accept = IF hit /\ k.accept[a] = "armed"
                             THEN [@ EXCEPT ![a] = "cancelled"] ELSE @,
                  !.cancels = @ + m, !.in_flight = @ + m]

\* The completion of the poll on the stop signal.
StopSignal(r) ==
    /\ Ready(r)
    /\ ring[r].poll = "armed"
    /\ ring[r].signal
    /\ \E n \in 0 .. ring[r].conns, both \in BOOLEAN :
         /\ ~Exhaustion => n = ring[r].conns /\ both
         /\ Become(r, Handled(Swept([ring[r] EXCEPT !.poll = "done", !.signal = FALSE],
                                    n, both)))
    /\ UNCHANGED <<state, pc>>

\* Mutant: every completion of a multishot is counted as its last.
AcceptConnection_CountsMore(r, a, more, kept) ==
    /\ Ready(r)
    /\ ring[r].accept[a] \in {"armed", "cancelled"}
    /\ ring[r].accepted < MaxAccepts
    /\ more
    /\ Become(r, Handled(Completed([ring[r] EXCEPT !.accepted = @ + 1])))
    /\ UNCHANGED <<state, pc>>

\* AcceptJob::handleCompletion with a connection, which is kept unless a pool or
\* the submission queue is exhausted, or with result 0, which is not one.
AcceptConnection(r, a, more, kept) ==
    /\ Ready(r)
    /\ ring[r].accept[a] \in {"armed", "cancelled"}
    /\ ring[r].accepted < MaxAccepts
    /\ LET n == IF kept THEN 1 ELSE 0
           k == [ring[r] EXCEPT !.conns = @ + n, !.in_flight = @ + n, !.accepted = @ + 1]
           ended == [k EXCEPT !.accept[a] = "idle"]
       IN  Become(r, IF more THEN Handled(k)
                     ELSE IF isStopping THEN Handled(Completed(Freed(ended, a)))
                     ELSE [ended EXCEPT !.handling = a, !.at = "retry"])
    /\ UNCHANGED <<state, pc>>

\* AcceptJob::handleCompletion with an error, up to its read of the state.
AcceptError(r, a, err) ==
    /\ Ready(r)
    /\ \/ err = "ECANCELED" /\ ring[r].accept[a] = "cancelled"
       \/ err = "EBADF" /\ ring[r].accept[a] = "failing"
       \/ err \in Errors /\ ring[r].accept[a] = "armed" /\ ring[r].errors < MaxErrors
    /\ LET k == [ring[r] EXCEPT !.accept[a] = "idle",
                                !.errors = IF err \in Errors THEN @ + 1 ELSE @]
       IN  Become(r, IF isStopping THEN Handled(Completed(Freed(k, a)))
                     ELSE [k EXCEPT !.handling = a,
                                    !.at = IF err = "EMFILE" THEN "recover" ELSE "fatal"])
    /\ UNCHANGED <<state, pc>>

\* Its on_error_ callback, and the end of the handler of an unrecoverable error.
AcceptOnError(r) ==
    LET a == ring[r].handling
    IN  /\ ring[r].at \in {"fatal", "recover"}
        /\ \E k \in startAccepting(ring[r]) :
             Become(r, IF k.at = "recover" THEN [k EXCEPT !.at = "retry"]
                       ELSE Finished(Freed(k, a)))
        /\ UNCHANGED <<state, pc>>

\* AcceptJob::resubmitAccept, which reads the state again: a job that it does
\* not submit is not freed either.
ResubmitAccept(r) ==
    LET k == ring[r]
        a == k.handling
    IN  /\ k.at = "retry"
        /\ \E u \in IF isStopping THEN {k}
                    ELSE {Arm(k, a)} \cup IF Exhaustion THEN startAccepting(k) ELSE {} :
             Become(r, Finished(u))
        /\ UNCHANGED <<state, pc>>

\* A connection is over: its peer left, its idle timer expired, or its cancel
\* arrived.
ConnectionEnd(r) ==
    /\ Ready(r)
    /\ \/ /\ ring[r].conns > 0
          /\ Become(r, Handled(Completed([ring[r] EXCEPT !.conns = @ - 1])))
       \/ /\ ring[r].closing > 0
          /\ Become(r, Handled(Completed([ring[r] EXCEPT !.closing = @ - 1])))
    /\ UNCHANGED <<state, pc>>

\* CancelJob::handleCompletion.
CancelCompletion(r) ==
    /\ Ready(r)
    /\ ring[r].cancels > 0
    /\ Become(r, Handled(Completed([ring[r] EXCEPT !.cancels = @ - 1])))
    /\ UNCHANGED <<state, pc>>

-----------------------------------------------------------------------------
(* Threads of the application *)

Go(t, label, i) == pc' = [pc EXCEPT ![t] = [at |-> label, i |-> i]]
At(t, label) == pc[t].at = label
Loop(t, label, next) ==
    IF pc[t].i < NumRings THEN Go(t, label, pc[t].i + 1) ELSE Go(t, next, 1)
Running(i) == [ring[i] EXCEPT !.running = TRUE, !.thread = "new"]

\* HttpServer::listen: startRings builds n rings and fails at the next, or builds all.
Listen(n) ==
    /\ At(Main, "listen")
    /\ ring' = [i \in Rings |-> IF i <= n THEN Listening ELSE Unbuilt]
    /\ IF n = NumRings THEN state' = "Running" /\ Go(Main, "run", 1)
                       ELSE state' = state /\ Go(Main, "destroy", 1)

\* HttpServer::run, or its owner destroys the server without running it.
Run ==
    /\ At(Main, "run")
    /\ \/ state = "Running" /\ Go(Main, "start", 1)
       \/ Go(Main, "destroy", 1)
    /\ UNCHANGED <<state, ring>>

\* ServiceRing::start
StartRing ==
    LET i == pc[Main].i
    IN  /\ At(Main, "start")
        /\ Become(i, IF ring[i].running THEN ring[i] ELSE Running(i))
        /\ Loop(Main, "start", "joinrun")
        /\ UNCHANGED state

\* ServiceRing::join returns for a thread that has returned or was never started.
Joined(i) == ring[i].thread \in {"none", "exited"}

\* Mutant: only the first ring is joined.
JoinRing_First(label, next) ==
    /\ At(Main, label)
    /\ Joined(pc[Main].i)
    /\ Go(Main, next, 1)
    /\ UNCHANGED <<state, ring>>

\* joinAllRings, in run and in the destructor.
JoinRing(label, next) ==
    /\ At(Main, label)
    /\ Joined(pc[Main].i)
    /\ Loop(Main, label, next)
    /\ UNCHANGED <<state, ring>>

RunReturns ==
    /\ At(Main, "unwound")
    /\ state' = "Stopped"
    /\ Go(Main, "destroy", 1)
    /\ UNCHANGED ring

\* Threads that may be in HttpServer::stop keep its owner from destroying it.
MayDestroy == \A t \in Stoppers : pc[t].at \in {"idle", "done"}

\* HttpServer::stop is called: by a foreign thread while the server exists, or by
\* the destructor.
StopCalled(t) ==
    /\ \/ t \in Stoppers /\ At(t, "idle") /\ pc[Main].at \in {"run", "start", "joinrun", "unwound"}
       \/ t = Main /\ At(Main, "destroy") /\ MayDestroy
    /\ Go(t, "cas", 1)
    /\ UNCHANGED <<state, ring>>

\* Mutant: only the thread that makes the transition does the work.
StopCas_Gated(t) ==
    /\ At(t, "cas")
    /\ state' = IF state = "Running" THEN "Stopping" ELSE state
    /\ IF state = "Running" THEN Go(t, "http", 1) ELSE Go(t, "return", 1)
    /\ UNCHANGED ring

\* The compare-exchange of HttpServer::stop, which does not gate what follows.
StopCas(t) ==
    /\ At(t, "cas")
    /\ state' = IF state = "Running" THEN "Stopping" ELSE state
    /\ Go(t, "http", 1)
    /\ UNCHANGED ring

\* SingleRingHttpServer::stop of the ring the loop is at: its guard and store.
StopHttp(t) ==
    LET i == pc[t].i
    IN  /\ At(t, "http")
        /\ Become(i, [ring[i] EXCEPT !.http_running = FALSE])
        /\ IF ring[i].http_running THEN Go(t, "close", i) ELSE Loop(t, "http", "load")
        /\ UNCHANGED state

\* ... and its close of the listening descriptor.
StopClose(t) ==
    LET i == pc[t].i
    IN  /\ At(t, "close")
        /\ Become(i, [ring[i] EXCEPT !.listening = FALSE])
        /\ Loop(t, "http", "load")
        /\ UNCHANGED state

\* Where the loop over the service rings goes, some of which may be running.
AfterRing(t) == Loop(t, "load", "check")

\* The guard of ServiceRing::stop.
StopLoad(t) ==
    LET i == pc[t].i
    IN  /\ At(t, "load")
        /\ IF ring[i].running THEN Go(t, "store", i) ELSE AfterRing(t)
        /\ UNCHANGED <<state, ring>>

StopStore(t) ==
    LET i == pc[t].i
    IN  /\ At(t, "store")
        /\ Become(i, [ring[i] EXCEPT !.running = FALSE])
        /\ Go(t, "signal", i)
        /\ UNCHANGED state

\* Mutant: the ring is woken only by the thread whose compare-exchange succeeds.
ServerStop_Gated(r) ==
    /\ state' = IF state = "Running" THEN "Stopping" ELSE state
    /\ Become(r, [ring[r] EXCEPT !.signal = @ \/ state = "Running"])

\* Server::stop of a ring: its compare-exchange, and the write to the eventfd.
ServerStop(r) ==
    /\ state' = IF state = "Running" THEN "Stopping" ELSE state
    /\ Become(r, [ring[r] EXCEPT !.signal = TRUE])

StopSignalRing(t) ==
    /\ At(t, "signal")
    /\ ServerStop(pc[t].i)
    /\ AfterRing(t)

\* The test of the running flags at the end of HttpServer::stop.
StopCheck(t) ==
    LET i == pc[t].i
    IN  /\ At(t, "check")
        /\ IF ring[i].running THEN Go(t, "return", 1) ELSE Loop(t, "check", "settle")
        /\ UNCHANGED <<state, ring>>

StopSettle(t) ==
    /\ At(t, "settle")
    /\ state' = "Stopped"
    /\ Go(t, "return", 1)
    /\ UNCHANGED ring

StopReturns(t) ==
    /\ At(t, "return")
    /\ IF t = Main THEN Go(t, "join", 1) ELSE Go(t, "done", 1)
    /\ UNCHANGED <<state, ring>>

\* Server::stop called on one ring.
StopOneRing(r) ==
    /\ RingStops
    /\ ring[r].thread \notin {"none", "exited"}
    /\ ServerStop(r)
    /\ UNCHANGED pc

-----------------------------------------------------------------------------
(* Specification *)

Init ==
    /\ state = "Stopped"
    /\ pc = [t \in Threads |-> [at |-> IF t = Main THEN "listen" ELSE "idle", i |-> 1]]
    /\ ring = [r \in Rings |-> Unbuilt]

StopStep(t) ==
    \/ StopCas(t)
    \/ StopHttp(t)
    \/ StopClose(t)
    \/ StopLoad(t)
    \/ StopStore(t)
    \/ StopSignalRing(t)
    \/ StopCheck(t)
    \/ StopSettle(t)
    \/ StopReturns(t)

MainStep ==
    \/ Run
    \/ StartRing
    \/ JoinRing("joinrun", "unwound")
    \/ JoinRing("join", "destroyed")
    \/ RunReturns

\* What a ring thread does without a completion.
RingStep(r) ==
    \/ RingBegin(r)
    \/ RingLoop(r)
    \/ AcceptOnError(r)
    \/ ResubmitAccept(r)

Completion(r) ==
    \/ StopSignal(r)
    \/ \E a \in Accepts, more, kept \in BOOLEAN : AcceptConnection(r, a, more, kept)
    \/ \E a \in Accepts, err \in Errors \cup {"ECANCELED", "EBADF"} : AcceptError(r, a, err)
    \/ ConnectionEnd(r)
    \/ CancelCompletion(r)

Next ==
    \/ \E n \in 0 .. NumRings : Listen(n)
    \/ MainStep
    \/ \E t \in Threads : StopCalled(t) \/ StopStep(t)
    \/ \E r \in Rings : RingStep(r) \/ Completion(r) \/ StopOneRing(r)

Spec == Init /\ [][Next]_vars

\* Threads run; the kernel completes what is cancelled, what was submitted on a
\* closed descriptor and what polls a readable eventfd; a connection that no sweep
\* has cancelled ends, its idle timer at the latest, or its client when it has sent
\* half a request.  Nobody has to call stop, and no client to connect.
Fairness ==
    /\ WF_vars(MainStep)
    /\ WF_vars(StopCalled(Main))
    /\ \A t \in Threads : WF_vars(StopStep(t))
    /\ \A r \in Rings :
         /\ WF_vars(RingStep(r))
         /\ WF_vars(StopSignal(r))
         /\ \A a \in Accepts : /\ WF_vars(AcceptError(r, a, "ECANCELED"))
                               /\ WF_vars(AcceptError(r, a, "EBADF"))
         /\ WF_vars(ConnectionEnd(r))
         /\ WF_vars(CancelCompletion(r))

FairSpec == Spec /\ Fairness

-----------------------------------------------------------------------------
(* Properties *)

Labels ==
    {"listen", "run", "start", "joinrun", "unwound", "destroy", "join", "destroyed",
     "idle", "done", "cas", "http", "close", "load", "store", "signal", "check",
     "settle", "return"}

\* Every variable stays in the states the code can represent.  ServerState::Aborting
\* is missing: nothing stores it.
TypeOK ==
    /\ state \in {"Running", "Stopping", "Stopped"}
    /\ pc \in [Threads -> [at : Labels, i : Rings]]
    /\ ring \in [Rings -> RingType]

\* Operations of a ring that the kernel has not completed, the accept whose last
\* completion is being handled included.
Outstanding(k) ==
    Cardinality({a \in Accepts : k.accept[a] \in {"armed", "cancelled", "failing"}})
      + k.conns + k.closing + k.cancels + IF k.handling = None THEN 0 ELSE 1

\* Server::in_flight_, incremented by registerJob and decremented by the last
\* completion of an operation, counts exactly the operations in flight, across
\* multishot re-arms, refused submissions and the error recovery of the accept.
InFlightExact == \A r \in Rings : ring[r].in_flight = Outstanding(ring[r])


\* accept_job_, which the shutdown sweep dereferences, never points at a job that
\* went back to the pool (SingleRingHttpServer::startAccepting, clearOwnerSlot).
TrackedAcceptLive ==
    \A r \in Rings : ring[r].accept_job # None => ring[r].accept[ring[r].accept_job] # "free"

\* ~HttpServer frees the TLS context and the SingleRingHttpServers only when no
\* ring thread is left to use them, however run, stop and Server::stop interleaved.
DestroyedAfterJoin == At(Main, "destroyed") => \A r \in Rings : Joined(r)

\* When all calls made of HttpServer::stop have returned, every ring thread will find out:
\* it was signalled, or has not armed anything and will not wait at all.  This is
\* what the order of the loops in stop (listeners first) and the persistence of the
\* eventfd counter are for, when run starts rings while stop walks over them.
StopReachesEveryRing ==
    MayDestroy /\ (\E t \in Stoppers : At(t, "done")) =>
        /\ state # "Running"
        /\ \A r \in Rings :
             /\ ~ring[r].http_running
             /\ \/ Joined(r)
                \/ ring[r].signal
                \/ ring[r].poll = "done"
                \/ ring[r].thread \in {"new", "loop"} /\ ring[r].in_flight = 0

\* A call of HttpServer::stop leads to the end of all ring threads, to the return
\* of run and to the end of the destructor: nothing waits for ever in
\* io_uring_wait_cqe or join.
StopCompletes ==
    \A t \in Threads : At(t, "cas") ~> At(Main, "destroyed")

=============================================================================
