---------------------------- MODULE KTLSHandshake ----------------------------
(***************************************************************************)
(* The TLS handshake of an accepted descriptor (KTLSJob.cpp, and           *)
(* handleNewConnection, handleKTLSReady and handleKTLSError in             *)
(* SingleRingHttpServer.cpp).  A step that has to wait for the peer polls  *)
(* the descriptor with a linked timeout; both complete, in an order that   *)
(* depends on which of them came first, and by then the next step may have *)
(* submitted the next pair.                                                *)
(***************************************************************************)
EXTENDS Integers, Sequences

CONSTANTS
    Exhaustion,    \* pools and SQEs may run out
    MaxSteps       \* bound: steps of a handshake that wait for the peer

ASSUME BoundsAssumption == Exhaustion \in BOOLEAN /\ MaxSteps \in Nat

VARIABLES
    job,       \* the KTLSJob, with the descriptor it was given
    armed,     \* what it has in the kernel: nothing, a poll, a poll and its timeout
    cq,        \* completions that the ring thread has not handled
    server,    \* ServerState
    steps      \* steps that waited, for the bound

vars == <<job, armed, cq, server, steps>>

-----------------------------------------------------------------------------
(* State *)

\* fd: nobody has accepted yet, the job holds it, a connection has it, it is closed.
JobType ==
    [live : BOOLEAN, state : {"HANDSHAKING", "KTLS_READY", "ERROR_STATE"}, pending : Nat,
     fd : {"none", "job", "conn", "closed"}]

NewJob == [live |-> TRUE, state |-> "HANDSHAKING", pending |-> 0, fd |-> "job"]

Init ==
    /\ job = [NewJob EXCEPT !.live = FALSE, !.fd = "none"]
    /\ armed = "none"
    /\ cq = << >>
    /\ server = "Running"
    /\ steps = 0

\* The part of the state that a handler changes.
Now == [job |-> job, armed |-> armed, steps |-> steps]

Become(x) == job' = x.job /\ armed' = x.armed /\ steps' = x.steps

IfRefused(S) == IF Exhaustion THEN S ELSE {}

-----------------------------------------------------------------------------
(* KTLSJob *)

\* on_success_: the descriptor goes to a connection, or is closed for want of one.
Succeeded(x) ==
    {[x EXCEPT !.job.state = "KTLS_READY", !.job.fd = to] :
        to \in {"conn"} \cup IfRefused({"closed"})}

\* Mutant: the error is reported, but the job does not enter ERROR_STATE.
Failed_NoState(x) == [x EXCEPT !.job.fd = "closed"]

\* on_error_, which closes the descriptor.
Failed(x) == [x EXCEPT !.job.state = "ERROR_STATE", !.job.fd = "closed"]

\* Mutant: the linked timeout is not counted.
submitPollOperation_OnlyPoll(x) ==
    {[x EXCEPT !.armed = "pair", !.job.pending = @ + 1, !.steps = @ + 1]}

submitPollOperation(x) ==
    {[x EXCEPT !.armed = "pair", !.job.pending = @ + 2, !.steps = @ + 1]}
      \cup IfRefused({Failed(x),
                      [x EXCEPT !.armed = "poll", !.job.pending = @ + 1, !.steps = @ + 1]})

\* initializeSSL, SSL_accept and completeHandshake: kTLS is on, or one of them
\* failed, or the handshake has to wait, in which case wait is what follows.
SslAccept(x, wait) ==
    Succeeded(x) \cup {Failed(x)} \cup IF x.steps < MaxSteps THEN wait ELSE {}

performHandshakeStep(x) ==
    IF server = "Stopping" THEN {Failed(x)}
    ELSE SslAccept(x, submitPollOperation(x))

\* The first step; a NOP is prepared whatever came of it.
prepareSqe(x) == SslAccept(x, {x})

\* The cleanup callback is returned once nothing is in flight.
FreedIfDrained(x) == [x EXCEPT !.job.live = x.job.pending > 0]

\* Mutant: a timeout of the poll is taken for its cancellation.
handleCompletion_IgnoreTimeout(x, res) ==
    IF x.job.state # "HANDSHAKING" THEN {FreedIfDrained(x)}
    ELSE IF res \in {"cancelled", "expired", "late"} THEN {x}
    ELSE {IF y.job.state = "ERROR_STATE" THEN FreedIfDrained(y) ELSE y :
              y \in performHandshakeStep(x)}

\* Mutant: a job that has an outcome goes on with what is still in flight.
handleCompletion_NoStateCheck(x, res) ==
    IF res = "cancelled" THEN {IF x.job.state = "HANDSHAKING" THEN x ELSE FreedIfDrained(x)}
    ELSE IF res \in {"expired", "late"} THEN {FreedIfDrained(Failed(x))}
    ELSE {IF y.job.state = "ERROR_STATE" THEN FreedIfDrained(y) ELSE y :
              y \in performHandshakeStep(x)}

\* handleCompletion, after it has counted the completion.  performHandshakeStep
\* returns true when the handshake is over and has kTLS: nothing is freed then.
handleCompletion(x, res) ==
    IF x.job.state # "HANDSHAKING" THEN {FreedIfDrained(x)}
    ELSE IF res = "cancelled" THEN {x}
    ELSE IF res \in {"expired", "late"} THEN {FreedIfDrained(Failed(x))}
    ELSE {IF y.job.state = "ERROR_STATE" THEN FreedIfDrained(y) ELSE y :
              y \in performHandshakeStep(x)}

-----------------------------------------------------------------------------
(* The ring thread *)

\* handleNewConnection: a pool or the ring is exhausted, or the job is registered
\* and its NOP submitted.
HandleNewConnection ==
    /\ job.fd = "none"
    /\ \/ /\ Exhaustion
          /\ job' = [job EXCEPT !.fd = "closed"]
          /\ UNCHANGED <<armed, cq, steps>>
       \/ LET x == [Now EXCEPT !.job = NewJob]
          IN  /\ \E y \in prepareSqe(x) : Become(y)
              /\ cq' = <<"nop">>
    /\ UNCHANGED server

HandleCompletion ==
    /\ cq # << >>
    /\ LET x == [Now EXCEPT !.job.pending = IF @ > 0 THEN @ - 1 ELSE 0]
       IN  \E y \in handleCompletion(x, Head(cq)) : Become(y)
    /\ cq' = Tail(cq)
    /\ UNCHANGED server

\* HttpServer::stop, on its thread: Stopping, and Stopped soon after.
Stop ==
    /\ server # "Stopped"
    /\ server' = IF server = "Running" THEN "Stopping" ELSE "Stopped"
    /\ UNCHANGED <<job, armed, cq, steps>>

-----------------------------------------------------------------------------
(* The kernel *)

Completes(results) == armed' = "none" /\ cq' = cq \o results

\* The descriptor is ready: the poll completes and takes its timeout with it.
PollReady ==
    /\ armed # "none"
    /\ Completes(IF armed = "pair" THEN <<"ready", "cancelled">> ELSE <<"ready">>)
    /\ UNCHANGED <<job, server, steps>>

\* The timeout expires: it cancels the poll, or comes too late for that.
TimeoutExpires ==
    /\ armed = "pair"
    /\ \E results \in {<<"expired", "cancelled">>, <<"cancelled", "expired">>,
                       <<"ready", "late">>, <<"late", "ready">>} : Completes(results)
    /\ UNCHANGED <<job, server, steps>>

-----------------------------------------------------------------------------
(* Specification *)

Next ==
    \/ HandleNewConnection
    \/ HandleCompletion
    \/ Stop
    \/ PollReady
    \/ TimeoutExpires

Spec == Init /\ [][Next]_vars

\* The ring thread handles what has completed, and a timeout expires.  Nothing is
\* assumed of the peer.
FairSpec == Spec /\ WF_vars(HandleCompletion) /\ WF_vars(TimeoutExpires)

-----------------------------------------------------------------------------
(* Properties *)

Results == {"nop", "ready", "cancelled", "expired", "late"}

\* Every variable stays in the states the code and the kernel can represent.
TypeOK ==
    /\ job \in JobType
    /\ armed \in {"none", "poll", "pair"}
    /\ cq \in Seq(Results)
    /\ server \in {"Running", "Stopping", "Stopped"}
    /\ steps \in 0 .. MaxSteps

Armed == CASE armed = "none" -> 0 [] armed = "poll" -> 1 [] armed = "pair" -> 2

\* The NOP of prepareSqe is the one operation that pending_operations_ leaves out.
Nop == IF cq # << >> /\ Head(cq) = "nop" THEN 1 ELSE 0

\* pending_operations_ counts what is in flight, across pairs that overlap, so a
\* job goes back to its pool only when no completion can name it any more.
PendingExact ==
    /\ job.live => job.pending + Nop = Armed + Len(cq)
    /\ ~job.live => armed = "none" /\ cq = << >>

\* The descriptor has one owner: the job while it is handshaking and never after,
\* whatever the completions of an earlier or of the last pair still bring.
OneOwner == job.live /\ job.state = "HANDSHAKING" <=> job.fd = "job"

\* A descriptor that a connection has, or that is closed, is not touched by the
\* handshake again: neither a late timeout nor a stop closes a connection.
GivenAwayForGood == [][job.fd \in {"conn", "closed"} => job'.fd = job.fd]_vars

\* "If the peer never progresses the TLS handshake, the link timeout will fire"
\* (submitPollOperation): every handshake ends, also with a silent peer, unless the
\* submission queue had room for the poll and none for its timeout.
HandshakeEnds == job.fd = "job" ~> job.fd \in {"conn", "closed"} \/ armed = "poll"

=============================================================================
