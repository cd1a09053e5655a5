------------------------------ MODULE AsyncLogger ------------------------------
(***************************************************************************)
(* The asynchronous logger: src/src/logging/AsyncLogger.cpp on top of      *)
(* src/src/ring_buffer/NotifyingRingBuffer.hpp on top of MPMCRingBuffer.   *)
(* Any thread may log; one worker thread writes. A producer signals the    *)
(* worker only when a batch has built up, the worker parks for a bounded   *)
(* time, and the destructor stops the worker while producers may still be  *)
(* inside a call. A message is its producer and a number; its text and its *)
(* kind travel with it unchanged.                                          *)
(***************************************************************************)
EXTENDS MPMCRingBuffer, FiniteSets

CONSTANTS
    Worker,            \* the thread of workerThreadFunc()
    NOTIFY_WATERMARK,  \* depth at which a producer signals
    MaxLogs            \* bound: calls of logMessage() and logError() that are taken

ASSUME LoggerAssumption ==
    /\ Consumers = {Worker}
    /\ Items = Producers \X (1 .. MaxLogs)
    /\ IsFiniteSet(Producers)
    /\ NOTIFY_WATERMARK \in Nat /\ MaxLogs \in Nat

VARIABLES
    fRunning, fDropped,     \* atomics of AsyncLogger::Impl
    sem_, shutdown_,        \* NotifyingRingBuffer: tokens, and the shutdown flag
    caller,                 \* where a producer is in enqueueLogMessage()
    worker,                 \* where the worker is in workerThreadFunc() and dequeue()
    dtor,                   \* where the destructor is
    entered,                \* history: calls that found fRunning set
    output, reported,       \* what the delegate was given: messages, and dropped messages reported
    overlap                 \* history: whether a producer was inside a call when fRunning was cleared

logVars == <<fRunning, fDropped, sem_, shutdown_, caller, worker, dtor, entered,
             output, reported, overlap>>
vars == <<ringVars, logVars>>

TypeOK ==
    /\ RingTypeOK
    /\ fRunning \in BOOLEAN /\ shutdown_ \in BOOLEAN
    /\ fDropped \in Nat /\ sem_ \in Nat /\ entered \in Nat /\ reported \in Nat
    /\ caller \in [Producers -> {"out", "checked", "enqueue"}]
    /\ worker \in {"loop", "dequeue", "park", "parked", "last", "drain", "exited"}
    /\ dtor \in {"no", "cleared", "signalled", "join", "destroyed"}
    /\ output \in Seq(Items)
    /\ overlap \in BOOLEAN

Init ==
    /\ RingInit
    /\ fRunning = TRUE /\ fDropped = 0 /\ sem_ = 0 /\ shutdown_ = FALSE
    /\ caller = [p \in Producers |-> "out"]
    /\ worker = "loop" /\ dtor = "no"
    /\ entered = 0
    /\ output = << >> /\ reported = 0 /\ overlap = FALSE

(***************************************************************************)
(* Producers: enqueueLogMessage().                                         *)
(***************************************************************************)
\* A call that finds fRunning clear returns and changes nothing.
enqueueLogMessage(p) ==
    /\ caller[p] = "out" /\ fRunning /\ entered < MaxLogs
    /\ caller' = [caller EXCEPT ![p] = "checked"]
    /\ entered' = entered + 1
    /\ UNCHANGED <<ringVars, fRunning, fDropped, sem_, shutdown_, worker, dtor, output, reported, overlap>>

\* A message is its producer and its number among those the producer got in.
MessagesOf(p) == {i \in DOMAIN claims : claims[i][1] = p}

Enqueue(p) ==
    /\ caller[p] = "checked"
    /\ \E n \in 1 .. MaxLogs :
          /\ n = 1 + Cardinality(MessagesOf(p))
          /\ EnqCall(p, <<p, n>>)
    /\ caller' = [caller EXCEPT ![p] = "enqueue"]
    /\ UNCHANGED <<fRunning, fDropped, sem_, shutdown_, worker, dtor, entered, output, reported, overlap>>

\* The queue was full: the message is counted.
Drop_Uncounted(p) ==
    /\ pc[p] = "enqFalse"
    /\ Return(p)
    /\ caller' = [caller EXCEPT ![p] = "out"]
    /\ UNCHANGED <<fRunning, fDropped, sem_, shutdown_, worker, dtor, entered, output,
                   reported, overlap>>

Drop(p) ==
    /\ pc[p] = "enqFalse"
    /\ Return(p)
    /\ fDropped' = fDropped + 1
    /\ caller' = [caller EXCEPT ![p] = "out"]
    /\ UNCHANGED <<fRunning, sem_, shutdown_, worker, dtor, entered, output, reported, overlap>>

\* size_approx() loads head_ after the item was published and then tail_; in
\* between head_ grows, and an older head_ below a newer tail_ wraps around to a
\* very large depth.
wakeIfWorthIt(p) ==
    /\ pc[p] = "enqTrue"
    /\ Return(p)
    /\ \E head \in pos[p] + 1 .. head_ :
          sem_' = IF head - tail_ >= NOTIFY_WATERMARK \/ head < tail_ THEN sem_ + 1 ELSE sem_
    /\ caller' = [caller EXCEPT ![p] = "out"]
    /\ UNCHANGED <<fRunning, fDropped, shutdown_, worker, dtor, entered, output, reported, overlap>>

(***************************************************************************)
(* The worker: workerThreadFunc() and NotifyingRingBuffer::dequeue().      *)
(***************************************************************************)
\* What no step of the worker or of the ring touches.
producerVars == <<fRunning, shutdown_, caller, dtor, entered, overlap>>

Dequeue(label) ==
    /\ DeqCall(Worker)
    /\ worker' = label

\* while (fRunning) ..., else on to the drain loop.
WorkerLoop ==
    /\ worker = "loop" /\ pc[Worker] = "idle"
    /\ Dequeue(IF fRunning THEN "dequeue" ELSE "drain")
    /\ UNCHANGED <<producerVars, fDropped, sem_, output, reported>>

processLogMessage ==
    /\ pc[Worker] = "deqTrue"
    /\ Return(Worker)
    /\ output' = Append(output, item[Worker])

\* One atomic exchange with zero.
reportDropsIfAny ==
    /\ fDropped' = 0
    /\ reported' = reported + fDropped

Processed ==
    /\ worker \in {"dequeue", "last"}
    /\ processLogMessage
    /\ reportDropsIfAny
    /\ worker' = "loop"
    /\ UNCHANGED <<producerVars, sem_>>

\* Nothing queued: dequeue() returns false when it finds the shutdown, and the
\* loop is left; otherwise it parks.
NothingQueued ==
    /\ worker = "dequeue" /\ pc[Worker] = "deqFalse"
    /\ Return(Worker)
    /\ worker' = IF shutdown_ THEN "drain" ELSE "park"
    /\ UNCHANGED <<producerVars, fDropped, sem_, output, reported>>

\* try_acquire_for(MAX_PARK): a token, or the time is up.
ParkSignalled ==
    /\ worker = "park" /\ sem_ > 0
    /\ sem_' = sem_ - 1
    /\ worker' = "parked"
    /\ UNCHANGED <<ringVars, producerVars, fDropped, output, reported>>

ParkTimesOut_Never == FALSE

ParkTimesOut ==
    /\ worker = "park"
    /\ worker' = "parked"
    /\ UNCHANGED <<ringVars, producerVars, fDropped, sem_, output, reported>>

CheckAfterPark ==
    /\ worker = "parked"
    /\ Dequeue(IF shutdown_ THEN "last" ELSE "dequeue")
    /\ UNCHANGED <<producerVars, fDropped, sem_, output, reported>>

\* The last look after the shutdown found nothing: dequeue() returns false.
LastEmpty ==
    /\ worker = "last" /\ pc[Worker] = "deqFalse"
    /\ Return(Worker)
    /\ worker' = "drain"
    /\ UNCHANGED <<producerVars, fDropped, sem_, output, reported>>

\* while (try_dequeue(msg)) processLogMessage(msg)
DrainAgain ==
    /\ worker = "drain" /\ pc[Worker] = "idle"
    /\ Dequeue("drain")
    /\ UNCHANGED <<producerVars, fDropped, sem_, output, reported>>

Drained ==
    /\ worker = "drain"
    /\ processLogMessage
    /\ UNCHANGED <<producerVars, worker, fDropped, sem_, reported>>

WorkerExits ==
    /\ worker = "drain" /\ pc[Worker] = "deqFalse"
    /\ Return(Worker)
    /\ reportDropsIfAny
    /\ worker' = "exited"
    /\ UNCHANGED <<producerVars, sem_, output>>

workerThreadFunc ==
    \/ WorkerLoop \/ Processed \/ NothingQueued \/ ParkSignalled \/ ParkTimesOut \/ CheckAfterPark
    \/ LastEmpty \/ DrainAgain \/ Drained \/ WorkerExits

(***************************************************************************)
(* The destructor, on the thread that owns the logger.                     *)
(***************************************************************************)
ClearRunning ==
    /\ dtor = "no"
    /\ fRunning' = FALSE
    /\ overlap' = \E p \in Producers : caller[p] # "out"
    /\ dtor' = "cleared"
    /\ UNCHANGED <<ringVars, fDropped, sem_, shutdown_, caller, worker, entered, output, reported>>

Shutdown ==
    /\ dtor = "cleared"
    /\ shutdown_' = TRUE
    /\ dtor' = "signalled"
    /\ UNCHANGED <<ringVars, fRunning, fDropped, sem_, caller, worker, entered, output,
                   reported, overlap>>

notify_all ==
    /\ dtor = "signalled"
    /\ sem_' = sem_ + 1
    /\ dtor' = "join"
    /\ UNCHANGED <<ringVars, fRunning, fDropped, shutdown_, caller, worker, entered, output,
                   reported, overlap>>

\* "The producers are done with this logger by the time the destructor joins"
\* (src/src/logging/AsyncLogger.cpp:121): what the owner of the logger sees to.
Join ==
    /\ dtor = "join" /\ worker = "exited"
    /\ \A p \in Producers : caller[p] = "out"
    /\ dtor' = "destroyed"
    /\ UNCHANGED <<ringVars, fRunning, fDropped, sem_, shutdown_, caller, worker, entered,
                   output, reported, overlap>>

Destructor == ClearRunning \/ Shutdown \/ notify_all \/ Join

-----------------------------------------------------------------------------
Next ==
    \/ \E p \in Producers :
          \/ enqueueLogMessage(p) \/ Enqueue(p) \/ Drop(p) \/ wakeIfWorthIt(p)
          \/ EnqStep(p) /\ UNCHANGED logVars
    \/ DeqStep(Worker) /\ UNCHANGED logVars
    \/ workerThreadFunc
    \/ Destructor

Spec == Init /\ [][Next]_vars

(***************************************************************************)
(* Fairness: every thread that can run does, and a park ends. Nobody has   *)
(* to log, and nobody has to destroy the logger. On the x86-64 of the      *)
(* build a compare-exchange that nobody contends succeeds (Spurious is     *)
(* FALSE where this is used).                                              *)
(***************************************************************************)
ProducerRuns(p) ==
    Enqueue(p) \/ Drop(p) \/ wakeIfWorthIt(p) \/ (EnqStep(p) /\ UNCHANGED logVars)

FairSpec ==
    /\ Spec
    /\ \A p \in Producers : WF_vars(ProducerRuns(p))
    /\ WF_vars(workerThreadFunc \/ (DeqStep(Worker) /\ UNCHANGED logVars))
    /\ WF_vars(Shutdown \/ notify_all \/ Join)

-----------------------------------------------------------------------------
(***************************************************************************)
(* Lines come out in the order their positions were claimed: none is       *)
(* skipped, written twice or torn, and so each producer's in the order it  *)
(* logged them.                                                            *)
(***************************************************************************)
WrittenInOrder ==
    /\ Len(output) <= Len(claims)
    /\ \A i \in 1 .. Len(output) : output[i] = claims[i]

(***************************************************************************)
(* When no producer was inside a call as the destructor began, the worker  *)
(* leaves nothing behind: every message the logger took is written or is   *)
(* in the count of dropped messages it reported.                           *)
(***************************************************************************)
NothingLost ==
    (worker = "exited" /\ ~overlap) => Len(output) + reported = entered

(***************************************************************************)
(* The worker always gets to the end of the queue again: a message that    *)
(* was queued is written without another one having to push the depth over *)
(* the watermark, unless the destructor met a producer in the middle of a  *)
(* call. And the destructor ends: a parked worker hears of the shutdown.   *)
(***************************************************************************)
EveryMessageWritten ==
    /\ []<>(Len(output) = Len(claims) \/ overlap)
    /\ dtor = "cleared" ~> dtor = "destroyed"
=============================================================================
