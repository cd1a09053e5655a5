--------------------------- MODULE AsyncLoggerProofs ---------------------------
(***************************************************************************)
(* The logger for any number of slots, producers and messages: lines are   *)
(* written in the order of their positions, and a worker that ended with   *)
(* no producer inside a call has written or counted every message.         *)
(***************************************************************************)
EXTENDS AsyncLogger, MPMCRingBufferProofs, FiniteSetTheorems

(***************************************************************************)
(* The invariant of the logger, on top of the ring's.                      *)
(***************************************************************************)
\* Where a thread is in the ring goes with where it is in the logger.
CallersInv ==
    /\ caller \in [Producers -> {"out", "checked", "enqueue"}]
    /\ \A p \in Producers : /\ caller[p] \in {"out", "checked"} => pc[p] = "idle"
                            /\ caller[p] = "enqueue" => pc[p] \in EnqLabels

\* The worker is the only consumer: what it has taken and not yet written is the
\* position just below tail_.
Taken == pc[Worker] \in {"deqRead", "deqRelease", "deqTrue"}

OutputInv ==
    /\ output \in Seq(Items)
    /\ tail_ = Len(output) + (IF Taken THEN 1 ELSE 0)
    /\ Taken => pos[Worker] = Len(output)
    /\ pc[Worker] \in {"deqCheck", "deqClaim"} => pos[Worker] = tail_
    /\ \A i \in 1 .. Len(output) : output[i] = claims[i]

\* Calls that have neither claimed a position nor been counted as dropped.
Undecided ==
    {p \in Producers : caller[p] = "checked"
                       \/ pc[p] \in {"enqLoad", "enqCheck", "enqClaim", "enqFalse"}}

CountInv ==
    /\ fDropped \in Nat /\ reported \in Nat /\ entered \in Nat
    /\ entered = Cardinality(Undecided) + head_ + fDropped + reported

\* After the destructor began with nobody inside, nobody enters; and the worker
\* leaves the drain loop only from an empty ring.
ShutdownInv ==
    /\ fRunning \in BOOLEAN /\ shutdown_ \in BOOLEAN /\ overlap \in BOOLEAN
    /\ shutdown_ => ~fRunning
    /\ dtor = "no" <=> fRunning
    /\ worker \in {"drain", "exited"} => ~fRunning
    /\ worker = "last" => shutdown_
    /\ (~fRunning /\ ~overlap) => \A p \in Producers : caller[p] = "out"
    /\ (worker = "drain" /\ pc[Worker] = "deqFalse" /\ ~overlap) => tail_ = head_
    /\ (worker = "exited" /\ ~overlap) => tail_ = head_ /\ fDropped = 0 /\ ~Taken
    /\ worker = "exited" => pc[Worker] = "idle"

LoggerInv == RingInv /\ CallersInv /\ OutputInv /\ CountInv /\ ShutdownInv

-----------------------------------------------------------------------------
\* The worker is a thread of the ring and no producer.
LEMMA WorkerThread == Worker \in Consumers /\ Worker \in Threads /\ Worker \notin Producers
BY LoggerAssumption, RingAssumption DEF Threads

\* Every step of the logger is a step of the ring or leaves it alone.
LEMMA LoggerStepsRing == [Next]_vars => [RingNext]_ringVars
<1> SUFFICES ASSUME [Next]_vars PROVE [RingNext]_ringVars
  OBVIOUS
<1>1. ASSUME NEW p \in Producers, enqueueLogMessage(p) PROVE UNCHANGED ringVars
  BY <1>1 DEF enqueueLogMessage
<1>2. ASSUME NEW p \in Producers, Enqueue(p) PROVE RingNext
  <2>1. PICK n \in 1 .. MaxLogs : EnqCall(p, <<p, n>>)
    BY <1>2 DEF Enqueue
  <2>2. <<p, n>> \in Items
    BY LoggerAssumption
  <2> QED BY <2>1, <2>2 DEF RingNext
<1>3. ASSUME NEW p \in Producers, Drop(p) \/ wakeIfWorthIt(p) PROVE RingNext
  BY <1>3 DEF Drop, wakeIfWorthIt, RingNext, Threads
<1>4. ASSUME NEW p \in Producers, EnqStep(p) PROVE RingNext
  BY <1>4 DEF RingNext
<1>5. ASSUME DeqStep(Worker) PROVE RingNext
  BY <1>5, WorkerThread DEF RingNext
<1>6. ASSUME workerThreadFunc PROVE RingNext \/ UNCHANGED ringVars
  <2>1. DeqCall(Worker) \/ Return(Worker) \/ UNCHANGED ringVars
    BY <1>6 DEF workerThreadFunc, WorkerLoop, Processed, NothingQueued, ParkSignalled, ParkTimesOut,
                CheckAfterPark, LastEmpty, DrainAgain, Drained, WorkerExits, Dequeue, processLogMessage
  <2> QED BY <2>1, WorkerThread DEF RingNext
<1>7. ASSUME Destructor PROVE UNCHANGED ringVars
  BY <1>7 DEF Destructor, ClearRunning, Shutdown, notify_all, Join
<1>8. CASE UNCHANGED vars
  BY <1>8 DEF vars
<1> QED BY <1>1, <1>2, <1>3, <1>4, <1>5, <1>6, <1>7, <1>8 DEF Next

\* A new logger satisfies the invariant.
LEMMA LoggerInvInit == Init => LoggerInv
<1> SUFFICES ASSUME Init PROVE LoggerInv
  OBVIOUS
<1>1. RingInv
  BY RingInvInit DEF Init
<1>2. /\ \A t \in Threads : pc[t] = "idle"
      /\ head_ = 0 /\ tail_ = 0 /\ claims = << >>
  BY DEF Init, RingInit
<1>3. pc[Worker] = "idle" /\ \A p \in Producers : pc[p] = "idle"
  BY <1>2, WorkerThread DEF Threads
<1>4. CallersInv
  BY <1>3 DEF CallersInv, Init
<1>5. OutputInv
  BY <1>2, <1>3 DEF OutputInv, Taken, Init
<1>6. CountInv
  <2>1. Undecided = {}
    BY <1>3 DEF Undecided, Init
  <2>2. Cardinality(Undecided) = 0
    BY <2>1, FS_EmptySet
  <2> QED BY <1>2, <2>2 DEF CountInv, Init
<1>7. ShutdownInv
  BY <1>3 DEF ShutdownInv, Init
<1> QED BY <1>1, <1>4, <1>5, <1>6, <1>7 DEF LoggerInv

\* The calls that are undecided can be counted.
LEMMA UndecidedFinite ==
  /\ IsFiniteSet(Undecided) /\ Cardinality(Undecided) \in Nat
  /\ \A p \in Undecided : Cardinality(Undecided \ {p}) = Cardinality(Undecided) - 1
  /\ \A p : p \notin Undecided => Cardinality(Undecided \cup {p}) = Cardinality(Undecided) + 1
<1>1. IsFiniteSet(Producers) /\ Undecided \subseteq Producers
  BY LoggerAssumption DEF Undecided
<1>2. IsFiniteSet(Undecided)
  BY <1>1, FS_Subset
<1>3. Cardinality(Undecided) \in Nat
  BY <1>2, FS_CardinalityType
<1>4. ASSUME NEW p \in Undecided PROVE Cardinality(Undecided \ {p}) = Cardinality(Undecided) - 1
  BY <1>2, FS_RemoveElement
<1>5. ASSUME NEW p, p \notin Undecided PROVE Cardinality(Undecided \cup {p}) = Cardinality(Undecided) + 1
  BY <1>2, <1>5, FS_AddElement
<1> QED BY <1>2, <1>3, <1>4, <1>5

(***************************************************************************)
(* A producer's step: what it leaves alone, and what it says of the rest.  *)
(***************************************************************************)
ProducerStep(p) ==
    /\ tail_' = tail_ /\ output' = output /\ worker' = worker /\ dtor' = dtor
    /\ fRunning' = fRunning /\ shutdown_' = shutdown_ /\ overlap' = overlap /\ reported' = reported
    /\ \A t \in Threads \ {p} : pc'[t] = pc[t] /\ pos'[t] = pos[t] /\ item'[t] = item[t]
    /\ caller' = [caller EXCEPT ![p] = caller'[p]]
    /\ caller'[p] \in {"out", "checked", "enqueue"}
    /\ \A i \in 1 .. head_ : claims'[i] = claims[i]
    /\ fRunning \/ overlap
    /\ caller'[p] \in {"out", "checked"} => pc'[p] = "idle"
    /\ caller'[p] = "enqueue" => pc'[p] \in EnqLabels

\* What such a step keeps of the invariant.
LEMMA ProducerStepKeeps ==
  ASSUME LoggerInv, NEW p \in Producers, ProducerStep(p)
  PROVE  CallersInv' /\ OutputInv' /\ ShutdownInv'
<1>1. RingTypeOK /\ Bounds /\ CallersInv /\ OutputInv /\ ShutdownInv /\ head_ \in Nat /\ tail_ \in Nat
  BY DEF LoggerInv, RingInv, RingTypeOK
<1>2. p # Worker /\ Worker \in Threads /\ pc'[Worker] = pc[Worker] /\ pos'[Worker] = pos[Worker]
  BY WorkerThread DEF ProducerStep
<1>3. CallersInv'
  <2>1. caller' \in [Producers -> {"out", "checked", "enqueue"}]
    BY <1>1 DEF ProducerStep, CallersInv
  <2>2. \A q \in Producers \ {p} : caller'[q] = caller[q] /\ pc'[q] = pc[q]
    BY <1>1 DEF ProducerStep, CallersInv, Threads
  <2> QED BY <1>1, <2>1, <2>2 DEF ProducerStep, CallersInv
<1>4. OutputInv'
  <2>1. Taken' = Taken
    BY <1>2 DEF Taken
  <2>2. Len(output) <= head_ /\ Len(output) \in Nat
    BY <1>1 DEF OutputInv, Bounds
  <2>3. \A i \in 1 .. Len(output) : claims'[i] = claims[i]
    BY <1>1, <2>2 DEF ProducerStep
  <2> QED BY <1>1, <1>2, <2>1, <2>3 DEF ProducerStep, OutputInv
<1>5. ShutdownInv'
  BY <1>1, <1>2 DEF ProducerStep, ShutdownInv
<1> QED BY <1>3, <1>4, <1>5

\* A call that was let in is one more to decide.
LEMMA EnterKeeps ==
  ASSUME LoggerInv, NEW p \in Producers, enqueueLogMessage(p)
  PROVE  CallersInv' /\ OutputInv' /\ ShutdownInv' /\ CountInv'
<1>1. /\ CallersInv /\ CountInv /\ head_ \in Nat
      /\ head_' = head_ /\ tail_' = tail_ /\ pc' = pc /\ pos' = pos /\ item' = item /\ claims' = claims
      /\ fDropped' = fDropped /\ reported' = reported /\ entered' = entered + 1
      /\ caller[p] = "out" /\ fRunning
  BY DEF LoggerInv, RingInv, RingTypeOK, enqueueLogMessage, ringVars
<1>2. caller' = [caller EXCEPT ![p] = "checked"] /\ caller'[p] = "checked" /\ pc[p] = "idle"
  BY <1>1 DEF enqueueLogMessage, CallersInv
<1>3. ProducerStep(p)
  BY <1>1, <1>2 DEF ProducerStep, enqueueLogMessage
<1>4. Undecided' = Undecided \cup {p} /\ p \notin Undecided
  BY <1>1, <1>2 DEF Undecided, CallersInv
<1>5. Cardinality(Undecided') = Cardinality(Undecided) + 1 /\ Cardinality(Undecided) \in Nat
  BY <1>4, UndecidedFinite
<1>6. CountInv'
  BY <1>1, <1>5 DEF CountInv
<1> QED BY <1>3, <1>6, ProducerStepKeeps

\* A producer inside the ring, or returning from it, finds the logger running or
\* was there when the destructor began.
LEMMA InsideMeansOverlap ==
  ASSUME LoggerInv, NEW p \in Producers, caller[p] # "out"
  PROVE  fRunning \/ overlap
BY DEF LoggerInv, ShutdownInv

\* Calling enqueue() decides nothing yet.
LEMMA EnqueueKeeps ==
  ASSUME LoggerInv, NEW p \in Producers, Enqueue(p)
  PROVE  CallersInv' /\ OutputInv' /\ ShutdownInv' /\ CountInv'
<1>1. /\ RingTypeOK /\ CallersInv /\ CountInv /\ p \in Threads
      /\ head_' = head_ /\ tail_' = tail_ /\ claims' = claims
      /\ fDropped' = fDropped /\ reported' = reported /\ entered' = entered
      /\ caller[p] = "checked" /\ pc[p] = "idle"
  BY DEF LoggerInv, RingInv, Enqueue, EnqCall, Threads
<1>2. caller' = [caller EXCEPT ![p] = "enqueue"] /\ caller'[p] = "enqueue"
  BY <1>1 DEF Enqueue, CallersInv
<1>3. PICK n : EnqCall(p, <<p, n>>)
  BY DEF Enqueue
<1>4. pc' = [pc EXCEPT ![p] = "enqCheck"] /\ pc'[p] = "enqCheck"
      /\ \A t \in Threads \ {p} : pc'[t] = pc[t] /\ pos'[t] = pos[t] /\ item'[t] = item[t]
  BY <1>1, <1>3 DEF EnqCall, Goto, RingTypeOK
<1>5. fRunning \/ overlap
  BY <1>1, InsideMeansOverlap
<1>6. ProducerStep(p)
  BY <1>1, <1>2, <1>4, <1>5 DEF ProducerStep, Enqueue, EnqLabels
<1>7. Undecided' = Undecided
  BY <1>1, <1>2, <1>4 DEF Undecided, CallersInv, Threads
<1>8. CountInv'
  BY <1>1, <1>7 DEF CountInv
<1> QED BY <1>6, <1>8, ProducerStepKeeps

\* Returning from enqueue(): a message that found the ring full is counted.
LEMMA EnqReturnKeeps ==
  ASSUME LoggerInv, NEW p \in Producers, Drop(p) \/ wakeIfWorthIt(p)
  PROVE  CallersInv' /\ OutputInv' /\ ShutdownInv' /\ CountInv'
<1>1. /\ RingTypeOK /\ CallersInv /\ CountInv /\ p \in Threads /\ Return(p) /\ head_ \in Nat
      /\ head_' = head_ /\ tail_' = tail_ /\ claims' = claims
      /\ reported' = reported /\ entered' = entered
      /\ pc[p] \in {"enqFalse", "enqTrue"}
  BY DEF LoggerInv, RingInv, RingTypeOK, Drop, wakeIfWorthIt, Return, Threads
<1>2. caller' = [caller EXCEPT ![p] = "out"] /\ caller'[p] = "out" /\ caller[p] = "enqueue"
  BY <1>1 DEF Drop, wakeIfWorthIt, CallersInv
<1>3. /\ pc'[p] = "idle"
      /\ \A t \in Threads \ {p} : pc'[t] = pc[t] /\ pos'[t] = pos[t] /\ item'[t] = item[t]
  BY <1>1 DEF Return, Goto, RingTypeOK
<1>4. fRunning \/ overlap
  BY <1>2, InsideMeansOverlap
<1>5. ProducerStep(p)
  BY <1>1, <1>2, <1>3, <1>4 DEF ProducerStep, Drop, wakeIfWorthIt
<1>6. CountInv'
  <2>1. Undecided' = Undecided \ {p}
    BY <1>1, <1>2, <1>3 DEF Undecided, CallersInv, Threads
  <2>2. CASE Drop(p)
    <3>1. p \in Undecided /\ fDropped' = fDropped + 1
      BY <2>2 DEF Undecided, Drop
    <3>2. Cardinality(Undecided') = Cardinality(Undecided) - 1 /\ Cardinality(Undecided) \in Nat
      BY <2>1, <3>1, UndecidedFinite
    <3> QED BY <1>1, <3>1, <3>2 DEF CountInv
  <2>3. CASE wakeIfWorthIt(p)
    <3>1. p \notin Undecided /\ fDropped' = fDropped
      BY <1>2, <2>3 DEF Undecided, wakeIfWorthIt
    <3>2. Undecided' = Undecided
      BY <2>1, <3>1
    <3> QED BY <1>1, <3>1, <3>2 DEF CountInv
  <2> QED BY <2>2, <2>3
<1> QED BY <1>5, <1>6, ProducerStepKeeps

\* A step inside enqueue(): a claim decides the call, the others decide nothing.
LEMMA EnqStepKeeps ==
  ASSUME LoggerInv, NEW p \in Producers, EnqStep(p), UNCHANGED logVars
  PROVE  CallersInv' /\ OutputInv' /\ ShutdownInv' /\ CountInv'
<1>1. RingTypeOK /\ CallersInv /\ CountInv /\ Bounds /\ Carried /\ p \in Threads /\ head_ \in Nat
  BY DEF LoggerInv, RingInv, RingTypeOK, Threads
<1>2. /\ fRunning' = fRunning /\ fDropped' = fDropped /\ shutdown_' = shutdown_ /\ caller' = caller
      /\ worker' = worker /\ dtor' = dtor /\ entered' = entered /\ output' = output
      /\ reported' = reported /\ overlap' = overlap
  BY DEF logVars
<1>3. /\ tail_' = tail_ /\ item' = item
      /\ pc[p] \in {"enqLoad", "enqCheck", "enqClaim", "enqWrite", "enqPublish"}
      /\ \A t \in Threads \ {p} : pc'[t] = pc[t] /\ pos'[t] = pos[t]
      /\ pc'[p] \in EnqLabels
  BY <1>1 DEF EnqStep, EnqLoad, EnqCheck, EnqClaim, EnqClaimFails, EnqWrite, EnqPublish, Goto,
              RingTypeOK, EnqLabels
<1>4. caller[p] = "enqueue"
  BY <1>1, <1>3 DEF CallersInv
<1>5. fRunning \/ overlap
  BY <1>4, InsideMeansOverlap
<1>6. CASE EnqClaim(p)
  <2>1. /\ pc[p] = "enqClaim" /\ pc'[p] = "enqWrite" /\ head_' = head_ + 1
        /\ claims' = Append(claims, item[p])
    BY <1>1, <1>6 DEF EnqClaim, Goto, RingTypeOK
  <2>2. claims \in Seq(Items) /\ item[p] \in Items /\ Len(claims) = head_
    BY <1>1, <2>1 DEF RingTypeOK, Bounds, Carried, EnqLabels
  <2>3. \A i \in 1 .. head_ : claims'[i] = claims[i]
    BY <1>1, <2>1, <2>2
  <2>4. ProducerStep(p)
    BY <1>2, <1>3, <1>4, <1>5, <1>1, <2>3 DEF ProducerStep, CallersInv
  <2>5. Undecided' = Undecided \ {p} /\ p \in Undecided
    BY <1>2, <1>3, <1>4, <2>1 DEF Undecided, Threads
  <2>6. Cardinality(Undecided') = Cardinality(Undecided) - 1 /\ Cardinality(Undecided) \in Nat
    BY <2>5, UndecidedFinite
  <2>7. CountInv'
    BY <1>1, <1>2, <2>1, <2>6 DEF CountInv
  <2> QED BY <2>4, <2>7, ProducerStepKeeps
<1>7. CASE ~EnqClaim(p)
  <2>1. /\ head_' = head_ /\ claims' = claims
        /\ pc[p] \in {"enqLoad", "enqCheck", "enqClaim"} <=>
             pc'[p] \in {"enqLoad", "enqCheck", "enqClaim", "enqFalse"}
    BY <1>1, <1>7 DEF EnqStep, EnqLoad, EnqCheck, EnqClaimFails, EnqWrite, EnqPublish, Goto, RingTypeOK
  <2>2. ProducerStep(p)
    BY <1>2, <1>3, <1>4, <1>5, <1>1, <2>1 DEF ProducerStep, CallersInv
  <2>3. Undecided' = Undecided
    BY <1>2, <1>3, <1>4, <2>1 DEF Undecided, Threads
  <2>4. CountInv'
    BY <1>1, <1>2, <2>1, <2>3 DEF CountInv
  <2> QED BY <2>2, <2>4, ProducerStepKeeps
<1> QED BY <1>6, <1>7

(***************************************************************************)
(* The worker's steps touch no producer.                                   *)
(***************************************************************************)
WorkerStep ==
    /\ head_' = head_ /\ claims' = claims
    /\ \A p \in Producers : pc'[p] = pc[p]
    /\ fRunning' = fRunning /\ shutdown_' = shutdown_ /\ overlap' = overlap /\ dtor' = dtor
    /\ caller' = caller /\ entered' = entered
    /\ fDropped' \in Nat /\ reported' \in Nat /\ fDropped' + reported' = fDropped + reported

\* Moving dropped messages to the reported ones keeps the sum.
LEMMA SumKept ==
  \A c, h, d, r, d2, r2, e \in Nat : (e = c + h + d + r /\ d2 + r2 = d + r) => e = c + h + d2 + r2
OBVIOUS

\* What such a step keeps of the invariant.
LEMMA WorkerStepKeeps ==
  ASSUME LoggerInv, WorkerStep
  PROVE  CallersInv' /\ CountInv'
<1>1. Undecided' = Undecided
  BY DEF Undecided, WorkerStep
<1>2. Cardinality(Undecided) \in Nat /\ head_ \in Nat
  BY UndecidedFinite DEF LoggerInv, RingInv, RingTypeOK
<1>3. CallersInv'
  BY DEF LoggerInv, CallersInv, WorkerStep
<1>4. CountInv'
  <2> DEFINE c == Cardinality(Undecided)  d == fDropped'  r == reported'
  <2>1. /\ c \in Nat /\ head_ \in Nat /\ fDropped \in Nat /\ reported \in Nat /\ d \in Nat /\ r \in Nat
        /\ entered \in Nat
    BY <1>2 DEF LoggerInv, CountInv, WorkerStep
  <2>2. d + r = fDropped + reported
    BY DEF WorkerStep
  <2>3. entered = c + head_ + fDropped + reported
    BY DEF LoggerInv, CountInv
  <2>4. Cardinality(Undecided') = c /\ head_' = head_ /\ entered' = entered
    BY <1>1 DEF WorkerStep
  <2>5. entered = c + head_ + d + r
    <3> HIDE DEF c, d, r
    <3> QED BY <2>1, <2>2, <2>3, SumKept
  <2> QED BY <2>1, <2>4, <2>5 DEF CountInv
<1> QED BY <1>3, <1>4

\* A step inside dequeue(). The check that finds nothing, with no producer inside
\* a call, finds an empty ring.
LEMMA DeqStepKeeps ==
  ASSUME LoggerInv, DeqStep(Worker), UNCHANGED logVars
  PROVE  CallersInv' /\ OutputInv' /\ ShutdownInv' /\ CountInv'
<1>1. /\ RingTypeOK /\ Bounds /\ Ready /\ OutputInv /\ CountInv /\ ShutdownInv /\ CallersInv
      /\ Worker \in Threads /\ head_ \in Nat /\ tail_ \in Nat
  BY WorkerThread DEF LoggerInv, RingInv, RingTypeOK
<1>2. /\ fRunning' = fRunning /\ fDropped' = fDropped /\ shutdown_' = shutdown_ /\ caller' = caller
      /\ worker' = worker /\ dtor' = dtor /\ entered' = entered /\ output' = output
      /\ reported' = reported /\ overlap' = overlap
  BY DEF logVars
<1>3. /\ head_' = head_ /\ claims' = claims /\ pos' = pos
      /\ \A p \in Producers : pc'[p] = pc[p]
      /\ pc[Worker] # "idle"
  BY <1>1, WorkerThread DEF DeqStep, DeqCheck, DeqClaim, DeqRead, DeqRelease, Goto, RingTypeOK, Threads
<1>4. CallersInv' /\ CountInv'
  <2>1. WorkerStep
    BY <1>1, <1>2, <1>3 DEF WorkerStep, CountInv
  <2> QED BY <2>1, WorkerStepKeeps
<1>5. OutputInv'
  <2>1. CASE DeqCheck(Worker)
    <3>1. /\ pc[Worker] = "deqCheck" /\ pc'[Worker] \in {"deqClaim", "deqFalse", "deqLoad"}
          /\ tail_' = tail_
      BY <1>1, <2>1 DEF DeqCheck, Goto, RingTypeOK
    <3> QED BY <1>1, <1>2, <1>3, <3>1 DEF OutputInv, Taken
  <2>2. CASE DeqClaim(Worker)
    <3>1. /\ pc[Worker] = "deqClaim" /\ pc'[Worker] = "deqRead" /\ tail_' = tail_ + 1
          /\ pos[Worker] = tail_
      BY <1>1, <2>2 DEF DeqClaim, Goto, RingTypeOK
    <3>2. tail_ = Len(output)
      BY <1>1, <3>1 DEF OutputInv, Taken
    <3> QED BY <1>1, <1>2, <1>3, <3>1, <3>2 DEF OutputInv, Taken
  <2>3. CASE DeqRead(Worker) \/ DeqRelease(Worker)
    <3>1. /\ pc[Worker] \in {"deqRead", "deqRelease"} /\ pc'[Worker] \in {"deqRelease", "deqTrue"}
          /\ tail_' = tail_
      BY <1>1, <2>3 DEF DeqRead, DeqRelease, Goto, RingTypeOK
    <3> QED BY <1>1, <1>2, <1>3, <3>1 DEF OutputInv, Taken
  <2> QED BY <2>1, <2>2, <2>3 DEF DeqStep
<1>6. worker # "exited"
  BY <1>1, <1>3 DEF ShutdownInv
<1>7. (worker = "drain" /\ pc'[Worker] = "deqFalse" /\ ~overlap) => tail_' = head_
  <2> SUFFICES ASSUME worker = "drain", pc'[Worker] = "deqFalse", ~overlap PROVE tail_' = head_
    OBVIOUS
  <2>1. DeqCheck(Worker) /\ tail_' = tail_
    BY <1>1 DEF DeqStep, DeqCheck, DeqClaim, DeqRead, DeqRelease, Goto, RingTypeOK
  <2>2. \A p \in Producers : pc[p] = "idle"
    BY <1>1 DEF ShutdownInv, CallersInv
  <2>3. ~HoldsFill(tail_)
    BY <2>2 DEF HoldsFill, Filling
  <2>4. pos[Worker] = tail_
    BY <1>1, <2>1 DEF OutputInv, DeqCheck
  <2>5. sequence[Slot(tail_)] # tail_ + 1
    <3>1. SUFFICES ASSUME sequence[Slot(tail_)] = tail_ + 1 PROVE FALSE
      OBVIOUS
    <3>2. sequence[Slot(pos[Worker])] - (pos[Worker] + 1) = 0
      BY <1>1, <2>4, <3>1
    <3>3. pc'[Worker] = "deqClaim"
      BY <1>1, <2>1, <3>2 DEF DeqCheck, Goto, RingTypeOK
    <3> QED BY <3>3
  <2>6. ~ (tail_ < head_)
    BY <1>1, <2>3, <2>5 DEF Ready
  <2> QED BY <1>1, <2>1, <2>6 DEF Bounds
<1>8. ShutdownInv'
  BY <1>1, <1>2, <1>3, <1>6, <1>7 DEF ShutdownInv
<1> QED BY <1>4, <1>5, <1>8

\* Calling dequeue(), and returning from it with nothing, leave the output alone.
LEMMA NoOutputKeeps ==
  ASSUME LoggerInv, output' = output, claims' = claims,
         DeqCall(Worker) \/ (pc[Worker] = "deqFalse" /\ Return(Worker))
  PROVE  OutputInv'
<1>1. RingTypeOK /\ OutputInv /\ Worker \in Threads
  BY WorkerThread DEF LoggerInv, RingInv
<1>2. /\ pc[Worker] \in {"idle", "deqFalse"} /\ tail_' = tail_
      /\ \/ pc'[Worker] = "deqCheck" /\ pos'[Worker] = tail_
         \/ pc'[Worker] = "idle"
  BY <1>1 DEF DeqCall, Return, Goto, RingTypeOK
<1>3. ~Taken /\ ~Taken'
  BY <1>2 DEF Taken
<1> QED BY <1>1, <1>2, <1>3 DEF OutputInv

\* Writing the message that dequeue() gave out extends the output by the next one.
LEMMA ProcessKeeps == ASSUME LoggerInv, processLogMessage PROVE OutputInv'
<1>1. /\ RingTypeOK /\ Bounds /\ Results /\ OutputInv /\ Worker \in Threads /\ Worker \in Consumers
      /\ head_ \in Nat /\ tail_ \in Nat
  BY WorkerThread DEF LoggerInv, RingInv, RingTypeOK
<1>2. /\ pc[Worker] = "deqTrue" /\ pc'[Worker] = "idle" /\ tail_' = tail_ /\ claims' = claims
      /\ output' = Append(output, item[Worker])
  BY <1>1 DEF processLogMessage, Return, Goto, RingTypeOK
<1>3. Taken /\ ~Taken'
  BY <1>2 DEF Taken
<1>4. /\ pos[Worker] = Len(output) /\ tail_ = Len(output) + 1 /\ output \in Seq(Items)
      /\ pos[Worker] < head_ /\ item[Worker] = claims[pos[Worker] + 1]
  BY <1>1, <1>2, <1>3 DEF OutputInv, Results
<1>5. item[Worker] \in Items
  <2>1. claims \in Seq(Items) /\ Len(claims) = head_ /\ pos[Worker] + 1 \in 1 .. head_
    BY <1>1, <1>4 DEF RingTypeOK, Bounds
  <2> QED BY <1>4, <2>1
<1>6. /\ output' \in Seq(Items) /\ Len(output') = Len(output) + 1
      /\ \A i \in 1 .. Len(output) : output'[i] = output[i]
      /\ output'[Len(output) + 1] = item[Worker]
  BY <1>2, <1>4, <1>5
<1>7. \A i \in 1 .. Len(output') : output'[i] = claims[i]
  BY <1>1, <1>4, <1>6 DEF OutputInv
<1>8. tail_' = Len(output')
  BY <1>2, <1>4, <1>6
<1>9. tail_' = Len(output') + (IF Taken' THEN 1 ELSE 0)
  <2>1. Len(output') \in Int
    BY <1>6
  <2> QED BY <1>3, <1>8, <2>1
<1>10. pc'[Worker] \notin {"deqCheck", "deqClaim"}
  BY <1>2
<1>11. \A i \in 1 .. Len(output') : output'[i] = claims'[i]
  BY <1>2, <1>7
<1> QED BY <1>3, <1>6, <1>9, <1>10, <1>11 DEF OutputInv

\* The worker's steps outside the ring keep the invariant.
LEMMA WorkerKeeps ==
  ASSUME LoggerInv, workerThreadFunc
  PROVE  CallersInv' /\ OutputInv' /\ ShutdownInv' /\ CountInv'
<1>1. /\ RingTypeOK /\ OutputInv /\ CountInv /\ ShutdownInv /\ CallersInv /\ Worker \in Threads
  BY WorkerThread DEF LoggerInv, RingInv
<1>2. producerVars' = producerVars
  BY DEF workerThreadFunc, WorkerLoop, Processed, NothingQueued, ParkSignalled, ParkTimesOut,
         CheckAfterPark, LastEmpty, DrainAgain, Drained, WorkerExits
<1>3. /\ fRunning' = fRunning /\ shutdown_' = shutdown_ /\ caller' = caller /\ dtor' = dtor
      /\ entered' = entered /\ overlap' = overlap
  BY <1>2 DEF producerVars
<1>4. DeqCall(Worker) \/ Return(Worker) \/ UNCHANGED ringVars
  BY DEF workerThreadFunc, WorkerLoop, Processed, NothingQueued, ParkSignalled, ParkTimesOut,
         CheckAfterPark, LastEmpty, DrainAgain, Drained, WorkerExits, Dequeue, processLogMessage
<1>5. /\ head_' = head_ /\ tail_' = tail_ /\ claims' = claims
      /\ \A p \in Producers : pc'[p] = pc[p]
  BY <1>1, <1>4, WorkerThread DEF DeqCall, Return, Goto, ringVars, RingTypeOK, Threads
<1>6. (fDropped' = fDropped /\ reported' = reported) \/ (fDropped' = 0 /\ reported' = reported + fDropped)
  BY DEF workerThreadFunc, WorkerLoop, Processed, NothingQueued, ParkSignalled, ParkTimesOut,
         CheckAfterPark, LastEmpty, DrainAgain, Drained, WorkerExits, reportDropsIfAny
<1>7. CallersInv' /\ CountInv'
  <2>1. fDropped' \in Nat /\ reported' \in Nat /\ fDropped' + reported' = fDropped + reported
    BY <1>1, <1>6 DEF CountInv
  <2>2. WorkerStep
    BY <1>3, <1>5, <2>1 DEF WorkerStep
  <2> QED BY <2>2, WorkerStepKeeps
<1>8. OutputInv' /\ ShutdownInv'
  <2>1. CASE WorkerLoop \/ CheckAfterPark \/ DrainAgain
    <3>1. /\ DeqCall(Worker) /\ output' = output
          /\ worker' = "drain" => ~fRunning
          /\ worker' = "last" => shutdown_
          /\ worker' # "exited"
      BY <1>1, <2>1 DEF WorkerLoop, CheckAfterPark, DrainAgain, Dequeue, ShutdownInv
    <3>2. pc'[Worker] = "deqCheck"
      BY <1>1, <3>1 DEF DeqCall, Goto, RingTypeOK
    <3>3. ShutdownInv'
      BY <1>1, <1>3, <3>1, <3>2 DEF ShutdownInv
    <3> QED BY <1>5, <3>1, <3>3, NoOutputKeeps
  <2>2. CASE Processed \/ Drained
    <3>1. processLogMessage /\ worker' \in {"loop", "drain"} /\ (worker' = "drain" => worker = "drain")
      BY <2>2 DEF Processed, Drained
    <3>2. pc'[Worker] = "idle"
      BY <1>1, <3>1 DEF processLogMessage, Return, Goto, RingTypeOK
    <3>3. ShutdownInv'
      BY <1>1, <1>3, <3>1, <3>2 DEF ShutdownInv
    <3> QED BY <3>1, <3>3, ProcessKeeps
  <2>3. CASE NothingQueued \/ LastEmpty
    <3>1. /\ pc[Worker] = "deqFalse" /\ Return(Worker) /\ output' = output
          /\ worker' \in {"drain", "park"} /\ (worker' = "drain" => ~fRunning)
      BY <1>1, <2>3 DEF NothingQueued, LastEmpty, ShutdownInv
    <3>2. pc'[Worker] = "idle"
      BY <1>1, <3>1 DEF Return, Goto, RingTypeOK
    <3>3. ShutdownInv'
      BY <1>1, <1>3, <3>1, <3>2 DEF ShutdownInv
    <3> QED BY <1>5, <3>1, <3>3, NoOutputKeeps
  <2>4. CASE ParkSignalled \/ ParkTimesOut
    <3>1. pc' = pc /\ pos' = pos /\ output' = output /\ worker' = "parked"
      BY <2>4 DEF ParkSignalled, ParkTimesOut, ringVars
    <3>2. OutputInv'
      BY <1>1, <1>5, <3>1 DEF OutputInv, Taken
    <3>3. ShutdownInv'
      BY <1>1, <1>3, <3>1 DEF ShutdownInv
    <3> QED BY <3>2, <3>3
  <2>5. CASE WorkerExits
    <3>1. /\ worker = "drain" /\ pc[Worker] = "deqFalse" /\ Return(Worker) /\ output' = output
          /\ worker' = "exited" /\ fDropped' = 0
      BY <2>5 DEF WorkerExits, reportDropsIfAny
    <3>2. pc'[Worker] = "idle" /\ ~Taken'
      BY <1>1, <3>1 DEF Return, Goto, RingTypeOK, Taken
    <3>3. ~overlap => tail_' = head_'
      BY <1>1, <1>5, <3>1 DEF ShutdownInv
    <3>4. ShutdownInv'
      BY <1>1, <1>3, <3>1, <3>2, <3>3 DEF ShutdownInv
    <3> QED BY <1>5, <3>1, <3>4, NoOutputKeeps
  <2> QED BY <2>1, <2>2, <2>3, <2>4, <2>5 DEF workerThreadFunc
<1> QED BY <1>7, <1>8

\* The destructor's steps keep the invariant.
LEMMA DestructorKeeps ==
  ASSUME LoggerInv, Destructor
  PROVE  CallersInv' /\ OutputInv' /\ ShutdownInv' /\ CountInv'
<1>1. OutputInv /\ CountInv /\ ShutdownInv /\ CallersInv
  BY DEF LoggerInv
<1>2. /\ head_' = head_ /\ tail_' = tail_ /\ pc' = pc /\ pos' = pos /\ claims' = claims
      /\ caller' = caller /\ worker' = worker /\ entered' = entered /\ output' = output
      /\ fDropped' = fDropped /\ reported' = reported
  BY DEF Destructor, ClearRunning, Shutdown, notify_all, Join, ringVars
<1>3. CallersInv' /\ OutputInv'
  BY <1>1, <1>2 DEF CallersInv, OutputInv, Taken
<1>4. CountInv'
  <2>1. Undecided' = Undecided
    BY <1>2 DEF Undecided
  <2> QED BY <1>1, <1>2, <2>1 DEF CountInv
<1>5. ShutdownInv'
  <2>1. CASE ClearRunning
    <3>1. /\ dtor = "no" /\ fRunning /\ fRunning' = FALSE /\ dtor' = "cleared" /\ shutdown_' = shutdown_
          /\ overlap' = (\E p \in Producers : caller[p] # "out")
          /\ worker \notin {"drain", "exited"}
      BY <1>1, <2>1 DEF ClearRunning, ShutdownInv
    <3> QED BY <1>1, <1>2, <3>1 DEF ShutdownInv
  <2>2. CASE Shutdown \/ notify_all \/ Join
    <3>1. /\ dtor # "no" /\ dtor' # "no" /\ fRunning' = fRunning /\ overlap' = overlap
          /\ shutdown_' = TRUE \/ shutdown_' = shutdown_
      BY <2>2 DEF Shutdown, notify_all, Join
    <3>2. fRunning = FALSE
      BY <1>1, <3>1 DEF ShutdownInv
    <3>3. Taken' = Taken
      BY <1>2 DEF Taken
    <3>4. CASE shutdown_' = TRUE
      BY <1>1, <1>2, <3>1, <3>2, <3>3, <3>4 DEF ShutdownInv
    <3>5. CASE shutdown_' = shutdown_
      BY <1>1, <1>2, <3>1, <3>2, <3>3, <3>5 DEF ShutdownInv
    <3> QED BY <3>1, <3>4, <3>5
  <2> QED BY <2>1, <2>2 DEF Destructor
<1> QED BY <1>3, <1>4, <1>5

\* Every step of the logger keeps the invariant.
LEMMA LoggerInvNext == LoggerInv /\ [Next]_vars => LoggerInv'
<1> SUFFICES ASSUME LoggerInv, [Next]_vars PROVE LoggerInv'
  OBVIOUS
<1>1. RingInv'
  BY LoggerStepsRing, RingInvNext DEF LoggerInv
<1>2. CallersInv' /\ OutputInv' /\ ShutdownInv' /\ CountInv'
  <2>1. CASE Next
    BY <2>1, EnterKeeps, EnqueueKeeps, EnqReturnKeeps, EnqStepKeeps, DeqStepKeeps, WorkerKeeps,
       DestructorKeeps DEF Next
  <2>2. CASE UNCHANGED vars
    <3>1. /\ UNCHANGED <<head_, tail_, pc, pos, claims>>
          /\ UNCHANGED <<fRunning, fDropped, shutdown_, caller, worker, dtor, entered, output, reported, overlap>>
      BY <2>2 DEF vars, ringVars, logVars
    <3>2. Undecided' = Undecided /\ Taken' = Taken
      BY <3>1 DEF Undecided, Taken
    <3>3. CallersInv' /\ OutputInv' /\ ShutdownInv'
      BY <3>1, <3>2 DEF LoggerInv, CallersInv, OutputInv, ShutdownInv
    <3>4. CountInv'
      BY <3>1, <3>2 DEF LoggerInv, CountInv
    <3> QED BY <3>3, <3>4
  <2> QED BY <2>1, <2>2
<1> QED BY <1>1, <1>2 DEF LoggerInv

\* The logger never breaks the invariant.
LEMMA LoggerInvariance == Spec => []LoggerInv
<1> QED BY LoggerInvInit, LoggerInvNext, PTL DEF Spec

\* In the logger too, no two threads are at a slot at once, and the worker is
\* handed what was enqueued.
THEOREM LoggerExclusive == Spec => []SlotsExclusive
<1>1. LoggerInv => SlotsExclusive
  BY RingInvExclusive DEF LoggerInv
<1> QED BY <1>1, LoggerInvariance, PTL

\* However many producers log at once, what processLogMessage() writes is the
\* messages in the order of their positions, none skipped and none twice.
THEOREM LoggerOrder == Spec => []WrittenInOrder
<1>1. LoggerInv => WrittenInOrder
  <2> SUFFICES ASSUME LoggerInv PROVE WrittenInOrder
    OBVIOUS
  <2>1. head_ \in Nat /\ tail_ \in Nat /\ Bounds /\ OutputInv
    BY DEF LoggerInv, RingInv, RingTypeOK
  <2>2. Len(output) \in Nat
    BY <2>1 DEF OutputInv
  <2>3. Len(output) <= Len(claims)
    BY <2>1, <2>2 DEF OutputInv, Bounds
  <2> QED BY <2>1, <2>3 DEF OutputInv, WrittenInOrder
<1> QED BY <1>1, LoggerInvariance, PTL

\* A worker that ended, with no producer inside a call when the destructor began,
\* has written every message the logger took or reported it as dropped.
THEOREM LoggerLosesNothing == Spec => []NothingLost
<1>1. LoggerInv => NothingLost
  <2> SUFFICES ASSUME LoggerInv, worker = "exited", ~overlap PROVE Len(output) + reported = entered
    BY DEF NothingLost
  <2>1. /\ head_ \in Nat /\ OutputInv /\ CountInv /\ ShutdownInv /\ CallersInv
    BY DEF LoggerInv, RingInv, RingTypeOK
  <2>2. tail_ = head_ /\ fDropped = 0 /\ ~Taken /\ \A p \in Producers : caller[p] = "out"
    BY <2>1 DEF ShutdownInv
  <2>3. Undecided = {}
    BY <2>1, <2>2 DEF Undecided, CallersInv
  <2>4. Cardinality(Undecided) = 0
    BY <2>3, FS_EmptySet
  <2>5. Len(output) = head_
    BY <2>1, <2>2 DEF OutputInv
  <2> QED BY <2>1, <2>2, <2>4, <2>5 DEF CountInv
<1> QED BY <1>1, LoggerInvariance, PTL
=============================================================================
