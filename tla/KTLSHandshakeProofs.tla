------------------------- MODULE KTLSHandshakeProofs -------------------------
(***************************************************************************)
(* The safety properties of KTLSHandshake, for any number of steps and any *)
(* pattern of refusals.                                                    *)
(***************************************************************************)
EXTENDS KTLSHandshake, SequenceTheorems, TLAPS

\* How the completions that wait constrain each other: a pair is submitted only
\* after the readiness of the last one was handled, and the NOP comes alone.
QueueInv ==
    /\ \A i, j \in 1 .. Len(cq) : cq[i] = "ready" /\ cq[j] = "ready" => i = j
    /\ armed # "none" => \A i \in 1 .. Len(cq) : cq[i] # "ready"
    /\ \A i \in 1 .. Len(cq) : cq[i] = "nop" =>
           Len(cq) = 1 /\ armed = "none" /\ job.pending = 0
    /\ job.fd = "none" => ~job.live

IndInv == TypeOK /\ PendingExact /\ OneOwner /\ QueueInv

-----------------------------------------------------------------------------
(* Handlers *)

HandlerState == [job : JobType, armed : {"none", "poll", "pair"}, steps : 0 .. MaxSteps]

Count(a) == CASE a = "none" -> 0 [] a = "poll" -> 1 [] a = "pair" -> 2

\* A live job that counts n completions to come besides what it has armed.
Counts(x, n) ==
    /\ x \in HandlerState
    /\ x.job.live
    /\ x.job.pending = Count(x.armed) + n
    /\ x.job.fd # "none"
    /\ x.job.state = "HANDSHAKING" <=> x.job.fd = "job"

\* What a handler may leave when n completions are still to come.
Leaves(x, n) ==
    /\ x \in HandlerState
    /\ x.job.live => x.job.pending = Count(x.armed) + n
    /\ ~x.job.live => x.armed = "none" /\ n = 0
    /\ x.job.fd # "none"
    /\ x.job.live /\ x.job.state = "HANDSHAKING" <=> x.job.fd = "job"

\* What is in the kernel for each value of armed.
LEMMA CountValues == Count("none") = 0 /\ Count("poll") = 1 /\ Count("pair") = 2
    BY DEF Count

\* on_error_ takes the descriptor from the job and leaves the count alone.
LEMMA FailedCounts ==
    ASSUME NEW n \in Nat, NEW x, Counts(x, n)
    PROVE  Counts(Failed(x), n) /\ Failed(x).job.state = "ERROR_STATE"
             /\ Failed(x).armed = x.armed
    BY DEF Counts, Failed, HandlerState, JobType

\* on_success_ takes the descriptor from the job and leaves the count alone.
LEMMA SucceededCounts ==
    ASSUME NEW n \in Nat, NEW x, Counts(x, n), NEW y \in Succeeded(x)
    PROVE  Counts(y, n) /\ y.job.state = "KTLS_READY" /\ y.armed = x.armed
<1>1. PICK to \in {"conn", "closed"} :
        y = [x EXCEPT !.job.state = "KTLS_READY", !.job.fd = to]
  BY DEF Succeeded, IfRefused
<1>2. x = [job |-> x.job, armed |-> x.armed, steps |-> x.steps]
  BY DEF Counts, HandlerState
<1>3. y = [job |-> [x.job EXCEPT !.state = "KTLS_READY", !.fd = to],
           armed |-> x.armed, steps |-> x.steps]
  BY <1>1, <1>2
<1> QED  BY <1>3 DEF Counts, HandlerState, JobType

\* submitPollOperation counts what it arms.
LEMMA SubmitCounts ==
    ASSUME NEW n \in Nat, NEW x, Counts(x, n), x.armed = "none", x.steps < MaxSteps,
           x.job.state = "HANDSHAKING", NEW y \in submitPollOperation(x)
    PROVE  Counts(y, n)
<1>a. x \in HandlerState /\ x.job.pending = n
  BY CountValues DEF Counts
<1>b. /\ x.steps + 1 \in 0 .. MaxSteps
      /\ [x.job EXCEPT !.pending = @ + 1] \in JobType
      /\ [x.job EXCEPT !.pending = @ + 2] \in JobType
  BY <1>a, BoundsAssumption DEF HandlerState, JobType
<1>1. ASSUME NEW z,
             z = [x EXCEPT !.armed = "pair", !.job.pending = @ + 2, !.steps = @ + 1]
      PROVE  Counts(z, n)
  <2>1. z.armed = "pair" /\ z.job = [x.job EXCEPT !.pending = @ + 2] /\ z.steps = x.steps + 1
    BY <1>a, <1>1 DEF HandlerState, JobType
  <2>2. z = [job |-> z.job, armed |-> z.armed, steps |-> z.steps]
    BY <1>a, <1>1 DEF HandlerState
  <2>3. z \in HandlerState
    BY <1>b, <2>1, <2>2 DEF HandlerState
  <2> QED  BY <1>a, <2>1, <2>3, CountValues DEF Counts, HandlerState, JobType
<1>2. ASSUME NEW z,
             z = [x EXCEPT !.armed = "poll", !.job.pending = @ + 1, !.steps = @ + 1]
      PROVE  Counts(z, n)
  <2>1. z.armed = "poll" /\ z.job = [x.job EXCEPT !.pending = @ + 1] /\ z.steps = x.steps + 1
    BY <1>a, <1>2 DEF HandlerState, JobType
  <2>2. z = [job |-> z.job, armed |-> z.armed, steps |-> z.steps]
    BY <1>a, <1>2 DEF HandlerState
  <2>3. z \in HandlerState
    BY <1>b, <2>1, <2>2 DEF HandlerState
  <2> QED  BY <1>a, <2>1, <2>3, CountValues DEF Counts, HandlerState, JobType
<1> QED  BY <1>1, <1>2, FailedCounts DEF submitPollOperation, IfRefused

\* A step of the handshake keeps the count.
LEMMA StepCounts ==
    ASSUME NEW n \in Nat, NEW x, Counts(x, n), x.armed = "none",
           x.job.state = "HANDSHAKING", NEW y \in performHandshakeStep(x)
    PROVE  Counts(y, n)
<1>1. y = Failed(x) \/ y \in Succeeded(x) \/ (x.steps < MaxSteps /\ y \in submitPollOperation(x))
  BY DEF performHandshakeStep, SslAccept
<1> QED  BY <1>1, FailedCounts, SucceededCounts, SubmitCounts

\* A job with an outcome is freed exactly when it has nothing to come.
LEMMA FreedLeaves ==
    ASSUME NEW n \in Nat, NEW x, Counts(x, n), x.job.state # "HANDSHAKING"
    PROVE  Leaves(FreedIfDrained(x), n) /\ FreedIfDrained(x).armed = x.armed
<1>1. Count(x.armed) \in Nat /\ (Count(x.armed) = 0 => x.armed = "none")
  BY CountValues DEF Counts, HandlerState
<1>2. PICK b \in BOOLEAN : b <=> x.job.pending > 0
  OBVIOUS
<1>3. FreedIfDrained(x) = [x EXCEPT !.job.live = b]
  BY <1>2 DEF FreedIfDrained
<1>4. [x EXCEPT !.job.live = b]
        = [job |-> [x.job EXCEPT !.live = b], armed |-> x.armed, steps |-> x.steps]
  BY DEF Counts, HandlerState, JobType
<1>5. x.job.pending > 0 \/ x.job.pending = 0
  BY DEF Counts, HandlerState, JobType
<1> QED  BY <1>1, <1>2, <1>3, <1>4, <1>5 DEF Leaves, Counts, HandlerState, JobType

\* Whatever completion is handled, the job is left with an exact count, or freed
\* with nothing to come.
LEMMA CompletionLeaves ==
    ASSUME NEW n \in Nat, NEW x, Counts(x, n), NEW res \in Results,
           res \in {"ready", "nop"} => x.armed = "none",
           NEW y \in handleCompletion(x, res)
    PROVE  Leaves(y, n) /\ (y.armed = x.armed \/ res \in {"ready", "nop"})
<1>0. ASSUME NEW z, Counts(z, n)  PROVE Leaves(z, n)
  BY <1>0 DEF Counts, Leaves
<1>1. CASE x.job.state # "HANDSHAKING"
  BY <1>1, FreedLeaves DEF handleCompletion
<1>2. CASE x.job.state = "HANDSHAKING" /\ res = "cancelled"
  BY <1>0, <1>2 DEF handleCompletion
<1>3. CASE x.job.state = "HANDSHAKING" /\ res \in {"expired", "late"}
  BY <1>3, FreedLeaves, FailedCounts DEF handleCompletion
<1>4. CASE x.job.state = "HANDSHAKING" /\ res \in {"ready", "nop"}
  <2>1. PICK z \in performHandshakeStep(x) :
          y = IF z.job.state = "ERROR_STATE" THEN FreedIfDrained(z) ELSE z
    BY <1>4 DEF handleCompletion
  <2>2. Counts(z, n)
    BY <1>4, StepCounts
  <2>3. CASE z.job.state = "ERROR_STATE"
    BY <1>4, <2>1, <2>2, <2>3, FreedLeaves
  <2>4. CASE z.job.state # "ERROR_STATE"
    BY <1>4, <2>1, <2>2, <2>4, <1>0
  <2> QED  BY <2>3, <2>4
<1> QED  BY <1>1, <1>2, <1>3, <1>4 DEF Results

-----------------------------------------------------------------------------
(* Invariance *)

\* A freshly registered job has the NOP to come and counts nothing.
LEMMA NewConnectionInv == IndInv /\ HandleNewConnection => IndInv'
<1> SUFFICES ASSUME IndInv, HandleNewConnection  PROVE IndInv'
  OBVIOUS
<1>0. ~job.live /\ armed = "none" /\ cq = << >>
  BY DEF IndInv, QueueInv, PendingExact, HandleNewConnection
<1>1. CASE job' = [job EXCEPT !.fd = "closed"] /\ UNCHANGED <<armed, cq, steps, server>>
  BY <1>0, <1>1 DEF IndInv, TypeOK, JobType, PendingExact, OneOwner, QueueInv, Nop, Armed
<1>2. CASE /\ \E y \in prepareSqe([Now EXCEPT !.job = NewJob]) : Become(y)
           /\ cq' = <<"nop">> /\ UNCHANGED server
  <2> DEFINE x == [job |-> NewJob, armed |-> "none", steps |-> steps]
  <2>1. [Now EXCEPT !.job = NewJob] = x
    BY <1>0 DEF Now
  <2>2. Counts(x, 0) /\ x.armed = "none"
    BY CountValues DEF Counts, NewJob, HandlerState, JobType, IndInv, TypeOK
  <2> HIDE DEF x
  <2>3. PICK y : (y \in Succeeded(x) \/ y = Failed(x) \/ y = x) /\ Become(y)
    BY <1>2, <2>1 DEF prepareSqe, SslAccept
  <2>4. Counts(y, 0) /\ y.armed = "none"
    BY <2>2, <2>3, FailedCounts, SucceededCounts
  <2>5. job' = y.job /\ armed' = "none" /\ steps' = y.steps /\ y.job.pending = 0
    BY <2>3, <2>4, CountValues DEF Become, Counts
  <2>6. Len(cq') = 1 /\ Head(cq') = "nop" /\ cq'[1] = "nop" /\ cq' # << >>
    BY <1>2
  <2>7. TypeOK'
    BY <1>2, <2>4, <2>5 DEF IndInv, TypeOK, Counts, HandlerState, Results
  <2>8. PendingExact'
    BY <2>4, <2>5, <2>6 DEF PendingExact, Nop, Armed, Counts
  <2>9. OneOwner' /\ QueueInv'
    BY <2>4, <2>5, <2>6 DEF OneOwner, QueueInv, Counts
  <2> QED  BY <2>7, <2>8, <2>9 DEF IndInv
<1> QED  BY <1>1, <1>2 DEF HandleNewConnection

\* The kernel moves what is armed to the completions that wait.
LEMMA CompletesInv ==
    ASSUME IndInv, armed # "none", UNCHANGED <<job, server, steps>>, NEW results \in Seq(Results),
           Completes(results), Len(results) = Armed,
           \A i \in 1 .. Len(results) : results[i] # "nop",
           \A i, j \in 1 .. Len(results) : results[i] = "ready" /\ results[j] = "ready" => i = j
    PROVE  IndInv'
<1>1. cq \in Seq(Results) /\ armed' = "none" /\ cq' = cq \o results
  BY DEF IndInv, TypeOK, Completes
<1>2. cq' \in Seq(Results) /\ Len(cq') = Len(cq) + Len(results)
  BY <1>1, ConcatProperties
<1>3. \A i \in 1 .. Len(cq') :
        cq'[i] = IF i <= Len(cq) THEN cq[i] ELSE results[i - Len(cq)]
  BY <1>1
<1>4. \A i \in 1 .. Len(cq) : cq[i] # "nop" /\ cq[i] # "ready"
  BY DEF IndInv, QueueInv
<1>5. \A i \in 1 .. Len(cq') : cq'[i] # "nop"
  BY <1>1, <1>2, <1>3, <1>4
<1>6. \A i, j \in 1 .. Len(cq') : cq'[i] = "ready" /\ cq'[j] = "ready" => i = j
  <2> SUFFICES ASSUME NEW i \in 1 .. Len(cq'), NEW j \in 1 .. Len(cq'),
                      cq'[i] = "ready", cq'[j] = "ready"
               PROVE  i = j
    OBVIOUS
  <2>1. i > Len(cq) /\ j > Len(cq)
    BY <1>1, <1>2, <1>3, <1>4
  <2>2. results[i - Len(cq)] = "ready" /\ results[j - Len(cq)] = "ready"
    BY <1>1, <1>2, <1>3, <2>1
  <2> QED  BY <1>1, <1>2, <2>1, <2>2
<1>7. Nop = 0 /\ Nop' = 0
  <2>1. cq # << >> => Head(cq) = cq[1] /\ 1 \in 1 .. Len(cq)
    BY <1>1
  <2>2. cq' # << >> => Head(cq') = cq'[1] /\ 1 \in 1 .. Len(cq')
    BY <1>2
  <2> QED  BY <2>1, <2>2, <1>4, <1>5 DEF Nop
<1>8. job.live /\ job.pending = Armed + Len(cq)
  BY <1>7, <1>1 DEF IndInv, TypeOK, JobType, PendingExact
<1>9. PendingExact'
  <2>1. Armed' = 0
    BY <1>1 DEF Armed
  <2>2. job'.pending = Len(cq') /\ job'.live /\ Len(cq') \in Nat
    BY <1>1, <1>2, <1>8
  <2> QED  BY <1>7, <2>1, <2>2 DEF PendingExact
<1>10. QueueInv'
  BY <1>1, <1>5, <1>6 DEF QueueInv, IndInv
<1> QED  BY <1>1, <1>2, <1>9, <1>10 DEF IndInv, TypeOK, OneOwner

\* A readiness or an expiry leaves nothing armed and every completion counted.
LEMMA KernelInv == IndInv /\ (PollReady \/ TimeoutExpires) => IndInv'
<1> SUFFICES ASSUME IndInv, PollReady \/ TimeoutExpires  PROVE IndInv'
  OBVIOUS
<1>1. armed \in {"poll", "pair"} /\ UNCHANGED <<job, server, steps>>
  BY DEF PollReady, TimeoutExpires, IndInv, TypeOK
<1>2. CASE armed = "poll"
  <2>1. Completes(<<"ready">>) /\ Armed = 1
    BY <1>2 DEF PollReady, TimeoutExpires, Armed
  <2>2. <<"ready">> \in Seq(Results) /\ Len(<<"ready">>) = 1
    BY DEF Results
  <2>3. \A i \in 1 .. Len(<<"ready">>) : i = 1 /\ <<"ready">>[i] # "nop"
    BY <2>2
  <2> QED  BY <1>1, <1>2, <2>1, <2>2, <2>3, CompletesInv
<1>3. CASE armed = "pair"
  <2>1. PICK r \in {<<"ready", "cancelled">>, <<"expired", "cancelled">>,
                    <<"cancelled", "expired">>, <<"ready", "late">>, <<"late", "ready">>} :
            Completes(r)
    BY <1>3 DEF PollReady, TimeoutExpires
  <2>a. PICK a \in Results, b \in Results :
            r = <<a, b>> /\ a # "nop" /\ b # "nop" /\ ~(a = "ready" /\ b = "ready")
    <3>1. CASE r = <<"ready", "cancelled">>  BY <3>1 DEF Results
    <3>2. CASE r = <<"expired", "cancelled">>  BY <3>2 DEF Results
    <3>3. CASE r = <<"cancelled", "expired">>  BY <3>3 DEF Results
    <3>4. CASE r = <<"ready", "late">>  BY <3>4 DEF Results
    <3>5. CASE r = <<"late", "ready">>  BY <3>5 DEF Results
    <3> QED  BY <3>1, <3>2, <3>3, <3>4, <3>5
  <2>2. r \in Seq(Results) /\ Len(r) = 2 /\ r[1] # "nop" /\ r[2] # "nop"
          /\ ~(r[1] = "ready" /\ r[2] = "ready")
    BY <2>a
  <2>3. Armed = 2
    BY <1>3 DEF Armed
  <2>4. \A i \in 1 .. Len(r) : i = 1 \/ i = 2
    BY <2>2
  <2> QED  BY <1>1, <1>3, <2>1, <2>2, <2>3, <2>4, CompletesInv
<1> QED  BY <1>1, <1>2, <1>3

\* Handling a completion leaves the others, and a job that counts them or is free.
LEMMA CompletionInv == IndInv /\ HandleCompletion => IndInv'
<1> SUFFICES ASSUME IndInv, HandleCompletion  PROVE IndInv'
  OBVIOUS
<1> DEFINE x == [Now EXCEPT !.job.pending = IF @ > 0 THEN @ - 1 ELSE 0]
<1> DEFINE n == Len(Tail(cq))
<1>1. /\ cq \in Seq(Results) /\ cq # << >> /\ cq' = Tail(cq) /\ server' = server
      /\ Head(cq) = cq[1] /\ Head(cq) \in Results
  BY DEF IndInv, TypeOK, HandleCompletion
<1>2. /\ cq' \in Seq(Results) /\ n \in Nat /\ Len(cq) = n + 1 /\ Len(cq') = n
      /\ \A i \in 1 .. n : cq'[i] = cq[i + 1] /\ i + 1 \in 1 .. Len(cq)
  BY <1>1, HeadTailProperties
<1>n. Len(cq) = 1 => Len(cq') = 0
  BY <1>2
<1>3. job.live /\ job.pending + Nop = Armed + Len(cq)
  BY <1>1 DEF IndInv, PendingExact
<1>4. Armed = Count(armed) /\ Count(armed) \in {0, 1, 2}
  BY CountValues DEF IndInv, TypeOK, Armed
<1>5. (IF job.pending > 0 THEN job.pending - 1 ELSE 0) = Count(armed) + n
  <2>1. CASE Head(cq) = "nop"
    <3>1. job.pending = 0 /\ Len(cq) = 1 /\ armed = "none"
      BY <1>1, <1>2, <2>1 DEF IndInv, QueueInv
    <3>2. n = 0
      BY <1>2, <3>1
    <3> HIDE DEF n
    <3>3. Count(armed) + n = 0
      BY <3>1, <3>2, CountValues
    <3> QED  BY <3>1, <3>3
  <2>2. CASE Head(cq) # "nop"
    <3>1. Nop = 0 /\ job.pending \in Nat
      BY <2>2 DEF Nop, IndInv, TypeOK, JobType
    <3> QED  BY <3>1, <1>2, <1>3, <1>4
  <2> QED  BY <2>1, <2>2
<1>6. Counts(x, n) /\ x.armed = armed
  <2>1. x = [job |-> [job EXCEPT !.pending = IF job.pending > 0 THEN job.pending - 1 ELSE 0],
             armed |-> armed, steps |-> steps]
    BY DEF Now
  <2> HIDE DEF x, n
  <2>2. job \in JobType /\ Count(armed) + n \in Nat
    BY <1>2, <1>4 DEF IndInv, TypeOK
  <2> QED  BY <2>1, <2>2, <1>3, <1>5 DEF Counts, HandlerState, JobType, IndInv, TypeOK, OneOwner, QueueInv
<1>7. Head(cq) \in {"ready", "nop"} => armed = "none"
  BY <1>1, <1>2 DEF IndInv, QueueInv
<1>8. PICK y \in handleCompletion(x, Head(cq)) : Become(y)
  BY DEF HandleCompletion
<1> HIDE DEF x, n
<1>9. Leaves(y, n) /\ (y.armed = armed \/ Head(cq) \in {"ready", "nop"})
  BY <1>1, <1>2, <1>6, <1>7, <1>8, CompletionLeaves
<1>10. job' = y.job /\ armed' = y.armed /\ steps' = y.steps
  BY <1>8 DEF Become
<1>11. TypeOK'
  BY <1>1, <1>2, <1>9, <1>10 DEF IndInv, TypeOK, Leaves, HandlerState
<1>12. \A i \in 1 .. Len(cq') : cq'[i] # "nop"
  BY <1>2 DEF IndInv, QueueInv
<1>13. PendingExact'
  <2>1. Nop' = 0
    <3>1. cq' # << >> => Head(cq') = cq'[1] /\ 1 \in 1 .. Len(cq')
      BY <1>2
    <3> QED  BY <3>1, <1>12 DEF Nop
  <2>2. Armed' = Count(y.armed) /\ Count(y.armed) \in {0, 1, 2}
    BY <1>9, <1>10, CountValues DEF Armed, Leaves, HandlerState
  <2>3. n = 0 => cq' = << >>
    BY <1>2
  <2>4. job'.live => job'.pending = Armed' + Len(cq') /\ job'.pending \in Nat
    BY <1>2, <1>9, <1>10, <2>2 DEF Leaves, HandlerState, JobType
  <2>5. ~job'.live => armed' = "none" /\ cq' = << >>
    BY <1>9, <1>10, <2>3 DEF Leaves
  <2> QED  BY <2>1, <2>4, <2>5 DEF PendingExact
<1>14. OneOwner'
  BY <1>9, <1>10 DEF OneOwner, Leaves
<1>15. armed' # "none" => \A i \in 1 .. Len(cq') : cq'[i] # "ready"
  <2>1. CASE Head(cq) \notin {"ready", "nop"}
    BY <1>2, <1>9, <1>10, <2>1 DEF IndInv, QueueInv
  <2>2. CASE Head(cq) = "nop"
    <3>1. Len(cq) = 1
      BY <1>1, <1>2, <2>2 DEF IndInv, QueueInv
    <3> QED  BY <1>n, <3>1
  <2>3. CASE Head(cq) = "ready"
    <3> SUFFICES ASSUME NEW i \in 1 .. Len(cq'), cq'[i] = "ready"  PROVE FALSE
      OBVIOUS
    <3>1. cq[i + 1] = "ready" /\ cq[1] = "ready" /\ i + 1 \in 1 .. Len(cq) /\ 1 \in 1 .. Len(cq)
      BY <1>1, <1>2, <2>3
    <3>2. i + 1 = 1
      BY <3>1 DEF IndInv, QueueInv
    <3> QED  BY <1>2, <3>2
  <2> QED  BY <2>1, <2>2, <2>3
<1>16. \A i, j \in 1 .. Len(cq') : cq'[i] = "ready" /\ cq'[j] = "ready" => i = j
  <2> SUFFICES ASSUME NEW i \in 1 .. Len(cq'), NEW j \in 1 .. Len(cq'),
                      cq'[i] = "ready", cq'[j] = "ready"
               PROVE  i = j
    OBVIOUS
  <2>1. i + 1 = j + 1
    BY <1>2 DEF IndInv, QueueInv
  <2> QED  BY <1>2, <2>1
<1>17. job'.fd # "none"
  BY <1>9, <1>10 DEF Leaves
<1>18. QueueInv'
  BY <1>12, <1>15, <1>16, <1>17 DEF QueueInv
<1> QED  BY <1>11, <1>13, <1>14, <1>18 DEF IndInv

\* The invariant holds of every reachable state.
THEOREM Invariance == Spec => []IndInv
<1>1. Init => IndInv
  <2> SUFFICES ASSUME Init  PROVE IndInv
    OBVIOUS
  <2>1. /\ job = [live |-> FALSE, state |-> "HANDSHAKING", pending |-> 0, fd |-> "none"]
        /\ armed = "none" /\ cq = << >> /\ Len(cq) = 0 /\ server = "Running" /\ steps = 0
    BY DEF Init, NewJob
  <2>2. TypeOK
    BY <2>1, BoundsAssumption DEF TypeOK, JobType
  <2>3. PendingExact /\ OneOwner /\ QueueInv
    BY <2>1 DEF PendingExact, OneOwner, QueueInv
  <2> QED  BY <2>2, <2>3 DEF IndInv
<1>2. IndInv /\ [Next]_vars => IndInv'
  <2> SUFFICES ASSUME IndInv, [Next]_vars  PROVE IndInv'
    OBVIOUS
  <2>1. CASE Stop
    BY <2>1 DEF Stop, IndInv, TypeOK, PendingExact, OneOwner, QueueInv, Nop, Armed
  <2>2. CASE UNCHANGED vars
    BY <2>2 DEF vars, IndInv, TypeOK, PendingExact, OneOwner, QueueInv, Nop, Armed
  <2> QED  BY <2>1, <2>2, NewConnectionInv, CompletionInv, KernelInv DEF Next
<1> QED  BY <1>1, <1>2, PTL DEF Spec

\* KTLSJob::pending_operations_ counts exactly what is in flight, however many
\* steps the handshake takes, and a freed job is named by no operation.
THEOREM PendingExactHolds == Spec => []PendingExact
<1>1. IndInv => PendingExact
  BY DEF IndInv
<1> QED  BY <1>1, Invariance, PTL

\* The job owns its descriptor while it is handshaking, and never after.
THEOREM OneOwnerHolds == Spec => []OneOwner
<1>1. IndInv => OneOwner
  BY DEF IndInv
<1> QED  BY <1>1, Invariance, PTL

\* No completion, late timeout or stop touches a descriptor that on_success_ or
\* on_error_ has been given.
THEOREM GivenAwayHolds == Spec => GivenAwayForGood
<1>1. IndInv /\ [Next]_vars => [job.fd \in {"conn", "closed"} => job'.fd = job.fd]_vars
  <2> SUFFICES ASSUME IndInv, Next, job.fd \in {"conn", "closed"}  PROVE job'.fd = job.fd
    OBVIOUS
  <2>1. CASE HandleCompletion
    <3>1. job.live /\ job.state # "HANDSHAKING"
      BY <2>1 DEF HandleCompletion, IndInv, PendingExact, OneOwner
    <3> DEFINE x == [Now EXCEPT !.job.pending = IF @ > 0 THEN @ - 1 ELSE 0]
    <3>2. x.job.state = job.state /\ x.job.fd = job.fd
            /\ FreedIfDrained(x).job.fd = job.fd
      BY DEF Now, FreedIfDrained, IndInv, TypeOK, JobType
    <3>3. job' = FreedIfDrained(x).job
      BY <2>1, <3>1, <3>2 DEF HandleCompletion, handleCompletion, Become
    <3> QED  BY <3>2, <3>3
  <2> QED  BY <2>1 DEF Next, HandleNewConnection, Stop, PollReady, TimeoutExpires
<1> QED  BY <1>1, Invariance, PTL DEF Spec, GivenAwayForGood

=============================================================================
