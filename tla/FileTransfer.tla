----------------------------- MODULE FileTransfer -----------------------------
(***************************************************************************)
(* A file response: HTTPFileJob, which opens the file, resolves the range, *)
(* writes the head and hands over to SpliceFileJob, which moves the bytes  *)
(* through a pipe with pairs of linked splices (HTTPFileJob.cpp,           *)
(* SpliceFileJob.cpp, RangeRequest.cpp).                                   *)
(*                                                                         *)
(* The kernel runs the submitted splices in order, and the ring thread     *)
(* handles their completions in order, later.  A byte is its position in   *)
(* the file.  WriteJob, which writes the head, is in HttpConnection.       *)
(***************************************************************************)
EXTENDS RangeRequest

CONSTANTS
    Requests,      \* what may be asked for: [range, offset, length]
    FileSizes,     \* sizes of the file when it is opened
    Chunk,         \* SPLICE_CHUNK_SIZE
    Page,          \* bytes of a page
    PipeSlots,     \* pages, or parts of pages, that a pipe holds
    Severs,        \* whether a short splice may, or may not, cancel its partner
    Faults,        \* results and refusals that may happen
    MaxAgain       \* bound: splices that end with EAGAIN

\* "file": the file cannot be opened, or is no regular file; "truncate": it
\* shrinks during the transfer; "error": an operation fails; "again": one ends with
\* EAGAIN; "refused": a pool, the pipes or the submission queue are exhausted;
\* "headers": the handler's headers cannot be written.
FaultKinds == {"file", "truncate", "error", "again", "refused", "headers"}

ASSUME SizesAssumption ==
    /\ FileSizes \subseteq Nat
    /\ Chunk \in Nat \ {0} /\ Page \in Nat \ {0} /\ PipeSlots \in Nat \ {0}
    /\ MaxAgain \in Nat
    /\ \A q \in Requests : q.offset \in 0 .. Word - 1 /\ q.length \in 0 .. Word - 1
ASSUME FaultsAssumption == Faults \subseteq FaultKinds /\ Severs \subseteq BOOLEAN
ASSUME NoneAssumption == None \notin Nat

VARIABLES
    http,     \* the HTTPFileJob
    splice,   \* its SpliceFileJob
    pipe,     \* bytes in the pipe
    ops,      \* splices submitted that the kernel has not run
    cq,       \* their results that have not been handled
    disk,     \* size of the file on disk
    wire,     \* bytes of the body that the client's socket took
    again     \* splices that ended with EAGAIN

vars == <<http, splice, pipe, ops, cq, disk, wire, again>>

-----------------------------------------------------------------------------
(* Ranges *)

Least(a, b) == IF a <= b THEN a ELSE b

\* Mutant: a length beyond the end of the file is taken as it is.
openFile_NoClamp(q, size) ==
    LET part == IF q.range = None THEN q ELSE resolve(q.range, size)
    IN  IF part = None THEN None
        ELSE IF part.offset > size THEN None
        ELSE LET length == IF part.length = 0 THEN size - part.offset ELSE part.length
             IN  [offset |-> part.offset, length |-> length,
                  partial |-> q.range # None \/ part.offset > 0 \/ length < size]

\* HTTPFileJob::openFile, of a regular file: what will be sent, or None if the
\* range cannot be satisfied.
openFile(q, size) ==
    LET part == IF q.range = None THEN q ELSE resolve(q.range, size)
    IN  IF part = None THEN None
        ELSE IF part.offset > size THEN None
        ELSE LET length == IF part.length = 0 \/ (part.offset + part.length) % Word > size
                           THEN size - part.offset ELSE part.length
             IN  [offset |-> part.offset, length |-> length,
                  partial |-> q.range # None \/ part.offset > 0 \/ length < size]

-----------------------------------------------------------------------------
(* State *)

NoSplice ==
    [live |-> FALSE, state |-> "CreatingPipe", offset |-> 0, remaining |-> 0,
     bytes_in_pipe |-> 0, pending |-> 0, write_end |-> FALSE, error_pending |-> FALSE,
     retry_pending |-> FALSE, deferred_error |-> FALSE, eof_reached |-> FALSE]

Init ==
    /\ http = [state |-> "Opening", offset |-> 0, length |-> 0, partial |-> FALSE,
               file |-> FALSE, head |-> FALSE, calls |-> 0, outcome |-> "pending",
               fault |-> FALSE]
    /\ splice = NoSplice
    /\ pipe = << >> /\ ops = << >> /\ cq = << >> /\ wire = << >>
    /\ disk \in FileSizes
    /\ again = 0

\* The part of the state that a handler changes; a handler is an operator from one
\* to the set of those it may leave.
Now == [http |-> http, splice |-> splice, ops |-> ops]

Become(x) == http' = x.http /\ splice' = x.splice /\ ops' = x.ops

Faulty(x) == [x EXCEPT !.http.fault = TRUE]

IfRefused(S) == IF "refused" \in Faults THEN S ELSE {}

\* on_complete_ or on_error_ of the connection, after which the HTTPFileJob frees
\* itself.
Report(x, outcome) ==
    [x EXCEPT !.http.outcome = outcome, !.http.calls = @ + 1, !.http.file = FALSE,
              !.http.state = "Done"]

-----------------------------------------------------------------------------
(* HTTPFileJob *)

\* sendError: a short reply instead of the file.
sendError(x) ==
    {[x EXCEPT !.http.state = "SendingError", !.http.file = FALSE]}
      \cup IfRefused({Faulty(Report(x, "failed"))})

\* The handler's headers are refused, the write cannot be submitted, or it is.
startSendingHeaders(x) ==
    (IF "headers" \in Faults THEN sendError(x) ELSE {})
      \cup IfRefused(sendError(Faulty(x)) \cup {Faulty(Report(x, "failed"))})
      \cup {[x EXCEPT !.http.state = "SendingHeaders"]}

\* HTTPFileJob::start.
Start(q) ==
    LET part == openFile(q, disk)
        opened == [Now EXCEPT !.http.offset = part.offset, !.http.length = part.length,
                              !.http.partial = part.partial, !.http.file = TRUE]
    IN  /\ http.state = "Opening"
        /\ \E y \in (IF "file" \in Faults THEN sendError(Now) ELSE {})
                    \cup IF part = None THEN sendError(Now) ELSE startSendingHeaders(opened) :
             Become(y)
        /\ UNCHANGED <<pipe, cq, disk, wire, again>>

\* The WriteJob of the reply or of the head fails.
WriteFailed ==
    /\ "error" \in Faults
    /\ http.state \in {"SendingError", "SendingHeaders"}
    /\ Become(Faulty(Report(Now, "failed")))
    /\ UNCHANGED <<pipe, cq, disk, wire, again>>

ErrorSent ==
    /\ http.state = "SendingError"
    /\ Become(Report(Now, "complete"))
    /\ UNCHANGED <<pipe, cq, disk, wire, again>>

-----------------------------------------------------------------------------
(* SpliceFileJob *)

\* A callback fires, and the job goes back to its pool; its pipe is closed.
Ends(x, outcome) == [Report(x, outcome) EXCEPT !.splice = NoSplice]

\* The res of a completion: bytes moved, or an error.
Moved(n) == [err |-> "none", bytes |-> n]
Error(e) == [err |-> e, bytes |-> 0]

FileLeg(k, n) == [leg |-> "file", offset |-> k.offset, length |-> n]
SocketLeg(n) == [leg |-> "socket", offset |-> 0, length |-> n]

startLinkedSplice(x) ==
    LET k == x.splice
        chunk_size == Least(Chunk, k.remaining)
    IN  IF chunk_size = 0 THEN {Ends(x, "complete")}
        ELSE {[x EXCEPT !.splice.state = "SplicingFileToPipe", !.splice.pending = 2,
                        !.ops = <<FileLeg(k, chunk_size), SocketLeg(chunk_size)>>]}
             \cup IfRefused({Faulty(Ends(x, "failed")),
                             Faulty([x EXCEPT !.splice.error_pending = TRUE,
                                              !.splice.pending = 1,
                                              !.ops = <<FileLeg(k, chunk_size)>>])})

\* Of drainPipeToSocket and resubmit: all bytes in the pipe, to the socket.
drainPipeToSocket(x) ==
    {[x EXCEPT !.splice.state = "SplicingPipeToSocket", !.splice.pending = 1,
               !.ops = <<SocketLeg(x.splice.bytes_in_pipe)>>]}
      \cup IfRefused({Faulty(Ends(x, "failed"))})

\* The head was written: startSendingFile, SpliceFileJob::start.
HeadersSent ==
    LET x == [Now EXCEPT !.http.state = "SendingFile", !.http.head = TRUE,
                         !.splice = [NoSplice EXCEPT !.live = TRUE, !.write_end = TRUE,
                                                     !.offset = http.offset,
                                                     !.remaining = http.length]]
    IN  /\ http.state = "SendingHeaders"
        /\ \E y \in startLinkedSplice(x) \cup IfRefused({Faulty(Ends(x, "failed"))}) :
             Become(y)
        /\ UNCHANGED <<pipe, cq, disk, wire, again>>

\* The linked partner was cancelled: act on what the first leg recorded.
Cancelled(x) ==
    IF x.splice.pending > 0 THEN {x}
    ELSE IF x.splice.retry_pending
    THEN startLinkedSplice([x EXCEPT !.splice.retry_pending = FALSE])
    ELSE {Ends(x, "failed")}

Again(x) ==
    IF x.splice.pending > 0 THEN {[x EXCEPT !.splice.retry_pending = TRUE]}
    ELSE IF x.splice.error_pending THEN {Ends(x, "failed")}
    ELSE drainPipeToSocket(x)

\* Mutant: the job is freed although its partner is in flight.
Failed_Early(x) == {Faulty(Ends(x, "failed"))}

Failed(x) ==
    IF x.splice.pending > 0 THEN {Faulty([x EXCEPT !.splice.deferred_error = TRUE])}
    ELSE {Faulty(Ends(x, "failed"))}

\* Mutant: the next chunk is read from where this one was.
FromFile_SameOffset(x, n) ==
    {[x EXCEPT !.splice.bytes_in_pipe = @ + n, !.splice.remaining = @ - Least(@, n),
               !.splice.state = "SplicingPipeToSocket"]}

\* Mutant: the write end of the pipe stays open.
FromFile_KeepWriteEnd(x, n) ==
    IF n = 0
    THEN {[x EXCEPT !.splice.eof_reached = TRUE, !.splice.deferred_error = TRUE,
                    !.splice.state = "SplicingPipeToSocket"]}
    ELSE {[x EXCEPT !.splice.offset = @ + n, !.splice.bytes_in_pipe = @ + n,
                    !.splice.remaining = @ - Least(@, n),
                    !.splice.state = "SplicingPipeToSocket"]}

\* The file to pipe leg moved n bytes; none means that the file was truncated.
FromFile(x, n) ==
    IF n = 0
    THEN {[x EXCEPT !.splice.eof_reached = TRUE, !.splice.deferred_error = TRUE,
                    !.splice.write_end = FALSE, !.splice.state = "SplicingPipeToSocket"]}
    ELSE {[x EXCEPT !.splice.offset = @ + n, !.splice.bytes_in_pipe = @ + n,
                    !.splice.remaining = @ - Least(@, n),
                    !.splice.state = "SplicingPipeToSocket"]}

\* Mutant: what a short write left in the pipe is forgotten.
ToSocket_NoDrain(x, n) ==
    LET y == [x EXCEPT !.splice.bytes_in_pipe = @ - n]
    IN  IF y.splice.eof_reached /\ y.splice.remaining > 0 THEN {Ends(y, "failed")}
        ELSE startLinkedSplice(y)

\* The pipe to socket leg moved n bytes.
ToSocket(x, n) ==
    LET y == [x EXCEPT !.splice.bytes_in_pipe = @ - n]
    IN  IF y.splice.bytes_in_pipe > 0 THEN drainPipeToSocket(y)
        ELSE IF y.splice.eof_reached /\ y.splice.remaining > 0 THEN {Ends(y, "failed")}
        ELSE startLinkedSplice(y)

\* SpliceFileJob::handleCompletion, which knows the leg only by its own state.
handleCompletion(x, res) ==
    IF res.err = "ECANCELED" THEN Cancelled(x)
    ELSE IF res.err = "EAGAIN" THEN Again(x)
    ELSE IF res.err = "error" THEN Failed(x)
    ELSE IF x.splice.error_pending /\ x.splice.pending = 0 THEN {Ends(x, "failed")}
    ELSE IF x.splice.state = "SplicingFileToPipe" THEN FromFile(x, res.bytes)
    ELSE ToSocket(x, res.bytes)

HandleCompletion ==
    /\ cq # << >>
    /\ cq' = Tail(cq)
    /\ \E x \in handleCompletion([Now EXCEPT !.splice.pending = @ - 1], Head(cq)) :
         /\ Become(x)
         /\ pipe' = IF x.splice.live THEN pipe ELSE << >>
    /\ UNCHANGED <<disk, wire, again>>

-----------------------------------------------------------------------------
(* The kernel *)

\* The first submitted operation ended with this result.  If it failed, or is short
\* and the kernel severs the chain then, the one linked to it is cancelled.
Ran(result, fails) ==
    IF fails /\ Head(ops).leg = "file" /\ Len(ops) = 2
    THEN ops' = << >> /\ cq' = cq \o <<result, Error("ECANCELED")>>
    ELSE ops' = Tail(ops) /\ cq' = Append(cq, result)

\* A pipe holds one page, or part of one, in a slot: a transfer that does not
\* start at a page fills the slots with fewer bytes.
Room(offset) == (PipeSlots * Page) - (offset % Page)

\* splice from the file to the empty pipe.
RunFileLeg ==
    LET op == Head(ops)
        left == IF disk > op.offset THEN disk - op.offset ELSE 0
        n == Least(op.length, Least(left, Room(op.offset)))
    IN  /\ ops # << >> /\ op.leg = "file"
        /\ pipe' = pipe \o [i \in 1 .. n |-> op.offset + i - 1]
        /\ \E severed \in Severs : Ran(Moved(n), severed /\ n < op.length)
        /\ UNCHANGED <<http, splice, disk, wire, again>>

\* splice from the pipe to the socket, which waits for a byte or for the write end
\* of the pipe to be closed.
RunSocketLeg ==
    LET op == Head(ops)
    IN  /\ ops # << >> /\ op.leg = "socket"
        /\ pipe # << >> \/ ~splice.write_end
        /\ \E n \in IF pipe = << >> THEN {0} ELSE 1 .. Least(op.length, Len(pipe)) :
             /\ wire' = wire \o SubSeq(pipe, 1, n)
             /\ pipe' = SubSeq(pipe, n + 1, Len(pipe))
             /\ Ran(Moved(n), FALSE)
        /\ UNCHANGED <<http, splice, disk, again>>

\* A splice ends with EAGAIN, or fails.
OpFails(result) ==
    /\ ops # << >>
    /\ \/ result = "error" /\ "error" \in Faults
       \/ result = "EAGAIN" /\ "again" \in Faults /\ again < MaxAgain
    /\ again' = IF result = "EAGAIN" THEN again + 1 ELSE again
    /\ Ran(Error(result), TRUE)
    /\ UNCHANGED <<http, splice, pipe, disk, wire>>

\* The file shrinks after fstat.
Truncate ==
    /\ "truncate" \in Faults
    /\ http.state \in {"SendingHeaders", "SendingFile"}
    /\ disk > 0
    /\ disk' \in 0 .. disk - 1
    /\ http' = [http EXCEPT !.fault = TRUE]
    /\ UNCHANGED <<splice, pipe, ops, cq, wire, again>>

-----------------------------------------------------------------------------
(* Specification *)

Kernel == RunFileLeg \/ RunSocketLeg

JobStep == (\E q \in Requests : Start(q)) \/ ErrorSent \/ HeadersSent \/ HandleCompletion

Next ==
    \/ JobStep
    \/ Kernel
    \/ WriteFailed
    \/ \E result \in {"error", "EAGAIN"} : OpFails(result)
    \/ Truncate

Spec == Init /\ [][Next]_vars

\* The ring thread runs, writes end, and the kernel runs what it can run: a client
\* that never reads nor closes its end is left to the connection's owner.
FairSpec == Spec /\ WF_vars(JobStep) /\ WF_vars(Kernel)

-----------------------------------------------------------------------------
(* Properties *)

\* Every field stays in the range of the member it stands for: no unsigned count
\* goes below zero.
TypeOK ==
    /\ http \in [state : {"Opening", "SendingHeaders", "SendingFile", "SendingError", "Done"},
                 offset : Nat, length : Nat, partial : BOOLEAN, file : BOOLEAN,
                 head : BOOLEAN, calls : Nat, outcome : {"pending", "complete", "failed"},
                 fault : BOOLEAN]
    /\ splice \in [live : BOOLEAN,
                   state : {"CreatingPipe", "SplicingFileToPipe", "SplicingPipeToSocket"},
                   offset : Nat, remaining : Nat, bytes_in_pipe : Nat, pending : Nat,
                   write_end : BOOLEAN, error_pending : BOOLEAN, retry_pending : BOOLEAN,
                   deferred_error : BOOLEAN, eof_reached : BOOLEAN]
    /\ pipe \in Seq(Nat) /\ wire \in Seq(Nat)
    /\ ops \in Seq([leg : {"file", "socket"}, offset : Nat, length : Nat])
    /\ cq \in Seq([err : {"none", "ECANCELED", "EAGAIN", "error"}, bytes : Nat])
    /\ disk \in Nat /\ again \in Nat

\* Across short writes, retries of a leg or of a pair and restarts for the next
\* chunk, the client is sent the bytes of the requested range in order, none twice
\* and none left out.
BodyIsRange ==
    \A i \in 1 .. Len(wire) : i <= http.length /\ wire[i] = http.offset + i - 1

\* A SpliceFileJob is in its pool only when the kernel holds no operation that
\* names it: a failed first leg waits for its cancelled partner.  One of the
\* connection's two callbacks runs, once, and by then file and pipe are closed.
NoOperationOutlivesJob ==
    /\ ~splice.live => ops = << >> /\ cq = << >>
    /\ splice.live => splice.pending = Len(ops) + Len(cq)
    /\ http.calls = IF http.outcome = "pending" THEN 0 ELSE 1
    /\ http.outcome # "pending" => ~http.file /\ ~splice.live /\ pipe = << >>

\* With no EOF, error or refusal, a response never fails.
FailureHasCause == http.outcome = "failed" => http.fault

\* The response that a connection sees.
Abstract == INSTANCE FileResponse WITH
    NoHead <- None,
    promised <- IF http.head THEN http.length ELSE None,
    delivered <- Len(wire),
    outcome <- http.outcome

\* SpliceFileJob and HTTPFileJob together give the connection a response that is
\* complete only when the client got all that the head promised.
ImplementsFileResponse == Abstract!Spec

\* Every response ends, with its callback: in particular a truncated file does not
\* leave the transfer waiting on an empty pipe.
EveryResponseEnds == <>(http.outcome # "pending")

=============================================================================
