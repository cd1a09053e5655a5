--------------------------- MODULE RequestPipeline ----------------------------
(***************************************************************************)
(* What a connection reads and writes: the bytes of pipelined requests,    *)
(* arriving in pieces, are framed by the parser, given to the router and   *)
(* answered one at a time (SingleRingHttpServer.cpp with HttpParser,       *)
(* HttpRouter, HttpResponseWriter, RangeRequest and UrlDecode).            *)
(*                                                                         *)
(* Jobs, descriptors and teardown are in HttpConnection; the transfer of a *)
(* file is in FileTransfer: here it is the head that announces it.         *)
(***************************************************************************)
EXTENDS HttpRouter, RangeRequest

CONSTANTS
    Streams,           \* what the client may send
    FileSizes,         \* size of the file a handler names, None if it cannot be opened
    MaxRequestSize     \* max_request_size_

VARIABLES
    stream,      \* what the client sends
    fed,         \* how much of it has arrived
    conn,        \* the HttpConnectionJob
    answers,     \* what was written, in order
    stopping,    \* the server is stopping
    broken       \* a write failed, or a pool was exhausted

vars == <<stream, fed, conn, answers, stopping, broken>>

\* open: client_fd_ >= 0.
NewConn == [open |-> TRUE, request_buffer |-> << >>, response_in_flight |-> FALSE,
            keep_alive |-> TRUE, advertise_keep_alive |-> FALSE, pending_range |-> None]

Init ==
    /\ stream \in Streams
    /\ fed = 0
    /\ conn = NewConn
    /\ answers = << >>
    /\ stopping = FALSE /\ broken = FALSE

\* The part of the state that a handler changes; a handler is an operator from one
\* to the set of those it may leave.
Now == [conn |-> conn, answers |-> answers, broken |-> broken]

Become(x) == conn' = x.conn /\ answers' = x.answers /\ broken' = x.broken

closeConnection(x) == [x EXCEPT !.conn.open = FALSE]

-----------------------------------------------------------------------------
(* Responses *)

\* A head and the bytes that follow it; a refused head is replaced by the 500.
Written(head, body, close) ==
    IF head = None THEN [head |-> fallback_error_response(close), body |-> 1, offset |-> 0]
    ELSE [head |-> head, body |-> IF status_allows_body(head.status) THEN body ELSE 0,
          offset |-> 0]

\* HTTPFileJob::sendError: the connection field is carried across.
sendError(res, code) ==
    LET reply == setHeader(setStatus(HttpResponse, code), "content-type", Phrase)
        close == getHeader(res, "connection")
    IN  Written(build_response_head(IF close = << >> THEN reply
                                    ELSE setHeader(reply, "connection", close), 1),
                1, close = <<CloseWord>>)

\* The fields that startSendingHeaders adds when the handler did not.
FileFields == {"content-type", "accept-ranges", "last-modified", "access-control-allow-origin"}

\* HTTPFileJob::start, for a file of this size, None if it cannot be opened.
FileAnswer(res, range, size) ==
    LET part == IF range = None THEN [offset |-> 0, length |-> size] ELSE resolve(range, size)
        ranged == IF range = None THEN setStatus(res, 200)
                  ELSE setHeader(setStatus(res, 206), "content-range", Phrase)
        full == [ranged EXCEPT !.headers = @ \cup
                   {Header(f, "lower", Phrase) :
                      f \in FileFields \ {h.field : h \in ranged.headers}}]
        head == build_response_head(full, part.length)
    IN  IF size = None THEN sendError(res, 404)
        ELSE IF part = None THEN sendError(res, 416)
        ELSE IF head = None THEN sendError(res, 500)
        ELSE [head |-> head, body |-> part.length, offset |-> part.offset]

\* Whether the connection outlives the response.
KeepAlive(x, res) ==
    /\ x.conn.keep_alive
    /\ ~list_contains_token(getHeader(res, "connection"), CloseWord)
    /\ ~stopping

\* The response is written to the wire; req is None for one that answers no request.
Answer(x, req, keep, size, written) ==
    [x EXCEPT !.conn.response_in_flight = TRUE, !.conn.keep_alive = keep,
              !.answers = Append(@, [req |-> req, keep |-> keep, size |-> size] @@ written)]

sendResponse(x, req, res) ==
    LET keep == KeepAlive(x, res)
        told == IF ~keep THEN setHeader(res, "connection", <<CloseWord>>)
                ELSE IF x.conn.advertise_keep_alive
                THEN setHeader(res, "connection", <<KeepAliveWord>>)
                ELSE [res EXCEPT !.headers =
                        {h \in @ : h.field # "connection" \/ h.spelled # "lower"}]
        range == x.conn.pending_range
        taken == [x EXCEPT !.conn.pending_range = None]
    IN  {[closeConnection(x) EXCEPT !.broken = TRUE]}
          \cup IF res.file
               THEN {Answer(taken, req, keep, size, FileAnswer(told, range, size))
                       : size \in FileSizes}
               ELSE {Answer(x, req, keep, None,
                            Written(build_response_head(told, told.body), told.body, ~keep))}

sendErrorAndClose(x, code) ==
    LET cleared == [x EXCEPT !.conn.keep_alive = FALSE, !.conn.advertise_keep_alive = FALSE,
                             !.conn.request_buffer = << >>]
        reply == setBody(setHeader(setStatus(HttpResponse, code), "content-type", Phrase), 1)
    IN  IF x.conn.response_in_flight THEN {closeConnection(cleared)}
        ELSE sendResponse(cleared, None, reply)

-----------------------------------------------------------------------------
(* Requests *)

shouldKeepAlive(request) ==
    LET options == read_header(request.headers, "connection")
    IN  /\ ~list_contains_token(options, CloseWord)
        /\ \/ request.version = "HTTP/1.1"
           \/ request.version = "HTTP/1.0" /\ list_contains_token(options, KeepAliveWord)

\* Mutant: the range is assigned only when the request has one.
handleHttpRequest_StaleRange(x, request) ==
    LET range == parse_range(read_header(request.headers, "range"))
        y == [x EXCEPT !.conn.keep_alive = shouldKeepAlive(request),
                       !.conn.advertise_keep_alive = request.version # "HTTP/1.1",
                       !.conn.pending_range = IF range = None THEN @ ELSE range]
    IN  UNION {sendResponse(y, request, res) : res \in dispatch(request)}

handleHttpRequest(x, request) ==
    LET range == IF request.method = "GET"
                 THEN parse_range(read_header(request.headers, "range")) ELSE None
        y == [x EXCEPT !.conn.keep_alive = shouldKeepAlive(request),
                       !.conn.advertise_keep_alive = request.version # "HTTP/1.1",
                       !.conn.pending_range = range]
    IN  UNION {sendResponse(y, request, res) : res \in dispatch(request)}

processHttpRequests(x) ==
    LET buffer == x.conn.request_buffer
        parsed == parse_request(buffer)
        rest == [x EXCEPT !.conn.request_buffer =
                   SubSeq(buffer, parsed.consumed + 1, Len(buffer))]
    IN  IF x.conn.response_in_flight \/ ~x.conn.open \/ buffer = << >> THEN {x}
        ELSE IF parsed.result = "Success" THEN handleHttpRequest(rest, parsed.request)
        ELSE IF parsed.result = "Incomplete" THEN {x}
        ELSE sendErrorAndClose(x, 400)

\* Mutant: only the piece that arrives is measured.
TooLarge_Piece(buffer, n) == n > MaxRequestSize

TooLarge(buffer, n) == Len(buffer) + n > MaxRequestSize

\* n more bytes arrive.
handleDataReceived(n) ==
    LET data == SubSeq(stream, fed + 1, fed + n)
        buffer == conn.request_buffer
    IN  /\ conn.open
        /\ fed + n <= Len(stream)
        /\ fed' = fed + n
        /\ \E y \in IF TooLarge(buffer, n)
                    THEN sendErrorAndClose(Now, IF HeaderEnd(buffer) = 0 THEN 431 ELSE 413)
                    ELSE processHttpRequests([Now EXCEPT !.conn.request_buffer = @ \o data]) :
             Become(y)
        /\ UNCHANGED <<stream, stopping>>

\* The last byte of the response was written.
onResponseComplete ==
    LET x == [Now EXCEPT !.conn.response_in_flight = FALSE]
    IN  /\ conn.response_in_flight
        /\ \E y \in IF ~conn.open THEN {x}
                    ELSE IF ~answers[Len(answers)].keep \/ stopping THEN {closeConnection(x)}
                    ELSE processHttpRequests(x) :
             Become(y)
        /\ UNCHANGED <<stream, fed, stopping>>

\* The write, or the transfer of the file, fails.
ResponseFails ==
    /\ conn.response_in_flight
    /\ Become([closeConnection(Now) EXCEPT !.conn.response_in_flight = FALSE,
                                           !.broken = TRUE])
    /\ UNCHANGED <<stream, fed, stopping>>

\* The server enters Stopping.
StopServer ==
    /\ ~stopping
    /\ stopping' = TRUE
    /\ UNCHANGED <<stream, fed, conn, answers, broken>>

Next ==
    \/ \E n \in 1 .. Len(stream) : handleDataReceived(n)
    \/ onResponseComplete
    \/ ResponseFails
    \/ StopServer

Spec == Init /\ [][Next]_vars

-----------------------------------------------------------------------------
(* What the client sent, read at once and by the grammar *)

Arrived == SubSeq(stream, 1, fed)

Denotes(digits) == FoldLeft(LAMBDA v, c : v * 10 + c - 48, 0, digits)
AllDigits(text) == \A i \in DOMAIN text : text[i] \in Digit

\* The values of the fields of this name; a head is a sequence of lines.
ValuesOf(head, name) ==
    {trim_ows(line[1].value) :
       line \in {head[k] : k \in {j \in 2 .. Len(head) : head[j][1].spelled.field = name}}}

WellFormed(head) ==
    /\ Len(head[1]) = 1 /\ head[1][1].is = "line"
    /\ Len(head) - 1 <= MAX_HEADERS
    /\ \A k \in 2 .. Len(head) : Len(head[k]) = 1 /\ head[k][1].is = "field"
    /\ \A k \in 2 .. Len(head) : is_valid_field_value(head[k][1].value)
    /\ ValuesOf(head, "transfer-encoding") = {}
    /\ \A v, w \in ValuesOf(head, "content-length") :
         v = w /\ v # << >> /\ AllDigits(v) /\ Denotes(v) <= MAX_CONTENT_LENGTH

\* Whether some element of some Connection line is this option.
HasOption(head, option) ==
    \E v \in ValuesOf(head, "connection") :
      \E k \in DOMAIN Split(v, Comma) : trim_ows(Split(v, Comma)[k]) = <<option>>

Persistent(head) ==
    /\ ~HasOption(head, CloseWord)
    /\ \/ head[1][1].version = "HTTP/1.1"
       \/ head[1][1].version = "HTTP/1.0" /\ HasOption(head, KeepAliveWord)

\* The complete requests at the front of s, the bytes they take, and whether what
\* follows them is no request and cannot become one.
RECURSIVE Framed(_)
Framed(s) ==
    LET end == HeaderEnd(s)
        head == Split(SubSeq(s, 1, end - 1), LineEnd)
        lengths == ValuesOf(head, "content-length")
        length == IF lengths = {} THEN 0 ELSE Denotes(CHOOSE v \in lengths : TRUE)
        last == end + 1 + length
        more == Framed(SubSeq(s, last + 1, Len(s)))
    IN  IF end = 0
        THEN [requests |-> << >>, used |-> 0,
              bad |-> Len(s) > MAX_REQUEST_LINE + MAX_HEADERS * MAX_HEADER_LINE]
        ELSE IF ~WellFormed(head) THEN [requests |-> << >>, used |-> 0, bad |-> TRUE]
        ELSE IF Len(s) < last THEN [requests |-> << >>, used |-> 0, bad |-> FALSE]
        ELSE [requests |-> <<[line |-> head[1][1], body |-> SubSeq(s, end + 2, last),
                              persistent |-> Persistent(head)]>> \o more.requests,
              used |-> last + more.used, bad |-> more.bad]

Requested(k) == Framed(SubSeq(stream, 1, k)).requests

\* The answers that were given to requests; an error that ends the connection is none.
Answered == SelectSeq(answers, LAMBDA a : a.req # None)

Oversize == \E k \in 0 .. fed : fed - Framed(SubSeq(stream, 1, k)).used > MaxRequestSize

-----------------------------------------------------------------------------
(* Properties *)

\* The buffer never outgrows max_request_size_, whatever arrives while a response is
\* in flight (the size check of handleDataReceived), and the state has its types.
TypeOK ==
    /\ fed \in 0 .. Len(stream)
    /\ Len(conn.request_buffer) <= MaxRequestSize
    /\ conn.open \in BOOLEAN /\ conn.response_in_flight \in BOOLEAN
    /\ stopping \in BOOLEAN /\ broken \in BOOLEAN
    /\ \A i \in DOMAIN answers : answers[i].keep \in BOOLEAN /\ answers[i].body \in Nat

\* Requests are those of the byte stream, in order and with their own bodies, however
\* the stream was cut into pieces and however many were pipelined; when no response is
\* in flight, none of the bytes that arrived holds a request that was not answered or
\* text that should have been refused; and a connection is refused only for its bytes
\* (parse_request, processHttpRequests, onResponseComplete).
FramedAsSent ==
    /\ Len(Answered) <= Len(Requested(fed))
    /\ \A i \in DOMAIN Answered :
         LET sent == Requested(fed)[i]
             req == Answered[i].req
         IN  /\ <<req.method, req.path, req.version>>
                  = <<sent.line.method, sent.line.path, sent.line.version>>
             /\ req.body = sent.body
    /\ conn.open /\ ~conn.response_in_flight =>
         Len(Answered) = Len(Requested(fed)) /\ ~Framed(Arrived).bad
    /\ \A i \in DOMAIN answers :
         answers[i].req = None =>
           /\ i = Len(answers)
           /\ IF answers[i].head.status = 400
              THEN \E k \in 0 .. fed : /\ Framed(SubSeq(stream, 1, k)).bad
                                      /\ Len(Requested(k)) = Len(Answered)
              ELSE Oversize

\* A client that reads responses by their framing reads each one's body and nothing
\* of the next: one Content-Length, equal to the bytes that follow, none and no bytes
\* where the status forbids a body, no other framing field and no field twice,
\* whatever the handler wrote into the public map (build_response_head, sendResponse).
ClientInSync ==
    \A i \in DOMAIN answers :
      LET head == answers[i].head
          bodiless == head.status \in 100 .. 199 \cup {204, 304}
      IN  /\ answers[i].body = IF bodiless THEN 0 ELSE head.content_length
          /\ bodiless <=> head.content_length = None
          /\ \A f, g \in head.fields :
               /\ f.field \notin {"content-length", "transfer-encoding", "not a token"}
               /\ f.field = g.field => f = g
               /\ \A k \in DOMAIN f.value : f.value[k] \notin 10 .. 13


\* A text that asks for one range, as numbers or none: "bytes=a-b" with optional
\* spaces; and the bytes of a file that it asks for.
Single(text, a, b) ==
    \E o, p, q, r \in {<< >>, <<Space>>} :
      /\ text = o \o <<BytesWord>> \o p \o <<Equals>> \o q \o a \o <<Dash>> \o b \o r
      /\ a \o b # << >>
      /\ a = << >> \/ b = << >> \/ Denotes(a) <= Denotes(b)
      /\ Denotes(a) < Word /\ Denotes(b) < Word

Selected(a, b, size) ==
    {k \in 0 .. size - 1 : IF a = << >> THEN k >= size - Denotes(b)
                           ELSE Denotes(a) <= k /\ (b = << >> \/ k <= Denotes(b))}

\* A file is served with the range of the very request it answers: exactly the bytes
\* that were asked for, 416 when there are none, and the whole file when the field is
\* absent, is not for this method, or asks for what the server ignores: several ranges,
\* another unit, a number that does not fit (parse_range, resolve, pending_range_).
RangeServed ==
    \A i \in DOMAIN Answered :
      LET answer == Answered[i]
          text == read_header(answer.req.headers, "range")
          parts == {SubSeq(text, j, k) : j \in 1 .. Len(text) + 1, k \in 0 .. Len(text)}
          runs == {part \in parts : AllDigits(part)}
          asked == {ab \in runs \X runs : Single(text, ab[1], ab[2])}
          served == answer.offset .. answer.offset + answer.body - 1
      IN  answer.size # None /\ answer.head.status # 500 =>
            IF answer.req.method = "GET" /\ asked # {}
            THEN \A ab \in asked :
                   LET bytes == Selected(ab[1], ab[2], answer.size)
                   IN  IF bytes = {} THEN answer.head.status = 416
                       ELSE answer.head.status = 206 /\ served = bytes
            ELSE answer.head.status = 200 /\ served = 0 .. answer.size - 1

\* d is what the segment r stands for.
RECURSIVE StandsFor(_, _)
StandsFor(r, d) ==
    IF r = << >> \/ d = << >> THEN r = d
    ELSE IF Head(r) # Percent THEN Head(d) = Head(r) /\ StandsFor(Tail(r), Tail(d))
    ELSE /\ Len(r) >= 3
         /\ hexValue(r[2]) * 16 + hexValue(r[3]) = Head(d)
         /\ StandsFor(SubSeq(r, 4, Len(r)), Tail(d))

\* Routes are matched with the path that the client meant: its segments, each decoded
\* once, without the query; no escape becomes a segment boundary, a parent step or a
\* control character, and the path is never longer than MAX_ROUTABLE_PATH (dispatch,
\* decodePath).
RoutedAsMeant ==
    \A i \in DOMAIN Answered :
      LET routed == RoutePath(Answered[i].req.path)
          raw == Split(Split(Answered[i].req.path, Question)[1], Slash)
          seen == Split(routed.path, Slash)
      IN  IF routed.refused # "no"
          THEN Answered[i].head.status = IF routed.refused = "escape" THEN 400 ELSE 414
          ELSE /\ Len(routed.path) <= MAX_ROUTABLE_PATH
               /\ Len(seen) = Len(raw)
               /\ \A k \in DOMAIN raw :
                    /\ StandsFor(raw[k], seen[k])
                    /\ seen[k] = <<Dot, Dot>> => raw[k] = <<Dot, Dot>>
                    /\ \A j \in DOMAIN seen[k] : seen[k][j] >= 32 /\ seen[k][j] # 127

=============================================================================
