------------------------------ MODULE HttpParser ------------------------------
(***************************************************************************)
(* The request parser (HttpParser.cpp).  A buffer is a sequence of         *)
(* symbols, each as long as a byte: a line end, the text of a request      *)
(* line, the text of a field line, or other text.                          *)
(***************************************************************************)
EXTENDS HttpText

CONSTANTS
    MAX_HEADERS,
    MAX_CONTENT_LENGTH,
    SizeWord               \* 2^64, the size of size_t

ASSUME LimitsAssumption ==
    /\ MAX_HEADERS \in Nat
    /\ MAX_CONTENT_LENGTH \in Nat /\ MAX_CONTENT_LENGTH >= 9
    /\ SizeWord \in Nat /\ SizeWord > MAX_CONTENT_LENGTH

\* A text is as long as a line may be: two of them on a line are too long.
MAX_REQUEST_LINE == 1
MAX_HEADER_LINE == 1

\* CRLF; text that no check of a line accepts (no colon, a space in the name, a
\* control character, a version that is none); the text of a line that is well-formed.
LineEnd == [is |-> "crlf"]
Malformed == [is |-> "malformed"]
RequestLine(method, path, version) ==
    [is |-> "line", method |-> method, path |-> path, version |-> version]
FieldLine(spelled, value) == [is |-> "field", spelled |-> spelled, value |-> value]

\* A field name as spelled, [field, spelled], is folded to lower case.
normalize_header_name(name) == name.field

trim_header_value(value) == trim_ows(value)

is_valid_field_value(value) ==
    \A i \in DOMAIN value : value[i] = Tab \/ (value[i] >= 32 /\ value[i] # 127)

\* Mutant: no test before the multiplication, which may wrap.
AddDigit_Wraps(result, c) ==
    IF result = None \/ c \notin Digit THEN None
    ELSE (result * 10 + (c - 48)) % SizeWord

\* The body of the loop of parse_content_length.
AddDigit(result, c) ==
    IF result = None \/ c \notin Digit THEN None
    ELSE IF result > (MAX_CONTENT_LENGTH - (c - 48)) \div 10 THEN None
    ELSE (result * 10 + (c - 48)) % SizeWord

\* Digits and nothing else, and not more than the limit.
parse_content_length(value) == IF value = << >> THEN None ELSE FoldLeft(AddDigit, 0, value)

\* Whether an element of a comma-separated list is the token.
list_contains_token(list, token) ==
    \E k \in DOMAIN Split(list, Comma) : trim_ows(Split(list, Comma)[k]) = <<token>>

\* A header map, and the value of a field, empty if there is none.
read_header(headers, name) == IF name \in DOMAIN headers THEN headers[name] ELSE << >>

\* The method, path and version of the line, None if it is malformed.
parse_request_line(line) ==
    IF Len(line) = 1 /\ line[1].is = "line" THEN line[1] ELSE None


\* The loop of parse_headers: one more line, None if it is refused.
AddField(headers, line) ==
    IF headers = None \/ Len(line) > MAX_HEADER_LINE THEN None
    ELSE IF line[1].is # "field" THEN None
    ELSE LET name == normalize_header_name(line[1].spelled)
             value == trim_header_value(line[1].value)
         IN  IF ~is_valid_field_value(line[1].value) \/ name = "transfer-encoding" THEN None
             ELSE IF name \notin DOMAIN headers THEN headers @@ (name :> value)
             ELSE IF name = "content-length" /\ headers[name] # value THEN None
             ELSE IF name = "connection"
             THEN [headers EXCEPT ![name] = @ \o <<Comma, Space>> \o value]
             ELSE [headers EXCEPT ![name] = value]

parse_headers(lines) ==
    IF Len(lines) > MAX_HEADERS THEN None ELSE FoldLeft(AddField, [n \in {} |-> << >>], lines)

Incomplete == [result |-> "Incomplete", consumed |-> 0]
BadRequest == [result |-> "BadRequest", consumed |-> 0]

\* Position of the first of two line ends in a row, 0 if there are none.
HeaderEnd(buf) ==
    LET ends == {i \in 1 .. Len(buf) - 1 : buf[i] = LineEnd /\ buf[i + 1] = LineEnd}
    IN  IF ends = {} THEN 0 ELSE Min(ends)

\* One request at the start of the buffer: its contents and its length, or that more
\* bytes are needed, or that the buffer can never become a request.
parse_request(buf) ==
    LET header_end == HeaderEnd(buf)
        lines == Split(SubSeq(buf, 1, header_end - 1), LineEnd)
        line == parse_request_line(lines[1])
        headers == parse_headers(Tail(lines))
        content_length == IF "content-length" \in DOMAIN headers
                          THEN parse_content_length(headers["content-length"]) ELSE 0
        total_needed == header_end + 1 + content_length
    IN  IF header_end = 0
        THEN IF Len(buf) > MAX_REQUEST_LINE + MAX_HEADERS * MAX_HEADER_LINE
             THEN BadRequest ELSE Incomplete
        ELSE IF Len(lines[1]) > MAX_REQUEST_LINE \/ line = None THEN BadRequest
        ELSE IF headers = None THEN BadRequest
        ELSE IF content_length = None THEN BadRequest
        ELSE IF Len(buf) < total_needed THEN Incomplete
        ELSE [result |-> "Success", consumed |-> total_needed,
              request |-> [method |-> line.method, path |-> line.path,
                           version |-> line.version, headers |-> headers,
                           body |-> SubSeq(buf, header_end + 2, total_needed)]]

=============================================================================
