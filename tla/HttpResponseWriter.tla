-------------------------- MODULE HttpResponseWriter --------------------------
(***************************************************************************)
(* A response as handlers write it (HttpResponse.hpp) and the head it      *)
(* becomes (HttpResponseWriter.cpp).  The header map is public: a field    *)
(* may be in it under two spellings.  A body is its number of bytes.       *)
(***************************************************************************)
EXTENDS HttpParser

\* One entry of the map; "lower" is the spelling of setHeader.
Header(field, spelled, value) == [field |-> field, spelled |-> spelled, value |-> value]

HttpResponse == [status_code |-> 200, status_text |-> << >>, headers |-> {},
                 file |-> FALSE, body |-> 0]

\* std::to_string of a number below ten.
to_string(n) == <<48 + n>>

\* A fixed phrase: the reason of a status, or the text of an error.
Phrase == <<OtherWord>>

setStatus(res, code) == [res EXCEPT !.status_code = code, !.status_text = Phrase]

setHeader(res, field, value) ==
    [res EXCEPT !.headers = {h \in @ : h.field # field} \cup {Header(field, "lower", value)}]

setBody(res, n) == setHeader([res EXCEPT !.body = n], "content-length", to_string(n))

getHeader(res, field) ==
    LET found == {h \in res.headers : h.field = field /\ h.spelled = "lower"}
    IN  IF found = {} THEN << >> ELSE (CHOOSE h \in found : TRUE).value

\* Two spellings of one field with different values.
Conflict(headers) == \E g, h \in headers : g.field = h.field /\ g.value # h.value

\* Every name in lower case, None if that makes two values of one field.
normalizeHeaders(res) ==
    IF Conflict(res.headers) THEN None
    ELSE [res EXCEPT !.headers = {[h EXCEPT !.spelled = "lower"] : h \in @}]

\* "not a token" stands for every name with a character that no token has.
is_valid_field_name(name) == name # "not a token"

is_valid_reason_phrase(text) ==
    \A i \in DOMAIN text : text[i] = Tab \/ (text[i] >= 32 /\ text[i] # 127)

status_allows_body(status_code) == status_code \notin 100 .. 199 /\ status_code \notin {204, 304}

\* Mutant: a handler's own Content-Length is written beside the real one.
build_response_head_BothLengths(res, content_length) ==
    IF \/ res.status_code \notin 100 .. 599
       \/ ~is_valid_reason_phrase(res.status_text)
       \/ \E h \in res.headers : \/ ~is_valid_field_name(h.field)
                                 \/ ~is_valid_field_value(h.value)
                                 \/ h.field = "transfer-encoding"
       \/ Conflict(res.headers)
    THEN None
    ELSE [status |-> res.status_code,
          fields |-> {[field |-> h.field, value |-> h.value] : h \in res.headers},
          content_length |-> IF status_allows_body(res.status_code) THEN content_length
                             ELSE None]

\* The head of the response, None if it cannot be written safely.
build_response_head(res, content_length) ==
    LET written == {h \in res.headers : h.field # "content-length"}
    IN  IF \/ res.status_code \notin 100 .. 599
           \/ ~is_valid_reason_phrase(res.status_text)
           \/ \E h \in res.headers : \/ ~is_valid_field_name(h.field)
                                     \/ ~is_valid_field_value(h.value)
                                     \/ h.field = "transfer-encoding"
           \/ Conflict(written)
        THEN None
        ELSE [status |-> res.status_code,
              fields |-> {[field |-> h.field, value |-> h.value] : h \in written},
              content_length |-> IF status_allows_body(res.status_code) THEN content_length
                                 ELSE None]

\* The 500 that is sent when a head is refused; its body is one byte here.
fallback_error_response(close_connection) ==
    [status |-> 500,
     fields |-> {[field |-> "content-type", value |-> Phrase]}
                \cup IF close_connection
                     THEN {[field |-> "connection", value |-> <<CloseWord>>]} ELSE {},
     content_length |-> 1]

=============================================================================
