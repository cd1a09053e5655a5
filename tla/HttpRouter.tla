------------------------------ MODULE HttpRouter ------------------------------
(***************************************************************************)
(* The router (HttpRouter.cpp): from a request to the response of the      *)
(* first route that matches.  What handlers do is given by the routes.     *)
(***************************************************************************)
EXTENDS HttpResponseWriter, UrlDecode

CONSTANTS
    Routes,               \* the routes, in the order they were added
    MAX_ROUTABLE_PATH

\* A route: its method or "ALL"; the prefix of the paths it matches; and what its
\* handler may do, [throws, res], nothing if the function object is empty.
Matches(route, method, path) ==
    route.method \in {"ALL", method} /\ IsPrefix(route.prefix, path)

\* The error replies; their bodies are one byte here.
ErrorResponse(res, code) == setBody(setStatus(res, code), 1)
handle_bad_request == setHeader(ErrorResponse(HttpResponse, 400), "content-type", Phrase)
handle_uri_too_long == setHeader(ErrorResponse(HttpResponse, 414), "content-type", Phrase)
handle_not_found ==
    setHeader(setHeader(ErrorResponse(HttpResponse, 404), "content-type", Phrase),
              "content-length", to_string(1))

fallback_to_default_headers(res) ==
    LET sized == IF getHeader(res, "content-length") = << >>
                 THEN setHeader(res, "content-length", to_string(res.body)) ELSE res
    IN  IF getHeader(sized, "content-type") = << >> /\ ~sized.file
        THEN setHeader(sized, "content-type", Phrase) ELSE sized

\* What the route's handler leaves.  A throw keeps what was written before it.
Called(route) ==
    IF route.does = {} THEN {ErrorResponse(HttpResponse, 500)}
    ELSE {IF h.throws THEN ErrorResponse(h.res, 500) ELSE h.res : h \in route.does}

\* The path that the routes are matched with, None if it is refused.
RoutePath(path) ==
    LET query == find(Question, path)
        stripped == IF query = 0 THEN path ELSE SubSeq(path, 1, query - 1)
    IN  IF Len(stripped) > MAX_ROUTABLE_PATH THEN [refused |-> "too long", path |-> << >>]
        ELSE IF find(Percent, stripped) = 0 THEN [refused |-> "no", path |-> stripped]
        ELSE IF decodePath(stripped) = None THEN [refused |-> "escape", path |-> << >>]
        ELSE [refused |-> "no", path |-> decodePath(stripped)]

\* The responses that a request may get.
dispatch(req) ==
    LET routed == RoutePath(req.path)
        hits == {k \in DOMAIN Routes : Matches(Routes[k], req.method, routed.path)}
    IN  IF routed.refused = "too long" THEN {handle_uri_too_long}
        ELSE IF routed.refused = "escape" THEN {handle_bad_request}
        ELSE IF hits = {} THEN {handle_not_found}
        ELSE {fallback_to_default_headers(
                IF normalizeHeaders(res) = None THEN ErrorResponse(HttpResponse, 500)
                ELSE normalizeHeaders(res)) : res \in Called(Routes[Min(hits)])}

=============================================================================
