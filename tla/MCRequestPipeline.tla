-------------------------- MODULE MCRequestPipeline ---------------------------
(* An instance of RequestPipeline for TLC: what clients send and handlers do. *)
EXTENDS RequestPipeline

SetOfSeqs(S, n) == UNION {[1 .. k -> S] : k \in 0 .. n}

Root == <<Slash>>
FilePath == <<Slash, 102>>
HandlerPath == <<Slash, 104>>
EmptyPath == <<Slash, 101>>

-----------------------------------------------------------------------------
(* What handlers do *)

With(headers) == [HttpResponse EXCEPT !.body = 1, !.headers = headers]
Ok == setBody(HttpResponse, 1)
File == [HttpResponse EXCEPT !.file = TRUE]

HandlerResponses ==
    {Ok, File,
     [Ok EXCEPT !.status_code = 404],
     setStatus(Ok, 100), setStatus(Ok, 204), setStatus(Ok, 304), setStatus(Ok, 700),
     [Ok EXCEPT !.status_text = <<10>>],
     With({Header("content-length", "Upper", <<57>>)}),
     With({Header("content-length", "Upper", <<57>>), Header("content-length", "lower", <<49>>)}),
     With({Header("content-type", "Upper", Phrase)}),
     With({Header("content-type", "Upper", Phrase), Header("content-type", "lower", Phrase)}),
     With({Header("transfer-encoding", "Upper", Phrase)}),
     With({Header("not a token", "lower", Phrase)}),
     With({Header("x", "lower", <<13, 10>>)}),
     With({Header("connection", "Upper", <<CloseWord>>)}),
     With({Header("connection", "lower", <<OtherWord, Comma, Space, CloseWord>>)}),
     With({Header("connection", "lower", <<KeepAliveWord>>)}),
     [File EXCEPT !.headers = {Header("content-length", "lower", <<57>>),
                               Header("content-type", "lower", << >>)}],
     [File EXCEPT !.headers = {Header("x", "lower", <<10>>)}]}

Returns(res) == [throws |-> FALSE, res |-> res]
Throws(res) == [throws |-> TRUE, res |-> res]

MCRoutes ==
    <<[method |-> "ALL", prefix |-> FilePath, does |-> {Returns(File)}],
      [method |-> "GET", prefix |-> HandlerPath,
       does |-> {Returns(res) : res \in HandlerResponses} \cup {Throws(Ok), Throws(File)}],
      [method |-> "POST", prefix |-> EmptyPath, does |-> {}],
      [method |-> "GET", prefix |-> Root, does |-> {Returns(Ok)}]>>

-----------------------------------------------------------------------------
(* What clients send *)

Get(path) == RequestLine("GET", path, "HTTP/1.1")
Field(name, value) == FieldLine([field |-> name, spelled |-> "lower"], value)
FieldUpper(name, value) == FieldLine([field |-> name, spelled |-> "Upper"], value)
Length(digits) == Field("content-length", digits)
Connection(value) == FieldUpper("connection", value)

\* A head: its request line and its fields.
Block(line, fields) ==
    FoldLeft(LAMBDA s, f : s \o <<f, LineEnd>>, <<line, LineEnd>>, fields) \o <<LineEnd>>

Plain == Block(Get(Root), << >>)
One == <<49>>
Two == <<50>>

\* Heads with a body behind, some of whose bytes look like the next request.
Bodies ==
    {Block(Get(Root), <<Length(One)>>) \o <<LineEnd>>,
     Block(Get(Root), <<Length(<<Space, 48, 50>>)>>) \o <<Get(Root), LineEnd>>,
     Block(Get(Root), <<Length(One), FieldUpper("content-length", One)>>) \o <<Malformed>>,
     Block(RequestLine("POST", EmptyPath, "HTTP/1.1"), <<Length(<<48>>)>>)}

\* Heads that are refused.
Refused ==
    {Block(Get(Root), <<f>>) :
       f \in {Length(<< >>), Length(<<OtherWord>>), Length(<<49, 49>>), Length(<<51, 52>>),
              Field("transfer-encoding", <<OtherWord>>), Field("x", <<10>>), Malformed,
              Get(Root)}}
    \cup {Block(Get(Root), <<Length(One), Length(Two)>>),
          Block(Get(Root), [k \in 1 .. 4 |-> Field("x", One)]),
          Block(Malformed, << >>), <<LineEnd, LineEnd>>,
          <<LineEnd>> \o Plain, <<Get(Root)>> \o Plain,
          [k \in 1 .. 5 |-> Malformed]}

FramingStreams ==
    {a \o b \o c : a \in {Plain} \cup Bodies, b \in {<< >>, Plain} \cup Bodies \cup Refused,
                   c \in {<< >>, Plain}}
    \cup Refused

ConnectionStreams ==
    {Block(RequestLine("GET", Root, version), fields) \o Plain :
       version \in {"HTTP/1.0", "HTTP/1.1", "HTTP/2.0"},
       fields \in {<< >>, <<Connection(<<CloseWord>>)>>, <<Connection(<<KeepAliveWord>>)>>,
                   <<Connection(<<OtherWord, Comma, Space, CloseWord>>)>>,
                   <<Connection(<<CloseWord>>), Connection(<<KeepAliveWord>>)>>}}

HandlerStreams ==
    {Block(RequestLine("GET", HandlerPath, version), fields) \o Plain :
       version \in {"HTTP/1.0", "HTTP/1.1"},
       fields \in {<< >>, <<Connection(<<KeepAliveWord>>)>>}}

Numbers == {<< >>, <<48>>, <<49>>, <<50>>, <<55>>, <<49, 55>>}
BytesEquals == <<BytesWord, Equals>>
RangeTexts ==
    {BytesEquals \o a \o <<Dash>> \o b : a \in Numbers, b \in Numbers}
    \cup {BytesEquals \o <<49>>, <<BytesWord>>, <<OtherWord, Equals, 49, Dash>>,
          BytesEquals \o <<48, Dash, 48, Comma, 50, Dash>>,
          <<Space, BytesWord, Space, Equals, Space, 49, Dash, 50, Space>>,
          BytesEquals \o <<49, Space, Dash, 50>>, BytesEquals \o <<Dash, Dash, 49>>}

RangeStreams ==
    {Block(RequestLine(method, FilePath, "HTTP/1.1"), <<Field("range", text)>>) :
       method \in {"GET", "POST"}, text \in RangeTexts}
    \cup {Block(Get(Root), <<Field("range", BytesEquals \o <<49, Dash>>)>>)
            \o Block(Get(FilePath), << >>)}

Escape(hi, lo) == <<Percent, hi, lo>>
PathPieces ==
    {<<Slash>>, <<Dot>>, <<104>>, <<Question>>, <<Percent>>, <<Percent, 50>>,
     Escape(50, 101), Escape(50, 70), Escape(55, 102), Escape(50, 53), Escape(120, 48)}

PathStreams ==
    {Block(Get(Root \o FlattenSeq(pieces)), << >>) : pieces \in SetOfSeqs(PathPieces, 3)}

MCStreams == FramingStreams \cup ConnectionStreams \cup HandlerStreams
               \cup RangeStreams \cup PathStreams
MCFileSizes == {None, 0, 3}

=============================================================================
