------------------------------ MODULE MCCalls ------------------------------
(***************************************************************************)
(* Small packages for Calls: a request struct of each kind and a handler   *)
(* of each shape.                                                          *)
(***************************************************************************)
EXTENDS Calls

Plain == [wire |-> "x", tags |-> {"json"}, dash |-> FALSE, exported |-> TRUE,
          embedded |-> FALSE, type |-> "string", ptr |-> FALSE, required |-> FALSE,
          omitempty |-> FALSE, named |-> {}]
Tagged(source, name) == [Plain EXCEPT !.tags = {source}, !.wire = name]
Required(f) == [f EXCEPT !.required = TRUE]
Typed(f, type) == [f EXCEPT !.type = type]

Struct(fields) == [kind |-> "struct", own |-> TRUE, fields |-> fields, refs |-> {},
                   terms |-> {}, adapted |-> FALSE]

ID == Tagged("path", "id")
Limit == Typed(Tagged("query", "limit"), "int")
Search == Required(Tagged("query", "q"))
Trace == Tagged("header", "X-Trace-Id")

Segment == [kind |-> "text", name |-> "items"]
Colon == [kind |-> "colon", name |-> "id"]
Brace == [kind |-> "brace", name |-> "id"]
Dir(name, word, code) == [name |-> name, word |-> word, code |-> code, ok |-> TRUE]
Route(method) == <<Dir("route", method, 0)>>

Handler(fields, method, results, path) ==
  [types |-> [Req |-> Struct(fields), Resp |-> Struct(<<Plain>>)],
   handlers |-> <<[name |-> "H", method |-> FALSE, exported |-> TRUE, params |-> "request",
                   results |-> results, request |-> "Req", answer |-> "Resp", send |-> "Resp",
                   recv |-> "Resp", lines |-> Route(method), path |-> path]>>]
Directed(p, line) == [p EXCEPT !.handlers[1].lines = @ \o <<line>>]

Get == Handler(<<ID, Limit, Search>>, "GET", "response", <<Segment, Colon>>)
\* The body has a name of the path.
Update == Handler(<<ID, Typed(Tagged("json", "id"), "int"), [Tagged("json", "y") EXCEPT !.omitempty = TRUE]>>,
                  "PATCH", "response", <<Segment, Colon>>)
Delete == Handler(<<ID>>, "DELETE", "error", <<Segment, Colon>>)
File == Required(Typed(Tagged("multipart", "file"), "file"))
Upload == Handler(<<ID, File, Required(Tagged("form", "title")), Typed(Tagged("form", "n"), "int")>>,
                  "POST", "response", <<Segment, Colon>>)
Album == Directed(Handler(<<Required(Typed(Tagged("multipart", "fs"), "files"))>>, "PUT", "error",
                          <<Segment>>), Dir("status", "", 204))
Events == Handler(<<ID, Limit>>, "GET", "stream", <<Segment, Colon>>)
Socket == [Handler(<<ID>>, "GET", "error", <<Segment, Colon>>) EXCEPT !.handlers[1].params = "socket"]

\* An API of routes of every kind whose adapter compiles on every framework, and chi's sockets.
Ordinary == {Get, Update, Delete, Upload, Album, Events}
Sockets == {Socket}

\* A path parameter of type int; a query parameter that is a slice.
Primitives ==
  {Handler(<<Typed(ID, "int")>>, "GET", "response", <<Segment, Colon>>),
   Handler(<<Typed(Tagged("query", "ids"), "ints")>>, "GET", "response", <<Segment>>)}
Traced == {Handler(<<ID, Trace>>, "GET", "response", <<Segment, Colon>>)}
Patched == {Handler(<<ID, Limit, Plain>>, "PATCH", "response", <<Segment, Colon>>)}
Braced == {Handler(<<ID>>, "GET", "response", <<Segment, Brace>>)}
Gets == {Get}

\* Its file is `validate:"required,maxbytes=..."`.
Limits == {File}

All == {"chi", "gin", "echo", "mux"}
Chi == {"chi"}
Gin == {"gin"}
WithSockets == Ordinary \cup Sockets
=============================================================================
