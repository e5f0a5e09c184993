---------------------------- MODULE MCDiscovery ----------------------------
(***************************************************************************)
(* Small packages for Discovery: one declaration of each kind, cycles of   *)
(* one and two types, a type of another package, and handlers of each      *)
(* shape over them.                                                        *)
(***************************************************************************)
EXTENDS Discovery

Names == {"Req", "Body", "Up", "Mixed", "Page", "Node", "Pair", "Tags", "Label", "Iface",
          "Money", "Event", "Foreign", "other.T", "net/http.Request"}

Plain == [wire |-> "x", tags |-> {"json"}, dash |-> FALSE, exported |-> TRUE,
          embedded |-> FALSE, type |-> "string", ptr |-> FALSE, required |-> FALSE,
          omitempty |-> FALSE, named |-> {}]
From1(source, wire) == [Plain EXCEPT !.tags = {source}, !.wire = wire]
OfType(ts) == [Plain EXCEPT !.type = "named", !.named = ts]

Struct(fields) == [kind |-> "struct", own |-> TRUE, fields |-> fields, refs |-> {},
                   terms |-> {}, adapted |-> FALSE]
Defined(refs) == [Struct(<<>>) EXCEPT !.kind = "named", !.refs = refs]

\* Req: parameters only, one of them of the defined type Label.  Node: a list of itself.
\* Pair and Page: each holds the other.  Tags: a slice of Label.  Money: adapted.
Library ==
  [Req |-> Struct(<<From1("path", "id"),
                    [From1("query", "label") EXCEPT !.type = "label", !.named = {"Label"}],
                    [From1("header", "X") EXCEPT !.required = TRUE]>>),
   Body |-> Struct(<<Plain, OfType({"Tags"}), [Plain EXCEPT !.dash = TRUE],
                     [Plain EXCEPT !.exported = FALSE, !.type = "chan"]>>),
   Up |-> Struct(<<[From1("multipart", "f") EXCEPT !.type = "file"], From1("form", "t")>>),
   Mixed |-> Struct(<<Plain, From1("form", "t")>>),
   Page |-> [Struct(<<OfType({"Pair", "Node"})>>) EXCEPT !.terms = {"Event"}],
   Node |-> Struct(<<OfType({"Node"})>>),
   Pair |-> Struct(<<OfType({"Page"}), [Plain EXCEPT !.tags = {}, !.type = "int"]>>),
   Tags |-> Defined({"Label"}),
   Label |-> Defined({}),
   Iface |-> [Defined({}) EXCEPT !.kind = "other"],
   Money |-> [Struct(<<>>) EXCEPT !.adapted = TRUE],
   Event |-> Struct(<<[Plain EXCEPT !.type = "adapted"], OfType({"Tags"})>>),
   Foreign |-> Struct(<<OfType({"other.T"}), OfType({"Iface"})>>)]

-----------------------------------------------------------------------------
Text == [kind |-> "text", name |-> "items"]
Colon == [kind |-> "colon", name |-> "id"]
Dir(name, word) == [name |-> name, word |-> word, code |-> 0, ok |-> TRUE]
Num(name, code, word) == [name |-> name, word |-> word, code |-> code, ok |-> TRUE]

Get == [name |-> "Get", method |-> FALSE, exported |-> TRUE, params |-> "request",
        results |-> "response", request |-> "Req", answer |-> "Page", send |-> "Event",
        recv |-> "Event", lines |-> <<Dir("route", "GET")>>, path |-> <<Text, Colon>>]
Called(name, h) == [h EXCEPT !.name = name]
Post == [Called("Post", Get) EXCEPT !.request = "Body", !.answer = "Node", !.path = <<Text>>,
                                    !.lines = <<Dir("route", "POST"), Dir("security", "none")>>]
Upload == [Called("Upload", Post) EXCEPT !.request = "Up", !.results = "error",
             !.lines = <<Dir("route", "PUT"), Num("status", 204, ""),
                         Num("errorresponse", 404, "Tags")>>]
Watch == [Called("Watch", Get) EXCEPT !.results = "stream", !.answer = "Node"]
Chat == [Called("Chat", Get) EXCEPT !.params = "socket", !.results = "error",
           !.lines = <<Dir("route", "GET"), Dir("wssubprotocol", "v1")>>]
Raw == [Called("Raw", Get) EXCEPT !.params = "raw", !.results = "none", !.lines =
          <<Dir("route", "GET"), Dir("request", "Req"), Dir("response", "Node"),
            Dir("security", "none")>>]
Stale == [Called("Stale", Post) EXCEPT !.request = "Mixed"]
Helper == [Called("Helper", Get) EXCEPT !.lines = <<Dir("tag", "t")>>]
Twice == [Called("Twice", Get) EXCEPT !.lines = <<Dir("route", "GET"), Dir("route", "GET")>>]
Lost == [Called("Lost", Post) EXCEPT !.answer = "Foreign"]

Package(hs) ==
  [types |-> [t \in DOMAIN Library |-> Library[t]], handlers |-> hs]

\* Packages of one or two handlers, in both orders.
Ordinary == {Get, Post, Upload, Watch, Stale, Helper, Twice, Lost}
Pairs == {Package(<<a, b>>) : a, b \in Ordinary}
Sockets == {Package(<<Chat>>), Package(<<Chat, Get>>)}
Raws == {Package(<<Raw>>)}

\* A socket handler and a stream on POST, whose request has JSON fields.
PostSocket == {Package(<<[Chat EXCEPT !.request = "Body", !.path = <<Text>>,
                                      !.lines = <<Dir("route", "POST")>>]>>)}
PostStream == {Package(<<[Watch EXCEPT !.request = "Body", !.path = <<Text>>,
                                       !.lines = <<Dir("route", "POST")>>]>>)}
\* A handler that answers a type for which goduct.json declares an adapter.
AnswersAdapted == {Package(<<[Get EXCEPT !.answer = "Money"]>>)}

\* Every package above whose requests the analyzer means to accept or refuse.
Walked == Pairs \cup Sockets \cup Raws \cup PostSocket \cup PostStream \cup AnswersAdapted

GenOnly == {"gen"}
DoctorOnly == {"doctor"}
Both == {"gen", "doctor"}
=============================================================================
