---------------------------- MODULE MCGenerate ----------------------------
(***************************************************************************)
(* Each route below, alone and beside each other one, with all generators; *)
(* and variations of the command line over one plain package.              *)
(***************************************************************************)
EXTENDS Generate

Str == Builtin("string")
Decimal == Builtin("decimal.Decimal")
T == Param("T")
Ref(t) == Named(t, <<>>)
Of(t, a) == Named(t, <<a>>)

Struct(params, fields) == [kind |-> "struct", params |-> params, fields |-> fields]
Field(source, type) == {[source |-> source, type |-> type]}
Json(type) == Struct(<<>>, Field("json", type))
Generic(type) == Struct(<<"T">>, Field("json", type))

Library ==
  [User |-> Json(Str), Time |-> Json(Str), ListUser |-> Json(Str), GoductError |-> Json(Str),
   None |-> Struct(<<>>, {}), ById |-> Struct(<<>>, Field("path", Str)), Search |-> Struct(<<>>, Field("query", Str)),
   Tags |-> Struct(<<>>, Field("query", Slice(Str))),
   Price |-> Json(Decimal), Holder |-> Json(Ref("None")),
   Node |-> Json(Ref("Node")), Tree |-> Json(Slice(Ref("Tree"))), Coil |-> Json(Of("Box", Of("Box", Ref("Coil")))),
   Level |-> [kind |-> "enum", params |-> <<>>, fields |-> {}],
   Levels |-> [kind |-> "alias", params |-> <<>>, fields |-> Field("json", Slice(Ref("Level")))],
   Account |-> Struct(<<>>, Field("json", Ref("Levels")) \cup Field("none", Of("Page", Ref("Level")))),
   Edit |-> Struct(<<>>, Field("path", Str) \cup Field("json", Ref("User"))),
   Upload |-> Struct(<<>>, Field("multipart", Builtin("multipart.FileHeader")) \cup Field("form", Str)),
   Album |-> Struct(<<>>, Field("multipart", Slice(Builtin("multipart.FileHeader"))) \cup Field("form", Slice(Str))),
   Page |-> Generic(Slice(T)), Box |-> Generic(T), Wrap |-> Generic(Of("Box", T))]

Parameters(t) == {[in |-> f.source, type |-> f.type] : f \in From(Library[t], {"path", "query"})}
Colon(name) == [as |-> "colon", name |-> name]
Word(name) == [as |-> "plain", name |-> name]

\* A handler of the request type t; what it answers is filled in below.
Route(method, words, t) ==
  [handler |-> words, tag |-> <<"Users", "User">>, method |-> method,
   path |-> <<Word("users")>> \o (IF From(Library[t.name], {"path"}) # {} THEN <<Colon("id")>> ELSE <<>>),
   params |-> Parameters(t.name), request |-> t,
   body |-> IF method = "POST" /\ From(Library[t.name], {"json", "multipart", "form"}) # {} THEN {t} ELSE {},
   upload |-> UploadFields(Library[t.name]) # {},
   response |-> {}, stream |-> {}, socket |-> {}, errors |-> {}, badExamples |-> {}]

Answers == {Ref(t) : t \in {"User", "None", "Price", "Holder", "Node", "Tree", "Account", "GoductError"}}
           \cup {Of("Page", a) : a \in {Ref("User"), Str, Builtin("time.Time"), Ref("Time"), Ref("ListUser"),
                                        Slice(Ref("User")), Decimal, Of("Page", Ref("User"))}}
           \cup {Of("Wrap", Ref("User"))}
Bodies == {Ref(t) : t \in {"User", "Edit", "Node", "Coil", "Tree", "Upload", "Album", "Search", "ById"}}
          \cup {Of("Box", Ref("User")), Of("Box", Of("Page", Ref("User"))), Of("Wrap", Ref("User"))}

Menu ==
  {[Route("GET", <<"Get", "User">>, Ref("ById")) EXCEPT !.response = {a}] : a \in Answers}
    \cup {[Route("POST", <<"Create", "User">>, b) EXCEPT !.response = {Ref("User")}] : b \in Bodies}
    \cup {[Route("GET", <<"Get", "Users">>, Ref(t)) EXCEPT !.response = {Ref("User")}] : t \in {"None", "Search", "Tags"}}
    \cup {[Route("GET", <<"Ping">>, Ref("None")) EXCEPT !.path = <<Word("ping")>>],
          [Route("POST", <<"Store">>, Ref("User")) EXCEPT !.path = <<Word("store")>>, !.upload = TRUE, !.response = {Ref("Node")}],
          Route("DELETE", <<"Delete", "User">>, Ref("ById")),
          [Route("GET", <<"Watch", "User">>, Ref("ById")) EXCEPT !.stream = {Of("Page", Ref("ListUser"))}],
          [Route("GET", <<"Chat">>, Ref("None")) EXCEPT !.socket = {Ref("User"), Of("Box", Ref("User"))}],
          [Route("GET", <<"Find", "User">>, Ref("None")) EXCEPT !.response = {Of("Page", Ref("ListUser"))}, !.errors = {Ref("Page"), Ref("GoductError")}],
          [Route("GET", <<"Latest">>, Ref("None")) EXCEPT !.path = <<Word("latest")>>, !.response = {Of("Page", Ref("Time"))}],
          [Route("GET", <<"Show", "User">>, Ref("None")) EXCEPT !.response = {Ref("User")}, !.badExamples = {"response"}]}

\* The TypeRefs of all that, with those inside them.
Arguments1(S) == S \cup UNION {ToSet(e.args) : e \in S}
MCTypeRefs ==
  Arguments1(Arguments1(Arguments1(
    (UNION {{f.type : f \in Library[t].fields} : t \in DOMAIN Library})
      \cup (UNION {AllRefs(r) \cup {p.type : p \in r.params} : r \in Menu}))))

MCLastPart(b) == CASE b = "time.Time" -> "Time" [] b = "decimal.Decimal" -> "Decimal" [] OTHER -> b

\* DiscoverTypes: what the routes reach.
NamesIn(refs) == {e.name : e \in {i \in UNION {Inside(ref) : ref \in refs} : i.kind = "named"}}
Mentions == [t \in DOMAIN Library |-> NamesIn({f.type : f \in Library[t].fields})]
Source(routes) ==
  [types |-> [t \in Closure(Mentions, NamesIn(UNION {AllRefs(r) : r \in ToSet(routes)})) |-> Library[t]],
   routes |-> routes]

\* Each route alone, and every two of different handlers.
Sources ==
  {Source(<<r>>) : r \in Menu}
    \cup UNION {{Source(<<r, s>>) : s \in {m \in Menu : m.handler # r.handler}} : r \in Menu}

-----------------------------------------------------------------------------
Command(flags, options, adapters, file, json, source) ==
  [cli |-> [malformed |-> FALSE, config |-> FALSE, flags |-> flags, options |-> options, adapters |-> adapters],
   file |-> file, json |-> json, source |-> source]

Everything == Given \* a goduct.json that sets nothing
AllOf(source, adapters) ==
  Command("all" :> TRUE, [pattern |-> "./api", out |-> "web"], "decimal.Decimal" :> "string", "found",
          [Everything EXCEPT !.adapters = adapters], source)

Plainest == Source(<<[Route("GET", <<"Get", "User">>, Ref("ById")) EXCEPT !.response = {Ref("Price")}]>>)
Plain1 == Command("types" :> TRUE, [pattern |-> "./api", out |-> "web"], "decimal.Decimal" :> "string", "found", Everything, Plainest)

\* What is selected, where it goes, who maps the decimal, what is malformed or missing.
Selections ==
  {[Plain1 EXCEPT !.cli.flags = fl, !.json.generators = gs, !.json.all = al] :
     fl \in {<<>>, "types" :> TRUE, "types" :> FALSE, "go-adapter" :> TRUE, "all" :> TRUE},
     gs \in {{}, {"zod"}, {"go-adapter", "types"}, {"typos"}}, al \in BOOLEAN}
Placings ==
  {[c EXCEPT !.cli.options = o, !.json.options = jo] :
     c \in {Plain1, [Plain1 EXCEPT !.cli.flags = "go-adapter" :> TRUE]},
     o \in {<<>>, "pattern" :> "./api", [pattern |-> "./api", out |-> "web"]},
     jo \in {<<>>, [pattern |-> "./api", out |-> "ts"], [framework |-> "rails"]}}
Adaptings ==
  {[c EXCEPT !.cli.adapters = a, !.json.adapters = ja] :
     c \in {Plain1, [Plain1 EXCEPT !.cli.flags = "all" :> TRUE]},
     a \in {<<>>, "decimal.Decimal" :> "string"}, ja \in {<<>>, "decimal.Decimal" :> "strin", "decimal.Decimal" :> "number"}}
Faulty ==
  {[Plain1 EXCEPT !.cli.malformed = m, !.cli.config = e, !.json.ping = p] : m \in BOOLEAN, e \in BOOLEAN, p \in BOOLEAN}
    \cup {[Plain1 EXCEPT !.cli.config = e, !.file = f] : e \in BOOLEAN, f \in {"absent", "broken"}}

MCCommands == {AllOf(s, <<>>) : s \in Sources} \cup Selections \cup Placings \cup Adaptings \cup Faulty
=============================================================================
