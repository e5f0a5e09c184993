------------------------------- MODULE Calls -------------------------------
(***************************************************************************)
(* One call of an accepted route: the Go adapter and the TypeScript client *)
(* generated for it (goadapter, tsclient) and the runtime's error writer.  *)
(* The generated client or any other HTTP client sends the request; the    *)
(* adapter decodes it into the request struct, calls the handler and       *)
(* writes its result; the client makes a value or an exception of that.    *)
(*                                                                         *)
(* A TypeScript number is "zero", "one", "half", a fraction (0.5), or      *)
(* "huge", an integer that no Go int holds (1e21). Texts are names as      *)
(* well: "a" stands for those that URLs hold as they are, "spaced" for     *)
(* those with a character that URLs escape (a b), "at" for those with one  *)
(* that they may hold but that encodeURIComponent escapes (a@b), "cut" for *)
(* those with a slash (a/b). A file is "blob" or, over its limit, "big", a *)
(* list of files "blobs", "big" or "none". What an optional argument lacks *)
(* is missing from the domain of a function. Arguments and the request     *)
(* struct are by field, a URL, a header and a form by name. A raw handler  *)
(* has no adapter, and no package with one is analyzed to the end          *)
(* (Discovery's RawAnalyzes).                                              *)
(***************************************************************************)
EXTENDS Routes

CONSTANTS
  Packages,   \* packages whose handlers are all accepted, none of them raw
  Frameworks, \* the values of --framework
  Limited     \* the fields with a maxbytes rule

ASSUME CallsAssumption ==
  /\ Frameworks \subseteq {"chi", "gin", "echo", "mux"}
  /\ \A p \in Packages : \A h \in Range(p.handlers) :
       IsHandler(h) /\ ~IsRaw(h) /\ ~Rejected(p, h, TRUE)

VARIABLES
  pkg, framework, route,
  stage,     \* how far the request has come
  caller,    \* whether the client still waits for its answer
  origin,    \* who calls: the generated client or another
  args,      \* the client's arguments
  wire,      \* the HTTP request
  req,       \* the request struct the adapter fills
  returned,  \* what the handler returned
  reply,     \* the HTTP response
  outcome    \* what the client's method made of it

input == <<pkg, framework, route>>
vars == <<input, stage, caller, origin, args, wire, req, returned, reply, outcome>>

NoText == ""
Nothing == [kind |-> "nothing", status |-> 0, code |-> NoText]
Answer(kind, status, code) == [kind |-> kind, status |-> status, code |-> code]
Empty == <<>>

-----------------------------------------------------------------------------
(***************************************************************************)
(* What is generated.                                                      *)
(***************************************************************************)
RoutesOf(p) == {RouteOf(p, h) : h \in Range(p.handlers)}

\* The fields the analyzer keeps of a route's request.
Fields(r) == {f \in Range(pkg.types[r.request].fields) : ~Skipped(f)}
FormsOf(r) == {f \in Fields(r) : SourceOf(f) = "form"}

Unary(r) == r.stream = {} /\ r.socket = {}
FormFields(r) == IF Unary(r) /\ r.upload THEN FormsOf(r) ELSE {}

\* Streams and sockets send and decode no body.
HasBody == route.body # {} /\ Unary(route)

\* queryAssign, uploadFormAssign and statusConst panic on what they do not know.
AdapterPanics(r) ==
  \/ \E f \in r.queryParams \cup FormFields(r) : f.type \in Slices
  \/ r.socket = {} /\ r.status \notin {200, 201, 204}

\* `req.F = <text>` and `req.F = n` compile for these field types only.
Assigns(f) == ~f.ptr /\ f.type \in {"string", "int", "bool", "float64"}

\* A wrapper's own code compiles: its assignments do, and a socket's `c, err := ...` does
\* not reuse the wrapper's parameter c.
WrapperCompiles(r) ==
  /\ \A f \in r.pathParams : f.type = "string"
  /\ \A f \in r.queryParams \cup FormFields(r) : Assigns(f)
  /\ r.socket # {} => framework \in {"chi", "mux"}

\* importBlock imports packages the file uses: encoding/json is used where a body is
\* decoded, strconv where a text is parsed, net/http where a status is written.
ImportsUsed(rs) ==
  LET Parsing(fields) == {f \in fields : f.type \notin {"string", "label"}}
  IN
  /\ (\E r \in rs : r.body # {} /\ ~r.upload) => \E r \in rs : Unary(r) /\ r.body # {} /\ ~r.upload
  /\ (\E r \in rs : r.upload /\ Parsing(FormsOf(r)) # {})
       => \E r \in rs : Parsing(r.queryParams \cup FormFields(r)) # {}
  /\ framework \in {"gin", "echo"} => \E r \in rs : r.socket = {}

Compiles(p) == ImportsUsed(RoutesOf(p)) /\ \A r \in RoutesOf(p) : WrapperCompiles(r)

-----------------------------------------------------------------------------
(***************************************************************************)
(* Values and texts.                                                       *)
(***************************************************************************)
Integral == {"int", "int64"}
Numeric == Integral \cup {"bool", "float64"}

\* String(n), and what strconv makes of it for a field of this Go type.
Numerals == [zero |-> "0", one |-> "1", half |-> "0.5", huge |-> "1e21"]
Number(text) == CHOOSE n \in DOMAIN Numerals : Numerals[n] = text

NumbersOf(f) ==
  IF f.type = "float64" THEN {"zero", "one", "half", "huge"} ELSE {"zero", "one"}
IsNumber(f, text) == \E n \in NumbersOf(f) : Numerals[n] = text

\* encodeURIComponent, and its inverse.  Go keeps the path as it was sent (URL.RawPath) if
\* its own escaping of the decoded path is another: for the texts that are `Reserved`.
Encoding == [spaced |-> "spaced_sent", braced |-> "braced_sent", at |-> "at_sent", cut |-> "cut_sent"]
Reserved == {"at", "cut"}
Encoded(text) == IF text \in DOMAIN Encoding THEN Encoding[text] ELSE text
Unescaped(segment) ==
  IF \E t \in DOMAIN Encoding : Encoding[t] = segment
  THEN CHOOSE t \in DOMAIN Encoding : Encoding[t] = segment
  ELSE segment

\* What TypeScript lets an argument be.
Values(f) ==
  CASE f.type = "bool" -> {"zero", "one"}
    [] f.type \in {"int", "int64", "float64"} -> {"zero", "one", "half", "huge"}
    [] f.type = "file" -> {"blob", "big"}
    [] f.type = "files" -> {"blobs", "big", "none"}
    [] f.type = "named" -> {"object"}
    [] OTHER -> {NoText, "a"} \cup (IF SourceOf(f) = "path" THEN {"spaced", "at", "cut"} ELSE {})

Zero(f) ==
  CASE f.type \in Numeric -> "zero"
    [] f.type \in {"file", "files", "named"} -> "nil"
    [] OTHER -> NoText

Texts == {NoText, "1", "a"}
Text(f, v) == IF f.type \in Numeric THEN Numerals[v] ELSE v
Parses(f, text) == f.type \in Numeric => IsNumber(f, text)
Parsed(f, text) ==
  CASE f.type \in Numeric -> Number(text)
    [] f.type = "file" -> IF text = "big" THEN "big" ELSE "blob"
    [] f.type = "files" -> IF text = "big" THEN "big" ELSE "blobs"
    [] OTHER -> text

\* What a field of this Go type may hold: any text of a request may be that of a string.
AsItStands == "braced"
WireTexts == Texts \cup Range(Numerals) \cup DOMAIN Encoding \cup Range(Encoding)
GoValues(f) ==
  CASE f.type \in Numeric -> NumbersOf(f)
    [] f.type \in {"file", "files", "named"} -> Values(f) \cup {Zero(f)}
    [] OTHER -> WireTexts

Wires(fields) == {f.wire : f \in fields}
BodyFields == {f \in Fields(route) : SourceOf(f) \in {"json", "multipart", "form"}}

\* What is by field, by name: two fields of one name share what comes under it.
Bearer(fields, name) == CHOOSE f \in fields : f.wire = name
ByName(c) == [n \in Wires(DOMAIN c) |-> c[Bearer(DOMAIN c, n)]]

\* A multipart form keeps files and texts apart: MultipartForm.File and MultipartForm.Value.
PartOf(f) == IF SourceOf(f) = "multipart" THEN "File" ELSE "Value"
Form(c) == [part \in {"File", "Value"} |-> ByName([f \in {g \in DOMAIN c : PartOf(g) = part} |-> c[f]])]

\* The functions from some of these fields, all of `required` among them, to their values.
Choices(fields, required, Of(_)) ==
  {a \in UNION {[s -> UNION {Of(f) : f \in fields}] : s \in SUBSET fields} :
     /\ required \subseteq DOMAIN a
     /\ \A f \in DOMAIN a : a[f] \in Of(f)}

-----------------------------------------------------------------------------
Init ==
  /\ pkg \in Packages /\ framework \in Frameworks /\ route \in RoutesOf(pkg)
  /\ stage = "generate" /\ caller = "idle" /\ origin = "none"
  /\ args = Empty /\ req = Empty
  /\ wire = [path |-> Empty, query |-> Empty, headers |-> Empty, body |-> Nothing, fields |-> Empty]
  /\ returned = Nothing /\ reply = Nothing /\ outcome = Nothing

\* goduct gen --go-adapter, then go build.
Generate ==
  /\ stage = "generate"
  /\ stage' = IF \E r \in RoutesOf(pkg) : AdapterPanics(r) THEN "panicked"
              ELSE IF ~Compiles(pkg) THEN "uncompilable"
              ELSE "ready"
  /\ UNCHANGED <<input, caller, origin, args, wire, req, returned, reply, outcome>>

-----------------------------------------------------------------------------
(***************************************************************************)
(* The client.                                                             *)
(***************************************************************************)
\* tsc refuses a type that declares a name twice: `params` has the path and the query.
Declares(fields) == \A f, g \in fields : f.wire = g.wire => f = g
TypeChecks == Declares(route.pathParams \cup route.queryParams) /\ Declares(BodyFields)

\* signature: `params` and `body`; what is optional there may be left out.
Arguments ==
  LET fields == route.pathParams \cup route.queryParams
                  \cup (IF route.body = {} THEN {} ELSE BodyFields)
  IN  Choices(fields, {f \in fields : ~Optional(f)}, Values)

\* pathExpr substitutes :name segments, encoded; a {name} segment stays as it stands, and
\* fetch encodes its braces.
InBraces(n) == [kind |-> "brace", name |-> n] \in Range(route.path)
PathText(f, a) == Encoded(IF InBraces(f.wire) THEN AsItStands ELSE Text(f, a[f]))
PathOf(a) == ByName([f \in route.pathParams |-> PathText(f, a)])

\* request: undefined values are left out.
Given(a, fields) == fields \cap DOMAIN a
Sent(a, fields) == [f \in Given(a, fields) |-> Text(f, a[f])]
SendsRequired(a) == ByName(Sent(a, {f \in route.queryParams : ~Optional(f)}))
QueryOf(a) == ByName(Sent(a, route.queryParams))

\* renderMethod: a FormData holds no entry for an empty list of files.
SkipsFalsy(a) == Form(Sent(a, {f \in Given(a, BodyFields) : a[f] \notin {NoText, "zero", "none"}}))
FormOf(a) == Form(Sent(a, {f \in Given(a, BodyFields) : a[f] # "none"}))
JSONOf(a) == [f \in Given(a, BodyFields) |-> a[f]]

Body(kind) == [kind |-> kind, status |-> 0, code |-> NoText]

RequestFor(a) ==
  [path |-> PathOf(a), query |-> QueryOf(a), headers |-> Empty,
   body |-> Body(IF ~HasBody THEN "none" ELSE IF route.upload THEN "form" ELSE "json"),
   fields |-> IF ~HasBody THEN Empty ELSE IF route.upload THEN FormOf(a) ELSE JSONOf(a)]

\* A method of the generated client is called.
ClientCalls(a) ==
  /\ stage = "ready" /\ TypeChecks
  /\ origin' = "client" /\ args' = a /\ caller' = "waiting"
  /\ stage' = "called"
  /\ UNCHANGED <<input, wire, req, returned, reply, outcome>>

\* schemas.X.parse(body) before a JSON body is sent: z.number().int() refuses what is no
\* integer, and from zod 4 on, which the package does not fix, what is no safe integer.
Unsound(a, kinds) ==
  /\ HasBody /\ ~route.upload
  /\ \E f \in Given(a, BodyFields) : f.type \in Integral /\ a[f] \in kinds

ParseThrows ==
  /\ stage = "called" /\ caller = "waiting"
  /\ Unsound(args, {"half", "huge"})
  /\ caller' = "told" /\ outcome' = Answer("ZodError", 0, NoText)
  /\ UNCHANGED <<input, stage, origin, args, wire, req, returned, reply>>

Send ==
  /\ stage = "called" /\ caller = "waiting"
  /\ ~Unsound(args, {"half"})
  /\ wire' = RequestFor(args)
  /\ stage' = "sent"
  /\ UNCHANGED <<input, caller, origin, args, req, returned, reply, outcome>>

\* encoding/json stores a key in any field that has this name and no `json:"-"`, unless two
\* fields are tagged with it.
Keys == {f \in Fields(route) :
           ~f.dash /\ \A g \in Fields(route) : "json" \in f.tags \cap g.tags /\ f.wire = g.wire => f = g}
TextsOf(f) == IF f.type \in {"file", "files"} THEN Values(f) \ {"none"} ELSE Texts
SegmentsOf(f) == Texts \cup {"at"} \cup Range(Encoding)

\* Any other HTTP client.
ForeignCalls(query, headers, body, fields) ==
  /\ stage = "ready"
  /\ origin' = "other" /\ caller' = "waiting"
  /\ \E path \in Choices(route.pathParams, route.pathParams, SegmentsOf) :
       wire' = [path |-> ByName(path), query |-> ByName(query), headers |-> ByName(headers),
                body |-> Body(body), fields |-> fields]
  /\ stage' = "sent"
  /\ UNCHANGED <<input, args, req, returned, reply, outcome>>

\* Its body is none, garbage (anything the route does not decode) or what the route decodes.
Foreign ==
  \E query \in Choices(route.queryParams, {}, TextsOf),
     headers \in Choices(route.headerParams, {}, TextsOf) :
    \/ \E body \in {"none", "garbage"} : ForeignCalls(query, headers, body, Empty)
    \/ /\ route.body # {} /\ ~route.upload
       /\ \E fields \in Choices(Keys, {}, Values) : ForeignCalls(query, headers, "json", fields)
    \/ /\ route.body # {} /\ route.upload
       /\ \E fields \in Choices(BodyFields, {}, TextsOf) : ForeignCalls(query, headers, "form", Form(fields))

-----------------------------------------------------------------------------
(***************************************************************************)
(* The adapter.                                                            *)
(***************************************************************************)
Writes(answer) == reply' = answer /\ stage' = "written"
BadRequest == Writes(Answer("error", 400, "bad_request"))

\* The router matches a request by its path.  No parameter is an empty segment, though
\* echo's may be, and gin splits the decoded path.  echo answers 404 in JSON without a code,
\* the others in plain text.
Unrouted ==
  \E n \in DOMAIN wire.path :
    wire.path[n] \in {NoText} \cup (IF framework = "gin" THEN {Encoding["cut"]} ELSE {})

NotFound ==
  /\ stage = "sent" /\ Unrouted
  /\ Writes(IF framework = "echo" THEN Answer("error", 404, "unknown") ELSE Answer("text", 404, NoText))
  /\ UNCHANGED <<input, caller, origin, args, wire, req, returned, outcome>>

Override(r, s) == [f \in DOMAIN r |-> IF f \in DOMAIN s THEN s[f] ELSE r[f]]
Blank == [f \in Fields(route) |-> Zero(f)]

\* uploadFileAssign, uploadFormAssign: a required field is missing, a number does not parse
\* or a file is over its limit.
Filled(form) == {f \in BodyFields : f.wire \in DOMAIN form[PartOf(f)]}
UploadBad(form) ==
  \/ \E f \in BodyFields : ~Optional(f) /\ f \notin Filled(form)
  \/ \E f \in Filled(form) : ~Parses(f, form[PartOf(f)][f.wire])
  \/ \E f \in Filled(form) \cap Limited : form[PartOf(f)][f.wire] = "big"

\* encoding/json refuses a number that a field's Go type does not hold.
JSONBad(fields) == \E f \in DOMAIN fields : fields[f] \notin GoValues(f)

RefusesBody ==
  HasBody /\ IF route.upload THEN wire.body.kind # "form" \/ UploadBad(wire.fields)
             ELSE wire.body.kind # "json" \/ JSONBad(wire.fields)

Decoded ==
  IF ~HasBody THEN Blank
  ELSE IF route.upload
  THEN Override(Blank, [f \in Filled(wire.fields) |-> Parsed(f, wire.fields[PartOf(f)][f.wire])])
  ELSE Override(Blank, wire.fields)

\* wrapper: the body first ...
Decode ==
  /\ stage = "sent" /\ (framework = "echo" \/ ~Unrouted)
  /\ IF RefusesBody THEN BadRequest /\ UNCHANGED req
     ELSE req' = Decoded /\ stage' = "params" /\ UNCHANGED reply
  /\ UNCHANGED <<input, caller, origin, args, wire, returned, outcome>>

\* pathParamExpr: mux unescapes each segment and gin the path, but chi and echo match what
\* was sent, if Go has kept it, and hand over the segment as it is.
RawPath == \E n \in DOMAIN wire.path : wire.path[n] \in {Encoding[t] : t \in Reserved}
URLParam(n) ==
  IF RawPath /\ framework \in {"chi", "echo"} THEN wire.path[n] ELSE Unescaped(wire.path[n])

\* ... then the path, then the query: a number that is absent or empty is left alone, a text
\* is assigned in any case.  Headers are read by nobody.
PathFirst(r) ==
  [f \in route.pathParams |-> IF r[f] # Zero(f) THEN r[f] ELSE URLParam(f.wire)]
FromPath(r) ==
  [f \in route.pathParams |->
     IF InBraces(f.wire) /\ framework \in {"gin", "echo"} THEN NoText ELSE URLParam(f.wire)]

QueryText(n) == IF n \in DOMAIN wire.query THEN wire.query[n] ELSE NoText
Skips(f) == f.type \in Numeric /\ QueryText(f.wire) = NoText
FromQuery ==
  [f \in {q \in route.queryParams : ~Skips(q)} |-> Parsed(f, QueryText(f.wire))]
RefusesQuery == \E f \in route.queryParams : ~Skips(f) /\ ~Parses(f, QueryText(f.wire))

AssignParams ==
  /\ stage = "params"
  /\ IF RefusesQuery THEN BadRequest /\ UNCHANGED req
     ELSE /\ req' = Override(Override(req, FromPath(req)), FromQuery)
          /\ stage' = "handling" /\ UNCHANGED reply
  /\ UNCHANGED <<input, caller, origin, args, wire, returned, outcome>>

\* What a handler may return: a *goduct.Error, any other error, or its answer.
Results ==
  {Answer("error", 404, "not_found"), Answer("error", 409, "conflict"), Answer("other", 0, "secret")}
    \cup (IF route.response = {} THEN {Answer("done", 0, NoText)}
             ELSE {Answer("value", 0, NoText), Answer("nil", 0, NoText)})

\* runtime.WriteError: *Error goes out as it is, anything else as Internal.
AlwaysInternal(e) == Answer("error", 500, "internal")
WriteError(e) == IF e.kind = "error" THEN e ELSE Answer("error", 500, "internal")

Response(result) ==
  IF result.kind \in {"error", "other"} THEN WriteError(result)
  ELSE IF route.status = 204 THEN Answer("nothing", 204, NoText)
  ELSE Answer(result.kind, route.status, NoText)

HandlerReturns(result) ==
  /\ stage = "handling" /\ Unary(route)
  /\ returned' = result
  /\ Writes(Response(result))
  /\ UNCHANGED <<input, caller, origin, args, wire, req, outcome>>

\* websocket.Accept fails and has answered: what the wrapper then writes comes too late.
AcceptFails ==
  /\ stage = "handling" /\ route.socket # {}
  /\ Writes(Answer("text", 403, NoText))
  /\ UNCHANGED <<input, caller, origin, args, wire, req, returned, outcome>>

\* A stream or a socket begins: SSE, WSConn and WSConnection take over.
HandsOver ==
  /\ stage = "handling" /\ ~Unary(route)
  /\ Writes(Answer("open", route.status, NoText))
  /\ UNCHANGED <<input, caller, origin, args, wire, req, returned, outcome>>

-----------------------------------------------------------------------------
\* request: 204 is undefined, a body that is not JSON throws what JSON.parse throws, an
\* error status throws GoductError; renderMethod then parses an answer with zod.  Of a socket
\* that was refused the client sees that it is closed.
IsOk(status) == status \in 200 .. 299

Outcome ==
  IF reply.kind = "open" THEN reply
  ELSE IF route.socket # {} THEN Answer("closed", 0, NoText)
  ELSE IF reply.kind = "text" THEN Answer("SyntaxError", 0, NoText)
  ELSE IF ~IsOk(reply.status) THEN Answer("GoductError", reply.status, reply.code)
  ELSE IF route.response = {} THEN Nothing
  ELSE IF reply.kind = "value" THEN Answer("value", 0, NoText)
  ELSE Answer("ZodError", 0, NoText)

Receive ==
  /\ stage = "written" /\ caller = "waiting"
  /\ caller' = "told"
  /\ outcome' = IF origin = "client" THEN Outcome ELSE Nothing
  /\ UNCHANGED <<input, stage, origin, args, wire, req, returned, reply>>

\* fetch rejects: the connection fails.  The adapter may have the request, or get it later,
\* and goes on with it.
Lost ==
  /\ stage \in {"sent", "params", "handling", "written"} /\ caller = "waiting"
  /\ caller' = "told" /\ outcome' = Answer("TypeError", 0, NoText)
  /\ UNCHANGED <<input, stage, origin, args, wire, req, returned, reply>>

Next ==
  \/ Generate \/ ParseThrows \/ Send \/ Foreign \/ NotFound \/ Decode \/ AssignParams
  \/ AcceptFails \/ HandsOver \/ Receive \/ Lost
  \/ stage = "ready" /\ \E a \in Arguments : ClientCalls(a)
  \/ stage = "handling" /\ \E result \in Results : HandlerReturns(result)

Spec == Init /\ [][Next]_vars

-----------------------------------------------------------------------------
(***************************************************************************)
(* Properties.                                                             *)
(***************************************************************************)
Invoked == stage = "handling" \/ returned # Nothing

\* Every field the adapter has filled holds a value of its Go type, and the handler is given all.
TypeOK ==
  /\ stage \in {"generate", "panicked", "uncompilable", "ready", "called", "sent", "params",
                "handling", "written"}
  /\ caller \in {"idle", "waiting", "told"}
  /\ origin \in {"none", "client", "other"}
  /\ args \in Arguments \cup {Empty}
  /\ DOMAIN req \subseteq Fields(route)
  /\ \A f \in DOMAIN req : req[f] \in GoValues(f)
  /\ Invoked => DOMAIN req = Fields(route)
  /\ returned \in Results \cup {Nothing}

\* The path has no {name} segment, for which client and adapter disagree (README).
Colons == \A f \in route.pathParams : ~InBraces(f.wire)

\* An argument of the path that chi and echo do not unescape, or what shares the path with one.
Escaping == framework \in {"chi", "echo"} /\ \E g \in route.pathParams : args[g] \in Reserved

\* What the caller passed, as the handler is to find it: one left out, or an empty list of
\* files, is the zero value of its Go type.
Passed(f) == IF f \notin DOMAIN args \/ (route.upload /\ args[f] = "none") THEN Zero(f) ELSE args[f]

\* The handler is called with what the TypeScript caller passed: each argument crosses the
\* URL or the body unchanged, but for a path that chi or echo does not unescape: there each
\* argument arrives as it was sent.  (That a stream or socket drops its body is Discovery's
\* SocketsHaveNoBody.)
ArgsArrive ==
  Invoked /\ origin = "client" /\ Colons =>
    /\ \A f \in route.queryParams \cup (IF Unary(route) THEN BodyFields ELSE {}) : req[f] = Passed(f)
    /\ \A f \in route.pathParams : req[f] = IF Escaping THEN Encoded(args[f]) ELSE args[f]

\* goadapter, "a client cannot override a path param via the body": whoever calls, the
\* handler sees the path of the URL that was routed, as it was sent or unescaped.
PathFromURL ==
  Invoked /\ Colons =>
    \A f \in route.pathParams : req[f] \in {wire.path[f.wire], Unescaped(wire.path[f.wire])}

\* Client and adapter agree on the contract: a call that type-checks is answered 400 by the
\* adapter for three reasons only: an empty list of required files, a file over its limit, or
\* a number that no Go int holds, unless the client's own validator has stopped it.
NeverRejected ==
  reply.code = "bad_request" /\ origin = "client" =>
    \/ \E f \in BodyFields : ~Optional(f) /\ args[f] = "none"
    \/ \E f \in Limited \cap DOMAIN args : args[f] = "big"
    \/ \E f \in DOMAIN args :
         f.type \in Integral /\ args[f] \in {"huge"} \cup (IF SourceOf(f) = "json" THEN {} ELSE {"half"})

\* ADR 0004: the client's method throws the *goduct.Error the handler returned, and any
\* other error as "internal" only; what it returns is the handler's answer.
ResultsArrive ==
  caller = "told" /\ origin = "client" /\ outcome.kind # "TypeError" =>
    CASE returned.kind = "error" -> outcome = Answer("GoductError", returned.status, returned.code)
      [] returned.kind = "other" -> outcome = Answer("GoductError", 500, "internal")
      [] returned.kind = "value" /\ route.status # 204 -> outcome.kind = "value"
      [] OTHER -> TRUE

-----------------------------------------------------------------------------
(***************************************************************************)
(* A unary call through the generated client is a remote procedure call.   *)
(***************************************************************************)
\* Not of those whose path arrives as it was sent: the handler runs on something else.
Heard == origin = "client" /\ Unary(route) /\ Colons /\ ~Escaping

Carried == route.pathParams \cup route.queryParams \cup BodyFields

\* What the handler's result is to the caller; a nil answer, or one that status 204 drops,
\* does not pass the validator.
Promised(result) ==
  CASE result.kind = "error" -> Answer("GoductError", result.status, result.code)
    [] result.kind = "other" -> Answer("GoductError", 500, "internal")
    [] result.kind = "done" -> Nothing
    [] result.kind = "value" /\ route.status # 204 -> Answer("value", 0, NoText)
    [] OTHER -> Answer("ZodError", 0, NoText)

Call == INSTANCE Rpc WITH
  Refusals <- {Answer("GoductError", 400, "bad_request"), Answer("GoductError", 404, "unknown"),
               Answer("SyntaxError", 0, NoText), Answer("ZodError", 0, NoText)},
  Loss <- Answer("TypeError", 0, NoText),
  asked <- IF Heard THEN {[f \in Carried |-> Passed(f)]} ELSE {},
  served <- IF Heard /\ Invoked THEN {[f \in Carried |-> req[f]]} ELSE {},
  answer <- IF Heard /\ returned # Nothing THEN {Promised(returned)} ELSE {},
  outcome <- IF Heard /\ caller = "told" THEN {outcome} ELSE {}

\* A call of a generated method implements Rpc: its outcome is its handler's answer, and a
\* call that was refused has not run its handler.
RpcSpec == Call!Spec

-----------------------------------------------------------------------------
(***************************************************************************)
(* Promises the code does not keep: the README says which packages refute  *)
(* each.                                                                   *)
(***************************************************************************)
\* ADR 0014: path parameters are any primitive, query parameters also slices.  An accepted
\* package has an adapter, and it compiles.
AdapterBuilds == stage \notin {"panicked", "uncompilable"}

\* README: a field tagged `path` is the URL path parameter, which the client fills in with
\* encodeURIComponent: the handler finds what the caller passed.
PathsArrive ==
  Invoked /\ origin = "client" /\ Colons => \A f \in route.pathParams : req[f] = args[f]

\* "every {name}/:name segment" (routes.go:495) of a path holds the parameter of that name.
BracesArrive == Invoked /\ origin = "client" => \A f \in route.pathParams : req[f] = args[f]

\* ADR 0015: "Adapter-generated code uses it to decide whether a missing query string is a
\* 400 or a zero-value default".
QueryRequired ==
  Invoked => \A f \in route.queryParams : ~Optional(f) => f.wire \in DOMAIN wire.query

\* README: a field tagged `header` comes from the request header.
HeadersArrive ==
  Invoked => \A f \in route.headerParams :
    f.wire \in DOMAIN wire.headers => req[f] = Parsed(f, wire.headers[f.wire])

\* README: a field tagged `query` comes from the query string, and from nowhere else.
QueryFromURL ==
  Invoked => \A f \in route.queryParams :
    f.wire \notin DOMAIN wire.query => req[f] = Zero(f)

\* ADR 0004: the client throws GoductError with the HTTP status.
FailuresAreGoductErrors ==
  caller = "told" /\ origin = "client" /\ Unary(route) /\ reply.status >= 400 =>
    outcome.kind \in {"GoductError", "TypeError"}
=============================================================================
