------------------------------- MODULE Routes -------------------------------
(***************************************************************************)
(* From an annotated handler to an ir.Route, or to its refusal:            *)
(* ParseDirectives, discoverHandler, discoverRawHandler and                *)
(* ParseStructField (internal/analyzer).                                   *)
(*                                                                         *)
(* A package is [types : [name -> TypeDecl], handlers : Seq(Handler)].     *)
(*   TypeDecl  kind "struct", "named" (a defined basic, slice or map) or   *)
(*             "other" (interface, func, chan ...); own: declared in the   *)
(*             handlers' package; fields; refs: the named types a defined  *)
(*             slice or map mentions; terms: those the constraint of a     *)
(*             type parameter mentions; adapted: the user's adapters name  *)
(*             it                                                          *)
(*   Field     wire name, tags, dash (its json tag is "-"), exported,      *)
(*             embedded, Go type, ptr, required (validate), omitempty,     *)
(*             named: the declared types its Go type mentions              *)
(*   Handler   the shape of its parameters and results, the types it names *)
(*             there, its directive lines and the path of its route line   *)
(* Type expressions are abstracted to what the analyzer and the generated  *)
(* code tell apart: "label" is a defined string type, "int64" stands for   *)
(* every width but int, "file" is *multipart.FileHeader, "adapted" a type  *)
(* with MarshalJSON for which goduct.json declares an adapter, "chan" any  *)
(* type no field may have.                                                 *)
(***************************************************************************)
EXTENDS Integers, Sequences, FiniteSets, Functions

\* fieldtypes.go: what basicName knows, and the slices of it.
Basics == {"string", "label", "bool", "int", "int64", "float64"}
Slices == {"strings", "ints"}
Unrepresentable == {"chan", "adapted"}

ParamTags == {"path", "query", "header"}
UploadTags == {"multipart", "form"}

\* paramTypeRef: a primitive, or a slice of them where that is allowed.
IsParam(f, allowSlice) == f.type \in Basics \/ (allowSlice /\ f.type \in Slices)

\* fieldTypeRef, given whether the --adapter map is in force.
IsWire(f, adapted) == f.type \notin Unrepresentable \/ (f.type = "adapted" /\ adapted)

\* classifyTag: `json:"-"` is no source.
Sources(f) == f.tags \ (IF f.dash THEN {"json"} ELSE {})
SourceOf(f) == IF Sources(f) = {} THEN "none" ELSE CHOOSE s \in Sources(f) : TRUE

\* ParseStructField returns nil, nil.
Skipped(f) == ~f.exported \/ (~f.embedded /\ f.dash /\ Sources(f) = {})

\* The type rule of each source.
BadType(f, adapted) ==
  \/ SourceOf(f) = "path" /\ (f.ptr \/ ~IsParam(f, FALSE))
  \/ SourceOf(f) \in {"query", "header", "form"} /\ ~IsParam(f, TRUE)
  \/ SourceOf(f) = "multipart" /\ f.type \notin {"file", "files"}
  \/ SourceOf(f) \in {"json", "none"} /\ ~IsWire(f, adapted)

\* ParseStructField returns an error.
FieldRejected(f, isRequest, adapted) ==
  /\ ~Skipped(f)
  /\ \/ f.embedded
     \/ Cardinality(Sources(f)) > 1
     \/ ~isRequest /\ Sources(f) \cap (ParamTags \cup UploadTags) # {}
     \/ BadType(f, adapted)

Optional(f) ==
  CASE SourceOf(f) = "path" -> FALSE
    [] SourceOf(f) = "json" -> f.ptr \/ f.omitempty
    [] SourceOf(f) = "form" -> f.ptr \/ ~f.required
    [] SourceOf(f) = "none" -> FALSE
    [] OTHER -> ~f.required

-----------------------------------------------------------------------------
(***************************************************************************)
(* Directives.                                                             *)
(***************************************************************************)
Methods == {"GET", "POST", "PUT", "PATCH", "DELETE"}
Repeatable == {"errorresponse", "security", "wssubprotocol"}
Known == Repeatable \cup {"route", "tag", "status", "request", "response", "example",
                          "requestexample", "upload"}

\* A line apply() refuses by itself: arity and numbers are abstracted to `ok`.
Malformed(l) ==
  \/ l.name \notin Known \/ ~l.ok
  \/ l.name = "route" /\ l.word \notin Methods
  \/ l.name = "errorresponse" /\ l.code \notin 100..599

\* A line apply() refuses because of an earlier one.
Clash(a, b) ==
  /\ a.name = b.name
  /\ \/ a.name \notin Repeatable
     \/ a.name = "errorresponse" /\ a.code = b.code
     \/ a.name \in {"security", "wssubprotocol"} /\ a.word = b.word
     \/ a.name = "security" /\ "none" \in {a.word, b.word}

\* ParseDirectives returns an error.
DirectivesRejected(h) ==
  \/ \E i \in DOMAIN h.lines : Malformed(h.lines[i])
  \/ \E i, j \in DOMAIN h.lines : i < j /\ Clash(h.lines[i], h.lines[j])

Lines(h, name) == {l \in Range(h.lines) : l.name = name}
Has(h, name) == Lines(h, name) # {}
Line(h, name) == CHOOSE l \in Lines(h, name) : TRUE

Method(h) == Line(h, "route").word

\* resolveStatus.
StatusRejected(h, hasResponse) ==
  /\ ~hasResponse
  /\ IF Has(h, "status") THEN Line(h, "status").code # 204 ELSE Method(h) # "DELETE"

Status(h, hasResponse) ==
  IF Has(h, "status") THEN Line(h, "status").code
  ELSE IF ~hasResponse THEN 204
  ELSE IF Method(h) = "POST" THEN 201
  ELSE 200

-----------------------------------------------------------------------------
(***************************************************************************)
(* Handlers.                                                               *)
(***************************************************************************)
\* isRawHandlerSig.
IsRaw(h) == h.params = "raw" /\ h.results = "none"

OwnStruct(p, t) == t \in DOMAIN p.types /\ p.types[t].kind = "struct" /\ p.types[t].own

\* The struct whose fields are the route's parameters and body.
RequestOf(h) == IF IsRaw(h) THEN Line(h, "request").word ELSE h.request

\* extractParams: the fields of the request that come from a source.
From(p, h, source) ==
  {f \in Range(p.types[RequestOf(h)].fields) : ~Skipped(f) /\ SourceOf(f) = source}
HasJSON(p, h) == From(p, h, "json") # {}
HasUpload(p, h) == From(p, h, "multipart") \cup From(p, h, "form") # {}

BodyAllowed(h) == Method(h) \notin {"GET", "DELETE"}

\* checkPathParams: the parameters of the path are the path fields, both ways.
PathNames(h) == {s.name : s \in {t \in Range(h.path) : t.kind # "text"}}
PathRejected(p, h) == PathNames(h) # {f.wire : f \in From(p, h, "path")}

\* What both modes refuse of a request struct.
RequestRejected(p, h, adapted) ==
  \/ \E f \in Range(p.types[RequestOf(h)].fields) : FieldRejected(f, TRUE, adapted)
  \/ HasJSON(p, h) /\ HasUpload(p, h)
  \/ HasJSON(p, h) /\ ~BodyAllowed(h)
  \/ PathRejected(p, h)

\* discoverRawHandler returns an error.
RawRejected(p, h, adapted) ==
  \/ ~Has(h, "request")
  \/ \E l \in Lines(h, "request") \cup Lines(h, "response") : ~OwnStruct(p, l.word)
  \/ StatusRejected(h, Has(h, "response"))
  \/ RequestRejected(p, h, adapted)

\* The message types of a handler's signature.
Messages(h) ==
  CASE h.params = "socket" -> {h.send, h.recv}
    [] h.results \in {"response", "stream"} -> {h.answer}
    [] OTHER -> {}

\* discoverHandler returns an error for a handler that is not raw.
IdiomaticRejected(p, h, adapted) ==
  \/ Has(h, "request") \/ Has(h, "response") \/ Has(h, "upload")
  \/ h.params \notin {"request", "socket"}
  \/ h.results \notin {"error"} \cup (IF h.params = "socket" THEN {} ELSE {"response", "stream"})
  \/ \E t \in Messages(h) \cup {h.request} : ~OwnStruct(p, t)
  \/ StatusRejected(h, Messages(h) # {})
  \/ RequestRejected(p, h, adapted)
  \/ HasUpload(p, h) /\ ~BodyAllowed(h)
  \/ Has(h, "wssubprotocol") /\ h.params # "socket"
  \/ \E l \in Lines(h, "errorresponse") : l.word \notin DOMAIN p.types \/ ~p.types[l.word].own

\* A func with goduct: lines and no goduct:route is no handler (errNotHandler).
IsHandler(h) == ~DirectivesRejected(h) /\ Has(h, "route")

Rejected(p, h, adapted) ==
  \/ DirectivesRejected(h)
  \/ /\ Has(h, "route")
     /\ \/ h.method \/ ~h.exported
        \/ IF IsRaw(h) THEN RawRejected(p, h, adapted) ELSE IdiomaticRejected(p, h, adapted)

\* The ir.Route of an accepted handler.  A type it may lack is a set of at most one.
RouteOf(p, h) ==
  LET upload == IF IsRaw(h) THEN Has(h, "upload") ELSE HasUpload(p, h)
      body == IF HasJSON(p, h) \/ (upload /\ ~IsRaw(h)) THEN {RequestOf(h)} ELSE {}
      response == IF IsRaw(h) THEN {l.word : l \in Lines(h, "response")}
                  ELSE IF h.results = "response" THEN {h.answer} ELSE {}
      stream == IF ~IsRaw(h) /\ h.results = "stream" THEN {h.answer} ELSE {}
      socket == IF ~IsRaw(h) /\ h.params = "socket" THEN {h.send, h.recv} ELSE {}
  IN  [handler |-> h.name, method |-> Method(h), path |-> h.path, raw |-> IsRaw(h),
       request |-> RequestOf(h), body |-> body, response |-> response, stream |-> stream,
       socket |-> socket, upload |-> upload,
       status |-> Status(h, response \cup stream \cup socket # {}),
       pathParams |-> From(p, h, "path"), queryParams |-> From(p, h, "query"),
       headerParams |-> From(p, h, "header"),
       errors |-> IF IsRaw(h) THEN {} ELSE {l.word : l \in Lines(h, "errorresponse")},
       security |-> IF IsRaw(h) THEN {} ELSE {l.word : l \in Lines(h, "security")},
       protocols |-> IF IsRaw(h) THEN {} ELSE {l.word : l \in Lines(h, "wssubprotocol")}]
=============================================================================
