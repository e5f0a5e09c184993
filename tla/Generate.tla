------------------------------ MODULE Generate ------------------------------
(***************************************************************************)
(* Module Command with the generators of module Documents: which APIs they *)
(* cannot take, and what their files say of the API and of each other.     *)
(***************************************************************************)
EXTENDS Documents, Command

AllRefs(r) == RouteTypes(r) \cup r.stream \cup r.socket \cup r.errors
FieldRefs(source) == UNION {{f.type : f \in source.types[t].fields} : t \in DOMAIN source.types}
RouteRefs(source) == UNION {AllRefs(r) : r \in Routes(source)}

\* A builtin that no generator knows and that is no file: recognizeBuiltin.
File == "multipart.FileHeader"
ForeignIn(source) ==
  (UNION {BuiltinsIn(ref) : ref \in FieldRefs(source) \cup RouteRefs(source)}) \ (KnownBuiltins \cup {File})

-----------------------------------------------------------------------------
(***************************************************************************)
(* What the analyzer sees to, and what the generators rely on.             *)
(***************************************************************************)
\* paramTypeRef: a path, a query or a form has a primitive or a slice of one.
Primitive(ref) ==
  ref \in TypeRefs /\
  \A e \in Inside(ref) : e.kind = "slice" \/ (e.kind = "builtin" /\ e.name \in ParsedBuiltins)

\* Go's type checker and DiscoverTypes: names are declared, generics have their arguments.
Declares(source, ref) ==
  ref \in TypeRefs /\
  \A e \in Inside(ref) : e.kind = "named" =>
    e.name \in DOMAIN source.types /\ Len(e.args) = Len(source.types[e.name].params)

\* ParseStructField: a file is a part of a form, a parameter one of the type's own.
AnalyzedField(source, td, f) ==
  /\ Declares(source, f.type)
  /\ \A e \in Inside(f.type) : e.kind = "param" => e.name \in ToSet(td.params)
  /\ f.source \in {"path", "query", "header", "form"} => Primitive(f.type)
  /\ f.source = "multipart" => \A e \in Inside(f.type) : e.kind = "slice" \/ (e.kind = "builtin" /\ e.name = File)
  /\ File \in BuiltinsIn(f.type) => f.source = "multipart"

\* discoverHandler: a type of a route is no parameter; the body is the request, if it has
\* anything for a body, and a GET may not; an error response is any type of the package, a
\* generic one without arguments.
AnalyzedRoute(source, r) ==
  /\ \A ref \in RouteTypes(r) \cup r.stream \cup r.socket : Declares(source, ref)
  /\ \A ref \in AllRefs(r) : ref.kind = "named" /\ ~HasParam(ref) /\ File \notin BuiltinsIn(ref)
  /\ \A ref \in r.errors : ref \in TypeRefs /\ ref.name \in DOMAIN source.types /\ ref.args = <<>>
  /\ \A p \in r.params : Primitive(p.type)
  /\ \A b \in r.body : b = r.request /\ From(source.types[b.name], {"json", "multipart", "form"}) # {}
  /\ r.method = "GET" => r.body = {}

Analyzed(source) ==
  /\ IsFiniteSet(DOMAIN source.types)
  /\ \A t \in DOMAIN source.types :
       LET td == source.types[t]
       IN  td.params \in Seq(STRING) /\ \A f \in td.fields : AnalyzedField(source, td, f)
  /\ source.routes \in Seq(Routes(source))
  /\ \A r \in Routes(source) : AnalyzedRoute(source, r)

\* The API of a command, once goduct.json is laid under it.
ApiOf(c) ==
  [types |-> c.source.types, routes |-> c.source.routes,
   wires |-> c.cli.adapters @@ (IF c.file = "found" THEN c.json.adapters ELSE <<>>)]

ASSUME AnalyzedAssumption == \A c \in Commands : Analyzed(c.source)

\* The generators of module Documents are those of module Command.
ASSUME GeneratorsAssumption ==
  \A c \in Commands :
    /\ Foreign(c.source) = ForeignIn(c.source)
    /\ \A g \in Generators : Renders(g, ApiOf(c)) = Outcomes(g, ApiOf(c))

-----------------------------------------------------------------------------
(***************************************************************************)
(* Which APIs a generator cannot take.  The analyzer accepts all of them.  *)
(***************************************************************************)
\* An adapter of goduct.json whose wire is none: only the command line's are validated.
BadWire == \E q \in DOMAIN opts.adapters : opts.adapters[q] \notin Wires
\* An adapted type as the argument of a generic in a route.
AdaptedArgument ==
  \E r \in Routes(Api) : \E ref \in AllRefs(r) : \E b \in BuiltinsIn(ref) : b \in DOMAIN opts.adapters
\* A generic that hands its own parameter to a generic.
Hands(t) ==
  \E f \in Api.types[t].fields : \E i \in Inside(f.type) : IsGeneric(i) /\ HasParam(i)
\* A struct that holds itself, or a generic whose argument does, other than through a slice.
Arguments == [ref \in TypeRefs |-> IF ref.kind = "named" THEN ToSet(ref.args) ELSE {}]
Spine(ref) == {e \in Closure(Arguments, {ref}) : e.kind = "named"}
Holds == [t \in DOMAIN Api.types |-> {e.name : e \in UNION {Spine(f.type) : f \in WireFields(Api.types[t])}}]
HoldsItself(t) == t \in Closure(Holds, Holds[t])

Cause(g) ==
  CASE g \in {"types", "zod"} -> BadWire
    [] g = "client" -> AdaptedArgument
    [] g = "hooks" ->
         \/ AdaptedArgument
         \/ \E r \in HookRoutes(Api) : r.method = "GET" /\ r.response = {}
         \/ \E r \in HookRoutes(Api) : r.method # "GET" /\ \E p \in r.params : p.in = "query"
    [] g = "openapi" ->
         \/ BadWire
         \/ \E t \in DOMAIN Api.types : Hands(t)
         \/ \E r \in Routes(Api) : r.badExamples # {}
         \/ \E t \in DOMAIN Api.types : \E f \in Api.types[t].fields : f.source = "form" /\ f.type.kind = "slice"
    [] g = "postman" -> \E t \in DOMAIN Api.types : HoldsItself(t) \/ Hands(t)
    [] g = "go-adapter" ->
         \/ \E r \in Routes(Api) : \E p \in r.params : p.in = "query" /\ p.type.kind = "slice"
         \/ \E t \in DOMAIN Api.types : \E f \in Api.types[t].fields : f.source = "form" /\ f.type.kind = "slice"
    [] OTHER -> FALSE

\* An API the analyzer accepts is one every generator can render, but for these.
RendersUnlessCause == failed # None => Cause(failed)

-----------------------------------------------------------------------------
(***************************************************************************)
(* What the files say of the API, and of each other.                       *)
(***************************************************************************)
Bare(t) == Api.types[t].kind = "struct" /\ ~\E f \in Api.types[t].fields : f.source \in {"json", "multipart", "form"}

\* A reference that has a component: not to a bare struct, to a generic without arguments,
\* to one only a stream has, or to a name that is taken twice.
Resolvable(ref) ==
  /\ ~Bare(ref.name)
  /\ Len(ref.args) = Len(Api.types[ref.name].params)
  /\ IsGeneric(ref) => \E m \in Mentioned(Api) \cup UNION {SchemaTypes(Api, i) : i \in Instantiations(Api)} : ref \in Inside(m)
  /\ ComponentName(ref) # "GoductError"
  /\ \A e \in Refs(Api) \cup Plain(Api) \cup Instantiations(Api) : ComponentName(e) = ComponentName(ref) => e = ref

\* openapi.json: every route that is no socket has an operation of its own, and a $ref leads
\* to the type it was written for (types.go:90 fears "a dangling $ref").
Documented ==
  exit = 0 /\ disk["openapi"] = "new" =>
    /\ \A r \in Routes(Api) :
         LET key == <<PathConvert(r.path), r.method>>
         IN  r.socket = {} /\ (\A s \in Routes(Api) \ {r} : s.socket = {} => <<PathConvert(s.path), s.method>> # key)
               => key \in DOMAIN Paths(Api) /\ Paths(Api)[key] = r.handler
    /\ \A ref \in Refs(Api) :
         Resolvable(ref) => {c.of : c \in {k \in Components(Api) : k.name = ComponentName(ref)}} = {ref}

\* Every name client.ts, hooks.ts and the fields of types.ts and schemas.ts refer to is
\* declared with that arity, and a hook calls its method with its arguments, but for bare
\* structs, generic bodies and arguments of a generic that are no names.
Clear(ref) == \A e \in Inside(ref) : e.kind = "named" => ~Bare(e.name)
ClearRoute(r) ==
  /\ \A ref \in Answer(r) : Clear(ref) /\ \A e \in Inside(ref) : e.kind = "named"
  /\ \A b \in r.body : ~IsGeneric(b)
Linked ==
  exit = 0 /\ (\A g \in {"types", "zod", "client", "hooks"} : disk[g] = "new") =>
    /\ \A r \in Routes(Api) : ClearRoute(r) =>
         /\ ClientNames(r) \subseteq Declared(Api)
         /\ r \in HookRoutes(Api) => HookNames(r) \subseteq Declared(Api)
    /\ \A r \in HookRoutes(Api) : HookArgs(r) = ClientArgs(r)
    /\ \A t \in Emitted(Api) :
         (\A ref \in FieldTypes(Api.types[t]) : Clear(ref)) => FieldNames(Api.types[t]) \subseteq Declared(Api)

-----------------------------------------------------------------------------
(***************************************************************************)
(* Promises not kept (README).                                             *)
(***************************************************************************)
\* A method of the client has one handler (gen.go:156 "the tag-grouped client method name").
OneMethodEach ==
  \A r, s \in Routes(Api) : r.tag = s.tag /\ MethodName(r) = MethodName(s) => r = s
=============================================================================
