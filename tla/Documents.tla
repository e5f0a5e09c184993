----------------------------- MODULE Documents -----------------------------
(***************************************************************************)
(* What the generators that describe an API say of it, as operators on the *)
(* API that the analyzer returned: types.ts and schemas.ts, client.ts,     *)
(* hooks.ts, openapi.json, the Postman collection.  A document is what it  *)
(* declares and what it refers to; its text is left out.  The generators   *)
(* recurse over TypeRefs; here a recursion is the closure of what one call *)
(* leads to.                                                               *)
(*                                                                         *)
(* An API is a record: types, a function from names to declarations;       *)
(* routes, a sequence; wires, the adapters given for types it does not     *)
(* know.  One package is analyzed, so that a name needs no path.           *)
(***************************************************************************)
EXTENDS Naturals, Sequences, SequencesExt, FiniteSets, TLC

CONSTANTS
  TypeRefs,     \* those that the APIs are made of
  LastPart(_)   \* the name of a builtin after its last dot

\* All that is reached from S, where next[x] is what x leads to.
Successors(next, X) == X \cup UNION {next[x] : x \in X}
Closure(next, S) ==
  LET grown[X \in SUBSET DOMAIN next] ==
        IF Successors(next, X) = X THEN X ELSE grown[Successors(next, X)]
  IN  grown[S]

\* ir.TypeRef: the element of a slice is its only argument; a map is one of its values.
Builtin(b) == [kind |-> "builtin", name |-> b, args |-> <<>>]
Param(p) == [kind |-> "param", name |-> p, args |-> <<>>]
Slice(e) == [kind |-> "slice", name |-> "", args |-> <<e>>]
Named(t, args) == [kind |-> "named", name |-> t, args |-> args]

\* A TypeRef and all the TypeRefs in it.
Below == [ref \in TypeRefs |-> ToSet(ref.args)]
Inside(ref) == Closure(Below, {ref})

\* A TypeRef is a finite tree.
ASSUME TypeRefsAssumption ==
  /\ IsFiniteSet(TypeRefs)
  /\ \A ref \in TypeRefs :
       /\ ref \in [kind : {"builtin", "param", "slice", "named"}, name : STRING, args : Seq(TypeRefs)]
       /\ ref.kind \in {"builtin", "param"} => ref.args = <<>>
       /\ ref.kind = "slice" => Len(ref.args) = 1
       /\ \A e \in ToSet(ref.args) : ref \notin Inside(e)

IsGeneric(ref) == ref.kind = "named" /\ ref.args # <<>>
HasParam(ref) == \E e \in Inside(ref) : e.kind = "param"
BuiltinsIn(ref) == {e.name : e \in {i \in Inside(ref) : i.kind = "builtin"}}

\* The builtins every generator knows.
KnownBuiltins == {"string", "int", "time.Time"}
Wires == {"string", "number", "boolean", "unknown"}

\* The table of builtins, then the adapters (gen.AdapterWireTS and its like).
Spelled(api, b) ==
  \/ b \in KnownBuiltins
  \/ b \in DOMAIN api.wires /\ api.wires[b] \in Wires

-----------------------------------------------------------------------------
(***************************************************************************)
(* internal/gen.                                                           *)
(***************************************************************************)
From(td, sources) == {f \in td.fields : f.source \in sources}
WireFields(td) == From(td, {"json"})
UploadFields(td) == From(td, {"multipart", "form"})

OnlyWire(td) == td.kind = "struct" => WireFields(td) # {}
EmitTS(td) == td.kind = "struct" => WireFields(td) \cup UploadFields(td) # {}

Emitted(api) == {t \in DOMAIN api.types : EmitTS(api.types[t])}

\* A handler is its words; a tag is its own name and the singular, as words.
MethodName(r) ==
  LET n == Len(r.handler)
  IN  IF n > 1 /\ r.handler[n] \in ToSet(r.tag) THEN SubSeq(r.handler, 1, n - 1) ELSE r.handler

Routes(api) == ToSet(api.routes)
\* Neither a stream nor a socket: postman and hooks leave the others out.
Unary(r) == r.stream = {} /\ r.socket = {}
Params(r, places) == {p \in r.params : p.in \in places}

-----------------------------------------------------------------------------
(***************************************************************************)
(* types.ts and schemas.ts.                                                *)
(***************************************************************************)
\* What renderType and renderSchema spell: a file has no TypeRef of its own.
FieldTypes(td) == {f.type : f \in From(td, {"json", "form"})}

TypesPanics(api) ==
  \E t \in Emitted(api) : \E ref \in FieldTypes(api.types[t]) :
    \E b \in BuiltinsIn(ref) : ~Spelled(api, b)

\* A name as TypeScript sees it: the file it is looked up in, and its arity.
Name(file, t, arity) == [file |-> file, name |-> t, arity |-> arity]

\* Both files declare the emitted types, schemas.ts the generic ones as functions.
Declared(api) ==
  {Name(file, t, Len(api.types[t].params)) : file \in {"types", "schemas"}, t \in Emitted(api)}

FieldNames(td) ==
  {Name(file, e.name, Len(e.args)) :
     file \in {"types", "schemas"},
     e \in {i \in UNION {Inside(ref) : ref \in FieldTypes(td)} : i.kind = "named"}}

-----------------------------------------------------------------------------
(***************************************************************************)
(* client.ts and hooks.ts.                                                 *)
(***************************************************************************)
\* renderMethod: a socket or a stream has neither response nor schema.
Answer(r) == IF r.socket # {} THEN r.socket ELSE IF r.stream # {} THEN r.stream ELSE r.response
Validated(r) == IF ~Unary(r) THEN {} ELSE r.response \cup (IF r.upload THEN {} ELSE r.body)

\* What tsTypeRef and tsType come to in a TypeRef.  tsTypeRef, for the answer and its named
\* arguments, writes t.X<..>; tsType, below any other argument, writes X and stops there.
SpelledBelow ==
  [s \in [ref : TypeRefs, as : {"qualified", "plain"}] |->
     LET as == IF s.ref.kind = "named" THEN s.as ELSE "plain"
     IN  {[ref |-> e, as |-> as] : e \in IF s.ref.kind = "named" /\ s.as = "plain" THEN {} ELSE ToSet(s.ref.args)}]
Spelling(ref) == Closure(SpelledBelow, {[ref |-> ref, as |-> "qualified"]})

\* client.ts and hooks.ts import types.ts as t; a name without t they do not have.
TypeNames(ref) ==
  {IF s.as = "qualified" THEN Name("types", s.ref.name, Len(s.ref.args)) ELSE Name("none", s.ref.name, 0) :
     s \in {x \in Spelling(ref) : x.ref.kind = "named"}}

\* schemasExpr: a builtin or a slice needs zod itself, which client.ts does not import.
SchemaNames(ref) ==
  {IF e.kind = "named" THEN Name("schemas", e.name, Len(e.args)) ELSE Name("none", "z", 0) : e \in Inside(ref)}

\* signature writes the body's type without its arguments.
SignatureNames(r) == {Name("types", b.name, 0) : b \in r.body}

ClientNames(r) ==
  SignatureNames(r)
    \cup (UNION {TypeNames(ref) : ref \in Answer(r)})
    \cup (UNION {SchemaNames(ref) : ref \in Validated(r)})

\* tsTypeRef and schemasExpr know no adapters.
Unadapted(refs) ==
  \E ref \in refs : \E s \in Spelling(ref) : s.ref.kind = "builtin" /\ s.ref.name \notin KnownBuiltins
ClientPanics(api) ==
  \E r \in Routes(api) :
    Unadapted(Answer(r)) \/ \E ref \in Validated(r) : ~(BuiltinsIn(ref) \subseteq KnownBuiltins)

HookRoutes(api) == {r \in Routes(api) : Unary(r)}
IsQuery(r) == r.method = "GET"
HookTypes(r) == r.response \cup (IF IsQuery(r) THEN {} ELSE r.body)
HookNames(r) == UNION {TypeNames(ref) : ref \in HookTypes(r)}

\* queryHook dereferences the response; mutationTVarsAndCall has no place for a query.
HookPanics(r) ==
  \/ IF IsQuery(r) THEN r.response = {} ELSE Params(r, {"query"}) # {}
  \/ Unadapted(HookTypes(r))
HooksPanics(api) == \E r \in HookRoutes(api) : HookPanics(r)

\* The arguments of a client method, and what its hook passes.
ClientArgs(r) ==
  (IF Params(r, {"path", "query"}) # {} THEN <<"params">> ELSE <<>>)
    \o (IF r.body # {} THEN <<"body">> ELSE <<>>)
HookArgs(r) ==
  IF IsQuery(r) THEN IF Params(r, {"path", "query"}) # {} THEN <<"params">> ELSE <<>>
  ELSE (IF Params(r, {"path"}) # {} THEN <<"params">> ELSE <<>>)
         \o (IF r.body # {} THEN <<"body">> ELSE <<>>)

-----------------------------------------------------------------------------
(***************************************************************************)
(* openapi.json.                                                           *)
(***************************************************************************)
\* A segment of a path is written `name`, `:name` or `{name}`.
PathConvert(path) ==
  [i \in DOMAIN path |-> IF path[i].as = "colon" THEN [path[i] EXCEPT !.as = "braces"] ELSE path[i]]

Described(api) == {r \in Routes(api) : r.socket = {}}

\* buildPaths and setMethod: one operation per path and method, that of the last route found.
Operation(r) == <<PathConvert(r.path), r.method>>
At(api, op) == {i \in DOMAIN api.routes : api.routes[i].socket = {} /\ Operation(api.routes[i]) = op}
Paths(api) == [op \in {Operation(r) : r \in Described(api)} |-> api.routes[Max(At(api, op))].handler]

\* argName, which panics for a parameter, and the names of schemaForRef.
ArgName[ref \in {e \in TypeRefs : ~HasParam(e)}] ==
  CASE ref.kind = "builtin" -> LastPart(ref.name)
    [] ref.kind = "slice" -> "List" \o ArgName[ref.args[1]]
    [] ref.kind = "named" -> FlattenSeq(<<ref.name>> \o [i \in DOMAIN ref.args |-> "_" \o ArgName[ref.args[i]]])
ComponentName(ref) == IF ref.args = <<>> THEN ref.name ELSE ArgName[ref]

\* collectInstantiations: neither streams nor errors are among what it visits.
RouteTypes(r) == {r.request} \cup r.body \cup r.response
Mentioned(api) ==
  (UNION {RouteTypes(r) : r \in Routes(api)})
    \cup (UNION {{f.type : f \in api.types[t].fields} : t \in DOMAIN api.types})
OutermostOnly(api) == {i \in Mentioned(api) : IsGeneric(i)}
Instantiations(api) == {i \in UNION {Inside(ref) : ref \in Mentioned(api)} : IsGeneric(i)}

\* schemaForRef goes down to names, builtins and parameters.
Elements == [ref \in TypeRefs |-> IF ref.kind = "slice" THEN ToSet(ref.args) ELSE {}]
Leaves(ref) == {e \in Closure(Elements, {ref}) : e.kind # "slice"}

\* The leaves after substTypeRef, for the parameters of a generic and its arguments.  It also
\* replaces those among the arguments of a name, for which argName has panicked.
Bind(td, args) == [p \in ToSet(td.params) |-> args[CHOOSE i \in DOMAIN td.params : td.params[i] = p]]
Subst(ref, bind) ==
  UNION {IF e.kind = "param" /\ e.name \in DOMAIN bind THEN Leaves(bind[e.name]) ELSE {e} : e \in Leaves(ref)}

\* buildSchemas, a component as the TypeRef it is of.  A generic type has none, an
\* instantiation only when no type has its name, and GoductError replaces whatever it meets.
\* Of instantiations of one name the first is taken, in the order of a map: Components has
\* them all.
Plain(api) == {Named(t, <<>>) : t \in {e \in Emitted(api) : api.types[e].params = <<>>}}
GoductError == Named("goduct.Error", <<>>)
Built(api) ==
  LET taken == {c.name : c \in Plain(api)}
  IN  Plain(api) \cup {i \in Instantiations(api) : ComponentName(i) \notin taken}
Components(api) ==
  {[name |-> ComponentName(c), of |-> c] : c \in {b \in Built(api) : ComponentName(b) # "GoductError"}}
    \cup {[name |-> "GoductError", of |-> GoductError]}

\* What schemas refer to: those of a component and those of an operation.
SchemaTypes(api, c) ==
  LET td == api.types[c.name]
  IN  UNION {Subst(f.type, Bind(td, c.args)) : f \in WireFields(td)}
\* multipartSchema spells the parts of a typed upload in place.
Parts(api, r) == UNION {UploadFields(api.types[b.name]) : b \in {x \in r.body : r.upload}}
FormTypes(api, r) == {f.type : f \in {x \in Parts(api, r) : x.source = "form"}}
OperationTypes(api, r) ==
  {p.type : p \in r.params}
    \cup (IF Parts(api, r) # {} THEN {} ELSE r.body)
    \cup (IF r.stream # {} THEN r.stream ELSE r.response)
    \cup r.errors
OpenAPITypes(api) ==
  (UNION {Leaves(ref) : ref \in UNION {OperationTypes(api, r) : r \in Described(api)}})
    \cup (UNION {SchemaTypes(api, c) : c \in Built(api)})

\* The $refs, as the TypeRefs they are meant for.
Refs(api) == {ref \in OpenAPITypes(api) : ref.kind = "named"}

OpenAPIPanics(api) ==
  \/ \E i \in Instantiations(api) : HasParam(i)
  \/ \E ref \in OpenAPITypes(api) :
       HasParam(ref) \/ (ref.kind = "builtin" /\ ~Spelled(api, ref.name))
  \/ \E r \in Described(api) : \E ref \in FormTypes(api, r) : ref.kind # "builtin" \/ ~Spelled(api, ref.name)

\* goduct:example and goduct:requestexample are parsed where there is something to show.
OpenAPIErrs(api) ==
  \E r \in Described(api) :
    \/ "response" \in r.badExamples /\ r.stream = {} /\ r.response # {}
    \/ "request" \in r.badExamples /\ r.body # {}

-----------------------------------------------------------------------------
(***************************************************************************)
(* The Postman collection: exampleFor follows names down to builtins and   *)
(* slices, whose example is empty.  What it does depends on the TypeRef and*)
(* the generic whose arguments are bound: it never returns when it comes to*)
(* such a pair again.                                                      *)
(***************************************************************************)
IntoSlices(td) == {IF f.type.kind = "slice" THEN f.type.args[1] ELSE f.type : f \in WireFields(td)}
ExampleFields(td) == {f.type : f \in WireFields(td)}

Binds(api, ref) ==
  /\ ref.kind = "named" /\ ref.name \in DOMAIN api.types
  /\ ref.args # <<>> /\ Len(ref.args) = Len(api.types[ref.name].params)
Bound(api, of) == IF Binds(api, of) THEN Bind(api.types[of.name], of.args) ELSE <<>>

ExampleCalls(api) ==
  [c \in [ref : TypeRefs, of : TypeRefs] |->
     IF c.ref.kind = "param" /\ c.ref.name \in DOMAIN Bound(api, c.of)
     THEN {[ref |-> Bound(api, c.of)[c.ref.name], of |-> c.of]}
     ELSE IF c.ref.kind = "named" /\ c.ref.name \in DOMAIN api.types
     THEN {[ref |-> e, of |-> IF Binds(api, c.ref) THEN c.ref ELSE c.of] : e \in ExampleFields(api.types[c.ref.name])}
     ELSE {}]
Again(api, c) == c \in Closure(ExampleCalls(api), ExampleCalls(api)[c])
Endless(api, ref) == \E c \in Closure(ExampleCalls(api), {[ref |-> ref, of |-> ref]}) : Again(api, c)

PostmanOverflows(api) ==
  \E r \in HookRoutes(api) : \E b \in r.body : ~r.upload /\ Endless(api, b)

-----------------------------------------------------------------------------
\* goduct_routes.go: queryAssign and uploadFormAssign know these builtins only.
ParsedBuiltins == {"string", "int"}
AdapterPanics(api) ==
  \E r \in Routes(api) :
    \E ref \in {p.type : p \in Params(r, {"query"})} \cup (IF Unary(r) THEN FormTypes(api, r) ELSE {}) :
      ref.kind # "builtin" \/ ref.name \notin ParsedBuiltins

\* What may come of a generator.  openapi stops at the first of several faults.
Outcomes(g, api) ==
  LET panics == CASE g \in {"types", "zod"} -> TypesPanics(api)
                  [] g = "client" -> ClientPanics(api)
                  [] g = "hooks" -> HooksPanics(api)
                  [] g = "openapi" -> OpenAPIPanics(api)
                  [] g = "swagger-ui" -> FALSE
                  [] g = "postman" -> PostmanOverflows(api)
                  [] g = "go-adapter" -> AdapterPanics(api)
      errs == g = "openapi" /\ OpenAPIErrs(api)
      faults == {x \in {"panic", "error"} : IF x = "panic" THEN panics ELSE errs}
  IN  IF faults = {} THEN {"ok"} ELSE faults
=============================================================================
