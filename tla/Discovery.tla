----------------------------- MODULE Discovery -----------------------------
(***************************************************************************)
(* Analyze on one package (internal/analyzer/analyze.go): DiscoverRoutes   *)
(* judges its handlers in source order, then DiscoverTypes walks the types *)
(* that the accepted routes reach.  The walk is visitType's recursion made *)
(* explicit: a frame per call under way, with the types it has yet to call *)
(* visitType on.  The types in the frames are Go's `visiting` map.  Seeds  *)
(* and dependencies are taken in any order, source order among them.       *)
(*                                                                         *)
(* Two commands analyze: `goduct gen` passes the adapters goduct.json and  *)
(* --adapter declare, `goduct doctor` (cmd/goduct/doctor.go) passes none.  *)
(***************************************************************************)
EXTENDS Routes

CONSTANTS
  TypeNames,    \* qualified names a package may mention
  HttpRequest,  \* "net/http.Request"
  Packages,     \* the packages analyzed
  Commands      \* the commands that analyze them

ASSUME DiscoveryAssumption ==
  /\ HttpRequest \in TypeNames
  /\ Commands \subseteq {"gen", "doctor"}
  /\ \A p \in Packages :
       /\ p.handlers \in Seq(Range(p.handlers))
       /\ HttpRequest \notin DOMAIN p.types /\ DOMAIN p.types \subseteq TypeNames
       /\ \A t \in DOMAIN p.types :
            /\ p.types[t].refs \subseteq TypeNames
            /\ \A f \in Range(p.types[t].fields) : f.named \subseteq TypeNames

\* Source is finite.
ASSUME NamesAssumption == IsFiniteSet(TypeNames)

VARIABLES
  pkg, command,
  next,         \* the handler DiscoverRoutes comes to next
  routes,       \* the routes it has returned
  seeds,        \* DiscoverTypes' seeds not yet visited
  stack,        \* the calls of visitType under way, innermost first
  types,        \* the keys of DiscoverTypes' result
  errs,         \* the errors collected
  phase

input == <<pkg, command>>
vars == <<input, next, routes, seeds, stack, types, errs, phase>>

-----------------------------------------------------------------------------
\* Are the user's adapters in force?  doctor leaves LoadOptions.CustomAdapters empty.
Adapted == command = "gen"

\* The type of a handler's second parameter, pointer removed.
SignatureRequest(r) == IF r.raw THEN HttpRequest ELSE r.request
RequestNames == {SignatureRequest(r) : r \in Range(routes)}

\* The leaves of every TypeRef of a route.
RouteTypes(r) == {r.request} \cup r.body \cup r.response \cup r.stream \cup r.socket \cup r.errors
SeedsOf(r) == {SignatureRequest(r)} \cup RouteTypes(r)
Seeds == UNION {SeedsOf(r) : r \in Range(routes)}

Decl(t) == pkg.types[t]
Resolved(t) == t \in DOMAIN pkg.types /\ Decl(t).own

\* A type whose Go form visitType refuses is reported and not recorded.
Recordable(t) == Resolved(t) /\ Decl(t).kind # "other"

Parsed(t) == {f \in Range(Decl(t).fields) :
                ~Skipped(f) /\ ~FieldRejected(f, t \in RequestNames, Adapted)}

\* The types a field's TypeRef names: paramTypeRef makes a builtin of any parameter.
Named(f) == IF SourceOf(f) \in {"json", "none"} THEN f.named ELSE {}

\* collectNamedDeps over the fields that parsed, or over AliasTo.
FollowsParams(t) == Decl(t).refs \cup UNION {f.named : f \in Parsed(t)}
ForgetsRefs(t) == UNION {Named(f) : f \in Parsed(t)}
Deps(t) == Decl(t).refs \cup UNION {Named(f) : f \in Parsed(t)}

Complaints(t) ==
  IF ~Resolved(t) THEN {[cat |-> "C2", at |-> t]}
  ELSE IF ~Recordable(t) THEN {[cat |-> "B4", at |-> t]}
  ELSE {[cat |-> "field", at |-> t] :
          f \in {g \in Range(Decl(t).fields) : FieldRejected(g, t \in RequestNames, Adapted)}}

Visiting == {stack[i].type : i \in DOMAIN stack}

-----------------------------------------------------------------------------
Init ==
  /\ pkg \in Packages /\ command \in Commands
  /\ next = 1 /\ routes = <<>> /\ errs = {} /\ phase = "routes"
  /\ seeds = {} /\ stack = <<>> /\ types = {}

StopsAtError(h) == errs = {} /\ IsHandler(h)
Accepts(h) == IsHandler(h)

\* One turn of DiscoverRoutes' loop: an error does not stop it.
DiscoverHandler ==
  /\ phase = "routes" /\ next <= Len(pkg.handlers)
  /\ LET h == pkg.handlers[next]
     IN  IF Rejected(pkg, h, Adapted)
         THEN errs' = errs \cup {[cat |-> "handler", at |-> h.name]} /\ UNCHANGED routes
         ELSE /\ routes' = IF Accepts(h) THEN Append(routes, RouteOf(pkg, h)) ELSE routes
              /\ UNCHANGED errs
  /\ next' = next + 1
  /\ UNCHANGED <<input, seeds, stack, types, phase>>

\* DiscoverTypes collects its seeds: it runs even when DiscoverRoutes failed.
CollectSeeds ==
  /\ phase = "routes" /\ next > Len(pkg.handlers)
  /\ phase' = "types"
  /\ seeds' = Seeds
  /\ UNCHANGED <<input, next, routes, stack, types, errs>>

RecordsLate(t, outer) ==
  IF t \in types
  THEN stack' = outer /\ UNCHANGED <<types, errs, phase>>
  ELSE /\ errs' = errs \cup Complaints(t)
       /\ stack' = IF Recordable(t) THEN <<[type |-> t, deps |-> Deps(t)]>> \o outer ELSE outer
       /\ UNCHANGED <<types, phase>>

\* visitType(t), called with the frames `outer` below it.
Visit(t, outer) ==
  IF t \in types \/ t \in {outer[i].type : i \in DOMAIN outer}
  THEN stack' = outer /\ UNCHANGED <<types, errs, phase>>
  ELSE IF Resolved(t) /\ Decl(t).adapted /\ Adapted
  THEN phase' = "panicked" /\ stack' = <<>> /\ UNCHANGED <<types, errs>>
  ELSE /\ errs' = errs \cup Complaints(t)
       /\ types' = IF Recordable(t) THEN types \cup {t} ELSE types
       /\ stack' = IF Recordable(t) THEN <<[type |-> t, deps |-> Deps(t)]>> \o outer ELSE outer
       /\ UNCHANGED phase

RevisitsSeed(t) ==
  /\ phase = "types" /\ stack = <<>> /\ t \in seeds
  /\ Visit(t, <<>>)
  /\ UNCHANGED <<input, next, routes, seeds>>

VisitSeed(t) ==
  /\ phase = "types" /\ stack = <<>> /\ t \in seeds
  /\ seeds' = seeds \ {t}
  /\ Visit(t, <<>>)
  /\ UNCHANGED <<input, next, routes>>

\* visitType calls itself on the next dependency of the innermost frame ...
VisitDep(t) ==
  /\ phase = "types" /\ stack # <<>> /\ t \in Head(stack).deps
  /\ Visit(t, <<[Head(stack) EXCEPT !.deps = @ \ {t}]>> \o Tail(stack))
  /\ UNCHANGED <<input, next, routes, seeds>>

\* ... and returns when there is none left.
Return ==
  /\ phase = "types" /\ stack # <<>> /\ Head(stack).deps = {}
  /\ stack' = Tail(stack)
  /\ UNCHANGED <<input, next, routes, seeds, types, errs, phase>>

\* Analyze joins the errors of both.
Finish ==
  /\ phase = "types" /\ stack = <<>> /\ seeds = {}
  /\ phase' = IF errs = {} THEN "done" ELSE "failed"
  /\ UNCHANGED <<input, next, routes, seeds, stack, types, errs>>

Next ==
  \/ DiscoverHandler \/ CollectSeeds \/ Return \/ Finish
  \/ \E t \in TypeNames : VisitSeed(t) \/ VisitDep(t)

Spec == Init /\ [][Next]_vars

\* Analyze is a sequential call: it runs as long as it has a step to take.
FairSpec == Spec /\ WF_vars(Next)

-----------------------------------------------------------------------------
(***************************************************************************)
(* Properties.                                                             *)
(***************************************************************************)
Frame == [type : TypeNames, deps : SUBSET TypeNames]

\* Every variable holds a value of its Go type.
TypeOK ==
  /\ next \in 1 .. Len(pkg.handlers) + 1
  /\ Len(routes) < next
  /\ seeds \subseteq TypeNames /\ types \subseteq TypeNames
  /\ stack \in Seq(Frame)
  /\ phase \in {"routes", "types", "done", "failed", "panicked"}
  /\ phase # "routes" => next = Len(pkg.handlers) + 1

\* DiscoverRoutes: "one handler's failure does not stop discovery of the others".  Every
\* handler passed has its route, in source order, or its error.
Judged ==
  /\ \A i \in 1 .. next - 1 :
       LET h == pkg.handlers[i]
       IN  IF Rejected(pkg, h, Adapted)
           THEN [cat |-> "handler", at |-> h.name] \in errs
           ELSE IsHandler(h) => \E r \in Range(routes) : r.handler = h.name
  /\ \A j, k \in DOMAIN routes : j < k =>
       \E m, n \in 1 .. next - 1 : /\ m < n
                                   /\ pkg.handlers[m].name = routes[j].handler
                                   /\ pkg.handlers[n].name = routes[k].handler

\* ADR 0018 D4: no type is visited inside its own visit, however the types refer to
\* each other, and a type under visit is already in the result.
NoReentry ==
  /\ \A i, j \in DOMAIN stack : stack[i].type = stack[j].type => i = j
  /\ Visiting \subseteq types

\* The types a recorded type's elements and its fields on the wire mention.
Mentions(t) ==
  Decl(t).refs \cup UNION {f.named : f \in {g \in Parsed(t) : SourceOf(g) \in {"json", "none"}}}

\* The result lacks nothing a generator will look up: every type a route names, and
\* every type a recorded type's fields or elements name, is recorded too.
Closed ==
  phase = "done" => /\ Seeds \subseteq types
                    /\ \A t \in types : Mentions(t) \subseteq types

\* ... and has nothing else: a part of the result that has what the routes name, and
\* with each type what it mentions, is all of it.  Of the types the result has, that is.
OwnPart(S) ==
  /\ Seeds \cap types \subseteq S
  /\ \A t \in S : Mentions(t) \cap types \subseteq S

OnlyReached == \A S \in SUBSET types : OwnPart(S) => S = types

\* Analyze ends on every package, cyclic types included.
Terminates == <>(phase \in {"done", "failed", "panicked"})

-----------------------------------------------------------------------------
(***************************************************************************)
(* Promises the code does not keep: the README says which packages refute  *)
(* each.                                                                   *)
(***************************************************************************)
\* README: the raw style is supported on every framework.  A package whose handlers are
\* all accepted is not refused for a type its author did not write.
RawAnalyzes ==
  \A e \in errs : e.cat = "C2" => e.at \in DOMAIN pkg.types

\* types.go: the walk reaches "every type transitively reachable"; the constraint of a
\* type parameter names types too, and the generators print them.
ConstraintsClosed ==
  phase = "done" => \A t \in types : Decl(t).terms \subseteq types

\* ADR 0045 section 4: doctor resolves the same goduct.json as gen and runs the analyzer.
\* What it complains of, gen complains of.
DoctorAgrees ==
  \A e \in errs :
    /\ e.cat = "handler" => \E h \in Range(pkg.handlers) : h.name = e.at /\ Rejected(pkg, h, TRUE)
    /\ e.cat = "field" =>
         \E f \in Range(Decl(e.at).fields) : FieldRejected(f, e.at \in RequestNames, TRUE)

\* ADR 0007: input the analyzer cannot represent is an error with a position, no panic.
NeverPanics == phase # "panicked"

\* ir.go: ResponseType, BodyType and StreamType "all stay nil for WS routes".
SocketsHaveNoBody ==
  \A r \in Range(routes) : r.socket # {} => r.body \cup r.response \cup r.stream = {}

\* routes.go: a stream or a socket answers 200; "201 / 204 for either is nonsensical; the
\* user gets the existing analyzer's loud-fail".
StreamsAnswerOK ==
  \A r \in Range(routes) : r.stream \cup r.socket # {} => r.status = 200

\* routes.go: "Error-response types must be same-package named structs".
ErrorsAreStructs ==
  \A r \in Range(routes) : \A t \in r.errors : OwnStruct(pkg, t)

\* README: goduct:security on a handler overrides the document default for it.
SecurityKept ==
  \A r \in Range(routes), h \in Range(pkg.handlers) :
    r.handler = h.name => r.security = {l.word : l \in Lines(h, "security")}
=============================================================================
