# goduct in TLA+

TLA+ models of [goduct](../src/README.md), the generator that reads annotated Go handlers
and writes a Go adapter, a TypeScript client, schemas, hooks and API documents, and of the
small runtime its generated code runs on. The modules are translated from the code under
`src/`, are model-checked with TLC on small instances, and the theorems about them are
proved with TLAPS for every value of the constants.

`PROJECT.json` lists the runs, the lines of the source each definition stands for, the
hazards, the mutants that show each property can fail, the findings and the theorems.

- [The system](#the-system): its parts, their state, how they interact, what is hard
- [The modules](#the-modules): which models what, and what is abstracted
- [The runs](#the-runs): what each shows, its bounds, the fairness
- [Findings](#findings) and [disagreements without a run](#disagreements-without-a-run)
- [The theorems](#the-theorems): what is proved, and how
- [Not modelled, and the plan](#not-modelled-and-the-plan)

## The system

goduct is a pipeline run once, or again and again under `--watch`:

    packages --Load--> ASTs and types --DiscoverRoutes/DiscoverTypes--> ir.API
             --generators--> goduct_routes.go, client.ts, types.ts, schemas.ts, hooks, openapi, ...

What it generates then runs elsewhere: `goduct_routes.go` inside the user's server, with
`runtime/` (errors, SSE, WebSockets); `client.ts` in a browser.

| part | state | operations | meets |
|---|---|---|---|
| CLI and configuration (`cmd/goduct/main.go`, `internal/cliconfig`) | options | parse flags, overlay `goduct.json` | everything, once |
| watch loop (`cmd/goduct/watch.go`) | debounce timer, `currentDirs`, the fsnotify watcher's subscriptions | receive event, (re)start timer, regenerate, reconcile watches, stop on SIGINT | the user's edits, the kernel's queue, generation runs on goroutines of their own |
| generation run (`generateOnce`) | locals; the files on disk | load, analyze, render all, write one by one | other runs, through the disk and through `currentAdapters` |
| analyzer (`internal/analyzer`) | `currentAdapters` (a package variable), the type map and the walk over it | parse directives, check fields and handlers, visit types | `gen` and `doctor` |
| IR (`internal/ir`, `internal/gen`) | `API`, `Route`, `TypeRef`; Tarjan's stack, numbers and components while it sorts | method names, topological order | analyzer to generators |
| generators (`internal/generators/*`) | none but the set of instantiations seen and the example builder's bindings | render an `ir.API` | each other: the client and the adapter must speak of the same wire, and TypeScript files name what others declare |
| runtime (`runtime/`) | a stream's select loop; a connection's pinger and its `stop` channel | `WriteError`, `SSEStream`, `NewWSConn`, `Send`, `Recv`, `Close` | the adapter, net/http, coder/websocket, the user's goroutines |
| generated client | the `WSConnection` class: queue, waiters, buffer, back-off; the text buffer of `streamSSE` | calls, streams, sockets | the network, the application's iterators |
| doctor (`cmd/goduct/doctor.go`) | none | analyze, report | analyzer |

What is hard in it, and what makes it correct:

- **Concurrency inside goduct.** `time.AfterFunc` runs every regeneration on its own
  goroutine and nothing joins them. Correct means: an analysis has its adapter map
  throughout, a file is never the mixture of two runs nor goes back to older source, and the
  outputs converge to the source as it is.
- **Feedback.** goduct writes into a directory it watches, and what it writes is part of what
  it reads next. Correct means: the loop comes to rest, and its own output never stops it.
- **Failures and restarts.** Writes fail, Ctrl-C arrives anywhere, directories come and go.
  Correct means: nothing generated from refused source is ever on disk, outputs belong
  together.
- **The recursive walk over types.** Correct means: every handler is judged, no matter what
  the others are; the walk ends on cyclic types; it records what the routes reach and no more.
- **Two programs that were generated separately.** Analyzer, adapter and client each hold
  their own table of types and of path syntax. Correct means: what the analyzer accepts has an
  adapter that compiles, and arguments, answers and errors cross as they are.
- **Recursion over types in every generator.** The order of declarations, the validators that
  read each other when a module is imported, the instantiations of generics, the examples: each
  walks the same graph by its own rules. Correct means: the order suits every graph, a walk ends,
  a name leads to what it was written for.
- **One run, several outputs.** Correct means: all are rendered before one is written, what was
  asked for by flags and `goduct.json` is what is written, and the exit code tells a failure.
- **Streams and sockets.** Bodies cut anywhere, consumers that leave, connections that fail at
  any moment, iterators that race with messages, back-offs that race with `close()`. Correct
  means: order, no gap, no lost wake-up, one socket, and everybody ends when they should.

The hazards in `PROJECT.json` give these at their lines.

## The modules

    Watch  <- MCWatch, WatchProofs
    Mailbox (abstract)  <= WSConnection <- MCWSConnection, WSConnectionProofs
                        <= SSE <- SSEProofs
    WSConn <- MCWSConn, WSConnProofs
    Routes (operators)  <- Discovery <- MCDiscovery, DiscoveryProofs
                        <- Calls     <- MCCalls, CallsProofs
    Rpc (abstract)      <= Calls
    TypeOrder <- Schemas <- MCSchemas, TypeOrderProofs
    Command, Documents (operators) <- Generate <- MCGenerate, GenerateProofs

(`<-` is EXTENDS, `<=` is a refinement: `MailboxSpec` or `RpcSpec` in the module on the right.)

### Watch

`watchAndRegen`, `generateOnce`, `analyzer.Load` and `analyzer.Analyze` as interleaved steps,
with the files, the watcher's queue and the user. One regeneration (`Regens`: the first run of
`main` and the `Fires` of the timer) goes through
`start -> load -> discover -> render -> truncate/fill ... -> reconcile -> assign`; each arrow is
one action, and each may fail as the code does (`Fail`: exits the process in the first run,
prints otherwise). Loading and discovering are one step *per package*, because a user can
save, and another regeneration can clear `currentAdapters`, in between. A write is two steps:
`os.WriteFile` truncates and then writes.

Abstractions:

- The output of a generator is the *API value* it renders: per package the version of the
  source that was read, the `go.mod` version, and whether the adapter map was in force
  throughout. Rendering is a function of that value, so two outputs are equal when it is.
- A file is the set of API values whose bytes it holds: `{}` is a truncated file, two
  elements are the bytes of two writers.
- The quality of a source (compiles or not, refused by the analyzer, refused by a generator,
  makes a generator panic) is chosen by the user's edit.
- `shape` stands for what `goduct_routes.go` mentions of its package: an adapter whose source
  has another shape does not compile.
- Contents of the configuration, several adapter packages in one run, and symbolic links
  are left out. `Env` switches on what may happen around the program, so that each run can
  name exactly what it assumes.

### Routes and Discovery

`Routes` is a module of operators without state: `ParseStructField` (`FieldRejected`,
`Skipped`, `Optional`), `ParseDirectives` (`DirectivesRejected`), `discoverHandler` and
`discoverRawHandler` (`IdiomaticRejected`, `RawRejected`, `RouteOf`). A package is a record of
type declarations and handlers; a type expression is one of the few classes the analyzer and
the generated code tell apart. Messages and positions of errors are left out, and so is which
of several errors of one handler is reported.

`Discovery` is `DiscoverRoutes` and `DiscoverTypes` with `visitType`'s recursion as an explicit
stack of frames, run by `gen` (with adapters) or by `doctor` (without). The order of the seeds
and of a type's dependencies is left open; in the code it is a map's or the declaration's, and
the properties hold for every one. Enum constants, docs and the type arguments of generic
instantiations are left out.

### Calls

One call of one route, from the arguments of the generated method to what it returns or
throws: `Generate` (does the adapter exist, does it compile), `ClientCalls` or `Foreign` (any
other HTTP client), `ParseThrows` (the client's validator refuses the body) or `Send`, the router
(`NotFound`), `Decode`, `AssignParams`, the handler, `WriteError`, and the client's `request`. A
stream or a socket leaves the module when it opens (`HandsOver`), or when `websocket.Accept` fails
(`AcceptFails`). The connection may fail at any stage after `Send` (`Lost`): the caller is told at once,
and the server goes on with the request, whose handler may even start afterwards; `caller` and `stage`
are two variables for this. The four frameworks differ where the generated code or the router does.

Arguments and the request struct are by field; a path, a query, a header and a form are by name, so
two fields of one name share what comes under it, and a call type-checks (`TypeChecks`) only if no two
names meet. A multipart form keeps its files and its texts apart (`PartOf`), as `MultipartForm.File` and
`.Value` do. Values are classes that the code tells apart:

- a number is zero, one, a fraction (0.5) or an integer that no Go `int` holds (1e21): `tsType`
  makes a `number` of every Go number, the adapter parses an `int` with `strconv.Atoi`, and a JSON body
  goes through `z.number().int()` first. Whether that refuses 1e21 depends on the version of zod, which
  the package does not fix: both are in the model. `NaN` and the infinities are left out;
- a text of a path is empty, one that URLs hold as it is, one with a space, one with a character that
  `encodeURIComponent` escapes though a path may hold it (`a@b`), or one with a slash. `Encoded` is what the
  client sends; Go's net/url unescapes it, and keeps what was sent in `URL.RawPath` when its own
  escaping would have been another (`Reserved`). chi and echo match on that and hand it over as it is
  (`URLParam`), the standard mux unescapes each segment, and gin splits the unescaped path, so that a
  slash gives no match (`Unrouted`). `.` and `..`, which `fetch` resolves, are left out, as are redirects;
- a file is over the limit of its `maxbytes` rule or not (`Limited` has the fields with one), a list of
  files may be empty, and what is optional may be absent.

The routers, net/url and `encoding/json` are external and modelled from how the generated code relies
on them. The layout of the generated text and the contents of files are left out.

`Rpc` is the abstract call, without URLs, bodies or status codes: the handler runs at most once, on
what the caller passed; the caller is told what the handler answered; or that the call was refused,
and then the handler has not run and never will; or that the call was lost, and then the handler may
have run, be running or yet run. `Call` in `Calls` is the refinement mapping: `Passed` says what
arguments are to the handler, `Promised` what a result is to the caller. It speaks of unary calls by
the generated client, but not of those whose path chi or echo hands over as it was sent (`Escaping`):
their handler runs on something else than what was passed, which is `PathsArrive` under [Disagreements](#disagreements-without-a-run).

### SSE

`SSEStream`'s select loop behind the stream wrapper, the producer, the body as a sequence of
lines and newlines that a chunk may end between, and `streamSSE`. `Cap` is what the connection
holds before `Write` blocks. The encoding of an event is its number; the framing is modelled
symbol by symbol because the properties are about it. The lines of a block are yielded one by one,
and at each the consumer may leave its loop.

### WSConn and WSConnection

`WSConn` is the server's side for several requests: the wrapper, `Close`, and the pinger
goroutine with its ticker. `coder/websocket` is external: a `Conn` is open until someone ends
it, and `Ping` returns by its deadline.

`WSConnection` is the class in the generated client: every event handler (`onopen`,
`onmessage`, `onclose`), `send`, `close`, one turn of an iterator of `messages()`, the back-off
timer, over connections that may fail in every state. Whether it
reconnects is chosen initially. Every action is one task of the event
loop, which is why an iterator's look at the queue and its wait are one step. The browser's
`WebSocket`, the network and the peer's handler are external. A message is a number, with the
connection it came on. The length of the back-off is left out.

`Mailbox` says what an iterator may rely on, without queue or waiters: every message received
goes to one iterator, in order, and an iterator ends only after the end. `WSConnection` and
`SSE` implement it.

### TypeOrder and Schemas

`TypeOrder` is `TopoSortTypes`: the closure `sc` of `tarjanSCC` with Go's call stack made
explicit (`calls`, and `left[v]` for what the range over `deps[v]` has yet to come to), then the
loop that emits one ready component after another. `Start`, `Descend`, `Look`, `Return` are
one iteration or one return of `sc` each; `Emit` is one iteration of the loop. The order of a
type's fields is left open. A name is a type of the API, or one that is none (`Named`); a mention
inside the type arguments of a generic is told apart, because `namedDeps` does not look there.

`Schemas` adds what the order is for: `zod.Generate` prints one const per emitted type, and a
JavaScript engine evaluates them from the top. A plain type's const reads every const it names,
and whatever the factories it calls name; a generic type's const is an arrow function and
reads nothing until it is called. `Statement` is one of them; it throws when it reads a
const that has no value yet. There is no `z.lazy` in `zod.go`, which is why a type that mentions
itself always throws (below).

### Command, Documents and Generate

`Documents` is a module of operators: for each generator, from the API the analyzer returned,
what the document declares, what it refers to, and when the generator panics or returns an error.
A `TypeRef` is a record. Where a generator recurses over it, or over the types it names, the operator
is the `Closure` of what one call leads to, so that the module has no `RECURSIVE` operator and can be
reasoned about; the `TypeRef`s there are, finite trees, and the part of a name after its last dot are
constants (`TypeRefs`, `LastPart`). A name in
TypeScript is its file and its arity; a component of `openapi.json` is its name and the `TypeRef`
it was built for, so that two that are called alike can be told apart. Text, comments, examples'
values, validators, security and the layout are left out; map types are left out because every
generator treats a map as it treats a slice of its values, and so are packages other than one.

`Command` is one `goduct gen` from the command line to the exit code: `Parse`, `LoadConfig` with
the overlay, `Check`, `Analyze`, `Render` per generator, `MakeOut`, `Write` per file, `Finish`. It
runs alone; `Watch` has the interleavings. The chosen generators are a set, taken in the order of
`specs` (`FirstOf`). `Analyze` may fail on any package, and must on one that
has a type without an adapter; what else the analyzer refuses is in `Routes`. A file is old, new,
or cut off by a failed write. What a generator makes of an API (`Renders`) and which types need an
adapter (`Foreign`) are constants, so what is proved of a run holds whatever the generators do.

`Generate` is `Command` with the generators of `Documents`: `GeneratorsAssumption` says that
`Renders` and `Foreign` are `Outcomes` and `ForeignIn`. `Analyzed` is what is known of an API that the
analyzer has accepted, each conjunct with the function that sees to it: names are declared and have their
arguments, a parameter is primitive, a file is a part of a form, a body is the request. It is an
assumption on the sources of the commands, which TLC evaluates for all of those of the run. `Cause` says, from the API alone, which APIs a generator
cannot take, and is stated without the operators that decide it in `Documents`.

## The runs

Ten runs must pass, two must find a violation.

| run | question | bounds |
|---|---|---|
| `WatchFast` | Without overlap: do the outputs belong together, and do they converge to the source? | two packages, two outputs and the adapter, one timer run at a time, three edits (source, bad source, test, `go.mod`) |
| `WatchFaults` | Without overlap: do the subscriptions follow the directories, and is no file left truncated, through Ctrl-C (in the middle of a write too) and restart, edits during the first run, renames, directories that come and go, dropped events? | two directories, one output and the adapter, one timer run at a time, three edits, one restart |
| `WatchOverlap` | What survives regenerations that overlap, while disks fail and Ctrl-C arrives? | one package, one output and the adapter, two timer runs at a time, two edits, one restart |
| `WSConnectionLossy` | With and without reconnect, over a connection lost at any moment: wake-ups, one socket, order, the mailbox, coming back, ending | two iterators, three connections, two sends, two messages per connection |
| `WSConnClose` | Is every connection closed whatever the handler does, and does `Close` stop the pinger? | two requests |
| `SSEChunks` | Does the client yield what was written, however the body is cut, and do both sides end? | three events, a connection that holds two |
| `DiscoveryPairs` | Is every handler judged, does the walk end, does it record exactly what is reached? | all pairs of eight handlers and the raw, socket and adapted cases, over thirteen declarations with cycles of length one and two, for `gen` and `doctor` |
| `CallsAPI` | Do arguments, answers and errors cross on every framework, which calls are refused, and is a call an `Rpc` though its connection fails at any moment? | seven packages of one route each, every value of every argument, a file with a limit |
| `SchemasAll` | Do the two algorithms of `TopoSortTypes` find the components and an order that suits them, is ready or source order ever missed, and when does importing `schemas.ts` throw? | every graph over four types (4096); every API of three types, one of them generic or bare, with up to two mentions of types, themselves or an undeclared name, in type arguments or not |
| `GenerateAll` | Is nothing written unless everything rendered, does the exit code tell, do generators fail only for the listed causes, are operations and `$ref`s complete, are names in TypeScript declared? | every package of one route or of two with different handlers, from 40, over 22 types; some eighty command lines over one package; disk failures at every write |
| `WatchStale`, `WSConnectionCloseEnds` | see [Findings](#findings) | the smallest that show it |

Why the bounds are enough for what they are meant to show. `Watch`: an inconsistency needs
two regenerations and one edit between two of their steps; the second edit lets an older and a
newer result compete, two packages let one analysis see two versions, two outputs let a run
fail half-way. Two timer runs are the least that overlap, and a third adds no new pair.
`TimerFires` has no guard on the runs that are going: what overlaps is bounded by `Fires` alone.
With one element in `Fires`, in `WatchFast` and `WatchFaults`, the timer's next run waits for the
last one to end, so these two runs show nothing of regenerations that outlast the 250 ms window;
what overlap breaks is in `WatchStale` and under [Disagreements](#disagreements-without-a-run), what
it does not break in `WatchOverlap` and in the theorems, `NothingTorn` among them, which leave `Fires` open.
`WSConnection`: two iterators are needed for one to take what the other waits for; two losses
for a back-off to follow a back-off and for messages of an abandoned connection to be late by
more than one connection; two sends and two messages per connection for order.
`SSE`: with two blocks in flight and a third behind them, a chunk can end inside, between and
after blocks and a write can block. `WSConn`: connections share nothing; the second one is
there to show that. `Discovery`: errors of one handler must not affect the next, so two
handlers in both orders; the types cover self-reference, mutual reference, an alias chain, a
foreign and an unrepresentable type. `Calls` is one request by nature; its values are
one of each class that the code tells apart. `Schemas`: a component that is split or merged needs an edge
into a finished component or a cycle that shares a type with another, which four types
have in every form; a factory that calls a factory, and an argument of one, are two mentions.
`Generate`: names can clash, and an instantiation be one route's only inside another's, with two
routes.

The type invariants are not in the runs' lists: they are theorems.

Everything that bounds a model is a constant named in it: `MaxEdits`, `MaxRestarts` and `Fires`;
`MaxConns`, `MaxSends`, `MaxServed`; `MaxEvents`, `Cap`. They are guards of the actions they
bound. Deadlock checking is off because every one of these systems may come to rest: a user
who stops editing, a stream that has ended.

### Fairness

- `Watch`: weak fairness of each regeneration (a goroutine that can run does), of the loop
  receiving an event, of the timer expiring and of arming the watcher. Nothing is assumed of
  the user, the disk, SIGINT, or the kernel's queue. `Settles` and `Converges` say what holds
  when edits stop, which the bound on edits ensures.
- `WSConnection`: weak fairness of each kind of event-loop task, of the server accepting and
  of handlers' reads. Nothing of the application or of handlers returning. `Lost` is bounded by
  `MaxConns`: `Reconnects` is about a network that stops failing at some point.
- `WSConn`: `Close` and `Ping` have deadlines (weak). `PingerStops` is strongly fair: Go's
  select picks at random among ready cases, so a `stop` that stays ready while ticks come and
  go is picked eventually. Nothing of handlers or peers.
- `SSE`: weak fairness of the server's goroutine, of the reading client, and of a producer whose
  context is cancelled (the doc comment of `SSEStream` asks that of it). A consumer that left its
  loop is not assumed to read.
- `Discovery`, `Schemas`: a sequential program runs while it has a step to take.

## Findings

Each is a run with its counterexample; `PROJECT.json` quotes the line it contradicts.

- `WatchStale`: two regenerations overlap, the older writes last, and its outputs stay.
- `WSConnectionCloseEnds`: `close()` during the back-off does not cancel the timer, so a new
  socket is opened and the iterators go on.

### Disagreements without a run

The models reproduce more behaviour that a document or comment denies. Each is a
property of its module; the column on the right says what to give TLC to see it fail. `Converges`,
`CoherentWhenQuiet` and `WatchesCurrent` hold in the runs of `Watch` that check them, with other
constants; the rest are promises that the code does not keep, and no run checks them.

| module | property | what the code does | source | refuted with |
|---|---|---|---|---|
| `Watch` | `Converges` | a `go.mod` above the package directories is not watched | `watch.go:39` | `ModDir` outside `Dirs`, `Env = {"modEdit"}` |
| `Watch` | `Converges` | after a handler is renamed the adapter written before no longer compiles, the package it lies in is refused, so the adapter is never replaced | `loader.go:84` | `Env = {"rename"}`, one `Fires` |
| `Watch` | `CoherentWhenQuiet` | a failing second write leaves outputs of two runs | `main.go:354` | two `Outs`, `Env = {"diskFail"}` |
| `Watch` | `NoTornFile` | Ctrl-C between truncation and write leaves an empty file | `watch.go:79` | `Env = {"interrupt"}` |
| `Watch` | `WatchesCurrent` | a directory removed and recreated between two regenerations is not subscribed to again | `watch.go:155` | `Env = {"dirGone", "dirBack"}` |
| `Watch` | `AdaptersHeld` | two regenerations overlap, and the analysis that returns first sets `currentAdapters` to nil under the other's discovery, whose adapted types are then refused or translated field by field; the variable is called "scoped to the single-threaded analyzer pass" (`fieldtypes.go:43`) | `analyze.go:41` | two `Fires`, `Env = {}`, two edits |
| `Watch` | `WatchesCurrent`, `CoherentWhenQuiet` | two regenerations that overlap reconcile from the same `currentDirs`, or leave the outputs of one beside those of the other | `watch.go:72`, `main.go:354` | two `Fires`, `Env = {"dirNew", "dirGone"}` |
| `WSConn` | `CloseNeverPanics` | a second `Close` closes `stop` again | `ws.go:68` | `Pings = TRUE` |
| `WSConn` | `PingerExits` | a handler that returns without `Close` leaks its pinger | `ws.go:73` | `Pings = TRUE` |
| `SSE` | `DocumentedReturns` | an event that cannot be marshalled ends the stream silently | `sse.go:39` | `Env = {"marshalFails"}` |
| `Discovery` | `RawAnalyzes` | raw handlers are refused: their `*http.Request` is taken as a seed | `types.go:52` | `Packages <- Raws` |
| `Discovery` | `ConstraintsClosed` | types named only in a type parameter's constraint are not visited | `types.go:180` | `Packages <- Pairs` |
| `Discovery` | `DoctorAgrees` | `doctor` ignores the configured adapters | `doctor.go:60` | `Packages <- Sockets`, `Commands <- DoctorOnly` |
| `Discovery` | `NeverPanics` | an adapted request or response type panics | `types.go:165` | `Packages <- AnswersAdapted` |
| `Discovery` | `SocketsHaveNoBody` | a socket route on POST with JSON fields has a body type | `routes.go:281` | `Packages <- PostSocket` |
| `Discovery` | `StreamsAnswerOK` | a stream on POST has status 201 | `routes.go:250` | `Packages <- PostStream` |
| `Discovery` | `ErrorsAreStructs` | an error response may be any named type | `routes.go:342` | `Packages <- Pairs` |
| `Discovery` | `SecurityKept` | a raw handler's `goduct:security` is dropped | `routes_raw.go:87` | `Packages <- Raws` |
| `Calls` | `AdapterBuilds` | an `int` path parameter does not compile; a slice in the query panics | `goadapter.go:406` | `Packages <- Primitives` |
| `Calls` | `AdapterBuilds` | a socket wrapper on gin or echo redeclares `c` | `goadapter.go:611` | `Packages <- Sockets`, `Frameworks <- Gin` |
| `Calls` | `QueryRequired` | a missing required query parameter is no 400 | `goadapter.go:689` | `Packages <- Gets` |
| `Calls` | `HeadersArrive` | header parameters are never read | `goadapter.go:405` | `Packages <- Traced` |
| `Calls` | `QueryFromURL` | a body key sets a query parameter that is absent | `goadapter.go:401` | `Packages <- Patched` |
| `Calls` | `PathsArrive` | on chi, the default framework, and on echo a path argument with a character that `encodeURIComponent` escapes and net/url does not arrives escaped: `a@b` as `a%40b`; what `ArgsArrive` promises instead is that it then arrives as sent | `goadapter.go:106` | `Packages <- Gets`, `Frameworks <- Chi` |
| `Calls` | `BracesArrive` | the client sends `{id}` as it stands | `tsclient.go:580` | `Packages <- Braced` |
| `Calls` | `FailuresAreGoductErrors` | a router's plain-text 404 becomes a `SyntaxError` | `tsclient.go:90` | `Packages <- Gets` |
| `Schemas` | `AlwaysLoads` | a type that mentions itself, or an undeclared one, makes `schemas.ts` throw when it is imported: its const reads itself | `zod.go:267` | the passing run's constants |
| `Command` | `AllRender` | an API the analyzer accepts makes a generator panic: a body that holds itself overflows `postman`'s stack, a GET without an answer or a mutation with a query makes `hooks` panic, a generic that hands its parameter on makes `openapi` panic | `postman.go:358`, `hooks.go:103`, `openapi.go:541` | the passing run's constants |
| `Command` | `FailureExitsOne` | a panic is not recovered, so the exit code of a failed generator is 2, that of a usage error | `main.go:332` | the passing run's constants |
| `Command` | `FlagsOverride` | a flag set to false does not take away what `goduct.json` selects | `main.go:158` | the passing run's constants |
| `Generate` | `OneMethodEach` | `GetUser` and `GetUsers` of one tag are both `get`: one entry of the client's object replaces the other, and one query key serves both | `gen.go:170` | the passing run's constants |

`Cause`, `Resolvable` and `Clear` in `Generate` list what its three passing properties except, each
of them something the code does:

- an adapter of `goduct.json` whose wire is none is not validated (only the flag's is), and makes
  `types`, `zod` and `openapi` panic, the last with "CLI should have validated this"
  (`openapi.go:602`);
- a `$ref` to a struct with nothing on the wire, or to an instantiation that only a stream or an
  error mentions, dangles; two instantiations whose names meet (`Page[time.Time]` and `Page[Time]`,
  `Page[[]User]` and `Page[ListUser]`) share one component;
- `client.ts` uses `z` without importing it when the argument of a generic is no name, writes an
  unqualified name below a slice, and drops the arguments of a generic body; types with nothing on
  the wire are named and not declared.

## The theorems

All are stated of `Spec`, without fairness, for every value of the constants that satisfies the
module's assumptions, and every leaf is checked by tlapm.

`WatchProofs`. `TypeCorrect` is inductive as it stands. `GoodSource` says that no file ever
holds output of refused source, whatever overlaps, fails or is interrupted. It needs the
strengthening that follows one run: once a run has every package loaded and its flag is
still set, every present package of its API value compiled; once discovered, none is
unsupported; once it is about to write, all are good. Nothing any other run does touches these
locals, which is why overlap does no harm here. `MapScoped` needs only
that a run clears the map whichever way it leaves its analysis. `NothingTorn` assumes that no write
fails, and nothing of what overlaps: a file that is empty is open in some run, or the process has
exited, or it has been started again and its first run will write the file or refuses the package it
lies in, an empty adapter being no Go file, which ends the process before it watches (`TornInv`).

Two are of the executions in which no two runs are alive at one time, `Spec /\ []NoOverlap`; with
overlap both fail (see above). Who runs when, `RunsInv`, is proved without it: the first run before the
loop is armed, the timer's after. `SubscriptionsCurrent`
moreover excludes a directory that is removed and comes back under its name: the kernel has dropped
the watch, which `currentDirs` does not know. `SubInv` says what the subscriptions are in the middle
of a run too, between the reconciliation and the assignment of `currentDirs`. `OutputsCoherent`
moreover excludes failing writes, after which the outputs of two analyses lie side by side. A Ctrl-C
between two writes does the same, but then the process has exited, and the next one is not in its
loop before its first run has written every output. Its invariant, `CohInv`: the outputs a run that
writes has been through are its own (`Behind`), the file it has open is empty, and in a loop where no
run writes all outputs are the same (`Together`).

`WSConnectionProofs`. `TypeCorrect`; `Wakeups` (with `WaitersMatch`: waiters are distinct,
waiting iterators, so that one delivery wakes one iterator and `OnClose` wakes all);
`SingleSocket` (a pending back-off implies a closed socket; a closed connection implies no
back-off); `FlushedFirst`; `ReconnectContinues`. `ImplementsMailbox` is the refinement: `queue`
and `waiters` disappear, `log` is what was yielded followed by what is queued. The step that
matters is a delivery to a waiter, which appends to `log` *and* takes it: it is a step of
`Mailbox` only if nothing is ahead in the queue, that is, by `Wakeups`. `SendsInOrder`: number the
sends; `OrderInv` says that each connection's wire (what has arrived, then what is under way) and
the buffer increase, that every wire is below the wires of later connections and below the buffer, and
that all are at most the last number. `FlushedFirst` is needed at a send on an open socket: the buffer
is empty then, so the new number goes behind everything.

`TypeOrderProofs`. Of `TypeOrder`, for every finite graph and every order of fields, with no bound.
`TarjanCorrect` is the textbook theorem, here of this code. Its invariant, `TarjanInv`, has the
numbers (`Sorting`: `stack` and `calls` are sorted by `idx`; `Lows`: a low number lies between the
outermost call's and its own type's), the places (`Placing`: a type seen is on the stack or in
one component, never both; the calls are on the stack; `LeftOver`), and two parts that carry the
proof. `Closing`: a dependency
that was looked at is in a component, or on the stack no lower than the low number of the innermost
call at or below its dependent. `Reaching`: a call reaches all that stands above it, and all that
stands on the stack reaches a call at or below it. When `low[v] = idx[v]`, what stands on the stack
from `v` up therefore depends on itself and on earlier components only, by `Closing`, and its
members reach each other through `v`, by `Reaching`: it is `v`'s class.
`ComponentsCorrect`, `AlwaysReadyCorrect` (the components come in an order that suits their
edges, so the first one pending is ready), `EveryTypeOnceCorrect` and
`DependenciesFirstCorrect` follow with the invariant of the emission loop, `KahnInv`.
`SortEnds`: every step goes down a well-founded order (phases, then types not yet numbered or placed,
then calls under way, then dependencies the innermost has yet to come to).
`SourceFirstCorrect`: at the time a component is chosen it is the first of
the ready ones, and `SourceInv` keeps, for each type placed, the reason why every other one that
is not before it comes later.

Of `Schemas`, in the same module: `FailsCorrect`. By `DependenciesFirst` what a sound const mentions
stands above it, and what those mention above them, so all that it reads stands above it
(`BodyAbove`, from the closure that `Body` is); and what stands above has its value, because consts
are evaluated from the top. `LoadsWholeCorrect` is what can be proved of `Loads`: when all types are
sound, nothing has thrown, and either every const has its value or there is a next one, which has all it
reads. Each statement adds one; what is left to fairness is that it is evaluated.

`DiscoveryProofs`. `WalkNotReentrant`: a type on the stack is already recorded, and no type is
on it twice; so `visitType` enters each type at most once, which is what makes the recursion
finite. `WalkClosed`: when the analysis succeeds, the result contains all seeds and is closed
under what it mentions. The invariant says where each mentioned type is while the walk goes on:
recorded, or still to be visited in a frame of the stack, or the source of an error that keeps
the phase from becoming `done`. `NothingElse` is the converse: whatever the walk has met lies in every set
that holds the seeds and is closed under the mentions of its recordable members. So no proper part of
the recorded types has that closure, which is `OnlyReached`.
`EveryHandlerJudged`: routes and errors only grow, and every route comes from a handler already
passed. `TypeCorrect` rests on what `discoverHandler` refuses (`AcceptedNames`): the
types an accepted handler names are declared in its package, but for net/http's `Request`.
`WalkEnds` is what can be proved of `Terminates`: every step leaves less to do (`LessWork`), and that
order is well founded (`NamesAssumption`: source is finite). It compares handlers to judge, then
seeds, then types not yet recorded, then calls under way, then what the innermost has yet to visit; a call on
a type not seen before adds a frame and dependencies, but takes from the unrecorded types. That
Analyze takes a step while it has one is `FairSpec`'s.

`CallsProofs`. Its invariant, `CallInv`, says that at every stage what the adapter and the client
hold is a function of the request on the wire, and the client's request a function of its arguments
(`Asked`, `Decoding`, `Calling`, `Answering`, `Concluding`). So the four properties are about that
function alone. `PathCorrect`: the path is assigned after the body, and no field is both of the path
and of the query. `AcceptedCorrect` and `ArgsCorrect` follow each field through the part of
the request that carries it, by name; that no two names meet is what `TypeChecks` gives. `TextFacts` says
which values survive being written and parsed, so what is refused are the numbers that do not (`Excused`),
and `SegmentFacts` what becomes of a path's text where it arrives. They need what an
accepted package (`CallsAssumption`) and a wrapper that compiles say of a field's type.
`TypeCorrect` says that the request struct holds values of its fields' Go types,
whoever sends the request: each text on the wire is one that the field it lands in can hold (`WireTyped`).
`ResultsCorrect` goes through the results of a handler
(TLC checks it as part of `RpcSpec`). `ImplementsRpc` is the refinement: the
handler's start is `Serve` because what it is given is what was passed (`Faithful`), and because a caller
who has been told something by then was told of a loss (`Losing`); the client's end is `Return` or
`Refuse` by who wrote the reply (`Refused`: what is no handler's is one of three answers), and a body
that the validator stopped is never sent.

`GenerateProofs`, first of `Command`, for any command lines, any generators and any failure (these
proofs cite no assumption of `Generate`). `NothingPartial`: no file changes unless everything that was
asked for rendered. `ExitCodes`: exit code 0 means that what was asked for is written and nothing else,
and 2 that nothing was touched. `RunInv` carries, from stage to stage, what is chosen, which generators
have rendered and which files are written; `PickAsked` says that the overlay selects what the user asked
for in either place.

Then of what the generators make of any package that the analyzer accepts (`AnalyzedAssumption`),
however many types and routes it has. `Fits` adds to `RunInv` that the API is that of the command, with
an adapter for every foreign type once rendering begins.

- `RendersUnless`: a generator that fails does so for one of the causes in `Cause`. Most of it is
  about what is inside a `TypeRef`: `ClosureLeast` (a `Closure` holds its seeds, is closed, and lies in
  every set that does and is) is all that is ever used of a recursion, `InsideFacts` and
  `InstantiationFacts` follow from it. Postman's example builder is the hard part: it recurses without a memory. Its
  calls are ordered by `Less` (fewer types still to come, or the same and a smaller `TypeRef`), which is well
  founded when no type holds itself, so a call that leads back to itself needs a cause.
- `AllDocumented`: every operation and every resolvable `$ref` of `openapi.json`. The components are
  built from what is mentioned and from what an instantiation substitutes; a `$ref` is to something
  mentioned, or reached from a component by substitution, and `OneComponent` says that a name no other
  takes leads to it alone.
- `AllLinked`: what `client.ts`, `hooks.ts` and the fields of types refer to is declared, and hooks
  call methods with their arguments. `SpellingFacts` says which names are qualified; the arguments of a hook
  are those of its method because the hooks have rendered, so none is a query of a mutation.

Two of these three were not true for every API as they had been stated for the run, though TLC found
nothing at its bounds, and the proofs showed where: a type that holds itself through two nested
arguments of generics (`Coil` in `MCGenerate`, now a case of the run), and a route whose request is also
the type of its answer. `HoldsItself` and `ClearRoute` are now what holds.

`SSEProofs`. `ArrivesWhole` is about reassembly, for any number of events and any chunks. `Body` is
what `streamSSE` has not parsed: its buffer and the bytes under way. Reading a chunk does not change
it. `BodyInv` says that it is the written blocks from the first one not yet taken out on (`Aligned`),
complete unless the connection was lost; so the first blank line found ends the first block
(`FirstEnd`), and a loop that sees the end of the body with no blank line in its buffer has an empty buffer. With
it `ImplementsMailbox` is a case analysis.

`WSConnProofs`. `AlwaysClosed`: whenever a request has ended its connection is closed, a panic
of a second `Close` included. `Stages` adds that before the upgrade there is neither connection
nor pinger, so a rejected request leaves nothing behind either.

Model-checked only: every liveness property (`Converges`, `Settles`, `Reconnects`, `LastCloseEnds`,
`CloseStopsPinger`, `StreamCloses`, `ServerReleased`, `Terminates`, `Loads`), which TLAPS does not
reach. Every safety property of the runs is a theorem.

## Not modelled, and the plan

Not modelled: the Swagger page (a constant), `doctor`'s report (printing; its analysis is in
`Discovery`), the example application and the tests, which were read as documents. Of the modelled
generators the text is left out; so are validators (`min`, `max`, `oneof`), enums' values, security
schemes, servers, descriptions, and the blocks of `goduct.json` that are copied into `openapi.json`.
React Query's cache and what an invalidation refetches are the library's. Hazards that no property
covers carry a note in `PROJECT.json`.

What could follow:

1. Several calls at once over one server, each an `Rpc`.
2. Packages in the plural: one API from several packages, where short names of types clash in every
   generated file, and several adapter packages in one watch run.
3. Proofs of progress as in `WalkEnds` and `SortEnds` for the loops that run once per event: the
   watch loop drains its queue, the loops of the socket and the stream theirs.
