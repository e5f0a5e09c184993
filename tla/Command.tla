------------------------------ MODULE Command ------------------------------
(***************************************************************************)
(* One `goduct gen` (cmd/goduct/main.go, internal/cliconfig): the command  *)
(* line, goduct.json laid under it, the analysis, every chosen generator   *)
(* rendered in memory, the files written.  Module Watch repeats the last   *)
(* part and asks what happens when several are at it; here one runs alone  *)
(* and the question is what it leaves behind.  What a generator makes of   *)
(* an API is a constant here; module Generate says what it is.             *)
(*                                                                         *)
(* What an option means is of interest only for those with a check: the    *)
(* others, dir, tags, tests and watch, are overlaid in the same way.  The  *)
(* blocks for OpenAPI, security and uploads are passed on as they are.     *)
(***************************************************************************)
EXTENDS Naturals, Sequences, SequencesExt, FiniteSets, TLC

CONSTANTS
  Commands,       \* command lines, with the goduct.json and the source they find
  Renders(_, _),  \* what may come of a generator for an API: "ok", "error", "panic"
  Foreign(_)      \* the types of a source that only an adapter can spell

\* specs, in their order.
Specs == <<"types", "zod", "client", "hooks", "openapi", "swagger-ui", "postman", "go-adapter">>
Generators == ToSet(Specs)
Frameworks == {"chi", "gin", "echo", "mux"}

ASSUME CommandsAssumption ==
  \A c \in Commands :
    /\ c.file \in {"absent", "broken", "found"}
    /\ DOMAIN c.cli.flags \subseteq Generators \cup {"all"}

VARIABLES
  cmd,
  pc,
  opts,       \* the options after the overlay
  rendered,   \* those of the chosen generators that have rendered
  failed,     \* the generator that did not
  written,    \* those whose files have been written
  disk,       \* the output of each generator: from before, cut off, or of this run
  exit        \* the exit code, or Running

vars == <<cmd, pc, opts, rendered, failed, written, disk, exit>>

Running == -1
None == "none"

\* The analyzer stamps the adapters onto the API.
Api == [types |-> cmd.source.types, routes |-> cmd.source.routes, wires |-> opts.adapters]
Chosen == opts.chosen

\* The loops over the chosen generators follow the order of specs.
NoLater(g, h) == \E i, j \in DOMAIN Specs : i <= j /\ Specs[i] = g /\ Specs[j] = h
FirstOf(S) == {g \in S : \A h \in S : NoLater(g, h)}

-----------------------------------------------------------------------------
Init ==
  /\ cmd \in Commands
  /\ pc = "parse"
  /\ opts = [options |-> <<>>, adapters |-> <<>>, chosen |-> {}]
  /\ rendered = {} /\ failed = None /\ written = {}
  /\ disk = [g \in Generators |-> "old"]
  /\ exit = Running

Goto(next) == pc' = next /\ UNCHANGED <<cmd, exit>>
Exit(code) == pc' = "exited" /\ exit' = code /\ UNCHANGED cmd

\* flag.Parse, adapterFlag.Set included, and fs.NArg.
Parse ==
  /\ pc = "parse"
  /\ IF cmd.cli.malformed THEN Exit(2) ELSE Goto("load")
  /\ UNCHANGED <<opts, rendered, failed, written, disk>>

\* cliconfig.Load fails on what it finds, or finds nothing where it was sent.
LoadFails == cmd.file = "broken" \/ (cmd.file = "absent" /\ cmd.cli.config)

Given == [options |-> <<>>, all |-> FALSE, generators |-> {}, adapters |-> <<>>, ping |-> TRUE]
Config == IF cmd.file = "found" THEN cmd.json ELSE Given

\* pickGenerators, after the config's selection has been added to the flags'.
Flag(f) == f \in DOMAIN cmd.cli.flags /\ cmd.cli.flags[f]
FlagsOnly == {g \in Generators : Flag(g) \/ Flag("all")}
PickGenerators ==
  {g \in Generators : Flag(g) \/ g \in Config.generators \/ Flag("all") \/ Config.all}

Defaults == [pattern |-> "", out |-> "", framework |-> "chi"]
Overlaid == [options |-> cmd.cli.options @@ Config.options @@ Defaults,
             adapters |-> cmd.cli.adapters @@ Config.adapters,
             chosen |-> PickGenerators]

LoadConfig ==
  /\ pc = "load"
  /\ IF LoadFails THEN Exit(1) /\ UNCHANGED opts
     ELSE IF ~(Config.generators \subseteq Generators) THEN Exit(2) /\ UNCHANGED opts
     ELSE Goto("check") /\ opts' = Overlaid
  /\ UNCHANGED <<rendered, failed, written, disk>>

\* go-adapter writes beside the source; every other generator under --out.
NeedOut == Chosen \ {"go-adapter"} # {}

UsageError ==
  \/ opts.options.pattern = ""
  \/ opts.options.framework \notin Frameworks
  \/ Chosen = {}
  \/ NeedOut /\ opts.options.out = ""

\* The checks of runGen, then metaFromConfig.
Check ==
  /\ pc = "check"
  /\ IF UsageError THEN Exit(2)
     ELSE IF ~Config.ping THEN Exit(1)
     ELSE Goto("analyze")
  /\ UNCHANGED <<opts, rendered, failed, written, disk>>

\* Discovery says when an analysis succeeds; a type from elsewhere needs its adapter.
Analyze ==
  /\ pc = "analyze"
  /\ \/ Exit(1)
     \/ Foreign(cmd.source) \subseteq DOMAIN opts.adapters /\ Goto("render")
  /\ UNCHANGED <<opts, rendered, failed, written, disk>>

\* The next generator, into memory.  A panic ends the process with Go's exit code, 2.
RenderCode(outcome) == IF outcome = "panic" THEN 2 ELSE 1
KeepsDisk == UNCHANGED <<written, disk>>
WritesAtOnce ==
  disk' = [g \in Generators |-> IF g \in rendered' THEN "new" ELSE disk[g]] /\ UNCHANGED written
Rendering == KeepsDisk

Render ==
  /\ pc = "render"
  /\ \E g \in FirstOf(Chosen \ rendered) :
       \E outcome \in Renders(g, Api) :
         IF outcome = "ok" THEN rendered' = rendered \cup {g} /\ UNCHANGED failed /\ Goto("render")
         ELSE failed' = g /\ UNCHANGED rendered /\ Exit(RenderCode(outcome))
  /\ Rendering
  /\ UNCHANGED opts

\* os.MkdirAll.
MakeOut ==
  /\ pc = "render" /\ rendered = Chosen
  /\ Goto("write") \/ (NeedOut /\ Exit(1))
  /\ UNCHANGED <<opts, rendered, failed, written, disk>>

\* os.WriteFile, which truncates first.
Write ==
  /\ pc = "write"
  /\ \E g \in FirstOf(Chosen \ written) :
       \/ disk' = [disk EXCEPT ![g] = "new"] /\ written' = written \cup {g} /\ Goto("write")
       \/ \E left \in {disk[g], "cut"} :
            disk' = [disk EXCEPT ![g] = left] /\ UNCHANGED written /\ Exit(1)
  /\ UNCHANGED <<opts, rendered, failed>>

Finish ==
  /\ pc = "write" /\ written = Chosen
  /\ Exit(0)
  /\ UNCHANGED <<opts, rendered, failed, written, disk>>

Next == Parse \/ LoadConfig \/ Check \/ Analyze \/ Render \/ MakeOut \/ Write \/ Finish

Spec == Init /\ [][Next]_vars

-----------------------------------------------------------------------------
\* The variables keep to their types.
TypeOK ==
  /\ cmd \in Commands
  /\ pc \in {"parse", "load", "check", "analyze", "render", "write", "exited"}
  /\ Chosen \subseteq Generators
  /\ rendered \subseteq Chosen /\ written \subseteq rendered
  /\ failed \in Generators \cup {None}
  /\ disk \in [Generators -> {"old", "cut", "new"}]
  /\ exit \in {Running, 0, 1, 2}

\* "a failed run never leaves partial output" (main.go:324): a file changes only when each
\* generator that was asked for, on the command line or in goduct.json, has rendered.
Asked == {g \in Generators : Flag(g) \/ Flag("all") \/ (cmd.file = "found" /\ (cmd.json.all \/ g \in cmd.json.generators))}
AllOrNothing ==
  (\E g \in Generators : disk[g] # "old") =>
    failed = None /\ \A g \in Asked : "ok" \in Renders(g, Api)

\* "exit codes: 0 ok" (main.go:464): everything that was asked for is there, and nothing else
\* was touched; after a usage error nothing was.
ExitTells ==
  /\ exit = 0 => \A g \in Generators : disk[g] = IF g \in Asked THEN "new" ELSE "old"
  /\ exit = 2 => \A g \in Generators : disk[g] = "old"

\* Promises not kept (README).

\* "exit codes: ... 1 analyze/generate/IO error | 2 usage error" (main.go:464): a panic is
\* not recovered.
FailureExitsOne == failed # None => exit = 1

\* "CLI flags override config" (main.go:460): --types=false does not take types away.
FlagsOverride ==
  \A g \in Generators \cap DOMAIN cmd.cli.flags :
    exit = 0 /\ ~cmd.cli.flags[g] /\ ~Flag("all") => disk[g] = "old"

\* What the analyzer accepts, every generator renders
\* (docs/decisions/0018-type-traversal-failure-boundaries.md:121 "must work").
AllRender == failed = None
=============================================================================
