------------------------------- MODULE Watch -------------------------------
(***************************************************************************)
(* `goduct gen --watch`: the first generation, the fsnotify loop with its  *)
(* debounce timer, and the regenerations the timer starts, each on a       *)
(* goroutine of its own (cmd/goduct/watch.go, cmd/goduct/main.go,          *)
(* internal/analyzer/analyze.go).                                          *)
(*                                                                         *)
(* What the generators emit is abstracted to the API value they emit it    *)
(* from: the source of every package as the analyzer read it, the go.mod   *)
(* it was resolved with, and whether the user's --adapter map was in force *)
(* for the whole pass.  A file on disk is the set of the API values whose  *)
(* bytes it holds: {} is a file truncated and not yet filled, {a} a whole  *)
(* output, two values the interleaved bytes of two writers.                *)
(*                                                                         *)
(* Env names what may happen around the program:                           *)
(*   "earlyEdit"  the user edits while the first run is still going        *)
(*   "modEdit"    go.mod changes           "testEdit"  a _test.go changes  *)
(*   "dirNew", "dirGone", "dirBack"  package directories appear,           *)
(*                disappear, and come back after they disappeared          *)
(*   "rename"     an edit removes a handler the written adapter refers to  *)
(*   "badSource"  an edit leaves source that does not compile, that the    *)
(*                analyzer or a generator rejects, or that makes a         *)
(*                generator panic                                          *)
(*   "diskFail"   a write fails            "interrupt"  Ctrl-C             *)
(*   "overflow"   fsnotify drops the events the kernel has queued          *)
(***************************************************************************)
EXTENDS Naturals, Sequences, FiniteSets

CONSTANTS
  Dirs,        \* directories that may hold a package of the pattern
  InitDirs,    \* those that do when goduct starts
  ModDir,      \* the directory of go.mod: one of Dirs, or a parent of them
  Outs,        \* the selected non-Go outputs, in the order of the specs table
  GoAdapter,   \* is --go-adapter selected?
  FirstRun,    \* the regeneration main() runs before the loop
  Fires,       \* bound on the timer's regenerations alive at one time: one each
  Absent,      \* a file that does not exist
  MaxEdits,    \* bound on the user's edits
  MaxRestarts, \* bound on how often the user starts goduct again
  Env

ASSUME EnvAssumption ==
  Env \subseteq {"earlyEdit", "modEdit", "testEdit", "dirNew", "dirGone", "dirBack",
                 "rename", "badSource", "diskFail", "interrupt", "overflow"}

ASSUME ConstAssumption ==
  /\ InitDirs \subseteq Dirs /\ InitDirs # {}
  /\ Outs \in Seq(STRING) /\ Outs # <<>>
  /\ \A i \in 1..Len(Outs) : Outs[i] \notin Dirs
  /\ GoAdapter \in BOOLEAN
  /\ Absent # {}    \* a file that is not there is not an empty one
  /\ FirstRun \notin Fires
  /\ MaxEdits \in Nat
  /\ MaxRestarts \in Nat

VARIABLES
  src,             \* per directory, the source the user last saved there
  mod,             \* the edit that last changed go.mod
  edits,           \* edits made so far
  files,           \* the generated files
  events,          \* what fsnotify has yet to hand to the loop
  watched,         \* the directories fsnotify is subscribed to
  proc,            \* what main() is doing
  timer,           \* is the debounce timer running?
  currentDirs,     \* watch.go's variable of that name
  currentAdapters, \* is the analyzer's package variable of that name set?
  run,             \* the local state of each regeneration
  restarts         \* how often the user has started goduct again

user == <<src, mod, edits>>
loop == <<events, proc, timer, currentDirs, watched>>
vars == <<user, loop, files, currentAdapters, run, restarts>>

-----------------------------------------------------------------------------
Regens == Fires \cup {FirstRun}
Qualities == {"good", "uncompilable", "unsupported", "unrenderable", "panics"}
Kinds == {"source", "test", "mod", "routes"}
Phases == {"idle", "start", "load", "discover", "render", "truncate", "fill",
           "reconcile", "assign"}

\* An output name for a file under --out, a directory for the adapter beside its source.
Paths == {Outs[i] : i \in 1..Len(Outs)} \cup Dirs

Source == [present : BOOLEAN, ver : Nat, quality : Qualities, shape : BOOLEAN]
Api == [view : [Dirs -> Source], mod : Nat, adapted : BOOLEAN]

Present(view) == {d \in Dirs : view[d].present}

Running == {r \in Regens : run[r].pc # "idle"}

\* The number of files a run writes, and the path of the next one.
Writes == Len(Outs) + (IF GoAdapter THEN 1 ELSE 0)
Target(r) == IF run[r].out <= Len(Outs) THEN Outs[run[r].out] ELSE run[r].dst

StopsAfterFirst(r) == TRUE
LastWrite(r) == run[r].out = Writes

Run == [pc : Phases, api : Api, todo : SUBSET Dirs, ok : BOOLEAN, out : 1..Writes, dst : Dirs]

\* ADR 0029 section 2: which base names start the debounce timer.
TriggersOnOwnOutput(kind) == kind # "test"
TriggersOnGoOnly(kind) == kind = "source"
triggers(kind) == kind \in {"source", "mod"}

\* fsnotify reports a change in a directory it is subscribed to.
Notify(d, kind) ==
  events' = IF d \in watched THEN Append(events, kind) ELSE events

\* The adapter beside a package is compiled with it: a truncated or garbled one,
\* or one that names a handler the source no longer has, is a package error.
AdapterExcluded(d) == TRUE
AdapterCompiles(d) ==
  \/ files[d] = Absent
  \/ \E a \in files[d] : files[d] = {a} /\ a.view[d].shape = src[d].shape

IgnoresErrors(d) == src[d].present
Compiles(d) ==
  /\ src[d].present
  /\ src[d].quality # "uncompilable"
  /\ AdapterCompiles(d)

-----------------------------------------------------------------------------
NoSource == [present |-> FALSE, ver |-> 0, quality |-> "good", shape |-> TRUE]

\* No regeneration: its goroutine's locals are gone.
NoRun == [pc |-> "idle", todo |-> {}, ok |-> TRUE, out |-> 1, dst |-> CHOOSE d \in Dirs : TRUE,
          api |-> [view |-> [d \in Dirs |-> NoSource], mod |-> 0, adapted |-> TRUE]]

Started == [NoRun EXCEPT !.pc = "start"]

Init ==
  /\ src = [d \in Dirs |-> [NoSource EXCEPT !.present = (d \in InitDirs)]]
  /\ mod = 0 /\ edits = 0 /\ restarts = 0
  /\ files = [p \in Paths |-> Absent]
  /\ events = <<>> /\ watched = {} /\ currentDirs = {}
  /\ proc = "first" /\ timer = FALSE /\ currentAdapters = FALSE
  /\ run = [r \in Regens |-> IF r = FirstRun THEN Started ELSE NoRun]

\* The process is gone, and with it everything but the files.
Terminate ==
  /\ proc' = "exited"
  /\ events' = <<>> /\ watched' = {} /\ currentDirs' = {}
  /\ timer' = FALSE /\ currentAdapters' = FALSE
  /\ run' = [r \in Regens |-> NoRun]

-----------------------------------------------------------------------------
\* The analyzer's package variable: `currentAdapters = adapters`, and the deferred
\* `currentAdapters = nil`.
SetAdapters == currentAdapters' = TRUE
LeavesAdapters == UNCHANGED currentAdapters
ClearAdapters == currentAdapters' = FALSE

\* One generateOnce.  The first run's error ends the process, any other is printed.
Fail(r) ==
  IF r = FirstRun
  THEN Terminate
  ELSE /\ run' = [run EXCEPT ![r] = NoRun]
       /\ IF run[r].pc = "discover" THEN ClearAdapters ELSE UNCHANGED currentAdapters
       /\ UNCHANGED loop

\* analyzer.Load asks `go list` for the packages of the pattern.
BeginLoad(r) ==
  /\ run[r].pc = "start"
  /\ IF Present(src) = {}
     THEN Fail(r)
     ELSE /\ run' = [run EXCEPT ![r].pc = "load",
                                ![r].api = [view |-> src, mod |-> mod, adapted |-> TRUE],
                                ![r].todo = Present(src)]
          /\ UNCHANGED <<loop, currentAdapters>>
  /\ UNCHANGED <<user, files, restarts>>

\* It parses and type-checks each of them, as the files are at that moment.
LoadPackage(r, d) ==
  /\ run[r].pc = "load" /\ d \in run[r].todo
  /\ run' = [run EXCEPT ![r].api.view[d] = src[d],
                        ![r].ok = @ /\ Compiles(d),
                        ![r].todo = @ \ {d}]
  /\ UNCHANGED <<user, loop, files, currentAdapters, restarts>>

\* Analyze goes on only when every package is free of errors; it publishes the
\* --adapter map in a package variable for the time of the traversal.
LoadReturns(r) ==
  /\ run[r].pc = "load" /\ run[r].todo = {}
  /\ IF run[r].ok
     THEN /\ run' = [run EXCEPT ![r].pc = "discover", ![r].todo = Present(run[r].api.view)]
          /\ SetAdapters
          /\ UNCHANGED loop
     ELSE Fail(r)
  /\ UNCHANGED <<user, files, restarts>>

\* DiscoverRoutes and DiscoverTypes of one package: recognizeBuiltin reads the
\* variable.  Without the map an adapted type is an unsupported type (an error)
\* or is translated field by field, whichever its Go kind leads to.
DiscoverPackage(r, d) ==
  /\ run[r].pc = "discover" /\ d \in run[r].todo
  /\ \E accepted \in {TRUE, currentAdapters} :
       run' = [run EXCEPT ![r].api.adapted = @ /\ currentAdapters,
                          ![r].ok = @ /\ accepted /\ run[r].api.view[d].quality # "unsupported",
                          ![r].todo = @ \ {d}]
  /\ UNCHANGED <<user, loop, files, currentAdapters, restarts>>

\* Analyze returns: its deferred function clears the variable.
AnalyzeReturns(r) ==
  /\ run[r].pc = "discover" /\ run[r].todo = {}
  /\ IF run[r].ok
     THEN /\ run' = [run EXCEPT ![r].pc = "render"]
          /\ ClearAdapters
          /\ UNCHANGED loop
     ELSE Fail(r)
  /\ UNCHANGED <<user, files, restarts>>

Renders(met) == met \cap {"panics", "unrenderable"} = {}

\* Every selected generator renders to memory before the first file is opened.
\* sourceDir takes whichever directory the iteration of a map yields first.
Render(r) ==
  LET pkgs == Present(run[r].api.view)
      met == {run[r].api.view[d].quality : d \in pkgs}
  IN  /\ run[r].pc = "render"
      /\ \/ "panics" \in met /\ Terminate
         \/ "unrenderable" \in met /\ Fail(r)
         \/ /\ Renders(met)
            /\ \E d \in pkgs :
                 run' = [run EXCEPT ![r].pc = "truncate", ![r].out = 1, ![r].dst = d]
            /\ UNCHANGED <<loop, currentAdapters>>
      /\ UNCHANGED <<user, files, restarts>>

\* os.WriteFile opens the file with O_TRUNC, which needs its directory ...
Truncate(r) ==
  /\ run[r].pc = "truncate"
  /\ IF Target(r) \in Dirs /\ ~src[Target(r)].present
     THEN Fail(r) /\ UNCHANGED files
     ELSE /\ files' = [files EXCEPT ![Target(r)] = {}]
          /\ run' = [run EXCEPT ![r].pc = "fill"]
          /\ Notify(Target(r), "routes")
          /\ UNCHANGED <<proc, timer, currentDirs, watched, currentAdapters>>
  /\ UNCHANGED <<user, restarts>>

\* ... and then writes it.  If another writer filled it in between, the longer of
\* the two outputs decides whether the file now holds bytes of both.
WriteFile(r) ==
  LET p == Target(r)
  IN  IF files[p] = Absent
      THEN UNCHANGED files
      ELSE \E kept \in {{}, files[p]} :
             files' = [files EXCEPT ![p] = kept \cup {run[r].api}]

Fill(r) ==
  LET p == Target(r)
      last == LastWrite(r)
  IN  /\ run[r].pc = "fill"
      /\ WriteFile(r)
      /\ Notify(p, "routes")
      /\ run' = [run EXCEPT ![r].pc = IF ~last THEN "truncate"
                                      ELSE IF r = FirstRun THEN "idle" ELSE "reconcile",
                            ![r].out = IF last THEN 1 ELSE @ + 1]
      /\ proc' = IF last /\ r = FirstRun THEN "arm" ELSE proc
      /\ UNCHANGED <<user, timer, currentDirs, watched, currentAdapters, restarts>>

\* MkdirAll, the open or the write fails: the files written before it stay.
WriteFails(r) ==
  /\ "diskFail" \in Env
  /\ run[r].pc \in {"truncate", "fill"}
  /\ Fail(r)
  /\ UNCHANGED <<user, files, restarts>>

\* reconcileWatches: drop what is no longer a source directory, add what is new.
NeverAdds(newDirs) == watched \ (currentDirs \ newDirs)
Reconciled(newDirs) ==
  (watched \ (currentDirs \ newDirs)) \cup ((newDirs \ currentDirs) \cap Present(src))

Reconcile(r) ==
  LET newDirs == Present(run[r].api.view)
  IN  /\ run[r].pc = "reconcile"
      /\ watched' = Reconciled(newDirs)
      /\ run' = [run EXCEPT ![r].pc = "assign"]
      /\ UNCHANGED <<user, events, proc, timer, currentDirs, files, currentAdapters, restarts>>

AssignDirs(r) ==
  /\ run[r].pc = "assign"
  /\ currentDirs' = Present(run[r].api.view)
  /\ run' = [run EXCEPT ![r] = NoRun]
  /\ UNCHANGED <<user, events, proc, timer, watched, files, currentAdapters, restarts>>

Regen(r) ==
  \/ BeginLoad(r) \/ LoadReturns(r) \/ AnalyzeReturns(r) \/ Render(r)
  \/ \E d \in Dirs : LoadPackage(r, d) \/ DiscoverPackage(r, d)
  \/ Truncate(r) \/ Fill(r) \/ Reconcile(r) \/ AssignDirs(r)

-----------------------------------------------------------------------------
\* The rest of watchAndRegen.

\* w.Add for every directory of the first run's API; one that is gone ends the watch.
Arm ==
  LET dirs == Present(run[FirstRun].api.view)
  IN  /\ proc = "arm"
      /\ IF dirs \subseteq Present(src)
         THEN /\ proc' = "watch"
              /\ currentDirs' = dirs
              /\ watched' = dirs
              /\ run' = [run EXCEPT ![FirstRun] = NoRun]
              /\ UNCHANGED <<events, timer, currentAdapters>>
         ELSE Terminate
      /\ UNCHANGED <<user, files, restarts>>

\* Stop and AfterFunc: the window restarts; a regeneration already started goes on.
HandleEvent ==
  /\ proc = "watch" /\ events # <<>>
  /\ events' = Tail(events)
  /\ timer' = (timer \/ triggers(Head(events)))
  /\ UNCHANGED <<user, proc, currentDirs, watched, files, currentAdapters, run, restarts>>

\* fsnotify.ErrEventOverflow arrives on w.Errors, which are only printed.
Overflow ==
  /\ "overflow" \in Env
  /\ proc = "watch" /\ events # <<>>
  /\ events' = <<>>
  /\ UNCHANGED <<user, proc, timer, currentDirs, watched, files, currentAdapters, run, restarts>>

\* The window closes: a goroutine starts, whether or not an earlier one is still going.
TimerFires(r) ==
  /\ timer /\ run[r].pc = "idle"
  /\ timer' = FALSE
  /\ run' = [run EXCEPT ![r] = Started]
  /\ UNCHANGED <<user, events, proc, currentDirs, watched, files, currentAdapters, restarts>>

\* SIGINT: the loop returns, main returns, regenerations die where they are.
Interrupt ==
  /\ "interrupt" \in Env
  /\ proc # "exited"
  /\ Terminate
  /\ UNCHANGED <<user, files, restarts>>

Restart ==
  /\ proc = "exited" /\ restarts < MaxRestarts
  /\ restarts' = restarts + 1
  /\ proc' = "first"
  /\ run' = [run EXCEPT ![FirstRun] = Started]
  /\ UNCHANGED <<user, events, timer, currentDirs, watched, files, currentAdapters>>

-----------------------------------------------------------------------------
\* The user.
CanEdit ==
  /\ edits < MaxEdits
  /\ proc = "watch" \/ "earlyEdit" \in Env

EditSource(d) ==
  /\ CanEdit /\ src[d].present
  /\ \E q \in (IF "badSource" \in Env THEN Qualities ELSE {"good"}),
        s \in (IF "rename" \in Env THEN BOOLEAN ELSE {src[d].shape}) :
       src' = [src EXCEPT ![d] = [present |-> TRUE, ver |-> edits + 1, quality |-> q,
                                  shape |-> s]]
  /\ Notify(d, "source")
  /\ edits' = edits + 1
  /\ UNCHANGED <<mod, proc, timer, currentDirs, watched, files, currentAdapters, run, restarts>>

\* A _test.go file is not part of what Load reads (--tests is off).
EditTest(d) ==
  /\ "testEdit" \in Env
  /\ CanEdit /\ src[d].present
  /\ Notify(d, "test")
  /\ edits' = edits + 1
  /\ UNCHANGED <<src, mod, proc, timer, currentDirs, watched, files, currentAdapters, run,
                 restarts>>

EditMod ==
  /\ "modEdit" \in Env
  /\ CanEdit
  /\ mod' = edits + 1
  /\ Notify(ModDir, "mod")
  /\ edits' = edits + 1
  /\ UNCHANGED <<src, proc, timer, currentDirs, watched, files, currentAdapters, run, restarts>>

\* A directory goes with all its files, the adapter included; the kernel drops the watch.
RemovePackage(d) ==
  /\ "dirGone" \in Env
  /\ CanEdit /\ src[d].present
  /\ src' = [src EXCEPT ![d].present = FALSE, ![d].ver = edits + 1]
  /\ files' = [files EXCEPT ![d] = Absent]
  /\ Notify(d, "source")
  /\ watched' = watched \ {d}
  /\ edits' = edits + 1
  /\ UNCHANGED <<mod, proc, timer, currentDirs, currentAdapters, run, restarts>>

\* Nobody is subscribed to a directory that did not exist.
CreatePackage(d) ==
  /\ CanEdit /\ ~src[d].present
  /\ (IF src[d].ver = 0 THEN "dirNew" ELSE "dirBack") \in Env
  /\ src' = [src EXCEPT ![d].present = TRUE, ![d].ver = edits + 1]
  /\ edits' = edits + 1
  /\ UNCHANGED <<mod, loop, files, currentAdapters, run, restarts>>

User ==
  \/ EditMod
  \/ \E d \in Dirs : EditSource(d) \/ EditTest(d) \/ RemovePackage(d) \/ CreatePackage(d)

-----------------------------------------------------------------------------
Next ==
  \/ \E r \in Regens : Regen(r) \/ WriteFails(r)
  \/ Arm \/ HandleEvent \/ Overflow
  \/ \E r \in Fires : TimerFires(r)
  \/ Interrupt \/ Restart
  \/ User

\* The program's own steps are scheduled: goroutines run, the timer expires, the
\* loop receives.  Nothing is assumed of the user, the disk or the kernel queue.
Fairness ==
  /\ \A r \in Regens : WF_vars(Regen(r))
  /\ WF_vars(Arm)
  /\ WF_vars(HandleEvent)
  /\ WF_vars(\E r \in Fires : TimerFires(r))

Spec == Init /\ [][Next]_vars
FairSpec == Spec /\ Fairness

-----------------------------------------------------------------------------
(***************************************************************************)
(* Properties.                                                             *)
(***************************************************************************)

\* Every variable holds a value of its Go type, and the bounds are kept.
TypeOK ==
  /\ src \in [Dirs -> Source]
  /\ mod \in Nat /\ edits \in 0..MaxEdits /\ restarts \in 0..MaxRestarts
  /\ files \in [Paths -> {Absent} \cup SUBSET Api]
  /\ events \in Seq(Kinds)
  /\ watched \subseteq Dirs /\ currentDirs \subseteq Dirs
  /\ proc \in {"first", "arm", "watch", "exited"}
  /\ timer \in BOOLEAN /\ currentAdapters \in BOOLEAN
  /\ run \in [Regens -> Run]

\* fieldtypes.go:43 calls currentAdapters "scoped to the single-threaded analyzer pass":
\* while an analysis is discovering types, the map it published is in force.  The code
\* does not keep it: two passes overlap and the first to return clears it (README).
AdaptersHeld ==
  \A r \in Regens : run[r].pc = "discover" => currentAdapters

\* analyze.go: "Defer-cleared so a panic mid-analysis doesn't leak state into the next
\* Analyze call": the map is set only while some analysis is under way, whichever fail.
AdaptersScoped ==
  currentAdapters => \E r \in Regens : run[r].pc = "discover"

\* Nothing goduct writes comes from source that failed to compile or to render: the
\* errors of Analyze and of every generator abort the run before its first write.
OnlyGoodSource ==
  \A p \in Paths : files[p] # Absent =>
    \A a \in files[p] : \A d \in Present(a.view) : a.view[d].quality = "good"

Quiet == proc = "watch" /\ Running = {}

\* Between regenerations the outputs under --out belong together: types.ts, schemas.ts,
\* client.ts ... all come from one run.
CoherentWhenQuiet ==
  Quiet => \A i, j \in 1..Len(Outs) : files[Outs[i]] = files[Outs[j]]

\* Between regenerations the subscriptions are those of the directories watch.go
\* believes it watches, but for the directories removed since.
WatchesCurrent ==
  Quiet => currentDirs \cap Present(src) = watched

Current == [view |-> src, mod |-> mod, adapted |-> TRUE]
Fresh ==
  /\ \A i \in 1..Len(Outs) : files[Outs[i]] = {Current}
  /\ GoAdapter => \E d \in Present(src) : files[d] = {Current}
Generatable == \A d \in Present(src) : src[d].quality = "good"

\* README: "Re-run the requested generators on source-file change".  When the user
\* stops editing, the outputs end up being those of the source as it is.
Converges == <>[](proc = "exited" \/ (Generatable => Fresh))

\* ADR 0029 section 2: writing goduct_routes.go must not start another regeneration.
\* When the user stops editing, the loop comes to rest.
Settles == <>[](proc = "exited" \/ (Running = {} /\ ~timer /\ events = <<>>))

\* While goduct watches and no run is under way, no file is left truncated: not by two
\* runs that write at once, and not by a Ctrl-C in the middle of a write, which the next
\* start makes good, or refuses to start from.
NoTornWhenQuiet ==
  Quiet => \A p \in Paths : files[p] # {}

\* A promise the code does not keep (README): the same of a process that is gone.
NoTornFile ==
  Running = {} => \A p \in Paths : files[p] # {}

\* The assumption under which what overlapping runs break is proved.
NoOverlap ==
  \A r, s \in Regens : run[r].pc # "idle" /\ run[s].pc # "idle" => r = s
=============================================================================
