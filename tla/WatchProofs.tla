---------------------------- MODULE WatchProofs ----------------------------
(* Proofs about Watch, for every value of its constants. *)
EXTENDS Watch, TLAPS

(***************************************************************************)
(* Type correctness.                                                       *)
(***************************************************************************)

LEMMA NoRunType == NoRun \in Run /\ Started \in Run
<1>1. Writes \in Nat /\ 1 \in 1..Writes
  BY ConstAssumption DEF Writes
<1>2. (CHOOSE d \in Dirs : TRUE) \in Dirs
  BY ConstAssumption
<1>3. NoSource \in Source
  BY DEF NoSource, Source, Qualities
<1>4. [view |-> [d \in Dirs |-> NoSource], mod |-> 0, adapted |-> TRUE] \in Api
  BY <1>3 DEF Api
<1>5. NoRun \in Run
  BY <1>1, <1>2, <1>4 DEF NoRun, Run, Phases
<1>6. QED
  BY <1>5 DEF Started, Run, Phases

\* The path a run writes next is one of the paths of files.
LEMMA TargetType == ASSUME TypeOK, NEW r \in Regens PROVE Target(r) \in Paths
<1>1. run[r].out \in 1..Writes /\ run[r].dst \in Dirs
  BY DEF TypeOK, Run
<1>2. Writes \in Nat /\ Len(Outs) \in Nat
  BY ConstAssumption DEF Writes
<1>3. CASE run[r].out <= Len(Outs)
  BY <1>1, <1>2, <1>3 DEF Target, Paths
<1>4. CASE ~(run[r].out <= Len(Outs))
  BY <1>1, <1>4 DEF Target, Paths
<1>5. QED
  BY <1>3, <1>4

\* The variables of the watch loop and of the analyzer have their types.
LoopOK ==
  /\ events \in Seq(Kinds)
  /\ watched \subseteq Dirs /\ currentDirs \subseteq Dirs
  /\ proc \in {"first", "arm", "watch", "exited"}
  /\ timer \in BOOLEAN
  /\ currentAdapters \in BOOLEAN

UserOK ==
  /\ src \in [Dirs -> Source]
  /\ mod \in Nat /\ edits \in 0..MaxEdits

LEMMA TypeParts ==
  TypeOK <=> /\ UserOK /\ LoopOK
             /\ files \in [Paths -> {Absent} \cup SUBSET Api]
             /\ run \in [Regens -> Run]
             /\ restarts \in 0..MaxRestarts
BY DEF TypeOK, LoopOK, UserOK

LEMMA NotifyType ==
  ASSUME events \in Seq(Kinds), NEW d, NEW kind \in Kinds, Notify(d, kind)
  PROVE  events' \in Seq(Kinds)
BY DEF Notify

LEMMA TerminateType == Terminate => LoopOK' /\ run' \in [Regens -> Run]
<1> SUFFICES ASSUME Terminate PROVE LoopOK' /\ run' \in [Regens -> Run]
  OBVIOUS
<1>1. NoRun \in Run
  BY NoRunType
<1>2. run' \in [Regens -> Run]
  BY <1>1 DEF Terminate
<1>3. events' \in Seq(Kinds)
  BY DEF Terminate
<1>4. watched' \subseteq Dirs /\ currentDirs' \subseteq Dirs
  BY DEF Terminate
<1>5. /\ proc' \in {"first", "arm", "watch", "exited"}
      /\ timer' \in BOOLEAN /\ currentAdapters' \in BOOLEAN
  BY DEF Terminate
<1>6. QED
  BY <1>2, <1>3, <1>4, <1>5 DEF LoopOK

LEMMA FailType ==
  ASSUME LoopOK, run \in [Regens -> Run], NEW r \in Regens, Fail(r)
  PROVE  LoopOK' /\ run' \in [Regens -> Run]
<1>1. CASE r = FirstRun
  BY <1>1, TerminateType DEF Fail
<1>2. CASE r # FirstRun
  <2>1. NoRun \in Run
    BY NoRunType
  <2>2. run' \in [Regens -> Run]
    BY <1>2, <2>1 DEF Fail
  <2>3. currentAdapters' \in BOOLEAN
    BY <1>2 DEF Fail, ClearAdapters, LoopOK
  <2>4. UNCHANGED loop
    BY <1>2 DEF Fail
  <2>5. QED
    BY <2>2, <2>3, <2>4 DEF LoopOK, loop
<1>3. QED
  BY <1>1, <1>2

\* A step of one run that leaves the rest of the regenerations alone.
LEMMA RunStep ==
  ASSUME run \in [Regens -> Run], NEW r \in Regens, NEW new \in Run,
         run' = [run EXCEPT ![r] = new]
  PROVE  run' \in [Regens -> Run]
OBVIOUS

LEMMA InitType == Init => TypeOK
<1> SUFFICES ASSUME Init PROVE TypeOK
  OBVIOUS
<1>1. \A b \in BOOLEAN : [NoSource EXCEPT !.present = b] \in Source
  BY DEF NoSource, Source, Qualities
<1>2. src \in [Dirs -> Source]
  <2>1. src = [d \in Dirs |-> [NoSource EXCEPT !.present = (d \in InitDirs)]]
    BY DEF Init
  <2>2. \A d \in Dirs : (d \in InitDirs) \in BOOLEAN
    OBVIOUS
  <2>3. \A d \in Dirs : [NoSource EXCEPT !.present = (d \in InitDirs)] \in Source
    BY <1>1, <2>2
  <2>4. QED
    BY <2>1, <2>3
<1>3. run \in [Regens -> Run]
  BY NoRunType DEF Init
<1>4. files \in [Paths -> {Absent} \cup SUBSET Api]
  BY DEF Init
<1>5. mod \in Nat /\ edits \in 0..MaxEdits /\ restarts \in 0..MaxRestarts
  BY ConstAssumption DEF Init
<1>6. LoopOK
  <2>1. events \in Seq(Kinds)
    BY DEF Init
  <2>2. watched \subseteq Dirs /\ currentDirs \subseteq Dirs
    BY DEF Init
  <2>3. proc \in {"first", "arm", "watch", "exited"} /\ timer \in BOOLEAN
        /\ currentAdapters \in BOOLEAN
    BY DEF Init
  <2>4. QED
    BY <2>1, <2>2, <2>3 DEF LoopOK
<1>7. QED
  BY <1>2, <1>3, <1>4, <1>5, <1>6, TypeParts DEF UserOK

\* The local steps of a regeneration keep its record well typed.
LEMMA RegenType ==
  ASSUME TypeOK, NEW r \in Regens, Regen(r)
  PROVE  LoopOK' /\ run' \in [Regens -> Run]
<1> USE DEF LoopOK
<1>0. /\ LoopOK /\ UserOK /\ run \in [Regens -> Run] /\ run[r] \in Run
  BY TypeParts
<1>1. \A view : Present(view) \subseteq Dirs
  BY DEF Present
<1>2. Writes \in Nat \ {0} /\ Writes >= Len(Outs)
  BY ConstAssumption DEF Writes
<1>3. CASE BeginLoad(r)
  <2>1. CASE Present(src) = {}
    BY <1>0, <1>3, <2>1, FailType DEF BeginLoad
  <2>2. CASE Present(src) # {}
    <3> DEFINE api == [view |-> src, mod |-> mod, adapted |-> TRUE]
    <3>1. api \in Api
      BY <1>0 DEF UserOK, Api
    <3>2. run' = [run EXCEPT ![r].pc = "load", ![r].api = api, ![r].todo = Present(src)]
      BY <1>3, <2>2 DEF BeginLoad
    <3>3. [run[r] EXCEPT !.pc = "load", !.api = api, !.todo = Present(src)] \in Run
      BY <1>0, <1>1, <3>1 DEF Run, Phases
    <3>4. run' \in [Regens -> Run]
      BY <1>0, <3>2, <3>3
    <3>5. UNCHANGED <<loop, currentAdapters>>
      BY <1>3, <2>2 DEF BeginLoad
    <3>6. QED
      BY <1>0, <3>4, <3>5 DEF loop
  <2>3. QED
    BY <2>1, <2>2
<1>4. CASE LoadReturns(r)
  <2>1. CASE ~run[r].ok
    BY <1>0, <1>4, <2>1, FailType DEF LoadReturns
  <2>2. CASE run[r].ok
    <3> DEFINE t == Present(run[r].api.view)
    <3>1. run' = [run EXCEPT ![r].pc = "discover", ![r].todo = t]
      BY <1>4, <2>2 DEF LoadReturns
    <3>2. [run[r] EXCEPT !.pc = "discover", !.todo = t] \in Run
      BY <1>0, <1>1 DEF Run, Phases
    <3>3. run' \in [Regens -> Run]
      BY <1>0, <3>1, <3>2
    <3>4. currentAdapters' = TRUE /\ UNCHANGED loop
      BY <1>4, <2>2 DEF LoadReturns, SetAdapters
    <3>5. QED
      BY <1>0, <3>3, <3>4 DEF loop
  <2>3. QED
    BY <2>1, <2>2
<1>5. CASE AnalyzeReturns(r)
  <2>1. CASE ~run[r].ok
    BY <1>0, <1>5, <2>1, FailType DEF AnalyzeReturns
  <2>2. CASE run[r].ok
    <3>1. run' = [run EXCEPT ![r].pc = "render"]
      BY <1>5, <2>2 DEF AnalyzeReturns
    <3>2. [run[r] EXCEPT !.pc = "render"] \in Run
      BY <1>0 DEF Run, Phases
    <3>3. run' \in [Regens -> Run]
      BY <1>0, <3>1, <3>2
    <3>4. currentAdapters' = FALSE /\ UNCHANGED loop
      BY <1>5, <2>2 DEF AnalyzeReturns, ClearAdapters
    <3>5. QED
      BY <1>0, <3>3, <3>4 DEF loop
  <2>3. QED
    BY <2>1, <2>2
<1>6. CASE Render(r)
  <2>1. CASE Terminate
    BY <2>1, TerminateType
  <2>2. CASE Fail(r)
    BY <1>0, <2>2, FailType
  <2>3. CASE ~Terminate /\ ~Fail(r)
    <3>1. PICK d \in Present(run[r].api.view) :
            /\ run' = [run EXCEPT ![r].pc = "truncate", ![r].out = 1, ![r].dst = d]
            /\ UNCHANGED <<loop, currentAdapters>>
      BY <1>6, <2>3 DEF Render
    <3>a. 1 \in 1..Writes /\ d \in Dirs
      BY <1>1, <1>2
    <3>2. [run[r] EXCEPT !.pc = "truncate", !.out = 1, !.dst = d] \in Run
      BY <1>0, <3>a DEF Run, Phases
    <3>3. run' \in [Regens -> Run]
      BY <1>0, <3>1, <3>2
    <3>4. QED
      BY <1>0, <3>1, <3>3 DEF loop
  <2>4. QED
    BY <2>1, <2>2, <2>3
<1>7. ASSUME NEW d \in Dirs, LoadPackage(r, d)
      PROVE  LoopOK' /\ run' \in [Regens -> Run]
  <2> DEFINE api == [run[r].api EXCEPT !.view[d] = src[d]]
             t == run[r].todo \ {d}
             o == run[r].ok /\ Compiles(d)
  <2>1. api \in Api
    BY <1>0 DEF UserOK, Api, Run
  <2>2. run' = [run EXCEPT ![r] = [run[r] EXCEPT !.api = api, !.ok = o, !.todo = t]]
    BY <1>0, <1>7 DEF LoadPackage, Run, Api
  <2>3. t \subseteq Dirs /\ o \in BOOLEAN
    BY <1>0 DEF Run
  <2>4. [run[r] EXCEPT !.api = api, !.ok = o, !.todo = t] \in Run
    BY <1>0, <2>1, <2>3 DEF Run
  <2>5. run' \in [Regens -> Run]
    BY <1>0, <2>2, <2>4
  <2>6. UNCHANGED <<loop, currentAdapters>>
    BY <1>7 DEF LoadPackage
  <2>7. QED
    BY <1>0, <2>5, <2>6 DEF loop
<1>8. ASSUME NEW d \in Dirs, DiscoverPackage(r, d)
      PROVE  LoopOK' /\ run' \in [Regens -> Run]
  <2>1. PICK accepted \in {TRUE, currentAdapters} :
          run' = [run EXCEPT ![r].api.adapted = @ /\ currentAdapters,
                    ![r].ok = @ /\ accepted /\ run[r].api.view[d].quality # "unsupported",
                    ![r].todo = @ \ {d}]
    BY <1>8 DEF DiscoverPackage
  <2> DEFINE a == run[r].api.adapted /\ currentAdapters
             api == [run[r].api EXCEPT !.adapted = a]
             t == run[r].todo \ {d}
             o == run[r].ok /\ accepted /\ run[r].api.view[d].quality # "unsupported"
  <2>2. api \in Api
    <3>1. a \in BOOLEAN
      OBVIOUS
    <3>2. run[r].api \in Api
      BY <1>0 DEF Run
    <3>3. QED
      BY <3>1, <3>2 DEF Api
  <2>3. run' = [run EXCEPT ![r] = [run[r] EXCEPT !.api = api, !.ok = o, !.todo = t]]
    BY <1>0, <2>1 DEF Run, Api
  <2>4. t \subseteq Dirs /\ o \in BOOLEAN
    BY <1>0 DEF Run
  <2>5. [run[r] EXCEPT !.api = api, !.ok = o, !.todo = t] \in Run
    BY <1>0, <2>2, <2>4 DEF Run
  <2>6. run' \in [Regens -> Run]
    BY <1>0, <2>3, <2>5
  <2>7. UNCHANGED <<loop, currentAdapters>>
    BY <1>8 DEF DiscoverPackage
  <2>8. QED
    BY <1>0, <2>6, <2>7 DEF loop
<1>9. CASE Truncate(r)
  <2>1. CASE Fail(r)
    BY <1>0, <2>1, FailType
  <2>2. CASE ~Fail(r)
    <3>1. /\ run' = [run EXCEPT ![r].pc = "fill"] /\ Notify(Target(r), "routes")
          /\ UNCHANGED <<proc, timer, currentDirs, watched, currentAdapters>>
      BY <1>9, <2>2 DEF Truncate
    <3>2. [run[r] EXCEPT !.pc = "fill"] \in Run
      BY <1>0 DEF Run, Phases
    <3>3. run' \in [Regens -> Run]
      BY <1>0, <3>1, <3>2
    <3>4. events' \in Seq(Kinds)
      BY <1>0, <3>1, NotifyType DEF Kinds
    <3>5. QED
      BY <1>0, <3>1, <3>3, <3>4
  <2>3. QED
    BY <2>1, <2>2
<1>10. CASE Fill(r)
  <2> DEFINE last == LastWrite(r)
             c == IF ~last THEN "truncate" ELSE IF r = FirstRun THEN "idle" ELSE "reconcile"
             o == IF last THEN 1 ELSE run[r].out + 1
  <2>1. /\ run' = [run EXCEPT ![r].pc = c, ![r].out = o]
        /\ proc' = IF last /\ r = FirstRun THEN "arm" ELSE proc
        /\ Notify(Target(r), "routes")
        /\ UNCHANGED <<timer, currentDirs, watched, currentAdapters>>
    BY <1>10 DEF Fill, WriteFile
  <2>2. o \in 1..Writes
    BY <1>0, <1>2 DEF LastWrite, Run
  <2>3. [run[r] EXCEPT !.pc = c, !.out = o] \in Run
    BY <1>0, <2>2 DEF Run, Phases
  <2>4. run' \in [Regens -> Run]
    BY <1>0, <2>1, <2>3
  <2>5. events' \in Seq(Kinds)
    BY <1>0, <2>1, NotifyType DEF Kinds
  <2>6. proc' \in {"first", "arm", "watch", "exited"}
    BY <1>0, <2>1
  <2>7. QED
    BY <1>0, <2>1, <2>4, <2>5, <2>6
<1>11. CASE Reconcile(r)
  <2>1. [run[r] EXCEPT !.pc = "assign"] \in Run
    BY <1>0 DEF Run, Phases
  <2>2. run' \in [Regens -> Run]
    BY <1>0, <1>11, <2>1 DEF Reconcile
  <2>3. watched' \subseteq Dirs
    BY <1>0, <1>1, <1>11 DEF Reconcile, Reconciled
  <2>4. QED
    BY <1>0, <1>11, <2>2, <2>3 DEF Reconcile
<1>12. CASE AssignDirs(r)
  <2>1. run' \in [Regens -> Run]
    BY <1>0, <1>12, NoRunType DEF AssignDirs
  <2>2. QED
    BY <1>0, <1>1, <1>12, <2>1 DEF AssignDirs
<1>13. QED
  BY <1>3, <1>4, <1>5, <1>6, <1>7, <1>8, <1>9, <1>10, <1>11, <1>12 DEF Regen

\* What a regeneration leaves on disk is always the output of some API.
LEMMA FilesType ==
  ASSUME TypeOK, NEW r \in Regens, Regen(r)
  PROVE  files' \in [Paths -> {Absent} \cup SUBSET Api]
<1>1. Target(r) \in Paths /\ run[r].api \in Api /\ files \in [Paths -> {Absent} \cup SUBSET Api]
  BY TargetType DEF TypeOK, Run
<1>2. CASE Truncate(r)
  BY <1>1, <1>2 DEF Truncate
<1>3. CASE Fill(r)
  <2> DEFINE p == Target(r)
  <2>1. CASE files[p] = Absent
    BY <1>1, <1>3, <2>1 DEF Fill, WriteFile
  <2>2. CASE files[p] # Absent
    <3>1. PICK kept \in {{}, files[p]} : files' = [files EXCEPT ![p] = kept \cup {run[r].api}]
      BY <1>3, <2>2 DEF Fill, WriteFile
    <3>2. kept \cup {run[r].api} \in SUBSET Api
      BY <1>1, <2>2
    <3>3. QED
      BY <1>1, <3>1, <3>2
  <2>3. QED
    BY <2>1, <2>2
<1>4. CASE UNCHANGED files
  BY <1>1, <1>4
<1>5. Truncate(r) \/ Fill(r) \/ UNCHANGED files
  BY DEF Regen, BeginLoad, LoadReturns, AnalyzeReturns, Render, LoadPackage, DiscoverPackage,
         Reconcile, AssignDirs
<1>6. QED
  BY <1>2, <1>3, <1>4, <1>5

LEMMA LoopType ==
  ASSUME TypeOK,
         \/ Arm \/ HandleEvent \/ Overflow \/ Interrupt \/ Restart
         \/ \E r \in Regens : WriteFails(r)
         \/ \E r \in Fires : TimerFires(r)
  PROVE  LoopOK' /\ run' \in [Regens -> Run]
<1>0. /\ LoopOK /\ run \in [Regens -> Run] /\ NoRun \in Run /\ Started \in Run
      /\ FirstRun \in Regens /\ Fires \subseteq Regens
  BY TypeParts, NoRunType DEF Regens
<1>1. CASE Arm
  <2>1. CASE Terminate
    BY <2>1, TerminateType
  <2>2. CASE ~Terminate
    <3>1. Present(run[FirstRun].api.view) \subseteq Dirs
      BY DEF Present
    <3>2. /\ proc' = "watch" /\ currentDirs' \subseteq Dirs /\ watched' \subseteq Dirs
          /\ run' = [run EXCEPT ![FirstRun] = NoRun]
          /\ UNCHANGED <<events, timer, currentAdapters>>
      BY <1>1, <2>2, <3>1 DEF Arm
    <3>3. QED
      BY <1>0, <3>2 DEF LoopOK
  <2>3. QED
    BY <2>1, <2>2
<1>2. CASE HandleEvent
  <2>1. events' \in Seq(Kinds)
    BY <1>0, <1>2 DEF HandleEvent, LoopOK
  <2>2. timer' \in BOOLEAN
    BY <1>0, <1>2 DEF HandleEvent
  <2>3. UNCHANGED <<proc, currentDirs, watched, currentAdapters, run>>
    BY <1>2 DEF HandleEvent
  <2>4. QED
    BY <1>0, <2>1, <2>2, <2>3 DEF LoopOK
<1>3. CASE Overflow
  <2>1. events' \in Seq(Kinds)
    BY <1>3 DEF Overflow
  <2>2. UNCHANGED <<proc, timer, currentDirs, watched, currentAdapters, run>>
    BY <1>3 DEF Overflow
  <2>3. QED
    BY <1>0, <2>1, <2>2 DEF LoopOK
<1>4. CASE Interrupt
  BY <1>4, TerminateType DEF Interrupt
<1>5. CASE Restart
  <2>1. run' \in [Regens -> Run]
    BY <1>0, <1>5 DEF Restart
  <2>2. proc' = "first" /\ UNCHANGED <<events, timer, currentDirs, watched, currentAdapters>>
    BY <1>5 DEF Restart
  <2>3. QED
    BY <1>0, <2>1, <2>2 DEF LoopOK
<1>6. ASSUME NEW r \in Regens, WriteFails(r) PROVE LoopOK' /\ run' \in [Regens -> Run]
  BY <1>0, <1>6, FailType DEF WriteFails
<1>7. ASSUME NEW r \in Fires, TimerFires(r) PROVE LoopOK' /\ run' \in [Regens -> Run]
  <2>1. run' \in [Regens -> Run]
    BY <1>0, <1>7 DEF TimerFires
  <2>2. timer' = FALSE /\ UNCHANGED <<events, proc, currentDirs, watched, currentAdapters>>
    BY <1>7 DEF TimerFires
  <2>3. QED
    BY <1>0, <2>1, <2>2 DEF LoopOK
<1>8. QED
  BY <1>1, <1>2, <1>3, <1>4, <1>5, <1>6, <1>7

LEMMA UserType ==
  ASSUME TypeOK, User
  PROVE  /\ UserOK' /\ LoopOK' /\ UNCHANGED <<run, restarts>>
         /\ files' \in [Paths -> {Absent} \cup SUBSET Api]
<1>0. /\ LoopOK /\ UserOK /\ files \in [Paths -> {Absent} \cup SUBSET Api]
  BY TypeParts
<1>a. CanEdit => edits + 1 \in Nat /\ edits + 1 \in 0..MaxEdits
  BY <1>0, ConstAssumption DEF CanEdit, UserOK
<1>1. CASE EditMod
  <2>1. events' \in Seq(Kinds)
    BY <1>0, <1>1, NotifyType DEF EditMod, LoopOK, Kinds
  <2>2. /\ mod' = edits + 1 /\ edits' = edits + 1 /\ CanEdit
        /\ UNCHANGED <<src, proc, timer, currentDirs, watched, files, currentAdapters, run,
                       restarts>>
    BY <1>1 DEF EditMod
  <2>3. QED
    BY <1>0, <1>a, <2>1, <2>2 DEF LoopOK, UserOK
<1>2. ASSUME NEW d \in Dirs, EditSource(d)
      PROVE  /\ UserOK' /\ LoopOK' /\ UNCHANGED <<run, restarts>>
             /\ files' \in [Paths -> {Absent} \cup SUBSET Api]
  <2>1. events' \in Seq(Kinds)
    BY <1>0, <1>2, NotifyType DEF EditSource, LoopOK, Kinds
  <2>2. PICK q \in Qualities, s \in BOOLEAN :
          src' = [src EXCEPT ![d] = [present |-> TRUE, ver |-> edits + 1, quality |-> q,
                                     shape |-> s]]
    <3>1. src[d].shape \in BOOLEAN /\ "good" \in Qualities
      BY <1>0 DEF UserOK, Source, Qualities
    <3>2. QED
      BY <1>2, <3>1 DEF EditSource
  <2>3. src' \in [Dirs -> Source]
    BY <1>0, <1>a, <1>2, <2>2 DEF EditSource, UserOK, Source
  <2>4. /\ edits' = edits + 1 /\ CanEdit
        /\ UNCHANGED <<mod, proc, timer, currentDirs, watched, files, currentAdapters, run,
                       restarts>>
    BY <1>2 DEF EditSource
  <2>5. QED
    BY <1>0, <1>a, <2>1, <2>3, <2>4 DEF LoopOK, UserOK
<1>3. ASSUME NEW d \in Dirs, EditTest(d)
      PROVE  /\ UserOK' /\ LoopOK' /\ UNCHANGED <<run, restarts>>
             /\ files' \in [Paths -> {Absent} \cup SUBSET Api]
  <2>1. events' \in Seq(Kinds)
    BY <1>0, <1>3, NotifyType DEF EditTest, LoopOK, Kinds
  <2>2. /\ edits' = edits + 1 /\ CanEdit
        /\ UNCHANGED <<src, mod, proc, timer, currentDirs, watched, files, currentAdapters, run,
                       restarts>>
    BY <1>3 DEF EditTest
  <2>3. QED
    BY <1>0, <1>a, <2>1, <2>2 DEF LoopOK, UserOK
<1>4. ASSUME NEW d \in Dirs, RemovePackage(d)
      PROVE  /\ UserOK' /\ LoopOK' /\ UNCHANGED <<run, restarts>>
             /\ files' \in [Paths -> {Absent} \cup SUBSET Api]
  <2>1. events' \in Seq(Kinds)
    BY <1>0, <1>4, NotifyType DEF RemovePackage, LoopOK, Kinds
  <2>2. src' \in [Dirs -> Source]
    BY <1>0, <1>a, <1>4 DEF RemovePackage, UserOK, Source
  <2>3. files' \in [Paths -> {Absent} \cup SUBSET Api]
    BY <1>0, <1>4 DEF RemovePackage
  <2>4. /\ edits' = edits + 1 /\ CanEdit /\ watched' = watched \ {d}
        /\ UNCHANGED <<mod, proc, timer, currentDirs, currentAdapters, run, restarts>>
    BY <1>4 DEF RemovePackage
  <2>5. QED
    BY <1>0, <1>a, <2>1, <2>2, <2>3, <2>4 DEF LoopOK, UserOK
<1>5. ASSUME NEW d \in Dirs, CreatePackage(d)
      PROVE  /\ UserOK' /\ LoopOK' /\ UNCHANGED <<run, restarts>>
             /\ files' \in [Paths -> {Absent} \cup SUBSET Api]
  <2>1. src' \in [Dirs -> Source]
    BY <1>0, <1>a, <1>5 DEF CreatePackage, UserOK, Source
  <2>2. /\ edits' = edits + 1 /\ CanEdit
        /\ UNCHANGED <<mod, loop, files, currentAdapters, run, restarts>>
    BY <1>5 DEF CreatePackage
  <2>3. QED
    BY <1>0, <1>a, <2>1, <2>2 DEF LoopOK, UserOK, loop
<1>6. QED
  BY <1>1, <1>2, <1>3, <1>4, <1>5 DEF User

LEMMA NextType == TypeOK /\ [Next]_vars => TypeOK'
<1> SUFFICES ASSUME TypeOK, [Next]_vars PROVE TypeOK'
  OBVIOUS
<1>0. /\ UserOK /\ LoopOK /\ files \in [Paths -> {Absent} \cup SUBSET Api]
      /\ run \in [Regens -> Run] /\ restarts \in 0..MaxRestarts
  BY TypeParts
<1>1. ASSUME NEW r \in Regens, Regen(r) PROVE TypeOK'
  <2>1. UNCHANGED <<user, restarts>>
    BY <1>1 DEF Regen, BeginLoad, LoadReturns, AnalyzeReturns, Render, LoadPackage,
                DiscoverPackage, Truncate, Fill, WriteFile, Reconcile, AssignDirs
  <2>2. UserOK' /\ restarts' \in 0..MaxRestarts
    BY <1>0, <2>1 DEF UserOK, user
  <2>3. QED
    BY <1>1, <2>2, RegenType, FilesType DEF TypeOK, UserOK, LoopOK
<1>2. ASSUME \/ Arm \/ HandleEvent \/ Overflow \/ Interrupt \/ Restart
             \/ \E r \in Regens : WriteFails(r)
             \/ \E r \in Fires : TimerFires(r)
      PROVE  TypeOK'
  <2>1. UNCHANGED <<user, files>>
    BY <1>2 DEF Arm, HandleEvent, Overflow, Interrupt, Restart, WriteFails, TimerFires
  <2>2. restarts' \in 0..MaxRestarts
    <3>1. CASE Restart
      BY <1>0, <3>1, ConstAssumption DEF Restart
    <3>2. CASE ~Restart
      BY <1>0, <1>2, <3>2 DEF Arm, HandleEvent, Overflow, Interrupt, WriteFails, TimerFires
    <3>3. QED
      BY <3>1, <3>2
  <2>3. UserOK' /\ files' \in [Paths -> {Absent} \cup SUBSET Api]
    BY <1>0, <2>1 DEF UserOK, user
  <2>4. LoopOK' /\ run' \in [Regens -> Run]
    BY <1>2, LoopType
  <2>5. QED
    BY <2>2, <2>3, <2>4 DEF TypeOK, UserOK, LoopOK
<1>3. ASSUME User PROVE TypeOK'
  <2>1. /\ UserOK' /\ LoopOK' /\ UNCHANGED <<run, restarts>>
        /\ files' \in [Paths -> {Absent} \cup SUBSET Api]
    BY <1>3, UserType
  <2>2. QED
    BY <1>0, <2>1 DEF TypeOK, UserOK, LoopOK
<1>4. CASE UNCHANGED vars
  BY <1>0, <1>4 DEF TypeOK, UserOK, LoopOK, vars, user, loop
<1>5. QED
  BY <1>1, <1>2, <1>3, <1>4 DEF Next

\* In every reachable state each variable of the watch session has its type: files hold
\* only whole APIs' bytes, and no run's write index leaves the list of its outputs.
THEOREM TypeCorrect == Spec => []TypeOK
<1>1. QED
  BY InitType, NextType, PTL DEF Spec

(***************************************************************************)
(* Only good source reaches the disk, however many runs overlap and        *)
(* whatever the user, the disk and the kernel do.  Each phase of a run     *)
(* carries what the phases before it have established of the API it holds. *)
(***************************************************************************)

Quality(r, d) == run[r].api.view[d].quality

RunGood(r) ==
  LET pkgs == Present(run[r].api.view)
  IN  /\ run[r].pc = "load" /\ run[r].ok =>
           \A d \in pkgs \ run[r].todo : Quality(r, d) # "uncompilable"
      /\ run[r].pc = "discover" =>
           \A d \in pkgs : Quality(r, d) # "uncompilable"
      /\ run[r].pc = "discover" /\ run[r].ok =>
           \A d \in pkgs \ run[r].todo : Quality(r, d) # "unsupported"
      /\ run[r].pc = "render" =>
           \A d \in pkgs : Quality(r, d) \notin {"uncompilable", "unsupported"}
      /\ run[r].pc \in {"truncate", "fill"} =>
           \A d \in pkgs : Quality(r, d) = "good"

GoodInv == OnlyGoodSource /\ \A r \in Regens : RunGood(r)

LEMMA NoRunGood ==
  ASSUME NEW r \in Regens, run[r] \in {NoRun, Started} PROVE RunGood(r)
BY DEF RunGood, NoRun, Started

LEMMA TerminateGood == Terminate => \A r \in Regens : RunGood(r)'
<1> SUFFICES ASSUME Terminate, NEW r \in Regens PROVE RunGood(r)'
  OBVIOUS
<1>1. run'[r] = NoRun
  BY DEF Terminate
<1>2. QED
  BY <1>1 DEF RunGood, NoRun

\* A run that fails, or any step of another run, says nothing new about this one.
LEMMA FailGood ==
  ASSUME TypeOK, GoodInv, NEW r \in Regens, Fail(r) PROVE \A s \in Regens : RunGood(s)'
<1>1. CASE r = FirstRun
  BY <1>1, TerminateGood DEF Fail
<1>2. CASE r # FirstRun
  <2>1. run' = [run EXCEPT ![r] = NoRun]
    BY <1>2 DEF Fail
  <2>2. SUFFICES ASSUME NEW s \in Regens PROVE RunGood(s)'
    OBVIOUS
  <2>3. CASE s = r
    <3>1. run'[r] = NoRun
      BY <2>1 DEF TypeOK
    <3>2. QED
      BY <2>3, <3>1 DEF RunGood, NoRun
  <2>4. CASE s # r
    <3>1. run'[s] = run[s]
      BY <2>1, <2>4 DEF TypeOK
    <3>2. QED
      BY <3>1 DEF GoodInv, RunGood, Quality
  <2>5. QED
    BY <2>3, <2>4
<1>3. QED
  BY <1>1, <1>2

\* When only run r changes, the others keep what they had established.
LEMMA OthersGood ==
  ASSUME GoodInv, NEW r \in Regens, RunGood(r)',
         \A s \in Regens \ {r} : run'[s] = run[s]
  PROVE  \A s \in Regens : RunGood(s)'
<1> SUFFICES ASSUME NEW s \in Regens PROVE RunGood(s)'
  OBVIOUS
<1>1. CASE s = r
  BY <1>1
<1>2. CASE s # r
  BY <1>2 DEF GoodInv, RunGood, Quality
<1>3. QED
  BY <1>1, <1>2

LEMMA RegenGood ==
  ASSUME TypeOK, GoodInv, NEW r \in Regens, Regen(r)
  PROVE  \A s \in Regens : RunGood(s)'
<1>0. run \in [Regens -> Run] /\ run[r] \in Run /\ RunGood(r)
  BY DEF TypeOK, GoodInv
<1>1. CASE Fail(r) \/ Terminate
  BY <1>1, FailGood, TerminateGood
<1>2. CASE ~Fail(r) /\ ~Terminate
  <2>0. \A s \in Regens \ {r} : run'[s] = run[s]
    BY <1>0, <1>2 DEF Regen, BeginLoad, LoadReturns, AnalyzeReturns, Render, LoadPackage,
                DiscoverPackage, Truncate, Fill, WriteFile, Reconcile, AssignDirs
  <2>1. CASE BeginLoad(r)
    <3>1. /\ run'[r].pc = "load" /\ run'[r].todo = Present(src) /\ run'[r].api.view = src
      BY <1>0, <1>2, <2>1 DEF BeginLoad, Run
    <3>2. RunGood(r)'
      BY <3>1 DEF RunGood
    <3>3. QED
      BY <2>0, <3>2, OthersGood
  <2>2. CASE LoadReturns(r)
    <3>1. /\ run'[r].pc = "discover" /\ run'[r].todo = Present(run[r].api.view)
          /\ run'[r].api = run[r].api /\ run[r].ok /\ run[r].todo = {} /\ run[r].pc = "load"
      BY <1>0, <1>2, <2>2 DEF LoadReturns, Run
    <3>2. RunGood(r)'
      BY <1>0, <3>1 DEF RunGood, Quality
    <3>3. QED
      BY <2>0, <3>2, OthersGood
  <2>3. CASE AnalyzeReturns(r)
    <3>1. /\ run'[r].pc = "render" /\ run[r].pc = "discover"
          /\ run'[r].api = run[r].api /\ run[r].ok /\ run[r].todo = {}
      BY <1>0, <1>2, <2>3 DEF AnalyzeReturns, Run
    <3>2. RunGood(r)'
      BY <1>0, <3>1 DEF RunGood, Quality
    <3>3. QED
      BY <2>0, <3>2, OthersGood
  <2>4. CASE Render(r)
    <3> DEFINE pkgs == Present(run[r].api.view)
               met == {run[r].api.view[d].quality : d \in pkgs}
    <3>1. /\ run'[r].pc = "truncate" /\ run[r].pc = "render" /\ run'[r].api = run[r].api
          /\ Renders(met)
      BY <1>0, <1>2, <2>4 DEF Render, Run
    <3>2. \A d \in pkgs : /\ Quality(r, d) \in Qualities
                          /\ Quality(r, d) \notin {"panics", "unrenderable"}
      BY <1>0, <3>1 DEF Renders, Quality, Run, Api, Source, Present
    <3>3. \A d \in pkgs : Quality(r, d) \notin {"uncompilable", "unsupported"}
      BY <1>0, <3>1 DEF RunGood
    <3>4. \A d \in pkgs : Quality(r, d) = "good"
      BY <3>2, <3>3 DEF Qualities
    <3>5. RunGood(r)'
      BY <3>1, <3>4 DEF RunGood, Quality
    <3>6. QED
      BY <2>0, <3>5, OthersGood
  <2>5. ASSUME NEW d \in Dirs, LoadPackage(r, d) PROVE RunGood(r)'
    <3>1. /\ run'[r].pc = "load" /\ run[r].pc = "load"
          /\ run'[r].api.view = [run[r].api.view EXCEPT ![d] = src[d]]
          /\ run'[r].todo = run[r].todo \ {d}
          /\ run'[r].ok = (run[r].ok /\ Compiles(d))
      BY <1>0, <2>5 DEF LoadPackage, Run, Api
    <3>2. run[r].api.view \in [Dirs -> Source]
      BY <1>0 DEF Run, Api
    <3>3. ASSUME run'[r].ok, NEW e \in Present(run'[r].api.view) \ run'[r].todo
          PROVE  run'[r].api.view[e].quality # "uncompilable"
      <4>1. CASE e = d
        BY <3>1, <3>2, <3>3, <4>1 DEF Compiles
      <4>2. CASE e # d
        <5>1. e \in Present(run[r].api.view) \ run[r].todo /\ run[r].ok
          BY <3>1, <3>2, <3>3, <4>2 DEF Present
        <5>2. Quality(r, e) # "uncompilable"
          BY <1>0, <3>1, <5>1 DEF RunGood
        <5>3. QED
          BY <3>1, <3>2, <4>2, <5>2 DEF Quality
      <4>3. QED
        BY <4>1, <4>2
    <3>4. QED
      BY <3>1, <3>3 DEF RunGood, Quality
  <2>6. ASSUME NEW d \in Dirs, DiscoverPackage(r, d) PROVE RunGood(r)'
    <3>1. /\ run'[r].pc = "discover" /\ run[r].pc = "discover"
          /\ run'[r].api.view = run[r].api.view
          /\ run'[r].todo = run[r].todo \ {d}
          /\ run'[r].ok => run[r].ok /\ Quality(r, d) # "unsupported"
      BY <1>0, <2>6 DEF DiscoverPackage, Run, Api, Quality
    <3>2. QED
      BY <1>0, <3>1 DEF RunGood, Quality
  <2>7. CASE Truncate(r)
    <3>1. run'[r].pc = "fill" /\ run[r].pc = "truncate" /\ run'[r].api = run[r].api
      BY <1>0, <1>2, <2>7 DEF Truncate, Run
    <3>2. RunGood(r)'
      BY <1>0, <3>1 DEF RunGood, Quality
    <3>3. QED
      BY <2>0, <3>2, OthersGood
  <2>8. CASE Fill(r)
    <3>1. /\ run'[r].pc \in {"truncate", "idle", "reconcile"} /\ run[r].pc = "fill"
          /\ run'[r].api = run[r].api
      BY <1>0, <2>8 DEF Fill, WriteFile, Run
    <3>2. RunGood(r)'
      BY <1>0, <3>1 DEF RunGood, Quality
    <3>3. QED
      BY <2>0, <3>2, OthersGood
  <2>9. CASE Reconcile(r) \/ AssignDirs(r)
    <3>1. run'[r].pc \in {"assign", "idle"}
      BY <1>0, <2>9 DEF Reconcile, AssignDirs, Run, NoRun
    <3>2. RunGood(r)'
      BY <3>1 DEF RunGood
    <3>3. QED
      BY <2>0, <3>2, OthersGood
  <2>10. QED
    BY <2>0, <2>1, <2>2, <2>3, <2>4, <2>5, <2>6, <2>7, <2>8, <2>9, OthersGood DEF Regen
<1>3. QED
  BY <1>1, <1>2

\* A file gains only the API of a run that is filling it.
LEMMA FilesGood ==
  ASSUME TypeOK, GoodInv, NEW r \in Regens, Regen(r) PROVE OnlyGoodSource'
<1> USE DEF OnlyGoodSource
<1>0. /\ files \in [Paths -> {Absent} \cup SUBSET Api] /\ Target(r) \in Paths
      /\ RunGood(r) /\ OnlyGoodSource
  BY TargetType DEF TypeOK, GoodInv
<1>1. CASE Truncate(r)
  BY <1>0, <1>1 DEF Truncate
<1>2. CASE Fill(r)
  <2> DEFINE p == Target(r)
  <2>1. CASE files[p] = Absent
    BY <1>0, <1>2, <2>1 DEF Fill, WriteFile
  <2>2. CASE files[p] # Absent
    <3>1. PICK kept \in {{}, files[p]} : files' = [files EXCEPT ![p] = kept \cup {run[r].api}]
      BY <1>2, <2>2 DEF Fill, WriteFile
    <3>2. \A d \in Present(run[r].api.view) : run[r].api.view[d].quality = "good"
      BY <1>0, <1>2 DEF Fill, WriteFile, RunGood, Quality
    <3>3. \A a \in kept \cup {run[r].api} :
            \A d \in Present(a.view) : a.view[d].quality = "good"
      BY <1>0, <2>2, <3>2
    <3>4. QED
      BY <1>0, <3>1, <3>3
  <2>3. QED
    BY <2>1, <2>2
<1>3. CASE UNCHANGED files
  BY <1>0, <1>3
<1>4. Truncate(r) \/ Fill(r) \/ UNCHANGED files
  BY DEF Regen, BeginLoad, LoadReturns, AnalyzeReturns, Render, LoadPackage, DiscoverPackage,
         Reconcile, AssignDirs
<1>5. QED
  BY <1>1, <1>2, <1>3, <1>4

LEMMA InitGood == Init => GoodInv
<1> SUFFICES ASSUME Init PROVE GoodInv
  OBVIOUS
<1>1. OnlyGoodSource
  BY DEF Init, OnlyGoodSource
<1>2. \A r \in Regens : run[r] \in {NoRun, Started}
  BY DEF Init
<1>3. QED
  BY <1>1, <1>2, NoRunGood DEF GoodInv

LEMMA NextGood == TypeOK /\ GoodInv /\ [Next]_vars => GoodInv'
<1> SUFFICES ASSUME TypeOK, GoodInv, [Next]_vars PROVE GoodInv'
  OBVIOUS
<1>0. /\ run \in [Regens -> Run] /\ files \in [Paths -> {Absent} \cup SUBSET Api]
      /\ FirstRun \in Regens /\ Fires \subseteq Regens
  BY DEF TypeOK, Regens
<1>1. ASSUME NEW r \in Regens, Regen(r) PROVE GoodInv'
  BY <1>1, RegenGood, FilesGood DEF GoodInv
<1>2. ASSUME NEW r \in Regens, WriteFails(r) PROVE GoodInv'
  BY <1>2, FailGood DEF WriteFails, GoodInv, OnlyGoodSource
<1>3. CASE Arm
  <2>1. UNCHANGED files
    BY <1>3 DEF Arm
  <2>2. CASE Terminate
    BY <2>1, <2>2, TerminateGood DEF GoodInv, OnlyGoodSource
  <2>3. CASE ~Terminate
    <3>1. run' = [run EXCEPT ![FirstRun] = NoRun]
      BY <1>3, <2>3 DEF Arm
    <3>2. RunGood(FirstRun)'
      BY <1>0, <3>1 DEF RunGood, NoRun
    <3>3. QED
      BY <1>0, <2>1, <3>1, <3>2, OthersGood DEF GoodInv, OnlyGoodSource
  <2>4. QED
    BY <2>2, <2>3
<1>4. CASE Interrupt
  BY <1>4, TerminateGood DEF Interrupt, GoodInv, OnlyGoodSource
<1>5. ASSUME NEW r \in Regens, run' = [run EXCEPT ![r] = Started], UNCHANGED files PROVE GoodInv'
  <2>1. RunGood(r)'
    BY <1>0, <1>5 DEF RunGood, Started, NoRun
  <2>2. QED
    BY <1>0, <1>5, <2>1, OthersGood DEF GoodInv, OnlyGoodSource
<1>6. CASE Restart \/ \E r \in Fires : TimerFires(r)
  BY <1>0, <1>5, <1>6 DEF Restart, TimerFires
<1>7. ASSUME UNCHANGED run,
             UNCHANGED files \/ \E d \in Dirs : files' = [files EXCEPT ![d] = Absent]
      PROVE  GoodInv'
  <2>1. OnlyGoodSource'
    BY <1>0, <1>7 DEF GoodInv, OnlyGoodSource
  <2>2. QED
    BY <1>7, <2>1 DEF GoodInv, RunGood, Quality
<1>8. CASE HandleEvent \/ Overflow \/ User \/ UNCHANGED vars
  BY <1>7, <1>8 DEF HandleEvent, Overflow, User, EditMod, EditSource, EditTest, RemovePackage,
                    CreatePackage, vars
<1>9. QED
  BY <1>1, <1>2, <1>3, <1>4, <1>6, <1>8 DEF Next

\* Nothing goduct writes derives from source that does not compile, that the analyzer or a
\* generator rejects: generateOnce's error returns all precede its first write.  It holds
\* under every environment, overlapping regenerations included.
THEOREM GoodSource == Spec => []OnlyGoodSource
<1>1. Init => TypeOK /\ GoodInv
  BY InitType, InitGood
<1>2. (TypeOK /\ GoodInv) /\ [Next]_vars => (TypeOK /\ GoodInv)'
  BY NextType, NextGood
<1>3. TypeOK /\ GoodInv => OnlyGoodSource
  BY DEF GoodInv
<1>4. QED
  BY <1>1, <1>2, <1>3, PTL DEF Spec

(***************************************************************************)
(* Who runs when.  The first run and the timer's never meet, whatever      *)
(* overlaps among the latter; and the analyzer's package variable is set   *)
(* by an analysis only, each of which clears it however it ends.           *)
(***************************************************************************)
RunsInv ==
  /\ proc \in {"exited", "arm"} => \A r \in Regens : run[r].pc = "idle"
  /\ run[FirstRun].pc # "idle" => proc = "first"
  /\ \A r \in Fires : run[r].pc # "idle" => proc = "watch"
  /\ timer => proc = "watch"
  /\ AdaptersScoped

LEMMA TerminateRuns ==
  ASSUME Terminate PROVE RunsInv'
<1>1. \A r \in Regens : run'[r].pc = "idle"
  BY DEF Terminate, NoRun
<1>2. currentAdapters' = FALSE /\ timer' = FALSE /\ FirstRun \in Regens /\ Fires \subseteq Regens
  BY DEF Terminate, Regens
<1>3. QED
  BY <1>1, <1>2 DEF RunsInv, AdaptersScoped

\* A step of one run that is under way.
LEMMA StepRuns ==
  ASSUME TypeOK, RunsInv, NEW r \in Regens, run[r].pc # "idle",
         \A s \in Regens \ {r} : run'[s] = run[s],
         \/ UNCHANGED <<proc, timer>>
         \/ r = FirstRun /\ proc' = "arm" /\ run'[r].pc = "idle" /\ UNCHANGED timer,
         \/ run'[r].pc = "discover" \/ ~currentAdapters'
         \/ UNCHANGED currentAdapters /\ run[r].pc # "discover"
  PROVE  RunsInv'
<1>1. Regens = Fires \cup {FirstRun} /\ FirstRun \notin Fires
  BY ConstAssumption DEF Regens
<1>2. AdaptersScoped'
  BY DEF RunsInv, AdaptersScoped
<1>3. proc \notin {"exited", "arm"}
  BY DEF RunsInv
<1>4. CASE UNCHANGED <<proc, timer>>
  BY <1>1, <1>2, <1>3, <1>4 DEF RunsInv
<1>5. CASE r = FirstRun /\ proc' = "arm" /\ run'[r].pc = "idle" /\ UNCHANGED timer
  <2>1. proc = "first" /\ ~timer
    BY <1>5 DEF RunsInv
  <2>2. \A s \in Fires : run'[s].pc = "idle"
    BY <1>1, <1>5, <2>1 DEF RunsInv
  <2>3. QED
    BY <1>1, <1>2, <1>5, <2>1, <2>2 DEF RunsInv
<1>6. QED
  BY <1>4, <1>5

LEMMA FailRuns ==
  ASSUME TypeOK, RunsInv, NEW r \in Regens, run[r].pc # "idle", Fail(r)
  PROVE  RunsInv'
<1>1. CASE r = FirstRun
  BY <1>1, TerminateRuns DEF Fail
<1>2. CASE r # FirstRun
  <2>1. run'[r] = NoRun /\ \A s \in Regens \ {r} : run'[s] = run[s]
    BY <1>2 DEF Fail, TypeOK
  <2>2. \/ ~currentAdapters'
        \/ UNCHANGED currentAdapters /\ run[r].pc # "discover"
    BY <1>2 DEF Fail, ClearAdapters
  <2>3. UNCHANGED <<proc, timer>>
    BY <1>2 DEF Fail, loop
  <2>4. QED
    BY <2>1, <2>2, <2>3, StepRuns
<1>3. QED
  BY <1>1, <1>2

LEMMA RegenRuns ==
  ASSUME TypeOK, RunsInv, NEW r \in Regens, Regen(r) PROVE RunsInv'
<1>0. run \in [Regens -> Run] /\ run[r] \in Run /\ run[r].pc # "idle"
  BY DEF TypeOK, Regen, BeginLoad, LoadReturns, AnalyzeReturns, Render,
        LoadPackage, DiscoverPackage, Truncate, Fill, WriteFile, Reconcile, AssignDirs
<1>1. CASE Fail(r) \/ Terminate
  BY <1>0, <1>1, FailRuns, TerminateRuns
<1>2. CASE ~(Fail(r) \/ Terminate)
  <2>0. \A s \in Regens \ {r} : run'[s] = run[s]
    BY <1>0, <1>2 DEF Regen, BeginLoad, LoadReturns, AnalyzeReturns, Render, LoadPackage,
                DiscoverPackage, Truncate, Fill, WriteFile, Reconcile, AssignDirs
  <2>1. CASE BeginLoad(r) \/ Render(r) \/ \E d \in Dirs : LoadPackage(r, d)
    <3>1. UNCHANGED <<proc, timer, currentAdapters>> /\ run[r].pc # "discover"
      BY <1>2, <2>1 DEF BeginLoad, Render, LoadPackage, loop
    <3>2. QED
      BY <1>0, <2>0, <3>1, StepRuns
  <2>2. CASE LoadReturns(r)
    <3>1. run'[r].pc = "discover" /\ UNCHANGED <<proc, timer>>
      BY <1>0, <1>2, <2>2 DEF LoadReturns, Run, loop
    <3>2. QED
      BY <1>0, <2>0, <3>1, StepRuns
  <2>a. ASSUME NEW d \in Dirs, DiscoverPackage(r, d) PROVE RunsInv'
    <3>1. run'[r].pc = "discover" /\ UNCHANGED <<proc, timer>>
      BY <1>0, <2>a DEF DiscoverPackage, Run, loop
    <3>2. QED
      BY <1>0, <2>0, <3>1, StepRuns
  <2>3. CASE AnalyzeReturns(r)
    <3>1. ~currentAdapters' /\ UNCHANGED <<proc, timer>>
      BY <1>2, <2>3 DEF AnalyzeReturns, ClearAdapters, loop
    <3>2. QED
      BY <1>0, <2>0, <3>1, StepRuns
  <2>4. CASE Truncate(r) \/ Reconcile(r) \/ AssignDirs(r)
    <3>1. UNCHANGED <<proc, timer, currentAdapters>> /\ run[r].pc # "discover"
      BY <1>2, <2>4 DEF Truncate, Reconcile, AssignDirs
    <3>2. QED
      BY <1>0, <2>0, <3>1, StepRuns
  <2>5. CASE Fill(r)
    <3>1. /\ UNCHANGED <<timer, currentAdapters>> /\ run[r].pc = "fill"
          /\ \/ UNCHANGED proc
             \/ r = FirstRun /\ proc' = "arm" /\ run'[r].pc = "idle"
      BY <1>0, <2>5 DEF Fill, WriteFile, Run
    <3>2. QED
      BY <1>0, <2>0, <3>1, StepRuns
  <2>6. QED
    BY <2>1, <2>2, <2>a, <2>3, <2>4, <2>5 DEF Regen
<1>3. QED
  BY <1>1, <1>2

LEMMA InitRuns == Init => RunsInv
<1> SUFFICES ASSUME Init PROVE RunsInv
  OBVIOUS
<1>1. FirstRun \in Regens /\ Fires \subseteq Regens /\ FirstRun \notin Fires
  BY ConstAssumption DEF Regens
<1>2. \A r \in Fires : run[r].pc = "idle"
  BY <1>1 DEF Init, NoRun
<1>3. QED
  BY <1>1, <1>2 DEF Init, RunsInv, AdaptersScoped

LEMMA NextRuns ==
  ASSUME TypeOK, RunsInv, [Next]_vars PROVE RunsInv'
<1>0. /\ run \in [Regens -> Run] /\ Regens = Fires \cup {FirstRun} /\ FirstRun \notin Fires
  BY ConstAssumption DEF TypeOK, Regens
<1>1. ASSUME NEW r \in Regens, Regen(r) PROVE RunsInv'
  BY <1>1, RegenRuns
<1>2. ASSUME NEW r \in Regens, WriteFails(r) PROVE RunsInv'
  BY <1>2, FailRuns DEF WriteFails
<1>3. CASE Arm
  <2>1. CASE Terminate
    BY <2>1, TerminateRuns
  <2>2. CASE ~Terminate
    <3>1. /\ run' = [run EXCEPT ![FirstRun] = NoRun] /\ proc' = "watch" /\ proc = "arm"
          /\ UNCHANGED <<currentAdapters, timer>>
      BY <1>3, <2>2 DEF Arm
    <3>2. \A r \in Regens : run'[r].pc = "idle" /\ run[r].pc = "idle"
      BY <1>0, <3>1 DEF RunsInv, NoRun
    <3>3. QED
      BY <1>0, <3>1, <3>2 DEF RunsInv, AdaptersScoped
  <2>3. QED
    BY <2>1, <2>2
<1>4. CASE Interrupt
  BY <1>4, TerminateRuns DEF Interrupt
<1>5. ASSUME NEW r \in Regens, run[r].pc = "idle", run' = [run EXCEPT ![r] = Started],
             UNCHANGED currentAdapters, timer' => timer
      PROVE  /\ \A s \in Regens \ {r} : run'[s] = run[s]
             /\ AdaptersScoped'
  BY <1>0, <1>5 DEF RunsInv, AdaptersScoped, Started, NoRun
<1>6. CASE Restart
  <2>1. (\A s \in Regens : run[s].pc = "idle") /\ ~timer'
    BY <1>6 DEF Restart, RunsInv, TypeOK
  <2>2. QED
    BY <1>0, <1>5, <1>6, <2>1 DEF Restart, RunsInv
<1>7. ASSUME NEW r \in Fires, TimerFires(r) PROVE RunsInv'
  <2>1. proc = "watch" /\ proc' = "watch"
    BY <1>7 DEF TimerFires, RunsInv
  <2>2. run'[FirstRun] = run[FirstRun]
    BY <1>0, <1>7 DEF TimerFires
  <2>3. QED
    BY <1>0, <1>5, <1>7, <2>1, <2>2 DEF TimerFires, RunsInv
<1>8. CASE HandleEvent
  BY <1>8 DEF HandleEvent, RunsInv, AdaptersScoped
<1>9. CASE Overflow \/ User \/ UNCHANGED vars
  <2>1. UNCHANGED <<run, proc, timer, currentAdapters>>
    BY <1>9 DEF Overflow, User, EditMod, EditSource, EditTest, RemovePackage, CreatePackage,
                vars, loop
  <2>2. QED
    BY <2>1 DEF RunsInv, AdaptersScoped
<1>10. QED
  BY <1>1, <1>2, <1>3, <1>4, <1>6, <1>7, <1>8, <1>9 DEF Next

\* However regenerations overlap, fail, panic or are interrupted: the --adapter map is set
\* only while some analysis is under way (analyze.go's deferred reset).
THEOREM MapScoped == Spec => []AdaptersScoped
<1>1. Init => TypeOK /\ RunsInv
  BY InitType, InitRuns
<1>2. (TypeOK /\ RunsInv) /\ [Next]_vars => (TypeOK /\ RunsInv)'
  BY NextType, NextRuns
<1>3. RunsInv => AdaptersScoped
  BY DEF RunsInv
<1>4. QED
  BY <1>1, <1>2, <1>3, PTL DEF Spec

-----------------------------------------------------------------------------
(***************************************************************************)
(* What holds in every execution in which no two regenerations overlap,    *)
(* a condition on the execution and not on the constants (NoOverlap).      *)
(***************************************************************************)

\* What the variables hold.
LEMMA VarTypes ==
  ASSUME TypeOK
  PROVE  /\ edits \in Nat
         /\ \A r \in Regens : run[r] \in Run /\ run[r].api \in Api
  BY ConstAssumption DEF TypeOK, Run

-----------------------------------------------------------------------------
(***************************************************************************)
(* The subscriptions.  reconcileWatches changes them one step before       *)
(* currentDirs follows, so in between they are those of the run's view.    *)
(* Known matters for CreatePackage: a directory that was never seen is     *)
(* neither among currentDirs nor in any view.                              *)
(***************************************************************************)
Known(d) == src[d].present \/ src[d].ver # 0

SubInv ==
  /\ \A d \in currentDirs : Known(d)
  /\ \A r \in Regens : \A d \in Present(run[r].api.view) : Known(d)
  /\ \A r \in Regens : run[r].pc # "idle" /\ r # FirstRun => proc = "watch"
  /\ run[FirstRun].pc \notin {"reconcile", "assign"}
  /\ \A r \in Regens :
       run[r].pc = "assign" => Present(run[r].api.view) \cap Present(src) = watched
  /\ proc = "watch" /\ (\A r \in Regens : run[r].pc # "assign") =>
       currentDirs \cap Present(src) = watched

\* Initially.
LEMMA InitSub ==
  ASSUME Init
  PROVE  SubInv
  <1>1. \A r \in Regens : run[r] \in {NoRun, Started}
    BY DEF Init
  <1>2. \A r \in Regens : Present(run[r].api.view) = {} /\ run[r].pc \in {"idle", "start"}
    <2>1. \A x \in {NoRun, Started} :
            x.pc \in {"idle", "start"} /\ \A d \in Dirs : ~x.api.view[d].present
      <3>1. NoRun.pc = "idle" /\ \A d \in Dirs : ~NoRun.api.view[d].present
        BY DEF NoRun, NoSource
      <3>2. Started.pc = "start" /\ Started.api = NoRun.api
        BY DEF Started, NoRun
      <3> QED  BY <3>1, <3>2
    <2> QED  BY <1>1, <2>1 DEF Present
  <1>3. \A r \in Regens : r # FirstRun => run[r].pc = "idle"
    BY DEF Init, NoRun
  <1>4. FirstRun \in Regens /\ currentDirs = {} /\ proc = "first"
    BY DEF Init, Regens
  <1> QED  BY <1>2, <1>3, <1>4 DEF SubInv

\* The end of the process.
LEMMA TerminateSub ==
  ASSUME Terminate
  PROVE  SubInv'
  <1>1. \A r \in Regens : run'[r].pc = "idle" /\ Present(run'[r].api.view) = {}
    BY DEF Terminate, NoRun, NoSource, Present
  <1>2. currentDirs' = {} /\ proc' = "exited" /\ FirstRun \in Regens
    BY DEF Terminate, Regens
  <1> QED  BY <1>1, <1>2 DEF SubInv

\* A step that leaves the subscriptions and the directories alone, in which one run moves
\* on, fails, or starts, and no run enters or leaves the gap in reconcileWatches.
LEMMA StepSub ==
  ASSUME SubInv, NEW r \in Regens,
         UNCHANGED <<src, watched, currentDirs, proc>>,
         \A s \in Regens \ {r} : run'[s] = run[s],
         \A d \in Present(run'[r].api.view) : Known(d),
         run'[r].pc # "idle" => run[r].pc # "idle" \/ r = FirstRun \/ proc = "watch",
         run'[r].pc = "reconcile" => r # FirstRun,
         run[r].pc # "assign", run'[r].pc # "assign"
  PROVE  SubInv'
  <1>1. \A d : Known(d)' = Known(d)
    BY DEF Known
  <1>2. FirstRun \in Regens /\ \A s \in Regens \ {r} : s # r
    BY DEF Regens
  <1>3. \A s \in Regens : \A d \in Present(run'[s].api.view) : Known(d)'
    BY <1>1 DEF SubInv
  <1>4. \A s \in Regens : run'[s].pc # "idle" /\ s # FirstRun => proc' = "watch"
    BY DEF SubInv
  <1>5. run'[FirstRun].pc \notin {"reconcile", "assign"}
    BY <1>2 DEF SubInv
  <1>6. \A s \in Regens : run'[s].pc = "assign" => run[s].pc = "assign" /\ run'[s] = run[s]
    OBVIOUS
  <1>7. \A s \in Regens : run[s].pc = "assign" => run'[s].pc = "assign"
    OBVIOUS
  <1>8. \A s \in Regens :
          run'[s].pc = "assign" => Present(run'[s].api.view) \cap Present(src') = watched'
    BY <1>6 DEF SubInv
  <1>9. proc' = "watch" /\ (\A s \in Regens : run'[s].pc # "assign") =>
          currentDirs' \cap Present(src') = watched'
    BY <1>7 DEF SubInv
  <1> QED  BY <1>1, <1>3, <1>4, <1>5, <1>8, <1>9 DEF SubInv

\* A run that fails.
LEMMA FailSub ==
  ASSUME TypeOK, SubInv, NEW r \in Regens, Fail(r) \/ Terminate, UNCHANGED user,
         run[r].pc # "assign"
  PROVE  SubInv'
  <1>1. CASE Terminate \/ r = FirstRun
    BY <1>1, TerminateSub DEF Fail
  <1>2. CASE ~Terminate /\ r # FirstRun
    <2>1. run' = [run EXCEPT ![r] = NoRun] /\ UNCHANGED <<src, watched, currentDirs, proc>>
      BY <1>2 DEF Fail, loop, user
    <2>2. /\ run'[r].pc = "idle" /\ Present(run'[r].api.view) = {}
          /\ \A s \in Regens \ {r} : run'[s] = run[s]
      BY <2>1 DEF NoRun, NoSource, Present, TypeOK
    <2> QED  BY <2>1, <2>2, StepSub
  <1> QED  BY <1>1, <1>2

\* Every step of a run.
LEMMA RegenSub ==
  ASSUME TypeOK, RunsInv, NoOverlap, SubInv, NEW r \in Regens, Regen(r)
  PROVE  SubInv'
  <1>0. /\ run[r] \in Run /\ run[r].api.view \in [Dirs -> Source] /\ src \in [Dirs -> Source]
        /\ \A d \in Present(run[r].api.view) : Known(d)
    BY VarTypes DEF Api, SubInv, TypeOK
  <1>1. ASSUME UNCHANGED user, Fail(r) \/ Terminate, run[r].pc # "assign"
        PROVE  SubInv'
    BY <1>1, FailSub
  \* The run goes on, with what it has seen or with more of the source.
  <1>2. ASSUME NEW next \in Phases \ {"idle", "assign"},
               run[r].pc \notin {"idle", "assign"}, run'[r].pc = next,
               next = "reconcile" => r # FirstRun,
               \A s \in Regens \ {r} : run'[s] = run[s],
               \A d \in Present(run'[r].api.view) : Known(d),
               UNCHANGED <<src, watched, currentDirs, proc>>
        PROVE  SubInv'
    BY <1>2, StepSub
  <1>3. CASE BeginLoad(r)
    <2>1. run[r].pc = "start" /\ UNCHANGED user
      BY <1>3 DEF BeginLoad
    <2>2. CASE ~Fail(r)
      <3>1. /\ run' = [run EXCEPT ![r].pc = "load",
                                  ![r].api = [view |-> src, mod |-> mod, adapted |-> TRUE],
                                  ![r].todo = Present(src)]
            /\ UNCHANGED loop
        BY <1>3, <2>2 DEF BeginLoad
      <3>2. /\ run'[r].pc = "load" /\ run'[r].api.view = src
            /\ \A s \in Regens \ {r} : run'[s] = run[s]
        BY <1>0, <3>1 DEF TypeOK, Run
      <3>3. \A d \in Present(src) : Known(d)
        BY DEF Present, Known
      <3> QED  BY <1>2, <2>1, <3>1, <3>2, <3>3 DEF loop, user, Phases
    <2> QED  BY <1>1, <2>1, <2>2
  <1>4. ASSUME NEW d \in Dirs, LoadPackage(r, d) PROVE SubInv'
    <2>1. /\ run[r].pc = "load" /\ run'[r].pc = "load"
          /\ run'[r].api.view = [run[r].api.view EXCEPT ![d] = src[d]]
          /\ \A s \in Regens \ {r} : run'[s] = run[s]
      BY <1>0, <1>4 DEF LoadPackage, TypeOK, Run, Api
    <2>2. \A e \in Present(run'[r].api.view) : Known(e)
      BY <1>0, <2>1 DEF Present, Known
    <2>3. UNCHANGED <<src, watched, currentDirs, proc>>
      BY <1>4 DEF LoadPackage, loop, user
    <2> QED  BY <1>2, <2>1, <2>2, <2>3 DEF Phases
  <1>5. ASSUME NEW d \in Dirs, DiscoverPackage(r, d) PROVE SubInv'
    <2>1. /\ run[r].pc = "discover" /\ run'[r].pc = "discover"
          /\ run'[r].api.view = run[r].api.view
          /\ \A s \in Regens \ {r} : run'[s] = run[s]
      BY <1>0, <1>5 DEF DiscoverPackage, TypeOK, Run, Api
    <2>2. UNCHANGED <<src, watched, currentDirs, proc>>
      BY <1>5 DEF DiscoverPackage, loop, user
    <2> QED  BY <1>0, <1>2, <2>1, <2>2 DEF Phases
  <1>6. CASE LoadReturns(r) \/ AnalyzeReturns(r)
    <2>1. run[r].pc \in {"load", "discover"} /\ UNCHANGED user
      BY <1>6 DEF LoadReturns, AnalyzeReturns
    <2>2. CASE ~Fail(r)
      <3>1. /\ run'[r].pc \in {"discover", "render"} /\ run'[r].api = run[r].api
            /\ \A s \in Regens \ {r} : run'[s] = run[s]
        BY <1>0, <1>6, <2>2 DEF LoadReturns, AnalyzeReturns, TypeOK, Run
      <3>2. UNCHANGED loop
        BY <1>6, <2>2 DEF LoadReturns, AnalyzeReturns
      <3> QED  BY <1>0, <1>2, <2>1, <3>1, <3>2 DEF loop, user, Phases
    <2> QED  BY <1>1, <2>1, <2>2
  <1>7. CASE Render(r)
    <2>1. run[r].pc = "render" /\ UNCHANGED user
      BY <1>7 DEF Render
    <2>2. CASE ~(Fail(r) \/ Terminate)
      <3>1. \E d \in Dirs : run' = [run EXCEPT ![r].pc = "truncate", ![r].out = 1, ![r].dst = d]
        BY <1>7, <2>2 DEF Render, Present
      <3>2. /\ run'[r].pc = "truncate" /\ run'[r].api = run[r].api
            /\ \A s \in Regens \ {r} : run'[s] = run[s]
        BY <1>0, <3>1 DEF TypeOK, Run
      <3>3. UNCHANGED loop
        BY <1>7, <2>2 DEF Render
      <3> QED  BY <1>0, <1>2, <2>1, <3>2, <3>3 DEF loop, user, Phases
    <2> QED  BY <1>1, <2>1, <2>2
  <1>8. CASE Truncate(r)
    <2>1. run[r].pc = "truncate" /\ UNCHANGED user
      BY <1>8 DEF Truncate
    <2>2. CASE ~Fail(r)
      <3>1. run' = [run EXCEPT ![r].pc = "fill"] /\ UNCHANGED <<proc, currentDirs, watched>>
        BY <1>8, <2>2 DEF Truncate
      <3>2. /\ run'[r].pc = "fill" /\ run'[r].api = run[r].api
            /\ \A s \in Regens \ {r} : run'[s] = run[s]
        BY <1>0, <3>1 DEF TypeOK, Run
      <3> QED  BY <1>0, <1>2, <2>1, <3>1, <3>2 DEF user, Phases
    <2> QED  BY <1>1, <2>1, <2>2
  <1>9. CASE Fill(r)
    <2>1. /\ run[r].pc = "fill" /\ UNCHANGED <<src, watched, currentDirs>>
          /\ run'[r].api = run[r].api /\ \A s \in Regens \ {r} : run'[s] = run[s]
      BY <1>0, <1>9 DEF Fill, WriteFile, TypeOK, Run, user
    <2>2. \/ run'[r].pc = "truncate" /\ UNCHANGED proc
          \/ run'[r].pc = "reconcile" /\ r # FirstRun /\ UNCHANGED proc
          \/ run'[r].pc = "idle" /\ r = FirstRun /\ proc' = "arm"
      BY <1>0, <1>9 DEF Fill, WriteFile, TypeOK, Run
    <2>3. CASE run'[r].pc # "idle"
      BY <1>0, <1>2, <2>1, <2>2, <2>3 DEF Phases
    <2>4. CASE run'[r].pc = "idle" /\ proc' = "arm"
      <3>1. \A s \in Regens : run'[s].pc = "idle"
        BY <2>1, <2>4 DEF NoOverlap
      <3>2. \A d : Known(d)' = Known(d)
        BY <2>1 DEF Known
      <3>3. \A s \in Regens : \A d \in Present(run'[s].api.view) : Known(d)'
        BY <2>1, <3>2 DEF SubInv
      <3>4. FirstRun \in Regens /\ \A d \in currentDirs' : Known(d)'
        BY <2>1, <3>2 DEF SubInv, Regens
      <3> QED  BY <2>4, <3>1, <3>3, <3>4 DEF SubInv
    <2> QED  BY <2>2, <2>3, <2>4
  \* Only r is under way, and it is one of the timer's.
  <1>10. CASE Reconcile(r)
    <2>1. /\ run[r].pc = "reconcile" /\ run'[r].pc = "assign" /\ run'[r].api = run[r].api
          /\ \A s \in Regens \ {r} : run'[s] = run[s]
          /\ watched' = Reconciled(Present(run[r].api.view))
          /\ UNCHANGED <<src, currentDirs, proc>>
      BY <1>0, <1>10 DEF Reconcile, TypeOK, Run, user
    <2>2. \A s \in Regens \ {r} : run[s].pc = "idle" /\ run'[s].pc = "idle"
      BY <2>1 DEF NoOverlap
    <2>3. r # FirstRun /\ proc = "watch" /\ currentDirs \cap Present(src) = watched
      BY <2>1, <2>2 DEF SubInv
    <2>4. watched' = Present(run[r].api.view) \cap Present(src)
      BY <2>1, <2>3 DEF Reconciled
    <2>5. \A d : Known(d)' = Known(d)
      BY <2>1 DEF Known
    <2>6. \A s \in Regens : \A d \in Present(run'[s].api.view) : Known(d)'
      BY <2>1, <2>5 DEF SubInv
    <2>7. FirstRun \in Regens /\ \A d \in currentDirs' : Known(d)'
      BY <2>1, <2>5 DEF SubInv, Regens
    <2> QED  BY <2>1, <2>2, <2>3, <2>4, <2>6, <2>7 DEF SubInv
  <1>11. CASE AssignDirs(r)
    <2>1. /\ run[r].pc = "assign" /\ run'[r] = NoRun
          /\ \A s \in Regens \ {r} : run'[s] = run[s]
          /\ currentDirs' = Present(run[r].api.view)
          /\ UNCHANGED <<src, watched, proc>>
      BY <1>0, <1>11 DEF AssignDirs, TypeOK, user
    <2>2. run'[r].pc = "idle" /\ Present(run'[r].api.view) = {}
      BY <2>1 DEF NoRun, NoSource, Present
    <2>3. \A s \in Regens : run'[s].pc = "idle"
      BY <2>1, <2>2 DEF NoOverlap
    <2>4. currentDirs' \cap Present(src) = watched
      BY <2>1 DEF SubInv
    <2>5. \A d : Known(d)' = Known(d)
      BY <2>1 DEF Known
    <2>6. \A s \in Regens : \A d \in Present(run'[s].api.view) : Known(d)'
      BY <2>1, <2>2, <2>5 DEF SubInv
    <2>7. FirstRun \in Regens /\ \A d \in currentDirs' : Known(d)'
      BY <2>1, <2>5 DEF SubInv, Regens
    <2> QED  BY <2>1, <2>3, <2>4, <2>6, <2>7 DEF SubInv
  <1> QED
    BY <1>3, <1>4, <1>5, <1>6, <1>7, <1>8, <1>9, <1>10, <1>11 DEF Regen

\* Directories that stay, one that goes with its subscription, or one never seen before.
LEMMA DirsSub ==
  ASSUME TypeOK, SubInv, UNCHANGED <<run, proc, currentDirs>>,
         \A d \in Dirs : Known(d) => Known(d)',
         \/ Present(src') = Present(src) /\ watched' = watched
         \/ \E d : Present(src') = Present(src) \ {d} /\ watched' = watched \ {d}
         \/ \E d : Present(src') = Present(src) \cup {d} /\ ~Known(d) /\ watched' = watched
  PROVE  SubInv'
  <1>1. ASSUME NEW S, \A d \in S : Known(d), S \cap Present(src) = watched
        PROVE  S \cap Present(src') = watched'
    BY <1>1
  <1>2. \A r \in Regens : \A d \in Present(run[r].api.view) : Known(d)
    BY DEF SubInv
  <1>3. \A r \in Regens :
          run[r].pc = "assign" => Present(run[r].api.view) \cap Present(src') = watched'
    BY <1>1, <1>2 DEF SubInv
  <1>4. proc = "watch" /\ (\A r \in Regens : run[r].pc # "assign") =>
          currentDirs \cap Present(src') = watched'
    BY <1>1 DEF SubInv
  <1>5. /\ \A d \in currentDirs' : Known(d)'
        /\ \A r \in Regens : \A d \in Present(run'[r].api.view) : Known(d)'
    BY <1>2 DEF SubInv, TypeOK, Present
  <1> QED  BY <1>3, <1>4, <1>5 DEF SubInv

\* Every step of the user, who brings no directory back.
LEMMA UserSub ==
  ASSUME TypeOK, SubInv, "dirBack" \notin Env, User
  PROVE  SubInv'
  <1>0. UNCHANGED <<run, proc, currentDirs>> /\ src \in [Dirs -> Source] /\ edits \in Nat
    BY VarTypes
       DEF User, EditMod, EditSource, EditTest, RemovePackage, CreatePackage, loop, TypeOK
  <1>1. CASE EditMod \/ \E d \in Dirs : EditTest(d)
    <2>1. UNCHANGED <<src, watched>>
      BY <1>1 DEF EditMod, EditTest
    <2> QED  BY <1>0, <2>1, DirsSub DEF Known
  <1>2. ASSUME NEW d \in Dirs, EditSource(d) PROVE SubInv'
    <2>1. /\ src[d].present /\ src'[d].present
          /\ \A e \in Dirs \ {d} : src'[e] = src[e]
          /\ watched' = watched
      <3>1. \E x : x.present /\ src' = [src EXCEPT ![d] = x]
        <4>1. PICK q, s : src' = [src EXCEPT ![d] = [present |-> TRUE, ver |-> edits + 1,
                                                     quality |-> q, shape |-> s]]
          BY <1>2 DEF EditSource
        <4>2. [present |-> TRUE, ver |-> edits + 1, quality |-> q, shape |-> s].present
          OBVIOUS
        <4> QED  BY <4>1, <4>2
      <3> QED  BY <1>0, <1>2, <3>1 DEF EditSource
    <2>2. Present(src') = Present(src)
      BY <2>1 DEF Present
    <2>3. \A e \in Dirs : Known(e) => Known(e)'
      BY <2>1 DEF Known
    <2> QED  BY <1>0, <2>1, <2>2, <2>3, DirsSub
  <1>3. ASSUME NEW d \in Dirs, RemovePackage(d) PROVE SubInv'
    <2>1. /\ ~src'[d].present /\ src'[d].ver # 0
          /\ \A e \in Dirs \ {d} : src'[e] = src[e]
          /\ watched' = watched \ {d}
      BY <1>0, <1>3 DEF RemovePackage, Source
    <2>2. Present(src') = Present(src) \ {d}
      BY <2>1 DEF Present
    <2>3. \A e \in Dirs : Known(e) => Known(e)'
      BY <2>1 DEF Known
    <2> QED  BY <1>0, <2>1, <2>2, <2>3, DirsSub
  <1>4. ASSUME NEW d \in Dirs, CreatePackage(d) PROVE SubInv'
    <2>1. /\ ~src[d].present /\ src'[d].present
          /\ \A e \in Dirs \ {d} : src'[e] = src[e]
          /\ watched' = watched
      BY <1>0, <1>4 DEF CreatePackage, Source, loop
    <2>2. src[d].ver = 0
      BY <1>4 DEF CreatePackage
    <2>3. Present(src') = Present(src) \cup {d} /\ ~Known(d)
      BY <2>1, <2>2 DEF Present, Known
    <2>4. \A e \in Dirs : Known(e) => Known(e)'
      BY <2>1 DEF Known
    <2> QED  BY <1>0, <2>1, <2>3, <2>4, DirsSub
  <1> QED  BY <1>1, <1>2, <1>3, <1>4 DEF User

\* Every step.
LEMMA NextSub ==
  ASSUME TypeOK, RunsInv, NoOverlap, SubInv, "dirBack" \notin Env, [Next]_vars
  PROVE  SubInv'
  <1>0. /\ FirstRun \in Regens /\ Fires \subseteq Regens /\ run \in [Regens -> Run]
        /\ \A r \in Fires : r # FirstRun
    BY ConstAssumption DEF Regens, TypeOK
  <1>1. ASSUME NEW r \in Regens, WriteFails(r) PROVE SubInv'
    BY <1>1, FailSub DEF WriteFails
  <1>2. CASE Arm
    <2>1. CASE Terminate
      BY <2>1, TerminateSub
    <2>2. CASE ~Terminate
      <3> DEFINE dirs == Present(run[FirstRun].api.view)
      <3>1. /\ proc = "arm" /\ dirs \subseteq Present(src)
            /\ currentDirs' = dirs /\ watched' = dirs /\ UNCHANGED src
            /\ run' = [run EXCEPT ![FirstRun] = NoRun]
        BY <1>2, <2>2 DEF Arm, user
      <3>2. \A r \in Regens : run'[r].pc = "idle"
        BY <1>0, <3>1 DEF RunsInv, NoRun
      <3>3. \A d : Known(d)' = Known(d)
        BY <3>1 DEF Known
      <3>4. \A r \in Regens : \A d \in Present(run'[r].api.view) : Known(d)'
        <4>1. Present(run'[FirstRun].api.view) = {}
          BY <1>0, <3>1 DEF NoRun, NoSource, Present
        <4>2. \A r \in Regens \ {FirstRun} : run'[r] = run[r]
          BY <1>0, <3>1
        <4> QED  BY <3>3, <4>1, <4>2 DEF SubInv
      <3>5. \A d \in currentDirs' : Known(d)'
        BY <1>0, <3>1, <3>3 DEF SubInv
      <3>6. currentDirs' \cap Present(src') = watched'
        BY <3>1
      <3> QED  BY <1>0, <3>2, <3>4, <3>5, <3>6 DEF SubInv
    <2> QED  BY <2>1, <2>2
  <1>3. CASE Interrupt
    BY <1>3, TerminateSub DEF Interrupt
  <1>4. ASSUME NEW r \in Fires, TimerFires(r) PROVE SubInv'
    <2>1. /\ run[r].pc = "idle" /\ proc = "watch" /\ UNCHANGED <<src, watched, currentDirs, proc>>
          /\ run' = [run EXCEPT ![r] = Started]
      BY <1>4 DEF TimerFires, RunsInv, user
    <2>2. /\ run'[r].pc = "start" /\ Present(run'[r].api.view) = {}
          /\ \A s \in Regens \ {r} : run'[s] = run[s]
      <3>1. Started.pc = "start" /\ Started.api = NoRun.api
        BY DEF Started, NoRun
      <3>2. Present(NoRun.api.view) = {}
        BY DEF NoRun, NoSource, Present
      <3> QED  BY <1>0, <2>1, <3>1, <3>2
    <2> QED  BY <1>0, <2>1, <2>2, StepSub
  <1>5. CASE Restart
    <2>1. /\ proc = "exited" /\ proc' = "first" /\ UNCHANGED <<src, watched, currentDirs>>
          /\ run' = [run EXCEPT ![FirstRun] = Started]
      BY <1>5 DEF Restart, user
    <2>2. /\ run'[FirstRun].pc = "start" /\ Present(run'[FirstRun].api.view) = {}
          /\ \A s \in Regens \ {FirstRun} : run'[s] = run[s] /\ run'[s].pc = "idle"
      <3>1. Started.pc = "start" /\ Started.api = NoRun.api
        BY DEF Started, NoRun
      <3>2. Present(NoRun.api.view) = {}
        BY DEF NoRun, NoSource, Present
      <3> QED  BY <1>0, <2>1, <3>1, <3>2 DEF RunsInv
    <2>3. \A d : Known(d)' = Known(d)
      BY <2>1 DEF Known
    <2>4. \A r \in Regens : \A d \in Present(run'[r].api.view) : Known(d)'
      BY <2>2, <2>3 DEF SubInv
    <2>5. \A d \in currentDirs' : Known(d)'
      BY <2>1, <2>3 DEF SubInv
    <2> QED  BY <2>1, <2>2, <2>4, <2>5 DEF SubInv
  <1>6. CASE HandleEvent \/ Overflow \/ UNCHANGED vars
    <2>1. UNCHANGED <<src, watched, currentDirs, proc, run>>
      BY <1>6 DEF HandleEvent, Overflow, vars, user, loop
    <2> QED  BY <2>1, DirsSub DEF Known
  <1> QED
    BY <1>1, <1>2, <1>3, <1>4, <1>5, <1>6, RegenSub, UserSub DEF Next

\* When no two regenerations overlap and no removed directory comes back, fsnotify is
\* subscribed, between runs, to just those directories of currentDirs that are still
\* there (watch.go's reconcileWatches).
THEOREM SubscriptionsCurrent ==
  ASSUME "dirBack" \notin Env
  PROVE  Spec /\ []NoOverlap => []WatchesCurrent
  <1>1. Init => TypeOK /\ RunsInv /\ SubInv
    BY InitType, InitRuns, InitSub
  <1>2. TypeOK /\ RunsInv /\ [Next]_vars => TypeOK' /\ RunsInv'
    BY NextType, NextRuns
  <1>3. TypeOK /\ RunsInv /\ NoOverlap /\ SubInv /\ [Next]_vars => SubInv'
    BY NextSub
  <1>4. SubInv => WatchesCurrent
    BY DEF SubInv, WatchesCurrent, Quiet, Running
  <1> QED  BY <1>1, <1>2, <1>3, <1>4, PTL DEF Spec

-----------------------------------------------------------------------------
(***************************************************************************)
(* The outputs under --out belong together.  A run writes them one after   *)
(* the other: those before the one it is at hold its API, the one it has   *)
(* truncated holds nothing, and when no run is writing all of them hold    *)
(* the same.  Only a write that fails leaves the outputs apart; the         *)
(* process that is interrupted in the middle writes all of them again      *)
(* before it watches.                                                      *)
(***************************************************************************)

Together == \A i, j \in 1..Len(Outs) : files[Outs[i]] = files[Outs[j]]

Writing(r) == run[r].pc \in {"truncate", "fill"}

\* The outputs run r has been through: only one with the name of the file it has open
\* can be empty again.
Behind(r) ==
  \A i \in 1..Len(Outs) :
    i < run[r].out => \/ files[Outs[i]] = {run[r].api}
                      \/ run[r].pc = "fill" /\ Outs[i] = Target(r)

CohInv ==
  /\ \A r \in Regens : Writing(r) => Behind(r)
  /\ \A r \in Regens : run[r].pc = "fill" /\ run[r].out <= Len(Outs) => files[Target(r)] = {}
  /\ proc \in {"arm", "watch"} /\ (\A r \in Regens : ~Writing(r)) => Together

LEMMA OutTypes ==
  ASSUME TypeOK
  PROVE  /\ Len(Outs) \in Nat /\ Writes \in Nat /\ Len(Outs) <= Writes /\ 1 <= Len(Outs)
         /\ \A i \in 1..Len(Outs) : Outs[i] \in Paths \ Dirs
         /\ \A r \in Regens : run[r].out \in 1..Writes
  <1>1. Len(Outs) \in Nat /\ 1 <= Len(Outs) /\ Writes \in Nat /\ Len(Outs) <= Writes
    BY ConstAssumption DEF Writes
  <1>2. \A i \in 1..Len(Outs) : Outs[i] \in Paths \ Dirs
    BY ConstAssumption DEF Paths
  <1> QED  BY <1>1, <1>2 DEF TypeOK, Run

\* The end of the process, or a first run that fails.
LEMMA TerminateCoh ==
  ASSUME Terminate
  PROVE  CohInv'
  BY DEF Terminate, CohInv, Writing, NoRun

\* A step that leaves the outputs alone and in which no run begins or ceases to write,
\* unless it begins with the first file.
LEMMA StepCoh ==
  ASSUME TypeOK, CohInv, NEW r \in Regens,
         \A i \in 1..Len(Outs) : files'[Outs[i]] = files[Outs[i]],
         \A s \in Regens \ {r} : run'[s] = run[s],
         ~Writing(r), run'[r].pc # "fill", run'[r].pc = "truncate" => run'[r].out = 1,
         proc' \in {"arm", "watch"} => proc \in {"arm", "watch"}
  PROVE  CohInv'
  <1>1. \A s \in Regens : Writing(s) => run'[s] = run[s]
    OBVIOUS
  <1>2. ASSUME NEW s \in Regens, Writing(s)' PROVE Behind(s)'
    <2>1. CASE s = r
      <3>1. run'[s].out = 1
        BY <1>2, <2>1 DEF Writing
      <3> QED  BY <3>1, OutTypes DEF Behind
    <2>2. CASE s # r
      <3>1. run'[s] = run[s] /\ Writing(s) /\ Target(s)' = Target(s)
        BY <1>2, <2>2 DEF Writing, Target
      <3>2. Behind(s)
        BY <3>1 DEF CohInv
      <3> QED  BY <3>1, <3>2 DEF Behind
    <2> QED  BY <2>1, <2>2
  <1>3. ASSUME NEW s \in Regens, run'[s].pc = "fill", run'[s].out <= Len(Outs)
        PROVE  files'[Target(s)'] = {}
    <2>1. run'[s] = run[s] /\ Target(s)' = Target(s)
      BY <1>3 DEF Target
    <2>2. files[Target(s)] = {} /\ run[s].out \in 1..Len(Outs)
      BY <1>3, <2>1, OutTypes DEF CohInv
    <2>3. Target(s) = Outs[run[s].out]
      BY <2>2, OutTypes DEF Target
    <2> QED  BY <2>1, <2>2, <2>3
  <1>4. ASSUME proc' \in {"arm", "watch"}, \A s \in Regens : ~Writing(s)'
        PROVE  Together'
    <2>1. \A s \in Regens : ~Writing(s)
      BY <1>1, <1>4 DEF Writing
    <2>2. Together
      BY <1>4, <2>1 DEF CohInv
    <2> QED  BY <2>2 DEF Together
  <1> QED  BY <1>2, <1>3, <1>4 DEF CohInv

\* A run that fails other than on an output.
LEMMA FailCoh ==
  ASSUME TypeOK, CohInv, NEW r \in Regens, Fail(r), UNCHANGED files, ~Writing(r)
  PROVE  CohInv'
  <1>1. CASE r = FirstRun
    BY <1>1, TerminateCoh DEF Fail
  <1>2. CASE r # FirstRun
    <2>1. run' = [run EXCEPT ![r] = NoRun] /\ UNCHANGED proc
      BY <1>2 DEF Fail, loop
    <2>2. run'[r].pc = "idle" /\ \A s \in Regens \ {r} : run'[s] = run[s]
      BY <2>1 DEF TypeOK, NoRun
    <2> QED  BY <2>1, <2>2, StepCoh
  <1> QED  BY <1>1, <1>2

\* O_TRUNC empties the next file, or the adapter's directory is gone: then every output
\* has been written.
LEMMA TruncateCoh ==
  ASSUME TypeOK, NoOverlap, CohInv, NEW r \in Regens, Truncate(r)
  PROVE  CohInv'
  <1>1. /\ run[r] \in Run /\ run[r].pc = "truncate" /\ Behind(r)
        /\ \A s \in Regens \ {r} : run[s].pc = "idle"
    BY DEF Truncate, CohInv, Writing, NoOverlap, TypeOK
  <1>2. \A i \in 1..Len(Outs) : i < run[r].out => files[Outs[i]] = {run[r].api}
    BY <1>1 DEF Behind
  <1>3. CASE Target(r) \in Dirs /\ ~src[Target(r)].present
    <2>1. Fail(r) /\ UNCHANGED files
      BY <1>3 DEF Truncate
    <2>2. CASE r = FirstRun
      BY <2>1, <2>2, TerminateCoh DEF Fail
    <2>3. CASE r # FirstRun
      <3>1. run' = [run EXCEPT ![r] = NoRun]
        BY <2>1, <2>3 DEF Fail
      <3>2. \A s \in Regens : run'[s].pc = "idle"
        BY <1>1, <3>1 DEF NoRun, TypeOK
      <3>3. ~(run[r].out <= Len(Outs))
        BY <1>3, OutTypes DEF Target
      <3>4. \A i \in 1..Len(Outs) : i < run[r].out
        BY <3>3, OutTypes
      <3>5. Together'
        BY <1>2, <2>1, <3>4 DEF Together
      <3> QED  BY <3>2, <3>5 DEF CohInv, Writing
    <2> QED  BY <2>2, <2>3
  <1>4. CASE ~(Target(r) \in Dirs /\ ~src[Target(r)].present)
    <2>1. files' = [files EXCEPT ![Target(r)] = {}] /\ run' = [run EXCEPT ![r].pc = "fill"]
      BY <1>4 DEF Truncate
    <2>2. /\ run'[r].pc = "fill" /\ run'[r].out = run[r].out /\ run'[r].dst = run[r].dst
          /\ run'[r].api = run[r].api
          /\ \A s \in Regens \ {r} : run'[s].pc = "idle"
      BY <1>1, <2>1 DEF TypeOK, Run
    <2>3. Target(r)' = Target(r) /\ Target(r) \in Paths /\ files'[Target(r)] = {}
      BY <2>1, <2>2, TargetType DEF Target, TypeOK
    <2>4. ASSUME NEW i \in 1..Len(Outs), i < run[r].out, Outs[i] # Target(r)
          PROVE  files'[Outs[i]] = {run[r].api}
      BY <1>2, <2>1, <2>4, OutTypes DEF TypeOK
    <2>5. Behind(r)'
      BY <2>2, <2>3, <2>4 DEF Behind
    <2> QED  BY <2>2, <2>3, <2>5 DEF CohInv, Writing
  <1> QED  BY <1>3, <1>4

\* The run writes its API into the file it has emptied, and goes to the next.
LEMMA FillCoh ==
  ASSUME TypeOK, NoOverlap, CohInv, NEW r \in Regens, Fill(r)
  PROVE  CohInv'
  <1> DEFINE p == Target(r)
  <1>1. /\ run[r] \in Run /\ run[r].pc = "fill" /\ Behind(r) /\ p \in Paths
        /\ \A s \in Regens \ {r} : run[s].pc = "idle"
        /\ files \in [Paths -> {Absent} \cup SUBSET Api]
    BY TargetType DEF Fill, CohInv, Writing, NoOverlap, TypeOK
  <1>2. /\ run'[r].api = run[r].api
        /\ run'[r].pc = IF ~LastWrite(r) THEN "truncate"
                        ELSE IF r = FirstRun THEN "idle" ELSE "reconcile"
        /\ run'[r].out = IF LastWrite(r) THEN 1 ELSE run[r].out + 1
        /\ \A s \in Regens \ {r} : run'[s].pc = "idle"
    BY <1>1 DEF Fill, WriteFile, TypeOK, Run
  \* The file it has open holds what the run writes, the others what they held.
  <1>3. \A q \in Paths \ {p} : files'[q] = files[q]
    BY <1>1 DEF Fill, WriteFile
  <1>4. ASSUME run[r].out <= Len(Outs)
        PROVE  p = Outs[run[r].out] /\ files'[p] = {run[r].api}
    <2>1. files[p] = {} /\ files[p] # Absent
      BY <1>1, <1>4, ConstAssumption DEF CohInv
    <2>2. files' = [files EXCEPT ![p] = {run[r].api}]
      BY <2>1 DEF Fill, WriteFile
    <2> QED  BY <1>1, <1>4, <2>2 DEF Target
  <1>5. ASSUME NEW i \in 1..Len(Outs), i <= run[r].out
        PROVE  files'[Outs[i]] = {run[r].api}
    <2>1. Outs[i] \in Paths \ Dirs /\ Len(Outs) \in Nat /\ run[r].out \in Nat
      BY OutTypes
    <2>2. CASE run[r].out <= Len(Outs)
      <3>1. CASE Outs[i] = p
        BY <1>4, <2>2, <3>1
      <3>2. CASE Outs[i] # p
        <4>1. i < run[r].out
          BY <1>4, <1>5, <2>1, <2>2, <3>2
        <4>2. files[Outs[i]] = {run[r].api}
          BY <1>1, <3>2, <4>1 DEF Behind
        <4> QED  BY <1>3, <2>1, <3>2, <4>2
      <3> QED  BY <3>1, <3>2
    <2>3. CASE ~(run[r].out <= Len(Outs))
      <3>1. p \in Dirs
        BY <1>1, <2>3 DEF Target, Run
      <3>2. Outs[i] # p /\ i < run[r].out
        BY <2>1, <2>3, <3>1
      <3>3. files[Outs[i]] = {run[r].api}
        BY <1>1, <3>2 DEF Behind
      <3> QED  BY <1>3, <2>1, <3>2, <3>3
    <2> QED  BY <2>2, <2>3
  <1>6. CASE LastWrite(r)
    <2>1. \A s \in Regens : run'[s].pc \notin {"truncate", "fill"}
      BY <1>2, <1>6
    <2>2. \A i \in 1..Len(Outs) : i <= run[r].out
      BY <1>6, OutTypes DEF LastWrite
    <2>3. Together'
      BY <1>5, <2>2 DEF Together
    <2> QED  BY <2>1, <2>3 DEF CohInv, Writing
  <1>7. CASE ~LastWrite(r)
    <2>1. /\ run'[r].pc = "truncate" /\ run'[r].out = run[r].out + 1
          /\ \A s \in Regens \ {r} : run'[s].pc = "idle"
      BY <1>2, <1>7
    <2>2. \A i \in 1..Len(Outs) : i < run[r].out + 1 => i <= run[r].out
      BY OutTypes
    <2>3. Behind(r)'
      BY <1>2, <1>5, <2>1, <2>2 DEF Behind
    <2> QED  BY <2>1, <2>3 DEF CohInv, Writing
  <1> QED  BY <1>6, <1>7

\* Every step of a run.
LEMMA RegenCoh ==
  ASSUME TypeOK, RunsInv, NoOverlap, CohInv, NEW r \in Regens, Regen(r)
  PROVE  CohInv'
  <1>0. run[r] \in Run /\ run \in [Regens -> Run]
    BY DEF TypeOK
  <1>1. CASE Truncate(r) \/ Fill(r)
    BY <1>1, TruncateCoh, FillCoh
  <1>2. CASE ~(Truncate(r) \/ Fill(r))
    <2>1. UNCHANGED files /\ ~Writing(r)
      BY <1>2 DEF Regen, BeginLoad, LoadReturns, AnalyzeReturns, Render, LoadPackage,
                  DiscoverPackage, Reconcile, AssignDirs, Writing
    <2>2. CASE Fail(r)
      BY <2>1, <2>2, FailCoh
    <2>3. CASE Terminate
      BY <2>3, TerminateCoh
    <2>4. CASE ~Fail(r) /\ ~Terminate
      <3>1. \A s \in Regens \ {r} : run'[s] = run[s]
        BY <1>0, <1>2, <2>4 DEF Regen, BeginLoad, LoadReturns, AnalyzeReturns, Render,
                    LoadPackage, DiscoverPackage, Reconcile, AssignDirs
      <3>2. UNCHANGED proc
        BY <1>2, <2>4 DEF Regen, BeginLoad, LoadReturns, AnalyzeReturns, Render,
                    LoadPackage, DiscoverPackage, Reconcile, AssignDirs, loop
      <3>3. run'[r].pc # "fill" /\ (run'[r].pc = "truncate" => run'[r].out = 1)
        <4>1. CASE Render(r)
          <5>1. PICK d : run' = [run EXCEPT ![r].pc = "truncate", ![r].out = 1, ![r].dst = d]
            BY <2>4, <4>1 DEF Render
          <5>2. run'[r].pc = "truncate" /\ run'[r].out = 1
            BY <1>0, <5>1 DEF Run
          <5> QED  BY <5>2
        <4>2. CASE BeginLoad(r) \/ LoadReturns(r) \/ AnalyzeReturns(r)
          <5>1. run'[r].pc \in {"load", "discover", "render"}
            BY <1>0, <2>4, <4>2 DEF BeginLoad, LoadReturns, AnalyzeReturns, Run
          <5> QED  BY <5>1
        <4>3. CASE \E d \in Dirs : LoadPackage(r, d) \/ DiscoverPackage(r, d)
          <5>1. run'[r].pc = run[r].pc /\ run[r].pc \in {"load", "discover"}
            BY <1>0, <4>3 DEF LoadPackage, DiscoverPackage, Run
          <5> QED  BY <5>1
        <4>4. CASE Reconcile(r) \/ AssignDirs(r)
          <5>1. run'[r].pc \in {"assign", "idle"}
            BY <1>0, <4>4 DEF Reconcile, AssignDirs, Run, NoRun
          <5> QED  BY <5>1
        <4> QED  BY <1>2, <4>1, <4>2, <4>3, <4>4 DEF Regen
      <3> QED  BY <2>1, <3>1, <3>2, <3>3, StepCoh
    <2> QED  BY <2>2, <2>3, <2>4
  <1> QED  BY <1>1, <1>2

\* Every step, when no write fails.
LEMMA NextCoh ==
  ASSUME TypeOK, RunsInv, NoOverlap, CohInv, "diskFail" \notin Env, [Next]_vars
  PROVE  CohInv'
  <1>0. /\ FirstRun \in Regens /\ Fires \subseteq Regens /\ run \in [Regens -> Run]
        /\ files \in [Paths -> {Absent} \cup SUBSET Api]
    BY DEF Regens, TypeOK
  <1>1. CASE Arm
    <2>1. CASE Terminate
      BY <2>1, TerminateCoh
    <2>2. CASE ~Terminate
      <3>1. /\ run' = [run EXCEPT ![FirstRun] = NoRun] /\ UNCHANGED files /\ proc = "arm"
        BY <1>1, <2>2 DEF Arm
      <3>2. /\ run'[FirstRun].pc = "idle" /\ run[FirstRun].pc = "idle"
            /\ \A s \in Regens \ {FirstRun} : run'[s] = run[s]
        BY <1>0, <3>1 DEF NoRun, RunsInv
      <3> QED  BY <1>0, <3>1, <3>2, StepCoh DEF Writing
    <2> QED  BY <2>1, <2>2
  <1>2. CASE Interrupt
    BY <1>2, TerminateCoh DEF Interrupt
  <1>3. CASE Restart \/ \E r \in Fires : TimerFires(r)
    <2>1. PICK r \in Regens : /\ run' = [run EXCEPT ![r] = Started] /\ run[r].pc = "idle"
                              /\ UNCHANGED files
                              /\ proc' \in {"arm", "watch"} => proc \in {"arm", "watch"}
      BY <1>0, <1>3 DEF Restart, TimerFires, RunsInv
    <2>2. run'[r].pc = "start" /\ \A s \in Regens \ {r} : run'[s] = run[s]
      BY <1>0, <2>1 DEF Started, NoRun
    <2> QED  BY <2>1, <2>2, StepCoh DEF Writing
  <1>4. CASE HandleEvent \/ Overflow \/ User \/ UNCHANGED vars
    <2>1. UNCHANGED <<run, proc>>
      BY <1>4 DEF HandleEvent, Overflow, User, EditMod, EditSource, EditTest, RemovePackage,
                  CreatePackage, vars, loop
    <2>2. UNCHANGED files \/ \E d \in Dirs : files' = [files EXCEPT ![d] = Absent]
      BY <1>4 DEF HandleEvent, Overflow, User, EditMod, EditSource, EditTest, RemovePackage,
                  CreatePackage, vars
    <2>3. \A i \in 1..Len(Outs) : files'[Outs[i]] = files[Outs[i]]
      BY <1>0, <2>2, OutTypes
    <2>4. \A r \in Regens : Target(r)' = Target(r) /\ Writing(r)' = Writing(r)
      BY <2>1 DEF Target, Writing
    <2>5. ASSUME NEW r \in Regens, Behind(r) PROVE Behind(r)'
      BY <2>1, <2>3, <2>4, <2>5 DEF Behind
    <2>6. ASSUME NEW r \in Regens, run[r].out <= Len(Outs), files[Target(r)] = {}
          PROVE  files'[Target(r)] = {}
      <3>1. run[r].out \in 1..Len(Outs) /\ Target(r) = Outs[run[r].out]
        BY <2>6, OutTypes DEF Target
      <3> QED  BY <2>3, <2>6, <3>1
    <2>7. Together => Together'
      BY <2>3 DEF Together
    <2> QED  BY <2>1, <2>4, <2>5, <2>6, <2>7 DEF CohInv
  <1>5. \A r \in Regens : ~WriteFails(r)
    BY DEF WriteFails
  <1> QED  BY <1>1, <1>2, <1>3, <1>4, <1>5, RegenCoh DEF Next

\* Initially the first run has yet to begin.
LEMMA InitCoh ==
  ASSUME Init
  PROVE  CohInv
  <1>1. \A r \in Regens : run[r].pc \in {"idle", "start"}
    BY DEF Init, NoRun, Started
  <1> QED  BY <1>1 DEF Init, CohInv, Writing

\* When no two regenerations overlap and no write fails, the outputs under --out all come from one run whenever none is under way: whatever the user edits, which
\* generators fail or panic, and even if goduct was interrupted and started again in the
\* middle of writing them (main.go's generateOnce, watch.go's AfterFunc).
THEOREM OutputsCoherent ==
  ASSUME "diskFail" \notin Env
  PROVE  Spec /\ []NoOverlap => []CoherentWhenQuiet
  <1>1. Init => TypeOK /\ RunsInv /\ CohInv
    BY InitType, InitRuns, InitCoh
  <1>2. TypeOK /\ RunsInv /\ [Next]_vars => TypeOK' /\ RunsInv'
    BY NextType, NextRuns
  <1>3. TypeOK /\ RunsInv /\ NoOverlap /\ CohInv /\ [Next]_vars => CohInv'
    BY NextCoh
  <1>4. CohInv => CoherentWhenQuiet
    BY DEF CohInv, CoherentWhenQuiet, Quiet, Running, Writing, Together
  <1> QED  BY <1>1, <1>2, <1>3, <1>4, PTL DEF Spec
-----------------------------------------------------------------------------
(***************************************************************************)
(* Truncated files.  Whatever overlaps: a file that is empty is one a run  *)
(* still has open; or the process has exited; or it has been started again *)
(* and its first run will write the file, or refuse the package the file   *)
(* lies in, which ends the process before it watches.                      *)
(***************************************************************************)

\* The first run has the output under --out still to write ...
Rewrites(p) ==
  \/ run[FirstRun].pc \in {"start", "load", "discover", "render"}
  \/ /\ run[FirstRun].pc \in {"truncate", "fill"}
     /\ \E i \in 1..Len(Outs) : p = Outs[i] /\ run[FirstRun].out <= i

\* ... or the package with the empty adapter still to compile, or has refused it.
Refuses(p) ==
  \/ run[FirstRun].pc = "start"
  \/ run[FirstRun].pc = "load" /\ (p \in run[FirstRun].todo \/ ~run[FirstRun].ok)

FirstMends(p) ==
  /\ proc = "first"
  /\ IF p \in Dirs THEN Refuses(p) ELSE Rewrites(p)

Open(p) == \E r \in Regens : run[r].pc = "fill" /\ Target(r) = p

TornInv ==
  /\ \A p \in Paths : files[p] = {} => proc = "exited" \/ Open(p) \/ FirstMends(p)
  /\ \A d \in Dirs : files[d] # Absent => src[d].present

LEMMA OutPaths == \A p \in Paths \ Dirs : \E i \in 1..Len(Outs) : p = Outs[i]
BY DEF Paths

\* An empty adapter does not compile (analyzer.Load's package errors).
LEMMA EmptyRefused ==
  ASSUME NEW d \in Dirs, files[d] = {} PROVE ~Compiles(d)
BY ConstAssumption DEF Compiles, AdapterCompiles

LEMMA InitTorn ==
  ASSUME Init PROVE TornInv
BY ConstAssumption DEF Init, TornInv, Paths

\* The process ends: what it leaves on disk is for the next one.
LEMMA TerminateTorn ==
  ASSUME TornInv, Terminate, UNCHANGED <<files, src>> PROVE TornInv'
BY DEF TornInv, Terminate

\* A step of a run that has no file open and leaves the disk as it is.
LEMMA StepTorn ==
  ASSUME TornInv, NEW r \in Regens, run[r].pc # "fill",
         \A s \in Regens \ {r} : run'[s] = run[s],
         UNCHANGED <<files, src, proc>>,
         \A p \in Paths : r = FirstRun /\ files[p] = {} /\ FirstMends(p) => FirstMends(p)'
  PROVE  TornInv'
<1>1. FirstRun \in Regens
  BY DEF Regens
<1>2. ASSUME NEW p \in Paths, Open(p) PROVE Open(p)'
  <2>1. PICK s \in Regens : run[s].pc = "fill" /\ Target(s) = p
    BY <1>2 DEF Open
  <2>2. run'[s] = run[s]
    BY <2>1
  <2>3. QED
    BY <2>1, <2>2 DEF Open, Target
<1>3. ASSUME NEW p \in Paths, files[p] = {}, FirstMends(p) PROVE FirstMends(p)'
  BY <1>1, <1>3 DEF FirstMends, Refuses, Rewrites
<1>4. QED
  BY <1>2, <1>3 DEF TornInv

\* A run that fails before its first write or on a directory that is gone.
LEMMA FailTorn ==
  ASSUME TypeOK, TornInv, NEW r \in Regens, run[r].pc # "fill", Fail(r) \/ Terminate,
         UNCHANGED <<files, src>>
  PROVE  TornInv'
<1>1. CASE Terminate \/ r = FirstRun
  BY <1>1, TerminateTorn DEF Fail
<1>2. CASE ~Terminate /\ r # FirstRun
  <2>1. run' = [run EXCEPT ![r] = NoRun] /\ UNCHANGED proc
    BY <1>2 DEF Fail, loop
  <2>2. \A s \in Regens \ {r} : run'[s] = run[s]
    BY <2>1 DEF TypeOK
  <2>3. QED
    BY <1>2, <2>1, <2>2, StepTorn
<1>3. QED
  BY <1>1, <1>2

\* O_TRUNC empties the file, and the run has it open.
LEMMA TruncateTorn ==
  ASSUME TypeOK, RunsInv, TornInv, NEW r \in Regens, Truncate(r), ~Fail(r)
  PROVE  TornInv'
<1> DEFINE t == Target(r)
<1>1. /\ files' = [files EXCEPT ![t] = {}] /\ run' = [run EXCEPT ![r].pc = "fill"]
      /\ run[r].pc = "truncate" /\ UNCHANGED <<src, proc>>
      /\ t \in Dirs => src[t].present
  BY DEF Truncate, user
<1>2. /\ run[r] \in Run /\ t \in Paths /\ FirstRun \in Regens
      /\ files \in [Paths -> {Absent} \cup SUBSET Api]
  BY TargetType DEF TypeOK, Regens
<1>3. /\ run'[r].pc = "fill" /\ run'[r].out = run[r].out /\ run'[r].dst = run[r].dst
      /\ \A s \in Regens \ {r} : run'[s] = run[s]
  BY <1>1, <1>2 DEF TypeOK, Run
<1>4. Target(r)' = t /\ Open(t)'
  BY <1>3 DEF Target, Open
<1>5. ASSUME NEW p \in Paths, Open(p) PROVE Open(p)'
  <2>1. PICK s \in Regens : run[s].pc = "fill" /\ Target(s) = p
    BY <1>5 DEF Open
  <2>2. run'[s] = run[s]
    BY <1>1, <1>3, <2>1
  <2>3. QED
    BY <2>1, <2>2 DEF Open, Target
<1>6. ASSUME NEW p \in Paths, FirstMends(p) PROVE FirstMends(p)'
  BY <1>1, <1>2, <1>3, <1>6 DEF FirstMends, Refuses, Rewrites
<1>7. \A p \in Paths : p # t => files'[p] = files[p]
  BY <1>1, <1>2
<1>8. \A p \in Paths : files'[p] = {} => proc' = "exited" \/ Open(p)' \/ FirstMends(p)'
  BY <1>1, <1>4, <1>5, <1>6, <1>7 DEF TornInv
<1>9. \A d \in Dirs : files'[d] # Absent => src'[d].present
  <2>1. \A d \in Dirs : d \in Paths
    BY DEF Paths
  <2>2. QED
    BY <1>1, <1>7, <2>1 DEF TornInv
<1>10. QED
  BY <1>8, <1>9 DEF TornInv

\* The run fills it, and goes on to the next; after its last, no output is left to mend.
LEMMA FillTorn ==
  ASSUME TypeOK, RunsInv, TornInv, NEW r \in Regens, Fill(r)
  PROVE  TornInv'
<1> DEFINE t == Target(r)
<1>1. /\ run[r].pc = "fill" /\ UNCHANGED src
      /\ proc' = IF LastWrite(r) /\ r = FirstRun THEN "arm" ELSE proc
      /\ WriteFile(r)
  BY DEF Fill, user
<1>2. /\ run[r] \in Run /\ t \in Paths /\ FirstRun \in Regens
      /\ files \in [Paths -> {Absent} \cup SUBSET Api]
  BY TargetType DEF TypeOK, Regens
<1>3. /\ run'[r].out = IF LastWrite(r) THEN 1 ELSE run[r].out + 1
      /\ ~LastWrite(r) => run'[r].pc = "truncate"
      /\ \A s \in Regens \ {r} : run'[s] = run[s]
  BY <1>1, <1>2 DEF Fill, TypeOK, Run
<1>4. files'[t] # {} /\ (files'[t] # Absent => files[t] # Absent)
  <2>1. CASE files[t] = Absent
    BY <1>1, <2>1, ConstAssumption DEF WriteFile
  <2>2. CASE files[t] # Absent
    <3>1. PICK kept \in {{}, files[t]} : files' = [files EXCEPT ![t] = kept \cup {run[r].api}]
      BY <1>1, <2>2 DEF WriteFile
    <3>2. files'[t] = kept \cup {run[r].api}
      BY <1>2, <3>1
    <3>3. QED
      BY <2>2, <3>2
  <2>3. QED
    BY <2>1, <2>2
<1>5. \A p \in Paths : p # t => files'[p] = files[p]
  BY <1>1, <1>2 DEF WriteFile
<1>6. ASSUME NEW p \in Paths, p # t, Open(p) PROVE Open(p)'
  <2>1. PICK s \in Regens : run[s].pc = "fill" /\ Target(s) = p
    BY <1>6 DEF Open
  <2>2. run'[s] = run[s]
    BY <1>3, <1>6, <2>1
  <2>3. QED
    BY <2>1, <2>2 DEF Open, Target
<1>7. ASSUME NEW p \in Paths, p # t, FirstMends(p) PROVE FirstMends(p)'
  <2>1. CASE r # FirstRun
    BY <1>1, <1>2, <1>3, <1>7, <2>1 DEF FirstMends, Refuses, Rewrites
  <2>2. CASE r = FirstRun
    <3>1. p \notin Dirs /\ Rewrites(p) /\ proc = "first"
      BY <1>1, <1>7, <2>2 DEF FirstMends, Refuses
    <3>2. PICK i \in 1..Len(Outs) : p = Outs[i] /\ run[r].out <= i
      BY <1>1, <2>2, <3>1 DEF Rewrites
    <3>3. run[r].out # i
      BY <1>7, <3>2 DEF Target
    <3>4. Len(Outs) \in Nat /\ Writes \in Nat /\ Len(Outs) <= Writes /\ run[r].out \in 1..Writes
      BY OutTypes
    <3>5. ~LastWrite(r) /\ run[r].out + 1 <= i
      BY <3>2, <3>3, <3>4 DEF LastWrite
    <3>6. run'[r].pc = "truncate" /\ run'[r].out <= i /\ proc' = "first"
      BY <1>1, <1>3, <3>1, <3>5
    <3>7. QED
      BY <2>2, <3>1, <3>2, <3>6 DEF FirstMends, Rewrites
  <2>3. QED
    BY <2>1, <2>2
<1>8. ASSUME NEW p \in Paths, files'[p] = {}
      PROVE  proc' = "exited" \/ Open(p)' \/ FirstMends(p)'
  <2>1. p # t /\ files[p] = {}
    BY <1>4, <1>5, <1>8
  <2>2. proc # "exited"
    BY <1>1 DEF RunsInv
  <2>3. QED
    BY <1>6, <1>7, <2>1, <2>2 DEF TornInv
<1>9. \A d \in Dirs : files'[d] # Absent => src'[d].present
  <2>1. \A d \in Dirs : d \in Paths
    BY DEF Paths
  <2>2. QED
    BY <1>1, <1>4, <1>5, <2>1 DEF TornInv
<1>10. QED
  BY <1>8, <1>9 DEF TornInv

\* Every step of a run.
LEMMA RegenTorn ==
  ASSUME TypeOK, RunsInv, TornInv, NEW r \in Regens, Regen(r)
  PROVE  TornInv'
<1>0. run \in [Regens -> Run] /\ run[r] \in Run /\ FirstRun \in Regens
  BY DEF TypeOK, Regens
<1>1. CASE Truncate(r)
  <2>1. CASE Fail(r)
    <3>1. UNCHANGED <<files, src>> /\ run[r].pc # "fill"
      BY <1>0, <1>1, <2>1 DEF Truncate, user, Fail, Terminate, NoRun, Run
    <3>2. QED
      BY <2>1, <3>1, FailTorn
  <2>2. CASE ~Fail(r)
    BY <1>1, <2>2, TruncateTorn
  <2>3. QED
    BY <2>1, <2>2
<1>2. CASE Fill(r)
  BY <1>2, FillTorn
<1>3. CASE ~(Truncate(r) \/ Fill(r))
  <2>0. UNCHANGED <<files, src>> /\ run[r].pc # "fill"
    BY <1>3 DEF Regen, BeginLoad, LoadReturns, AnalyzeReturns, Render, LoadPackage,
                DiscoverPackage, Reconcile, AssignDirs, user
  <2>1. CASE Fail(r) \/ Terminate
    BY <2>0, <2>1, FailTorn
  <2>2. CASE ~(Fail(r) \/ Terminate)
    <3>0. UNCHANGED proc /\ \A s \in Regens \ {r} : run'[s] = run[s]
      BY <1>0, <1>3, <2>2 DEF Regen, BeginLoad, LoadReturns, AnalyzeReturns, Render,
                  LoadPackage, DiscoverPackage, Reconcile, AssignDirs, loop
    <3>1. CASE BeginLoad(r)
      <4>1. run'[r].pc = "load" /\ run'[r].todo = Present(src) /\ run[r].pc = "start"
        BY <1>0, <2>2, <3>1 DEF BeginLoad, Run
      <4>2. \A d \in Dirs : files[d] = {} => d \in Present(src)
        BY ConstAssumption DEF TornInv, Present
      <4>3. QED
        BY <2>0, <3>0, <4>1, <4>2, StepTorn DEF FirstMends, Refuses, Rewrites
    <3>2. ASSUME NEW d \in Dirs, LoadPackage(r, d) PROVE TornInv'
      <4>1. /\ run'[r].pc = "load" /\ run[r].pc = "load"
            /\ run'[r].todo = run[r].todo \ {d}
        BY <1>0, <3>2 DEF LoadPackage, Run
      <4>2. run'[r].ok = (run[r].ok /\ Compiles(d))
        BY <1>0, <3>2 DEF LoadPackage, Run
      <4>3. files[d] = {} => ~run'[r].ok
        BY <4>2, EmptyRefused
      <4>4. ~run[r].ok => ~run'[r].ok
        BY <4>2
      <4>5. ASSUME NEW p \in Paths, r = FirstRun, files[p] = {}, FirstMends(p)
            PROVE  FirstMends(p)'
        <5>1. CASE p \in Dirs
          BY <3>0, <4>1, <4>3, <4>4, <4>5, <5>1 DEF FirstMends, Refuses
        <5>2. CASE p \notin Dirs
          BY <3>0, <4>1, <4>5, <5>2 DEF FirstMends, Rewrites
        <5>3. QED
          BY <5>1, <5>2
      <4>6. QED
        BY <2>0, <3>0, <4>5, StepTorn
    <3>3. CASE LoadReturns(r)
      <4>1. /\ run'[r].pc = "discover" /\ run[r].pc = "load"
            /\ run[r].ok /\ run[r].todo = {}
        BY <1>0, <2>2, <3>3 DEF LoadReturns, Run
      <4>2. QED
        BY <2>0, <3>0, <4>1, StepTorn DEF FirstMends, Refuses, Rewrites
    <3>4. ASSUME NEW d \in Dirs, DiscoverPackage(r, d) PROVE TornInv'
      <4>1. run'[r].pc = "discover" /\ run[r].pc = "discover"
        BY <1>0, <3>4 DEF DiscoverPackage, Run
      <4>2. QED
        BY <2>0, <3>0, <4>1, StepTorn DEF FirstMends, Refuses, Rewrites
    <3>5. CASE AnalyzeReturns(r)
      <4>1. run'[r].pc = "render" /\ run[r].pc = "discover"
        BY <1>0, <2>2, <3>5 DEF AnalyzeReturns, Run
      <4>2. QED
        BY <2>0, <3>0, <4>1, StepTorn DEF FirstMends, Refuses, Rewrites
    <3>6. CASE Render(r)
      <4>1. run'[r].pc = "truncate" /\ run'[r].out = 1 /\ run[r].pc = "render"
        BY <1>0, <2>2, <3>6 DEF Render, Run
      <4>2. ASSUME NEW p \in Paths, r = FirstRun, FirstMends(p) PROVE FirstMends(p)'
        <5>1. p \notin Dirs /\ proc = "first"
          BY <4>1, <4>2 DEF FirstMends, Refuses
        <5>2. PICK i \in 1..Len(Outs) : p = Outs[i]
          BY <5>1, OutPaths
        <5>3. run'[r].out <= i
          BY <4>1
        <5>4. QED
          BY <3>0, <4>1, <4>2, <5>1, <5>2, <5>3 DEF FirstMends, Rewrites
      <4>3. QED
        BY <2>0, <3>0, <4>2, StepTorn
    <3>7. CASE Reconcile(r) \/ AssignDirs(r)
      <4>1. run[r].pc \in {"reconcile", "assign"}
        BY <3>7 DEF Reconcile, AssignDirs
      <4>2. QED
        BY <2>0, <3>0, <4>1, StepTorn DEF FirstMends, Refuses, Rewrites
    <3>8. QED
      BY <1>3, <3>1, <3>2, <3>3, <3>4, <3>5, <3>6, <3>7 DEF Regen
  <2>3. QED
    BY <2>1, <2>2
<1>4. QED
  BY <1>1, <1>2, <1>3

\* Every step, when no write fails.
LEMMA NextTorn ==
  ASSUME TypeOK, RunsInv, TornInv, "diskFail" \notin Env, [Next]_vars
  PROVE  TornInv'
<1>0. /\ FirstRun \in Regens /\ Fires \subseteq Regens /\ run \in [Regens -> Run]
      /\ src \in [Dirs -> Source] /\ files \in [Paths -> {Absent} \cup SUBSET Api]
      /\ Dirs \subseteq Paths /\ \A r \in Fires : r # FirstRun
  BY ConstAssumption DEF Regens, TypeOK, Paths
<1>1. CASE Arm
  <2>1. CASE Terminate
    BY <1>1, <2>1, TerminateTorn DEF Arm, user
  <2>2. CASE ~Terminate
    <3>1. /\ run' = [run EXCEPT ![FirstRun] = NoRun] /\ UNCHANGED <<files, src>>
          /\ proc = "arm"
      BY <1>1, <2>2 DEF Arm, user
    <3>2. \A p \in Paths : ~FirstMends(p) /\ ~Open(p)
      BY <3>1 DEF FirstMends, Open, RunsInv
    <3>3. \A p \in Paths : files[p] # {}
      BY <3>1, <3>2 DEF TornInv
    <3>4. QED
      BY <3>1, <3>3 DEF TornInv
  <2>3. QED
    BY <2>1, <2>2
<1>2. CASE Interrupt
  BY <1>2, TerminateTorn DEF Interrupt, user
<1>3. ASSUME NEW r \in Fires, TimerFires(r) PROVE TornInv'
  <2>1. /\ run[r].pc # "fill" /\ UNCHANGED <<files, src, proc>>
        /\ \A s \in Regens \ {r} : run'[s] = run[s]
    BY <1>0, <1>3 DEF TimerFires, user
  <2>2. QED
    BY <1>0, <2>1, StepTorn
<1>4. CASE Restart
  <2>1. /\ proc' = "first" /\ UNCHANGED <<files, src>>
        /\ run' = [run EXCEPT ![FirstRun] = Started]
    BY <1>4 DEF Restart, user
  <2>2. run'[FirstRun].pc = "start"
    BY <1>0, <2>1 DEF Started, NoRun
  <2>3. QED
    BY <2>1, <2>2 DEF TornInv, FirstMends, Refuses, Rewrites
<1>5. CASE HandleEvent \/ Overflow \/ UNCHANGED vars
  <2>1. UNCHANGED <<run, proc, files, src>>
    BY <1>5 DEF HandleEvent, Overflow, vars, user, loop
  <2>2. QED
    BY <2>1 DEF TornInv, Open, Target, FirstMends, Refuses, Rewrites
<1>6. CASE User
  <2>1. UNCHANGED <<run, proc>>
    BY <1>6 DEF User, EditMod, EditSource, EditTest, RemovePackage, CreatePackage, loop
  <2>2. \A p \in Paths : Open(p)' = Open(p) /\ FirstMends(p)' = FirstMends(p)
    BY <2>1 DEF Open, Target, FirstMends, Refuses, Rewrites
  <2>3. ASSUME UNCHANGED files, \A d \in Dirs : src[d].present => src'[d].present
        PROVE  TornInv'
    BY <2>1, <2>2, <2>3 DEF TornInv
  <2>4. CASE EditMod \/ \E d \in Dirs : EditTest(d)
    BY <2>3, <2>4 DEF EditMod, EditTest
  <2>5. ASSUME NEW d \in Dirs, EditSource(d) PROVE TornInv'
    <3>1. PICK q, s : src' = [src EXCEPT ![d] = [present |-> TRUE, ver |-> edits + 1,
                                                 quality |-> q, shape |-> s]]
      BY <2>5 DEF EditSource
    <3>2. \A e \in Dirs : src[e].present => src'[e].present
      BY <1>0, <3>1
    <3>3. QED
      BY <2>3, <2>5, <3>2 DEF EditSource
  <2>6. ASSUME NEW d \in Dirs, CreatePackage(d) PROVE TornInv'
    <3>1. \A e \in Dirs : src[e].present => src'[e].present
      BY <1>0, <2>6 DEF CreatePackage, Source
    <3>2. QED
      BY <2>3, <2>6, <3>1 DEF CreatePackage
  <2>7. ASSUME NEW d \in Dirs, RemovePackage(d) PROVE TornInv'
    <3>1. /\ files' = [files EXCEPT ![d] = Absent]
          /\ \A e \in Dirs \ {d} : src'[e] = src[e]
      BY <1>0, <2>7 DEF RemovePackage, Source
    <3>2. files'[d] = Absent /\ \A p \in Paths \ {d} : files'[p] = files[p]
      BY <1>0, <3>1
    <3>3. QED
      BY <1>0, <2>1, <2>2, <3>1, <3>2, ConstAssumption DEF TornInv
  <2>8. QED
    BY <1>6, <2>4, <2>5, <2>6, <2>7 DEF User
<1>7. \A r \in Regens : ~WriteFails(r)
  BY DEF WriteFails
<1>8. QED
  BY <1>1, <1>2, <1>3, <1>4, <1>5, <1>6, <1>7, RegenTorn DEF Next

\* When no write fails, no file is left truncated while goduct watches and no run is under
\* way: however many regenerations write the same files at once, whichever of them fail,
\* and however often the process dies in the middle of a write and is started again
\* (main.go's generateOnce, os.WriteFile).
THEOREM NothingTorn ==
  ASSUME "diskFail" \notin Env
  PROVE  Spec => []NoTornWhenQuiet
<1>1. Init => TypeOK /\ RunsInv /\ TornInv
  BY InitType, InitRuns, InitTorn
<1>2. TypeOK /\ RunsInv /\ TornInv /\ [Next]_vars => TypeOK' /\ RunsInv' /\ TornInv'
  BY NextType, NextRuns, NextTorn
<1>3. TornInv => NoTornWhenQuiet
  BY DEF TornInv, NoTornWhenQuiet, Quiet, Running, Open, FirstMends
<1>4. QED
  BY <1>1, <1>2, <1>3, PTL DEF Spec
=============================================================================
