--------------------------- MODULE GenerateProofs ---------------------------
(***************************************************************************)
(* What is proved of one `goduct gen`.                                     *)
(*                                                                         *)
(* It leaves all of its output or none, for every command line, goduct.json*)
(* and source, and whatever the generators do (module Command).            *)
(* AllOrNothing and ExitTells speak of the disk and of the generators that *)
(* were asked for.  RunInv says how far the run has come: until the last   *)
(* generator has rendered the disk is as it was, from then on the files    *)
(* written are those of written, and the one that fails is the last.       *)
(*                                                                         *)
(* With the generators of module Documents, for every package that the     *)
(* analyzer accepts: a generator fails for one of the listed reasons only, *)
(* and what the files refer to is what they declare.  Fits adds to RunInv  *)
(* that the API is that of the command.  The rest is about operators: what *)
(* a Closure is, what is inside a TypeRef, and that exampleFor comes to an *)
(* end, since every call has a smaller TypeRef or fewer types before it.   *)
(***************************************************************************)
EXTENDS Generate, FiniteSetTheorems, WellFoundedInduction, NaturalsInduction, TLAPS

Untouched == \A g \in Generators : disk[g] = "old"

Selected == pc \in {"check", "analyze", "render", "write"} => Chosen = Asked

Rendered == \A g \in rendered : "ok" \in Renders(g, Api)

\* Every generator has rendered, and no file has changed but those written so far.
Complete == failed = None /\ Chosen = Asked /\ rendered = Chosen
Unwritten == \A g \in Generators \ written : disk[g] = "old"
Written == \A g \in written : disk[g] = "new"

RunInv ==
  /\ Selected
  /\ Rendered
  /\ pc \in {"parse", "load", "check", "analyze", "render"} =>
       Untouched /\ written = {} /\ failed = None
  /\ pc \in {"parse", "load", "check", "analyze"} => rendered = {}
  /\ pc = "write" => Complete /\ Unwritten /\ Written
  /\ pc # "exited" => exit = Running
  /\ pc = "exited" =>
       \/ Untouched /\ exit \in {1, 2}
       \/ Complete /\ Unwritten /\ Written /\ written = Chosen /\ exit = 0
       \/ Complete /\ exit = 1

\* The options have the adapters of the command, and where it has got as far as rendering
\* there is one for every foreign type; a generator failed because it cannot render the API.
Fits ==
  /\ pc \in {"check", "analyze", "render", "write"} => opts.adapters = ApiOf(cmd).wires
  /\ pc \in {"render", "write"} \/ failed # None \/ rendered # {} =>
       opts.adapters = ApiOf(cmd).wires /\ Foreign(cmd.source) \subseteq DOMAIN opts.adapters
  /\ failed # None => \E outcome \in Renders(failed, Api) : outcome # "ok"

-----------------------------------------------------------------------------
\* The config's selection is empty unless there is a config.
LEMMA PickAsked == PickGenerators = Asked
  <1>1. Given.generators = {} /\ Given.all = FALSE
    BY DEF Given
  <1>2. CASE cmd.file = "found"
    BY <1>2 DEF PickGenerators, Asked, Config
  <1>3. CASE cmd.file # "found"
    BY <1>1, <1>3 DEF PickGenerators, Asked, Config
  <1> QED  BY <1>2, <1>3

\* What was asked for, and with the options the API, are of the command.
LEMMA SameAsked ==
  ASSUME UNCHANGED cmd
  PROVE  Asked' = Asked /\ (UNCHANGED opts => Chosen' = Chosen /\ Api' = Api)
  BY DEF Asked, Flag, Chosen, Api

\* The first of some generators is one of them.
LEMMA FirstMember == \A S : FirstOf(S) \subseteq S
  BY DEF FirstOf

-----------------------------------------------------------------------------
LEMMA InitOK == Init => TypeOK /\ RunInv
  <1> SUFFICES ASSUME Init PROVE TypeOK /\ RunInv
    OBVIOUS
  <1>1. Chosen = {} /\ rendered = {} /\ written = {}
    BY DEF Init, Chosen
  <1>2. TypeOK
    BY <1>1 DEF Init, TypeOK
  <1>3. RunInv
    BY <1>1 DEF Init, RunInv, Selected, Rendered, Untouched
  <1> QED  BY <1>2, <1>3

LEMMA NextType == TypeOK /\ RunInv /\ [Next]_vars => TypeOK'
  <1> SUFFICES ASSUME TypeOK, RunInv, [Next]_vars PROVE TypeOK'
    OBVIOUS
  <1>1. CASE Parse \/ Check \/ Analyze \/ MakeOut \/ Finish
    <2>1. UNCHANGED <<cmd, opts, rendered, failed, written, disk>>
      BY <1>1 DEF Parse, Check, Analyze, MakeOut, Finish, Goto, Exit
    <2>2. /\ pc' \in {"load", "analyze", "render", "write", "exited"}
          /\ exit' \in {Running, 0, 1, 2}
      BY <1>1 DEF Parse, Check, Analyze, MakeOut, Finish, Goto, Exit, TypeOK
    <2> QED  BY <2>1, <2>2 DEF TypeOK, Chosen
  <1>2. CASE LoadConfig
    <2>1. /\ UNCHANGED <<cmd, rendered, failed, written, disk>> /\ rendered = {}
          /\ pc' \in {"check", "exited"} /\ exit' \in {Running, 0, 1, 2}
      BY <1>2 DEF LoadConfig, Goto, Exit, TypeOK, RunInv
    <2>2. Chosen' \subseteq Generators
      <3>1. CASE UNCHANGED opts
        BY <3>1 DEF TypeOK, Chosen
      <3>2. CASE opts' = Overlaid
        <4>1. Chosen' = PickGenerators
          BY <3>2 DEF Chosen, Overlaid
        <4> QED  BY <4>1 DEF PickGenerators
      <3> QED  BY <1>2, <3>1, <3>2 DEF LoadConfig
    <2> QED  BY <2>1, <2>2 DEF TypeOK
  <1>3. CASE Render
    <2>1. PICK g \in FirstOf(Chosen \ rendered) : \E outcome \in Renders(g, Api) :
            IF outcome = "ok" THEN rendered' = rendered \cup {g} /\ UNCHANGED failed /\ Goto("render")
            ELSE failed' = g /\ UNCHANGED rendered /\ Exit(RenderCode(outcome))
      BY <1>3 DEF Render
    <2>2. g \in Chosen \ rendered /\ UNCHANGED <<cmd, written, disk>> /\ Chosen' = Chosen
      BY <1>3, <2>1, FirstMember DEF Render, Rendering, KeepsDisk, Goto, Exit, Chosen
    <2>3. /\ rendered' \in {rendered, rendered \cup {g}} /\ failed' \in {failed, g}
          /\ pc' \in {"render", "exited"} /\ exit' \in {exit, 1, 2}
      BY <2>1 DEF Goto, Exit, RenderCode
    <2> QED  BY <2>2, <2>3 DEF TypeOK
  <1>4. CASE Write
    <2>1. PICK g \in FirstOf(Chosen \ written) :
            \/ disk' = [disk EXCEPT ![g] = "new"] /\ written' = written \cup {g} /\ Goto("write")
            \/ \E left \in {disk[g], "cut"} :
                 disk' = [disk EXCEPT ![g] = left] /\ UNCHANGED written /\ Exit(1)
      BY <1>4 DEF Write
    <2>2. /\ g \in Chosen /\ UNCHANGED <<cmd, rendered, failed>> /\ Chosen' = Chosen
          /\ rendered = Chosen
      BY <1>4, <2>1, FirstMember DEF Write, Goto, Exit, Chosen, RunInv, Complete
    <2>3. disk' \in [Generators -> {"old", "cut", "new"}]
      BY <2>1, <2>2 DEF TypeOK
    <2>4. /\ written' \in {written, written \cup {g}}
          /\ pc' \in {"write", "exited"} /\ exit' \in {exit, 1}
      BY <2>1 DEF Goto, Exit
    <2> QED  BY <2>2, <2>3, <2>4 DEF TypeOK
  <1>5. CASE UNCHANGED vars
    BY <1>5 DEF vars, TypeOK, Chosen
  <1> QED  BY <1>1, <1>2, <1>3, <1>4, <1>5 DEF Next

\* Until MakeOut the disk stays as it was; Write and Finish then complete it file by file.
LEMMA NextRun == TypeOK /\ RunInv /\ [Next]_vars => RunInv'
  <1> SUFFICES ASSUME TypeOK, RunInv, [Next]_vars PROVE RunInv'
    OBVIOUS
  \* Before the first generator.
  <1>1. CASE Parse \/ LoadConfig \/ Check \/ Analyze
    <2>1. /\ Untouched /\ written = {} /\ failed = None /\ rendered = {} /\ exit = Running
          /\ UNCHANGED <<cmd, rendered, failed, written, disk>>
      BY <1>1 DEF Parse, LoadConfig, Check, Analyze, Goto, Exit, RunInv
    <2>2. \/ pc' = "exited" /\ exit' \in {1, 2}
          \/ pc' \in {"load", "check", "analyze", "render"} /\ exit' = exit
      BY <1>1 DEF Parse, LoadConfig, Check, Analyze, Goto, Exit
    <2>3. Selected'
      <3>1. CASE Parse
        BY <3>1 DEF Parse, Goto, Exit, Selected
      <3>2. CASE LoadConfig
        <4>1. CASE pc' = "exited"
          BY <4>1 DEF Selected
        <4>2. CASE pc' # "exited"
          <5>1. opts' = Overlaid /\ UNCHANGED cmd
            BY <3>2, <4>2 DEF LoadConfig, Goto, Exit
          <5>2. Chosen' = PickGenerators
            BY <5>1 DEF Chosen, Overlaid
          <5> QED  BY <5>1, <5>2, PickAsked, SameAsked DEF Selected
        <4> QED  BY <4>1, <4>2
      <3>3. CASE Check \/ Analyze
        <4>1. pc \in {"check", "analyze"} /\ UNCHANGED <<cmd, opts>>
          BY <3>3 DEF Check, Analyze, Goto, Exit
        <4> QED  BY <4>1, SameAsked DEF RunInv, Selected
      <3> QED  BY <1>1, <3>1, <3>2, <3>3
    <2>4. Untouched' /\ Rendered'
      BY <2>1 DEF Untouched, Rendered
    <2> QED  BY <2>1, <2>2, <2>3, <2>4 DEF RunInv
  <1>2. CASE Render
    <2>1. PICK g \in FirstOf(Chosen \ rendered) : \E outcome \in Renders(g, Api) :
            IF outcome = "ok" THEN rendered' = rendered \cup {g} /\ UNCHANGED failed /\ Goto("render")
            ELSE failed' = g /\ UNCHANGED rendered /\ Exit(RenderCode(outcome))
      BY <1>2 DEF Render
    <2>2. /\ pc = "render" /\ UNCHANGED <<cmd, opts, written, disk>>
          /\ Untouched /\ written = {} /\ failed = None /\ exit = Running
      BY <1>2, <2>1 DEF Render, Rendering, KeepsDisk, Goto, Exit, RunInv
    <2>3. Untouched' /\ Chosen' = Chosen /\ Api' = Api /\ Asked' = Asked /\ Chosen = Asked
      BY <2>2, SameAsked DEF Untouched, RunInv, Selected
    <2>4. CASE rendered' = rendered \cup {g} /\ UNCHANGED failed /\ Goto("render") /\ "ok" \in Renders(g, Api)
      <3>1. Rendered'
        BY <2>3, <2>4 DEF RunInv, Rendered
      <3> QED  BY <2>2, <2>3, <2>4, <3>1 DEF RunInv, Selected, Goto
    <2>5. CASE UNCHANGED rendered /\ \E code \in {1, 2} : Exit(code)
      <3>1. Rendered'
        BY <2>3, <2>5 DEF RunInv, Rendered
      <3> QED  BY <2>2, <2>3, <2>5, <3>1 DEF RunInv, Selected, Exit
    <2> QED  BY <2>1, <2>4, <2>5 DEF RenderCode
  <1>3. CASE MakeOut
    <2>1. /\ pc = "render" /\ rendered = Chosen /\ exit = Running
          /\ UNCHANGED <<cmd, opts, rendered, failed, written, disk>>
          /\ Untouched /\ written = {} /\ failed = None
      BY <1>3 DEF MakeOut, Goto, Exit, RunInv
    <2>2. /\ Untouched' /\ Chosen' = Chosen /\ Api' = Api /\ Asked' = Asked /\ Chosen = Asked
      BY <2>1, SameAsked DEF Untouched, RunInv, Selected
    <2>3. Rendered'
      BY <2>1, <2>2 DEF RunInv, Rendered
    <2>4. Complete' /\ Unwritten' /\ Written'
      BY <2>1, <2>2 DEF Complete, Unwritten, Written, Untouched
    <2>5. \/ pc' = "write" /\ exit' = exit
          \/ pc' = "exited" /\ exit' = 1
      BY <1>3 DEF MakeOut, Goto, Exit
    <2> QED  BY <2>1, <2>2, <2>3, <2>4, <2>5 DEF RunInv, Selected
  <1>4. CASE Write
    <2>1. PICK g \in FirstOf(Chosen \ written) :
            \/ disk' = [disk EXCEPT ![g] = "new"] /\ written' = written \cup {g} /\ Goto("write")
            \/ \E left \in {disk[g], "cut"} :
                 disk' = [disk EXCEPT ![g] = left] /\ UNCHANGED written /\ Exit(1)
      BY <1>4 DEF Write
    <2>2. /\ g \in Chosen \ written /\ UNCHANGED <<cmd, opts, rendered, failed>>
          /\ Complete /\ Unwritten /\ Written /\ exit = Running
      BY <1>4, <2>1, FirstMember DEF Write, Goto, Exit, RunInv
    <2>3. Chosen' = Chosen /\ Api' = Api /\ Asked' = Asked
      BY <2>2, SameAsked
    <2>4. Rendered' /\ Complete'
      BY <2>2, <2>3 DEF RunInv, Rendered, Complete
    <2>5. CASE disk' = [disk EXCEPT ![g] = "new"] /\ written' = written \cup {g} /\ Goto("write")
      <3>1. g \in Generators /\ written \subseteq Generators /\ disk \in [Generators -> {"old", "cut", "new"}]
        BY <2>2 DEF TypeOK
      <3>2. Unwritten' /\ Written'
        BY <2>2, <2>5, <3>1 DEF Unwritten, Written
      <3> QED  BY <2>2, <2>3, <2>4, <2>5, <3>2 DEF RunInv, Selected, Complete, Goto
    <2>6. CASE Exit(1)
      BY <2>4, <2>6 DEF RunInv, Selected, Exit
    <2> QED  BY <2>1, <2>5, <2>6
  <1>5. CASE Finish
    <2>1. /\ pc' = "exited" /\ exit' = 0 /\ written = Chosen
          /\ UNCHANGED <<cmd, opts, rendered, failed, written, disk>>
          /\ Complete /\ Unwritten /\ Written
      BY <1>5 DEF Finish, Exit, RunInv
    <2>2. Chosen' = Chosen /\ Api' = Api /\ Asked' = Asked
      BY <2>1, SameAsked
    <2>3. Rendered' /\ Complete' /\ Unwritten' /\ Written'
      BY <2>1, <2>2 DEF RunInv, Rendered, Complete, Unwritten, Written
    <2> QED  BY <2>1, <2>2, <2>3 DEF RunInv, Selected
  <1>6. CASE UNCHANGED vars
    <2>1. Chosen' = Chosen /\ Api' = Api /\ Asked' = Asked
      BY <1>6, SameAsked DEF vars
    <2> QED
      BY <1>6, <2>1 DEF vars, RunInv, Selected, Rendered, Untouched, Complete, Unwritten, Written
  <1> QED  BY <1>1, <1>2, <1>3, <1>4, <1>5, <1>6 DEF Next

\* LoadConfig lays goduct.json under the command line, Analyze looks for the foreign types.
LEMMA NextFits == RunInv /\ Fits /\ [Next]_vars => Fits'
  <1> SUFFICES ASSUME RunInv, Fits, [Next]_vars PROVE Fits'
    OBVIOUS
  <1>1. CASE Parse \/ LoadConfig
    <2>1. failed' = None /\ rendered' = {} /\ cmd' = cmd
      BY <1>1 DEF Parse, LoadConfig, Goto, Exit, RunInv
    <2>2. pc' \in {"load", "exited"} \/ (pc' = "check" /\ opts' = Overlaid)
      BY <1>1 DEF Parse, LoadConfig, Goto, Exit
    <2>3. ASSUME opts' = Overlaid PROVE (opts.adapters = ApiOf(cmd).wires)'
      <3>1. opts'.adapters = cmd.cli.adapters @@ Config.adapters
        BY <2>3 DEF Overlaid
      <3>2. Config.adapters = IF cmd.file = "found" THEN cmd.json.adapters ELSE <<>>
        BY DEF Config, Given
      <3>3. ApiOf(cmd).wires = cmd.cli.adapters @@ (IF cmd.file = "found" THEN cmd.json.adapters ELSE <<>>)
        BY DEF ApiOf
      <3> QED  BY <2>1, <3>1, <3>2, <3>3
    <2> QED  BY <2>1, <2>2, <2>3 DEF Fits
  <1>2. CASE Check
    <2>1. UNCHANGED <<cmd, opts, rendered, failed>> /\ pc = "check" /\ pc' \in {"analyze", "exited"}
      BY <1>2 DEF Check, Goto, Exit
    <2>2. Api' = Api
      BY <2>1, SameAsked
    <2> QED  BY <2>1, <2>2 DEF Fits, RunInv
  <1>3. CASE Analyze
    <2>1. UNCHANGED <<cmd, opts, rendered, failed>> /\ pc = "analyze" /\ failed = None /\ rendered = {}
      BY <1>3 DEF Analyze, Goto, Exit, RunInv
    <2>2. pc' = "exited" \/ (pc' = "render" /\ Foreign(cmd.source) \subseteq DOMAIN opts.adapters)
      BY <1>3 DEF Analyze, Goto, Exit
    <2> QED  BY <2>1, <2>2 DEF Fits
  <1>4. CASE Render
    <2>1. /\ UNCHANGED <<cmd, opts>> /\ pc = "render" /\ failed = None
          /\ \/ failed' = None
             \/ \E outcome \in Renders(failed', Api) : outcome # "ok"
      BY <1>4 DEF Render, Goto, Exit, RunInv
    <2>2. Api' = Api
      BY <2>1, SameAsked
    <2> QED  BY <2>1, <2>2 DEF Fits
  <1>5. CASE MakeOut \/ Write \/ Finish
    <2>1. UNCHANGED <<cmd, opts, rendered, failed>> /\ pc \in {"render", "write"}
      BY <1>5 DEF MakeOut, Write, Finish, Goto, Exit
    <2>2. Api' = Api
      BY <2>1, SameAsked
    <2> QED  BY <2>1, <2>2 DEF Fits
  <1>6. CASE UNCHANGED vars
    <2>1. Api' = Api
      BY <1>6, SameAsked DEF vars
    <2> QED  BY <1>6, <2>1 DEF vars, Fits
  <1> QED  BY <1>1, <1>2, <1>3, <1>4, <1>5, <1>6 DEF Next

-----------------------------------------------------------------------------
\* TypeOK: every variable has its type, in particular only what was chosen renders and only
\* what has rendered is written (main.go's generateOnce).
THEOREM CommandTypes == Spec => []TypeOK
  <1>1. (TypeOK /\ RunInv) /\ [Next]_vars => (TypeOK /\ RunInv)'
    BY NextType, NextRun
  <1> QED  BY <1>1, InitOK, PTL DEF Spec

\* How far a run has come, at every step of it.
THEOREM CommandCorrect == Spec => []RunInv
  <1>1. (TypeOK /\ RunInv) /\ [Next]_vars => (TypeOK /\ RunInv)'
    BY NextType, NextRun
  <1> QED  BY <1>1, InitOK, PTL DEF Spec

\* AllOrNothing: no file changes unless every generator asked for, by flag or goduct.json,
\* has rendered (main.go:324), whatever the generators are.
THEOREM NothingPartial == Spec => []AllOrNothing
  <1>1. ASSUME TypeOK, RunInv PROVE AllOrNothing
    <2>1. CASE Untouched
      BY <2>1 DEF Untouched, AllOrNothing
    <2>2. CASE Complete
      BY <1>1, <2>2 DEF Complete, RunInv, Rendered, AllOrNothing
    <2> QED  BY <1>1, <2>1, <2>2 DEF TypeOK, RunInv
  <1> QED  BY <1>1, CommandTypes, CommandCorrect, PTL

\* ExitTells: exit code 0 means that just what was asked for is new on disk, exit code 2
\* that nothing changed (main.go:464).
THEOREM ExitCodes == Spec => []ExitTells
  <1>1. ASSUME TypeOK, RunInv PROVE ExitTells
    <2>1. CASE exit = 0
      <3>1. Complete /\ Unwritten /\ Written /\ written = Chosen
        BY <1>1, <2>1 DEF TypeOK, RunInv, Running
      <3> QED  BY <2>1, <3>1 DEF Complete, Unwritten, Written, ExitTells
    <2>2. CASE exit = 2
      <3>1. Untouched
        BY <1>1, <2>2 DEF TypeOK, RunInv, Running
      <3> QED  BY <2>2, <3>1 DEF Untouched, ExitTells
    <2> QED  BY <2>1, <2>2 DEF ExitTells
  <1> QED  BY <1>1, CommandTypes, CommandCorrect, PTL

-----------------------------------------------------------------------------
\* Every non-empty set of naturals has a least element.
LEMMA Least ==
  ASSUME NEW S, S \subseteq Nat, S # {}
  PROVE  \E m \in S : \A n \in S : m <= n
  <1> DEFINE R == {p \in Nat \X Nat : p[1] < p[2]}
  <1>1. IsWellFoundedOn(R, Nat)
    BY NatLessThanWellFounded DEF OpToRel
  <1>2. PICK m \in S : \A n \in S : ~(<<n, m>> \in R)
    BY <1>1, WFMin
  <1>3. ASSUME NEW n \in S PROVE m <= n
    <2>1. ~(n < m)
      BY <1>2
    <2> QED  BY <2>1
  <1> QED  BY <1>3

Closed(next, Z) == \A z \in Z : next[z] \subseteq Z
Kept(next, T, X) == {y \in T : \A Z \in SUBSET T : X \subseteq Z /\ Closed(next, Z) => y \in Z}

LEMMA SuccType ==
  ASSUME NEW T, NEW next \in [T -> SUBSET T], NEW X \in SUBSET T
  PROVE  Successors(next, X) \in SUBSET T /\ X \subseteq Successors(next, X)
         /\ (Successors(next, X) = X => Closed(next, X))
         /\ \A Z \in SUBSET T : X \subseteq Z /\ Closed(next, Z) => Successors(next, X) \subseteq Z
  BY DEF Successors, Closed

LEMMA GrownExists ==
  ASSUME NEW T, NEW next \in [T -> SUBSET T]
  PROVE  \E g : g = [X \in SUBSET DOMAIN next |-> IF Successors(next, X) = X THEN X ELSE g[Successors(next, X)]]
  <1> DEFINE w == [X \in SUBSET T |-> Kept(next, T, X)]
  <1>1. ASSUME NEW X \in SUBSET T
        PROVE  w[X] = IF Successors(next, X) = X THEN X ELSE w[Successors(next, X)]
    <2>1. CASE Successors(next, X) = X
      BY <2>1, SuccType DEF Kept
    <2>2. CASE Successors(next, X) # X
      <3>1. Successors(next, X) \in SUBSET T
        BY SuccType
      <3>2. \A Z \in SUBSET T : Closed(next, Z) => (X \subseteq Z <=> Successors(next, X) \subseteq Z)
        BY SuccType
      <3>3. Kept(next, T, X) = Kept(next, T, Successors(next, X))
        BY <3>1, <3>2 DEF Kept
      <3> QED  BY <2>2, <3>1, <3>3
    <2> QED  BY <2>1, <2>2
  <1>2. w = [X \in SUBSET T |-> IF Successors(next, X) = X THEN X ELSE w[Successors(next, X)]]
    <2>1. w = [X \in SUBSET T |-> w[X]]
      OBVIOUS
    <2> HIDE DEF w
    <2> QED  BY <1>1, <2>1
  <1>3. DOMAIN next = T
    OBVIOUS
  <1> HIDE DEF w
  <1> QED  BY <1>2, <1>3

LEMMA ClosureLeast ==
  ASSUME NEW T, IsFiniteSet(T), NEW next \in [T -> SUBSET T], NEW S \in SUBSET T
  PROVE  /\ Closure(next, S) \in SUBSET T
         /\ S \subseteq Closure(next, S)
         /\ Closed(next, Closure(next, S))
         /\ \A Z \in SUBSET T : S \subseteq Z /\ Closed(next, Z) => Closure(next, S) \subseteq Z
  <1> DEFINE g == CHOOSE f : f = [X \in SUBSET DOMAIN next |-> IF Successors(next, X) = X THEN X ELSE f[Successors(next, X)]]
  <1>1. Closure(next, S) = g[S]
    BY DEF Closure
  <1>2. g = [X \in SUBSET DOMAIN next |-> IF Successors(next, X) = X THEN X ELSE g[Successors(next, X)]]
    BY GrownExists, Zenon
  <1>3. DOMAIN next = T
    OBVIOUS
  <1> HIDE DEF g
  <1> DEFINE Good(X) == /\ g[X] \in SUBSET T /\ X \subseteq g[X] /\ Closed(next, g[X])
                        /\ \A Z \in SUBSET T : X \subseteq Z /\ Closed(next, Z) => g[X] \subseteq Z
             Bad == {n \in Nat : \E X \in SUBSET T : ~Good(X) /\ n = Cardinality(T \ X)}
  <1>4. Bad = {}
    <2> SUFFICES ASSUME Bad # {} PROVE FALSE
      OBVIOUS
    <2>1. PICK n \in Bad : \A m \in Bad : n <= m
      BY Least
    <2>2. PICK X \in SUBSET T : ~Good(X) /\ n = Cardinality(T \ X)
      OBVIOUS
    <2> DEFINE Y == Successors(next, X)
    <2>3. Y \in SUBSET T /\ X \subseteq Y
      BY SuccType
    <2>4. Y # X
      <3>1. SUFFICES ASSUME Y = X PROVE Good(X)
        BY <2>2
      <3>2. g[X] = X
        BY <1>2, <1>3, <3>1
      <3> QED  BY <3>1, <3>2, SuccType
    <2>5. g[X] = g[Y]
      BY <1>2, <1>3, <2>4
    <2>6. ~Good(Y)
      <3>1. SUFFICES ASSUME Good(Y) PROVE Good(X)
        BY <2>2
      <3> QED  BY <2>3, <2>5, <3>1, SuccType
    <2>7. Cardinality(T \ Y) \in Nat /\ Cardinality(T \ X) \in Nat /\ Cardinality(T \ Y) < Cardinality(T \ X)
      <3>1. IsFiniteSet(T \ X) /\ T \ Y \subseteq T \ X /\ T \ Y # T \ X
        BY <2>3, <2>4, FS_Difference
      <3> QED  BY <3>1, FS_Subset, FS_CardinalityType
    <2>8. Cardinality(T \ Y) \in Bad
      BY <2>3, <2>6, <2>7
    <2>9. n <= Cardinality(T \ Y)
      BY <2>1, <2>8
    <2> HIDE DEF Bad, Y
    <2> QED  BY <2>2, <2>7, <2>9
  <1>5. Good(S)
    <2>1. Cardinality(T \ S) \in Nat
      BY FS_Difference, FS_CardinalityType
    <2> QED  BY <1>4, <2>1
  <1> QED  BY <1>1, <1>5

-----------------------------------------------------------------------------
LEMMA TypeRefsFinite == IsFiniteSet(TypeRefs)
  BY TypeRefsAssumption

LEMMA BelowType == Below \in [TypeRefs -> SUBSET TypeRefs]
  <1>1. \A ref \in TypeRefs : ToSet(ref.args) \subseteq TypeRefs
    BY TypeRefsAssumption DEF ToSet
  <1> QED  BY <1>1 DEF Below

LEMMA InsideFacts ==
  ASSUME NEW ref \in TypeRefs
  PROVE  /\ Inside(ref) \in SUBSET TypeRefs /\ ref \in Inside(ref)
         /\ \A e \in Inside(ref) : ToSet(e.args) \subseteq Inside(ref)
         /\ \A Z \in SUBSET TypeRefs : ref \in Z /\ (\A e \in Z : ToSet(e.args) \subseteq Z) => Inside(ref) \subseteq Z
  <1>1. /\ Inside(ref) \in SUBSET TypeRefs /\ {ref} \subseteq Inside(ref)
        /\ Closed(Below, Inside(ref))
        /\ \A Z \in SUBSET TypeRefs : {ref} \subseteq Z /\ Closed(Below, Z) => Inside(ref) \subseteq Z
    BY ClosureLeast, BelowType, TypeRefsFinite DEF Inside
  <1>2. \A Z \in SUBSET TypeRefs : Closed(Below, Z) <=> \A e \in Z : ToSet(e.args) \subseteq Z
    BY DEF Closed, Below
  <1> QED  BY <1>1, <1>2

\* What is inside a part of a TypeRef is inside the TypeRef.
LEMMA InsideInside ==
  ASSUME NEW ref \in TypeRefs, NEW e \in Inside(ref)
  PROVE  e \in TypeRefs /\ Inside(e) \subseteq Inside(ref)
  BY InsideFacts

LEMMA LeavesFacts ==
  ASSUME NEW ref \in TypeRefs
  PROVE  Leaves(ref) \subseteq Inside(ref) /\ \A e \in Leaves(ref) : e.kind # "slice"
  <1>1. Elements \in [TypeRefs -> SUBSET TypeRefs]
    BY BelowType DEF Elements, Below
  <1>2. Closed(Elements, Inside(ref))
    BY InsideFacts DEF Closed, Elements
  <1>3. Closure(Elements, {ref}) \subseteq Inside(ref)
    <2>1. \A Z \in SUBSET TypeRefs : {ref} \subseteq Z /\ Closed(Elements, Z) => Closure(Elements, {ref}) \subseteq Z
      BY <1>1, ClosureLeast, TypeRefsFinite
    <2> QED  BY <2>1, <1>2, InsideFacts
  <1> QED  BY <1>3 DEF Leaves

LEMMA SpineFacts ==
  ASSUME NEW ref \in TypeRefs
  PROVE  /\ Spine(ref) \subseteq Inside(ref)
         /\ ref.kind = "named" => ref \in Spine(ref)
         /\ \A e \in Spine(ref) : e.kind = "named"
         /\ ref.kind = "named" => \A a \in ToSet(ref.args) : Spine(a) \subseteq Spine(ref)
  <1>1. Arguments \in [TypeRefs -> SUBSET TypeRefs]
    BY BelowType DEF Arguments, Below
  <1>2. Closed(Arguments, Inside(ref))
    BY InsideFacts DEF Closed, Arguments
  <1>3. /\ Closure(Arguments, {ref}) \in SUBSET TypeRefs /\ {ref} \subseteq Closure(Arguments, {ref})
        /\ Closed(Arguments, Closure(Arguments, {ref}))
        /\ \A Z \in SUBSET TypeRefs : {ref} \subseteq Z /\ Closed(Arguments, Z) => Closure(Arguments, {ref}) \subseteq Z
    BY <1>1, ClosureLeast, TypeRefsFinite
  <1>4. ASSUME ref.kind = "named", NEW a \in ToSet(ref.args)
        PROVE  Spine(a) \subseteq Spine(ref)
    <2>1. a \in Closure(Arguments, {ref}) /\ a \in TypeRefs
      BY <1>3, <1>4 DEF Closed, Arguments
    <2>2. \A Z \in SUBSET TypeRefs : {a} \subseteq Z /\ Closed(Arguments, Z) => Closure(Arguments, {a}) \subseteq Z
      BY <1>1, <2>1, ClosureLeast, TypeRefsFinite
    <2> QED  BY <1>3, <2>1, <2>2 DEF Spine
  <1> QED  BY <1>2, <1>3, <1>4, InsideFacts DEF Spine

\* What is spelled is inside, and with t. before it where everything is a name.
LEMMA SpellingFacts ==
  ASSUME NEW ref \in TypeRefs
  PROVE  /\ \A s \in Spelling(ref) : s.ref \in Inside(ref)
         /\ (\A e \in Inside(ref) : e.kind = "named") => \A s \in Spelling(ref) : s.as = "qualified"
  <1> DEFINE Spellings == [ref : TypeRefs, as : {"qualified", "plain"}]
  <1>1. SpelledBelow \in [Spellings -> SUBSET Spellings]
    <2>1. \A s \in Spellings : s.ref \in TypeRefs /\ ToSet(s.ref.args) \subseteq TypeRefs
      BY BelowType DEF Below
    <2> QED  BY <2>1 DEF SpelledBelow
  <1>2. IsFiniteSet(Spellings)
    <2> DEFINE Pairs == TypeRefs \X ({"qualified"} \cup {"plain"})
               f == [p \in Pairs |-> [ref |-> p[1], as |-> p[2]]]
    <2>1. IsFiniteSet(Pairs)
      BY FS_Singleton, FS_Union, FS_Product, TypeRefsFinite
    <2>2. f \in [Pairs -> Spellings]
      OBVIOUS
    <2>3. ASSUME NEW s \in Spellings PROVE \E p \in Pairs : f[p] = s
      <3>1. <<s.ref, s.as>> \in Pairs /\ f[<<s.ref, s.as>>] = s
        OBVIOUS
      <3> QED  BY <3>1
    <2> HIDE DEF f, Pairs, Spellings
    <2>4. f \in Surjection(Pairs, Spellings)
      BY <2>2, <2>3 DEF Surjection
    <2> QED  BY <2>1, <2>4, FS_Surjection
  <1>3. ASSUME NEW Z \in SUBSET Spellings, [ref |-> ref, as |-> "qualified"] \in Z, Closed(SpelledBelow, Z)
        PROVE  Spelling(ref) \subseteq Z
    <2> DEFINE start == {[ref |-> ref, as |-> "qualified"]}
    <2>1. start \in SUBSET Spellings /\ start \subseteq Z
      BY <1>3
    <2>2. Spelling(ref) = Closure(SpelledBelow, start)
      BY DEF Spelling
    <2> HIDE DEF Spellings, start
    <2> QED  BY <1>1, <1>2, <1>3, <2>1, <2>2, ClosureLeast
  <1> DEFINE In == {s \in Spellings : s.ref \in Inside(ref)}
             Qualified == {s \in In : s.as = "qualified"}
  <1>4. ASSUME NEW s \in In, NEW d \in SpelledBelow[s]
        PROVE  d \in In /\ (s \in Qualified /\ s.ref.kind = "named" => d \in Qualified)
    <2>1. s.ref \in Inside(ref) /\ s.ref \in TypeRefs /\ ToSet(s.ref.args) \subseteq Inside(ref)
      BY InsideFacts
    <2>2. PICK e \in ToSet(s.ref.args) : d = [ref |-> e, as |-> IF s.ref.kind = "named" THEN s.as ELSE "plain"]
      BY DEF SpelledBelow
    <2>3. e \in Inside(ref) /\ e \in TypeRefs
      BY <2>1, InsideFacts
    <2> QED  BY <2>2, <2>3
  <1>5. [ref |-> ref, as |-> "qualified"] \in Qualified
    BY InsideFacts
  <1>6. Spelling(ref) \subseteq In
    BY <1>3, <1>4, <1>5 DEF Closed
  <1>7. ASSUME \A e \in Inside(ref) : e.kind = "named" PROVE Spelling(ref) \subseteq Qualified
    <2>1. ASSUME NEW s \in Qualified PROVE SpelledBelow[s] \subseteq Qualified
      BY <1>4, <1>7
    <2>2. Closed(SpelledBelow, Qualified)
      BY <2>1 DEF Closed
    <2>3. Qualified \in SUBSET Spellings
      OBVIOUS
    <2> HIDE DEF Qualified, Spellings
    <2> QED  BY <1>3, <1>5, <2>2, <2>3
  <1> QED  BY <1>6, <1>7

-----------------------------------------------------------------------------
\* What the analyzer saw to holds of the API that the generators are given.
LEMMA SamePackage ==
  ASSUME NEW a, NEW b, a.types = b.types, a.routes = b.routes
  PROVE  /\ Analyzed(a) => Analyzed(b)
         /\ ForeignIn(a) = ForeignIn(b)
  <1>1. Routes(a) = Routes(b)
    BY DEF Routes
  <1>2. \A ref : Declares(a, ref) <=> Declares(b, ref)
    BY DEF Declares
  <1>3. \A td, f : AnalyzedField(a, td, f) <=> AnalyzedField(b, td, f)
    BY <1>2 DEF AnalyzedField
  <1>4. \A r : AnalyzedRoute(a, r) <=> AnalyzedRoute(b, r)
    BY <1>2 DEF AnalyzedRoute
  <1>5. Analyzed(a) => Analyzed(b)
    BY <1>1, <1>3, <1>4 DEF Analyzed
  <1>6. FieldRefs(a) = FieldRefs(b) /\ RouteRefs(a) = RouteRefs(b)
    BY <1>1 DEF FieldRefs, RouteRefs
  <1> QED  BY <1>5, <1>6 DEF ForeignIn

LEMMA ApiAnalyzed == TypeOK => Analyzed(Api)
  <1> SUFFICES ASSUME TypeOK PROVE Analyzed(Api)
    OBVIOUS
  <1>1. Analyzed(cmd.source)
    BY AnalyzedAssumption DEF TypeOK
  <1>2. Api.types = cmd.source.types /\ Api.routes = cmd.source.routes
    BY DEF Api
  <1> QED  BY <1>1, <1>2, SamePackage

\* Once a generator has been asked, there is an adapter for every type it may not know.
Accepted == Analyzed(Api) /\ ForeignIn(Api) \subseteq DOMAIN opts.adapters

LEMMA ApiAccepted ==
  ASSUME TypeOK, Fits, failed # None \/ rendered # {}
  PROVE  Accepted /\ Api = ApiOf(cmd)
  <1>1. opts.adapters = ApiOf(cmd).wires /\ Foreign(cmd.source) \subseteq DOMAIN opts.adapters
    BY DEF Fits
  <1>2. Foreign(cmd.source) = ForeignIn(cmd.source)
    BY GeneratorsAssumption DEF TypeOK
  <1>3. Api.types = cmd.source.types /\ Api.routes = cmd.source.routes
    BY DEF Api
  <1>4. ForeignIn(cmd.source) = ForeignIn(Api)
    BY <1>3, SamePackage
  <1>5. Api = ApiOf(cmd)
    BY <1>1 DEF Api, ApiOf
  <1> QED  BY <1>1, <1>2, <1>4, <1>5, ApiAnalyzed DEF Accepted

-----------------------------------------------------------------------------
LEMMA DeclaresInside ==
  ASSUME NEW source, NEW ref, Declares(source, ref), NEW e \in Inside(ref)
  PROVE  Declares(source, e)
  BY InsideInside DEF Declares

\* A type in a route is a name, has no parameter in it and no file.
LEMMA RouteRefFacts ==
  ASSUME Analyzed(Api), NEW r \in Routes(Api), NEW ref \in AllRefs(r)
  PROVE  /\ ref \in TypeRefs /\ ref.kind = "named" /\ ref.name \in DOMAIN Api.types
         /\ \A e \in Inside(ref) : e \in TypeRefs /\ e.kind # "param" /\ ~HasParam(e)
         /\ File \notin BuiltinsIn(ref)
         /\ ref \in RouteTypes(r) \cup r.stream \cup r.socket => Declares(Api, ref)
  <1>1. AnalyzedRoute(Api, r)
    BY DEF Analyzed
  <1>2. ref \in RouteTypes(r) \cup r.stream \cup r.socket => Declares(Api, ref)
    BY <1>1 DEF AnalyzedRoute
  <1>3. ref.kind = "named" /\ ~HasParam(ref) /\ File \notin BuiltinsIn(ref)
    BY <1>1 DEF AnalyzedRoute
  <1>4. ref \in TypeRefs /\ ref.name \in DOMAIN Api.types
    <2>1. CASE ref \in r.errors
      BY <1>1, <2>1 DEF AnalyzedRoute
    <2>2. CASE ref \notin r.errors
      <3>1. Declares(Api, ref)
        BY <1>2, <2>2 DEF AllRefs
      <3>2. ref \in Inside(ref)
        BY <3>1, InsideFacts DEF Declares
      <3> QED  BY <1>3, <3>1, <3>2 DEF Declares
    <2> QED  BY <2>1, <2>2
  <1>5. \A e \in Inside(ref) : e \in TypeRefs /\ e.kind # "param" /\ ~HasParam(e)
    BY <1>3, <1>4, InsideInside DEF HasParam
  <1> QED  BY <1>2, <1>3, <1>4, <1>5

LEMMA FieldFacts ==
  ASSUME Analyzed(Api), NEW t \in DOMAIN Api.types, NEW f \in Api.types[t].fields
  PROVE  /\ AnalyzedField(Api, Api.types[t], f)
         /\ f.type \in TypeRefs /\ f.type \in FieldRefs(Api)
         /\ Api.types[t].params \in Seq(STRING)
  <1>1. AnalyzedField(Api, Api.types[t], f) /\ Api.types[t].params \in Seq(STRING)
    BY DEF Analyzed
  <1>2. f.type \in TypeRefs
    BY <1>1 DEF AnalyzedField, Declares
  <1>3. f.type \in FieldRefs(Api)
    BY DEF FieldRefs
  <1> QED  BY <1>1, <1>2, <1>3

LEMMA ParsedKnown == ParsedBuiltins \subseteq KnownBuiltins
  BY Zenon DEF ParsedBuiltins, KnownBuiltins

\* A builtin of the API is known or has its adapter, whose wire then is what is wrong.
LEMMA UnknownBuiltin ==
  ASSUME Accepted, NEW ref \in FieldRefs(Api) \cup RouteRefs(Api), NEW b \in BuiltinsIn(ref), b # File
  PROVE  /\ b \notin KnownBuiltins => b \in DOMAIN opts.adapters
         /\ ~Spelled(Api, b) => BadWire
  <1>1. b \notin KnownBuiltins => b \in DOMAIN opts.adapters
    <2> DEFINE All == UNION {BuiltinsIn(x) : x \in FieldRefs(Api) \cup RouteRefs(Api)}
    <2>1. b \in All
      OBVIOUS
    <2>2. ForeignIn(Api) = All \ (KnownBuiltins \cup {File})
      BY DEF ForeignIn
    <2> HIDE DEF All
    <2> QED  BY <2>1, <2>2 DEF Accepted
  <1>2. Api.wires = opts.adapters
    BY DEF Api
  <1> QED  BY <1>1, <1>2 DEF Spelled, BadWire

LEMMA RouteBuiltin ==
  ASSUME Accepted, NEW r \in Routes(Api), NEW ref \in AllRefs(r), NEW b \in BuiltinsIn(ref)
  PROVE  /\ b \notin KnownBuiltins => AdaptedArgument
         /\ ~Spelled(Api, b) => BadWire
  <1>1. ref \in RouteRefs(Api)
    BY DEF RouteRefs
  <1>2. b # File
    BY RouteRefFacts DEF Accepted
  <1>3. b \notin KnownBuiltins => b \in DOMAIN opts.adapters
    BY <1>1, <1>2, UnknownBuiltin
  <1>4. ~Spelled(Api, b) => BadWire
    BY <1>1, <1>2, UnknownBuiltin
  <1> QED  BY <1>3, <1>4 DEF AdaptedArgument

\* types and zod.
LEMMA TypesPanicsUnless == Accepted /\ TypesPanics(Api) => BadWire
  <1> SUFFICES ASSUME Accepted, TypesPanics(Api) PROVE BadWire
    OBVIOUS
  <1>1. PICK t \in Emitted(Api) : \E x \in FieldTypes(Api.types[t]) : \E b \in BuiltinsIn(x) : ~Spelled(Api, b)
    BY DEF TypesPanics
  <1>2. PICK f \in Api.types[t].fields :
          f.source \in {"json", "form"} /\ \E b \in BuiltinsIn(f.type) : ~Spelled(Api, b)
    BY <1>1 DEF FieldTypes, From
  <1>3. t \in DOMAIN Api.types
    BY DEF Emitted
  <1>4. AnalyzedField(Api, Api.types[t], f) /\ f.type \in FieldRefs(Api)
    BY <1>2, <1>3, FieldFacts DEF Accepted
  <1>5. \A b \in BuiltinsIn(f.type) : b # File
    BY <1>2, <1>4 DEF AnalyzedField
  <1> QED  BY <1>2, <1>4, <1>5, UnknownBuiltin

\* client.
LEMMA UnadaptedUnless ==
  ASSUME Accepted, NEW r \in Routes(Api), NEW refs \in SUBSET AllRefs(r), Unadapted(refs)
  PROVE  AdaptedArgument
  <1>1. PICK ref \in refs : \E x \in Spelling(ref) : x.ref.kind = "builtin" /\ x.ref.name \notin KnownBuiltins
    BY DEF Unadapted
  <1> PICK s \in Spelling(ref) : s.ref.kind = "builtin" /\ s.ref.name \notin KnownBuiltins
    BY <1>1
  <1>2. ref \in TypeRefs
    BY RouteRefFacts DEF Accepted
  <1>3. s.ref \in Inside(ref)
    BY <1>2, SpellingFacts
  <1>4. s.ref.name \in BuiltinsIn(ref)
    BY <1>3 DEF BuiltinsIn
  <1> QED  BY <1>4, RouteBuiltin

LEMMA ClientPanicsUnless == Accepted /\ ClientPanics(Api) => AdaptedArgument
  <1> SUFFICES ASSUME Accepted, ClientPanics(Api) PROVE AdaptedArgument
    OBVIOUS
  <1>1. PICK r \in Routes(Api) :
          Unadapted(Answer(r)) \/ \E ref \in Validated(r) : ~(BuiltinsIn(ref) \subseteq KnownBuiltins)
    BY DEF ClientPanics
  <1>2. Answer(r) \subseteq AllRefs(r) /\ Validated(r) \subseteq AllRefs(r)
    BY DEF Answer, Validated, AllRefs, RouteTypes
  <1> QED  BY <1>1, <1>2, UnadaptedUnless, RouteBuiltin

\* hooks.
LEMMA HooksPanicsUnless ==
  ASSUME Accepted, HooksPanics(Api)
  PROVE  \/ AdaptedArgument
         \/ \E r \in HookRoutes(Api) : r.method = "GET" /\ r.response = {}
         \/ \E r \in HookRoutes(Api) : r.method # "GET" /\ \E p \in r.params : p.in = "query"
  <1>1. PICK r \in HookRoutes(Api) : HookPanics(r)
    BY DEF HooksPanics
  <1>2. r \in Routes(Api)
    BY DEF HookRoutes
  <1>3. HookTypes(r) \subseteq AllRefs(r)
    BY DEF HookTypes, AllRefs, RouteTypes
  <1>4. Unadapted(HookTypes(r)) => AdaptedArgument
    BY <1>2, <1>3, UnadaptedUnless
  <1>5. Params(r, {"query"}) # {} => \E p \in r.params : p.in = "query"
    BY DEF Params
  <1> QED  BY <1>1, <1>4, <1>5 DEF HookPanics, IsQuery

\* A parameter or a form field is a builtin that all know, or a slice.
LEMMA PrimitiveFacts ==
  ASSUME NEW ref, Primitive(ref), NEW e \in Inside(ref)
  PROVE  e \in TypeRefs /\ (e.kind = "slice" \/ (e.kind = "builtin" /\ e.name \in ParsedBuiltins)) /\ ref \in Inside(ref)
  BY InsideFacts DEF Primitive

\* multipartSchema and uploadFormAssign get the fields of a type the analyzer has seen.
LEMMA FormFacts ==
  ASSUME Analyzed(Api), NEW r \in Routes(Api), NEW ref \in FormTypes(Api, r)
  PROVE  /\ Primitive(ref)
         /\ ref.kind = "slice" =>
              \E t \in DOMAIN Api.types : \E f \in Api.types[t].fields : f.source = "form" /\ f.type.kind = "slice"
  <1>1. PICK b \in r.body : \E f \in UploadFields(Api.types[b.name]) : f.source = "form" /\ ref = f.type
    BY DEF FormTypes, Parts
  <1>2. PICK f \in Api.types[b.name].fields : f.source = "form" /\ ref = f.type
    BY <1>1 DEF UploadFields, From
  <1>3. b.name \in DOMAIN Api.types
    BY RouteRefFacts DEF AllRefs, RouteTypes
  <1>4. Primitive(f.type)
    BY <1>2, <1>3, FieldFacts DEF AnalyzedField
  <1> QED  BY <1>2, <1>3, <1>4

\* go-adapter.
LEMMA AdapterPanicsUnless ==
  ASSUME Accepted, AdapterPanics(Api)
  PROVE  \/ \E r \in Routes(Api) : \E p \in r.params : p.in = "query" /\ p.type.kind = "slice"
         \/ \E t \in DOMAIN Api.types : \E f \in Api.types[t].fields : f.source = "form" /\ f.type.kind = "slice"
  <1>1. PICK r \in Routes(Api) :
          \E ref \in {p.type : p \in Params(r, {"query"})} \cup (IF Unary(r) THEN FormTypes(Api, r) ELSE {}) :
            ref.kind # "builtin" \/ ref.name \notin ParsedBuiltins
    BY DEF AdapterPanics
  <1>2. PICK ref \in {p.type : p \in Params(r, {"query"})} \cup FormTypes(Api, r) :
          ref.kind # "builtin" \/ ref.name \notin ParsedBuiltins
    BY <1>1
  <1>3. Primitive(ref)
    <2>1. CASE ref \in FormTypes(Api, r)
      BY <2>1, FormFacts DEF Accepted
    <2>2. CASE ref \in {p.type : p \in Params(r, {"query"})}
      BY <2>2 DEF Accepted, Analyzed, AnalyzedRoute, Params
    <2> QED  BY <2>1, <2>2
  <1>4. ref.kind = "slice"
    <2>1. ref \in Inside(ref)
      BY <1>3, InsideFacts DEF Primitive
    <2> QED  BY <1>2, <1>3, <2>1, PrimitiveFacts
  <1>5. CASE ref \in FormTypes(Api, r)
    BY <1>4, <1>5, FormFacts DEF Accepted
  <1>6. CASE ref \in {p.type : p \in Params(r, {"query"})}
    BY <1>4, <1>6 DEF Params
  <1> QED  BY <1>5, <1>6

-----------------------------------------------------------------------------
LEMMA InsideAlone ==
  ASSUME NEW ref \in TypeRefs, ref.args = <<>>
  PROVE  Inside(ref) = {ref}
  <1>1. ToSet(ref.args) = {}
    BY DEF ToSet
  <1>2. Inside(ref) \subseteq {ref}
    BY <1>1, InsideFacts
  <1> QED  BY <1>2, InsideFacts

LEMMA HasParamIs ==
  ASSUME NEW ref \in TypeRefs, HasParam(ref)
  PROVE  ref.kind # "builtin" /\ (ref.kind = "named" => IsGeneric(ref))
  <1>1. ref.args = <<>> => ref.kind = "param"
    BY InsideAlone DEF HasParam
  <1>2. ref.kind = "builtin" => ref.args = <<>>
    BY TypeRefsAssumption
  <1> QED  BY <1>1, <1>2 DEF IsGeneric

\* A parameter of a generic is bound to one of the arguments.
LEMMA BindFacts ==
  ASSUME NEW td, td.params \in Seq(STRING), NEW args \in Seq(TypeRefs), Len(args) = Len(td.params)
  PROVE  /\ DOMAIN Bind(td, args) = ToSet(td.params)
         /\ \A p \in ToSet(td.params) : Bind(td, args)[p] \in ToSet(args)
  <1>1. ASSUME NEW p \in ToSet(td.params) PROVE Bind(td, args)[p] \in ToSet(args)
    <2> DEFINE i == CHOOSE j \in DOMAIN td.params : td.params[j] = p
    <2>1. i \in DOMAIN td.params
      BY DEF ToSet
    <2>2. i \in DOMAIN args
      BY <2>1
    <2>3. Bind(td, args)[p] = args[i]
      BY DEF Bind
    <2> HIDE DEF i
    <2> QED  BY <2>2, <2>3 DEF ToSet
  <1> QED  BY <1>1 DEF Bind

LEMMA ArgsType ==
  ASSUME NEW ref \in TypeRefs
  PROVE  ref.args \in Seq(TypeRefs) /\ ToSet(ref.args) \subseteq TypeRefs
         /\ \A a \in ToSet(ref.args) : a \in Inside(ref)
  <1>1. ref.args \in Seq(TypeRefs)
    BY TypeRefsAssumption
  <1>2. ToSet(ref.args) \subseteq TypeRefs
    BY <1>1 DEF ToSet
  <1> QED  BY <1>1, <1>2, InsideFacts

\* What openapi collects instantiations from: types of the package in its routes and fields.
LEMMA MentionedFacts ==
  ASSUME Analyzed(Api), NEW m \in Mentioned(Api)
  PROVE  /\ m \in TypeRefs /\ Declares(Api, m) /\ m \in FieldRefs(Api) \cup RouteRefs(Api)
         /\ (\E e \in Inside(m) : e.kind = "named") => File \notin BuiltinsIn(m)
         /\ (\E i \in Inside(m) : IsGeneric(i) /\ HasParam(i)) => \E t \in DOMAIN Api.types : Hands(t)
  <1>1. CASE \E r \in Routes(Api) : m \in RouteTypes(r)
    <2>1. PICK r \in Routes(Api) : m \in RouteTypes(r)
      BY <1>1
    <2>2. m \in AllRefs(r) /\ m \in RouteRefs(Api)
      BY <2>1 DEF AllRefs, RouteRefs
    <2> QED  BY <2>1, <2>2, RouteRefFacts
  <1>2. CASE \E t \in DOMAIN Api.types : \E f \in Api.types[t].fields : m = f.type
    <2>1. PICK t \in DOMAIN Api.types : \E f \in Api.types[t].fields : m = f.type
      BY <1>2
    <2>2. PICK f \in Api.types[t].fields : m = f.type
      BY <2>1
    <2>3. AnalyzedField(Api, Api.types[t], f) /\ m \in FieldRefs(Api) /\ m \in TypeRefs
      BY <2>2, FieldFacts
    <2>4. (\E e \in Inside(m) : e.kind = "named") => File \notin BuiltinsIn(m)
      BY <2>2, <2>3 DEF AnalyzedField
    <2>5. (\E i \in Inside(m) : IsGeneric(i) /\ HasParam(i)) => Hands(t)
      BY <2>2 DEF Hands
    <2> QED  BY <2>2, <2>3, <2>4, <2>5 DEF AnalyzedField
  <1>3. (\E r \in Routes(Api) : m \in RouteTypes(r)) \/ \E t \in DOMAIN Api.types : \E f \in Api.types[t].fields : m = f.type
    BY DEF Mentioned
  <1> QED  BY <1>1, <1>2, <1>3

LEMMA InstantiationFacts ==
  ASSUME Analyzed(Api), NEW i \in Instantiations(Api)
  PROVE  /\ i \in TypeRefs /\ IsGeneric(i) /\ Declares(Api, i)
         /\ HasParam(i) => \E t \in DOMAIN Api.types : Hands(t)
         /\ \E m \in Mentioned(Api) : i \in Inside(m) /\ File \notin BuiltinsIn(m)
  <1>1. PICK m \in Mentioned(Api) : i \in Inside(m)
    BY DEF Instantiations
  <1>2. IsGeneric(i)
    BY DEF Instantiations
  <1>3. m \in TypeRefs /\ Declares(Api, m)
    BY MentionedFacts
  <1>4. i \in TypeRefs /\ Declares(Api, i)
    BY <1>1, <1>3, DeclaresInside, InsideInside
  <1>5. HasParam(i) => \E t \in DOMAIN Api.types : Hands(t)
    BY <1>1, <1>2, MentionedFacts
  <1>6. File \notin BuiltinsIn(m)
    BY <1>1, <1>2, MentionedFacts DEF IsGeneric
  <1> QED  BY <1>1, <1>2, <1>4, <1>5, <1>6

\* A component is a type of the package with as many arguments as it has parameters.
LEMMA BuiltFacts ==
  ASSUME Analyzed(Api), NEW c \in Plain(Api) \cup Instantiations(Api)
  PROVE  /\ c.name \in DOMAIN Api.types /\ Api.types[c.name].params \in Seq(STRING)
         /\ c.args \in Seq(TypeRefs) /\ Len(c.args) = Len(Api.types[c.name].params)
         /\ c \in Plain(Api) => c.args = <<>>
  <1>1. CASE c \in Plain(Api)
    <2>1. PICK t \in Emitted(Api) : Api.types[t].params = <<>> /\ c = Named(t, <<>>)
      BY <1>1 DEF Plain
    <2>2. c.name = t /\ c.args = <<>> /\ t \in DOMAIN Api.types
      BY <2>1 DEF Named, Emitted
    <2>3. <<>> \in Seq(TypeRefs) /\ <<>> \in Seq(STRING)
      OBVIOUS
    <2>4. c.args \in Seq(TypeRefs) /\ Api.types[c.name].params \in Seq(STRING) /\ c.args = Api.types[c.name].params
      BY <2>1, <2>2, <2>3
    <2> QED  BY <2>2, <2>4
  <1>2. CASE c \in Instantiations(Api)
    <2>1. c \in TypeRefs /\ IsGeneric(c) /\ Declares(Api, c)
      BY <1>2, InstantiationFacts
    <2>2. c.name \in DOMAIN Api.types /\ Len(c.args) = Len(Api.types[c.name].params)
      BY <2>1, InsideFacts DEF IsGeneric, Declares
    <2>3. Api.types[c.name].params \in Seq(STRING) /\ c.args \in Seq(TypeRefs)
      BY <2>1, <2>2, ArgsType DEF Analyzed
    <2>4. c \notin Plain(Api)
      BY <2>1 DEF Plain, Named, IsGeneric
    <2> QED  BY <2>2, <2>3, <2>4
  <1> QED  BY <1>1, <1>2

\* What the schema of a component refers to is inside a type openapi has seen, also where
\* arguments take the place of parameters; only a generic that hands its own on leaves one.
LEMMA SchemaTypesFacts ==
  ASSUME Analyzed(Api), NEW c \in Plain(Api) \cup Instantiations(Api), NEW x \in SchemaTypes(Api, c)
  PROVE  /\ \E m \in Mentioned(Api) : x \in Inside(m) /\ File \notin BuiltinsIn(m)
         /\ x.kind # "slice"
         /\ HasParam(x) => \E t \in DOMAIN Api.types : Hands(t)
  <1> DEFINE td == Api.types[c.name]
             bind == Bind(td, c.args)
  <1>1. c.name \in DOMAIN Api.types /\ td.params \in Seq(STRING) /\ c.args \in Seq(TypeRefs) /\ Len(c.args) = Len(td.params)
    BY BuiltFacts
  <1>2. PICK f \in WireFields(td) : x \in Subst(f.type, bind)
    BY DEF SchemaTypes
  <1>3. f \in td.fields /\ f.source = "json"
    BY DEF WireFields, From
  <1>4. AnalyzedField(Api, td, f) /\ f.type \in TypeRefs /\ f.type \in Mentioned(Api)
    BY <1>1, <1>3, FieldFacts DEF Mentioned
  <1>5. DOMAIN bind = ToSet(td.params) /\ \A p \in ToSet(td.params) : bind[p] \in ToSet(c.args)
    BY <1>1, BindFacts
  <1> HIDE DEF bind, td
  <1>6. PICK e \in Leaves(f.type) :
          x \in IF e.kind = "param" /\ e.name \in DOMAIN bind THEN Leaves(bind[e.name]) ELSE {e}
    BY <1>2 DEF Subst
  <1>7. e \in Inside(f.type) /\ e \in TypeRefs /\ e.kind # "slice"
    BY <1>4, LeavesFacts, InsideInside
  <1>8. CASE e.kind = "param"
    <2>1. e.name \in DOMAIN bind
      BY <1>4, <1>5, <1>7, <1>8 DEF AnalyzedField
    <2>2. x \in Leaves(bind[e.name]) /\ bind[e.name] \in ToSet(c.args)
      BY <1>5, <1>6, <1>8, <2>1
    <2>3. c \in Instantiations(Api)
      <3>1. c.args # <<>>
        BY <2>2 DEF ToSet
      <3> QED  BY <3>1, BuiltFacts
    <2>4. c \in TypeRefs /\ IsGeneric(c)
      BY <2>3, InstantiationFacts
    <2>5. bind[e.name] \in Inside(c) /\ bind[e.name] \in TypeRefs
      BY <2>2, <2>4, ArgsType
    <2>6. x \in Inside(c) /\ x.kind # "slice"
      BY <2>2, <2>4, <2>5, LeavesFacts, InsideInside
    <2>7. PICK m \in Mentioned(Api) : c \in Inside(m) /\ File \notin BuiltinsIn(m)
      BY <2>3, InstantiationFacts
    <2>8. x \in Inside(m)
      BY <2>6, <2>7, InsideInside, MentionedFacts
    <2>9. HasParam(x) => HasParam(c)
      BY <2>4, <2>6, InsideInside DEF HasParam
    <2> QED  BY <2>3, <2>6, <2>7, <2>8, <2>9, InstantiationFacts
  <1>9. CASE e.kind # "param"
    <2>1. x = e
      BY <1>6, <1>9
    <2>2. File \notin BuiltinsIn(f.type)
      BY <1>3, <1>4 DEF AnalyzedField
    <2>3. HasParam(x) => IsGeneric(x)
      <3>1. x.kind \in {"builtin", "param", "slice", "named"}
        BY <1>7, <2>1, TypeRefsAssumption
      <3> QED  BY <1>7, <1>9, <2>1, <3>1, HasParamIs
    <2> QED  BY <1>4, <1>7, <2>1, <2>2, <2>3, MentionedFacts
  <1> QED  BY <1>8, <1>9

LEMMA BuiltType == Built(Api) \subseteq Plain(Api) \cup Instantiations(Api)
  BY DEF Built

\* Where a leaf of a type in an operation comes from.
LEMMA OperationLeaf ==
  ASSUME Analyzed(Api), NEW r \in Routes(Api), NEW q \in OperationTypes(Api, r)
  PROVE  /\ q \in TypeRefs
         /\ Primitive(q) \/ q \in AllRefs(r)
         /\ \A e \in Inside(q) : ~HasParam(e)
  <1>1. Primitive(q) \/ q \in AllRefs(r)
    BY DEF OperationTypes, AllRefs, RouteTypes, Analyzed, AnalyzedRoute
  <1>2. CASE Primitive(q)
    <2>1. q \in TypeRefs
      BY <1>2 DEF Primitive
    <2>2. \A e \in Inside(q) : Inside(e) \subseteq Inside(q)
      BY <2>1, InsideInside
    <2>3. \A e \in Inside(q) : e.kind # "param"
      BY <1>2 DEF Primitive
    <2> QED  BY <1>1, <2>1, <2>2, <2>3 DEF HasParam
  <1>3. CASE q \in AllRefs(r)
    BY <1>1, <1>3, RouteRefFacts
  <1> QED  BY <1>1, <1>2, <1>3

\* openapi.
LEMMA OpenAPIPanicsUnless ==
  ASSUME Accepted, OpenAPIPanics(Api)
  PROVE  \/ BadWire
         \/ \E t \in DOMAIN Api.types : Hands(t)
         \/ \E t \in DOMAIN Api.types : \E f \in Api.types[t].fields : f.source = "form" /\ f.type.kind = "slice"
  <1>0. Analyzed(Api)
    BY DEF Accepted
  <1>1. CASE \E i \in Instantiations(Api) : HasParam(i)
    BY <1>0, <1>1, InstantiationFacts
  <1>2. CASE \E ref \in OpenAPITypes(Api) : HasParam(ref) \/ (ref.kind = "builtin" /\ ~Spelled(Api, ref.name))
    <2>1. PICK ref \in OpenAPITypes(Api) : HasParam(ref) \/ (ref.kind = "builtin" /\ ~Spelled(Api, ref.name))
      BY <1>2
    <2>2. \/ \E r \in Routes(Api) : \E q \in OperationTypes(Api, r) : ref \in Leaves(q)
          \/ \E c \in Built(Api) : ref \in SchemaTypes(Api, c)
      BY DEF OpenAPITypes, Described
    <2>3. CASE \E r \in Routes(Api) : \E q \in OperationTypes(Api, r) : ref \in Leaves(q)
      <3>1. PICK r \in Routes(Api) : \E q \in OperationTypes(Api, r) : ref \in Leaves(q)
        BY <2>3
      <3>2. PICK q \in OperationTypes(Api, r) : ref \in Leaves(q)
        BY <3>1
      <3>3. q \in TypeRefs /\ ref \in Inside(q) /\ ~HasParam(ref)
        BY <1>0, <3>2, OperationLeaf, LeavesFacts
      <3>4. ref.kind = "builtin" /\ ~Spelled(Api, ref.name)
        BY <2>1, <3>3
      <3>5. CASE Primitive(q)
        <4>1. ref.name \in KnownBuiltins
          BY <3>3, <3>4, <3>5, ParsedKnown, PrimitiveFacts
        <4> QED  BY <3>4, <4>1 DEF Spelled
      <3>6. CASE q \in AllRefs(r)
        <4>1. ref.name \in BuiltinsIn(q)
          BY <3>3, <3>4 DEF BuiltinsIn
        <4> QED  BY <3>4, <3>6, <4>1, RouteBuiltin
      <3> QED  BY <1>0, <3>5, <3>6, OperationLeaf
    <2>4. CASE \E c \in Built(Api) : ref \in SchemaTypes(Api, c)
      <3>1. PICK c \in Plain(Api) \cup Instantiations(Api) : ref \in SchemaTypes(Api, c)
        BY <2>4, BuiltType
      <3>2. PICK m \in Mentioned(Api) : ref \in Inside(m) /\ File \notin BuiltinsIn(m)
        BY <1>0, <3>1, SchemaTypesFacts
      <3>3. CASE HasParam(ref)
        BY <1>0, <3>1, <3>3, SchemaTypesFacts
      <3>4. CASE ref.kind = "builtin" /\ ~Spelled(Api, ref.name)
        <4>1. ref.name \in BuiltinsIn(m)
          BY <3>2, <3>4 DEF BuiltinsIn
        <4>2. m \in FieldRefs(Api) \cup RouteRefs(Api)
          BY <1>0, MentionedFacts
        <4>3. ref.name # File
          BY <3>2, <4>1
        <4> QED  BY <3>4, <4>1, <4>2, <4>3, UnknownBuiltin
      <3> QED  BY <2>1, <3>3, <3>4
    <2> QED  BY <2>2, <2>3, <2>4
  <1>3. CASE \E r \in Described(Api) : \E ref \in FormTypes(Api, r) : ref.kind # "builtin" \/ ~Spelled(Api, ref.name)
    <2>1. PICK r \in Routes(Api) : \E ref \in FormTypes(Api, r) : ref.kind # "builtin" \/ ~Spelled(Api, ref.name)
      BY <1>3 DEF Described
    <2>2. PICK ref \in FormTypes(Api, r) : ref.kind # "builtin" \/ ~Spelled(Api, ref.name)
      BY <2>1
    <2>3. Primitive(ref)
      BY <1>0, FormFacts
    <2>4. ref \in Inside(ref)
      BY <2>3, InsideFacts DEF Primitive
    <2>5. ref.kind = "builtin" => Spelled(Api, ref.name)
      BY <2>3, <2>4, ParsedKnown, PrimitiveFacts DEF Spelled
    <2>6. ref.kind = "slice"
      BY <2>2, <2>3, <2>4, <2>5, PrimitiveFacts
    <2> QED  BY <1>0, <2>6, FormFacts
  <1> QED  BY <1>1, <1>2, <1>3 DEF OpenAPIPanics

-----------------------------------------------------------------------------
(***************************************************************************)
(* exampleFor comes to an end where no type holds itself and no generic    *)
(* hands its parameter on: a call for a field has fewer types before it,   *)
(* one for an argument a smaller TypeRef.                                  *)
(***************************************************************************)
\* The types that a TypeRef may still come to.
Uses(ref) == Closure(Holds, {e.name : e \in Spine(ref)})

LEMMA HoldsType ==
  ASSUME Analyzed(Api)
  PROVE  /\ Holds \in [DOMAIN Api.types -> SUBSET DOMAIN Api.types]
         /\ \A t \in DOMAIN Api.types : \A f \in WireFields(Api.types[t]) : {e.name : e \in Spine(f.type)} \subseteq Holds[t]
  <1>1. ASSUME NEW t \in DOMAIN Api.types, NEW f \in WireFields(Api.types[t]), NEW e \in Spine(f.type)
        PROVE  e.name \in DOMAIN Api.types
    <2>1. f \in Api.types[t].fields
      BY DEF WireFields, From
    <2>2. Declares(Api, f.type) /\ f.type \in TypeRefs
      BY <2>1, FieldFacts DEF AnalyzedField
    <2>3. e \in Inside(f.type) /\ e.kind = "named"
      BY <2>2, SpineFacts
    <2> QED  BY <2>2, <2>3 DEF Declares
  <1> QED  BY <1>1 DEF Holds

LEMMA UsesFacts ==
  ASSUME Analyzed(Api), NEW ref, Declares(Api, ref)
  PROVE  /\ Uses(ref) \in SUBSET DOMAIN Api.types
         /\ \A e \in Spine(ref) : e.name \in Uses(ref)
         /\ Closed(Holds, Uses(ref))
         /\ \A Z \in SUBSET DOMAIN Api.types : (\A e \in Spine(ref) : e.name \in Z) /\ Closed(Holds, Z) => Uses(ref) \subseteq Z
  <1> DEFINE start == {e.name : e \in Spine(ref)}
  <1>1. start \in SUBSET DOMAIN Api.types
    BY SpineFacts DEF Declares
  <1>2. IsFiniteSet(DOMAIN Api.types)
    BY DEF Analyzed
  <1>3. \A Z : start \subseteq Z <=> \A e \in Spine(ref) : e.name \in Z
    OBVIOUS
  <1>4. Uses(ref) = Closure(Holds, start)
    BY DEF Uses
  <1>5. Holds \in [DOMAIN Api.types -> SUBSET DOMAIN Api.types]
    BY HoldsType
  <1> HIDE DEF start
  <1>6. /\ Uses(ref) \in SUBSET DOMAIN Api.types /\ start \subseteq Uses(ref) /\ Closed(Holds, Uses(ref))
        /\ \A Z \in SUBSET DOMAIN Api.types : start \subseteq Z /\ Closed(Holds, Z) => Uses(ref) \subseteq Z
    BY <1>1, <1>2, <1>4, <1>5, ClosureLeast
  <1> QED  BY <1>3, <1>6

LEMMA UsesArg ==
  ASSUME Analyzed(Api), NEW ref, Declares(Api, ref), ref.kind = "named", NEW a \in ToSet(ref.args)
  PROVE  Declares(Api, a) /\ Uses(a) \subseteq Uses(ref)
  <1>1. ref \in TypeRefs
    BY DEF Declares
  <1>2. Declares(Api, a)
    BY <1>1, ArgsType, DeclaresInside
  <1>3. Spine(a) \subseteq Spine(ref)
    BY <1>1, SpineFacts
  <1> QED  BY <1>2, <1>3, UsesFacts

LEMMA UsesField ==
  ASSUME Analyzed(Api), NEW ref, Declares(Api, ref), ref.kind = "named", ~HoldsItself(ref.name),
         NEW f \in WireFields(Api.types[ref.name])
  PROVE  /\ AnalyzedField(Api, Api.types[ref.name], f) /\ Declares(Api, f.type)
         /\ Uses(f.type) \subseteq Uses(ref)
         /\ ref.name \in Uses(ref) /\ ref.name \notin Uses(f.type)
  <1>1. ref.name \in DOMAIN Api.types /\ ref \in Spine(ref)
    BY InsideFacts, SpineFacts DEF Declares
  <1>2. AnalyzedField(Api, Api.types[ref.name], f) /\ Declares(Api, f.type)
    BY <1>1, FieldFacts DEF WireFields, From, AnalyzedField
  <1>3. \A e \in Spine(f.type) : e.name \in Holds[ref.name]
    BY <1>1, HoldsType
  <1>4. ref.name \in Uses(ref) /\ Holds[ref.name] \subseteq Uses(ref)
    BY <1>1, UsesFacts DEF Closed
  <1>5. Uses(f.type) \subseteq Uses(ref)
    BY <1>2, <1>3, <1>4, UsesFacts
  <1>6. ref.name \notin Uses(f.type)
    <2> DEFINE H == Holds[ref.name]
    <2>1. Holds \in [DOMAIN Api.types -> SUBSET DOMAIN Api.types] /\ H \in SUBSET DOMAIN Api.types
      BY <1>1, HoldsType
    <2>2. IsFiniteSet(DOMAIN Api.types)
      BY DEF Analyzed
    <2>3. ref.name \notin Closure(Holds, H)
      BY DEF HoldsItself
    <2> HIDE DEF H
    <2>4. Closure(Holds, H) \in SUBSET DOMAIN Api.types /\ H \subseteq Closure(Holds, H) /\ Closed(Holds, Closure(Holds, H))
      BY <2>1, <2>2, ClosureLeast
    <2>5. Uses(f.type) \subseteq Closure(Holds, H)
      BY <1>2, <1>3, <2>4, UsesFacts DEF H
    <2> QED  BY <2>3, <2>5
  <1> QED  BY <1>2, <1>4, <1>5, <1>6

Pairs == [ref : TypeRefs, of : TypeRefs]

LEMMA PairsFinite == IsFiniteSet(Pairs)
  <1> DEFINE Both == TypeRefs \X TypeRefs
             f == [p \in Both |-> [ref |-> p[1], of |-> p[2]]]
  <1>1. IsFiniteSet(Both)
    BY FS_Product, TypeRefsFinite
  <1>2. f \in [Both -> Pairs]
    BY DEF Pairs
  <1>3. ASSUME NEW c \in Pairs PROVE \E p \in Both : f[p] = c
    <2>1. <<c.ref, c.of>> \in Both /\ f[<<c.ref, c.of>>] = c
      BY DEF Pairs
    <2> QED  BY <2>1
  <1> HIDE DEF f, Both
  <1>4. f \in Surjection(Both, Pairs)
    BY <1>2, <1>3 DEF Surjection
  <1> QED  BY <1>1, <1>4, FS_Surjection

\* The parameters of a generic are bound to its arguments, for any other TypeRef nothing is.
LEMMA BoundFacts ==
  ASSUME Analyzed(Api), NEW of \in TypeRefs, NEW p \in DOMAIN Bound(Api, of)
  PROVE  Binds(Api, of) /\ Bound(Api, of)[p] \in ToSet(of.args) /\ Bound(Api, of)[p] \in TypeRefs
  <1>1. Binds(Api, of)
    BY DEF Bound
  <1>2. Bound(Api, of) = Bind(Api.types[of.name], of.args)
    BY <1>1 DEF Bound
  <1>3. Api.types[of.name].params \in Seq(STRING) /\ of.args \in Seq(TypeRefs) /\ Len(of.args) = Len(Api.types[of.name].params)
    BY <1>1, ArgsType DEF Analyzed, Binds
  <1> QED  BY <1>1, <1>2, <1>3, BindFacts, ArgsType

\* A call for a field is for a TypeRef of the package; one for a parameter for its argument.
LEMMA CallsOf ==
  ASSUME Analyzed(Api), NEW c \in Pairs, NEW d \in ExampleCalls(Api)[c]
  PROVE  /\ d \in Pairs
         /\ \/ c.ref.kind = "param" /\ c.ref.name \in DOMAIN Bound(Api, c.of) /\ d = [ref |-> Bound(Api, c.of)[c.ref.name], of |-> c.of]
            \/ /\ c.ref.kind = "named" /\ c.ref.name \in DOMAIN Api.types
               /\ \E f \in WireFields(Api.types[c.ref.name]) : d = [ref |-> f.type, of |-> IF Binds(Api, c.ref) THEN c.ref ELSE c.of]
  <1>1. c.ref \in TypeRefs /\ c.of \in TypeRefs
    BY DEF Pairs
  <1>2. CASE c.ref.kind = "param" /\ c.ref.name \in DOMAIN Bound(Api, c.of)
    <2>1. d = [ref |-> Bound(Api, c.of)[c.ref.name], of |-> c.of]
      BY <1>2 DEF ExampleCalls, Pairs
    <2>2. Bound(Api, c.of)[c.ref.name] \in TypeRefs
      BY <1>1, <1>2, BoundFacts
    <2> QED  BY <1>1, <1>2, <2>1, <2>2 DEF Pairs
  <1>3. CASE c.ref.kind = "named" /\ c.ref.name \in DOMAIN Api.types
    <2>1. PICK f \in WireFields(Api.types[c.ref.name]) : d = [ref |-> f.type, of |-> IF Binds(Api, c.ref) THEN c.ref ELSE c.of]
      BY <1>3 DEF ExampleCalls, Pairs, ExampleFields
    <2>2. f.type \in TypeRefs
      BY <1>3, FieldFacts DEF WireFields, From
    <2> QED  BY <1>1, <1>3, <2>1, <2>2 DEF Pairs
  <1> QED  BY <1>2, <1>3 DEF ExampleCalls, Pairs

LEMMA CallsType ==
  ASSUME Analyzed(Api)
  PROVE  ExampleCalls(Api) \in [Pairs -> SUBSET Pairs]
  <1>1. \A c \in Pairs : ExampleCalls(Api)[c] \in SUBSET Pairs
    BY CallsOf
  <1>2. ExampleCalls(Api) = [c \in Pairs |-> ExampleCalls(Api)[c]]
    BY DEF ExampleCalls, Pairs
  <1> QED  BY <1>1, <1>2

\* A pair that exampleFor comes to: a TypeRef without a parameter, or a field of the generic
\* whose arguments are bound, with that generic's parameters.
Proper(c) ==
  /\ c \in Pairs /\ Declares(Api, c.ref)
  /\ HasParam(c.ref) =>
       /\ Binds(Api, c.of) /\ Declares(Api, c.of) /\ ~HasParam(c.of)
       /\ \A e \in Inside(c.ref) : e.kind = "param" => e.name \in DOMAIN Bound(Api, c.of)
       /\ \A e \in Inside(c.ref) : ~(IsGeneric(e) /\ HasParam(e))

Before(c) == IF HasParam(c.ref) THEN Uses(c.of) ELSE Uses(c.ref)
Size(c) ==
  IF HasParam(c.ref) THEN (Inside(c.of) \X {0, 1}) \ {<<c.of, 1>>} ELSE Inside(c.ref) \X {0, 1}
Less(d, c) ==
  /\ Before(d) \subseteq Before(c)
  /\ Before(d) = Before(c) => Size(d) \subseteq Size(c) /\ Size(d) # Size(c)

LEMMA LessOrder ==
  ASSUME NEW c, NEW d, NEW e
  PROVE  ~Less(c, c) /\ (Less(e, d) /\ Less(d, c) => Less(e, c))
  BY DEF Less

Endable == \A t \in DOMAIN Api.types : ~HoldsItself(t) /\ ~Hands(t)

\* For an argument the TypeRef is a part of the generic.
LEMMA ArgumentCall ==
  ASSUME Analyzed(Api), NEW c, Proper(c), c.ref.kind = "param", c.ref.name \in DOMAIN Bound(Api, c.of),
         NEW d \in Pairs, d = [ref |-> Bound(Api, c.of)[c.ref.name], of |-> c.of]
  PROVE  Proper(d) /\ Less(d, c)
  <1> DEFINE of == c.of
             a == d.ref
  <1>1. c.ref \in TypeRefs /\ of \in TypeRefs
    BY DEF Proper, Pairs
  <1>2. HasParam(c.ref)
    BY <1>1, InsideFacts DEF HasParam
  <1>3. Binds(Api, of) /\ Declares(Api, of) /\ ~HasParam(of) /\ of.kind = "named"
    BY <1>2 DEF Proper, Binds
  <1>4. a \in ToSet(of.args) /\ a \in TypeRefs /\ a \in Inside(of)
    BY <1>1, BoundFacts, ArgsType
  <1>5. Inside(a) \subseteq Inside(of) /\ ~HasParam(a)
    BY <1>1, <1>3, <1>4, InsideInside DEF HasParam
  <1>6. of \notin Inside(a) /\ of \in Inside(of)
    BY <1>1, <1>4, InsideFacts, TypeRefsAssumption
  <1>7. Declares(Api, a) /\ Uses(a) \subseteq Uses(of)
    BY <1>3, <1>4, UsesArg
  <1>8. Proper(d)
    BY <1>5, <1>7 DEF Proper
  <1>9. Before(d) = Uses(a) /\ Before(c) = Uses(of)
    BY <1>2, <1>5 DEF Before
  <1>10. Size(d) = Inside(a) \X {0, 1} /\ Size(c) = (Inside(of) \X {0, 1}) \ {<<of, 1>>}
    BY <1>2, <1>5 DEF Size
  <1>11. Size(d) \subseteq Size(c) /\ Size(d) # Size(c)
    <2>1. Size(d) \subseteq Size(c)
      BY <1>5, <1>6, <1>10
    <2>2. <<of, 0>> \in Size(c) /\ <<of, 0>> \notin Size(d)
      BY <1>6, <1>10
    <2> QED  BY <2>1, <2>2
  <1> QED  BY <1>7, <1>8, <1>9, <1>11 DEF Less

\* For a field the types still to come are fewer, unless it is to be bound.
LEMMA FieldCall ==
  ASSUME Analyzed(Api), Endable, NEW c, Proper(c), c.ref.kind = "named", c.ref.name \in DOMAIN Api.types,
         NEW f \in WireFields(Api.types[c.ref.name]),
         NEW d \in Pairs, d = [ref |-> f.type, of |-> IF Binds(Api, c.ref) THEN c.ref ELSE c.of]
  PROVE  Proper(d) /\ Less(d, c)
  <1> DEFINE ref == c.ref
             td == Api.types[ref.name]
  <1>1. ref \in TypeRefs /\ c.of \in TypeRefs /\ Declares(Api, ref) /\ ref \in Inside(ref)
    BY InsideFacts DEF Proper, Pairs
  <1>2. ~HasParam(ref)
    BY <1>1, HasParamIs DEF Proper
  <1>3. /\ AnalyzedField(Api, td, f) /\ Declares(Api, f.type)
        /\ Uses(f.type) \subseteq Uses(ref) /\ ref.name \in Uses(ref) /\ ref.name \notin Uses(f.type)
    BY <1>1, UsesField DEF Endable
  <1>4. f \in td.fields /\ d.ref = f.type
    BY DEF WireFields, From
  <1>5. Before(c) = Uses(ref) /\ Size(c) = Inside(ref) \X {0, 1}
    BY <1>2 DEF Before, Size
  <1>6. CASE ~HasParam(f.type)
    <2>1. Before(d) = Uses(f.type)
      BY <1>4, <1>6 DEF Before
    <2>2. Proper(d)
      BY <1>3, <1>4, <1>6 DEF Proper
    <2> QED  BY <1>3, <1>5, <2>1, <2>2 DEF Less
  <1>7. CASE HasParam(f.type)
    <2>1. Len(ref.args) = Len(td.params) /\ td.params \in Seq(STRING) /\ ref.args \in Seq(TypeRefs)
      BY <1>1, ArgsType DEF Declares, Analyzed
    <2>2. \A e \in Inside(f.type) : e.kind = "param" => e.name \in ToSet(td.params)
      BY <1>3 DEF AnalyzedField
    <2>3. td.params # <<>>
      BY <1>7, <2>2 DEF HasParam, ToSet
    <2>4. Binds(Api, ref)
      BY <2>1, <2>3 DEF Binds
    <2>5. d.of = ref /\ DOMAIN Bound(Api, ref) = ToSet(td.params)
      BY <2>1, <2>4, BindFacts DEF Bound
    <2>6. \A e \in Inside(f.type) : ~(IsGeneric(e) /\ HasParam(e))
      BY <1>4 DEF Endable, Hands
    <2>7. Proper(d)
      BY <1>1, <1>2, <1>3, <1>4, <2>2, <2>4, <2>5, <2>6 DEF Proper
    <2>8. Before(d) = Uses(ref) /\ Size(d) = (Inside(ref) \X {0, 1}) \ {<<ref, 1>>}
      BY <1>4, <1>7, <2>5 DEF Before, Size
    <2>9. <<ref, 1>> \in Size(c)
      BY <1>1, <1>5
    <2> QED  BY <1>5, <2>7, <2>8, <2>9 DEF Less
  <1> QED  BY <1>6, <1>7

\* Therefore no pair is come to again.
LEMMA ExampleEnds ==
  ASSUME Analyzed(Api), Endable, NEW ref, Declares(Api, ref), ~HasParam(ref)
  PROVE  ~Endless(Api, ref)
  <1> DEFINE calls == ExampleCalls(Api)
             begin == [ref |-> ref, of |-> ref]
             Seen == {c \in Pairs : Proper(c)}
  <1>1. ASSUME NEW c \in Pairs, Proper(c), NEW d \in calls[c] PROVE d \in Pairs /\ Proper(d) /\ Less(d, c)
    BY <1>1, CallsOf, ArgumentCall, FieldCall
  <1>2. calls \in [Pairs -> SUBSET Pairs] /\ IsFiniteSet(Pairs)
    BY CallsType, PairsFinite
  <1>3. begin \in Pairs /\ begin.ref = ref
    BY DEF Declares, Pairs
  <1>4. Proper(begin)
    BY <1>3 DEF Proper
  <1> HIDE DEF calls, begin
  <1>5. Closed(calls, Seen)
    BY <1>1 DEF Closed
  <1>6. Closure(calls, {begin}) \subseteq Seen
    <2>1. Seen \in SUBSET Pairs /\ {begin} \subseteq Seen /\ {begin} \in SUBSET Pairs
      BY <1>3, <1>4
    <2> HIDE DEF Seen
    <2> QED  BY <1>2, <1>5, <2>1, ClosureLeast
  <1>7. ASSUME NEW c \in Pairs, Proper(c) PROVE c \notin Closure(calls, calls[c])
    <2> DEFINE Z == {d \in Pairs : Proper(d) /\ Less(d, c)}
    <2>1. calls[c] \subseteq Z
      BY <1>1, <1>7
    <2>2. Closed(calls, Z)
      BY <1>1, LessOrder DEF Closed
    <2>3. c \notin Z /\ Z \in SUBSET Pairs
      BY LessOrder
    <2>4. calls[c] \in SUBSET Pairs
      BY <1>2
    <2> HIDE DEF Z
    <2> QED  BY <1>2, <2>1, <2>2, <2>3, <2>4, ClosureLeast
  <1> QED  BY <1>6, <1>7 DEF Endless, Again, calls, begin

\* postman.
LEMMA PostmanUnless ==
  ASSUME Accepted, PostmanOverflows(Api)
  PROVE  \E t \in DOMAIN Api.types : HoldsItself(t) \/ Hands(t)
  <1> SUFFICES ASSUME Endable PROVE FALSE
    BY DEF Endable
  <1>1. PICK r \in HookRoutes(Api) : \E b \in r.body : Endless(Api, b)
    BY DEF PostmanOverflows
  <1>2. PICK b \in r.body : Endless(Api, b)
    BY <1>1
  <1>3. r \in Routes(Api) /\ b \in RouteTypes(r) /\ b \in AllRefs(r)
    BY DEF HookRoutes, RouteTypes, AllRefs
  <1>4. Declares(Api, b) /\ b \in Inside(b)
    BY <1>3, RouteRefFacts, InsideFacts DEF Accepted
  <1>5. ~HasParam(b)
    BY <1>3, <1>4, RouteRefFacts DEF Accepted
  <1> QED  BY <1>2, <1>4, <1>5, ExampleEnds DEF Accepted

-----------------------------------------------------------------------------
LEMMA ToSetOfEight ==
  ASSUME NEW a, NEW b, NEW c, NEW d, NEW e, NEW f, NEW g, NEW h
  PROVE  ToSet(<<a, b, c, d, e, f, g, h>>) = {a, b, c, d, e, f, g, h}
  <1> DEFINE s == <<a, b, c, d, e, f, g, h>>
  <1>1. DOMAIN s = {1, 2, 3, 4, 5, 6, 7, 8}
    OBVIOUS
  <1>2. /\ s[1] = a /\ s[2] = b /\ s[3] = c /\ s[4] = d
        /\ s[5] = e /\ s[6] = f /\ s[7] = g /\ s[8] = h
    OBVIOUS
  <1> HIDE DEF s
  <1> QED  BY <1>1, <1>2 DEF ToSet, s

LEMMA GeneratorNames ==
  Generators = {"types", "zod", "client", "hooks", "openapi", "swagger-ui", "postman", "go-adapter"}
  <1> DEFINE Eight(a, b, c, d, e, f, g, h) == ToSet(<<a, b, c, d, e, f, g, h>>) = {a, b, c, d, e, f, g, h}
  <1>1. \A a, b, c, d, e, f, g, h : Eight(a, b, c, d, e, f, g, h)
    BY ToSetOfEight
  <1> HIDE DEF Eight
  <1>2. Eight("types", "zod", "client", "hooks", "openapi", "swagger-ui", "postman", "go-adapter")
    BY <1>1, Zenon
  <1> QED  BY <1>2, Zenon DEF Eight, Generators, Specs

\* A generator that does not end well has panicked or, if it is openapi, returned an error.
LEMMA OutcomeOf ==
  ASSUME NEW g, NEW o \in Outcomes(g, Api), o # "ok"
  PROVE  /\ g \in {"types", "zod"} => TypesPanics(Api)
         /\ g = "client" => ClientPanics(Api)
         /\ g = "hooks" => HooksPanics(Api)
         /\ g = "openapi" => OpenAPIPanics(Api) \/ OpenAPIErrs(Api)
         /\ g # "swagger-ui"
         /\ g = "postman" => PostmanOverflows(Api)
         /\ g = "go-adapter" => AdapterPanics(Api)
  BY Zenon DEF Outcomes

LEMMA CauseOf ==
  ASSUME Accepted, NEW g \in Generators, NEW o \in Outcomes(g, Api), o # "ok"
  PROVE  Cause(g)
  <1>1. CASE g \in {"types", "zod"}
    <2>1. BadWire
      BY <1>1, OutcomeOf, TypesPanicsUnless
    <2> QED  BY <1>1, <2>1, Zenon DEF Cause
  <1>2. CASE g = "client"
    <2>1. AdaptedArgument
      BY <1>2, OutcomeOf, ClientPanicsUnless
    <2> QED  BY <1>2, <2>1, Zenon DEF Cause
  <1>3. CASE g = "hooks"
    <2>1. HooksPanics(Api)
      BY <1>3, OutcomeOf
    <2>2. \/ AdaptedArgument
          \/ \E r \in HookRoutes(Api) : r.method = "GET" /\ r.response = {}
          \/ \E r \in HookRoutes(Api) : r.method # "GET" /\ \E p \in r.params : p.in = "query"
      BY <2>1, HooksPanicsUnless
    <2> QED  BY <1>3, <2>2, Zenon DEF Cause
  <1>4. CASE g = "openapi"
    <2>1. OpenAPIPanics(Api) \/ OpenAPIErrs(Api)
      BY <1>4, OutcomeOf
    <2>2. OpenAPIErrs(Api) => \E r \in Routes(Api) : r.badExamples # {}
      BY DEF OpenAPIErrs, Described
    <2>3. \/ BadWire
          \/ \E t \in DOMAIN Api.types : Hands(t)
          \/ \E r \in Routes(Api) : r.badExamples # {}
          \/ \E t \in DOMAIN Api.types : \E f \in Api.types[t].fields : f.source = "form" /\ f.type.kind = "slice"
      BY <2>1, <2>2, OpenAPIPanicsUnless
    <2> QED  BY <1>4, <2>3, Zenon DEF Cause
  <1>5. CASE g = "postman"
    <2>1. PostmanOverflows(Api)
      BY <1>5, OutcomeOf
    <2>2. \E t \in DOMAIN Api.types : HoldsItself(t) \/ Hands(t)
      BY <2>1, PostmanUnless
    <2> QED  BY <1>5, <2>2, Zenon DEF Cause
  <1>6. CASE g = "go-adapter"
    <2>1. AdapterPanics(Api)
      BY <1>6, OutcomeOf, Zenon
    <2>2. \/ \E r \in Routes(Api) : \E p \in r.params : p.in = "query" /\ p.type.kind = "slice"
          \/ \E t \in DOMAIN Api.types : \E f \in Api.types[t].fields : f.source = "form" /\ f.type.kind = "slice"
      BY <2>1, AdapterPanicsUnless
    <2> QED  BY <1>6, <2>2, Zenon DEF Cause
  <1>7. g # "swagger-ui"
    BY OutcomeOf, Zenon
  <1> QED  BY <1>1, <1>2, <1>3, <1>4, <1>5, <1>6, <1>7, GeneratorNames, Zenon

LEMMA FitsAlways == Spec => []Fits
  <1>1. Init => Fits
    BY DEF Init, Fits
  <1> QED  BY <1>1, NextFits, CommandCorrect, PTL DEF Spec

\* RendersUnlessCause: a package the analyzer accepts is one every generator can render, but
\* for the reasons listed in Cause; so exampleFor has an end and no switch a missing case.
THEOREM RendersUnless == Spec => []RendersUnlessCause
  <1>1. ASSUME TypeOK, Fits PROVE RendersUnlessCause
    <2>1. SUFFICES ASSUME failed # None PROVE Cause(failed)
      BY DEF RendersUnlessCause
    <2>2. Accepted /\ Api = ApiOf(cmd) /\ cmd \in Commands /\ failed \in Generators
      BY <1>1, <2>1, ApiAccepted DEF TypeOK
    <2>3. Renders(failed, Api) = Outcomes(failed, Api)
      BY <2>2, GeneratorsAssumption
    <2>4. PICK outcome \in Renders(failed, Api) : outcome # "ok"
      BY <1>1, <2>1 DEF Fits
    <2> QED  BY <2>2, <2>3, <2>4, CauseOf
  <1> QED  BY <1>1, CommandTypes, FitsAlways, PTL

-----------------------------------------------------------------------------
LEMMA MaxMember ==
  ASSUME NEW n \in Nat, NEW S \in SUBSET (1..n), S # {}
  PROVE  Max(S) \in S
  <1> DEFINE D == {n - i : i \in S}
  <1>0. \A i \in S : n - i \in Nat
    OBVIOUS
  <1>1. D \subseteq Nat /\ D # {}
    BY <1>0
  <1>2. PICK m \in D : \A k \in D : m <= k
    BY <1>1, Least
  <1>3. PICK i \in S : m = n - i
    OBVIOUS
  <1>4. \A j \in S : i >= j
    BY <1>2, <1>3
  <1> QED  BY <1>4 DEF Max

\* buildPaths keeps the last route of an operation, and the only one if there is no other.
LEMMA OneOperation ==
  ASSUME Analyzed(Api), NEW r \in Routes(Api), r.socket = {},
         \A s \in Routes(Api) \ {r} : s.socket = {} => Operation(s) # Operation(r)
  PROVE  Operation(r) \in DOMAIN Paths(Api) /\ Paths(Api)[Operation(r)] = r.handler
  <1> DEFINE found == At(Api, Operation(r))
  <1>1. Api.routes \in Seq(Routes(Api))
    BY DEF Analyzed
  <1>2. found \in SUBSET (1..Len(Api.routes)) /\ Len(Api.routes) \in Nat
    BY <1>1 DEF At
  <1>3. found # {}
    BY DEF At, Routes, ToSet
  <1>4. \A i \in found : Api.routes[i] = r
    BY <1>1 DEF At
  <1>5. Max(found) \in found
    BY <1>2, <1>3, MaxMember
  <1>6. Operation(r) \in {Operation(x) : x \in Described(Api)}
    BY DEF Described
  <1>7. Operation(r) \in DOMAIN Paths(Api) /\ Paths(Api)[Operation(r)] = Api.routes[Max(found)].handler
    BY <1>6 DEF Paths
  <1> QED  BY <1>4, <1>5, <1>7

\* A $ref is for a type of the package.
LEMMA RefFacts ==
  ASSUME Analyzed(Api), NEW ref \in Refs(Api)
  PROVE  ref \in TypeRefs /\ ref.kind = "named" /\ ref.name \in DOMAIN Api.types
  <1>1. ref \in OpenAPITypes(Api) /\ ref.kind = "named"
    BY DEF Refs
  <1>2. \/ \E r \in Routes(Api) : \E q \in OperationTypes(Api, r) : ref \in Leaves(q)
        \/ \E c \in Built(Api) : ref \in SchemaTypes(Api, c)
    BY <1>1 DEF OpenAPITypes, Described
  <1>3. CASE \E r \in Routes(Api) : \E q \in OperationTypes(Api, r) : ref \in Leaves(q)
    <2>1. PICK r \in Routes(Api) : \E q \in OperationTypes(Api, r) : ref \in Leaves(q)
      BY <1>3
    <2>2. PICK q \in OperationTypes(Api, r) : ref \in Leaves(q)
      BY <2>1
    <2>3. q \in TypeRefs /\ ref \in Inside(q)
      BY <2>2, OperationLeaf, LeavesFacts
    <2>4. ~Primitive(q)
      BY <1>1, <2>3, PrimitiveFacts
    <2>5. q \in AllRefs(r)
      BY <2>4, OperationLeaf
    <2>6. ref \in TypeRefs
      BY <2>3, InsideInside
    <2>7. CASE q \in r.errors
      <3>1. q.args = <<>> /\ q.name \in DOMAIN Api.types
        BY <2>7 DEF Analyzed, AnalyzedRoute
      <3> QED  BY <1>1, <2>3, <2>6, <3>1, InsideAlone
    <2>8. CASE q \notin r.errors
      <3>1. Declares(Api, q)
        BY <2>5, <2>8, RouteRefFacts DEF AllRefs
      <3> QED  BY <1>1, <2>3, <2>6, <3>1 DEF Declares
    <2> QED  BY <2>7, <2>8
  <1>4. CASE \E c \in Built(Api) : ref \in SchemaTypes(Api, c)
    <2>1. PICK c \in Plain(Api) \cup Instantiations(Api) : ref \in SchemaTypes(Api, c)
      BY <1>4, BuiltType
    <2>2. PICK m \in Mentioned(Api) : ref \in Inside(m)
      BY <2>1, SchemaTypesFacts
    <2>3. Declares(Api, m) /\ m \in TypeRefs
      BY MentionedFacts
    <2> QED  BY <1>1, <2>2, <2>3, InsideInside DEF Declares
  <1> QED  BY <1>2, <1>3, <1>4

\* What can be resolved is a component: a plain type that is not bare, or an instantiation,
\* since what a substitution leads to was mentioned already.
LEMMA ResolvableBuilt ==
  ASSUME Analyzed(Api), NEW ref \in Refs(Api), Resolvable(ref)
  PROVE  ref \in Built(Api)
  <1>1. ref \in TypeRefs /\ ref.kind = "named" /\ ref.name \in DOMAIN Api.types
    BY RefFacts
  <1>2. Api.types[ref.name].params \in Seq(STRING) /\ ref.args \in Seq(TypeRefs) /\ Len(ref.args) = Len(Api.types[ref.name].params)
    BY <1>1, ArgsType DEF Analyzed, Resolvable
  <1>3. CASE ref.args = <<>>
    <2>1. Api.types[ref.name].params = <<>>
      BY <1>2, <1>3
    <2>2. EmitTS(Api.types[ref.name])
      BY DEF Resolvable, Bare, EmitTS, WireFields, UploadFields, From
    <2>3. ref = Named(ref.name, <<>>)
      <3>1. ref \in [kind : {"builtin", "param", "slice", "named"}, name : STRING, args : Seq(TypeRefs)]
        BY <1>1, TypeRefsAssumption
      <3> QED  BY <1>1, <1>3, <3>1 DEF Named
    <2>4. ref \in Plain(Api)
      BY <1>1, <2>1, <2>2, <2>3 DEF Plain, Emitted
    <2> QED  BY <2>4 DEF Built
  <1>4. CASE ref.args # <<>>
    <2>1. IsGeneric(ref)
      BY <1>1, <1>4 DEF IsGeneric
    <2>2. PICK m \in Mentioned(Api) \cup UNION {SchemaTypes(Api, i) : i \in Instantiations(Api)} : ref \in Inside(m)
      BY <2>1 DEF Resolvable
    <2>3. \E n \in Mentioned(Api) : ref \in Inside(n)
      <3>1. CASE m \in Mentioned(Api)
        BY <2>2, <3>1
      <3>2. CASE m \notin Mentioned(Api)
        <4>1. PICK i \in Instantiations(Api) : m \in SchemaTypes(Api, i)
          BY <2>2, <3>2
        <4>2. PICK n \in Mentioned(Api) : m \in Inside(n)
          BY <4>1, SchemaTypesFacts
        <4>3. n \in TypeRefs
          BY MentionedFacts
        <4> QED  BY <2>2, <4>2, <4>3, InsideInside
      <3> QED  BY <3>1, <3>2
    <2>4. ref \in Instantiations(Api)
      BY <2>1, <2>3 DEF Instantiations
    <2>5. \A c \in Plain(Api) : c.args = <<>> /\ ComponentName(c) = c.name
      BY DEF Plain, Named, ComponentName
    <2>6. ComponentName(ref) \notin {c.name : c \in Plain(Api)}
      BY <1>4, <2>5 DEF Resolvable
    <2> QED  BY <2>4, <2>6 DEF Built
  <1> QED  BY <1>3, <1>4

LEMMA OneComponent ==
  ASSUME Analyzed(Api), NEW ref \in Refs(Api), Resolvable(ref)
  PROVE  {c.of : c \in {k \in Components(Api) : k.name = ComponentName(ref)}} = {ref}
  <1> DEFINE own == {[name |-> ComponentName(c), of |-> c] : c \in {b \in Built(Api) : ComponentName(b) # "GoductError"}}
             taken == {k \in Components(Api) : k.name = ComponentName(ref)}
  <1>1. Components(Api) = own \cup {[name |-> "GoductError", of |-> GoductError]}
    BY DEF Components
  <1>2. ComponentName(ref) # "GoductError"
    BY DEF Resolvable
  <1>3. [name |-> ComponentName(ref), of |-> ref] \in taken
    BY <1>1, <1>2, ResolvableBuilt
  <1>4. ASSUME NEW k \in taken PROVE k.of = ref
    <2>1. k \in own /\ k.name = ComponentName(ref)
      BY <1>1, <1>2
    <2>2. PICK c \in Built(Api) : k = [name |-> ComponentName(c), of |-> c]
      BY <2>1
    <2>3. ComponentName(c) = ComponentName(ref)
      BY <2>1, <2>2
    <2>4. c = ref
      BY <2>3, BuiltType DEF Resolvable
    <2> QED  BY <2>2, <2>4
  <1> HIDE DEF taken
  <1>5. ref \in {c.of : c \in taken}
    BY <1>3
  <1>6. {c.of : c \in taken} = {ref}
    BY <1>4, <1>5
  <1> QED  BY <1>6 DEF taken

\* Documented: openapi.json has an operation for every route, and a $ref in it leads to the
\* type it was written for, whatever the routes and the types.
THEOREM AllDocumented == Spec => []Documented
  <1>1. ASSUME TypeOK PROVE Documented
    <2>1. Analyzed(Api)
      BY <1>1, ApiAnalyzed
    <2>2. ASSUME NEW r \in Routes(Api), r.socket = {},
                 \A s \in Routes(Api) \ {r} : s.socket = {} => <<PathConvert(s.path), s.method>> # <<PathConvert(r.path), r.method>>
          PROVE  <<PathConvert(r.path), r.method>> \in DOMAIN Paths(Api) /\ Paths(Api)[<<PathConvert(r.path), r.method>>] = r.handler
      <3>1. \A s : <<PathConvert(s.path), s.method>> = Operation(s)
        BY DEF Operation
      <3> QED  BY <2>1, <2>2, <3>1, OneOperation
    <2> QED  BY <2>1, <2>2, OneComponent DEF Documented
  <1> QED  BY <1>1, CommandTypes, PTL

-----------------------------------------------------------------------------
\* A name inside a type of the package is declared, with its arity, unless it is bare.
LEMMA DeclaredName ==
  ASSUME Analyzed(Api), NEW ref, Declares(Api, ref), NEW e \in Inside(ref), e.kind = "named", ~Bare(e.name),
         NEW file \in {"types", "schemas"}
  PROVE  Name(file, e.name, Len(e.args)) \in Declared(Api)
  <1>1. e.name \in DOMAIN Api.types /\ Len(e.args) = Len(Api.types[e.name].params)
    BY DEF Declares
  <1>2. e.name \in Emitted(Api)
    BY <1>1 DEF Bare, Emitted, EmitTS, WireFields, UploadFields, From
  <1> QED  BY <1>1, <1>2 DEF Declared

\* What tsTypeRef, tsType and schemasExpr write for a type in a route.
LEMMA NamesDeclared ==
  ASSUME Analyzed(Api), NEW ref, Declares(Api, ref), Clear(ref), \A e \in Inside(ref) : e.kind = "named"
  PROVE  TypeNames(ref) \subseteq Declared(Api) /\ SchemaNames(ref) \subseteq Declared(Api)
  <1>1. ref \in TypeRefs
    BY DEF Declares
  <1>2. \A e \in Inside(ref) : \A file \in {"types", "schemas"} : Name(file, e.name, Len(e.args)) \in Declared(Api)
    BY DeclaredName DEF Clear
  <1>3. \A s \in Spelling(ref) : s.ref \in Inside(ref) /\ s.as = "qualified"
    BY <1>1, SpellingFacts
  <1>4. TypeNames(ref) \subseteq Declared(Api)
    BY <1>2, <1>3 DEF TypeNames
  <1>5. SchemaNames(ref) = {Name("schemas", e.name, Len(e.args)) : e \in Inside(ref)}
    BY Zenon DEF SchemaNames
  <1> QED  BY <1>2, <1>4, <1>5

\* The body of a route has something in it: it is not bare.
LEMMA BodyFacts ==
  ASSUME Analyzed(Api), NEW r \in Routes(Api), NEW b \in r.body, ~IsGeneric(b)
  PROVE  /\ Declares(Api, b) /\ b \in Inside(b) /\ b.kind = "named" /\ b.args = <<>>
         /\ Clear(b) /\ \A e \in Inside(b) : e.kind = "named"
  <1>1. b \in RouteTypes(r) /\ b \in AllRefs(r)
    BY DEF RouteTypes, AllRefs
  <1>2. b \in TypeRefs /\ b.kind = "named" /\ Declares(Api, b)
    BY <1>1, RouteRefFacts
  <1>3. b.args = <<>>
    BY <1>2 DEF IsGeneric
  <1>4. Inside(b) = {b}
    BY <1>2, <1>3, InsideAlone
  <1>5. ~Bare(b.name)
    BY DEF Analyzed, AnalyzedRoute, From, Bare
  <1> QED  BY <1>2, <1>3, <1>4, <1>5 DEF Clear

LEMMA RouteLinked ==
  ASSUME Analyzed(Api), NEW r \in Routes(Api), ClearRoute(r)
  PROVE  /\ ClientNames(r) \subseteq Declared(Api)
         /\ Unary(r) => HookNames(r) \subseteq Declared(Api)
  <1>1. \A ref \in Answer(r) : ref \in RouteTypes(r) \cup r.stream \cup r.socket
    BY DEF Answer, RouteTypes
  <1>2. \A ref \in Answer(r) : Declares(Api, ref)
    BY <1>1, RouteRefFacts DEF AllRefs
  <1>3. \A ref \in Answer(r) : TypeNames(ref) \subseteq Declared(Api) /\ SchemaNames(ref) \subseteq Declared(Api)
    BY <1>2, NamesDeclared DEF ClearRoute
  <1>4. \A b \in r.body : TypeNames(b) \subseteq Declared(Api) /\ SchemaNames(b) \subseteq Declared(Api)
    BY BodyFacts, NamesDeclared DEF ClearRoute
  <1>5. SignatureNames(r) \subseteq Declared(Api)
    <2>1. ASSUME NEW b \in r.body PROVE Name("types", b.name, 0) \in Declared(Api)
      <3>1. /\ Declares(Api, b) /\ b \in Inside(b) /\ b.kind = "named" /\ b.args = <<>> /\ Clear(b)
        BY BodyFacts DEF ClearRoute
      <3>2. Len(b.args) = 0 /\ ~Bare(b.name)
        BY <3>1 DEF Clear
      <3>3. Name("types", b.name, Len(b.args)) \in Declared(Api)
        BY <3>1, <3>2, DeclaredName
      <3> QED  BY <3>2, <3>3
    <2> QED  BY <2>1 DEF SignatureNames
  <1>6. Validated(r) \subseteq Answer(r) \cup r.body
    BY DEF Validated, Answer, Unary
  <1>7. ClientNames(r) \subseteq Declared(Api)
    BY <1>3, <1>4, <1>5, <1>6 DEF ClientNames
  <1>8. ASSUME Unary(r) PROVE HookNames(r) \subseteq Declared(Api)
    <2>1. HookTypes(r) \subseteq Answer(r) \cup r.body
      BY <1>8 DEF HookTypes, Answer, Unary
    <2> QED  BY <1>3, <1>4, <2>1 DEF HookNames
  <1> QED  BY <1>7, <1>8

\* A hook that could be rendered passes what its method takes: a GET has no body, the others
\* no query.
LEMMA HookCalls ==
  ASSUME Analyzed(Api), ~HooksPanics(Api), NEW r \in HookRoutes(Api)
  PROVE  HookArgs(r) = ClientArgs(r)
  <1>1. r.method = "GET" => r.body = {}
    BY DEF Analyzed, AnalyzedRoute, HookRoutes
  <1>2. r.method # "GET" => Params(r, {"query"}) = {}
    BY DEF HooksPanics, HookPanics, IsQuery
  <1>3. Params(r, {"path", "query"}) = Params(r, {"path"}) \cup Params(r, {"query"})
    BY DEF Params
  <1>4. CASE r.method = "GET"
    <2>1. <<"params">> \o <<>> = <<"params">> /\ <<>> \o <<>> = <<>>
      OBVIOUS
    <2> QED  BY <1>1, <1>4, <2>1, Zenon DEF HookArgs, ClientArgs, IsQuery
  <1>5. CASE r.method # "GET"
    <2>1. Params(r, {"path", "query"}) = Params(r, {"path"})
      BY <1>2, <1>3, <1>5
    <2> QED  BY <1>5, <2>1, Zenon DEF HookArgs, ClientArgs, IsQuery
  <1> QED  BY <1>4, <1>5

LEMMA HooksRendered ==
  ASSUME TypeOK, RunInv, Fits, exit = 0, disk["hooks"] = "new"
  PROVE  ~HooksPanics(Api)
  <1>1. Complete /\ Unwritten /\ written = Chosen
    BY DEF RunInv, Running
  <1>2. "hooks" \in Generators
    BY GeneratorNames, Zenon
  <1>3. "hooks" \in written
    BY <1>1, <1>2 DEF Unwritten
  <1>4. "hooks" \in rendered
    BY <1>3 DEF TypeOK
  <1>5. "ok" \in Renders("hooks", Api)
    BY <1>4 DEF RunInv, Rendered
  <1>6. Api = ApiOf(cmd) /\ cmd \in Commands
    BY <1>4, ApiAccepted DEF TypeOK
  <1>7. "ok" \in Outcomes("hooks", Api)
    BY <1>2, <1>5, <1>6, GeneratorsAssumption
  <1> QED  BY <1>7, Zenon DEF Outcomes

\* Linked: what client.ts, hooks.ts, types.ts and schemas.ts refer to is declared, with that
\* arity, and a hook calls its method with its arguments, for every package.
THEOREM AllLinked == Spec => []Linked
  <1>1. ASSUME TypeOK, RunInv, Fits PROVE Linked
    <2>1. Analyzed(Api)
      BY <1>1, ApiAnalyzed
    <2> SUFFICES ASSUME exit = 0, \A g \in {"types", "zod", "client", "hooks"} : disk[g] = "new"
                 PROVE  /\ \A r \in Routes(Api) : ClearRoute(r) =>
                             /\ ClientNames(r) \subseteq Declared(Api)
                             /\ r \in HookRoutes(Api) => HookNames(r) \subseteq Declared(Api)
                        /\ \A r \in HookRoutes(Api) : HookArgs(r) = ClientArgs(r)
                        /\ \A t \in Emitted(Api) :
                             (\A ref \in FieldTypes(Api.types[t]) : Clear(ref)) => FieldNames(Api.types[t]) \subseteq Declared(Api)
      BY DEF Linked
    <2>2. ASSUME NEW r \in Routes(Api), ClearRoute(r)
          PROVE  /\ ClientNames(r) \subseteq Declared(Api)
                 /\ r \in HookRoutes(Api) => HookNames(r) \subseteq Declared(Api)
      BY <2>1, <2>2, RouteLinked DEF HookRoutes
    <2>3. \A r \in HookRoutes(Api) : HookArgs(r) = ClientArgs(r)
      BY <1>1, <2>1, HooksRendered, HookCalls
    <2>4. ASSUME NEW t \in Emitted(Api), \A ref \in FieldTypes(Api.types[t]) : Clear(ref)
          PROVE  FieldNames(Api.types[t]) \subseteq Declared(Api)
      <3>1. ASSUME NEW ref \in FieldTypes(Api.types[t]) PROVE Declares(Api, ref)
        BY <2>1, FieldFacts DEF FieldTypes, From, Emitted, AnalyzedField
      <3>2. ASSUME NEW ref \in FieldTypes(Api.types[t]), NEW e \in Inside(ref), e.kind = "named", NEW file \in {"types", "schemas"}
            PROVE  Name(file, e.name, Len(e.args)) \in Declared(Api)
        BY <2>1, <2>4, <3>1, <3>2, DeclaredName DEF Clear
      <3> QED  BY <3>2 DEF FieldNames
    <2> QED  BY <2>2, <2>3, <2>4
  <1> QED  BY <1>1, CommandTypes, CommandCorrect, FitsAlways, PTL
=============================================================================
