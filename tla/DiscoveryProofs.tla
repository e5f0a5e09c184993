-------------------------- MODULE DiscoveryProofs --------------------------
(***************************************************************************)
(* For every package: the type walk is closed, never re-entrant and        *)
(* records nothing it was not led to, and every handler is judged.         *)
(*                                                                         *)
(* The first induction carries what the frames still owe: while no error  *)
(* has been collected, a type that a recorded type mentions is recorded,   *)
(* or waits in some frame's deps.  When the stack is empty nothing waits.  *)
(***************************************************************************)
EXTENDS Discovery, FiniteSetTheorems, WellFoundedInduction, TLAPS

Waiting(d, s) == \E i \in DOMAIN s : d \in s[i].deps

Shape ==
  /\ stack \in Seq(Frame)
  /\ phase \in {"routes", "types", "done", "failed", "panicked"}
  /\ pkg \in Packages
  /\ phase = "routes" => types = {} /\ stack = <<>>
  /\ phase = "done" => errs = {} /\ stack = <<>> /\ seeds = {}

Owed ==
  phase \in {"types", "done"} /\ errs = {} =>
    /\ Seeds \subseteq types \cup seeds
    /\ \A t \in types : \A d \in Mentions(t) : d \in types \/ Waiting(d, stack)

IInv == Shape /\ NoReentry /\ Owed

-----------------------------------------------------------------------------
\* What sequences of frames do.
LEMMA Cons ==
  ASSUME NEW S, NEW e \in S, NEW s \in Seq(S)
  PROVE  /\ <<e>> \o s \in Seq(S)
         /\ DOMAIN (<<e>> \o s) = 1 .. Len(s) + 1
         /\ (<<e>> \o s)[1] = e
         /\ \A i \in DOMAIN s : (<<e>> \o s)[i + 1] = s[i]
  OBVIOUS

LEMMA Uncons ==
  ASSUME NEW S, NEW s \in Seq(S), s # <<>>
  PROVE  /\ Head(s) \in S /\ Tail(s) \in Seq(S) /\ 1 \in DOMAIN s /\ Head(s) = s[1]
         /\ DOMAIN Tail(s) = 1 .. Len(s) - 1
         /\ \A i \in DOMAIN Tail(s) : i + 1 \in DOMAIN s /\ Tail(s)[i] = s[i + 1]
         /\ \A i \in DOMAIN s : i # 1 => i - 1 \in DOMAIN Tail(s) /\ Tail(s)[i - 1] = s[i]
  OBVIOUS

\* The dependencies visitType follows are the types a declaration mentions.
LEMMA DepsMentioned == \A t : Deps(t) = Mentions(t)
  BY DEF Deps, Mentions, Named

LEMMA DepsNames ==
  ASSUME pkg \in Packages, NEW t, Recordable(t)
  PROVE  Deps(t) \subseteq TypeNames
  <1>1. t \in DOMAIN pkg.types
    BY DEF Recordable, Resolved
  <1>2. pkg.types[t].refs \subseteq TypeNames
    BY <1>1, DiscoveryAssumption
  <1>3. \A f \in Range(pkg.types[t].fields) : f.named \subseteq TypeNames
    BY <1>1, DiscoveryAssumption
  <1>4. Parsed(t) \subseteq Range(pkg.types[t].fields)
    BY DEF Parsed, Decl
  <1> QED BY <1>2, <1>3, <1>4 DEF Deps, Named, Decl

\* Once discovery is over, seeds and mentions are fixed.
LEMMA Fixed ==
  ASSUME UNCHANGED <<pkg, command, routes>>
  PROVE  Seeds' = Seeds /\ \A t : Mentions(t)' = Mentions(t)
  BY DEF Seeds, Mentions, Parsed, Decl, RequestNames, Adapted

-----------------------------------------------------------------------------
\* One call of visitType on top of the frames `outer`.
LEMMA VisitCall ==
  ASSUME pkg \in Packages, phase = "types", NEW t \in TypeNames, NEW outer \in Seq(Frame),
         \A i \in DOMAIN outer : outer[i].type \in types,
         Visit(t, outer)
  PROVE  \/ phase' = "panicked" /\ stack' = <<>> /\ types' = types
         \/ /\ phase' = "types" /\ stack' = outer /\ types' = types
            /\ errs' = {} => errs = {} /\ t \in types
         \/ /\ phase' = "types" /\ t \notin types /\ types' = types \cup {t}
            /\ stack' = <<[type |-> t, deps |-> Deps(t)]>> \o outer
            /\ [type |-> t, deps |-> Deps(t)] \in Frame
            /\ errs' = {} => errs = {}
  <1>1. CASE t \in types \/ t \in {outer[i].type : i \in DOMAIN outer}
    BY <1>1 DEF Visit
  <1>2. CASE /\ ~(t \in types \/ t \in {outer[i].type : i \in DOMAIN outer})
             /\ Resolved(t) /\ Decl(t).adapted /\ Adapted
    BY <1>2 DEF Visit
  <1>3. CASE /\ ~(t \in types \/ t \in {outer[i].type : i \in DOMAIN outer})
             /\ ~(Resolved(t) /\ Decl(t).adapted /\ Adapted)
    <2>1. /\ errs' = errs \cup Complaints(t) /\ phase' = phase
          /\ types' = IF Recordable(t) THEN types \cup {t} ELSE types
          /\ stack' = IF Recordable(t)
                      THEN <<[type |-> t, deps |-> Deps(t)]>> \o outer ELSE outer
      BY <1>3 DEF Visit
    <2>2. CASE Recordable(t)
      <3>1. [type |-> t, deps |-> Deps(t)] \in Frame
        BY <2>2, DepsNames DEF Frame
      <3> QED BY <1>3, <2>1, <2>2, <3>1
    <2>3. CASE ~Recordable(t)
      <3>1. Complaints(t) # {}
        BY <2>3 DEF Complaints
      <3> QED BY <2>1, <2>3, <3>1
    <2> QED BY <2>2, <2>3
  <1> QED BY <1>1, <1>2, <1>3

\* A call preserves the invariant: t is the seed or dependency struck off, so everything
\* owed before is owed by `outer` or is t itself.
LEMMA VisitInv ==
  ASSUME pkg \in Packages, pkg' = pkg, phase = "types",
         UNCHANGED <<pkg, command, routes>>,
         NEW t \in TypeNames, NEW outer \in Seq(Frame),
         \A i \in DOMAIN outer : outer[i].type \in types,
         \A i, j \in DOMAIN outer : outer[i].type = outer[j].type => i = j,
         errs = {} => /\ Seeds \subseteq types \cup seeds' \cup {t}
                      /\ \A u \in types : \A d \in Mentions(u) :
                           d \in types \/ d = t \/ Waiting(d, outer),
         Visit(t, outer)
  PROVE  IInv'
  <1>1. CASE phase' = "panicked" /\ stack' = <<>> /\ types' = types
    BY <1>1 DEF IInv, Shape, NoReentry, Owed, Visiting, Frame
  <1>2. CASE /\ phase' = "types" /\ stack' = outer /\ types' = types
             /\ errs' = {} => errs = {} /\ t \in types
    <2>1. Shape'
      BY <1>2 DEF Shape, Frame
    <2>2. NoReentry'
      BY <1>2 DEF NoReentry, Visiting
    <2>3. Owed'
      BY <1>2, Fixed DEF Owed, Waiting
    <2> QED BY <2>1, <2>2, <2>3 DEF IInv
  <1>3. CASE /\ phase' = "types" /\ t \notin types /\ types' = types \cup {t}
             /\ stack' = <<[type |-> t, deps |-> Deps(t)]>> \o outer
             /\ [type |-> t, deps |-> Deps(t)] \in Frame
             /\ errs' = {} => errs = {}
    <2> DEFINE e == [type |-> t, deps |-> Deps(t)]
    <2>1. /\ stack' \in Seq(Frame) /\ DOMAIN stack' = 1 .. Len(outer) + 1
          /\ stack'[1] = e
          /\ \A i \in DOMAIN outer : stack'[i + 1] = outer[i]
      BY <1>3, Cons
    <2>2. \A i \in DOMAIN stack' : i = 1 \/ (i - 1 \in DOMAIN outer /\ stack'[i] = outer[i - 1])
      BY <2>1
    <2>3. Shape'
      BY <1>3, <2>1 DEF Shape, Frame
    <2>4. NoReentry'
      <3>1. \A i \in DOMAIN stack' : stack'[i].type \in types'
        BY <1>3, <2>1, <2>2
      <3>2. \A i, j \in DOMAIN stack' : stack'[i].type = stack'[j].type => i = j
        <4> SUFFICES ASSUME NEW i \in DOMAIN stack', NEW j \in DOMAIN stack',
                            stack'[i].type = stack'[j].type
                     PROVE  i = j
          OBVIOUS
        <4>1. CASE i = 1 /\ j # 1
          BY <1>3, <2>1, <2>2, <4>1
        <4>2. CASE i # 1 /\ j = 1
          BY <1>3, <2>1, <2>2, <4>2
        <4>3. CASE i # 1 /\ j # 1
          <5>1. i - 1 = j - 1
            BY <2>2, <4>3
          <5> QED BY <2>1, <5>1
        <4> QED BY <4>1, <4>2, <4>3
      <3> QED BY <3>1, <3>2 DEF NoReentry, Visiting
    <2>5. Owed'
      <3> SUFFICES ASSUME errs' = {}
                   PROVE  /\ Seeds' \subseteq types' \cup seeds'
                          /\ \A u \in types' : \A d \in Mentions(u)' :
                               d \in types' \/ Waiting(d, stack')
        BY <1>3 DEF Owed, Waiting
      <3>1. Seeds' \subseteq types' \cup seeds'
        BY <1>3, Fixed
      <3>2. ASSUME NEW d, Waiting(d, outer) PROVE Waiting(d, stack')
        <4>1. PICK i \in DOMAIN outer : d \in outer[i].deps
          BY <3>2 DEF Waiting
        <4>2. i + 1 \in DOMAIN stack' /\ d \in stack'[i + 1].deps
          BY <2>1, <4>1
        <4> QED BY <4>2 DEF Waiting
      <3>3. \A d \in Mentions(t) : Waiting(d, stack')
        BY <2>1, DepsMentioned DEF Waiting
      <3>4. \A u \in types' : \A d \in Mentions(u) : d \in types' \/ Waiting(d, stack')
        BY <1>3, <3>2, <3>3
      <3> QED BY <3>1, <3>4, Fixed
    <2> QED BY <2>3, <2>4, <2>5 DEF IInv
  <1> QED BY <1>1, <1>2, <1>3, VisitCall

-----------------------------------------------------------------------------
LEMMA InitInv == Init => IInv
  <1> SUFFICES ASSUME Init PROVE IInv
    OBVIOUS
  <1>1. Shape
    BY DEF Init, Shape, Frame
  <1>2. NoReentry /\ Owed
    BY DEF Init, NoReentry, Visiting, Owed
  <1> QED BY <1>1, <1>2 DEF IInv

LEMMA StepInv == IInv /\ [Next]_vars => IInv'
  <1> SUFFICES ASSUME IInv, [Next]_vars PROVE IInv'
    OBVIOUS
  <1>0. pkg \in Packages /\ stack \in Seq(Frame)
    BY DEF IInv, Shape
  <1>1. CASE DiscoverHandler
    <2>1. /\ phase = "routes" /\ types = {} /\ stack = <<>>
          /\ UNCHANGED <<pkg, types, stack, phase>>
      BY <1>1 DEF IInv, Shape, DiscoverHandler, input
    <2> QED BY <1>0, <2>1 DEF IInv, Shape, NoReentry, Visiting, Owed
  <1>2. CASE CollectSeeds
    <2>1. /\ phase' = "types" /\ types' = {} /\ stack' = <<>> /\ seeds' = Seeds
          /\ UNCHANGED <<pkg, command, routes>>
      BY <1>2 DEF IInv, Shape, CollectSeeds, input
    <2>2. Seeds' = Seeds
      BY <2>1, Fixed
    <2> QED BY <1>0, <2>1, <2>2 DEF IInv, Shape, NoReentry, Visiting, Owed
  <1>3. CASE Return
    <2>1. /\ stack # <<>> /\ Head(stack).deps = {} /\ stack' = Tail(stack)
          /\ UNCHANGED <<pkg, command, routes, seeds, types, errs, phase>> /\ phase = "types"
      BY <1>3 DEF Return, input
    <2>2. /\ stack' \in Seq(Frame) /\ stack[1].deps = {}
          /\ \A i \in DOMAIN stack' : i + 1 \in DOMAIN stack /\ stack'[i] = stack[i + 1]
          /\ \A i \in DOMAIN stack : i # 1 => i - 1 \in DOMAIN stack' /\ stack'[i - 1] = stack[i]
          /\ DOMAIN stack' = 1 .. Len(stack) - 1
      BY <1>0, <2>1, Uncons
    <2>3. Shape'
      BY <1>0, <2>1, <2>2 DEF Shape
    <2>4. NoReentry'
      <3>1. \A i \in DOMAIN stack' : stack'[i].type \in types'
        BY <2>1, <2>2 DEF IInv, NoReentry, Visiting
      <3>2. \A i, j \in DOMAIN stack' : stack'[i].type = stack'[j].type => i = j
        <4> SUFFICES ASSUME NEW i \in DOMAIN stack', NEW j \in DOMAIN stack',
                            stack'[i].type = stack'[j].type
                     PROVE  i = j
          OBVIOUS
        <4>1. i + 1 = j + 1
          BY <2>2 DEF IInv, NoReentry
        <4> QED BY <2>2, <4>1
      <3> QED BY <3>1, <3>2 DEF NoReentry, Visiting
    <2>5. Owed'
      <3>1. \A d : Waiting(d, stack) => Waiting(d, stack')
        BY <2>2 DEF Waiting
      <3> QED BY <2>1, <3>1, Fixed DEF IInv, Owed, Waiting
    <2> QED BY <2>3, <2>4, <2>5 DEF IInv
  <1>4. CASE Finish
    <2>1. /\ phase = "types" /\ stack = <<>> /\ seeds = {} /\ phase' \in {"done", "failed"}
          /\ phase' = "done" => errs = {}
          /\ UNCHANGED <<pkg, command, routes, seeds, stack, types, errs>>
      BY <1>4 DEF Finish, input
    <2>2. Shape'
      BY <1>0, <2>1 DEF Shape
    <2>3. NoReentry'
      BY <2>1 DEF IInv, NoReentry, Visiting
    <2>4. Owed'
      BY <2>1, Fixed DEF IInv, Owed, Waiting
    <2> QED BY <2>2, <2>3, <2>4 DEF IInv
  <1>5. ASSUME NEW t \in TypeNames, VisitSeed(t) PROVE IInv'
    <2>1. /\ phase = "types" /\ stack = <<>> /\ seeds' = seeds \ {t} /\ Visit(t, <<>>)
          /\ UNCHANGED <<pkg, command, routes>>
      BY <1>5 DEF VisitSeed, input
    <2>2. <<>> \in Seq(Frame)
      OBVIOUS
    <2>3. errs = {} => /\ Seeds \subseteq types \cup seeds' \cup {t}
                       /\ \A u \in types : \A d \in Mentions(u) :
                            d \in types \/ d = t \/ Waiting(d, <<>>)
      BY <2>1 DEF IInv, Owed
    <2> DEFINE none == <<>>
    <2>4. /\ \A i \in DOMAIN none : none[i].type \in types
          /\ \A i, j \in DOMAIN none : none[i].type = none[j].type => i = j
      OBVIOUS
    <2>5. none \in Seq(Frame) /\ Visit(t, none)
      BY <2>1, <2>2
    <2>6. errs = {} => /\ Seeds \subseteq types \cup seeds' \cup {t}
                       /\ \A u \in types : \A d \in Mentions(u) :
                            d \in types \/ d = t \/ Waiting(d, none)
      BY <2>3
    <2> HIDE DEF none
    <2> QED BY <1>0, <2>1, <2>4, <2>5, <2>6, VisitInv
  <1>6. ASSUME NEW t \in TypeNames, VisitDep(t) PROVE IInv'
    <2> DEFINE head == [Head(stack) EXCEPT !.deps = @ \ {t}]
               outer == <<head>> \o Tail(stack)
    <2>1. /\ phase = "types" /\ stack # <<>> /\ t \in Head(stack).deps /\ Visit(t, outer)
          /\ UNCHANGED <<pkg, command, routes, seeds>>
      BY <1>6 DEF VisitDep, input
    <2>2. Head(stack) \in Frame /\ Tail(stack) \in Seq(Frame)
      BY <1>0, <2>1, Uncons
    <2>3. head \in Frame /\ head.type = Head(stack).type /\ head.deps = Head(stack).deps \ {t}
      BY <2>2 DEF Frame
    <2>4. outer \in Seq(Frame) /\ DOMAIN outer = DOMAIN stack
      <3>1. DOMAIN stack = 1 .. Len(stack) /\ Len(stack) \in Nat \ {0} /\ Len(Tail(stack)) = Len(stack) - 1
        BY <1>0, <2>1
      <3> QED BY <2>2, <2>3, <3>1, Cons
    <2>5. \A i \in DOMAIN stack : /\ outer[i].type = stack[i].type
                                  /\ \A d \in stack[i].deps : d = t \/ d \in outer[i].deps
      <3> SUFFICES ASSUME NEW i \in DOMAIN stack
                   PROVE  /\ outer[i].type = stack[i].type
                          /\ \A d \in stack[i].deps : d = t \/ d \in outer[i].deps
        OBVIOUS
      <3>1. CASE i = 1
        <4>1. outer[1] = head /\ Head(stack) = stack[1]
          BY <1>0, <2>1, <2>2, <2>3, Cons, Uncons
        <4> QED BY <2>3, <3>1, <4>1
      <3>2. CASE i # 1
        <4>1. i - 1 \in DOMAIN Tail(stack) /\ Tail(stack)[i - 1] = stack[i]
          BY <1>0, <2>1, <3>2, Uncons
        <4>2. outer[(i - 1) + 1] = Tail(stack)[i - 1]
          BY <2>2, <2>3, <4>1, Cons
        <4>3. (i - 1) + 1 = i
          BY <1>0
        <4> QED BY <4>1, <4>2, <4>3
      <3> QED BY <3>1, <3>2
    <2>6. \A i \in DOMAIN outer : outer[i].type \in types
      BY <2>4, <2>5 DEF IInv, NoReentry, Visiting
    <2>7. \A i, j \in DOMAIN outer : outer[i].type = outer[j].type => i = j
      BY <2>4, <2>5 DEF IInv, NoReentry
    <2>8. \A d : Waiting(d, stack) => d = t \/ Waiting(d, outer)
      BY <2>4, <2>5 DEF Waiting
    <2>9. errs = {} => /\ Seeds \subseteq types \cup seeds' \cup {t}
                       /\ \A u \in types : \A d \in Mentions(u) :
                            d \in types \/ d = t \/ Waiting(d, outer)
      BY <2>1, <2>8 DEF IInv, Owed
    <2> HIDE DEF outer
    <2> QED BY <1>0, <2>1, <2>4, <2>6, <2>7, <2>9, VisitInv
  <1>7. CASE UNCHANGED vars
    <2>1. UNCHANGED <<pkg, command, routes, seeds, stack, types, errs, phase>>
      BY <1>7 DEF vars, input
    <2>2. Shape' /\ NoReentry'
      BY <2>1 DEF IInv, Shape, NoReentry, Visiting
    <2>3. Owed'
      BY <2>1, Fixed DEF IInv, Owed, Waiting
    <2> QED BY <2>2, <2>3 DEF IInv
  <1> QED BY <1>1, <1>2, <1>3, <1>4, <1>5, <1>6, <1>7 DEF Next

LEMMA Inductive == Spec => []IInv
  BY InitInv, StepInv, PTL DEF Spec

\* visitType never visits a type inside its own visit, however the declarations of a
\* package refer to each other (the cycle rule of ADR 0018 D4).
THEOREM WalkNotReentrant == Spec => []NoReentry
  <1>1. IInv => NoReentry
    BY DEF IInv
  <1> QED BY <1>1, Inductive, PTL

\* When Analyze succeeds, every type that a route or a recorded type mentions is recorded:
\* no generator meets a name without a definition.
THEOREM WalkClosed == Spec => []Closed
  <1>1. IInv => Closed
    <2> SUFFICES ASSUME IInv, phase = "done"
                 PROVE  Seeds \subseteq types /\ \A t \in types : Mentions(t) \subseteq types
      BY DEF Closed
    <2>1. errs = {} /\ stack = <<>> /\ seeds = {}
      BY DEF IInv, Shape
    <2>2. \A d : ~Waiting(d, stack)
      BY <2>1 DEF Waiting
    <2> QED BY <2>1, <2>2 DEF IInv, Owed
  <1> QED BY <1>1, Inductive, PTL

-----------------------------------------------------------------------------
(***************************************************************************)
(* DiscoverRoutes.  A handler once judged stays judged: routes and errors  *)
(* only grow, and each route comes from a handler already passed, so the   *)
(* next one comes after all of them.                                       *)
(***************************************************************************)
PossibleRoutes == {RouteOf(pkg, pkg.handlers[i]) : i \in Nat}

Settled(i) ==
  LET h == pkg.handlers[i]
  IN  IF Rejected(pkg, h, Adapted)
      THEN [cat |-> "handler", at |-> h.name] \in errs
      ELSE IsHandler(h) => \E j \in DOMAIN routes : routes[j].handler = h.name

RouteFrom(m, j) == pkg.handlers[m].name = routes[j].handler

JudgedInv ==
  /\ next \in Nat \ {0}
  /\ routes \in Seq(PossibleRoutes)
  /\ \A i \in 1 .. next - 1 : Settled(i)
  /\ \A j \in DOMAIN routes : \E m \in 1 .. next - 1 : RouteFrom(m, j)
  /\ \A j, k \in DOMAIN routes : j < k =>
       \E m, n \in 1 .. next - 1 : m < n /\ RouteFrom(m, j) /\ RouteFrom(n, k)

\* A step that only adds errors disturbs nothing of it.
LEMMA JudgedKept ==
  ASSUME JudgedInv, UNCHANGED <<pkg, command, next, routes>>, errs \subseteq errs'
  PROVE  JudgedInv'
  BY DEF JudgedInv, PossibleRoutes, Settled, RouteFrom, Adapted

LEMMA VisitAddsErrors ==
  ASSUME NEW t, NEW outer, Visit(t, outer)
  PROVE  errs \subseteq errs'
  BY DEF Visit

LEMMA JudgedStep == JudgedInv /\ [Next]_vars => JudgedInv'
  <1> SUFFICES ASSUME JudgedInv, [Next]_vars PROVE JudgedInv'
    OBVIOUS
  <1>1. CASE DiscoverHandler
    <2> DEFINE h == pkg.handlers[next]
               r == RouteOf(pkg, h)
               name == h.name
    <2>0. /\ next \in Nat \ {0} /\ next' = next + 1 /\ pkg' = pkg /\ command' = command
          /\ PossibleRoutes' = PossibleRoutes /\ Adapted' = Adapted
      BY <1>1 DEF JudgedInv, DiscoverHandler, input, PossibleRoutes, Adapted
    <2>1. errs \subseteq errs'
      BY <1>1 DEF DiscoverHandler
    <2>2. r \in PossibleRoutes /\ r.handler = name
      BY <2>0 DEF PossibleRoutes, RouteOf
    <2>3. \/ routes' = routes
          \/ routes' = Append(routes, r)
      BY <1>1 DEF DiscoverHandler
    <2>4. /\ routes' \in Seq(PossibleRoutes)
          /\ \A j \in DOMAIN routes : j \in DOMAIN routes' /\ routes'[j] = routes[j]
          /\ \A j \in DOMAIN routes' :
               j \notin DOMAIN routes => j = Len(routes) + 1 /\ routes'[j] = r
      <3> HIDE DEF r
      <3>1. routes \in Seq(PossibleRoutes) /\ r \in PossibleRoutes
        BY <2>2 DEF JudgedInv
      <3>2. CASE routes' = routes
        BY <3>1, <3>2
      <3>3. CASE routes' = Append(routes, r)
        BY <3>1, <3>3
      <3> QED BY <2>3, <3>2, <3>3
    <2>5. DOMAIN routes = 1 .. Len(routes) /\ Len(routes) \in Nat
      BY DEF JudgedInv
    <2>6. ASSUME NEW i, i = next PROVE Settled(i)'
      <3>1. pkg'.handlers[i] = h
        BY <2>0, <2>6
      <3>2. CASE Rejected(pkg, h, Adapted)
        <4>1. [cat |-> "handler", at |-> h.name] \in errs'
          BY <1>1, <3>2 DEF DiscoverHandler
        <4> QED BY <2>0, <3>1, <3>2, <4>1 DEF Settled
      <3>3. CASE ~Rejected(pkg, h, Adapted)
        <4>1. IsHandler(h) => routes' = Append(routes, r)
          BY <1>1, <3>3 DEF DiscoverHandler, Accepts
        <4>2. IsHandler(h) => \E j \in DOMAIN routes' : routes'[j].handler = name
          <5> HIDE DEF r, name
          <5> SUFFICES ASSUME IsHandler(h)
                       PROVE  \E j \in DOMAIN routes' : routes'[j].handler = name
            OBVIOUS
          <5>1. Len(routes) + 1 \in DOMAIN routes' /\ routes'[Len(routes) + 1] = r
            BY <2>2, <4>1 DEF JudgedInv
          <5> QED BY <2>2, <5>1
        <4> QED BY <2>0, <3>1, <3>3, <4>2 DEF Settled
      <3> QED BY <3>2, <3>3
    <2>7. \A i \in 1 .. next - 1 : Settled(i)'
      <3> SUFFICES ASSUME NEW i \in 1 .. next - 1 PROVE Settled(i)'
        OBVIOUS
      <3>1. Settled(i)
        BY DEF JudgedInv
      <3> QED BY <2>0, <2>1, <2>4, <3>1 DEF Settled
    <2>8. \A i \in 1 .. next' - 1 : Settled(i)'
      <3>1. \A i \in 1 .. next' - 1 : i = next \/ i \in 1 .. next - 1
        BY <2>0
      <3> QED BY <2>6, <2>7, <3>1
    <2>9. \A j \in DOMAIN routes : \A m : RouteFrom(m, j) => RouteFrom(m, j)'
      BY <2>0, <2>4 DEF RouteFrom
    <2>10. ASSUME NEW n, n = next
           PROVE  \A j \in DOMAIN routes' : j \notin DOMAIN routes => RouteFrom(n, j)'
      BY <2>0, <2>2, <2>4, <2>10 DEF RouteFrom
    <2>11. \A j \in DOMAIN routes' : \E m \in 1 .. next' - 1 : RouteFrom(m, j)'
      <3> SUFFICES ASSUME NEW j \in DOMAIN routes' PROVE \E m \in 1 .. next' - 1 : RouteFrom(m, j)'
        OBVIOUS
      <3>1. CASE j \in DOMAIN routes
        <4>1. PICK m \in 1 .. next - 1 : RouteFrom(m, j)
          BY <3>1 DEF JudgedInv
        <4> QED BY <2>0, <2>9, <3>1, <4>1
      <3>2. CASE j \notin DOMAIN routes
        <4>1. PICK n \in 1 .. next' - 1 : n = next
          BY <2>0
        <4> QED BY <2>10, <3>2, <4>1
      <3> QED BY <3>1, <3>2
    <2>12. \A j, k \in DOMAIN routes' : j < k =>
             \E m, n \in 1 .. next' - 1 : m < n /\ RouteFrom(m, j)' /\ RouteFrom(n, k)'
      <3> SUFFICES ASSUME NEW j \in DOMAIN routes', NEW k \in DOMAIN routes', j < k
                   PROVE  \E m, n \in 1 .. next' - 1 : m < n /\ RouteFrom(m, j)' /\ RouteFrom(n, k)'
        OBVIOUS
      <3>0. j \in Nat /\ k \in Nat
        BY <2>4
      <3>1. CASE k \in DOMAIN routes
        <4>1. j \in DOMAIN routes
          BY <2>4, <2>5, <3>0, <3>1
        <4>2. PICK m \in 1 .. next - 1, n \in 1 .. next - 1 : m < n /\ RouteFrom(m, j) /\ RouteFrom(n, k)
          BY <3>1, <4>1 DEF JudgedInv
        <4>3. m \in 1 .. next' - 1 /\ n \in 1 .. next' - 1
          BY <2>0
        <4> QED BY <2>9, <3>1, <4>1, <4>2, <4>3
      <3>2. CASE k \notin DOMAIN routes
        <4>1. j \in DOMAIN routes
          BY <2>4, <2>5, <3>0, <3>2
        <4>2. PICK m \in 1 .. next - 1 : RouteFrom(m, j)
          BY <4>1 DEF JudgedInv
        <4>3. PICK n \in 1 .. next' - 1 : n = next /\ m < n
          BY <2>0
        <4>4. m \in 1 .. next' - 1
          BY <2>0
        <4> QED BY <2>9, <2>10, <3>2, <4>1, <4>2, <4>3, <4>4
      <3> QED BY <3>1, <3>2
    <2> HIDE DEF r, name, h
    <2>13. next' \in Nat \ {0} /\ routes' \in Seq(PossibleRoutes')
      BY <2>0, <2>4
    <2> QED BY <2>0, <2>8, <2>11, <2>12, <2>13 DEF JudgedInv
  <1>2. CASE CollectSeeds \/ Return \/ Finish \/ UNCHANGED vars
    BY <1>2, JudgedKept DEF CollectSeeds, Return, Finish, vars, input
  <1>3. ASSUME NEW t \in TypeNames, VisitSeed(t) \/ VisitDep(t) PROVE JudgedInv'
    <2>1. UNCHANGED <<pkg, command, next, routes>>
      BY <1>3 DEF VisitSeed, VisitDep, input
    <2>2. errs \subseteq errs'
      BY <1>3, VisitAddsErrors DEF VisitSeed, VisitDep
    <2> QED BY <2>1, <2>2, JudgedKept
  <1> QED BY <1>1, <1>2, <1>3 DEF Next

\* DiscoverRoutes goes on after a failure: however many handlers a package has and
\* whichever are refused, each one passed has its route, in source order, or its error.
THEOREM EveryHandlerJudged == Spec => []Judged
  <1>1. Init => JudgedInv
    <2> SUFFICES ASSUME Init PROVE JudgedInv
      OBVIOUS
    <2>1. next = 1 /\ routes = <<>>
      BY DEF Init
    <2> QED BY <2>1 DEF JudgedInv
  <1>2. JudgedInv => Judged
    <2> SUFFICES ASSUME JudgedInv PROVE Judged
      OBVIOUS
    <2>1. \A j \in DOMAIN routes : routes[j] \in Range(routes)
      BY DEF Range
    <2> QED BY <2>1 DEF JudgedInv, Judged, Settled, RouteFrom
  <1> QED BY <1>1, <1>2, JudgedStep, PTL DEF Spec

-----------------------------------------------------------------------------
(***************************************************************************)
(* The walk records nothing else: what it visits is a seed or a dependency *)
(* of a type it has recorded, so every set with the seeds and with what    *)
(* the recorded types in it mention has all the walk ever meets.           *)
(***************************************************************************)
Reached(S) ==
  /\ Seeds \subseteq S
  /\ \A t \in S \cap types : Mentions(t) \subseteq S

Met(S) ==
  /\ seeds \subseteq S /\ types \subseteq S
  /\ \A i \in DOMAIN stack : stack[i].deps \subseteq S

ReachInv ==
  /\ phase = "routes" => seeds = {}
  /\ \A S : Reached(S) => Met(S)

LEMMA ReachedFixed ==
  ASSUME UNCHANGED <<pkg, command, routes>>, types \subseteq types', NEW S, Reached(S)'
  PROVE  Reached(S) /\ \A t \in S \cap types' : Mentions(t) \subseteq S
  BY DEF Reached, Seeds, Mentions, Parsed, Decl, RequestNames, Adapted

LEMMA VisitMet ==
  ASSUME pkg \in Packages, phase = "types", NEW t \in TypeNames, NEW outer \in Seq(Frame),
         \A i \in DOMAIN outer : outer[i].type \in types,
         Visit(t, outer),
         UNCHANGED <<pkg, command, routes>>,
         NEW S, Reached(S)', t \in S, types \subseteq S, seeds' \subseteq S,
         \A i \in DOMAIN outer : outer[i].deps \subseteq S
  PROVE  Met(S)'
  <1>1. CASE phase' = "panicked" /\ stack' = <<>> /\ types' = types
    BY <1>1 DEF Met
  <1>2. CASE stack' = outer /\ types' = types
    BY <1>2 DEF Met
  <1>3. CASE phase' = "types" /\ t \notin types /\ types' = types \cup {t}
    <2> DEFINE e == [type |-> t, deps |-> Deps(t)]
    <2>1. /\ Recordable(t) /\ types' = types \cup {t} /\ stack' = <<e>> \o outer
      BY <1>3 DEF Visit
    <2>2. e \in Frame /\ Deps(t) \subseteq S
      <3>1. Mentions(t) \subseteq S
        BY <2>1, ReachedFixed
      <3> QED BY <2>1, <3>1, DepsNames, DepsMentioned DEF Frame
    <2>3. /\ DOMAIN stack' = 1 .. Len(outer) + 1 /\ stack'[1] = e
          /\ \A i \in DOMAIN outer : stack'[i + 1] = outer[i]
      BY <2>1, <2>2, Cons
    <2>4. \A i \in DOMAIN stack' : i = 1 \/ (i - 1 \in DOMAIN outer /\ stack'[i] = outer[i - 1])
      BY <2>3
    <2>5. \A i \in DOMAIN stack' : stack'[i].deps \subseteq S
      BY <2>2, <2>3, <2>4
    <2> QED BY <2>1, <2>5 DEF Met
  <1> QED BY <1>1, <1>2, <1>3, VisitCall

LEMMA ReachStep == IInv /\ ReachInv /\ [Next]_vars => ReachInv'
  <1> SUFFICES ASSUME IInv, ReachInv, [Next]_vars PROVE ReachInv'
    OBVIOUS
  <1>0. pkg \in Packages /\ stack \in Seq(Frame) /\ \A i \in DOMAIN stack : stack[i].type \in types
    BY DEF IInv, Shape, NoReentry, Visiting
  <1>1. CASE DiscoverHandler
    <2>1. seeds' = {} /\ types' = {} /\ stack' = <<>>
      BY <1>1 DEF DiscoverHandler, IInv, Shape, ReachInv
    <2> QED BY <2>1 DEF ReachInv, Met
  <1>2. CASE CollectSeeds
    <2>1. /\ phase' = "types" /\ seeds' = Seeds /\ types' = {} /\ stack' = <<>>
          /\ UNCHANGED <<pkg, command, routes>>
      BY <1>2 DEF CollectSeeds, IInv, Shape, input
    <2>2. \A S : Reached(S)' => Seeds \subseteq S
      <3>1. types \subseteq types'
        BY <1>2 DEF CollectSeeds
      <3> QED BY <2>1, <3>1, ReachedFixed DEF Reached
    <2> QED BY <2>1, <2>2 DEF ReachInv, Met
  <1>3. CASE Return \/ Finish \/ UNCHANGED vars
    <2>1. /\ UNCHANGED <<pkg, command, routes, seeds, types>>
          /\ phase' = "routes" => phase = "routes"
      BY <1>3 DEF Return, Finish, vars, input
    <2>2. stack' = stack \/ (stack # <<>> /\ stack' = Tail(stack))
      BY <1>3 DEF Return, Finish, vars
    <2>3. \A i \in DOMAIN stack' : \E k \in DOMAIN stack : stack'[i] = stack[k]
      BY <1>0, <2>2, Uncons
    <2>4. ASSUME NEW S, Reached(S)' PROVE Met(S)'
      <3>1. Met(S)
        BY <2>1, <2>4, ReachedFixed DEF ReachInv
      <3> QED BY <2>1, <2>3, <3>1 DEF Met
    <2> QED BY <2>1, <2>4 DEF ReachInv
  <1>4. ASSUME NEW t \in TypeNames, VisitSeed(t) PROVE ReachInv'
    <2> DEFINE none == <<>>
    <2>1. /\ phase = "types" /\ t \in seeds /\ seeds' = seeds \ {t} /\ Visit(t, none)
          /\ UNCHANGED <<pkg, command, routes>>
      BY <1>4 DEF VisitSeed, input
    <2>2. /\ none \in Seq(Frame)
          /\ \A i \in DOMAIN none : none[i].type \in types
          /\ \A i \in DOMAIN none : none[i].deps = {}
      OBVIOUS
    <2> HIDE DEF none
    <2>a. types \subseteq types'
      BY <2>1 DEF Visit
    <2>3. ASSUME NEW S, Reached(S)' PROVE Met(S)'
      <3>1. Met(S)
        BY <2>1, <2>3, <2>a, ReachedFixed DEF ReachInv
      <3>2. /\ t \in S /\ types \subseteq S /\ seeds' \subseteq S
            /\ \A i \in DOMAIN none : none[i].deps \subseteq S
        BY <2>1, <2>2, <3>1 DEF Met
      <3> QED BY <1>0, <2>1, <2>2, <2>3, <3>1, <3>2, VisitMet
    <2>4. phase' # "routes"
      BY <2>1 DEF Visit
    <2> QED BY <2>3, <2>4 DEF ReachInv
  <1>5. ASSUME NEW t \in TypeNames, VisitDep(t) PROVE ReachInv'
    <2> DEFINE head == [Head(stack) EXCEPT !.deps = @ \ {t}]
               outer == <<head>> \o Tail(stack)
    <2>1. /\ phase = "types" /\ stack # <<>> /\ t \in Head(stack).deps /\ Visit(t, outer)
          /\ UNCHANGED <<pkg, command, routes, seeds>>
      BY <1>5 DEF VisitDep, input
    <2>2. /\ Head(stack) \in Frame /\ Tail(stack) \in Seq(Frame)
          /\ 1 \in DOMAIN stack /\ Head(stack) = stack[1]
          /\ \A i \in DOMAIN Tail(stack) : i + 1 \in DOMAIN stack /\ Tail(stack)[i] = stack[i + 1]
      BY <1>0, <2>1, Uncons
    <2>3. head \in Frame /\ head.type = stack[1].type /\ head.deps \subseteq stack[1].deps
      BY <2>2 DEF Frame
    <2>4. /\ outer \in Seq(Frame) /\ DOMAIN outer = 1 .. Len(Tail(stack)) + 1 /\ outer[1] = head
          /\ \A i \in DOMAIN Tail(stack) : outer[i + 1] = Tail(stack)[i]
      BY <2>2, <2>3, Cons
    <2>5. \A i \in DOMAIN outer : \E k \in DOMAIN stack :
            outer[i].type = stack[k].type /\ outer[i].deps \subseteq stack[k].deps
      <3> SUFFICES ASSUME NEW i \in DOMAIN outer
                   PROVE  \E k \in DOMAIN stack :
                            outer[i].type = stack[k].type /\ outer[i].deps \subseteq stack[k].deps
        OBVIOUS
      <3>1. CASE i = 1
        BY <2>2, <2>3, <2>4, <3>1
      <3>2. CASE i # 1
        <4>1. i - 1 \in DOMAIN Tail(stack) /\ (i - 1) + 1 = i
          BY <2>2, <2>4, <3>2
        <4>2. outer[i] = Tail(stack)[i - 1] /\ i \in DOMAIN stack /\ Tail(stack)[i - 1] = stack[i]
          BY <2>2, <2>4, <4>1
        <4> QED BY <4>2
      <3> QED BY <3>1, <3>2
    <2>6. \A i \in DOMAIN outer : outer[i].type \in types
      BY <1>0, <2>5
    <2> HIDE DEF outer
    <2>a. types \subseteq types'
      BY <2>1 DEF Visit
    <2>7. ASSUME NEW S, Reached(S)' PROVE Met(S)'
      <3>1. Met(S)
        BY <2>1, <2>7, <2>a, ReachedFixed DEF ReachInv
      <3>2. /\ t \in S /\ types \subseteq S /\ seeds' \subseteq S
            /\ \A i \in DOMAIN outer : outer[i].deps \subseteq S
        BY <2>1, <2>2, <2>5, <3>1 DEF Met
      <3> QED BY <1>0, <2>1, <2>4, <2>6, <2>7, <3>1, <3>2, VisitMet
    <2>8. phase' # "routes"
      BY <2>1 DEF Visit
    <2> QED BY <2>7, <2>8 DEF ReachInv
  <1> QED BY <1>1, <1>2, <1>3, <1>4, <1>5 DEF Next

\* OnlyReached: the types DiscoverTypes records are those the routes lead to by way of
\* recorded types, for every package and either command (types.go's visitType).
THEOREM NothingElse == Spec => []OnlyReached
  <1>1. Init => ReachInv
    BY DEF Init, ReachInv, Met
  <1>2. ReachInv => OnlyReached
    <2> SUFFICES ASSUME ReachInv, NEW S \in SUBSET types, OwnPart(S) PROVE types \subseteq S
      BY DEF OnlyReached
    <2> DEFINE met == Seeds \cup (UNION {Mentions(t) : t \in types}) \cup types
               W == {t \in met : t \in types => t \in S}
    <2>1. Seeds \subseteq W
      BY DEF OwnPart
    <2>2. \A t \in W \cap types : Mentions(t) \subseteq W
      BY DEF OwnPart
    <2>3. types \subseteq W
      BY <2>1, <2>2 DEF Reached, ReachInv, Met
    <2> QED BY <2>3
  <1> QED BY <1>1, <1>2, ReachStep, Inductive, PTL DEF Spec

-----------------------------------------------------------------------------
(***************************************************************************)
(* Types.  That the walk finds a declaration for whatever it is sent to    *)
(* look up rests on discoverHandler: the types an accepted handler names   *)
(* are declared in its package, but for net/http's Request.                *)
(***************************************************************************)
LEMMA AcceptedNames ==
  ASSUME NEW p \in Packages, NEW h \in Range(p.handlers), NEW adapted,
         ~Rejected(p, h, adapted), IsHandler(h)
  PROVE  SeedsOf(RouteOf(p, h)) \subseteq TypeNames
  <1>1. DOMAIN p.types \subseteq TypeNames /\ HttpRequest \in TypeNames
    BY DiscoveryAssumption
  <1>2. CASE IsRaw(h)
    <2>1. ~RawRejected(p, h, adapted)
      BY <1>2 DEF Rejected, IsHandler
    <2>2. Has(h, "request") /\ \A l \in Lines(h, "request") \cup Lines(h, "response") : OwnStruct(p, l.word)
      BY <2>1 DEF RawRejected
    <2>3. Line(h, "request") \in Lines(h, "request")
      BY <2>2 DEF Has, Line
    <2>4. OwnStruct(p, RequestOf(h))
      BY <1>2, <2>2, <2>3 DEF RequestOf
    <2>. QED
      BY <1>1, <1>2, <2>2, <2>4 DEF SeedsOf, RouteTypes, SignatureRequest, RouteOf, OwnStruct
  <1>3. CASE ~IsRaw(h)
    <2>1. ~IdiomaticRejected(p, h, adapted)
      BY <1>3 DEF Rejected, IsHandler
    <2>2. /\ \A t \in Messages(h) \cup {h.request} : t \in DOMAIN p.types
          /\ h.results \in {"response", "stream"} => h.answer \in Messages(h)
          /\ h.params = "socket" => {h.send, h.recv} \subseteq Messages(h)
          /\ \A l \in Lines(h, "errorresponse") : l.word \in DOMAIN p.types
      BY <2>1 DEF IdiomaticRejected, OwnStruct, Messages
    <2>. QED
      BY <1>1, <1>3, <2>2 DEF SeedsOf, RouteTypes, SignatureRequest, RouteOf, RequestOf
  <1>. QED  BY <1>2, <1>3

TypeInv ==
  /\ TypeOK
  /\ pkg \in Packages
  /\ routes \in Seq(PossibleRoutes)
  /\ \A i \in DOMAIN routes : SeedsOf(routes[i]) \subseteq TypeNames

LEMMA HandlerFacts ==
  ASSUME pkg \in Packages
  PROVE  /\ Len(pkg.handlers) \in Nat
         /\ \A i \in 1 .. Len(pkg.handlers) : pkg.handlers[i] \in Range(pkg.handlers)
  BY DiscoveryAssumption

LEMMA VisitTypes ==
  ASSUME pkg \in Packages, phase = "types", types \subseteq TypeNames,
         NEW t \in TypeNames, NEW outer \in Seq(Frame), Visit(t, outer)
  PROVE  /\ stack' \in Seq(Frame) /\ types' \subseteq TypeNames /\ phase' \in {"types", "panicked"}
  <1>1. CASE Recordable(t)
    <2>1. [type |-> t, deps |-> Deps(t)] \in Frame
      BY <1>1, DepsNames DEF Frame
    <2>. DEFINE e == [type |-> t, deps |-> Deps(t)]
    <2>2. <<e>> \o outer \in Seq(Frame)
      BY <2>1, Cons
    <2>3. <<>> \in Seq(Frame)
      OBVIOUS
    <2>. QED  BY <2>2, <2>3 DEF Visit
  <1>2. CASE ~Recordable(t)
    <2>1. <<>> \in Seq(Frame)
      OBVIOUS
    <2>. QED  BY <1>2, <2>1 DEF Visit
  <1>. QED  BY <1>1, <1>2

LEMMA TypeStep == TypeInv /\ [Next]_vars => TypeInv'
  <1>. SUFFICES ASSUME TypeInv, [Next]_vars PROVE TypeInv'
    OBVIOUS
  <1>1. /\ pkg \in Packages /\ Len(pkg.handlers) \in Nat
        /\ next \in Nat /\ stack \in Seq(Frame)
    BY HandlerFacts DEF TypeInv, TypeOK
  <1>2. CASE DiscoverHandler
    <2>1. /\ phase = "routes" /\ next <= Len(pkg.handlers) /\ next' = next + 1
          /\ UNCHANGED <<pkg, command, seeds, stack, types, phase>>
      BY <1>2 DEF DiscoverHandler, input
    <2> DEFINE h == pkg.handlers[next]
               r == RouteOf(pkg, h)
    <2>2. \/ routes' = routes
          \/ /\ routes' = Append(routes, r)
             /\ ~Rejected(pkg, h, Adapted) /\ IsHandler(h)
      BY <1>2 DEF DiscoverHandler, Accepts
    <2>3. h \in Range(pkg.handlers) /\ r \in PossibleRoutes
      BY <1>1, <2>1, HandlerFacts DEF TypeInv, TypeOK, PossibleRoutes
    <2>4. PossibleRoutes' = PossibleRoutes
      BY <2>1 DEF PossibleRoutes
    <2>5. routes' = routes \/ SeedsOf(r) \subseteq TypeNames
      BY <1>1, <2>2, <2>3, AcceptedNames
    <2>6. Len(routes) \in Nat /\ routes \in Seq(PossibleRoutes)
      BY DEF TypeInv
    <2> HIDE DEF r
    <2>7. /\ routes' \in Seq(PossibleRoutes) /\ Len(routes') <= Len(routes) + 1
          /\ \A i \in DOMAIN routes' : SeedsOf(routes'[i]) \subseteq TypeNames
      BY <2>2, <2>3, <2>5, <2>6 DEF TypeInv
    <2>8. Len(routes') < next'
      BY <1>1, <2>1, <2>6, <2>7 DEF TypeInv, TypeOK
    <2>9. next' \in 1 .. Len(pkg.handlers) + 1
      BY <1>1, <2>1 DEF TypeInv, TypeOK
    <2>. QED  BY <1>1, <2>1, <2>4, <2>7, <2>8, <2>9 DEF TypeInv, TypeOK, Frame
  <1>3. CASE CollectSeeds
    <2>1. Seeds \subseteq TypeNames
      BY DEF TypeInv, Seeds, Range
    <2>2. next = Len(pkg.handlers) + 1
      BY <1>1, <1>3 DEF CollectSeeds, TypeInv, TypeOK
    <2>. QED
      BY <1>1, <1>3, <2>1, <2>2 DEF CollectSeeds, input, TypeInv, TypeOK, PossibleRoutes, Frame
  <1>4. ASSUME UNCHANGED <<pkg, command, next, routes>>, phase # "routes" \/ phase' = phase,
               seeds' \subseteq seeds, types' \subseteq TypeNames, stack' \in Seq(Frame),
               phase' \in {phase, "types", "done", "failed", "panicked"}
        PROVE  TypeInv'
    BY <1>4 DEF TypeInv, TypeOK, PossibleRoutes, Frame
  <1>5. CASE Return
    <2>1. Tail(stack) \in Seq(Frame)
      BY <1>1, <1>5 DEF Return
    <2>. QED  BY <1>4, <1>5, <2>1 DEF Return, input, TypeInv, TypeOK
  <1>6. CASE Finish
    BY <1>4, <1>6 DEF Finish, input, TypeInv, TypeOK
  <1>7. ASSUME NEW t \in TypeNames, VisitSeed(t) PROVE TypeInv'
    <2> DEFINE none == <<>>
    <2>1. none \in Seq(Frame) /\ Visit(t, none) /\ types \subseteq TypeNames /\ phase = "types"
      BY <1>7 DEF VisitSeed, TypeInv, TypeOK
    <2>2. UNCHANGED <<pkg, command, next, routes>> /\ seeds' \subseteq seeds
      BY <1>7 DEF VisitSeed, input
    <2> HIDE DEF none
    <2>. QED  BY <1>1, <1>4, <2>1, <2>2, VisitTypes
  <1>8. ASSUME NEW t \in TypeNames, VisitDep(t) PROVE TypeInv'
    <2> DEFINE head == [Head(stack) EXCEPT !.deps = @ \ {t}]
               outer == <<head>> \o Tail(stack)
    <2>1. /\ phase = "types" /\ stack # <<>> /\ Visit(t, outer)
          /\ UNCHANGED <<pkg, command, next, routes, seeds>>
      BY <1>8 DEF VisitDep, input
    <2>2. head \in Frame /\ Tail(stack) \in Seq(Frame)
      <3>1. Head(stack) \in Frame /\ Tail(stack) \in Seq(Frame)
        BY <1>1, <2>1, Uncons
      <3>. QED  BY <3>1 DEF Frame
    <2>3. outer \in Seq(Frame) /\ types \subseteq TypeNames
      BY <2>2, Cons DEF TypeInv, TypeOK
    <2> HIDE DEF outer
    <2>. QED  BY <1>1, <1>4, <2>1, <2>3, VisitTypes
  <1>9. CASE UNCHANGED vars
    BY <1>4, <1>9 DEF vars, input, TypeInv, TypeOK
  <1>. QED  BY <1>2, <1>3, <1>5, <1>6, <1>7, <1>8, <1>9 DEF Next

\* Types: whatever an accepted route leads the walk to is a name its package may mention, so
\* there is always something visitType can make of it.
THEOREM TypeCorrect == Spec => []TypeOK
  <1>1. Init => TypeInv
    BY HandlerFacts DEF Init, TypeInv, TypeOK, Frame
  <1>. QED  BY <1>1, TypeStep, PTL DEF Spec, TypeInv

-----------------------------------------------------------------------------
(***************************************************************************)
(* Termination, as far as a proof without fairness goes: every step of     *)
(* Analyze goes down a well-founded order.  What is left of it is, in this *)
(* order: handlers to judge or phases to go through, seeds, types not yet  *)
(* recorded, calls under way, dependencies of the innermost.               *)
(***************************************************************************)
Ahead == CASE phase = "routes" -> Len(pkg.handlers) + 3 - next
           [] phase = "types" -> 1
           [] OTHER -> 0
OfTop == IF stack = <<>> THEN {} ELSE Head(stack).deps
WorkLeft == <<Ahead, <<seeds, <<TypeNames \ types, <<Len(stack), OfTop>>>>>>>>

Fewer == OpToRel(<, Nat)
Within == StrictSubsetOrdering(TypeNames)
NameSets == FiniteSubsetsOf(TypeNames)

Calling == LexPairOrdering(Fewer, Within, Nat, NameSets)
Recording == LexPairOrdering(Within, Calling, NameSets, Nat \X NameSets)
Seeding == LexPairOrdering(Within, Recording, NameSets, NameSets \X (Nat \X NameSets))
Work == Nat \X (NameSets \X (NameSets \X (Nat \X NameSets)))
LessWork == LexPairOrdering(Fewer, Seeding, Nat, NameSets \X (NameSets \X (Nat \X NameSets)))

\* No chain of ever less work is infinite.
LEMMA WorkRunsOut == IsWellFoundedOn(LessWork, Work)
  <1>1. IsWellFoundedOn(Fewer, Nat)
    BY NatLessThanWellFounded, Zenon DEF Fewer
  <1>2. IsWellFoundedOn(Within, NameSets)
    BY FS_StrictSubsetOrderingWellFounded DEF Within, NameSets
  <1>3. IsWellFoundedOn(Calling, Nat \X NameSets)
    BY <1>1, <1>2, WFLexPairOrdering DEF Calling
  <1>4. IsWellFoundedOn(Recording, NameSets \X (Nat \X NameSets))
    BY <1>2, <1>3, WFLexPairOrdering DEF Recording
  <1>5. IsWellFoundedOn(Seeding, NameSets \X (NameSets \X (Nat \X NameSets)))
    BY <1>2, <1>4, WFLexPairOrdering DEF Seeding
  <1>. QED  BY <1>1, <1>5, WFLexPairOrdering DEF LessWork, Work

\* The five ways to have less to do.
LEMMA Less ==
  ASSUME NEW a \in Nat, NEW s \in NameSets, NEW u \in NameSets, NEW n \in Nat, NEW d \in NameSets,
         NEW b \in Nat, NEW r \in NameSets, NEW v \in NameSets, NEW m \in Nat, NEW e \in NameSets,
         \/ b < a
         \/ b = a /\ r # s /\ r \subseteq s
         \/ b = a /\ r = s /\ v # u /\ v \subseteq u
         \/ b = a /\ r = s /\ v = u /\ m < n
         \/ b = a /\ r = s /\ v = u /\ m = n /\ e # d /\ e \subseteq d
  PROVE  <<<<b, <<r, <<v, <<m, e>>>>>>>>, <<a, <<s, <<u, <<n, d>>>>>>>>>> \in LessWork
  <1>1. \A x, y \in NameSets : x # y /\ x \subseteq y => <<x, y>> \in Within
    BY DEF NameSets, FiniteSubsetsOf, Within, StrictSubsetOrdering
  <1>2. \A x, y \in Nat : x < y => <<x, y>> \in Fewer
    BY DEF Fewer, OpToRel
  <1>3. m < n \/ (m = n /\ e # d /\ e \subseteq d) => <<<<m, e>>, <<n, d>>>> \in Calling
    BY <1>1, <1>2 DEF Calling, LexPairOrdering
  <1>4. \/ v # u /\ v \subseteq u
        \/ v = u /\ <<<<m, e>>, <<n, d>>>> \in Calling
        => <<<<v, <<m, e>>>>, <<u, <<n, d>>>>>> \in Recording
    BY <1>1 DEF Recording, LexPairOrdering
  <1>5. \/ r # s /\ r \subseteq s
        \/ r = s /\ <<<<v, <<m, e>>>>, <<u, <<n, d>>>>>> \in Recording
        => <<<<r, <<v, <<m, e>>>>>>, <<s, <<u, <<n, d>>>>>>>> \in Seeding
    BY <1>1 DEF Seeding, LexPairOrdering
  <1>6. \/ b < a
        \/ b = a /\ <<<<r, <<v, <<m, e>>>>>>, <<s, <<u, <<n, d>>>>>>>> \in Seeding
        => <<<<b, <<r, <<v, <<m, e>>>>>>>>, <<a, <<s, <<u, <<n, d>>>>>>>>>> \in LessWork
    BY <1>2 DEF LessWork, LexPairOrdering
  <1>. QED  BY <1>3, <1>4, <1>5, <1>6

Parts ==
  /\ Ahead \in Nat
  /\ seeds \in NameSets /\ (TypeNames \ types) \in NameSets
  /\ Len(stack) \in Nat /\ OfTop \in NameSets

LEMMA WorkParts == TypeInv => Parts
  <1>. SUFFICES ASSUME TypeInv PROVE Parts
    OBVIOUS
  <1>1. /\ next \in 1 .. Len(pkg.handlers) + 1 /\ Len(pkg.handlers) \in Nat
        /\ stack \in Seq(Frame) /\ seeds \subseteq TypeNames
    BY HandlerFacts DEF TypeInv, TypeOK
  <1>2. OfTop \subseteq TypeNames
    <2>1. CASE stack = <<>>
      BY <2>1 DEF OfTop
    <2>2. CASE stack # <<>>
      <3>1. Head(stack) \in Frame
        BY <1>1, <2>2, Uncons
      <3>. QED  BY <2>2, <3>1 DEF OfTop, Frame
    <2>. QED  BY <2>1, <2>2
  <1>3. \A S : S \subseteq TypeNames => S \in NameSets
    BY NamesAssumption, FS_Subset DEF NameSets, FiniteSubsetsOf
  <1>4. Ahead \in Nat
    BY <1>1 DEF Ahead
  <1>. QED  BY <1>1, <1>2, <1>3, <1>4 DEF Parts

Progress == <<WorkLeft', WorkLeft>> \in LessWork

\* Five ways to progress.
LEMMA Onward ==
  ASSUME Parts, Parts',
         \/ Ahead' < Ahead
         \/ Ahead' = Ahead /\ seeds' # seeds /\ seeds' \subseteq seeds
         \/ Ahead' = Ahead /\ seeds' = seeds /\ (TypeNames \ types)' # TypeNames \ types
              /\ (TypeNames \ types)' \subseteq TypeNames \ types
         \/ Ahead' = Ahead /\ seeds' = seeds /\ (TypeNames \ types)' = TypeNames \ types
              /\ Len(stack)' < Len(stack)
         \/ Ahead' = Ahead /\ seeds' = seeds /\ (TypeNames \ types)' = TypeNames \ types
              /\ Len(stack)' = Len(stack) /\ OfTop' # OfTop /\ OfTop' \subseteq OfTop
  PROVE  Progress
  BY Less DEF Progress, WorkLeft, Parts

LEMMA ProgressStep == IInv /\ TypeInv /\ TypeInv' /\ Next => Progress
  <1>. SUFFICES ASSUME IInv, TypeInv, TypeInv', Next PROVE Progress
    OBVIOUS
  <1>1. Parts /\ Parts'
    <2>1. TypeInv' => Parts'
      BY WorkParts, PTL
    <2>. QED  BY <2>1, WorkParts
  <1>2. /\ pkg \in Packages /\ Len(pkg.handlers) \in Nat /\ next \in Nat
        /\ stack \in Seq(Frame) /\ types \subseteq TypeNames
    BY HandlerFacts DEF TypeInv, TypeOK
  <1>3. CASE DiscoverHandler
    <2>1. Ahead' < Ahead
      BY <1>2, <1>3 DEF DiscoverHandler, Ahead, input
    <2>. QED  BY <1>1, <2>1, Onward
  <1>4. CASE CollectSeeds
    <2>1. Ahead' < Ahead
      BY <1>2, <1>4 DEF CollectSeeds, Ahead, TypeInv, TypeOK
    <2>. QED  BY <1>1, <2>1, Onward
  <1>5. CASE Finish
    <2>1. Ahead' < Ahead
      BY <1>5 DEF Finish, Ahead
    <2>. QED  BY <1>1, <2>1, Onward
  <1>6. ASSUME phase = "types", phase' = "types" PROVE Ahead' = Ahead
    BY <1>6 DEF Ahead
  <1>7. CASE Return
    <2>1. Ahead' = Ahead /\ seeds' = seeds /\ types' = types
      BY <1>6, <1>7 DEF Return
    <2>2. Len(stack)' < Len(stack)
      BY <1>2, <1>7 DEF Return
    <2>. QED  BY <1>1, <2>1, <2>2, Onward
  <1>8. ASSUME NEW t \in TypeNames, VisitSeed(t) PROVE Progress
    <2>1. phase = "types" /\ seeds' # seeds /\ seeds' \subseteq seeds
      BY <1>8 DEF VisitSeed
    <2>2. phase' = "types" \/ phase' = "panicked"
      BY <1>8, <2>1 DEF VisitSeed, Visit
    <2>3. Ahead' = Ahead \/ Ahead' < Ahead
      BY <1>6, <2>1, <2>2 DEF Ahead
    <2>. QED  BY <1>1, <2>1, <2>3, Onward
  <1>9. ASSUME NEW t \in TypeNames, VisitDep(t) PROVE Progress
    <2>. DEFINE head == [Head(stack) EXCEPT !.deps = @ \ {t}]
                outer == <<head>> \o Tail(stack)
    <2>1. /\ phase = "types" /\ stack # <<>> /\ t \in Head(stack).deps /\ seeds' = seeds
          /\ Visit(t, outer)
      BY <1>9 DEF VisitDep
    <2>2. /\ Head(stack) \in Frame /\ Tail(stack) \in Seq(Frame)
          /\ head \in Frame /\ head.deps = Head(stack).deps \ {t} /\ head.type = Head(stack).type
      <3>1. Head(stack) \in Frame /\ Tail(stack) \in Seq(Frame)
        BY <1>2, <2>1, Uncons
      <3>. QED  BY <3>1 DEF Frame
    <2>3. /\ outer \in Seq(Frame) /\ Len(outer) = Len(stack)
          /\ outer # <<>> /\ Head(outer) = head
      <3>. HIDE DEF head
      <3>1. Len(Tail(stack)) = Len(stack) - 1
        BY <1>2, <2>1
      <3>. QED  BY <1>2, <2>2, <3>1
    <2>4. \A i \in DOMAIN outer : outer[i].type \in types
      <3>1. \A i \in DOMAIN stack : stack[i].type \in types
        BY DEF IInv, NoReentry, Visiting
      <3>2. /\ 1 \in DOMAIN stack /\ Head(stack) = stack[1]
            /\ \A i \in DOMAIN Tail(stack) : i + 1 \in DOMAIN stack /\ Tail(stack)[i] = stack[i + 1]
        BY <1>2, <2>1, Uncons
      <3>. HIDE DEF head
      <3>3. /\ DOMAIN outer = 1 .. Len(Tail(stack)) + 1 /\ outer[1] = head
            /\ \A i \in DOMAIN Tail(stack) : outer[i + 1] = Tail(stack)[i]
        BY <2>2, Cons
      <3>4. \A i \in DOMAIN outer : i = 1 \/ i - 1 \in DOMAIN Tail(stack)
        BY <2>2, <3>3
      <3>5. outer[1].type \in types
        BY <2>2, <3>1, <3>2, <3>3
      <3>6. ASSUME NEW i \in DOMAIN outer, i # 1 PROVE outer[i].type \in types
        <4>1. i - 1 \in DOMAIN Tail(stack) /\ outer[i] = Tail(stack)[i - 1]
          BY <2>2, <3>3, <3>4, <3>6
        <4>. QED  BY <3>1, <3>2, <3>3, <4>1
      <3>. QED  BY <3>5, <3>6
    <2>. HIDE DEF outer
    <2>5. CASE phase' = "panicked"
      <3>1. Ahead' < Ahead
        BY <2>1, <2>5 DEF Ahead
      <3>. QED  BY <1>1, <3>1, Onward
    <2>6. CASE phase' = "types" /\ stack' = outer /\ types' = types
      <3>1. Ahead' = Ahead /\ (TypeNames \ types)' = TypeNames \ types
        BY <1>6, <2>1, <2>6
      <3>2. OfTop' = Head(stack).deps \ {t} /\ OfTop = Head(stack).deps
        BY <2>1, <2>2, <2>3, <2>6 DEF OfTop
      <3>. QED  BY <1>1, <2>1, <2>3, <2>6, <3>1, <3>2, Onward
    <2>7. CASE phase' = "types" /\ t \notin types /\ types' = types \cup {t}
      <3>1. Ahead' = Ahead
        BY <1>6, <2>1, <2>7
      <3>2. (TypeNames \ types)' # TypeNames \ types /\ (TypeNames \ types)' \subseteq TypeNames \ types
        BY <2>7
      <3>. QED  BY <1>1, <2>1, <3>1, <3>2, Onward
    <2>. QED  BY <1>2, <2>1, <2>3, <2>4, <2>5, <2>6, <2>7, VisitCall
  <1>. QED  BY <1>3, <1>4, <1>5, <1>7, <1>8, <1>9 DEF Next

\* Analyze cannot go on for ever: every step it takes leaves less to do, in an order in
\* which nothing decreases for ever.  visitType's recursion ends on types that refer to
\* each other in a cycle (ADR 0018 D4).
THEOREM WalkEnds ==
  /\ IsWellFoundedOn(LessWork, Work)
  /\ Spec => [][Progress]_vars
  <1>1. IInv /\ TypeInv /\ TypeInv' /\ [Next]_vars => [Progress]_vars
    BY ProgressStep
  <1>2. Init => TypeInv
    BY HandlerFacts DEF Init, TypeInv, TypeOK, Frame
  <1>3. Spec => [][Progress]_vars
    BY <1>1, <1>2, TypeStep, Inductive, PTL DEF Spec
  <1>. QED  BY <1>3, WorkRunsOut
=============================================================================
