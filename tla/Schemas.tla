------------------------------ MODULE Schemas ------------------------------
(***************************************************************************)
(* schemas.ts (internal/generators/zod/zod.go): one const per type, in the *)
(* order of TypeOrder, and what happens when a program imports it.  The    *)
(* consts are evaluated one after another; renderSchema's expressions name *)
(* other consts directly, so one that stands below, or is the const being  *)
(* defined, throws a ReferenceError.  A generic type is an arrow function, *)
(* which reads the names in its body only when a later const calls it.     *)
(*                                                                         *)
(* Generate emits every block in memory before any is evaluated: evaluating*)
(* starts when the order is done.                                          *)
(***************************************************************************)
EXTENDS TypeOrder

CONSTANT
  Shapes(_) \* what else an API varies in: is a type plain, generic or bare?

\* bare: a struct without fields on the wire.
ASSUME ShapesAssumption == \A api \in Apis : Shapes(api) \subseteq [Types -> {"plain", "generic", "bare"}]

VARIABLES
  shape,
  bound,    \* the consts of schemas.ts that have their value
  failed    \* the types whose const threw, ending the module

module == <<shape, bound, failed>>
vars == <<orderVars, module>>

-----------------------------------------------------------------------------
\* gen.EmitTS: a struct with nothing on the wire has no const.
EmitTS(t) == shape[t] # "bare"

\* The mentions rendered: zodExpr renders element, key, value and type arguments alike.
Names(t) == {m.to : m \in refs[t]}

\* What rendering t's const names, what the factories it calls name, and so on.
CallsIn(S) == \A t \in S \cap Types : shape[t] = "generic" => Names(t) \subseteq S
Body(t) == {n \in Named : \A S \in SUBSET Named : Names(t) \subseteq S /\ CallsIn(S) => n \in S}

\* What evaluating the const reads: a factory is an arrow function and reads nothing.
Reads(t) == IF shape[t] = "generic" THEN {} ELSE Body(t)

\* A factory that calls itself does so without end.
Endless(t) == \E f \in Reads(t) \cap Types : shape[f] = "generic" /\ f \in Body(f)

\* The consts, and which of them is the next from the top.
Lines == {t \in Elements(order) : EmitTS(t)}
NextLine(t) ==
  /\ t \in Lines \ bound
  /\ \A u \in Lines \ bound : ~Before(u, t)

Init ==
  /\ OrderInit
  /\ shape \in Shapes(refs)
  /\ bound = {} /\ failed = {}

\* One statement of schemas.ts.
Statement(t) ==
  /\ phase = "done" /\ failed = {}
  /\ NextLine(t)
  /\ IF Reads(t) \subseteq bound /\ ~Endless(t)
     THEN bound' = bound \cup {t} /\ UNCHANGED failed
     ELSE failed' = {t} /\ UNCHANGED bound
  /\ UNCHANGED <<orderVars, shape>>

Evaluate == \E t \in Types : Statement(t)

Next == (OrderNext /\ UNCHANGED module) \/ Evaluate

Spec == Init /\ [][Next]_vars /\ WF_vars(Next)

-----------------------------------------------------------------------------
\* The variables of the order and of the module keep to their types.
TypeOK ==
  /\ OrderTypeOK
  /\ shape \in Shapes(refs)
  /\ bound \subseteq Types /\ failed \subseteq Types

\* What a const reads, step by step: no name is undeclared, none leads back, and none is
\* mentioned inside type arguments, for which no order is kept.
Sound(t) ==
  \A u \in (Reads(t) \cup {t}) \cap Types : \A m \in refs[u] :
    /\ m.to \in Types /\ EmitTS(m.to)
    /\ ~Reaches(m.to, u)
    /\ ~m.arg

\* Importing schemas.ts succeeds but for types that mention themselves, a type declared
\* nowhere, or a type argument: the ones README lists (zod.go:221 "a forward value
\* reference").
FailsWithCause == \A t \in failed : ~Sound(t)

\* An API whose types are all sound gets all its validators.
Loads == (\A t \in Types : Sound(t)) ~> (phase = "done" /\ bound = Lines)

\* A promise not kept: every schemas.ts loads, types on cycles included
\* (docs/decisions/0018-type-traversal-failure-boundaries.md:121 "Cycles in Go struct
\* graphs are legal (linked-list nodes, tree nodes) and must work").
AlwaysLoads == failed = {}
=============================================================================
