----------------------------- MODULE TypeOrder -----------------------------
(***************************************************************************)
(* TopoSortTypes (internal/gen/toposort.go): the order in which types.ts   *)
(* and schemas.ts declare the types of an API.  tarjanSCC finds the        *)
(* strongly connected components of the dependency graph, its recursion    *)
(* made explicit: calls is Go's call stack, left[v] what the range over    *)
(* deps[v] has yet to come to.  Kahn's algorithm then emits one component  *)
(* at a time, the ready one that comes first in the source.                *)
(*                                                                         *)
(* The range over deps[v] follows the order of v's fields; here it takes   *)
(* them in any order, and every order must do.                             *)
(***************************************************************************)
EXTENDS Integers, Sequences, FiniteSets

CONSTANTS
  Types,    \* the keys of api.Types
  Named,    \* the qualified names a TypeRef may have, those of Types among them
  Pos,      \* where each type is declared: the rank of its file, and the line
  Apis      \* the APIs ordered: what the TypeRefs of each type name

\* A name a type mentions: arg when it stands inside the arguments of a generic.
Mention == [to : Named, arg : BOOLEAN]

ASSUME TypesAssumption == IsFiniteSet(Types) /\ Types \subseteq Named
ASSUME ApisAssumption == Apis \subseteq [Types -> SUBSET Mention]
\* One declaration a line, as gofmt lays them out.
ASSUME PosAssumption ==
  /\ Pos \in [Types -> [file : Nat, line : Nat]]
  /\ \A t, u \in Types : Pos[t] = Pos[u] => t = u

VARIABLES
  refs,       \* the mentions of each type
  idx, low,   \* Tarjan's numbers, Unseen for a type not yet visited
  counter,    \* the next number
  stack,      \* Tarjan's stack
  calls,      \* the calls of sc under way, innermost last
  left,       \* the dependencies a call has yet to come to
  sccs,       \* the components found, in that order
  emitted,    \* the indices of those already placed
  order,      \* the types placed
  phase

orderVars == <<refs, idx, low, counter, stack, calls, left, sccs, emitted, order, phase>>
tarjan == <<idx, low, counter, stack, calls, left, sccs>>

Unseen == -1
Elements(s) == {s[i] : i \in DOMAIN s}
Smaller(a, b) == IF a < b THEN a ELSE b

-----------------------------------------------------------------------------
\* srcLess over posKey: files by name, lines as numbers.
SrcLess(t, u) ==
  \/ Pos[t].file < Pos[u].file
  \/ Pos[t].file = Pos[u].file /\ Pos[t].line < Pos[u].line

First(S) == CHOOSE t \in S : \A u \in S \ {t} : SrcLess(t, u)

\* sort.Slice by srcLess.
Sorted(S) == {s \in [1 .. Cardinality(S) -> S] :
                /\ \A i, j \in DOMAIN s : i < j => SrcLess(s[i], s[j])
                /\ Elements(s) = S}

\* namedDeps descends into elements, keys and values, not into type arguments; the
\* caller drops the type itself and names that are no type of the API.
ArgumentsOnly(t) == {m.to : m \in {n \in refs[t] : n.arg}}
NamedDeps(t) == {m.to : m \in {n \in refs[t] : ~n.arg}}
Deps(t) == (NamedDeps(t) \cap Types) \ {t}

Seen(t) == idx[t] # Unseen
OnStack(t) == t \in Elements(stack)
Top == calls[Len(calls)]

-----------------------------------------------------------------------------
OrderInit ==
  /\ refs \in Apis
  /\ idx = [t \in Types |-> Unseen]
  /\ low = [t \in Types |-> Unseen]
  /\ counter = 0
  /\ stack = <<>>
  /\ calls = <<>>
  /\ left = [t \in Types |-> {}]
  /\ sccs = <<>>
  /\ emitted = {}
  /\ order = <<>>
  /\ phase = "tarjan"

\* sc(v) up to its loop.
Call(v) ==
  /\ idx' = [idx EXCEPT ![v] = counter]
  /\ low' = [low EXCEPT ![v] = counter]
  /\ counter' = counter + 1
  /\ stack' = Append(stack, v)
  /\ calls' = Append(calls, v)

\* tarjanSCC's own loop calls sc on the next node, in source order, not yet seen.
Start(v) ==
  /\ phase = "tarjan" /\ calls = <<>>
  /\ ~Seen(v)
  /\ \A u \in Types : ~Seen(u) /\ u # v => SrcLess(v, u)
  /\ Call(v)
  /\ left' = [left EXCEPT ![v] = Deps(v)]
  /\ UNCHANGED <<refs, sccs, emitted, order, phase>>

\* The range comes to a dependency not yet seen.
Descend(w) ==
  /\ calls # <<>>
  /\ w \in left[Top]
  /\ ~Seen(w)
  /\ Call(w)
  /\ left' = [left EXCEPT ![Top] = @ \ {w}, ![w] = Deps(w)]
  /\ UNCHANGED <<refs, sccs, emitted, order, phase>>

\* What an edge from v to a type seen before does to low[v].
Finished(v, w) == Smaller(low[v], idx[w])
Ignored(v, w) == low[v]
Lowered(v, w) == IF OnStack(w) THEN Smaller(low[v], idx[w]) ELSE low[v]

Look(w) ==
  /\ calls # <<>>
  /\ w \in left[Top]
  /\ Seen(w)
  /\ low' = [low EXCEPT ![Top] = Lowered(Top, w)]
  /\ left' = [left EXCEPT ![Top] = @ \ {w}]
  /\ UNCHANGED <<refs, idx, counter, stack, calls, sccs, emitted, order, phase>>

\* The end of sc(v): a root pops its component; the caller lowers its own number.
IsRoot(v) == low[v] = idx[v]
Place(v) == CHOOSE i \in DOMAIN stack : stack[i] = v

Pop(v) ==
  /\ stack' = SubSeq(stack, 1, Place(v) - 1)
  /\ sccs' = Append(sccs, {stack[i] : i \in Place(v) .. Len(stack)})

Return ==
  /\ calls # <<>>
  /\ left[Top] = {}
  /\ IF IsRoot(Top) THEN Pop(Top) ELSE UNCHANGED <<stack, sccs>>
  /\ calls' = SubSeq(calls, 1, Len(calls) - 1)
  /\ low' = IF Len(calls) = 1 THEN low
            ELSE [low EXCEPT ![calls[Len(calls) - 1]] = Smaller(@, low[Top])]
  /\ UNCHANGED <<refs, idx, counter, left, emitted, order, phase>>

Condense ==
  /\ phase = "tarjan" /\ calls = <<>>
  /\ \A t \in Types : Seen(t)
  /\ phase' = "kahn"
  /\ UNCHANGED <<refs, tarjan, emitted, order>>

-----------------------------------------------------------------------------
\* cdeps: the components that component i depends on.
CDeps(i) == {j \in DOMAIN sccs \ {i} : \E u \in sccs[i] : Deps(u) \cap sccs[j] # {}}

Pending == DOMAIN sccs \ emitted
OneReady(i) == i \in Pending /\ (CDeps(i) = {} \/ CDeps(i) \cap emitted # {})
Ready(i) == i \in Pending /\ CDeps(i) \subseteq emitted

Latest(i) == \A j \in Pending \ {i} : Ready(j) => SrcLess(First(sccs[j]), First(sccs[i]))
Best(i) == \A j \in Pending \ {i} : Ready(j) => SrcLess(First(sccs[i]), First(sccs[j]))

Emit(i) ==
  /\ phase = "kahn"
  /\ Ready(i) /\ Best(i)
  /\ emitted' = emitted \cup {i}
  /\ \E s \in Sorted(sccs[i]) : order' = order \o s
  /\ UNCHANGED <<refs, tarjan, phase>>

Finish ==
  /\ phase = "kahn" /\ Pending = {}
  /\ phase' = "done"
  /\ UNCHANGED <<refs, tarjan, emitted, order>>

OrderNext ==
  \/ \E v \in Types : Start(v) \/ Descend(v) \/ Look(v)
  \/ Return
  \/ Condense
  \/ \E i \in DOMAIN sccs : Emit(i)
  \/ Finish

OrderSpec == OrderInit /\ [][OrderNext]_orderVars

-----------------------------------------------------------------------------
\* What may be said of the graph without the algorithm: u reaches the types in every
\* set that holds u and whatever its members depend on.
DepsClosed(S) == \A t \in S : Deps(t) \subseteq S
Reaches(u, v) == \A S \in SUBSET Types : u \in S /\ DepsClosed(S) => v \in S
Together(u, v) == Reaches(u, v) /\ Reaches(v, u)
Component(u) == {v \in Types : Together(u, v)}

Before(u, v) ==
  \E i, j \in DOMAIN order : i < j /\ order[i] = u /\ order[j] = v

\* The variables keep to their types.
OrderTypeOK ==
  /\ refs \in Apis
  /\ idx \in [Types -> Nat \cup {Unseen}] /\ low \in [Types -> Nat \cup {Unseen}]
  /\ counter \in Nat
  /\ stack \in Seq(Types) /\ calls \in Seq(Types)
  /\ left \in [Types -> SUBSET Types]
  /\ sccs \in Seq(SUBSET Types)
  /\ emitted \subseteq DOMAIN sccs
  /\ order \in Seq(Types)
  /\ phase \in {"tarjan", "kahn", "done"}

\* tarjanSCC returns the classes of mutual reachability, each once
\* (toposort.go:148 "the strongly connected components").
Components ==
  phase # "tarjan" =>
    /\ Elements(sccs) = {Component(t) : t \in Types}
    /\ \A i, j \in DOMAIN sccs : sccs[i] = sccs[j] => i = j

\* The emission loop always finds a component, where it would index emitted[-1]
\* (toposort.go:140 "an SCC DAG always has a ready node").
AlwaysReady ==
  phase = "kahn" /\ Pending # {} => \E i \in Pending : Ready(i)

\* "returns every type in api.Types": each once.
EveryTypeOnce ==
  /\ \A i, j \in DOMAIN order : order[i] = order[j] => i = j
  /\ phase = "done" => Elements(order) = Types

\* "if A references B, B precedes A", unless they reach each other
\* (toposort.go:67, for references outside type arguments).
DependenciesFirst ==
  \A u \in Elements(order) : \A v \in Deps(u) : Together(u, v) \/ Before(v, u)

\* "Ties (and SCC members) break by source declaration order": a type comes after one
\* declared later only when a dependency of its component had still to come.
SourceFirst ==
  \A t, u \in Elements(order) :
    Before(t, u) =>
      IF Together(t, u) THEN SrcLess(t, u)
      ELSE \/ SrcLess(First(Component(t)), First(Component(u)))
           \/ \E x \in Component(u) : \E v \in Deps(x) :
                ~Together(x, v) /\ ~Before(v, First(Component(t)))
=============================================================================
