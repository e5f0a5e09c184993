----------------------------- MODULE MCSchemas -----------------------------
(***************************************************************************)
(* Every dependency graph over four types, and every API of three types,   *)
(* one of which may be generic or bare, that mentions at most two names,   *)
(* in type arguments or not, itself and an undeclared one among them.      *)
(***************************************************************************)
EXTENDS Schemas, TLC

Four == {"A", "B", "C", "D"}
Names5 == Four \cup {"Gone"}

\* C is declared in the first file; A, B and D follow in the second.
Positions == "A" :> [file |-> 2, line |-> 9] @@ "B" :> [file |-> 2, line |-> 10]
             @@ "C" :> [file |-> 1, line |-> 115] @@ "D" :> [file |-> 2, line |-> 11]

Plainly(S) == {[to |-> n, arg |-> FALSE] : n \in S}
Graphs4 == {[t \in Four |-> Plainly(g[t])] : g \in {f \in [Four -> SUBSET Four] : \A t \in Four : t \notin f[t]}}

\* D mentions nothing.
Three == Four \ {"D"}
Mentionings == Three \X (Names5 \X BOOLEAN)
Few == {{e, f} : e \in Mentionings, f \in Mentionings}
Mentions3 == {[t \in Four |-> {[to |-> e[2][1], arg |-> e[2][2]] : e \in {x \in S : x[1] = t}}] : S \in Few}

AllApis == Graphs4 \cup Mentions3
AllShapes(api) ==
  LET Only(x, k) == [t \in Four |-> IF t = x THEN k ELSE "plain"]
  IN  IF \E t \in Four : Cardinality(api[t]) > 2 \/ api["D"] # {}
      THEN {Only("A", "plain")}
      ELSE {Only(x, k) : x \in {"B", "C"}, k \in {"plain", "generic", "bare"}}
=============================================================================
