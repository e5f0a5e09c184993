-------------------------- MODULE TypeOrderProofs --------------------------
(***************************************************************************)
(* tarjanSCC and the emission loop are correct for every API.              *)
(*                                                                         *)
(* The induction keeps three things.  Numbers: stack and calls are sorted  *)
(* by idx, and no low number on the stack is below the outermost call.     *)
(* Closing: a dependency already looked at is in a component, or on the    *)
(* stack no lower than the low number of the call above its dependent, so  *)
(* a popped component depends on itself and on earlier ones.  Reaching: a  *)
(* call reaches what stands above it, and everything on the stack reaches  *)
(* some call at or below it, so the members of a popped one reach each     *)
(* other.                                                                  *)
(***************************************************************************)
EXTENDS Schemas, SequenceTheorems, FiniteSetTheorems, WellFoundedInduction, TLAPS

Stacked == Elements(stack)
Found(t) == \E i \in DOMAIN sccs : t \in sccs[i]

\* The innermost call at or below x.
Above(k, x) ==
  /\ idx[calls[k]] <= idx[x]
  /\ k = Len(calls) \/ idx[x] < idx[calls[k + 1]]

Sorting ==
  /\ \A t \in Types : Seen(t) => idx[t] < counter
  /\ \A i, j \in DOMAIN stack : i < j => idx[stack[i]] < idx[stack[j]]
  /\ \A i, j \in DOMAIN calls : i < j => idx[calls[i]] < idx[calls[j]]

Placing ==
  /\ \A t \in Types : Seen(t) <=> t \in Stacked \/ Found(t)
  /\ \A t \in Stacked : ~Found(t)
  /\ \A i, j \in DOMAIN sccs : i # j => sccs[i] \cap sccs[j] = {}
  /\ \A i \in DOMAIN sccs : sccs[i] # {}
  /\ Elements(calls) \subseteq Stacked

Lows ==
  \A x \in Stacked : calls # <<>> /\ low[x] <= idx[x] /\ idx[calls[1]] <= low[x]

LeftOver ==
  \A t \in Types : left[t] \subseteq Deps(t) /\ (t \notin Elements(calls) => left[t] = {})

Closing ==
  /\ \A i \in DOMAIN sccs : \A u \in sccs[i] : \A w \in Deps(u) :
       \E j \in DOMAIN sccs : j <= i /\ w \in sccs[j]
  /\ \A x \in Stacked : \A w \in Deps(x) \ left[x] : \A k \in DOMAIN calls :
       Above(k, x) => Found(w) \/ (w \in Stacked /\ low[calls[k]] <= idx[w])

Reaching ==
  /\ \A k \in DOMAIN calls : \A x \in Stacked :
       idx[calls[k]] <= idx[x] => Reaches(calls[k], x)
  /\ \A x \in Stacked : \E y \in Stacked : idx[y] = low[x] /\ Reaches(x, y)
  /\ \A x \in Stacked : \E k \in DOMAIN calls :
       idx[calls[k]] <= idx[x] /\ Reaches(x, calls[k])
  /\ \A i \in DOMAIN sccs : \A u, v \in sccs[i] : Together(u, v)

Phases ==
  /\ phase = "tarjan" => emitted = {} /\ order = <<>>
  /\ phase # "tarjan" => calls = <<>> /\ \A t \in Types : Seen(t)

TarjanInv ==
  OrderTypeOK /\ Sorting /\ Placing /\ Lows /\ LeftOver /\ Closing /\ Reaching /\ Phases

-----------------------------------------------------------------------------
\* Every non-empty set of naturals has a least element.
LEMMA Least ==
  ASSUME NEW S, S \subseteq Nat, S # {}
  PROVE  \E m \in S : \A n \in S : m <= n
  <1> DEFINE R == {p \in Nat \X Nat : p[1] < p[2]}
  <1>1. IsWellFoundedOn(R, Nat)
    BY NatLessThanWellFounded DEF OpToRel
  <1>2. PICK m \in S : \A n \in S : ~ (<<n, m>> \in R)
    BY <1>1, WFMin
  <1>3. \A n \in S : m <= n
    <2> TAKE n \in S
    <2>1. ~ (n < m)
      BY <1>2
    <2> QED BY <2>1
  <1> QED BY <1>3

\* What Append and SubSeq do to the elements of a sequence.
LEMMA Appended ==
  ASSUME NEW S, NEW s \in Seq(S), NEW e \in S
  PROVE  /\ Append(s, e) \in Seq(S)
         /\ Len(Append(s, e)) = Len(s) + 1 /\ DOMAIN Append(s, e) = 1 .. Len(s) + 1
         /\ \A i \in 1 .. Len(s) : Append(s, e)[i] = s[i]
         /\ Append(s, e)[Len(s) + 1] = e
         /\ Elements(Append(s, e)) = Elements(s) \cup {e}
         /\ Len(s) \in Nat /\ DOMAIN s = 1 .. Len(s)
  BY DEF Elements

LEMMA Shortened ==
  ASSUME NEW S, NEW s \in Seq(S), NEW n \in 0 .. Len(s)
  PROVE  /\ SubSeq(s, 1, n) \in Seq(S)
         /\ Len(SubSeq(s, 1, n)) = n /\ DOMAIN SubSeq(s, 1, n) = 1 .. n
         /\ \A i \in 1 .. n : SubSeq(s, 1, n)[i] = s[i]
         /\ Elements(SubSeq(s, 1, n)) = {s[i] : i \in 1 .. n}
  <1> DEFINE r == SubSeq(s, 1, n)
  <1>1. n \in Int /\ \A i \in 1 .. n : s[i] \in S
    OBVIOUS
  <1>2. /\ r \in Seq(S) /\ Len(r) = IF 1 <= n THEN n - 1 + 1 ELSE 0
        /\ \A i \in 1 .. n - 1 + 1 : r[i] = s[1 + i - 1]
    BY <1>1, SubSeqProperties
  <1>3. Len(r) = n /\ DOMAIN r = 1 .. n /\ \A i \in 1 .. n : r[i] = s[i]
    BY <1>2
  <1>4. Elements(r) = {s[i] : i \in 1 .. n}
    BY <1>3 DEF Elements
  <1> QED BY <1>2, <1>3, <1>4

-----------------------------------------------------------------------------
\* Reachability is reflexive and transitive and holds along a dependency.
LEMMA ReachSelf == \A u : Reaches(u, u)
  BY DEF Reaches

LEMMA ReachOn == \A u, v, w : Reaches(u, v) /\ Reaches(v, w) => Reaches(u, w)
  BY DEF Reaches

LEMMA ReachDep == \A u, v : v \in Deps(u) => Reaches(u, v)
  BY DEF Reaches, DepsClosed

LEMMA DepsTypes == \A t : Deps(t) \subseteq Types /\ t \notin Deps(t)
  BY DEF Deps

\* The graph does not change.
LEMMA SameGraph ==
  ASSUME refs' = refs
  PROVE  /\ \A t : Deps(t)' = Deps(t)
         /\ \A u, v : Reaches(u, v)' = Reaches(u, v)
         /\ \A u, v : Together(u, v)' = Together(u, v)
  <1>1. \A t : Deps(t)' = Deps(t)
    BY DEF Deps, NamedDeps
  <1>2. \A S : DepsClosed(S)' = DepsClosed(S)
    BY <1>1 DEF DepsClosed
  <1>3. \A u, v : Reaches(u, v)' = Reaches(u, v)
    BY <1>2 DEF Reaches
  <1> QED BY <1>1, <1>3 DEF Together

\* What the sequences of a state hold.
LEMMA Facts ==
  ASSUME TarjanInv
  PROVE  /\ Len(stack) \in Nat /\ DOMAIN stack = 1 .. Len(stack)
         /\ Len(calls) \in Nat /\ DOMAIN calls = 1 .. Len(calls)
         /\ Len(sccs) \in Nat /\ DOMAIN sccs = 1 .. Len(sccs)
         /\ Stacked \subseteq Types
         /\ \A k \in DOMAIN calls : calls[k] \in Stacked
         /\ \A x \in Stacked : idx[x] \in Nat /\ Seen(x) /\ low[x] \in Int
         /\ \A x, y \in Stacked : idx[x] = idx[y] => x = y
  <1>1. /\ stack \in Seq(Types) /\ calls \in Seq(Types) /\ sccs \in Seq(SUBSET Types)
        /\ idx \in [Types -> Nat \cup {Unseen}] /\ low \in [Types -> Nat \cup {Unseen}]
    BY DEF TarjanInv, OrderTypeOK
  <1>2. /\ Len(stack) \in Nat /\ DOMAIN stack = 1 .. Len(stack)
        /\ Len(calls) \in Nat /\ DOMAIN calls = 1 .. Len(calls)
        /\ Len(sccs) \in Nat /\ DOMAIN sccs = 1 .. Len(sccs)
    BY <1>1
  <1>3. Stacked \subseteq Types
    BY <1>1, <1>2 DEF Stacked, Elements
  <1>4. \A k \in DOMAIN calls : calls[k] \in Stacked
    BY DEF TarjanInv, Placing, Elements
  <1>5. \A x \in Stacked : idx[x] \in Nat /\ Seen(x) /\ low[x] \in Int
    <2>1. \A x \in Stacked : Seen(x)
      BY <1>3 DEF TarjanInv, Placing
    <2> QED BY <1>1, <1>3, <2>1 DEF Seen, Unseen
  <1>6. \A x, y \in Stacked : idx[x] = idx[y] => x = y
    <2> SUFFICES ASSUME NEW i \in DOMAIN stack, NEW j \in DOMAIN stack,
                        idx[stack[i]] = idx[stack[j]]
                 PROVE  stack[i] = stack[j]
      BY DEF Stacked, Elements
    <2>1. idx[stack[i]] \in Nat /\ idx[stack[j]] \in Nat
      BY <1>5 DEF Stacked, Elements
    <2>2. ~ (i < j) /\ ~ (j < i)
      BY <2>1 DEF TarjanInv, Sorting
    <2> QED BY <2>2, <1>2
  <1> QED BY <1>2, <1>3, <1>4, <1>5, <1>6

\* The innermost call has the greatest number of all, the outermost the least.
LEMMA TopFacts ==
  ASSUME TarjanInv, calls # <<>>
  PROVE  /\ Len(calls) \in DOMAIN calls /\ 1 \in DOMAIN calls
         /\ Top \in Stacked /\ Top \in Types /\ calls[1] \in Stacked
         /\ \A k \in DOMAIN calls : idx[calls[k]] <= idx[Top]
         /\ \A k \in DOMAIN calls : k # Len(calls) => idx[calls[k]] < idx[Top]
  <1>1. Len(calls) \in DOMAIN calls /\ 1 \in DOMAIN calls
    <2>1. calls \in Seq(Types)
      BY DEF TarjanInv, OrderTypeOK
    <2> QED BY <2>1
  <1>2. Top \in Stacked /\ Top \in Types /\ calls[1] \in Stacked
    BY <1>1, Facts DEF Top
  <1>3. \A k \in DOMAIN calls : k # Len(calls) => idx[calls[k]] < idx[Top]
    BY <1>1, Facts DEF TarjanInv, Sorting, Top
  <1>4. \A k \in DOMAIN calls : idx[calls[k]] <= idx[Top]
    BY <1>1, <1>2, <1>3, Facts DEF Top
  <1> QED BY <1>1, <1>2, <1>3, <1>4
-----------------------------------------------------------------------------
\* What the steps of tarjanSCC leave alone.
Untouched == UNCHANGED <<refs, emitted, order, phase>>

\* A call of sc, from tarjanSCC's loop or from another call's.
Called(w) ==
  /\ ~Seen(w) /\ phase = "tarjan"
  /\ Call(w)
  /\ left' \in [Types -> SUBSET Types] /\ left'[w] = Deps(w)
  /\ \A t \in Types \ {w} :
       \/ left'[t] = left[t]
       \/ calls # <<>> /\ t = Top /\ left'[t] = left[t] \ {w}
  /\ calls # <<>> => w \in Deps(Top)
  /\ calls = <<>> => stack = <<>>
  /\ Untouched /\ sccs' = sccs

LEMMA StartCalls ==
  ASSUME TarjanInv, NEW w \in Types, Start(w)
  PROVE  Called(w)
  <1>1. left' = [left EXCEPT ![w] = Deps(w)] /\ left \in [Types -> SUBSET Types]
    BY DEF Start, TarjanInv, OrderTypeOK
  <1>2. Deps(w) \in SUBSET Types
    BY DepsTypes
  <1>3. stack = <<>>
    <2>1. calls = <<>>
      BY DEF Start
    <2>2. Stacked = {}
      BY <2>1 DEF TarjanInv, Lows
    <2> QED BY <2>2, Facts DEF Stacked, Elements, TarjanInv, OrderTypeOK
  <1> QED BY <1>1, <1>2, <1>3 DEF Start, Called, Untouched

LEMMA DescendCalls ==
  ASSUME TarjanInv, NEW w \in Types, Descend(w)
  PROVE  Called(w)
  <1>1. /\ left' = [left EXCEPT ![Top] = @ \ {w}, ![w] = Deps(w)]
        /\ left \in [Types -> SUBSET Types]
    BY DEF Descend, TarjanInv, OrderTypeOK
  <1>2. Deps(w) \in SUBSET Types
    BY DepsTypes
  <1>3. Top \in Types /\ Top # w /\ calls # <<>>
    BY TopFacts, Facts DEF Descend
  <1>4. w \in Deps(Top)
    BY <1>3 DEF Descend, TarjanInv, LeftOver
  <1>5. phase = "tarjan"
    BY <1>3 DEF TarjanInv, Phases
  <1> QED BY <1>1, <1>2, <1>3, <1>4, <1>5 DEF Descend, Called, Untouched

LEMMA CalledKeeps ==
  ASSUME TarjanInv, NEW w \in Types, Called(w)
  PROVE  TarjanInv'
  <1> USE DEF Called
  <1>0. /\ stack \in Seq(Types) /\ calls \in Seq(Types) /\ counter \in Nat
        /\ idx \in [Types -> Nat \cup {Unseen}] /\ low \in [Types -> Nat \cup {Unseen}]
    BY DEF TarjanInv, OrderTypeOK
  <1>1. /\ stack' = Append(stack, w) /\ calls' = Append(calls, w)
        /\ idx' = [idx EXCEPT ![w] = counter] /\ low' = [low EXCEPT ![w] = counter]
        /\ counter' = counter + 1
    BY DEF Call
  <1>2. /\ stack' \in Seq(Types) /\ DOMAIN stack' = 1 .. Len(stack) + 1
        /\ \A i \in DOMAIN stack : stack'[i] = stack[i]
        /\ stack'[Len(stack) + 1] = w
        /\ Stacked' = Stacked \cup {w}
    BY <1>0, <1>1, Appended DEF Stacked
  <1>3. /\ calls' \in Seq(Types) /\ DOMAIN calls' = 1 .. Len(calls) + 1
        /\ Len(calls') = Len(calls) + 1
        /\ \A i \in DOMAIN calls : calls'[i] = calls[i]
        /\ calls'[Len(calls) + 1] = w
        /\ Elements(calls') = Elements(calls) \cup {w}
        /\ calls' # <<>>
    <2>1. calls' # <<>>
      BY <1>0, <1>1, AppendProperties
    <2> QED BY <1>0, <1>1, <2>1, Appended
  <1>4. /\ w \notin Stacked /\ ~Found(w) /\ w \notin Elements(calls)
    BY DEF TarjanInv, Placing
  <1>5. /\ idx'[w] = counter /\ low'[w] = counter
        /\ \A t \in Types \ {w} : idx'[t] = idx[t] /\ low'[t] = low[t]
    BY <1>0, <1>1
  <1>6. \A x \in Stacked : x \in Types /\ x # w /\ idx[x] \in Nat /\ idx[x] < counter
                           /\ idx'[x] = idx[x] /\ low'[x] = low[x] /\ low[x] \in Int
    BY <1>4, <1>5, Facts DEF TarjanInv, Sorting
  <1>7. \A k \in DOMAIN calls : calls[k] \in Stacked
    BY Facts
  <1>8. /\ \A t : Deps(t)' = Deps(t)
        /\ \A u, v : Reaches(u, v)' = Reaches(u, v) /\ Together(u, v)' = Together(u, v)
    BY SameGraph DEF Untouched
  <1>9. \A t : Found(t)' <=> Found(t)
    BY DEF Found
  <1>10. OrderTypeOK'
    BY <1>0, <1>1, <1>2, <1>3 DEF OrderTypeOK, TarjanInv, Untouched
  <1>11. Sorting'
    <2>1. \A t \in Types : Seen(t)' => idx'[t] < counter'
      <3> SUFFICES ASSUME NEW t \in Types, Seen(t)' PROVE idx'[t] < counter'
        OBVIOUS
      <3>1. CASE t = w
        BY <3>1, <1>0, <1>1, <1>5
      <3>2. CASE t # w
        BY <3>2, <1>0, <1>1, <1>5 DEF TarjanInv, Sorting, Seen, Unseen
      <3> QED BY <3>1, <3>2
    <2>2. \A i, j \in DOMAIN stack' : i < j => idx'[stack'[i]] < idx'[stack'[j]]
      <3> SUFFICES ASSUME NEW i \in DOMAIN stack', NEW j \in DOMAIN stack', i < j
                   PROVE  idx'[stack'[i]] < idx'[stack'[j]]
        OBVIOUS
      <3>1. i \in DOMAIN stack /\ stack'[i] = stack[i] /\ stack[i] \in Stacked
        BY <1>2, Facts DEF Stacked, Elements
      <3>2. CASE j = Len(stack) + 1
        BY <3>1, <3>2, <1>2, <1>5, <1>6
      <3>3. CASE j # Len(stack) + 1
        <4>1. j \in DOMAIN stack /\ stack'[j] = stack[j] /\ stack[j] \in Stacked
          BY <3>3, <1>2, Facts DEF Stacked, Elements
        <4> QED BY <3>1, <4>1, <1>6 DEF TarjanInv, Sorting
      <3> QED BY <3>2, <3>3
    <2>3. \A i, j \in DOMAIN calls' : i < j => idx'[calls'[i]] < idx'[calls'[j]]
      <3> SUFFICES ASSUME NEW i \in DOMAIN calls', NEW j \in DOMAIN calls', i < j
                   PROVE  idx'[calls'[i]] < idx'[calls'[j]]
        OBVIOUS
      <3>1. i \in DOMAIN calls /\ calls'[i] = calls[i] /\ calls[i] \in Stacked
        BY <1>3, <1>7, Facts
      <3>2. CASE j = Len(calls) + 1
        BY <3>1, <3>2, <1>3, <1>5, <1>6
      <3>3. CASE j # Len(calls) + 1
        <4>1. j \in DOMAIN calls /\ calls'[j] = calls[j] /\ calls[j] \in Stacked
          BY <3>3, <1>3, <1>7, Facts
        <4> QED BY <3>1, <4>1, <1>6 DEF TarjanInv, Sorting
      <3> QED BY <3>2, <3>3
    <2> QED BY <2>1, <2>2, <2>3 DEF Sorting
  <1>12. Placing'
    <2>1. \A t \in Types : Seen(t)' <=> Seen(t) \/ t = w
      BY <1>0, <1>5 DEF Seen, Unseen
    <2>2. \A t \in Types : Seen(t)' <=> t \in Stacked' \/ Found(t)'
      BY <2>1, <1>2, <1>9 DEF TarjanInv, Placing
    <2>3. \A t \in Stacked' : ~Found(t)'
      BY <1>2, <1>4, <1>9 DEF TarjanInv, Placing
    <2>4. Elements(calls)' \subseteq Stacked'
      BY <1>2, <1>3 DEF TarjanInv, Placing
    <2> QED BY <2>2, <2>3, <2>4 DEF TarjanInv, Placing
  <1>13. Lows'
    <2> SUFFICES ASSUME NEW x \in Stacked'
                 PROVE  low'[x] <= idx'[x] /\ idx'[calls'[1]] <= low'[x]
      BY <1>3 DEF Lows
    <2>1. CASE calls = <<>>
      <3>1. x = w /\ calls'[1] = w
        BY <2>1, <1>2, <1>3 DEF Stacked, Elements
      <3> QED BY <3>1, <1>5, <1>0
    <2>2. CASE calls # <<>>
      <3>1. calls'[1] = calls[1] /\ calls[1] \in Stacked
        BY <2>2, TopFacts, <1>3
      <3>2. CASE x = w
        BY <3>1, <3>2, <1>5, <1>6, <1>0
      <3>3. CASE x # w
        BY <3>1, <3>3, <1>2, <1>6 DEF TarjanInv, Lows
      <3> QED BY <3>2, <3>3
    <2> QED BY <2>1, <2>2
  <1>14. LeftOver'
    <2> SUFFICES ASSUME NEW t \in Types
                 PROVE  left'[t] \subseteq Deps(t) /\ (t \notin Elements(calls') => left'[t] = {})
      BY <1>8 DEF LeftOver
    <2>1. CASE t = w
      BY <2>1, <1>3
    <2>2. CASE t # w
      <3>1. left[t] \subseteq Deps(t) /\ (t \notin Elements(calls) => left[t] = {})
        BY DEF TarjanInv, LeftOver
      <3>2. left'[t] \subseteq left[t]
        BY <2>2
      <3> QED BY <3>1, <3>2, <1>3
    <2> QED BY <2>1, <2>2
  <1>15. Closing'
    <2>1. \A x \in Stacked' : \A d \in Deps(x) \ left'[x] : \A k \in DOMAIN calls' :
            Above(k, x)' => Found(d) \/ (d \in Stacked' /\ low'[calls'[k]] <= idx'[d])
      <3> SUFFICES ASSUME NEW x \in Stacked', NEW d \in Deps(x) \ left'[x],
                          NEW k \in DOMAIN calls', Above(k, x)', ~Found(d)
                   PROVE  d \in Stacked' /\ low'[calls'[k]] <= idx'[d]
        OBVIOUS
      <3>1. x # w /\ x \in Stacked
        BY <1>2
      <3>2. k \in DOMAIN calls /\ calls'[k] = calls[k] /\ calls[k] \in Stacked
        <4>1. k # Len(calls) + 1
          BY <3>1, <1>0, <1>3, <1>5, <1>6 DEF Above
        <4> QED BY <4>1, <1>3, <1>7, Facts
      <3>3. idx[calls[k]] <= idx[x]
        BY <3>1, <3>2, <1>6 DEF Above
      <3>4. CASE d = w
        BY <3>1, <3>2, <3>3, <3>4, <1>0, <1>2, <1>5, <1>6 DEF TarjanInv, Lows
      <3>5. CASE d # w
        <4>1. d \in Deps(x) \ left[x]
          BY <3>1, <3>5, <1>6
        <4>2. Above(k, x)
          <5>1. CASE k = Len(calls)
            BY <5>1, <3>3 DEF Above
          <5>2. CASE k # Len(calls)
            <6>1. k + 1 \in DOMAIN calls /\ calls'[k + 1] = calls[k + 1]
              BY <5>2, <3>2, <1>3, Facts
            <6>2. idx'[x] < idx'[calls'[k + 1]]
              BY <5>2, <3>2, <6>1, <1>3, Facts DEF Above
            <6> QED BY <3>1, <3>3, <6>1, <6>2, <1>6, <1>7 DEF Above
          <5> QED BY <5>1, <5>2
        <4>3. d \in Stacked /\ low[calls[k]] <= idx[d]
          BY <4>1, <4>2, <3>1, <3>2 DEF TarjanInv, Closing
        <4> QED BY <4>3, <3>2, <1>2, <1>6
      <3> QED BY <3>4, <3>5
    <2>2. \A i \in DOMAIN sccs : \A u \in sccs[i] : \A d \in Deps(u) :
            \E j \in DOMAIN sccs : j <= i /\ d \in sccs[j]
      BY DEF TarjanInv, Closing
    <2> QED BY <2>1, <2>2, <1>8, <1>9 DEF Closing
  <1>16. Reaching'
    <2>1. \A k \in DOMAIN calls' : \A x \in Stacked' :
            idx'[calls'[k]] <= idx'[x] => Reaches(calls'[k], x)
      <3> SUFFICES ASSUME NEW k \in DOMAIN calls', NEW x \in Stacked', idx'[calls'[k]] <= idx'[x]
                   PROVE  Reaches(calls'[k], x)
        OBVIOUS
      <3>1. CASE k = Len(calls) + 1
        BY <3>1, <1>0, <1>2, <1>3, <1>5, <1>6, ReachSelf
      <3>2. CASE k # Len(calls) + 1
        <4>1. k \in DOMAIN calls /\ calls'[k] = calls[k] /\ calls[k] \in Stacked /\ calls # <<>>
          BY <3>2, <1>3, <1>7, Facts
        <4>2. CASE x = w
          <5>1. Top \in Stacked /\ idx[calls[k]] <= idx[Top]
            BY <4>1, TopFacts
          <5>2. Reaches(calls[k], Top)
            BY <4>1, <5>1 DEF TarjanInv, Reaching
          <5> QED BY <4>1, <4>2, <5>2, ReachDep, ReachOn
        <4>3. CASE x # w
          BY <4>1, <4>3, <1>2, <1>6 DEF TarjanInv, Reaching
        <4> QED BY <4>2, <4>3
      <3> QED BY <3>1, <3>2
    <2>2. \A x \in Stacked' : \E y \in Stacked' : idx'[y] = low'[x] /\ Reaches(x, y)
      <3> SUFFICES ASSUME NEW x \in Stacked'
                   PROVE  \E y \in Stacked' : idx'[y] = low'[x] /\ Reaches(x, y)
        OBVIOUS
      <3>1. CASE x = w
        BY <3>1, <1>5, ReachSelf
      <3>2. CASE x # w
        <4>1. PICK y \in Stacked : idx[y] = low[x] /\ Reaches(x, y)
          BY <3>2, <1>2 DEF TarjanInv, Reaching
        <4> QED BY <3>2, <4>1, <1>2, <1>6
      <3> QED BY <3>1, <3>2
    <2>3. \A x \in Stacked' : \E k \in DOMAIN calls' :
            idx'[calls'[k]] <= idx'[x] /\ Reaches(x, calls'[k])
      <3> SUFFICES ASSUME NEW x \in Stacked'
                   PROVE  \E k \in DOMAIN calls' :
                            idx'[calls'[k]] <= idx'[x] /\ Reaches(x, calls'[k])
        OBVIOUS
      <3>1. CASE x = w
        <4>1. Len(calls) + 1 \in DOMAIN calls'
          BY <1>3, Facts
        <4> QED BY <3>1, <4>1, <1>0, <1>3, <1>5, ReachSelf
      <3>2. CASE x # w
        <4>1. PICK k \in DOMAIN calls : idx[calls[k]] <= idx[x] /\ Reaches(x, calls[k])
          BY <3>2, <1>2 DEF TarjanInv, Reaching
        <4>2. k \in DOMAIN calls' /\ calls'[k] = calls[k] /\ calls[k] \in Stacked
          BY <1>3, <1>7, Facts
        <4> QED BY <3>2, <4>1, <4>2, <1>2, <1>6
      <3> QED BY <3>1, <3>2
    <2>4. \A i \in DOMAIN sccs : \A u, v \in sccs[i] : Together(u, v)
      BY DEF TarjanInv, Reaching
    <2> QED BY <2>1, <2>2, <2>3, <2>4, <1>8 DEF Reaching
  <1>17. Phases'
    BY DEF TarjanInv, Phases, Untouched
  <1> QED BY <1>10, <1>11, <1>12, <1>13, <1>14, <1>15, <1>16, <1>17 DEF TarjanInv

-----------------------------------------------------------------------------
LEMMA LookKeeps ==
  ASSUME TarjanInv, NEW w \in Types, Look(w)
  PROVE  TarjanInv'
  <1>0. /\ idx \in [Types -> Nat \cup {Unseen}] /\ low \in [Types -> Nat \cup {Unseen}]
        /\ left \in [Types -> SUBSET Types]
    BY DEF TarjanInv, OrderTypeOK
  <1>1. /\ calls # <<>> /\ w \in left[Top] /\ Seen(w)
        /\ low' = [low EXCEPT ![Top] = Lowered(Top, w)]
        /\ left' = [left EXCEPT ![Top] = @ \ {w}]
        /\ UNCHANGED <<refs, idx, counter, stack, calls, sccs, emitted, order, phase>>
    BY DEF Look
  <1>2. /\ Len(calls) \in DOMAIN calls /\ 1 \in DOMAIN calls
        /\ Top \in Stacked /\ Top \in Types /\ calls[1] \in Stacked
        /\ \A k \in DOMAIN calls : k # Len(calls) => idx[calls[k]] < idx[Top]
    BY <1>1, TopFacts
  <1>3. w \in Deps(Top)
    BY <1>1, <1>2 DEF TarjanInv, LeftOver
  <1>4. w \in Stacked => /\ idx[w] \in Nat /\ idx[calls[1]] <= idx[w]
                         /\ low'[Top] = Smaller(low[Top], idx[w])
    <2> SUFFICES ASSUME w \in Stacked
                 PROVE  /\ idx[w] \in Nat /\ idx[calls[1]] <= idx[w]
                        /\ low'[Top] = Smaller(low[Top], idx[w])
      OBVIOUS
    <2>1. idx[calls[1]] <= low[w] /\ low[w] <= idx[w]
      BY DEF TarjanInv, Lows
    <2>2. idx[w] \in Nat /\ low[w] \in Int /\ idx[calls[1]] \in Nat
      BY <1>2, Facts
    <2>3. low'[Top] = Lowered(Top, w)
      BY <1>0, <1>1, <1>2
    <2> QED BY <2>1, <2>2, <2>3 DEF Lowered, OnStack, Stacked
  <1>5. w \notin Stacked => low'[Top] = low[Top] /\ Found(w)
    <2>1. w \notin Stacked => Found(w)
      BY <1>1 DEF TarjanInv, Placing
    <2> QED BY <2>1, <1>0, <1>1, <1>2 DEF Lowered, OnStack, Stacked
  <1>6. \A t \in Types \ {Top} : low'[t] = low[t] /\ left'[t] = left[t]
    BY <1>0, <1>1
  <1>7. left'[Top] = left[Top] \ {w}
    BY <1>0, <1>1, <1>2
  <1>8. low[Top] \in Int /\ idx[Top] \in Nat /\ idx[calls[1]] \in Nat
    BY <1>2, Facts
  <1>9. low'[Top] <= low[Top] /\ (w \in Stacked => low'[Top] <= idx[w]) /\ low'[Top] \in Int
    BY <1>4, <1>5, <1>8 DEF Smaller
  <1>10. /\ \A t : Deps(t)' = Deps(t)
         /\ \A u, v : Reaches(u, v)' = Reaches(u, v) /\ Together(u, v)' = Together(u, v)
    BY <1>1, SameGraph
  <1>11. Stacked' = Stacked /\ (\A t : Found(t)' <=> Found(t)) /\ (\A k, x : Above(k, x)' <=> Above(k, x))
    BY <1>1 DEF Stacked, Found, Above, Elements
  <1>12. OrderTypeOK'
    <2>1. low' \in [Types -> Nat \cup {Unseen}]
      <3>1. Lowered(Top, w) \in Nat \cup {Unseen}
        BY <1>0, <1>2 DEF Lowered, Smaller
      <3> QED BY <3>1, <1>0, <1>1
    <2>2. left' \in [Types -> SUBSET Types]
      BY <1>0, <1>1, <1>2
    <2> QED BY <2>1, <2>2, <1>1 DEF OrderTypeOK, TarjanInv
  <1>13. Sorting'
    BY <1>1 DEF TarjanInv, Sorting, Seen
  <1>14. Placing'
    BY <1>1, <1>11 DEF TarjanInv, Placing, Seen, Elements
  <1>15. Lows'
    <2> SUFFICES ASSUME NEW x \in Stacked
                 PROVE  low'[x] <= idx[x] /\ idx[calls[1]] <= low'[x]
      BY <1>1, <1>11 DEF Lows
    <2>1. low[x] <= idx[x] /\ idx[calls[1]] <= low[x] /\ x \in Types
      BY Facts DEF TarjanInv, Lows
    <2>2. CASE x = Top
      BY <2>1, <2>2, <1>4, <1>5, <1>8 DEF Smaller
    <2>3. CASE x # Top
      BY <2>1, <2>3, <1>6
    <2> QED BY <2>2, <2>3
  <1>16. LeftOver'
    <2> SUFFICES ASSUME NEW t \in Types
                 PROVE  left'[t] \subseteq Deps(t) /\ (t \notin Elements(calls) => left'[t] = {})
      BY <1>1, <1>10 DEF LeftOver
    <2>1. left'[t] \subseteq left[t]
      BY <1>6, <1>7
    <2> QED BY <2>1 DEF TarjanInv, LeftOver
  <1>17. Closing'
    <2>1. \A x \in Stacked : \A d \in Deps(x) \ left'[x] : \A k \in DOMAIN calls :
            Above(k, x) => Found(d) \/ (d \in Stacked /\ low'[calls[k]] <= idx[d])
      <3> SUFFICES ASSUME NEW x \in Stacked, NEW d \in Deps(x) \ left'[x],
                          NEW k \in DOMAIN calls, Above(k, x), ~Found(d)
                   PROVE  d \in Stacked /\ low'[calls[k]] <= idx[d]
        OBVIOUS
      <3>1. calls[k] \in Stacked /\ calls[k] \in Types /\ x \in Types /\ low[calls[k]] \in Int
        BY Facts
      <3>2. low'[calls[k]] <= low[calls[k]] /\ low'[calls[k]] \in Int
        BY <3>1, <1>6, <1>9
      <3>3. CASE d \in Deps(x) \ left[x]
        <4>1. d \in Stacked /\ low[calls[k]] <= idx[d]
          BY <3>3 DEF TarjanInv, Closing
        <4>2. idx[d] \in Nat
          BY <4>1, Facts
        <4> QED BY <4>1, <4>2, <3>1, <3>2
      <3>4. CASE d \in left[x]
        <4>1. x = Top /\ d = w /\ w \in Stacked
          BY <3>1, <3>4, <1>5, <1>6, <1>7
        <4>2. k = Len(calls)
          <5> SUFFICES ASSUME k # Len(calls) PROVE FALSE
            OBVIOUS
          <5>1. k + 1 \in DOMAIN calls /\ idx[Top] < idx[calls[k + 1]]
            BY <4>1, Facts DEF Above
          <5>2. calls[k + 1] \in Stacked /\ idx[calls[k + 1]] <= idx[Top]
            BY <5>1, <1>1, TopFacts, Facts
          <5> QED BY <5>1, <5>2, <1>8, Facts
        <4> QED BY <4>1, <4>2, <1>9 DEF Top
      <3> QED BY <3>3, <3>4
    <2>2. \A i \in DOMAIN sccs : \A u \in sccs[i] : \A d \in Deps(u) :
            \E j \in DOMAIN sccs : j <= i /\ d \in sccs[j]
      BY DEF TarjanInv, Closing
    <2> QED BY <2>1, <2>2, <1>1, <1>10, <1>11 DEF Closing
  <1>18. Reaching'
    <2>1. \A x \in Stacked : \E y \in Stacked : idx[y] = low'[x] /\ Reaches(x, y)
      <3> SUFFICES ASSUME NEW x \in Stacked
                   PROVE  \E y \in Stacked : idx[y] = low'[x] /\ Reaches(x, y)
        OBVIOUS
      <3>1. PICK y \in Stacked : idx[y] = low[x] /\ Reaches(x, y)
        BY DEF TarjanInv, Reaching
      <3>2. CASE low'[x] = low[x]
        BY <3>1, <3>2
      <3>3. CASE low'[x] # low[x]
        <4>1. x = Top /\ w \in Stacked
          BY <3>3, <1>5, <1>6, Facts
        <4>2. low'[x] = idx[w]
          BY <4>1, <3>3, <1>4 DEF Smaller
        <4> QED BY <4>1, <4>2, <1>3, ReachDep
      <3> QED BY <3>2, <3>3
    <2> QED BY <2>1, <1>1, <1>10, <1>11 DEF TarjanInv, Reaching
  <1>19. Phases'
    BY <1>1 DEF TarjanInv, Phases, Seen
  <1> QED BY <1>12, <1>13, <1>14, <1>15, <1>16, <1>17, <1>18, <1>19 DEF TarjanInv

-----------------------------------------------------------------------------
\* What a return does, whether or not it pops a component.
LEMMA ReturnFacts ==
  ASSUME TarjanInv, Return
  PROVE  /\ calls # <<>> /\ left[Top] = {}
         /\ UNCHANGED <<refs, idx, counter, left, emitted, order, phase>>
         /\ calls' \in Seq(Types) /\ Len(calls') = Len(calls) - 1
         /\ DOMAIN calls' = 1 .. Len(calls) - 1
         /\ \A k \in DOMAIN calls' : k \in DOMAIN calls /\ k # Len(calls) /\ calls'[k] = calls[k]
         /\ Elements(calls') = Elements(calls) \ {Top}
         /\ low' \in [Types -> Nat \cup {Unseen}]
         /\ \A t \in Stacked :
              \/ low'[t] = low[t]
              \/ /\ Len(calls) > 1 /\ t = calls[Len(calls) - 1]
                 /\ low'[t] = low[Top] /\ low[Top] < low[t]
         /\ Len(calls) > 1 => /\ Len(calls) - 1 \in DOMAIN calls
                              /\ low'[calls[Len(calls) - 1]] <= low[Top]
  <1>0. /\ calls \in Seq(Types) /\ low \in [Types -> Nat \cup {Unseen}]
    BY DEF TarjanInv, OrderTypeOK
  <1>1. /\ calls # <<>> /\ left[Top] = {}
        /\ calls' = SubSeq(calls, 1, Len(calls) - 1)
        /\ low' = IF Len(calls) = 1 THEN low
                  ELSE [low EXCEPT ![calls[Len(calls) - 1]] = Smaller(@, low[Top])]
        /\ UNCHANGED <<refs, idx, counter, left, emitted, order, phase>>
    BY DEF Return
  <1>2. /\ Len(calls) \in DOMAIN calls /\ DOMAIN calls = 1 .. Len(calls) /\ Len(calls) \in Nat
        /\ Len(calls) - 1 \in 0 .. Len(calls)
        /\ \A k \in DOMAIN calls : k # Len(calls) => idx[calls[k]] < idx[Top]
        /\ Top \in Types /\ Top \in Stacked
    BY <1>0, <1>1, TopFacts, Facts
  <1>3. /\ calls' \in Seq(Types) /\ Len(calls') = Len(calls) - 1
        /\ DOMAIN calls' = 1 .. Len(calls) - 1
        /\ \A k \in 1 .. Len(calls) - 1 : calls'[k] = calls[k]
        /\ Elements(calls') = {calls[i] : i \in 1 .. Len(calls) - 1}
    BY <1>0, <1>1, <1>2, Shortened
  <1>4. Elements(calls') = Elements(calls) \ {Top}
    <2>1. \A k \in 1 .. Len(calls) - 1 : calls[k] # Top
      BY <1>2, Facts
    <2>2. Elements(calls) = {calls[i] : i \in 1 .. Len(calls) - 1} \cup {Top}
      BY <1>2 DEF Elements, Top
    <2> QED BY <2>1, <2>2, <1>3
  <1>5. CASE Len(calls) = 1
    BY <1>0, <1>1, <1>2, <1>3, <1>4, <1>5
  <1>6. CASE Len(calls) # 1
    <2> DEFINE p == calls[Len(calls) - 1]
    <2>1. Len(calls) > 1 /\ Len(calls) - 1 \in DOMAIN calls /\ p \in Types /\ p \in Stacked
      <3>1. Len(calls) > 1 /\ Len(calls) - 1 \in DOMAIN calls
        BY <1>2, <1>6
      <3>2. p \in Stacked
        BY <3>1, Facts
      <3> QED BY <3>1, <3>2, Facts
    <2>2. low[p] \in Int /\ low[Top] \in Int
      BY <2>1, <1>2, Facts
    <2>3. low' = [low EXCEPT ![p] = Smaller(low[p], low[Top])]
      BY <1>1, <1>6
    <2>4. low'[p] = Smaller(low[p], low[Top]) /\ \A t \in Types \ {p} : low'[t] = low[t]
      BY <1>0, <2>1, <2>3
    <2>5. Smaller(low[p], low[Top]) \in Nat \cup {Unseen}
      BY <1>0, <2>1, <1>2 DEF Smaller
    <2>6. low' \in [Types -> Nat \cup {Unseen}]
      BY <1>0, <2>3, <2>5
    <2>7. low'[p] <= low[Top] /\ (low'[p] = low[p] \/ (low'[p] = low[Top] /\ low[Top] < low[p]))
      BY <2>2, <2>4 DEF Smaller
    <2>8. \A t \in Stacked : t \in Types
      BY Facts
    <2> QED BY <1>1, <1>2, <1>3, <1>4, <2>1, <2>4, <2>6, <2>7, <2>8
  <1> QED BY <1>5, <1>6

\* A call that is no root hands its low number, and what stands above it, to its caller.
LEMMA RiseKeeps ==
  ASSUME TarjanInv, Return, ~IsRoot(Top)
  PROVE  TarjanInv'
  <1>0. stack' = stack /\ sccs' = sccs
    BY DEF Return
  <1>1. /\ Top \in Stacked /\ Top \in Types /\ calls[1] \in Stacked
        /\ Len(calls) \in DOMAIN calls /\ 1 \in DOMAIN calls
        /\ \A k \in DOMAIN calls : idx[calls[k]] <= idx[Top]
    BY ReturnFacts, TopFacts
  <1>2. /\ idx[Top] \in Nat /\ low[Top] \in Int /\ idx[calls[1]] \in Nat
        /\ idx[calls[1]] <= low[Top] /\ low[Top] < idx[Top]
    <2>1. low[Top] <= idx[Top] /\ idx[calls[1]] <= low[Top]
      BY <1>1 DEF TarjanInv, Lows
    <2> QED BY <2>1, <1>1, Facts DEF IsRoot
  <1>3. Len(calls) > 1 /\ Len(calls) - 1 \in DOMAIN calls /\ calls' # <<>> /\ 1 \in DOMAIN calls'
        /\ calls'[1] = calls[1]
    <2>1. Len(calls) # 1
      BY <1>1, <1>2 DEF Top
    <2>2. Len(calls) > 1
      BY <2>1, <1>1, Facts
    <2>3. Len(calls') = Len(calls) - 1 /\ DOMAIN calls' = 1 .. Len(calls) - 1
      BY ReturnFacts
    <2>4. 1 \in DOMAIN calls' /\ calls' # <<>>
      BY <2>2, <2>3, Facts, EmptySeq
    <2> QED BY <2>2, <2>4, ReturnFacts
  <1>4. /\ \A t : Deps(t)' = Deps(t)
        /\ \A u, v : Reaches(u, v)' = Reaches(u, v) /\ Together(u, v)' = Together(u, v)
    BY ReturnFacts, SameGraph
  <1>5. Stacked' = Stacked /\ \A t : Found(t)' <=> Found(t)
    BY <1>0 DEF Stacked, Found, Elements
  <1>6. idx' = idx /\ left' = left
    BY ReturnFacts
  <1>7. \A x \in Stacked : low'[x] <= low[x] /\ low'[x] \in Int
    BY <1>2, ReturnFacts, Facts
  <1>8. OrderTypeOK'
    BY <1>0, ReturnFacts DEF TarjanInv, OrderTypeOK
  <1>9. Sorting'
    <2>1. \A i, j \in DOMAIN calls' : i < j => idx'[calls'[i]] < idx'[calls'[j]]
      BY <1>6, ReturnFacts DEF TarjanInv, Sorting
    <2> QED BY <2>1, <1>0, ReturnFacts DEF TarjanInv, Sorting, Seen
  <1>10. Placing'
    <2>1. Elements(calls)' \subseteq Stacked
      BY ReturnFacts DEF TarjanInv, Placing
    <2> QED BY <2>1, <1>0, <1>5, <1>6 DEF TarjanInv, Placing, Seen
  <1>11. Lows'
    <2> SUFFICES ASSUME NEW x \in Stacked
                 PROVE  low'[x] <= idx[x] /\ idx[calls[1]] <= low'[x]
      BY <1>3, <1>5, <1>6 DEF Lows
    <2>1. low[x] <= idx[x] /\ idx[calls[1]] <= low[x] /\ idx[x] \in Nat
      BY Facts DEF TarjanInv, Lows
    <2>2. low'[x] = low[x] \/ low'[x] = low[Top]
      BY ReturnFacts
    <2>3. low'[x] <= low[x] /\ low[x] \in Int
      BY <1>7, Facts
    <2> QED BY <2>1, <2>2, <2>3, <1>2
  <1>12. LeftOver'
    BY <1>4, <1>6, ReturnFacts DEF TarjanInv, LeftOver
  <1>13. Closing'
    <2>1. \A x \in Stacked : \A d \in Deps(x) \ left[x] : \A k \in DOMAIN calls' :
            Above(k, x)' => Found(d) \/ (d \in Stacked /\ low'[calls'[k]] <= idx[d])
      <3> SUFFICES ASSUME NEW x \in Stacked, NEW d \in Deps(x) \ left[x],
                          NEW k \in DOMAIN calls', Above(k, x)', ~Found(d)
                   PROVE  d \in Stacked /\ low'[calls'[k]] <= idx[d]
        OBVIOUS
      <3>1. k \in DOMAIN calls /\ k # Len(calls) /\ calls'[k] = calls[k] /\ calls[k] \in Stacked
        BY ReturnFacts, Facts
      <3>2. idx[calls[k]] <= idx[x]
        BY <3>1, <1>6 DEF Above
      <3>3. low'[calls[k]] <= low[calls[k]] /\ low'[calls[k]] \in Int /\ low[calls[k]] \in Int
        BY <3>1, <1>7, Facts
      <3>4. d \in Stacked => idx[d] \in Nat
        BY Facts
      <3>5. CASE Above(k, x)
        <4>1. d \in Stacked /\ low[calls[k]] <= idx[d]
          BY <3>1, <3>5 DEF TarjanInv, Closing
        <4> QED BY <4>1, <3>1, <3>3, <3>4
      <3>6. CASE ~Above(k, x)
        <4>1. k = Len(calls) - 1
          <5> SUFFICES ASSUME k # Len(calls) - 1 PROVE FALSE
            OBVIOUS
          <5>1. k + 1 \in DOMAIN calls' /\ calls'[k + 1] = calls[k + 1] /\ k # Len(calls')
            BY ReturnFacts, Facts
          <5> QED BY <5>1, <3>2, <3>6, <1>6 DEF Above
        <4>2. Above(Len(calls), x)
          <5>1. idx[Top] <= idx[x]
            <6>1. k + 1 = Len(calls)
              BY <4>1, Facts
            <6>2. ~ (idx[x] < idx[calls[k + 1]])
              BY <3>2, <3>6 DEF Above
            <6>3. idx[x] \in Nat
              BY Facts
            <6> QED BY <6>1, <6>2, <6>3, <1>2 DEF Top
          <5> QED BY <5>1 DEF Above, Top
        <4>3. d \in Stacked /\ low[Top] <= idx[d]
          BY <4>2, <1>1 DEF TarjanInv, Closing, Top
        <4>4. low'[calls[k]] <= low[Top]
          BY <4>1, <1>3, ReturnFacts
        <4> QED BY <4>3, <4>4, <3>1, <3>3, <3>4, <1>2
      <3> QED BY <3>5, <3>6
    <2> QED BY <2>1, <1>0, <1>4, <1>5, <1>6 DEF TarjanInv, Closing
  <1>14. Reaching'
    <2>1. \A k \in DOMAIN calls' : \A x \in Stacked :
            idx[calls'[k]] <= idx[x] => Reaches(calls'[k], x)
      BY ReturnFacts DEF TarjanInv, Reaching
    <2>2. \A x \in Stacked : \E y \in Stacked : idx[y] = low'[x] /\ Reaches(x, y)
      <3> SUFFICES ASSUME NEW x \in Stacked
                   PROVE  \E y \in Stacked : idx[y] = low'[x] /\ Reaches(x, y)
        OBVIOUS
      <3>1. CASE low'[x] = low[x]
        BY <3>1 DEF TarjanInv, Reaching
      <3>2. CASE low'[x] # low[x]
        <4>1. x = calls[Len(calls) - 1] /\ low'[x] = low[Top]
          BY <3>2, ReturnFacts
        <4>2. PICK y \in Stacked : idx[y] = low[Top] /\ Reaches(Top, y)
          BY <1>1 DEF TarjanInv, Reaching
        <4>3. Reaches(x, Top)
          BY <4>1, <1>1, <1>3 DEF TarjanInv, Reaching
        <4> QED BY <4>1, <4>2, <4>3, ReachOn
      <3> QED BY <3>1, <3>2
    <2>3. \A x \in Stacked : \E k \in DOMAIN calls' :
            idx[calls'[k]] <= idx[x] /\ Reaches(x, calls'[k])
      <3> SUFFICES ASSUME NEW x \in Stacked
                   PROVE  \E k \in DOMAIN calls' : idx[calls'[k]] <= idx[x] /\ Reaches(x, calls'[k])
        OBVIOUS
      <3>0. \A k \in DOMAIN calls : k # Len(calls) => k \in DOMAIN calls' /\ calls'[k] = calls[k]
        BY ReturnFacts, Facts
      <3>1. PICK k \in DOMAIN calls : idx[calls[k]] <= idx[x] /\ Reaches(x, calls[k])
        BY DEF TarjanInv, Reaching
      <3>2. CASE k # Len(calls)
        BY <3>0, <3>1, <3>2
      <3>3. CASE k = Len(calls)
        <4>1. idx[Top] <= idx[x] /\ Reaches(x, Top)
          BY <3>1, <3>3 DEF Top
        <4>2. PICK y \in Stacked : idx[y] = low[Top] /\ Reaches(Top, y)
          BY <1>1 DEF TarjanInv, Reaching
        <4>3. PICK j \in DOMAIN calls : idx[calls[j]] <= idx[y] /\ Reaches(y, calls[j])
          BY DEF TarjanInv, Reaching
        <4>4. idx[calls[j]] \in Nat /\ idx[y] \in Nat /\ idx[x] \in Nat
          BY Facts
        <4>5. j # Len(calls)
          BY <4>2, <4>3, <4>4, <1>2 DEF Top
        <4>6. Reaches(x, calls[j])
          BY <4>1, <4>2, <4>3, ReachOn
        <4>7. idx[calls[j]] <= idx[x]
          BY <4>1, <4>2, <4>3, <4>4, <1>2
        <4> QED BY <3>0, <4>5, <4>6, <4>7
      <3> QED BY <3>2, <3>3
    <2> QED BY <2>1, <2>2, <2>3, <1>0, <1>4, <1>5, <1>6 DEF TarjanInv, Reaching
  <1>15. Phases'
    <2>1. phase = "tarjan"
      BY ReturnFacts DEF TarjanInv, Phases
    <2> QED BY <2>1, ReturnFacts DEF TarjanInv, Phases
  <1> QED BY <1>8, <1>9, <1>10, <1>11, <1>12, <1>13, <1>14, <1>15 DEF TarjanInv

\* A root pops what stands at or above it: a component.
LEMMA PopKeeps ==
  ASSUME TarjanInv, Return, IsRoot(Top)
  PROVE  TarjanInv'
  <1> DEFINE n == Len(calls)
             p == Place(Top)
             S == {stack[i] : i \in p .. Len(stack)}
  <1>0. /\ stack \in Seq(Types) /\ sccs \in Seq(SUBSET Types)
        /\ idx \in [Types -> Nat \cup {Unseen}]
    BY DEF TarjanInv, OrderTypeOK
  <1>1. /\ Top \in Stacked /\ Top \in Types /\ calls[1] \in Stacked
        /\ n \in DOMAIN calls /\ 1 \in DOMAIN calls
        /\ \A k \in DOMAIN calls : idx[calls[k]] <= idx[Top]
        /\ \A k \in DOMAIN calls : k # n => idx[calls[k]] < idx[Top]
        /\ idx[Top] \in Nat /\ low[Top] = idx[Top]
    BY ReturnFacts, TopFacts, Facts DEF IsRoot
  <1>2. p \in DOMAIN stack /\ stack[p] = Top
    <2>1. \E i \in DOMAIN stack : stack[i] = Top
      BY <1>1 DEF Stacked, Elements
    <2> QED BY <2>1 DEF Place
  <1>3. stack' = SubSeq(stack, 1, p - 1) /\ sccs' = Append(sccs, S)
    BY DEF Return, Pop
  <1>4. /\ stack' \in Seq(Types) /\ DOMAIN stack' = 1 .. p - 1
        /\ \A i \in 1 .. p - 1 : stack'[i] = stack[i]
        /\ Elements(stack') = {stack[i] : i \in 1 .. p - 1}
    <2>1. p - 1 \in 0 .. Len(stack)
      BY <1>2, Facts
    <2> QED BY <1>0, <1>3, <2>1, Shortened
  <1>5. \A i \in DOMAIN stack : /\ stack[i] \in Stacked /\ idx[stack[i]] \in Nat
                                /\ i < p => idx[stack[i]] < idx[Top]
                                /\ i >= p => idx[Top] <= idx[stack[i]]
    <2> SUFFICES ASSUME NEW i \in DOMAIN stack
                 PROVE  /\ stack[i] \in Stacked /\ idx[stack[i]] \in Nat
                        /\ i < p => idx[stack[i]] < idx[Top]
                        /\ i >= p => idx[Top] <= idx[stack[i]]
      OBVIOUS
    <2>1. stack[i] \in Stacked /\ idx[stack[i]] \in Nat
      BY Facts DEF Stacked, Elements
    <2>2. i < p => idx[stack[i]] < idx[Top]
      BY <1>2 DEF TarjanInv, Sorting
    <2>3. i > p => idx[Top] < idx[stack[i]]
      BY <1>2 DEF TarjanInv, Sorting
    <2>4. i \in Int /\ p \in Int
      BY <1>2, Facts
    <2>5. i = p => idx[Top] <= idx[stack[i]]
      BY <1>1, <1>2
    <2> QED BY <2>1, <2>2, <2>3, <2>4, <2>5, <1>1
  <1>6. S = {x \in Stacked : idx[Top] <= idx[x]}
    <2>1. \A x \in S : x \in Stacked /\ idx[Top] <= idx[x]
      BY <1>2, <1>5, Facts
    <2>2. \A x \in Stacked : idx[Top] <= idx[x] => x \in S
      <3> SUFFICES ASSUME NEW i \in DOMAIN stack, idx[Top] <= idx[stack[i]]
                   PROVE  stack[i] \in S
        BY DEF Stacked, Elements
      <3>1. ~ (i < p)
        BY <1>1, <1>5
      <3> QED BY <3>1, <1>2, Facts
    <2> QED BY <2>1, <2>2
  <1>7. Stacked' = {x \in Stacked : idx[x] < idx[Top]}
    <2>1. Stacked' = {stack[i] : i \in 1 .. p - 1}
      BY <1>4 DEF Stacked
    <2>2. \A i \in 1 .. p - 1 : stack[i] \in Stacked /\ idx[stack[i]] < idx[Top]
      BY <1>2, <1>5, Facts
    <2>3. \A x \in Stacked : idx[x] < idx[Top] => x \in {stack[i] : i \in 1 .. p - 1}
      <3> SUFFICES ASSUME NEW i \in DOMAIN stack, idx[stack[i]] < idx[Top]
                   PROVE  i \in 1 .. p - 1
        BY DEF Stacked, Elements
      <3>1. ~ (i >= p)
        BY <1>1, <1>5
      <3> QED BY <3>1, <1>2, Facts
    <2> QED BY <2>1, <2>2, <2>3
  <1>8. /\ sccs' \in Seq(SUBSET Types) /\ DOMAIN sccs' = 1 .. Len(sccs) + 1
        /\ \A i \in DOMAIN sccs : sccs'[i] = sccs[i]
        /\ sccs'[Len(sccs) + 1] = S
        /\ DOMAIN sccs = 1 .. Len(sccs) /\ Len(sccs) \in Nat
    <2>1. S \in SUBSET Types
      BY <1>6, Facts
    <2> QED BY <2>1, <1>0, <1>3, Appended
  <1>9. \A t : Found(t)' <=> Found(t) \/ t \in S
    <2>1. \A t : Found(t)' <=> \E i \in 1 .. Len(sccs) + 1 : t \in sccs'[i]
      BY <1>8 DEF Found
    <2>2. \A t : (\E i \in 1 .. Len(sccs) + 1 : t \in sccs'[i])
                 <=> (\E i \in DOMAIN sccs : t \in sccs[i]) \/ t \in S
      BY <1>8
    <2> QED BY <2>1, <2>2 DEF Found
  <1>10. /\ \A t : Deps(t)' = Deps(t)
         /\ \A u, v : Reaches(u, v)' = Reaches(u, v) /\ Together(u, v)' = Together(u, v)
    BY ReturnFacts, SameGraph
  <1>11. idx' = idx /\ left' = left /\ phase' = phase
    BY ReturnFacts
  <1>12. \A k \in DOMAIN calls' : /\ k \in DOMAIN calls /\ k # n /\ calls'[k] = calls[k]
                                  /\ calls[k] \in Stacked /\ idx[calls[k]] < idx[Top]
    BY <1>1, ReturnFacts, Facts
  <1>13. \A k \in DOMAIN calls : k # n => k \in DOMAIN calls' /\ calls'[k] = calls[k]
    BY ReturnFacts, Facts
  <1>14. \A x \in Stacked : idx[x] < idx[Top] => low'[x] = low[x]
    <2> SUFFICES ASSUME NEW x \in Stacked, idx[x] < idx[Top], low'[x] # low[x] PROVE FALSE
      OBVIOUS
    <2>1. low'[x] = low[Top] /\ low[Top] < low[x]
      BY ReturnFacts
    <2>2. low[x] <= idx[x] /\ low[x] \in Int /\ idx[x] \in Nat
      BY Facts DEF TarjanInv, Lows
    <2> QED BY <2>1, <2>2, <1>1
  <1>15. OrderTypeOK'
    <2>1. emitted' \subseteq DOMAIN sccs'
      BY <1>8, ReturnFacts DEF TarjanInv, OrderTypeOK
    <2> QED BY <2>1, <1>4, <1>8, ReturnFacts DEF TarjanInv, OrderTypeOK
  <1>16. Sorting'
    <2>1. \A i, j \in DOMAIN calls' : i < j => idx'[calls'[i]] < idx'[calls'[j]]
      BY <1>11, <1>12 DEF TarjanInv, Sorting
    <2>2. \A i, j \in DOMAIN stack' : i < j => idx'[stack'[i]] < idx'[stack'[j]]
      <3>1. \A i \in DOMAIN stack' : i \in DOMAIN stack /\ stack'[i] = stack[i]
        BY <1>2, <1>4, Facts
      <3> QED BY <3>1, <1>11 DEF TarjanInv, Sorting
    <2>3. \A t \in Types : Seen(t)' => idx'[t] < counter'
      BY <1>11, ReturnFacts DEF TarjanInv, Sorting, Seen
    <2> QED BY <2>1, <2>2, <2>3 DEF Sorting
  <1>17. Placing'
    <2>1. \A x \in Stacked : x \in S \/ x \in Stacked'
      <3>1. \A x \in Stacked : idx[x] \in Nat
        BY Facts
      <3> QED BY <3>1, <1>1, <1>6, <1>7
    <2>2. \A x \in Stacked' : x \in Stacked /\ x \notin S
      BY <1>1, <1>6, <1>7, Facts
    <2>3. \A t \in Types : Seen(t)' <=> t \in Stacked' \/ Found(t)'
      BY <2>1, <2>2, <1>6, <1>9, <1>11 DEF TarjanInv, Placing, Seen
    <2>4. \A t \in Stacked' : ~Found(t)'
      BY <2>2, <1>9 DEF TarjanInv, Placing
    <2>5. \A i \in DOMAIN sccs : sccs[i] \cap S = {}
      BY <1>6 DEF TarjanInv, Placing, Found
    <2>6. \A i, j \in DOMAIN sccs' : i # j => sccs'[i] \cap sccs'[j] = {}
      <3> SUFFICES ASSUME NEW i \in DOMAIN sccs', NEW j \in DOMAIN sccs', i # j
                   PROVE  sccs'[i] \cap sccs'[j] = {}
        OBVIOUS
      <3>1. CASE i \in DOMAIN sccs /\ j \in DOMAIN sccs
        BY <3>1, <1>8 DEF TarjanInv, Placing
      <3>2. CASE i = Len(sccs) + 1
        <4>1. j \in DOMAIN sccs
          BY <3>2, <1>8
        <4> QED BY <4>1, <3>2, <2>5, <1>8
      <3>3. CASE j = Len(sccs) + 1
        <4>1. i \in DOMAIN sccs
          BY <3>3, <1>8
        <4> QED BY <4>1, <3>3, <2>5, <1>8
      <3> QED BY <3>1, <3>2, <3>3, <1>8
    <2>7. \A i \in DOMAIN sccs' : sccs'[i] # {}
      <3>1. Top \in S
        BY <1>1, <1>6
      <3>2. \A i \in DOMAIN sccs : sccs[i] # {}
        BY DEF TarjanInv, Placing
      <3>3. TAKE i \in DOMAIN sccs'
      <3>4. CASE i \in DOMAIN sccs
        BY <3>2, <3>4, <1>8
      <3>5. CASE i = Len(sccs) + 1
        <4>1. sccs'[i] = S
          BY <3>5, <1>8
        <4> QED BY <4>1, <3>1
      <3> QED BY <3>4, <3>5, <1>8
    <2>8. Elements(calls)' \subseteq Stacked'
      BY <1>7, <1>12 DEF Elements
    <2> QED BY <2>3, <2>4, <2>6, <2>7, <2>8 DEF Placing
  <1>18. Lows'
    <2> SUFFICES ASSUME NEW x \in Stacked, idx[x] < idx[Top]
                 PROVE  calls' # <<>> /\ low'[x] <= idx'[x] /\ idx'[calls'[1]] <= low'[x]
      BY <1>7 DEF Lows
    <2>1. low[x] <= idx[x] /\ idx[calls[1]] <= low[x] /\ idx[x] \in Nat /\ low[x] \in Int
      BY Facts DEF TarjanInv, Lows
    <2>2. n # 1
      <3>1. idx[calls[1]] \in Nat
        BY <1>1, Facts
      <3> QED BY <2>1, <3>1, <1>1 DEF Top
    <2>3. 1 \in DOMAIN calls' /\ calls'[1] = calls[1]
      BY <2>2, <1>1, <1>13
    <2>4. calls' # <<>>
      BY <2>3, ReturnFacts
    <2> QED BY <2>1, <2>3, <2>4, <1>11, <1>14
  <1>19. LeftOver'
    BY <1>10, <1>11, ReturnFacts DEF TarjanInv, LeftOver
  <1>20. Closing'
    <2>1. \A u \in S : \A d \in Deps(u) : Found(d) \/ d \in S
      <3> SUFFICES ASSUME NEW u \in S, NEW d \in Deps(u), ~Found(d) PROVE d \in S
        OBVIOUS
      <3>1. u \in Stacked /\ u \in Types /\ idx[Top] <= idx[u] /\ idx[u] \in Nat
        BY <1>6, Facts
      <3>2. left[u] = {}
        <4>1. CASE u = Top
          BY <4>1, ReturnFacts
        <4>2. CASE u # Top
          <5>1. \A k \in DOMAIN calls : calls[k] # u
            <6> SUFFICES ASSUME NEW k \in DOMAIN calls, calls[k] = u PROVE FALSE
              OBVIOUS
            <6>1. idx[u] = idx[Top]
              BY <3>1, <1>1
            <6> QED BY <6>1, <4>2, <3>1, <1>1, Facts
          <5>2. u \notin Elements(calls)
            BY <5>1 DEF Elements
          <5> QED BY <5>2, <3>1 DEF TarjanInv, LeftOver
        <4> QED BY <4>1, <4>2
      <3>3. Above(n, u)
        BY <3>1 DEF Above, Top
      <3>4. d \in Stacked /\ low[Top] <= idx[d]
        BY <3>1, <3>2, <3>3, <1>1 DEF TarjanInv, Closing, Top
      <3> QED BY <3>4, <1>1, <1>6
    <2>2. \A i \in DOMAIN sccs' : \A u \in sccs'[i] : \A d \in Deps(u) :
            \E j \in DOMAIN sccs' : j <= i /\ d \in sccs'[j]
      <3> SUFFICES ASSUME NEW i \in DOMAIN sccs', NEW u \in sccs'[i], NEW d \in Deps(u)
                   PROVE  \E j \in DOMAIN sccs' : j <= i /\ d \in sccs'[j]
        OBVIOUS
      <3>1. CASE i \in DOMAIN sccs
        <4>1. PICK j \in DOMAIN sccs : j <= i /\ d \in sccs[j]
          BY <3>1, <1>8 DEF TarjanInv, Closing
        <4>2. j \in DOMAIN sccs' /\ sccs'[j] = sccs[j]
          BY <1>8
        <4> QED BY <4>1, <4>2
      <3>2. CASE i = Len(sccs) + 1
        <4>1. CASE d \in S
          BY <3>2, <4>1, <1>8
        <4>2. CASE d \notin S
          <5>1. PICK j \in DOMAIN sccs : d \in sccs[j]
            BY <2>1, <3>2, <4>2, <1>8 DEF Found
          <5> QED BY <5>1, <3>2, <1>8
        <4> QED BY <4>1, <4>2
      <3> QED BY <3>1, <3>2, <1>8
    <2>3. \A x \in Stacked' : \A d \in Deps(x) \ left[x] : \A k \in DOMAIN calls' :
            Above(k, x)' => Found(d)' \/ (d \in Stacked' /\ low'[calls'[k]] <= idx[d])
      <3> SUFFICES ASSUME NEW x \in Stacked', NEW d \in Deps(x) \ left[x],
                          NEW k \in DOMAIN calls', Above(k, x)', ~Found(d)'
                   PROVE  d \in Stacked' /\ low'[calls'[k]] <= idx[d]
        OBVIOUS
      <3>1. x \in Stacked /\ idx[x] < idx[Top] /\ ~Found(d) /\ d \notin S
        BY <1>7, <1>9
      <3>2. k \in DOMAIN calls /\ k # n /\ calls'[k] = calls[k] /\ calls[k] \in Stacked
            /\ idx[calls[k]] < idx[Top]
        BY <1>12
      <3>3. Above(k, x)
        <4>1. CASE k = n - 1
          <5>1. k + 1 = n
            BY <4>1, Facts
          <5> QED BY <5>1, <3>1, <3>2, <1>11 DEF Above, Top
        <4>2. CASE k # n - 1
          <5>1. k + 1 \in DOMAIN calls' /\ calls'[k + 1] = calls[k + 1] /\ k # Len(calls')
            BY <4>2, ReturnFacts, Facts
          <5> QED BY <5>1, <3>2, <1>11 DEF Above
        <4> QED BY <4>1, <4>2
      <3>4. d \in Stacked /\ low[calls[k]] <= idx[d]
        BY <3>1, <3>2, <3>3 DEF TarjanInv, Closing
      <3>5. d \in Stacked'
        BY <3>1, <3>4, <1>1, <1>6, <1>7, Facts
      <3> QED BY <3>2, <3>4, <3>5, <1>14
    <2> QED BY <2>2, <2>3, <1>10, <1>11 DEF Closing
  <1>21. Reaching'
    <2>1. \A k \in DOMAIN calls' : \A x \in Stacked' :
            idx[calls'[k]] <= idx[x] => Reaches(calls'[k], x)
      BY <1>7, <1>12 DEF TarjanInv, Reaching
    <2>2. \A x \in Stacked' : \E y \in Stacked' : idx[y] = low'[x] /\ Reaches(x, y)
      <3> SUFFICES ASSUME NEW x \in Stacked, idx[x] < idx[Top]
                   PROVE  \E y \in Stacked' : idx[y] = low'[x] /\ Reaches(x, y)
        BY <1>7
      <3>1. PICK y \in Stacked : idx[y] = low[x] /\ Reaches(x, y)
        BY DEF TarjanInv, Reaching
      <3>2. low[x] <= idx[x] /\ idx[x] \in Nat /\ low[x] \in Int
        BY Facts DEF TarjanInv, Lows
      <3>3. y \in Stacked'
        BY <3>1, <3>2, <1>1, <1>7
      <3> QED BY <3>1, <3>3, <1>14
    <2>3. \A x \in Stacked' : \E k \in DOMAIN calls' :
            idx[calls'[k]] <= idx[x] /\ Reaches(x, calls'[k])
      <3> SUFFICES ASSUME NEW x \in Stacked, idx[x] < idx[Top]
                   PROVE  \E k \in DOMAIN calls' : idx[calls'[k]] <= idx[x] /\ Reaches(x, calls'[k])
        BY <1>7
      <3>1. PICK k \in DOMAIN calls : idx[calls[k]] <= idx[x] /\ Reaches(x, calls[k])
        BY DEF TarjanInv, Reaching
      <3>2. k # n
        BY <3>1, <1>1, Facts DEF Top
      <3> QED BY <3>1, <3>2, <1>13
    <2>4. \A u, v \in S : Reaches(u, v)
      <3> SUFFICES ASSUME NEW u \in S, NEW v \in S PROVE Reaches(u, v)
        OBVIOUS
      <3>1. u \in Stacked /\ v \in Stacked /\ idx[Top] <= idx[v]
        BY <1>6
      <3>2. PICK k \in DOMAIN calls : Reaches(u, calls[k])
        BY <3>1 DEF TarjanInv, Reaching
      <3>3. Reaches(calls[k], Top)
        BY <1>1 DEF TarjanInv, Reaching
      <3>4. Reaches(Top, v)
        BY <3>1, <1>1 DEF TarjanInv, Reaching, Top
      <3> QED BY <3>2, <3>3, <3>4, ReachOn
    <2>5. \A i \in DOMAIN sccs' : \A u, v \in sccs'[i] : Together(u, v)
      <3>1. \A u, v \in S : Together(u, v)
        BY <2>4 DEF Together
      <3>2. \A i \in DOMAIN sccs : \A u, v \in sccs[i] : Together(u, v)
        BY DEF TarjanInv, Reaching
      <3>3. \A i \in DOMAIN sccs' : i \in DOMAIN sccs \/ i = Len(sccs) + 1
        BY <1>8
      <3> QED BY <3>1, <3>2, <3>3, <1>8
    <2> QED BY <2>1, <2>2, <2>3, <2>5, <1>10, <1>11 DEF Reaching
  <1>22. Phases'
    <2>1. phase = "tarjan"
      BY ReturnFacts DEF TarjanInv, Phases
    <2> QED BY <2>1, ReturnFacts DEF TarjanInv, Phases
  <1> QED BY <1>15, <1>16, <1>17, <1>18, <1>19, <1>20, <1>21, <1>22 DEF TarjanInv

-----------------------------------------------------------------------------
LEMMA InitTarjan ==
  ASSUME OrderInit
  PROVE  TarjanInv
  <1> USE DEF OrderInit
  <1>1. Stacked = {} /\ Elements(calls) = {} /\ DOMAIN calls = {} /\ DOMAIN sccs = {}
    BY DEF Stacked, Elements
  <1>2. \A t \in Types : ~Seen(t) /\ ~Found(t)
    BY <1>1 DEF Seen, Found
  <1>3. OrderTypeOK
    BY DEF OrderTypeOK, Unseen
  <1>4. Sorting /\ Placing /\ Lows /\ LeftOver
    BY <1>1, <1>2 DEF Sorting, Placing, Lows, LeftOver
  <1>5. Closing /\ Reaching /\ Phases
    BY <1>1 DEF Closing, Reaching, Phases
  <1> QED BY <1>3, <1>4, <1>5 DEF TarjanInv

\* What only concerns Tarjan's own variables is kept by a step that leaves them alone.
LEMMA StillTarjan ==
  ASSUME TarjanInv, UNCHANGED <<refs, tarjan>>
  PROVE  (Sorting /\ Placing /\ Lows /\ LeftOver /\ Closing /\ Reaching)'
  <1>1. refs' = refs /\ idx' = idx /\ low' = low /\ counter' = counter /\ stack' = stack
        /\ calls' = calls /\ left' = left /\ sccs' = sccs
    BY DEF tarjan
  <1>2. /\ \A t : Deps(t)' = Deps(t)
        /\ \A u, v : Reaches(u, v)' = Reaches(u, v) /\ Together(u, v)' = Together(u, v)
    BY <1>1, SameGraph
  <1>3. Stacked' = Stacked /\ Elements(calls)' = Elements(calls)
        /\ (\A t : Found(t)' <=> Found(t)) /\ (\A t : Seen(t)' <=> Seen(t))
        /\ (\A k, x : Above(k, x)' <=> Above(k, x))
    BY <1>1 DEF Stacked, Elements, Found, Seen, Above
  <1>4. Sorting' /\ Placing' /\ Lows' /\ LeftOver'
    BY <1>1, <1>2, <1>3 DEF TarjanInv, Sorting, Placing, Lows, LeftOver
  <1>5. Closing'
    BY <1>1, <1>2, <1>3 DEF TarjanInv, Closing
  <1>6. Reaching'
    BY <1>1, <1>2, <1>3 DEF TarjanInv, Reaching
  <1> QED BY <1>4, <1>5, <1>6

\* Once the calls are over every type is in a component, and in one only.
LEMMA Partition ==
  ASSUME TarjanInv, phase # "tarjan"
  PROVE  /\ \A t \in Types : \E i \in DOMAIN sccs : t \in sccs[i]
         /\ \A i \in DOMAIN sccs : sccs[i] \subseteq Types
         /\ \A i, j \in DOMAIN sccs : \A t \in sccs[i] : t \in sccs[j] => i = j
         /\ \A i \in DOMAIN sccs : sccs[i] # {}
         /\ stack = <<>>
  <1>1. calls = <<>> /\ \A t \in Types : Seen(t)
    BY DEF TarjanInv, Phases
  <1>2. Stacked = {}
    BY <1>1 DEF TarjanInv, Lows
  <1>3. \A t \in Types : \E i \in DOMAIN sccs : t \in sccs[i]
    BY <1>1, <1>2 DEF TarjanInv, Placing, Found
  <1>4. \A i \in DOMAIN sccs : sccs[i] \subseteq Types
    <2>1. sccs \in Seq(SUBSET Types)
      BY DEF TarjanInv, OrderTypeOK
    <2> QED BY <2>1
  <1>5. stack = <<>>
    BY <1>2, Facts DEF Stacked, Elements, TarjanInv, OrderTypeOK
  <1> QED BY <1>3, <1>4, <1>5 DEF TarjanInv, Placing

\* sort.Slice gives the members of a component, each once.
LEMMA SortedMembers ==
  ASSUME NEW S, S \subseteq Types, NEW s \in Sorted(S)
  PROVE  /\ s \in Seq(Types) /\ Elements(s) = S
         /\ \A i, j \in DOMAIN s : i < j => s[i] # s[j]
  <1>1. IsFiniteSet(S)
    BY TypesAssumption, FS_Subset
  <1>2. Cardinality(S) \in Nat
    BY <1>1, FS_CardinalityType
  <1>3. s \in [1 .. Cardinality(S) -> S] /\ Elements(s) = S
        /\ \A i, j \in DOMAIN s : i < j => SrcLess(s[i], s[j])
    BY DEF Sorted
  <1>4. s \in Seq(Types)
    BY <1>2, <1>3
  <1>5. \A t \in Types : ~SrcLess(t, t)
    BY PosAssumption DEF SrcLess
  <1>6. \A i \in DOMAIN s : s[i] \in Types
    BY <1>3
  <1> QED BY <1>3, <1>4, <1>5, <1>6

\* What stands where once s has been appended.
LEMMA Joined ==
  ASSUME NEW r \in Seq(Types), NEW s \in Seq(Types)
  PROVE  /\ r \o s \in Seq(Types)
         /\ Len(r) \in Nat /\ Len(s) \in Nat /\ DOMAIN r = 1 .. Len(r) /\ DOMAIN s = 1 .. Len(s)
         /\ DOMAIN (r \o s) = 1 .. Len(r) + Len(s)
         /\ \A i \in DOMAIN r : (r \o s)[i] = r[i]
         /\ \A i \in DOMAIN s : (r \o s)[Len(r) + i] = s[i]
         /\ \A i \in DOMAIN (r \o s) : i \in DOMAIN r \/ i - Len(r) \in DOMAIN s
         /\ Elements(r \o s) = Elements(r) \cup Elements(s)
  <1>1. /\ r \o s \in Seq(Types) /\ Len(r \o s) = Len(r) + Len(s)
        /\ Len(r) \in Nat /\ Len(s) \in Nat /\ DOMAIN r = 1 .. Len(r) /\ DOMAIN s = 1 .. Len(s)
    OBVIOUS
  <1>2. DOMAIN (r \o s) = 1 .. Len(r) + Len(s)
    BY <1>1
  <1>3. \A i \in 1 .. Len(r) + Len(s) :
          (r \o s)[i] = IF i <= Len(r) THEN r[i] ELSE s[i - Len(r)]
    OBVIOUS
  <1>4. \A i \in DOMAIN r : i \in DOMAIN (r \o s) /\ (r \o s)[i] = r[i]
    BY <1>1, <1>2, <1>3
  <1>5. \A i \in DOMAIN s : Len(r) + i \in DOMAIN (r \o s) /\ (r \o s)[Len(r) + i] = s[i]
    BY <1>1, <1>2, <1>3
  <1>6. \A i \in DOMAIN (r \o s) : i \in DOMAIN r \/ i - Len(r) \in DOMAIN s
    BY <1>1, <1>2
  <1>7. \A i \in DOMAIN (r \o s) :
          \/ i \in DOMAIN r /\ (r \o s)[i] = r[i]
          \/ i - Len(r) \in DOMAIN s /\ (r \o s)[i] = s[i - Len(r)]
    BY <1>1, <1>2, <1>3
  <1>8. Elements(r \o s) = Elements(r) \cup Elements(s)
    <2> DEFINE q == r \o s
    <2>1. \A t \in Elements(r) \cup Elements(s) : t \in Elements(q)
      <3>1. \A i \in DOMAIN r : i \in DOMAIN q /\ q[i] = r[i]
        BY <1>4
      <3>2. \A i \in DOMAIN s : Len(r) + i \in DOMAIN q /\ q[Len(r) + i] = s[i]
        BY <1>5
      <3> HIDE DEF q
      <3> QED BY <3>1, <3>2 DEF Elements
    <2>2. \A t \in Elements(q) : t \in Elements(r) \cup Elements(s)
      <3>1. \A i \in DOMAIN q :
              \/ i \in DOMAIN r /\ q[i] = r[i]
              \/ i - Len(r) \in DOMAIN s /\ q[i] = s[i - Len(r)]
        BY <1>7
      <3> HIDE DEF q
      <3> QED BY <3>1 DEF Elements
    <2> QED BY <2>1, <2>2
  <1> QED BY <1>1, <1>2, <1>4, <1>5, <1>6, <1>8

-----------------------------------------------------------------------------
LEMMA KeepsTarjan ==
  ASSUME TarjanInv, [OrderNext]_orderVars
  PROVE  TarjanInv'
  <1>1. ASSUME NEW v \in Types, Start(v) \/ Descend(v) PROVE TarjanInv'
    BY <1>1, StartCalls, DescendCalls, CalledKeeps
  <1>2. ASSUME NEW v \in Types, Look(v) PROVE TarjanInv'
    BY <1>2, LookKeeps
  <1>3. CASE Return
    BY <1>3, RiseKeeps, PopKeeps
  <1>4. CASE Condense
    <2>1. UNCHANGED <<refs, tarjan>> /\ order' = order /\ emitted' = emitted /\ phase' = "kahn"
          /\ calls = <<>> /\ \A t \in Types : Seen(t)
      BY <1>4 DEF Condense
    <2>2. OrderTypeOK'
      BY <2>1 DEF TarjanInv, OrderTypeOK, tarjan
    <2>3. Phases'
      BY <2>1 DEF Phases, tarjan, Seen
    <2> QED BY <2>1, <2>2, <2>3, StillTarjan DEF TarjanInv
  <1>5. ASSUME NEW i \in DOMAIN sccs, Emit(i) PROVE TarjanInv'
    <2>1. UNCHANGED <<refs, tarjan>> /\ phase = "kahn" /\ phase' = phase
          /\ emitted' = emitted \cup {i}
      BY <1>5 DEF Emit
    <2>2. order' \in Seq(Types)
      <3>1. PICK s \in Sorted(sccs[i]) : order' = order \o s
        BY <1>5 DEF Emit
      <3>2. s \in Seq(Types)
        BY <2>1, Partition, SortedMembers
      <3> QED BY <3>1, <3>2 DEF TarjanInv, OrderTypeOK
    <2>3. OrderTypeOK'
      BY <2>1, <2>2 DEF TarjanInv, OrderTypeOK, tarjan
    <2>4. Phases'
      BY <2>1 DEF TarjanInv, Phases, tarjan, Seen
    <2> QED BY <2>1, <2>3, <2>4, StillTarjan DEF TarjanInv
  <1>6. CASE Finish
    <2>1. UNCHANGED <<refs, tarjan>> /\ order' = order /\ emitted' = emitted /\ phase' = "done"
          /\ phase = "kahn"
      BY <1>6 DEF Finish
    <2>2. OrderTypeOK'
      BY <2>1 DEF TarjanInv, OrderTypeOK, tarjan
    <2>3. Phases'
      BY <2>1 DEF TarjanInv, Phases, tarjan, Seen
    <2> QED BY <2>1, <2>2, <2>3, StillTarjan DEF TarjanInv
  <1>7. CASE UNCHANGED orderVars
    <2>1. UNCHANGED <<refs, tarjan>> /\ order' = order /\ emitted' = emitted /\ phase' = phase
      BY <1>7 DEF orderVars, tarjan
    <2>2. OrderTypeOK'
      BY <2>1 DEF TarjanInv, OrderTypeOK, tarjan
    <2>3. Phases'
      BY <2>1 DEF TarjanInv, Phases, tarjan, Seen
    <2> QED BY <2>1, <2>2, <2>3, StillTarjan DEF TarjanInv
  <1> QED BY <1>1, <1>2, <1>3, <1>4, <1>5, <1>6, <1>7 DEF OrderNext

\* Every reachable state satisfies the invariant of the algorithm.
THEOREM TarjanCorrect == OrderSpec => []TarjanInv
  <1>1. OrderInit => TarjanInv
    BY InitTarjan
  <1>2. TarjanInv /\ [OrderNext]_orderVars => TarjanInv'
    BY KeepsTarjan
  <1> QED BY <1>1, <1>2, PTL DEF OrderSpec

\* The variables of the sort keep to their types (toposort.go, TopoSortTypes).
THEOREM OrderTypes == OrderSpec => []OrderTypeOK
  <1>1. TarjanInv => OrderTypeOK
    BY DEF TarjanInv
  <1> QED BY <1>1, TarjanCorrect, PTL

-----------------------------------------------------------------------------
\* The components found up to the i-th depend on nothing else, so nothing else is
\* reached from them.
LEMMA Prefix ==
  ASSUME TarjanInv, phase # "tarjan", NEW i \in DOMAIN sccs, NEW u \in sccs[i],
         NEW v, Reaches(u, v)
  PROVE  \E j \in DOMAIN sccs : j <= i /\ v \in sccs[j]
  <1> DEFINE S == {t \in Types : \E j \in DOMAIN sccs : j <= i /\ t \in sccs[j]}
  <1>0. DOMAIN sccs \subseteq Nat
    BY Facts
  <1>1. u \in S
    BY <1>0, Partition
  <1>2. DepsClosed(S)
    <2> SUFFICES ASSUME NEW t \in S, NEW d \in Deps(t) PROVE d \in S
      BY DEF DepsClosed
    <2>1. PICK j \in DOMAIN sccs : j <= i /\ t \in sccs[j]
      OBVIOUS
    <2>2. PICK k \in DOMAIN sccs : k <= j /\ d \in sccs[k]
      BY <2>1 DEF TarjanInv, Closing
    <2>3. k <= i
      BY <2>1, <2>2, <1>0
    <2> QED BY <2>2, <2>3, DepsTypes
  <1>3. v \in S
    BY <1>1, <1>2 DEF Reaches
  <1> QED BY <1>3

\* Each component found is the class of any of its members.
LEMMA Classes ==
  ASSUME TarjanInv, phase # "tarjan", NEW i \in DOMAIN sccs, NEW t \in sccs[i]
  PROVE  sccs[i] = Component(t)
  <1>1. \A v \in sccs[i] : v \in Component(t)
    BY Partition DEF TarjanInv, Reaching, Component
  <1>2. ASSUME NEW v \in Component(t) PROVE v \in sccs[i]
    <2>1. Reaches(t, v) /\ Reaches(v, t) /\ v \in Types
      BY DEF Component, Together
    <2>2. PICK j \in DOMAIN sccs : j <= i /\ v \in sccs[j]
      BY <2>1, Prefix
    <2>3. PICK k \in DOMAIN sccs : k <= j /\ t \in sccs[k]
      BY <2>1, <2>2, Prefix
    <2>4. k = i
      BY <2>3, Partition
    <2>5. j = i
      BY <2>2, <2>3, <2>4, Facts
    <2> QED BY <2>2, <2>5
  <1> QED BY <1>1, <1>2

\* tarjanSCC returns the strongly connected components, each once (toposort.go:148).
THEOREM ComponentsCorrect == OrderSpec => []Components
  <1>1. TarjanInv => Components
    <2> SUFFICES ASSUME TarjanInv, phase # "tarjan"
                 PROVE  /\ Elements(sccs) = {Component(t) : t \in Types}
                        /\ \A i, j \in DOMAIN sccs : sccs[i] = sccs[j] => i = j
      BY DEF Components
    <2>1. \A i \in DOMAIN sccs : \E t \in Types : t \in sccs[i] /\ sccs[i] = Component(t)
      BY Partition, Classes
    <2>2. \A t \in Types : \E i \in DOMAIN sccs : sccs[i] = Component(t)
      BY Partition, Classes
    <2>3. Elements(sccs) = {Component(t) : t \in Types}
      BY <2>1, <2>2 DEF Elements
    <2>4. \A i, j \in DOMAIN sccs : sccs[i] = sccs[j] => i = j
      BY <2>1, Partition
    <2> QED BY <2>3, <2>4
  <1> QED BY <1>1, TarjanCorrect, PTL

\* The first component still to come depends on earlier ones only, all of them emitted:
\* the emission loop never finds nothing ready (toposort.go:140).
THEOREM AlwaysReadyCorrect == OrderSpec => []AlwaysReady
  <1>1. TarjanInv => AlwaysReady
    <2> SUFFICES ASSUME TarjanInv, phase = "kahn", Pending # {}
                 PROVE  \E i \in Pending : Ready(i)
      BY DEF AlwaysReady
    <2>1. Pending \subseteq Nat
      BY Facts DEF Pending
    <2>2. PICK i \in Pending : \A j \in Pending : i <= j
      BY <2>1, Least
    <2>3. ASSUME NEW j \in CDeps(i) PROVE j \in emitted
      <3>1. PICK u \in sccs[i] : Deps(u) \cap sccs[j] # {}
        BY DEF CDeps
      <3>2. PICK d \in Deps(u) : d \in sccs[j]
        BY <3>1
      <3>3. j \in DOMAIN sccs /\ j # i /\ i \in DOMAIN sccs
        BY DEF CDeps, Pending
      <3>4. PICK k \in DOMAIN sccs : k <= i /\ d \in sccs[k]
        BY <3>3 DEF TarjanInv, Closing
      <3>5. k = j
        BY <3>2, <3>3, <3>4, Partition
      <3>6. j \notin Pending
        BY <2>2, <3>3, <3>4, <3>5, Facts
      <3> QED BY <3>3, <3>6 DEF Pending
    <2> QED BY <2>3 DEF Ready
  <1> QED BY <1>1, TarjanCorrect, PTL

-----------------------------------------------------------------------------
\* What the emission loop keeps: order holds the members of the components emitted,
\* each once, and each after what it depends on.
KahnInv ==
  /\ Elements(order) = UNION {sccs[i] : i \in emitted}
  /\ \A i, j \in DOMAIN order : i < j => order[i] # order[j]
  /\ DependenciesFirst
  /\ phase = "done" => Pending = {}

\* Emit appends the members of a component, in the order of the source.
Appends(i, s) ==
  /\ s \in Seq(Types) /\ Elements(s) = sccs[i]
  /\ \A a, b \in DOMAIN s : a < b => s[a] # s[b]
  /\ order \in Seq(Types) /\ emitted \subseteq DOMAIN sccs
  /\ Len(order) \in Nat /\ Len(s) \in Nat
  /\ DOMAIN order = 1 .. Len(order) /\ DOMAIN s = 1 .. Len(s)
  /\ DOMAIN order' = 1 .. Len(order) + Len(s)
  /\ \A a \in DOMAIN order : order'[a] = order[a]
  /\ \A a \in DOMAIN s : order'[Len(order) + a] = s[a]
  /\ \A a \in DOMAIN order' : a \in DOMAIN order \/ a - Len(order) \in DOMAIN s
  /\ Elements(order)' = Elements(order) \cup sccs[i]

LEMMA EmitAppends ==
  ASSUME TarjanInv, NEW i \in DOMAIN sccs, Emit(i)
  PROVE  \E s \in Sorted(sccs[i]) : Appends(i, s)
  <1>1. PICK s \in Sorted(sccs[i]) : order' = order \o s
    BY DEF Emit
  <1>2. phase = "kahn"
    BY DEF Emit
  <1>3. /\ s \in Seq(Types) /\ Elements(s) = sccs[i]
        /\ \A a, b \in DOMAIN s : a < b => s[a] # s[b]
    BY <1>2, Partition, SortedMembers
  <1>4. order \in Seq(Types) /\ emitted \subseteq DOMAIN sccs
    BY DEF TarjanInv, OrderTypeOK
  <1>5. /\ Len(order) \in Nat /\ Len(s) \in Nat
        /\ DOMAIN order = 1 .. Len(order) /\ DOMAIN s = 1 .. Len(s)
        /\ DOMAIN order' = 1 .. Len(order) + Len(s)
        /\ \A a \in DOMAIN order : order'[a] = order[a]
        /\ \A a \in DOMAIN s : order'[Len(order) + a] = s[a]
        /\ \A a \in DOMAIN order' : a \in DOMAIN order \/ a - Len(order) \in DOMAIN s
        /\ Elements(order)' = Elements(order) \cup sccs[i]
    <2>1. Elements(order') = Elements(order)'
      BY DEF Elements
    <2>2. \A q : q = order \o s =>
            /\ DOMAIN q = 1 .. Len(order) + Len(s)
            /\ \A a \in DOMAIN order : q[a] = order[a]
            /\ \A a \in DOMAIN s : q[Len(order) + a] = s[a]
            /\ \A a \in DOMAIN q : a \in DOMAIN order \/ a - Len(order) \in DOMAIN s
            /\ Elements(q) = Elements(order) \cup Elements(s)
      BY <1>3, <1>4, Joined
    <2>3. /\ Len(order) \in Nat /\ Len(s) \in Nat
          /\ DOMAIN order = 1 .. Len(order) /\ DOMAIN s = 1 .. Len(s)
      BY <1>3, <1>4
    <2> QED BY <2>1, <2>2, <2>3, <1>1, <1>3
  <1> QED BY <1>1, <1>3, <1>4, <1>5 DEF Appends

LEMMA EmitKeeps ==
  ASSUME TarjanInv, KahnInv, NEW i \in DOMAIN sccs, Emit(i)
  PROVE  KahnInv'
  <1> USE DEF Appends
  <1>1. PICK s \in Sorted(sccs[i]) : Appends(i, s)
    BY EmitAppends
  <1>2. /\ phase = "kahn" /\ phase' = phase /\ refs' = refs /\ sccs' = sccs
        /\ emitted' = emitted \cup {i} /\ i \notin emitted /\ CDeps(i) \subseteq emitted
    BY DEF Emit, tarjan, Ready, Pending
  <1>3. \A t \in Elements(order) : t \notin sccs[i]
    <2> SUFFICES ASSUME NEW t \in Elements(order), t \in sccs[i] PROVE FALSE
      OBVIOUS
    <2>1. PICK j \in emitted : t \in sccs[j]
      BY DEF KahnInv
    <2> QED BY <2>1, <1>2, <1>1, Partition
  <1>4. Elements(order)' = UNION {sccs'[j] : j \in emitted'}
    BY <1>2, <1>1 DEF KahnInv
  <1>5. \A a, b \in DOMAIN order' : a < b => order'[a] # order'[b]
    <2> SUFFICES ASSUME NEW a \in DOMAIN order', NEW b \in DOMAIN order', a < b
                 PROVE  order'[a] # order'[b]
      OBVIOUS
    <2>1. CASE b \in DOMAIN order
      <3>1. a \in DOMAIN order
        BY <2>1, <1>1
      <3> QED BY <2>1, <3>1, <1>1 DEF KahnInv
    <2>2. CASE b \notin DOMAIN order
      <3> DEFINE c == b - Len(order)
      <3>1. c \in DOMAIN s /\ order'[b] = s[c]
        <4>1. c \in DOMAIN s /\ Len(order) + c = b
          BY <2>2, <1>1
        <4> QED BY <4>1, <1>1
      <3>2. s[c] \in sccs[i]
        BY <3>1, <1>1 DEF Elements
      <3>3. CASE a \in DOMAIN order
        <4>1. order'[a] \in Elements(order)
          BY <3>3, <1>1 DEF Elements
        <4> QED BY <4>1, <3>1, <3>2, <1>3
      <3>4. CASE a \notin DOMAIN order
        <4> DEFINE d == a - Len(order)
        <4>1. d \in DOMAIN s /\ Len(order) + d = a /\ d < c
          BY <3>4, <1>1
        <4>2. order'[a] = s[d]
          BY <4>1, <1>1
        <4> QED BY <4>1, <4>2, <3>1, <1>1
      <3> QED BY <3>3, <3>4
    <2> QED BY <2>1, <2>2
  <1>6. \A u, v : Before(u, v) => Before(u, v)'
    BY <1>1 DEF Before
  <1>7. /\ \A t : Deps(t)' = Deps(t)
         /\ \A u, v : Together(u, v)' = Together(u, v)
    BY <1>2, SameGraph
  <1>8. DependenciesFirst'
    <2> SUFFICES ASSUME NEW u \in Elements(order)', NEW v \in Deps(u)
                 PROVE  Together(u, v) \/ Before(v, u)'
      BY <1>7 DEF DependenciesFirst
    <2>1. CASE u \in Elements(order)
      <3>1. Together(u, v) \/ Before(v, u)
        BY <2>1 DEF KahnInv, DependenciesFirst
      <3> QED BY <3>1, <1>6
    <2>2. CASE u \in sccs[i]
      <3>1. PICK j \in DOMAIN sccs : v \in sccs[j]
        BY <2>2 DEF TarjanInv, Closing
      <3>2. CASE j = i
        BY <2>2, <3>1, <3>2 DEF TarjanInv, Reaching
      <3>3. CASE j # i
        <4>1. j \in emitted
          BY <2>2, <3>1, <3>3, <1>2 DEF CDeps
        <4>2. v \in Elements(order)
          BY <3>1, <4>1 DEF KahnInv
        <4>3. PICK a \in DOMAIN order : order[a] = v
          BY <4>2 DEF Elements
        <4>4. PICK b \in DOMAIN s : s[b] = u
          BY <2>2, <1>1 DEF Elements
        <4>5. /\ a \in DOMAIN order' /\ Len(order) + b \in DOMAIN order' /\ a < Len(order) + b
              /\ order'[a] = v /\ order'[Len(order) + b] = u
          BY <4>3, <4>4, <1>1
        <4>6. Before(v, u)'
          BY <4>5 DEF Before
        <4> QED BY <4>6
      <3> QED BY <3>2, <3>3
    <2> QED BY <2>1, <2>2, <1>1
  <1> QED BY <1>2, <1>4, <1>5, <1>8 DEF KahnInv

LEMMA KahnKeeps ==
  ASSUME TarjanInv, KahnInv, [OrderNext]_orderVars
  PROVE  KahnInv'
  <1>1. CASE emitted = {} /\ order = <<>> /\ emitted' = {} /\ order' = <<>> /\ phase' # "done"
    <2>1. Elements(order)' = {} /\ DOMAIN order' = {}
      BY <1>1 DEF Elements
    <2>2. UNION {sccs'[i] : i \in emitted'} = {}
      BY <1>1
    <2> QED BY <1>1, <2>1, <2>2 DEF KahnInv, DependenciesFirst
  <1>2. CASE UNCHANGED <<refs, tarjan, emitted, order>> /\ (phase' = "done" => Pending = {})
    <2>1. refs' = refs /\ sccs' = sccs /\ emitted' = emitted /\ order' = order
      BY <1>2 DEF tarjan
    <2>2. /\ \A t : Deps(t)' = Deps(t)
          /\ \A u, v : Together(u, v)' = Together(u, v)
      BY <2>1, SameGraph
    <2>3. DependenciesFirst'
      BY <2>1, <2>2 DEF KahnInv, DependenciesFirst, Elements, Before
    <2> QED BY <1>2, <2>1, <2>3 DEF KahnInv, Elements, Pending
  <1>3. ASSUME NEW v \in Types, Start(v) \/ Descend(v) \/ Look(v) PROVE KahnInv'
    <2>1. phase = "tarjan" /\ phase' = phase /\ emitted' = emitted /\ order' = order
      BY <1>3 DEF Start, Descend, Look, TarjanInv, Phases
    <2> QED BY <2>1, <1>1 DEF TarjanInv, Phases
  <1>4. CASE Return
    <2>1. phase = "tarjan" /\ phase' = phase /\ emitted' = emitted /\ order' = order
      BY <1>4 DEF Return, TarjanInv, Phases
    <2> QED BY <2>1, <1>1 DEF TarjanInv, Phases
  <1>5. CASE Condense
    BY <1>5, <1>2 DEF Condense
  <1>6. ASSUME NEW i \in DOMAIN sccs, Emit(i) PROVE KahnInv'
    BY <1>6, EmitKeeps
  <1>7. CASE Finish
    BY <1>7, <1>2 DEF Finish
  <1>8. CASE UNCHANGED orderVars
    BY <1>8, <1>2 DEF orderVars, tarjan, KahnInv
  <1> QED BY <1>3, <1>4, <1>5, <1>6, <1>7, <1>8 DEF OrderNext

LEMMA KahnCorrect == OrderSpec => [](TarjanInv /\ KahnInv)
  <1>1. OrderInit => TarjanInv /\ KahnInv
    <2> SUFFICES ASSUME OrderInit PROVE KahnInv
      BY InitTarjan
    <2>1. Elements(order) = {} /\ DOMAIN order = {} /\ emitted = {} /\ phase = "tarjan"
      BY DEF OrderInit, Elements
    <2>2. UNION {sccs[i] : i \in emitted} = {}
      BY <2>1
    <2> QED BY <2>1, <2>2 DEF KahnInv, DependenciesFirst
  <1>2. TarjanInv /\ KahnInv /\ [OrderNext]_orderVars => (TarjanInv /\ KahnInv)'
    BY KeepsTarjan, KahnKeeps
  <1> QED BY <1>1, <1>2, PTL DEF OrderSpec

\* The result holds every type of the API once (toposort.go, TopoSortTypes).
THEOREM EveryTypeOnceCorrect == OrderSpec => []EveryTypeOnce
  <1>1. TarjanInv /\ KahnInv => EveryTypeOnce
    <2> SUFFICES ASSUME TarjanInv, KahnInv PROVE EveryTypeOnce
      OBVIOUS
    <2>1. order \in Seq(Types)
      BY DEF TarjanInv, OrderTypeOK
    <2>2. \A i, j \in DOMAIN order : order[i] = order[j] => i = j
      <3>1. \A i, j \in DOMAIN order : i < j \/ j < i \/ i = j
        BY <2>1
      <3> QED BY <3>1 DEF KahnInv
    <2>3. ASSUME phase = "done" PROVE Elements(order) = Types
      <3>1. emitted = DOMAIN sccs
        BY <2>3 DEF KahnInv, Pending, TarjanInv, OrderTypeOK
      <3>2. UNION {sccs[i] : i \in DOMAIN sccs} = Types
        BY <2>3, Partition
      <3> QED BY <3>1, <3>2 DEF KahnInv
    <2> QED BY <2>2, <2>3 DEF EveryTypeOnce
  <1> QED BY <1>1, KahnCorrect, PTL

\* A type stands after what it references, unless they reach each other
\* (toposort.go:67).
THEOREM DependenciesFirstCorrect == OrderSpec => []DependenciesFirst
  <1>1. KahnInv => DependenciesFirst
    BY DEF KahnInv
  <1> QED BY <1>1, KahnCorrect, PTL

-----------------------------------------------------------------------------
(***************************************************************************)
(* Termination, as far as a proof without fairness goes: every step goes   *)
(* down a well-founded order.  What is left is, in this order: phases to   *)
(* go through, types not yet numbered or not yet placed, calls under way,  *)
(* dependencies of the innermost.                                          *)
(***************************************************************************)
Ahead == CASE phase = "tarjan" -> 2 [] phase = "kahn" -> 1 [] OTHER -> 0
Remaining == IF phase = "tarjan" THEN {t \in Types : ~Seen(t)} ELSE Types \ Elements(order)
OfTop == IF calls = <<>> THEN {} ELSE left[Top]
WorkLeft == <<Ahead, <<Remaining, <<Len(calls), OfTop>>>>>>

Fewer == OpToRel(<, Nat)
Within == StrictSubsetOrdering(Types)
TypeSets == FiniteSubsetsOf(Types)

Calling == LexPairOrdering(Fewer, Within, Nat, TypeSets)
Placed == LexPairOrdering(Within, Calling, TypeSets, Nat \X TypeSets)
Work == Nat \X (TypeSets \X (Nat \X TypeSets))
LessWork == LexPairOrdering(Fewer, Placed, Nat, TypeSets \X (Nat \X TypeSets))

\* No chain of ever less work is infinite.
LEMMA WorkRunsOut == IsWellFoundedOn(LessWork, Work)
  <1>1. IsWellFoundedOn(Fewer, Nat)
    BY NatLessThanWellFounded, Zenon DEF Fewer
  <1>2. IsWellFoundedOn(Within, TypeSets)
    BY FS_StrictSubsetOrderingWellFounded DEF Within, TypeSets
  <1>3. IsWellFoundedOn(Calling, Nat \X TypeSets)
    BY <1>1, <1>2, WFLexPairOrdering DEF Calling
  <1>4. IsWellFoundedOn(Placed, TypeSets \X (Nat \X TypeSets))
    BY <1>2, <1>3, WFLexPairOrdering DEF Placed
  <1>. QED  BY <1>1, <1>4, WFLexPairOrdering DEF LessWork, Work

\* The four ways to have less to do.
LEMMA Less ==
  ASSUME NEW a \in Nat, NEW s \in TypeSets, NEW n \in Nat, NEW d \in TypeSets,
         NEW b \in Nat, NEW r \in TypeSets, NEW m \in Nat, NEW e \in TypeSets,
         \/ b < a
         \/ b = a /\ r # s /\ r \subseteq s
         \/ b = a /\ r = s /\ m < n
         \/ b = a /\ r = s /\ m = n /\ e # d /\ e \subseteq d
  PROVE  <<<<b, <<r, <<m, e>>>>>>, <<a, <<s, <<n, d>>>>>>>> \in LessWork
  <1>1. \A x, y \in TypeSets : x # y /\ x \subseteq y => <<x, y>> \in Within
    BY DEF TypeSets, FiniteSubsetsOf, Within, StrictSubsetOrdering
  <1>2. \A x, y \in Nat : x < y => <<x, y>> \in Fewer
    BY DEF Fewer, OpToRel
  <1>3. m < n \/ (m = n /\ e # d /\ e \subseteq d) => <<<<m, e>>, <<n, d>>>> \in Calling
    BY <1>1, <1>2 DEF Calling, LexPairOrdering
  <1>4. \/ r # s /\ r \subseteq s
        \/ r = s /\ <<<<m, e>>, <<n, d>>>> \in Calling
        => <<<<r, <<m, e>>>>, <<s, <<n, d>>>>>> \in Placed
    BY <1>1 DEF Placed, LexPairOrdering
  <1>5. \/ b < a
        \/ b = a /\ <<<<r, <<m, e>>>>, <<s, <<n, d>>>>>> \in Placed
        => <<<<b, <<r, <<m, e>>>>>>, <<a, <<s, <<n, d>>>>>>>> \in LessWork
    BY <1>2 DEF LessWork, LexPairOrdering
  <1>. QED  BY <1>3, <1>4, <1>5

Parts ==
  /\ Ahead \in Nat /\ Remaining \in TypeSets
  /\ Len(calls) \in Nat /\ OfTop \in TypeSets

LEMMA WorkParts == TarjanInv => Parts
  <1>. SUFFICES ASSUME TarjanInv PROVE Parts
    OBVIOUS
  <1>1. OfTop \subseteq Types
    BY TopFacts DEF OfTop, TarjanInv, OrderTypeOK
  <1>2. \A S : S \subseteq Types => S \in TypeSets
    BY TypesAssumption, FS_Subset DEF TypeSets, FiniteSubsetsOf
  <1>3. Remaining \subseteq Types
    BY DEF Remaining
  <1>4. Ahead \in Nat
    BY DEF Ahead
  <1>. QED  BY <1>1, <1>2, <1>3, <1>4, Facts DEF Parts

Progress == <<WorkLeft', WorkLeft>> \in LessWork

\* Four ways to progress.
LEMMA Onward ==
  ASSUME Parts, Parts',
         \/ Ahead' < Ahead
         \/ Ahead' = Ahead /\ Remaining' # Remaining /\ Remaining' \subseteq Remaining
         \/ Ahead' = Ahead /\ Remaining' = Remaining /\ Len(calls)' < Len(calls)
         \/ Ahead' = Ahead /\ Remaining' = Remaining /\ Len(calls)' = Len(calls)
              /\ OfTop' # OfTop /\ OfTop' \subseteq OfTop
  PROVE  Progress
  BY Less DEF Progress, WorkLeft, Parts

LEMMA ProgressStep == TarjanInv /\ KahnInv /\ TarjanInv' /\ OrderNext => Progress
  <1>. SUFFICES ASSUME TarjanInv, KahnInv, TarjanInv', OrderNext PROVE Progress
    OBVIOUS
  <1>1. Parts /\ Parts'
    <2>1. TarjanInv' => Parts'
      BY WorkParts, PTL
    <2>. QED  BY <2>1, WorkParts
  <1>2. calls # <<>> => phase = "tarjan"
    BY DEF TarjanInv, Phases
  <1>3. ASSUME NEW w \in Types, Start(w) \/ Descend(w) PROVE Progress
    <2>1. ~Seen(w) /\ phase = "tarjan" /\ phase' = phase /\ idx' = [idx EXCEPT ![w] = counter]
      BY <1>2, <1>3 DEF Start, Descend, Call
    <2>2. counter # Unseen /\ idx' \in [Types -> Nat \cup {Unseen}]
      BY DEF TarjanInv, OrderTypeOK, Unseen
    <2>3. idx'[w] = counter /\ \A t \in Types : t # w => idx'[t] = idx[t]
      BY <2>1 DEF TarjanInv, OrderTypeOK
    <2>4. Seen(w)' /\ \A t \in Types : t # w => Seen(t)' = Seen(t)
      BY <2>2, <2>3 DEF Seen
    <2>5. Remaining' # Remaining /\ Remaining' \subseteq Remaining
      BY <2>1, <2>4 DEF Remaining
    <2>6. Ahead' = Ahead
      BY <2>1 DEF Ahead
    <2>. QED  BY <1>1, <2>5, <2>6, Onward
  <1>4. ASSUME UNCHANGED <<idx, order, phase>> PROVE Ahead' = Ahead /\ Remaining' = Remaining
    BY <1>4 DEF Ahead, Remaining, Seen, Elements
  <1>5. ASSUME NEW w \in Types, Look(w) PROVE Progress
    <2>1. /\ UNCHANGED <<idx, order, phase, calls>> /\ calls # <<>>
          /\ w \in left[Top] /\ left' = [left EXCEPT ![Top] = @ \ {w}]
      BY <1>5 DEF Look
    <2>2. Top \in Types /\ left \in [Types -> SUBSET Types]
      BY <2>1, TopFacts DEF TarjanInv, OrderTypeOK
    <2>3. Top' = Top /\ left'[Top] = left[Top] \ {w}
      BY <2>1, <2>2 DEF Top
    <2>4. OfTop' # OfTop /\ OfTop' \subseteq OfTop
      BY <2>1, <2>3 DEF OfTop
    <2>. QED  BY <1>1, <1>4, <2>1, <2>4, Onward
  <1>6. CASE Return
    <2>1. /\ UNCHANGED <<idx, order, phase>> /\ calls # <<>>
          /\ calls' = SubSeq(calls, 1, Len(calls) - 1)
      BY <1>6 DEF Return
    <2>2. calls \in Seq(Types) /\ Len(calls) \in Nat /\ Len(calls) - 1 \in 0 .. Len(calls)
      BY <2>1, TopFacts, Facts DEF TarjanInv, OrderTypeOK
    <2>3. Len(calls)' < Len(calls)
      BY <2>1, <2>2, Shortened
    <2>. QED  BY <1>1, <1>4, <2>1, <2>3, Onward
  <1>7. CASE Condense \/ Finish
    <2>1. Ahead' < Ahead
      BY <1>7 DEF Condense, Finish, Ahead
    <2>. QED  BY <1>1, <2>1, Onward
  <1>8. ASSUME NEW i \in DOMAIN sccs, Emit(i) PROVE Progress
    <2>1. phase = "kahn" /\ phase' = phase /\ i \notin emitted /\ emitted \subseteq DOMAIN sccs
      BY <1>8 DEF Emit, Ready, Pending, TarjanInv, OrderTypeOK
    <2>2. Elements(order)' = Elements(order) \cup sccs[i]
      BY <1>8, EmitAppends DEF Appends
    <2>3. sccs[i] # {} /\ sccs[i] \subseteq Types
      BY DEF TarjanInv, Placing, OrderTypeOK
    <2>4. \A t \in sccs[i] : t \notin Elements(order)
      BY <2>1 DEF TarjanInv, Placing, KahnInv
    <2>5. Remaining' # Remaining /\ Remaining' \subseteq Remaining
      BY <2>1, <2>2, <2>3, <2>4 DEF Remaining
    <2>6. Ahead' = Ahead
      BY <2>1 DEF Ahead
    <2>. QED  BY <1>1, <2>5, <2>6, Onward
  <1>. QED  BY <1>3, <1>5, <1>6, <1>7, <1>8 DEF OrderNext

\* TopoSortTypes cannot go on for ever: each step leaves less to do, in an order in which
\* nothing decreases for ever.  sc's recursion ends on recursive types, and the emission
\* loop places at least one type a turn (toposort.go:150 and 120).
THEOREM SortEnds ==
  /\ IsWellFoundedOn(LessWork, Work)
  /\ OrderSpec => [][Progress]_orderVars
  <1>1. TarjanInv /\ KahnInv /\ TarjanInv' /\ [OrderNext]_orderVars => [Progress]_orderVars
    BY ProgressStep
  <1>2. OrderSpec => [][Progress]_orderVars
    BY <1>1, KahnCorrect, PTL DEF OrderSpec
  <1>. QED  BY <1>2, WorkRunsOut

-----------------------------------------------------------------------------
(***************************************************************************)
(* TopoSortTypes breaks ties by the order of the source.                   *)
(*                                                                         *)
(* SourceFirst compares two types that are both placed.  SourceInv says    *)
(* what holds from the moment the first of them is placed, when the other  *)
(* may still be pending: at that moment the other's component was ready,   *)
(* and lost to an earlier one, or a dependency of it was still to come.    *)
(***************************************************************************)

\* Why t is placed before u is: t's component is declared first, or u's had to wait.
Earlier(t, u) ==
  \/ SrcLess(First(Component(t)), First(Component(u)))
  \/ \E x \in Component(u) : \E v \in Deps(x) :
       ~Together(x, v) /\ ~Before(v, First(Component(t)))

SourceInv ==
  /\ \A a, b \in DOMAIN order :
       a < b /\ Together(order[a], order[b]) => SrcLess(order[a], order[b])
  /\ \A t \in Elements(order) : First(Component(t)) \in Elements(order)
  /\ \A t \in Elements(order) : \A u \in Types :
       ~Together(t, u) /\ ~Before(u, t) => Earlier(t, u)

-----------------------------------------------------------------------------
\* What sort.Slice puts first is the first in the source.
LEMMA SortedFirst ==
  ASSUME NEW S, S \subseteq Types, S # {}, NEW s \in Sorted(S)
  PROVE  1 \in DOMAIN s /\ s[1] = First(S)
  <1>1. s \in Seq(Types) /\ Elements(s) = S
    BY SortedMembers
  <1>2. \A i, j \in DOMAIN s : i < j => SrcLess(s[i], s[j])
    BY DEF Sorted
  <1>3. 1 \in DOMAIN s /\ \A i \in DOMAIN s : i = 1 \/ 1 < i
    BY <1>1 DEF Elements
  <1>4. s[1] \in S /\ \A u \in S \ {s[1]} : SrcLess(s[1], u)
    BY <1>1, <1>2, <1>3 DEF Elements
  <1>5. First(S) \in S /\ \A u \in S \ {First(S)} : SrcLess(First(S), u)
    BY <1>4 DEF First
  <1>6. \A t, u \in Types : SrcLess(t, u) => ~SrcLess(u, t)
    BY PosAssumption DEF SrcLess
  <1> QED  BY <1>3, <1>4, <1>5, <1>6

\* The classes do not change either.
LEMMA SameClasses ==
  ASSUME refs' = refs
  PROVE  \A t : Component(t)' = Component(t)
  BY SameGraph DEF Component

\* Nothing changes that SourceInv speaks of.
LEMMA SameSource ==
  ASSUME SourceInv, UNCHANGED <<refs, order>>
  PROVE  SourceInv'
  <1>1. /\ \A t : Deps(t)' = Deps(t) /\ Component(t)' = Component(t)
        /\ \A u, v : Together(u, v)' = Together(u, v)
    BY SameGraph, SameClasses
  <1>2. Elements(order)' = Elements(order) /\ \A u, v : Before(u, v)' = Before(u, v)
    BY DEF Elements, Before
  <1>3. \A t, u : Earlier(t, u)' = Earlier(t, u)
    BY <1>1, <1>2 DEF Earlier
  <1>4. \A a, b \in DOMAIN order' :
          a < b /\ Together(order'[a], order'[b]) => SrcLess(order'[a], order'[b])
    BY DEF SourceInv
  <1>5. \A t \in Elements(order)' : First(Component(t)') \in Elements(order)'
    BY <1>1, <1>2 DEF SourceInv
  <1>6. \A t \in Elements(order)' : \A u \in Types :
          ~Together(t, u)' /\ ~Before(u, t)' => Earlier(t, u)'
    BY <1>1, <1>2, <1>3 DEF SourceInv
  <1> QED  BY <1>1, <1>4, <1>5, <1>6 DEF SourceInv

\* Emit places one component: what was pending loses to it, or waits for something else.
LEMMA EmitSource ==
  ASSUME TarjanInv, KahnInv, KahnInv', SourceInv, NEW i \in DOMAIN sccs, Emit(i)
  PROVE  SourceInv'
  <1>1. PICK s \in Sorted(sccs[i]) : Appends(i, s)
    BY EmitAppends
  <1>2. /\ phase = "kahn" /\ refs' = refs /\ sccs' = sccs
        /\ i \in Pending /\ Best(i)
    BY DEF Emit, tarjan, Ready
  <1>3. /\ \A t : Deps(t)' = Deps(t) /\ Component(t)' = Component(t)
        /\ \A u, v : Together(u, v)' = Together(u, v)
    BY <1>2, SameGraph, SameClasses
  <1>4. /\ sccs[i] \subseteq Types /\ sccs[i] # {}
        /\ \A t \in sccs[i] : Component(t) = sccs[i]
    BY <1>2, Partition, Classes
  <1>5. 1 \in DOMAIN s /\ s[1] = First(sccs[i]) /\ First(sccs[i]) \in sccs[i]
    BY <1>1, <1>4, SortedFirst DEF Appends, Elements
  <1>6. Elements(order)' = Elements(order) \cup sccs[i]
    BY <1>1 DEF Appends
  <1>7. \A t \in Elements(order) : t \notin sccs[i]
    <2> SUFFICES ASSUME NEW t \in Elements(order), t \in sccs[i] PROVE FALSE
      OBVIOUS
    <2>1. PICK j \in emitted : t \in sccs[j]
      BY DEF KahnInv
    <2> QED  BY <2>1, <1>1, <1>2, Partition DEF Appends, Pending
  <1>8. \A u, v : Before(u, v) => Before(u, v)'
    BY <1>1 DEF Appends, Before
  <1>9. \A a, b \in DOMAIN order' : order'[a] = order'[b] => a = b
    <2>1. \A a, b \in DOMAIN order' : a < b \/ b < a \/ a = b
      BY <1>1 DEF Appends
    <2> QED  BY <2>1 DEF KahnInv
  \* Nothing comes to stand before what is placed, and only that before the first new one.
  <1>10. ASSUME NEW v, NEW w \in Elements(order), Before(v, w)'
         PROVE  Before(v, w)
    <2>1. PICK a, b \in DOMAIN order' : a < b /\ order'[a] = v /\ order'[b] = w
      BY <1>10 DEF Before
    <2>2. PICK c \in DOMAIN order : order[c] = w
      BY DEF Elements
    <2>3. b = c
      BY <1>1, <1>9, <2>1, <2>2 DEF Appends
    <2>4. a \in DOMAIN order
      BY <1>1, <2>1, <2>2, <2>3 DEF Appends
    <2> QED  BY <1>1, <2>1, <2>2, <2>3, <2>4 DEF Appends, Before
  <1>11. ASSUME NEW v, Before(v, First(sccs[i]))'
         PROVE  v \in Elements(order)
    <2>1. PICK a, b \in DOMAIN order' : a < b /\ order'[a] = v /\ order'[b] = First(sccs[i])
      BY <1>2, <1>11 DEF Before, First
    <2>2. Len(order) + 1 \in DOMAIN order' /\ order'[Len(order) + 1] = First(sccs[i])
      BY <1>1, <1>5 DEF Appends
    <2>3. b = Len(order) + 1
      BY <1>9, <2>1, <2>2
    <2>4. a \in DOMAIN order
      BY <1>1, <2>1, <2>3 DEF Appends
    <2> QED  BY <1>1, <2>1, <2>4 DEF Appends, Elements
  <1>12. ASSUME NEW a \in DOMAIN order', NEW b \in DOMAIN order', a < b,
                Together(order'[a], order'[b])
         PROVE  SrcLess(order'[a], order'[b])
    <2>1. CASE b \in DOMAIN order
      <3>1. a \in DOMAIN order
        BY <1>1, <1>12, <2>1 DEF Appends
      <3> QED  BY <1>1, <1>12, <2>1, <3>1 DEF Appends, SourceInv
    <2>2. CASE b \notin DOMAIN order
      <3> DEFINE d == b - Len(order)
      <3>1. d \in DOMAIN s /\ order'[b] = s[d]
        <4>1. d \in DOMAIN s /\ Len(order) + d = b
          BY <1>1, <2>2 DEF Appends
        <4> QED  BY <1>1, <4>1 DEF Appends
      <3>2. order'[b] \in sccs[i]
        BY <1>1, <3>1 DEF Appends, Elements
      <3>3. CASE a \in DOMAIN order
        <4>1. order'[a] \in Elements(order) /\ order'[a] \in Types
          BY <1>1, <3>3 DEF Appends, Elements
        <4>2. order'[a] \in Component(order'[b])
          BY <1>12, <4>1 DEF Component, Together
        <4> QED  BY <1>4, <1>7, <3>2, <4>1, <4>2
      <3>4. CASE a \notin DOMAIN order
        <4> DEFINE c == a - Len(order)
        <4>1. c \in DOMAIN s /\ Len(order) + c = a /\ c < d
          BY <1>1, <1>12, <3>4 DEF Appends
        <4>2. order'[a] = s[c]
          BY <1>1, <4>1 DEF Appends
        <4> QED  BY <3>1, <4>1, <4>2 DEF Sorted
      <3> QED  BY <3>3, <3>4
    <2> QED  BY <2>1, <2>2
  <1>13. ASSUME NEW t \in Elements(order)'
         PROVE  First(Component(t)) \in Elements(order)'
    BY <1>4, <1>5, <1>6 DEF SourceInv
  <1>14. ASSUME NEW t \in Elements(order)', NEW u \in Types,
                ~Together(t, u), ~Before(u, t)'
         PROVE  \/ SrcLess(First(Component(t)), First(Component(u)))
                \/ \E x \in Component(u) : \E v \in Deps(x) :
                     ~Together(x, v) /\ ~Before(v, First(Component(t)))'
    <2>1. CASE t \in Elements(order)
      <3>1. Earlier(t, u)
        BY <1>8, <1>14, <2>1 DEF SourceInv
      <3>2. First(Component(t)) \in Elements(order)
        BY <2>1 DEF SourceInv
      <3> QED  BY <1>3, <1>10, <3>1, <3>2 DEF Earlier
    <2>2. CASE t \in sccs[i]
      <3>1. Component(t) = sccs[i]
        BY <1>4, <2>2
      <3>2. PICK j \in DOMAIN sccs : u \in sccs[j]
        BY <1>2, Partition
      <3>3. Component(u) = sccs[j] /\ j # i
        <4>1. Component(u) = sccs[j]
          BY <1>2, <3>2, Classes
        <4>2. j # i
          BY <1>14, <2>2, <3>2 DEF TarjanInv, Reaching
        <4> QED  BY <4>1, <4>2
      <3>4. j \in Pending
        <4>1. ASSUME j \in emitted PROVE FALSE
          <5>1. u \in Elements(order)
            BY <3>2, <4>1 DEF KahnInv
          <5>2. PICK a \in DOMAIN order : order[a] = u
            BY <5>1 DEF Elements
          <5>3. PICK b \in DOMAIN s : s[b] = t
            BY <1>1, <2>2 DEF Appends, Elements
          <5>4. /\ a \in DOMAIN order' /\ Len(order) + b \in DOMAIN order' /\ a < Len(order) + b
                /\ order'[a] = u /\ order'[Len(order) + b] = t
            BY <1>1, <5>2, <5>3 DEF Appends
          <5> QED  BY <1>14, <5>4 DEF Before
        <4> QED  BY <3>2, <4>1 DEF Pending
      <3>5. CASE Ready(j)
        BY <1>2, <3>1, <3>3, <3>4, <3>5 DEF Best
      <3>6. CASE ~Ready(j)
        <4>1. PICK k \in CDeps(j) : k \notin emitted
          BY <3>4, <3>6 DEF Ready
        <4>2. PICK x \in sccs[j] : Deps(x) \cap sccs[k] # {}
          BY <4>1 DEF CDeps
        <4>3. PICK v \in Deps(x) : v \in sccs[k]
          BY <4>2
        <4>4. k \in DOMAIN sccs /\ k # j
          BY <4>1 DEF CDeps
        <4>5. ~Together(x, v)
          <5>1. Component(x) = sccs[j] /\ v \in Types
            BY <1>2, <4>2, <4>3, Classes, DepsTypes
          <5>2. v \notin sccs[j]
            BY <1>2, <4>3, <4>4, Partition
          <5> QED  BY <5>1, <5>2 DEF Component
        <4>6. v \notin Elements(order)
          <5>1. ASSUME v \in Elements(order) PROVE FALSE
            <6>1. PICK m \in emitted : v \in sccs[m]
              BY <5>1 DEF KahnInv
            <6> QED  BY <1>1, <1>2, <4>1, <4>3, <4>4, <6>1, Partition DEF Appends
          <5> QED  BY <5>1
        <4>7. ~Before(v, First(sccs[i]))'
          BY <1>11, <4>6
        <4>8. ~Before(v, First(Component(t)))'
          <5>1. First(Component(t)') = First(sccs[i]')
            BY <1>2, <1>3, <3>1
          <5> QED  BY <4>7, <5>1
        <4> QED  BY <3>3, <4>2, <4>3, <4>5, <4>8
      <3> QED  BY <3>5, <3>6
    <2> QED  BY <1>6, <2>1, <2>2
  <1>15. \A t \in Elements(order)' : \A u \in Types :
           ~Together(t, u)' /\ ~Before(u, t)' => Earlier(t, u)'
    BY <1>3, <1>14 DEF Earlier
  <1> QED  BY <1>3, <1>12, <1>13, <1>15 DEF SourceInv

\* Every step.
LEMMA NextSource ==
  ASSUME TarjanInv, KahnInv, KahnInv', SourceInv, [OrderNext]_orderVars
  PROVE  SourceInv'
  <1>1. CASE \E i \in DOMAIN sccs : Emit(i)
    BY <1>1, EmitSource
  <1>2. CASE ~ \E i \in DOMAIN sccs : Emit(i)
    <2>1. UNCHANGED <<refs, order>>
      BY <1>2 DEF OrderNext, orderVars, Start, Descend, Call, Look, Return, Condense, Finish
    <2> QED  BY <2>1, SameSource
  <1> QED  BY <1>1, <1>2

\* Ties break by the order of the source (toposort.go:67): of two types placed, the first
\* is the one declared first, or a dependency of the other's component had yet to come.
THEOREM SourceFirstCorrect == OrderSpec => []SourceFirst
  <1>1. OrderInit => SourceInv
    <2> SUFFICES ASSUME OrderInit PROVE SourceInv
      OBVIOUS
    <2>1. Elements(order) = {} /\ DOMAIN order = {}
      BY DEF OrderInit, Elements
    <2> QED  BY <2>1 DEF SourceInv
  <1>2. ASSUME TarjanInv, KahnInv, SourceInv
        PROVE  SourceFirst
    <2> SUFFICES ASSUME NEW t \in Elements(order), NEW u \in Elements(order), Before(t, u)
                 PROVE  IF Together(t, u) THEN SrcLess(t, u) ELSE Earlier(t, u)
      BY DEF SourceFirst, Earlier
    <2>1. order \in Seq(Types)
      BY <1>2 DEF TarjanInv, OrderTypeOK
    <2>2. CASE Together(t, u)
      BY <1>2, <2>2 DEF Before, SourceInv
    <2>3. CASE ~Together(t, u)
      <3>1. u \in Types
        BY <2>1 DEF Elements
      <3>2. \A a, b \in DOMAIN order : order[a] = order[b] => a = b
        <4>1. \A a, b \in DOMAIN order : a < b \/ b < a \/ a = b
          BY <2>1
        <4> QED  BY <1>2, <4>1 DEF KahnInv
      <3>3. ~Before(u, t)
        BY <2>1, <3>2 DEF Before
      <3> QED  BY <1>2, <2>3, <3>1, <3>3 DEF SourceInv
    <2> QED  BY <2>2, <2>3
  <1>3. TarjanInv /\ KahnInv /\ KahnInv' /\ SourceInv /\ [OrderNext]_orderVars => SourceInv'
    BY NextSource
  <1> QED  BY <1>1, <1>2, <1>3, KahnCorrect, PTL DEF OrderSpec

-----------------------------------------------------------------------------
(***************************************************************************)
(* Theorems of Schemas, from those of the order it adds to.                *)
(***************************************************************************)

\* The order is TypeOrder's: evaluating schemas.ts leaves it alone.
LEMMA Ordered == Spec => OrderSpec
  <1>1. Init => OrderInit
    BY DEF Init
  <1>2. [Next]_vars => [OrderNext]_orderVars
    BY DEF Next, vars, Evaluate, Statement
  <1>. QED  BY <1>1, <1>2, PTL DEF Spec, OrderSpec

LEMMA RefsStay ==
  ASSUME [Next]_vars
  PROVE  refs' = refs /\ shape' = shape
  <1>1. CASE OrderNext /\ UNCHANGED module
    BY <1>1 DEF OrderNext, Start, Descend, Look, Return, Condense, Emit, Finish, module
  <1>2. CASE Evaluate
    BY <1>2 DEF Evaluate, Statement, orderVars
  <1>3. CASE UNCHANGED vars
    BY <1>3 DEF vars, orderVars, module
  <1>. QED  BY <1>1, <1>2, <1>3 DEF Next

\* TypeOK: the variables keep to their types.
THEOREM ModuleTypes == Spec => []TypeOK
  <1> DEFINE T == shape \in Shapes(refs) /\ bound \subseteq Types /\ failed \subseteq Types
  <1>1. Init => T
    BY DEF Init
  <1>2. T /\ [Next]_vars => T'
    <2>. SUFFICES ASSUME T, [Next]_vars PROVE T'
      OBVIOUS
    <2>1. refs' = refs /\ shape' = shape
      BY RefsStay
    <2>2. bound' \subseteq Types /\ failed' \subseteq Types
      BY DEF Next, Evaluate, Statement, vars, module
    <2>. QED  BY <2>1, <2>2
  <1>3. T /\ OrderTypeOK => TypeOK
    BY DEF TypeOK
  <1>. QED  BY <1>1, <1>2, <1>3, Ordered, OrderTypes, PTL DEF Spec

-----------------------------------------------------------------------------
(***************************************************************************)
(* What a const reads.                                                     *)
(***************************************************************************)
\* Body(t) holds what t names and what the factories in it name, and is the least such set.
LEMMA BodyFacts ==
  ASSUME OrderTypeOK, NEW t \in Types
  PROVE  /\ Body(t) \subseteq Named /\ Names(t) \subseteq Body(t) /\ CallsIn(Body(t))
         /\ \A S \in SUBSET Named : Names(t) \subseteq S /\ CallsIn(S) => Body(t) \subseteq S
  <1>1. \A u \in Types : Names(u) \subseteq Named
    BY ApisAssumption DEF OrderTypeOK, Names, Mention
  <1>2. CallsIn(Body(t))
    BY <1>1 DEF CallsIn, Body
  <1>. QED  BY <1>1, <1>2 DEF Body

\* What a factory called in the evaluation of t names, t's evaluation reads as well.
LEMMA BodyGrows ==
  ASSUME OrderTypeOK, NEW t \in Types, NEW f \in Body(t) \cap Types, shape[f] = "generic"
  PROVE  Body(f) \subseteq Body(t)
  <1>1. Names(f) \subseteq Body(t) /\ CallsIn(Body(t)) /\ Body(t) \subseteq Named
    BY BodyFacts DEF CallsIn
  <1>. QED  BY <1>1, BodyFacts

\* Order is transitive, and no type comes before itself.
LEMMA BeforeFacts ==
  ASSUME EveryTypeOnce, OrderTypeOK
  PROVE  /\ \A a, b, c : Before(a, b) /\ Before(b, c) => Before(a, c)
         /\ \A a : ~Before(a, a)
         /\ \A a, b : Before(a, b) => a \in Elements(order) /\ b \in Elements(order)
         /\ \A a, b \in Elements(order) : a = b \/ Before(a, b) \/ Before(b, a)
  <1>1. DOMAIN order \subseteq Nat /\ \A i, j \in DOMAIN order : order[i] = order[j] => i = j
    BY DEF OrderTypeOK, EveryTypeOnce
  <1>2. \A a, b, c : Before(a, b) /\ Before(b, c) => Before(a, c)
    <2>. SUFFICES ASSUME NEW a, NEW b, NEW c, Before(a, b), Before(b, c) PROVE Before(a, c)
      OBVIOUS
    <2>1. PICK i, j \in DOMAIN order : i < j /\ order[i] = a /\ order[j] = b
      BY DEF Before
    <2>2. PICK k, l \in DOMAIN order : k < l /\ order[k] = b /\ order[l] = c
      BY DEF Before
    <2>3. j = k /\ i < l
      BY <1>1, <2>1, <2>2
    <2>. QED  BY <2>1, <2>2, <2>3 DEF Before
  <1>3. \A a : ~Before(a, a)
    BY <1>1 DEF Before
  <1>4. \A a, b \in Elements(order) : a = b \/ Before(a, b) \/ Before(b, a)
    <2>. SUFFICES ASSUME NEW i \in DOMAIN order, NEW j \in DOMAIN order, i # j
                  PROVE  Before(order[i], order[j]) \/ Before(order[j], order[i])
      BY DEF Elements
    <2>1. i < j \/ j < i
      BY <1>1
    <2>. QED  BY <2>1 DEF Before
  <1>5. \A a, b : Before(a, b) => a \in Elements(order) /\ b \in Elements(order)
    BY DEF Before, Elements
  <1>. QED  BY <1>2, <1>3, <1>4, <1>5

\* A mention that does not lead back, and is none of a type argument, stands above.
LEMMA MentionsAbove ==
  ASSUME DependenciesFirst, NEW u \in Types, u \in Elements(order), NEW m \in refs[u],
         m.to \in Types, ~Reaches(m.to, u), ~m.arg
  PROVE  Before(m.to, u)
  <1>1. m.to # u
    BY ReachSelf
  <1>2. m.to \in Deps(u)
    BY <1>1 DEF Deps, NamedDeps
  <1>3. ~Together(u, m.to)
    BY DEF Together
  <1>. QED  BY <1>2, <1>3 DEF DependenciesFirst

\* The whole of what f's body names stands above f, when each step of it is sound.
LEMMA BodyAbove ==
  ASSUME OrderTypeOK, EveryTypeOnce, DependenciesFirst, phase = "done", NEW f \in Types,
         \A u \in (Body(f) \cup {f}) \cap Types : \A m \in refs[u] :
           m.to \in Types /\ EmitTS(m.to) /\ ~Reaches(m.to, u) /\ ~m.arg
  PROVE  \A n \in Body(f) : n \in Types /\ EmitTS(n) /\ Before(n, f)
  <1> DEFINE S == {n \in Body(f) : n \in Types /\ EmitTS(n) /\ Before(n, f)}
  <1>1. \A u \in Types : u \in Elements(order)
    BY DEF EveryTypeOnce
  <1>2. Body(f) \subseteq Named /\ Names(f) \subseteq Body(f) /\ CallsIn(Body(f))
    BY BodyFacts
  <1>3. \A u \in (Body(f) \cup {f}) \cap Types : \A n \in Names(u) :
          n \in Types /\ EmitTS(n) /\ Before(n, u)
    BY <1>1, MentionsAbove DEF Names
  <1>4. Names(f) \subseteq S
    BY <1>2, <1>3
  <1>5. CallsIn(S)
    <2>. SUFFICES ASSUME NEW u \in S \cap Types, shape[u] = "generic", NEW n \in Names(u)
                  PROVE  n \in S
      BY DEF CallsIn
    <2>1. n \in Body(f)
      BY <1>2 DEF CallsIn
    <2>2. n \in Types /\ EmitTS(n) /\ Before(n, u)
      BY <1>3
    <2>3. Before(n, f)
      BY <2>2, BeforeFacts
    <2>. QED  BY <2>1, <2>2, <2>3
  <1>6. S \subseteq Named
    BY <1>2
  <1> HIDE DEF S
  <1>7. Body(f) \subseteq S
    BY <1>4, <1>5, <1>6, BodyFacts
  <1>. QED  BY <1>7 DEF S

\* A sound const finds all it reads, and ends.
LEMMA SoundEvaluates ==
  ASSUME OrderTypeOK, EveryTypeOnce, DependenciesFirst, phase = "done",
         NEW t \in Types, NextLine(t), Sound(t)
  PROVE  Reads(t) \subseteq bound /\ ~Endless(t)
  <1>1. CASE shape[t] = "generic"
    BY <1>1 DEF Reads, Endless
  <1>2. CASE shape[t] # "generic"
    <2>1. Reads(t) = Body(t)
      BY <1>2 DEF Reads
    <2>2. \A u \in (Body(t) \cup {t}) \cap Types : \A m \in refs[u] :
            m.to \in Types /\ EmitTS(m.to) /\ ~Reaches(m.to, u) /\ ~m.arg
      BY <2>1 DEF Sound
    <2>3. \A n \in Body(t) : n \in Types /\ EmitTS(n) /\ Before(n, t)
      BY <2>2, BodyAbove
    <2>4. Body(t) \subseteq bound
      BY <2>3, BeforeFacts DEF NextLine, Lines
    <2>5. ASSUME NEW f \in Body(t) \cap Types, shape[f] = "generic", f \in Body(f)
          PROVE  FALSE
      <3>1. Body(f) \subseteq Body(t)
        BY <2>5, BodyGrows
      <3>2. \A u \in (Body(f) \cup {f}) \cap Types : \A m \in refs[u] :
              m.to \in Types /\ EmitTS(m.to) /\ ~Reaches(m.to, u) /\ ~m.arg
        BY <2>2, <3>1
      <3>3. Before(f, f)
        BY <2>5, <3>2, BodyAbove
      <3>. QED  BY <3>3, BeforeFacts
    <2>. QED  BY <2>1, <2>4, <2>5 DEF Endless
  <1>. QED  BY <1>1, <1>2

\* What makes a type sound does not change.
LEMMA SoundStays ==
  ASSUME refs' = refs, shape' = shape
  PROVE  \A t : Sound(t)' = Sound(t)
  <1>1. \A t : Names(t)' = Names(t) /\ EmitTS(t)' = EmitTS(t)
    BY DEF Names, EmitTS
  <1>2. \A S : CallsIn(S)' = CallsIn(S)
    BY <1>1 DEF CallsIn
  <1>3. \A t : Body(t)' = Body(t)
    BY <1>1, <1>2 DEF Body
  <1>4. \A t : Reads(t)' = Reads(t)
    BY <1>3 DEF Reads
  <1>. QED  BY <1>1, <1>4, SameGraph DEF Sound

\* FailsWithCause: importing schemas.ts throws only at a const with an unsound mention
\* (zod.go:221 "a forward value reference").
THEOREM FailsCorrect == Spec => []FailsWithCause
  <1>1. Init => FailsWithCause
    BY DEF Init, FailsWithCause
  <1>2. ASSUME OrderTypeOK, EveryTypeOnce, DependenciesFirst, FailsWithCause, [Next]_vars
        PROVE  FailsWithCause'
    <2>1. \A t : Sound(t)' = Sound(t)
      BY <1>2, RefsStay, SoundStays
    <2>2. CASE failed' = failed
      BY <1>2, <2>1, <2>2 DEF FailsWithCause
    <2>3. CASE failed' # failed
      <3>1. PICK t \in Types : Statement(t)
        BY <1>2, <2>3 DEF Next, vars, module, Evaluate
      <3>2. failed' = {t} /\ ~(Reads(t) \subseteq bound /\ ~Endless(t))
        BY <2>3, <3>1 DEF Statement
      <3>3. ~Sound(t)
        BY <1>2, <3>1, <3>2, SoundEvaluates DEF Statement
      <3>. QED  BY <2>1, <3>2, <3>3 DEF FailsWithCause
    <2>. QED  BY <2>2, <2>3
  <1>. QED  BY <1>1, <1>2, Ordered, OrderTypes, EveryTypeOnceCorrect, DependenciesFirstCorrect, PTL
       DEF Spec

-----------------------------------------------------------------------------
(***************************************************************************)
(* What Loads says without fairness: the evaluation neither gets stuck nor *)
(* leaves a const out.                                                     *)
(***************************************************************************)
BoundInv ==
  /\ bound \subseteq Lines
  /\ phase # "done" => bound = {}

LEMMA BoundStep ==
  ASSUME TarjanInv, BoundInv, [Next]_vars
  PROVE  BoundInv'
  <1>1. CASE OrderNext /\ UNCHANGED module
    <2>1. phase # "done"
      BY <1>1 DEF OrderNext, Start, Descend, Look, Return, Condense, Emit, Finish, TarjanInv, Phases
    <2>. QED  BY <1>1, <2>1 DEF BoundInv, module
  <1>2. ASSUME UNCHANGED <<orderVars, shape>> PROVE Lines' = Lines /\ phase' = phase
    BY <1>2 DEF Lines, EmitTS, Elements, orderVars
  <1>3. CASE Evaluate
    <2>1. PICK t \in Types : Statement(t)
      BY <1>3 DEF Evaluate
    <2>2. Lines' = Lines /\ phase' = phase /\ phase = "done" /\ t \in Lines
      BY <1>2, <2>1 DEF Statement, NextLine
    <2>3. bound' \subseteq bound \cup {t}
      BY <2>1 DEF Statement
    <2>. QED  BY <2>2, <2>3 DEF BoundInv
  <1>4. CASE UNCHANGED vars
    BY <1>2, <1>4 DEF vars, module, BoundInv
  <1>. QED  BY <1>1, <1>3, <1>4 DEF Next

\* Of the consts without a value one is the first.
LEMMA FirstLine ==
  ASSUME OrderTypeOK, EveryTypeOnce, Lines \ bound # {}
  PROVE  \E t \in Types : NextLine(t)
  <1> DEFINE places == {i \in DOMAIN order : order[i] \in Lines \ bound}
  <1>1. order \in Seq(Types) /\ DOMAIN order \subseteq Nat
    BY DEF OrderTypeOK
  <1>2. places \in SUBSET Nat /\ places # {}
    BY <1>1 DEF Lines, Elements
  <1>3. PICK i \in places : \A j \in places : i <= j
    <2>. HIDE DEF places
    <2>. QED  BY <1>2, Least
  <1>4. order[i] \in Types
    BY <1>1
  <1>5. ASSUME NEW u \in Lines \ bound, Before(u, order[i]) PROVE FALSE
    <2>1. PICK j, k \in DOMAIN order : j < k /\ order[j] = u /\ order[k] = order[i]
      BY <1>5 DEF Before
    <2>2. k = i /\ j \in places
      BY <2>1 DEF EveryTypeOnce
    <2>. QED  BY <1>1, <1>3, <2>1, <2>2
  <1>. QED  BY <1>3, <1>4, <1>5 DEF NextLine

\* Importing schemas.ts comes to an end with all of its validators when all types are sound
\* (zod.go:221): it does not throw, it has a statement to evaluate as long as one has no
\* value, and it binds nothing else.
LoadsWhole ==
  phase = "done" /\ (\A t \in Types : Sound(t)) =>
    /\ failed = {} /\ bound \subseteq Lines
    /\ bound = Lines \/ \E t \in Types : NextLine(t) /\ Reads(t) \subseteq bound /\ ~Endless(t)

THEOREM LoadsWholeCorrect == Spec => []LoadsWhole
  <1>1. Init => BoundInv
    BY DEF Init, OrderInit, BoundInv
  <1>2. Spec => []TarjanInv
    BY Ordered, TarjanCorrect, PTL
  <1>3. Spec => []BoundInv
    BY <1>1, <1>2, BoundStep, PTL DEF Spec
  <1>4. ASSUME TypeOK, EveryTypeOnce, DependenciesFirst, FailsWithCause, BoundInv PROVE LoadsWhole
    <2>. SUFFICES ASSUME phase = "done", \A t \in Types : Sound(t)
                  PROVE  /\ failed = {} /\ bound \subseteq Lines
                         /\ \/ bound = Lines
                            \/ \E t \in Types : NextLine(t) /\ Reads(t) \subseteq bound /\ ~Endless(t)
      BY DEF LoadsWhole
    <2>1. failed = {}
      BY <1>4 DEF FailsWithCause, TypeOK
    <2>2. OrderTypeOK /\ bound \subseteq Lines
      BY <1>4 DEF TypeOK, BoundInv
    <2>3. ASSUME bound # Lines
          PROVE  \E t \in Types : NextLine(t) /\ Reads(t) \subseteq bound /\ ~Endless(t)
      <3>1. PICK t \in Types : NextLine(t)
        BY <1>4, <2>2, <2>3, FirstLine
      <3>. QED  BY <1>4, <2>2, <3>1, SoundEvaluates
    <2>. QED  BY <2>1, <2>2, <2>3
  <1>. QED  BY <1>3, <1>4, ModuleTypes, FailsCorrect, Ordered, EveryTypeOnceCorrect,
               DependenciesFirstCorrect, PTL
=============================================================================
