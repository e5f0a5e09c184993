----------------------------- MODULE SSEProofs -----------------------------
(***************************************************************************)
(* The stream arrives whole, for any number of events, any connection and  *)
(* any cut of the body into chunks; and it implements Mailbox.             *)
(*                                                                         *)
(* The induction is about Body, what streamSSE has not parsed: its buffer  *)
(* and the bytes under way.  It is the written blocks from the first one   *)
(* not yet taken out on, each of three symbols, and only a lost connection *)
(* leaves it short.                                                        *)
(***************************************************************************)
EXTENDS SSE, TLAPS

Item == Events \cup {NL}

Body == buffer \o wire

\* The events taken out of the body: those yielded and the one about to be.
Taken == Len(yielded) + Len(block)

\* The symbols q are blocks of w's events after the first n.
Aligned(q, n, w) ==
  \A k \in Nat \ {0} :
    /\ 3 * k - 2 <= Len(q) => n + k <= Len(w) /\ q[3 * k - 2] = w[n + k]
    /\ 3 * k - 1 <= Len(q) => q[3 * k - 1] = NL
    /\ 3 * k <= Len(q) => q[3 * k] = NL

BodyInv ==
  /\ Aligned(Body, Taken, written)
  /\ ~broken => Len(Body) = 3 * (Len(written) - Taken)

YieldInv ==
  /\ Len(block) <= 1 /\ Taken <= Len(written)
  /\ \A i \in 1 .. Len(yielded) : yielded[i] = written[i]
  /\ block # <<>> => client = "yield" /\ block[1] = written[Len(yielded) + 1]

PlaceInv ==
  /\ server = "write" => produced >= 1
  /\ client \in {"fetch", "read"} => Len(buffer) < 3
  /\ client = "done" => server = "returned" /\ yielded = written

StreamInv == TypeOK /\ BodyInv /\ YieldInv /\ PlaceInv

-----------------------------------------------------------------------------
\* What sequences of symbols do.
LEMMA Join ==
  ASSUME NEW S, NEW s \in Seq(S), NEW t \in Seq(S)
  PROVE  /\ s \o t \in Seq(S) /\ Len(s \o t) = Len(s) + Len(t)
         /\ \A i \in 1 .. Len(s) : (s \o t)[i] = s[i]
         /\ \A i \in 1 .. Len(t) : (s \o t)[Len(s) + i] = t[i]
  OBVIOUS

LEMMA Unjoin ==
  ASSUME NEW s \in Seq(Item), s # <<>>
  PROVE  /\ Len(s) \in Nat /\ Len(s) >= 1 /\ Head(s) = s[1]
         /\ Tail(s) \in Seq(Item) /\ Len(Tail(s)) = Len(s) - 1
         /\ Len(s) = 1 => Tail(s) = <<>>
  <1>1. Len(s) \in Nat /\ Len(s) # 0
    OBVIOUS
  <1>2. Len(s) >= 1
    BY <1>1
  <1>3. Head(s) = s[1] /\ Tail(s) \in Seq(Item) /\ Len(Tail(s)) = Len(s) - 1
    BY <1>2
  <1>4. Len(s) = 1 => Tail(s) = <<>>
    <2>1. Len(s) = 1 => Len(Tail(s)) = 0
      BY <1>3
    <2>2. ASSUME NEW u \in Seq(Item), Len(u) = 0 PROVE u = <<>>
      BY <2>2
    <2> QED BY <1>3, <2>1, <2>2
  <1> QED BY <1>1, <1>2, <1>3, <1>4

LEMMA Sub ==
  ASSUME NEW S, NEW s \in Seq(S), NEW m \in 1 .. Len(s) + 1, NEW n \in 0 .. Len(s), m <= n + 1
  PROVE  /\ SubSeq(s, m, n) \in Seq(S) /\ Len(SubSeq(s, m, n)) = n - m + 1
         /\ \A i \in 1 .. n - m + 1 : SubSeq(s, m, n)[i] = s[m + i - 1]
  OBVIOUS

\* Moving a chunk from the front of one sequence to the end of another.
LEMMA Regroup ==
  ASSUME NEW S, NEW s \in Seq(S), NEW t \in Seq(S), NEW a \in Seq(S), NEW b \in Seq(S),
         Len(a) + Len(b) = Len(t),
         \A i \in 1 .. Len(a) : a[i] = t[i],
         \A i \in 1 .. Len(b) : b[i] = t[Len(a) + i]
  PROVE  (s \o a) \o b = s \o t
  <1>1. /\ (s \o a) \o b \in Seq(S) /\ s \o t \in Seq(S)
        /\ Len((s \o a) \o b) = Len(s) + Len(t) /\ Len(s \o t) = Len(s) + Len(t)
    <2>1. s \o a \in Seq(S) /\ Len(s \o a) = Len(s) + Len(a)
      OBVIOUS
    <2>2. (s \o a) \o b \in Seq(S) /\ Len((s \o a) \o b) = Len(s \o a) + Len(b)
      BY <2>1
    <2>3. (Len(s) + Len(a)) + Len(b) = Len(s) + Len(t)
      <3>1. Len(s) \in Nat /\ Len(a) \in Nat /\ Len(b) \in Nat
        OBVIOUS
      <3>2. (Len(s) + Len(a)) + Len(b) = Len(s) + (Len(a) + Len(b))
        BY <3>1
      <3> QED BY <3>2, Zenon
    <2> QED BY <2>1, <2>2, <2>3
  <1>2. ASSUME NEW i \in 1 .. Len(s) + Len(t) PROVE ((s \o a) \o b)[i] = (s \o t)[i]
    <2>1. CASE i <= Len(s)
      BY <2>1
    <2>2. CASE i > Len(s) /\ i <= Len(s) + Len(a)
      BY <2>2
    <2>3. CASE i > Len(s) + Len(a)
      <3>1. ((s \o a) \o b)[i] = b[i - (Len(s) + Len(a))]
        BY <2>3
      <3>2. (s \o t)[i] = t[i - Len(s)]
        BY <2>3
      <3>3. b[i - (Len(s) + Len(a))] = t[Len(a) + (i - (Len(s) + Len(a)))]
        BY <2>3
      <3>4. Len(a) + (i - (Len(s) + Len(a))) = i - Len(s)
        OBVIOUS
      <3> QED BY <3>1, <3>2, <3>3, <3>4
    <2> QED BY <2>1, <2>2, <2>3
  <1> QED BY <1>1, <1>2

LEMMA MoveChunk ==
  ASSUME NEW S, NEW s \in Seq(S), NEW t \in Seq(S), NEW k \in 1 .. Len(t)
  PROVE  (s \o SubSeq(t, 1, k)) \o SubSeq(t, k + 1, Len(t)) = s \o t
  <1> DEFINE a == SubSeq(t, 1, k)
             b == SubSeq(t, k + 1, Len(t))
  <1>1. /\ a \in Seq(S) /\ Len(a) = k /\ \A i \in 1 .. k : a[i] = t[i]
        /\ b \in Seq(S) /\ Len(b) = Len(t) - k /\ \A i \in 1 .. Len(t) - k : b[i] = t[k + i]
    BY Sub
  <1> HIDE DEF a, b
  <1>2. k \in Nat /\ Len(t) \in Nat
    OBVIOUS
  <1>3. Len(t) = Len(a) + Len(b)
    BY <1>1, <1>2
  <1>4. ASSUME NEW c \in Seq(S), NEW d \in Seq(S), c = a, d = b
        PROVE  (s \o c) \o d = s \o t
    <2>1. /\ Len(c) + Len(d) = Len(t)
          /\ \A i \in 1 .. Len(c) : c[i] = t[i]
          /\ \A i \in 1 .. Len(d) : d[i] = t[Len(c) + i]
      BY <1>1, <1>3, <1>4
    <2> QED BY <2>1, Regroup, Zenon
  <1>5. (s \o a) \o b = s \o t
    BY <1>1, <1>4
  <1> QED BY <1>5 DEF a, b

LEMMA JoinAssoc ==
  ASSUME NEW S, NEW s \in Seq(S), NEW t \in Seq(S), NEW b \in Seq(S)
  PROVE  s \o (t \o b) = (s \o t) \o b
  <1> DEFINE tb == t \o b
  <1>1. /\ tb \in Seq(S) /\ Len(t) + Len(b) = Len(tb)
        /\ \A i \in 1 .. Len(t) : t[i] = tb[i]
        /\ \A i \in 1 .. Len(b) : b[i] = tb[Len(t) + i]
    OBVIOUS
  <1> HIDE DEF tb
  <1>2. (s \o t) \o b = s \o tb
    BY <1>1, Regroup, Zenon
  <1> QED BY <1>2 DEF tb

\* A block put at the end of a sequence.
LEMMA JoinBlock ==
  ASSUME NEW q \in Seq(Item), NEW e \in Item
  PROVE  /\ q \o Block(e) \in Seq(Item) /\ Len(q \o Block(e)) = Len(q) + 3
         /\ \A i \in 1 .. Len(q) : (q \o Block(e))[i] = q[i]
         /\ (q \o Block(e))[Len(q) + 1] = e
         /\ (q \o Block(e))[Len(q) + 2] = NL
         /\ (q \o Block(e))[Len(q) + 3] = NL
  <1>1. ASSUME NEW b \in Seq(Item), Len(b) = 3
        PROVE  /\ q \o b \in Seq(Item) /\ Len(q \o b) = Len(q) + 3
               /\ \A i \in 1 .. Len(q) : (q \o b)[i] = q[i]
               /\ (q \o b)[Len(q) + 1] = b[1]
               /\ (q \o b)[Len(q) + 2] = b[2]
               /\ (q \o b)[Len(q) + 3] = b[3]
    <2>1. /\ q \o b \in Seq(Item) /\ Len(q \o b) = Len(q) + Len(b)
          /\ \A i \in 1 .. Len(q) : (q \o b)[i] = q[i]
          /\ \A i \in 1 .. Len(b) : (q \o b)[Len(q) + i] = b[i]
      BY Join
    <2>2. 1 \in 1 .. Len(b) /\ 2 \in 1 .. Len(b) /\ 3 \in 1 .. Len(b)
      BY <1>1
    <2>3. /\ (q \o b)[Len(q) + 1] = b[1]
          /\ (q \o b)[Len(q) + 2] = b[2]
          /\ (q \o b)[Len(q) + 3] = b[3]
      BY <2>1, <2>2, Zenon
    <2>4. Len(q) + Len(b) = Len(q) + 3
      BY <1>1
    <2> QED BY <2>1, <2>3, <2>4, Zenon
  <1> DEFINE c == Block(e)
  <1>2. c \in Seq(Item) /\ Len(c) = 3 /\ c[1] = e /\ c[2] = NL /\ c[3] = NL
    BY DEF Block, Item
  <1> HIDE DEF c
  <1>3. /\ q \o c \in Seq(Item) /\ Len(q \o c) = Len(q) + 3
        /\ \A i \in 1 .. Len(q) : (q \o c)[i] = q[i]
        /\ (q \o c)[Len(q) + 1] = c[1]
        /\ (q \o c)[Len(q) + 2] = c[2]
        /\ (q \o c)[Len(q) + 3] = c[3]
    BY <1>1, <1>2
  <1> QED BY <1>2, <1>3 DEF c

\* A block cut off the front.
LEMMA DropBlock ==
  ASSUME NEW S, NEW s \in Seq(S), NEW t \in Seq(S), Len(s) >= 3
  PROVE  /\ SubSeq(s, 4, Len(s)) \o t \in Seq(S)
         /\ Len(SubSeq(s, 4, Len(s)) \o t) = Len(s \o t) - 3
         /\ \A i \in 1 .. Len(s \o t) - 3 :
              (SubSeq(s, 4, Len(s)) \o t)[i] = (s \o t)[i + 3]
  <1> DEFINE c == SubSeq(s, 4, Len(s))
  <1>1. 4 \in 1 .. Len(s) + 1 /\ Len(s) \in 0 .. Len(s) /\ 4 <= Len(s) + 1
    OBVIOUS
  <1>2. /\ c \in Seq(S) /\ Len(c) = Len(s) - 4 + 1
        /\ \A i \in 1 .. Len(s) - 4 + 1 : c[i] = s[4 + i - 1]
    BY <1>1, Sub
  <1> HIDE DEF c
  <1>3. Len(c) = Len(s) - 3 /\ \A i \in 1 .. Len(s) - 3 : c[i] = s[i + 3]
    BY <1>2
  <1>4. ASSUME NEW d \in Seq(S), d = c
        PROVE  /\ d \o t \in Seq(S) /\ Len(d \o t) = Len(s \o t) - 3
               /\ \A i \in 1 .. Len(s \o t) - 3 : (d \o t)[i] = (s \o t)[i + 3]
    <2>1. Len(d) = Len(s) - 3 /\ \A i \in 1 .. Len(s) - 3 : d[i] = s[i + 3]
      BY <1>3, <1>4
    <2>2. d \o t \in Seq(S) /\ Len(d \o t) = Len(s) - 3 + Len(t) /\ Len(s \o t) = Len(s) + Len(t)
      BY <2>1
    <2>3. ASSUME NEW i \in 1 .. Len(s) + Len(t) - 3 PROVE (d \o t)[i] = (s \o t)[i + 3]
      <3>0. i <= Len(s) - 3 \/ i > Len(s) - 3
        OBVIOUS
      <3>1. CASE i <= Len(s) - 3
        <4>1. i \in 1 .. Len(d) /\ i \in 1 .. Len(s) - 3 /\ i + 3 \in 1 .. Len(s)
          BY <2>1, <3>1
        <4>2. (d \o t)[i] = d[i] /\ (s \o t)[i + 3] = s[i + 3]
          BY <4>1, Join
        <4> QED BY <2>1, <4>1, <4>2
      <3>2. CASE i > Len(s) - 3
        <4>1. PICK j \in 1 .. Len(t) : i = Len(d) + j
          <5>1. i - Len(d) \in 1 .. Len(t) /\ i = Len(d) + (i - Len(d))
            BY <2>1, <3>2
          <5> QED BY <5>1
        <4>2. i + 3 = Len(s) + j
          BY <2>1, <4>1
        <4>3. (d \o t)[Len(d) + j] = t[j] /\ (s \o t)[Len(s) + j] = t[j]
          BY Join
        <4>4. (d \o t)[i] = t[j]
          BY <4>1, <4>3, Zenon
        <4>5. (s \o t)[i + 3] = t[j]
          BY <4>2, <4>3, Zenon
        <4> QED BY <4>4, <4>5, Zenon
      <3> QED BY <3>0, <3>1, <3>2, Zenon
    <2> QED BY <2>2, <2>3
  <1> QED BY <1>2, <1>4 DEF c

LEMMA Thirds ==
  ASSUME NEW k \in Nat \ {0}, NEW d \in Nat, k <= d
  PROVE  /\ 3 * k \in 1 .. 3 * d /\ 3 * k - 1 \in 1 .. 3 * d /\ 3 * k - 2 \in 1 .. 3 * d
  OBVIOUS

LEMMA AlignedFirst ==
  ASSUME NEW S, NEW q \in Seq(S), NEW n \in Nat, NEW w, Aligned(q, n, w)
  PROVE  /\ 1 <= Len(q) => n + 1 <= Len(w) /\ q[1] = w[n + 1]
         /\ 2 <= Len(q) => q[2] = NL
         /\ 3 <= Len(q) => q[3] = NL
  <1>1. ASSUME NEW k \in Nat \ {0}, k = 1
        PROVE  /\ 1 <= Len(q) => n + k <= Len(w) /\ q[1] = w[n + k]
               /\ 2 <= Len(q) => q[2] = NL
               /\ 3 <= Len(q) => q[3] = NL
    <2>1. 3 * k - 2 = 1 /\ 3 * k - 1 = 2 /\ 3 * k = 3
      BY <1>1
    <2>2. /\ 3 * k - 2 <= Len(q) => n + k <= Len(w) /\ q[3 * k - 2] = w[n + k]
          /\ 3 * k - 1 <= Len(q) => q[3 * k - 1] = NL
          /\ 3 * k <= Len(q) => q[3 * k] = NL
      BY DEF Aligned
    <2> QED BY <2>1, <2>2
  <1> QED BY <1>1

LEMMA AlignedFront ==
  ASSUME NEW S, NEW q \in Seq(S), NEW r \in Seq(S), NEW n \in Nat, NEW w,
         Aligned(q, n, w), Len(r) <= Len(q), \A i \in 1 .. Len(r) : r[i] = q[i]
  PROVE  Aligned(r, n, w)
  BY DEF Aligned

LEMMA AlignedRest ==
  ASSUME NEW S, NEW q \in Seq(S), NEW r \in Seq(S), NEW n \in Nat, NEW T, NEW w \in Seq(T),
         Aligned(q, n, w), Len(r) = Len(q) - 3, \A i \in 1 .. Len(r) : r[i] = q[i + 3]
  PROVE  Aligned(r, n + 1, w)
  <1> SUFFICES ASSUME NEW k \in Nat \ {0}
               PROVE  /\ 3 * k - 2 <= Len(r) => (n + 1) + k <= Len(w) /\ r[3 * k - 2] = w[(n + 1) + k]
                      /\ 3 * k - 1 <= Len(r) => r[3 * k - 1] = NL
                      /\ 3 * k <= Len(r) => r[3 * k] = NL
    BY DEF Aligned
  <1>1. /\ k + 1 \in Nat \ {0} /\ n + (k + 1) = (n + 1) + k
        /\ 3 * (k + 1) = 3 * k + 3 /\ 3 * (k + 1) - 1 = (3 * k - 1) + 3
        /\ 3 * (k + 1) - 2 = (3 * k - 2) + 3
    OBVIOUS
  <1>2. /\ (3 * k - 2) + 3 <= Len(q) => (n + 1) + k <= Len(w) /\ q[(3 * k - 2) + 3] = w[(n + 1) + k]
        /\ (3 * k - 1) + 3 <= Len(q) => q[(3 * k - 1) + 3] = NL
        /\ 3 * k + 3 <= Len(q) => q[3 * k + 3] = NL
    BY <1>1 DEF Aligned
  <1> QED BY <1>2

LEMMA AlignedBlock ==
  ASSUME NEW S, NEW q \in Seq(S), NEW n \in Nat, NEW T, NEW w \in Seq(T), NEW e \in T,
         NEW v \in Seq(S), Len(v) = Len(q) + 3,
         \A i \in 1 .. Len(q) : v[i] = q[i],
         v[Len(q) + 1] = e, v[Len(q) + 2] = NL, v[Len(q) + 3] = NL,
         Aligned(q, n, w), n <= Len(w), Len(q) = 3 * (Len(w) - n)
  PROVE  Aligned(v, n, Append(w, e))
  <1> DEFINE x == Append(w, e)
  <1>1. Len(x) = Len(w) + 1 /\ x[Len(w) + 1] = e /\ \A i \in 1 .. Len(w) : x[i] = w[i]
    OBVIOUS
  <1> HIDE DEF x
  <1> SUFFICES ASSUME NEW k \in Nat \ {0}
               PROVE  /\ 3 * k - 2 <= Len(v) => n + k <= Len(x) /\ v[3 * k - 2] = x[n + k]
                      /\ 3 * k - 1 <= Len(v) => v[3 * k - 1] = NL
                      /\ 3 * k <= Len(v) => v[3 * k] = NL
    BY DEF Aligned, x
  <1>2. /\ 3 * k - 2 <= Len(q) => n + k <= Len(w) /\ q[3 * k - 2] = w[n + k]
        /\ 3 * k - 1 <= Len(q) => q[3 * k - 1] = NL
        /\ 3 * k <= Len(q) => q[3 * k] = NL
    BY DEF Aligned
  <1> DEFINE d == Len(w) - n
  <1>3. d \in Nat /\ Len(q) = 3 * d /\ Len(v) = 3 * d + 3 /\ Len(w) = n + d
    OBVIOUS
  <1> HIDE DEF d
  <1>4. CASE k <= d
    <2>1. /\ 3 * k \in 1 .. Len(q) /\ 3 * k - 1 \in 1 .. Len(q) /\ 3 * k - 2 \in 1 .. Len(q)
      BY <1>3, <1>4, Thirds
    <2>2. n + k \in 1 .. Len(w)
      BY <1>3, <1>4
    <2>3. /\ q[3 * k - 2] = w[n + k] /\ q[3 * k - 1] = NL /\ q[3 * k] = NL
      BY <1>2, <2>1
    <2>4. /\ v[3 * k - 2] = q[3 * k - 2] /\ v[3 * k - 1] = q[3 * k - 1] /\ v[3 * k] = q[3 * k]
      BY <2>1
    <2>5. n + k <= Len(x) /\ x[n + k] = w[n + k]
      BY <1>1, <2>2
    <2> QED BY <2>3, <2>4, <2>5
  <1>5. CASE k = d + 1
    <2>1. /\ 3 * k - 2 = Len(q) + 1 /\ 3 * k - 1 = Len(q) + 2 /\ 3 * k = Len(q) + 3
          /\ n + k = Len(w) + 1
      BY <1>3, <1>5
    <2> QED BY <1>1, <2>1
  <1>6. CASE k > d + 1
    <2>1. 3 * k - 2 > Len(v)
      BY <1>3, <1>6
    <2> QED BY <2>1
  <1> QED BY <1>3, <1>4, <1>5, <1>6

-----------------------------------------------------------------------------
LEMMA Types ==
  ASSUME TypeOK
  PROVE  /\ buffer \in Seq(Item) /\ wire \in Seq(Item) /\ block \in Seq(Item)
         /\ written \in Seq(Events) /\ yielded \in Seq(Events)
         /\ Taken \in Nat /\ Len(written) \in Nat /\ Len(yielded) \in Nat /\ Len(buffer) \in Nat
         /\ Body \in Seq(Item) /\ Len(Body) = Len(buffer) + Len(wire)
         /\ \A i \in 1 .. Len(buffer) : Body[i] = buffer[i]
  BY DEF TypeOK, Item, Body, Taken

\* indexOf finds the end of the first block behind its line.
LEMMA FirstEnd ==
  ASSUME TypeOK, BodyInv, Ends # {}
  PROVE  /\ (CHOOSE i \in Ends : \A j \in Ends : i <= j) = 2
         /\ Len(buffer) >= 3
         /\ Taken + 1 <= Len(written) /\ buffer[1] = written[Taken + 1]
  <1>1. PICK e \in 1 .. Len(buffer) - 1 : buffer[e] = NL /\ buffer[e + 1] = NL
    BY DEF Ends
  <1>2. Len(buffer) >= 2 /\ Len(Body) >= 2 /\ Body[1] = buffer[1] /\ Body[2] = buffer[2]
    BY <1>1, Types DEF TypeOK
  <1>3. Len(Body) \in Nat /\ Aligned(Body, Taken, written)
    BY Types DEF BodyInv
  <1>4. /\ Taken + 1 <= Len(written) /\ Body[1] = written[Taken + 1] /\ Body[2] = NL
        /\ 3 <= Len(Body) => Body[3] = NL
    BY <1>2, <1>3, AlignedFirst, Types
  <1>5. buffer[1] # NL
    <2>1. Taken + 1 \in 1 .. Len(written)
      BY <1>4, Types
    <2>2. written[Taken + 1] \in Events
      BY <2>1, Types
    <2> QED BY <1>2, <1>4, <2>2, ConstAssumption DEF Events, NL
  <1>6. Len(buffer) >= 3 /\ buffer[2] = NL /\ buffer[3] = NL
    <2>1. Len(buffer) >= 3
      BY <1>1, <1>2, <1>5, Types
    <2>2. 3 <= Len(Body) /\ Body[3] = buffer[3]
      BY <2>1, Types DEF TypeOK
    <2> QED BY <1>2, <1>4, <2>1, <2>2
  <1>7. 2 \in Ends /\ \A j \in Ends : 2 <= j
    BY <1>5, <1>6, Types DEF Ends
  <1>8. \A j \in Ends : j \in Int
    BY Types DEF Ends
  <1> DEFINE idx == CHOOSE i \in Ends : \A j \in Ends : i <= j
  <1>9. idx \in Ends /\ \A j \in Ends : idx <= j
    BY <1>7
  <1> HIDE DEF idx
  <1>10. idx = 2
    BY <1>7, <1>8, <1>9
  <1> QED BY <1>2, <1>4, <1>6, <1>10 DEF idx

LEMMA TypeStep == TypeOK /\ BodyInv /\ PlaceInv /\ [Next]_vars => TypeOK'
  <1> SUFFICES ASSUME TypeOK, BodyInv, PlaceInv, [Next]_vars PROVE TypeOK'
    OBVIOUS
  <1>1. CASE HandlerFails \/ HandlerReturns \/ StreamEnds \/ MarshalFails \/ ProducerEnds
    BY <1>1 DEF HandlerFails, HandlerReturns, StreamEnds, MarshalFails, SSEReturns, ProducerEnds, TypeOK
  <1>2. CASE Receive
    BY <1>2, ConstAssumption DEF Receive, TypeOK
  <1>3. CASE Write
    <2>1. CASE ~broken /\ Len(wire) + Len(Block(produced)) <= Cap /\ wire' = wire \o Block(produced)
               /\ written' = Append(written, produced)
      <3>1. produced \in Events
        BY <1>3, ConstAssumption DEF Write, TypeOK, PlaceInv, Events
      <3>2. Block(produced) \in Seq(Item) /\ Len(Block(produced)) = 3
        BY <3>1 DEF Block, Item
      <3>3. wire' \in Seq(Item) /\ Len(wire') <= Cap
        <4>1. produced \in Item /\ NL \in Item
          BY <3>1 DEF Item
        <4>2. wire' \in Seq(Item) /\ Len(wire') = Len(wire) + 3
          BY <2>1, <4>1, JoinBlock, Types
        <4> QED BY <2>1, <3>2, <4>2, Types
      <3> QED BY <1>3, <2>1, <3>1, <3>3 DEF Write, TypeOK, Item
    <2>2. CASE UNCHANGED <<wire, written>>
      BY <1>3, <2>2 DEF Write, TypeOK
    <2> QED BY <1>3, <2>1, <2>2 DEF Write
  <1>4. CASE Fetched \/ ReadDone \/ ReadFails \/ BlockDone \/ ParseDone
    BY <1>4 DEF Fetched, ReadDone, ReadFails, BlockDone, ParsesOn, ParseDone, TypeOK
  <1>5. CASE Read
    <2>1. PICK k \in 1 .. Len(wire) : /\ buffer' = buffer \o SubSeq(wire, 1, k)
                                     /\ wire' = SubSeq(wire, k + 1, Len(wire))
      BY <1>5 DEF Read, Extended
    <2>2. SubSeq(wire, 1, k) \in Seq(Item) /\ wire' \in Seq(Item) /\ Len(wire') <= Len(wire)
      <3>1. k + 1 \in 1 .. Len(wire) + 1 /\ Len(wire) \in 0 .. Len(wire) /\ k + 1 <= Len(wire) + 1
            /\ 1 \in 1 .. Len(wire) + 1 /\ k \in 0 .. Len(wire) /\ 1 <= k + 1
        BY Types
      <3>2. SubSeq(wire, 1, k) \in Seq(Item)
        BY <3>1, Types, Sub
      <3>3. wire' \in Seq(Item) /\ Len(wire') = Len(wire) - (k + 1) + 1
        BY <2>1, <3>1, Types, Sub
      <3> QED BY <3>2, <3>3, Types
    <2>3. buffer' \in Seq(Item) /\ Len(wire') <= Cap
      BY <2>1, <2>2, Types, ConstAssumption DEF TypeOK
    <2> QED BY <1>5, <2>2, <2>3 DEF Read, TypeOK, Item
  <1>6. CASE Parse
    <2>1. block' = SubSeq(buffer, 1, 1) /\ buffer' = SubSeq(buffer, 4, Len(buffer)) /\ Len(buffer) >= 3
      <3> DEFINE idx == CHOOSE i \in Ends : \A j \in Ends : i <= j
      <3>1. block' = SubSeq(buffer, 1, idx - 1) /\ buffer' = SubSeq(buffer, idx + 2, Len(buffer))
        BY <1>6 DEF Parse
      <3>2. idx = 2 /\ Len(buffer) >= 3
        BY <1>6, FirstEnd DEF Parse
      <3> HIDE DEF idx
      <3> QED BY <3>1, <3>2
    <2>2. block' \in Seq(Item) /\ buffer' \in Seq(Item)
      BY <2>1, Types, Sub
    <2> QED BY <1>6, <2>2 DEF Parse, TypeOK, Item
  <1>7. CASE YieldLine
    <2>1. Head(block) \in Item /\ Tail(block) \in Seq(Item)
      BY <1>7, Types DEF YieldLine
    <2>2. yielded' \in Seq(Events) /\ client' \in {client, "yield", "left"}
      <3>1. CASE Head(block) = NL
        BY <1>7, <3>1, Types DEF YieldLine
      <3>2. CASE Head(block) # NL
        <4>1. Head(block) \in Events
          BY <2>1, <3>2 DEF Item
        <4>2. yielded' = Append(yielded, Head(block)) /\ client' \in {client, "yield", "left"}
          BY <1>7, <3>2 DEF YieldLine
        <4> QED BY <4>1, <4>2, Types
      <3> QED BY <3>1, <3>2
    <2> QED BY <1>7, <2>1, <2>2 DEF YieldLine, TypeOK, Item
  <1>8. CASE Break
    BY <1>8, ConstAssumption DEF Break, TypeOK
  <1>9. CASE UNCHANGED vars
    BY <1>9 DEF vars, TypeOK
  <1> QED BY <1>1, <1>2, <1>3, <1>4, <1>5, <1>6, <1>7, <1>8, <1>9 DEF Next, Server, Client

\* The steps that move no symbol and yield nothing.
Quiet ==
  \/ HandlerFails \/ HandlerReturns \/ Receive \/ StreamEnds \/ MarshalFails \/ ProducerEnds
  \/ Fetched \/ ReadDone \/ ReadFails \/ BlockDone \/ ParseDone \/ UNCHANGED vars

LEMMA QuietStep ==
  Quiet => /\ UNCHANGED <<wire, broken, written, buffer, block, yielded>>
           /\ client' = client \/ (client # "yield") \/ block = <<>>
  BY DEF Quiet, HandlerFails, HandlerReturns, Receive, StreamEnds, MarshalFails, SSEReturns,
         ProducerEnds, Fetched, ReadDone, ReadFails, BlockDone, ParseDone, vars

LEMMA BodyStep == TypeOK /\ TypeOK' /\ BodyInv /\ YieldInv /\ PlaceInv /\ [Next]_vars => BodyInv'
  <1> SUFFICES ASSUME TypeOK, TypeOK', BodyInv, YieldInv, PlaceInv, [Next]_vars PROVE BodyInv'
    OBVIOUS
  <1>1. CASE Quiet
    BY <1>1, QuietStep DEF BodyInv, Body, Taken
  <1>2. CASE Write
    <2>1. CASE ~broken /\ wire' = wire \o Block(produced) /\ written' = Append(written, produced)
      <3>1. produced \in Events /\ UNCHANGED <<broken, buffer, block, yielded>>
        BY <1>2, ConstAssumption DEF Write, TypeOK, PlaceInv, Events
      <3>2. produced \in Item /\ NL \in Item /\ Block(produced) \in Seq(Item)
        BY <3>1 DEF Item, Block
      <3>3. buffer \o (wire \o Block(produced)) = (buffer \o wire) \o Block(produced)
        BY <3>2, Types, JoinAssoc
      <3>4. Body' = Body \o Block(produced)
        BY <2>1, <3>1, <3>3 DEF Body
      <3>6. /\ Body' \in Seq(Item) /\ Len(Body') = Len(Body) + 3
            /\ \A i \in 1 .. Len(Body) : Body'[i] = Body[i]
            /\ Body'[Len(Body) + 1] = produced /\ Body'[Len(Body) + 2] = NL /\ Body'[Len(Body) + 3] = NL
        <4>1. /\ Body \o Block(produced) \in Seq(Item)
              /\ Len(Body \o Block(produced)) = Len(Body) + 3
              /\ \A i \in 1 .. Len(Body) : (Body \o Block(produced))[i] = Body[i]
              /\ (Body \o Block(produced))[Len(Body) + 1] = produced
              /\ (Body \o Block(produced))[Len(Body) + 2] = NL
              /\ (Body \o Block(produced))[Len(Body) + 3] = NL
          <5>1. Body \in Seq(Item)
            BY Types
          <5>2. PICK q \in Seq(Item) : q = Body
            BY <5>1
          <5>3. PICK e \in Item : e = produced
            BY <3>2
          <5>4. /\ q \o Block(e) \in Seq(Item)
                /\ Len(q \o Block(e)) = Len(q) + 3
                /\ \A i \in 1 .. Len(q) : (q \o Block(e))[i] = q[i]
                /\ (q \o Block(e))[Len(q) + 1] = e
                /\ (q \o Block(e))[Len(q) + 2] = NL
                /\ (q \o Block(e))[Len(q) + 3] = NL
            BY <3>2, JoinBlock
          <5> QED BY <5>2, <5>3, <5>4
        <4> QED BY <3>4, <4>1, Zenon
      <3>7. Len(Body) = 3 * (Len(written) - Taken) /\ Aligned(Body, Taken, written) /\ Taken <= Len(written)
        BY <2>1 DEF BodyInv, YieldInv
      <3>8. Aligned(Body', Taken, Append(written, produced))
        BY <3>1, <3>6, <3>7, AlignedBlock, Types
      <3>9. Taken' = Taken /\ Len(written') = Len(written) + 1
        BY <2>1, <3>1, Types DEF Taken
      <3>10. Len(Body') = 3 * (Len(written') - Taken')
        BY <3>6, <3>7, <3>9, Types
      <3> QED BY <2>1, <3>8, <3>9, <3>10 DEF BodyInv
    <2>2. CASE UNCHANGED <<wire, written>>
      BY <1>2, <2>2 DEF Write, BodyInv, Body, Taken
    <2> QED BY <1>2, <2>1, <2>2 DEF Write
  <1>3. CASE Read
    <2>1. PICK k \in 1 .. Len(wire) : /\ buffer' = buffer \o SubSeq(wire, 1, k)
                                     /\ wire' = SubSeq(wire, k + 1, Len(wire))
      BY <1>3 DEF Read, Extended
    <2>2. Body' = Body
      BY <2>1, MoveChunk, Types DEF Body
    <2> QED BY <1>3, <2>2 DEF Read, BodyInv, Taken
  <1>4. CASE Parse
    <2>1. block' = SubSeq(buffer, 1, 1) /\ buffer' = SubSeq(buffer, 4, Len(buffer)) /\ Len(buffer) >= 3
      <3> DEFINE idx == CHOOSE i \in Ends : \A j \in Ends : i <= j
      <3>1. block' = SubSeq(buffer, 1, idx - 1) /\ buffer' = SubSeq(buffer, idx + 2, Len(buffer))
        BY <1>4 DEF Parse
      <3>2. idx = 2 /\ Len(buffer) >= 3
        BY <1>4, FirstEnd DEF Parse
      <3> HIDE DEF idx
      <3> QED BY <3>1, <3>2
    <2>2. UNCHANGED <<wire, written, broken, yielded>> /\ block = <<>>
      BY <1>4 DEF Parse, YieldInv
    <2>3. Len(block') = 1 /\ Taken' = Taken + 1
      BY <2>1, <2>2, Types DEF Taken
    <2>5. /\ Body' \in Seq(Item) /\ Len(Body') = Len(Body) - 3
          /\ \A i \in 1 .. Len(Body') : Body'[i] = Body[i + 3]
      BY <2>1, <2>2, DropBlock, Types DEF Body
    <2>6. Aligned(Body', Taken + 1, written)
      BY <2>5, AlignedRest, Types DEF BodyInv
    <2>7. ~broken => Len(Body') = 3 * (Len(written) - (Taken + 1))
      BY <2>5, Types DEF BodyInv
    <2> QED BY <2>2, <2>3, <2>6, <2>7 DEF BodyInv
  <1>5. CASE YieldLine
    <2>1. UNCHANGED <<buffer, wire, written, broken>> /\ Head(block) # NL
      <3>1. block[1] = written[Len(yielded) + 1] /\ Len(yielded) + 1 \in 1 .. Len(written)
        BY <1>5, Types DEF YieldLine, YieldInv, Taken
      <3>2. written[Len(yielded) + 1] \in Events
        BY <3>1, Types
      <3> QED BY <1>5, <3>1, <3>2, ConstAssumption, Types DEF YieldLine, Events, NL
    <2>2. yielded' = Append(yielded, Head(block)) /\ block' = Tail(block) /\ block # <<>>
      BY <1>5, <2>1 DEF YieldLine
    <2>3. Taken' = Taken
      BY <2>2, Types DEF Taken
    <2> QED BY <2>1, <2>3 DEF BodyInv, Body
  <1>6. CASE Break
    <2>1. broken' /\ wire' = <<>> /\ UNCHANGED <<buffer, written, block, yielded>>
      BY <1>6 DEF Break
    <2>2. Body' = buffer
      BY <2>1, Types DEF Body
    <2>3. Aligned(buffer, Taken, written)
      <3>1. Len(buffer) <= Len(Body) /\ \A i \in 1 .. Len(buffer) : buffer[i] = Body[i]
        BY Types DEF TypeOK
      <3> QED BY <3>1, AlignedFront, Types DEF BodyInv
    <2> QED BY <2>1, <2>2, <2>3 DEF BodyInv, Taken
  <1> QED BY <1>1, <1>2, <1>3, <1>4, <1>5, <1>6 DEF Next, Server, Client, Quiet

LEMMA YieldStep == TypeOK /\ TypeOK' /\ BodyInv /\ YieldInv /\ PlaceInv /\ [Next]_vars => YieldInv'
  <1> SUFFICES ASSUME TypeOK, TypeOK', BodyInv, YieldInv, PlaceInv, [Next]_vars PROVE YieldInv'
    OBVIOUS
  <1>1. CASE Quiet
    BY <1>1, QuietStep DEF YieldInv, Taken
  <1>2. CASE Read \/ Break
    BY <1>2 DEF Read, Break, YieldInv, Taken
  <1>3. CASE Write
    <2>1. UNCHANGED <<block, yielded, client>>
      BY <1>3 DEF Write
    <2>2. /\ Len(written) <= Len(written')
          /\ \A i \in 1 .. Len(written) : written'[i] = written[i]
      <3>1. CASE written' = Append(written, produced)
        BY <3>1, Types
      <3>2. CASE written' = written
        BY <3>2, Types
      <3> QED BY <1>3, <3>1, <3>2 DEF Write
    <2>3. Len(written') \in Nat
      BY DEF TypeOK
    <2>4. \A i \in 1 .. Len(yielded) : i \in 1 .. Len(written)
      BY Types DEF YieldInv, Taken
    <2>5. block # <<>> => Len(yielded) + 1 \in 1 .. Len(written)
      BY Types DEF YieldInv, Taken
    <2> QED BY <2>1, <2>2, <2>3, <2>4, <2>5, Types DEF YieldInv, Taken
  <1>4. CASE Parse
    <2>1. block' = SubSeq(buffer, 1, 1) /\ client' = "yield"
      <3> DEFINE idx == CHOOSE i \in Ends : \A j \in Ends : i <= j
      <3>1. block' = SubSeq(buffer, 1, idx - 1)
        BY <1>4 DEF Parse
      <3>2. idx = 2
        BY <1>4, FirstEnd DEF Parse
      <3> HIDE DEF idx
      <3>3. idx - 1 = 1
        BY <3>2
      <3> QED BY <1>4, <3>1, <3>3 DEF Parse
    <2>2. UNCHANGED <<written, yielded>> /\ Taken = Len(yielded)
      BY <1>4, Types DEF Parse, YieldInv, Taken
    <2>3. Taken + 1 <= Len(written) /\ buffer[1] = written[Taken + 1] /\ Len(buffer) >= 3
      BY <1>4, FirstEnd DEF Parse
    <2>4. Len(block') = 1 /\ block'[1] = buffer[1]
      BY <2>1, <2>3, Types
    <2> QED BY <2>1, <2>2, <2>3, <2>4, Types DEF YieldInv, Taken
  <1>5. CASE YieldLine
    <2>1. block[1] = written[Len(yielded) + 1] /\ Len(yielded) + 1 \in 1 .. Len(written) /\ Len(block) = 1
      <3>1. block # <<>> /\ block[1] = written[Len(yielded) + 1] /\ Len(block) <= 1
        BY <1>5 DEF YieldLine, YieldInv
      <3>2. Len(block) = 1
        <4>1. Len(block) \in Nat /\ Len(block) >= 1
          BY <3>1, Types, Unjoin
        <4>2. Len(block) <= 1
          BY DEF YieldInv
        <4> QED BY <4>1, <4>2
      <3> QED BY <3>1, <3>2, Types DEF YieldInv, Taken
    <2>2. written[Len(yielded) + 1] \in Events /\ Head(block) = block[1]
      BY <2>1, Types
    <2>3. Head(block) # NL
      BY <2>1, <2>2, ConstAssumption DEF Events, NL
    <2>4. yielded' = Append(yielded, Head(block)) /\ block' = Tail(block) /\ written' = written
      BY <1>5, <2>3 DEF YieldLine
    <2>5. block' = <<>> /\ Len(block') = 0
      <3>1. Tail(block) = <<>>
        BY <1>5, <2>1, Types, Unjoin DEF YieldLine
      <3> QED BY <2>4, <3>1
    <2>6. Len(yielded') = Len(yielded) + 1 /\ \A i \in 1 .. Len(yielded') : yielded'[i] = written[i]
      BY <2>1, <2>2, <2>4, Types DEF YieldInv
    <2>7. Len(block') <= 1 /\ Taken' <= Len(written')
      <3>1. Taken' = Len(yielded) + 1 /\ Len(written') = Len(written)
        <4>1. Len(yielded) \in Nat /\ Len(yielded') = Len(yielded) + 1 /\ Len(block') = 0
          BY <2>5, <2>6, Types
        <4>2. Taken' = (Len(yielded) + 1) + 0
          BY <4>1 DEF Taken
        <4> QED BY <2>4, <4>1, <4>2
      <3> QED BY <2>1, <2>5, <3>1
    <2>8. \A i \in 1 .. Len(yielded') : yielded'[i] = written'[i]
      BY <2>4, <2>6
    <2> QED BY <2>5, <2>7, <2>8 DEF YieldInv
  <1> QED BY <1>1, <1>2, <1>3, <1>4, <1>5 DEF Next, Server, Client, Quiet

LEMMA PlaceStep == TypeOK /\ TypeOK' /\ BodyInv /\ YieldInv /\ PlaceInv /\ [Next]_vars => PlaceInv'
  <1> SUFFICES ASSUME TypeOK, TypeOK', BodyInv, YieldInv, PlaceInv, [Next]_vars PROVE PlaceInv'
    OBVIOUS
  <1>1. CASE HandlerFails \/ HandlerReturns \/ Receive \/ StreamEnds \/ MarshalFails \/ ProducerEnds
    BY <1>1 DEF HandlerFails, HandlerReturns, Receive, StreamEnds, MarshalFails, SSEReturns,
                ProducerEnds, PlaceInv, TypeOK
  <1>2. CASE Write \/ Break \/ Fetched \/ ReadFails \/ Read \/ Parse \/ YieldLine \/ BlockDone
    BY <1>2 DEF Write, Break, Fetched, ReadFails, Read, Parse, YieldLine, BlockDone, ParsesOn, PlaceInv
  <1>3. CASE ReadDone
    <2>1. /\ client = "read" /\ ~broken /\ server = "returned" /\ wire = <<>> /\ client' = "done"
          /\ UNCHANGED <<server, written, yielded, produced, buffer>>
      BY <1>3 DEF ReadDone
    <2>2. Len(buffer) < 3 /\ Len(Body) = Len(buffer) /\ Len(Body) = 3 * (Len(written) - Taken)
      BY <2>1, Types DEF PlaceInv, BodyInv
    <2>3. Len(written) = Len(yielded)
      BY <2>1, <2>2, Types DEF YieldInv, Taken
    <2>4. yielded = written
      <3>1. \A i \in 1 .. Len(yielded) : yielded[i] = written[i]
        BY DEF YieldInv
      <3>2. yielded \in Seq(Events) /\ written \in Seq(Events)
        BY Types
      <3> QED BY <2>3, <3>1, <3>2
    <2> QED BY <2>1, <2>4 DEF PlaceInv
  <1>4. CASE ParseDone
    <2>1. Ends = {} /\ client' = "read" /\ UNCHANGED <<server, written, yielded, produced, buffer>>
      BY <1>4 DEF ParseDone
    <2>2. Len(buffer) < 3
      <3> SUFFICES ASSUME Len(buffer) >= 3 PROVE FALSE
        BY Types
      <3>1. 3 <= Len(Body) /\ Body[2] = buffer[2] /\ Body[3] = buffer[3]
        <4>1. 2 \in 1 .. Len(buffer) /\ 3 \in 1 .. Len(buffer) /\ Len(wire) \in Nat
          BY Types
        <4> QED BY <4>1, Types
      <3>2. buffer[2] = NL /\ buffer[3] = NL
        BY <3>1, AlignedFirst, Types DEF BodyInv
      <3>3. 2 \in Ends
        BY <3>2, Types DEF Ends
      <3> QED BY <2>1, <3>3
    <2> QED BY <2>1, <2>2 DEF PlaceInv
  <1>5. CASE UNCHANGED vars
    BY <1>5 DEF vars, PlaceInv
  <1> QED BY <1>1, <1>2, <1>3, <1>4, <1>5 DEF Next, Server, Client

-----------------------------------------------------------------------------
LEMMA InitStream == Init => StreamInv
  <1> SUFFICES ASSUME Init PROVE StreamInv
    OBVIOUS
  <1> DEFINE none == <<>>
  <1>1. none \in Seq(Item) /\ none \in Seq(Events) /\ Len(none) = 0 /\ Len(none \o none) = 0
    OBVIOUS
  <1>2. /\ buffer = none /\ wire = none /\ block = none /\ written = none /\ yielded = none
        /\ producer = "none" /\ produced = 0 /\ server = "handler" /\ client = "fetch"
        /\ ctx = FALSE /\ broken = FALSE
    BY DEF Init
  <1> HIDE DEF none
  <1>3. TypeOK
    <2>1. Cap \in Nat /\ MaxEvents \in Nat
      BY ConstAssumption
    <2>2. produced \in 0 .. MaxEvents /\ Len(wire) <= Cap
      BY <1>1, <1>2, <2>1
    <2>3. none \in Seq(Events \cup {NL})
      BY <1>1 DEF Item
    <2> QED BY <1>1, <1>2, <2>2, <2>3 DEF TypeOK
  <1>4. Len(Body) = 0 /\ Taken = 0
    BY <1>1, <1>2 DEF Body, Taken
  <1>5. BodyInv
    BY <1>1, <1>2, <1>4 DEF BodyInv, Aligned
  <1>6. YieldInv /\ PlaceInv
    BY <1>1, <1>2, <1>4 DEF YieldInv, PlaceInv, none
  <1> QED BY <1>3, <1>5, <1>6 DEF StreamInv

LEMMA NextStream == StreamInv /\ [Next]_vars => StreamInv'
  BY TypeStep, BodyStep, YieldStep, PlaceStep DEF StreamInv

LEMMA StreamCorrect == Spec => []StreamInv
  BY InitStream, NextStream, PTL DEF Spec

\* The variables of a stream keep their types, for any bounds and environment.
THEOREM TypeCorrect == Spec => []TypeOK
  <1>1. StreamInv => TypeOK
    BY DEF StreamInv
  <1> QED BY <1>1, StreamCorrect, PTL

\* streamSSE puts the stream together again: wherever its body was cut, and whether or not
\* the connection is lost, the loop is given the events the server wrote, in order, and a
\* loop that ends without an error was given all of them.
THEOREM ArrivesWhole == Spec => []Complete
  <1>1. ASSUME StreamInv PROVE Complete
    <2>1. Len(yielded) \in Nat /\ Len(yielded) <= Len(written)
      BY <1>1, Types DEF StreamInv, YieldInv, Taken
    <2>2. SubSeq(yielded, 1, Len(yielded)) = SubSeq(written, 1, Len(yielded))
      BY <1>1, <2>1, Types DEF StreamInv, YieldInv
    <2> QED BY <1>1, <2>1, <2>2 DEF StreamInv, PlaceInv, Complete, IsPrefix
  <1> QED BY <1>1, StreamCorrect, PTL

-----------------------------------------------------------------------------
\* Mailbox: a write is an arrival, a yielded line is taken, the wrapper's return ends it.
StreamEnded == IF client = "done" THEN {"client"} ELSE {}

LEMMA NextPromise ==
  ASSUME StreamInv, StreamInv', [Next]_vars
  PROVE  Promise!Next \/ UNCHANGED <<written, Len(yielded), server = "returned", StreamEnded>>
  <1> USE DEF StreamEnded
  <1>1. CASE HandlerFails \/ Receive \/ ProducerEnds \/ UNCHANGED vars
    BY <1>1 DEF HandlerFails, Receive, ProducerEnds, vars
  <1>2. ASSUME server' = "returned", UNCHANGED <<written, yielded, client>> PROVE Promise!Next
    BY <1>2 DEF Promise!Next, Promise!Finish
  <1>3. CASE HandlerReturns
    BY <1>2, <1>3 DEF HandlerReturns
  <1>4. CASE StreamEnds \/ MarshalFails
    BY <1>2, <1>4 DEF StreamEnds, MarshalFails, SSEReturns
  <1>5. CASE Write
    <2>1. server = "write" /\ server' = "select" /\ UNCHANGED <<yielded, client>>
      BY <1>5 DEF Write
    <2>2. CASE written' = written
      BY <2>1, <2>2
    <2>3. CASE written' = Append(written, produced)
      <3>1. produced \in Events
        BY <2>1, ConstAssumption DEF StreamInv, TypeOK, PlaceInv, Events
      <3>2. Promise!Arrive(produced)
        BY <2>1, <2>3 DEF Promise!Arrive
      <3> QED BY <3>1, <3>2 DEF Promise!Next
    <2> QED BY <1>5, <2>2, <2>3 DEF Write
  <1>6. CASE Fetched \/ Read \/ ReadFails \/ Parse \/ BlockDone \/ ParseDone \/ Break
    BY <1>6 DEF Fetched, Read, ReadFails, Parse, BlockDone, ParsesOn, ParseDone, Break
  <1>7. CASE ReadDone
    <2>1. /\ client' = "done" /\ client # "done" /\ server = "returned"
          /\ UNCHANGED <<server, written, yielded>>
      BY <1>7 DEF ReadDone
    <2>2. yielded = written
      BY <2>1 DEF StreamInv, PlaceInv
    <2>3. Promise!End("client")
      BY <2>1, <2>2 DEF Promise!End
    <2> QED BY <2>3 DEF Promise!Next
  <1>8. CASE YieldLine
    <2>1. client = "yield" /\ client' # "done" /\ UNCHANGED <<server, written>>
      BY <1>8 DEF YieldLine
    <2>2. CASE yielded' = yielded
      BY <2>1, <2>2
    <2>3. CASE yielded' = Append(yielded, Head(block))
      <3>1. Len(yielded) \in Nat /\ Len(yielded') = Len(yielded) + 1
        BY <2>3, Types DEF StreamInv
      <3>2. Len(yielded') <= Len(written')
        BY Types DEF StreamInv, TypeOK, YieldInv, Taken
      <3>3. Promise!Take
        BY <2>1, <3>1, <3>2 DEF Promise!Take, StreamInv, TypeOK
      <3> QED BY <3>3 DEF Promise!Next
    <2> QED BY <1>8, <2>2, <2>3 DEF YieldLine
  <1> QED BY <1>1, <1>3, <1>4, <1>5, <1>6, <1>7, <1>8 DEF Next, Server, Client

\* The stream is a mailbox with one iterator: each event is yielded at most once, and the
\* loop ends only when the server has returned and everything it wrote has been yielded.
THEOREM ImplementsMailbox == Spec => MailboxSpec
  <1>1. Init => Promise!Init
    BY DEF Init, Promise!Init
  <1>2. StreamInv /\ StreamInv' /\ [Next]_vars => [Promise!Next]_(Promise!mailbox)
    BY NextPromise DEF Promise!mailbox, StreamEnded
  <1> QED BY <1>1, <1>2, StreamCorrect, PTL DEF Spec, MailboxSpec, Promise!Spec
=============================================================================
