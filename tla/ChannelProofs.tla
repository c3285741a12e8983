--------------------------- MODULE ChannelProofs ---------------------------
(***************************************************************************)
(* Theorems about the order of what Chat shows, and its refinement of      *)
(* Channel.                                                                *)
(*                                                                         *)
(* What goes from one peer to the other is a flow of units: those in the   *)
(* receiver's buffer, then those on the wire, then the one that is sent    *)
(* next.  Whatever a step does, it befalls either flow in one of the few   *)
(* ways named below (Befalls), and each invariant is kept by each of them. *)
(***************************************************************************)
EXTENDS ChatProofs, FiniteSetTheorems, WellFoundedInduction

\* What is on its way to p.
Flow(p) == received[p] \o wire[Other(p)]

\* The unit that p sends next, now or when a next text is typed.
NextUnit(p) ==
    IF sending[p] = 0 THEN <<Len(frames[p]) + 1, 1>> ELSE <<sending[p], sent[p] + 1>>

\* The units of flow and, behind them, next.
Nth(flow, next, i) == IF i <= Len(flow) THEN flow[i] ELSE next

Earlier(u, v) == u[1] < v[1] \/ (u[1] = v[1] /\ u[2] < v[2])
Ordered(flow, next) ==
    \A i, j \in 1 .. Len(flow) + 1 : i < j => Earlier(Nth(flow, next, i), Nth(flow, next, j))
After(flow, next, m) == \A i \in 1 .. Len(flow) + 1 : m < Nth(flow, next, i)[1]

\* What is being sent is the latest frame, and not all of it is out.
SendingLatest(p) ==
    /\ sending[p] \in {0, Len(frames[p])}
    /\ sending[p] # 0 => sent[p] < FrameSize(p)

\* What is on its way comes in the order it was sent, and after what was shown.
FlowFits(p) ==
    \A i \in 1 .. Len(Flow(p)) : Flow(p)[i][2] <= FrameSizeOf(Other(p), Flow(p)[i][1])
ShownBefore(p) ==
    \A i \in 1 .. Len(shown[p]) : shown[p][i].frame # 0 =>
        /\ After(Flow(p), NextUnit(Other(p)), shown[p][i].frame)
        /\ \A j \in 1 .. i - 1 : shown[p][j].frame < shown[p][i].frame
InOrder(p) ==
    /\ SendingLatest(Other(p))
    /\ Ordered(Flow(p), NextUnit(Other(p)))
    /\ FlowFits(p) /\ ShownBefore(p)

OrderInv == \A p \in Peers : InOrder(p)

----------------------------------------------------------------------------
\* What may befall what is on its way to p.
Author(q) == <<frames[q], sending[q], sent[q]>>

Advances(q, n) ==
    /\ sending[q] # 0 /\ sent[q] + n <= FrameSize(q)
    /\ frames'[q] = frames[q]
    /\ sending'[q] = LeftToSend(q, n)
    /\ sent'[q] = IF sent[q] + n = FrameSize(q) THEN 0 ELSE sent[q] + n

Units(q, n) == [i \in 1 .. n |-> <<sending[q], sent[q] + i>>]

Stays(p) ==
    Author(Other(p))' = Author(Other(p)) /\ Flow(p)' = Flow(p) /\ shown'[p] = shown[p]
Loses(p) ==
    /\ Author(Other(p))' = Author(Other(p)) /\ shown'[p] = shown[p]
    /\ received'[p] = received[p] /\ wire'[Other(p)] = <<>>
Gets(p, n) ==
    Advances(Other(p), n) /\ Flow(p)' = Flow(p) \o Units(Other(p), n) /\ shown'[p] = shown[p]
Misses(p, n) ==
    Advances(Other(p), n) /\ Flow(p)' = Flow(p) /\ shown'[p] = shown[p]
Awaits(p) ==
    LET q == Other(p)
        new == Len(frames[q]) + 1
    IN  /\ Len(frames'[q]) = new /\ sending'[q] = new /\ sent'[q] = 0
        /\ \A m \in 1 .. Len(frames[q]) : frames'[q][m] = frames[q][m]
        /\ HeaderSize + frames'[q][new].size \in Nat \ {0}
        /\ Flow(p)' = Flow(p) /\ shown'[p] = shown[p]
Sees(p, units) ==
    /\ Author(Other(p))' = Author(Other(p))
    /\ Len(units) > 0 /\ Flow(p)' \in Seq(UnitOf(Other(p))) /\ Flow(p) = units \o Flow(p)'
    /\ shown'[p] = Append(shown[p], [frame |-> FrameOf(p, units), from |-> remote[p].pos])

Befalls(p) ==
    \/ Stays(p) \/ Loses(p) \/ Awaits(p)
    \/ \E n \in Nat \ {0} : Gets(p, n) \/ Misses(p, n)
    \/ \E units \in Seq(UnitOf(Other(p))) : Sees(p, units)

LEMMA ConcatFacts ==
    ASSUME NEW S, NEW s \in Seq(S), NEW t \in Seq(S)
    PROVE  /\ s \o t \in Seq(S) /\ Len(s \o t) \in Nat
           /\ Len(s) \in Nat /\ Len(t) \in Nat
           /\ Len(s \o t) = Len(s) + Len(t)
           /\ \A i \in 1 .. Len(s) : (s \o t)[i] = s[i]
           /\ \A i \in 1 .. Len(t) : (s \o t)[Len(s) + i] = t[i]
           /\ \A i \in 1 .. Len(s \o t) : (s \o t)[i] \in S
<1> DEFINE st == s \o t
<1>1. /\ st \in Seq(S) /\ Len(st) = Len(s) + Len(t)
      /\ \A i \in 1 .. Len(s) + Len(t) : st[i] = IF i <= Len(s) THEN s[i] ELSE t[i - Len(s)]
  BY ConcatProperties
<1>2. Len(s) \in Nat /\ Len(t) \in Nat
  BY LenProperties
<1>3. \A i \in 1 .. Len(st) : st[i] \in S
  BY <1>1, ElementOfSeq
<1> HIDE DEF st
<1>4. ASSUME NEW i \in 1 .. Len(s) PROVE st[i] = s[i]
  <2>1. i \in 1 .. Len(s) + Len(t) /\ i <= Len(s)
    BY <1>2
  <2> QED BY <1>1, <2>1
<1>5. ASSUME NEW i \in 1 .. Len(t) PROVE st[Len(s) + i] = t[i]
  <2>1. Len(s) + i \in 1 .. Len(s) + Len(t) /\ ~(Len(s) + i <= Len(s)) /\ (Len(s) + i) - Len(s) = i
    BY <1>2
  <2> QED BY <1>1, <2>1
<1> QED BY <1>1, <1>2, <1>3, <1>4, <1>5 DEF st

LEMMA FlowFacts ==
    ASSUME TypeInv, NEW p \in Peers
    PROVE  /\ Flow(p) \in Seq(UnitOf(Other(p))) /\ Len(Flow(p)) \in Nat
           /\ Len(received[p]) \in Nat /\ Len(wire[Other(p)]) \in Nat
           /\ Len(Flow(p)) = Len(received[p]) + Len(wire[Other(p)])
           /\ \A i \in 1 .. Len(received[p]) : Flow(p)[i] = received[p][i]
           /\ \A i \in 1 .. Len(Flow(p)) : Flow(p)[i] \in UnitOf(Other(p))
<1> DEFINE S == UnitOf(Other(p))
           r == received[p]
           w == wire[Other(p)]
<1>1. r \in Seq(S) /\ w \in Seq(S)
  BY OtherPeer DEF TypeInv, Streams
<1>2. Flow(p) = r \o w
  BY DEF Flow
<1> HIDE DEF S, r, w
<1>3. /\ r \o w \in Seq(S) /\ Len(r \o w) \in Nat /\ Len(r) \in Nat /\ Len(w) \in Nat
      /\ Len(r \o w) = Len(r) + Len(w)
      /\ \A i \in 1 .. Len(r) : (r \o w)[i] = r[i]
      /\ \A i \in 1 .. Len(r \o w) : (r \o w)[i] \in S
  BY <1>1, ConcatFacts
<1> QED BY <1>2, <1>3 DEF S, r, w

\* The kernel hands on to the handler what it takes from the wire.
LEMMA FlowRead ==
    ASSUME TypeInv, NEW p \in Peers, NEW n \in 1 .. Len(wire[Other(p)])
    PROVE  (received[p] \o SubSeq(wire[Other(p)], 1, n))
             \o SubSeq(wire[Other(p)], n + 1, Len(wire[Other(p)])) = Flow(p)
<1> DEFINE S == UnitOf(Other(p))
           r == received[p]
           w == wire[Other(p)]
<1>1. r \in Seq(S) /\ w \in Seq(S)
  BY OtherPeer DEF TypeInv, Streams
<1> HIDE DEF S, r, w
<1>2. Len(w) \in Nat /\ n \in 1 .. Len(w)
  BY <1>1, LenProperties DEF w
<1>3. \A i \in 1 .. Len(w) : w[i] \in S
  BY <1>1, ElementOfSeq
<1>4. SubSeq(w, 1, n) \in Seq(S)
  BY <1>2, <1>3, SubSeqProperties
<1>5. SubSeq(w, n + 1, Len(w)) \in Seq(S)
  BY <1>2, <1>3, SubSeqProperties
<1>6. SubSeq(w, 1, n) \o SubSeq(w, n + 1, Len(w)) = w
  <2>1. 1 \in 1 .. Len(w) + 1 /\ n \in 1 - 1 .. Len(w) /\ Len(w) \in n .. Len(w)
    BY <1>2
  <2>2. SubSeq(w, 1, n) \o SubSeq(w, n + 1, Len(w)) = SubSeq(w, 1, Len(w))
    BY <1>1, <2>1, ConcatAdjacentSubSeq
  <2> QED BY <1>1, <2>2, SubSeqFull
<1>7. (r \o SubSeq(w, 1, n)) \o SubSeq(w, n + 1, Len(w)) = r \o w
  <2>1. (r \o SubSeq(w, 1, n)) \o SubSeq(w, n + 1, Len(w))
           = r \o (SubSeq(w, 1, n) \o SubSeq(w, n + 1, Len(w)))
    <3> DEFINE a == SubSeq(w, 1, n)
               b == SubSeq(w, n + 1, Len(w))
    <3>1. a \in Seq(S) /\ b \in Seq(S)
      BY <1>4, <1>5
    <3> HIDE DEF a, b
    <3>2. (r \o a) \o b = r \o (a \o b)
      BY <1>1, <3>1, ConcatAssociative, SMTT(30)
    <3> QED BY <3>2 DEF a, b
  <2> QED BY <1>6, <2>1, Zenon
<1> QED BY <1>7 DEF r, w, Flow

----------------------------------------------------------------------------
\* Flows that are cut short, grow, or lose what comes first, stay ordered.
LEMMA EarlierTransitive ==
    ASSUME NEW a \in Nat \X Nat, NEW b \in Nat \X Nat, NEW c \in Nat \X Nat,
           Earlier(a, b), Earlier(b, c)
    PROVE  Earlier(a, c)
BY DEF Earlier

LEMMA OrderedPrefix ==
    ASSUME NEW f, NEW g, NEW a \in Nat \X Nat, NEW b \in Nat \X Nat,
           Len(f) \in Nat, Len(g) \in Nat, Len(g) <= Len(f),
           \A i \in 1 .. Len(f) : f[i] \in Nat \X Nat,
           \A i \in 1 .. Len(g) : g[i] = f[i],
           a = b \/ Earlier(a, b), Ordered(f, a)
    PROVE  /\ Ordered(g, b)
           /\ \A m \in Nat : After(f, a, m) => After(g, b, m)
<1>1. Nth(f, a, Len(f) + 1) = a
  BY DEF Nth
<1>2. ASSUME NEW i \in 1 .. Len(g)
      PROVE  Nth(g, b, i) = Nth(f, a, i) /\ Nth(f, a, i) \in Nat \X Nat /\ i < Len(f) + 1
  BY DEF Nth
<1>3. Nth(g, b, Len(g) + 1) = b
  BY DEF Nth
<1>4. ASSUME NEW i \in 1 .. Len(g) + 1, NEW j \in 1 .. Len(g) + 1, i < j
      PROVE  Earlier(Nth(g, b, i), Nth(g, b, j))
  <2>1. i \in 1 .. Len(g) /\ i \in 1 .. Len(f) + 1 /\ Len(f) + 1 \in 1 .. Len(f) + 1
    BY <1>4
  <2>2. CASE j \in 1 .. Len(g)
    <3>1. j \in 1 .. Len(f) + 1
      BY <2>2
    <3> QED BY <1>2, <1>4, <2>1, <2>2, <3>1 DEF Ordered
  <2>3. CASE j = Len(g) + 1
    <3>1. Earlier(Nth(f, a, i), a)
      BY <1>1, <1>2, <2>1 DEF Ordered
    <3>2. Earlier(Nth(f, a, i), b)
      BY <1>2, <2>1, <3>1, EarlierTransitive
    <3> QED BY <1>2, <1>3, <2>1, <2>3, <3>2
  <2> QED BY <1>4, <2>2, <2>3
<1>5. ASSUME NEW m \in Nat, After(f, a, m), NEW i \in 1 .. Len(g) + 1
      PROVE  m < Nth(g, b, i)[1]
  <2>1. CASE i \in 1 .. Len(g)
    <3>1. i \in 1 .. Len(f) + 1
      BY <2>1
    <3> QED BY <1>2, <1>5, <2>1, <3>1 DEF After
  <2>2. CASE i = Len(g) + 1
    <3>1. m < a[1]
      <4>1. Len(f) + 1 \in 1 .. Len(f) + 1
        OBVIOUS
      <4>2. m < Nth(f, a, Len(f) + 1)[1]
        BY <1>5, <4>1 DEF After
      <4> QED BY <1>1, <4>2
    <3>2. a[1] <= b[1] /\ a[1] \in Nat /\ b[1] \in Nat
      BY DEF Earlier
    <3> QED BY <1>3, <2>2, <3>1, <3>2
  <2> QED BY <2>1, <2>2
<1> QED BY <1>4, <1>5 DEF Ordered, After

LEMMA PartOfSum ==
    ASSUME NEW x, NEW y \in Nat, NEW z \in Nat, x = y + z
    PROVE  x \in Nat /\ y <= x
OBVIOUS

LEMMA Beyond ==
    ASSUME NEW L \in Nat, NEW n \in Nat \ {0}, NEW i \in 1 .. L + n + 1,
           i \notin 1 .. L, i # L + n + 1
    PROVE  \E k \in 1 .. n : i = L + k
<1>1. i - L \in 1 .. n /\ i = L + (i - L)
  OBVIOUS
<1> QED BY <1>1

\* Behind f came the first s units of frame c and next comes a; g is f with n
\* more units of that frame, and behind it comes b.
Continued(f, a, g, b, c, s, n) ==
    /\ a \in Nat \X Nat /\ a[1] = c /\ a[2] = s + 1
    /\ b \in Nat \X Nat /\ (c < b[1] \/ (c = b[1] /\ s + n < b[2]))
    /\ Len(f) \in Nat /\ Len(g) = Len(f) + n
    /\ \A i \in 1 .. Len(f) : f[i] \in Nat \X Nat
    /\ \A i \in 1 .. Len(f) : g[i] = f[i]
    /\ \A i \in 1 .. n : g[Len(f) + i] = <<c, s + i>>

LEMMA OrderedLonger ==
    ASSUME NEW f, NEW g, NEW a, NEW b, NEW c \in Nat, NEW s \in Nat, NEW n \in Nat \ {0},
           Continued(f, a, g, b, c, s, n), Ordered(f, a)
    PROVE  /\ Ordered(g, b)
           /\ \A m \in Nat : After(f, a, m) => After(g, b, m)
<1> DEFINE L == Len(f)
<1>0. /\ a \in Nat \X Nat /\ a[1] = c /\ a[2] = s + 1 /\ L \in Nat
      /\ b \in Nat \X Nat /\ b[1] \in Nat /\ b[2] \in Nat /\ (c < b[1] \/ (c = b[1] /\ s + n < b[2]))
  BY DEF Continued
<1>9. /\ Len(g) = L + n
      /\ \A i \in 1 .. L : f[i] \in Nat \X Nat
      /\ \A i \in 1 .. L : g[i] = f[i]
      /\ \A i \in 1 .. n : g[L + i] = <<c, s + i>>
  BY DEF Continued
<1>1. Nth(f, a, L + 1) = a /\ L + 1 \in 1 .. L + 1
  BY <1>0 DEF Nth
<1>2. ASSUME NEW i \in 1 .. L
      PROVE  Nth(g, b, i) = Nth(f, a, i) /\ Nth(f, a, i) \in Nat \X Nat /\ i \in 1 .. L + 1
  <2>1. i <= L /\ i <= Len(g) /\ i \in 1 .. L + 1
    BY <1>0, <1>9
  <2>2. Nth(g, b, i) = g[i] /\ Nth(f, a, i) = f[i]
    BY <2>1 DEF Nth
  <2>3. f[i] \in Nat \X Nat /\ g[i] = f[i]
    BY <1>9
  <2> QED BY <2>1, <2>2, <2>3
<1>3. ASSUME NEW i \in 1 .. n
      PROVE  Nth(g, b, L + i) = <<c, s + i>>
  <2>1. ~(L + i <= L) /\ L + i <= Len(g)
    BY <1>0, <1>9
  <2> QED BY <1>9, <2>1 DEF Nth
<1>4. Nth(g, b, L + n + 1) = b
  BY <1>0, <1>9 DEF Nth
<1>5. ASSUME NEW i \in 1 .. L PROVE Earlier(Nth(f, a, i), a)
  <2>1. i \in 1 .. L + 1 /\ i < L + 1
    BY <1>0
  <2> QED BY <1>1, <2>1 DEF Ordered
<1>6. ASSUME NEW i \in 1 .. L + n + 1, NEW j \in 1 .. L + n + 1, i < j
      PROVE  Earlier(Nth(g, b, i), Nth(g, b, j))
  <2>1. CASE j \in 1 .. L
    <3>1. i \in 1 .. L
      BY <1>6, <2>1
    <3>2. Earlier(Nth(f, a, i), Nth(f, a, j))
      BY <1>2, <1>6, <2>1, <3>1 DEF Ordered
    <3> QED BY <1>2, <2>1, <3>1, <3>2
  <2>2. CASE i \in 1 .. L /\ j \notin 1 .. L
    <3>2. Nth(g, b, j) \in Nat \X Nat /\ (a = Nth(g, b, j) \/ Earlier(a, Nth(g, b, j)))
      <4>1. CASE j = L + n + 1
        <5>1. Earlier(a, b)
          BY <1>0 DEF Earlier
        <5> QED BY <1>0, <1>4, <4>1, <5>1
      <4>2. CASE j # L + n + 1
        <5>1. PICK k \in 1 .. n : j = L + k
          BY <1>0, <2>2, <4>2, Beyond
        <5>2. Nth(g, b, j) = <<c, s + k>>
          BY <1>3, <5>1
        <5>3. CASE k = 1
          BY <5>2, <5>3, <1>0
        <5>4. CASE k > 1
          <6>1. Earlier(a, <<c, s + k>>)
            BY <1>0, <5>4 DEF Earlier
          <6> QED BY <5>2, <6>1
        <5> QED BY <5>3, <5>4
      <4> QED BY <4>1, <4>2
    <3>3. Earlier(Nth(f, a, i), a) /\ Nth(f, a, i) \in Nat \X Nat /\ Nth(g, b, i) = Nth(f, a, i)
      BY <1>2, <1>5, <2>2
    <3> DEFINE x == Nth(f, a, i)
               y == Nth(g, b, j)
    <3>4. x \in Nat \X Nat /\ y \in Nat \X Nat /\ Earlier(x, a) /\ (a = y \/ Earlier(a, y))
      BY <3>2, <3>3
    <3> HIDE DEF x, y
    <3>5. Earlier(x, y)
      BY <1>0, <3>4, EarlierTransitive
    <3> QED BY <3>3, <3>5 DEF x, y
  <2>3. CASE i \notin 1 .. L
    <3>0. i # L + n + 1
      BY <1>0, <1>6
    <3>1. PICK k \in 1 .. n : i = L + k
      BY <1>0, <2>3, <3>0, Beyond, ZenonT(30)
    <3>2. Nth(g, b, i) = <<c, s + k>>
      BY <1>3, <3>1
    <3>3. CASE j = L + n + 1
      <4>1. Earlier(<<c, s + k>>, b)
        BY <1>0 DEF Earlier
      <4> QED BY <1>4, <3>2, <3>3, <4>1
    <3>4. CASE j # L + n + 1
      <4>0. j \notin 1 .. L
        BY <1>0, <1>6, <2>3
      <4>1. PICK l \in 1 .. n : j = L + l
        BY <1>0, <3>4, <4>0, Beyond, ZenonT(30)
      <4>2. Nth(g, b, j) = <<c, s + l>> /\ k < l
        BY <1>0, <1>3, <1>6, <3>1, <4>1, SMTT(30)
      <4> QED BY <3>2, <4>2 DEF Earlier
    <3> QED BY <3>3, <3>4
  <2> QED BY <1>6, <2>1, <2>2, <2>3
<1>7. ASSUME NEW m \in Nat, After(f, a, m), NEW i \in 1 .. L + n + 1
      PROVE  m < Nth(g, b, i)[1]
  <2>1. m < c
    <3>1. m < Nth(f, a, L + 1)[1]
      BY <1>1, <1>7 DEF After
    <3> QED BY <1>0, <1>1, <3>1
  <2>2. CASE i \in 1 .. L
    BY <1>2, <1>7, <2>2 DEF After
  <2>3. CASE i = L + n + 1
    <3>1. m < b[1]
      BY <1>0, <2>1
    <3> QED BY <1>4, <2>3, <3>1
  <2>4. CASE i \notin 1 .. L /\ i # L + n + 1
    <3>1. PICK k \in 1 .. n : i = L + k
      BY <1>0, <2>4, Beyond
    <3>2. Nth(g, b, i) = <<c, s + k>>
      BY <1>3, <3>1
    <3> QED BY <2>1, <3>2
  <2> QED BY <2>2, <2>3, <2>4
<1>8. Len(g) + 1 = L + n + 1
  BY <1>9
<1> QED BY <1>6, <1>7, <1>8 DEF Ordered, After

LEMMA OrderedSuffix ==
    ASSUME NEW f, NEW g, NEW k \in Nat, NEW a, Len(g) \in Nat, Len(f) = k + Len(g),
           \A i \in 1 .. Len(g) : f[k + i] = g[i], Ordered(f, a)
    PROVE  /\ Ordered(g, a)
           /\ \A i \in 1 .. Len(g) + 1 : Nth(g, a, i) = Nth(f, a, k + i)
           /\ \A m \in Nat : After(f, a, m) => After(g, a, m)
<1>1. ASSUME NEW i \in 1 .. Len(g) + 1
      PROVE  Nth(g, a, i) = Nth(f, a, k + i) /\ k + i \in 1 .. Len(f) + 1
  BY DEF Nth
<1>2. ASSUME NEW i \in 1 .. Len(g) + 1, NEW j \in 1 .. Len(g) + 1, i < j
      PROVE  Earlier(Nth(g, a, i), Nth(g, a, j))
  <2>1. k + i < k + j
    BY <1>2
  <2> QED BY <1>1, <2>1 DEF Ordered
<1> QED BY <1>1, <1>2 DEF Ordered, After

----------------------------------------------------------------------------
LEMMA FrameSizes ==
    ASSUME TypeInv, NEW q \in Peers
    PROVE  /\ HeaderSize \in Nat \ {0}
           /\ Len(frames[q]) \in Nat /\ sending[q] \in Nat /\ sent[q] \in Nat
           /\ sending[q] <= Len(frames[q])
           /\ \A m \in 1 .. Len(frames[q]) :
                 frames[q][m].size \in Nat /\ FrameSizeOf(q, m) \in Nat \ {0}
           /\ sending[q] # 0 => FrameSize(q) \in Nat \ {0}
<1>1. HeaderSize \in Nat \ {0}
  BY SizesAssumption
<1>2. frames[q] \in Seq(Frame) /\ sending[q] \in Nat /\ sent[q] \in Nat
      /\ sending[q] <= Len(frames[q])
  BY DEF TypeInv, Types, Streams
<1>3. Len(frames[q]) \in Nat
  BY <1>2, LenProperties
<1>4. ASSUME NEW m \in 1 .. Len(frames[q])
      PROVE  frames[q][m].size \in Nat /\ FrameSizeOf(q, m) \in Nat \ {0}
  <2>1. frames[q][m] \in Frame
    BY <1>2, ElementOfSeq
  <2> QED BY <1>1, <2>1 DEF Frame, FrameSizeOf
<1>5. sending[q] # 0 => sending[q] \in 1 .. Len(frames[q])
  BY <1>2, <1>3
<1> QED BY <1>1, <1>2, <1>3, <1>4, <1>5 DEF FrameSize

LEMMA NextUnitType ==
    ASSUME TypeInv, NEW q \in Peers
    PROVE  NextUnit(q) \in Nat \X Nat
BY FrameSizes DEF NextUnit

\* What is left to send when n units are out.
LEMMA NextAfterUnits ==
    ASSUME TypeInv, NEW q \in Peers, NEW n \in Nat \ {0}, SendingLatest(q), Advances(q, n)
    PROVE  /\ sending[q] \in 1 .. Len(frames[q]) /\ sending[q] = Len(frames[q])
           /\ NextUnit(q) = <<sending[q], sent[q] + 1>>
           /\ NextUnit(q)' \in Nat \X Nat
           /\ Earlier(<<sending[q], sent[q] + n>>, NextUnit(q)')
           /\ SendingLatest(q)'
<1> DEFINE size == FrameSizeOf(q, sending[q])
<1>1. /\ Len(frames[q]) \in Nat /\ sending[q] \in Nat /\ sent[q] \in Nat
      /\ sending[q] # 0 /\ sending[q] = Len(frames[q])
      /\ size \in Nat /\ sent[q] + n <= size
      /\ Len(frames'[q]) = Len(frames[q])
  BY FrameSizes DEF Advances, SendingLatest, FrameSize
<1>2. NextUnit(q) = <<sending[q], sent[q] + 1>>
  BY <1>1 DEF NextUnit
<1>3. /\ sending'[q] = IF sent[q] + n = size THEN 0 ELSE sending[q]
      /\ sent'[q] = IF sent[q] + n = size THEN 0 ELSE sent[q] + n
  BY DEF Advances, LeftToSend, FrameSize
<1>4. FrameSizeOf(q, sending[q])' = HeaderSize + frames[q][sending'[q]].size
  BY DEF FrameSizeOf, Advances
<1>5. size = HeaderSize + frames[q][sending[q]].size
  BY DEF FrameSizeOf
<1> HIDE DEF size
<1>6. CASE sent[q] + n = size
  <2>1. NextUnit(q)' = <<Len(frames[q]) + 1, 1>>
    BY <1>1, <1>3, <1>6 DEF NextUnit
  <2>2. SendingLatest(q)'
    BY <1>3, <1>6 DEF SendingLatest
  <2> QED BY <1>1, <1>2, <2>1, <2>2 DEF Earlier
<1>7. CASE sent[q] + n # size
  <2>1. sending'[q] = sending[q] /\ sent'[q] = sent[q] + n
    BY <1>3, <1>7
  <2>2. NextUnit(q)' = <<sending[q], sent[q] + n + 1>>
    BY <1>1, <2>1 DEF NextUnit
  <2>3. FrameSize(q)' = size
    BY <1>4, <1>5, <2>1 DEF FrameSize
  <2>4. SendingLatest(q)'
    BY <1>1, <1>7, <2>1, <2>3 DEF SendingLatest
  <2> QED BY <1>1, <1>2, <2>2, <2>4, SMTT(30) DEF Earlier
<1> QED BY <1>6, <1>7

\* The units that advance q's frame are its own and fit into it.
LEMMA UnitsFacts ==
    ASSUME TypeInv, NEW q \in Peers, NEW n \in Nat \ {0}, SendingLatest(q), Advances(q, n)
    PROVE  /\ Units(q, n) \in Seq(UnitOf(q)) /\ Len(Units(q, n)) = n
           /\ \A i \in 1 .. n : Units(q, n)[i] = <<sending[q], sent[q] + i>>
<1>1. sending[q] \in 1 .. Len(frames[q]) /\ sent[q] \in Nat
  BY NextAfterUnits, FrameSizes
<1>2. Units(q, n) \in [1 .. n -> UnitOf(q)]
  BY <1>1 DEF Units, UnitOf
<1>3. \A i \in 1 .. n : Units(q, n)[i] = <<sending[q], sent[q] + i>>
  BY DEF Units
<1>4. Units(q, n) \in Seq(UnitOf(q))
  BY <1>2, SeqDef
<1>5. DOMAIN Units(q, n) = 1 .. n
  BY DEF Units
<1>6. Len(Units(q, n)) = n
  BY <1>4, <1>5, LenProperties
<1> QED BY <1>3, <1>4, <1>6

LEMMA ShownKept ==
    ASSUME TypeInv, NEW p \in Peers, ShownBefore(p), shown'[p] = shown[p],
           \A m \in Nat : After(Flow(p), NextUnit(Other(p)), m) =>
                          After(Flow(p)', NextUnit(Other(p))', m)
    PROVE  ShownBefore(p)'
<1>1. \A i \in 1 .. Len(shown[p]) : shown[p][i].frame \in Nat
  <2>1. shown[p] \in Seq(Shown)
    BY DEF TypeInv, Types
  <2>2. \A i \in 1 .. Len(shown[p]) : shown[p][i] \in Shown
    BY <2>1, ElementOfSeq
  <2> QED BY <2>2 DEF Shown
<1>2. ASSUME NEW i \in 1 .. Len(shown[p]), shown[p][i].frame # 0
      PROVE  /\ After(Flow(p)', NextUnit(Other(p))', shown[p][i].frame)
             /\ \A j \in 1 .. i - 1 : shown[p][j].frame < shown[p][i].frame
  BY <1>1, <1>2 DEF ShownBefore
<1> QED BY <1>2 DEF ShownBefore

----------------------------------------------------------------------------
\* Each of the moves keeps the order.
LEMMA StaysInOrder ==
    ASSUME TypeInv, NEW p \in Peers, InOrder(p), Stays(p)
    PROVE  InOrder(p)'
<1> DEFINE q == Other(p)
<1>1. /\ frames'[q] = frames[q] /\ sending'[q] = sending[q] /\ sent'[q] = sent[q]
      /\ Flow(p)' = Flow(p) /\ shown'[p] = shown[p]
  BY DEF Stays, Author
<1>2. NextUnit(q)' = NextUnit(q) /\ \A m : FrameSizeOf(q, m)' = FrameSizeOf(q, m)
  BY <1>1 DEF NextUnit, FrameSizeOf
<1>3. SendingLatest(q)'
  BY <1>1, <1>2 DEF InOrder, SendingLatest, FrameSize
<1>4. Ordered(Flow(p), NextUnit(q))'
  BY <1>1, <1>2 DEF InOrder, Ordered
<1>5. FlowFits(p)'
  BY <1>1, <1>2 DEF InOrder, FlowFits
<1>6. ShownBefore(p)'
  BY <1>1, <1>2, ShownKept DEF InOrder
<1> QED BY <1>3, <1>4, <1>5, <1>6 DEF InOrder

LEMMA LosesInOrder ==
    ASSUME TypeInv, NEW p \in Peers, InOrder(p), Loses(p)
    PROVE  InOrder(p)'
<1> DEFINE q == Other(p)
           f == Flow(p)
           g == Flow(p)'
           a == NextUnit(q)
<1>1. /\ frames'[q] = frames[q] /\ sending'[q] = sending[q] /\ sent'[q] = sent[q]
      /\ shown'[p] = shown[p]
  BY DEF Loses, Author
<1>2. NextUnit(q)' = a /\ \A m : FrameSizeOf(q, m)' = FrameSizeOf(q, m)
  BY <1>1 DEF NextUnit, FrameSizeOf
<1>3. SendingLatest(q)'
  BY <1>1, <1>2 DEF InOrder, SendingLatest, FrameSize
<1>4. g = received[p]
  <2>1. received[p] \in Seq(UnitOf(q))
    BY DEF TypeInv, Streams
  <2>2. g = received[p] \o <<>>
    BY DEF Loses, Flow
  <2> QED BY <2>1, <2>2, ConcatEmptySeq
<1>5. /\ Len(f) \in Nat /\ Len(g) \in Nat /\ Len(g) <= Len(f)
      /\ \A i \in 1 .. Len(g) : g[i] = f[i]
      /\ \A i \in 1 .. Len(f) : f[i] \in Nat \X Nat
  <2>a. /\ Len(f) \in Nat /\ Len(received[p]) \in Nat /\ Len(wire[q]) \in Nat
        /\ Len(f) = Len(received[p]) + Len(wire[q])
    BY FlowFacts
  <2>0. /\ \A i \in 1 .. Len(received[p]) : f[i] = received[p][i]
        /\ \A i \in 1 .. Len(f) : f[i] \in UnitOf(q)
    BY FlowFacts
  <2> HIDE DEF f
  <2>1. Len(f) \in Nat /\ Len(received[p]) \in Nat /\ Len(received[p]) <= Len(f)
    BY <2>a, PartOfSum
  <2>2. UnitOf(q) \subseteq Nat \X Nat
    BY DEF UnitOf
  <2> HIDE DEF g
  <2> QED BY <1>4, <2>0, <2>1, <2>2
<1>6. a \in Nat \X Nat /\ Ordered(f, a)
  BY NextUnitType, OtherPeer DEF InOrder
<1>7. FlowFits(p)'
  <2>1. \A i \in 1 .. Len(g) : i \in 1 .. Len(f)
    BY <1>5
  <2> QED BY <1>2, <1>5, <2>1 DEF InOrder, FlowFits
<1>8. \A i \in 1 .. Len(f) : f[i] \in Nat \X Nat
  BY <1>5
<1> HIDE DEF f, g, a
<1>9. /\ Ordered(g, a)
      /\ \A m \in Nat : After(f, a, m) => After(g, a, m)
  BY <1>5, <1>6, <1>8, OrderedPrefix
<1>10. Ordered(Flow(p), NextUnit(q))'
  BY <1>2, <1>9 DEF g, Ordered
<1>11. ShownBefore(p)'
  BY <1>1, <1>2, <1>9, ShownKept DEF InOrder, f, g, a
<1> QED BY <1>3, <1>7, <1>10, <1>11 DEF InOrder

LEMMA MissesInOrder ==
    ASSUME TypeInv, NEW p \in Peers, NEW n \in Nat \ {0}, InOrder(p), Misses(p, n)
    PROVE  InOrder(p)'
<1> DEFINE q == Other(p)
           f == Flow(p)
           a == NextUnit(q)
           b == NextUnit(q)'
<1>1. q \in Peers /\ SendingLatest(q) /\ Advances(q, n)
  BY OtherPeer DEF Misses, InOrder
<1>2. Flow(p)' = f /\ shown'[p] = shown[p] /\ frames'[q] = frames[q]
  BY DEF Misses, Advances
<1>3. /\ a = <<sending[q], sent[q] + 1>> /\ b \in Nat \X Nat
      /\ Earlier(<<sending[q], sent[q] + n>>, b) /\ SendingLatest(q)'
  BY <1>1, NextAfterUnits
<1>4. a \in Nat \X Nat /\ Ordered(f, a)
  BY NextUnitType, OtherPeer DEF InOrder
<1>5. sending[q] \in Nat /\ sent[q] \in Nat
  BY <1>1, FrameSizes
<1>6. FlowFits(p)'
  <2>1. \A m : FrameSizeOf(q, m)' = FrameSizeOf(q, m)
    BY <1>2 DEF FrameSizeOf
  <2> QED BY <1>2, <2>1 DEF InOrder, FlowFits
<1>7. Len(f) \in Nat /\ \A i \in 1 .. Len(f) : f[i] \in Nat \X Nat
  <2>1. Len(f) \in Nat /\ \A i \in 1 .. Len(f) : f[i] \in UnitOf(q)
    BY FlowFacts
  <2>2. UnitOf(q) \subseteq Nat \X Nat
    BY DEF UnitOf
  <2> QED BY <2>1, <2>2
<1> HIDE DEF f, a, b
<1>8. Earlier(a, b)
  BY <1>3, <1>5 DEF Earlier
<1>9. /\ Ordered(f, b)
      /\ \A m \in Nat : After(f, a, m) => After(f, b, m)
  BY <1>3, <1>4, <1>7, <1>8, OrderedPrefix
<1>10. Ordered(Flow(p), NextUnit(q))'
  BY <1>2, <1>9 DEF f, b, Ordered
<1>11. ShownBefore(p)'
  BY <1>2, <1>9, ShownKept DEF InOrder, f, a, b
<1> QED BY <1>3, <1>6, <1>10, <1>11 DEF InOrder

LEMMA GetsInOrder ==
    ASSUME TypeInv, NEW p \in Peers, NEW n \in Nat \ {0}, InOrder(p), Gets(p, n)
    PROVE  InOrder(p)'
<1> DEFINE q == Other(p)
           f == Flow(p)
           g == Flow(p)'
           u == Units(q, n)
           a == NextUnit(q)
           b == NextUnit(q)'
           c == sending[q]
           s == sent[q]
           S == UnitOf(q)
<1>1. q \in Peers /\ SendingLatest(q) /\ Advances(q, n)
  BY OtherPeer DEF Gets, InOrder
<1>2. g = f \o u /\ shown'[p] = shown[p] /\ frames'[q] = frames[q]
  BY DEF Gets, Advances
<1>3. /\ a = <<c, s + 1>> /\ b \in Nat \X Nat
      /\ Earlier(<<c, s + n>>, b) /\ SendingLatest(q)'
  BY <1>1, NextAfterUnits
<1>4. Ordered(f, a)
  BY DEF InOrder
<1>5. c \in Nat /\ s \in Nat /\ c # 0 /\ FrameSizeOf(q, c) \in Nat
  <2>1. FrameSize(q) = FrameSizeOf(q, c)
    BY DEF FrameSize
  <2>2. c # 0
    BY <1>1 DEF Advances
  <2> QED BY <1>1, <2>1, <2>2, FrameSizes
<1>6. /\ u \in Seq(S) /\ Len(u) = n
      /\ \A i \in 1 .. n : u[i] = <<c, s + i>>
  BY <1>1, UnitsFacts
<1>7. f \in Seq(S)
  BY FlowFacts
<1>8. S \subseteq Nat \X Nat
  BY DEF UnitOf
<1>9. \A i \in 1 .. Len(f) : f[i][2] <= FrameSizeOf(q, f[i][1])
  BY DEF InOrder, FlowFits
<1>10. s + n <= FrameSizeOf(q, c)
  BY <1>1 DEF Advances, FrameSize
<1>11. \A m : FrameSizeOf(q, m)' = FrameSizeOf(q, m)
  BY <1>2 DEF FrameSizeOf
<1> HIDE DEF f, g, u, a, b, c, s, S
<1>12. /\ Len(f) \in Nat /\ Len(g) = Len(f) + n
       /\ \A i \in 1 .. Len(f) : g[i] = f[i]
       /\ \A i \in 1 .. n : g[Len(f) + i] = <<c, s + i>>
  <2>0. u \in Seq(S)
    BY <1>6
  <2>1. /\ Len(f \o u) = Len(f) + Len(u) /\ Len(f) \in Nat
        /\ \A i \in 1 .. Len(f) : (f \o u)[i] = f[i]
        /\ \A i \in 1 .. Len(u) : (f \o u)[Len(f) + i] = u[i]
    BY <2>0, <1>7, ConcatFacts
  <2>2. g = f \o u /\ Len(u) = n /\ \A i \in 1 .. n : u[i] = <<c, s + i>>
    BY <1>2, <1>6
  <2> QED BY <2>1, <2>2, Zenon
<1>13. \A i \in 1 .. Len(f) : f[i] \in Nat \X Nat
  BY <1>7, <1>8, ElementOfSeq
<1>14. /\ Ordered(g, b)
       /\ \A m \in Nat : After(f, a, m) => After(g, b, m)
  <2>1. /\ a \in Nat \X Nat /\ a[1] = c /\ a[2] = s + 1
        /\ b \in Nat \X Nat /\ (c < b[1] \/ (c = b[1] /\ s + n < b[2]))
    BY <1>3, <1>5 DEF Earlier
  <2>2. c \in Nat /\ s \in Nat /\ n \in Nat \ {0}
    BY <1>5
  <2>3. /\ Len(f) \in Nat /\ Len(g) = Len(f) + n
        /\ \A i \in 1 .. Len(f) : g[i] = f[i]
    BY <1>12
  <2>4. Continued(f, a, g, b, c, s, n)
    BY <1>12, <1>13, <2>1, <2>3 DEF Continued
  <2> QED BY <1>4, <2>2, <2>4, OrderedLonger
<1>15. ASSUME NEW i \in 1 .. Len(g) PROVE g[i][2] <= FrameSizeOf(q, g[i][1])
  <2>1. CASE i \in 1 .. Len(f)
    BY <1>9, <1>12, <2>1
  <2>2. CASE i \notin 1 .. Len(f)
    <3>1. i - Len(f) \in 1 .. n /\ i = Len(f) + (i - Len(f))
      BY <1>12, <2>2
    <3>2. PICK k \in 1 .. n : i = Len(f) + k
      BY <3>1
    <3>3. g[i] = <<c, s + k>>
      BY <1>12, <3>2
    <3>4. g[i][1] = c /\ g[i][2] = s + k
      BY <3>3
    <3>5. s + k <= FrameSizeOf(q, c)
      BY <1>5, <1>10
    <3> QED BY <3>4, <3>5
  <2> QED BY <2>1, <2>2
<1>16. FlowFits(p)'
  BY <1>11, <1>15 DEF FlowFits, g
<1>17. Ordered(Flow(p), NextUnit(q))'
  BY <1>14 DEF g, b, Ordered
<1>18. ShownBefore(p)'
  BY <1>2, <1>14, ShownKept DEF InOrder, f, g, a, b
<1> QED BY <1>3, <1>16, <1>17, <1>18 DEF InOrder

LEMMA AwaitsInOrder ==
    ASSUME TypeInv, NEW p \in Peers, InOrder(p), Awaits(p)
    PROVE  InOrder(p)'
<1> DEFINE q == Other(p)
           new == Len(frames[q]) + 1
           f == Flow(p)
           a == NextUnit(q)
           b == <<new, 1>>
<1>1. q \in Peers /\ SendingLatest(q)
  BY OtherPeer DEF InOrder
<1>2. /\ Len(frames'[q]) = new /\ sending'[q] = new /\ sent'[q] = 0
      /\ \A m \in 1 .. Len(frames[q]) : frames'[q][m] = frames[q][m]
      /\ HeaderSize + frames'[q][new].size \in Nat \ {0}
      /\ Flow(p)' = f /\ shown'[p] = shown[p]
  BY DEF Awaits
<1>3. Len(frames[q]) \in Nat /\ sent[q] \in Nat /\ new \in Nat \ {0}
  BY <1>1, FrameSizes
<1>4. NextUnit(q)' = b
  BY <1>2, <1>3 DEF NextUnit
<1>5. a = b \/ Earlier(a, b)
  BY <1>1, <1>3 DEF NextUnit, SendingLatest, Earlier
<1>6. SendingLatest(q)'
  <2>1. FrameSize(q)' = HeaderSize + frames'[q][new].size
    BY <1>2 DEF FrameSize, FrameSizeOf
  <2> QED BY <1>2, <2>1 DEF SendingLatest
<1>7. /\ Len(f) \in Nat
      /\ \A i \in 1 .. Len(f) : f[i] \in Nat \X Nat /\ f[i][1] \in 1 .. Len(frames[q])
  <2>1. Len(f) \in Nat /\ \A i \in 1 .. Len(f) : f[i] \in UnitOf(q)
    BY FlowFacts
  <2>2. \A u \in UnitOf(q) : u \in Nat \X Nat /\ u[1] \in 1 .. Len(frames[q])
    BY DEF UnitOf
  <2>3. ASSUME NEW i \in 1 .. Len(f)
        PROVE  f[i] \in Nat \X Nat /\ f[i][1] \in 1 .. Len(frames[q])
    <3>1. f[i] \in UnitOf(q)
      BY <2>1
    <3> QED BY <2>2, <3>1, Zenon
  <2> QED BY <2>1, <2>3
<1>8. FlowFits(p)'
  <2>1. \A m \in 1 .. Len(frames[q]) : FrameSizeOf(q, m)' = FrameSizeOf(q, m)
    BY <1>2 DEF FrameSizeOf
  <2> QED BY <1>2, <1>7, <2>1 DEF InOrder, FlowFits
<1>9. a \in Nat \X Nat /\ b \in Nat \X Nat /\ Ordered(f, a)
  BY <1>1, <1>3, NextUnitType DEF InOrder
<1>10. \A i \in 1 .. Len(f) : f[i] \in Nat \X Nat
  BY <1>7
<1>11. Len(f) \in Nat
  BY <1>7
<1> HIDE DEF f, a, b
<1>12. /\ Ordered(f, b)
       /\ \A m \in Nat : After(f, a, m) => After(f, b, m)
  BY <1>5, <1>9, <1>10, <1>11, OrderedPrefix
<1>13. Ordered(Flow(p), NextUnit(q))'
  BY <1>2, <1>4, <1>12 DEF f, Ordered
<1>14. ShownBefore(p)'
  BY <1>2, <1>4, <1>12, ShownKept, SMTT(30) DEF InOrder, f, a
<1> QED BY <1>6, <1>8, <1>13, <1>14 DEF InOrder

\* A frame that is shown leaves nothing of itself behind.
LEMMA WholeIsLast ==
    ASSUME TypeInv, NEW p \in Peers, InOrder(p),
           NEW units \in Seq(UnitOf(Other(p))), Len(units) > 0,
           NEW g \in Seq(UnitOf(Other(p))), Flow(p) = units \o g,
           NEW m, m = FrameOf(p, units), m # 0
    PROVE  /\ m \in Nat /\ units[1] = <<m, 1>>
           /\ After(g, NextUnit(Other(p)), m)
<1> DEFINE q == Other(p)
           a == NextUnit(q)
           f == Flow(p)
           k == Len(units)
           size == FrameSizeOf(q, m)
           S == UnitOf(q)
<1>0. q \in Peers
  BY OtherPeer
<1>1. /\ m = units[1][1] /\ Intact(m, units) /\ k = size
  BY DEF FrameOf, FrameSizeOf
<1>2. m \in 1 .. Len(frames[q]) /\ Len(frames[q]) \in Nat
  BY <1>0, <1>1, FirstUnit, FrameSizes
<1>3. k \in Nat /\ k > 0 /\ \A i \in 1 .. k : units[i] = <<m, i>>
  BY <1>1, LenProperties DEF Intact
<1>4. SendingLatest(q) /\ Ordered(f, a) /\ FlowFits(p)
  BY DEF InOrder
<1>5. /\ f = units \o g /\ Len(f) = k + Len(g) /\ Len(g) \in Nat
      /\ \A i \in 1 .. k : f[i] = units[i]
      /\ \A i \in 1 .. Len(g) : f[k + i] = g[i]
      /\ \A i \in 1 .. Len(g) : g[i] \in S
  <2> HIDE DEF S, f
  <2>1. units \in Seq(S) /\ g \in Seq(S) /\ f = units \o g
    BY DEF S, f
  <2>2. /\ Len(units \o g) = k + Len(g) /\ Len(g) \in Nat
        /\ \A i \in 1 .. k : (units \o g)[i] = units[i]
        /\ \A i \in 1 .. Len(g) : (units \o g)[k + i] = g[i]
    BY <2>1, ConcatFacts
  <2>3. \A i \in 1 .. Len(g) : g[i] \in S
    BY <2>1, ElementOfSeq
  <2> QED BY <2>1, <2>2, <2>3, Zenon
<1>6. units[1] = <<m, 1>>
  BY <1>3
<1>7. a \in Nat \X Nat /\ (a[1] = m => a[2] <= size)
  <2>1. a \in Nat \X Nat /\ sending[q] \in Nat /\ sent[q] \in Nat
    BY <1>0, NextUnitType, FrameSizes
  <2>2. CASE sending[q] = 0
    <3>1. a = <<Len(frames[q]) + 1, 1>>
      BY <2>2 DEF NextUnit
    <3> QED BY <1>2, <2>1, <3>1
  <2>3. CASE sending[q] # 0
    <3>1. a = <<sending[q], sent[q] + 1>> /\ sent[q] < FrameSize(q)
      BY <1>4, <2>3 DEF NextUnit, SendingLatest
    <3>2. FrameSize(q) \in Nat
      BY <1>0, <2>3, FrameSizes
    <3>3. ASSUME a[1] = m PROVE FrameSize(q) = size
      BY <3>1, <3>3 DEF FrameSize
    <3> HIDE DEF size
    <3> QED BY <2>1, <3>1, <3>2, <3>3
  <2> QED BY <2>2, <2>3
<1>8. \A i \in 1 .. Len(g) : g[i][1] = m => g[i][2] <= size
  <2> SUFFICES ASSUME NEW i \in 1 .. Len(g), g[i][1] = m PROVE g[i][2] <= size
    OBVIOUS
  <2>1. k + i \in 1 .. Len(f) /\ f[k + i] = g[i]
    BY <1>3, <1>5
  <2> QED BY <1>4, <2>1 DEF FlowFits
<1>9. \A i \in 1 .. Len(g) : g[i] \in Nat \X Nat
  <2>1. S \subseteq Nat \X Nat
    BY DEF UnitOf
  <2> QED BY <1>5, <2>1
<1> HIDE DEF q, a, f, k, size, S
<1>10. f[k] = <<m, k>> /\ k \in 1 .. Len(f) + 1 /\ k <= Len(f)
  BY <1>3, <1>5
<1>11. ASSUME NEW i \in 1 .. Len(g) + 1
       PROVE  m < Nth(g, a, i)[1]
  <2> DEFINE x == Nth(g, a, i)
  <2>1. x \in Nat \X Nat /\ (x[1] = m => x[2] <= size)
    BY <1>5, <1>7, <1>8, <1>9 DEF Nth
  <2>2. x = Nth(f, a, k + i) /\ k + i \in 1 .. Len(f) + 1 /\ k < k + i
    <3>1. k + i \in 1 .. Len(f) + 1 /\ k < k + i
      BY <1>3, <1>5
    <3>2. CASE i \in 1 .. Len(g)
      BY <1>3, <1>5, <3>2 DEF Nth
    <3>3. CASE i = Len(g) + 1
      BY <1>3, <1>5, <3>3 DEF Nth
    <3>4. i \in 1 .. Len(g) \/ i = Len(g) + 1
      BY <1>5
    <3>5. x = Nth(f, a, k + i)
      BY <3>2, <3>3, <3>4
    <3> QED BY <3>1, <3>5
  <2>3. Nth(f, a, k) = <<m, k>>
    BY <1>10 DEF Nth
  <2> HIDE DEF x
  <2>4. Earlier(<<m, k>>, x)
    BY <1>4, <1>10, <2>2, <2>3 DEF Ordered
  <2>5. m < x[1] \/ (m = x[1] /\ k < x[2])
    BY <2>4 DEF Earlier
  <2>6. m < x[1]
    BY <1>1, <1>3, <2>1, <2>5
  <2> QED BY <2>6 DEF x
<1>12. After(g, a, m)
  BY <1>11 DEF After
<1> QED BY <1>2, <1>6, <1>12 DEF a, q

LEMMA SeesInOrder ==
    ASSUME TypeInv, NEW p \in Peers, InOrder(p),
           NEW units \in Seq(UnitOf(Other(p))), Sees(p, units)
    PROVE  InOrder(p)'
<1> DEFINE q == Other(p)
           a == NextUnit(q)
           f == Flow(p)
           g == Flow(p)'
           k == Len(units)
           S == UnitOf(q)
           m == FrameOf(p, units)
           e == [frame |-> m, from |-> remote[p].pos]
           old == shown[p]
<1>1. /\ frames'[q] = frames[q] /\ sending'[q] = sending[q] /\ sent'[q] = sent[q]
      /\ k > 0 /\ g \in Seq(S) /\ f = units \o g
      /\ shown'[p] = Append(old, e)
  BY DEF Sees, Author
<1>2. NextUnit(q)' = a /\ \A n : FrameSizeOf(q, n)' = FrameSizeOf(q, n)
  BY <1>1 DEF NextUnit, FrameSizeOf
<1>3. SendingLatest(q)'
  BY <1>1, <1>2 DEF InOrder, SendingLatest, FrameSize
<1>4. /\ Ordered(f, a) /\ \A i \in 1 .. Len(f) : f[i][2] <= FrameSizeOf(q, f[i][1])
      /\ ShownBefore(p)
  BY DEF InOrder, FlowFits
<1>5. m # 0 => m \in Nat /\ units[1] = <<m, 1>> /\ After(g, a, m)
  BY <1>1, WholeIsLast
<1>6. /\ old \in Seq(Shown) /\ e \in Shown
  <2>1. m \in Nat
    BY <1>1, FirstUnit
  <2>2. remote[p].pos \in Int
    BY DEF TypeInv, Types, KeyType
  <2> QED BY <2>1, <2>2 DEF TypeInv, Types, Shown
<1>7. e.frame = m
  OBVIOUS
<1>8. ShownBefore(p) = \A i \in 1 .. Len(old) : old[i].frame # 0 =>
        /\ After(f, a, old[i].frame)
        /\ \A j \in 1 .. i - 1 : old[j].frame < old[i].frame
  BY DEF ShownBefore
<1>9. units \in Seq(S)
  OBVIOUS
<1> HIDE DEF a, f, g, k, S, m, e, old
<1>10. /\ Len(f) = k + Len(g) /\ Len(g) \in Nat /\ k \in Nat
       /\ \A i \in 1 .. k : f[i] = units[i]
       /\ \A i \in 1 .. Len(g) : f[k + i] = g[i]
  <2>1. /\ Len(units \o g) = Len(units) + Len(g) /\ Len(g) \in Nat /\ Len(units) \in Nat
        /\ \A i \in 1 .. Len(units) : (units \o g)[i] = units[i]
        /\ \A i \in 1 .. Len(g) : (units \o g)[Len(units) + i] = g[i]
    BY <1>1, <1>9, ConcatFacts
  <2> QED BY <1>1, <2>1, Zenon DEF k
<1>11. /\ Ordered(g, a)
       /\ \A n \in Nat : After(f, a, n) => After(g, a, n)
  BY <1>4, <1>10, OrderedSuffix
<1>12. FlowFits(p)'
  <2>1. ASSUME NEW i \in 1 .. Len(g) PROVE g[i][2] <= FrameSizeOf(q, g[i][1])
    <3>1. k + i \in 1 .. Len(f) /\ f[k + i] = g[i]
      BY <1>10
    <3> QED BY <1>4, <3>1
  <2> QED BY <1>2, <2>1 DEF FlowFits, g
<1>13. Ordered(Flow(p), NextUnit(q))'
  BY <1>2, <1>11 DEF g, Ordered
<1>14. /\ Len(old) \in Nat /\ Len(shown'[p]) = Len(old) + 1
       /\ \A i \in 1 .. Len(old) : shown'[p][i] = old[i] /\ old[i].frame \in Nat
       /\ shown'[p][Len(old) + 1] = e
  <2>1. \A i \in 1 .. Len(old) : old[i] \in Shown
    BY <1>6, ElementOfSeq
  <2>2. /\ Len(old) \in Nat /\ Len(Append(old, e)) = Len(old) + 1
        /\ \A i \in 1 .. Len(old) : Append(old, e)[i] = old[i]
        /\ Append(old, e)[Len(old) + 1] = e
    BY <1>6, LenProperties, AppendProperties
  <2> QED BY <1>1, <2>1, <2>2 DEF Shown
<1>15. ASSUME NEW i \in 1 .. Len(shown'[p]), shown'[p][i].frame # 0
       PROVE  /\ After(g, a, shown'[p][i].frame)
              /\ \A j \in 1 .. i - 1 : shown'[p][j].frame < shown'[p][i].frame
  <2>1. CASE i \in 1 .. Len(old)
    <3>1. /\ shown'[p][i] = old[i] /\ old[i].frame # 0 /\ old[i].frame \in Nat
          /\ \A j \in 1 .. i - 1 : shown'[p][j] = old[j]
      BY <1>14, <1>15, <2>1
    <3>2. /\ After(f, a, old[i].frame)
          /\ \A j \in 1 .. i - 1 : old[j].frame < old[i].frame
      BY <1>4, <1>8, <2>1, <3>1
    <3> QED BY <1>11, <3>1, <3>2
  <2>2. CASE i = Len(old) + 1
    <3>1. shown'[p][i] = e /\ e.frame = m /\ m # 0
      BY <1>7, <1>14, <1>15, <2>2
    <3>2. m \in Nat /\ units[1] = <<m, 1>> /\ After(g, a, m)
      BY <1>5, <3>1
    <3>3. ASSUME NEW j \in 1 .. i - 1 PROVE shown'[p][j].frame < m
      <4>1. j \in 1 .. Len(old) /\ shown'[p][j] = old[j] /\ old[j].frame \in Nat
        BY <1>14, <2>2
      <4>2. CASE old[j].frame = 0
        BY <3>1, <3>2, <4>1, <4>2
      <4>3. CASE old[j].frame # 0
        <5>1. After(f, a, old[j].frame)
          BY <1>4, <1>8, <4>1, <4>3
        <5>2. 1 \in 1 .. k /\ 1 \in 1 .. Len(f) + 1 /\ 1 <= Len(f)
          BY <1>1, <1>10
        <5>3. Nth(f, a, 1) = <<m, 1>>
          BY <1>10, <3>2, <5>2 DEF Nth
        <5> QED BY <4>1, <5>1, <5>2, <5>3 DEF After
      <4> QED BY <4>2, <4>3
    <3> QED BY <3>1, <3>2, <3>3
  <2> QED BY <1>14, <2>1, <2>2
<1>16. ShownBefore(p)'
  BY <1>2, <1>15 DEF ShownBefore, g
<1> QED BY <1>3, <1>12, <1>13, <1>16 DEF InOrder

LEMMA BefallsInOrder ==
    ASSUME TypeInv, NEW p \in Peers, InOrder(p), Befalls(p)
    PROVE  InOrder(p)'
BY StaysInOrder, LosesInOrder, GetsInOrder, MissesInOrder, AwaitsInOrder, SeesInOrder
   DEF Befalls

----------------------------------------------------------------------------
\* Every step is one of the moves for what is on its way to either peer.
LEMMA KeptBefalls ==
    ASSUME NEW p \in Peers, NEW q, q = Other(p), UNCHANGED <<received[p], shown[p], wire[q]>>,
           UNCHANGED <<frames[q], sending[q], sent[q]>>
    PROVE  Stays(p)
BY DEF Stays, Author, Flow

LEMMA CloseBefalls ==
    ASSUME TypeInv, NEW r \in Peers, CloseSocket(r) \/ NodeClose(r),
           UNCHANGED <<outgoing, received, shown>>, NEW p \in Peers
    PROVE  Stays(p) \/ Loses(p)
<1> DEFINE q == Other(p)
<1>1. UNCHANGED <<received[p], shown[p], frames[q], sending[q], sent[q]>>
  BY DEF outgoing
<1>2. q \in Peers /\ (q = r \/ q = Other(r))
  BY OtherPeer
<1>3. wire'[q] = wire[q] \/ wire'[q] = <<>>
  BY <1>2, NodeCloseType
<1>4. CASE wire'[q] = wire[q]
  BY <1>1, <1>4, KeptBefalls
<1>5. CASE wire'[q] = <<>>
  BY <1>1, <1>5 DEF Loses, Author
<1> QED BY <1>3, <1>4, <1>5

LEMMA ReadSomeBefalls ==
    ASSUME TypeInv, NEW r \in Peers, NEW n \in 1 .. Room, ReadSome(r, n), NEW p \in Peers
    PROVE  Befalls(p)
<1> DEFINE q == Other(r)
           units == received[r] \o SubSeq(wire[q], 1, n)
           rest == SubSeq(wire[q], n + 1, Len(wire[q]))
<1>0. q \in Peers /\ q # r /\ Other(q) = r /\ (p = r \/ p = q)
  BY OtherPeer
<1>1. /\ wire' = [wire EXCEPT ![q] = rest]
      /\ ReadMore(r, units) \/ ReadHeader(r, units) \/ ReadContent(r, units)
      /\ UNCHANGED <<frames, sending, sent>>
  BY DEF ReadSome, outgoing
<1>2. n \in 1 .. Len(wire[q])
  <2>1. wire[q] \in Seq(UnitOf(q))
    BY <1>0 DEF TypeInv, Streams
  <2>2. Len(wire[q]) \in Nat
    BY <2>1, LenProperties
  <2> QED BY <2>2 DEF ReadSome
<1>3. units \in Seq(UnitOf(q)) /\ rest \in Seq(UnitOf(q)) /\ Len(units) > 0
  <2>1. /\ units \in Seq(UnitOf(q)) /\ rest \in Seq(UnitOf(q))
        /\ Len(received[r]) \in Nat /\ Len(units) = Len(received[r]) + n
    BY <1>2, UnitsRead, Zenon
  <2> HIDE DEF units, rest
  <2> QED BY <2>1
<1>4. units \o rest = Flow(r)
  BY <1>2, FlowRead
<1>5. wire = [s \in Peers |-> wire[s]] /\ received = [s \in Peers |-> received[s]]
  BY DEF TypeInv, Streams
<1>6. shown \in [Peers -> Seq(Shown)]
  BY DEF TypeInv, Types
<1> HIDE DEF units, rest
<1>7. /\ wire'[q] = rest /\ wire'[r] = wire[r]
      /\ \/ received' = [received EXCEPT ![r] = units] /\ shown' = shown
         \/ /\ received' = [received EXCEPT ![r] = <<>>]
            /\ shown' = [shown EXCEPT ![r] =
                  Append(@, [frame |-> FrameOf(r, units), from |-> remote[r].pos])]
  BY <1>0, <1>1, <1>5 DEF ReadMore, ReadHeader, ReadContent
<1>8. CASE p = q
  <2>1. received'[q] = received[q] /\ shown'[q] = shown[q]
    BY <1>0, <1>5, <1>6, <1>7
  <2>2. UNCHANGED <<received[q], shown[q], wire[r], frames[r], sending[r], sent[r]>>
    BY <1>1, <1>7, <2>1
  <2>3. Stays(q)
    BY <1>0, <2>2, KeptBefalls
  <2> QED BY <1>8, <2>3 DEF Befalls
<1>9. CASE p = r
  <2>1. CASE received' = [received EXCEPT ![r] = units] /\ shown' = shown
    <3>1. received'[r] = units
      BY <1>5, <2>1
    <3>2. Flow(r)' = units \o rest
      BY <1>7, <3>1 DEF Flow
    <3> QED BY <1>1, <1>4, <1>9, <2>1, <3>2 DEF Befalls, Stays, Author
  <2>2. CASE /\ received' = [received EXCEPT ![r] = <<>>]
             /\ shown' = [shown EXCEPT ![r] =
                   Append(@, [frame |-> FrameOf(r, units), from |-> remote[r].pos])]
    <3>1. received'[r] = <<>>
      BY <1>5, <2>2
    <3>2. Flow(r)' = rest
      <4>1. Flow(r)' = <<>> \o rest
        BY <1>7, <3>1 DEF Flow
      <4> QED BY <1>3, <4>1, ConcatEmptySeq
    <3>3. shown'[r] = Append(shown[r], [frame |-> FrameOf(r, units), from |-> remote[r].pos])
      BY <1>6, <2>2
    <3>4. Sees(r, units)
      BY <1>1, <1>3, <1>4, <3>2, <3>3 DEF Sees, Author
    <3> QED BY <1>3, <1>9, <3>4 DEF Befalls
  <2> QED BY <1>7, <2>1, <2>2
<1> QED BY <1>0, <1>8, <1>9

LEMMA WriteSomeBefalls ==
    ASSUME TypeInv, NEW r \in Peers, NEW n \in 1 .. Room, WriteSome(r, n), NEW p \in Peers
    PROVE  Befalls(p) /\ (p = Other(r) /\ sock[p] => Gets(p, n))
<1> DEFINE q == Other(r)
           units == Units(r, n)
           S == UnitOf(r)
<1>0. q \in Peers /\ q # r /\ Other(q) = r /\ (p = r \/ p = q) /\ n \in Nat \ {0}
  BY OtherPeer, SizesAssumption
<1>1. /\ sending[r] # 0 /\ sent[r] + n <= FrameSize(r)
      /\ \/ wire' = [wire EXCEPT ![r] = @ \o units]
         \/ wire' = wire /\ ~sock[q]
      /\ sending' = [sending EXCEPT ![r] = LeftToSend(r, n)]
      /\ sent' = [sent EXCEPT ![r] = IF @ + n = FrameSize(r) THEN 0 ELSE @ + n]
      /\ UNCHANGED <<frames, received, shown>>
  BY DEF WriteSome, incoming, Units
<1>2. /\ sending \in [Peers -> Nat] /\ sent \in [Peers -> Nat]
      /\ wire = [s \in Peers |-> wire[s]]
      /\ sending[r] <= Len(frames[r]) /\ Len(frames[r]) \in Nat
  BY FrameSizes DEF TypeInv, Types, Streams
<1>3. Advances(r, n)
  BY <1>1, <1>2 DEF Advances
<1>4. units \in Seq(S)
  <2>1. units \in [1 .. n -> S]
    BY <1>1, <1>2 DEF Units, UnitOf
  <2> HIDE DEF S, units
  <2> QED BY <1>0, <2>1, SeqDef
<1>5. received[q] \in Seq(S) /\ wire[r] \in Seq(S)
  BY <1>0 DEF TypeInv, Streams
<1> HIDE DEF units, S
<1>6. CASE p = q
  <2>1. CASE wire' = [wire EXCEPT ![r] = @ \o units]
    <3>1. wire'[r] = wire[r] \o units
      BY <1>2, <2>1
    <3>2. Flow(q)' = received[q] \o (wire[r] \o units)
      BY <1>0, <1>1, <3>1 DEF Flow
    <3>3. received[q] \o (wire[r] \o units) = (received[q] \o wire[r]) \o units
      <4> DEFINE x == received[q]
                 y == wire[r]
      <4>1. x \in Seq(S) /\ y \in Seq(S)
        BY <1>5
      <4> HIDE DEF x, y
      <4>2. (x \o y) \o units = x \o (y \o units)
        BY <1>4, <4>1, ConcatAssociative
      <4> QED BY <4>2 DEF x, y
    <3>4. Flow(q)' = Flow(q) \o units
      BY <1>0, <3>2, <3>3 DEF Flow
    <3>5. Gets(q, n)
      BY <1>0, <1>1, <1>3, <3>4 DEF Gets, units
    <3> QED BY <1>0, <1>6, <3>5 DEF Befalls
  <2>2. CASE wire' = wire /\ ~sock[q]
    <3>1. Misses(q, n)
      BY <1>0, <1>1, <1>3, <2>2 DEF Misses, Flow
    <3>2. Befalls(q)
      BY <1>0, <3>1 DEF Befalls
    <3> QED BY <1>6, <2>2, <3>2
  <2> QED BY <1>1, <2>1, <2>2
<1>7. CASE p = r
  <2>1. wire'[q] = wire[q] /\ sending'[q] = sending[q] /\ sent'[q] = sent[q]
    BY <1>0, <1>1, <1>2
  <2>2. UNCHANGED <<received[r], shown[r], wire[q], frames[q], sending[q], sent[q]>>
    BY <1>1, <2>1
  <2>3. Stays(r)
    BY <2>2, KeptBefalls
  <2> QED BY <1>0, <1>7, <2>3 DEF Befalls
<1> QED BY <1>0, <1>6, <1>7

LEMMA EnterBefalls ==
    ASSUME TypeInv, NEW r \in Peers, NEW size \in TextSizes, Enter(r, size), NEW p \in Peers
    PROVE  Befalls(p) /\ (p = Other(r) => Awaits(p))
<1> DEFINE q == Other(r)
           new == Len(frames[r]) + 1
<1>0. /\ q \in Peers /\ q # r /\ Other(q) = r /\ (p = r \/ p = q)
      /\ size \in Nat /\ HeaderSize \in Nat \ {0}
  BY OtherPeer, SizesAssumption
<1>1. /\ sending' = [sending EXCEPT ![r] = new] /\ sent' = [sent EXCEPT ![r] = 0]
      /\ UNCHANGED <<wire, received, shown>>
  BY DEF Enter, incoming
<1>2. /\ frames' \in [Peers -> Seq(Frame)]
      /\ \A s \in Peers : s # r => frames'[s] = frames[s]
      /\ Len(frames'[r]) = new
      /\ \A m \in 1 .. Len(frames[r]) : frames'[r][m] = frames[r][m]
      /\ frames'[r][new] =
            [size |-> size, head |-> local[r].head, from |-> local[r].pos,
             sealed |-> EncryptSucceeds(local[r], size)]
  BY EnterFrames
<1>3. sending \in [Peers -> Nat] /\ sent \in [Peers -> Nat]
  BY DEF TypeInv, Types
<1>4. CASE p = q
  <2>1. frames'[r][new].size = size
    BY <1>2
  <2>2. HeaderSize + frames'[r][new].size \in Nat \ {0}
    BY <1>0, <2>1
  <2>3. sending'[r] = new /\ sent'[r] = 0
    BY <1>1, <1>3
  <2>4. Flow(q)' = Flow(q) /\ shown'[q] = shown[q]
    BY <1>1 DEF Flow
  <2>5. Awaits(q)
    BY <1>0, <1>2, <2>2, <2>3, <2>4 DEF Awaits
  <2> QED BY <1>4, <2>5 DEF Befalls
<1>5. CASE p = r
  <2>1. UNCHANGED <<received[r], shown[r], wire[q], frames[q], sending[q], sent[q]>>
    BY <1>0, <1>1, <1>2, <1>3
  <2>2. Stays(r)
    BY <2>1, KeptBefalls
  <2> QED BY <1>0, <1>5, <2>2 DEF Befalls
<1> QED BY <1>0, <1>4, <1>5

LEMMA StepBefalls ==
    ASSUME TypeInv, [Next]_vars, NEW p \in Peers
    PROVE  Befalls(p)
<1>1. ASSUME UNCHANGED <<wire, outgoing, received, shown>> PROVE Befalls(p)
  <2>1. UNCHANGED <<received[p], shown[p], wire[Other(p)]>>
    BY <1>1
  <2>2. UNCHANGED <<frames[Other(p)], sending[Other(p)], sent[Other(p)]>>
    BY <1>1 DEF outgoing
  <2> QED BY <2>1, <2>2, KeptBefalls DEF Befalls
<1>2. CASE Establish
  BY <1>1, <1>2 DEF Establish, incoming
<1>3. ASSUME NEW r \in Peers, SelectSome(r) PROVE Befalls(p)
  BY <1>1, <1>3 DEF SelectSome, Select, incoming
<1>4. ASSUME NEW r \in Peers, CloseSocket(r) \/ NodeClose(r),
             UNCHANGED <<outgoing, received, shown>>
      PROVE  Befalls(p)
  BY <1>4, CloseBefalls DEF Befalls
<1>5. ASSUME NEW r \in Peers, Read(r) PROVE Befalls(p)
  <2>1. CASE ReadFails(r)
    BY <1>4, <2>1 DEF ReadFails
  <2> QED BY <1>5, <2>1, ReadSomeBefalls DEF Read
<1>6. ASSUME NEW r \in Peers, Write(r) PROVE Befalls(p)
  <2>1. CASE WriteSkipped(r)
    BY <1>1, <2>1 DEF WriteSkipped, incoming
  <2>2. CASE WriteFails(r)
    BY <1>4, <2>2 DEF WriteFails, incoming
  <2> QED BY <1>6, <2>1, <2>2, WriteSomeBefalls DEF Write
<1>7. ASSUME NEW r \in Peers, Stdin(r) PROVE Befalls(p)
  <2>1. CASE Disconnect(r)
    BY <1>4, <2>1 DEF Disconnect, incoming
  <2>2. CASE OtherKey(r)
    BY <1>1, <2>2 DEF OtherKey, incoming
  <2> QED BY <1>7, <2>1, <2>2, EnterBefalls DEF Stdin
<1>8. ASSUME NEW r \in Peers, Check(r) PROVE Befalls(p)
  <2>1. CASE CheckFails(r)
    BY <1>4, <2>1 DEF CheckFails, incoming
  <2>2. CASE CheckPasses(r)
    BY <1>1, <2>2 DEF CheckPasses, incoming
  <2> QED BY <1>8, <2>1, <2>2 DEF Check
<1>9. ASSUME NEW r \in Peers, Exit(r) PROVE Befalls(p)
  BY <1>4, <1>9 DEF Exit, incoming
<1>10. CASE UNCHANGED vars
  BY <1>1, <1>10 DEF vars, incoming
<1> QED BY <1>2, <1>3, <1>5, <1>6, <1>7, <1>8, <1>9, <1>10 DEF Next, Handle

----------------------------------------------------------------------------
LEMMA OrderInit == Init => OrderInv
<1> SUFFICES ASSUME Init, NEW p \in Peers PROVE InOrder(p)
  BY DEF OrderInv
<1> DEFINE q == Other(p)
<1>0. q \in Peers
  BY OtherPeer
<1>1. /\ frames[q] = <<>> /\ sending[q] = 0 /\ sent[q] = 0
      /\ received[p] = <<>> /\ wire[q] = <<>> /\ shown[p] = <<>>
  BY <1>0 DEF Init
<1>2. Flow(p) = <<>> /\ Len(Flow(p)) = 0
  BY <1>1 DEF Flow
<1>3. SendingLatest(q) /\ FlowFits(p) /\ ShownBefore(p)
  BY <1>1, <1>2 DEF SendingLatest, FlowFits, ShownBefore
<1>4. Ordered(Flow(p), NextUnit(q))
  BY <1>2 DEF Ordered
<1> QED BY <1>3, <1>4 DEF InOrder

LEMMA OrderStep == TypeInv /\ OrderInv /\ [Next]_vars => OrderInv'
BY StepBefalls, BefallsInOrder DEF OrderInv

\* What counts as a text is the frame it came in.
LEMMA TextIsFrame ==
    ASSUME NEW p, NEW e PROVE TextOf(p, e) # 0 => TextOf(p, e) = e.frame /\ e.frame # 0
BY DEF TextOf

LEMMA OrderInvGives == TypeInv /\ OrderInv => ShownInOrder
<1> SUFFICES ASSUME TypeInv, OrderInv, NEW p \in Peers,
                    NEW i \in DOMAIN shown[p], NEW j \in DOMAIN shown[p],
                    i < j, Texts(p)[i] # 0, Texts(p)[j] # 0
             PROVE  Texts(p)[i] < Texts(p)[j]
  BY DEF ShownInOrder
<1>1. shown[p] \in Seq(Shown)
  BY DEF TypeInv, Types
<1>2. DOMAIN shown[p] = 1 .. Len(shown[p]) /\ Len(shown[p]) \in Nat
  BY <1>1, LenProperties
<1>3. Texts(p)[i] = shown[p][i].frame /\ Texts(p)[j] = shown[p][j].frame
      /\ shown[p][j].frame # 0
  BY TextIsFrame DEF Texts
<1>4. i \in 1 .. j - 1 /\ j \in 1 .. Len(shown[p])
  BY <1>2
<1>5. ShownBefore(p)
  BY DEF OrderInv, InOrder
<1> QED BY <1>3, <1>4, <1>5 DEF ShownBefore

\* Whatever the two users do, over lost connections, dropped frames and restarts
\* of the sending, no text appears twice or after a later one.
THEOREM ShownInOrderAlways == Spec => []ShownInOrder
<1>1. Spec => [](TypeInv /\ OrderInv)
  BY InitType, TypeStep, OrderInit, OrderStep, PTL DEF Spec
<1> QED BY <1>1, OrderInvGives, PTL

----------------------------------------------------------------------------
(***************************************************************************)
(* The refinement of Channel.  It holds as long as nobody types over a     *)
(* text that has not left yet, and either there is one connection only, or *)
(* one of the two users does nothing: a text cut short by a lost           *)
(* connection is continued in the next one, where the other side may have  *)
(* kept a beginning that is not its own.                                   *)
(***************************************************************************)
Orderly ==
    /\ Patient
    /\ \/ MaxSessions <= 1
       \/ \E p \in Peers : Typists \cup Leavers \cup Quitters \subseteq {p}

\* No unit of q's is missing between u and v.
FollowedBy(q, u, v) ==
    v = IF u[2] < FrameSizeOf(q, u[1]) THEN <<u[1], u[2] + 1>> ELSE <<u[1] + 1, 1>>
Linked(q, flow, next) ==
    \A i \in 1 .. Len(flow) : FollowedBy(q, flow[i], Nth(flow, next, i + 1))

\* The flow starts with the frame after the last one shown, and has no gap.
Chained(p) ==
    /\ Nth(Flow(p), NextUnit(Other(p)), 1) = <<Len(shown[p]) + 1, 1>>
    /\ Linked(Other(p), Flow(p), NextUnit(Other(p)))

\* The buffer has the size of a header until that has come, and then the size
\* that the header says.
Sized(p) ==
    IF Len(received[p]) < HeaderSize THEN receiving[p] \in {0, HeaderSize}
    ELSE receiving[p] = FrameSizeOf(Other(p), Len(shown[p]) + 1)

Unbroken(p) == Chained(p) /\ Sized(p)

\* Nothing will be read any more: a frame was dropped and is still in the way,
\* or there is no connection and will be none.
Dead(p) == Space(p) = 0 \/ (~sock[p] /\ sessions >= MaxSessions)

\* A user who does nothing never finds the connection reset, and if only his
\* side is closed it is because of the frame in the way.
Idle(p) == MaxSessions > 1 /\ p \notin Typists \cup Leavers \cup Quitters
IdleSide(p) ==
    Idle(p) => /\ ~rst[p]
               /\ ~sock[p] /\ sock[Other(p)] => Space(p) = 0

Flowing(p) ==
    /\ Unbroken(p) \/ Dead(p)
    /\ \A i \in 1 .. Len(shown[p]) : shown[p][i].frame = i
    /\ wire[Other(p)] # <<>> => sock[p]
    /\ sock[p] => sessions >= 1
    /\ p \notin Typists => frames[p] = <<>>
    /\ IdleSide(p)

ChannelInv == \A p \in Peers : Flowing(p)

LEMMA Least ==
    ASSUME NEW T, T \subseteq Nat, T # {}
    PROVE  \E x \in T : \A y \in T : x <= y
<1>1. PICK x \in T : \A y \in T : <<y, x>> \notin OpToRel(<, Nat)
  BY NatLessThanWellFounded, WFMin, Zenon
<1>2. ASSUME NEW y \in T, y < x PROVE FALSE
  <2>1. <<y, x>> \in Nat \X Nat /\ <<y, x>>[1] < <<y, x>>[2]
    BY <1>2
  <2>2. <<y, x>> \in OpToRel(<, Nat)
    BY <2>1 DEF OpToRel
  <2> QED BY <1>1, <2>2
<1> QED BY <1>2

\* The units of an unbroken flow that can belong to its first frame do.
LEMMA FirstFrame ==
    ASSUME NEW q, NEW f, NEW a, NEW m \in Nat, NEW size \in Nat, Len(f) \in Nat,
           size = FrameSizeOf(q, m),
           Nth(f, a, 1) = <<m, 1>>, Linked(q, f, a)
    PROVE  /\ \A i \in 1 .. Len(f) + 1 : i <= size => Nth(f, a, i) = <<m, i>>
           /\ 1 <= size /\ size <= Len(f) => Nth(f, a, size + 1) = <<m + 1, 1>>
<1> DEFINE T == {i \in Nat : i \in 1 .. Len(f) + 1 /\ i <= size /\ Nth(f, a, i) # <<m, i>>}
<1>1. ASSUME NEW i \in 1 .. Len(f), Nth(f, a, i) = <<m, i>>
      PROVE  Nth(f, a, i + 1) = IF i < size THEN <<m, i + 1>> ELSE <<m + 1, 1>>
  <2>1. f[i] = <<m, i>>
    BY <1>1 DEF Nth
  <2>2. FollowedBy(q, f[i], Nth(f, a, i + 1))
    BY DEF Linked
  <2>3. f[i][1] = m /\ f[i][2] = i
    BY <2>1
  <2> QED BY <2>2, <2>3 DEF FollowedBy
<1>2. T = {}
  <2> SUFFICES ASSUME T # {} PROVE FALSE
    OBVIOUS
  <2>1. PICK x \in T : \A y \in T : x <= y
    <3>1. T \subseteq Nat
      OBVIOUS
    <3> HIDE DEF T
    <3> QED BY <3>1, Least
  <2>2. x \in Nat /\ x \in 1 .. Len(f) + 1 /\ x <= size /\ Nth(f, a, x) # <<m, x>>
    OBVIOUS
  <2>3. x # 1
    BY <2>2
  <2>4. x - 1 \in 1 .. Len(f) /\ x - 1 <= size /\ x - 1 < size /\ (x - 1) + 1 = x
        /\ x - 1 \in Nat /\ ~(x <= x - 1)
    BY <2>2, <2>3
  <2>5. Nth(f, a, x - 1) = <<m, x - 1>>
    <3>1. x - 1 \notin T
      BY <2>1, <2>4
    <3>2. x - 1 \in 1 .. Len(f) + 1
      BY <2>4
    <3> QED BY <2>4, <3>1, <3>2
  <2> QED BY <1>1, <2>2, <2>4, <2>5
<1>3. ASSUME NEW i \in 1 .. Len(f) + 1, i <= size PROVE Nth(f, a, i) = <<m, i>>
  BY <1>2, <1>3
<1>4. ASSUME 1 <= size, size <= Len(f) PROVE Nth(f, a, size + 1) = <<m + 1, 1>>
  <2>1. size \in 1 .. Len(f) /\ size \in 1 .. Len(f) + 1
    BY <1>4
  <2>2. Nth(f, a, size) = <<m, size>>
    BY <1>3, <2>1
  <2>3. Nth(f, a, size + 1) = IF size < size THEN <<m, size + 1>> ELSE <<m + 1, 1>>
    BY <1>1, <2>1, <2>2
  <2>4. ~(size < size)
    OBVIOUS
  <2> QED BY <2>3, <2>4
<1> QED BY <1>3, <1>4

LEMMA LinkedLonger ==
    ASSUME NEW q, NEW f, NEW g, NEW a, NEW b, NEW c \in Nat, NEW s \in Nat,
           NEW n \in Nat \ {0},
           Continued(f, a, g, b, c, s, n), Linked(q, f, a),
           FrameSizeOf(q, c) \in Nat, s + n <= FrameSizeOf(q, c), FollowedBy(q, <<c, s + n>>, b)
    PROVE  /\ Linked(q, g, b) /\ Nth(g, b, 1) = Nth(f, a, 1)
<1> DEFINE L == Len(f)
           size == FrameSizeOf(q, c)
<1>5. size \in Nat /\ s + n <= size /\ size = FrameSizeOf(q, c)
  OBVIOUS
<1> HIDE DEF size
<1>0. a = <<c, s + 1>>
  <2>1. a \in Nat \X Nat /\ a[1] = c /\ a[2] = s + 1
    BY DEF Continued
  <2> QED BY <2>1
<1>1. /\ L \in Nat /\ Len(g) = L + n
      /\ \A i \in 1 .. L : g[i] = f[i]
      /\ \A i \in 1 .. n : g[L + i] = <<c, s + i>>
  BY DEF Continued
<1>2. ASSUME NEW i \in 1 .. L + 1 PROVE Nth(g, b, i) = Nth(f, a, i)
  <2>1. CASE i \in 1 .. L
    BY <1>1, <2>1, SMTT(30) DEF Nth
  <2>2. CASE i = L + 1
    <3>1. 1 \in 1 .. n /\ L + 1 <= Len(g) /\ ~(L + 1 <= L)
      BY <1>1
    <3> QED BY <1>0, <1>1, <2>2, <3>1 DEF Nth
  <2> QED BY <1>1, <2>1, <2>2
<1>3. ASSUME NEW i \in 1 .. L + n PROVE FollowedBy(q, g[i], Nth(g, b, i + 1))
  <2>1. CASE i \in 1 .. L
    <3>1. FollowedBy(q, f[i], Nth(f, a, i + 1))
      BY <2>1 DEF Linked
    <3>2. i + 1 \in 1 .. L + 1
      BY <1>1, <2>1
    <3> QED BY <1>1, <1>2, <2>1, <3>1, <3>2
  <2>2. CASE i = L + n
    <3>1. n \in 1 .. n /\ ~(L + n + 1 <= Len(g))
      BY <1>1
    <3>2. g[i] = <<c, s + n>> /\ Nth(g, b, i + 1) = b
      BY <1>1, <2>2, <3>1 DEF Nth
    <3> QED BY <3>2
  <2>3. CASE i \notin 1 .. L /\ i # L + n
    <3>1. PICK k \in 1 .. n : i = L + k
      <4>1. i \in 1 .. L + n + 1 /\ i # L + n + 1
        BY <1>1
      <4> QED BY <1>1, <2>3, <4>1, Beyond
    <3>2. k + 1 \in 1 .. n /\ i + 1 = L + (k + 1) /\ i + 1 <= Len(g) /\ k < n
      <4>1. k \in Nat /\ k # n
        BY <2>3, <3>1
      <4>2. k < n
        BY <4>1
      <4> HIDE DEF L
      <4> QED BY <1>1, <3>1, <4>2
    <3>3. g[i] = <<c, s + k>> /\ Nth(g, b, i + 1) = <<c, s + (k + 1)>>
      BY <1>1, <3>1, <3>2 DEF Nth
    <3>4. g[i][1] = c /\ g[i][2] = s + k
      BY <3>3
    <3>5. s + k < size /\ s + (k + 1) = (s + k) + 1
      BY <1>5, <3>2
    <3>6. Nth(g, b, i + 1) = <<g[i][1], g[i][2] + 1>> /\ g[i][2] < FrameSizeOf(q, g[i][1])
      BY <1>5, <3>3, <3>4, <3>5
    <3> QED BY <3>6, Zenon DEF FollowedBy
  <2> QED BY <2>1, <2>2, <2>3
<1> QED BY <1>1, <1>2, <1>3 DEF Linked

\* g is what comes behind the first k units of f.
Behind(f, k, g) ==
    /\ k \in Nat /\ Len(g) \in Nat /\ Len(f) = k + Len(g)
    /\ \A i \in 1 .. Len(g) : f[k + i] = g[i]

LEMMA LinkedSuffix ==
    ASSUME NEW q, NEW f, NEW g, NEW a, NEW k, Behind(f, k, g), Linked(q, f, a)
    PROVE  /\ Linked(q, g, a) /\ Nth(g, a, 1) = Nth(f, a, k + 1)
<1>0. /\ k \in Nat /\ Len(g) \in Nat /\ Len(f) = k + Len(g)
      /\ \A i \in 1 .. Len(g) : f[k + i] = g[i]
  BY DEF Behind
<1>1. ASSUME NEW i \in 1 .. Len(g) + 1
      PROVE  Nth(g, a, i) = Nth(f, a, k + i)
  BY <1>0 DEF Nth
<1>2. ASSUME NEW i \in 1 .. Len(g)
      PROVE  FollowedBy(q, g[i], Nth(g, a, i + 1))
  <2>1. k + i \in 1 .. Len(f) /\ i + 1 \in 1 .. Len(g) + 1 /\ (k + i) + 1 = k + (i + 1)
    BY <1>0
  <2>2. FollowedBy(q, f[k + i], Nth(f, a, (k + i) + 1))
    BY <2>1 DEF Linked
  <2> QED BY <1>0, <1>1, <2>1, <2>2
<1>3. 1 \in 1 .. Len(g) + 1
  BY <1>0
<1> QED BY <1>1, <1>2, <1>3 DEF Linked

\* The links hold as long as the frames do.
LEMMA LinkedKept ==
    ASSUME NEW p \in Peers, NEW q, q = Other(p),
           \A i \in 1 .. Len(Flow(p)') :
               FrameSizeOf(q, Flow(p)'[i][1]) = HeaderSize + frames'[q][Flow(p)'[i][1]].size,
           Linked(q, Flow(p)', NextUnit(q)')
    PROVE  Linked(Other(p), Flow(p), NextUnit(Other(p)))'
<1> DEFINE g == Flow(p)'
           b == NextUnit(q)'
<1>1. Linked(q, g, b) /\ \A i \in 1 .. Len(g) :
          FrameSizeOf(q, g[i][1]) = HeaderSize + frames'[q][g[i][1]].size
  OBVIOUS
<1> HIDE DEF g, b
<1>2. ASSUME NEW i \in 1 .. Len(g)
      PROVE  Nth(g, b, i + 1) = IF g[i][2] < HeaderSize + frames'[q][g[i][1]].size
                                THEN <<g[i][1], g[i][2] + 1>> ELSE <<g[i][1] + 1, 1>>
  BY <1>1 DEF Linked, FollowedBy
<1> QED BY <1>2 DEF Linked, FollowedBy, FrameSizeOf, g, b

LEMMA ChainStays ==
    ASSUME TypeInv, NEW p \in Peers, Chained(p), Stays(p)
    PROVE  Chained(p)'
<1> DEFINE q == Other(p)
           a == NextUnit(q)
<1>1. /\ frames'[q] = frames[q] /\ sending'[q] = sending[q] /\ sent'[q] = sent[q]
      /\ Flow(p)' = Flow(p) /\ shown'[p] = shown[p]
  BY DEF Stays, Author
<1>2. NextUnit(q)' = a
  BY <1>1 DEF NextUnit
<1>3. Nth(Flow(p), a, 1) = <<Len(shown[p]) + 1, 1>> /\ Linked(q, Flow(p), a)
  BY DEF Chained
<1>4. \A m : FrameSizeOf(q, m) = HeaderSize + frames'[q][m].size
  BY <1>1 DEF FrameSizeOf
<1> HIDE DEF a
<1>5. Linked(q, Flow(p), NextUnit(q))'
  BY <1>1, <1>2, <1>3, <1>4, LinkedKept
<1>6. Nth(Flow(p)', NextUnit(q)', 1) = <<Len(shown'[p]) + 1, 1>>
  BY <1>1, <1>2, <1>3
<1> QED BY <1>5, <1>6 DEF Chained, Nth

LEMMA ChainGets ==
    ASSUME TypeInv, NEW p \in Peers, NEW n \in Nat \ {0}, InOrder(p), Chained(p), Gets(p, n)
    PROVE  Chained(p)'
<1> DEFINE q == Other(p)
           f == Flow(p)
           g == Flow(p)'
           u == Units(q, n)
           a == NextUnit(q)
           b == NextUnit(q)'
           c == sending[q]
           s == sent[q]
           S == UnitOf(q)
           size == FrameSizeOf(q, c)
<1>1. q \in Peers /\ SendingLatest(q) /\ Advances(q, n)
  BY OtherPeer DEF Gets, InOrder
<1>2. g = f \o u /\ shown'[p] = shown[p] /\ frames'[q] = frames[q]
  BY DEF Gets, Advances
<1>3. /\ a = <<c, s + 1>> /\ b \in Nat \X Nat /\ c = Len(frames[q])
      /\ Earlier(<<c, s + n>>, b)
  BY <1>1, NextAfterUnits
<1>4. Nth(f, a, 1) = <<Len(shown[p]) + 1, 1>> /\ Linked(q, f, a)
  BY DEF Chained
<1>5. c \in Nat /\ s \in Nat /\ size \in Nat /\ s + n <= size
  <2>1. FrameSize(q) = size
    BY DEF FrameSize
  <2>2. c # 0 /\ s + n <= FrameSize(q)
    BY <1>1 DEF Advances
  <2> QED BY <1>1, <2>1, <2>2, FrameSizes
<1>6. /\ u \in Seq(S) /\ Len(u) = n
      /\ \A i \in 1 .. n : u[i] = <<c, s + i>>
  BY <1>1, UnitsFacts
<1>7. f \in Seq(S)
  BY FlowFacts
<1>8. S \subseteq Nat \X Nat
  BY DEF UnitOf
<1>9. FollowedBy(q, <<c, s + n>>, b)
  <2>1. /\ sending'[q] = IF s + n = size THEN 0 ELSE c
        /\ sent'[q] = IF s + n = size THEN 0 ELSE s + n
        /\ Len(frames'[q]) = c /\ c # 0
    BY <1>1, <1>3 DEF Advances, LeftToSend, FrameSize
  <2>2. b = IF sending'[q] = 0 THEN <<Len(frames'[q]) + 1, 1>>
                               ELSE <<sending'[q], sent'[q] + 1>>
    BY DEF NextUnit
  <2>3. size = FrameSizeOf(q, c)
    OBVIOUS
  <2> HIDE DEF b, c, s, size
  <2>4. b = IF s + n < size THEN <<c, s + n + 1>> ELSE <<c + 1, 1>>
    BY <1>5, <2>1, <2>2
  <2> QED BY <2>3, <2>4 DEF FollowedBy
<1>10. \A m : FrameSizeOf(q, m) = HeaderSize + frames'[q][m].size
  BY <1>2 DEF FrameSizeOf
<1>11. size = FrameSizeOf(q, c)
  OBVIOUS
<1> HIDE DEF f, g, u, a, b, c, s, S, size
<1>12. Continued(f, a, g, b, c, s, n)
  <2>1. /\ Len(f \o u) = Len(f) + Len(u) /\ Len(f) \in Nat
        /\ \A i \in 1 .. Len(f) : (f \o u)[i] = f[i]
        /\ \A i \in 1 .. Len(u) : (f \o u)[Len(f) + i] = u[i]
    <3>1. u \in Seq(S)
      BY <1>6
    <3> QED BY <1>7, <3>1, ConcatFacts
  <2>2. g = f \o u /\ Len(u) = n /\ \A i \in 1 .. n : u[i] = <<c, s + i>>
    BY <1>2, <1>6
  <2>3. /\ Len(g) = Len(f) + n /\ Len(f) \in Nat
        /\ \A i \in 1 .. Len(f) : g[i] = f[i]
        /\ \A i \in 1 .. n : g[Len(f) + i] = <<c, s + i>>
    BY <2>1, <2>2, Zenon
  <2>4. \A i \in 1 .. Len(f) : f[i] \in Nat \X Nat
    BY <1>7, <1>8, ElementOfSeq
  <2>5. /\ a \in Nat \X Nat /\ a[1] = c /\ a[2] = s + 1
        /\ b \in Nat \X Nat /\ (c < b[1] \/ (c = b[1] /\ s + n < b[2]))
    BY <1>3, <1>5 DEF Earlier
  <2> QED BY <2>3, <2>4, <2>5 DEF Continued
<1>13. Linked(q, g, b) /\ Nth(g, b, 1) = Nth(f, a, 1)
  <2>1. FrameSizeOf(q, c) \in Nat /\ s + n <= FrameSizeOf(q, c) /\ c \in Nat /\ s \in Nat
    BY <1>5, <1>11
  <2>2. Linked(q, f, a)
    BY <1>4
  <2> QED BY <2>1, <2>2, <1>9, <1>12, LinkedLonger
<1>14. Linked(q, Flow(p), NextUnit(q))'
  <2>1. Linked(q, Flow(p)', NextUnit(q)')
    BY <1>13 DEF g, b
  <2> QED BY <1>10, <2>1, LinkedKept
<1>15. Nth(Flow(p)', NextUnit(q)', 1) = <<Len(shown'[p]) + 1, 1>>
  BY <1>2, <1>4, <1>13 DEF g, b
<1> QED BY <1>14, <1>15 DEF Chained, Nth

LEMMA ChainAwaits ==
    ASSUME TypeInv, NEW p \in Peers, Chained(p), Awaits(p), sending[Other(p)] = 0
    PROVE  Chained(p)'
<1> DEFINE q == Other(p)
           new == Len(frames[q]) + 1
           f == Flow(p)
           a == NextUnit(q)
<1>1. /\ Len(frames'[q]) = new /\ sending'[q] = new /\ sent'[q] = 0
      /\ \A m \in 1 .. Len(frames[q]) : frames'[q][m] = frames[q][m]
      /\ Flow(p)' = f /\ shown'[p] = shown[p]
  BY DEF Awaits
<1>2. q \in Peers /\ new \in Nat \ {0}
  BY OtherPeer, FrameSizes
<1>3. a = <<new, 1>> /\ NextUnit(q)' = a
  BY <1>1, <1>2 DEF NextUnit
<1>4. Nth(f, a, 1) = <<Len(shown[p]) + 1, 1>> /\ Linked(q, f, a)
  BY DEF Chained
<1>5. ASSUME NEW i \in 1 .. Len(f)
      PROVE  FrameSizeOf(q, f[i][1]) = HeaderSize + frames'[q][f[i][1]].size
  <2>1. f[i] \in UnitOf(q)
    BY FlowFacts
  <2>2. f[i][1] \in 1 .. Len(frames[q])
    BY <2>1 DEF UnitOf
  <2> HIDE DEF f
  <2>3. frames'[q][f[i][1]] = frames[q][f[i][1]]
    BY <1>1, <2>2
  <2> QED BY <2>3 DEF FrameSizeOf
<1> HIDE DEF a, new
<1>6. Linked(q, Flow(p), NextUnit(q))'
  BY <1>1, <1>3, <1>4, <1>5, LinkedKept
<1>7. Nth(Flow(p)', NextUnit(q)', 1) = <<Len(shown'[p]) + 1, 1>>
  BY <1>1, <1>3, <1>4
<1> QED BY <1>6, <1>7 DEF Chained, Nth

\* What comes first in an unbroken flow is the frame after the last one shown.
LEMMA FrameArrives ==
    ASSUME TypeInv, NEW p \in Peers, Chained(p),
           NEW units \in Seq(UnitOf(Other(p))), NEW rest \in Seq(UnitOf(Other(p))),
           Flow(p) = units \o rest, Len(units) > 0,
           NEW m, m = Len(shown[p]) + 1
    PROVE  /\ units[1] = <<m, 1>> /\ m \in 1 .. Len(frames[Other(p)])
           /\ FrameSizeOf(Other(p), m) \in Nat
           /\ Len(units) <= FrameSizeOf(Other(p), m) => Intact(m, units)
           /\ Len(units) = FrameSizeOf(Other(p), m) =>
                 /\ FrameOf(p, units) = m
                 /\ Nth(rest, NextUnit(Other(p)), 1) = <<m + 1, 1>>
                 /\ Linked(Other(p), rest, NextUnit(Other(p)))
<1> DEFINE q == Other(p)
           f == Flow(p)
           a == NextUnit(q)
           k == Len(units)
           S == UnitOf(q)
           size == FrameSizeOf(q, m)
<1>0. q \in Peers
  BY OtherPeer
<1>1. Nth(f, a, 1) = <<m, 1>> /\ Linked(q, f, a)
  BY DEF Chained
<1>2. /\ Len(f) = k + Len(rest) /\ Len(rest) \in Nat /\ k \in Nat /\ Len(f) \in Nat
      /\ \A i \in 1 .. k : f[i] = units[i]
      /\ \A i \in 1 .. Len(rest) : f[k + i] = rest[i]
  <2> HIDE DEF f, S
  <2>0. units \in Seq(S) /\ rest \in Seq(S) /\ f = units \o rest
    BY DEF f, S
  <2>1. /\ Len(units \o rest) = k + Len(rest) /\ Len(rest) \in Nat /\ k \in Nat
        /\ \A i \in 1 .. k : (units \o rest)[i] = units[i]
        /\ \A i \in 1 .. Len(rest) : (units \o rest)[k + i] = rest[i]
    BY <2>0, ConcatFacts
  <2>2. k + Len(rest) \in Nat
    BY <2>1
  <2> QED BY <2>0, <2>1, <2>2, Zenon
<1>3. units[1] = <<m, 1>>
  <2> HIDE DEF f, a
  <2>1. 1 \in 1 .. k /\ 1 <= Len(f)
    BY <1>2
  <2> QED BY <1>1, <1>2, <2>1 DEF Nth
<1>4. m \in 1 .. Len(frames[q])
  <2>1. units[1][1] = m
    BY <1>3
  <2> QED BY <2>1, FirstUnit
<1>5. m \in Nat /\ size \in Nat /\ Len(frames[q]) \in Nat
  BY <1>0, <1>4, FrameSizes
<1>6. size = FrameSizeOf(q, m) /\ size = HeaderSize + frames[q][m].size
  BY DEF FrameSizeOf
<1> HIDE DEF f, a, size
<1>7. /\ \A i \in 1 .. Len(f) + 1 : i <= size => Nth(f, a, i) = <<m, i>>
      /\ 1 <= size /\ size <= Len(f) => Nth(f, a, size + 1) = <<m + 1, 1>>
  BY <1>1, <1>2, <1>5, <1>6, FirstFrame, SMTT(30)
<1>8. ASSUME k <= size PROVE Intact(m, units)
  <2>1. ASSUME NEW i \in 1 .. k PROVE units[i] = <<m, i>>
    <3>1. i \in 1 .. Len(f) + 1 /\ i <= size /\ i <= Len(f)
      BY <1>2, <1>5, <1>8
    <3>2. Nth(f, a, i) = f[i]
      BY <3>1 DEF Nth
    <3> QED BY <1>2, <1>7, <3>1, <3>2
  <2>2. DOMAIN units = 1 .. k /\ units = [i \in 1 .. k |-> units[i]]
    BY LenProperties
  <2> QED BY <2>1, <2>2 DEF Intact
<1>9. ASSUME k = size PROVE FrameOf(p, units) = m
  <2>1. Intact(m, units) /\ units[1][1] = m
    BY <1>2, <1>3, <1>8, <1>9
  <2> QED BY <1>6, <1>9, <2>1 DEF FrameOf
<1>10. Linked(q, rest, a) /\ Nth(rest, a, 1) = Nth(f, a, k + 1)
  <2>1. Behind(f, k, rest)
    BY <1>2 DEF Behind
  <2> QED BY <1>1, <2>1, LinkedSuffix
<1>11. ASSUME k = size PROVE Nth(rest, a, 1) = <<m + 1, 1>>
  <2>1. 1 <= size /\ size <= Len(f)
    BY <1>2, <1>5, <1>11
  <2> QED BY <1>7, <1>10, <1>11, <2>1
<1> QED BY <1>3, <1>4, <1>5, <1>6, <1>8, <1>9, <1>10, <1>11 DEF a

LEMMA ChainSees ==
    ASSUME TypeInv, NEW p \in Peers, Chained(p),
           NEW units \in Seq(UnitOf(Other(p))), Sees(p, units),
           Len(units) = FrameSizeOf(Other(p), Len(shown[p]) + 1)
    PROVE  Chained(p)' /\ FrameOf(p, units) = Len(shown[p]) + 1
<1> DEFINE q == Other(p)
           m == Len(shown[p]) + 1
           g == Flow(p)'
           a == NextUnit(q)
           e == [frame |-> FrameOf(p, units), from |-> remote[p].pos]
<1>1. /\ frames'[q] = frames[q] /\ sending'[q] = sending[q] /\ sent'[q] = sent[q]
      /\ Len(units) > 0 /\ g \in Seq(UnitOf(q)) /\ Flow(p) = units \o g
      /\ shown'[p] = Append(shown[p], e)
  BY DEF Sees, Author
<1>2. FrameOf(p, units) = m /\ Nth(g, a, 1) = <<m + 1, 1>> /\ Linked(q, g, a)
  BY <1>1, FrameArrives
<1>3. Len(shown'[p]) = m /\ m \in Nat
  <2>1. shown[p] \in Seq(Shown)
    BY DEF TypeInv, Types
  <2>2. remote[p].pos \in Int /\ FrameOf(p, units) \in Nat
    BY <1>1, FirstUnit DEF TypeInv, Types, KeyType
  <2>3. e \in Shown
    BY <2>2 DEF Shown
  <2> HIDE DEF e
  <2> QED BY <1>1, <2>1, <2>3, LenProperties, AppendProperties
<1>4. NextUnit(q)' = a /\ \A n : FrameSizeOf(q, n) = HeaderSize + frames'[q][n].size
  BY <1>1 DEF NextUnit, FrameSizeOf
<1> HIDE DEF a, m
<1>5. Linked(q, Flow(p), NextUnit(q))'
  BY <1>2, <1>4, LinkedKept
<1>6. Nth(Flow(p)', NextUnit(q)', 1) = <<Len(shown'[p]) + 1, 1>>
  BY <1>2, <1>3, <1>4
<1> QED BY <1>2, <1>5, <1>6 DEF Chained, Nth, m

----------------------------------------------------------------------------
LEMMA AskedFacts ==
    ASSUME TypeInv, NEW p \in Peers
    PROVE  /\ HeaderSize \in Nat \ {0} /\ receiving[p] \in Nat /\ Asked(p) \in Nat \ {0}
           /\ Len(received[p]) \in Nat
           /\ Asked(p) = IF receiving[p] = 0 THEN HeaderSize ELSE receiving[p]
           /\ Space(p) = Asked(p) - Len(received[p])
<1>1. HeaderSize \in Nat \ {0}
  BY SizesAssumption
<1>2. receiving[p] \in Nat /\ received[p] \in Seq(UnitOf(Other(p)))
  BY DEF TypeInv, Types, Streams
<1>3. Len(received[p]) \in Nat
  BY <1>2, LenProperties
<1> QED BY <1>1, <1>2, <1>3 DEF Asked, Space

\* An empty buffer may have been allocated, and nothing else changes.
SameBuffer(p) ==
    /\ received'[p] = received[p] /\ shown'[p] = shown[p]
    /\ receiving'[p] = receiving[p] \/ receiving'[p] = Asked(p)

LEMMA SpaceKept ==
    ASSUME TypeInv, NEW p \in Peers, SameBuffer(p)
    PROVE  Space(p)' = Space(p)
<1>1. Asked(p) \in Nat \ {0} /\ Asked(p) = IF receiving[p] = 0 THEN HeaderSize ELSE receiving[p]
  BY AskedFacts
<1>2. Asked(p)' = IF receiving'[p] = 0 THEN HeaderSize ELSE receiving'[p]
  BY DEF Asked
<1>3. Asked(p)' = Asked(p)
  BY <1>1, <1>2 DEF SameBuffer
<1> QED BY <1>3 DEF Space, SameBuffer

\* Once its header is there, the first frame of an unbroken flow exists.
LEMMA FirstExists ==
    ASSUME TypeInv, NEW p \in Peers, Chained(p), Len(received[p]) > 0
    PROVE  Len(shown[p]) + 1 \in 1 .. Len(frames[Other(p)])
<1> DEFINE u == Flow(p)[1]
<1>1. /\ Len(received[p]) \in Nat /\ Len(Flow(p)) >= Len(received[p]) /\ Len(Flow(p)) \in Nat
      /\ \A i \in 1 .. Len(Flow(p)) : Flow(p)[i] \in UnitOf(Other(p))
  <2>1. /\ Len(Flow(p)) = Len(received[p]) + Len(wire[Other(p)]) /\ Len(Flow(p)) \in Nat
        /\ Len(received[p]) \in Nat /\ Len(wire[Other(p)]) \in Nat
    BY FlowFacts
  <2>2. Len(received[p]) <= Len(Flow(p))
    BY <2>1, PartOfSum
  <2>3. \A i \in 1 .. Len(Flow(p)) : Flow(p)[i] \in UnitOf(Other(p))
    BY FlowFacts
  <2> QED BY <2>1, <2>2, <2>3
<1>2. 1 <= Len(Flow(p)) /\ 1 \in 1 .. Len(Flow(p))
  BY <1>1
<1>3. u = <<Len(shown[p]) + 1, 1>>
  BY <1>2 DEF Chained, Nth
<1>4. u \in UnitOf(Other(p))
  BY <1>1, <1>2
<1> HIDE DEF u
<1> QED BY <1>3, <1>4 DEF UnitOf

LEMMA SizedKept ==
    ASSUME TypeInv, NEW p \in Peers, Unbroken(p), SameBuffer(p),
           \A m \in 1 .. Len(frames[Other(p)]) : frames'[Other(p)][m] = frames[Other(p)][m]
    PROVE  Sized(p)'
<1> DEFINE q == Other(p)
           m == Len(shown[p]) + 1
<1>1. /\ HeaderSize \in Nat \ {0} /\ receiving[p] \in Nat /\ Len(received[p]) \in Nat
      /\ Asked(p) = IF receiving[p] = 0 THEN HeaderSize ELSE receiving[p]
  BY AskedFacts
<1>2. received'[p] = received[p] /\ shown'[p] = shown[p]
      /\ (receiving'[p] = receiving[p] \/ receiving'[p] = Asked(p))
  BY DEF SameBuffer
<1>3. CASE Len(received[p]) < HeaderSize
  <2>1. receiving[p] \in {0, HeaderSize}
    BY <1>3 DEF Unbroken, Sized
  <2>2. receiving'[p] \in {0, HeaderSize}
    BY <1>1, <1>2, <2>1
  <2> QED BY <1>2, <1>3, <2>2 DEF Sized
<1>4. CASE ~(Len(received[p]) < HeaderSize)
  <2>1. receiving[p] = FrameSizeOf(q, m)
    BY <1>4 DEF Unbroken, Sized
  <2>2. m \in 1 .. Len(frames[q])
    BY <1>1, <1>4, FirstExists DEF Unbroken
  <2>3. receiving[p] # 0
    BY <2>1, <2>2, OtherPeer, FrameSizes
  <2>4. receiving'[p] = receiving[p]
    BY <1>1, <1>2, <2>3
  <2>5. FrameSizeOf(q, Len(shown[p]) + 1)' = FrameSizeOf(q, m)
    BY <1>2, <2>2 DEF FrameSizeOf
  <2> QED BY <1>2, <1>4, <2>1, <2>4, <2>5 DEF Sized
<1> QED BY <1>3, <1>4

\* The steps that do not touch p's side of the connection.
LEMMA FlowingKept ==
    ASSUME TypeInv, NEW p \in Peers, Flowing(p), Chained(p) => Chained(p)', SameBuffer(p),
           \A m \in 1 .. Len(frames[Other(p)]) : frames'[Other(p)][m] = frames[Other(p)][m],
           sock'[p] = sock[p], sessions' = sessions, sock'[Other(p)] => sock[Other(p)],
           wire'[Other(p)] # <<>> => wire[Other(p)] # <<>> \/ sock[p],
           p \notin Typists => frames'[p] = frames[p],
           Idle(p) => rst'[p] = rst[p]
    PROVE  Flowing(p)'
<1>1. Space(p)' = Space(p)
  BY SpaceKept
<1>2. Unbroken(p)' \/ Dead(p)'
  <2>1. CASE Unbroken(p)
    <3>1. Chained(p)' /\ Sized(p)'
      BY <2>1, SizedKept DEF Unbroken
    <3> QED BY <3>1 DEF Unbroken
  <2>2. CASE Dead(p)
    BY <1>1, <2>2 DEF Dead
  <2> QED BY <2>1, <2>2 DEF Flowing
<1>3. IdleSide(p)'
  BY <1>1 DEF Flowing, IdleSide, Idle
<1>4. /\ \A i \in 1 .. Len(shown'[p]) : shown'[p][i].frame = i
      /\ wire'[Other(p)] # <<>> => sock'[p]
      /\ sock'[p] => sessions' >= 1
      /\ p \notin Typists => frames'[p] = <<>>
  BY DEF Flowing, SameBuffer
<1> QED BY <1>2, <1>3, <1>4 DEF Flowing

\* Nobody has anything to read from a user who types nothing.
LEMMA NothingTyped ==
    ASSUME TypeInv, NEW q \in Peers, frames[q] = <<>>
    PROVE  wire[q] = <<>> /\ sending[q] = 0
<1>1. Len(frames[q]) = 0
  BY EmptySeq
<1>2. sending[q] = 0
  BY <1>1, FrameSizes
<1>3. UnitOf(q) = {}
  BY <1>1 DEF UnitOf
<1>4. wire[q] \in Seq({})
  BY <1>3 DEF TypeInv, Streams
<1>5. wire[q] = <<>>
  <2>1. Len(wire[q]) \in Nat /\ \A i \in 1 .. Len(wire[q]) : wire[q][i] \in {}
    BY <1>4, LenProperties, ElementOfSeq
  <2>2. Len(wire[q]) = 0
    <3>1. CASE Len(wire[q]) > 0
      <4>1. 1 \in 1 .. Len(wire[q])
        BY <2>1, <3>1
      <4> QED BY <2>1, <4>1
    <3> QED BY <2>1, <3>1
  <2> QED BY <1>4, <2>2, EmptySeq
<1> QED BY <1>2, <1>5

\* With several connections one of the two users does nothing.
LEMMA OneIsIdle ==
    ASSUME Orderly, NEW p \in Peers, ~(MaxSessions <= 1)
    PROVE  Idle(p) \/ Idle(Other(p))
<1>1. PICK r \in Peers : Typists \cup Leavers \cup Quitters \subseteq {r}
  BY DEF Orderly
<1>2. MaxSessions > 1
  BY BoundsAssumption
<1>3. p # r \/ Other(p) # r
  BY OtherPeer
<1> QED BY <1>1, <1>2, <1>3 DEF Idle

----------------------------------------------------------------------------
LEMMA QuietFlows ==
    ASSUME TypeInv, NEW p \in Peers, Flowing(p),
           UNCHANGED <<sock, rst, sessions, wire, outgoing, incoming>>
    PROVE  Flowing(p)'
<1>1. UNCHANGED <<frames, sending, sent, receiving, received, shown>>
  BY DEF outgoing, incoming
<1>2. Stays(p)
  BY <1>1, KeptBefalls
<1>3. Chained(p) => Chained(p)'
  BY <1>2, ChainStays
<1>4. SameBuffer(p)
  BY <1>1 DEF SameBuffer
<1> QED BY <1>1, <1>3, <1>4, FlowingKept

\* A new connection carries on where the last one stopped.
LEMMA EstablishFlows ==
    ASSUME TypeInv, NEW p \in Peers, Flowing(p), Establish
    PROVE  Flowing(p)'
<1>1. /\ UNCHANGED <<frames, sending, sent, receiving, received, shown, wire>>
      /\ sessions < MaxSessions /\ sessions' = sessions + 1
      /\ sock'[p] = TRUE /\ rst'[p] = FALSE
  BY DEF Establish, outgoing, incoming
<1>2. sessions \in Nat /\ MaxSessions \in Nat
  BY BoundsAssumption DEF TypeInv, Types
<1>3. SameBuffer(p) /\ Stays(p)
  BY <1>1, KeptBefalls DEF SameBuffer
<1>4. Space(p)' = Space(p)
  BY <1>3, SpaceKept
<1>5. Unbroken(p)' \/ Dead(p)'
  <2>1. CASE Unbroken(p)
    <3>1. Chained(p)'
      BY <1>3, <2>1, ChainStays DEF Unbroken
    <3>2. Sized(p)'
      BY <1>1, <1>3, <2>1, SizedKept
    <3> QED BY <3>1, <3>2 DEF Unbroken
  <2>2. CASE Dead(p)
    BY <1>1, <1>2, <1>4, <2>2 DEF Dead
  <2> QED BY <2>1, <2>2 DEF Flowing
<1>6. IdleSide(p)'
  BY <1>1 DEF IdleSide
<1>7. sessions' >= 1
  BY <1>1, <1>2
<1> QED BY <1>1, <1>5, <1>6, <1>7 DEF Flowing

\* What closing does, for the two sides.
LEMMA CloseFacts ==
    ASSUME TypeInv, NEW r \in Peers, NEW q, q = Other(r), CloseSocket(r)
    PROVE  /\ q \in Peers /\ q # r /\ Other(q) = r
           /\ sock'[r] = FALSE /\ sock'[q] = sock[q]
           /\ rst'[r] = rst[r] /\ rst'[q] = (rst[q] \/ wire[q] # <<>>)
           /\ wire'[q] = <<>> /\ wire'[r] = IF sock[q] THEN wire[r] ELSE <<>>
<1>1. q \in Peers /\ q # r /\ Other(q) = r
  BY OtherPeer
<1>2. /\ sock \in [Peers -> BOOLEAN] /\ rst \in [Peers -> BOOLEAN]
      /\ wire = [s \in Peers |-> wire[s]]
  BY DEF TypeInv, Types, Streams
<1> QED BY <1>1, <1>2 DEF CloseSocket

\* The other side still reads what is on its way.
LEMMA CloseFlowsOther ==
    ASSUME TypeInv, NEW r \in Peers, NEW p, p = Other(r), Flowing(p), CloseSocket(r),
           UNCHANGED <<sessions, outgoing, received, shown>>, receiving'[p] = receiving[p]
    PROVE  Flowing(p)'
<1>1. /\ p \in Peers /\ p # r /\ Other(p) = r
      /\ sock'[r] = FALSE /\ sock'[p] = sock[p]
      /\ rst'[p] = (rst[p] \/ wire[p] # <<>>)
      /\ wire'[r] = IF sock[p] THEN wire[r] ELSE <<>>
  BY CloseFacts
<1>2. wire'[r] = wire[r]
  BY <1>1 DEF Flowing
<1>3. UNCHANGED <<frames, sending, sent>>
  BY DEF outgoing
<1>4. Stays(p) /\ SameBuffer(p)
  BY <1>1, <1>2, <1>3, KeptBefalls DEF SameBuffer
<1>5. Chained(p) => Chained(p)'
  BY <1>1, <1>4, ChainStays
<1>6. Idle(p) => rst'[p] = rst[p]
  <2>1. Idle(p) => frames[p] = <<>>
    BY DEF Idle, Flowing
  <2>2. rst[p] \in BOOLEAN
    BY <1>1 DEF TypeInv, Types
  <2> QED BY <1>1, <2>1, <2>2, NothingTyped
<1> QED BY <1>1, <1>2, <1>3, <1>4, <1>5, <1>6, FlowingKept

\* The side that closes forgets what it has not read: with one connection there
\* is nothing to read after it, and a user who does nothing only closes when
\* nothing more will be read or has come.
LEMMA CloseFlowsSelf ==
    ASSUME TypeInv, ChannelInv, Orderly, NEW r \in Peers, NEW q, q = Other(r), CloseSocket(r),
           UNCHANGED <<sessions, outgoing>>, SameBuffer(r),
           Idle(r) => Space(r) = 0 \/ (wire[q] = <<>> /\ ~sock[q])
    PROVE  Flowing(r)'
<1>1. /\ q \in Peers /\ q # r /\ Other(q) = r
      /\ sock'[r] = FALSE /\ sock'[q] = sock[q]
      /\ rst'[r] = rst[r] /\ wire'[q] = <<>>
  BY CloseFacts
<1>2. Flowing(r) /\ Flowing(q)
  BY <1>1 DEF ChannelInv
<1>3. /\ UNCHANGED <<frames, sending, sent>>
      /\ received'[r] = received[r] /\ shown'[r] = shown[r]
  BY DEF outgoing, SameBuffer
<1>4. Space(r)' = Space(r)
  BY SpaceKept
<1>5. sessions \in Nat /\ MaxSessions \in Nat
  BY BoundsAssumption DEF TypeInv, Types
<1>6. ASSUME wire[q] = <<>> PROVE Unbroken(r)' \/ Dead(r)'
  <2>1. CASE Unbroken(r)
    <3>1. Stays(r)
      BY <1>1, <1>3, <1>6, KeptBefalls
    <3>2. Chained(r)'
      BY <2>1, <3>1, ChainStays DEF Unbroken
    <3>3. Sized(r)'
      BY <1>3, <2>1, SizedKept
    <3> QED BY <3>2, <3>3 DEF Unbroken
  <2>2. CASE Dead(r)
    BY <1>1, <1>4, <2>2 DEF Dead
  <2> QED BY <1>2, <2>1, <2>2 DEF Flowing
<1>7. Unbroken(r)' \/ Dead(r)'
  <2>1. CASE MaxSessions <= 1
    <3>1. CASE sock[r]
      <4>1. sessions >= MaxSessions
        BY <1>2, <1>5, <2>1, <3>1 DEF Flowing
      <4> QED BY <1>1, <4>1 DEF Dead
    <3>2. CASE ~sock[r]
      BY <1>2, <1>6, <3>2 DEF Flowing
    <3> QED BY <3>1, <3>2
  <2>2. CASE ~(MaxSessions <= 1)
    <3>1. CASE Idle(r)
      BY <1>4, <1>6, <3>1 DEF Dead
    <3>2. CASE Idle(q)
      <4>1. frames[q] = <<>>
        BY <1>2, <3>2 DEF Flowing, Idle
      <4> QED BY <1>1, <1>6, <4>1, NothingTyped
    <3> QED BY <2>2, <3>1, <3>2, OneIsIdle
  <2> QED BY <2>1, <2>2
<1>8. IdleSide(r)'
  BY <1>1, <1>2, <1>4 DEF IdleSide, Idle, Flowing
<1> QED BY <1>1, <1>2, <1>3, <1>7, <1>8 DEF Flowing

LEMMA CloseFlows ==
    ASSUME TypeInv, ChannelInv, Orderly, NEW r \in Peers, CloseSocket(r),
           UNCHANGED <<sessions, outgoing, received, shown>>,
           receiving' = receiving \/ receiving' = [receiving EXCEPT ![r] = Asked(r)],
           Idle(r) => Space(r) = 0 \/ (wire[Other(r)] = <<>> /\ ~sock[Other(r)]),
           NEW p \in Peers
    PROVE  Flowing(p)'
<1>1. receiving \in [Peers -> Nat]
  BY DEF TypeInv, Types
<1>2. CASE p = r
  <2>1. SameBuffer(r)
    BY <1>1 DEF SameBuffer
  <2> QED BY <1>2, <2>1, CloseFlowsSelf
<1>3. CASE p # r
  <2>1. p = Other(r) /\ receiving'[p] = receiving[p]
    BY <1>1, <1>3, OtherPeer
  <2>2. Flowing(p)
    BY DEF ChannelInv
  <2> QED BY <2>1, <2>2, CloseFlowsOther
<1> QED BY <1>2, <1>3

\* A user who does nothing does not close by himself.
LEMMA NodeCloseFlows ==
    ASSUME TypeInv, ChannelInv, Orderly, NEW r \in Peers, NodeClose(r),
           UNCHANGED <<sessions, outgoing, incoming>>,
           Idle(r) => ~sock[r],
           NEW p \in Peers
    PROVE  Flowing(p)'
<1>1. UNCHANGED <<received, shown, receiving>>
  BY DEF incoming
<1>2. CASE sock[r]
  <2>1. CloseSocket(r)
    BY <1>2 DEF NodeClose
  <2>2. ~Idle(r)
    BY <1>2
  <2> QED BY <1>1, <2>1, <2>2, CloseFlows
<1>3. CASE ~sock[r]
  <2>1. UNCHANGED <<sock, rst, wire>>
    BY <1>3 DEF NodeClose
  <2>2. Flowing(p)
    BY DEF ChannelInv
  <2> QED BY <2>1, <2>2, QuietFlows
<1> QED BY <1>2, <1>3

----------------------------------------------------------------------------
\* What ReadSome(r, n) takes from the flow and what it leaves.
Reads(r, units, rest) ==
    /\ units \in Seq(UnitOf(Other(r))) /\ rest \in Seq(UnitOf(Other(r)))
    /\ Flow(r) = units \o rest
    /\ Len(received[r]) < Len(units) /\ Len(units) \in Nat /\ Len(units) <= Asked(r)
    /\ wire[Other(r)] # <<>> /\ wire' = [wire EXCEPT ![Other(r)] = rest]
    /\ ReadMore(r, units) \/ ReadHeader(r, units) \/ ReadContent(r, units)
    /\ UNCHANGED <<conn, outgoing>>

LEMMA ReadSomeReads ==
    ASSUME TypeInv, NEW r \in Peers, NEW n \in 1 .. Room, ReadSome(r, n)
    PROVE  \E units, rest : Reads(r, units, rest)
<1> DEFINE q == Other(r)
           w == wire[q]
           units == received[r] \o SubSeq(wire[q], 1, n)
           rest == SubSeq(wire[q], n + 1, Len(wire[q]))
<1>1. /\ n <= Space(r) /\ n <= Len(w)
      /\ wire' = [wire EXCEPT ![q] = SubSeq(@, n + 1, Len(@))]
      /\ ReadMore(r, units) \/ ReadHeader(r, units) \/ ReadContent(r, units)
      /\ UNCHANGED <<conn, outgoing>>
  BY DEF ReadSome
<1>2. w \in Seq(UnitOf(q)) /\ Len(w) \in Nat
  BY OtherPeer, LenProperties DEF TypeInv, Streams
<1>3. n \in 1 .. Len(wire[q]) /\ w # <<>>
  <2>1. n \in 1 .. Len(w)
    BY <1>1, <1>2
  <2>2. Len(w) # 0
    BY <1>2, <2>1
  <2>3. w # <<>>
    BY <2>2, EmptySeq
  <2> QED BY <2>1, <2>3
<1>4. /\ units \in Seq(UnitOf(q)) /\ rest \in Seq(UnitOf(q))
      /\ Len(received[r]) \in Nat /\ Len(units) = Len(received[r]) + n
  BY <1>3, UnitsRead, Zenon
<1>5. units \o rest = Flow(r)
  BY <1>3, FlowRead
<1>6. wire' = [wire EXCEPT ![q] = rest]
  BY <1>1
<1>7. Space(r) = Asked(r) - Len(received[r]) /\ Asked(r) \in Nat
  BY AskedFacts
<1> HIDE DEF units, rest, w
<1>8. Len(received[r]) < Len(units) /\ Len(units) \in Nat /\ Len(units) <= Asked(r)
  BY <1>1, <1>4, <1>7
<1>9. Reads(r, units, rest)
  BY <1>1, <1>3, <1>4, <1>5, <1>6, <1>8 DEF Reads, w
<1> QED BY <1>9

LEMMA ReadsUnbroken ==
    ASSUME TypeInv, NEW r \in Peers, Flowing(r), NEW units, NEW rest, Reads(r, units, rest)
    PROVE  Unbroken(r) /\ sock[r]
<1>1. /\ Len(received[r]) < Len(units) /\ Len(units) \in Nat /\ Len(units) <= Asked(r)
      /\ wire[Other(r)] # <<>>
  BY DEF Reads
<1>2. /\ Asked(r) \in Nat /\ Len(received[r]) \in Nat
      /\ Space(r) = Asked(r) - Len(received[r])
  BY AskedFacts
<1>3. sock[r] /\ Space(r) # 0
  BY <1>1, <1>2 DEF Flowing
<1> QED BY <1>3 DEF Flowing, Dead

\* What is read is a part of the frame after the last one shown, and the buffer
\* has been asked to hold its header or all of it.
LEMMA ReadsFrame ==
    ASSUME TypeInv, DecryptInv, NEW r \in Peers, Unbroken(r),
           NEW units, NEW rest, Reads(r, units, rest), NEW m, m = Len(shown[r]) + 1,
           NEW size, size = FrameSizeOf(Other(r), m)
    PROVE  /\ m \in 1 .. Len(frames[Other(r)]) /\ Len(frames[Other(r)]) \in Nat
           /\ units[1][1] = m /\ (Len(units) <= size => Intact(m, units))
           /\ size \in Nat /\ HeaderSize < size /\ HeaderSize \in Nat \ {0}
           /\ \/ Len(received[r]) < HeaderSize /\ Asked(r) = HeaderSize
              \/ HeaderSize <= Len(received[r]) /\ Asked(r) = size /\ receiving[r] = size
<1> DEFINE q == Other(r)
<1>0. q \in Peers
  BY OtherPeer
<1>1. /\ HeaderSize \in Nat \ {0} /\ receiving[r] \in Nat /\ Asked(r) \in Nat \ {0}
      /\ Len(received[r]) \in Nat /\ Space(r) = Asked(r) - Len(received[r])
      /\ Asked(r) = IF receiving[r] = 0 THEN HeaderSize ELSE receiving[r]
  BY AskedFacts
<1>2. /\ units \in Seq(UnitOf(q)) /\ rest \in Seq(UnitOf(q)) /\ Flow(r) = units \o rest
      /\ Len(received[r]) < Len(units) /\ Len(units) \in Nat /\ Len(units) <= Asked(r)
  BY DEF Reads
<1>3. Len(units) > 0
  BY <1>1, <1>2
<1>4. /\ units[1] = <<m, 1>> /\ m \in 1 .. Len(frames[q])
      /\ FrameSizeOf(q, m) \in Nat
      /\ Len(units) <= FrameSizeOf(q, m) => Intact(m, units)
  BY <1>2, <1>3, FrameArrives DEF Unbroken
<1>5. Len(frames[q]) \in Nat
  BY <1>0, FrameSizes
<1>6. HeaderSize < size /\ size \in Nat
  <2>1. frames[q][m].size \in Nat \ {0}
    BY <1>0, <1>4 DEF DecryptInv, Sealing
  <2>2. size = HeaderSize + frames[q][m].size
    BY DEF FrameSizeOf
  <2> QED BY <1>1, <1>4, <2>1, <2>2, SMTT(30)
<1>7. IF Len(received[r]) < HeaderSize THEN receiving[r] \in {0, HeaderSize}
      ELSE receiving[r] = size
  BY DEF Unbroken, Sized
<1>8. \/ Len(received[r]) < HeaderSize /\ Asked(r) = HeaderSize
      \/ HeaderSize <= Len(received[r]) /\ Asked(r) = size /\ receiving[r] = size
  BY <1>1, <1>4, <1>6, <1>7
<1>9. units[1][1] = m /\ (Len(units) <= size => Intact(m, units))
  BY <1>4
<1> QED BY <1>1, <1>4, <1>5, <1>6, <1>8, <1>9

\* The reader's flow after a read.
LEMMA ReadsFlows ==
    ASSUME TypeInv, DecryptInv, NEW r \in Peers, Unbroken(r),
           NEW units, NEW rest, Reads(r, units, rest)
    PROVE  /\ Unbroken(r)' \/ Space(r)' = 0
           /\ \/ shown' = shown
              \/ shown' = [shown EXCEPT ![r] = Append(@,
                    [frame |-> Len(shown[r]) + 1, from |-> remote[r].pos])]
<1> DEFINE q == Other(r)
           m == Len(shown[r]) + 1
           size == FrameSizeOf(q, m)
<1>0. q \in Peers /\ q # r
  BY OtherPeer
<1>1. /\ m \in 1 .. Len(frames[q]) /\ Len(frames[q]) \in Nat
      /\ units[1][1] = m /\ (Len(units) <= size => Intact(m, units))
      /\ size \in Nat /\ HeaderSize < size /\ HeaderSize \in Nat \ {0}
      /\ \/ Len(received[r]) < HeaderSize /\ Asked(r) = HeaderSize
         \/ HeaderSize <= Len(received[r]) /\ Asked(r) = size /\ receiving[r] = size
  BY ReadsFrame
<1>2. /\ units \in Seq(UnitOf(q)) /\ rest \in Seq(UnitOf(q)) /\ Flow(r) = units \o rest
      /\ Len(received[r]) < Len(units) /\ Len(units) \in Nat /\ Len(units) <= Asked(r)
      /\ wire' = [wire EXCEPT ![q] = rest]
      /\ ReadMore(r, units) \/ ReadHeader(r, units) \/ ReadContent(r, units)
      /\ UNCHANGED <<frames, sending, sent>>
  BY DEF Reads, outgoing
<1>3. /\ wire = [s \in Peers |-> wire[s]] /\ received = [s \in Peers |-> received[s]]
      /\ receiving \in [Peers -> Nat] /\ shown \in [Peers -> Seq(Shown)]
      /\ Len(received[r]) \in Nat
  BY AskedFacts DEF TypeInv, Types, Streams
<1>4. wire'[q] = rest
  BY <1>0, <1>2, <1>3
<1>5. size = HeaderSize + frames[q][m].size /\ size = FrameSizeOf(q, Len(shown[r]) + 1)
  BY DEF FrameSizeOf
<1>6. ASSUME received' = [received EXCEPT ![r] = units], shown' = shown
      PROVE  Chained(r)' /\ received'[r] = units /\ FrameSizeOf(q, Len(shown[r]) + 1)' = size
  <2>1. received'[r] = units
    BY <1>3, <1>6
  <2>2. Flow(r)' = Flow(r)
    BY <1>2, <1>4, <2>1 DEF Flow
  <2>3. Stays(r)
    BY <1>2, <1>6, <2>2 DEF Stays, Author
  <2>4. Chained(r)'
    BY <2>3, ChainStays DEF Unbroken
  <2> QED BY <1>2, <1>6, <2>1, <2>4 DEF FrameSizeOf
<1> HIDE DEF size
<1>7. CASE ReadMore(r, units)
  <2>1. /\ Len(units) < Asked(r) /\ receiving'[r] = Asked(r)
        /\ received' = [received EXCEPT ![r] = units] /\ shown' = shown
    BY <1>3, <1>7 DEF ReadMore
  <2>2. Chained(r)' /\ received'[r] = units /\ FrameSizeOf(q, Len(shown[r]) + 1)' = size
    BY <1>6, <2>1
  <2>3. Sized(r)'
    <3>1. CASE Len(received[r]) < HeaderSize /\ Asked(r) = HeaderSize
      BY <2>1, <2>2, <3>1 DEF Sized
    <3>2. CASE HeaderSize <= Len(received[r]) /\ Asked(r) = size
      <4>1. ~(Len(units) < HeaderSize)
        BY <1>1, <1>2, <1>3, <3>2
      <4> QED BY <2>1, <2>2, <3>2, <4>1 DEF Sized
    <3> QED BY <1>1, <3>1, <3>2
  <2> QED BY <2>1, <2>2, <2>3 DEF Unbroken
<1>8. CASE ReadHeader(r, units)
  <2>1. /\ Len(units) = Asked(r) /\ Asked(r) = HeaderSize
        /\ received' = [received EXCEPT ![r] = units] /\ shown' = shown
    BY <1>8 DEF ReadHeader
  <2>2. Chained(r)' /\ received'[r] = units /\ FrameSizeOf(q, Len(shown[r]) + 1)' = size
    BY <1>6, <2>1
  <2>3. Len(units) <= size /\ Len(units) = HeaderSize
    BY <1>1, <2>1
  <2>4. receiving'[r] = size
    <3>1. Intact(m, units)
      BY <1>1, <2>3
    <3>2. HeaderSays(r, units) = {[size |-> frames[q][m].size, head |-> frames[q][m].head]}
      BY <1>1, <3>1 DEF HeaderSays
    <3>3. PICK header \in HeaderSays(r, units) :
            receiving' = [receiving EXCEPT ![r] = HeaderSize + header.size]
      BY <1>8 DEF ReadHeader
    <3>4. header.size = frames[q][m].size
      BY <3>2, <3>3
    <3> QED BY <1>3, <1>5, <3>3, <3>4
  <2>5. Sized(r)'
    <3>1. ~(Len(units) < HeaderSize)
      BY <1>1, <2>3
    <3> QED BY <2>2, <2>4, <3>1 DEF Sized
  <2> QED BY <2>1, <2>2, <2>5 DEF Unbroken
<1>9. CASE ReadContent(r, units)
  <2> DEFINE e == [frame |-> FrameOf(r, units), from |-> remote[r].pos]
  <2>1. /\ Len(units) = Asked(r) /\ Asked(r) # HeaderSize
        /\ \/ /\ receiving' = [receiving EXCEPT ![r] = 0]
              /\ received' = [received EXCEPT ![r] = <<>>]
              /\ shown' = [shown EXCEPT ![r] = Append(@, e)]
           \/ received' = [received EXCEPT ![r] = units] /\ UNCHANGED <<receiving, shown>>
    BY <1>9 DEF ReadContent
  <2>2. HeaderSize <= Len(received[r]) /\ Asked(r) = size /\ receiving[r] = size
    BY <1>1, <2>1
  <2>3. CASE /\ receiving' = [receiving EXCEPT ![r] = 0]
             /\ received' = [received EXCEPT ![r] = <<>>]
             /\ shown' = [shown EXCEPT ![r] = Append(@, e)]
    <3>1. receiving'[r] = 0 /\ received'[r] = <<>> /\ shown'[r] = Append(shown[r], e)
      BY <1>3, <2>3
    <3>2. Flow(r)' = rest
      <4>1. Flow(r)' = <<>> \o rest
        BY <1>4, <3>1 DEF Flow
      <4> QED BY <1>2, <4>1, ConcatEmptySeq
    <3>3. Len(units) > 0
      BY <1>2, <1>3
    <3>4. Sees(r, units)
      BY <1>2, <3>1, <3>2, <3>3 DEF Sees, Author
    <3>5. Chained(r)' /\ FrameOf(r, units) = m
      BY <1>1, <1>2, <1>5, <2>1, <2>2, <3>4, ChainSees DEF Unbroken
    <3>6. Sized(r)'
      <4>1. Len(received'[r]) < HeaderSize
        BY <1>1, <3>1, EmptySeq
      <4> QED BY <3>1, <4>1 DEF Sized
    <3> QED BY <2>3, <3>5, <3>6 DEF Unbroken
  <2>4. CASE received' = [received EXCEPT ![r] = units] /\ UNCHANGED <<receiving, shown>>
    <3>1. received'[r] = units /\ receiving'[r] = receiving[r]
      BY <1>3, <2>4
    <3>2. Asked(r)' = Asked(r)
      BY <3>1 DEF Asked
    <3>3. Space(r)' = Len(units) - Len(units)
      BY <2>1, <3>1, <3>2 DEF Space
    <3>4. Space(r)' = 0
      BY <1>2, <3>3
    <3> QED BY <2>4, <3>4
  <2> QED BY <2>1, <2>3, <2>4
<1> QED BY <1>2, <1>7, <1>8, <1>9

LEMMA ReadSomeFlows ==
    ASSUME TypeInv, DecryptInv, ChannelInv, NEW r \in Peers, NEW n \in 1 .. Room,
           ReadSome(r, n), NEW p \in Peers
    PROVE  Flowing(p)'
<1> DEFINE q == Other(r)
<1>0. q \in Peers /\ q # r /\ Other(q) = r /\ (p = r \/ p = q) /\ Flowing(p)
  BY OtherPeer DEF ChannelInv
<1>1. PICK units, rest : Reads(r, units, rest)
  BY ReadSomeReads
<1>2. /\ wire' = [wire EXCEPT ![q] = rest]
      /\ ReadMore(r, units) \/ ReadHeader(r, units) \/ ReadContent(r, units)
      /\ UNCHANGED <<state, sock, rst, sessions, frames, sending, sent>>
  BY <1>1 DEF Reads, conn, outgoing
<1>3. /\ wire = [s \in Peers |-> wire[s]] /\ received = [s \in Peers |-> received[s]]
      /\ receiving \in [Peers -> Nat] /\ shown \in [Peers -> Seq(Shown)]
  BY DEF TypeInv, Types, Streams
<1>4. CASE p = q
  <2>1. /\ wire'[r] = wire[r] /\ receiving'[q] = receiving[q]
        /\ received'[q] = received[q] /\ shown'[q] = shown[q]
    BY <1>0, <1>2, <1>3 DEF ReadMore, ReadHeader, ReadContent
  <2>2. Stays(q) /\ SameBuffer(q)
    BY <1>0, <1>2, <2>1, KeptBefalls DEF SameBuffer
  <2>3. Chained(q) => Chained(q)'
    BY <1>0, <2>2, ChainStays
  <2>4. Flowing(q)
    BY <1>0, <1>4
  <2>5. Flowing(q)'
    BY <1>0, <1>2, <2>1, <2>2, <2>3, <2>4, FlowingKept
  <2> QED BY <1>4, <2>5
<1>5. CASE p = r
  <2>0. Flowing(r)
    BY <1>0, <1>5
  <2>1. Unbroken(r) /\ sock[r]
    BY <1>1, <2>0, ReadsUnbroken
  <2>2. Unbroken(r)' \/ Dead(r)'
    BY <1>1, <2>1, ReadsFlows DEF Dead
  <2>3. \A i \in 1 .. Len(shown'[r]) : shown'[r][i].frame = i
    <3> DEFINE e == [frame |-> Len(shown[r]) + 1, from |-> remote[r].pos]
    <3>1. shown' = shown \/ shown' = [shown EXCEPT ![r] = Append(@, e)]
      BY <1>1, <2>1, ReadsFlows
    <3>2. \A i \in 1 .. Len(shown[r]) : shown[r][i].frame = i
      BY <2>0 DEF Flowing
    <3>3. CASE shown' = [shown EXCEPT ![r] = Append(@, e)]
      <4>1. shown'[r] = Append(shown[r], e) /\ shown[r] \in Seq(Shown)
        BY <1>3, <3>3
      <4>2. Len(shown[r]) \in Nat /\ e \in Shown /\ e.frame = Len(shown[r]) + 1
        <5>1. remote[r].pos \in Int
          BY DEF TypeInv, Types, KeyType
        <5>2. Len(shown[r]) \in Nat
          BY <4>1, LenProperties
        <5> QED BY <5>1, <5>2 DEF Shown
      <4> HIDE DEF e
      <4>3. /\ Len(shown'[r]) = Len(shown[r]) + 1
            /\ \A i \in 1 .. Len(shown[r]) : shown'[r][i] = shown[r][i]
            /\ shown'[r][Len(shown[r]) + 1] = e
        BY <4>1, <4>2, AppendProperties
      <4> QED BY <3>2, <4>2, <4>3
    <3> QED BY <3>1, <3>2, <3>3
  <2>4. IdleSide(r)'
    BY <1>2, <2>0, <2>1 DEF Flowing, IdleSide, Idle
  <2>5. Flowing(r)'
    BY <1>2, <2>0, <2>1, <2>2, <2>3, <2>4 DEF Flowing
  <2> QED BY <1>5, <2>5
<1> QED BY <1>0, <1>4, <1>5

\* The units that are sent come in order behind the others; when there is nobody
\* to take them, nothing will be read any more.
LEMMA WriteSomeFlows ==
    ASSUME TypeInv, OrderInv, ChannelInv, Orderly, NEW r \in Peers, NEW n \in 1 .. Room,
           WriteSome(r, n), NEW p \in Peers
    PROVE  Flowing(p)'
<1> DEFINE q == Other(r)
<1>0. /\ q \in Peers /\ q # r /\ Other(q) = r /\ (p = r \/ p = q) /\ n \in Nat \ {0}
      /\ Flowing(p) /\ Flowing(q) /\ Flowing(r) /\ InOrder(q)
  BY OtherPeer, SizesAssumption DEF ChannelInv, OrderInv
<1>1. /\ sock[r] /\ sending[r] # 0 /\ sent[r] + n <= FrameSize(r)
      /\ IF sock[q] THEN wire' = [wire EXCEPT ![r] = @ \o Units(r, n)] /\ rst' = rst
                    ELSE rst' = [rst EXCEPT ![r] = TRUE] /\ wire' = wire
      /\ sending' = [sending EXCEPT ![r] = LeftToSend(r, n)]
      /\ sent' = [sent EXCEPT ![r] = IF @ + n = FrameSize(r) THEN 0 ELSE @ + n]
      /\ UNCHANGED <<sock, sessions, frames, receiving, received, shown>>
  BY DEF WriteSome, incoming, Units
<1>2. /\ sending \in [Peers -> Nat] /\ sent \in [Peers -> Nat]
      /\ wire = [s \in Peers |-> wire[s]] /\ rst \in [Peers -> BOOLEAN]
  BY DEF TypeInv, Types, Streams
<1>3. r \in Typists
  BY <1>0, <1>1, NothingTyped DEF Flowing
<1>4. CASE p = r
  <2>1. UNCHANGED <<received[r], shown[r], wire[q], frames[q], sending[q], sent[q]>>
    BY <1>0, <1>1, <1>2
  <2>2. Stays(r)
    BY <2>1, KeptBefalls
  <2>3. Chained(r) => Chained(r)'
    BY <2>2, ChainStays
  <2>4. SameBuffer(r) /\ ~Idle(r)
    BY <1>1, <1>3 DEF SameBuffer, Idle
  <2>5. Flowing(r)'
    BY <1>0, <1>1, <2>1, <2>3, <2>4, FlowingKept
  <2> QED BY <1>4, <2>5
<1>5. CASE p = q /\ sock[q]
  <2>1. wire'[r] = wire[r] \o Units(r, n) /\ rst' = rst
    BY <1>1, <1>2, <1>5
  <2>2. Chained(q) => Chained(q)'
    <3>1. Gets(q, n)
      BY <1>0, <1>5, WriteSomeBefalls
    <3> QED BY <1>0, <3>1, ChainGets
  <2>3. SameBuffer(q)
    BY <1>1 DEF SameBuffer
  <2>4. Flowing(q)'
    BY <1>0, <1>1, <1>5, <2>1, <2>2, <2>3, FlowingKept
  <2> QED BY <1>5, <2>4
<1>6. CASE p = q /\ ~sock[q]
  <2>1. wire' = wire /\ rst'[q] = rst[q]
    BY <1>0, <1>1, <1>2, <1>6
  <2>2. Space(q)' = Space(q)
    BY <1>1 DEF Space, Asked
  <2>3. Dead(q)
    <3>1. sessions \in Nat /\ MaxSessions \in Nat
      BY BoundsAssumption DEF TypeInv, Types
    <3>2. CASE MaxSessions <= 1
      BY <1>0, <1>1, <1>6, <3>1, <3>2 DEF Flowing, Dead
    <3>3. CASE ~(MaxSessions <= 1)
      <4>1. Idle(q)
        BY <1>0, <1>3, <3>3, OneIsIdle DEF Idle
      <4> QED BY <1>0, <1>1, <1>6, <4>1 DEF Flowing, IdleSide, Dead
    <3> QED BY <3>2, <3>3
  <2>4. Dead(q)'
    BY <1>1, <2>2, <2>3 DEF Dead
  <2>5. IdleSide(q)'
    BY <1>0, <1>1, <2>1, <2>2 DEF Flowing, IdleSide, Idle
  <2>6. Flowing(q)'
    BY <1>0, <1>1, <2>1, <2>4, <2>5 DEF Flowing
  <2> QED BY <1>6, <2>6
<1> QED BY <1>0, <1>4, <1>5, <1>6

\* Nobody types over a text that has not left, so that nothing goes missing.
LEMMA EnterFlows ==
    ASSUME TypeInv, ChannelInv, Orderly, NEW r \in Peers, NEW size \in TextSizes,
           Enter(r, size), NEW p \in Peers
    PROVE  Flowing(p)'
<1> DEFINE q == Other(r)
<1>0. /\ q \in Peers /\ q # r /\ Other(q) = r /\ (p = r \/ p = q)
      /\ Flowing(p) /\ Flowing(q) /\ Flowing(r)
  BY OtherPeer DEF ChannelInv
<1>1. /\ r \in Typists /\ sending[r] = 0
      /\ UNCHANGED <<sock, rst, sessions, wire, receiving, received, shown>>
      /\ sending' = [sending EXCEPT ![r] = Len(frames[r]) + 1]
      /\ sent' = [sent EXCEPT ![r] = 0]
  BY DEF Enter, Orderly, conn, incoming
<1>2. /\ \A s \in Peers : s # r => frames'[s] = frames[s]
      /\ \A m \in 1 .. Len(frames[r]) : frames'[r][m] = frames[r][m]
  BY EnterFrames
<1>3. sending \in [Peers -> Nat] /\ sent \in [Peers -> Nat]
  BY DEF TypeInv, Types
<1>4. CASE p = r
  <2>1. UNCHANGED <<received[r], shown[r], wire[q], frames[q], sending[q], sent[q]>>
    BY <1>0, <1>1, <1>2, <1>3
  <2>2. Stays(r)
    BY <2>1, KeptBefalls
  <2>3. Chained(r) => Chained(r)'
    BY <2>2, ChainStays
  <2>4. SameBuffer(r)
    BY <1>1 DEF SameBuffer
  <2>5. Flowing(r)'
    BY <1>0, <1>1, <2>1, <2>3, <2>4, FlowingKept
  <2> QED BY <1>4, <2>5
<1>5. CASE p = q
  <2>1. Awaits(q)
    BY <1>0, EnterBefalls
  <2>2. Chained(q) => Chained(q)'
    BY <1>0, <1>1, <2>1, ChainAwaits
  <2>3. SameBuffer(q) /\ frames'[q] = frames[q]
    BY <1>0, <1>1, <1>2 DEF SameBuffer
  <2>4. Flowing(q)'
    BY <1>0, <1>1, <1>2, <2>2, <2>3, FlowingKept
  <2> QED BY <1>5, <2>4
<1> QED BY <1>0, <1>4, <1>5

----------------------------------------------------------------------------
LEMMA ChannelInit == Init => ChannelInv
<1> SUFFICES ASSUME Init, NEW p \in Peers PROVE Flowing(p)
  BY DEF ChannelInv
<1> DEFINE q == Other(p)
<1>0. q \in Peers
  BY OtherPeer
<1>1. /\ frames[p] = <<>> /\ frames[q] = <<>> /\ sending[q] = 0 /\ sent[q] = 0
      /\ received[p] = <<>> /\ wire[q] = <<>> /\ shown[p] = <<>> /\ receiving[p] = 0
      /\ ~sock[p] /\ ~sock[q] /\ ~rst[p]
  BY <1>0 DEF Init
<1>2. Flow(p) = <<>> /\ Len(Flow(p)) = 0 /\ NextUnit(q) = <<1, 1>>
  BY <1>1 DEF Flow, NextUnit
<1>3. Chained(p)
  <2>1. Nth(Flow(p), NextUnit(q), 1) = <<Len(shown[p]) + 1, 1>>
    BY <1>1, <1>2 DEF Nth
  <2>2. Linked(q, Flow(p), NextUnit(q))
    BY <1>2 DEF Linked
  <2> QED BY <2>1, <2>2 DEF Chained
<1>4. Sized(p)
  BY <1>1, SizesAssumption DEF Sized
<1> QED BY <1>1, <1>3, <1>4 DEF Flowing, Unbroken, IdleSide

LEMMA ChannelStep ==
    ASSUME TypeInv, DecryptInv, OrderInv, ChannelInv, Orderly, [Next]_vars
    PROVE  ChannelInv'
<1> SUFFICES ASSUME NEW p \in Peers PROVE Flowing(p)'
  BY DEF ChannelInv
<1>0. Flowing(p)
  BY DEF ChannelInv
<1>1. ASSUME UNCHANGED <<conn, wire, outgoing, incoming>> PROVE Flowing(p)'
  <2>1. UNCHANGED <<sock, rst, sessions>>
    BY <1>1 DEF conn
  <2> QED BY <1>0, <1>1, <2>1, QuietFlows
<1>2. CASE Establish
  BY <1>0, <1>2, EstablishFlows
<1>3. ASSUME NEW r \in Peers, SelectSome(r) PROVE Flowing(p)'
  BY <1>1, <1>3 DEF SelectSome, Select
<1>4. \A r \in Peers : Flowing(r) /\ (Idle(r) => ~rst[r])
  BY DEF ChannelInv, Flowing, IdleSide
<1>5. ASSUME NEW r \in Peers, Read(r) PROVE Flowing(p)'
  <2>1. CASE ReadFails(r)
    <3>1. CloseSocket(r) /\ UNCHANGED <<sessions, outgoing, received, shown>>
          /\ receiving' = [receiving EXCEPT ![r] = Asked(r)]
      BY <2>1 DEF ReadFails
    <3>2. Idle(r) => Space(r) = 0 \/ (wire[Other(r)] = <<>> /\ ~sock[Other(r)])
      BY <1>4, <2>1 DEF ReadFails
    <3> QED BY <3>1, <3>2, CloseFlows
  <2> QED BY <1>5, <2>1, ReadSomeFlows DEF Read
<1>6. ASSUME NEW r \in Peers, Write(r) PROVE Flowing(p)'
  <2>1. CASE WriteSkipped(r)
    BY <1>1, <2>1 DEF WriteSkipped
  <2>2. CASE WriteFails(r)
    <3>1. /\ CloseSocket(r) /\ ~Idle(r)
          /\ UNCHANGED <<sessions, outgoing, receiving, received, shown>>
      BY <1>4, <2>2 DEF WriteFails, incoming
    <3> QED BY <3>1, CloseFlows
  <2> QED BY <1>6, <2>1, <2>2, WriteSomeFlows DEF Write
<1>7. ASSUME NEW r \in Peers, Stdin(r) PROVE Flowing(p)'
  <2>1. CASE Disconnect(r)
    <3>1. NodeClose(r) /\ ~Idle(r) /\ UNCHANGED <<sessions, outgoing, incoming>>
      BY <2>1 DEF Disconnect, Idle
    <3> QED BY <3>1, NodeCloseFlows
  <2>2. CASE OtherKey(r)
    BY <1>1, <2>2 DEF OtherKey
  <2> QED BY <1>7, <2>1, <2>2, EnterFlows DEF Stdin
<1>8. ASSUME NEW r \in Peers, Check(r) PROVE Flowing(p)'
  <2>1. CASE CheckFails(r)
    <3>1. NodeClose(r) /\ UNCHANGED <<sessions, outgoing, incoming>>
      BY <2>1 DEF CheckFails
    <3>2. Idle(r) => ~sock[r]
      BY <1>4, <2>1 DEF CheckFails, NodeError
    <3> QED BY <3>1, <3>2, NodeCloseFlows
  <2>2. CASE CheckPasses(r)
    BY <1>1, <2>2 DEF CheckPasses
  <2> QED BY <1>8, <2>1, <2>2 DEF Check
<1>9. ASSUME NEW r \in Peers, Exit(r) PROVE Flowing(p)'
  <2>1. NodeClose(r) /\ ~Idle(r) /\ UNCHANGED <<sessions, outgoing, incoming>>
    BY <1>9 DEF Exit, Idle
  <2> QED BY <2>1, NodeCloseFlows
<1>10. CASE UNCHANGED vars
  BY <1>1, <1>10 DEF vars
<1> QED BY <1>2, <1>3, <1>5, <1>6, <1>7, <1>8, <1>9, <1>10 DEF Next, Handle

----------------------------------------------------------------------------
\* The first k texts.
Numbers(k) == [i \in 1 .. k |-> i]

LEMMA NumbersGrow ==
    ASSUME NEW k \in Nat
    PROVE  /\ Len(Numbers(k)) = k /\ Append(Numbers(k), k + 1) = Numbers(k + 1)
<1> DEFINE s == Numbers(k)
           t == Numbers(k + 1)
<1>1. s \in [1 .. k -> Nat] /\ t \in [1 .. k + 1 -> Nat]
  BY DEF Numbers
<1>2. (\A i \in 1 .. k : s[i] = i) /\ (\A i \in 1 .. k + 1 : t[i] = i)
  BY DEF Numbers
<1>3. s \in Seq(Nat) /\ t \in Seq(Nat)
  BY <1>1, SeqDef
<1>4. DOMAIN s = 1 .. k /\ DOMAIN t = 1 .. k + 1
  BY <1>1
<1> HIDE DEF s, t
<1>5. Len(s) = k /\ Len(t) = k + 1
  BY <1>3, <1>4, LenProperties
<1> DEFINE u == Append(s, k + 1)
<1>6. /\ u \in Seq(Nat) /\ Len(u) = Len(s) + 1
      /\ \A i \in 1 .. Len(s) : u[i] = s[i]
      /\ u[Len(s) + 1] = k + 1
  BY <1>3, AppendProperties
<1> HIDE DEF u
<1>7. Len(u) = Len(t) /\ \A i \in 1 .. Len(u) : u[i] = t[i]
  BY <1>2, <1>5, <1>6
<1>8. u = t
  BY <1>3, <1>6, <1>7, SeqEqual
<1> QED BY <1>5, <1>8 DEF s, t, u

\* What is shown are the first texts that were typed.
TextsNumbered ==
    \A p \in Peers :
        /\ Len(shown[p]) \in Nat /\ Texts(p) = Numbers(Len(shown[p]))
        /\ IsFiniteSet(Sealed(Other(p)))
        /\ Cardinality(Sealed(Other(p))) \in Nat
        /\ Len(shown[p]) <= Cardinality(Sealed(Other(p)))

LEMMA TextsAreNumbers == TypeInv /\ DecryptInv /\ ChannelInv => TextsNumbered
<1> SUFFICES ASSUME TypeInv, DecryptInv, ChannelInv, NEW p \in Peers
             PROVE  /\ Len(shown[p]) \in Nat /\ Texts(p) = Numbers(Len(shown[p]))
                    /\ IsFiniteSet(Sealed(Other(p)))
                    /\ Cardinality(Sealed(Other(p))) \in Nat
                    /\ Len(shown[p]) <= Cardinality(Sealed(Other(p)))
  BY DEF TextsNumbered
<1> DEFINE q == Other(p)
           k == Len(shown[p])
<1>0. q \in Peers
  BY OtherPeer
<1>1. shown[p] \in Seq(Shown) /\ frames[q] \in Seq(Frame)
  BY <1>0 DEF TypeInv, Types
<1>2. /\ DOMAIN shown[p] = 1 .. k /\ k \in Nat
      /\ DOMAIN frames[q] = 1 .. Len(frames[q]) /\ Len(frames[q]) \in Nat
  BY <1>1, LenProperties
<1>3. ASSUME NEW i \in 1 .. k PROVE i \in Sealed(q) /\ TextOf(p, shown[p][i]) = i
  <2>1. shown[p][i].frame = i /\ i # 0
    BY DEF ChannelInv, Flowing
  <2>2. /\ i \in 1 .. Len(frames[q]) /\ frames[q][i].sealed
        /\ shown[p][i].from = frames[q][i].from
    BY <2>1 DEF DecryptInv, AllRight, Right
  <2> QED BY <1>2, <2>1, <2>2 DEF Sealed, TextOf
<1>4. Texts(p) = Numbers(k)
  BY <1>2, <1>3 DEF Texts, Numbers
<1>5. IsFiniteSet(Sealed(q)) /\ Cardinality(Sealed(q)) \in Nat
  <2>1. Sealed(q) \in SUBSET (1 .. Len(frames[q]))
    BY <1>2 DEF Sealed
  <2>2. IsFiniteSet(1 .. Len(frames[q]))
    BY <1>2, FS_Interval
  <2>3. IsFiniteSet(Sealed(q))
    BY <2>1, <2>2, FS_Subset
  <2> QED BY <2>3, FS_CardinalityType
<1>6. k <= Cardinality(Sealed(q))
  <2>1. 1 .. k \in SUBSET Sealed(q)
    BY <1>3
  <2>2. Cardinality(1 .. k) <= Cardinality(Sealed(q))
    BY <1>5, <2>1, FS_Subset
  <2> HIDE DEF k
  <2>3. Cardinality(1 .. k) = IF 1 > k THEN 0 ELSE k - 1 + 1
    <3>1. 1 \in Int /\ k \in Int
      BY <1>2
    <3> QED BY <3>1, FS_Interval
  <2> QED BY <1>2, <1>5, <2>2, <2>3
<1> QED BY <1>2, <1>4, <1>5, <1>6

\* Channel's variables, and what each step of Chat does to them.
Typed == [p \in Peers |-> Cardinality(Sealed(p))]
OnScreen == [p \in Peers |-> Texts(p)]

LEMMA SealedKept ==
    ASSUME NEW p, frames'[p] = frames[p]
    PROVE  Sealed(p)' = Sealed(p)
BY DEF Sealed

LEMMA ScreenKept ==
    ASSUME TextsNumbered, TextsNumbered', NEW p \in Peers, shown'[p] = shown[p]
    PROVE  Texts(p)' = Texts(p)
<1>1. Texts(p) = Numbers(Len(shown[p])) /\ Texts(p)' = Numbers(Len(shown'[p]))
  BY DEF TextsNumbered, Numbers
<1> QED BY <1>1

\* Most steps type and show nothing.
LEMMA StepTypesOrShows ==
    ASSUME TypeInv, DecryptInv, ChannelInv, [Next]_vars
    PROVE  \/ frames' = frames /\ shown' = shown
           \/ \E r \in Peers : \E size \in TextSizes : Enter(r, size)
           \/ \E r \in Peers : frames' = frames /\ shown' = [shown EXCEPT ![r] = Append(@,
                 [frame |-> Len(shown[r]) + 1, from |-> remote[r].pos])]
<1> DEFINE Goal == \/ frames' = frames /\ shown' = shown
                   \/ \E r \in Peers : \E size \in TextSizes : Enter(r, size)
                   \/ \E r \in Peers : frames' = frames /\ shown' = [shown EXCEPT ![r] =
                         Append(@, [frame |-> Len(shown[r]) + 1, from |-> remote[r].pos])]
<1> SUFFICES Goal
  OBVIOUS
<1>1. CASE Establish
  BY <1>1 DEF Establish, outgoing, incoming
<1>2. ASSUME NEW r \in Peers, SelectSome(r) PROVE Goal
  BY <1>2 DEF SelectSome, Select, outgoing, incoming
<1>3. ASSUME NEW r \in Peers, Read(r) PROVE Goal
  <2>1. CASE ReadFails(r)
    BY <2>1 DEF ReadFails, outgoing
  <2>2. ASSUME NEW n \in 1 .. Room, ReadSome(r, n) PROVE Goal
    <3>1. PICK units, rest : Reads(r, units, rest)
      BY <2>2, ReadSomeReads
    <3>2. Flowing(r) /\ frames' = frames
      BY <3>1 DEF ChannelInv, Reads, outgoing
    <3>3. Unbroken(r)
      BY <3>1, <3>2, ReadsUnbroken
    <3> QED BY <3>1, <3>2, <3>3, ReadsFlows
  <2> QED BY <1>3, <2>1, <2>2 DEF Read
<1>4. ASSUME NEW r \in Peers, Write(r) PROVE Goal
  BY <1>4 DEF Write, WriteSkipped, WriteSome, WriteFails, outgoing, incoming
<1>5. ASSUME NEW r \in Peers, Stdin(r) PROVE Goal
  BY <1>5 DEF Stdin, Disconnect, OtherKey, outgoing, incoming
<1>6. ASSUME NEW r \in Peers, Check(r) PROVE Goal
  BY <1>6 DEF Check, CheckFails, CheckPasses, outgoing, incoming
<1>7. ASSUME NEW r \in Peers, Exit(r) PROVE Goal
  BY <1>7 DEF Exit, outgoing, incoming
<1>8. CASE UNCHANGED vars
  BY <1>8 DEF vars, outgoing, incoming
<1> QED BY <1>1, <1>2, <1>3, <1>4, <1>5, <1>6, <1>7, <1>8 DEF Next, Handle

LEMMA EnterTypes ==
    ASSUME TypeInv, TextsNumbered, TextsNumbered',
           NEW r \in Peers, NEW size \in TextSizes, Enter(r, size)
    PROVE  /\ OnScreen' = OnScreen
           /\ Typed' = Typed \/ Typed' = [Typed EXCEPT ![r] = @ + 1]
<1> DEFINE new == Len(frames[r]) + 1
<1>1. /\ frames' \in [Peers -> Seq(Frame)]
      /\ \A s \in Peers : s # r => frames'[s] = frames[s]
      /\ Len(frames'[r]) = new
      /\ \A m \in 1 .. Len(frames[r]) : frames'[r][m] = frames[r][m]
  BY EnterFrames
<1>2. OnScreen' = OnScreen
  <2>1. \A p \in Peers : shown'[p] = shown[p]
    BY DEF Enter, incoming
  <2>2. \A p \in Peers : Texts(p)' = Texts(p)
    BY <2>1, ScreenKept
  <2> QED BY <2>2 DEF OnScreen
<1>3. \A p \in Peers : p # r => Cardinality(Sealed(p))' = Cardinality(Sealed(p))
  BY <1>1, SealedKept
<1>4. IsFiniteSet(Sealed(r))
  <2>1. Other(r) \in Peers /\ Other(Other(r)) = r
    BY OtherPeer
  <2> QED BY <2>1 DEF TextsNumbered
<1>5. new \notin Sealed(r) /\ (Sealed(r)' = Sealed(r) \/ Sealed(r)' = Sealed(r) \cup {new})
  <2>1. frames[r] \in Seq(Frame) /\ frames'[r] \in Seq(Frame)
    BY <1>1 DEF TypeInv, Types
  <2>2. /\ DOMAIN frames[r] = 1 .. Len(frames[r]) /\ Len(frames[r]) \in Nat
        /\ DOMAIN frames'[r] = 1 .. new
    BY <1>1, <2>1, LenProperties
  <2>3. 1 .. new = (1 .. Len(frames[r])) \cup {new} /\ new \notin 1 .. Len(frames[r])
    BY <2>2
  <2>4. Sealed(r)' = {m \in DOMAIN frames'[r] : frames'[r][m].sealed}
    BY DEF Sealed
  <2> HIDE DEF new
  <2>5. Sealed(r)' = Sealed(r) \cup {m \in {new} : frames'[r][m].sealed}
    BY <1>1, <2>2, <2>3, <2>4 DEF Sealed
  <2>6. new \notin Sealed(r)
    BY <2>2, <2>3 DEF Sealed
  <2> QED BY <2>5, <2>6
<1>6. \/ Cardinality(Sealed(r)') = Cardinality(Sealed(r))
      \/ Cardinality(Sealed(r)') = Cardinality(Sealed(r)) + 1
  BY <1>4, <1>5, FS_AddElement
<1>7. Typed' = [p \in Peers |-> Cardinality(Sealed(p))']
  BY DEF Typed
<1>8. Typed' = Typed \/ Typed' = [Typed EXCEPT ![r] = @ + 1]
  BY <1>3, <1>6, <1>7 DEF Typed
<1> QED BY <1>2, <1>8

LEMMA ReadShows ==
    ASSUME TypeInv, TextsNumbered, TextsNumbered', NEW r \in Peers, NEW e \in Shown, frames' = frames,
           shown' = [shown EXCEPT ![r] = Append(@, e)]
    PROVE  /\ Typed' = Typed
           /\ Len(Texts(r)) < Cardinality(Sealed(Other(r)))
           /\ OnScreen' = [OnScreen EXCEPT ![r] = Append(@, Len(@) + 1)]
<1> DEFINE q == Other(r)
           k == Len(shown[r])
           n == Cardinality(Sealed(q))
<1>1. shown \in [Peers -> Seq(Shown)]
  BY DEF TypeInv, Types
<1>2. /\ k \in Nat /\ Texts(r) = Numbers(k) /\ n \in Nat
  BY DEF TextsNumbered
<1>3. Len(shown'[r]) = k + 1
  BY <1>1, AppendProperties
<1>4. Texts(r)' = Numbers(k + 1) /\ k + 1 <= n
  <2>1. /\ Texts(r)' = Numbers(Len(shown'[r]))
        /\ Len(shown'[r]) <= Cardinality(Sealed(q)')
    BY DEF TextsNumbered, Numbers
  <2>2. Sealed(q)' = Sealed(q)
    BY SealedKept
  <2> QED BY <1>3, <2>1, <2>2
<1>5. Typed' = Typed
  <2>1. \A p \in Peers : Sealed(p)' = Sealed(p)
    BY SealedKept
  <2> QED BY <2>1 DEF Typed
<1>6. \A p \in Peers : p # r => Texts(p)' = Texts(p)
  <2>1. \A p \in Peers : p # r => shown'[p] = shown[p]
    BY <1>1
  <2> QED BY <2>1, ScreenKept
<1> HIDE DEF k, n
<1>7. Len(Texts(r)) = k /\ Texts(r)' = Append(Texts(r), k + 1)
  BY <1>2, <1>4, NumbersGrow
<1>8. OnScreen' = [OnScreen EXCEPT ![r] = Append(@, Len(@) + 1)]
  BY <1>6, <1>7 DEF OnScreen
<1>9. k < n
  BY <1>2, <1>4
<1> QED BY <1>5, <1>7, <1>8, <1>9 DEF n

LEMMA ChannelRefined ==
    /\ TypeInv /\ DecryptInv /\ ChannelInv /\ TextsNumbered /\ TextsNumbered'
    /\ [Next]_vars
    => [C!Next]_(C!vars)
<1> SUFFICES ASSUME TypeInv, DecryptInv, ChannelInv, TextsNumbered, TextsNumbered',
                    [Next]_vars
             PROVE  [C!Next]_(C!vars)
  OBVIOUS
<1>1. Typed = [p \in Peers |-> Cardinality(Sealed(p))] /\ OnScreen = [p \in Peers |-> Texts(p)]
  BY DEF Typed, OnScreen
<1>2. CASE frames' = frames /\ shown' = shown
  <2>1. \A p \in Peers : Sealed(p)' = Sealed(p) /\ Texts(p)' = Texts(p)
    BY <1>2, SealedKept, ScreenKept
  <2> QED BY <2>1 DEF C!vars
<1>3. ASSUME NEW r \in Peers, NEW size \in TextSizes, Enter(r, size)
      PROVE  [C!Next]_(C!vars)
  <2>1. OnScreen' = OnScreen /\ (Typed' = Typed \/ Typed' = [Typed EXCEPT ![r] = @ + 1])
    BY <1>3, EnterTypes
  <2> QED BY <2>1 DEF Typed, OnScreen, C!Next, C!Type, C!vars
<1>4. ASSUME NEW r \in Peers, frames' = frames,
             shown' = [shown EXCEPT ![r] = Append(@,
                [frame |-> Len(shown[r]) + 1, from |-> remote[r].pos])]
      PROVE  [C!Next]_(C!vars)
  <2> DEFINE e == [frame |-> Len(shown[r]) + 1, from |-> remote[r].pos]
  <2>1. e \in Shown
    <3>1. Len(shown[r]) \in Nat /\ remote[r].pos \in Int
      BY DEF TextsNumbered, TypeInv, Types, KeyType
    <3> QED BY <3>1 DEF Shown
  <2> HIDE DEF e
  <2>2. shown' = [shown EXCEPT ![r] = Append(@, e)]
    BY <1>4 DEF e
  <2>3. /\ Typed' = Typed
        /\ Len(Texts(r)) < Cardinality(Sealed(Other(r)))
        /\ OnScreen' = [OnScreen EXCEPT ![r] = Append(@, Len(@) + 1)]
    BY <1>4, <2>1, <2>2, ReadShows
  <2>4. Other(r) \in Peers /\ C!Other(r) = Other(r)
    BY OtherPeer DEF C!Other, Other
  <2> QED BY <2>3, <2>4 DEF Typed, OnScreen, C!Next, C!Show, C!vars
<1> QED BY <1>2, <1>3, <1>4, StepTypesOrShows

LEMMA ChannelStarts == Init => C!Init
<1> SUFFICES ASSUME Init PROVE C!Init
  OBVIOUS
<1>1. ASSUME NEW p \in Peers PROVE Cardinality(Sealed(p)) = 0 /\ Texts(p) = <<>>
  <2>1. frames[p] = <<>> /\ shown[p] = <<>>
    BY DEF Init
  <2>2. Sealed(p) = {} /\ Texts(p) = <<>>
    BY <2>1 DEF Sealed, Texts
  <2> QED BY <2>2, FS_EmptySet
<1> QED BY <1>1 DEF C!Init

\* The framing, the partial sends and receives and the two pads implement the
\* channel: everything shown is what was typed, in order and without a gap, as
\* long as the users are Orderly (chat.c:228 and chat.c:437 are why they must be).
THEOREM OrderlyChatsImplementChannel == ASSUME Orderly PROVE Spec => ImplementsChannel
<1>1. TypeInv /\ DecryptInv /\ OrderInv /\ ChannelInv /\ [Next]_vars
        => (TypeInv /\ DecryptInv /\ OrderInv /\ ChannelInv)'
  BY TypeStep, DecryptStep, OrderStep, ChannelStep
<1>2. Spec => [](TypeInv /\ DecryptInv /\ OrderInv /\ ChannelInv)
  BY <1>1, InitType, DecryptInit, OrderInit, ChannelInit, PTL DEF Spec
<1> QED
  BY <1>2, TextsAreNumbers, ChannelRefined, ChannelStarts, PTL
     DEF Spec, ImplementsChannel, C!Spec
=============================================================================
