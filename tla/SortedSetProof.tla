---------------------------- MODULE SortedSetProof ----------------------------
(***************************************************************************)
(* The skiplist keeps its shape and the same pairs as the map, for all     *)
(* members, scores, histories and random levels, if no score is NaN.       *)
(***************************************************************************)
EXTENDS SortedSet, SequenceTheorems, FiniteSetTheorems, WellFoundedInduction, TLAPS

-----------------------------------------------------------------------------
(* Numbers.  Induction is over membership in a set.                         *)

LEMMA Least == ASSUME NEW T \in SUBSET Nat, T # {} PROVE \E n \in T : \A m \in T : n <= m
<1>1. \E x \in T : \A y \in T : ~(<<y, x>> \in OpToRel(<, Nat))
  BY NatLessThanWellFounded, WFMin
<1>2. \A x, y \in Nat : <<y, x>> \in OpToRel(<, Nat) <=> y < x
  BY DEF OpToRel
<1>3. PICK x \in T : \A y \in T : ~(y < x)
  BY <1>1, <1>2
<1> QED BY <1>3

LEMMA Greatest ==
    ASSUME NEW N \in Nat, NEW T \in SUBSET (0 .. N), T # {}
    PROVE  \E n \in T : \A m \in T : m <= n
<1> DEFINE D == {d \in 0 .. N : N - d \in T}
<1>1. PICK x \in T : TRUE
  OBVIOUS
<1>2. N - x \in 0 .. N /\ N - (N - x) = x
  OBVIOUS
<1>3. N - x \in D
  BY <1>2
<1>6. D \in SUBSET Nat
  OBVIOUS
<1>7. D # {}
  <2> HIDE DEF D
  <2> QED BY <1>3
<1>4. PICK d \in D : \A e \in D : d <= e
  BY <1>6, <1>7, Least
<1>5. ASSUME NEW m \in T PROVE m <= N - d
  <2>1. N - m \in 0 .. N /\ N - (N - m) = m
    OBVIOUS
  <2>2. N - m \in D
    BY <2>1
  <2>3. d <= N - m /\ d \in 0 .. N
    BY <1>4, <2>2
  <2> HIDE DEF D
  <2> QED BY <2>3
<1> QED BY <1>4, <1>5

LEMMA Downward ==
    ASSUME NEW N \in Nat, NEW T,
           \A n \in 0 .. N : (\A m \in n + 1 .. N : m \in T) => n \in T
    PROVE  \A n \in 0 .. N : n \in T
<1> SUFFICES ASSUME NEW k \in 0 .. N, k \notin T PROVE FALSE
  OBVIOUS
<1> DEFINE D == {d \in 0 .. N : d \notin T}
<1>1. D \in SUBSET (0 .. N) /\ k \in D
  OBVIOUS
<1>2. PICK d \in D : \A e \in D : e <= d
  BY <1>1, Greatest
<1>3. \A m \in d + 1 .. N : m \in T
  BY <1>2
<1> QED BY <1>2, <1>3

LEMMA MinIs ==
    ASSUME NEW S \in SUBSET Int, NEW x \in S, \A y \in S : x <= y
    PROVE  Min(S) = x
<1>1. \A z \in S : (\A y \in S : z <= y) => z = x
  OBVIOUS
<1> QED BY <1>1 DEF Min

LEMMA MaxIs ==
    ASSUME NEW S \in SUBSET Int, NEW x \in S, \A y \in S : y <= x
    PROVE  Max(S) = x
<1>1. \A z \in S : (\A y \in S : z >= y) => z = x
  OBVIOUS
<1>2. \A y \in S : x >= y
  OBVIOUS
<1> QED BY <1>1, <1>2 DEF Max

LEMMA MaxOfTwo ==
    ASSUME NEW a \in Int, NEW b \in Int
    PROVE  Max({a, b}) = IF a <= b THEN b ELSE a
<1>1. {a, b} \in SUBSET Int /\ a \in {a, b} /\ b \in {a, b}
  OBVIOUS
<1>2. CASE a <= b
  <2>1. \A y \in {a, b} : y <= b
    BY <1>2
  <2> QED BY <1>1, <1>2, <2>1, MaxIs
<1>3. CASE b < a
  <2>1. \A y \in {a, b} : y <= a
    BY <1>3
  <2>2. ~(a <= b)
    BY <1>3
  <2> QED BY <1>1, <2>1, <2>2, MaxIs
<1> QED BY <1>2, <1>3

-----------------------------------------------------------------------------
(* The skiplist s and the sequence c of its nodes.  Position 0 is the       *)
(* header's.                                                                *)

Address == Member \X (1 .. Copies)

LinkRec == [forward : Address \cup {Nil}, span : Int]

Node == [member : Nat, score : Int, backward : Address \cup {Nil},
         levels : UNION {[1 .. h -> LinkRec] : h \in 1 .. MaxLevel}]

At(c, p) == IF p = 0 THEN Header ELSE c[p]

\* The node at p is on level i.
On(s, c, i, p) == i \in DOMAIN s.node[At(c, p)].levels

\* The link of the node at p on level i leads to the next node of that level,
\* and its span is the distance; to the end of the list if there is none.
Hop(s, c, i, p) ==
    LET l == s.node[At(c, p)].levels[i] IN
    \/ /\ l.forward = Nil /\ l.span = Len(c) - p
       /\ \A q \in p + 1 .. Len(c) : ~On(s, c, i, q)
    \/ /\ l.span \in 1 .. Len(c) - p
       /\ l.forward = c[p + l.span] /\ On(s, c, i, p + l.span)
       /\ \A q \in p + 1 .. p + l.span - 1 : ~On(s, c, i, q)

Typed(s, c) ==
    /\ c \in Seq(Address)
    /\ \A p, q \in 1 .. Len(c) : c[p] = c[q] => p = q
    /\ s.node \in [{Header} \cup {c[p] : p \in 1 .. Len(c)} -> Node]
    /\ DOMAIN s.node[Header].levels = 1 .. MaxLevel
    /\ s.level \in 1 .. MaxLevel
    /\ s.length = Len(c)

Linked(s, c) == \A p \in 0 .. Len(c) : \A i \in 1 .. s.level : On(s, c, i, p) => Hop(s, c, i, p)

\* No node is higher than the list, some node is as high, and the header's
\* links above lead nowhere.
Levelled(s, c) ==
    /\ \A p \in 1 .. Len(c) : \A i \in DOMAIN s.node[c[p]].levels : i <= s.level
    /\ \A i \in 1 .. MaxLevel : i > s.level => s.node[Header].levels[i].forward = Nil
    /\ s.level > 1 => \E p \in 1 .. Len(c) : On(s, c, s.level, p)

Backward(s, c) ==
    /\ \A p \in 1 .. Len(c) : s.node[c[p]].backward = IF p = 1 THEN Nil ELSE c[p - 1]
    /\ s.tail = IF c = << >> THEN Nil ELSE c[Len(c)]

Ordered(s, c) ==
    \A p, q \in 1 .. Len(c) : p < q => Precedes(s.node[c[p]], s.node[c[q]].score, s.node[c[q]].member)

Shape(s, c) == Typed(s, c) /\ Linked(s, c) /\ Levelled(s, c) /\ Backward(s, c) /\ Ordered(s, c)

-----------------------------------------------------------------------------
(* What the type says *)

LEMMA NodeTyped ==
    ASSUME NEW s, NEW c, Typed(s, c)
    PROVE  /\ Len(c) \in Nat /\ MaxLevel \in Nat
           /\ \A p \in 1 .. Len(c) : c[p] \in Address /\ At(c, p) = c[p]
           /\ At(c, 0) = Header
           /\ \A p \in 0 .. Len(c) : At(c, p) \in DOMAIN s.node /\ s.node[At(c, p)] \in Node
           /\ \A a \in DOMAIN s.node : \E p \in 0 .. Len(c) : a = At(c, p)
           /\ \A p, q \in 0 .. Len(c) : At(c, p) = At(c, q) => p = q
           /\ Header \notin Address /\ Nil \notin Address
<1>1. Len(c) \in Nat /\ MaxLevel \in Nat /\ \A p \in 1 .. Len(c) : c[p] \in Address
  BY LevelAssumption DEF Typed
<1>2. Header \notin Address /\ Nil \notin Address
  BY HeaderAssumption DEF Address
<1>3. \A p \in 1 .. Len(c) : At(c, p) = c[p]
  BY <1>1 DEF At
<1>4. At(c, 0) = Header
  BY DEF At
<1>5. \A p \in 0 .. Len(c) : p = 0 \/ p \in 1 .. Len(c)
  BY <1>1
<1>6. \A p \in 0 .. Len(c) : At(c, p) \in DOMAIN s.node
  BY <1>3, <1>4, <1>5 DEF Typed
<1>7. \A a \in DOMAIN s.node : s.node[a] \in Node
  BY DEF Typed
<1>8. \A a \in DOMAIN s.node : \E p \in 0 .. Len(c) : a = At(c, p)
  <2> SUFFICES ASSUME NEW a \in DOMAIN s.node PROVE \E p \in 0 .. Len(c) : a = At(c, p)
    OBVIOUS
  <2>1. a = Header \/ \E p \in 1 .. Len(c) : a = c[p]
    BY DEF Typed
  <2>2. 0 \in 0 .. Len(c) /\ 1 .. Len(c) \subseteq 0 .. Len(c)
    BY <1>1
  <2> QED BY <1>3, <1>4, <2>1, <2>2
<1>9. ASSUME NEW p \in 0 .. Len(c), NEW q \in 0 .. Len(c), At(c, p) = At(c, q) PROVE p = q
  <2>1. CASE p = 0
    BY <1>1, <1>2, <1>3, <1>4, <1>5, <1>9, <2>1
  <2>2. CASE q = 0
    BY <1>1, <1>2, <1>3, <1>4, <1>5, <1>9, <2>2
  <2>3. CASE p \in 1 .. Len(c) /\ q \in 1 .. Len(c)
    BY <1>3, <1>9, <2>3 DEF Typed
  <2> QED BY <1>5, <2>1, <2>2, <2>3
<1> QED BY <1>1, <1>2, <1>3, <1>4, <1>6, <1>7, <1>8, <1>9

\* A node that is on a level is on all levels below.
LEMMA OnBelow ==
    ASSUME NEW s, NEW c, Typed(s, c), NEW p \in 0 .. Len(c)
    PROVE  /\ \A i, j : On(s, c, j, p) /\ i \in 1 .. j => On(s, c, i, p)
           /\ On(s, c, 1, p)
           /\ \A i : On(s, c, i, p) => i \in 1 .. MaxLevel
           /\ \A i : On(s, c, i, p) => s.node[At(c, p)].levels[i] \in LinkRec
           /\ \A i \in 1 .. MaxLevel : On(s, c, i, 0)
<1>1. s.node[At(c, p)] \in Node /\ At(c, 0) = Header /\ MaxLevel \in Nat
  BY NodeTyped
<1>2. PICK h \in 1 .. MaxLevel : s.node[At(c, p)].levels \in [1 .. h -> LinkRec]
  BY <1>1 DEF Node
<1>3. DOMAIN s.node[At(c, p)].levels = 1 .. h
  BY <1>2
<1>4. \A i \in 1 .. MaxLevel : On(s, c, i, 0)
  BY <1>1 DEF On, Typed
<1> QED BY <1>1, <1>2, <1>3, <1>4 DEF On

-----------------------------------------------------------------------------
(* The search.  It stops on each level at the last node of the first k.     *)

Latest(s, c, k, i, u) ==
    u \in 0 .. k /\ On(s, c, i, u) /\ \A q \in u + 1 .. k : ~On(s, c, i, q)

LastOn(s, c, k, i) == CHOOSE u : Latest(s, c, k, i, u)

StopAt(s, c, k, i) == [at |-> At(c, LastOn(s, c, k, i)), rank |-> LastOn(s, c, k, i)]

LEMMA LatestUnique ==
    ASSUME NEW s, NEW c, NEW k \in Nat, NEW i, NEW u, Latest(s, c, k, i, u)
    PROVE  LastOn(s, c, k, i) = u
<1>1. ASSUME NEW v, Latest(s, c, k, i, v) PROVE v = u
  <2>1. u \in Int /\ v \in Int
    BY <1>1 DEF Latest
  <2>2. ~(u < v) /\ ~(v < u)
    BY <1>1, <2>1 DEF Latest
  <2> QED BY <2>1, <2>2
<1> QED BY <1>1 DEF LastOn

LEMMA LatestExists ==
    ASSUME NEW s, NEW c, NEW k \in Nat, NEW i, On(s, c, i, 0)
    PROVE  Latest(s, c, k, i, LastOn(s, c, k, i))
<1> DEFINE T == {u \in 0 .. k : On(s, c, i, u)}
<1>1. 0 \in T /\ T \in SUBSET (0 .. k)
  OBVIOUS
<1>2. PICK u \in T : \A v \in T : v <= u
  BY <1>1, Greatest
<1>3. Latest(s, c, k, i, u)
  BY <1>2 DEF Latest
<1> QED BY <1>3 DEF LastOn

\* The links of one level say where the last node is.
LEMMA LatestAfter ==
    ASSUME NEW s, NEW c, Typed(s, c), NEW k \in 0 .. Len(c), NEW i, NEW p \in 0 .. k,
           On(s, c, i, p), Hop(s, c, i, p)
    PROVE  LET l == s.node[At(c, p)].levels[i] IN
           /\ l.forward # Nil => /\ l.span \in 1 .. Len(c) - p
                                 /\ l.forward = c[p + l.span] /\ On(s, c, i, p + l.span)
           /\ l.forward = Nil \/ k < p + l.span => Latest(s, c, k, i, p)
<1> DEFINE l == s.node[At(c, p)].levels[i]
<1>1. Len(c) \in Nat /\ Nil \notin Address /\ \A q \in 1 .. Len(c) : c[q] \in Address
  BY NodeTyped
<1>2. CASE l.forward = Nil /\ \A q \in p + 1 .. Len(c) : ~On(s, c, i, q)
  BY <1>1, <1>2 DEF Latest
<1>3. CASE /\ l.span \in 1 .. Len(c) - p /\ l.forward = c[p + l.span] /\ On(s, c, i, p + l.span)
           /\ \A q \in p + 1 .. p + l.span - 1 : ~On(s, c, i, q)
  <2>1. l.forward # Nil
    BY <1>1, <1>3
  <2>2. ASSUME k < p + l.span PROVE Latest(s, c, k, i, p)
    <3>1. l.span \in 1 .. Len(c) - p /\ \A q \in p + 1 .. p + l.span - 1 : ~On(s, c, i, q)
      BY <1>3
    <3> HIDE DEF l
    <3>2. \A q \in p + 1 .. k : q \in p + 1 .. p + l.span - 1
      BY <1>1, <2>2, <3>1
    <3> QED BY <3>1, <3>2 DEF Latest
  <2> QED BY <1>3, <2>1, <2>2
<1> QED BY <1>2, <1>3 DEF Hop

\* The body of the loop.
Turn(s, passedAt, i, g, x) ==
    LET l == LinkAt(s, x.at, i) IN
    IF l.forward # Nil /\ x.rank + l.span \in passedAt[l.forward]
    THEN g[[at |-> l.forward, rank |-> x.rank + l.span]]
    ELSE x

Places(s) == [at : DOMAIN s.node, rank : Nat]

LEMMA AlongIs ==
    ASSUME NEW s, NEW passedAt, NEW i,
           \E go : go = [x \in Places(s) |-> Turn(s, passedAt, i, go, x)]
    PROVE  \E go : /\ go = [x \in Places(s) |-> Turn(s, passedAt, i, go, x)]
                   /\ \A start : Along(s, passedAt, i, start) = go[start]
<1> DEFINE go == CHOOSE go : go = [x \in Places(s) |-> Turn(s, passedAt, i, go, x)]
<1>1. go = [x \in Places(s) |-> Turn(s, passedAt, i, go, x)]
  OBVIOUS
<1>2. \A start : Along(s, passedAt, i, start) = go[start]
  BY DEF Along, Turn, Places
<1> QED BY <1>1, <1>2


\* The nodes of A are the first k.
Leading(s, c, k, A) == \A p \in 1 .. Len(c) : c[p] \in A <=> p <= k

Passing(s, A) == [a \in DOMAIN s.node |-> IF a \in A THEN Nat ELSE {}]

\* The two ways a turn of the loop can go.
AsTurn(s, c, i, k, A, p, r, g) ==
    LET x == [at |-> At(c, p), rank |-> r]
        d == s.node[At(c, p)].levels[i].span IN
    \/ /\ On(s, c, i, p) /\ d \in 1 .. k - p /\ On(s, c, i, p + d)
       /\ Turn(s, Passing(s, A), i, g, x) = g[[at |-> At(c, p + d), rank |-> r + d]]
    \/ /\ On(s, c, i, p) /\ p <= k => Latest(s, c, k, i, p)
       /\ Turn(s, Passing(s, A), i, g, x) = x

LEMMA OneTurn ==
    ASSUME NEW s, NEW c, Typed(s, c), Linked(s, c), NEW i \in 1 .. s.level,
           NEW k \in 0 .. Len(c), NEW A, Leading(s, c, k, A),
           NEW p \in 0 .. Len(c), NEW r \in Nat, NEW g
    PROVE  AsTurn(s, c, i, k, A, p, r, g)
<1> USE DEF AsTurn
<1> DEFINE x == [at |-> At(c, p), rank |-> r]
           l == s.node[At(c, p)].levels[i]
           t == Turn(s, Passing(s, A), i, g, x)
<1>1. Len(c) \in Nat /\ k \in Nat /\ x.at = At(c, p) /\ x.rank = r
  BY NodeTyped
<1>2. CASE ~On(s, c, i, p)
  <2>1. LinkAt(s, x.at, i).forward = Nil
    BY <1>1, <1>2 DEF LinkAt, On
  <2>2. t = x
    BY <2>1 DEF Turn
  <2> QED BY <1>2, <2>2
<1>3. CASE On(s, c, i, p)
  <2>1. LinkAt(s, x.at, i) = l
    BY <1>1, <1>3 DEF LinkAt, On
  <2>2. Hop(s, c, i, p)
    BY <1>3 DEF Linked
  <2>3. t = IF l.forward # Nil /\ r + l.span \in Passing(s, A)[l.forward]
            THEN g[[at |-> l.forward, rank |-> r + l.span]] ELSE x
    BY <1>1, <2>1 DEF Turn
  <2>4. l.forward # Nil => l.span \in 1 .. Len(c) - p /\ l.forward = c[p + l.span] /\ On(s, c, i, p + l.span)
    <3>1. CASE l.forward = Nil
      BY <3>1
    <3>2. CASE l.forward # Nil
      BY <2>2, <3>2 DEF Hop
    <3> QED BY <3>1, <3>2
  <2>5. p <= k /\ (l.forward = Nil \/ k < p + l.span) => Latest(s, c, k, i, p)
    <3>1. ASSUME p <= k PROVE p \in 0 .. k
      BY <1>1, <3>1
    <3> QED BY <1>3, <2>2, <3>1, LatestAfter
  <2> HIDE DEF l, t
  <2>6. CASE l.forward = Nil
    BY <2>3, <2>5, <2>6 DEF x, t
  <2>7. CASE l.forward # Nil
    <3> DEFINE q == p + l.span
    <3>1. l.span \in 1 .. Len(c) - p /\ q \in 1 .. Len(c) /\ l.forward = c[q] /\ l.span \in Nat /\ On(s, c, i, q)
      BY <1>1, <2>4, <2>7
    <3>2. At(c, q) = c[q] /\ c[q] \in DOMAIN s.node
      BY <3>1 DEF At, Typed
    <3>3. Passing(s, A)[l.forward] = IF q <= k THEN Nat ELSE {}
      BY <3>1, <3>2 DEF Passing, Leading
    <3> HIDE DEF q
    <3>4. CASE q <= k
      <4>1. r + l.span \in Nat
        BY <3>1
      <4>2. t = g[[at |-> At(c, q), rank |-> r + l.span]]
        BY <2>3, <2>7, <3>1, <3>2, <3>3, <3>4, <4>1
      <4>3. l.span \in 1 .. k - p
        BY <1>1, <3>1, <3>4 DEF q
      <4> QED BY <1>3, <3>1, <4>2, <4>3 DEF q, l, t, x
    <3>5. CASE k < q
      <4>1. t = x
        BY <1>1, <2>3, <3>1, <3>3, <3>5
      <4>2. p <= k => Latest(s, c, k, i, p)
        BY <2>5, <3>5 DEF q
      <4> QED BY <4>1, <4>2 DEF t, x
    <3>6. q <= k \/ k < q
      BY <1>1, <3>1
    <3> QED BY <3>4, <3>5, <3>6
  <2> QED BY <2>6, <2>7
<1> QED BY <1>2, <1>3

\* The recursion of the loop is well founded.
LEMMA AlongExists ==
    ASSUME NEW s, NEW c, Typed(s, c), Linked(s, c), NEW i \in 1 .. s.level,
           NEW k \in 0 .. Len(c), NEW A, Leading(s, c, k, A)
    PROVE  \E go : go = [x \in Places(s) |-> Turn(s, Passing(s, A), i, go, x)]
<1> DEFINE pos(a) == CHOOSE p \in 0 .. Len(c) : At(c, p) = a
           final(p) == IF On(s, c, i, p) /\ p <= k THEN LastOn(s, c, k, i) ELSE p
           end(p, r) == [at |-> At(c, final(p)), rank |-> r + (final(p) - p)]
           w == [x \in Places(s) |-> end(pos(x.at), x.rank)]
<1>0. s.level \in 1 .. MaxLevel
  BY DEF Typed
<1>1. Len(c) \in Nat /\ k \in Nat /\ s.level \in 1 .. MaxLevel /\ MaxLevel \in Nat
  BY <1>0, NodeTyped
<1>2. \A p \in 0 .. Len(c) : pos(At(c, p)) = p
  BY NodeTyped
<1>3. Latest(s, c, k, i, LastOn(s, c, k, i))
  <2>1. i \in 1 .. MaxLevel /\ 0 \in 0 .. Len(c)
    BY <1>1
  <2>2. On(s, c, i, 0)
    BY <2>1, OnBelow
  <2> QED BY <1>1, <2>2, LatestExists
<1> HIDE DEF pos
<1>4. ASSUME NEW p \in 0 .. Len(c), NEW r \in Nat
      PROVE  [at |-> At(c, p), rank |-> r] \in Places(s) /\ w[[at |-> At(c, p), rank |-> r]] = end(p, r)
  <2>1. [at |-> At(c, p), rank |-> r] \in Places(s)
    BY NodeTyped DEF Places
  <2> QED BY <1>2, <2>1
<1>5. ASSUME NEW p \in 0 .. Len(c), NEW r \in Nat
      PROVE  Turn(s, Passing(s, A), i, w, [at |-> At(c, p), rank |-> r]) = end(p, r)
  <2> DEFINE d == s.node[At(c, p)].levels[i].span
             x == [at |-> At(c, p), rank |-> r]
  <2> HIDE DEF w
  <2>1. CASE /\ On(s, c, i, p) /\ d \in 1 .. k - p /\ On(s, c, i, p + d)
             /\ Turn(s, Passing(s, A), i, w, x) = w[[at |-> At(c, p + d), rank |-> r + d]]
    <3>0. d \in 1 .. k - p
      BY <2>1
    <3> HIDE DEF d
    <3>1. d \in Nat /\ p + d \in 0 .. Len(c) /\ r + d \in Nat /\ p + d <= k /\ p <= k
      BY <1>1, <3>0
    <3>2. w[[at |-> At(c, p + d), rank |-> r + d]] = end(p + d, r + d)
      BY <1>4, <3>1
    <3>3. final(p + d) = LastOn(s, c, k, i) /\ final(p) = LastOn(s, c, k, i) /\ LastOn(s, c, k, i) \in Int
      BY <1>3, <2>1, <3>1 DEF Latest
    <3> HIDE DEF final
    <3>4. (r + d) + (final(p + d) - (p + d)) = r + (final(p) - p)
      BY <3>1, <3>3
    <3>5. end(p + d, r + d) = end(p, r)
      BY <3>3, <3>4
    <3> QED BY <2>1, <3>2, <3>5
  <2>2. CASE /\ On(s, c, i, p) /\ p <= k => Latest(s, c, k, i, p)
             /\ Turn(s, Passing(s, A), i, w, x) = x
    <3>1. final(p) = p
      BY <1>1, <2>2, LatestUnique
    <3> HIDE DEF final
    <3>2. r + (final(p) - p) = r
      BY <3>1
    <3> QED BY <2>2, <3>1, <3>2
  <2>3. AsTurn(s, c, i, k, A, p, r, w)
    BY OneTurn
  <2> QED BY <2>1, <2>2, <2>3 DEF AsTurn
<1>6. ASSUME NEW x \in Places(s) PROVE w[x] = Turn(s, Passing(s, A), i, w, x)
  <2>1. PICK p \in 0 .. Len(c) : x.at = At(c, p)
    BY NodeTyped DEF Places
  <2>2. x = [at |-> At(c, p), rank |-> x.rank] /\ x.rank \in Nat
    BY <2>1 DEF Places
  <2> HIDE DEF w, end
  <2> QED BY <1>4, <1>5, <2>2
<1>7. w = [x \in Places(s) |-> w[x]]
  OBVIOUS
<1> HIDE DEF w
<1>8. w = [x \in Places(s) |-> Turn(s, Passing(s, A), i, w, x)]
  BY <1>6, <1>7
<1> QED BY <1>8

LEMMA AlongStops ==
    ASSUME NEW s, NEW c, Typed(s, c), Linked(s, c), NEW i \in 1 .. s.level,
           NEW k \in 0 .. Len(c), NEW A, Leading(s, c, k, A), NEW p \in 0 .. k, On(s, c, i, p)
    PROVE  Along(s, Passing(s, A), i, [at |-> At(c, p), rank |-> p]) = StopAt(s, c, k, i)
<1>1. PICK go : /\ go = [x \in Places(s) |-> Turn(s, Passing(s, A), i, go, x)]
                /\ \A start : Along(s, Passing(s, A), i, start) = go[start]
  BY AlongExists, AlongIs
<1>2. Len(c) \in Nat /\ k \in Nat
  BY NodeTyped
<1> DEFINE here(q) == [at |-> At(c, q), rank |-> q]
           T == {q \in 0 .. k : On(s, c, i, q) => go[here(q)] = StopAt(s, c, k, i)}
<1>3. ASSUME NEW q \in 0 .. k, \A m \in q + 1 .. k : m \in T PROVE q \in T
  <2> SUFFICES ASSUME On(s, c, i, q) PROVE go[here(q)] = StopAt(s, c, k, i)
    OBVIOUS
  <2> DEFINE d == s.node[At(c, q)].levels[i].span
  <2>1. q \in 0 .. Len(c) /\ q \in Nat
    BY <1>2
  <2>2. here(q) \in Places(s)
    BY <2>1, NodeTyped DEF Places
  <2>3. go[here(q)] = Turn(s, Passing(s, A), i, go, here(q))
    BY <1>1, <2>2
  <2>4. CASE d \in 1 .. k - q /\ On(s, c, i, q + d)
               /\ Turn(s, Passing(s, A), i, go, here(q)) = go[here(q + d)]
    <3>0. d \in 1 .. k - q
      BY <2>4
    <3> HIDE DEF d
    <3>1. q + d \in q + 1 .. k
      BY <1>2, <2>1, <3>0
    <3>2. q + d \in T
      BY <1>3, <3>1
    <3> QED BY <2>3, <2>4, <3>2
  <2>5. CASE Latest(s, c, k, i, q) /\ Turn(s, Passing(s, A), i, go, here(q)) = here(q)
    <3>1. LastOn(s, c, k, i) = q
      BY <1>2, <2>5, LatestUnique
    <3> QED BY <2>3, <2>5, <3>1 DEF StopAt
  <2>6. q <= k
    BY <1>2
  <2>7. \/ /\ On(s, c, i, q) /\ d \in 1 .. k - q /\ On(s, c, i, q + d)
           /\ Turn(s, Passing(s, A), i, go, here(q)) = go[here(q + d)]
        \/ /\ On(s, c, i, q) /\ q <= k => Latest(s, c, k, i, q)
           /\ Turn(s, Passing(s, A), i, go, here(q)) = here(q)
    <3>1. AsTurn(s, c, i, k, A, q, q, go)
      BY <2>1, OneTurn
    <3> QED BY <3>1 DEF AsTurn
  <2> HIDE DEF d, here
  <2> QED BY <2>4, <2>5, <2>6, <2>7
<1>4. \A q \in 0 .. k : q \in T
  <2> HIDE DEF T
  <2> QED BY <1>2, <1>3, Downward
<1>5. p \in T
  BY <1>4
<1> QED BY <1>1, <1>5

\* All nodes are on the lowest level, and only the header is on the levels
\* above the list's.
LEMMA LastOnLevel ==
    ASSUME NEW s, NEW c, Typed(s, c), NEW k \in 0 .. Len(c), NEW i \in 1 .. MaxLevel
    PROVE  /\ Latest(s, c, k, i, LastOn(s, c, k, i))
           /\ LastOn(s, c, k, 1) = k
           /\ Levelled(s, c) /\ i > s.level => LastOn(s, c, k, i) = 0
<1>1. Len(c) \in Nat /\ k \in Nat /\ MaxLevel \in Nat /\ 0 \in 0 .. Len(c) /\ s.level \in 1 .. MaxLevel
  <2>1. s.level \in 1 .. MaxLevel
    BY DEF Typed
  <2> QED BY <2>1, NodeTyped
<1>2. On(s, c, i, 0)
  BY <1>1, OnBelow
<1>3. Latest(s, c, k, 1, k)
  BY <1>1, OnBelow DEF Latest
<1>4. ASSUME Levelled(s, c), i > s.level PROVE Latest(s, c, k, i, 0)
  <2>1. \A q \in 1 .. k : ~On(s, c, i, q)
    <3> SUFFICES ASSUME NEW q \in 1 .. k, On(s, c, i, q) PROVE FALSE
      OBVIOUS
    <3>1. q \in 1 .. Len(c) /\ At(c, q) = c[q]
      BY <1>1 DEF At
    <3>2. i <= s.level
      BY <1>4, <3>1 DEF Levelled, On
    <3> QED BY <1>1, <1>4, <3>2
  <2> QED BY <1>1, <1>2, <2>1 DEF Latest
<1> QED BY <1>1, <1>2, <1>3, <1>4, LatestExists, LatestUnique

\* One level of the search, from where the level above stopped.
Descent(s, A, down, i) ==
    Along(s, Passing(s, A), i, IF i = s.level THEN [at |-> Header, rank |-> 0] ELSE down[i + 1])

LEMMA DescentStops ==
    ASSUME NEW s, NEW c, Typed(s, c), Linked(s, c), NEW i \in 1 .. s.level,
           NEW k \in 0 .. Len(c), NEW A, Leading(s, c, k, A), NEW down,
           i < s.level => down[i + 1] = StopAt(s, c, k, i + 1)
    PROVE  Descent(s, A, down, i) = StopAt(s, c, k, i)
<1>0. s.level \in 1 .. MaxLevel
  BY DEF Typed
<1>1. Len(c) \in Nat /\ MaxLevel \in Nat /\ k \in Nat /\ At(c, 0) = Header
  BY NodeTyped
<1>2. CASE i = s.level
  <2>1. 0 \in 0 .. k /\ 0 \in 0 .. Len(c) /\ i \in 1 .. MaxLevel
    BY <1>0, <1>1
  <2>2. On(s, c, i, 0)
    BY <2>1, OnBelow
  <2>3. Along(s, Passing(s, A), i, [at |-> At(c, 0), rank |-> 0]) = StopAt(s, c, k, i)
    BY <2>1, <2>2, AlongStops
  <2> QED BY <1>1, <1>2, <2>3 DEF Descent
<1>3. CASE i < s.level
  <2> DEFINE u == LastOn(s, c, k, i + 1)
  <2>1. i + 1 \in 1 .. MaxLevel /\ i \in 1 .. i + 1 /\ i # s.level
    BY <1>0, <1>1, <1>3
  <2>2. Latest(s, c, k, i + 1, u)
    BY <2>1, LastOnLevel
  <2> HIDE DEF u
  <2>3. u \in 0 .. k /\ On(s, c, i + 1, u) /\ u \in 0 .. Len(c)
    BY <1>1, <2>2 DEF Latest
  <2>4. On(s, c, i, u)
    BY <2>1, <2>3, OnBelow
  <2>5. Along(s, Passing(s, A), i, [at |-> At(c, u), rank |-> u]) = StopAt(s, c, k, i)
    BY <2>3, <2>4, AlongStops
  <2>6. down[i + 1] = [at |-> At(c, u), rank |-> u]
    BY <1>3 DEF StopAt, u
  <2> QED BY <2>1, <2>5, <2>6 DEF Descent
<1> QED BY <1>0, <1>1, <1>2, <1>3

\* The search past the first k nodes.
LEMMA PathStops ==
    ASSUME NEW s, NEW c, Typed(s, c), Linked(s, c),
           NEW k \in 0 .. Len(c), NEW A, Leading(s, c, k, A)
    PROVE  PathPast(s, A) = [i \in 1 .. s.level |-> StopAt(s, c, k, i)]
<1> DEFINE w == [i \in 1 .. s.level |-> StopAt(s, c, k, i)]
           Solves(d) == d = [i \in 1 .. s.level |-> Descent(s, A, d, i)]
           down == CHOOSE d : Solves(d)
<1>1. s.level \in Nat
  <2>1. s.level \in 1 .. MaxLevel /\ MaxLevel \in Nat
    BY LevelAssumption DEF Typed
  <2> QED BY <2>1
<1>2. PathPast(s, A) = down
  BY DEF PathPast, Path, Passing, Descent
<1>3. Solves(w)
  <2>1. ASSUME NEW i \in 1 .. s.level PROVE w[i] = Descent(s, A, w, i)
    <3>1. i < s.level => w[i + 1] = StopAt(s, c, k, i + 1)
      BY <1>1
    <3>2. w[i] = StopAt(s, c, k, i)
      OBVIOUS
    <3> HIDE DEF w
    <3> QED BY <3>1, <3>2, DescentStops
  <2>2. w = [i \in 1 .. s.level |-> w[i]]
    OBVIOUS
  <2> HIDE DEF w
  <2> QED BY <2>1, <2>2
<1>4. Solves(down)
  <2> HIDE DEF w, Solves
  <2> QED BY <1>3
<1> HIDE DEF down
<1> DEFINE T == {i \in 0 .. s.level : i = 0 \/ down[i] = StopAt(s, c, k, i)}
<1>5. ASSUME NEW i \in 0 .. s.level, \A j \in i + 1 .. s.level : j \in T PROVE i \in T
  <2> SUFFICES ASSUME i # 0 PROVE down[i] = StopAt(s, c, k, i)
    OBVIOUS
  <2>1. i \in 1 .. s.level
    BY <1>1
  <2>2. i < s.level => down[i + 1] = StopAt(s, c, k, i + 1)
    <3>1. i < s.level => i + 1 \in i + 1 .. s.level /\ i + 1 # 0
      BY <1>1, <2>1
    <3> QED BY <1>5, <3>1
  <2>3. Descent(s, A, down, i) = StopAt(s, c, k, i)
    BY <2>1, <2>2, DescentStops
  <2>4. down[i] = Descent(s, A, down, i)
    BY <1>4, <2>1
  <2> QED BY <2>3, <2>4
<1>6. \A i \in 0 .. s.level : i \in T
  <2> HIDE DEF T
  <2> QED BY <1>1, <1>5, Downward
<1>7. \A i \in 1 .. s.level : down[i] = StopAt(s, c, k, i)
  BY <1>1, <1>6
<1>8. down = [i \in 1 .. s.level |-> down[i]]
  BY <1>4
<1> QED BY <1>2, <1>7, <1>8

-----------------------------------------------------------------------------
(* The order of the pairs *)

LEMMA PrecedesNumbers ==
    ASSUME NEW n, n.score \in Int, NEW score \in Int, NEW m
    PROVE  Precedes(n, score, m) <=> n.score < score \/ (n.score = score /\ n.member < m)
BY ScoreAssumption DEF Precedes, Below, Same

\* Node a is before node b.
Before(s, a, b) == Precedes(s.node[a], s.node[b].score, s.node[b].member)

LEMMA BeforeNumbers ==
    ASSUME NEW s, NEW c, Typed(s, c), NEW p \in 1 .. Len(c), NEW q \in 1 .. Len(c)
    PROVE  /\ s.node[c[p]].score \in Int /\ s.node[c[p]].member \in Nat /\ c[p] \in DOMAIN s.node
           /\ Before(s, c[p], c[q]) <=>
                \/ s.node[c[p]].score < s.node[c[q]].score
                \/ s.node[c[p]].score = s.node[c[q]].score /\ s.node[c[p]].member < s.node[c[q]].member
<1>1. \A r \in 1 .. Len(c) : c[r] \in DOMAIN s.node /\ s.node[c[r]] \in Node
  BY DEF Typed
<1>2. \A r \in 1 .. Len(c) : s.node[c[r]].score \in Int /\ s.node[c[r]].member \in Nat
  BY <1>1 DEF Node
<1> QED BY <1>1, <1>2, PrecedesNumbers DEF Before

\* The nodes before a pair are the first.
LEMMA LeadingExists ==
    ASSUME NEW s, NEW c, Typed(s, c), Ordered(s, c), NEW score \in Int, NEW m \in Nat
    PROVE  \E k \in 0 .. Len(c) : Leading(s, c, k, {a \in DOMAIN s.node : Precedes(s.node[a], score, m)})
<1> DEFINE before(p) == Precedes(s.node[c[p]], score, m)
           T == {p \in 0 .. Len(c) : p = 0 \/ before(p)}
<1>1. Len(c) \in Nat /\ \A p \in 1 .. Len(c) : c[p] \in DOMAIN s.node
  <2>1. Len(c) \in Nat
    BY NodeTyped
  <2>2. \A p \in 1 .. Len(c) : c[p] \in DOMAIN s.node
    BY DEF Typed
  <2> QED BY <2>1, <2>2
<1>2. \A p \in 1 .. Len(c) : s.node[c[p]].score \in Int /\ s.node[c[p]].member \in Nat
  BY <1>1 DEF Typed, Node
<1>3. ASSUME NEW p \in 1 .. Len(c), NEW q \in 1 .. Len(c), p < q, before(q) PROVE before(p)
  <2>1. Before(s, c[p], c[q])
    BY <1>3 DEF Ordered, Before
  <2>2. \/ s.node[c[p]].score < s.node[c[q]].score
        \/ s.node[c[p]].score = s.node[c[q]].score /\ s.node[c[p]].member < s.node[c[q]].member
    BY <2>1, BeforeNumbers
  <2>3. s.node[c[q]].score < score \/ (s.node[c[q]].score = score /\ s.node[c[q]].member < m)
    BY <1>2, <1>3, PrecedesNumbers
  <2>4. s.node[c[p]].score < score \/ (s.node[c[p]].score = score /\ s.node[c[p]].member < m)
    <3>1. /\ s.node[c[p]].score \in Int /\ s.node[c[p]].member \in Nat
          /\ s.node[c[q]].score \in Int /\ s.node[c[q]].member \in Nat
      BY <1>2
    <3> DEFINE ps == s.node[c[p]].score
               pm == s.node[c[p]].member
               qs == s.node[c[q]].score
               qm == s.node[c[q]].member
    <3>2. /\ ps \in Int /\ pm \in Nat /\ qs \in Int /\ qm \in Nat
          /\ ps < qs \/ (ps = qs /\ pm < qm)
          /\ qs < score \/ (qs = score /\ qm < m)
      BY <2>2, <2>3, <3>1
    <3> HIDE DEF ps, pm, qs, qm
    <3>3. ps < score \/ (ps = score /\ pm < m)
      BY <3>2
    <3> QED BY <3>3 DEF ps, pm
  <2>5. s.node[c[p]].score \in Int
    BY <1>2
  <2>6. Precedes(s.node[c[p]], score, m)
          <=> s.node[c[p]].score < score \/ (s.node[c[p]].score = score /\ s.node[c[p]].member < m)
    BY <2>5, PrecedesNumbers
  <2> QED BY ONLY <2>4, <2>6, Zenon DEF before
<1>4. 0 \in T /\ T \in SUBSET (0 .. Len(c))
  BY <1>1
<1> HIDE DEF before
<1>5. PICK k \in T : \A p \in T : p <= k
  <2> HIDE DEF T
  <2> QED BY <1>1, <1>4, Greatest
<1>6. ASSUME NEW p \in 1 .. Len(c) PROVE before(p) <=> p <= k
  <2>1. k \in 0 .. Len(c) /\ (k = 0 \/ before(k)) /\ p \in Nat
    BY <1>1
  <2>2. before(p) => p <= k
    BY <1>1, <1>5
  <2>3. p <= k => before(p)
    <3>1. CASE p = k
      BY <2>1, <3>1
    <3>2. CASE p < k
      BY <1>1, <1>3, <2>1, <3>2
    <3> QED BY <2>1, <3>1, <3>2
  <2> QED BY <2>2, <2>3
<1>7. Leading(s, c, k, {a \in DOMAIN s.node : Precedes(s.node[a], score, m)})
  BY <1>1, <1>6 DEF Leading, before
<1> QED BY <1>7

\* A member is in the list once, at the score the list has for it.
LEMMA LeadingHere ==
    ASSUME NEW s, NEW c, Typed(s, c), Ordered(s, c), NEW y \in 1 .. Len(c)
    PROVE  Leading(s, c, y - 1, {a \in DOMAIN s.node :
                                    Precedes(s.node[a], s.node[c[y]].score, s.node[c[y]].member)})
<1> DEFINE A == {a \in DOMAIN s.node : Precedes(s.node[a], s.node[c[y]].score, s.node[c[y]].member)}
<1>1. Len(c) \in Nat /\ \A p \in 1 .. Len(c) : c[p] \in DOMAIN s.node
  <2>1. Len(c) \in Nat
    BY NodeTyped
  <2>2. \A p \in 1 .. Len(c) : c[p] \in DOMAIN s.node
    BY DEF Typed
  <2> QED BY <2>1, <2>2
<1>2. \A p \in 1 .. Len(c) : s.node[c[p]].score \in Int /\ s.node[c[p]].member \in Nat
  BY <1>1 DEF Typed, Node
<1>3. ASSUME NEW p \in 1 .. Len(c) PROVE c[p] \in A <=> p <= y - 1
  <2>1. CASE p < y
    BY <1>1, <2>1 DEF Ordered
  <2>2. CASE p = y
    BY <1>2, <2>2, PrecedesNumbers
  <2>3. CASE y < p
    <3>1. Before(s, c[y], c[p])
      BY <2>3 DEF Ordered, Before
    <3>2. ~Before(s, c[p], c[y])
      <4>1. /\ s.node[c[p]].score \in Int /\ s.node[c[p]].member \in Nat
            /\ s.node[c[y]].score \in Int /\ s.node[c[y]].member \in Nat
        BY <1>2
      <4>2. \/ s.node[c[y]].score < s.node[c[p]].score
            \/ s.node[c[y]].score = s.node[c[p]].score /\ s.node[c[y]].member < s.node[c[p]].member
        BY <3>1, BeforeNumbers
      <4>3. Before(s, c[p], c[y]) <=>
               \/ s.node[c[p]].score < s.node[c[y]].score
               \/ s.node[c[p]].score = s.node[c[y]].score /\ s.node[c[p]].member < s.node[c[y]].member
        BY BeforeNumbers
      <4> QED BY <4>1, <4>2, <4>3
    <3>3. c[p] \notin A
      BY ONLY <3>2, Zenon DEF Before, A
    <3>4. ~(p <= y - 1)
      BY <1>1, <2>3
    <3> HIDE DEF A
    <3> QED BY <3>3, <3>4
  <2> QED BY <1>1, <2>1, <2>2, <2>3
<1> QED BY <1>3 DEF Leading

-----------------------------------------------------------------------------
(* Insert *)

With(c, k, a) == [p \in 1 .. Len(c) + 1 |-> IF p <= k THEN c[p] ELSE IF p = k + 1 THEN a ELSE c[p - 1]]

\* Where the node at p is when another has come at k + 1.
Moved(k, p) == IF p <= k THEN p ELSE p + 1

AsWith(s, c, k, a) ==
    LET d == With(c, k, a) IN
    /\ d \in Seq(Address) /\ Len(d) = Len(c) + 1 /\ At(d, k + 1) = a /\ d[k + 1] = a
    /\ \A p \in 0 .. Len(c) : Moved(k, p) \in 0 .. Len(d) /\ At(d, Moved(k, p)) = At(c, p) /\ At(c, p) # a
    /\ \A p \in 0 .. Len(d) : p = k + 1 \/ \E q \in 0 .. Len(c) : p = Moved(k, q)
    /\ \A p, q \in 1 .. Len(d) : d[p] = d[q] => p = q
    /\ \A b : b \in DOMAIN s.node \cup {a} <=> b = Header \/ \E p \in 1 .. Len(d) : b = d[p]

LEMMA WithChain ==
    ASSUME NEW s, NEW c, Typed(s, c), NEW k \in 0 .. Len(c), NEW a \in Address \ DOMAIN s.node
    PROVE  AsWith(s, c, k, a)
<1> DEFINE d == With(c, k, a)
<1>1. Len(c) \in Nat /\ k \in Nat /\ a # Header /\ Header \notin Address
      /\ \A p \in 1 .. Len(c) : c[p] \in Address /\ At(c, p) = c[p]
  BY NodeTyped
<1>2. d \in Seq(Address) /\ Len(d) = Len(c) + 1
  <2>1. \A p \in 1 .. Len(c) + 1 : d[p] \in Address
    BY <1>1 DEF With
  <2>2. d = [p \in 1 .. Len(c) + 1 |-> d[p]]
    BY DEF With
  <2> HIDE DEF d
  <2>3. d \in [1 .. Len(c) + 1 -> Address]
    BY <2>1, <2>2
  <2>4. Len(c) + 1 \in Nat
    BY <1>1
  <2> QED BY <2>3, <2>4
<1>3. \A p \in 1 .. Len(c) + 1 :
        d[p] = IF p <= k THEN c[p] ELSE IF p = k + 1 THEN a ELSE c[p - 1]
  BY DEF With
<1> HIDE DEF d
<1>4. d[k + 1] = a /\ At(d, k + 1) = a
  BY <1>1, <1>3 DEF At
<1>5. ASSUME NEW p \in 0 .. Len(c)
      PROVE  Moved(k, p) \in 0 .. Len(d) /\ At(d, Moved(k, p)) = At(c, p) /\ At(c, p) # a
  <2>1. At(c, p) # a
    <3>1. At(c, p) \in DOMAIN s.node
      BY NodeTyped
    <3> QED BY <3>1
  <2>2. CASE p = 0
    BY <1>1, <1>2, <2>1, <2>2 DEF Moved, At
  <2>3. CASE p # 0 /\ p <= k
    <3>1. Moved(k, p) = p /\ p \in 1 .. Len(c) + 1 /\ p \in 0 .. Len(c) + 1
      BY <1>1, <2>3 DEF Moved
    <3> QED BY <1>2, <1>3, <2>1, <2>3, <3>1 DEF At
  <2>4. CASE p # 0 /\ k < p
    <3>1. Moved(k, p) = p + 1 /\ p + 1 \in 1 .. Len(c) + 1 /\ p + 1 \in 0 .. Len(c) + 1 /\ p + 1 # 0
          /\ ~(p + 1 <= k) /\ p + 1 # k + 1 /\ (p + 1) - 1 = p
      BY <1>1, <2>4 DEF Moved
    <3>2. d[p + 1] = c[p]
      BY <1>3, <3>1
    <3> QED BY <1>2, <2>1, <2>4, <3>1, <3>2 DEF At
  <2> QED BY <1>1, <2>2, <2>3, <2>4
<1>6. ASSUME NEW p \in 0 .. Len(d), p # k + 1
      PROVE  \E q \in 0 .. Len(c) : p = Moved(k, q)
  <2>1. CASE p <= k
    <3>1. p \in 0 .. Len(c) /\ p = Moved(k, p)
      BY <1>1, <1>2, <2>1 DEF Moved
    <3> QED BY <3>1
  <2>2. CASE k < p
    <3>1. p - 1 \in 0 .. Len(c) /\ p = Moved(k, p - 1)
      BY <1>1, <1>2, <1>6, <2>2 DEF Moved
    <3> QED BY <3>1
  <2> QED BY <1>1, <1>2, <2>1, <2>2
<1>7. ASSUME NEW p \in 1 .. Len(d), NEW q \in 1 .. Len(d), d[p] = d[q] PROVE p = q
  <2>1. At(d, p) = At(d, q) /\ p \in 0 .. Len(d) /\ q \in 0 .. Len(d)
    BY <1>2, <1>7 DEF At
  <2>2. CASE p = k + 1 \/ q = k + 1
    BY <1>4, <1>5, <1>6, <2>1, <2>2
  <2>3. CASE p # k + 1 /\ q # k + 1
    <3>1. PICK i \in 0 .. Len(c), j \in 0 .. Len(c) : p = Moved(k, i) /\ q = Moved(k, j)
      BY <1>6, <2>1, <2>3
    <3>2. At(c, i) = At(c, j)
      BY <1>5, <2>1, <3>1
    <3>3. i = j
      BY <3>2, NodeTyped
    <3> QED BY <3>1, <3>3
  <2> QED BY <2>2, <2>3
<1>8. \A b : b \in DOMAIN s.node \cup {a} <=> b = Header \/ \E p \in 1 .. Len(d) : b = d[p]
  <2>1. \A p \in 1 .. Len(d) : d[p] = At(d, p) /\ p \in 0 .. Len(d)
    BY <1>2 DEF At
  <2>2. ASSUME NEW p \in 1 .. Len(d) PROVE d[p] \in DOMAIN s.node \cup {a}
    <3>1. CASE p = k + 1
      BY <1>4, <3>1
    <3>2. CASE p # k + 1
      <4>1. PICK q \in 0 .. Len(c) : p = Moved(k, q)
        BY <1>6, <2>1, <3>2
      <4>2. d[p] = At(c, q) /\ At(c, q) \in DOMAIN s.node
        BY <1>5, <2>1, <4>1, NodeTyped
      <4> QED BY <4>2
    <3> QED BY <3>1, <3>2
  <2>3. Header \in DOMAIN s.node
    BY DEF Typed
  <2>4. ASSUME NEW b \in DOMAIN s.node PROVE b = Header \/ \E p \in 1 .. Len(d) : b = d[p]
    <3>1. PICK q \in 0 .. Len(c) : b = At(c, q)
      BY NodeTyped
    <3>2. CASE q = 0
      BY <3>1, <3>2 DEF At
    <3>3. CASE q # 0
      <4>1. Moved(k, q) \in 1 .. Len(d)
        BY <1>1, <1>2, <3>3 DEF Moved
      <4>2. d[Moved(k, q)] = b
        BY <1>5, <2>1, <3>1, <4>1
      <4> QED BY <4>1, <4>2
    <3> QED BY <3>2, <3>3
  <2>5. k + 1 \in 1 .. Len(d)
    BY <1>1, <1>2
  <2> QED BY <1>4, <2>2, <2>3, <2>4, <2>5
<1> QED BY <1>2, <1>4, <1>5, <1>6, <1>7, <1>8 DEF d, AsWith

LEMMA FirstLink ==
    ASSUME NEW s, NEW c, Typed(s, c), Linked(s, c), NEW p \in 0 .. Len(c)
    PROVE  Next0(s, At(c, p)) = IF p = Len(c) THEN Nil ELSE c[p + 1]
<1>0. s.level \in 1 .. MaxLevel
  BY DEF Typed
<1>1. Len(c) \in Nat /\ 1 \in 1 .. s.level
  BY <1>0, NodeTyped
<1>2. \A q \in 0 .. Len(c) : On(s, c, 1, q)
  BY OnBelow
<1>3. Hop(s, c, 1, p)
  BY <1>1, <1>2 DEF Linked
<1> DEFINE l == s.node[At(c, p)].levels[1]
<1>4. CASE l.forward = Nil /\ \A q \in p + 1 .. Len(c) : ~On(s, c, 1, q)
  <2>1. p = Len(c)
    BY <1>1, <1>2, <1>4
  <2> QED BY <1>4, <2>1 DEF Next0
<1>5. CASE /\ l.span \in 1 .. Len(c) - p /\ l.forward = c[p + l.span]
           /\ \A q \in p + 1 .. p + l.span - 1 : ~On(s, c, 1, q)
  <2>0. l.span \in 1 .. Len(c) - p
    BY <1>5
  <2>1. p # Len(c) /\ l.span = 1
    <3> HIDE DEF l
    <3>1. CASE l.span > 1
      <4>1. p + 1 \in p + 1 .. p + l.span - 1 /\ p + 1 \in 0 .. Len(c)
        BY <1>1, <2>0, <3>1
      <4> QED BY <1>2, <1>5, <4>1
    <3>2. CASE l.span = 1
      BY <1>1, <2>0, <3>2
    <3> QED BY <1>1, <2>0, <3>1, <3>2
  <2> QED BY <1>5, <2>1 DEF Next0
<1> QED BY <1>3, <1>4, <1>5 DEF Hop

\* What Insert makes, in terms of positions.
AsInserted(s, c, score, m, level, k) ==
    LET t == Insert(s, score, m, level)
        a == Fresh(s, m)
        top == IF level <= s.level THEN s.level ELSE level
        next == IF k = Len(c) THEN Nil ELSE c[k + 1]
        old(i) == s.node[At(c, LastOn(s, c, k, i))].levels[i] IN
    /\ a \in Address \ DOMAIN s.node
    /\ DOMAIN t.node = DOMAIN s.node \cup {a}
    /\ t.node[a] = [member |-> m, score |-> score, backward |-> IF k = 0 THEN Nil ELSE c[k],
                    levels |-> [i \in 1 .. level |->
                       [forward |-> old(i).forward,
                        span |-> (IF i <= s.level THEN old(i).span ELSE s.length)
                                   - (k - LastOn(s, c, k, i))]]]
    /\ \A p \in 0 .. Len(c) :
         t.node[At(c, p)] =
           [s.node[At(c, p)] EXCEPT
              !.backward = IF At(c, p) = next THEN a ELSE @,
              !.levels = [i \in DOMAIN @ |->
                 IF i \notin 1 .. top \/ LastOn(s, c, k, i) # p THEN @[i]
                 ELSE IF i <= level THEN [forward |-> a, span |-> (k - LastOn(s, c, k, i)) + 1]
                 ELSE [forward |-> @[i].forward, span |-> @[i].span + 1]]]
    /\ t.tail = IF next = Nil THEN a ELSE s.tail
    /\ t.length = s.length + 1 /\ t.level = top

LEMMA Inserted ==
    ASSUME NEW s, NEW c, Shape(s, c), NEW score \in Int, NEW m \in Member, NEW level \in 1 .. MaxLevel,
           Room(s, m), NEW k \in 0 .. Len(c),
           Leading(s, c, k, {a \in DOMAIN s.node : Precedes(s.node[a], score, m)})
    PROVE  AsInserted(s, c, score, m, level, k)
<1> DEFINE t == Insert(s, score, m, level)
           a == Fresh(s, m)
           top == IF level <= s.level THEN s.level ELSE level
           next == IF k = Len(c) THEN Nil ELSE c[k + 1]
           u(i) == LastOn(s, c, k, i)
           old(i) == s.node[At(c, u(i))].levels[i]
           path == PathTo(s, score, m)
           high == [i \in 1 .. Max({level, s.level}) - s.level |-> [at |-> Header, rank |-> 0]]
           update == path \o high
<1>0. Typed(s, c) /\ Linked(s, c) /\ Levelled(s, c)
  BY DEF Shape
<1>1. s.level \in 1 .. MaxLevel /\ level \in Nat /\ s.level \in Nat /\ MaxLevel \in Nat /\ Len(c) \in Nat /\ k \in Nat
  <2>1. s.level \in 1 .. MaxLevel
    BY <1>0 DEF Typed
  <2>2. MaxLevel \in Nat /\ Len(c) \in Nat
    BY <1>0, NodeTyped
  <2> QED BY <2>1, <2>2
<1>2. Max({level, s.level}) = top
  BY <1>1, MaxOfTwo
<1>3. a \in Address \ DOMAIN s.node
  <2>1. {m} \X (1 .. Copies) \subseteq Address
    BY DEF Address
  <2> QED BY <2>1 DEF Fresh, Room
<1>4. path = [i \in 1 .. s.level |-> StopAt(s, c, k, i)]
  BY <1>0, PathStops DEF PathTo
<1>5. \A i \in 1 .. top : u(i) \in 0 .. k /\ i \in 1 .. MaxLevel /\ On(s, c, i, u(i)) /\ (i > s.level => u(i) = 0)
  <2> SUFFICES ASSUME NEW i \in 1 .. top
               PROVE  u(i) \in 0 .. k /\ i \in 1 .. MaxLevel /\ On(s, c, i, u(i)) /\ (i > s.level => u(i) = 0)
    OBVIOUS
  <2>1. i \in 1 .. MaxLevel
    BY <1>1
  <2> QED BY <1>0, <2>1, LastOnLevel DEF Latest
<1>6. DOMAIN update = 1 .. top /\ \A i \in 1 .. top : update[i].at = At(c, u(i)) /\ update[i].rank = u(i)
  <2> DEFINE X == [at : {Header} \cup {At(c, p) : p \in 0 .. Len(c)}, rank : Nat]
  <2>1. path \in Seq(X) /\ Len(path) = s.level
    <3>1. \A i \in 1 .. s.level : StopAt(s, c, k, i) \in X
      <4> SUFFICES ASSUME NEW i \in 1 .. s.level PROVE StopAt(s, c, k, i) \in X
        OBVIOUS
      <4>1. u(i) \in 0 .. k
        BY <1>1, <1>5
      <4>2. u(i) \in 0 .. Len(c) /\ u(i) \in Nat
        BY <1>1, <4>1
      <4> QED BY <4>2 DEF StopAt
    <3> HIDE DEF X, path
    <3>2. path \in [1 .. s.level -> X]
      BY <1>4, <3>1
    <3> QED BY <1>1, <3>2
  <2>2. high \in Seq(X) /\ Len(high) = top - s.level
    <3>1. top - s.level \in Nat
      BY <1>1
    <3>2. [at |-> Header, rank |-> 0] \in X
      OBVIOUS
    <3> HIDE DEF X, top
    <3>3. high \in [1 .. top - s.level -> X]
      BY <1>2, <3>2
    <3> HIDE DEF high
    <3> QED BY <3>1, <3>3
  <2> HIDE DEF path
  <2>3. Len(update) = top /\ DOMAIN update = 1 .. top
        /\ \A i \in 1 .. top : update[i] = IF i <= s.level THEN path[i] ELSE high[i - s.level]
    <3> HIDE DEF high, X
    <3>1. /\ path \o high \in Seq(X)
          /\ Len(path \o high) = Len(path) + Len(high)
          /\ \A i \in 1 .. Len(path) + Len(high) :
               (path \o high)[i] = IF i <= Len(path) THEN path[i] ELSE high[i - Len(path)]
      BY <2>1, <2>2, ConcatProperties
    <3>2. Len(path) + Len(high) = top
      BY <1>1, <2>1, <2>2
    <3>3. Len(update) = top /\ update \in Seq(X)
      BY <3>1, <3>2
    <3>4. DOMAIN update = 1 .. top
      <4> HIDE DEF update, top
      <4> QED BY <3>3
    <3> QED BY <2>1, <3>1, <3>2, <3>3, <3>4
  <2> HIDE DEF update
  <2>4. ASSUME NEW i \in 1 .. top PROVE update[i].at = At(c, u(i)) /\ update[i].rank = u(i)
    <3>1. CASE i <= s.level
      <4>1. i \in 1 .. s.level
        BY <1>1, <3>1
      <4>2. update[i] = StopAt(s, c, k, i)
        BY <1>4, <2>3, <3>1, <4>1
      <4> QED BY <4>2 DEF StopAt
    <3>2. CASE i > s.level
      <4>1. i - s.level \in 1 .. top - s.level /\ ~(i <= s.level)
        BY <1>1, <3>2
      <4>2. update[i] = [at |-> Header, rank |-> 0]
        BY <1>2, <2>3, <4>1
      <4>3. u(i) = 0
        BY <1>5, <3>2
      <4> QED BY <4>2, <4>3 DEF At
    <3> QED BY <1>1, <3>1, <3>2
  <2> QED BY <2>3, <2>4
<1>7. 1 \in 1 .. top /\ u(1) = k
  <2>1. 1 \in 1 .. MaxLevel /\ 1 \in 1 .. top
    BY <1>1
  <2> QED BY <1>0, <2>1, LastOnLevel
<1>8. update[1].at = At(c, k) /\ update[1].rank = k
  <2> HIDE DEF update
  <2> QED BY <1>6, <1>7
<1>9. Next0(s, update[1].at) = next
  <2> HIDE DEF update
  <2> QED BY <1>0, <1>8, FirstLink
<1>10. t = [node |-> [b \in DOMAIN s.node \cup {a} |->
           IF b = a
           THEN [member |-> m, score |-> score,
                 backward |-> IF update[1].at = Header THEN Nil ELSE update[1].at,
                 levels |-> [i \in 1 .. level |->
                    [forward |-> s.node[update[i].at].levels[i].forward,
                     span |-> (IF i <= s.level THEN s.node[update[i].at].levels[i].span ELSE s.length)
                                - (update[1].rank - update[i].rank)]]]
           ELSE [s.node[b] EXCEPT
                 !.backward = IF b = Next0(s, update[1].at) THEN a ELSE @,
                 !.levels = [i \in DOMAIN @ |->
                    IF i \notin DOMAIN update \/ update[i].at # b THEN @[i]
                      ELSE IF i <= level THEN [forward |-> a, span |-> (update[1].rank - update[i].rank) + 1]
                      ELSE [forward |-> @[i].forward, span |-> @[i].span + 1]]]],
        tail |-> IF Next0(s, update[1].at) = Nil THEN a ELSE s.tail,
        length |-> s.length + 1, level |-> Max({level, s.level})]
  BY DEF Insert
<1> HIDE DEF update, t, a, path, top, next
<1>11. DOMAIN t.node = DOMAIN s.node \cup {a} /\ t.tail = (IF next = Nil THEN a ELSE s.tail)
       /\ t.length = s.length + 1 /\ t.level = top
  BY <1>2, <1>9, <1>10
<1>12. t.node[a] = [member |-> m, score |-> score, backward |-> IF k = 0 THEN Nil ELSE c[k],
                    levels |-> [i \in 1 .. level |->
                       [forward |-> old(i).forward,
                        span |-> (IF i <= s.level THEN old(i).span ELSE s.length) - (k - u(i))]]]
  <2>1. (IF update[1].at = Header THEN Nil ELSE update[1].at) = IF k = 0 THEN Nil ELSE c[k]
    <3>1. CASE k = 0
      BY <1>8, <3>1 DEF At
    <3>2. CASE k # 0
      <4>1. k \in 1 .. Len(c)
        BY <1>1, <3>2
      <4>2. c[k] # Header /\ At(c, k) = c[k]
        BY <1>0, <4>1, NodeTyped
      <4> QED BY <1>8, <3>2, <4>2
    <3> QED BY <3>1, <3>2
  <2>2. \A i \in 1 .. level : i \in 1 .. top
    BY <1>1 DEF top
  <2>3. \A i \in 1 .. level : s.node[update[i].at].levels[i] = old(i) /\ update[1].rank - update[i].rank = k - u(i)
    BY <1>6, <1>8, <2>2
  <2> HIDE DEF old
  <2>4. t.node[a] = [member |-> m, score |-> score,
                 backward |-> IF update[1].at = Header THEN Nil ELSE update[1].at,
                 levels |-> [i \in 1 .. level |->
                    [forward |-> s.node[update[i].at].levels[i].forward,
                     span |-> (IF i <= s.level THEN s.node[update[i].at].levels[i].span ELSE s.length)
                                - (update[1].rank - update[i].rank)]]]
    BY <1>10
  <2>5. [i \in 1 .. level |->
                    [forward |-> s.node[update[i].at].levels[i].forward,
                     span |-> (IF i <= s.level THEN s.node[update[i].at].levels[i].span ELSE s.length)
                                - (update[1].rank - update[i].rank)]]
         = [i \in 1 .. level |->
                       [forward |-> old(i).forward,
                        span |-> (IF i <= s.level THEN old(i).span ELSE s.length) - (k - u(i))]]
    BY <2>3
  <2> QED BY <2>1, <2>4, <2>5
<1>13. ASSUME NEW p \in 0 .. Len(c)
       PROVE  t.node[At(c, p)] =
                [s.node[At(c, p)] EXCEPT
                   !.backward = IF At(c, p) = next THEN a ELSE @,
                   !.levels = [i \in DOMAIN @ |->
                      IF i \notin 1 .. top \/ u(i) # p THEN @[i]
                      ELSE IF i <= level THEN [forward |-> a, span |-> (k - u(i)) + 1]
                      ELSE [forward |-> @[i].forward, span |-> @[i].span + 1]]]
  <2> DEFINE b == At(c, p)
             L == s.node[b].levels
  <2>1. b \in DOMAIN s.node /\ b # a
    <3>1. b \in DOMAIN s.node
      BY <1>0, NodeTyped
    <3> QED BY <1>3, <3>1
  <2>2. \A i \in 1 .. top : update[i].at # b <=> u(i) # p
    <3>1. \A i \in 1 .. top : u(i) \in 0 .. Len(c)
      BY <1>1, <1>5
    <3>2. \A i \in 1 .. top : At(c, u(i)) = At(c, p) <=> u(i) = p
      BY <1>0, <3>1, NodeTyped
    <3> QED BY <1>6, <3>2
  <2> HIDE DEF b
  <2>3. t.node[b] = [s.node[b] EXCEPT
                 !.backward = IF b = next THEN a ELSE @,
                 !.levels = [i \in DOMAIN @ |->
                    IF i \notin DOMAIN update \/ update[i].at # b THEN @[i]
                      ELSE IF i <= level THEN [forward |-> a, span |-> (update[1].rank - update[i].rank) + 1]
                      ELSE [forward |-> @[i].forward, span |-> @[i].span + 1]]]
    BY <1>9, <1>10, <2>1
  <2>4. ASSUME NEW i \in DOMAIN L
        PROVE (IF i \notin DOMAIN update \/ update[i].at # b THEN L[i]
                      ELSE IF i <= level THEN [forward |-> a, span |-> (update[1].rank - update[i].rank) + 1]
                      ELSE [forward |-> L[i].forward, span |-> L[i].span + 1])
            = IF i \notin 1 .. top \/ u(i) # p THEN L[i]
                      ELSE IF i <= level THEN [forward |-> a, span |-> (k - u(i)) + 1]
                      ELSE [forward |-> L[i].forward, span |-> L[i].span + 1]
    <3> HIDE DEF L
    <3>1. CASE i \notin 1 .. top
      BY <1>6, <3>1
    <3>3. CASE i \in 1 .. top /\ u(i) # p
      <4>1. update[i].at # b
        BY <2>2, <3>3
      <4> QED BY <3>3, <4>1
    <3>2. CASE i \in 1 .. top /\ u(i) = p
      <4>1. i \in DOMAIN update /\ update[i].at = b /\ update[1].rank - update[i].rank = k - u(i)
        BY <1>6, <1>8, <2>2, <3>2
      <4> QED BY <3>2, <4>1
    <3> QED BY <3>1, <3>2, <3>3
  <2>5. [i \in DOMAIN L |->
                    IF i \notin DOMAIN update \/ update[i].at # b THEN L[i]
                      ELSE IF i <= level THEN [forward |-> a, span |-> (update[1].rank - update[i].rank) + 1]
                      ELSE [forward |-> L[i].forward, span |-> L[i].span + 1]]
          = [i \in DOMAIN L |->
                      IF i \notin 1 .. top \/ u(i) # p THEN L[i]
                      ELSE IF i <= level THEN [forward |-> a, span |-> (k - u(i)) + 1]
                      ELSE [forward |-> L[i].forward, span |-> L[i].span + 1]]
    <3> HIDE DEF L
    <3> QED BY <2>4
  <2> QED BY <2>3, <2>5 DEF b
<1> QED BY <1>3, <1>11, <1>12, <1>13 DEF t, a, top, next, AsInserted

\* The levels and links of the new list.
AsLinked(s, c, score, m, level, k) ==
    LET t == Insert(s, score, m, level)
        a == Fresh(s, m)
        d == With(c, k, a)
        u(i) == LastOn(s, c, k, i)
        old(i) == s.node[At(c, u(i))].levels[i] IN
    /\ \A i : On(t, d, i, k + 1) <=> i \in 1 .. level
    /\ \A i \in 1 .. level :
         t.node[At(d, k + 1)].levels[i] =
           [forward |-> old(i).forward,
            span |-> (IF i <= s.level THEN old(i).span ELSE Len(c)) - (k - u(i))]
    /\ \A p \in 0 .. Len(c) :
         /\ \A i : On(t, d, i, Moved(k, p)) <=> On(s, c, i, p)
         /\ \A i : On(s, c, i, p) =>
              t.node[At(d, Moved(k, p))].levels[i] =
                LET l == s.node[At(c, p)].levels[i] IN
                IF i > t.level \/ u(i) # p THEN l
                ELSE IF i <= level THEN [forward |-> a, span |-> (k - u(i)) + 1]
                ELSE [forward |-> l.forward, span |-> l.span + 1]
    /\ t.level = IF level <= s.level THEN s.level ELSE level

LEMMA InsertedLinks ==
    ASSUME NEW s, NEW c, Shape(s, c), NEW score \in Int, NEW m \in Member, NEW level \in 1 .. MaxLevel,
           Room(s, m), NEW k \in 0 .. Len(c),
           Leading(s, c, k, {a \in DOMAIN s.node : Precedes(s.node[a], score, m)})
    PROVE  AsLinked(s, c, score, m, level, k)
<1> DEFINE t == Insert(s, score, m, level)
           a == Fresh(s, m)
           d == With(c, k, a)
           u(i) == LastOn(s, c, k, i)
           old(i) == s.node[At(c, u(i))].levels[i]
           top == IF level <= s.level THEN s.level ELSE level
           next == IF k = Len(c) THEN Nil ELSE c[k + 1]
<1>0. Typed(s, c) /\ s.length = Len(c)
  <2>1. Typed(s, c)
    BY DEF Shape
  <2> QED BY <2>1 DEF Typed
<1>7. AsInserted(s, c, score, m, level, k)
  BY Inserted
<1>1. /\ a \in Address \ DOMAIN s.node
      /\ t.node[a].levels = [i \in 1 .. level |->
                              [forward |-> old(i).forward,
                               span |-> (IF i <= s.level THEN old(i).span ELSE s.length) - (k - u(i))]]
      /\ t.level = top
  <2>1. a \in Address \ DOMAIN s.node /\ t.level = top
    BY <1>7 DEF AsInserted
  <2>2. t.node[a] = [member |-> m, score |-> score, backward |-> IF k = 0 THEN Nil ELSE c[k],
                           levels |-> [i \in 1 .. level |->
                              [forward |-> old(i).forward,
                               span |-> (IF i <= s.level THEN old(i).span ELSE s.length)
                                          - (k - u(i))]]]
    BY <1>7 DEF AsInserted
  <2> HIDE DEF t, a, old, u
  <2> QED BY <2>1, <2>2
<1>2. ASSUME NEW p \in 0 .. Len(c)
      PROVE  t.node[At(c, p)].levels =
                  [i \in DOMAIN s.node[At(c, p)].levels |->
                        IF i \notin 1 .. top \/ u(i) # p THEN s.node[At(c, p)].levels[i]
                        ELSE IF i <= level THEN [forward |-> a, span |-> (k - u(i)) + 1]
                        ELSE [forward |-> s.node[At(c, p)].levels[i].forward,
                              span |-> s.node[At(c, p)].levels[i].span + 1]]
  <2>1. t.node[At(c, p)] =
                  [s.node[At(c, p)] EXCEPT
                     !.backward = IF At(c, p) = next THEN a ELSE @,
                     !.levels = [i \in DOMAIN @ |->
                        IF i \notin 1 .. top \/ u(i) # p THEN @[i]
                        ELSE IF i <= level THEN [forward |-> a, span |-> (k - u(i)) + 1]
                        ELSE [forward |-> @[i].forward, span |-> @[i].span + 1]]]
    BY <1>7 DEF AsInserted
  <2>2. s.node[At(c, p)] \in Node
    BY <1>0, NodeTyped
  <2> HIDE DEF t, a, u, top, next
  <2> QED BY <2>1, <2>2 DEF Node
<1> HIDE DEF t, a
<1>3. /\ At(d, k + 1) = a
      /\ \A p \in 0 .. Len(c) : At(d, Moved(k, p)) = At(c, p)
  <2>1. AsWith(s, c, k, a)
    BY <1>0, <1>1, WithChain
  <2> QED BY <2>1 DEF AsWith
<1> HIDE DEF d, old
<1>4. \A i : On(t, d, i, k + 1) <=> i \in 1 .. level
  BY <1>1, <1>3 DEF On
<1>5. \A i \in 1 .. level : t.node[At(d, k + 1)].levels[i] =
                  [forward |-> old(i).forward,
                   span |-> (IF i <= s.level THEN old(i).span ELSE Len(c)) - (k - u(i))]
  BY <1>0, <1>1, <1>3
<1>6. ASSUME NEW p \in 0 .. Len(c), NEW i
      PROVE  /\ On(t, d, i, Moved(k, p)) <=> On(s, c, i, p)
             /\ On(s, c, i, p) =>
                     t.node[At(d, Moved(k, p))].levels[i] =
                       IF i > top \/ u(i) # p THEN s.node[At(c, p)].levels[i]
                       ELSE IF i <= level THEN [forward |-> a, span |-> (k - u(i)) + 1]
                       ELSE [forward |-> s.node[At(c, p)].levels[i].forward,
                             span |-> s.node[At(c, p)].levels[i].span + 1]
  <2>1. On(t, d, i, Moved(k, p)) <=> On(s, c, i, p)
    <3> HIDE DEF top, u
    <3> QED BY <1>2, <1>3 DEF On
  <2>2. ASSUME On(s, c, i, p) PROVE i \notin 1 .. top <=> i > top
    <3>1. i \in 1 .. MaxLevel /\ MaxLevel \in Nat
      BY <1>0, <2>2, OnBelow, NodeTyped
    <3>2. s.level \in 1 .. MaxLevel
      BY <1>0 DEF Typed
    <3> QED BY <3>1, <3>2
  <2> HIDE DEF top, u
  <2>3. ASSUME On(s, c, i, p)
        PROVE  t.node[At(d, Moved(k, p))].levels[i] =
                       IF i > top \/ u(i) # p THEN s.node[At(c, p)].levels[i]
                       ELSE IF i <= level THEN [forward |-> a, span |-> (k - u(i)) + 1]
                       ELSE [forward |-> s.node[At(c, p)].levels[i].forward,
                             span |-> s.node[At(c, p)].levels[i].span + 1]
    <3>1. i \in DOMAIN s.node[At(c, p)].levels
      BY <2>3 DEF On
    <3>2. t.node[At(d, Moved(k, p))].levels[i] =
                       IF i \notin 1 .. top \/ u(i) # p THEN s.node[At(c, p)].levels[i]
                       ELSE IF i <= level THEN [forward |-> a, span |-> (k - u(i)) + 1]
                       ELSE [forward |-> s.node[At(c, p)].levels[i].forward,
                             span |-> s.node[At(c, p)].levels[i].span + 1]
      <4>1. t.node[At(d, Moved(k, p))] = t.node[At(c, p)]
        BY <1>3
      <4>2. t.node[At(c, p)].levels[i] =
                       IF i \notin 1 .. top \/ u(i) # p THEN s.node[At(c, p)].levels[i]
                       ELSE IF i <= level THEN [forward |-> a, span |-> (k - u(i)) + 1]
                       ELSE [forward |-> s.node[At(c, p)].levels[i].forward,
                             span |-> s.node[At(c, p)].levels[i].span + 1]
        BY <1>2, <3>1
      <4> QED BY <4>1, <4>2
    <3> QED BY <2>2, <2>3, <3>2
  <2> QED BY <2>1, <2>3
<1>8. t.level = top
  BY <1>1
<1>9. \A p \in 0 .. Len(c) :
         /\ \A i : On(t, d, i, Moved(k, p)) <=> On(s, c, i, p)
         /\ \A i : On(s, c, i, p) =>
              t.node[At(d, Moved(k, p))].levels[i] =
                IF i > t.level \/ u(i) # p THEN s.node[At(c, p)].levels[i]
                ELSE IF i <= level THEN [forward |-> a, span |-> (k - u(i)) + 1]
                ELSE [forward |-> s.node[At(c, p)].levels[i].forward,
                      span |-> s.node[At(c, p)].levels[i].span + 1]
  <2> HIDE DEF u, top
  <2> QED BY <1>6, <1>8
<1> QED BY <1>4, <1>5, <1>8, <1>9, Zenon DEF t, a, d, old, AsLinked

LEMMA InsertedLinked ==
    ASSUME NEW s, NEW c, Shape(s, c), NEW score \in Int, NEW m \in Member, NEW level \in 1 .. MaxLevel,
           Room(s, m), NEW k \in 0 .. Len(c),
           Leading(s, c, k, {a \in DOMAIN s.node : Precedes(s.node[a], score, m)})
    PROVE  Linked(Insert(s, score, m, level), With(c, k, Fresh(s, m)))
<1> DEFINE t == Insert(s, score, m, level)
           a == Fresh(s, m)
           d == With(c, k, a)
           n == Len(c)
<1>0. Typed(s, c) /\ Linked(s, c) /\ Levelled(s, c) /\ AsInserted(s, c, score, m, level, k) /\ AsLinked(s, c, score, m, level, k)
  BY Inserted, InsertedLinks DEF Shape
<1>1. n \in Nat /\ k \in Nat /\ k <= n /\ s.level \in Nat /\ level \in Nat /\ MaxLevel \in Nat
      /\ s.level <= MaxLevel /\ level <= MaxLevel
  <2>1. s.level \in 1 .. MaxLevel
    BY <1>0 DEF Typed
  <2>2. n \in Nat /\ MaxLevel \in Nat
    BY <1>0, NodeTyped
  <2> QED BY <2>1, <2>2
<1>2. a \in Address \ DOMAIN s.node
  BY <1>0 DEF AsInserted
<1>3. /\ Len(d) = n + 1 /\ At(d, k + 1) = a /\ d[k + 1] = a
      /\ \A p \in 0 .. n : At(d, Moved(k, p)) = At(c, p)
      /\ \A p \in 0 .. n + 1 : p = k + 1 \/ \E q \in 0 .. n : p = Moved(k, q)
  <2>1. AsWith(s, c, k, a)
    <3> HIDE DEF a
    <3> QED BY <1>0, <1>2, WithChain
  <2> QED BY <2>1 DEF AsWith
<1>4. t.level = IF level <= s.level THEN s.level ELSE level
  BY <1>0 DEF AsLinked
<1> SUFFICES ASSUME NEW x \in 0 .. n + 1, NEW i \in 1 .. t.level, On(t, d, i, x)
             PROVE  Hop(t, d, i, x)
  BY <1>3 DEF Linked
<1> DEFINE u == LastOn(s, c, k, i)
           S(q) == On(s, c, i, q)
           T(q) == On(t, d, i, q)
           old(q) == s.node[At(c, q)].levels[i]
           new(q) == t.node[At(d, q)].levels[i]
<1>5. i \in 1 .. MaxLevel
  BY <1>1, <1>4
<1>6. u \in 0 .. k /\ S(u) /\ \A q \in u + 1 .. k : ~S(q)
  BY <1>0, <1>5, LastOnLevel DEF Latest
<1>7. T(k + 1) <=> i <= level
  BY <1>0, <1>1, <1>5 DEF AsLinked
<1>8. i <= level => new(k + 1) = [forward |-> old(u).forward,
                                  span |-> (IF i <= s.level THEN old(u).span ELSE n) - (k - u)]
  <2> SUFFICES ASSUME i <= level PROVE new(k + 1) = [forward |-> old(u).forward,
                                  span |-> (IF i <= s.level THEN old(u).span ELSE n) - (k - u)]
    OBVIOUS
  <2>1. i \in 1 .. level
    BY <1>1, <1>5
  <2> QED BY <1>0, <2>1 DEF AsLinked
<1>9. ASSUME NEW p \in 0 .. n
      PROVE  /\ T(Moved(k, p)) <=> S(p)
             /\ S(p) => new(Moved(k, p)) = IF u # p THEN old(p)
                       ELSE IF i <= level THEN [forward |-> a, span |-> (k - u) + 1]
                       ELSE [forward |-> old(p).forward, span |-> old(p).span + 1]
  <2>1. T(Moved(k, p)) <=> S(p)
    BY <1>0 DEF AsLinked
  <2>2. ~(i > t.level)
    BY <1>1, <1>4
  <2>3. S(p) => new(Moved(k, p)) = IF i > t.level \/ u # p THEN old(p)
                       ELSE IF i <= level THEN [forward |-> a, span |-> (k - u) + 1]
                       ELSE [forward |-> old(p).forward, span |-> old(p).span + 1]
    BY <1>0 DEF AsLinked
  <2> HIDE DEF t, S, T, old, new, u
  <2> QED BY <2>1, <2>2, <2>3
<1>10. \A p \in 0 .. n : S(p) /\ i <= s.level =>
          \/ /\ old(p).forward = Nil /\ old(p).span = n - p
             /\ \A q \in p + 1 .. n : ~S(q)
          \/ /\ old(p).span \in 1 .. n - p
             /\ old(p).forward = c[p + old(p).span] /\ S(p + old(p).span)
             /\ \A q \in p + 1 .. p + old(p).span - 1 : ~S(q)
  <2> SUFFICES ASSUME NEW p \in 0 .. n, S(p), i <= s.level PROVE Hop(s, c, i, p)
    BY DEF Hop
  <2>1. i \in 1 .. s.level
    BY <1>1, <1>5
  <2> QED BY <1>0, <2>1 DEF Linked
<1>11. i > s.level => u = 0 /\ old(0).forward = Nil /\ \A q \in 1 .. n : ~S(q)
  <2> SUFFICES ASSUME i > s.level PROVE u = 0 /\ old(0).forward = Nil /\ \A q \in 1 .. n : ~S(q)
    OBVIOUS
  <2>1. u = 0
    BY <1>0, <1>5, LastOnLevel
  <2>2. old(0).forward = Nil
    BY <1>0, <1>5 DEF Levelled, At
  <2>3. ASSUME NEW q \in 1 .. n, S(q) PROVE FALSE
    <3>1. At(c, q) = c[q]
      BY <1>0, NodeTyped
    <3>2. i <= s.level
      BY <1>0, <2>3, <3>1 DEF Levelled, On
    <3> QED BY <1>1, <1>5, <3>2
  <2> QED BY <2>1, <2>2, <2>3
<1>12. /\ \A q \in 1 .. k : d[q] = c[q]
       /\ \A q \in k + 2 .. n + 1 : d[q] = c[q - 1]
  BY <1>1 DEF With
<1>13. /\ \A q \in 0 .. k : T(q) <=> S(q)
       /\ \A q \in k + 2 .. n + 1 : T(q) <=> S(q - 1)
  <2>1. ASSUME NEW q \in 0 .. k PROVE T(q) <=> S(q)
    <3>1. Moved(k, q) = q /\ q \in 0 .. n
      BY <1>1 DEF Moved
    <3> HIDE DEF T, S
    <3> QED BY <1>9, <3>1
  <2>2. ASSUME NEW q \in k + 2 .. n + 1 PROVE T(q) <=> S(q - 1)
    <3>1. Moved(k, q - 1) = q /\ q - 1 \in 0 .. n
      BY <1>1 DEF Moved
    <3> HIDE DEF T, S
    <3> QED BY <1>9, <3>1
  <2> QED BY <2>1, <2>2
<1> HIDE DEF t, d
<1>20. Len(d) = n + 1
  BY <1>3
<1> DEFINE F(N) == \/ /\ new(x).forward = Nil /\ new(x).span = N - x
                      /\ \A q \in x + 1 .. N : ~T(q)
                   \/ /\ new(x).span \in 1 .. N - x
                      /\ new(x).forward = d[x + new(x).span] /\ T(x + new(x).span)
                      /\ \A q \in x + 1 .. x + new(x).span - 1 : ~T(q)
<1>23. Hop(t, d, i, x) <=> F(Len(d))
  BY Zenon DEF Hop
<1>14. SUFFICES \/ /\ new(x).forward = Nil /\ new(x).span = n + 1 - x
                   /\ \A q \in x + 1 .. n + 1 : ~T(q)
                \/ /\ new(x).span \in 1 .. n + 1 - x
                   /\ new(x).forward = d[x + new(x).span] /\ T(x + new(x).span)
                   /\ \A q \in x + 1 .. x + new(x).span - 1 : ~T(q)
  <2>0. n + 1 - x = (n + 1) - x
    BY <1>1
  <2>1. F(n + 1)
    <3> HIDE DEF T, new, n
    <3> QED BY <2>0
  <2> HIDE DEF F, n
  <2> QED BY <1>20, <1>23, <2>1
<1>15. T(x)
  OBVIOUS
<1>16. \A q \in 0 .. n : S(q) => old(q).span \in Int
  BY <1>0, OnBelow DEF LinkRec
<1>17. i \in Nat /\ (i > s.level => i <= level)
  BY <1>1, <1>4, <1>5
<1> HIDE DEF t, d, u, S, T, old, new, n, F
\* The new node
<1>21. CASE x = k + 1
  <2>1. i <= level /\ new(x).forward = old(u).forward
         /\ new(x).span = (IF i <= s.level THEN old(u).span ELSE n) - (k - u)
    BY <1>7, <1>8, <1>15, <1>21
  <2>2. u \in 0 .. n
    BY <1>1, <1>6
  <2>3. CASE i > s.level
    <3>1. new(x).forward = Nil /\ new(x).span = n + 1 - x
      BY <1>1, <1>11, <1>17, <1>21, <2>1, <2>3
    <3>2. \A q \in x + 1 .. n + 1 : ~T(q)
      BY <1>1, <1>11, <1>13, <1>21, <2>3
    <3> QED BY <3>1, <3>2
  <2>4. CASE i <= s.level /\ old(u).forward = Nil /\ old(u).span = n - u /\ \A q \in u + 1 .. n : ~S(q)
    <3>1. new(x).forward = Nil /\ new(x).span = n + 1 - x
      BY <1>1, <1>21, <2>1, <2>2, <2>4
    <3>2. \A q \in x + 1 .. n + 1 : ~T(q)
      BY <1>1, <1>13, <1>21, <2>2, <1>6, <2>4
    <3> QED BY <3>1, <3>2
  <2>5. CASE i <= s.level /\ old(u).span \in 1 .. n - u /\ old(u).forward = c[u + old(u).span]
             /\ S(u + old(u).span) /\ \A q \in u + 1 .. u + old(u).span - 1 : ~S(q)
    <3> DEFINE e == old(u).span
    <3>1. e \in 1 .. n - u /\ S(u + e) /\ \A q \in u + 1 .. u + e - 1 : ~S(q)
      BY <2>5
    <3>2. new(x).span = e - (k - u) /\ new(x).forward = c[u + e]
      BY <2>1, <2>5
    <3> HIDE DEF e
    <3>3. u + e > k
      BY <1>1, <1>6, <2>2, <3>1
    <3>4. u + e + 1 \in k + 2 .. n + 1 /\ x + new(x).span = u + e + 1 /\ (u + e + 1) - 1 = u + e
          /\ new(x).span \in 1 .. n + 1 - x
      BY <1>1, <1>21, <2>2, <3>1, <3>2, <3>3
    <3>5. new(x).forward = d[x + new(x).span] /\ T(x + new(x).span)
      BY <1>12, <1>13, <3>1, <3>2, <3>4
    <3>6. \A q \in x + 1 .. x + new(x).span - 1 : ~T(q)
      BY <1>1, <1>6, <1>13, <1>21, <2>2, <3>1, <3>4
    <3> QED BY <3>4, <3>5, <3>6
  <2> QED BY <1>1, <1>6, <1>10, <1>17, <2>2, <2>3, <2>4, <2>5
\* A node that was there
<1>22. ASSUME NEW p \in 0 .. n, x = Moved(k, p)
       PROVE \/ /\ new(x).forward = Nil /\ new(x).span = n + 1 - x
                   /\ \A q \in x + 1 .. n + 1 : ~T(q)
             \/ /\ new(x).span \in 1 .. n + 1 - x
                   /\ new(x).forward = d[x + new(x).span] /\ T(x + new(x).span)
                   /\ \A q \in x + 1 .. x + new(x).span - 1 : ~T(q)
  <2>1. S(p) /\ new(x) = IF u # p THEN old(p)
                       ELSE IF i <= level THEN [forward |-> a, span |-> (k - u) + 1]
                       ELSE [forward |-> old(p).forward, span |-> old(p).span + 1]
    BY <1>9, <1>15, <1>22
  <2>2. x = IF p <= k THEN p ELSE p + 1
    BY <1>22 DEF Moved
  <2>3. CASE u = p /\ i <= level
    <3>1. new(x).forward = a /\ new(x).span = k - p + 1
      BY <2>1, <2>3
    <3>2. x = p /\ p <= k /\ x + new(x).span = k + 1 /\ new(x).span \in 1 .. n + 1 - x
      BY <1>1, <1>6, <2>2, <2>3, <3>1
    <3>3. \A q \in x + 1 .. x + new(x).span - 1 : ~T(q)
      BY <1>1, <1>6, <1>13, <2>3, <3>2
    <3> QED BY <1>3, <1>7, <2>3, <3>1, <3>2, <3>3
  <2>4. CASE u = p /\ ~(i <= level)
    <3>1. new(x).forward = old(p).forward /\ new(x).span = old(p).span + 1
      BY <2>1, <2>4
    <3>2. x = p /\ p <= k /\ i <= s.level /\ ~T(k + 1)
      BY <1>1, <1>6, <1>7, <1>17, <2>2, <2>4
    <3>3. CASE old(p).forward = Nil /\ old(p).span = n - p /\ \A q \in p + 1 .. n : ~S(q)
      <4>1. \A q \in x + 1 .. n + 1 : ~T(q)
        BY <1>1, <1>13, <3>2, <3>3
      <4>2. new(x).span = n + 1 - x
        BY <1>1, <3>1, <3>2, <3>3
      <4> QED BY <3>1, <3>3, <4>1, <4>2
    <3>4. CASE old(p).span \in 1 .. n - p /\ old(p).forward = c[p + old(p).span]
               /\ S(p + old(p).span) /\ \A q \in p + 1 .. p + old(p).span - 1 : ~S(q)
      <4> DEFINE e == old(p).span
      <4>1. e \in 1 .. n - p /\ S(p + e) /\ (\A q \in p + 1 .. p + e - 1 : ~S(q))
            /\ new(x).forward = c[p + e] /\ new(x).span = e + 1
        BY <3>1, <3>4
      <4> HIDE DEF e
      <4>2. p + e > k
        BY <1>1, <1>6, <2>4, <4>1
      <4>3. p + e + 1 \in k + 2 .. n + 1 /\ x + new(x).span = p + e + 1 /\ (p + e + 1) - 1 = p + e
            /\ new(x).span \in 1 .. n + 1 - x
        BY <1>1, <3>2, <4>1, <4>2
      <4>4. \A q \in x + 1 .. x + new(x).span - 1 : ~T(q)
        BY <1>1, <1>6, <1>13, <2>4, <3>2, <4>1, <4>3
      <4> QED BY <1>12, <1>13, <4>1, <4>3, <4>4
    <3> QED BY <1>10, <2>1, <3>2, <3>3, <3>4
  <2>5. CASE u # p
    <3>1. new(x) = old(p)
      BY <2>1, <2>5
    <3>2. i <= s.level
      <4>1. CASE i > s.level
        BY <1>1, <1>11, <2>1, <2>5, <4>1
      <4> QED BY <1>1, <1>17, <4>1
    <3>3. CASE p <= k
      <4>1. x = p /\ p < u
        BY <1>1, <1>6, <2>1, <2>2, <2>5, <3>3
      <4>2. CASE \A q \in p + 1 .. n : ~S(q)
        BY <1>1, <1>6, <4>1, <4>2
      <4>3. CASE old(p).span \in 1 .. n - p /\ old(p).forward = c[p + old(p).span]
               /\ S(p + old(p).span) /\ \A q \in p + 1 .. p + old(p).span - 1 : ~S(q)
        <5> DEFINE e == old(p).span
        <5>1. e \in 1 .. n - p /\ S(p + e) /\ (\A q \in p + 1 .. p + e - 1 : ~S(q))
              /\ new(x).forward = c[p + e] /\ new(x).span = e
          BY <3>1, <4>3
        <5> HIDE DEF e
        <5>2. p + e <= u
          BY <1>1, <1>6, <4>1, <5>1
        <5>3. p + e \in 1 .. k /\ e \in 1 .. n + 1 - x
          BY <1>1, <1>6, <4>1, <5>1, <5>2
        <5>4. \A q \in x + 1 .. x + new(x).span - 1 : ~T(q)
          BY <1>1, <1>13, <4>1, <5>1, <5>3
        <5> QED BY <1>12, <1>13, <4>1, <5>1, <5>3, <5>4
      <4> QED BY <1>10, <2>1, <3>2, <4>2, <4>3
    <3>4. CASE k < p
      <4>1. x = p + 1
        BY <1>1, <2>2, <3>4
      <4>2. CASE old(p).forward = Nil /\ old(p).span = n - p /\ \A q \in p + 1 .. n : ~S(q)
        <5>1. \A q \in x + 1 .. n + 1 : ~T(q)
          BY <1>1, <1>13, <3>4, <4>1, <4>2
        <5>2. new(x).span = n + 1 - x
          BY <1>1, <3>1, <4>1, <4>2
        <5> QED BY <3>1, <4>2, <5>1, <5>2
      <4>3. CASE old(p).span \in 1 .. n - p /\ old(p).forward = c[p + old(p).span]
               /\ S(p + old(p).span) /\ \A q \in p + 1 .. p + old(p).span - 1 : ~S(q)
        <5> DEFINE e == old(p).span
        <5>1. e \in 1 .. n - p /\ S(p + e) /\ (\A q \in p + 1 .. p + e - 1 : ~S(q))
              /\ new(x).forward = c[p + e] /\ new(x).span = e
          BY <3>1, <4>3
        <5> HIDE DEF e
        <5>4. e \in 1 .. n - p /\ p \in Nat
          BY <1>1, <5>1
        <5>5. p + e + 1 \in k + 2 .. n + 1 /\ x + e = p + e + 1 /\ (p + e + 1) - 1 = p + e
              /\ e \in 1 .. n + 1 - x
          BY <1>1, <3>4, <4>1, <5>4
        <5>2. p + e + 1 \in k + 2 .. n + 1 /\ x + new(x).span = p + e + 1 /\ (p + e + 1) - 1 = p + e
              /\ new(x).span \in 1 .. n + 1 - x
          BY <5>1, <5>5
        <5>3. \A q \in x + 1 .. x + new(x).span - 1 : ~T(q)
          BY <1>1, <1>13, <3>4, <4>1, <5>1, <5>2
        <5> QED BY <1>12, <1>13, <5>1, <5>2, <5>3
      <4> QED BY <1>10, <2>1, <3>2, <4>2, <4>3
    <3> QED BY <1>1, <3>3, <3>4
  <2> QED BY <2>3, <2>4, <2>5
<1> QED BY <1>3, <1>21, <1>22

\* The nodes keep their pairs, and the links stay links.
LEMMA InsertedTyped ==
    ASSUME NEW s, NEW c, Shape(s, c), NEW score \in Int, NEW m \in Member, NEW level \in 1 .. MaxLevel,
           Room(s, m), NEW k \in 0 .. Len(c),
           Leading(s, c, k, {a \in DOMAIN s.node : Precedes(s.node[a], score, m)})
    PROVE  LET t == Insert(s, score, m, level)
               a == Fresh(s, m)
               d == With(c, k, a) IN
           /\ Typed(t, d)
           /\ t.node[a].member = m /\ t.node[a].score = score
           /\ \A b \in DOMAIN s.node : t.node[b].member = s.node[b].member /\ t.node[b].score = s.node[b].score
<1> DEFINE t == Insert(s, score, m, level)
           a == Fresh(s, m)
           d == With(c, k, a)
           u(i) == LastOn(s, c, k, i)
           old(i) == s.node[At(c, u(i))].levels[i]
           top == IF level <= s.level THEN s.level ELSE level
           next == IF k = Len(c) THEN Nil ELSE c[k + 1]
<1>0. Typed(s, c) /\ Levelled(s, c) /\ AsInserted(s, c, score, m, level, k)
  BY Inserted DEF Shape
<1>1. /\ Len(c) \in Nat /\ k \in Nat /\ level \in Nat /\ MaxLevel \in Nat
      /\ s.level \in 1 .. MaxLevel /\ s.length = Len(c) /\ Nil \notin Address
  <2>1. s.level \in 1 .. MaxLevel /\ s.length = Len(c)
    BY <1>0 DEF Typed
  <2>2. Len(c) \in Nat /\ MaxLevel \in Nat /\ Nil \notin Address
    BY <1>0, NodeTyped
  <2> QED BY <2>1, <2>2
<1>2. /\ a \in Address \ DOMAIN s.node /\ DOMAIN t.node = DOMAIN s.node \cup {a}
      /\ t.level = top /\ t.length = s.length + 1
      /\ t.node[a] = [member |-> m, score |-> score, backward |-> IF k = 0 THEN Nil ELSE c[k],
                           levels |-> [i \in 1 .. level |->
                              [forward |-> old(i).forward,
                               span |-> (IF i <= s.level THEN old(i).span ELSE s.length) - (k - u(i))]]]
  BY <1>0 DEF AsInserted
<1>3. ASSUME NEW p \in 0 .. Len(c)
      PROVE  t.node[At(c, p)] =
                  [s.node[At(c, p)] EXCEPT
                     !.backward = IF At(c, p) = next THEN a ELSE @,
                     !.levels = [i \in DOMAIN @ |->
                        IF i \notin 1 .. top \/ u(i) # p THEN @[i]
                        ELSE IF i <= level THEN [forward |-> a, span |-> (k - u(i)) + 1]
                        ELSE [forward |-> @[i].forward, span |-> @[i].span + 1]]]
  BY <1>0 DEF AsInserted
<1>4. /\ d \in Seq(Address) /\ Len(d) = Len(c) + 1
      /\ \A p, q \in 1 .. Len(d) : d[p] = d[q] => p = q
      /\ {Header} \cup {d[p] : p \in 1 .. Len(d)} = DOMAIN s.node \cup {a}
  <2>1. a \in Address \ DOMAIN s.node /\ Typed(s, c)
    BY <1>0, <1>2
  <2>6. AsWith(s, c, k, a)
    <3> HIDE DEF a
    <3> QED BY <2>1, WithChain
  <2>2. d \in Seq(Address) /\ Len(d) = Len(c) + 1
    BY <2>6 DEF AsWith
  <2>3. \A p, q \in 1 .. Len(d) : d[p] = d[q] => p = q
    BY <2>6 DEF AsWith
  <2>4. \A b : b \in DOMAIN s.node \cup {a} <=> b = Header \/ \E p \in 1 .. Len(d) : b = d[p]
    <3> HIDE DEF a
    <3> QED BY <2>6 DEF AsWith
  <2>5. {Header} \cup {d[p] : p \in 1 .. Len(d)} = DOMAIN s.node \cup {a}
    <3> HIDE DEF d, a
    <3> QED BY <2>4
  <2> QED BY <2>2, <2>3, <2>5
<1>5. \A i \in 1 .. MaxLevel : u(i) \in 0 .. k /\ old(i) \in LinkRec
  <2> SUFFICES ASSUME NEW i \in 1 .. MaxLevel PROVE u(i) \in 0 .. k /\ old(i) \in LinkRec
    OBVIOUS
  <2>1. u(i) \in 0 .. k /\ On(s, c, i, u(i))
    BY <1>0, LastOnLevel DEF Latest
  <2>2. u(i) \in 0 .. Len(c)
    BY <1>1, <2>1
  <2> QED BY <1>0, <2>1, <2>2, OnBelow
<1> HIDE DEF t, a, d, u, old
<1>6. t.node[a] \in Node /\ t.node[a].member = m /\ t.node[a].score = score
  <2> DEFINE L == [i \in 1 .. level |->
                    [forward |-> old(i).forward,
                     span |-> (IF i <= s.level THEN old(i).span ELSE s.length) - (k - u(i))]]
  <2>1. ASSUME NEW i \in 1 .. level PROVE L[i] \in LinkRec
    <3>1. i \in 1 .. MaxLevel
      BY <1>1
    <3>2. u(i) \in Int /\ old(i).forward \in Address \cup {Nil} /\ old(i).span \in Int
      BY <1>5, <3>1 DEF LinkRec
    <3>3. (IF i <= s.level THEN old(i).span ELSE s.length) - (k - u(i)) \in Int
      BY <1>1, <3>2
    <3> QED BY <3>2, <3>3 DEF LinkRec
  <2>2. L \in [1 .. level -> LinkRec]
    <3> HIDE DEF L
    <3>1. L = [i \in 1 .. level |-> L[i]]
      BY DEF L
    <3> QED BY <2>1, <3>1
  <2>3. (IF k = 0 THEN Nil ELSE c[k]) \in Address \cup {Nil} /\ m \in Nat
    <3>1. k # 0 => k \in 1 .. Len(c)
      BY <1>1
    <3>2. k # 0 => c[k] \in Address
      BY <1>0, <3>1, NodeTyped
    <3> QED BY <3>2, MemberAssumption
  <2>4. t.node[a] = [member |-> m, score |-> score, backward |-> IF k = 0 THEN Nil ELSE c[k], levels |-> L]
    BY <1>2
  <2>5. L \in UNION {[1 .. h -> LinkRec] : h \in 1 .. MaxLevel}
    BY <2>2
  <2> HIDE DEF L
  <2> QED BY <2>3, <2>4, <2>5 DEF Node
<1>7. ASSUME NEW p \in 0 .. Len(c)
      PROVE  LET b == At(c, p) IN
             /\ t.node[b] \in Node /\ t.node[b].member = s.node[b].member /\ t.node[b].score = s.node[b].score
             /\ DOMAIN t.node[b].levels = DOMAIN s.node[b].levels
  <2> DEFINE b == At(c, p)
             K == s.node[b].levels
             L == [i \in DOMAIN K |->
                        IF i \notin 1 .. top \/ u(i) # p THEN K[i]
                        ELSE IF i <= level THEN [forward |-> a, span |-> (k - u(i)) + 1]
                        ELSE [forward |-> K[i].forward, span |-> K[i].span + 1]]
  <2>1. s.node[b] \in Node
    BY <1>0, NodeTyped
  <2>2. PICK h \in 1 .. MaxLevel : K \in [1 .. h -> LinkRec]
    BY <2>1 DEF Node
  <2> HIDE DEF b, K
  <2>3. ASSUME NEW i \in 1 .. h PROVE L[i] \in LinkRec
    <3>1. K[i] \in LinkRec /\ i \in DOMAIN K
      BY <2>2
    <3>2. i \in 1 .. MaxLevel
      BY <1>1
    <3>3. u(i) \in Int
      BY <1>5, <3>2
    <3>4. K[i].forward \in Address \cup {Nil} /\ K[i].span + 1 \in Int /\ (k - u(i)) + 1 \in Int
      BY <1>1, <3>1, <3>3 DEF LinkRec
    <3>5. [forward |-> a, span |-> (k - u(i)) + 1] \in LinkRec
          /\ [forward |-> K[i].forward, span |-> K[i].span + 1] \in LinkRec
      BY <1>2, <3>4 DEF LinkRec
    <3> HIDE DEF top
    <3> QED BY <3>1, <3>5
  <2>4. L \in [1 .. h -> LinkRec] /\ DOMAIN L = DOMAIN K
    <3>1. DOMAIN K = 1 .. h
      BY <2>2
    <3>2. L = [i \in 1 .. h |-> L[i]]
      BY <3>1
    <3> HIDE DEF L
    <3>3. L \in [1 .. h -> LinkRec]
      BY <2>3, <3>2
    <3> QED BY <3>1, <3>3
  <2>5. t.node[b] = [s.node[b] EXCEPT !.backward = IF b = next THEN a ELSE @, !.levels = L]
    BY <1>3 DEF b, K
  <2>6. L \in UNION {[1 .. x -> LinkRec] : x \in 1 .. MaxLevel}
    BY <2>4
  <2> HIDE DEF L, next
  <2>7. (IF b = next THEN a ELSE s.node[b].backward) \in Address \cup {Nil}
    BY <1>2, <2>1 DEF Node
  <2>8. /\ t.node[b].member = s.node[b].member /\ t.node[b].score = s.node[b].score
        /\ t.node[b].levels = L
    BY <2>1, <2>5 DEF Node
  <2>9. t.node[b] \in Node
    BY <2>1, <2>5, <2>6, <2>7 DEF Node
  <2> QED BY <2>4, <2>8, <2>9 DEF b, K
<1>8. \A b \in DOMAIN s.node : /\ t.node[b] \in Node /\ t.node[b].member = s.node[b].member
                               /\ t.node[b].score = s.node[b].score
                               /\ DOMAIN t.node[b].levels = DOMAIN s.node[b].levels
  <2> SUFFICES ASSUME NEW b \in DOMAIN s.node
               PROVE /\ t.node[b] \in Node /\ t.node[b].member = s.node[b].member
                     /\ t.node[b].score = s.node[b].score
                     /\ DOMAIN t.node[b].levels = DOMAIN s.node[b].levels
    OBVIOUS
  <2>1. PICK p \in 0 .. Len(c) : b = At(c, p)
    BY <1>0, NodeTyped
  <2> QED BY <1>7, <2>1
<1>9. Typed(t, d)
  <2>1. t.node \in [{Header} \cup {d[p] : p \in 1 .. Len(d)} -> Node]
    <3>1. \A b \in DOMAIN t.node : t.node[b] \in Node
      BY <1>2, <1>6, <1>8
    <3>2. t.node = [b \in DOMAIN t.node |-> t.node[b]]
      BY <1>0 DEF AsInserted, Insert, t
    <3> QED BY <1>2, <1>4, <3>1, <3>2
  <2>2. DOMAIN t.node[Header].levels = 1 .. MaxLevel
    <3>1. Header \in DOMAIN s.node /\ DOMAIN s.node[Header].levels = 1 .. MaxLevel
      BY <1>0 DEF Typed
    <3> QED BY <1>8, <3>1
  <2>3. t.level \in 1 .. MaxLevel /\ t.length = Len(d)
    BY <1>1, <1>2, <1>4
  <2> QED BY <1>4, <2>1, <2>2, <2>3 DEF Typed
<1> QED BY <1>6, <1>8, <1>9 DEF t, a, d

LEMMA InsertShape ==
    ASSUME NEW s, NEW c, Shape(s, c), NEW score \in Int, NEW m \in Member, NEW level \in 1 .. MaxLevel,
           Room(s, m), NEW k \in 0 .. Len(c),
           Leading(s, c, k, {a \in DOMAIN s.node : Precedes(s.node[a], score, m)}),
           \A p \in 1 .. Len(c) : s.node[c[p]].member # m
    PROVE  Shape(Insert(s, score, m, level), With(c, k, Fresh(s, m)))
<1> DEFINE t == Insert(s, score, m, level)
           a == Fresh(s, m)
           d == With(c, k, a)
           n == Len(c)
           top == IF level <= s.level THEN s.level ELSE level
           next == IF k = n THEN Nil ELSE c[k + 1]
<1>0. Typed(s, c) /\ Levelled(s, c) /\ Backward(s, c) /\ Ordered(s, c)
      /\ AsInserted(s, c, score, m, level, k) /\ AsLinked(s, c, score, m, level, k)
  BY Inserted, InsertedLinks DEF Shape
<1>1. /\ n \in Nat /\ k \in Nat /\ k <= n /\ level \in Nat /\ MaxLevel \in Nat /\ s.level \in Nat
      /\ s.level \in 1 .. MaxLevel /\ level \in 1 .. MaxLevel
      /\ Nil \notin Address /\ Header \notin Address /\ m \in Nat
  <2>1. s.level \in 1 .. MaxLevel
    BY <1>0 DEF Typed
  <2>2. n \in Nat /\ MaxLevel \in Nat /\ Nil \notin Address /\ Header \notin Address
    BY <1>0, NodeTyped
  <2> QED BY <2>1, <2>2, MemberAssumption
<1>2. Typed(t, d) /\ Linked(t, d)
      /\ t.node[a].member = m /\ t.node[a].score = score
      /\ \A b \in DOMAIN s.node : t.node[b].member = s.node[b].member /\ t.node[b].score = s.node[b].score
  BY InsertedTyped, InsertedLinked
<1>3. /\ a \in Address \ DOMAIN s.node /\ t.level = top
      /\ t.node[a].backward = (IF k = 0 THEN Nil ELSE c[k])
      /\ t.tail = IF next = Nil THEN a ELSE s.tail
  <2>1. a \in Address \ DOMAIN s.node /\ t.level = top /\ t.tail = IF next = Nil THEN a ELSE s.tail
    BY <1>0 DEF AsInserted
  <2> DEFINE old(i) == s.node[At(c, LastOn(s, c, k, i))].levels[i]
  <2>2. t.node[a] = [member |-> m, score |-> score, backward |-> IF k = 0 THEN Nil ELSE c[k],
                     levels |-> [i \in 1 .. level |->
                        [forward |-> old(i).forward,
                         span |-> (IF i <= s.level THEN old(i).span ELSE s.length)
                                    - (k - LastOn(s, c, k, i))]]]
    BY <1>0 DEF AsInserted
  <2> HIDE DEF t, a
  <2> QED BY <2>1, <2>2
<1>4. ASSUME NEW p \in 1 .. n
      PROVE  /\ t.node[c[p]].backward = IF c[p] = next THEN a ELSE s.node[c[p]].backward
             /\ c[p] \in DOMAIN s.node
  <2>1. p \in 0 .. n /\ At(c, p) = c[p]
    BY <1>0, <1>1, NodeTyped
  <2>2. s.node[c[p]] \in Node /\ c[p] \in DOMAIN s.node
    BY <1>0, <2>1, NodeTyped
  <2>3. t.node[At(c, p)] =
                  [s.node[At(c, p)] EXCEPT
                     !.backward = IF At(c, p) = next THEN a ELSE @,
                     !.levels = [i \in DOMAIN @ |->
                        IF i \notin 1 .. top \/ LastOn(s, c, k, i) # p THEN @[i]
                        ELSE IF i <= level THEN [forward |-> a, span |-> (k - LastOn(s, c, k, i)) + 1]
                        ELSE [forward |-> @[i].forward, span |-> @[i].span + 1]]]
    BY <1>0, <2>1 DEF AsInserted
  <2> HIDE DEF t, a, next, top
  <2> QED BY <2>1, <2>2, <2>3 DEF Node
<1>5. /\ Len(d) = n + 1 /\ d[k + 1] = a
      /\ \A p \in 1 .. k : d[p] = c[p]
      /\ \A p \in k + 2 .. n + 1 : d[p] = c[p - 1]
  <2>1. Len(d) = n + 1 /\ d[k + 1] = a
    <3>1. a \in Address \ DOMAIN s.node
      BY <1>3
    <3>2. AsWith(s, c, k, a)
      <4> HIDE DEF a
      <4> QED BY <1>0, <3>1, WithChain
    <3> QED BY <3>2 DEF AsWith
  <2> QED BY <1>1, <2>1 DEF With
<1>6. \A p, q \in 1 .. n : c[p] = c[q] => p = q
  BY <1>0 DEF Typed
<1>7. \A p \in 1 .. n : c[p] \in Address
  BY <1>0, NodeTyped
<1>8. Levelled(t, d)
  <2>1. /\ \A i : On(t, d, i, k + 1) <=> i \in 1 .. level
        /\ \A p \in 0 .. n : \A i : On(t, d, i, Moved(k, p)) <=> On(s, c, i, p)
    BY <1>0 DEF AsLinked
  <2>2. \A p \in 0 .. n + 1 : p = k + 1 \/ \E q \in 0 .. n : p = Moved(k, q)
    <3>1. a \in Address \ DOMAIN s.node
      BY <1>3
    <3>3. AsWith(s, c, k, a)
      <4> HIDE DEF a
      <4> QED BY <1>0, <3>1, WithChain
    <3>2. \A p \in 0 .. Len(d) : p = k + 1 \/ \E q \in 0 .. n : p = Moved(k, q)
      BY <3>3 DEF AsWith
    <3> QED BY <1>5, <3>2
  <2> HIDE DEF t, d, a
  <2>3. ASSUME NEW p \in 1 .. n + 1, NEW i \in DOMAIN t.node[d[p]].levels PROVE i <= t.level
    <3>1. On(t, d, i, p) /\ p \in 0 .. n + 1
      BY <1>1, <2>3 DEF On, At
    <3>2. CASE p = k + 1
      <4>1. i \in 1 .. level
        BY <2>1, <3>1, <3>2
      <4> QED BY <1>1, <1>3, <4>1
    <3>3. CASE p # k + 1
      <4>1. PICK q \in 0 .. n : p = Moved(k, q)
        BY <2>2, <3>1, <3>3
      <4>2. On(s, c, i, q) /\ q \in 1 .. n
        BY <1>1, <2>1, <3>1, <4>1 DEF Moved
      <4>3. i <= s.level /\ i \in 1 .. MaxLevel
        <5>1. At(c, q) = c[q] /\ i \in 1 .. MaxLevel
          BY <1>0, <4>2, NodeTyped, OnBelow
        <5> QED BY <1>0, <4>2, <5>1 DEF Levelled, On
      <4> QED BY <1>1, <1>3, <4>3
    <3> QED BY <3>2, <3>3
  <2>4. ASSUME NEW i \in 1 .. MaxLevel, i > t.level PROVE t.node[Header].levels[i].forward = Nil
    <3>1. On(s, c, i, 0)
      <4>1. 0 \in 0 .. n
        BY <1>1
      <4> QED BY <1>0, <4>1, OnBelow
    <3>2. 0 \in 0 .. n /\ Moved(k, 0) = 0 /\ At(c, 0) = Header /\ At(d, 0) = Header
      BY <1>1 DEF Moved, At
    <3>3. t.node[At(d, Moved(k, 0))].levels[i] = s.node[At(c, 0)].levels[i]
      BY <1>0, <2>4, <3>1, <3>2 DEF AsLinked, t, d, a
    <3>4. i > s.level
      BY <1>1, <1>3, <2>4
    <3>5. s.node[Header].levels[i].forward = Nil
      BY <1>0, <3>4 DEF Levelled
    <3> QED BY <3>2, <3>3, <3>5
  <2>5. ASSUME t.level > 1 PROVE \E p \in 1 .. n + 1 : On(t, d, t.level, p)
    <3>1. CASE t.level = level
      <4>1. k + 1 \in 1 .. n + 1 /\ level \in 1 .. level
        BY <1>1
      <4> QED BY <2>1, <3>1, <4>1
    <3>2. CASE t.level # level
      <4>1. t.level = s.level
        BY <1>3, <3>2
      <4>2. PICK q \in 1 .. n : On(s, c, s.level, q)
        BY <1>0, <2>5, <4>1 DEF Levelled
      <4>3. Moved(k, q) \in 1 .. n + 1 /\ q \in 0 .. n
        BY <1>1 DEF Moved
      <4>4. On(t, d, t.level, Moved(k, q))
        BY <2>1, <4>1, <4>2, <4>3
      <4> QED BY <4>3, <4>4
    <3> QED BY <3>1, <3>2
  <2> QED BY <1>5, <2>3, <2>4, <2>5 DEF Levelled
<1> HIDE DEF t, d, a, n
<1>9. Backward(t, d)
  <2>1. /\ \A p \in 1 .. n : s.node[c[p]].backward = IF p = 1 THEN Nil ELSE c[p - 1]
        /\ s.tail = IF n = 0 THEN Nil ELSE c[n]
    <3>1. c = << >> <=> n = 0
      <4>1. c \in Seq(Address)
        BY <1>0 DEF Typed
      <4> QED BY <4>1 DEF n
    <3> QED BY <1>0, <3>1 DEF Backward, n
  <2>2. ASSUME NEW p \in 1 .. n + 1
        PROVE  t.node[d[p]].backward = IF p = 1 THEN Nil ELSE d[p - 1]
    <3>1. CASE p = k + 1
      <4>1. t.node[d[p]].backward = IF k = 0 THEN Nil ELSE c[k]
        BY <1>3, <1>5, <3>1
      <4>2. k # 0 => k \in 1 .. k /\ p # 1 /\ p - 1 = k
        BY <1>1, <3>1
      <4> QED BY <1>5, <3>1, <4>1, <4>2
    <3>2. CASE p < k + 1
      <4>1. p \in 1 .. k /\ p \in 1 .. n /\ (p # 1 => p - 1 \in 1 .. k)
        BY <1>1, <3>2
      <4>2. c[p] # next
        <5>1. k + 1 \in 1 .. n => c[p] # c[k + 1]
          BY <1>1, <1>6, <3>2, <4>1
        <5>2. k = n \/ k + 1 \in 1 .. n
          BY <1>1
        <5>3. c[p] # Nil
          BY <1>1, <1>7, <4>1
        <5> QED BY <5>1, <5>2, <5>3
      <4>3. d[p] = c[p] /\ (p # 1 => d[p - 1] = c[p - 1])
        BY <1>5, <4>1
      <4>4. t.node[c[p]].backward = s.node[c[p]].backward
        BY <1>4, <4>1, <4>2
      <4> QED BY <2>1, <4>1, <4>3, <4>4
    <3>3. CASE p = k + 2
      <4>1. p \in k + 2 .. n + 1 /\ k + 1 \in 1 .. n /\ p - 1 = k + 1 /\ p # 1 /\ k # n
        BY <1>1, <3>3
      <4>2. d[p] = c[k + 1] /\ next = c[k + 1]
        BY <1>5, <4>1
      <4> QED BY <1>4, <1>5, <4>1, <4>2
    <3>4. CASE p > k + 2
      <4>1. p \in k + 2 .. n + 1 /\ p - 1 \in k + 2 .. n + 1 /\ p - 1 \in 1 .. n /\ p # 1 /\ p - 1 # 1
            /\ p - 1 # k + 1
        BY <1>1, <3>4
      <4>2. c[p - 1] # next
        <5>1. k + 1 \in 1 .. n => c[p - 1] # c[k + 1]
          BY <1>1, <1>6, <4>1
        <5>2. k = n \/ k + 1 \in 1 .. n
          BY <1>1
        <5>3. c[p - 1] # Nil
          BY <1>1, <1>7, <4>1
        <5> QED BY <5>1, <5>2, <5>3
      <4>3. d[p] = c[p - 1] /\ d[p - 1] = c[(p - 1) - 1]
        BY <1>5, <4>1
      <4> QED BY <1>4, <2>1, <4>1, <4>2, <4>3
    <3>5. p = k + 1 \/ p < k + 1 \/ p = k + 2 \/ p > k + 2
      BY <1>1
    <3> QED BY <3>1, <3>2, <3>3, <3>4, <3>5
  <2>3. t.tail = IF d = << >> THEN Nil ELSE d[Len(d)]
    <3>1. d # << >>
      BY <1>1, <1>5
    <3>2. CASE k = n
      BY <1>3, <1>5, <3>1, <3>2
    <3>3. CASE k # n
      <4>1. k + 1 \in 1 .. n /\ n + 1 \in k + 2 .. n + 1 /\ n # 0 /\ (n + 1) - 1 = n
        BY <1>1, <3>3
      <4>2. next # Nil
        BY <1>1, <1>7, <3>3, <4>1
      <4>3. d[n + 1] = c[n]
        BY <1>5, <4>1
      <4> QED BY <1>3, <1>5, <2>1, <3>1, <4>1, <4>2, <4>3
    <3> QED BY <3>2, <3>3
  <2> QED BY <1>5, <2>2, <2>3 DEF Backward
<1>10. Ordered(t, d)
  <2> DEFINE sc(p) == s.node[c[p]].score
             mb(p) == s.node[c[p]].member
  <2>1. \A p \in 1 .. n : sc(p) \in Int /\ mb(p) \in Nat /\ mb(p) # m
    BY <1>0, BeforeNumbers DEF n
  <2>2. \A p, q \in 1 .. n : p < q => sc(p) < sc(q) \/ (sc(p) = sc(q) /\ mb(p) < mb(q))
    <3> SUFFICES ASSUME NEW p \in 1 .. n, NEW q \in 1 .. n, p < q
                 PROVE  sc(p) < sc(q) \/ (sc(p) = sc(q) /\ mb(p) < mb(q))
      OBVIOUS
    <3>1. Before(s, c[p], c[q])
      BY <1>0 DEF Ordered, Before, n
    <3> QED BY <1>0, <3>1, BeforeNumbers DEF n
  <2>3. \A p \in 1 .. n : (sc(p) < score \/ (sc(p) = score /\ mb(p) < m)) <=> p <= k
    <3> SUFFICES ASSUME NEW p \in 1 .. n
                 PROVE  (sc(p) < score \/ (sc(p) = score /\ mb(p) < m)) <=> p <= k
      OBVIOUS
    <3>1. Precedes(s.node[c[p]], score, m) <=> sc(p) < score \/ (sc(p) = score /\ mb(p) < m)
      BY <2>1, PrecedesNumbers
    <3>2. Precedes(s.node[c[p]], score, m) <=> p <= k
      BY <1>4 DEF Leading, n
    <3> QED BY <3>1, <3>2
  <2> HIDE DEF sc, mb
  <2>4. /\ \A p \in 1 .. k : t.node[d[p]].score = sc(p) /\ t.node[d[p]].member = mb(p) /\ p \in 1 .. n
        /\ \A p \in k + 2 .. n + 1 : t.node[d[p]].score = sc(p - 1) /\ t.node[d[p]].member = mb(p - 1)
        /\ t.node[d[k + 1]].score = score /\ t.node[d[k + 1]].member = m
    <3>1. \A p \in 1 .. k : p \in 1 .. n
      BY <1>1
    <3>2. \A p \in k + 2 .. n + 1 : p - 1 \in 1 .. n
      BY <1>1
    <3>3. \A p \in 1 .. n : t.node[c[p]].score = sc(p) /\ t.node[c[p]].member = mb(p)
      BY <1>2, <1>4 DEF sc, mb
    <3> QED BY <1>2, <1>5, <3>1, <3>2, <3>3
  <2> DEFINE S(p) == t.node[d[p]].score
             M(p) == t.node[d[p]].member
  <2>5. \A p \in 1 .. n + 1 : S(p) \in Int /\ p \in 1 .. Len(d)
    <3>1. \A p \in 1 .. Len(d) : S(p) \in Int
      BY <1>2, BeforeNumbers
    <3> QED BY <1>5, <3>1
  <2> SUFFICES ASSUME NEW p \in 1 .. n + 1, NEW q \in 1 .. n + 1, p < q
               PROVE  Precedes(t.node[d[p]], S(q), M(q))
    BY <1>5 DEF Ordered
  <2>6. SUFFICES S(p) < S(q) \/ (S(p) = S(q) /\ M(p) < M(q))
    BY <2>5, PrecedesNumbers
  <2>7. CASE p <= k /\ q <= k
    <3>1. p \in 1 .. k /\ q \in 1 .. k
      BY <1>1, <2>7
    <3> QED BY <2>2, <2>4, <3>1
  <2>8. CASE p <= k /\ q = k + 1
    <3>1. p \in 1 .. k
      BY <1>1, <2>8
    <3> QED BY <2>3, <2>4, <2>8, <3>1
  <2>9. CASE p <= k /\ q > k + 1
    <3>1. p \in 1 .. k /\ q \in k + 2 .. n + 1 /\ q - 1 \in 1 .. n /\ p < q - 1
      BY <1>1, <2>9
    <3> QED BY <2>2, <2>4, <3>1
  <2>10. CASE p = k + 1
    <3>1. q \in k + 2 .. n + 1 /\ q - 1 \in 1 .. n /\ ~(q - 1 <= k)
      BY <1>1, <2>10
    <3>2. ~(sc(q - 1) < score) /\ ~(sc(q - 1) = score /\ mb(q - 1) < m)
      BY <2>3, <3>1
    <3>3. sc(q - 1) \in Int /\ mb(q - 1) \in Nat /\ mb(q - 1) # m
      BY <2>1, <3>1
    <3>4. score < sc(q - 1) \/ (score = sc(q - 1) /\ m < mb(q - 1))
      BY <1>1, <3>2, <3>3
    <3> QED BY <2>4, <2>10, <3>1, <3>4
  <2>11. CASE p > k + 1
    <3>1. p \in k + 2 .. n + 1 /\ p - 1 \in 1 .. n /\ q \in k + 2 .. n + 1 /\ q - 1 \in 1 .. n /\ p - 1 < q - 1
      BY <1>1, <2>11
    <3> QED BY <2>2, <2>4, <3>1
  <2> QED BY <1>1, <2>7, <2>8, <2>9, <2>10, <2>11
<1> QED BY <1>2, <1>8, <1>9, <1>10 DEF Shape, t, d, a

-----------------------------------------------------------------------------
(* Delete *)

Without(c, y) == [p \in 1 .. Len(c) - 1 |-> IF p < y THEN c[p] ELSE c[p + 1]]

\* Where the node at p is when the node at y has left.
Closed(y, p) == IF p < y THEN p ELSE p - 1

AsWithout(s, c, y) ==
    LET d == Without(c, y) IN
    /\ d \in Seq(Address) /\ Len(d) = Len(c) - 1
    /\ \A p \in 0 .. Len(c) \ {y} : Closed(y, p) \in 0 .. Len(d) /\ At(d, Closed(y, p)) = At(c, p)
    /\ \A p \in 0 .. Len(d) : \E q \in 0 .. Len(c) \ {y} : p = Closed(y, q)
    /\ \A p, q \in 1 .. Len(d) : d[p] = d[q] => p = q
    /\ \A b : b \in DOMAIN s.node \ {c[y]} <=> b = Header \/ \E p \in 1 .. Len(d) : b = d[p]

LEMMA WithoutChain ==
    ASSUME NEW s, NEW c, Typed(s, c), NEW y \in 1 .. Len(c)
    PROVE  AsWithout(s, c, y)
<1> DEFINE d == Without(c, y)
           n == Len(c)
<1>1. n \in Nat /\ y \in Nat /\ n - 1 \in Nat /\ Header \notin Address
      /\ \A p \in 1 .. n : c[p] \in Address /\ At(c, p) = c[p]
  <2>1. n \in Nat
    BY NodeTyped
  <2>2. y \in Nat /\ n - 1 \in Nat
    BY <2>1
  <2> QED BY <2>1, <2>2, NodeTyped
<1>2. \A p \in 1 .. n - 1 : d[p] = IF p < y THEN c[p] ELSE c[p + 1]
  BY DEF Without
<1>3. d \in Seq(Address) /\ Len(d) = n - 1
  <2>1. \A p \in 1 .. n - 1 : d[p] \in Address
    BY <1>1, <1>2
  <2>2. d = [p \in 1 .. n - 1 |-> d[p]]
    BY DEF Without
  <2> HIDE DEF d
  <2>3. d \in [1 .. n - 1 -> Address]
    BY <2>1, <2>2
  <2> QED BY <1>1, <2>3
<1> HIDE DEF d
<1>4. ASSUME NEW p \in 0 .. n \ {y} PROVE Closed(y, p) \in 0 .. n - 1 /\ At(d, Closed(y, p)) = At(c, p)
  <2>0. p \in 0 .. n /\ p # y /\ y \in 1 .. n
    OBVIOUS
  <2>1. CASE p = 0
    <3>1. Closed(y, p) = 0 /\ 0 \in 0 .. n - 1
      BY <1>1, <2>0, <2>1 DEF Closed
    <3> QED BY <2>1, <3>1 DEF At
  <2>2. CASE p # 0 /\ p < y
    <3>1. Closed(y, p) = p /\ p \in 1 .. n - 1 /\ p \in 0 .. n - 1
      BY <1>1, <2>0, <2>2 DEF Closed
    <3> QED BY <1>2, <2>2, <3>1 DEF At
  <2>3. CASE y < p
    <3>1. Closed(y, p) = p - 1 /\ p - 1 \in 1 .. n - 1 /\ p - 1 \in 0 .. n - 1 /\ p - 1 # 0 /\ p # 0
          /\ ~(p - 1 < y) /\ (p - 1) + 1 = p
      BY <1>1, <2>0, <2>3 DEF Closed
    <3>2. d[p - 1] = c[p]
      BY <1>2, <3>1
    <3> QED BY <3>1, <3>2 DEF At
  <2> QED BY <1>1, <2>0, <2>1, <2>2, <2>3
<1>5. ASSUME NEW p \in 0 .. n - 1 PROVE \E q \in 0 .. n \ {y} : p = Closed(y, q)
  <2>1. CASE p < y
    <3>1. p \in 0 .. n \ {y} /\ Closed(y, p) = p
      BY <1>1, <2>1 DEF Closed
    <3> QED BY <3>1
  <2>2. CASE ~(p < y)
    <3>1. p + 1 \in 0 .. n \ {y} /\ Closed(y, p + 1) = p
      BY <1>1, <2>2 DEF Closed
    <3> QED BY <3>1
  <2> QED BY <2>1, <2>2
<1>6. ASSUME NEW p \in 1 .. n - 1, NEW q \in 1 .. n - 1, d[p] = d[q] PROVE p = q
  <2>1. At(d, p) = At(d, q) /\ p \in 0 .. n - 1 /\ q \in 0 .. n - 1
    BY <1>6 DEF At
  <2>2. PICK i \in 0 .. n \ {y} : p = Closed(y, i)
    BY <1>5, <2>1
  <2>3. PICK j \in 0 .. n \ {y} : q = Closed(y, j)
    BY <1>5, <2>1
  <2>4. At(c, i) = At(c, j) /\ i \in 0 .. n /\ j \in 0 .. n
    BY <1>4, <2>1, <2>2, <2>3
  <2>5. i = j
    BY <2>4, NodeTyped
  <2> QED BY <2>2, <2>3, <2>5
<1>7. ASSUME NEW b PROVE b \in DOMAIN s.node \ {c[y]} <=> b = Header \/ \E p \in 1 .. n - 1 : b = d[p]
  <2>1. ASSUME b \in DOMAIN s.node \ {c[y]} PROVE b = Header \/ \E p \in 1 .. n - 1 : b = d[p]
    <3>1. PICK q \in 0 .. n : b = At(c, q)
      BY <2>1, NodeTyped
    <3>2. CASE q = 0
      BY <3>1, <3>2 DEF At
    <3>3. CASE q # 0
      <4>1. q # y /\ q \in 0 .. n \ {y}
        BY <1>1, <2>1, <3>1, <3>3
      <4>2. Closed(y, q) \in 1 .. n - 1
        BY <1>1, <3>3, <4>1 DEF Closed
      <4>3. d[Closed(y, q)] = b
        BY <1>4, <3>1, <4>1, <4>2 DEF At
      <4> QED BY <4>2, <4>3
    <3> QED BY <3>2, <3>3
  <2>2. Header \in DOMAIN s.node /\ Header # c[y]
    BY <1>1 DEF Typed
  <2>3. ASSUME NEW p \in 1 .. n - 1 PROVE d[p] \in DOMAIN s.node \ {c[y]}
    <3>1. p \in 0 .. n - 1 /\ At(d, p) = d[p]
      BY DEF At
    <3>2. PICK q \in 0 .. n \ {y} : p = Closed(y, q)
      BY <1>5, <3>1
    <3>3. d[p] = At(c, q) /\ q \in 0 .. n /\ y \in 0 .. n /\ q # y
      BY <1>1, <1>4, <3>1, <3>2
    <3>4. At(c, q) \in DOMAIN s.node /\ At(c, q) # At(c, y)
      BY <3>3, NodeTyped
    <3> QED BY <1>1, <3>3, <3>4
  <2> QED BY <2>1, <2>2, <2>3
<1> QED BY <1>3, <1>4, <1>5, <1>6, <1>7 DEF d, AsWithout

\* What deleteNode makes of the node after the first k, in terms of positions.
AsUnlinked(s, c, k) ==
    LET x == c[k + 1]
        t == Unlinked(s, x, [i \in 1 .. s.level |-> StopAt(s, c, k, i)])
        next == IF k + 1 = Len(c) THEN Nil ELSE c[k + 2]
        gone(i) == IF On(s, c, i, k + 1) THEN s.node[x].levels[i] ELSE Nil IN
    /\ DOMAIN t.node = DOMAIN s.node \ {x}
    /\ \A p \in 0 .. Len(c) \ {k + 1} :
         t.node[At(c, p)] =
           [s.node[At(c, p)] EXCEPT
              !.backward = IF At(c, p) = next THEN s.node[x].backward ELSE @,
              !.levels = [i \in DOMAIN @ |->
                 IF i \notin 1 .. s.level \/ LastOn(s, c, k, i) # p THEN @[i]
                 ELSE Past(@[i], x, gone(i))]]
    /\ t.tail = IF next = Nil THEN s.node[x].backward ELSE s.tail
    /\ t.length = s.length - 1
    /\ t.level = Max({1} \cup {i \in 1 .. s.level : t.node[Header].levels[i].forward # Nil})
    /\ \E f : t.node = [b \in DOMAIN s.node \ {x} |-> f[b]]

LEMMA UnlinkedIs ==
    ASSUME NEW s, NEW c, Shape(s, c), NEW k \in 0 .. Len(c) - 1
    PROVE  AsUnlinked(s, c, k)
<1> DEFINE x == c[k + 1]
           path == [i \in 1 .. s.level |-> StopAt(s, c, k, i)]
           t == Unlinked(s, x, path)
           next == IF k + 1 = Len(c) THEN Nil ELSE c[k + 2]
           gone(i) == IF On(s, c, i, k + 1) THEN s.node[x].levels[i] ELSE Nil
           u(i) == LastOn(s, c, k, i)
<1>0. Typed(s, c) /\ Linked(s, c)
  BY DEF Shape
<1>1. Len(c) \in Nat /\ k \in Nat /\ k \in 0 .. Len(c) /\ k + 1 \in 1 .. Len(c) /\ k + 1 \in 0 .. Len(c)
      /\ (k + 1) + 1 = k + 2
  <2>1. Len(c) \in Nat
    BY <1>0, NodeTyped
  <2> QED BY <2>1
<1>2. At(c, k + 1) = x
  BY <1>0, <1>1, NodeTyped
<1>3. Next0(s, x) = next
  BY <1>0, <1>1, <1>2, FirstLink
<1>4. DOMAIN path = 1 .. s.level /\ \A i \in 1 .. s.level : path[i].at = At(c, u(i)) /\ u(i) \in 0 .. Len(c)
  <2>1. ASSUME NEW i \in 1 .. s.level PROVE path[i].at = At(c, u(i)) /\ u(i) \in 0 .. Len(c)
    <3>1. s.level \in 1 .. MaxLevel /\ MaxLevel \in Nat
      BY <1>0, LevelAssumption DEF Typed
    <3>2. i \in 1 .. MaxLevel
      BY <3>1
    <3>3. u(i) \in 0 .. k
      BY <1>0, <1>1, <3>2, LastOnLevel DEF Latest
    <3>4. path[i] = StopAt(s, c, k, i)
      OBVIOUS
    <3> QED BY <1>1, <3>3, <3>4 DEF StopAt
  <2> QED BY <2>1
<1> HIDE DEF path
<1> DEFINE left(b) == [s.node[b] EXCEPT
            !.backward = IF b = Next0(s, x) THEN s.node[x].backward ELSE @,
            !.levels = [i \in DOMAIN @ |->
               IF i \notin DOMAIN path THEN @[i]
               ELSE IF path[i].at # b THEN @[i]
               ELSE Past(@[i], x, IF i \in DOMAIN s.node[x].levels THEN s.node[x].levels[i] ELSE Nil)]]
<1>5. t.node = [b \in DOMAIN s.node \ {x} |-> left(b)]
      /\ t.tail = (IF Next0(s, x) = Nil THEN s.node[x].backward ELSE s.tail)
      /\ t.length = s.length - 1
  BY DEF Unlinked
<1>6. t.level = Max({1} \cup {i \in 1 .. s.level : t.node[Header].levels[i].forward # Nil})
  BY DEF Unlinked
<1> HIDE DEF t, x, left
<1>7. DOMAIN t.node = DOMAIN s.node \ {x} /\ \E f : t.node = [b \in DOMAIN s.node \ {x} |-> f[b]]
  <2>1. DOMAIN t.node = DOMAIN s.node \ {x} /\ t.node = [b \in DOMAIN s.node \ {x} |-> t.node[b]]
    BY <1>5
  <2> QED BY <2>1
<1>8. ASSUME NEW p \in 0 .. Len(c) \ {k + 1}
      PROVE  t.node[At(c, p)] =
           [s.node[At(c, p)] EXCEPT
              !.backward = IF At(c, p) = next THEN s.node[x].backward ELSE @,
              !.levels = [i \in DOMAIN @ |->
                 IF i \notin 1 .. s.level \/ u(i) # p THEN @[i]
                 ELSE Past(@[i], x, gone(i))]]
  <2> DEFINE b == At(c, p)
             L == s.node[b].levels
  <2>1. b \in DOMAIN s.node \ {x} /\ p \in 0 .. Len(c)
    <3>1. p \in 0 .. Len(c) /\ p # k + 1
      OBVIOUS
    <3>2. b \in DOMAIN s.node /\ b # At(c, k + 1)
      BY <1>0, <1>1, <3>1, NodeTyped
    <3> QED BY <1>2, <3>1, <3>2
  <2>2. \A i \in 1 .. s.level : path[i].at # b <=> u(i) # p
    <3>1. \A i \in 1 .. s.level : At(c, u(i)) = At(c, p) <=> u(i) = p
      BY <1>0, <1>4, <2>1, NodeTyped
    <3> QED BY <1>4, <3>1
  <2> HIDE DEF b
  <2>3. \A i : gone(i) = IF i \in DOMAIN s.node[x].levels THEN s.node[x].levels[i] ELSE Nil
    BY <1>2 DEF On
  <2> HIDE DEF gone
  <2>4. t.node[b] = [s.node[b] EXCEPT
            !.backward = IF b = next THEN s.node[x].backward ELSE @,
            !.levels = [i \in DOMAIN L |->
               IF i \notin DOMAIN path THEN L[i]
               ELSE IF path[i].at # b THEN L[i]
               ELSE Past(L[i], x, gone(i))]]
    <3>1. t.node[b] = left(b)
      BY <1>5, <2>1
    <3>2. left(b) = [s.node[b] EXCEPT
            !.backward = IF b = next THEN s.node[x].backward ELSE @,
            !.levels = [i \in DOMAIN L |->
               IF i \notin DOMAIN path THEN L[i]
               ELSE IF path[i].at # b THEN L[i]
               ELSE Past(L[i], x, IF i \in DOMAIN s.node[x].levels THEN s.node[x].levels[i] ELSE Nil)]]
      BY <1>3 DEF left
    <3>3. [i \in DOMAIN L |->
               IF i \notin DOMAIN path THEN L[i]
               ELSE IF path[i].at # b THEN L[i]
               ELSE Past(L[i], x, IF i \in DOMAIN s.node[x].levels THEN s.node[x].levels[i] ELSE Nil)]
          = [i \in DOMAIN L |->
               IF i \notin DOMAIN path THEN L[i]
               ELSE IF path[i].at # b THEN L[i]
               ELSE Past(L[i], x, gone(i))]
      <4> HIDE DEF L
      <4> QED BY <2>3
    <3> QED BY <3>1, <3>2, <3>3
  <2>5. [i \in DOMAIN L |->
               IF i \notin DOMAIN path THEN L[i]
               ELSE IF path[i].at # b THEN L[i]
               ELSE Past(L[i], x, gone(i))]
         = [i \in DOMAIN L |->
                 IF i \notin 1 .. s.level \/ u(i) # p THEN L[i]
                 ELSE Past(L[i], x, gone(i))]
    <3> HIDE DEF L, u
    <3> QED BY <1>4, <2>2
  <2> QED BY <2>4, <2>5 DEF b, gone
<1> QED BY <1>3, <1>5, <1>6, <1>7, <1>8 DEF t, x, path, AsUnlinked

\* The links of the list without the node at y = k + 1.
AsRelinked(s, c, k) ==
    LET y == k + 1
        x == c[y]
        t == Unlinked(s, x, [i \in 1 .. s.level |-> StopAt(s, c, k, i)])
        d == Without(c, y)
        gone(i) == IF On(s, c, i, y) THEN s.node[x].levels[i] ELSE Nil IN
    \A p \in 0 .. Len(c) \ {y} :
      /\ \A i : On(t, d, i, Closed(y, p)) <=> On(s, c, i, p)
      /\ \A i : On(s, c, i, p) =>
           t.node[At(d, Closed(y, p))].levels[i] =
             LET l == s.node[At(c, p)].levels[i] IN
             IF i \notin 1 .. s.level \/ LastOn(s, c, k, i) # p THEN l ELSE Past(l, x, gone(i))

LEMMA UnlinkedLinks ==
    ASSUME NEW s, NEW c, Shape(s, c), NEW k \in 0 .. Len(c) - 1
    PROVE  AsRelinked(s, c, k)
<1> DEFINE y == k + 1
           x == c[y]
           t == Unlinked(s, x, [i \in 1 .. s.level |-> StopAt(s, c, k, i)])
           d == Without(c, y)
           next == IF k + 1 = Len(c) THEN Nil ELSE c[k + 2]
           gone(i) == IF On(s, c, i, y) THEN s.node[x].levels[i] ELSE Nil
           u(i) == LastOn(s, c, k, i)
<1>0. Typed(s, c) /\ AsUnlinked(s, c, k)
  BY UnlinkedIs DEF Shape
<1>1. Len(c) \in Nat /\ y \in 1 .. Len(c)
  <2>1. Len(c) \in Nat
    BY <1>0, NodeTyped
  <2> QED BY <2>1
<1>2. AsWithout(s, c, y)
  <2> HIDE DEF y
  <2> QED BY <1>0, <1>1, WithoutChain
<1> SUFFICES ASSUME NEW p \in 0 .. Len(c) \ {y}, NEW i
             PROVE  /\ On(t, d, i, Closed(y, p)) <=> On(s, c, i, p)
                    /\ On(s, c, i, p) =>
                         t.node[At(d, Closed(y, p))].levels[i] =
                           IF i \notin 1 .. s.level \/ u(i) # p THEN s.node[At(c, p)].levels[i]
                           ELSE Past(s.node[At(c, p)].levels[i], x, gone(i))
  BY DEF AsRelinked
<1>3. t.node[At(c, p)] =
           [s.node[At(c, p)] EXCEPT
              !.backward = IF At(c, p) = next THEN s.node[x].backward ELSE @,
              !.levels = [j \in DOMAIN @ |->
                 IF j \notin 1 .. s.level \/ u(j) # p THEN @[j]
                 ELSE Past(@[j], x, gone(j))]]
  BY <1>0 DEF AsUnlinked
<1>4. s.node[At(c, p)] \in Node
  <2>1. p \in 0 .. Len(c)
    OBVIOUS
  <2> QED BY <1>0, <2>1, NodeTyped
<1>5. At(d, Closed(y, p)) = At(c, p)
  BY <1>2 DEF AsWithout
<1> HIDE DEF t, d, u, next, gone
<1>6. t.node[At(c, p)].levels =
               [j \in DOMAIN s.node[At(c, p)].levels |->
                 IF j \notin 1 .. s.level \/ u(j) # p THEN s.node[At(c, p)].levels[j]
                 ELSE Past(s.node[At(c, p)].levels[j], x, gone(j))]
  BY <1>3, <1>4 DEF Node
<1>7. On(t, d, i, Closed(y, p)) <=> On(s, c, i, p)
  BY <1>5, <1>6 DEF On
<1>8. ASSUME On(s, c, i, p)
      PROVE  t.node[At(c, p)].levels[i] =
               IF i \notin 1 .. s.level \/ u(i) # p THEN s.node[At(c, p)].levels[i]
               ELSE Past(s.node[At(c, p)].levels[i], x, gone(i))
  BY <1>6, <1>8 DEF On
<1> QED BY <1>5, <1>7, <1>8

LEMMA UnlinkedHops ==
    ASSUME NEW s, NEW c, Shape(s, c), NEW k \in 0 .. Len(c) - 1, NEW i \in 1 .. s.level
    PROVE  LET t == Unlinked(s, c[k + 1], [j \in 1 .. s.level |-> StopAt(s, c, k, j)])
               d == Without(c, k + 1) IN
           \A p \in 0 .. Len(d) : On(t, d, i, p) => Hop(t, d, i, p)
<1> DEFINE y == k + 1
           a == c[y]
           t == Unlinked(s, c[k + 1], [j \in 1 .. s.level |-> StopAt(s, c, k, j)])
           d == Without(c, k + 1)
           n == Len(c)
<1>0. Typed(s, c) /\ Linked(s, c) /\ AsRelinked(s, c, k)
  BY UnlinkedLinks DEF Shape
<1>1. n \in Nat /\ k \in Nat /\ y \in Nat /\ y = k + 1 /\ y \in 1 .. n /\ y <= n /\ k \in 0 .. n
      /\ i \in 1 .. MaxLevel
  <2>1. n \in Nat
    BY <1>0, NodeTyped
  <2>2. s.level \in 1 .. MaxLevel /\ MaxLevel \in Nat
    BY <1>0, LevelAssumption DEF Typed
  <2>3. i \in 1 .. MaxLevel
    BY <2>2
  <2> QED BY <2>1, <2>3
<1>2. /\ Len(d) = n - 1
      /\ \A p \in 0 .. n \ {y} : At(d, Closed(y, p)) = At(c, p)
      /\ \A p \in 0 .. n - 1 : \E q \in 0 .. n \ {y} : p = Closed(y, q)
  <2>1. AsWithout(s, c, k + 1)
    BY <1>0, <1>1, WithoutChain
  <2> QED BY <2>1 DEF AsWithout
<1> SUFFICES ASSUME NEW x \in 0 .. n - 1, On(t, d, i, x) PROVE Hop(t, d, i, x)
  BY <1>2
<1> DEFINE u == LastOn(s, c, k, i)
           S(q) == On(s, c, i, q)
           T(q) == On(t, d, i, q)
           old(q) == s.node[At(c, q)].levels[i]
           new(q) == t.node[At(d, q)].levels[i]
<1>6. u \in 0 .. k /\ S(u) /\ \A q \in u + 1 .. k : ~S(q)
  BY <1>0, <1>1, LastOnLevel DEF Latest
<1>7. At(c, y) = a
  BY <1>0, <1>1, NodeTyped
<1>9. ASSUME NEW p \in 0 .. n \ {y}
      PROVE  /\ T(Closed(y, p)) <=> S(p)
             /\ S(p) => new(Closed(y, p)) = IF u # p THEN old(p)
                       ELSE Past(old(p), a, IF S(y) THEN old(y) ELSE Nil)
  <2>1. T(Closed(y, p)) <=> S(p)
    BY <1>0 DEF AsRelinked
  <2>3. S(p) => new(Closed(y, p)) = IF i \notin 1 .. s.level \/ u # p THEN old(p)
                       ELSE Past(old(p), a, IF S(y) THEN s.node[a].levels[i] ELSE Nil)
    BY <1>0 DEF AsRelinked
  <2>4. s.node[a].levels[i] = old(y)
    BY <1>7
  <2> HIDE DEF t, d, S, T, old, new, u
  <2> QED BY <2>1, <2>3, <2>4
<1>10. \A p \in 0 .. n : S(p) =>
          \/ /\ old(p).forward = Nil /\ old(p).span = n - p
             /\ \A q \in p + 1 .. n : ~S(q)
          \/ /\ old(p).span \in 1 .. n - p
             /\ old(p).forward = c[p + old(p).span] /\ S(p + old(p).span)
             /\ \A q \in p + 1 .. p + old(p).span - 1 : ~S(q)
  <2> SUFFICES ASSUME NEW p \in 0 .. n, S(p) PROVE Hop(s, c, i, p)
    BY DEF Hop
  <2> QED BY <1>0 DEF Linked
<1>12. /\ \A q \in 1 .. k : d[q] = c[q]
       /\ \A q \in k + 1 .. n - 1 : d[q] = c[q + 1]
  BY <1>1 DEF Without
<1>13. /\ \A q \in 0 .. k : T(q) <=> S(q)
       /\ \A q \in k + 1 .. n - 1 : T(q) <=> S(q + 1)
  <2>1. ASSUME NEW q \in 0 .. k PROVE T(q) <=> S(q)
    <3>1. Closed(y, q) = q /\ q \in 0 .. n \ {y}
      BY <1>1 DEF Closed
    <3> HIDE DEF T, S, y
    <3> QED BY <1>9, <3>1
  <2>2. ASSUME NEW q \in k + 1 .. n - 1 PROVE T(q) <=> S(q + 1)
    <3>1. Closed(y, q + 1) = q /\ q + 1 \in 0 .. n \ {y}
      BY <1>1 DEF Closed
    <3> HIDE DEF T, S, y
    <3> QED BY <1>9, <3>1
  <2> QED BY <2>1, <2>2
<1>16. Nil \notin Address /\ (\A q \in 1 .. n : c[q] \in Address) /\ \A q, r \in 1 .. n : c[q] = c[r] => q = r
  <2>1. \A q, r \in 1 .. n : c[q] = c[r] => q = r
    BY <1>0 DEF Typed
  <2> QED BY <1>0, <2>1, NodeTyped
<1> HIDE DEF t, d
<1>14. SUFFICES \/ /\ new(x).forward = Nil /\ new(x).span = n - 1 - x
                   /\ \A q \in x + 1 .. n - 1 : ~T(q)
                \/ /\ new(x).span \in 1 .. n - 1 - x
                   /\ new(x).forward = d[x + new(x).span] /\ T(x + new(x).span)
                   /\ \A q \in x + 1 .. x + new(x).span - 1 : ~T(q)
  BY <1>2 DEF Hop
<1>15. T(x)
  OBVIOUS
<1> HIDE DEF u, S, T, old, new, n
<1>17. PICK p \in 0 .. n \ {y} : x = Closed(y, p)
  BY <1>2
<1>18. p \in 0 .. n /\ p # y /\ S(p) /\ x = (IF p <= k THEN p ELSE p - 1)
       /\ new(x) = IF u # p THEN old(p) ELSE Past(old(p), a, IF S(y) THEN old(y) ELSE Nil)
  <2>1. p \in 0 .. n /\ p # y
    OBVIOUS
  <2>2. x = IF p <= k THEN p ELSE p - 1
    BY <1>1, <1>17, <2>1 DEF Closed
  <2> HIDE DEF y
  <2> QED BY <1>9, <1>15, <1>17, <2>1, <2>2
<1> HIDE DEF y, a
\* Links that do not come to the node
<1>21. CASE u # p
  <2>1. new(x) = old(p)
    BY <1>18, <1>21
  <2>2. CASE p <= k
    <3>1. x = p /\ p < u
      BY <1>1, <1>6, <1>18, <1>21, <2>2
    <3>2. CASE \A q \in p + 1 .. n : ~S(q)
      BY <1>1, <1>6, <3>1, <3>2
    <3>3. CASE old(p).span \in 1 .. n - p /\ old(p).forward = c[p + old(p).span]
               /\ S(p + old(p).span) /\ \A q \in p + 1 .. p + old(p).span - 1 : ~S(q)
      <4> DEFINE e == old(p).span
      <4>1. e \in 1 .. n - p /\ S(p + e) /\ (\A q \in p + 1 .. p + e - 1 : ~S(q))
            /\ new(x).forward = c[p + e] /\ new(x).span = e
        BY <2>1, <3>3
      <4> HIDE DEF e
      <4>2. p + e <= u
        <5>1. u \in Nat /\ p \in Nat /\ e \in Nat
          BY <1>1, <1>6, <1>18, <4>1
        <5>2. u \notin p + 1 .. p + e - 1
          BY <1>6, <4>1
        <5> QED BY <3>1, <5>1, <5>2
      <4>3. p + e \in 1 .. k /\ e \in 1 .. n - 1 - x
        BY <1>1, <1>6, <1>18, <3>1, <4>1, <4>2
      <4>4. \A q \in x + 1 .. x + new(x).span - 1 : ~T(q)
        BY <1>1, <1>13, <1>18, <3>1, <4>1, <4>3
      <4> QED BY <1>12, <1>13, <3>1, <4>1, <4>3, <4>4
    <3> QED BY <1>10, <1>18, <3>2, <3>3
  <2>3. CASE k < p
    <3>1. x = p - 1 /\ y < p /\ p \in Nat
      BY <1>1, <1>18, <2>3
    <3>2. CASE old(p).forward = Nil /\ old(p).span = n - p /\ \A q \in p + 1 .. n : ~S(q)
      <4>1. \A q \in x + 1 .. n - 1 : ~T(q)
        <5> SUFFICES ASSUME NEW q \in x + 1 .. n - 1 PROVE ~T(q)
          OBVIOUS
        <5>1. q \in k + 1 .. n - 1 /\ q + 1 \in p + 1 .. n
          BY <1>1, <3>1
        <5> QED BY <1>13, <3>2, <5>1
      <4>2. new(x).span = n - 1 - x
        BY <1>1, <2>1, <3>1, <3>2
      <4> QED BY <2>1, <3>2, <4>1, <4>2
    <3>3. CASE old(p).span \in 1 .. n - p /\ old(p).forward = c[p + old(p).span]
               /\ S(p + old(p).span) /\ \A q \in p + 1 .. p + old(p).span - 1 : ~S(q)
      <4> DEFINE e == old(p).span
      <4>1. e \in 1 .. n - p /\ S(p + e) /\ (\A q \in p + 1 .. p + e - 1 : ~S(q))
            /\ new(x).forward = c[p + e] /\ new(x).span = e
        BY <2>1, <3>3
      <4> HIDE DEF e
      <4>2. e \in 1 .. n - p
        BY <4>1
      <4>3. x + e \in k + 1 .. n - 1 /\ x + e + 1 = p + e /\ e \in 1 .. n - 1 - x
        BY <1>1, <3>1, <4>2
      <4>4. \A q \in x + 1 .. x + e - 1 : ~T(q)
        <5> SUFFICES ASSUME NEW q \in x + 1 .. x + e - 1 PROVE ~T(q)
          OBVIOUS
        <5>1. q \in k + 1 .. n - 1 /\ q + 1 \in p + 1 .. p + e - 1
          BY <1>1, <3>1, <4>2
        <5> QED BY <1>13, <4>1, <5>1
      <4>5. d[x + e] = c[p + e] /\ T(x + e)
        BY <1>12, <1>13, <4>1, <4>3
      <4> QED BY <4>1, <4>3, <4>4, <4>5
    <3> QED BY <1>10, <1>18, <3>2, <3>3
  <2> QED BY <1>1, <1>18, <2>2, <2>3
\* The link of the last node before it
<1>22. CASE u = p
  <2>1. x = p /\ p <= k /\ p \in 0 .. k /\ new(x) = Past(old(p), a, IF S(y) THEN old(y) ELSE Nil) /\ p \in Nat
    BY <1>1, <1>6, <1>18, <1>22
  <2>2. CASE S(y)
    <3>1. \A q \in p + 1 .. n : S(q) => y <= q
      <4> SUFFICES ASSUME NEW q \in p + 1 .. n, S(q), q < y PROVE FALSE
        BY <1>1, <2>1
      <4>1. q \in u + 1 .. k
        BY <1>1, <1>22, <2>1
      <4> QED BY <1>6, <4>1
    <3>2. old(p).forward = a /\ old(p).span = y - p
      <4>1. y \in p + 1 .. n
        BY <1>1, <2>1
      <4>2. ~ \A q \in p + 1 .. n : ~S(q)
        BY <2>2, <4>1
      <4> DEFINE e == old(p).span
      <4>3. e \in 1 .. n - p /\ old(p).forward = c[p + e] /\ S(p + e)
             /\ \A q \in p + 1 .. p + e - 1 : ~S(q)
        BY <1>10, <1>18, <4>2
      <4> HIDE DEF e
      <4>4. e \in 1 .. n - p
        BY <4>3
      <4>5. y <= p + e
        <5>1. p + e \in p + 1 .. n
          BY <1>1, <2>1, <4>4
        <5> QED BY <3>1, <4>3, <5>1
      <4>6. p + e <= y
        <5>1. CASE y < p + e
          <6>1. y \in p + 1 .. p + e - 1
            BY <1>1, <2>1, <4>4, <5>1
          <6> QED BY <2>2, <4>3, <6>1
        <5> QED BY <1>1, <2>1, <4>4, <5>1
      <4>7. p + e = y /\ e = y - p
        BY <1>1, <2>1, <4>4, <4>5, <4>6
      <4> QED BY <4>3, <4>7 DEF e, a
    <3>3. new(x).forward = old(y).forward /\ new(x).span = (y - p) + old(y).span - 1
      BY <2>1, <2>2, <3>2 DEF Past
    <3>4. CASE old(y).forward = Nil /\ old(y).span = n - y /\ \A q \in y + 1 .. n : ~S(q)
      <4>1. \A q \in x + 1 .. n - 1 : ~T(q)
        <5> SUFFICES ASSUME NEW q \in x + 1 .. n - 1 PROVE ~T(q)
          OBVIOUS
        <5>1. CASE q <= k
          <6>1. q \in u + 1 .. k /\ q \in 0 .. k
            BY <1>1, <1>22, <2>1, <5>1
          <6> QED BY <1>6, <1>13, <6>1
        <5>2. CASE k < q
          <6>1. q \in k + 1 .. n - 1 /\ q + 1 \in y + 1 .. n
            BY <1>1, <2>1, <5>2
          <6> QED BY <1>13, <3>4, <6>1
        <5> QED BY <1>1, <2>1, <5>1, <5>2
      <4>2. new(x).span = n - 1 - x
        BY <1>1, <2>1, <3>3, <3>4
      <4> QED BY <3>3, <3>4, <4>1, <4>2
    <3>5. CASE old(y).span \in 1 .. n - y /\ old(y).forward = c[y + old(y).span]
               /\ S(y + old(y).span) /\ \A q \in y + 1 .. y + old(y).span - 1 : ~S(q)
      <4> DEFINE e == old(y).span
      <4>1. e \in 1 .. n - y /\ S(y + e) /\ (\A q \in y + 1 .. y + e - 1 : ~S(q))
            /\ new(x).forward = c[y + e] /\ new(x).span = (y - p) + e - 1
        BY <3>3, <3>5
      <4> HIDE DEF e
      <4>2. e \in 1 .. n - y
        BY <4>1
      <4> DEFINE f == (y - p) + e - 1
      <4>3. f \in 1 .. n - 1 - x /\ x + f \in k + 1 .. n - 1 /\ x + f + 1 = y + e /\ x + f = k + e
        BY <1>1, <2>1, <4>2
      <4> HIDE DEF f
      <4>4. \A q \in x + 1 .. x + f - 1 : ~T(q)
        <5> SUFFICES ASSUME NEW q \in x + 1 .. x + f - 1 PROVE ~T(q)
          OBVIOUS
        <5>1. CASE q <= k
          <6>1. q \in u + 1 .. k /\ q \in 0 .. k
            BY <1>1, <1>22, <2>1, <5>1
          <6> QED BY <1>6, <1>13, <6>1
        <5>2. CASE k < q
          <6>1. q \in k + 1 .. n - 1 /\ q + 1 \in y + 1 .. y + e - 1
            BY <1>1, <2>1, <4>2, <4>3, <5>2
          <6> QED BY <1>13, <4>1, <6>1
        <5> QED BY <1>1, <2>1, <5>1, <5>2
      <4>5. d[x + f] = c[y + e] /\ T(x + f)
        BY <1>12, <1>13, <4>1, <4>3
      <4> QED BY <4>1, <4>3, <4>4, <4>5 DEF f
    <3>6. y \in 0 .. n
      BY <1>1
    <3> QED BY <1>10, <2>2, <3>4, <3>5, <3>6
  <2>3. CASE ~S(y)
    <3>1. CASE old(p).forward = Nil /\ old(p).span = n - p /\ \A q \in p + 1 .. n : ~S(q)
      <4>1. a \in Address
        BY <1>1, <1>16 DEF a
      <4>2. new(x).forward = Nil /\ new(x).span = old(p).span - 1
        BY <1>16, <2>1, <3>1, <4>1 DEF Past
      <4>3. new(x).span = n - 1 - x
        BY <1>1, <2>1, <3>1, <4>2
      <4>4. \A q \in x + 1 .. n - 1 : ~T(q)
        <5> SUFFICES ASSUME NEW q \in x + 1 .. n - 1 PROVE ~T(q)
          OBVIOUS
        <5>1. CASE q <= k
          <6>1. q \in p + 1 .. n /\ q \in 0 .. k
            BY <1>1, <2>1, <5>1
          <6> QED BY <1>13, <3>1, <6>1
        <5>2. CASE k < q
          <6>1. q \in k + 1 .. n - 1 /\ q + 1 \in p + 1 .. n
            BY <1>1, <2>1, <5>2
          <6> QED BY <1>13, <3>1, <6>1
        <5> QED BY <1>1, <2>1, <5>1, <5>2
      <4> QED BY <4>2, <4>3, <4>4
    <3>2. CASE old(p).span \in 1 .. n - p /\ old(p).forward = c[p + old(p).span]
               /\ S(p + old(p).span) /\ \A q \in p + 1 .. p + old(p).span - 1 : ~S(q)
      <4> DEFINE e == old(p).span
      <4>1. e \in 1 .. n - p /\ S(p + e) /\ (\A q \in p + 1 .. p + e - 1 : ~S(q))
            /\ old(p).forward = c[p + e] /\ old(p).span = e
        BY <3>2
      <4> HIDE DEF e
      <4>2. e \in 1 .. n - p
        BY <4>1
      <4>3. p + e # y
        BY <2>3, <4>1
      <4>4. y < p + e
        <5>1. CASE p + e < y
          <6>1. p + e \in u + 1 .. k
            BY <1>1, <1>22, <2>1, <4>2, <5>1
          <6> QED BY <1>6, <4>1, <6>1
        <5> QED BY <1>1, <2>1, <4>2, <4>3, <5>1
      <4>5. c[p + e] # a
        <5>1. p + e \in 1 .. n
          BY <1>1, <2>1, <4>2
        <5> QED BY <1>1, <1>16, <4>3, <5>1 DEF a
      <4>6. new(x).forward = c[p + e] /\ new(x).span = e - 1
        BY <2>1, <4>1, <4>5 DEF Past
      <4>7. x + (e - 1) \in k + 1 .. n - 1 /\ x + (e - 1) + 1 = p + e /\ e - 1 \in 1 .. n - 1 - x
        BY <1>1, <2>1, <4>2, <4>4
      <4>8. \A q \in x + 1 .. x + (e - 1) - 1 : ~T(q)
        <5> SUFFICES ASSUME NEW q \in x + 1 .. x + (e - 1) - 1 PROVE ~T(q)
          OBVIOUS
        <5>1. CASE q <= k
          <6>1. q \in u + 1 .. k /\ q \in 0 .. k
            BY <1>1, <1>22, <2>1, <5>1
          <6> QED BY <1>6, <1>13, <6>1
        <5>2. CASE k < q
          <6>1. q \in k + 1 .. n - 1 /\ q + 1 \in p + 1 .. p + e - 1
            BY <1>1, <2>1, <4>2, <4>7, <5>2
          <6> QED BY <1>13, <4>1, <6>1
        <5> QED BY <1>1, <2>1, <4>2, <5>1, <5>2
      <4>9. d[x + (e - 1)] = c[p + e] /\ T(x + (e - 1))
        BY <1>12, <1>13, <4>1, <4>7
      <4> QED BY <4>6, <4>7, <4>8, <4>9
    <3> QED BY <1>10, <1>18, <3>1, <3>2
  <2> QED BY <2>2, <2>3
<1> QED BY <1>21, <1>22

\* The height that is left.
LEMMA HeightLeft ==
    ASSUME NEW h \in Nat \ {0}, NEW B \in SUBSET (1 .. h)
    PROVE  LET g == Max({1} \cup B) IN
           /\ g \in 1 .. h
           /\ \A i \in B : i <= g
           /\ g > 1 => g \in B
<1> DEFINE T == {1} \cup B
<1>1. T \in SUBSET (0 .. h) /\ 1 \in T /\ T \in SUBSET Int /\ T \in SUBSET (1 .. h)
  OBVIOUS
<1> HIDE DEF T
<1>2. PICK g \in T : \A i \in T : i <= g
  BY <1>1, Greatest
<1>3. Max(T) = g
  BY <1>1, <1>2, MaxIs
<1>4. g \in 1 .. h
  BY <1>1
<1>5. \A i \in B : i <= g
  BY <1>2 DEF T
<1>6. g > 1 => g \in B
  BY DEF T
<1> QED BY <1>3, <1>4, <1>5, <1>6 DEF T

LEMMA UnlinkedTyped ==
    ASSUME NEW s, NEW c, Shape(s, c), NEW k \in 0 .. Len(c) - 1
    PROVE  LET t == Unlinked(s, c[k + 1], [j \in 1 .. s.level |-> StopAt(s, c, k, j)])
               d == Without(c, k + 1) IN
           /\ Typed(t, d)
           /\ t.level \in 1 .. s.level
           /\ \A i \in 1 .. s.level : t.node[Header].levels[i].forward # Nil => i <= t.level
           /\ t.level > 1 => t.node[Header].levels[t.level].forward # Nil
           /\ \A b \in DOMAIN t.node : t.node[b].member = s.node[b].member /\ t.node[b].score = s.node[b].score
<1> DEFINE y == k + 1
           x == c[y]
           t == Unlinked(s, c[k + 1], [j \in 1 .. s.level |-> StopAt(s, c, k, j)])
           d == Without(c, k + 1)
           n == Len(c)
           u(i) == LastOn(s, c, k, i)
           gone(i) == IF On(s, c, i, y) THEN s.node[x].levels[i] ELSE Nil
           next == IF k + 1 = Len(c) THEN Nil ELSE c[k + 2]
<1>0. Typed(s, c) /\ Linked(s, c) /\ AsUnlinked(s, c, k)
  BY UnlinkedIs DEF Shape
<1>1. n \in Nat /\ k \in Nat /\ y \in 1 .. n /\ y \in 0 .. n /\ MaxLevel \in Nat /\ s.level \in 1 .. MaxLevel
      /\ s.level \in Nat \ {0} /\ s.length = n /\ k \in 0 .. n
  <2>1. n \in Nat /\ MaxLevel \in Nat
    BY <1>0, NodeTyped
  <2>2. s.level \in 1 .. MaxLevel /\ s.length = n
    BY <1>0 DEF Typed
  <2> QED BY <2>1, <2>2
<1>2. AsWithout(s, c, y)
  <2> HIDE DEF y
  <2> QED BY <1>0, <1>1, WithoutChain
<1>3. t.level = Max({1} \cup {i \in 1 .. s.level : t.node[Header].levels[i].forward # Nil})
      /\ t.length = s.length - 1 /\ DOMAIN t.node = DOMAIN s.node \ {x}
      /\ \E f : t.node = [b \in DOMAIN s.node \ {x} |-> f[b]]
  BY <1>0 DEF AsUnlinked
<1>4. /\ t.level \in 1 .. s.level
      /\ \A i \in 1 .. s.level : t.node[Header].levels[i].forward # Nil => i <= t.level
      /\ t.level > 1 => t.node[Header].levels[t.level].forward # Nil
  <2> DEFINE B == {i \in 1 .. s.level : t.node[Header].levels[i].forward # Nil}
             g == Max({1} \cup B)
  <2>1. t.level = g
    BY <1>3
  <2>3. B \in SUBSET (1 .. s.level)
    OBVIOUS
  <2> HIDE DEF B, t
  <2>2. g \in 1 .. s.level /\ (\A i \in B : i <= g) /\ (g > 1 => g \in B)
    BY <1>1, <2>3, HeightLeft
  <2> HIDE DEF g
  <2> QED BY <2>1, <2>2 DEF B
<1>5. ASSUME NEW p \in 0 .. n \ {y}
      PROVE  t.node[At(c, p)] =
           [s.node[At(c, p)] EXCEPT
              !.backward = IF At(c, p) = next THEN s.node[x].backward ELSE @,
              !.levels = [i \in DOMAIN @ |->
                 IF i \notin 1 .. s.level \/ u(i) # p THEN @[i]
                 ELSE Past(@[i], x, gone(i))]]
  BY <1>0 DEF AsUnlinked
<1>6. /\ d \in Seq(Address) /\ Len(d) = n - 1
      /\ \A p, q \in 1 .. Len(d) : d[p] = d[q] => p = q
      /\ \A b : b \in DOMAIN s.node \ {x} <=> b = Header \/ \E p \in 1 .. Len(d) : b = d[p]
  BY <1>2 DEF AsWithout
<1>7. \A i \in 1 .. s.level : u(i) \in 0 .. k /\ On(s, c, i, u(i))
  <2> SUFFICES ASSUME NEW i \in 1 .. s.level PROVE u(i) \in 0 .. k /\ On(s, c, i, u(i))
    OBVIOUS
  <2>1. i \in 1 .. MaxLevel
    BY <1>1
  <2> QED BY <1>0, <1>1, <2>1, LastOnLevel DEF Latest
<1>8. s.node[x] \in Node /\ At(c, y) = x
  <2>1. At(c, y) = x
    BY <1>0, <1>1, NodeTyped
  <2> QED BY <1>0, <1>1, <2>1, NodeTyped
\* A link that comes to the node is on one of its levels.
<1>9. ASSUME NEW p \in 0 .. n, NEW i \in 1 .. s.level, On(s, c, i, p), s.node[At(c, p)].levels[i].forward = x
      PROVE  gone(i) \in LinkRec
  <2> DEFINE l == s.node[At(c, p)].levels[i]
  <2>1. Hop(s, c, i, p)
    BY <1>0, <1>9 DEF Linked
  <2>2. l.forward # Nil
    <3>1. x \in Address /\ Nil \notin Address
      BY <1>0, <1>1, NodeTyped
    <3> QED BY <1>9, <3>1
  <2>3. l.span \in 1 .. n - p /\ l.forward = c[p + l.span] /\ On(s, c, i, p + l.span)
    BY <2>1, <2>2 DEF Hop
  <2>4. p + l.span = y
    <3>1. p + l.span \in 1 .. n
      <4>1. n \in Nat
        BY <1>1
      <4>2. l.span \in 1 .. n - p
        BY <2>3
      <4> HIDE DEF l, n
      <4> QED BY <4>1, <4>2
    <3>2. c[p + l.span] = c[y]
      BY <1>9, <2>3
    <3> HIDE DEF l, y
    <3> QED BY <1>0, <1>1, <3>1, <3>2 DEF Typed
  <2>5. On(s, c, i, y)
    BY <2>3, <2>4
  <2>6. s.node[At(c, y)].levels[i] \in LinkRec
    BY <1>0, <1>1, <2>5, OnBelow
  <2> QED BY <1>8, <2>5, <2>6
<1> HIDE DEF t, d, u, next, gone
<1>10. ASSUME NEW p \in 0 .. n \ {y}
       PROVE LET b == At(c, p) IN
             /\ t.node[b] \in Node /\ t.node[b].member = s.node[b].member /\ t.node[b].score = s.node[b].score
             /\ DOMAIN t.node[b].levels = DOMAIN s.node[b].levels
  <2> DEFINE b == At(c, p)
             K == s.node[b].levels
             L == [i \in DOMAIN K |->
                     IF i \notin 1 .. s.level \/ u(i) # p THEN K[i] ELSE Past(K[i], x, gone(i))]
  <2>0. p \in 0 .. n
    OBVIOUS
  <2>1. s.node[b] \in Node
    BY <1>0, <2>0, NodeTyped
  <2>2. PICK h \in 1 .. MaxLevel : K \in [1 .. h -> LinkRec]
    BY <2>1 DEF Node
  <2>3. ASSUME NEW i \in 1 .. h, i \in 1 .. s.level PROVE Past(K[i], x, gone(i)) \in LinkRec
    <3>1. K[i] \in LinkRec /\ On(s, c, i, p)
      BY <2>2 DEF On
    <3>2. K[i].forward \in Address \cup {Nil} /\ K[i].span \in Int
      BY <3>1 DEF LinkRec
    <3>3. CASE K[i].forward = x
      <4>1. gone(i) \in LinkRec
        BY <1>9, <2>0, <2>3, <3>1, <3>3
      <4>2. gone(i).forward \in Address \cup {Nil} /\ gone(i).span \in Int
        BY <4>1 DEF LinkRec
      <4> HIDE DEF K
      <4>3. K[i].span + gone(i).span - 1 \in Int
        BY <3>2, <4>2
      <4> QED BY <3>3, <4>2, <4>3 DEF Past, LinkRec
    <3>4. CASE K[i].forward # x
      <4> HIDE DEF K
      <4>1. K[i].span - 1 \in Int
        BY <3>2
      <4> QED BY <3>2, <3>4, <4>1 DEF Past, LinkRec
    <3> QED BY <3>3, <3>4
  <2> HIDE DEF b, K
  <2>4. L \in [1 .. h -> LinkRec] /\ DOMAIN L = DOMAIN K
    <3>1. DOMAIN K = 1 .. h
      BY <2>2
    <3>2. \A i \in 1 .. h : L[i] \in LinkRec
      <4> SUFFICES ASSUME NEW i \in 1 .. h PROVE L[i] \in LinkRec
        OBVIOUS
      <4>1. L[i] = IF i \notin 1 .. s.level \/ u(i) # p THEN K[i] ELSE Past(K[i], x, gone(i))
        BY <3>1
      <4>2. K[i] \in LinkRec
        BY <2>2
      <4> HIDE DEF L
      <4> QED BY <2>3, <4>1, <4>2
    <3>3. L = [i \in 1 .. h |-> L[i]]
      BY <3>1
    <3> HIDE DEF L
    <3>4. L \in [1 .. h -> LinkRec]
      BY <3>2, <3>3
    <3> QED BY <3>1, <3>4
  <2>5. t.node[b] = [s.node[b] EXCEPT !.backward = IF b = next THEN s.node[x].backward ELSE @, !.levels = L]
    BY <1>5 DEF b, K
  <2>6. L \in UNION {[1 .. z -> LinkRec] : z \in 1 .. MaxLevel}
    BY <2>4
  <2> HIDE DEF L
  <2>7. (IF b = next THEN s.node[x].backward ELSE s.node[b].backward) \in Address \cup {Nil}
    BY <1>8, <2>1 DEF Node
  <2>8. /\ t.node[b].member = s.node[b].member /\ t.node[b].score = s.node[b].score
        /\ t.node[b].levels = L
    BY <2>1, <2>5 DEF Node
  <2>9. t.node[b] \in Node
    BY <2>1, <2>5, <2>6, <2>7 DEF Node
  <2> QED BY <2>4, <2>8, <2>9 DEF b, K
<1>11. \A b \in DOMAIN t.node : /\ t.node[b] \in Node /\ t.node[b].member = s.node[b].member
                                /\ t.node[b].score = s.node[b].score
                                /\ DOMAIN t.node[b].levels = DOMAIN s.node[b].levels
  <2> SUFFICES ASSUME NEW b \in DOMAIN t.node
               PROVE /\ t.node[b] \in Node /\ t.node[b].member = s.node[b].member
                     /\ t.node[b].score = s.node[b].score
                     /\ DOMAIN t.node[b].levels = DOMAIN s.node[b].levels
    OBVIOUS
  <2>1. b \in DOMAIN s.node /\ b # x
    BY <1>3
  <2>2. PICK p \in 0 .. n : b = At(c, p)
    BY <1>0, <2>1, NodeTyped
  <2>3. p \in 0 .. n \ {y}
    BY <1>8, <2>1, <2>2
  <2> QED BY <1>10, <2>2, <2>3
<1>12. Typed(t, d)
  <2>1. t.node \in [{Header} \cup {d[p] : p \in 1 .. Len(d)} -> Node]
    <3>1. {Header} \cup {d[p] : p \in 1 .. Len(d)} = DOMAIN s.node \ {x}
      <4>1. \A b : b \in DOMAIN s.node \ {x} <=> b = Header \/ \E p \in 1 .. Len(d) : b = d[p]
        BY <1>6
      <4> HIDE DEF x
      <4> QED BY <4>1
    <3>2. \A b \in DOMAIN t.node : t.node[b] \in Node
      BY <1>11
    <3>3. t.node = [b \in DOMAIN t.node |-> t.node[b]]
      BY <1>3
    <3> QED BY <1>3, <3>1, <3>2, <3>3
  <2>2. DOMAIN t.node[Header].levels = 1 .. MaxLevel
    <3>1. DOMAIN s.node[Header].levels = 1 .. MaxLevel
      BY <1>0 DEF Typed
    <3>2. Header \in DOMAIN t.node
      BY <1>3, <1>6
    <3> QED BY <1>11, <3>1, <3>2
  <2>3. t.level \in 1 .. MaxLevel /\ t.length = Len(d)
    <3>1. t.level \in 1 .. s.level /\ t.length = n - 1 /\ Len(d) = n - 1
      BY <1>1, <1>3, <1>4, <1>6
    <3>2. \A i \in 1 .. s.level : i \in 1 .. MaxLevel
      BY <1>1
    <3> QED BY <3>1, <3>2
  <2> QED BY <1>6, <2>1, <2>2, <2>3 DEF Typed
<1> QED BY <1>4, <1>11, <1>12 DEF t, d

LEMMA UnlinkedShape ==
    ASSUME NEW s, NEW c, Shape(s, c), NEW k \in 0 .. Len(c) - 1
    PROVE  Shape(Unlinked(s, c[k + 1], [j \in 1 .. s.level |-> StopAt(s, c, k, j)]), Without(c, k + 1))
<1> DEFINE y == k + 1
           x == c[y]
           t == Unlinked(s, c[k + 1], [j \in 1 .. s.level |-> StopAt(s, c, k, j)])
           d == Without(c, k + 1)
           n == Len(c)
           next == IF k + 1 = Len(c) THEN Nil ELSE c[k + 2]
<1>0. Typed(s, c) /\ Levelled(s, c) /\ Backward(s, c) /\ Ordered(s, c)
      /\ AsUnlinked(s, c, k) /\ AsRelinked(s, c, k)
  BY UnlinkedIs, UnlinkedLinks DEF Shape
<1>1. n \in Nat /\ k \in Nat /\ y \in 1 .. n /\ y \in Nat /\ MaxLevel \in Nat /\ s.level \in 1 .. MaxLevel
  <2>1. n \in Nat /\ MaxLevel \in Nat
    BY <1>0, NodeTyped
  <2>2. s.level \in 1 .. MaxLevel
    BY <1>0 DEF Typed
  <2> QED BY <2>1, <2>2
<1>2. AsWithout(s, c, y)
  <2> HIDE DEF y
  <2> QED BY <1>0, <1>1, WithoutChain
<1>3. /\ Typed(t, d)
      /\ t.level \in 1 .. s.level
      /\ \A i \in 1 .. s.level : t.node[Header].levels[i].forward # Nil => i <= t.level
      /\ t.level > 1 => t.node[Header].levels[t.level].forward # Nil
      /\ \A b \in DOMAIN t.node : t.node[b].member = s.node[b].member /\ t.node[b].score = s.node[b].score
  BY UnlinkedTyped
<1>4. \A i \in 1 .. s.level : \A p \in 0 .. Len(d) : On(t, d, i, p) => Hop(t, d, i, p)
  BY UnlinkedHops
<1>5. /\ Len(d) = n - 1
      /\ \A p \in 1 .. k : d[p] = c[p]
      /\ \A p \in k + 1 .. n - 1 : d[p] = c[p + 1]
  <2>1. Len(d) = n - 1
    BY <1>2 DEF AsWithout
  <2>2. \A p \in 1 .. k : p \in 1 .. n - 1 /\ p < y
    BY <1>1
  <2>3. \A p \in k + 1 .. n - 1 : p \in 1 .. n - 1 /\ ~(p < y)
    BY <1>1
  <2> HIDE DEF y
  <2> QED BY <2>1, <2>2, <2>3 DEF Without, y
<1>6. /\ \A p \in 0 .. n \ {y} : \A i : On(t, d, i, Closed(y, p)) <=> On(s, c, i, p)
      /\ \A p \in 0 .. n \ {y} : \A i : On(s, c, i, p) /\ i \notin 1 .. s.level =>
           t.node[At(d, Closed(y, p))].levels[i] = s.node[At(c, p)].levels[i]
      /\ \A p \in 0 .. Len(d) : \E q \in 0 .. n \ {y} : p = Closed(y, q)
  BY <1>0, <1>2 DEF AsRelinked, AsWithout
<1>7. ASSUME NEW p \in 1 .. n, p # y
      PROVE  /\ t.node[c[p]].backward = IF c[p] = next THEN s.node[x].backward ELSE s.node[c[p]].backward
             /\ c[p] \in DOMAIN t.node
  <2>0. p \in 0 .. n \ {y} /\ p \in 0 .. n
    BY <1>7
  <2>1. At(c, p) = c[p] /\ At(c, y) = x /\ y \in 0 .. n
    BY <1>0, <1>1, NodeTyped
  <2>2. s.node[c[p]] \in Node /\ c[p] \in DOMAIN s.node /\ c[p] # x
    BY <1>0, <1>7, <2>0, <2>1, NodeTyped
  <2>3. t.node[At(c, p)] =
           [s.node[At(c, p)] EXCEPT
              !.backward = IF At(c, p) = next THEN s.node[x].backward ELSE @,
              !.levels = [i \in DOMAIN @ |->
                 IF i \notin 1 .. s.level \/ LastOn(s, c, k, i) # p THEN @[i]
                 ELSE Past(@[i], x, IF On(s, c, i, k + 1) THEN s.node[x].levels[i] ELSE Nil)]]
    BY <1>0, <2>0 DEF AsUnlinked
  <2>4. c[p] \in DOMAIN t.node
    BY <1>0, <2>2 DEF AsUnlinked
  <2> HIDE DEF t, x, next
  <2> QED BY <2>1, <2>2, <2>3, <2>4 DEF Node
<1>8. t.tail = IF next = Nil THEN s.node[x].backward ELSE s.tail
  BY <1>0 DEF AsUnlinked
<1>9. Nil \notin Address /\ Header \notin Address /\ (\A p \in 1 .. n : c[p] \in Address)
      /\ \A p, q \in 1 .. n : c[p] = c[q] => p = q
  <2>1. \A p, q \in 1 .. n : c[p] = c[q] => p = q
    BY <1>0 DEF Typed
  <2> QED BY <1>0, <2>1, NodeTyped
<1> HIDE DEF t, d
<1>10. Linked(t, d)
  <2>1. \A i \in 1 .. t.level : i \in 1 .. s.level
    BY <1>1, <1>3
  <2> QED BY <1>4, <2>1 DEF Linked
<1>11. \A i \in 1 .. MaxLevel : On(t, d, i, 0) /\ On(s, c, i, 0)
  <2>1. 0 \in 0 .. n /\ 0 \in 0 .. Len(d)
    BY <1>1, <1>5
  <2> QED BY <1>0, <1>3, <2>1, OnBelow
<1>12. Levelled(t, d)
  <2>1. ASSUME NEW p \in 1 .. Len(d), NEW i \in DOMAIN t.node[d[p]].levels PROVE i <= t.level
    <3>1. On(t, d, i, p) /\ p \in 0 .. Len(d) /\ p # 0
      BY <1>1, <1>5 DEF On, At
    <3>2. PICK q \in 0 .. n \ {y} : p = Closed(y, q)
      BY <1>6, <3>1
    <3>3. On(s, c, i, q) /\ q \in 0 .. n
      BY <1>6, <3>1, <3>2
    <3>4. q \in 1 .. n
      BY <1>1, <3>1, <3>2, <3>3 DEF Closed
    <3>5. i \in 1 .. MaxLevel
      BY <1>0, <3>3, OnBelow
    <3>6. i <= s.level
      <4>1. At(c, q) = c[q]
        BY <1>0, <3>4, NodeTyped
      <4> QED BY <1>0, <3>3, <3>4, <4>1 DEF Levelled, On
    <3>7. i \in 1 .. s.level /\ 0 \in 0 .. Len(d)
      BY <1>1, <1>5, <3>5, <3>6
    <3>8. Hop(t, d, i, 0)
      BY <1>4, <1>11, <3>5, <3>7
    <3>9. t.node[At(d, 0)].levels[i].forward # Nil
      <4>1. p \in 0 + 1 .. Len(d)
        BY <1>1, <1>5
      <4>2. ~ \A r \in 0 + 1 .. Len(d) : ~On(t, d, i, r)
        BY <3>1, <4>1
      <4>3. /\ t.node[At(d, 0)].levels[i].span \in 1 .. Len(d) - 0
            /\ t.node[At(d, 0)].levels[i].forward = d[0 + t.node[At(d, 0)].levels[i].span]
        BY <3>8, <4>2 DEF Hop
      <4> DEFINE e == t.node[At(d, 0)].levels[i].span
      <4>5. e \in 1 .. Len(d) - 0 /\ t.node[At(d, 0)].levels[i].forward = d[0 + e]
        BY <4>3
      <4> HIDE DEF e
      <4>4. d[0 + e] \in Address
        <5>1. 0 + e \in 1 .. Len(d)
          BY <1>1, <1>5, <4>5
        <5> QED BY <1>3, <5>1, NodeTyped
      <4> QED BY <1>9, <4>4, <4>5
    <3> QED BY <1>3, <3>7, <3>9 DEF At
  <2>2. ASSUME NEW i \in 1 .. MaxLevel, i > t.level PROVE t.node[Header].levels[i].forward = Nil
    <3>1. CASE i \in 1 .. s.level
      <4>1. ~(i <= t.level)
        BY <1>1, <1>3, <2>2
      <4> QED BY <1>3, <3>1, <4>1
    <3>2. CASE i \notin 1 .. s.level
      <4>1. 0 \in 0 .. n \ {y} /\ Closed(y, 0) = 0 /\ At(c, 0) = Header /\ At(d, 0) = Header
        BY <1>1 DEF Closed, At
      <4>2. t.node[At(d, Closed(y, 0))].levels[i] = s.node[At(c, 0)].levels[i]
        BY <1>6, <1>11, <3>2, <4>1
      <4>3. i > s.level
        BY <1>1, <3>2
      <4>4. s.node[Header].levels[i].forward = Nil
        BY <1>0, <4>3 DEF Levelled
      <4> QED BY <4>1, <4>2, <4>4
    <3> QED BY <3>1, <3>2
  <2>3. ASSUME t.level > 1 PROVE \E p \in 1 .. Len(d) : On(t, d, t.level, p)
    <3>1. t.level \in 1 .. MaxLevel /\ 0 \in 0 .. Len(d) /\ At(d, 0) = Header
      BY <1>1, <1>3, <1>5 DEF At
    <3>2. Hop(t, d, t.level, 0)
      BY <1>3, <1>4, <1>11, <3>1
    <3>3. t.node[At(d, 0)].levels[t.level].forward # Nil
      BY <1>3, <2>3, <3>1
    <3> DEFINE e == t.node[At(d, 0)].levels[t.level].span
    <3>4. e \in 1 .. Len(d) - 0 /\ On(t, d, t.level, 0 + e)
      BY <3>2, <3>3 DEF Hop
    <3> HIDE DEF e
    <3>5. 0 + e \in 1 .. Len(d)
      BY <1>1, <1>5, <3>4
    <3> QED BY <3>4, <3>5
  <2> QED BY <2>1, <2>2, <2>3 DEF Levelled
<1> HIDE DEF n
<1>13. Backward(t, d)
  <2>1. /\ \A p \in 1 .. n : s.node[c[p]].backward = IF p = 1 THEN Nil ELSE c[p - 1]
        /\ s.tail = c[n] /\ s.node[x].backward = IF k = 0 THEN Nil ELSE c[k]
    <3>1. c # << >>
      <4>1. c \in Seq(Address) /\ n # 0
        BY <1>0, <1>1 DEF Typed
      <4> QED BY <4>1 DEF n
    <3>2. \A p \in 1 .. n : s.node[c[p]].backward = IF p = 1 THEN Nil ELSE c[p - 1]
      BY <1>0 DEF Backward, n
    <3>3. s.node[c[y]].backward = IF y = 1 THEN Nil ELSE c[y - 1]
      <4> HIDE DEF y
      <4> QED BY <1>1, <3>2
    <3>4. (y = 1 <=> k = 0) /\ y - 1 = k
      BY <1>1
    <3> QED BY <1>0, <3>1, <3>2, <3>3, <3>4 DEF Backward, n
  <2>2. ASSUME NEW p \in 1 .. n - 1
        PROVE  t.node[d[p]].backward = IF p = 1 THEN Nil ELSE d[p - 1]
    <3>0. next = IF k + 1 = n THEN Nil ELSE c[k + 2]
      BY DEF n
    <3>1. CASE p <= k
      <4>1. p \in 1 .. k /\ p \in 1 .. n /\ p # y /\ (p # 1 => p - 1 \in 1 .. k) /\ p # k + 2
        BY <1>1, <3>1
      <4>2. c[p] # next
        <5>1. k + 1 = n \/ k + 2 \in 1 .. n
          BY <1>1
        <5>2. k + 2 \in 1 .. n => c[p] # c[k + 2]
          BY <1>9, <4>1
        <5>3. c[p] # Nil
          BY <1>9, <4>1
        <5> QED BY <3>0, <5>1, <5>2, <5>3
      <4>3. d[p] = c[p] /\ (p # 1 => d[p - 1] = c[p - 1])
        BY <1>5, <4>1
      <4>4. t.node[c[p]].backward = s.node[c[p]].backward
        BY <1>7, <4>1, <4>2
      <4> QED BY <2>1, <4>1, <4>3, <4>4
    <3>2. CASE p = k + 1
      <4>1. p \in k + 1 .. n - 1 /\ k + 1 # n /\ k + 2 \in 1 .. n /\ k + 2 # y /\ p + 1 = k + 2
            /\ (p = 1 <=> k = 0) /\ p - 1 = k /\ (k # 0 => k \in 1 .. k)
        BY <1>1, <3>2
      <4>2. d[p] = c[k + 2] /\ next = c[k + 2] /\ (k # 0 => d[k] = c[k])
        BY <1>5, <3>0, <4>1
      <4>3. t.node[c[k + 2]].backward = s.node[x].backward
        BY <1>7, <4>1, <4>2
      <4> QED BY <2>1, <4>1, <4>2, <4>3
    <3>3. CASE p > k + 1
      <4>1. p \in k + 1 .. n - 1 /\ p - 1 \in k + 1 .. n - 1 /\ p + 1 \in 1 .. n /\ p + 1 # y /\ p # 1
            /\ p + 1 # 1 /\ (p + 1) - 1 = p /\ (p - 1) + 1 = p /\ p + 1 # k + 2
        BY <1>1, <3>3
      <4>2. c[p + 1] # next
        <5>1. k + 1 = n \/ k + 2 \in 1 .. n
          BY <1>1
        <5>2. k + 2 \in 1 .. n => c[p + 1] # c[k + 2]
          BY <1>9, <4>1
        <5>3. c[p + 1] # Nil
          BY <1>9, <4>1
        <5> QED BY <3>0, <5>1, <5>2, <5>3
      <4>3. d[p] = c[p + 1] /\ d[p - 1] = c[p]
        BY <1>5, <4>1
      <4>4. t.node[c[p + 1]].backward = s.node[c[p + 1]].backward
        BY <1>7, <4>1, <4>2
      <4>5. s.node[c[p + 1]].backward = c[p]
        BY <2>1, <4>1
      <4> QED BY <4>1, <4>3, <4>4, <4>5
    <3> QED BY <1>1, <3>1, <3>2, <3>3
  <2>3. t.tail = IF d = << >> THEN Nil ELSE d[Len(d)]
    <3>0. d \in Seq(Address)
      BY <1>3 DEF Typed
    <3>1. d = << >> <=> n = 1
      <4>1. d = << >> <=> Len(d) = 0
        BY <3>0
      <4> QED BY <1>1, <1>5, <4>1
    <3>2. CASE k + 1 = n
      <4>1. next = Nil
        BY <3>2 DEF n
      <4>2. (n = 1 <=> k = 0) /\ n - 1 = k /\ (k # 0 => k \in 1 .. k)
        BY <1>1, <3>2
      <4>3. k # 0 => d[k] = c[k]
        BY <1>5, <4>2
      <4> QED BY <1>5, <1>8, <2>1, <3>1, <4>1, <4>2, <4>3
    <3>3. CASE k + 1 # n
      <4>1. k + 2 \in 1 .. n /\ n # 1 /\ n - 1 \in k + 1 .. n - 1 /\ (n - 1) + 1 = n
        BY <1>1, <3>3
      <4>2. next # Nil
        <5>1. next = c[k + 2]
          BY <3>3 DEF n
        <5> QED BY <1>9, <4>1, <5>1
      <4>3. d[n - 1] = c[n]
        BY <1>5, <4>1
      <4> QED BY <1>5, <1>8, <2>1, <3>1, <4>1, <4>2, <4>3
    <3> QED BY <3>2, <3>3
  <2> QED BY <1>5, <2>2, <2>3 DEF Backward
<1>14. Ordered(t, d)
  <2> SUFFICES ASSUME NEW p \in 1 .. n - 1, NEW q \in 1 .. n - 1, p < q
               PROVE  Precedes(t.node[d[p]], t.node[d[q]].score, t.node[d[q]].member)
    BY <1>5 DEF Ordered
  <2> DEFINE o(r) == IF r <= k THEN r ELSE r + 1
  <2>1. \A r \in 1 .. n - 1 : o(r) \in 1 .. n /\ o(r) # y /\ d[r] = c[o(r)]
    <3> SUFFICES ASSUME NEW r \in 1 .. n - 1 PROVE o(r) \in 1 .. n /\ o(r) # y /\ d[r] = c[o(r)]
      OBVIOUS
    <3>1. CASE r <= k
      <4>1. r \in 1 .. k /\ r \in 1 .. n /\ r # y
        BY <1>1, <3>1
      <4> QED BY <1>5, <3>1, <4>1
    <3>2. CASE ~(r <= k)
      <4>1. r \in k + 1 .. n - 1 /\ r + 1 \in 1 .. n /\ r + 1 # y
        BY <1>1, <3>2
      <4> QED BY <1>5, <3>2, <4>1
    <3> QED BY <3>1, <3>2
  <2>2. o(p) < o(q)
    BY <1>1
  <2> HIDE DEF o
  <2>3. \A r \in 1 .. n - 1 : /\ t.node[d[r]].score = s.node[c[o(r)]].score
                              /\ t.node[d[r]].member = s.node[c[o(r)]].member
    BY <1>3, <1>7, <2>1
  <2>4. Before(s, c[o(p)], c[o(q)])
    BY <1>0, <2>1, <2>2 DEF Ordered, Before, n
  <2>5. o(p) \in 1 .. Len(c) /\ o(q) \in 1 .. Len(c)
    BY <2>1 DEF n
  <2>6. \/ s.node[c[o(p)]].score < s.node[c[o(q)]].score
        \/ /\ s.node[c[o(p)]].score = s.node[c[o(q)]].score
           /\ s.node[c[o(p)]].member < s.node[c[o(q)]].member
    BY <1>0, <2>4, <2>5, BeforeNumbers
  <2>7. Before(t, d[p], d[q])
    <3>1. p \in 1 .. Len(d) /\ q \in 1 .. Len(d)
      BY <1>5
    <3> QED BY <1>3, <2>3, <2>6, <3>1, BeforeNumbers
  <2> QED BY <2>7 DEF Before
<1> QED BY <1>3, <1>10, <1>12, <1>13, <1>14 DEF Shape, t, d

-----------------------------------------------------------------------------
(* The map.  ms has the pairs of the list.                                  *)

Agree(s, c, ms) ==
    /\ DOMAIN ms \subseteq Member
    /\ \A p \in 1 .. Len(c) : /\ s.node[c[p]].member \in DOMAIN ms
                              /\ ms[s.node[c[p]].member] = s.node[c[p]].score
    /\ \A m \in DOMAIN ms : \E p \in 1 .. Len(c) : s.node[c[p]].member = m

LEMMA OncePerMember ==
    ASSUME NEW s, NEW c, Shape(s, c), NEW ms, Agree(s, c, ms),
           NEW p \in 1 .. Len(c), NEW q \in 1 .. Len(c), s.node[c[p]].member = s.node[c[q]].member
    PROVE  p = q
<1>1. Typed(s, c) /\ Ordered(s, c) /\ Len(c) \in Nat
  <2>1. Typed(s, c) /\ Ordered(s, c)
    BY DEF Shape
  <2> QED BY <2>1, NodeTyped
<1>2. s.node[c[p]].score = s.node[c[q]].score
  BY DEF Agree
<1>3. ~Before(s, c[p], c[q]) /\ ~Before(s, c[q], c[p])
  <2>1. s.node[c[p]].score \in Int /\ s.node[c[p]].member \in Nat
    BY <1>1, BeforeNumbers
  <2> QED BY <1>1, <1>2, <2>1, BeforeNumbers
<1>4. ~(p < q) /\ ~(q < p)
  BY <1>1, <1>3 DEF Ordered, Before
<1> QED BY <1>1, <1>4

LEMMA DeletedShape ==
    ASSUME NEW s, NEW c, Shape(s, c), NEW ms, Agree(s, c, ms), NEW m \in DOMAIN ms
    PROVE  \E d : /\ Shape(Deleted(s, ms[m], m), d)
                  /\ Agree(Deleted(s, ms[m], m), d, [x \in DOMAIN ms \ {m} |-> ms[x]])
<1>1. PICK y \in 1 .. Len(c) : s.node[c[y]].member = m
  BY DEF Agree
<1>2. ms[m] = s.node[c[y]].score
  BY <1>1 DEF Agree
<1>3. Typed(s, c) /\ Linked(s, c) /\ Ordered(s, c)
  BY DEF Shape
<1> DEFINE k == y - 1
           A == {a \in DOMAIN s.node : Precedes(s.node[a], ms[m], m)}
           path == [i \in 1 .. s.level |-> StopAt(s, c, k, i)]
           d == Without(c, y)
           t == Unlinked(s, c[y], path)
           n == Len(c)
<1>4. n \in Nat /\ y \in Nat /\ k \in 0 .. n /\ k \in 0 .. n - 1 /\ k + 1 = y /\ k # n
      /\ s.level \in 1 .. MaxLevel /\ MaxLevel \in Nat
  <2>1. n \in Nat /\ MaxLevel \in Nat
    BY <1>3, NodeTyped
  <2>2. s.level \in 1 .. MaxLevel
    BY <1>3 DEF Typed
  <2> QED BY <2>1, <2>2
<1>5. Leading(s, c, k, A)
  BY <1>1, <1>2, <1>3, LeadingHere
<1>6. PathTo(s, ms[m], m) = path
  <2> HIDE DEF k
  <2> QED BY <1>3, <1>4, <1>5, PathStops DEF PathTo
<1>7. path[1].at = At(c, k)
  <2>1. 1 \in 1 .. s.level /\ 1 \in 1 .. MaxLevel
    BY <1>4
  <2>2. LastOn(s, c, k, 1) = k
    <3> HIDE DEF k
    <3> QED BY <1>3, <1>4, <2>1, LastOnLevel
  <2> QED BY <2>1, <2>2 DEF StopAt
<1>8. Next0(s, path[1].at) = c[y]
  <2> HIDE DEF path, k
  <2> QED BY <1>3, <1>4, <1>7, FirstLink
<1>9. c[y] # Nil /\ Same(s.node[c[y]].score, ms[m]) /\ s.node[c[y]].member = m
  <2>1. c[y] \in Address /\ Nil \notin Address
    BY <1>3, NodeTyped
  <2>2. s.node[c[y]].score \in Int
    BY <1>3, BeforeNumbers
  <2> QED BY <1>1, <1>2, <2>1, <2>2, ScoreAssumption DEF Same
<1>10. Deleted(s, ms[m], m) = t
  <2> HIDE DEF path, t
  <2> QED BY <1>6, <1>8, <1>9 DEF Deleted, t
<1>11. Shape(t, d)
  <2> HIDE DEF k
  <2> QED BY <1>4, UnlinkedShape
<1>12. \A b \in DOMAIN t.node : t.node[b].member = s.node[b].member /\ t.node[b].score = s.node[b].score
  <2> DEFINE r == Unlinked(s, c[k + 1], [j \in 1 .. s.level |-> StopAt(s, c, k, j)])
  <2>1. t = r
    BY <1>4
  <2> HIDE DEF k, t
  <2>2. k \in 0 .. Len(c) - 1
    BY <1>4
  <2>3. \A b \in DOMAIN r.node : r.node[b].member = s.node[b].member /\ r.node[b].score = s.node[b].score
    BY <2>2, UnlinkedTyped
  <2> HIDE DEF r
  <2> QED BY <2>1, <2>3
<1>13. Len(d) = n - 1 /\ (\A p \in 0 .. n \ {y} : Closed(y, p) \in 0 .. n - 1 /\ At(d, Closed(y, p)) = At(c, p))
       /\ (\A p \in 0 .. n - 1 : \E q \in 0 .. n \ {y} : p = Closed(y, q))
  <2>1. AsWithout(s, c, y)
    BY <1>3, WithoutChain
  <2> QED BY <2>1 DEF AsWithout
<1> HIDE DEF t, d, k, path
<1>14. \A q \in 1 .. n : q # y =>
          \E p \in 1 .. n - 1 : d[p] = c[q]
  <2> SUFFICES ASSUME NEW q \in 1 .. n, q # y PROVE \E p \in 1 .. n - 1 : d[p] = c[q]
    OBVIOUS
  <2>1. q \in 0 .. n \ {y} /\ Closed(y, q) \in 1 .. n - 1
    BY <1>4 DEF Closed
  <2>2. At(d, Closed(y, q)) = d[Closed(y, q)] /\ At(c, q) = c[q]
    BY <2>1 DEF At
  <2> QED BY <1>13, <2>1, <2>2
<1>15. \A p \in 1 .. n - 1 : \E q \in 1 .. n : q # y /\ d[p] = c[q]
  <2> SUFFICES ASSUME NEW p \in 1 .. n - 1 PROVE \E q \in 1 .. n : q # y /\ d[p] = c[q]
    OBVIOUS
  <2>1. p \in 0 .. n - 1
    BY <1>4
  <2>2. PICK q \in 0 .. n \ {y} : p = Closed(y, q)
    BY <1>13, <2>1
  <2>3. q \in 1 .. n /\ q # y
    BY <1>4, <2>2 DEF Closed
  <2>4. At(d, p) = d[p] /\ At(c, q) = c[q]
    BY <2>3 DEF At
  <2> QED BY <1>13, <2>2, <2>3, <2>4
<1>16. \A p \in 1 .. n - 1 : d[p] \in DOMAIN t.node
  <2>1. Typed(t, d)
    BY <1>11 DEF Shape
  <2> QED BY <1>13, <2>1 DEF Typed
<1>17. \A q \in 1 .. n : q # y => s.node[c[q]].member # m
  BY <1>1, OncePerMember
<1> DEFINE ns == [x \in DOMAIN ms \ {m} |-> ms[x]]
<1>18. Agree(t, d, ns)
  <2>1. DOMAIN ns = DOMAIN ms \ {m} /\ \A x \in DOMAIN ms \ {m} : ns[x] = ms[x]
    OBVIOUS
  <2>2. DOMAIN ms \subseteq Member
    BY DEF Agree
  <2> HIDE DEF ns
  <2>3. ASSUME NEW p \in 1 .. n - 1
        PROVE  t.node[d[p]].member \in DOMAIN ns /\ ns[t.node[d[p]].member] = t.node[d[p]].score
    <3>1. PICK q \in 1 .. n : q # y /\ d[p] = c[q]
      BY <1>15
    <3>2. t.node[d[p]].member = s.node[c[q]].member /\ t.node[d[p]].score = s.node[c[q]].score
      BY <1>12, <1>16, <3>1
    <3>3. s.node[c[q]].member \in DOMAIN ms \ {m} /\ ms[s.node[c[q]].member] = s.node[c[q]].score
      BY <1>17, <3>1 DEF Agree
    <3> QED BY <2>1, <3>2, <3>3
  <2>4. ASSUME NEW x \in DOMAIN ns PROVE \E p \in 1 .. n - 1 : t.node[d[p]].member = x
    <3>1. PICK q \in 1 .. n : s.node[c[q]].member = x
      BY <2>1 DEF Agree
    <3>2. q # y
      BY <1>1, <2>1, <3>1
    <3>3. PICK p \in 1 .. n - 1 : d[p] = c[q]
      BY <1>14, <3>2
    <3> QED BY <1>12, <1>16, <3>1, <3>3
  <2> QED BY <1>13, <2>1, <2>2, <2>3, <2>4 DEF Agree
<1> QED BY <1>10, <1>11, <1>18

LEMMA InsertedShape ==
    ASSUME NEW s, NEW c, Shape(s, c), NEW ms, Agree(s, c, ms), NEW m \in Member, m \notin DOMAIN ms,
           NEW score \in Int, NEW level \in 1 .. MaxLevel, Room(s, m)
    PROVE  \E d : /\ Shape(Insert(s, score, m, level), d)
                  /\ Agree(Insert(s, score, m, level), d,
                           [x \in DOMAIN ms \cup {m} |-> IF x = m THEN score ELSE ms[x]])
<1>1. Typed(s, c) /\ Ordered(s, c)
  BY DEF Shape
<1>2. m \in Nat
  BY MemberAssumption
<1>3. PICK k \in 0 .. Len(c) : Leading(s, c, k, {a \in DOMAIN s.node : Precedes(s.node[a], score, m)})
  BY <1>1, <1>2, LeadingExists
<1> DEFINE t == Insert(s, score, m, level)
           a == Fresh(s, m)
           d == With(c, k, a)
           n == Len(c)
           ns == [x \in DOMAIN ms \cup {m} |-> IF x = m THEN score ELSE ms[x]]
<1>4. \A p \in 1 .. n : s.node[c[p]].member # m
  BY DEF Agree
<1>5. Shape(t, d)
  BY <1>3, <1>4, InsertShape
<1>6. t.node[a].member = m /\ t.node[a].score = score
      /\ \A b \in DOMAIN s.node : t.node[b].member = s.node[b].member /\ t.node[b].score = s.node[b].score
  BY <1>3, InsertedTyped
<1>7. a \in Address \ DOMAIN s.node
  <2>1. AsInserted(s, c, score, m, level, k)
    BY <1>3, Inserted
  <2> QED BY <2>1 DEF AsInserted
<1>8. n \in Nat /\ k \in Nat /\ \A p \in 1 .. n : c[p] \in DOMAIN s.node
  <2>1. n \in Nat
    BY <1>1, NodeTyped
  <2>2. \A p \in 1 .. n : c[p] \in DOMAIN s.node
    BY <1>1 DEF Typed
  <2> QED BY <2>1, <2>2
<1>9. Len(d) = n + 1 /\ d[k + 1] = a
      /\ (\A p \in 1 .. k : d[p] = c[p]) /\ \A p \in k + 2 .. n + 1 : d[p] = c[p - 1]
  <2>1. AsWith(s, c, k, a)
    <3> HIDE DEF a
    <3> QED BY <1>1, <1>7, WithChain
  <2>2. Len(d) = n + 1 /\ d[k + 1] = a
    BY <2>1 DEF AsWith
  <2>3. (\A p \in 1 .. k : d[p] = c[p]) /\ \A p \in k + 2 .. n + 1 : d[p] = c[p - 1]
    BY <1>8 DEF With
  <2> QED BY <2>2, <2>3
<1> HIDE DEF t, d, a
<1>10. Agree(t, d, ns)
  <2>1. DOMAIN ns = DOMAIN ms \cup {m} /\ ns[m] = score /\ \A x \in DOMAIN ms : ns[x] = ms[x]
    OBVIOUS
  <2>2. DOMAIN ms \subseteq Member
    BY DEF Agree
  <2> HIDE DEF ns
  <2>3. ASSUME NEW p \in 1 .. n + 1
        PROVE  t.node[d[p]].member \in DOMAIN ns /\ ns[t.node[d[p]].member] = t.node[d[p]].score
    <3>1. CASE p = k + 1
      BY <1>6, <1>9, <2>1, <3>1
    <3>2. CASE p # k + 1
      <4>1. PICK q \in 1 .. n : d[p] = c[q]
        <5>1. CASE p <= k
          <6>1. p \in 1 .. k /\ p \in 1 .. n
            BY <1>8, <5>1
          <6> QED BY <1>9, <6>1
        <5>2. CASE ~(p <= k)
          <6>1. p \in k + 2 .. n + 1 /\ p - 1 \in 1 .. n
            BY <1>8, <3>2, <5>2
          <6> QED BY <1>9, <6>1
        <5> QED BY <5>1, <5>2
      <4>2. t.node[d[p]].member = s.node[c[q]].member /\ t.node[d[p]].score = s.node[c[q]].score
        BY <1>6, <1>8, <4>1
      <4>3. s.node[c[q]].member \in DOMAIN ms /\ ms[s.node[c[q]].member] = s.node[c[q]].score
        BY DEF Agree
      <4> QED BY <2>1, <4>2, <4>3
    <3> QED BY <3>1, <3>2
  <2>4. ASSUME NEW x \in DOMAIN ns PROVE \E p \in 1 .. n + 1 : t.node[d[p]].member = x
    <3>1. CASE x = m
      <4>1. k + 1 \in 1 .. n + 1
        BY <1>8
      <4> QED BY <1>6, <1>9, <3>1, <4>1
    <3>2. CASE x # m
      <4>1. PICK q \in 1 .. n : s.node[c[q]].member = x
        BY <2>1, <3>2 DEF Agree
      <4>2. \E p \in 1 .. n + 1 : d[p] = c[q]
        <5>1. CASE q <= k
          <6>1. q \in 1 .. k /\ q \in 1 .. n + 1
            BY <1>8, <5>1
          <6> QED BY <1>9, <6>1
        <5>2. CASE ~(q <= k)
          <6>1. q + 1 \in k + 2 .. n + 1 /\ q + 1 \in 1 .. n + 1 /\ (q + 1) - 1 = q
            BY <1>8, <5>2
          <6> QED BY <1>9, <6>1
        <5> QED BY <5>1, <5>2
      <4> QED BY <1>6, <1>8, <4>1, <4>2
    <3> QED BY <3>1, <3>2
  <2> QED BY <1>9, <2>1, <2>2, <2>3, <2>4 DEF Agree
<1> QED BY <1>5, <1>10 DEF t

-----------------------------------------------------------------------------
(* The inductive invariant: there is a chain that the skiplist is, and its  *)
(* pairs are those of the map.                                              *)
IInv == \E c : Shape(sl, c) /\ Agree(sl, c, members)

LEMMA EmptyShape == Shape(EmptyList, << >>) /\ Agree(EmptyList, << >>, << >>)
<1> DEFINE s == EmptyList
           c == << >>
<1>1. Len(c) = 0 /\ c \in Seq(Address) /\ 1 .. Len(c) = {} /\ MaxLevel \in Nat \ {0}
  BY LevelAssumption
<1>2. s.node = [a \in {Header} |->
                 [member |-> 0, score |-> 0, backward |-> Nil,
                  levels |-> [i \in 1 .. MaxLevel |-> [forward |-> Nil, span |-> 0]]]]
      /\ s.tail = Nil /\ s.length = 0 /\ s.level = 1
  BY DEF EmptyList
<1> HIDE DEF s, c
<1>3. s.node[Header] = [member |-> 0, score |-> 0, backward |-> Nil,
                  levels |-> [i \in 1 .. MaxLevel |-> [forward |-> Nil, span |-> 0]]]
  BY <1>2
<1>4. s.node[Header].levels = [i \in 1 .. MaxLevel |-> [forward |-> Nil, span |-> 0]]
  BY <1>3
<1>5. s.node[Header] \in Node
  <2> DEFINE L == [i \in 1 .. MaxLevel |-> [forward |-> Nil, span |-> 0]]
  <2>1. L \in [1 .. MaxLevel -> LinkRec]
    BY DEF LinkRec
  <2>2. L \in UNION {[1 .. h -> LinkRec] : h \in 1 .. MaxLevel}
    BY <1>1, <2>1
  <2> HIDE DEF L
  <2> QED BY <1>3, <2>2 DEF Node, L
<1>6. Typed(s, c)
  <2>1. s.node \in [{Header} \cup {c[p] : p \in 1 .. Len(c)} -> Node]
    <3>1. {Header} \cup {c[p] : p \in 1 .. Len(c)} = {Header}
      BY <1>1
    <3>2. s.node \in [{Header} -> Node]
      BY <1>2, <1>5
    <3> QED BY <3>1, <3>2
  <2> QED BY <1>1, <1>2, <1>4, <2>1 DEF Typed
<1>7. At(c, 0) = Header
  BY DEF At
<1>8. Linked(s, c)
  <2> SUFFICES ASSUME NEW i \in 1 .. MaxLevel PROVE Hop(s, c, i, 0)
    BY <1>1, <1>2 DEF Linked
  <2>1. s.node[At(c, 0)].levels[i] = [forward |-> Nil, span |-> 0]
    BY <1>4, <1>7
  <2> QED BY <1>1, <2>1 DEF Hop
<1>9. Levelled(s, c) /\ Backward(s, c) /\ Ordered(s, c)
  BY <1>1, <1>2, <1>4 DEF Levelled, Backward, Ordered, c
<1>10. Agree(s, c, << >>)
  BY <1>1 DEF Agree
<1> QED BY <1>6, <1>8, <1>9, <1>10 DEF Shape, s, c

LEMMA InvInit == InitZSet => IInv
BY EmptyShape DEF InitZSet, IInv

LEMMA InvDrop ==
    ASSUME NEW m \in Member, m \in DOMAIN members, IInv, Drop(m)
    PROVE  IInv'
<1>1. PICK c : Shape(sl, c) /\ Agree(sl, c, members)
  BY DEF IInv
<1>2. sl' = Deleted(sl, members[m], m) /\ members' = [x \in DOMAIN members \ {m} |-> members[x]]
  BY DEF Drop
<1>3. PICK d : /\ Shape(Deleted(sl, members[m], m), d)
               /\ Agree(Deleted(sl, members[m], m), d, [x \in DOMAIN members \ {m} |-> members[x]])
  BY <1>1, DeletedShape
<1>4. Shape(sl', d) /\ Agree(sl', d, members')
  BY <1>2, <1>3
<1> QED BY <1>4 DEF IInv

LEMMA InvAdd ==
    ASSUME NaN \notin Score, NEW m \in Member, NEW score \in Score, NEW level \in 1 .. MaxLevel,
           IInv, Add(score, m, level)
    PROVE  IInv'
<1>0. score \in Int
  BY ScoreAssumption
<1>1. PICK c : Shape(sl, c) /\ Agree(sl, c, members)
  BY DEF IInv
<1> DEFINE s == IF m \in DOMAIN members THEN Deleted(sl, members[m], m) ELSE sl
           ms == [x \in DOMAIN members \ {m} |-> members[x]]
<1>2. Room(s, m) /\ sl' = Insert(s, score, m, level)
      /\ members' = [x \in DOMAIN members \cup {m} |-> IF x = m THEN score ELSE members[x]]
  BY DEF Add
<1>3. \E d : Shape(s, d) /\ Agree(s, d, ms)
  <2>1. CASE m \in DOMAIN members
    BY <1>1, <2>1, DeletedShape
  <2>2. CASE m \notin DOMAIN members
    <3>1. DOMAIN ms = DOMAIN members /\ \A x \in DOMAIN ms : ms[x] = members[x]
      BY <2>2
    <3> HIDE DEF ms
    <3>2. Agree(sl, c, ms)
      BY <1>1, <3>1 DEF Agree
    <3> QED BY <1>1, <2>2, <3>2
  <2> QED BY <2>1, <2>2
<1>4. PICK d : Shape(s, d) /\ Agree(s, d, ms)
  BY <1>3
<1>5. m \notin DOMAIN ms /\ members' = [x \in DOMAIN ms \cup {m} |-> IF x = m THEN score ELSE ms[x]]
  <2>1. DOMAIN ms = DOMAIN members \ {m} /\ \A x \in DOMAIN members \ {m} : ms[x] = members[x]
    OBVIOUS
  <2> HIDE DEF ms
  <2>2. DOMAIN ms \cup {m} = DOMAIN members \cup {m}
    BY <2>1
  <2> QED BY <1>2, <2>1, <2>2
<1> HIDE DEF s, ms
<1>6. PICK e : /\ Shape(Insert(s, score, m, level), e)
               /\ Agree(Insert(s, score, m, level), e,
                        [x \in DOMAIN ms \cup {m} |-> IF x = m THEN score ELSE ms[x]])
  BY <1>0, <1>2, <1>4, <1>5, InsertedShape
<1>7. Shape(sl', e) /\ Agree(sl', e, members')
  BY <1>2, <1>5, <1>6
<1> QED BY <1>7 DEF IInv

\* The first and the last node.
LEMMA EndIs ==
    ASSUME NEW s, NEW c, Shape(s, c), NEW end
    PROVE  End(s, end) = IF c = << >> THEN Nil ELSE IF end = "min" THEN c[1] ELSE c[Len(c)]
<1>1. Typed(s, c) /\ Linked(s, c) /\ Backward(s, c)
  BY DEF Shape
<1>2. Len(c) \in Nat /\ 0 \in 0 .. Len(c) /\ At(c, 0) = Header /\ c \in Seq(Address)
  <2>1. Len(c) \in Nat /\ At(c, 0) = Header
    BY <1>1, NodeTyped
  <2>2. c \in Seq(Address)
    BY <1>1 DEF Typed
  <2> QED BY <2>1, <2>2
<1>3. Next0(s, Header) = IF 0 = Len(c) THEN Nil ELSE c[0 + 1]
  BY <1>1, <1>2, FirstLink
<1>4. c = << >> <=> Len(c) = 0
  BY <1>2
<1> QED BY <1>1, <1>3, <1>4 DEF End, Backward

LEMMA InvNext ==
    ASSUME NaN \notin Score, IInv, [NextZSet]_zvars
    PROVE  IInv'
<1>1. ASSUME NEW m \in Member, NEW score \in Score, NEW level \in 1 .. MaxLevel, Add(score, m, level)
      PROVE  IInv'
  BY <1>1, InvAdd
<1>2. ASSUME NEW m \in Member, Rem(m) PROVE IInv'
  BY <1>2, InvDrop DEF Rem
<1>3. ASSUME NEW end \in {"min", "max"}, Pop(end) PROVE IInv'
  <2>1. PICK c : Shape(sl, c) /\ Agree(sl, c, members)
    BY DEF IInv
  <2>2. End(sl, end) # Nil /\ Drop(sl.node[End(sl, end)].member)
    BY <1>3 DEF Pop
  <2>3. \E p \in 1 .. Len(c) : End(sl, end) = c[p]
    <3>1. c # << >>
      BY <2>1, <2>2, EndIs
    <3>2. c \in Seq(Address)
      BY <2>1 DEF Shape, Typed
    <3>3. 1 \in 1 .. Len(c) /\ Len(c) \in 1 .. Len(c)
      BY <3>1, <3>2
    <3> QED BY <2>1, <3>1, <3>3, EndIs
  <2>4. sl.node[End(sl, end)].member \in DOMAIN members /\ sl.node[End(sl, end)].member \in Member
    BY <2>1, <2>3 DEF Agree
  <2> QED BY <2>2, <2>4, InvDrop
<1>4. CASE UNCHANGED zvars
  BY <1>4 DEF IInv, zvars
<1> QED BY <1>1, <1>2, <1>3, <1>4 DEF NextZSet

-----------------------------------------------------------------------------
(* The chain is what the links of the lowest level lead to.                 *)

\* The node at p and all after it.
Suffix(c, p) == [q \in 1 .. Len(c) - p + 1 |-> At(c, (p + q) - 1)]

\* The body of From.
Onward(f, b) == IF b = Nil THEN << >> ELSE <<b>> \o f[Next0(sl, b)]

Spots(c) == {At(c, q) : q \in 0 .. Len(c)}

LEMMA SuffixTyped ==
    ASSUME NEW s, NEW c, Typed(s, c), NEW p \in 0 .. Len(c) + 1
    PROVE  /\ Suffix(c, p) \in Seq(Spots(c)) /\ Len(Suffix(c, p)) = Len(c) - p + 1
           /\ \A q \in 1 .. Len(c) - p + 1 : Suffix(c, p)[q] = At(c, (p + q) - 1)
<1> DEFINE X == Spots(c)
           n == Len(c) - p + 1
<1>1. Len(c) \in Nat
  BY NodeTyped
<1>2. n \in Nat /\ \A q \in 1 .. n : (p + q) - 1 \in 0 .. Len(c)
  BY <1>1
<1>3. \A q \in 1 .. n : At(c, (p + q) - 1) \in X
  BY <1>2 DEF Spots
<1> HIDE DEF X
<1>4. Suffix(c, p) \in [1 .. n -> X]
  BY <1>3 DEF Suffix
<1> HIDE DEF n
<1>5. Suffix(c, p) \in Seq(X) /\ Len(Suffix(c, p)) = n
  BY <1>2, <1>4
<1> USE DEF n
<1>6. \A q \in 1 .. n : Suffix(c, p)[q] = At(c, (p + q) - 1)
  BY DEF Suffix
<1> QED BY <1>5, <1>6 DEF X

LEMMA SuffixGrows ==
    ASSUME NEW s, NEW c, Typed(s, c), NEW p \in 0 .. Len(c)
    PROVE  <<At(c, p)>> \o Suffix(c, p + 1) = Suffix(c, p)
<1> DEFINE X == Spots(c)
           a == <<At(c, p)>>
           b == Suffix(c, p + 1)
           n == Len(c) - p
<1>1. Len(c) \in Nat /\ p \in 0 .. Len(c) + 1 /\ p + 1 \in 0 .. Len(c) + 1 /\ n \in Nat
      /\ Len(c) - (p + 1) + 1 = n /\ Len(c) - p + 1 = n + 1
  <2>1. Len(c) \in Nat
    BY NodeTyped
  <2> QED BY <2>1
<1>2. b \in Seq(X) /\ Len(b) = n /\ \A q \in 1 .. n : b[q] = At(c, ((p + 1) + q) - 1)
  BY <1>1, SuffixTyped
<1>3. Suffix(c, p) \in Seq(X) /\ Len(Suffix(c, p)) = n + 1
      /\ \A q \in 1 .. n + 1 : Suffix(c, p)[q] = At(c, (p + q) - 1)
  <2>0. p \in 0 .. Len(c) + 1
    BY <1>1
  <2>1. /\ Suffix(c, p) \in Seq(X) /\ Len(Suffix(c, p)) = Len(c) - p + 1
        /\ \A q \in 1 .. Len(c) - p + 1 : Suffix(c, p)[q] = At(c, (p + q) - 1)
    BY <2>0, SuffixTyped
  <2>2. Len(c) - p + 1 = n + 1
    BY <1>1
  <2> HIDE DEF n, X
  <2> QED BY <2>1, <2>2
<1>4. a \in Seq(X) /\ Len(a) = 1 /\ a[1] = At(c, p)
  <2>1. At(c, p) \in X
    BY DEF Spots
  <2> QED BY <2>1
<1> HIDE DEF X, a, b
<1>5. /\ a \o b \in Seq(X) /\ Len(a \o b) = 1 + n
      /\ \A q \in 1 .. 1 + n : (a \o b)[q] = IF q <= 1 THEN a[q] ELSE b[q - 1]
  <2>1. /\ a \o b \in Seq(X) /\ Len(a \o b) = Len(a) + Len(b)
        /\ \A q \in 1 .. Len(a) + Len(b) : (a \o b)[q] = IF q <= Len(a) THEN a[q] ELSE b[q - Len(a)]
    BY <1>2, <1>4, ConcatProperties
  <2> QED BY <1>2, <1>4, <2>1
<1> HIDE DEF n
<1>6. ASSUME NEW q \in 1 .. n + 1 PROVE (a \o b)[q] = Suffix(c, p)[q]
  <2>1. q \in 1 .. 1 + n /\ Suffix(c, p)[q] = At(c, (p + q) - 1)
    BY <1>1, <1>3
  <2>2. CASE q = 1
    <3>1. (p + q) - 1 = p /\ q <= 1
      BY <1>1, <2>2
    <3> QED BY <1>4, <1>5, <2>1, <2>2, <3>1
  <2>3. CASE q # 1
    <3>1. q - 1 \in 1 .. n /\ ((p + 1) + (q - 1)) - 1 = (p + q) - 1 /\ ~(q <= 1)
      BY <1>1, <2>3
    <3>2. (a \o b)[q] = b[q - 1] /\ b[q - 1] = At(c, ((p + 1) + (q - 1)) - 1)
      BY <1>2, <1>5, <2>1, <3>1
    <3> QED BY <2>1, <3>1, <3>2
  <2> QED BY <2>2, <2>3
<1>7. Len(a \o b) = Len(Suffix(c, p)) /\ n + 1 \in Nat
  BY <1>1, <1>3, <1>5
<1>8. a \o b = Suffix(c, p)
  BY <1>1, <1>3, <1>5, <1>6, <1>7, SeqEqual
<1> QED BY <1>8 DEF a, b

LEMMA ChainIs ==
    ASSUME NEW c, Shape(sl, c)
    PROVE  Chain = c
<1>1. Typed(sl, c) /\ Linked(sl, c)
  BY DEF Shape
<1> DEFINE n == Len(c)
           Y == DOMAIN sl.node \cup {Nil}
           pos(b) == CHOOSE p \in 0 .. n : At(c, p) = b
           w == [b \in Y |-> IF b = Nil THEN << >> ELSE Suffix(c, pos(b))]
           Solves(f) == f = [b \in Y |-> Onward(f, b)]
           from == CHOOSE f : Solves(f)
<1>2. n \in Nat /\ Nil \notin Address /\ Header \notin Address /\ c \in Seq(Address)
      /\ (\A p \in 1 .. n : c[p] \in Address /\ At(c, p) = c[p] /\ c[p] \in DOMAIN sl.node) /\ At(c, 0) = Header
  <2>1. c \in Seq(Address) /\ \A p \in 1 .. n : c[p] \in DOMAIN sl.node
    BY <1>1 DEF Typed
  <2> QED BY <1>1, <2>1, NodeTyped
<1>3. \A p \in 0 .. n : pos(At(c, p)) = p /\ At(c, p) \in Y /\ At(c, p) # Nil
  <2>1. ASSUME NEW p \in 0 .. n PROVE At(c, p) # Nil
    <3>1. CASE p = 0
      BY <1>2, <3>1, HeaderAssumption
    <3>2. CASE p # 0
      BY <1>2, <3>2
    <3> QED BY <3>1, <3>2
  <2> QED BY <1>1, <2>1, NodeTyped
<1>4. \A p \in 0 .. n : Next0(sl, At(c, p)) = IF p = n THEN Nil ELSE At(c, p + 1)
  <2> SUFFICES ASSUME NEW p \in 0 .. n PROVE Next0(sl, At(c, p)) = IF p = n THEN Nil ELSE At(c, p + 1)
    OBVIOUS
  <2>1. Next0(sl, At(c, p)) = IF p = n THEN Nil ELSE c[p + 1]
    BY <1>1, FirstLink
  <2>2. p # n => p + 1 \in 1 .. n
    BY <1>2
  <2> QED BY <1>2, <2>1, <2>2
<1>5. Suffix(c, n + 1) = << >>
  <2>1. n - (n + 1) + 1 = 0
    BY <1>2
  <2> QED BY <2>1 DEF Suffix
<1>6. \A p \in 0 .. n : <<At(c, p)>> \o Suffix(c, p + 1) = Suffix(c, p)
  BY <1>1, SuffixGrows
<1>7. \A b \in DOMAIN sl.node : \E p \in 0 .. n : b = At(c, p)
  BY <1>1, NodeTyped
<1> HIDE DEF pos, n
<1>8. Solves(w)
  <2>1. w[Nil] = << >> /\ \A p \in 0 .. n : w[At(c, p)] = Suffix(c, p)
    BY <1>3
  <2>2. ASSUME NEW b \in Y PROVE w[b] = Onward(w, b)
    <3>1. CASE b = Nil
      BY <2>1, <3>1 DEF Onward
    <3>2. CASE b # Nil
      <4>1. PICK p \in 0 .. n : b = At(c, p)
        BY <1>7, <3>2
      <4>2. CASE p = n
        BY <1>4, <1>5, <1>6, <2>1, <3>2, <4>1, <4>2 DEF Onward
      <4>3. CASE p # n
        <5>1. p + 1 \in 0 .. n
          BY <1>2, <4>3
        <5> HIDE DEF w
        <5> QED BY <1>4, <1>6, <2>1, <3>2, <4>1, <4>3, <5>1 DEF Onward
      <4> QED BY <4>2, <4>3
    <3> QED BY <3>1, <3>2
  <2>3. w = [b \in Y |-> w[b]]
    OBVIOUS
  <2> HIDE DEF w
  <2> QED BY <2>2, <2>3
<1>9. Solves(from)
  <2> HIDE DEF w, Solves
  <2> QED BY <1>8
<1>10. Chain = from[Next0(sl, Header)]
  BY DEF Chain, From, Onward
<1> HIDE DEF from, w
<1> DEFINE T == {p \in 0 .. n : from[At(c, p)] = Suffix(c, p)}
<1>11. from[Nil] = << >>
  BY <1>9 DEF Onward
<1>12. ASSUME NEW p \in 0 .. n, \A q \in p + 1 .. n : q \in T PROVE p \in T
  <2>1. from[At(c, p)] = <<At(c, p)>> \o from[Next0(sl, At(c, p))]
    BY <1>3, <1>9 DEF Onward
  <2>2. CASE p = n
    BY <1>4, <1>5, <1>6, <1>11, <2>1, <2>2
  <2>3. CASE p # n
    <3>1. p + 1 \in p + 1 .. n
      BY <1>2, <2>3
    <3>2. from[At(c, p + 1)] = Suffix(c, p + 1)
      BY <1>12, <3>1
    <3> QED BY <1>4, <1>6, <2>1, <2>3, <3>2
  <2> QED BY <2>2, <2>3
<1>13. \A p \in 0 .. n : p \in T
  <2> HIDE DEF T
  <2> QED BY <1>2, <1>12, Downward
<1>14. Next0(sl, Header) = IF n = 0 THEN Nil ELSE At(c, 1)
  <2>1. 0 \in 0 .. n /\ 0 + 1 = 1
    BY <1>2
  <2> QED BY <1>2, <1>4, <2>1
<1>15. CASE n = 0
  BY <1>2, <1>10, <1>11, <1>14, <1>15 DEF n
<1>16. CASE n # 0
  <2>1. 1 \in 0 .. n /\ 1 \in 0 .. n + 1 /\ n - 1 + 1 = n
    BY <1>2, <1>16
  <2>2. Chain = Suffix(c, 1)
    BY <1>10, <1>13, <1>14, <1>16, <2>1
  <2>3. \A q \in 1 .. n : (1 + q) - 1 = q /\ At(c, q) = c[q]
    BY <1>2
  <2>4. Suffix(c, 1) = [q \in 1 .. n |-> c[q]]
    BY <2>1, <2>3 DEF Suffix, n
  <2>5. c = [q \in 1 .. n |-> c[q]]
    BY <1>2 DEF n
  <2> QED BY <2>2, <2>4, <2>5
<1> QED BY <1>15, <1>16

-----------------------------------------------------------------------------
(* What the invariant says of the chain.                                    *)

\* A hop is the link the shape asks for.
LEMMA HopIsLink ==
    ASSUME NEW c, Shape(sl, c), NEW p \in 0 .. Len(c), NEW i \in 1 .. sl.level, On(sl, c, i, p)
    PROVE  LinkOk(c, i, p, sl.node[At(c, p)].levels[i])
<1> DEFINE l == sl.node[At(c, p)].levels[i]
           n == Len(c)
           Q == {q \in p + 1 .. n : i \in DOMAIN sl.node[c[q]].levels}
<1>1. n \in Nat /\ p \in Nat /\ p <= n /\ \A q \in 1 .. n : At(c, q) = c[q]
  <2>1. Typed(sl, c)
    BY DEF Shape
  <2> QED BY <2>1, NodeTyped
<1>2. Hop(sl, c, i, p)
  BY DEF Shape, Linked
<1>3. \A q \in p + 1 .. n : q \in Q <=> On(sl, c, i, q)
  <2>1. \A q \in p + 1 .. n : q \in 1 .. n
    BY <1>1
  <2> QED BY <1>1, <2>1 DEF On
<1>4. Q \in SUBSET (p + 1 .. n)
  OBVIOUS
<1>5. Rung(c, i, p) = Min({n + 1} \cup Q)
  BY DEF Rung
<1>6. CASE l.forward = Nil /\ l.span = n - p /\ \A q \in p + 1 .. n : ~On(sl, c, i, q)
  <2>1. {n + 1} \cup Q = {n + 1}
    BY <1>3, <1>4, <1>6
  <2>2. Rung(c, i, p) = n + 1
    <3>1. {n + 1} \in SUBSET Int /\ n + 1 \in {n + 1} /\ \A y \in {n + 1} : n + 1 <= y
      BY <1>1
    <3> QED BY <1>5, <2>1, <3>1, MinIs
  <2>3. Min({n + 1, n}) = n
    <3>1. {n + 1, n} \in SUBSET Int /\ n \in {n + 1, n} /\ \A y \in {n + 1, n} : n <= y
      BY <1>1
    <3> QED BY <3>1, MinIs
  <2>4. n + 1 > n
    BY <1>1
  <2> QED BY <1>6, <2>2, <2>3, <2>4 DEF LinkOk
<1>7. CASE /\ l.span \in 1 .. n - p
           /\ l.forward = c[p + l.span] /\ On(sl, c, i, p + l.span)
           /\ \A q \in p + 1 .. p + l.span - 1 : ~On(sl, c, i, q)
  <2> DEFINE r == p + l.span
  <2>0. l.span \in 1 .. n - p
    BY <1>7
  <2> HIDE DEF Q, l
  <2>1. r \in p + 1 .. n /\ r - p = l.span /\ l.span \in Nat
    BY <1>1, <2>0
  <2>2. \A y \in {n + 1} \cup Q : r <= y
    <3>1. ASSUME NEW y \in Q PROVE r <= y
      <4>1. y \in p + 1 .. n /\ On(sl, c, i, y)
        BY <1>3, <1>4, <3>1
      <4>2. ~(y \in p + 1 .. p + l.span - 1)
        BY <1>7, <4>1
      <4> QED BY <1>1, <2>1, <4>1, <4>2
    <3>2. r <= n + 1
      BY <1>1, <2>1
    <3> QED BY <3>1, <3>2
  <2>3. Rung(c, i, p) = r
    <3>1. {n + 1} \cup Q \in SUBSET Int
      <4>1. p + 1 .. n \subseteq Int /\ n + 1 \in Int
        BY <1>1
      <4> QED BY <1>4, <4>1
    <3>2. r \in {n + 1} \cup Q
      BY <1>3, <1>7, <2>1
    <3> HIDE DEF r
    <3> QED BY <1>5, <2>2, <3>1, <3>2, MinIs
  <2>4. Min({r, n}) = r
    <3>1. {r, n} \in SUBSET Int /\ r \in {r, n} /\ \A y \in {r, n} : r <= y
      BY <1>1, <2>1
    <3> HIDE DEF r
    <3> QED BY <3>1, MinIs
  <2>5. ~(r > n)
    BY <1>1, <2>1
  <2>6. l.forward = c[r] /\ l.span = r - p
    BY <1>7, <2>1
  <2> HIDE DEF r
  <2> QED BY <2>3, <2>4, <2>5, <2>6 DEF LinkOk, l
<1> QED BY <1>2, <1>6, <1>7 DEF Hop

\* A node of the highest level has as many levels as the list.
LEMMA HighestNode ==
    ASSUME NEW c, Shape(sl, c), NEW p \in 1 .. Len(c), On(sl, c, sl.level, p)
    PROVE  Len(sl.node[c[p]].levels) = sl.level
<1>1. Typed(sl, c) /\ Levelled(sl, c)
  BY DEF Shape
<1>2. Len(c) \in Nat /\ At(c, p) = c[p]
  BY <1>1, NodeTyped
<1>3. sl.node[c[p]] \in Node
  BY <1>1 DEF Typed
<1>4. PICK h \in 1 .. MaxLevel : sl.node[c[p]].levels \in [1 .. h -> LinkRec]
  BY <1>3 DEF Node
<1>5. DOMAIN sl.node[c[p]].levels = 1 .. h /\ Len(sl.node[c[p]].levels) = h
  <2>1. h \in Nat
    BY <1>4, LevelAssumption
  <2>2. DOMAIN sl.node[c[p]].levels = 1 .. h
    BY <1>4
  <2> QED BY <1>4, <2>1, <2>2
<1>6. h \in 1 .. h /\ sl.level \in Nat /\ MaxLevel \in Nat
  <2>1. sl.level \in 1 .. MaxLevel /\ MaxLevel \in Nat
    BY <1>1, LevelAssumption DEF Typed
  <2> QED BY <1>4, <2>1
<1>7. h <= sl.level
  BY <1>1, <1>5, <1>6 DEF Levelled
<1>8. sl.level \in 1 .. h
  BY <1>2, <1>5 DEF On
<1> QED BY <1>4, <1>5, <1>6, <1>7, <1>8

LEMMA ShapeImplies ==
    ASSUME NEW c, Shape(sl, c)
    PROVE  SkiplistShape
<1>1. Chain = c /\ Typed(sl, c) /\ Levelled(sl, c) /\ Backward(sl, c) /\ Ordered(sl, c)
  BY ChainIs DEF Shape
<1>2. Len(c) \in Nat /\ MaxLevel \in Nat /\ At(c, 0) = Header /\ 0 \in 0 .. Len(c)
      /\ \A p \in 1 .. Len(c) : At(c, p) = c[p]
  <2>1. Len(c) \in Nat
    BY <1>1, NodeTyped
  <2> QED BY <1>1, <2>1, NodeTyped
<1>3. DOMAIN c = 1 .. Len(c)
  BY <1>1 DEF Typed
<1>4. sl.level \in 1 .. MaxLevel /\ sl.length = Len(c) /\ DOMAIN sl.node[Header].levels = 1 .. MaxLevel
  BY <1>1 DEF Typed
<1>5. ASSUME NEW i \in 1 .. sl.level PROVE LinkOk(c, i, 0, sl.node[Header].levels[i])
  <2>1. On(sl, c, i, 0)
    BY <1>2, <1>4 DEF On
  <2>2. LinkOk(c, i, 0, sl.node[At(c, 0)].levels[i])
    BY <1>2, <2>1, HopIsLink
  <2> QED BY <1>2, <2>2
<1>6. ASSUME NEW p \in 1 .. Len(c), NEW i \in DOMAIN sl.node[c[p]].levels
      PROVE  i <= sl.level /\ LinkOk(c, i, p, sl.node[c[p]].levels[i])
  <2>1. i <= sl.level
    BY <1>1 DEF Levelled
  <2>2. On(sl, c, i, p) /\ p \in 0 .. Len(c)
    BY <1>2 DEF On
  <2>3. i \in 1 .. MaxLevel
    BY <1>1, <2>2, OnBelow
  <2>4. i \in 1 .. sl.level
    BY <1>2, <1>4, <2>1, <2>3
  <2>5. LinkOk(c, i, p, sl.node[At(c, p)].levels[i])
    BY <2>2, <2>4, HopIsLink
  <2> QED BY <1>2, <2>1, <2>5
<1>7. ASSUME NEW p \in 1 .. Len(c), p > 1
      PROVE  Precedes(sl.node[c[p - 1]], sl.node[c[p]].score, sl.node[c[p]].member)
  <2>1. p - 1 \in 1 .. Len(c) /\ p - 1 < p
    BY <1>2, <1>7
  <2> QED BY <1>1, <2>1 DEF Ordered
<1>8. \A p \in 1 .. Len(c) : sl.node[c[p]].backward = IF p = 1 THEN Nil ELSE c[p - 1]
  BY <1>1 DEF Backward
<1>9. sl.tail = IF c = << >> THEN Nil ELSE c[Len(c)]
  BY <1>1 DEF Backward
<1>10. ASSUME sl.level > 1 PROVE \E p \in 1 .. Len(c) : Len(sl.node[c[p]].levels) = sl.level
  <2>1. PICK p \in 1 .. Len(c) : On(sl, c, sl.level, p)
    BY <1>1, <1>10 DEF Levelled
  <2> QED BY <2>1, HighestNode
<1> QED BY <1>1, <1>3, <1>4, <1>5, <1>6, <1>7, <1>8, <1>9, <1>10 DEF SkiplistShape

\* The chain's entries are the map's pairs, each once.
LEMMA PairsAre ==
    ASSUME NEW c, Shape(sl, c), Agree(sl, c, members)
    PROVE  PairsAgree
<1> DEFINE e(p) == [member |-> sl.node[c[p]].member, score |-> sl.node[c[p]].score]
           n == Len(c)
           f == [p \in 1 .. n |-> e(p)]
<1>1. Chain = c /\ Typed(sl, c)
  BY ChainIs DEF Shape
<1>2. n \in Nat /\ DOMAIN c = 1 .. n /\ sl.length = n
  <2>1. n \in Nat
    BY <1>1, NodeTyped
  <2> QED BY <1>1, <2>1 DEF Typed
<1>3. ToSet(Entries(Chain)) = {e(p) : p \in 1 .. n}
  BY <1>1, <1>2 DEF ToSet, Entries, Entry
<1>4. \A p \in 1 .. n : sl.node[c[p]].member \in DOMAIN members
                        /\ members[sl.node[c[p]].member] = sl.node[c[p]].score
  BY DEF Agree
<1>5. \A m \in DOMAIN members : \E p \in 1 .. n : sl.node[c[p]].member = m
  BY DEF Agree
<1>6. {e(p) : p \in 1 .. n} = Pairs
  BY <1>4, <1>5 DEF Pairs
<1>7. \A p, q \in 1 .. n : e(p) = e(q) => p = q
  BY OncePerMember
<1>8. ExistsBijection(1 .. n, Pairs)
  <2>1. f \in [1 .. n -> Pairs]
    BY <1>6
  <2>2. \A p, q \in 1 .. n : p # q => f[p] # f[q]
    BY <1>7
  <2>3. \A x \in Pairs : \E p \in 1 .. n : f[p] = x
    BY <1>6
  <2> HIDE DEF f, e
  <2>4. f \in Bijection(1 .. n, Pairs)
    BY <2>1, <2>2, <2>3 DEF Bijection, Injection, Surjection, IsInjective
  <2> QED BY <2>4 DEF ExistsBijection
<1>9. Cardinality(Pairs) = n
  BY <1>2, <1>8, FS_CountingElements
<1> QED BY <1>2, <1>3, <1>6, <1>9 DEF PairsAgree

LEMMA PopTakes ==
    ASSUME IInv, NEW end \in {"min", "max"}, Pop(end)
    PROVE  LET taken == popped'[2]
               left  == Pairs \ {taken}
           IN /\ taken \in Pairs
              /\ \A e \in left : IF popped'[1] = "min" THEN EntryBefore(taken, e) ELSE EntryBefore(e, taken)
              /\ Pairs' = left
<1>1. PICK c : Shape(sl, c) /\ Agree(sl, c, members)
  BY DEF IInv
<1> DEFINE n == Len(c)
           x == End(sl, end)
           taken == Entry(sl, x)
           e(p) == Entry(sl, c[p])
           z == IF end = "min" THEN 1 ELSE n
<1>2. Typed(sl, c) /\ Ordered(sl, c) /\ n \in Nat /\ c \in Seq(Address)
  <2>1. Typed(sl, c) /\ Ordered(sl, c)
    BY <1>1 DEF Shape
  <2>2. n \in Nat
    BY <2>1, NodeTyped
  <2> QED BY <2>1, <2>2 DEF Typed
<1>3. x # Nil /\ popped' = <<end, taken>> /\ Drop(sl.node[x].member)
  BY DEF Pop
<1>4. z \in 1 .. n /\ x = c[z]
  <2>1. c # << >>
    BY <1>1, <1>3, EndIs
  <2>2. 1 \in 1 .. n /\ n \in 1 .. n
    BY <1>2, <2>1
  <2> QED BY <1>1, <2>1, <2>2, EndIs
<1>5. \A p \in 1 .. n : sl.node[c[p]].member \in DOMAIN members
                        /\ members[sl.node[c[p]].member] = sl.node[c[p]].score
  BY <1>1 DEF Agree
<1>6. \A m \in DOMAIN members : \E p \in 1 .. n : sl.node[c[p]].member = m
  BY <1>1 DEF Agree
<1>7. \A p \in 1 .. n : e(p) = [member |-> sl.node[c[p]].member, score |-> sl.node[c[p]].score]
  BY DEF Entry
<1>8. Pairs = {e(p) : p \in 1 .. n}
  <2> HIDE DEF e
  <2>1. ASSUME NEW p \in 1 .. n PROVE e(p) \in Pairs
    BY <1>5, <1>7 DEF Pairs
  <2>2. ASSUME NEW m \in DOMAIN members PROVE \E p \in 1 .. n : [member |-> m, score |-> members[m]] = e(p)
    <3>1. PICK p \in 1 .. n : sl.node[c[p]].member = m
      BY <1>6
    <3>2. members[m] = sl.node[c[p]].score
      BY <1>5, <3>1
    <3> QED BY <1>7, <3>1, <3>2
  <2> QED BY <2>1, <2>2 DEF Pairs
<1>9. taken = e(z) /\ taken \in Pairs
  BY <1>4, <1>8
<1>10. ASSUME NEW p \in 1 .. n, NEW q \in 1 .. n, p < q PROVE EntryBefore(e(p), e(q))
  <2>1. Before(sl, c[p], c[q])
    BY <1>2, <1>10 DEF Ordered, Before
  <2>2. \/ sl.node[c[p]].score < sl.node[c[q]].score
        \/ sl.node[c[p]].score = sl.node[c[q]].score /\ sl.node[c[p]].member < sl.node[c[q]].member
    BY <1>2, <2>1, BeforeNumbers
  <2>3. /\ e(p).score = sl.node[c[p]].score /\ e(p).member = sl.node[c[p]].member
        /\ e(q).score = sl.node[c[q]].score /\ e(q).member = sl.node[c[q]].member
    <3> HIDE DEF e
    <3>1. \A r \in 1 .. n : e(r).score = sl.node[c[r]].score /\ e(r).member = sl.node[c[r]].member
      BY <1>7
    <3> QED BY <3>1
  <2> HIDE DEF e
  <2> QED BY <2>2, <2>3 DEF EntryBefore
<1> HIDE DEF e, taken, x
<1>11. ASSUME NEW f \in Pairs \ {taken}
       PROVE  IF end = "min" THEN EntryBefore(taken, f) ELSE EntryBefore(f, taken)
  <2>1. PICK p \in 1 .. n : f = e(p)
    BY <1>8
  <2>2. p # z
    BY <1>9, <2>1
  <2>3. CASE end = "min"
    <3>1. z = 1 /\ z < p
      BY <1>2, <2>2, <2>3
    <3> QED BY <1>4, <1>9, <1>10, <2>1, <2>3, <3>1
  <2>4. CASE end # "min"
    <3>1. z = n /\ p < z
      BY <1>2, <2>2, <2>4
    <3> QED BY <1>4, <1>9, <1>10, <2>1, <2>4, <3>1
  <2> QED BY <2>3, <2>4
<1>12. Pairs' = Pairs \ {taken}
  <2> DEFINE m == sl.node[x].member
             pair(y) == [member |-> y, score |-> members[y]]
  <2>1. members' = [y \in DOMAIN members \ {m} |-> members[y]]
    BY <1>3 DEF Drop
  <2>2. DOMAIN members' = DOMAIN members \ {m} /\ \A y \in DOMAIN members \ {m} : members'[y] = members[y]
    BY <2>1
  <2>3. taken = pair(m)
    <3>1. m \in DOMAIN members /\ members[m] = sl.node[x].score
      BY <1>4, <1>5
    <3> QED BY <3>1 DEF taken, Entry
  <2> HIDE DEF m
  <2>4. Pairs' = {pair(y) : y \in DOMAIN members \ {m}}
    BY <2>2 DEF Pairs
  <2>5. \A y \in DOMAIN members : pair(y) = pair(m) => y = m
    OBVIOUS
  <2> QED BY <2>3, <2>4, <2>5 DEF Pairs
<1> QED BY <1>3, <1>9, <1>11, <1>12

-----------------------------------------------------------------------------
(* The theorems.  Score has no NaN: NaN is neither before nor after nor     *)
(* equal to a score, and Delete does not find its pair.                     *)

LEMMA InvHolds == ASSUME NaN \notin Score PROVE SpecZSet => []IInv
<1>1. IInv /\ [NextZSet]_zvars => IInv'
  BY InvNext
<1> QED BY InvInit, <1>1, PTL DEF SpecZSet

(* ZADD, ZREM and the pops (Skiplist.Insert and Skiplist.Delete) leave the  *)
(* skiplist sorted, each level a subsequence of the lowest, every span the  *)
(* distance of the nodes it joins, with the backward pointers, tail,        *)
(* length and level that belong to it.                                      *)
THEOREM ShapeKept == ASSUME NaN \notin Score PROVE SpecZSet => []SkiplistShape
<1>1. IInv => SkiplistShape
  BY ShapeImplies DEF IInv
<1> QED BY InvHolds, <1>1, PTL

(* The map and the skiplist of store.ZSet hold the same pairs, each member  *)
(* once, so ZSCORE and ZRANGE never disagree.                               *)
THEOREM SamePairs == ASSUME NaN \notin Score PROVE SpecZSet => []PairsAgree
<1>1. IInv => PairsAgree
  BY PairsAre DEF IInv
<1> QED BY InvHolds, <1>1, PTL

(* ZPOPMIN takes the least pair and ZPOPMAX the greatest, and no other.     *)
THEOREM PopsTake == ASSUME NaN \notin Score PROVE SpecZSet => PopsTakeTheEnd
<1> DEFINE A == popped' # << >> =>
                  LET taken == popped'[2]
                      left  == Pairs \ {taken}
                  IN /\ taken \in Pairs
                     /\ \A e \in left : IF popped'[1] = "min" THEN EntryBefore(taken, e) ELSE EntryBefore(e, taken)
                     /\ Pairs' = left
<1>1. ASSUME IInv, NextZSet PROVE A
  <2>1. ASSUME NEW m \in Member, NEW score \in Score, NEW level \in 1 .. MaxLevel, Add(score, m, level)
        PROVE  A
    BY <2>1 DEF Add
  <2>2. ASSUME NEW m \in Member, Rem(m) PROVE A
    BY <2>2 DEF Rem
  <2>3. ASSUME NEW end \in {"min", "max"}, Pop(end) PROVE A
    BY <1>1, <2>3, PopTakes
  <2> QED BY <1>1, <2>1, <2>2, <2>3 DEF NextZSet
<1>2. IInv /\ [NextZSet]_zvars => [A]_zvars
  BY <1>1
<1> HIDE DEF A
<1>3. SpecZSet => [][A]_zvars
  BY InvHolds, <1>2, PTL DEF SpecZSet
<1> QED BY <1>3 DEF PopsTakeTheEnd, A

=============================================================================
