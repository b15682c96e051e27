--------------------------- MODULE LinkedListProof ---------------------------
(***************************************************************************)
(* Proofs about LinkedList, for any addresses, elements and indices: the   *)
(* nodes are linked in both directions at every step, and what callers see *)
(* is what ListContract says of a sequence.                                *)
(***************************************************************************)
EXTENDS LinkedList, SequenceTheorems, FiniteSetTheorems, TLAPS

-----------------------------------------------------------------------------
(* The inductive invariant *)

Pointers == Addr \cup {Null}
Nodes    == [value : Value \cup {Null}, prev : Pointers, next : Pointers]
Args     == Seq(Int \cup Value)

Loops ==
    {Idle}
    \cup [op : Seekers \ {"TrimEnd"}, args : Args, to : Nat, at : Addr, i : Nat]
    \cup [op : {"TrimEnd"}, args : Args, to : Nat, at : Addr, i : Nat, first : Addr]
    \cup [op : {"Collect"}, args : Args, at : Pointers, i : Nat, result : Seq(Value)]
    \cup [op : Inserters, args : Args, at : Pointers]
    \cup [op : {"Remove"}, args : Args, at : Pointers, removed : Nat, was : Seq(Value)]

Typed ==
    /\ node \in [Addr -> Nodes] /\ head \in Pointers /\ tail \in Pointers
    /\ length \in Nat /\ chain \in Seq(Addr)
    /\ \A p \in 1 .. length : node[chain[p]].value \in Value

Shape == Typed /\ Linked

\* The node at position p, nil beyond both ends.
Nth(p) == IF p \in 1 .. length THEN chain[p] ELSE Null

\* nodeAt is at the node it takes itself to be at.
Seeking ==
    call.op \in Seekers =>
      /\ call.i \in 0 .. length - 1 /\ call.to \in 0 .. length - 1
      /\ call.at = chain[call.i + 1]
      /\ call.op = "Index" => \E i \in Ints : call.args = <<i>> /\ call.to = FromEnd(i)
      /\ call.op = "Set" => \E i \in Ints, v \in Value : call.args = <<i, v>> /\ call.to = FromEnd(i)
      /\ call.op \in {"Range", "Trim", "TrimEnd"} =>
           \E i, j \in Ints : /\ call.args = <<i, j>> /\ Lower(i) <= Upper(j)
                              /\ call.to = IF call.op = "TrimEnd" THEN Upper(j) ELSE Lower(i)
                              /\ call.op = "TrimEnd" => call.first = chain[Lower(i) + 1]

\* The elements passed are collected.
Collecting ==
    call.op = "Collect" =>
      \E i, j \in Ints :
        /\ call.args = <<i, j>>
        /\ call.i \in Lower(i) .. Upper(j) + 1
        /\ call.at = Nth(call.i + 1)
        /\ call.result = SubSeq(Values, Lower(i) + 1, call.i)

\* The pivot was not passed.
Inserting ==
    call.op \in Inserters =>
      \E pivot, v \in Value, k \in 1 .. length + 1 :
        /\ call.args = <<pivot, v>> /\ Free # {}
        /\ call.at = Nth(k)
        /\ \A q \in 1 .. k - 1 : Values[q] # pivot

\* The occurrences passed are out; c is where the cursor would be in the list
\* as it was.
RemovedBefore(n, v, c) ==
    LET gone == {q \in Occurrences(call.was, v) : q < c} IN
    /\ call.removed = Cardinality(gone)
    /\ LeavesOut(Values, call.was, gone)
    /\ call.at = Nth(c - call.removed)
    /\ n > 0 => call.removed <= n

RemovedBehind(n, v, c) ==
    LET gone == {q \in Occurrences(call.was, v) : q > c} IN
    /\ call.removed = Cardinality(gone)
    /\ LeavesOut(Values, call.was, gone)
    /\ call.at = Nth(c)
    /\ call.removed <= -n

Removing ==
    call.op = "Remove" =>
      \E n \in Ints, v \in Value :
        /\ call.args = <<n, v>>
        /\ \/ n >= 0 /\ \E c \in 1 .. Len(call.was) + 1 : RemovedBefore(n, v, c)
           \/ n < 0 /\ \E c \in 0 .. Len(call.was) : RemovedBehind(n, v, c)

Inductive == Shape /\ call \in Loops /\ Seeking /\ Collecting /\ Inserting /\ Removing

-----------------------------------------------------------------------------
(* Sequences *)

LEMMA FrontPart ==
    ASSUME NEW S, NEW s \in Seq(S), NEW i \in 0 .. Len(s)
    PROVE  /\ SubSeq(s, 1, i) \in Seq(S) /\ Len(SubSeq(s, 1, i)) = i
           /\ \A p \in 1 .. i : SubSeq(s, 1, i)[p] = s[p]
<1>1. Len(s) \in Nat /\ \A p \in 1 .. i : s[p] \in S
  BY LenProperties, ElementOfSeq
<1> QED
  BY <1>1, SubSeqProperties

LEMMA RestPart ==
    ASSUME NEW S, NEW s \in Seq(S), NEW i \in 1 .. Len(s) + 1
    PROVE  /\ SubSeq(s, i, Len(s)) \in Seq(S) /\ Len(SubSeq(s, i, Len(s))) = Len(s) - i + 1
           /\ \A p \in 1 .. Len(s) - i + 1 : SubSeq(s, i, Len(s))[p] = s[i + p - 1]
<1>1. Len(s) \in Nat /\ \A p \in i .. Len(s) : s[p] \in S
  BY LenProperties, ElementOfSeq
<1> QED
  BY <1>1, SubSeqProperties

LEMMA Inserted ==
    ASSUME NEW S, NEW s \in Seq(S), NEW e \in S, NEW k \in 1 .. Len(s) + 1
    PROVE  /\ InsertAt(s, k, e) \in Seq(S) /\ Len(InsertAt(s, k, e)) = Len(s) + 1
           /\ \A p \in 1 .. k - 1 : InsertAt(s, k, e)[p] = s[p]
           /\ InsertAt(s, k, e)[k] = e
           /\ \A p \in k + 1 .. Len(s) + 1 : InsertAt(s, k, e)[p] = s[p - 1]
<1> DEFINE N == Len(s)
           f == SubSeq(s, 1, k - 1)
           o == <<e>>
           g == f \o o
           r == SubSeq(s, k, N)
<1>1. N \in Nat
  BY LenProperties
<1>2. /\ f \in Seq(S) /\ Len(f) = k - 1
      /\ \A p \in 1 .. k - 1 : f[p] = s[p]
  <2>1. k - 1 \in 0 .. Len(s)
    BY <1>1
  <2> QED
    BY <2>1, FrontPart
<1>3. /\ r \in Seq(S) /\ Len(r) = N - k + 1
      /\ \A p \in 1 .. N - k + 1 : r[p] = s[k + p - 1]
  BY <1>1, RestPart
<1>4. o \in Seq(S) /\ Len(o) = 1 /\ o[1] = e
  OBVIOUS
<1>5. InsertAt(s, k, e) = g \o r
  BY DEF InsertAt
<1> HIDE DEF f, r, o
<1>6. /\ g \in Seq(S) /\ Len(g) = k
      /\ \A p \in 1 .. k : g[p] = IF p < k THEN s[p] ELSE e
  <2>1. /\ g \in Seq(S) /\ Len(g) = Len(f) + Len(o)
        /\ \A p \in 1 .. Len(f) + Len(o) : g[p] = IF p <= Len(f) THEN f[p] ELSE o[p - Len(f)]
    BY <1>2, <1>4, ConcatProperties
  <2> HIDE DEF g
  <2>2. ASSUME NEW p \in 1 .. k PROVE g[p] = IF p < k THEN s[p] ELSE e
    BY <2>1, <1>1, <1>2, <1>4
  <2> QED
    BY <2>1, <2>2, <1>1, <1>2, <1>4
<1> HIDE DEF g
<1>7. /\ g \o r \in Seq(S) /\ Len(g \o r) = Len(g) + Len(r)
      /\ \A p \in 1 .. Len(g) + Len(r) : (g \o r)[p] = IF p <= Len(g) THEN g[p] ELSE r[p - Len(g)]
  BY <1>3, <1>6, ConcatProperties
<1>8. ASSUME NEW p \in 1 .. N + 1
      PROVE  (g \o r)[p] = IF p < k THEN s[p] ELSE IF p = k THEN e ELSE s[p - 1]
  <2>1. CASE p <= k
    BY <2>1, <1>1, <1>3, <1>6, <1>7
  <2>2. CASE p > k
    <3>1. (g \o r)[p] = r[p - k]
      BY <2>2, <1>1, <1>3, <1>6, <1>7
    <3>2. p - k \in 1 .. N - k + 1 /\ k + (p - k) - 1 = p - 1
      BY <2>2, <1>1
    <3> QED
      BY <3>1, <3>2, <1>1, <1>3, <2>2
  <2>3. p <= k \/ p > k
    BY <1>1
  <2> QED
    BY <2>1, <2>2, <2>3
<1> QED
  BY <1>1, <1>3, <1>5, <1>6, <1>7, <1>8

LEMMA RemovedAt ==
    ASSUME NEW S, NEW s \in Seq(S), NEW k \in 1 .. Len(s)
    PROVE  /\ RemoveAt(s, k) \in Seq(S) /\ Len(RemoveAt(s, k)) = Len(s) - 1
           /\ \A p \in 1 .. k - 1 : RemoveAt(s, k)[p] = s[p]
           /\ \A p \in k .. Len(s) - 1 : RemoveAt(s, k)[p] = s[p + 1]
<1> DEFINE N == Len(s)
           f == SubSeq(s, 1, k - 1)
           r == SubSeq(s, k + 1, N)
<1>1. N \in Nat
  BY LenProperties
<1>2. /\ f \in Seq(S) /\ Len(f) = k - 1
      /\ \A p \in 1 .. k - 1 : f[p] = s[p]
  <2>1. k - 1 \in 0 .. Len(s)
    BY <1>1
  <2> QED
    BY <2>1, FrontPart
<1>3. /\ r \in Seq(S) /\ Len(r) = N - k
      /\ \A p \in 1 .. N - k : r[p] = s[k + 1 + p - 1]
  <2>1. k + 1 \in 1 .. Len(s) + 1 /\ N - (k + 1) + 1 = N - k
    BY <1>1
  <2> QED
    BY <2>1, RestPart
<1>4. RemoveAt(s, k) = f \o r
  BY DEF RemoveAt
<1> HIDE DEF f, r
<1>5. /\ f \o r \in Seq(S) /\ Len(f \o r) = Len(f) + Len(r)
      /\ \A p \in 1 .. Len(f) + Len(r) : (f \o r)[p] = IF p <= Len(f) THEN f[p] ELSE r[p - Len(f)]
  BY <1>2, <1>3, ConcatProperties
<1>6. ASSUME NEW p \in 1 .. N - 1 PROVE (f \o r)[p] = IF p < k THEN s[p] ELSE s[p + 1]
  <2>1. CASE p < k
    BY <2>1, <1>1, <1>2, <1>3, <1>5
  <2>2. CASE p >= k
    <3>1. (f \o r)[p] = r[p - (k - 1)]
      BY <2>2, <1>1, <1>2, <1>3, <1>5
    <3> DEFINE i == p - (k - 1)
    <3>2. i \in 1 .. N - k /\ k + 1 + i - 1 = p + 1 /\ ~(p < k)
      BY <2>2, <1>1
    <3>3. (f \o r)[p] = r[i]
      BY <3>1
    <3> HIDE DEF i
    <3>4. r[i] = s[p + 1]
      BY <3>2, <1>3
    <3> QED
      BY <3>2, <3>3, <3>4
  <2>3. p < k \/ p >= k
    BY <1>1
  <2> QED
    BY <2>1, <2>2, <2>3
<1> QED
  BY <1>1, <1>2, <1>3, <1>4, <1>5, <1>6


-----------------------------------------------------------------------------
(* The list as it is *)

LEMMA Pointing ==
    ASSUME Shape
    PROVE  /\ length \in Nat /\ length = Len(chain) /\ DOMAIN chain = 1 .. length
           /\ head = Nth(1) /\ tail = Nth(length)
           /\ \A p \in 1 .. length :
                /\ chain[p] \in Addr /\ chain[p] # Null
                /\ node[chain[p]] \in Nodes /\ node[chain[p]].value \in Value
                /\ node[chain[p]].next = Nth(p + 1)
                /\ node[chain[p]].prev = Nth(p - 1)
           /\ \A p, q \in 1 .. length : chain[p] = chain[q] => p = q
<1>1. /\ length \in Nat /\ length = Len(chain) /\ DOMAIN chain = 1 .. length
      /\ chain = << >> <=> length = 0
  BY LenProperties, EmptySeq DEF Shape, Typed, Linked
<1>2. head = Nth(1) /\ tail = Nth(length)
  BY <1>1 DEF Shape, Linked, Nth
<1>3. ASSUME NEW p \in 1 .. length
      PROVE  /\ chain[p] \in Addr /\ chain[p] # Null
             /\ node[chain[p]] \in Nodes /\ node[chain[p]].value \in Value
  <2>1. chain[p] \in Addr
    BY <1>1, ElementOfSeq DEF Shape, Typed
  <2> QED
    BY <2>1, AddressAssumption DEF Shape, Typed
<1>4. ASSUME NEW p \in 1 .. length
      PROVE  node[chain[p]].next = Nth(p + 1) /\ node[chain[p]].prev = Nth(p - 1)
  <2>1. /\ node[chain[p]].next = IF p = length THEN Null ELSE chain[p + 1]
        /\ node[chain[p]].prev = IF p = 1 THEN Null ELSE chain[p - 1]
    BY <1>1 DEF Shape, Linked
  <2>2. (p + 1 \in 1 .. length <=> p # length) /\ (p - 1 \in 1 .. length <=> p # 1)
    BY <1>1
  <2> QED
    BY <2>1, <2>2 DEF Nth
<1> QED
  BY <1>1, <1>2, <1>3, <1>4 DEF Shape, Linked

LEMMA NthIsPointer == ASSUME Shape, NEW p \in Int PROVE Nth(p) \in Pointers /\ (Nth(p) # Null <=> p \in 1 .. length)
  BY Pointing, AddressAssumption DEF Nth, Pointers

LEMMA ValuesTyped ==
    ASSUME Shape
    PROVE  /\ Values \in Seq(Value) /\ Len(Values) = length /\ DOMAIN Values = 1 .. length
           /\ \A p \in 1 .. length : Values[p] = node[chain[p]].value
<1>1. /\ length \in Nat /\ DOMAIN chain = 1 .. length
      /\ \A p \in 1 .. length : node[chain[p]].value \in Value
  BY Pointing
<1>2. Values = [p \in 1 .. length |-> node[chain[p]].value]
  BY <1>1 DEF Values
<1>3. Values \in [1 .. length -> Value]
  BY <1>1, <1>2
<1>4. Values \in Seq(Value)
  BY <1>1, <1>3, SeqDef
<1>5. Len(Values) = length
  BY <1>1, <1>3
<1> QED
  BY <1>2, <1>4, <1>5

LEMMA PositionOf == ASSUME Shape, NEW p \in 1 .. length PROVE Position(chain[p]) = p
<1>1. DOMAIN chain = 1 .. length /\ \A q \in 1 .. length : chain[q] = chain[p] => q = p
  BY Pointing
<1> QED
  BY <1>1 DEF Position

LEMMA NewIsFree ==
    ASSUME Shape, Free # {}
    PROVE  New \in Addr /\ New # Null /\ \A p \in 1 .. length : chain[p] # New
<1>1. DOMAIN chain = 1 .. length
  BY Pointing
<1>2. New \in Addr /\ New \in Free
  BY DEF New, Free
<1> QED
  BY <1>1, <1>2, AddressAssumption DEF Free, ToSet

-----------------------------------------------------------------------------
(* What the assignments to pointers do *)

LEMMA SetNextDoes ==
    ASSUME NEW f \in [Addr -> Nodes], NEW a \in Pointers, NEW b \in Pointers
    PROVE  /\ SetNext(f, a, b) \in [Addr -> Nodes]
           /\ \A c \in Addr : /\ SetNext(f, a, b)[c].value = f[c].value
                              /\ SetNext(f, a, b)[c].prev = f[c].prev
                              /\ SetNext(f, a, b)[c].next = IF c = a THEN b ELSE f[c].next
  BY AddressAssumption DEF SetNext, Nodes, Pointers

LEMMA SetPrevDoes ==
    ASSUME NEW f \in [Addr -> Nodes], NEW a \in Pointers, NEW b \in Pointers
    PROVE  /\ SetPrev(f, a, b) \in [Addr -> Nodes]
           /\ \A c \in Addr : /\ SetPrev(f, a, b)[c].value = f[c].value
                              /\ SetPrev(f, a, b)[c].next = f[c].next
                              /\ SetPrev(f, a, b)[c].prev = IF c = a THEN b ELSE f[c].prev
  BY AddressAssumption DEF SetPrev, Nodes, Pointers

LEMMA CollectedDoes ==
    ASSUME NEW f \in [Addr -> Nodes], NEW s \in Seq(Addr)
    PROVE  /\ Collected(f, s) \in [Addr -> Nodes]
           /\ \A p \in 1 .. Len(s) : Collected(f, s)[s[p]] = f[s[p]]
<1>1. DOMAIN s = 1 .. Len(s) /\ \A p \in 1 .. Len(s) : s[p] \in Addr
  BY LenProperties, ElementOfSeq
<1>2. Blank \in Nodes
  BY DEF Blank, Nodes, Pointers
<1> QED
  BY <1>1, <1>2 DEF Collected, ToSet


\* What has to be shown of a step that changes the nodes.
LEMMA StillLinked ==
    ASSUME node' \in [Addr -> Nodes], chain' \in Seq(Addr), length' = Len(chain'),
           head' = IF length' = 0 THEN Null ELSE chain'[1],
           tail' = IF length' = 0 THEN Null ELSE chain'[length'],
           \A p, q \in 1 .. length' : p # q => chain'[p] # chain'[q],
           \A p \in 1 .. length' :
             /\ node'[chain'[p]].value \in Value
             /\ node'[chain'[p]].next = IF p = length' THEN Null ELSE chain'[p + 1]
             /\ node'[chain'[p]].prev = IF p = 1 THEN Null ELSE chain'[p - 1]
    PROVE  Shape'
<1>1. length' \in Nat /\ DOMAIN chain' = 1 .. length' /\ (length' = 0 <=> chain' = << >>)
  BY LenProperties, EmptySeq
<1>2. head' \in Pointers /\ tail' \in Pointers
  <2>1. \A p \in 1 .. length' : chain'[p] \in Addr
    BY ElementOfSeq
  <2> QED
    BY <1>1, <2>1 DEF Pointers
<1>3. Typed'
  BY <1>1, <1>2 DEF Typed
<1>4. Linked'
  BY <1>1 DEF Linked
<1> QED
  BY <1>3, <1>4 DEF Shape

-----------------------------------------------------------------------------
(* A new node *)

LEMMA LinkDoes ==
    ASSUME Shape, Free # {}, NEW m \in 1 .. length + 1, NEW v \in Value, Link(Nth(m - 1), Nth(m), v)
    PROVE  /\ Shape' /\ length' = length + 1
           /\ Values' = InsertAt(Values, m, v)
<1> DEFINE a == Nth(m - 1)
           b == New
           c == Nth(m)
           f == [node EXCEPT ![b] = [value |-> v, prev |-> a, next |-> c]]
           g == SetNext(f, a, b)
<1>1. /\ length \in Nat /\ length = Len(chain) /\ head = Nth(1) /\ tail = Nth(length)
      /\ chain \in Seq(Addr) /\ node \in [Addr -> Nodes]
      /\ \A p \in 1 .. length :
           /\ chain[p] \in Addr /\ chain[p] # Null /\ node[chain[p]].value \in Value
           /\ node[chain[p]].next = Nth(p + 1) /\ node[chain[p]].prev = Nth(p - 1)
      /\ \A p, q \in 1 .. length : chain[p] = chain[q] => p = q
  BY Pointing DEF Shape, Typed
<1>2. b \in Addr /\ b # Null /\ \A p \in 1 .. length : chain[p] # b
  BY NewIsFree
<1>3. /\ a \in Pointers /\ (a = Null <=> m = 1) /\ (m > 1 => a = chain[m - 1])
      /\ c \in Pointers /\ (c = Null <=> m = length + 1) /\ (m <= length => c = chain[m])
  BY <1>1, NthIsPointer DEF Nth
<1>4. a # b /\ c # b
  BY <1>1, <1>2, <1>3
<1>5. node' = SetPrev(g, c, b)
  BY DEF Link
<1>6. chain' = InsertAt(chain, m, b)
  <2>1. CASE m = 1
    BY <2>1, <1>3 DEF Link
  <2>2. CASE m > 1
    <3>1. m - 1 \in 1 .. length /\ a = chain[m - 1] /\ a # Null
      BY <2>2, <1>1, <1>3
    <3>2. Position(a) = m - 1 /\ (m - 1) + 1 = m
      BY <3>1, <1>1, PositionOf
    <3> QED
      BY <3>1, <3>2 DEF Link
  <2> QED
    BY <1>1, <2>1, <2>2
<1>7. /\ head' = IF m = 1 THEN b ELSE chain[1]
      /\ tail' = IF m = length + 1 THEN b ELSE chain[length]
      /\ length' = length + 1
  BY <1>1, <1>3 DEF Link, Nth
<1> HIDE DEF a, b, c
<1>8. /\ node' \in [Addr -> Nodes]
      /\ \A d \in Addr :
           IF d = b THEN node'[d] = [value |-> v, prev |-> a, next |-> c]
           ELSE /\ node'[d].value = node[d].value
                /\ node'[d].next = IF d = a THEN b ELSE node[d].next
                /\ node'[d].prev = IF d = c THEN b ELSE node[d].prev
  <2>1. /\ f \in [Addr -> Nodes] /\ f[b] = [value |-> v, prev |-> a, next |-> c]
        /\ \A d \in Addr : d # b => f[d] = node[d]
    BY <1>1, <1>2, <1>3 DEF Nodes
  <2>2. b \in Pointers
    BY <1>2 DEF Pointers
  <2> HIDE DEF f
  <2>3. /\ g \in [Addr -> Nodes]
        /\ \A d \in Addr : /\ g[d].value = f[d].value /\ g[d].prev = f[d].prev
                           /\ g[d].next = IF d = a THEN b ELSE f[d].next
    BY <2>1, <2>2, <1>3, SetNextDoes
  <2> HIDE DEF g
  <2>4. /\ node' \in [Addr -> Nodes]
        /\ \A d \in Addr : /\ node'[d].value = g[d].value /\ node'[d].next = g[d].next
                           /\ node'[d].prev = IF d = c THEN b ELSE g[d].prev
    BY <2>2, <2>3, <1>3, <1>5, SetPrevDoes
  <2>5. node'[b] \in Nodes /\ node'[b].value = v /\ node'[b].prev = a /\ node'[b].next = c
    BY <2>1, <2>3, <2>4, <1>2, <1>4
  <2>6. node'[b] = [value |-> v, prev |-> a, next |-> c]
    BY <2>5 DEF Nodes
  <2> QED
    BY <2>1, <2>3, <2>4, <2>6
<1>9. /\ chain' \in Seq(Addr) /\ Len(chain') = length + 1
      /\ \A p \in 1 .. length + 1 :
           chain'[p] = IF p < m THEN chain[p] ELSE IF p = m THEN b ELSE chain[p - 1]
  <2>1. m \in 1 .. Len(chain) + 1 /\ chain \in Seq(Addr) /\ b \in Addr
    BY <1>1, <1>2
  <2>2. /\ InsertAt(chain, m, b) \in Seq(Addr) /\ Len(InsertAt(chain, m, b)) = Len(chain) + 1
        /\ \A p \in 1 .. m - 1 : InsertAt(chain, m, b)[p] = chain[p]
        /\ InsertAt(chain, m, b)[m] = b
        /\ \A p \in m + 1 .. Len(chain) + 1 : InsertAt(chain, m, b)[p] = chain[p - 1]
    BY <2>1, Inserted
  <2> QED
    BY <2>2, <1>1, <1>6
<1>10. \A p, q \in 1 .. length' : p # q => chain'[p] # chain'[q]
  <2> SUFFICES ASSUME NEW p \in 1 .. length + 1, NEW q \in 1 .. length + 1, p < q
               PROVE  chain'[p] # chain'[q]
    BY <1>1, <1>7
  <2>1. CASE q < m
    <3>1. p \in 1 .. length /\ q \in 1 .. length /\ p # q /\ chain'[p] = chain[p] /\ chain'[q] = chain[q]
      BY <2>1, <1>1, <1>9
    <3> QED
      BY <3>1, <1>1
  <2>2. CASE p < m /\ q = m
    <3>1. p \in 1 .. length /\ chain'[p] = chain[p] /\ chain'[q] = b
      BY <2>2, <1>1, <1>9
    <3> QED
      BY <3>1, <1>2
  <2>3. CASE p < m /\ q > m
    <3>1. p \in 1 .. length /\ q - 1 \in 1 .. length /\ p # q - 1 /\ chain'[p] = chain[p] /\ chain'[q] = chain[q - 1]
      BY <2>3, <1>1, <1>9
    <3> QED
      BY <3>1, <1>1
  <2>4. CASE p = m
    <3>1. q - 1 \in 1 .. length /\ chain'[p] = b /\ chain'[q] = chain[q - 1]
      BY <2>4, <1>1, <1>9
    <3> QED
      BY <3>1, <1>2
  <2>5. CASE p > m
    <3>1. /\ p - 1 \in 1 .. length /\ q - 1 \in 1 .. length /\ p - 1 # q - 1
          /\ chain'[p] = chain[p - 1] /\ chain'[q] = chain[q - 1]
      BY <2>5, <1>1, <1>9
    <3> QED
      BY <3>1, <1>1
  <2> QED
    BY <2>1, <2>2, <2>3, <2>4, <2>5, <1>1
<1>11. ASSUME NEW p \in 1 .. length'
       PROVE  /\ node'[chain'[p]].value = IF p < m THEN Values[p] ELSE IF p = m THEN v ELSE Values[p - 1]
              /\ node'[chain'[p]].value \in Value
              /\ node'[chain'[p]].next = IF p = length' THEN Null ELSE chain'[p + 1]
              /\ node'[chain'[p]].prev = IF p = 1 THEN Null ELSE chain'[p - 1]
  <2>0. p \in 1 .. length + 1 /\ \A q \in 1 .. length : Values[q] = node[chain[q]].value
    BY <1>7, ValuesTyped
  <2>1. CASE p < m
    <3>1. p \in 1 .. length /\ chain'[p] = chain[p] /\ chain[p] # b /\ chain[p] \in Addr
      BY <2>0, <2>1, <1>1, <1>2, <1>9
    <3>2. chain[p] = a <=> p = m - 1
      <4>1. CASE m > 1
        <5>1. m - 1 \in 1 .. length /\ a = chain[m - 1]
          BY <4>1, <1>1, <1>3
        <5> QED
          BY <5>1, <3>1, <1>1
      <4>2. CASE m = 1
        BY <4>2, <3>1, <2>1, <1>1
      <4> QED
        BY <4>1, <4>2, <1>1
    <3>3. chain[p] # c
      <4>1. CASE m <= length
        <5>1. m \in 1 .. length /\ p # m /\ c = chain[m]
          BY <4>1, <3>1, <2>1, <1>1, <1>3
        <5> QED
          BY <5>1, <3>1, <1>1
      <4>2. CASE m = length + 1
        BY <4>2, <3>1, <1>1, <1>3
      <4> QED
        BY <4>1, <4>2, <1>1
    <3>4. /\ node'[chain[p]].value = node[chain[p]].value
          /\ node'[chain[p]].next = IF p = m - 1 THEN b ELSE Nth(p + 1)
          /\ node'[chain[p]].prev = Nth(p - 1)
      BY <3>1, <3>2, <3>3, <1>1, <1>8
    <3>5. chain'[p + 1] = IF p = m - 1 THEN b ELSE chain[p + 1]
      BY <3>1, <2>1, <1>1, <1>9
    <3>6. p # 1 => chain'[p - 1] = chain[p - 1]
      BY <3>1, <2>1, <1>1, <1>9
    <3> QED
      BY <3>1, <3>4, <3>5, <3>6, <2>0, <2>1, <1>1, <1>7 DEF Nth
  <2>2. CASE p = m
    <3>1. node'[chain'[p]] = [value |-> v, prev |-> a, next |-> c]
      BY <2>0, <2>2, <1>2, <1>8, <1>9
    <3>2. m <= length => chain'[p + 1] = chain[m]
      BY <2>2, <1>1, <1>9
    <3>3. m > 1 => chain'[p - 1] = chain[m - 1]
      <4>1. p - 1 = m - 1 /\ m - 1 < m /\ (m > 1 => m - 1 \in 1 .. length + 1)
        BY <2>2, <1>1
      <4> QED
        BY <4>1, <1>9
    <3> QED
      BY <3>1, <3>2, <3>3, <2>2, <1>1, <1>3, <1>7
  <2>3. CASE p > m
    <3>1. p - 1 \in 1 .. length /\ chain'[p] = chain[p - 1] /\ chain[p - 1] # b /\ chain[p - 1] \in Addr
      BY <2>0, <2>3, <1>1, <1>2, <1>9
    <3>2. chain[p - 1] = c <=> p - 1 = m
      BY <3>1, <2>3, <1>1, <1>3
    <3>3. chain[p - 1] # a
      <4>1. m > 1 => m - 1 \in 1 .. length /\ p - 1 # m - 1
        BY <3>1, <2>3, <1>1
      <4> QED
        BY <4>1, <3>1, <1>1, <1>3
    <3>4. /\ node'[chain[p - 1]].value = node[chain[p - 1]].value
          /\ node'[chain[p - 1]].next = Nth(p)
          /\ node'[chain[p - 1]].prev = IF p - 1 = m THEN b ELSE Nth(p - 2)
      BY <3>1, <3>2, <3>3, <1>1, <1>8
    <3>5. p # length + 1 => chain'[p + 1] = chain[p]
      BY <3>1, <2>3, <1>1, <1>9
    <3>6. chain'[p - 1] = IF p - 1 = m THEN b ELSE chain[p - 2]
      BY <3>1, <2>3, <1>1, <1>9
    <3> QED
      BY <3>1, <3>4, <3>5, <3>6, <2>0, <2>3, <1>1, <1>7, SMTT(30) DEF Nth
  <2> QED
    BY <2>0, <2>1, <2>2, <2>3, <1>1
<1>12. Shape'
  <2>1. /\ head' = IF length' = 0 THEN Null ELSE chain'[1]
        /\ tail' = IF length' = 0 THEN Null ELSE chain'[length']
    BY <1>1, <1>7, <1>9
  <2> QED
    BY <2>1, <1>7, <1>8, <1>9, <1>10, <1>11, StillLinked
<1>13. Values' = InsertAt(Values, m, v)
  <2>1. Values' = [p \in 1 .. length + 1 |-> node'[chain'[p]].value]
    BY <1>1, <1>9, LenProperties DEF Values
  <2>2. Values' \in [1 .. length + 1 -> Value] /\ length + 1 \in Nat
    BY <2>1, <1>1, <1>7, <1>11
  <2>3. Values' \in Seq(Value) /\ Len(Values') = length + 1
    BY <2>2, SeqDef
  <2>4. /\ InsertAt(Values, m, v) \in Seq(Value) /\ Len(InsertAt(Values, m, v)) = length + 1
        /\ \A p \in 1 .. length + 1 : InsertAt(Values, m, v)[p] =
               IF p < m THEN Values[p] ELSE IF p = m THEN v ELSE Values[p - 1]
    <3>0. Values \in Seq(Value) /\ Len(Values) = length
      BY ValuesTyped
    <3>1. Values \in Seq(Value) /\ m \in 1 .. Len(Values) + 1 /\ v \in Value
      BY <3>0
    <3>2. /\ InsertAt(Values, m, v) \in Seq(Value) /\ Len(InsertAt(Values, m, v)) = Len(Values) + 1
          /\ \A p \in 1 .. m - 1 : InsertAt(Values, m, v)[p] = Values[p]
          /\ InsertAt(Values, m, v)[m] = v
          /\ \A p \in m + 1 .. Len(Values) + 1 : InsertAt(Values, m, v)[p] = Values[p - 1]
      <4>1. Len(Values) \in Nat
        BY <3>0, <1>1
      <4> QED
        BY <3>1, <4>1, Inserted
    <3> QED
      BY <3>0, <3>2
  <2>5. \A p \in 1 .. length + 1 : Values'[p] = InsertAt(Values, m, v)[p]
    BY <2>1, <2>4, <1>7, <1>11
  <2> QED
    BY <2>3, <2>4, <2>5, SeqEqual
<1> QED
  BY <1>7, <1>12, <1>13


-----------------------------------------------------------------------------
(* A node less *)

LEMMA UnlinkDoes ==
    ASSUME Shape, NEW k \in 1 .. length, Unlink(Nth(k), Nth(k - 1), Nth(k + 1))
    PROVE  /\ Shape' /\ length' = length - 1
           /\ Values' = RemoveAt(Values, k)
           /\ \A p \in 1 .. k - 1 : chain'[p] = chain[p]
           /\ \A p \in k .. length - 1 : chain'[p] = chain[p + 1]
<1> DEFINE a == Nth(k - 1)
           c == Nth(k + 1)
           f == SetNext(node, a, c)
           g == SetPrev(f, c, a)
<1>1. /\ length \in Nat /\ length = Len(chain) /\ head = Nth(1) /\ tail = Nth(length)
      /\ chain \in Seq(Addr) /\ node \in [Addr -> Nodes]
      /\ \A p \in 1 .. length :
           /\ chain[p] \in Addr /\ chain[p] # Null /\ node[chain[p]].value \in Value
           /\ node[chain[p]].next = Nth(p + 1) /\ node[chain[p]].prev = Nth(p - 1)
      /\ \A p, q \in 1 .. length : chain[p] = chain[q] => p = q
  BY Pointing DEF Shape, Typed
<1>2. /\ a \in Pointers /\ (a = Null <=> k = 1) /\ (k > 1 => a = chain[k - 1])
      /\ c \in Pointers /\ (c = Null <=> k = length) /\ (k < length => c = chain[k + 1])
  <2>1. k - 1 \in Int /\ k + 1 \in Int /\ (k - 1 \in 1 .. length <=> k # 1) /\ (k + 1 \in 1 .. length <=> k # length)
    BY <1>1
  <2> QED
    BY <2>1, <1>1, NthIsPointer DEF Nth
<1>3. chain' = RemoveAt(chain, k)
  <2>1. Nth(k) = chain[k] /\ Position(chain[k]) = k
    BY PositionOf DEF Nth
  <2> QED
    BY <2>1 DEF Unlink
<1>4. node' = Collected(g, chain')
  BY DEF Unlink
<1>5. /\ head' = IF k = 1 THEN c ELSE head
      /\ tail' = IF k = length THEN a ELSE tail
      /\ length' = length - 1
  BY <1>2 DEF Unlink
<1> HIDE DEF a, c
<1>6. /\ chain' \in Seq(Addr) /\ Len(chain') = length - 1 /\ length - 1 \in Nat
      /\ \A p \in 1 .. k - 1 : chain'[p] = chain[p]
      /\ \A p \in k .. length - 1 : chain'[p] = chain[p + 1]
  <2>1. k \in 1 .. Len(chain) /\ chain \in Seq(Addr)
    BY <1>1
  <2>2. /\ RemoveAt(chain, k) \in Seq(Addr) /\ Len(RemoveAt(chain, k)) = Len(chain) - 1
        /\ \A p \in 1 .. k - 1 : RemoveAt(chain, k)[p] = chain[p]
        /\ \A p \in k .. Len(chain) - 1 : RemoveAt(chain, k)[p] = chain[p + 1]
    BY <2>1, RemovedAt
  <2> QED
    BY <2>2, <1>1, <1>3
<1>7. \A p \in 1 .. length - 1 : chain'[p] = IF p < k THEN chain[p] ELSE chain[p + 1]
  BY <1>1, <1>6
<1>8. /\ node' \in [Addr -> Nodes]
      /\ \A p \in 1 .. length - 1 :
           LET d == chain'[p] IN
           /\ node'[d].value = node[d].value
           /\ node'[d].next = IF d = a THEN c ELSE node[d].next
           /\ node'[d].prev = IF d = c THEN a ELSE node[d].prev
  <2>1. /\ f \in [Addr -> Nodes]
        /\ \A d \in Addr : /\ f[d].value = node[d].value /\ f[d].prev = node[d].prev
                           /\ f[d].next = IF d = a THEN c ELSE node[d].next
    BY <1>1, <1>2, SetNextDoes
  <2> HIDE DEF f
  <2>2. /\ g \in [Addr -> Nodes]
        /\ \A d \in Addr : /\ g[d].value = f[d].value /\ g[d].next = f[d].next
                           /\ g[d].prev = IF d = c THEN a ELSE f[d].prev
    BY <2>1, <1>2, SetPrevDoes
  <2> HIDE DEF g
  <2>3. node' \in [Addr -> Nodes] /\ \A p \in 1 .. length - 1 : node'[chain'[p]] = g[chain'[p]]
    BY <2>2, <1>4, <1>6, CollectedDoes
  <2>4. \A p \in 1 .. length - 1 : chain'[p] \in Addr
    BY <1>6, ElementOfSeq
  <2> QED
    BY <2>1, <2>2, <2>3, <2>4
<1>9. \A p, q \in 1 .. length' : p # q => chain'[p] # chain'[q]
  <2> SUFFICES ASSUME NEW p \in 1 .. length - 1, NEW q \in 1 .. length - 1, p < q
               PROVE  chain'[p] # chain'[q]
    BY <1>1, <1>5
  <2>1. PICK i \in 1 .. length : chain'[p] = chain[i] /\ i = IF p < k THEN p ELSE p + 1
    BY <1>1, <1>7, SMTT(30)
  <2>2. PICK j \in 1 .. length : chain'[q] = chain[j] /\ j = IF q < k THEN q ELSE q + 1
    BY <1>1, <1>7, SMTT(30)
  <2>3. i # j
    BY <2>1, <2>2
  <2> QED
    BY <2>1, <2>2, <2>3, <1>1
<1>10. ASSUME NEW p \in 1 .. length'
       PROVE  /\ node'[chain'[p]].value = IF p < k THEN Values[p] ELSE Values[p + 1]
              /\ node'[chain'[p]].value \in Value
              /\ node'[chain'[p]].next = IF p = length' THEN Null ELSE chain'[p + 1]
              /\ node'[chain'[p]].prev = IF p = 1 THEN Null ELSE chain'[p - 1]
  <2>0. p \in 1 .. length - 1 /\ \A q \in 1 .. length : Values[q] = node[chain[q]].value
    BY <1>5, ValuesTyped
  <2>1. CASE p < k
    <3>1. p \in 1 .. length /\ chain'[p] = chain[p] /\ chain[p] \in Addr
      <4>1. p \in 1 .. length /\ p \in 1 .. k - 1
        BY <2>0, <2>1, <1>1
      <4> QED
        BY <4>1, <1>1, <1>6
    <3>2. chain[p] = a <=> p = k - 1
      <4>1. CASE k > 1
        <5>1. k - 1 \in 1 .. length /\ a = chain[k - 1]
          BY <4>1, <1>1, <1>2
        <5> QED
          BY <5>1, <3>1, <1>1
      <4>2. CASE k = 1
        BY <4>2, <2>0, <2>1
      <4> QED
        BY <4>1, <4>2
    <3>3. chain[p] # c
      <4>1. CASE k < length
        <5>1. k + 1 \in 1 .. length /\ c = chain[k + 1] /\ p # k + 1
          BY <4>1, <2>1, <1>1, <1>2
        <5> QED
          BY <5>1, <3>1, <1>1
      <4>2. CASE k = length
        BY <4>2, <3>1, <1>1, <1>2
      <4> QED
        BY <4>1, <4>2, <1>1
    <3>4. /\ node'[chain[p]].value = node[chain[p]].value
          /\ node'[chain[p]].next = IF p = k - 1 THEN c ELSE Nth(p + 1)
          /\ node'[chain[p]].prev = Nth(p - 1)
      <4>1. /\ node'[chain[p]].value = node[chain[p]].value
            /\ node'[chain[p]].next = IF chain[p] = a THEN c ELSE node[chain[p]].next
            /\ node'[chain[p]].prev = IF chain[p] = c THEN a ELSE node[chain[p]].prev
        BY <2>0, <3>1, <1>8
      <4> QED
        BY <4>1, <3>1, <3>2, <3>3, <1>1
    <3>5. p # length - 1 => chain'[p + 1] = IF p = k - 1 THEN chain[k + 1] ELSE chain[p + 1]
      <4>1. p # length - 1 => p + 1 \in 1 .. length - 1 /\ (p + 1 < k <=> p # k - 1)
        BY <2>0, <2>1, <1>1
      <4> QED
        BY <4>1, <1>7
    <3>6. p # 1 => chain'[p - 1] = chain[p - 1]
      BY <3>1, <2>1, <1>1, <1>6
    <3> QED
      BY <3>1, <3>4, <3>5, <3>6, <2>0, <2>1, <1>1, <1>2, <1>5, SMTT(30) DEF Nth
  <2>2. CASE p >= k
    <3>1. p + 1 \in 1 .. length /\ chain'[p] = chain[p + 1] /\ chain[p + 1] \in Addr
      BY <2>0, <2>2, <1>1, <1>6
    <3>2. chain[p + 1] = c <=> p = k
      <4>1. k + 1 \in 1 .. length /\ c = chain[k + 1]
        BY <2>0, <2>2, <1>1, <1>2
      <4> QED
        BY <4>1, <3>1, <1>1
    <3>3. chain[p + 1] # a
      <4>1. CASE k > 1
        <5>1. k - 1 \in 1 .. length /\ a = chain[k - 1] /\ p + 1 # k - 1
          BY <4>1, <2>2, <1>1, <1>2
        <5> QED
          BY <5>1, <3>1, <1>1
      <4>2. CASE k = 1
        BY <4>2, <3>1, <1>1, <1>2
      <4> QED
        BY <4>1, <4>2
    <3>4. /\ node'[chain[p + 1]].value = node[chain[p + 1]].value
          /\ node'[chain[p + 1]].next = Nth(p + 2)
          /\ node'[chain[p + 1]].prev = IF p = k THEN a ELSE Nth(p)
      <4>1. LET d == chain[p + 1] IN
            /\ node'[d].value = node[d].value
            /\ node'[d].next = IF d = a THEN c ELSE node[d].next
            /\ node'[d].prev = IF d = c THEN a ELSE node[d].prev
        BY <2>0, <3>1, <1>8
      <4>2. node[chain[p + 1]].next = Nth(p + 2) /\ node[chain[p + 1]].prev = Nth(p)
        <5>1. (p + 1) + 1 = p + 2 /\ (p + 1) - 1 = p
          BY <2>0
        <5> QED
          BY <5>1, <3>1, <1>1
      <4> QED
        BY <4>1, <4>2, <3>2, <3>3
    <3>5. p # length - 1 => chain'[p + 1] = chain[p + 2]
      BY <2>0, <2>2, <1>1, <1>6
    <3>6. p # 1 => chain'[p - 1] = IF p = k THEN chain[k - 1] ELSE chain[p]
      <4>1. p # 1 => p - 1 \in 1 .. length - 1 /\ (p - 1 < k <=> p = k) /\ (p - 1) + 1 = p
        BY <2>0, <2>2, <1>1
      <4> QED
        BY <4>1, <1>7
    <3>7. p \in 1 .. length
      BY <2>0, <1>1
    <3> QED
      BY <3>1, <3>4, <3>5, <3>6, <3>7, <2>0, <2>2, <1>1, <1>2, <1>5, SMTT(30) DEF Nth
  <2> QED
    BY <2>0, <2>1, <2>2
<1>11. Shape'
  <2>1. head' = IF length' = 0 THEN Null ELSE chain'[1]
    BY <1>1, <1>2, <1>5, <1>6 DEF Nth
  <2>2. tail' = IF length' = 0 THEN Null ELSE chain'[length']
    BY <1>1, <1>2, <1>5, <1>6 DEF Nth
  <2> QED
    BY <2>1, <2>2, <1>5, <1>6, <1>8, <1>9, <1>10, StillLinked
<1>12. Values' = RemoveAt(Values, k)
  <2>1. Values' = [p \in 1 .. length - 1 |-> node'[chain'[p]].value]
    BY <1>6, LenProperties DEF Values
  <2>2. Values' \in [1 .. length - 1 -> Value]
    BY <2>1, <1>5, <1>10
  <2>3. Values' \in Seq(Value) /\ Len(Values') = length - 1
    BY <2>2, <1>6, SeqDef
  <2>4. Values \in Seq(Value) /\ Len(Values) = length /\ k \in 1 .. Len(Values)
    BY ValuesTyped
  <2>5. /\ RemoveAt(Values, k) \in Seq(Value) /\ Len(RemoveAt(Values, k)) = Len(Values) - 1
        /\ \A p \in 1 .. k - 1 : RemoveAt(Values, k)[p] = Values[p]
        /\ \A p \in k .. Len(Values) - 1 : RemoveAt(Values, k)[p] = Values[p + 1]
    BY <2>4, RemovedAt
  <2>6. \A p \in 1 .. length - 1 : Values'[p] = RemoveAt(Values, k)[p]
    BY <2>1, <2>4, <2>5, <1>1, <1>5, <1>10
  <2> QED
    BY <2>3, <2>4, <2>5, <2>6, SeqEqual
<1> QED
  BY <1>5, <1>6, <1>11, <1>12


-----------------------------------------------------------------------------
(* The other changes *)

LEMMA Kept ==
    ASSUME UNCHANGED list
    PROVE  /\ (Shape' <=> Shape) /\ Values' = Values /\ Free' = Free
           /\ \A p : Nth(p)' = Nth(p)
           /\ \A i : FromEnd(i)' = FromEnd(i) /\ Lower(i)' = Lower(i) /\ Upper(i)' = Upper(i)
  BY DEF list, Shape, Typed, Linked, Values, Nth, Free, FromEnd, Lower, Upper

LEMMA SetDoes ==
    ASSUME Shape, NEW k \in 1 .. length, NEW v \in Value,
           node' = [node EXCEPT ![chain[k]].value = v], UNCHANGED <<head, tail, length, chain>>
    PROVE  Shape' /\ Values' = [Values EXCEPT ![k] = v]
<1>1. /\ length \in Nat /\ length = Len(chain) /\ head = Nth(1) /\ tail = Nth(length)
      /\ chain \in Seq(Addr) /\ node \in [Addr -> Nodes] /\ DOMAIN chain = 1 .. length
      /\ \A p \in 1 .. length :
           /\ chain[p] \in Addr /\ node[chain[p]].value \in Value
           /\ node[chain[p]].next = Nth(p + 1) /\ node[chain[p]].prev = Nth(p - 1)
      /\ \A p, q \in 1 .. length : chain[p] = chain[q] => p = q
  BY Pointing DEF Shape, Typed
<1>2. /\ node' \in [Addr -> Nodes]
      /\ \A d \in Addr : /\ node'[d].next = node[d].next /\ node'[d].prev = node[d].prev
                         /\ node'[d].value = IF d = chain[k] THEN v ELSE node[d].value
  BY <1>1 DEF Nodes
<1>3. \A p \in 1 .. length : node'[chain[p]].value = IF p = k THEN v ELSE node[chain[p]].value
  BY <1>1, <1>2
<1>4. Shape'
  <2>1. Typed'
    BY <1>1, <1>2, <1>3 DEF Typed, Shape
  <2>2. Linked'
    BY <1>1, <1>2 DEF Linked, Shape
  <2> QED
    BY <2>1, <2>2 DEF Shape
<1>5. Values' = [Values EXCEPT ![k] = v]
  <2>1. Values' = [p \in 1 .. length |-> node'[chain[p]].value]
    BY <1>1 DEF Values
  <2>2. Values = [p \in 1 .. length |-> node[chain[p]].value]
    BY <1>1 DEF Values
  <2> QED
    BY <2>1, <2>2, <1>3
<1> QED
  BY <1>4, <1>5

LEMMA TrimDoes ==
    ASSUME Shape, NEW lo \in 1 .. length, NEW hi \in lo .. length,
           chain' = SubSeq(chain, lo, hi),
           node' = Collected(SetNext(SetPrev(node, chain[lo], Null), chain[hi], Null), chain'),
           head' = chain[lo], tail' = chain[hi], length' = hi - lo + 1
    PROVE  /\ Shape' /\ Values' = SubSeq(Values, lo, hi)
<1> DEFINE a == chain[lo]
           c == chain[hi]
           f == SetPrev(node, a, Null)
           g == SetNext(f, c, Null)
           N == hi - lo + 1
<1>1. /\ length \in Nat /\ length = Len(chain)
      /\ chain \in Seq(Addr) /\ node \in [Addr -> Nodes]
      /\ \A p \in 1 .. length :
           /\ chain[p] \in Addr /\ node[chain[p]].value \in Value
           /\ node[chain[p]].next = Nth(p + 1) /\ node[chain[p]].prev = Nth(p - 1)
      /\ \A p, q \in 1 .. length : chain[p] = chain[q] => p = q
  BY Pointing DEF Shape, Typed
<1>2. lo \in 1 .. length /\ hi \in 1 .. length /\ lo <= hi /\ a \in Pointers /\ c \in Pointers /\ Null \in Pointers
  BY <1>1 DEF Pointers
<1>3. /\ chain' \in Seq(Addr) /\ Len(chain') = N /\ N \in Nat /\ N > 0 /\ length' = N
      /\ \A p \in 1 .. N : chain'[p] = chain[lo + p - 1] /\ lo + p - 1 \in 1 .. length
  <2>1. lo \in Int /\ hi \in Int /\ \A p \in lo .. hi : chain[p] \in Addr
    BY <1>1, <1>2
  <2>2. /\ chain' \in Seq(Addr) /\ Len(chain') = N
        /\ \A p \in 1 .. N : chain'[p] = chain[lo + p - 1]
    BY <2>1, <1>2, SubSeqProperties
  <2> QED
    BY <2>2, <1>1, <1>2, SMTT(30)
<1> HIDE DEF N
<1>4. /\ node' \in [Addr -> Nodes]
      /\ \A p \in 1 .. N :
           LET d == chain'[p] IN
           /\ node'[d].value = node[d].value
           /\ node'[d].next = IF d = c THEN Null ELSE node[d].next
           /\ node'[d].prev = IF d = a THEN Null ELSE node[d].prev
  <2>0. node' = Collected(g, chain')
    OBVIOUS
  <2> HIDE DEF a, c
  <2>1. /\ f \in [Addr -> Nodes]
        /\ \A d \in Addr : /\ f[d].value = node[d].value /\ f[d].next = node[d].next
                           /\ f[d].prev = IF d = a THEN Null ELSE node[d].prev
    <3>1. node \in [Addr -> Nodes] /\ a \in Pointers /\ Null \in Pointers
      BY <1>1, <1>2
    <3> QED
      BY <3>1, SetPrevDoes
  <2> HIDE DEF f
  <2>2. /\ g \in [Addr -> Nodes]
        /\ \A d \in Addr : /\ g[d].value = f[d].value /\ g[d].prev = f[d].prev
                           /\ g[d].next = IF d = c THEN Null ELSE f[d].next
    <3>1. f \in [Addr -> Nodes] /\ c \in Pointers /\ Null \in Pointers
      BY <2>1, <1>2
    <3> QED
      BY <3>1, SetNextDoes
  <2> HIDE DEF g
  <2>3. node' \in [Addr -> Nodes] /\ \A p \in 1 .. N : node'[chain'[p]] = g[chain'[p]]
    <3>1. g \in [Addr -> Nodes] /\ chain' \in Seq(Addr) /\ Len(chain') = N
      BY <2>2, <1>3
    <3>2. Collected(g, chain') \in [Addr -> Nodes] /\ \A p \in 1 .. Len(chain') : Collected(g, chain')[chain'[p]] = g[chain'[p]]
      BY <3>1, CollectedDoes
    <3> QED
      BY <2>0, <3>1, <3>2
  <2>4. \A d \in Addr : /\ g[d].value = node[d].value
                        /\ g[d].next = IF d = c THEN Null ELSE node[d].next
                        /\ g[d].prev = IF d = a THEN Null ELSE node[d].prev
    BY <2>1, <2>2
  <2>5. \A p \in 1 .. N : chain'[p] \in Addr
    BY <1>3, ElementOfSeq
  <2> QED
    BY <2>3, <2>4, <2>5, ZenonT(60)
<1>5. \A p, q \in 1 .. N : p # q => chain'[p] # chain'[q]
  <2> SUFFICES ASSUME NEW p \in 1 .. N, NEW q \in 1 .. N, p # q PROVE chain'[p] # chain'[q]
    OBVIOUS
  <2> DEFINE i == lo + p - 1
             j == lo + q - 1
  <2>1. i # j
    BY <1>2
  <2>2. chain'[p] = chain[i] /\ i \in 1 .. length /\ chain'[q] = chain[j] /\ j \in 1 .. length
    BY <1>3
  <2> HIDE DEF i, j
  <2> QED
    BY <2>1, <2>2, <1>1
<1>6. ASSUME NEW p \in 1 .. N
      PROVE  /\ node'[chain'[p]].value = Values[lo + p - 1]
             /\ node'[chain'[p]].value \in Value
             /\ node'[chain'[p]].next = IF p = N THEN Null ELSE chain'[p + 1]
             /\ node'[chain'[p]].prev = IF p = 1 THEN Null ELSE chain'[p - 1]
  <2> DEFINE i == lo + p - 1
  <2>1. i \in 1 .. length /\ chain'[p] = chain[i] /\ i - 1 = lo + (p - 1) - 1 /\ i + 1 = lo + (p + 1) - 1
    <3>1. i \in 1 .. length /\ chain'[p] = chain[i]
      BY <1>3
    <3>2. p \in Int /\ lo \in Int
      BY <1>2
    <3> QED
      BY <3>1, <3>2
  <2>2. (i = hi <=> p = N) /\ (i = lo <=> p = 1) /\ (p # 1 => p - 1 \in 1 .. N) /\ (p # N => p + 1 \in 1 .. N)
    BY <1>2 DEF N
  <2> HIDE DEF i
  <2>3. (p # 1 => chain'[p - 1] = chain[i - 1] /\ i - 1 \in 1 .. length)
           /\ (p # N => chain'[p + 1] = chain[i + 1] /\ i + 1 \in 1 .. length)
    BY <2>1, <2>2, <1>3
  <2>4. (chain[i] = c <=> p = N) /\ (chain[i] = a <=> p = 1)
    BY <2>1, <2>2, <1>1, <1>2
  <2>5. /\ node'[chain[i]].value = node[chain[i]].value
        /\ node'[chain[i]].next = IF p = N THEN Null ELSE Nth(i + 1)
        /\ node'[chain[i]].prev = IF p = 1 THEN Null ELSE Nth(i - 1)
    <3>0. LET d == chain'[p] IN
          /\ node'[d].value = node[d].value
          /\ node'[d].next = IF d = c THEN Null ELSE node[d].next
          /\ node'[d].prev = IF d = a THEN Null ELSE node[d].prev
      BY <1>4
    <3>1. LET d == chain[i] IN
          /\ node'[d].value = node[d].value
          /\ node'[d].next = IF d = c THEN Null ELSE node[d].next
          /\ node'[d].prev = IF d = a THEN Null ELSE node[d].prev
      BY <2>1, <3>0
    <3>2. node[chain[i]].next = Nth(i + 1) /\ node[chain[i]].prev = Nth(i - 1)
      BY <2>1, <1>1
    <3> QED
      BY <2>4, <3>1, <3>2
  <2>6. Values[i] = node[chain[i]].value
    BY <2>1, ValuesTyped
  <2>7. (p # 1 => Nth(i - 1) = chain'[p - 1]) /\ (p # N => Nth(i + 1) = chain'[p + 1])
    BY <2>3 DEF Nth
  <2> QED
    BY <2>1, <2>5, <2>6, <2>7, <1>1 DEF i
<1>7. Shape'
  <2>1. head' = chain'[1] /\ tail' = chain'[length']
    <3>1. 1 \in 1 .. N /\ lo + 1 - 1 = lo /\ N \in 1 .. N /\ lo + N - 1 = hi
      BY <1>2, <1>3 DEF N
    <3>2. chain'[1] = chain[lo + 1 - 1] /\ chain'[N] = chain[lo + N - 1]
      BY <3>1, <1>3
    <3> QED
      BY <3>1, <3>2
  <2>2. length' # 0
    BY <1>3
  <2> QED
    <3>1. /\ head' = IF length' = 0 THEN Null ELSE chain'[1]
          /\ tail' = IF length' = 0 THEN Null ELSE chain'[length']
      BY <2>1, <2>2
    <3>2. /\ length' = Len(chain')
          /\ \A p, q \in 1 .. length' : p # q => chain'[p] # chain'[q]
          /\ \A p \in 1 .. length' :
               /\ node'[chain'[p]].value \in Value
               /\ node'[chain'[p]].next = IF p = length' THEN Null ELSE chain'[p + 1]
               /\ node'[chain'[p]].prev = IF p = 1 THEN Null ELSE chain'[p - 1]
      <4>1. length' = N /\ Len(chain') = N
        BY <1>3
      <4> HIDE DEF N
      <4>2. \A p, q \in 1 .. length' : p # q => chain'[p] # chain'[q]
        BY <4>1, <1>5
      <4>3. ASSUME NEW p \in 1 .. length'
            PROVE  /\ node'[chain'[p]].value \in Value
                   /\ node'[chain'[p]].next = IF p = length' THEN Null ELSE chain'[p + 1]
                   /\ node'[chain'[p]].prev = IF p = 1 THEN Null ELSE chain'[p - 1]
        <5>1. p \in 1 .. N
          BY <4>1
        <5> QED
          BY <5>1, <4>1, <1>6
      <4> QED
        BY <4>1, <4>2, <4>3
    <3> QED
      BY <3>1, <3>2, <1>3, <1>4, StillLinked
<1>8. Values' = SubSeq(Values, lo, hi)
  <2>1. Values' = [p \in 1 .. N |-> node'[chain'[p]].value]
    BY <1>3, LenProperties DEF Values
  <2>2. Values' \in Seq(Value) /\ Len(Values') = N
    <3>1. Values' \in [1 .. N -> Value]
      BY <2>1, <1>6
    <3> QED
      BY <3>1, <1>3, SeqDef
  <2>3. lo \in Int /\ hi \in Int /\ \A p \in lo .. hi : Values[p] \in Value
    BY <1>1, <1>2, ValuesTyped
  <2>4. /\ SubSeq(Values, lo, hi) \in Seq(Value) /\ Len(SubSeq(Values, lo, hi)) = N
        /\ \A p \in 1 .. N : SubSeq(Values, lo, hi)[p] = Values[lo + p - 1]
    BY <2>3, <1>2, SubSeqProperties DEF N
  <2>5. \A p \in 1 .. N : Values'[p] = SubSeq(Values, lo, hi)[p]
    BY <2>1, <2>4, <1>6
  <2> QED
    BY <2>2, <2>4, <2>5, SeqEqual
<1> QED
  BY <1>7, <1>8

LEMMA EmptyDoes ==
    ASSUME Shape, node' = Collected(node, << >>), chain' = << >>, head' = Null, tail' = Null, length' = 0
    PROVE  Shape' /\ Values' = << >>
<1>1. node' \in [Addr -> Nodes]
  BY EmptySeq, CollectedDoes DEF Shape, Typed
<1>2. chain' \in Seq(Addr) /\ Len(chain') = 0
  BY EmptySeq
<1>3. Shape'
  BY <1>1, <1>2, StillLinked
<1>4. Values' = << >>
  <2>1. DOMAIN chain' = {} /\ 1 .. 0 = {}
    BY <1>2, LenProperties
  <2>2. Values' \in [1 .. 0 -> Value] /\ 0 \in Nat
    BY <2>1 DEF Values
  <2>3. Values' \in Seq(Value) /\ Len(Values') = 0
    BY <2>2, SeqDef
  <2> QED
    BY <2>3, EmptySeq
<1> QED
  BY <1>3, <1>4


-----------------------------------------------------------------------------
(* The loops *)

LEMMA InLoop ==
    ASSUME call \in Loops
    PROVE  /\ call.op = "none" => call = Idle
           /\ call.op \in Seekers \ {"TrimEnd"} =>
                call \in [op : Seekers \ {"TrimEnd"}, args : Args, to : Nat, at : Addr, i : Nat]
           /\ call.op = "TrimEnd" =>
                call \in [op : {"TrimEnd"}, args : Args, to : Nat, at : Addr, i : Nat, first : Addr]
           /\ call.op = "Collect" =>
                call \in [op : {"Collect"}, args : Args, at : Pointers, i : Nat, result : Seq(Value)]
           /\ call.op \in Inserters => call \in [op : Inserters, args : Args, at : Pointers]
           /\ call.op = "Remove" =>
                call \in [op : {"Remove"}, args : Args, at : Pointers, removed : Nat, was : Seq(Value)]
  BY DEF Loops, Idle, Seekers, Inserters

\* An operation that returns leaves nothing but the list.
LEMMA Returned == ASSUME Shape', call' = Idle PROVE Inductive'
  BY DEF Inductive, Loops, Idle, Seeking, Collecting, Inserting, Removing, Seekers, Inserters

LEMMA Bounds ==
    ASSUME Shape, NEW i \in Ints, NEW j \in Ints
    PROVE  /\ FromEnd(i) \in Int /\ Lower(i) \in Nat /\ Upper(j) \in Int /\ Upper(j) <= length - 1
           /\ Lower(i) <= Upper(j) => Lower(i) \in 0 .. length - 1 /\ Upper(j) \in 0 .. length - 1
<1>1. length \in Nat /\ i \in Int /\ j \in Int
  BY IntsAssumption DEF Shape, Typed
<1> QED
  BY <1>1 DEF FromEnd, Lower, Upper

LEMMA SeekStarts ==
    ASSUME Shape, NEW op, NEW args, NEW index \in 0 .. length - 1
    PROVE  /\ Seek(op, args, index) \in [op : {op}, args : {args}, to : {index}, at : Addr, i : 0 .. length - 1]
           /\ Seek(op, args, index).at = chain[Seek(op, args, index).i + 1]
<1>1. /\ length \in Nat /\ head = Nth(1) /\ tail = Nth(length)
      /\ \A p \in 1 .. length : chain[p] \in Addr
  BY Pointing
<1>2. 1 \in 1 .. length /\ length \in 1 .. length /\ 0 \in 0 .. length - 1 /\ length - 1 \in 0 .. length - 1
  BY <1>1
<1>3. head = chain[0 + 1] /\ head \in Addr /\ tail = chain[length - 1 + 1] /\ tail \in Addr
  <2>1. head = chain[1] /\ tail = chain[length]
    BY <1>1, <1>2 DEF Nth
  <2>2. 0 + 1 = 1 /\ length - 1 + 1 = length
    BY <1>1
  <2> QED
    BY <2>1, <2>2, <1>1, <1>2
<1> DEFINE near == index < length \div 2
<1>4. Seek(op, args, index) = [op |-> op, args |-> args, to |-> index,
                               at |-> IF near THEN head ELSE tail, i |-> IF near THEN 0 ELSE length - 1]
  BY DEF Seek
<1> HIDE DEF near
<1>5. CASE near
  BY <1>2, <1>3, <1>4, <1>5
<1>6. CASE ~near
  BY <1>2, <1>3, <1>4, <1>6
<1> QED
  BY <1>5, <1>6

\* A loop of nodeAt is in progress.
LEMMA StillSeeking ==
    ASSUME Shape', call' \in Loops, call'.op \in Seekers, Seeking' PROVE Inductive'
<1>1. call'.op \notin Inserters \cup {"Collect", "Remove"}
  BY DEF Seekers, Inserters
<1> QED
  BY <1>1 DEF Inductive, Collecting, Inserting, Removing

LEMMA StillCollecting ==
    ASSUME Shape', call' \in Loops, call'.op = "Collect", Collecting' PROVE Inductive'
<1>1. call'.op \notin Inserters \cup Seekers \cup {"Remove"}
  BY DEF Seekers, Inserters
<1> QED
  BY <1>1 DEF Inductive, Seeking, Inserting, Removing

LEMMA StillInserting ==
    ASSUME Shape', call' \in Loops, call'.op \in Inserters, Inserting' PROVE Inductive'
<1>1. call'.op \notin Seekers \cup {"Collect", "Remove"}
  BY DEF Seekers, Inserters
<1> QED
  BY <1>1 DEF Inductive, Seeking, Collecting, Removing

LEMMA StillRemoving ==
    ASSUME Shape', call' \in Loops, call'.op = "Remove", Removing' PROVE Inductive'
<1>1. call'.op \notin Inserters \cup Seekers \cup {"Collect"}
  BY DEF Seekers, Inserters
<1> QED
  BY <1>1 DEF Inductive, Seeking, Collecting, Inserting

-----------------------------------------------------------------------------
(* nodeAt: every step keeps the invariant *)

LEMMA IndexKeeps == ASSUME Inductive, NEW i \in Ints, Index(i) PROVE Inductive'
<1>0. Shape /\ UNCHANGED list /\ Shape' /\ length' = length /\ chain' = chain /\ FromEnd(i)' = FromEnd(i)
  BY Kept DEF Inductive, Index, list
<1>1. CASE ~Within(i)
  BY <1>0, <1>1, Returned DEF Index, Return
<1>2. CASE Within(i)
  <2> DEFINE c == Seek("Index", <<i>>, FromEnd(i))
  <2>1. FromEnd(i) \in 0 .. length - 1 /\ call' = c
    BY <1>2 DEF Within, Index, Begin
  <2>2. /\ c \in [op : {"Index"}, args : {<<i>>}, to : {FromEnd(i)}, at : Addr, i : 0 .. length - 1]
        /\ c.at = chain[c.i + 1]
    BY <1>0, <2>1, SeekStarts
  <2> HIDE DEF c
  <2>3. <<i>> \in Args /\ FromEnd(i) \in Nat /\ 0 .. length - 1 \subseteq Nat
    BY <2>1, IntsAssumption DEF Args
  <2>4. call' \in Loops /\ call'.op \in Seekers
    BY <2>1, <2>2, <2>3 DEF Loops, Seekers
  <2>5. Seeking'
    BY <2>1, <2>2, <1>0 DEF Seeking
  <2> QED
    BY <2>4, <2>5, <1>0, StillSeeking
<1> QED
  BY <1>1, <1>2

LEMMA SetKeeps == ASSUME Inductive, NEW i \in Ints, NEW v \in Value, Set(i, v) PROVE Inductive'
<1>0. Shape /\ UNCHANGED list /\ Shape' /\ length' = length /\ chain' = chain /\ FromEnd(i)' = FromEnd(i)
  BY Kept DEF Inductive, Set, list
<1>1. CASE ~Within(i)
  BY <1>0, <1>1, Returned DEF Set, Return
<1>2. CASE Within(i)
  <2> DEFINE c == Seek("Set", <<i, v>>, FromEnd(i))
  <2>1. FromEnd(i) \in 0 .. length - 1 /\ call' = c
    BY <1>2 DEF Within, Set, Begin
  <2>2. /\ c \in [op : {"Set"}, args : {<<i, v>>}, to : {FromEnd(i)}, at : Addr, i : 0 .. length - 1]
        /\ c.at = chain[c.i + 1]
    BY <1>0, <2>1, SeekStarts
  <2> HIDE DEF c
  <2>3. <<i, v>> \in Args /\ FromEnd(i) \in Nat /\ 0 .. length - 1 \subseteq Nat
    BY <2>1, IntsAssumption DEF Args
  <2>4. call' \in Loops /\ call'.op \in Seekers
    BY <2>1, <2>2, <2>3 DEF Loops, Seekers
  <2>5. Seeking'
    BY <2>1, <2>2, <1>0 DEF Seeking
  <2> QED
    BY <2>4, <2>5, <1>0, StillSeeking
<1> QED
  BY <1>1, <1>2

\* Range, and Trim when anything is left, look for the first index.
LEMMA RangeSeeks ==
    ASSUME Inductive, NEW op \in {"Range", "Trim"}, NEW i \in Ints, NEW j \in Ints, Lower(i) <= Upper(j),
           call' = Seek(op, <<i, j>>, Lower(i)), UNCHANGED list
    PROVE  Inductive'
<1> DEFINE c == Seek(op, <<i, j>>, Lower(i))
<1>0. /\ Shape /\ Shape' /\ length' = length /\ chain' = chain
      /\ Lower(i)' = Lower(i) /\ Upper(j)' = Upper(j)
  BY Kept DEF Inductive, list
<1>1. Lower(i) \in 0 .. length - 1
  BY <1>0, Bounds
<1>2. /\ c \in [op : {op}, args : {<<i, j>>}, to : {Lower(i)}, at : Addr, i : 0 .. length - 1]
      /\ c.at = chain[c.i + 1]
  BY <1>0, <1>1, SeekStarts
<1>3. call' = c
  OBVIOUS
<1> HIDE DEF c
<1>4. <<i, j>> \in Args /\ Lower(i) \in Nat /\ 0 .. length - 1 \subseteq Nat
  BY <1>1, IntsAssumption DEF Args
<1>5. call' \in Loops /\ call'.op \in Seekers
  BY <1>2, <1>3, <1>4 DEF Loops, Seekers
<1>6. Seeking'
  BY <1>0, <1>1, <1>2, <1>3 DEF Seeking
<1> QED
  BY <1>0, <1>5, <1>6, StillSeeking

LEMMA GetRangeKeeps == ASSUME Inductive, NEW i \in Ints, NEW j \in Ints, GetRange(i, j) PROVE Inductive'
<1>1. CASE Lower(i) <= Upper(j)
  BY <1>1, RangeSeeks DEF GetRange, Begin
<1>2. CASE ~(Lower(i) <= Upper(j))
  BY <1>2, Kept, Returned DEF GetRange, Return, Inductive
<1> QED
  BY <1>1, <1>2

LEMMA TrimToKeeps == ASSUME Inductive, NEW i \in Ints, NEW j \in Ints, TrimTo(i, j) PROVE Inductive'
<1>1. CASE Lower(i) <= Upper(j)
  BY <1>1, RangeSeeks DEF TrimTo, Begin
<1>2. CASE ~(Lower(i) <= Upper(j))
  BY <1>2, EmptyDoes, Returned DEF TrimTo, Return, Inductive
<1> QED
  BY <1>1, <1>2

LEMMA WalkKeeps == ASSUME Inductive, Walk PROVE Inductive'
<1>0. /\ Shape /\ Shape' /\ UNCHANGED list /\ length' = length /\ chain' = chain
      /\ \A i : FromEnd(i)' = FromEnd(i) /\ Lower(i)' = Lower(i) /\ Upper(i)' = Upper(i)
      /\ call.op \in Seekers /\ call.i # call.to /\ call \in Loops /\ Seeking
  BY Kept DEF Inductive, Walk, list
<1>1. /\ length \in Nat
      /\ \A p \in 1 .. length : /\ chain[p] \in Addr /\ node[chain[p]].next = Nth(p + 1)
                                /\ node[chain[p]].prev = Nth(p - 1)
  BY <1>0, Pointing
<1>2. call.i \in 0 .. length - 1 /\ call.to \in 0 .. length - 1 /\ call.at = chain[call.i + 1]
  BY <1>0 DEF Seeking
<1> DEFINE step == IF call.i < call.to THEN call.i + 1 ELSE call.i - 1
           node2 == IF call.i < call.to THEN node[call.at].next ELSE node[call.at].prev
<1>3. call' = [[call EXCEPT !.i = step] EXCEPT !.at = node2]
  <2>1. CASE call.i < call.to
    BY <2>1, <1>0, InLoop DEF Walk, Seekers
  <2>2. CASE ~(call.i < call.to)
    BY <2>2, <1>0, InLoop DEF Walk, Seekers
  <2> QED
    BY <2>1, <2>2
<1>4. step \in 0 .. length - 1 /\ node2 = chain[step + 1] /\ node2 \in Addr
  <2>1. CASE call.i < call.to
    <3>1. call.i + 1 \in 1 .. length /\ call.i + 1 + 1 \in 1 .. length /\ step = call.i + 1 /\ step \in 0 .. length - 1
      BY <2>1, <1>1, <1>2, <1>0
    <3>2. node2 = Nth(call.i + 1 + 1)
      BY <3>1, <2>1, <1>1, <1>2
    <3> HIDE DEF node2
    <3> QED
      BY <3>1, <3>2, <1>1 DEF Nth
  <2>2. CASE ~(call.i < call.to)
    <3>1. call.i + 1 \in 1 .. length /\ call.i + 1 - 1 \in 1 .. length /\ step = call.i - 1 /\ step \in 0 .. length - 1
          /\ call.i + 1 - 1 = step + 1
      BY <2>2, <1>1, <1>2, <1>0
    <3>2. node2 = Nth(call.i + 1 - 1)
      BY <3>1, <2>2, <1>1, <1>2
    <3> HIDE DEF node2
    <3> QED
      BY <3>1, <3>2, <1>1 DEF Nth
  <2> QED
    BY <2>1, <2>2
<1> HIDE DEF step, node2
<1>5. step \in Nat
  BY <1>4
<1>6. call' \in Loops /\ call'.op = call.op /\ call'.args = call.args /\ call'.to = call.to
        /\ call'.i = step /\ call'.at = node2 /\ (call.op = "TrimEnd" => call'.first = call.first)
  <2>1. CASE call.op = "TrimEnd"
    <3>1. call \in [op : {"TrimEnd"}, args : Args, to : Nat, at : Addr, i : Nat, first : Addr]
      BY <2>1, <1>0, InLoop
    <3> QED
      BY <3>1, <1>3, <1>4, <1>5, <2>1 DEF Loops
  <2>2. CASE call.op # "TrimEnd"
    <3>1. call \in [op : Seekers \ {"TrimEnd"}, args : Args, to : Nat, at : Addr, i : Nat]
      BY <2>2, <1>0, InLoop
    <3> QED
      BY <3>1, <1>3, <1>4, <1>5, <2>2 DEF Loops
  <2> QED
    BY <2>1, <2>2
<1>7. Seeking'
  BY <1>0, <1>2, <1>4, <1>6 DEF Seeking
<1> QED
  BY <1>0, <1>6, <1>7, StillSeeking

LEMMA IndexFoundKeeps == ASSUME Inductive, IndexFound PROVE Inductive'
  BY Kept, Returned DEF Inductive, IndexFound, Return

\* Where the search for a single index ends.
LEMMA SetFoundDoes ==
    ASSUME Inductive, SetFound
    PROVE  \E i \in Ints, v \in Value :
             /\ call.args = <<i, v>> /\ FromEnd(i) \in 0 .. length - 1
             /\ Shape' /\ length' = length /\ Values' = [Values EXCEPT ![FromEnd(i) + 1] = v]
<1>0. Shape /\ call.op = "Set" /\ call.i = call.to /\ Seeking /\ length \in Nat
  BY DEF Inductive, SetFound, Arrived, Shape, Typed
<1>1. PICK i \in Ints, v \in Value : call.args = <<i, v>> /\ call.to = FromEnd(i)
  BY <1>0 DEF Seeking, Seekers
<1>2. FromEnd(i) \in 0 .. length - 1 /\ call.at = chain[FromEnd(i) + 1]
  BY <1>0, <1>1 DEF Seeking, Seekers
<1>3. FromEnd(i) + 1 \in 1 .. length /\ call.args[2] = v
  BY <1>0, <1>1, <1>2
<1>4. /\ node' = [node EXCEPT ![chain[FromEnd(i) + 1]].value = v]
      /\ UNCHANGED <<head, tail, length, chain>>
  BY <1>2, <1>3 DEF SetFound
<1> DEFINE k == FromEnd(i) + 1
<1> HIDE DEF k
<1>5. k \in 1 .. length /\ node' = [node EXCEPT ![chain[k]].value = v]
  BY <1>3, <1>4 DEF k
<1>6. Shape' /\ Values' = [Values EXCEPT ![k] = v]
  BY <1>0, <1>4, <1>5, SetDoes
<1> QED
  BY <1>1, <1>2, <1>4, <1>6 DEF k

LEMMA SetFoundKeeps == ASSUME Inductive, SetFound PROVE Inductive'
  BY SetFoundDoes, Returned DEF SetFound, Return

-----------------------------------------------------------------------------
(* Range *)

LEMMA OneMore ==
    ASSUME NEW S, NEW s \in Seq(S), NEW a \in Nat, NEW b \in Nat, 1 <= a, a <= b, b <= Len(s)
    PROVE  SubSeq(s, a, b) = Append(SubSeq(s, a, b - 1), s[b])
<1> DEFINE t == SubSeq(s, a, b)
           u == SubSeq(s, a, b - 1)
           w == Append(u, s[b])
           n == b - a
<1>1. Len(s) \in Nat /\ \A p \in 1 .. Len(s) : s[p] \in S
  BY LenProperties, ElementOfSeq
<1>2. (\A p \in a .. b : s[p] \in S) /\ (\A p \in a .. b - 1 : s[p] \in S) /\ n \in Nat
  BY <1>1
<1>3. /\ t \in Seq(S) /\ Len(t) = n + 1
      /\ \A p \in 1 .. n + 1 : t[p] = s[a + p - 1]
  <2>1. b - a + 1 = n + 1
    OBVIOUS
  <2> QED
    BY <1>2, <2>1, SubSeqProperties
<1>4. /\ u \in Seq(S) /\ Len(u) = n
      /\ \A p \in 1 .. n : u[p] = s[a + p - 1]
  <2>1. b - 1 - a + 1 = n /\ b - 1 \in Int /\ a \in Int
    OBVIOUS
  <2>2. /\ u \in Seq(S) /\ Len(u) = IF a <= b - 1 THEN b - 1 - a + 1 ELSE 0
        /\ \A p \in 1 .. b - 1 - a + 1 : u[p] = s[a + p - 1]
    BY <1>2, <2>1, SubSeqProperties
  <2> QED
    BY <2>1, <2>2
<1>5. s[b] \in S /\ a + (n + 1) - 1 = b
  BY <1>1
<1> HIDE DEF t, u, n
<1>6. /\ w \in Seq(S) /\ Len(w) = n + 1
      /\ \A p \in 1 .. n : w[p] = u[p]
      /\ w[n + 1] = s[b]
  BY <1>4, <1>5, AppendProperties
<1> HIDE DEF w
<1>7. ASSUME NEW p \in 1 .. n + 1 PROVE t[p] = w[p]
  <2>1. CASE p \in 1 .. n
    BY <2>1, <1>3, <1>4, <1>6
  <2>2. CASE p = n + 1
    BY <2>2, <1>3, <1>5, <1>6
  <2> QED
    BY <2>1, <2>2, <1>2
<1>8. t = w
  BY <1>3, <1>6, <1>7, SeqEqual
<1> QED
  BY <1>8 DEF t, u, w

\* What the search for the first index of a range or a trim has found.
LEMMA RangeIsFound ==
    ASSUME Inductive, NEW op \in {"Range", "Trim", "TrimEnd"}, Arrived(op)
    PROVE  \E i, j \in Ints :
             /\ call.args = <<i, j>> /\ Lower(i) <= Upper(j)
             /\ Lower(i) \in 0 .. length - 1 /\ Upper(j) \in 0 .. length - 1
             /\ call.to = IF op = "TrimEnd" THEN Upper(j) ELSE Lower(i)
             /\ call.at = chain[call.to + 1] /\ call.at = Nth(call.to + 1) /\ call.at \in Addr
             /\ op = "TrimEnd" => call.first = chain[Lower(i) + 1]
<1>0. Shape /\ call.op = op /\ call.i = call.to /\ Seeking /\ length \in Nat /\ op \in Seekers
  BY DEF Inductive, Arrived, Shape, Typed, Seekers
<1>1. PICK i \in Ints, j \in Ints :
        /\ call.args = <<i, j>> /\ Lower(i) <= Upper(j)
        /\ call.to = IF call.op = "TrimEnd" THEN Upper(j) ELSE Lower(i)
        /\ call.op = "TrimEnd" => call.first = chain[Lower(i) + 1]
  BY <1>0 DEF Seeking
<1>2. Lower(i) \in 0 .. length - 1 /\ Upper(j) \in 0 .. length - 1
  BY <1>0, <1>1, Bounds
<1>3. call.at = chain[call.to + 1]
  BY <1>0 DEF Seeking
<1>4. call.to \in 0 .. length - 1
  BY <1>0 DEF Seeking
<1>5. call.to + 1 \in 1 .. length
  BY <1>0, <1>4
<1>6. call.at = Nth(call.to + 1) /\ call.at \in Addr
  <2>1. call.at \in Addr
    BY <1>0, <1>3, <1>5, Pointing
  <2> QED
    BY <2>1, <1>3, <1>5 DEF Nth
<1> QED
  BY <1>0, <1>1, <1>2, <1>3, <1>6

LEMMA RangeFoundKeeps == ASSUME Inductive, RangeFound PROVE Inductive'
<1>0. /\ Shape /\ UNCHANGED list /\ Shape' /\ length \in Nat /\ Values' = Values
      /\ \A p : Nth(p)' = Nth(p)
      /\ \A i : Lower(i)' = Lower(i) /\ Upper(i)' = Upper(i)
      /\ Arrived("Range") /\ call \in Loops
  BY Kept DEF Inductive, RangeFound, Shape, Typed
<1>1. PICK i \in Ints, j \in Ints :
        /\ call.args = <<i, j>> /\ Lower(i) <= Upper(j)
        /\ Lower(i) \in 0 .. length - 1 /\ Upper(j) \in 0 .. length - 1
        /\ call.to = Lower(i) /\ call.at = Nth(call.to + 1) /\ call.at \in Addr
  BY <1>0, RangeIsFound
<1>2. call' = [op |-> "Collect", args |-> <<i, j>>, at |-> Nth(Lower(i) + 1), i |-> Lower(i), result |-> << >>]
  BY <1>0, <1>1 DEF RangeFound, Arrived
<1>3. call.at = Nth(Lower(i) + 1) /\ Lower(i) \in Nat
  BY <1>1
<1>4. << >> = SubSeq(Values, Lower(i) + 1, Lower(i))
  BY <1>3, SubSeqEmpty
<1>5. call' \in Loops
  <2>1. <<i, j>> \in Args /\ << >> \in Seq(Value) /\ Nth(Lower(i) + 1) \in Pointers
    BY <1>1, <1>3, IntsAssumption DEF Args, Pointers
  <2> QED
    BY <1>2, <1>3, <2>1 DEF Loops
<1>6. Collecting'
  <2>1. Lower(i) \in Lower(i) .. Upper(j) + 1
    BY <1>1, <1>0
  <2>2. /\ call'.args = <<i, j>> /\ call'.i = Lower(i) /\ call'.result = SubSeq(Values, Lower(i) + 1, Lower(i))
        /\ call'.at = Nth(Lower(i) + 1)
    BY <1>2, <1>4
  <2>3. /\ call'.args = <<i, j>> /\ call'.i \in Lower(i)' .. Upper(j)' + 1
        /\ call'.at = (IF call'.i + 1 \in 1 .. length' THEN chain'[call'.i + 1] ELSE Null)
        /\ call'.result = SubSeq(Values', Lower(i)' + 1, call'.i)
    BY <2>1, <2>2, <1>0 DEF Nth, list
  <2> QED
    BY <2>3, <1>1 DEF Collecting, Nth
<1> QED
  BY <1>0, <1>2, <1>5, <1>6, StillCollecting

\* Whether the walk of Range is at its end, and what it has collected.
LEMMA CollectIs ==
    ASSUME Inductive, call.op = "Collect"
    PROVE  \E i, j \in Ints :
             /\ call.args = <<i, j>> /\ call.args[2] = j
             /\ Lower(i) \in Nat /\ Upper(j) \in Int /\ Upper(j) <= length - 1
             /\ call.i \in Lower(i) .. Upper(j) + 1 /\ call.at = Nth(call.i + 1)
             /\ call.result = SubSeq(Values, Lower(i) + 1, call.i)
             /\ call.at # Null \/ call.i = Upper(j) + 1
<1>0. Shape /\ Collecting /\ length \in Nat
  BY DEF Inductive, Shape, Typed
<1>1. PICK i \in Ints, j \in Ints :
        /\ call.args = <<i, j>> /\ call.i \in Lower(i) .. Upper(j) + 1
        /\ call.at = Nth(call.i + 1) /\ call.result = SubSeq(Values, Lower(i) + 1, call.i)
  BY <1>0 DEF Collecting
<1>2. Lower(i) \in Nat /\ Upper(j) \in Int /\ Upper(j) <= length - 1
  BY <1>0, Bounds
<1>3. call.at # Null \/ call.i = Upper(j) + 1
  <2>1. CASE call.i = Upper(j) + 1
    BY <2>1
  <2>2. CASE call.i # Upper(j) + 1
    <3>1. call.i + 1 \in 1 .. length /\ call.i + 1 \in Int
      BY <2>2, <1>0, <1>1, <1>2
    <3> QED
      BY <3>1, <1>0, <1>1, NthIsPointer
  <2> QED
    BY <2>1, <2>2
<1> QED
  BY <1>1, <1>2, <1>3, SMTT(30)

LEMMA CollectKeeps == ASSUME Inductive, Collect PROVE Inductive'
<1>0. /\ Shape /\ UNCHANGED list /\ Shape' /\ length \in Nat
      /\ Values' = Values /\ length' = length /\ chain' = chain
      /\ \A i : Lower(i)' = Lower(i) /\ Upper(i)' = Upper(i)
      /\ call.op = "Collect" /\ call \in Loops
  BY Kept DEF Inductive, Collect, Shape, Typed, list
<1>1. PICK i \in Ints, j \in Ints :
        /\ call.args = <<i, j>> /\ call.args[2] = j
        /\ Lower(i) \in Nat /\ Upper(j) \in Int /\ Upper(j) <= length - 1
        /\ call.i \in Lower(i) .. Upper(j) + 1 /\ call.at = Nth(call.i + 1)
        /\ call.result = SubSeq(Values, Lower(i) + 1, call.i)
  BY <1>0, CollectIs
<1>2. CASE call.i <= Upper(j) /\ call.at # Null
  <2> DEFINE k == call.i + 1
             t == node[call.at].next
             r == Append(call.result, node[call.at].value)
  <2>1. call \in [op : {"Collect"}, args : Args, at : Pointers, i : Nat, result : Seq(Value)]
    BY <1>0, InLoop
  <2>2. k \in 1 .. length /\ k \in Nat /\ k \in Lower(i) .. Upper(j) + 1 /\ Lower(i) + 1 <= k /\ call.i = k - 1
    BY <1>0, <1>1, <1>2
  <2>3. call' = [[[call EXCEPT !.i = k] EXCEPT !.at = t] EXCEPT !.result = r]
    BY <1>1, <1>2, <2>1 DEF Collect
  <2>4. call.at = Nth(k) /\ call.result = SubSeq(Values, Lower(i) + 1, k - 1)
    BY <1>1, <2>2
  <2> HIDE DEF k
  <2>5. call.at = chain[k] /\ t = Nth(k + 1) /\ node[call.at].value = Values[k] /\ Values[k] \in Value
    <3>1. call.at = chain[k]
      BY <2>2, <2>4 DEF Nth
    <3>2. /\ node[chain[k]].next = Nth(k + 1) /\ node[chain[k]].value = Values[k]
          /\ node[chain[k]].value \in Value
      BY <2>2, <1>0, Pointing, ValuesTyped
    <3> QED
      BY <3>1, <3>2
  <2> HIDE DEF t
  <2>6. r = SubSeq(Values, Lower(i) + 1, k)
    <3>1. Values \in Seq(Value) /\ Len(Values) = length
      BY <1>0, ValuesTyped
    <3>2. Lower(i) + 1 \in Nat /\ 1 <= Lower(i) + 1 /\ k <= length
      BY <1>1, <2>2, <1>0
    <3>3. SubSeq(Values, Lower(i) + 1, k) = Append(SubSeq(Values, Lower(i) + 1, k - 1), Values[k])
      BY <3>1, <3>2, <2>2, OneMore
    <3> QED
      BY <3>3, <2>4, <2>5
  <2>7. r \in Seq(Value) /\ t \in Pointers
    <3>1. call.result \in Seq(Value)
      BY <2>1
    <3>2. r \in Seq(Value)
      BY <3>1, <2>5, AppendProperties
    <3>3. k + 1 \in Int
      BY <2>2
    <3> QED
      BY <3>2, <3>3, <2>5, <1>0, NthIsPointer
  <2> HIDE DEF r
  <2>8. /\ call' \in [op : {"Collect"}, args : Args, at : Pointers, i : Nat, result : Seq(Value)]
        /\ call'.args = <<i, j>> /\ call'.i = k /\ call'.at = t /\ call'.result = r
    BY <2>1, <2>2, <2>3, <2>7, <1>1
  <2>9. call' \in Loops /\ call'.op = "Collect"
    BY <2>8 DEF Loops
  <2>10. Collecting'
    <3>1. /\ call'.args = <<i, j>> /\ call'.i \in Lower(i)' .. Upper(j)' + 1
          /\ call'.at = (IF call'.i + 1 \in 1 .. length' THEN chain'[call'.i + 1] ELSE Null)
          /\ call'.result = SubSeq(Values', Lower(i)' + 1, call'.i)
      BY <2>2, <2>5, <2>6, <2>8, <1>0 DEF Nth
    <3> QED
      BY <3>1, <1>1 DEF Collecting, Nth
  <2> QED
    BY <1>0, <2>9, <2>10, StillCollecting
<1>3. CASE ~(call.i <= Upper(j) /\ call.at # Null)
  BY <1>0, <1>1, <1>3, Returned DEF Collect, Return
<1> QED
  BY <1>2, <1>3

-----------------------------------------------------------------------------
(* Trim *)

LEMMA TrimFoundKeeps == ASSUME Inductive, TrimFound PROVE Inductive'
<1>0. /\ Shape /\ UNCHANGED list /\ Shape' /\ length \in Nat /\ length' = length /\ chain' = chain
      /\ \A i : Lower(i)' = Lower(i) /\ Upper(i)' = Upper(i)
      /\ Arrived("Trim")
  BY Kept DEF Inductive, TrimFound, Shape, Typed, list
<1>1. PICK i \in Ints, j \in Ints :
        /\ call.args = <<i, j>> /\ Lower(i) <= Upper(j)
        /\ Lower(i) \in 0 .. length - 1 /\ Upper(j) \in 0 .. length - 1
        /\ call.to = Lower(i) /\ call.at = chain[call.to + 1] /\ call.at \in Addr
  BY <1>0, RangeIsFound
<1> DEFINE c == Seek("TrimEnd", <<i, j>>, Upper(j))
<1>2. /\ c \in [op : {"TrimEnd"}, args : {<<i, j>>}, to : {Upper(j)}, at : Addr, i : 0 .. length - 1]
      /\ c.at = chain[c.i + 1]
  BY <1>0, <1>1, SeekStarts
<1>3. call' = [op |-> c.op, args |-> c.args, to |-> c.to, at |-> c.at, i |-> c.i, first |-> call.at]
  BY <1>1 DEF TrimFound
<1> HIDE DEF c
<1>4. /\ call' \in [op : {"TrimEnd"}, args : {<<i, j>>}, to : {Upper(j)}, at : Addr, i : 0 .. length - 1, first : Addr]
      /\ call'.at = chain[call'.i + 1] /\ call'.first = call.at
  BY <1>1, <1>2, <1>3
<1>5. <<i, j>> \in Args /\ 0 .. length - 1 \subseteq Nat
  BY IntsAssumption DEF Args
<1>6. call' \in Loops /\ call'.op \in Seekers
  BY <1>1, <1>4, <1>5 DEF Loops, Seekers
<1>7. Seeking'
  BY <1>0, <1>1, <1>4 DEF Seeking
<1> QED
  BY <1>0, <1>6, <1>7, StillSeeking

LEMMA TrimEndFoundDoes ==
    ASSUME Inductive, TrimEndFound
    PROVE  \E i, j \in Ints :
             /\ call.args = <<i, j>> /\ Lower(i) <= Upper(j) /\ Upper(j) \in 0 .. length - 1
             /\ Shape' /\ length' = Upper(j) - Lower(i) + 1
             /\ Values' = SubSeq(Values, Lower(i) + 1, Upper(j) + 1)
<1>0. Shape /\ Arrived("TrimEnd") /\ length \in Nat
  BY DEF Inductive, TrimEndFound, Shape, Typed
<1>1. PICK i \in Ints, j \in Ints :
        /\ call.args = <<i, j>> /\ Lower(i) <= Upper(j)
        /\ Lower(i) \in 0 .. length - 1 /\ Upper(j) \in 0 .. length - 1
        /\ call.to = Upper(j) /\ call.at = chain[call.to + 1] /\ call.first = chain[Lower(i) + 1]
  BY <1>0, RangeIsFound
<1> DEFINE lo == Lower(i) + 1
           hi == Upper(j) + 1
<1>2. lo \in 1 .. length /\ hi \in lo .. length /\ Upper(j) - Lower(i) + 1 = hi - lo + 1
  BY <1>0, <1>1
<1>3. /\ chain' = SubSeq(chain, lo, hi)
      /\ node' = Collected(SetNext(SetPrev(node, chain[lo], Null), chain[hi], Null), chain')
      /\ head' = chain[lo] /\ tail' = chain[hi]
  BY <1>1, SMTT(30) DEF TrimEndFound
<1>4. length' = Upper(j) - Lower(i) + 1
  <2>1. call.args[1] = i /\ call.to = Upper(j)
    BY <1>1
  <2>2. length' = call.to - Lower(call.args[1]) + 1
    BY DEF TrimEndFound
  <2> QED
    BY <2>1, <2>2
<1> HIDE DEF lo, hi
<1>5. length' = hi - lo + 1
  BY <1>2, <1>4
<1>6. Shape' /\ Values' = SubSeq(Values, lo, hi)
  BY <1>0, <1>2, <1>3, <1>5, TrimDoes
<1> QED
  BY <1>1, <1>4, <1>6 DEF lo, hi

LEMMA TrimEndFoundKeeps == ASSUME Inductive, TrimEndFound PROVE Inductive'
  BY TrimEndFoundDoes, Returned DEF TrimEndFound, Return

-----------------------------------------------------------------------------
(* The ends *)

LEMMA LPushDoes ==
    ASSUME Inductive, NEW v \in Value, LPush(v)
    PROVE  Shape' /\ length' = length + 1 /\ Values' = InsertAt(Values, 1, v)
<1>0. Shape /\ length \in Nat /\ Free # {} /\ Link(Null, head, v)
  BY DEF Inductive, LPush, Shape, Typed
<1>1. 1 \in 1 .. length + 1 /\ 1 - 1 \notin 1 .. length
  BY <1>0
<1>2. Null = Nth(1 - 1) /\ head = Nth(1)
  BY <1>0, <1>1, Pointing DEF Nth
<1>3. Link(Nth(1 - 1), Nth(1), v)
  BY <1>0, <1>2
<1> QED
  BY <1>0, <1>1, <1>3, LinkDoes

LEMMA RPushDoes ==
    ASSUME Inductive, NEW v \in Value, RPush(v)
    PROVE  Shape' /\ length' = length + 1 /\ Values' = InsertAt(Values, length + 1, v)
<1>0. Shape /\ length \in Nat /\ Free # {} /\ Link(tail, Null, v)
  BY DEF Inductive, RPush, Shape, Typed
<1> DEFINE m == length + 1
<1>1. m \in 1 .. length + 1 /\ m - 1 = length /\ m \notin 1 .. length
  BY <1>0
<1>2. tail = Nth(length)
  BY <1>0, Pointing
<1>3. Null = Nth(m)
  BY <1>1 DEF Nth
<1>4. Link(Nth(m - 1), Nth(m), v)
  BY <1>0, <1>1, <1>2, <1>3
<1> HIDE DEF m
<1>5. Shape' /\ length' = length + 1 /\ Values' = InsertAt(Values, m, v)
  BY <1>0, <1>1, <1>4, LinkDoes
<1> QED
  BY <1>5 DEF m

LEMMA LPopDoes ==
    ASSUME Inductive, LPop
    PROVE  \/ length = 0 /\ head = Null /\ UNCHANGED list
           \/ /\ length > 0 /\ head # Null /\ node[head].value = Values[1]
              /\ Shape' /\ length' = length - 1 /\ Values' = RemoveAt(Values, 1)
<1>0. Shape /\ length \in Nat /\ head = Nth(1)
  BY Pointing DEF Inductive
<1>1. CASE head = Null
  <2>1. length = 0
    BY <1>0, <1>1, NthIsPointer
  <2> QED
    BY <1>1, <2>1 DEF LPop
<1>2. CASE head # Null
  <2>1. 1 \in 1 .. length /\ 1 - 1 \notin 1 .. length
    BY <1>0, <1>2 DEF Nth
  <2>2. head = chain[1] /\ node[head].next = Nth(1 + 1) /\ node[head].value = Values[1]
    <3>1. head = chain[1]
      BY <1>0, <2>1 DEF Nth
    <3> QED
      BY <3>1, <1>0, <2>1, Pointing, ValuesTyped
  <2>3. Null = Nth(1 - 1)
    BY <2>1 DEF Nth
  <2>4. Unlink(Nth(1), Nth(1 - 1), Nth(1 + 1))
    BY <1>0, <1>2, <2>2, <2>3 DEF LPop
  <2>5. Shape' /\ length' = length - 1 /\ Values' = RemoveAt(Values, 1)
    BY <1>0, <2>1, <2>4, UnlinkDoes
  <2> QED
    BY <1>0, <1>2, <2>1, <2>2, <2>5
<1> QED
  BY <1>1, <1>2

LEMMA RPopDoes ==
    ASSUME Inductive, RPop
    PROVE  \/ length = 0 /\ tail = Null /\ UNCHANGED list
           \/ /\ length > 0 /\ tail # Null /\ node[tail].value = Values[length]
              /\ Shape' /\ length' = length - 1 /\ Values' = RemoveAt(Values, length)
<1>0. Shape /\ length \in Nat /\ tail = Nth(length)
  BY Pointing DEF Inductive
<1>1. CASE tail = Null
  <2>1. length = 0
    <3>1. Nth(length) # Null <=> length \in 1 .. length
      BY <1>0, NthIsPointer
    <3> QED
      BY <3>1, <1>0, <1>1
  <2> QED
    BY <1>1, <2>1 DEF RPop
<1>2. CASE tail # Null
  <2>1. length \in 1 .. length /\ length + 1 \notin 1 .. length
    BY <1>0, <1>2 DEF Nth
  <2>2. tail = chain[length] /\ node[tail].prev = Nth(length - 1) /\ node[tail].value = Values[length]
    <3>1. tail = chain[length]
      BY <1>0, <2>1 DEF Nth
    <3> QED
      BY <3>1, <1>0, <2>1, Pointing, ValuesTyped
  <2>3. Null = Nth(length + 1)
    BY <2>1 DEF Nth
  <2>4. Unlink(Nth(length), Nth(length - 1), Nth(length + 1))
    BY <1>0, <1>2, <2>2, <2>3 DEF RPop
  <2>5. Shape' /\ length' = length - 1 /\ Values' = RemoveAt(Values, length)
    BY <1>0, <2>1, <2>4, UnlinkDoes
  <2> QED
    BY <1>0, <1>2, <2>1, <2>2, <2>5
<1> QED
  BY <1>1, <1>2

LEMMA EndsKeep ==
    ASSUME Inductive, LPop \/ RPop \/ \E v \in Value : LPush(v) \/ RPush(v)
    PROVE  Inductive'
<1>1. call' = Idle
  BY DEF LPop, RPop, LPush, RPush, Return
<1>2. Shape'
  BY LPushDoes, RPushDoes, LPopDoes, RPopDoes, Kept DEF Inductive
<1> QED
  BY <1>1, <1>2, Returned

-----------------------------------------------------------------------------
(* InsertBefore and InsertAfter *)

\* Where the search for the pivot is.
LEMMA InsertIs ==
    ASSUME Inductive, call.op \in Inserters
    PROVE  \E pivot, v \in Value, k \in 1 .. length + 1 :
             /\ call.args = <<pivot, v>> /\ call.args[1] = pivot /\ call.args[2] = v /\ Free # {}
             /\ call.at = Nth(k) /\ \A q \in 1 .. k - 1 : Values[q] # pivot
             /\ call.at = Null => k = length + 1
             /\ call.at # Null =>
                  /\ k \in 1 .. length /\ node[call.at].value = Values[k]
                  /\ node[call.at].next = Nth(k + 1) /\ node[call.at].prev = Nth(k - 1)
<1>0. Shape /\ Inserting /\ length \in Nat
  BY DEF Inductive, Shape, Typed
<1>1. PICK pivot \in Value, v \in Value, k \in 1 .. length + 1 :
        /\ call.args = <<pivot, v>> /\ Free # {}
        /\ call.at = Nth(k) /\ \A q \in 1 .. k - 1 : Values[q] # pivot
  BY <1>0 DEF Inserting
<1>2. call.at # Null <=> k \in 1 .. length
  BY <1>0, <1>1, NthIsPointer
<1>3. CASE k \in 1 .. length
  <2>1. call.at = chain[k]
    BY <1>1, <1>3 DEF Nth
  <2>2. /\ node[chain[k]].next = Nth(k + 1) /\ node[chain[k]].prev = Nth(k - 1)
        /\ node[chain[k]].value = Values[k]
    BY <1>0, <1>3, Pointing, ValuesTyped
  <2>3. /\ node[call.at].value = Values[k]
        /\ node[call.at].next = Nth(k + 1) /\ node[call.at].prev = Nth(k - 1)
    BY <2>1, <2>2
  <2>4. call.at # Null /\ call.args[1] = pivot /\ call.args[2] = v
    BY <1>1, <1>2, <1>3
  <2> QED
    BY <1>1, <1>3, <2>3, <2>4
<1>4. CASE k \notin 1 .. length
  <2>1. k = length + 1
    BY <1>0, <1>4
  <2> QED
    BY <1>1, <1>2, <1>4, <2>1
<1> QED
  BY <1>3, <1>4

LEMMA InsertNextToKeeps ==
    ASSUME Inductive, NEW op \in Inserters, NEW pivot \in Value, NEW v \in Value, InsertNextTo(op, pivot, v)
    PROVE  Inductive'
<1>0. /\ Shape /\ UNCHANGED list /\ Shape' /\ length \in Nat /\ length' = length /\ chain' = chain
      /\ Values' = Values /\ Free' = Free /\ Free # {} /\ head = Nth(1) /\ Nth(1) \in Pointers
  BY Kept, Pointing, NthIsPointer DEF Inductive, InsertNextTo, list
<1>1. call' = [op |-> op, args |-> <<pivot, v>>, at |-> Nth(1)]
  BY <1>0 DEF InsertNextTo, Begin
<1>2. <<pivot, v>> \in Args
  BY DEF Args
<1>3. call' \in Loops /\ call'.op \in Inserters
  BY <1>0, <1>1, <1>2 DEF Loops
<1>4. Inserting'
  <2>1. /\ 1 \in 1 .. length' + 1 /\ call'.args = <<pivot, v>> /\ Free' # {}
        /\ call'.at = (IF 1 \in 1 .. length' THEN chain'[1] ELSE Null)
        /\ \A q \in 1 .. 1 - 1 : Values'[q] # pivot
    BY <1>0, <1>1 DEF Nth
  <2> QED
    BY <2>1 DEF Inserting, Nth
<1> QED
  BY <1>0, <1>3, <1>4, StillInserting

LEMMA InsertLooksOnKeeps == ASSUME Inductive, InsertLooksOn PROVE Inductive'
<1>0. /\ Shape /\ UNCHANGED list /\ Shape' /\ length \in Nat /\ length' = length /\ chain' = chain
      /\ Values' = Values /\ Free' = Free /\ call \in Loops
      /\ call.op \in Inserters /\ call.at # Null /\ node[call.at].value # call.args[1]
  BY Kept, Pointing DEF Inductive, InsertLooksOn, list
<1>1. PICK pivot \in Value, v \in Value, k \in 1 .. length + 1 :
        /\ call.args = <<pivot, v>> /\ call.args[1] = pivot /\ Free # {}
        /\ \A q \in 1 .. k - 1 : Values[q] # pivot
        /\ k \in 1 .. length /\ node[call.at].value = Values[k] /\ node[call.at].next = Nth(k + 1)
  BY <1>0, InsertIs
<1> DEFINE m == k + 1
<1>2. m \in 1 .. length + 1 /\ m \in Int /\ \A q \in 1 .. m - 1 : Values[q] # pivot
  BY <1>0, <1>1
<1>3. node[call.at].next = Nth(m)
  BY <1>1
<1> HIDE DEF m
<1>4. Nth(m) \in Pointers
  BY <1>0, <1>2, NthIsPointer
<1>5. /\ call' \in [op : Inserters, args : Args, at : Pointers]
      /\ call'.args = <<pivot, v>> /\ call'.at = Nth(m)
  <2>1. call \in [op : Inserters, args : Args, at : Pointers]
    BY <1>0, InLoop
  <2>2. call' = [call EXCEPT !.at = Nth(m)]
    BY <2>1, <1>3 DEF InsertLooksOn
  <2> QED
    BY <2>1, <2>2, <1>1, <1>4
<1>6. call' \in Loops /\ call'.op \in Inserters
  BY <1>5 DEF Loops
<1>7. Inserting'
  <2>1. /\ m \in 1 .. length' + 1 /\ call'.args = <<pivot, v>> /\ Free' # {}
        /\ call'.at = (IF m \in 1 .. length' THEN chain'[m] ELSE Null)
        /\ \A q \in 1 .. m - 1 : Values'[q] # pivot
    BY <1>0, <1>1, <1>2, <1>5 DEF Nth
  <2> QED
    BY <2>1 DEF Inserting, Nth
<1> QED
  BY <1>0, <1>6, <1>7, StillInserting

LEMMA InsertMissesKeeps == ASSUME Inductive, InsertMisses PROVE Inductive'
  BY Kept, Returned DEF Inductive, InsertMisses, Return

\* The new element is next to the first occurrence of the pivot.
LEMMA InsertFoundDoes ==
    ASSUME Inductive, InsertFound
    PROVE  \E pivot, v \in Value, k \in 1 .. length :
             /\ call.args = <<pivot, v>> /\ Values[k] = pivot /\ \A q \in 1 .. k - 1 : Values[q] # pivot
             /\ Shape' /\ length' = length + 1
             /\ call.op = "InsertBefore" => Values' = InsertAt(Values, k, v)
             /\ call.op = "InsertAfter" => Values' = InsertAt(Values, k + 1, v)
<1>0. Shape /\ length \in Nat /\ call.op \in Inserters /\ call.at # Null /\ node[call.at].value = call.args[1]
  BY DEF Inductive, InsertFound, Shape, Typed
<1>1. PICK pivot \in Value, v \in Value, k \in 1 .. length + 1 :
        /\ call.args = <<pivot, v>> /\ call.args[1] = pivot /\ call.args[2] = v /\ Free # {}
        /\ call.at = Nth(k) /\ \A q \in 1 .. k - 1 : Values[q] # pivot
        /\ k \in 1 .. length /\ node[call.at].value = Values[k]
        /\ node[call.at].next = Nth(k + 1) /\ node[call.at].prev = Nth(k - 1)
  BY <1>0, InsertIs
<1>2. CASE call.op = "InsertBefore"
  <2>1. Link(Nth(k - 1), Nth(k), v)
    BY <1>1, <1>2 DEF InsertFound
  <2>2. Shape' /\ length' = length + 1 /\ Values' = InsertAt(Values, k, v)
    BY <1>0, <1>1, <2>1, LinkDoes
  <2> QED
    BY <1>0, <1>1, <1>2, <2>2
<1>3. CASE call.op = "InsertAfter"
  <2> DEFINE m == k + 1
  <2>1. m \in 1 .. length + 1 /\ m - 1 = k
    BY <1>0, <1>1
  <2>2. Link(Nth(m - 1), Nth(m), v)
    <3>1. Link(Nth(k), Nth(k + 1), v)
      BY <1>1, <1>3 DEF InsertFound
    <3> QED
      BY <3>1, <2>1
  <2> HIDE DEF m
  <2>3. Shape' /\ length' = length + 1 /\ Values' = InsertAt(Values, m, v)
    BY <1>0, <1>1, <2>1, <2>2, LinkDoes
  <2>4. Values' = InsertAt(Values, k + 1, v)
    BY <2>3 DEF m
  <2> QED
    BY <1>0, <1>1, <1>3, <2>3, <2>4
<1> QED
  BY <1>0, <1>2, <1>3 DEF Inserters

LEMMA InsertFoundKeeps == ASSUME Inductive, InsertFound PROVE Inductive'
  BY InsertFoundDoes, Returned DEF InsertFound, Return

-----------------------------------------------------------------------------
(* Positions that are left out *)

LEMMA PartOfInterval ==
    ASSUME NEW n \in Nat, NEW P \in SUBSET (1 .. n)
    PROVE  IsFiniteSet(P) /\ Cardinality(P) \in 0 .. n
<1>1. IsFiniteSet(1 .. n) /\ Cardinality(1 .. n) = n
  BY FS_Interval
<1>2. IsFiniteSet(P) /\ Cardinality(P) <= n
  BY <1>1, FS_Subset
<1> QED
  BY <1>2, FS_CardinalityType

\* As many positions up to p are kept as there are and are not left out.
LEMMA KeptUpTo ==
    ASSUME NEW n \in Nat, NEW p \in 0 .. n, NEW P \in SUBSET (1 .. n)
    PROVE  Cardinality({q \in (1 .. n) \ P : q <= p}) = p - Cardinality({q \in P : q <= p})
<1> DEFINE I == 1 .. p
           G == {q \in P : q <= p}
<1>1. IsFiniteSet(I) /\ Cardinality(I) = p
  BY FS_Interval
<1>2. I \cap G = G /\ I \ G = {q \in (1 .. n) \ P : q <= p}
  <2>1. \A q : q \in I <=> q \in 1 .. n /\ q <= p
    OBVIOUS
  <2>2. P \subseteq 1 .. n
    OBVIOUS
  <2> HIDE DEF I
  <2> QED
    BY <2>1, <2>2
<1> HIDE DEF I, G
<1>3. Cardinality(I \ G) = Cardinality(I) - Cardinality(I \cap G)
  BY <1>1, FS_Difference
<1> QED
  BY <1>1, <1>2, <1>3 DEF G

\* The position of p among those kept.
Rank(kept, p) == Cardinality({q \in kept : q <= p})

LEMMA RankIn ==
    ASSUME NEW n \in Nat, NEW kept \in SUBSET (1 .. n), NEW p \in kept
    PROVE  Rank(kept, p) \in 1 .. Cardinality(kept) /\ Cardinality(kept) \in 0 .. n
<1> DEFINE T == {q \in kept : q <= p}
<1>1. IsFiniteSet(kept) /\ Cardinality(kept) \in 0 .. n
  BY PartOfInterval
<1>2. T \in SUBSET kept /\ T # {}
  OBVIOUS
<1>3. IsFiniteSet(T) /\ Cardinality(T) <= Cardinality(kept)
  BY <1>1, <1>2, FS_Subset
<1>4. Cardinality(T) \in Nat /\ Cardinality(T) # 0
  BY <1>2, <1>3, FS_CardinalityType, FS_EmptySet
<1> QED
  BY <1>1, <1>3, <1>4 DEF Rank

LEMMA RankGrows ==
    ASSUME NEW n \in Nat, NEW kept \in SUBSET (1 .. n), NEW p \in kept, NEW q \in kept, p < q
    PROVE  Rank(kept, p) < Rank(kept, q)
<1> DEFINE T == {x \in kept : x <= p}
           U == {x \in kept : x <= q}
<1>0. p \in Int /\ q \in Int /\ \A x \in kept : x \in Int
  OBVIOUS
<1>1. IsFiniteSet(U)
  <2>1. U \in SUBSET (1 .. n)
    OBVIOUS
  <2> QED
    BY <2>1, PartOfInterval
<1>2. T \in SUBSET U /\ T # U
  <2>1. q \in U /\ q \notin T
    BY <1>0
  <2>2. \A x \in T : x \in U
    BY <1>0
  <2> HIDE DEF T, U
  <2> QED
    BY <2>1, <2>2
<1>3. Cardinality(T) <= Cardinality(U) /\ Cardinality(T) # Cardinality(U) /\ IsFiniteSet(T)
  BY <1>1, <1>2, FS_Subset
<1>4. Cardinality(T) \in Nat /\ Cardinality(U) \in Nat
  BY <1>1, <1>3, FS_CardinalityType
<1> QED
  BY <1>3, <1>4 DEF Rank

LEMMA RankWithout ==
    ASSUME NEW n \in Nat, NEW kept \in SUBSET (1 .. n), NEW p \in kept, NEW q \in kept \ {p}
    PROVE  /\ q < p => Rank(kept \ {p}, q) = Rank(kept, q)
           /\ q > p => Rank(kept \ {p}, q) = Rank(kept, q) - 1
<1> DEFINE T == {x \in kept : x <= q}
<1>0. p \in Int /\ q \in Int /\ q # p
  OBVIOUS
<1>1. {x \in kept \ {p} : x <= q} = T \ {p}
  OBVIOUS
<1>2. IsFiniteSet(T)
  <2>1. T \in SUBSET (1 .. n)
    OBVIOUS
  <2> QED
    BY <2>1, PartOfInterval
<1>3. (q < p => p \notin T) /\ (q > p => p \in T)
  BY <1>0
<1> HIDE DEF T
<1>4. Cardinality(T \ {p}) = IF p \in T THEN Cardinality(T) - 1 ELSE Cardinality(T)
  BY <1>2, FS_RemoveElement
<1>5. Rank(kept \ {p}, q) = Cardinality(T \ {p}) /\ Rank(kept, q) = Cardinality(T)
  BY <1>1 DEF Rank, T
<1> QED
  BY <1>3, <1>4, <1>5

\* Another occurrence leaves the list.
LEMMA LeavesOutOneMore ==
    ASSUME NEW S, NEW c \in Seq(S), NEW d \in Seq(S), NEW P \in SUBSET (1 .. Len(c)), LeavesOut(d, c, P),
           NEW p \in (1 .. Len(c)) \ P
    PROVE  LeavesOut(RemoveAt(d, Rank((1 .. Len(c)) \ P, p)), c, P \cup {p})
<1> DEFINE n == Len(c)
           kept == (1 .. n) \ P
           r == Rank(kept, p)
           e == RemoveAt(d, r)
           left == kept \ {p}
<1>1. n \in Nat /\ DOMAIN c = 1 .. n
  BY LenProperties
<1>2. Len(d) = Cardinality(kept) /\ \A q \in kept : d[Rank(kept, q)] = c[q]
  BY <1>1 DEF LeavesOut, Rank
<1>3. kept \in SUBSET (1 .. n) /\ p \in kept /\ DOMAIN c \ (P \cup {p}) = left /\ \A q \in kept : q \in Int
  BY <1>1
<1> HIDE DEF n, kept
<1>4. r \in 1 .. Len(d) /\ Len(d) \in Nat
  BY <1>1, <1>2, <1>3, RankIn
<1> HIDE DEF r
<1>5. /\ Len(e) = Len(d) - 1
      /\ \A k \in 1 .. r - 1 : e[k] = d[k]
      /\ \A k \in r .. Len(d) - 1 : e[k] = d[k + 1]
  BY <1>4, RemovedAt
<1> HIDE DEF e
<1>6. Cardinality(left) = Cardinality(kept) - 1
  <2>1. IsFiniteSet(kept)
    BY <1>1, <1>3, PartOfInterval
  <2> QED
    BY <2>1, <1>3, FS_RemoveElement
<1>7. ASSUME NEW q \in left PROVE e[Rank(left, q)] = c[q]
  <2> DEFINE k == Rank(kept, q)
  <2>0. q \in kept /\ k \in 1 .. Len(d) /\ d[k] = c[q]
    BY <1>1, <1>2, <1>3, RankIn
  <2>1. CASE q < p
    <3>1. Rank(left, q) = k
      BY <2>1, <1>1, <1>3, RankWithout
    <3>2. k < r
      BY <2>0, <2>1, <1>1, <1>3, RankGrows DEF r
    <3> HIDE DEF k
    <3> QED
      BY <3>1, <3>2, <2>0, <1>4, <1>5
  <2>2. CASE q > p
    <3>1. Rank(left, q) = k - 1
      BY <2>2, <1>1, <1>3, RankWithout
    <3>2. r < k
      BY <2>0, <2>2, <1>1, <1>3, RankGrows DEF r
    <3> HIDE DEF k
    <3>3. k - 1 \in r .. Len(d) - 1 /\ k - 1 + 1 = k
      BY <3>2, <2>0, <1>4
    <3> QED
      BY <3>1, <3>3, <2>0, <1>5
  <2>3. q < p \/ q > p
    BY <1>3
  <2> QED
    BY <2>1, <2>2, <2>3
<1>8. LeavesOut(e, c, P \cup {p})
  BY <1>2, <1>3, <1>5, <1>6, <1>7 DEF LeavesOut, Rank
<1> QED
  BY <1>8 DEF e, r, kept, n

LEMMA LeavesOutNothing ==
    ASSUME NEW S, NEW c \in Seq(S) PROVE LeavesOut(c, c, {})
<1>1. Len(c) \in Nat /\ DOMAIN c = 1 .. Len(c) /\ (1 .. Len(c)) \ {} = 1 .. Len(c)
  BY LenProperties
<1>2. Cardinality(1 .. Len(c)) = Len(c)
  BY <1>1, FS_Interval, SMTT(30)
<1>3. ASSUME NEW p \in 1 .. Len(c) PROVE Cardinality({q \in 1 .. Len(c) : q <= p}) = p
  <2>1. {q \in 1 .. Len(c) : q <= p} = 1 .. p
    BY <1>1
  <2>2. p \in Int /\ p >= 1
    OBVIOUS
  <2>3. Cardinality(1 .. p) = p
    BY <2>2, FS_Interval
  <2> QED
    BY <2>1, <2>3
<1> QED
  BY <1>1, <1>2, <1>3 DEF LeavesOut

-----------------------------------------------------------------------------
(* Remove *)

Before(s, v, c) == {q \in Occurrences(s, v) : q < c}
Behind(s, v, c) == {q \in Occurrences(s, v) : q > c}

LEMMA OccurrencesIn ==
    ASSUME NEW S, NEW s \in Seq(S), NEW v
    PROVE  /\ Len(s) \in Nat /\ Occurrences(s, v) \in SUBSET (1 .. Len(s))
           /\ \A p \in 1 .. Len(s) : p \in Occurrences(s, v) <=> s[p] = v
  BY LenProperties DEF Occurrences

\* From the head: the cursor stands for position c of the list as it was.
LEMMA ForwardAt ==
    ASSUME Shape, call.was \in Seq(Value), NEW n, NEW v, NEW c \in 1 .. Len(call.was) + 1, RemovedBefore(n, v, c)
    PROVE  /\ call.removed \in Nat /\ length = Len(call.was) - call.removed /\ c - call.removed \in 1 .. length + 1
           /\ call.at = Null => c = Len(call.was) + 1
           /\ call.at # Null =>
                /\ c \in 1 .. Len(call.was) /\ c - call.removed \in 1 .. length
                /\ Values[c - call.removed] = call.was[c] /\ Rank((1 .. Len(call.was)) \ Before(call.was, v, c), c) = c - call.removed
<1> DEFINE was == call.was
           removed == call.removed
           at == call.at
           len == Len(was)
           gone == Before(was, v, c)
           kept == (1 .. len) \ gone
           k == c - removed
<1>0. /\ was \in Seq(Value) /\ removed = Cardinality(gone) /\ LeavesOut(Values, was, gone)
      /\ at = Nth(c - removed) /\ c \in 1 .. len + 1
  BY DEF RemovedBefore, Before
<1> HIDE DEF was, removed, at
<1>1. /\ len \in Nat /\ gone \in SUBSET (1 .. len) /\ gone \in SUBSET (1 .. c - 1)
      /\ c \notin gone /\ \A q \in gone : q < c
  BY <1>0, OccurrencesIn DEF Before
<1>2. removed \in 0 .. c - 1 /\ Cardinality(kept) = len - removed
  <2>1. c - 1 \in Nat
    OBVIOUS
  <2>2. removed \in 0 .. c - 1
    BY <1>0, <1>1, <2>1, PartOfInterval
  <2>3. {q \in kept : q <= len} = kept /\ {q \in gone : q <= len} = gone /\ len \in 0 .. len
    BY <1>1
  <2>4. Cardinality({q \in kept : q <= len}) = len - Cardinality({q \in gone : q <= len})
    BY <1>1, <2>3, KeptUpTo
  <2> QED
    BY <1>0, <2>2, <2>3, <2>4
<1>3. length \in Nat /\ Len(Values) = length
  BY ValuesTyped, Pointing
<1>4. length = len - removed
  <2>1. DOMAIN was = 1 .. len
    BY <1>0, LenProperties
  <2> QED
    BY <2>1, <1>0, <1>2, <1>3 DEF LeavesOut
<1>5. k \in 1 .. length + 1 /\ k \in Int
  BY <1>0, <1>1, <1>2, <1>4, SMTT(30)
<1>6. at # Null <=> k \in 1 .. length
  BY <1>0, <1>5, NthIsPointer
<1>7. at = Null => c = len + 1
  BY <1>2, <1>4, <1>5, <1>6
<1>8. ASSUME at # Null
      PROVE  c \in 1 .. len /\ k \in 1 .. length /\ Values[k] = was[c] /\ Rank(kept, c) = k
  <2>1. c \in 1 .. len /\ k \in 1 .. length /\ c \in 0 .. len
    BY <1>8, <1>1, <1>2, <1>4, <1>6
  <2>2. {q \in gone : q <= c} = gone
    BY <1>1
  <2>3. Rank(kept, c) = k
    <3>1. Cardinality({q \in kept : q <= c}) = c - Cardinality({q \in gone : q <= c})
      BY <2>1, <1>1, KeptUpTo
    <3> QED
      BY <3>1, <2>2, <1>0 DEF Rank
  <2>4. c \in kept /\ DOMAIN was = 1 .. len
    BY <2>1, <1>0, <1>1, LenProperties
  <2>5. Values[Rank(kept, c)] = was[c]
    BY <2>4, <1>0 DEF LeavesOut, Rank
  <2> QED
    BY <2>1, <2>3, <2>5
<1> QED
  BY <1>2, <1>4, <1>5, <1>7, <1>8 DEF was, removed, at

\* From the tail: nothing before the cursor has gone.
LEMMA BackwardAt ==
    ASSUME Shape, call.was \in Seq(Value), NEW n, NEW v, NEW c \in 0 .. Len(call.was), RemovedBehind(n, v, c)
    PROVE  /\ call.removed \in Nat /\ length = Len(call.was) - call.removed /\ c \in 0 .. length
           /\ call.at = Null => c = 0
           /\ call.at # Null =>
                /\ c \in 1 .. Len(call.was) /\ c \in 1 .. length
                /\ Values[c] = call.was[c] /\ Rank((1 .. Len(call.was)) \ Behind(call.was, v, c), c) = c
<1> DEFINE was == call.was
           removed == call.removed
           at == call.at
           len == Len(was)
           gone == Behind(was, v, c)
           kept == (1 .. len) \ gone
<1>0. /\ was \in Seq(Value) /\ removed = Cardinality(gone) /\ LeavesOut(Values, was, gone)
      /\ at = Nth(c) /\ c \in 0 .. len
  BY DEF RemovedBehind, Behind
<1> HIDE DEF was, removed, at
<1>1. /\ len \in Nat /\ gone \in SUBSET (1 .. len)
      /\ c \notin gone /\ \A q \in gone : q > c
  BY <1>0, OccurrencesIn DEF Behind
<1>2. removed \in Nat /\ Cardinality(kept) = len - removed /\ c <= len - removed
  <2>1. removed \in Nat
    BY <1>0, <1>1, PartOfInterval
  <2>2. {q \in kept : q <= len} = kept /\ {q \in gone : q <= len} = gone /\ len \in 0 .. len
    BY <1>1
  <2>3. Cardinality({q \in kept : q <= len}) = len - Cardinality({q \in gone : q <= len})
    BY <1>1, <2>2, KeptUpTo, ZenonT(60)
  <2>4. 1 .. c \in SUBSET kept /\ IsFiniteSet(kept) /\ Cardinality(1 .. c) = c
    <3>1. 1 .. c \in SUBSET kept
      BY <1>0, <1>1
    <3>2. kept \in SUBSET (1 .. len)
      OBVIOUS
    <3>3. IsFiniteSet(kept)
      BY <1>1, <3>2, PartOfInterval
    <3>4. Cardinality(1 .. c) = c
      BY FS_Interval
    <3> QED
      BY <3>1, <3>3, <3>4
  <2>5. c <= Cardinality(kept)
    BY <2>4, FS_Subset
  <2> QED
    BY <1>0, <2>1, <2>2, <2>3, <2>5
<1>3. length \in Nat /\ Len(Values) = length
  BY ValuesTyped, Pointing
<1>4. length = len - removed
  <2>1. DOMAIN was = 1 .. len
    BY <1>0, LenProperties
  <2> QED
    BY <2>1, <1>0, <1>2, <1>3 DEF LeavesOut
<1>5. c \in 0 .. length /\ c \in Int
  BY <1>2, <1>4
<1>6. at # Null <=> c \in 1 .. length
  BY <1>0, <1>5, NthIsPointer
<1>7. at = Null => c = 0
  BY <1>3, <1>5, <1>6
<1>8. ASSUME at # Null
      PROVE  c \in 1 .. len /\ c \in 1 .. length /\ Values[c] = was[c] /\ Rank(kept, c) = c
  <2>1. c \in 1 .. len /\ c \in 1 .. length /\ c \in 0 .. len
    BY <1>8, <1>1, <1>2, <1>4, <1>6
  <2>2. {q \in gone : q <= c} = {} /\ Cardinality({}) = 0
    <3>1. {q \in gone : q <= c} = {}
      BY <1>1, <2>1
    <3> QED
      BY <3>1, FS_EmptySet
  <2>3. Rank(kept, c) = c
    <3>1. Cardinality({q \in kept : q <= c}) = c - Cardinality({q \in gone : q <= c})
      BY <2>1, <1>1, KeptUpTo
    <3>2. Cardinality({q \in gone : q <= c}) = 0
      BY <2>2
    <3>3. c \in Int
      BY <1>0, <1>1
    <3> HIDE DEF kept, gone
    <3>4. Cardinality({q \in kept : q <= c}) = c
      BY <3>1, <3>2, <3>3
    <3> QED
      BY <3>4 DEF Rank
  <2>4. c \in kept /\ DOMAIN was = 1 .. len
    BY <2>1, <1>0, <1>1, LenProperties
  <2>5. Values[Rank(kept, c)] = was[c]
    BY <2>4, <1>0 DEF LeavesOut, Rank
  <2> QED
    BY <2>1, <2>3, <2>5
<1> QED
  BY <1>2, <1>4, <1>5, <1>7, <1>8 DEF was, removed, at

LEMMA RemoveElementKeeps ==
    ASSUME Inductive, NEW n \in Ints, NEW v \in Value, RemoveElement(n, v)
    PROVE  Inductive'
<1>0. /\ Shape /\ UNCHANGED list /\ Shape' /\ length \in Nat /\ length' = length /\ chain' = chain
      /\ Values' = Values /\ head = Nth(1) /\ tail = Nth(length) /\ Len(Values) = length
      /\ Values \in Seq(Value) /\ head \in Pointers /\ tail \in Pointers /\ n \in Int
  BY Kept, Pointing, ValuesTyped, IntsAssumption DEF Inductive, RemoveElement, list, Shape, Typed
<1>1. call' = [op |-> "Remove", args |-> <<n, v>>, at |-> IF n < 0 THEN tail ELSE head,
               removed |-> 0, was |-> Values]
  BY DEF RemoveElement, Begin
<1>2. call' \in Loops /\ call'.op = "Remove"
  <2>1. <<n, v>> \in Args
    BY <1>0 DEF Args
  <2> QED
    BY <1>0, <1>1, <2>1 DEF Loops
<1>3. LeavesOut(Values, Values, {}) /\ Cardinality({}) = 0
  BY <1>0, LeavesOutNothing, FS_EmptySet
<1>4. Before(Values, v, 1) = {} /\ Behind(Values, v, length) = {}
  <2>1. Occurrences(Values, v) \in SUBSET (1 .. length)
    BY <1>0, OccurrencesIn
  <2> QED
    BY <2>1, <1>0 DEF Before, Behind
<1>5. CASE n >= 0
  <2>0. /\ call'.args = <<n, v>> /\ call'.removed = 0 /\ call'.was = Values /\ call'.at = Nth(1)
        /\ 1 - 0 = 1 /\ 1 \in 1 .. length + 1 /\ (n > 0 => 0 <= n)
    BY <1>0, <1>1, <1>5
  <2>1. /\ 1 \in 1 .. Len(call'.was) + 1 /\ call'.args = <<n, v>>
        /\ call'.removed = Cardinality(Before(call'.was, v, 1))
        /\ LeavesOut(Values', call'.was, Before(call'.was, v, 1))
        /\ call'.at = (IF 1 - call'.removed \in 1 .. length' THEN chain'[1 - call'.removed] ELSE Null)
        /\ (n > 0 => call'.removed <= n)
    BY <2>0, <1>0, <1>3, <1>4 DEF Nth
  <2> QED
    BY <2>1, <1>0, <1>2, <1>5, StillRemoving DEF Removing, RemovedBefore, Before, Nth
<1>6. CASE n < 0
  <2>0. /\ call'.args = <<n, v>> /\ call'.removed = 0 /\ call'.was = Values /\ call'.at = Nth(length)
        /\ length \in 0 .. length /\ 0 <= -n
    BY <1>0, <1>1, <1>6
  <2>1. /\ length \in 0 .. Len(call'.was) /\ call'.args = <<n, v>>
        /\ call'.removed = Cardinality(Behind(call'.was, v, length))
        /\ LeavesOut(Values', call'.was, Behind(call'.was, v, length))
        /\ call'.at = (IF length \in 1 .. length' THEN chain'[length] ELSE Null)
        /\ call'.removed <= -n
    BY <2>0, <1>0, <1>3, <1>4 DEF Nth
  <2> QED
    BY <2>1, <1>0, <1>2, <1>6, StillRemoving DEF Removing, RemovedBehind, Behind, Nth
<1> QED
  BY <1>0, <1>5, <1>6

\* A Remove that goes on is at a node, and `next' is its neighbour.
LEMMA RemoveAdvances ==
    ASSUME Inductive, RemoveStep, NEW n \in Ints, NEW v \in Value, call.args = <<n, v>>,
           NEW k \in 1 .. length, call.at = Nth(k)
    PROVE  LET next == IF n < 0 THEN Nth(k - 1) ELSE Nth(k + 1) IN
           /\ n = 0 \/ call.removed < IF n < 0 THEN -n ELSE n
           /\ call' \in [op : {"Remove"}, args : Args, at : Pointers, removed : Nat, was : Seq(Value)]
           /\ call'.args = call.args /\ call'.was = call.was /\ call'.at = next
           /\ Values[k] = v => call'.removed = call.removed + 1 /\ Unlink(Nth(k), Nth(k - 1), Nth(k + 1))
           /\ Values[k] # v => call'.removed = call.removed /\ UNCHANGED list
<1> DEFINE next == IF n < 0 THEN Nth(k - 1) ELSE Nth(k + 1)
<1>1. /\ Shape /\ call \in [op : {"Remove"}, args : Args, at : Pointers, removed : Nat, was : Seq(Value)]
      /\ call.args[1] = n /\ call.args[2] = v /\ length \in Nat
  BY InLoop DEF Inductive, RemoveStep, Shape, Typed
<1>2. /\ call.at = chain[k] /\ node[chain[k]].next = Nth(k + 1) /\ node[chain[k]].prev = Nth(k - 1)
      /\ node[chain[k]].value = Values[k]
  BY <1>1, Pointing, ValuesTyped DEF Nth
<1>3. next = (IF call.args[1] < 0 THEN node[call.at].prev ELSE node[call.at].next)
  BY <1>1, <1>2
<1>4. next \in Pointers
  <2>1. k - 1 \in Int /\ k + 1 \in Int
    OBVIOUS
  <2>2. Nth(k - 1) \in Pointers /\ Nth(k + 1) \in Pointers
    BY <2>1, <1>1, NthIsPointer
  <2> QED
    BY <2>2
<1>5. n = 0 \/ call.removed < IF n < 0 THEN -n ELSE n
  BY <1>1 DEF RemoveStep, Goes
<1> HIDE DEF next
<1>6. CASE Values[k] = v
  <2>1. /\ Unlink(call.at, node[call.at].prev, node[call.at].next)
        /\ call' = [[call EXCEPT !.at = next] EXCEPT !.removed = call.removed + 1]
    BY <1>1, <1>2, <1>3, <1>6 DEF RemoveStep
  <2>2. Unlink(Nth(k), Nth(k - 1), Nth(k + 1))
    BY <2>1, <1>2
  <2> QED
    <3>1. /\ call' \in [op : {"Remove"}, args : Args, at : Pointers, removed : Nat, was : Seq(Value)]
          /\ call'.args = call.args /\ call'.was = call.was /\ call'.at = next
          /\ call'.removed = call.removed + 1
      <4> DEFINE r == call.removed + 1
      <4>1. r \in Nat /\ call' = [[call EXCEPT !.at = next] EXCEPT !.removed = r]
        BY <2>1, <1>1
      <4> HIDE DEF r
      <4>2. /\ call' \in [op : {"Remove"}, args : Args, at : Pointers, removed : Nat, was : Seq(Value)]
            /\ call'.args = call.args /\ call'.was = call.was /\ call'.at = next /\ call'.removed = r
        BY <4>1, <1>1, <1>4
      <4> QED
        BY <4>2 DEF r
    <3> QED
      BY <3>1, <2>2, <1>5, <1>6 DEF next
<1>7. CASE Values[k] # v
  <2>1. UNCHANGED list /\ call' = [call EXCEPT !.at = next]
    BY <1>1, <1>2, <1>3, <1>7 DEF RemoveStep
  <2> QED
    BY <2>1, <1>1, <1>4, <1>5, <1>7 DEF next
<1> QED
  BY <1>6, <1>7

LEMMA ForwardKeeps ==
    ASSUME Inductive, RemoveStep, NEW n \in Ints, NEW v \in Value, call.args = <<n, v>>, n >= 0,
           NEW c \in 1 .. Len(call.was) + 1, RemovedBefore(n, v, c)
    PROVE  Inductive'
<1> DEFINE was == call.was
           gone == Before(was, v, c)
           k == c - call.removed
           next == Nth(k + 1)
           d == c + 1
<1>0. /\ Shape /\ length \in Nat /\ n \in Int /\ call.at # Null
      /\ was \in Seq(Value) /\ call.removed \in Nat
  <2>1. call \in [op : {"Remove"}, args : Args, at : Pointers, removed : Nat, was : Seq(Value)]
    BY InLoop DEF Inductive, RemoveStep
  <2> QED
    BY <2>1, IntsAssumption DEF Inductive, RemoveStep, Goes, Shape, Typed
<1>1. /\ call.removed = Cardinality(gone) /\ LeavesOut(Values, was, gone)
      /\ call.at = Nth(k) /\ (n > 0 => call.removed <= n)
  BY DEF RemovedBefore, Before
<1>2. /\ length = Len(was) - call.removed /\ c \in 1 .. Len(was) /\ k \in 1 .. length
      /\ Values[k] = was[c] /\ Rank((1 .. Len(was)) \ gone, c) = k
  <2>1. /\ length = Len(call.was) - call.removed
        /\ call.at # Null =>
             /\ c \in 1 .. Len(call.was) /\ c - call.removed \in 1 .. length
             /\ Values[c - call.removed] = call.was[c]
             /\ Rank((1 .. Len(call.was)) \ Before(call.was, v, c), c) = c - call.removed
    BY <1>0, ForwardAt
  <2> QED
    BY <2>1, <1>0
<1>3. /\ Len(was) \in Nat /\ gone \in SUBSET (1 .. Len(was)) /\ c \notin gone
      /\ \A p \in 1 .. Len(was) : p \in Occurrences(was, v) <=> was[p] = v
      /\ Occurrences(was, v) \in SUBSET (1 .. Len(was))
  BY <1>0, OccurrencesIn DEF Before
<1>4. d \in 1 .. Len(was) + 1
  BY <1>2, <1>3
<1>5. /\ n = 0 \/ call.removed < n
      /\ call' \in [op : {"Remove"}, args : Args, at : Pointers, removed : Nat, was : Seq(Value)]
      /\ call'.args = call.args /\ call'.was = was /\ call'.at = next
      /\ Values[k] = v => call'.removed = call.removed + 1 /\ Unlink(Nth(k), Nth(k - 1), Nth(k + 1))
      /\ Values[k] # v => call'.removed = call.removed /\ UNCHANGED list
  <2>1. ~(n < 0)
    BY <1>0
  <2> HIDE DEF k
  <2> QED
    BY <2>1, <1>1, <1>2, RemoveAdvances
<1>6. call' \in Loops /\ call'.op = "Remove"
  BY <1>5 DEF Loops
<1>7. CASE Values[k] = v
  <2>1. Before(was, v, d) = gone \cup {c}
    <3>1. c \in Occurrences(was, v)
      BY <1>2, <1>3, <1>7
    <3>2. \A q \in Occurrences(was, v) : q \in Int /\ (q < d <=> q < c \/ q = c)
      BY <1>3, <1>2
    <3> HIDE DEF d
    <3> QED
      BY <3>1, <3>2 DEF Before
  <2>2. Cardinality(gone \cup {c}) = call.removed + 1
    <3>1. IsFiniteSet(gone)
      BY <1>3, PartOfInterval
    <3> QED
      BY <3>1, <1>1, <1>3, FS_AddElement
  <2> HIDE DEF gone, k
  <2>3. /\ Shape' /\ length' = length - 1 /\ Values' = RemoveAt(Values, k)
        /\ \A p \in k .. length - 1 : chain'[p] = chain[p + 1]
    BY <1>0, <1>2, <1>5, <1>7, UnlinkDoes
  <2>4. LeavesOut(Values', was, gone \cup {c})
    <3>1. Values \in Seq(Value) /\ c \in (1 .. Len(was)) \ gone
      BY <1>0, <1>2, <1>3, ValuesTyped
    <3>2. LeavesOut(RemoveAt(Values, Rank((1 .. Len(was)) \ gone, c)), was, gone \cup {c})
      BY <3>1, <1>0, <1>1, <1>3, LeavesOutOneMore
    <3> QED
      BY <3>2, <2>3, <1>2
  <2>5. next = (IF k \in 1 .. length' THEN chain'[k] ELSE Null)
    <3>1. (k \in 1 .. length - 1 <=> k + 1 \in 1 .. length) /\ (k \in 1 .. length - 1 <=> k \in k .. length - 1)
      BY <1>0, <1>2
    <3> QED
      BY <3>1, <2>3 DEF Nth
  <2>6. d - call'.removed = k
    BY <1>0, <1>5, <1>7, SMTT(30) DEF k
  <2>7. n > 0 => call'.removed <= n
    BY <1>0, <1>5, <1>7
  <2> HIDE DEF d, next, was
  <2>8. /\ d \in 1 .. Len(call'.was) + 1 /\ call'.args = <<n, v>>
        /\ call'.removed = Cardinality(Before(call'.was, v, d))
        /\ LeavesOut(Values', call'.was, Before(call'.was, v, d))
        /\ call'.at = (IF d - call'.removed \in 1 .. length' THEN chain'[d - call'.removed] ELSE Null)
    BY <2>1, <2>2, <2>4, <2>5, <2>6, <1>4, <1>5, <1>7
  <2>9. Removing'
    BY <2>7, <2>8 DEF Removing, RemovedBefore, Before, Nth
  <2> QED
    BY <2>3, <2>9, <1>6, StillRemoving
<1>8. CASE Values[k] # v
  <2>1. Before(was, v, d) = gone
    <3>1. c \notin Occurrences(was, v)
      BY <1>2, <1>3, <1>8
    <3>2. \A q \in Occurrences(was, v) : q \in Int /\ (q < d <=> q < c \/ q = c)
      BY <1>3, <1>2
    <3> HIDE DEF d
    <3> QED
      BY <3>1, <3>2 DEF Before
  <2> HIDE DEF gone, k
  <2>2. call'.removed = call.removed /\ UNCHANGED list
    BY <1>5, <1>8
  <2>3. Shape' /\ length' = length /\ chain' = chain /\ Values' = Values
    BY <1>0, <2>2, Kept DEF list
  <2>4. next = (IF k + 1 \in 1 .. length' THEN chain'[k + 1] ELSE Null)
    BY <2>3 DEF Nth
  <2>5. d - call'.removed = k + 1
    BY <1>0, <2>2 DEF k
  <2> HIDE DEF d, next, was
  <2>6. /\ d \in 1 .. Len(call'.was) + 1 /\ call'.args = <<n, v>>
        /\ call'.removed = Cardinality(Before(call'.was, v, d))
        /\ LeavesOut(Values', call'.was, Before(call'.was, v, d))
        /\ call'.at = (IF d - call'.removed \in 1 .. length' THEN chain'[d - call'.removed] ELSE Null)
        /\ n > 0 => call'.removed <= n
    BY <2>1, <2>2, <2>3, <2>4, <2>5, <1>1, <1>4, <1>5
  <2>7. Removing'
    BY <2>6 DEF Removing, RemovedBefore, Before, Nth
  <2> QED
    BY <2>3, <2>7, <1>6, StillRemoving
<1> QED
  BY <1>7, <1>8

LEMMA BackwardKeeps ==
    ASSUME Inductive, RemoveStep, NEW n \in Ints, NEW v \in Value, call.args = <<n, v>>, n < 0,
           NEW c \in 0 .. Len(call.was), RemovedBehind(n, v, c)
    PROVE  Inductive'
<1> DEFINE was == call.was
           gone == Behind(was, v, c)
           next == Nth(c - 1)
           d == c - 1
<1>0. /\ Shape /\ length \in Nat /\ n \in Int /\ call.at # Null
      /\ was \in Seq(Value) /\ call.removed \in Nat
  <2>1. call \in [op : {"Remove"}, args : Args, at : Pointers, removed : Nat, was : Seq(Value)]
    BY InLoop DEF Inductive, RemoveStep
  <2> QED
    BY <2>1, IntsAssumption DEF Inductive, RemoveStep, Goes, Shape, Typed
<1>1. /\ call.removed = Cardinality(gone) /\ LeavesOut(Values, was, gone)
      /\ call.at = Nth(c) /\ call.removed <= -n
  BY DEF RemovedBehind, Behind
<1>2. /\ length = Len(was) - call.removed /\ c \in 1 .. Len(was) /\ c \in 1 .. length
      /\ Values[c] = was[c] /\ Rank((1 .. Len(was)) \ gone, c) = c
  BY <1>0, BackwardAt, ZenonT(60)
<1>3. /\ Len(was) \in Nat /\ gone \in SUBSET (1 .. Len(was)) /\ c \notin gone
      /\ \A p \in 1 .. Len(was) : p \in Occurrences(was, v) <=> was[p] = v
      /\ Occurrences(was, v) \in SUBSET (1 .. Len(was))
  BY <1>0, OccurrencesIn DEF Behind
<1>4. d \in 0 .. Len(was)
  BY <1>2, <1>3
<1>5. /\ call.removed < -n
      /\ call' \in [op : {"Remove"}, args : Args, at : Pointers, removed : Nat, was : Seq(Value)]
      /\ call'.args = call.args /\ call'.was = was /\ call'.at = next
      /\ Values[c] = v => call'.removed = call.removed + 1 /\ Unlink(Nth(c), Nth(c - 1), Nth(c + 1))
      /\ Values[c] # v => call'.removed = call.removed /\ UNCHANGED list
  <2>1. n # 0
    BY <1>0
  <2> QED
    BY <2>1, <1>1, <1>2, RemoveAdvances
<1>6. call' \in Loops /\ call'.op = "Remove"
  BY <1>5 DEF Loops
<1>7. CASE Values[c] = v
  <2>1. Behind(was, v, d) = gone \cup {c}
    <3>1. c \in Occurrences(was, v)
      BY <1>2, <1>3, <1>7
    <3>2. \A q \in Occurrences(was, v) : q \in Int /\ (q > d <=> q > c \/ q = c)
      BY <1>3, <1>2
    <3> HIDE DEF d
    <3> QED
      BY <3>1, <3>2 DEF Behind
  <2>2. Cardinality(gone \cup {c}) = call.removed + 1
    <3>1. IsFiniteSet(gone)
      BY <1>3, PartOfInterval
    <3> QED
      BY <3>1, <1>1, <1>3, FS_AddElement
  <2> HIDE DEF gone
  <2>3. /\ Shape' /\ length' = length - 1 /\ Values' = RemoveAt(Values, c)
        /\ \A p \in 1 .. c - 1 : chain'[p] = chain[p]
    BY <1>0, <1>2, <1>5, <1>7, UnlinkDoes
  <2>4. LeavesOut(Values', was, gone \cup {c})
    <3>1. Values \in Seq(Value) /\ c \in (1 .. Len(was)) \ gone
      BY <1>0, <1>2, <1>3, ValuesTyped
    <3>2. LeavesOut(RemoveAt(Values, Rank((1 .. Len(was)) \ gone, c)), was, gone \cup {c})
      BY <3>1, <1>0, <1>1, <1>3, LeavesOutOneMore
    <3> QED
      BY <3>2, <2>3, <1>2
  <2>5. next = (IF d \in 1 .. length' THEN chain'[d] ELSE Null)
    <3>1. d \in Int /\ d <= length - 1 /\ (d \in 1 .. length - 1 <=> d \in 1 .. length) /\ (d \in 1 .. length => d \in 1 .. c - 1)
      BY <1>0, <1>2
    <3>2. next = Nth(d)
      OBVIOUS
    <3> HIDE DEF d, next
    <3> QED
      BY <3>1, <3>2, <2>3 DEF Nth
  <2>6. call'.removed <= -n
    BY <1>0, <1>5, <1>7
  <2> HIDE DEF d, next, was
  <2>7. /\ d \in 0 .. Len(call'.was) /\ call'.args = <<n, v>>
        /\ call'.removed = Cardinality(Behind(call'.was, v, d))
        /\ LeavesOut(Values', call'.was, Behind(call'.was, v, d))
        /\ call'.at = (IF d \in 1 .. length' THEN chain'[d] ELSE Null)
    BY <2>1, <2>2, <2>4, <2>5, <1>4, <1>5, <1>7
  <2>8. Removing'
    BY <2>6, <2>7 DEF Removing, RemovedBehind, Behind, Nth
  <2> QED
    BY <2>3, <2>8, <1>6, StillRemoving
<1>8. CASE Values[c] # v
  <2>1. Behind(was, v, d) = gone
    <3>1. c \notin Occurrences(was, v)
      BY <1>2, <1>3, <1>8
    <3>2. \A q \in Occurrences(was, v) : q \in Int /\ (q > d <=> q > c \/ q = c)
      BY <1>3, <1>2
    <3> HIDE DEF d
    <3> QED
      BY <3>1, <3>2 DEF Behind
  <2> HIDE DEF gone
  <2>2. call'.removed = call.removed /\ UNCHANGED list
    BY <1>5, <1>8
  <2>3. Shape' /\ length' = length /\ chain' = chain /\ Values' = Values
    BY <1>0, <2>2, Kept DEF list
  <2>4. next = (IF d \in 1 .. length' THEN chain'[d] ELSE Null)
    BY <2>3 DEF Nth
  <2> HIDE DEF d, next, was
  <2>5. /\ d \in 0 .. Len(call'.was) /\ call'.args = <<n, v>>
        /\ call'.removed = Cardinality(Behind(call'.was, v, d))
        /\ LeavesOut(Values', call'.was, Behind(call'.was, v, d))
        /\ call'.at = (IF d \in 1 .. length' THEN chain'[d] ELSE Null)
        /\ call'.removed <= -n
    BY <2>1, <2>2, <2>3, <2>4, <1>1, <1>4, <1>5
  <2>6. Removing'
    BY <2>5 DEF Removing, RemovedBehind, Behind, Nth
  <2> QED
    BY <2>3, <2>6, <1>6, StillRemoving
<1> QED
  BY <1>7, <1>8

LEMMA RemoveStepKeeps == ASSUME Inductive, RemoveStep PROVE Inductive'
<1>1. PICK n \in Ints, v \in Value :
        /\ call.args = <<n, v>>
        /\ \/ n >= 0 /\ \E c \in 1 .. Len(call.was) + 1 : RemovedBefore(n, v, c)
           \/ n < 0 /\ \E c \in 0 .. Len(call.was) : RemovedBehind(n, v, c)
  BY DEF Inductive, RemoveStep, Removing
<1> QED
  BY <1>1, ForwardKeeps, BackwardKeeps

LEMMA RemoveEndsKeeps == ASSUME Inductive, RemoveEnds PROVE Inductive'
  BY Kept, Returned DEF Inductive, RemoveEnds, Return

-----------------------------------------------------------------------------
(* The list is linked at every step *)

LEMMA InitInductive == ASSUME Init PROVE Inductive
<1>1. /\ << >> \in Seq(Addr) /\ Len(<< >>) = 0 /\ chain = << >> /\ length = 0
  BY EmptySeq DEF Init
<1>2. node \in [Addr -> Nodes] /\ head = Null /\ tail = Null /\ Null \in Pointers
  BY DEF Init, Blank, Nodes, Pointers
<1>3. Typed
  BY <1>1, <1>2 DEF Typed
<1>4. Linked
  <2>1. DOMAIN chain = {}
    BY <1>1
  <2> QED
    BY <1>1, <1>2, <2>1 DEF Linked
<1>5. call \in Loops /\ call.op = "none"
  BY DEF Init, Idle, Loops
<1> QED
  BY <1>3, <1>4, <1>5 DEF Inductive, Shape, Seeking, Collecting, Inserting, Removing, Seekers, Inserters

LEMMA NextInductive == ASSUME Inductive, [Next]_vars PROVE Inductive'
<1>1. CASE Use
  BY <1>1, EndsKeep, IndexKeeps, SetKeeps, RemoveElementKeeps, GetRangeKeeps, TrimToKeeps, InsertNextToKeeps DEF Use
<1>2. CASE Step
  BY <1>2, WalkKeeps, IndexFoundKeeps, SetFoundKeeps, RangeFoundKeeps, CollectKeeps, TrimFoundKeeps,
     TrimEndFoundKeeps, InsertLooksOnKeeps, InsertMissesKeeps, InsertFoundKeeps, RemoveStepKeeps, RemoveEndsKeeps
  DEF Step
<1>3. CASE UNCHANGED vars
  <2>1. UNCHANGED list /\ call' = call
    BY <1>3 DEF vars
  <2>2. /\ Shape' /\ call' \in Loops /\ length' = length /\ chain' = chain /\ Values' = Values /\ Free' = Free
        /\ \A i : FromEnd(i)' = FromEnd(i) /\ Lower(i)' = Lower(i) /\ Upper(i)' = Upper(i)
    BY <2>1, Kept DEF Inductive, list
  <2>3. Seeking'
    BY <2>1, <2>2 DEF Inductive, Seeking
  <2>4. Collecting'
    BY <2>1, <2>2 DEF Inductive, Collecting, Nth
  <2>5. Inserting'
    BY <2>1, <2>2 DEF Inductive, Inserting, Nth
  <2>6. Removing'
    BY <2>1, <2>2 DEF Inductive, Removing, RemovedBefore, RemovedBehind, Nth
  <2> QED
    BY <2>2, <2>3, <2>4, <2>5, <2>6 DEF Inductive
<1> QED
  BY <1>1, <1>2, <1>3 DEF Next

(* Every node list.go keeps is linked to its neighbours, and every loop     *)
(* over the nodes is where it takes itself to be, for any number of nodes.  *)
THEOREM InductiveAlways == Spec => []Inductive
<1>1. Init => Inductive
  BY InitInductive
<1>2. Inductive /\ [Next]_vars => Inductive'
  BY NextInductive
<1> QED
  BY <1>1, <1>2, PTL DEF Spec

(* Pushes, pops, insertions, removals and trims leave next, prev, head,     *)
(* tail and length telling of the same sequence, and so does each step in   *)
(* the middle of List.Remove.                                               *)
THEOREM PointersAgree == Spec => []Linked
<1>1. Inductive => Linked
  BY DEF Inductive, Shape
<1> QED
  BY <1>1, InductiveAlways, PTL

-----------------------------------------------------------------------------
(* LinkedList implements ListContract: callers of list.go see operations on *)
(* a sequence that take effect at once.                                     *)

(* What the contract computes, for a sequence                              *)

LEMMA PushedLeft ==
    ASSUME NEW S, NEW s \in Seq(S), NEW e \in S
    PROVE  Contract!PushLeft(s, <<e>>) = InsertAt(s, 1, e)
<1> DEFINE o == <<e>>
           t == o \o s
           u == InsertAt(s, 1, e)
           n == Len(s)
<1>1. o \in Seq(S) /\ Len(o) = 1 /\ o[1] = e /\ n \in Nat
  BY LenProperties
<1>2. Contract!PushLeft(s, <<e>>) = t
  <2>1. Contract!Reverse(<<e>>) = <<e>>
    BY DEF Contract!Reverse
  <2> QED
    BY <2>1 DEF Contract!PushLeft
<1> HIDE DEF o
<1>3. /\ t \in Seq(S) /\ Len(t) = n + 1
      /\ \A p \in 1 .. n + 1 : t[p] = IF p <= 1 THEN o[p] ELSE s[p - 1]
  <2>1. /\ t \in Seq(S) /\ Len(t) = Len(o) + Len(s)
        /\ \A p \in 1 .. Len(o) + Len(s) : t[p] = IF p <= Len(o) THEN o[p] ELSE s[p - Len(o)]
    BY <1>1, ConcatProperties
  <2> HIDE DEF t
  <2>2. Len(o) + Len(s) = n + 1
    BY <1>1
  <2> QED
    BY <2>1, <2>2, <1>1
<1>4. 1 \in 1 .. Len(s) + 1
  BY <1>1
<1>5. /\ u \in Seq(S) /\ Len(u) = n + 1 /\ u[1] = e
      /\ \A p \in 1 + 1 .. n + 1 : u[p] = s[p - 1]
  BY <1>4, Inserted
<1> HIDE DEF t, u, n
<1>6. ASSUME NEW p \in 1 .. n + 1 PROVE t[p] = u[p]
  <2>1. CASE p = 1
    BY <2>1, <1>1, <1>3, <1>5
  <2>2. CASE p # 1
    <3>1. p \in 1 + 1 .. n + 1 /\ ~(p <= 1)
      BY <2>2, <1>1
    <3> QED
      BY <3>1, <1>3, <1>5
  <2> QED
    BY <2>1, <2>2
<1>7. t = u
  BY <1>3, <1>5, <1>6, SeqEqual
<1> QED
  BY <1>2, <1>7 DEF u

LEMMA PushedRight ==
    ASSUME NEW S, NEW s \in Seq(S), NEW e \in S
    PROVE  Contract!PushRight(s, <<e>>) = InsertAt(s, Len(s) + 1, e)
<1> DEFINE o == <<e>>
           t == s \o o
           n == Len(s)
           m == n + 1
           u == InsertAt(s, m, e)
<1>1. o \in Seq(S) /\ Len(o) = 1 /\ o[1] = e /\ n \in Nat /\ m \in 1 .. Len(s) + 1 /\ m \in Nat /\ m - 1 = n
  BY LenProperties
<1>2. Contract!PushRight(s, <<e>>) = t
  BY DEF Contract!PushRight
<1> HIDE DEF o
<1>3. /\ t \in Seq(S) /\ Len(t) = m
      /\ \A p \in 1 .. m : t[p] = IF p <= n THEN s[p] ELSE o[p - n]
  <2>1. /\ t \in Seq(S) /\ Len(t) = Len(s) + Len(o)
        /\ \A p \in 1 .. Len(s) + Len(o) : t[p] = IF p <= Len(s) THEN s[p] ELSE o[p - Len(s)]
    BY <1>1, ConcatProperties
  <2> HIDE DEF t
  <2> QED
    BY <2>1, <1>1
<1> HIDE DEF m
<1>5. /\ u \in Seq(S) /\ Len(u) = Len(s) + 1 /\ u[m] = e
      /\ \A p \in 1 .. m - 1 : u[p] = s[p]
  BY <1>1, Inserted
<1> HIDE DEF t, u
<1>6. ASSUME NEW p \in 1 .. m PROVE t[p] = u[p]
  <2>1. CASE p = m
    <3>1. ~(p <= n) /\ p - n = 1
      BY <2>1, <1>1
    <3> QED
      BY <3>1, <2>1, <1>1, <1>3, <1>5
  <2>2. CASE p # m
    <3>1. p \in 1 .. m - 1 /\ p <= n
      BY <2>2, <1>1
    <3> QED
      BY <3>1, <1>3, <1>5
  <2> QED
    BY <2>1, <2>2
<1>7. t = u
  <2>1. Len(t) = Len(u)
    BY <1>1, <1>3, <1>5
  <2> QED
    BY <2>1, <1>3, <1>5, <1>6, SeqEqual
<1> QED
  BY <1>2, <1>7 DEF u, m

LEMMA PoppedLeft ==
    ASSUME NEW S, NEW s \in Seq(S), Len(s) > 0
    PROVE  Contract!PopLeft(s, 1) = RemoveAt(s, 1)
<1> DEFINE n == Len(s)
           t == SubSeq(s, 2, n)
           u == RemoveAt(s, 1)
<1>1. n \in Nat /\ 2 \in 1 .. Len(s) + 1 /\ 1 \in 1 .. Len(s) /\ n - 2 + 1 = n - 1
  BY LenProperties
<1>2. Contract!PopLeft(s, 1) = t
  BY DEF Contract!PopLeft
<1>3. /\ t \in Seq(S) /\ Len(t) = n - 1
      /\ \A p \in 1 .. n - 1 : t[p] = s[2 + p - 1]
  BY <1>1, RestPart
<1>4. /\ u \in Seq(S) /\ Len(u) = n - 1
      /\ \A p \in 1 .. n - 1 : u[p] = s[p + 1]
  BY <1>1, RemovedAt
<1> HIDE DEF t, u
<1>5. \A p \in 1 .. n - 1 : t[p] = u[p]
  <2>1. \A p \in 1 .. n - 1 : 2 + p - 1 = p + 1
    BY <1>1
  <2> QED
    BY <2>1, <1>3, <1>4
<1>6. t = u
  BY <1>3, <1>4, <1>5, SeqEqual
<1> QED
  BY <1>2, <1>6 DEF u

LEMMA PoppedRight ==
    ASSUME NEW S, NEW s \in Seq(S), Len(s) > 0
    PROVE  Contract!PopRight(s, 1) = RemoveAt(s, Len(s))
<1> DEFINE n == Len(s)
           t == SubSeq(s, 1, n - 1)
           u == RemoveAt(s, n)
<1>1. n \in Nat /\ n - 1 \in 0 .. Len(s) /\ n \in 1 .. Len(s)
  BY LenProperties
<1>2. Contract!PopRight(s, 1) = t
  BY DEF Contract!PopRight
<1>3. /\ t \in Seq(S) /\ Len(t) = n - 1
      /\ \A p \in 1 .. n - 1 : t[p] = s[p]
  BY <1>1, FrontPart
<1>4. /\ u \in Seq(S) /\ Len(u) = n - 1
      /\ \A p \in 1 .. n - 1 : u[p] = s[p]
  BY <1>1, RemovedAt
<1> HIDE DEF t, u
<1>6. t = u
  BY <1>3, <1>4, SeqEqual
<1> QED
  BY <1>2, <1>6 DEF u

\* Indices mean the same.
LEMMA SameIndices ==
    ASSUME Shape, NEW i \in Ints, NEW j \in Ints
    PROVE  /\ Contract!FromHead(Values, i) = FromEnd(i)
           /\ Contract!InRange(Values, i) <=> Within(i)
           /\ Contract!Trim(Values, i, j) = SubSeq(Values, Lower(i) + 1, Upper(j) + 1)
<1>1. Len(Values) = length
  BY ValuesTyped
<1>2. Contract!FromHead(Values, i) = FromEnd(i) /\ Contract!FromHead(Values, j) = FromEnd(j)
  BY <1>1 DEF Contract!FromHead, FromEnd
<1>3. Contract!InRange(Values, i) <=> Within(i)
  BY <1>1, <1>2 DEF Contract!InRange, Within
<1>4. Contract!Trim(Values, i, j) = SubSeq(Values, Lower(i) + 1, Upper(j) + 1)
  BY <1>1, <1>2 DEF Contract!Trim, Lower, Upper
<1> QED
  BY <1>2, <1>3, <1>4

-----------------------------------------------------------------------------
(* Replies *)

LEMMA IsReply ==
    ASSUME NEW op \in Operations, NEW args \in Args, NEW x,
           x \in Int \/ x \in BOOLEAN \/ x \in Value \/ x = Null \/ x \in Seq(Value)
    PROVE  [op |-> op, args |-> args, is |-> x] \in Replies
  BY DEF Replies, Args

\* What the contract's sequence is: outside a Remove, the elements there are.
Seen == IF call.op = "Remove" THEN call.was ELSE Values

LEMMA IdleSees == ASSUME call = Idle PROVE Seen = Values
  BY DEF Seen, Idle

LEMMA ReturnSees == ASSUME call' = Idle PROVE Seen' = Values'
  BY DEF Seen, Idle

LEMMA SeenTyped == Shape => length \in Int /\ Len(Values) = length /\ Values \in Seq(Value)
  BY ValuesTyped, Pointing

LEMMA SeenTypedAfter == (Shape => length \in Int /\ Len(Values) = length /\ Values \in Seq(Value))'
  BY SeenTyped, PTL

-----------------------------------------------------------------------------
(* The ends *)

LEMMA LPushAnswers ==
    ASSUME Inductive, NEW v \in Value, LPush(v) PROVE Contract!LPush(v) /\ reply' \in Replies /\ reply' # Pending
<1>1. /\ Shape /\ Shape' /\ length' = length + 1 /\ Values' = InsertAt(Values, 1, v) /\ call = Idle
      /\ Return("LPush", <<v>>, length')
  BY LPushDoes DEF Inductive, LPush
<1>2. length' \in Int /\ Len(Values') = length'
  BY <1>1, SeenTypedAfter
<1>3. Seen = Values /\ Seen' = Values' /\ Values' = Contract!PushLeft(Values, <<v>>)
  BY <1>1, IdleSees, ReturnSees, SeenTyped, PushedLeft DEF Return
<1>4. reply' \in Replies /\ reply' # Pending
  <2>1. <<v>> \in Args /\ "LPush" \in Operations
    BY DEF Args, Operations
  <2>2. [op |-> "LPush", args |-> <<v>>, is |-> length'] \in Replies
    BY <2>1, <1>2, IsReply
  <2> QED
    BY <2>2, <1>1, PendingAssumption DEF Return
<1> QED
  BY <1>1, <1>2, <1>3, <1>4 DEF Contract!LPush, Contract!Returns, Seen, Return

LEMMA RPushAnswers ==
    ASSUME Inductive, NEW v \in Value, RPush(v) PROVE Contract!RPush(v) /\ reply' \in Replies /\ reply' # Pending
<1>1. /\ Shape /\ Shape' /\ length' = length + 1 /\ Values' = InsertAt(Values, length + 1, v) /\ call = Idle
      /\ Return("RPush", <<v>>, length')
  BY RPushDoes DEF Inductive, RPush
<1>2. length' \in Int /\ Len(Values') = length'
  BY <1>1, SeenTypedAfter
<1>3. Seen = Values /\ Seen' = Values' /\ Values' = Contract!PushRight(Values, <<v>>)
  BY <1>1, IdleSees, ReturnSees, SeenTyped, PushedRight DEF Return
<1>4. reply' \in Replies /\ reply' # Pending
  <2>1. <<v>> \in Args /\ "RPush" \in Operations
    BY DEF Args, Operations
  <2>2. [op |-> "RPush", args |-> <<v>>, is |-> length'] \in Replies
    BY <2>1, <1>2, IsReply
  <2> QED
    BY <2>2, <1>1, PendingAssumption DEF Return
<1> QED
  BY <1>1, <1>2, <1>3, <1>4 DEF Contract!RPush, Contract!Returns, Seen, Return

\* A pop of an empty list.
LEMMA NothingToPop ==
    ASSUME NEW S, NEW s \in Seq(S), Len(s) = 0
    PROVE  s = << >> /\ Contract!PopLeft(s, 1) = s /\ Contract!PopRight(s, 1) = s
<1>1. s = << >>
  BY EmptySeq
<1>2. SubSeq(s, 2, 0) = << >> /\ SubSeq(s, 1, -1) = << >>
  BY SubSeqEmpty
<1> QED
  BY <1>1, <1>2 DEF Contract!PopLeft, Contract!PopRight

LEMMA LPopAnswers ==
    ASSUME Inductive, LPop PROVE Contract!LPop /\ reply' \in Replies /\ reply' # Pending
<1>1. Shape /\ call = Idle /\ call' = Idle /\ Seen = Values /\ Seen' = Values' /\ Len(Values) = length /\ Values \in Seq(Value)
  BY IdleSees, ReturnSees, SeenTyped DEF Inductive, LPop, Return
<1>2. << >> \in Args /\ "LPop" \in Operations
  BY DEF Args, Operations
<1>3. CASE length = 0 /\ head = Null /\ UNCHANGED list
  <2>1. reply' = [op |-> "LPop", args |-> << >>, is |-> Null]
    BY <1>3 DEF LPop, Return
  <2>2. reply' \in Replies
    BY <2>1, <1>2, IsReply
  <2>3. Values' = Values /\ Values = << >> /\ Contract!PopLeft(Values, 1) = Values
    BY <1>1, <1>3, Kept, NothingToPop
  <2> QED
    BY <2>1, <2>2, <2>3, <1>1, PendingAssumption DEF Contract!LPop, Contract!Returns, Seen
<1>4. CASE length > 0 /\ head # Null /\ node[head].value = Values[1] /\ Shape' /\ Values' = RemoveAt(Values, 1)
  <2>1. reply' = [op |-> "LPop", args |-> << >>, is |-> Values[1]]
    BY <1>4 DEF LPop, Return
  <2>2. 1 \in 1 .. Len(Values) /\ Values # << >> /\ length \in Int
    BY <1>1, <1>4, SeenTyped
  <2>3. Values[1] \in Value
    BY <2>2, <1>1, ElementOfSeq
  <2>4. reply' \in Replies
    BY <2>1, <2>3, <1>2, IsReply
  <2>5. Values' = Contract!PopLeft(Values, 1) /\ Head(Values) = Values[1]
    BY <1>1, <1>4, <2>2, PoppedLeft
  <2> QED
    BY <2>1, <2>2, <2>4, <2>5, <1>1, PendingAssumption DEF Contract!LPop, Contract!Returns, Seen
<1> QED
  BY <1>3, <1>4, LPopDoes

LEMMA RPopAnswers ==
    ASSUME Inductive, RPop PROVE Contract!RPop /\ reply' \in Replies /\ reply' # Pending
<1>1. Shape /\ call = Idle /\ call' = Idle /\ Seen = Values /\ Seen' = Values' /\ Len(Values) = length /\ Values \in Seq(Value)
  BY IdleSees, ReturnSees, SeenTyped DEF Inductive, RPop, Return
<1>2. << >> \in Args /\ "RPop" \in Operations
  BY DEF Args, Operations
<1>3. CASE length = 0 /\ tail = Null /\ UNCHANGED list
  <2>1. reply' = [op |-> "RPop", args |-> << >>, is |-> Null]
    BY <1>3 DEF RPop, Return
  <2>2. reply' \in Replies
    BY <2>1, <1>2, IsReply
  <2>3. Values' = Values /\ Values = << >> /\ Contract!PopRight(Values, 1) = Values
    BY <1>1, <1>3, Kept, NothingToPop
  <2> QED
    BY <2>1, <2>2, <2>3, <1>1, PendingAssumption DEF Contract!RPop, Contract!Returns, Seen
<1>4. CASE length > 0 /\ tail # Null /\ node[tail].value = Values[length] /\ Shape' /\ Values' = RemoveAt(Values, length)
  <2>1. reply' = [op |-> "RPop", args |-> << >>, is |-> Values[length]]
    BY <1>4 DEF RPop, Return
  <2>2. length \in 1 .. Len(Values) /\ Values # << >> /\ length \in Int
    BY <1>1, <1>4, SeenTyped
  <2>3. Values[length] \in Value
    BY <2>2, <1>1, ElementOfSeq
  <2>4. reply' \in Replies
    BY <2>1, <2>3, <1>2, IsReply
  <2>5. Values' = Contract!PopRight(Values, 1) /\ Contract!Last(Values) = Values[length]
    <3>1. Values' = Contract!PopRight(Values, 1)
      BY <1>1, <1>4, <2>2, PoppedRight
    <3> QED
      BY <3>1, <1>1 DEF Contract!Last
  <2> QED
    BY <2>1, <2>2, <2>4, <2>5, <1>1, PendingAssumption DEF Contract!RPop, Contract!Returns, Seen
<1> QED
  BY <1>3, <1>4, RPopDoes

-----------------------------------------------------------------------------
(* A single index *)

\* What is returned for an index that is out of range.
LEMMA IndexAnswersNone ==
    ASSUME Inductive, NEW i \in Ints, Index(i), ~Within(i)
    PROVE  Contract!Index(i) /\ reply' \in Replies /\ reply' # Pending
<1>1. /\ Shape /\ call = Idle /\ call' = Idle /\ Seen = Values /\ Seen' = Values' /\ Values' = Values
      /\ reply' = [op |-> "Index", args |-> <<i>>, is |-> Null]
  BY IdleSees, ReturnSees, Kept DEF Inductive, Index, Return
<1>2. <<i>> \in Args /\ "Index" \in Operations
  BY IntsAssumption DEF Args, Operations
<1>3. reply' \in Replies
  BY <1>1, <1>2, IsReply
<1>4. ~Contract!InRange(Values, i)
  BY <1>1, SameIndices
<1> QED
  BY <1>1, <1>3, <1>4, PendingAssumption DEF Contract!Index, Contract!Reads, Contract!Returns, Seen

LEMMA IndexAnswers ==
    ASSUME Inductive, IndexFound
    PROVE  /\ \E i \in Ints : Contract!Index(i)
           /\ reply' \in Replies /\ reply' # Pending
<1>1. /\ Shape /\ call.op = "Index" /\ call.i = call.to /\ call' = Idle /\ UNCHANGED list /\ Values' = Values
      /\ Seen = Values /\ Seen' = Values' /\ length \in Int /\ Values \in Seq(Value) /\ Len(Values) = length
      /\ reply' = [op |-> "Index", args |-> call.args, is |-> node[call.at].value]
  BY ReturnSees, Kept, SeenTyped DEF Inductive, IndexFound, Arrived, Return, Seen
<1>2. PICK i \in Ints : call.args = <<i>> /\ call.to = FromEnd(i)
  BY <1>1 DEF Inductive, Seeking, Seekers
<1> DEFINE k == FromEnd(i) + 1
<1>3. k \in 1 .. length /\ call.at = chain[k] /\ Within(i)
  <2>1. FromEnd(i) \in 0 .. length - 1 /\ call.at = chain[FromEnd(i) + 1]
    BY <1>1, <1>2 DEF Inductive, Seeking, Seekers
  <2> QED
    BY <2>1, <1>1 DEF Within
<1> HIDE DEF k
<1>4. node[call.at].value = Values[k] /\ Values[k] \in Value
  BY <1>1, <1>3, ValuesTyped, ElementOfSeq
<1>5. reply' \in Replies
  <2>1. <<i>> \in Args /\ "Index" \in Operations
    BY IntsAssumption DEF Args, Operations
  <2> QED
    BY <2>1, <1>1, <1>2, <1>4, IsReply
<1>6. Contract!InRange(Values, i) /\ Contract!FromHead(Values, i) + 1 = k
  BY <1>1, <1>3, SameIndices DEF k
<1>7. Contract!Index(i)
  BY <1>1, <1>2, <1>4, <1>6 DEF Contract!Index, Contract!Reads, Contract!Returns, Seen
<1> QED
  BY <1>5, <1>7, PendingAssumption

LEMMA SetAnswersNo ==
    ASSUME Inductive, NEW i \in Ints, NEW v \in Value, Set(i, v), ~Within(i)
    PROVE  Contract!Set(i, v) /\ reply' \in Replies /\ reply' # Pending
<1>1. /\ Shape /\ call = Idle /\ call' = Idle /\ Seen = Values /\ Seen' = Values' /\ Values' = Values
      /\ reply' = [op |-> "Set", args |-> <<i, v>>, is |-> FALSE]
  BY IdleSees, ReturnSees, Kept DEF Inductive, Set, Return
<1>2. <<i, v>> \in Args /\ "Set" \in Operations
  BY IntsAssumption DEF Args, Operations
<1>3. reply' \in Replies
  BY <1>1, <1>2, IsReply
<1>4. Contract!InRange(Values, i) = FALSE
  BY <1>1, SameIndices DEF Contract!InRange
<1> QED
  BY <1>1, <1>3, <1>4, PendingAssumption DEF Contract!Set, Contract!Returns, Seen

LEMMA SetAnswers ==
    ASSUME Inductive, SetFound
    PROVE  /\ \E i \in Ints, v \in Value : Contract!Set(i, v)
           /\ reply' \in Replies /\ reply' # Pending
<1>1. /\ Shape /\ call.op = "Set" /\ call' = Idle /\ Seen = Values /\ Seen' = Values'
      /\ reply' = [op |-> "Set", args |-> call.args, is |-> TRUE]
  BY ReturnSees DEF Inductive, SetFound, Arrived, Return, Seen
<1>2. PICK i \in Ints, v \in Value :
        /\ call.args = <<i, v>> /\ FromEnd(i) \in 0 .. length - 1
        /\ Values' = [Values EXCEPT ![FromEnd(i) + 1] = v]
  BY SetFoundDoes
<1>3. reply' \in Replies
  <2>1. <<i, v>> \in Args /\ "Set" \in Operations
    BY IntsAssumption DEF Args, Operations
  <2> QED
    BY <2>1, <1>1, <1>2, IsReply
<1>4. Contract!InRange(Values, i) = TRUE /\ Contract!FromHead(Values, i) = FromEnd(i)
  <2>1. Contract!InRange(Values, i)
    BY <1>1, <1>2, SameIndices DEF Within
  <2> QED
    BY <2>1, <1>1, SameIndices DEF Contract!InRange
<1>5. Contract!Set(i, v)
  BY <1>1, <1>2, <1>4 DEF Contract!Set, Contract!Returns, Seen
<1> QED
  BY <1>3, <1>5, PendingAssumption

-----------------------------------------------------------------------------
(* Ranges *)

LEMMA RangeAnswersNone ==
    ASSUME Inductive, NEW i \in Ints, NEW j \in Ints, GetRange(i, j), ~(Lower(i) <= Upper(j))
    PROVE  Contract!GetRange(i, j) /\ reply' \in Replies /\ reply' # Pending
<1>1. /\ Shape /\ call = Idle /\ call' = Idle /\ Seen = Values /\ Seen' = Values' /\ Values' = Values
      /\ reply' = [op |-> "Range", args |-> <<i, j>>, is |-> << >>]
  BY IdleSees, ReturnSees, Kept DEF Inductive, GetRange, Return
<1>2. <<i, j>> \in Args /\ "Range" \in Operations /\ << >> \in Seq(Value)
  BY IntsAssumption, EmptySeq DEF Args, Operations
<1>3. reply' \in Replies
  BY <1>1, <1>2, IsReply
<1>4. Contract!Trim(Values, i, j) = << >>
  <2>1. Lower(i) + 1 \in Int /\ Upper(j) + 1 \in Int /\ Upper(j) + 1 < Lower(i) + 1
    BY <1>1, Bounds
  <2> QED
    BY <2>1, <1>1, SameIndices, SubSeqEmpty
<1> QED
  BY <1>1, <1>3, <1>4, PendingAssumption DEF Contract!GetRange, Contract!Reads, Contract!Returns, Seen

LEMMA RangeAnswers ==
    ASSUME Inductive, Collect, call' = Idle
    PROVE  /\ \E i, j \in Ints : Contract!GetRange(i, j)
           /\ reply' \in Replies /\ reply' # Pending
<1>1. /\ Shape /\ call.op = "Collect" /\ UNCHANGED list /\ Values' = Values
      /\ Seen = Values /\ Seen' = Values' /\ call.op # "none"
      /\ call \in [op : {"Collect"}, args : Args, at : Pointers, i : Nat, result : Seq(Value)]
  BY ReturnSees, Kept, InLoop DEF Inductive, Collect, Seen
<1>2. PICK i \in Ints, j \in Ints :
        /\ call.args = <<i, j>> /\ call.args[2] = j
        /\ Upper(j) \in Int /\ call.i \in Lower(i) .. Upper(j) + 1 /\ Lower(i) \in Nat
        /\ call.result = SubSeq(Values, Lower(i) + 1, call.i)
        /\ call.at # Null \/ call.i = Upper(j) + 1
  BY <1>1, CollectIs
<1>3. ~(call.i <= Upper(j) /\ call.at # Null)
  <2>1. CASE call.i <= Upper(call.args[2]) /\ call.at # Null
    <3>1. call' = [[[call EXCEPT !.i = call.i + 1] EXCEPT !.at = node[call.at].next]
                      EXCEPT !.result = Append(call.result, node[call.at].value)]
      BY <2>1, <1>1 DEF Collect
    <3>2. call'.op = "Collect"
      BY <3>1, <1>1
    <3> QED
      BY <3>2 DEF Idle
  <2> QED
    BY <2>1, <1>2
<1>4. call.i = Upper(j) + 1
  BY <1>2, <1>3
<1>5. /\ reply' = [op |-> "Range", args |-> <<i, j>>, is |-> call.result]
      /\ call.result = SubSeq(Values, Lower(i) + 1, Upper(j) + 1)
  BY <1>2, <1>3, <1>4 DEF Collect, Return
<1>6. reply' \in Replies
  <2>1. <<i, j>> \in Args /\ "Range" \in Operations /\ call.result \in Seq(Value)
    BY <1>1, IntsAssumption DEF Args, Operations
  <2> QED
    BY <2>1, <1>5, IsReply
<1>7. Contract!GetRange(i, j)
  BY <1>1, <1>5, SameIndices DEF Contract!GetRange, Contract!Reads, Contract!Returns, Seen
<1> QED
  BY <1>6, <1>7, PendingAssumption

LEMMA TrimAnswersEmpty ==
    ASSUME Inductive, NEW i \in Ints, NEW j \in Ints, TrimTo(i, j), ~(Lower(i) <= Upper(j))
    PROVE  Contract!TrimTo(i, j) /\ reply' \in Replies /\ reply' # Pending
<1>1. /\ Shape /\ call = Idle /\ call' = Idle /\ Seen = Values /\ Seen' = Values' /\ Values' = << >>
      /\ reply' = [op |-> "Trim", args |-> <<i, j>>, is |-> 0]
  BY IdleSees, ReturnSees, EmptyDoes DEF Inductive, TrimTo, Return
<1>2. <<i, j>> \in Args /\ "Trim" \in Operations /\ Len(<< >>) = 0
  BY IntsAssumption, EmptySeq DEF Args, Operations
<1>3. reply' \in Replies
  BY <1>1, <1>2, IsReply
<1>4. Contract!Trim(Values, i, j) = << >>
  <2>1. Lower(i) + 1 \in Int /\ Upper(j) + 1 \in Int /\ Upper(j) + 1 < Lower(i) + 1
    BY <1>1, Bounds
  <2> QED
    BY <2>1, <1>1, SameIndices, SubSeqEmpty
<1> QED
  BY <1>1, <1>2, <1>3, <1>4, PendingAssumption DEF Contract!TrimTo, Contract!Returns, Seen

LEMMA TrimAnswers ==
    ASSUME Inductive, TrimEndFound
    PROVE  /\ \E i, j \in Ints : Contract!TrimTo(i, j)
           /\ reply' \in Replies /\ reply' # Pending
<1>1. /\ Shape /\ call.op = "TrimEnd" /\ call' = Idle /\ Seen = Values /\ Seen' = Values'
      /\ reply' = [op |-> "Trim", args |-> call.args, is |-> length']
  BY ReturnSees DEF Inductive, TrimEndFound, Arrived, Return, Seen
<1>2. PICK i \in Ints, j \in Ints :
        /\ call.args = <<i, j>> /\ Shape' /\ Values' = SubSeq(Values, Lower(i) + 1, Upper(j) + 1)
  BY TrimEndFoundDoes
<1>3. length' \in Int /\ Len(Values') = length'
  BY <1>2, SeenTypedAfter
<1>4. reply' \in Replies
  <2>1. <<i, j>> \in Args /\ "Trim" \in Operations
    BY IntsAssumption DEF Args, Operations
  <2> QED
    BY <2>1, <1>1, <1>2, <1>3, IsReply
<1>5. Contract!TrimTo(i, j)
  BY <1>1, <1>2, <1>3, SameIndices DEF Contract!TrimTo, Contract!Returns, Seen
<1> QED
  BY <1>4, <1>5, PendingAssumption

-----------------------------------------------------------------------------
(* InsertBefore and InsertAfter *)

LEMMA InsertAnswersNone ==
    ASSUME Inductive, InsertMisses
    PROVE  /\ \E pivot, v \in Value :
                Contract!InsertNext("InsertBefore", 0, pivot, v) \/ Contract!InsertNext("InsertAfter", 1, pivot, v)
           /\ reply' \in Replies /\ reply' # Pending
<1>1. /\ Shape /\ call.op \in Inserters /\ call.at = Null /\ call' = Idle /\ UNCHANGED list /\ Values' = Values
      /\ call.op # "Remove" /\ Len(Values) = length /\ DOMAIN Values = 1 .. length /\ length \in Nat
      /\ reply' = [op |-> call.op, args |-> call.args, is |-> -1]
  BY Kept, ValuesTyped DEF Inductive, InsertMisses, Return, Inserters, Shape, Typed
<1>2. Seen = Values /\ Seen' = Values'
  BY <1>1, ReturnSees DEF Seen
<1>3. PICK pivot \in Value, v \in Value :
        call.args = <<pivot, v>> /\ \A q \in 1 .. length : Values[q] # pivot
  <2>1. PICK pivot \in Value, v \in Value, k \in 1 .. length + 1 :
          call.args = <<pivot, v>> /\ k = length + 1 /\ \A q \in 1 .. k - 1 : Values[q] # pivot
    BY <1>1, InsertIs
  <2> QED
    BY <2>1, <1>1
<1>4. Contract!Occurrences(Values, pivot) = {}
  BY <1>1, <1>3 DEF Contract!Occurrences
<1>5. reply' \in Replies
  <2>1. <<pivot, v>> \in Args /\ call.op \in Operations
    BY <1>1 DEF Args, Operations, Inserters
  <2> QED
    BY <2>1, <1>1, <1>3, IsReply
<1>6. Contract!InsertNext("InsertBefore", 0, pivot, v) \/ Contract!InsertNext("InsertAfter", 1, pivot, v)
  BY <1>1, <1>2, <1>3, <1>4 DEF Contract!InsertNext, Contract!Reads, Contract!Returns, Seen, Inserters
<1> QED
  BY <1>5, <1>6, PendingAssumption

LEMMA InsertAnswers ==
    ASSUME Inductive, InsertFound
    PROVE  /\ \E pivot, v \in Value :
                Contract!InsertNext("InsertBefore", 0, pivot, v) \/ Contract!InsertNext("InsertAfter", 1, pivot, v)
           /\ reply' \in Replies /\ reply' # Pending
<1>1. /\ Shape /\ call.op \in Inserters /\ call' = Idle /\ call.op # "Remove"
      /\ DOMAIN Values = 1 .. length /\ length \in Nat
      /\ reply' = [op |-> call.op, args |-> call.args, is |-> length']
  BY ValuesTyped DEF Inductive, InsertFound, Return, Inserters, Shape, Typed
<1>2. Seen = Values /\ Seen' = Values'
  BY <1>1, ReturnSees DEF Seen
<1>3. PICK pivot \in Value, v \in Value, k \in 1 .. length :
        /\ call.args = <<pivot, v>> /\ Values[k] = pivot /\ \A q \in 1 .. k - 1 : Values[q] # pivot
        /\ Shape'
        /\ call.op = "InsertBefore" => Values' = InsertAt(Values, k, v)
        /\ call.op = "InsertAfter" => Values' = InsertAt(Values, k + 1, v)
  BY InsertFoundDoes
<1>4. length' \in Int /\ Len(Values') = length'
  BY <1>3, SeenTypedAfter
<1>5. Contract!IsFirst(Values, pivot, k)
  <2>1. k \in Contract!Occurrences(Values, pivot)
    BY <1>1, <1>3 DEF Contract!Occurrences
  <2>2. ASSUME NEW q \in Contract!Occurrences(Values, pivot) PROVE k <= q
    <3>1. q \in 1 .. length /\ Values[q] = pivot
      BY <1>1 DEF Contract!Occurrences
    <3> QED
      BY <3>1, <1>1, <1>3
  <2> QED
    BY <2>1, <2>2 DEF Contract!IsFirst
<1>6. reply' \in Replies
  <2>1. <<pivot, v>> \in Args /\ call.op \in Operations
    BY <1>1 DEF Args, Operations, Inserters
  <2> QED
    BY <2>1, <1>1, <1>3, <1>4, IsReply
<1>7. \A p, e : Contract!InsertAt(Values, p, e) = InsertAt(Values, p, e)
  BY DEF Contract!InsertAt, InsertAt
<1>8. CASE call.op = "InsertBefore"
  <2>1. k + 0 = k /\ k \in DOMAIN Values
    BY <1>1
  <2>2. Contract!InsertNext("InsertBefore", 0, pivot, v)
    BY <2>1, <1>1, <1>2, <1>3, <1>4, <1>5, <1>7, <1>8 DEF Contract!InsertNext, Contract!Returns, Seen
  <2> QED
    BY <2>2, <1>6, PendingAssumption
<1>9. CASE call.op = "InsertAfter"
  <2>1. k \in DOMAIN Values
    BY <1>1
  <2>2. Contract!InsertNext("InsertAfter", 1, pivot, v)
    BY <2>1, <1>1, <1>2, <1>3, <1>4, <1>5, <1>7, <1>9 DEF Contract!InsertNext, Contract!Returns, Seen
  <2> QED
    BY <2>2, <1>6, PendingAssumption
<1> QED
  BY <1>1, <1>8, <1>9 DEF Inserters

-----------------------------------------------------------------------------
(* Remove *)

LEMMA SameCardinality == \A S : Contract!Cardinality(S) = Cardinality(S)
  BY DEF Contract!Cardinality, Cardinality

LEMMA RemovedIs ==
    ASSUME NEW s, NEW v, NEW n \in Int
    PROVE  LET P == Occurrences(s, v) IN
           /\ n = 0 => Contract!Removed(s, n, v) = P
           /\ n > 0 => Contract!Removed(s, n, v) = {p \in P : Cardinality({q \in P : q <= p}) <= n}
           /\ n < 0 => Contract!Removed(s, n, v) = {p \in P : Cardinality({q \in P : q >= p}) <= -n}
<1>1. CASE n = 0
  BY <1>1 DEF Contract!Removed, Contract!Occurrences, Occurrences
<1>2. CASE n > 0
  BY <1>2, SameCardinality DEF Contract!Removed, Contract!Occurrences, Occurrences
<1>3. CASE n < 0
  BY <1>3, SameCardinality DEF Contract!Removed, Contract!Occurrences, Occurrences
<1> QED
  BY <1>1, <1>2, <1>3

LEMMA SameLeavesOut == ASSUME NEW d, NEW c, NEW P PROVE Contract!LeavesOut(d, c, P) <=> LeavesOut(d, c, P)
  BY SameCardinality DEF Contract!LeavesOut, LeavesOut

\* From the head: what was passed is what the contract removes.
LEMMA FirstOnes ==
    ASSUME NEW S, NEW s \in Seq(S), NEW v, NEW n \in Nat, NEW c \in 1 .. Len(s) + 1,
           n > 0 => Cardinality(Before(s, v, c)) <= n,
           c = Len(s) + 1 \/ (n > 0 /\ Cardinality(Before(s, v, c)) = n)
    PROVE  Before(s, v, c) = Contract!Removed(s, n, v)
<1> DEFINE P == Occurrences(s, v)
           B == Before(s, v, c)
           R == Contract!Removed(s, n, v)
<1>1. /\ Len(s) \in Nat /\ P \in SUBSET (1 .. Len(s)) /\ B = {q \in P : q < c}
      /\ n = 0 => R = P
      /\ n > 0 => R = {p \in P : Cardinality({q \in P : q <= p}) <= n}
  BY OccurrencesIn, RemovedIs DEF Before
<1>2. /\ n > 0 => Cardinality(B) <= n
      /\ c = Len(s) + 1 \/ (n > 0 /\ Cardinality(B) = n)
  OBVIOUS
<1> HIDE DEF P, B, R
<1>3. IsFiniteSet(B) /\ Cardinality(B) \in Nat
  <2>1. B \in SUBSET (1 .. Len(s))
    BY <1>1
  <2> QED
    BY <2>1, <1>1, PartOfInterval
<1>4. ASSUME n = 0 PROVE B = R
  <2>1. \A p : p \in B <=> p \in R
    <3>1. c = Len(s) + 1 /\ \A p \in P : p < c
      BY <1>1, <1>2, <1>4
    <3> QED
      BY <3>1, <1>1, <1>4
  <2>2. {q \in P : q < c} = P
    BY <2>1, <1>1, <1>4
  <2>3. R = P /\ B = {q \in P : q < c}
    BY <1>1, <1>4
  <2> QED
    BY <2>2, <2>3
<1>5. ASSUME n > 0 PROVE B = R
  <2>1. ASSUME NEW p \in P PROVE p \in B <=> Cardinality({q \in P : q <= p}) <= n
    <3> DEFINE T == {q \in P : q <= p}
    <3>0. p \in 1 .. Len(s) /\ T \in SUBSET (1 .. Len(s))
      BY <1>1
    <3>1. IsFiniteSet(T) /\ Cardinality(T) \in Nat
      BY <3>0, <1>1, PartOfInterval
    <3>2. CASE p < c
      <4>1. p \in B /\ T \in SUBSET B
        BY <3>2, <3>0, <1>1
      <4>2. Cardinality(T) <= Cardinality(B)
        BY <4>1, <1>3, FS_Subset
      <4> HIDE DEF T
      <4>3. Cardinality(T) <= n
        BY <4>2, <3>1, <1>2, <1>3, <1>5
      <4> QED
        BY <4>1, <4>3 DEF T
    <3>3. CASE p >= c
      <4>1. p \notin B /\ B \cup {p} \in SUBSET T
        <5>1. p \notin B /\ \A q \in B : q \in P /\ q <= p
          BY <3>3, <3>0, <1>1
        <5>2. p <= p
          BY <3>0
        <5> QED
          BY <5>1, <5>2
      <4>2. Cardinality(B) = n
        BY <3>3, <3>0, <1>1, <1>2
      <4>3. Cardinality(B \cup {p}) = Cardinality(B) + 1
        BY <4>1, <1>3, FS_AddElement
      <4>4. Cardinality(B \cup {p}) <= Cardinality(T)
        BY <4>1, <3>1, FS_Subset
      <4> HIDE DEF T
      <4>5. ~(Cardinality(T) <= n)
        BY <4>2, <4>3, <4>4, <3>1
      <4> QED
        BY <4>1, <4>5 DEF T
    <3> QED
      BY <3>0, <3>2, <3>3
  <2>2. \A p \in P : p < c <=> Cardinality({q \in P : q <= p}) <= n
    BY <2>1, <1>1
  <2>3. {p \in P : p < c} = {p \in P : Cardinality({q \in P : q <= p}) <= n}
    BY <2>2
  <2>4. R = {p \in P : Cardinality({q \in P : q <= p}) <= n} /\ B = {p \in P : p < c}
    BY <1>1, <1>5
  <2> QED
    BY <2>3, <2>4
<1>6. n = 0 \/ n > 0
  OBVIOUS
<1>7. B = R
  BY <1>4, <1>5, <1>6
<1> QED
  BY <1>7 DEF B, R

\* From the tail.
LEMMA LastOnes ==
    ASSUME NEW S, NEW s \in Seq(S), NEW v, NEW n \in Int, n < 0, NEW c \in 0 .. Len(s),
           Cardinality(Behind(s, v, c)) <= -n,
           c = 0 \/ Cardinality(Behind(s, v, c)) = -n
    PROVE  Behind(s, v, c) = Contract!Removed(s, n, v)
<1> DEFINE P == Occurrences(s, v)
           B == Behind(s, v, c)
           R == Contract!Removed(s, n, v)
           m == -n
<1>1. /\ Len(s) \in Nat /\ P \in SUBSET (1 .. Len(s)) /\ B = {q \in P : q > c}
      /\ R = {p \in P : Cardinality({q \in P : q >= p}) <= m}
  BY OccurrencesIn, RemovedIs DEF Behind
<1>2. Cardinality(B) <= m /\ (c = 0 \/ Cardinality(B) = m) /\ m \in Int
  OBVIOUS
<1> HIDE DEF P, B, R, m
<1>3. IsFiniteSet(B) /\ Cardinality(B) \in Nat
  <2>1. B \in SUBSET (1 .. Len(s))
    BY <1>1
  <2> QED
    BY <2>1, <1>1, PartOfInterval
<1>4. ASSUME NEW p \in P PROVE p \in B <=> Cardinality({q \in P : q >= p}) <= m
  <2> DEFINE T == {q \in P : q >= p}
  <2>0. p \in 1 .. Len(s) /\ T \in SUBSET (1 .. Len(s))
    BY <1>1
  <2>1. IsFiniteSet(T) /\ Cardinality(T) \in Nat
    BY <2>0, <1>1, PartOfInterval
  <2>2. CASE p > c
    <3>1. p \in B /\ T \in SUBSET B
      BY <2>2, <2>0, <1>1
    <3>2. Cardinality(T) <= Cardinality(B)
      BY <3>1, <1>3, FS_Subset
    <3> HIDE DEF T
    <3>3. Cardinality(T) <= m
      BY <3>2, <2>1, <1>2, <1>3
    <3> QED
      BY <3>1, <3>3 DEF T
  <2>3. CASE p <= c
    <3>1. p \notin B /\ B \cup {p} \in SUBSET T
      <4>1. p \notin B /\ \A q \in B : q \in P /\ q >= p
        BY <2>3, <2>0, <1>1
      <4>2. p >= p
        BY <2>0
      <4> QED
        BY <4>1, <4>2
    <3>2. Cardinality(B) = m
      BY <2>3, <2>0, <1>1, <1>2
    <3>3. Cardinality(B \cup {p}) = Cardinality(B) + 1
      BY <3>1, <1>3, FS_AddElement
    <3>4. Cardinality(B \cup {p}) <= Cardinality(T)
      BY <3>1, <2>1, FS_Subset
    <3> HIDE DEF T
    <3>5. ~(Cardinality(T) <= m)
      BY <3>2, <3>3, <3>4, <2>1, <1>2
    <3> QED
      BY <3>1, <3>5 DEF T
  <2> QED
    BY <2>0, <2>2, <2>3
<1>5. \A p \in P : p > c <=> Cardinality({q \in P : q >= p}) <= m
  BY <1>1, <1>4
<1>6. {p \in P : p > c} = {p \in P : Cardinality({q \in P : q >= p}) <= m}
  BY <1>5
<1>7. B = R
  BY <1>1, <1>6
<1> QED
  BY <1>7 DEF B, R

LEMMA RemoveAnswers ==
    ASSUME Inductive, RemoveEnds
    PROVE  /\ \E n \in Ints, v \in Value : Contract!RemoveElement(n, v)
           /\ reply' \in Replies /\ reply' # Pending
<1> DEFINE was == call.was
<1>1. /\ Shape /\ call.op = "Remove" /\ ~Goes(call.args[1]) /\ call' = Idle /\ UNCHANGED list /\ Values' = Values
      /\ call \in [op : {"Remove"}, args : Args, at : Pointers, removed : Nat, was : Seq(Value)]
      /\ reply' = [op |-> "Remove", args |-> call.args, is |-> call.removed]
  BY Kept, InLoop DEF Inductive, RemoveEnds, Return
<1>2. Seen = was /\ Seen' = Values' /\ was \in Seq(Value) /\ call.removed \in Nat
  BY <1>1, ReturnSees DEF Seen
<1>3. PICK n \in Ints, v \in Value :
        /\ call.args = <<n, v>>
        /\ \/ n >= 0 /\ \E c \in 1 .. Len(was) + 1 : RemovedBefore(n, v, c)
           \/ n < 0 /\ \E c \in 0 .. Len(was) : RemovedBehind(n, v, c)
  BY <1>1 DEF Inductive, Removing
<1>4. n \in Int /\ call.args[1] = n
  BY <1>3, IntsAssumption
<1>5. ~Goes(n)
  BY <1>1, <1>4
<1>6. /\ call.removed = Cardinality(Contract!Removed(was, n, v))
      /\ LeavesOut(Values, was, Contract!Removed(was, n, v))
  <2>1. CASE n >= 0 /\ \E c \in 1 .. Len(was) + 1 : RemovedBefore(n, v, c)
    <3>1. PICK c \in 1 .. Len(was) + 1 : RemovedBefore(n, v, c)
      BY <2>1
    <3>2. /\ call.removed = Cardinality(Before(was, v, c)) /\ LeavesOut(Values, was, Before(was, v, c))
          /\ n > 0 => call.removed <= n
      BY <3>1 DEF RemovedBefore, Before
    <3>3. call.at = Null => c = Len(was) + 1
      BY <1>1, <1>2, <3>1, ForwardAt
    <3>4. c = Len(was) + 1 \/ (n > 0 /\ call.removed = n)
      BY <1>2, <1>4, <1>5, <2>1, <3>2, <3>3 DEF Goes
    <3>5. n \in Nat
      BY <1>4, <2>1
    <3> HIDE DEF was
    <3>6. Before(was, v, c) = Contract!Removed(was, n, v)
      BY <1>2, <3>2, <3>4, <3>5, FirstOnes
    <3> QED
      BY <3>2, <3>6
  <2>2. CASE n < 0 /\ \E c \in 0 .. Len(was) : RemovedBehind(n, v, c)
    <3>1. PICK c \in 0 .. Len(was) : RemovedBehind(n, v, c)
      BY <2>2
    <3>2. /\ call.removed = Cardinality(Behind(was, v, c)) /\ LeavesOut(Values, was, Behind(was, v, c))
          /\ call.removed <= -n
      BY <3>1 DEF RemovedBehind, Behind
    <3>3. call.at = Null => c = 0
      BY <1>1, <1>2, <3>1, BackwardAt
    <3>4. c = 0 \/ call.removed = -n
      BY <1>2, <1>4, <1>5, <2>2, <3>2, <3>3 DEF Goes
    <3> HIDE DEF was
    <3>5. Behind(was, v, c) = Contract!Removed(was, n, v)
      BY <1>2, <1>4, <2>2, <3>2, <3>4, LastOnes
    <3> QED
      BY <3>2, <3>5
  <2> QED
    BY <1>3, <2>1, <2>2
<1>7. Contract!LeavesOut(Values, was, Contract!Removed(was, n, v))
  BY <1>6, SameLeavesOut
<1>8. reply' \in Replies
  <2>1. <<n, v>> \in Args /\ "Remove" \in Operations
    BY <1>4 DEF Args, Operations
  <2> QED
    BY <2>1, <1>1, <1>2, <1>3, IsReply
<1>9. Contract!RemoveElement(n, v)
  <2>1. reply' = [op |-> "Remove", args |-> <<n, v>>, is |-> Cardinality(Contract!Removed(was, n, v))]
    BY <1>1, <1>3, <1>6
  <2>2. Contract!LeavesOut(Seen', Seen, Contract!Removed(Seen, n, v)) /\ Seen = was
    BY <1>1, <1>2, <1>7
  <2> HIDE DEF was
  <2> QED
    BY <2>1, <2>2, SameCardinality DEF Contract!RemoveElement, Contract!Returns, Seen
<1> QED
  BY <1>8, <1>9, PendingAssumption

-----------------------------------------------------------------------------
(* The steps between *)

\* A caller waits for nothing before it calls.
Replied == call = Idle => reply \in Replies

\* A loop goes on: the contract sees nothing.
LEMMA GoesOn ==
    ASSUME UNCHANGED <<list, reply>>, call.op # "Remove", call'.op # "Remove"
    PROVE  Seen' = Seen /\ reply' = reply
  BY Kept DEF Seen

\* A loop starts: the contract sees the call.
LEMMA Calls ==
    ASSUME Replied, UNCHANGED list, call = Idle, reply' = Pending,
           call'.op # "Remove" \/ call'.was = Values
    PROVE  Contract!Call
<1>1. reply # Pending
  BY PendingAssumption DEF Replied
<1>2. Seen' = Seen
  BY Kept DEF Seen, Idle
<1> QED
  BY <1>1, <1>2 DEF Contract!Call, Seen

\* In what follows: what a step is for the contract, and that a call has a
\* reply when it is over.
Matched == [Contract!Next]_<<Seen, reply>> /\ Replied'

LEMMA AnswersMatch ==
    ASSUME Contract!Answers, reply' \in Replies, reply' # Pending PROVE Matched
  BY DEF Matched, Replied, Contract!Next

LEMMA StartsMatch ==
    ASSUME Replied, UNCHANGED list, call = Idle, reply' = Pending, call' # Idle,
           call'.op # "Remove" \/ call'.was = Values
    PROVE  Matched
  BY Calls DEF Matched, Replied, Contract!Next

LEMMA GoingOnMatches ==
    ASSUME UNCHANGED <<list, reply>>, call' # Idle, call.op # "Remove", call'.op # "Remove"
    PROVE  Matched
  BY GoesOn DEF Matched, Replied

LEMMA UseMatches == ASSUME Inductive, Replied, Use PROVE Matched
<1>1. CASE LPop \/ RPop
  BY <1>1, LPopAnswers, RPopAnswers, AnswersMatch DEF Contract!Answers
<1>2. ASSUME NEW v \in Value, LPush(v) \/ RPush(v) PROVE Matched
  BY <1>2, LPushAnswers, RPushAnswers, AnswersMatch DEF Contract!Answers
<1>3. ASSUME NEW i \in Ints, Index(i) PROVE Matched
  <2>1. CASE Within(i)
    <3>1. call = Idle /\ UNCHANGED list /\ reply' = Pending /\ call'.op = "Index"
      BY <1>3, <2>1 DEF Index, Begin, Seek
    <3> QED
      BY <3>1, StartsMatch DEF Idle
  <2>2. CASE ~Within(i)
    BY <1>3, <2>2, IndexAnswersNone, AnswersMatch DEF Contract!Answers
  <2> QED
    BY <2>1, <2>2
<1>4. ASSUME NEW i \in Ints, NEW v \in Value, Set(i, v) PROVE Matched
  <2>1. CASE Within(i)
    <3>1. call = Idle /\ UNCHANGED list /\ reply' = Pending /\ call'.op = "Set"
      BY <1>4, <2>1 DEF Set, Begin, Seek
    <3> QED
      BY <3>1, StartsMatch DEF Idle
  <2>2. CASE ~Within(i)
    BY <1>4, <2>2, SetAnswersNo, AnswersMatch DEF Contract!Answers
  <2> QED
    BY <2>1, <2>2
<1>5. ASSUME NEW i \in Ints, NEW v \in Value, RemoveElement(i, v) PROVE Matched
  <2>1. call = Idle /\ UNCHANGED list /\ reply' = Pending /\ call'.op = "Remove" /\ call'.was = Values
    BY <1>5 DEF RemoveElement, Begin
  <2> QED
    BY <2>1, StartsMatch DEF Idle
<1>6. ASSUME NEW i \in Ints, NEW j \in Ints, GetRange(i, j) PROVE Matched
  <2>1. CASE Lower(i) <= Upper(j)
    <3>1. call = Idle /\ UNCHANGED list /\ reply' = Pending /\ call'.op = "Range"
      BY <1>6, <2>1 DEF GetRange, Begin, Seek
    <3> QED
      BY <3>1, StartsMatch DEF Idle
  <2>2. CASE ~(Lower(i) <= Upper(j))
    BY <1>6, <2>2, RangeAnswersNone, AnswersMatch DEF Contract!Answers
  <2> QED
    BY <2>1, <2>2
<1>7. ASSUME NEW i \in Ints, NEW j \in Ints, TrimTo(i, j) PROVE Matched
  <2>1. CASE Lower(i) <= Upper(j)
    <3>1. call = Idle /\ UNCHANGED list /\ reply' = Pending /\ call'.op = "Trim"
      BY <1>7, <2>1 DEF TrimTo, Begin, Seek
    <3> QED
      BY <3>1, StartsMatch DEF Idle
  <2>2. CASE ~(Lower(i) <= Upper(j))
    BY <1>7, <2>2, TrimAnswersEmpty, AnswersMatch DEF Contract!Answers
  <2> QED
    BY <2>1, <2>2
<1>8. ASSUME NEW op \in Inserters, NEW pivot \in Value, NEW v \in Value, InsertNextTo(op, pivot, v) PROVE Matched
  <2>1. call = Idle /\ UNCHANGED list /\ reply' = Pending /\ call'.op = op
    BY <1>8 DEF InsertNextTo, Begin
  <2> QED
    BY <2>1, StartsMatch DEF Idle, Inserters
<1> QED
  BY <1>1, <1>2, <1>3, <1>4, <1>5, <1>6, <1>7, <1>8 DEF Use

LEMMA RemoveStepMatches == ASSUME Inductive, RemoveStep PROVE Matched
<1>1. /\ call \in [op : {"Remove"}, args : Args, at : Pointers, removed : Nat, was : Seq(Value)]
      /\ reply' = reply
  BY InLoop DEF Inductive, RemoveStep
<1>2. \E next : \/ call' = [call EXCEPT !.at = next]
                \/ call' = [[call EXCEPT !.at = next] EXCEPT !.removed = call.removed + 1]
  BY <1>1 DEF RemoveStep
<1>3. call'.op = "Remove" /\ call'.was = call.was
  BY <1>1, <1>2
<1>4. Seen' = Seen
  BY <1>1, <1>3 DEF Seen
<1> QED
  BY <1>1, <1>3, <1>4 DEF Matched, Replied, Idle

LEMMA StepMatches == ASSUME Inductive, Step PROVE Matched
<1>1. CASE Walk
  <2>1. Inductive' /\ UNCHANGED <<list, reply>> /\ call.op \in Seekers /\ call \in Loops
    BY <1>1, WalkKeeps DEF Walk, Inductive
  <2>2. call'.op = call.op
    <3>1. CASE call.op = "TrimEnd"
      BY <3>1, <2>1, <1>1, InLoop DEF Walk
    <3>2. CASE call.op # "TrimEnd"
      BY <3>2, <2>1, <1>1, InLoop DEF Walk
    <3> QED
      BY <3>1, <3>2
  <2> QED
    BY <2>1, <2>2, GoingOnMatches DEF Seekers, Idle
<1>2. CASE IndexFound
  BY <1>2, IndexAnswers, AnswersMatch DEF Contract!Answers
<1>3. CASE SetFound
  BY <1>3, SetAnswers, AnswersMatch DEF Contract!Answers
<1>4. CASE RangeFound
  <2>1. call'.op = "Collect" /\ call.op = "Range" /\ UNCHANGED <<list, reply>>
    BY <1>4 DEF RangeFound, Arrived
  <2> QED
    BY <2>1, GoingOnMatches DEF Idle
<1>5. CASE Collect
  <2>1. CASE call' = Idle
    BY <1>5, <2>1, RangeAnswers, AnswersMatch DEF Contract!Answers
  <2>2. CASE call' # Idle
    <3>1. /\ call \in [op : {"Collect"}, args : Args, at : Pointers, i : Nat, result : Seq(Value)]
          /\ UNCHANGED list
      BY <1>5, InLoop DEF Collect, Inductive
    <3>2. /\ UNCHANGED reply
          /\ call' = [[[call EXCEPT !.i = call.i + 1] EXCEPT !.at = node[call.at].next]
                        EXCEPT !.result = Append(call.result, node[call.at].value)]
      BY <1>5, <2>2, <3>1 DEF Collect, Return
    <3>3. call'.op = "Collect"
      BY <3>1, <3>2
    <3> QED
      BY <3>1, <3>2, <3>3, GoingOnMatches DEF Idle
  <2> QED
    BY <2>1, <2>2
<1>6. CASE TrimFound
  <2>1. call'.op = "TrimEnd" /\ call.op = "Trim" /\ UNCHANGED <<list, reply>>
    BY <1>6 DEF TrimFound, Arrived, Seek
  <2> QED
    BY <2>1, GoingOnMatches DEF Idle
<1>7. CASE TrimEndFound
  BY <1>7, TrimAnswers, AnswersMatch DEF Contract!Answers
<1>8. CASE InsertLooksOn
  <2>1. /\ call \in [op : Inserters, args : Args, at : Pointers] /\ UNCHANGED <<list, reply>>
        /\ call' = [call EXCEPT !.at = node[call.at].next]
    BY <1>8, InLoop DEF InsertLooksOn, Inductive
  <2>2. call'.op = call.op /\ call.op \in Inserters
    BY <2>1
  <2> QED
    BY <2>1, <2>2, GoingOnMatches DEF Idle, Inserters
<1>9. CASE InsertMisses
  BY <1>9, InsertAnswersNone, AnswersMatch DEF Contract!Answers
<1>10. CASE InsertFound
  BY <1>10, InsertAnswers, AnswersMatch DEF Contract!Answers
<1>11. CASE RemoveStep
  BY <1>11, RemoveStepMatches
<1>12. CASE RemoveEnds
  BY <1>12, RemoveAnswers, AnswersMatch DEF Contract!Answers
<1> QED
  BY <1>1, <1>2, <1>3, <1>4, <1>5, <1>6, <1>7, <1>8, <1>9, <1>10, <1>11, <1>12 DEF Step

LEMMA NextMatches == ASSUME Inductive, Replied, [Next]_vars PROVE Matched
<1>1. CASE UNCHANGED vars
  BY <1>1, Kept DEF vars, Seen, Matched, Replied
<1> QED
  BY <1>1, UseMatches, StepMatches DEF Next

LEMMA InitMatches == ASSUME Init PROVE Contract!Init /\ Replied
<1>1. chain = << >> /\ call = Idle /\ reply = [op |-> "New", args |-> << >>, is |-> 0]
  BY DEF Init
<1>2. Values = << >>
  <2>1. Shape
    BY InitInductive DEF Inductive
  <2>2. Len(Values) = 0 /\ Values \in Seq(Value)
    BY <2>1, ValuesTyped DEF Init
  <2> QED
    BY <2>2, EmptySeq
<1>3. reply \in Replies
  <2>1. << >> \in Args /\ "New" \in Operations
    BY DEF Args, Operations
  <2> QED
    BY <2>1, <1>1, IsReply
<1> QED
  BY <1>1, <1>2, <1>3 DEF Contract!Init, Replied, Idle

(* What callers of list.go see, of any number of nodes and with any index   *)
(* or count, is a sequence on which an operation takes effect at once and   *)
(* returns what ListContract says; a Remove takes effect when it returns.   *)
THEOREM ListIsASequence == Spec => ImplementsList
<1>1. Init => Contract!Init /\ Replied
  BY InitMatches
<1>2. Inductive /\ Replied /\ [Next]_vars => [Contract!Next]_<<Seen, reply>> /\ Replied'
  BY NextMatches DEF Matched
<1>3. Spec => []Inductive
  BY InductiveAlways
<1>4. Spec => Contract!Init /\ [][Contract!Next]_<<Seen, reply>>
  BY <1>1, <1>2, <1>3, PTL DEF Spec
<1> QED
  BY <1>4 DEF ImplementsList, Contract!Spec, Seen

=============================================================================
