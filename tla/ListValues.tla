----------------------------- MODULE ListValues -----------------------------
(***************************************************************************)
(* What the operations of the List of src/datastructures/list.go compute,  *)
(* a list being the sequence of its elements from head to tail.            *)
(* ListCommands uses these operators in place of the list; LinkedList has  *)
(* the nodes and pointers, and implements them.                            *)
(***************************************************************************)
EXTENDS Integers, FiniteSets, SequencesExt


\* LPUSH a b puts b at the head.
PushLeft(c, vs)  == Reverse(vs) \o c
PushRight(c, vs) == c \o vs

\* What is left after n pops, and what a pop returns.
PopLeft(c, n)  == SubSeq(c, n + 1, Len(c))
PopRight(c, n) == SubSeq(c, 1, Len(c) - n)

\* A negative index counts from the tail; the first element has index 0.
FromHead(c, i) == IF i < 0 THEN Len(c) + i ELSE i

InRange(c, i) == FromHead(c, i) \in 0 .. Len(c) - 1

\* List.Trim: the elements from index start to index stop, both clamped.
Trim(c, start, stop) ==
    LET i == FromHead(c, start)
        j == FromHead(c, stop)
    IN SubSeq(c, (IF i < 0 THEN 0 ELSE i) + 1, (IF j >= Len(c) THEN Len(c) - 1 ELSE j) + 1)

\* List.Remove: the positions of the occurrences of v it removes, the first
\* n from the head, the first -n from the tail, or all of them for 0.
Occurrences(c, v) == {p \in DOMAIN c : c[p] = v}
Removed(c, n, v) ==
    LET P == Occurrences(c, v) IN
    CASE n = 0 -> P
      [] n > 0 -> {p \in P : Cardinality({q \in P : q <= p}) <= n}
      [] n < 0 -> {p \in P : Cardinality({q \in P : q >= p}) <= -n}

\* d is c without the positions in P.
LeavesOut(d, c, P) ==
    LET kept == DOMAIN c \ P IN
    /\ Len(d) = Cardinality(kept)
    /\ \A p \in kept : d[Cardinality({q \in kept : q <= p})] = c[p]

\* List.InsertBefore and InsertAfter: where the first occurrence of v is.
IsFirst(c, v, p) == p \in Occurrences(c, v) /\ \A q \in Occurrences(c, v) : p <= q

=============================================================================
