---------------------------- MODULE ListContract ----------------------------
(***************************************************************************)
(* What a List promises its callers in src/commands/list.go: it is a       *)
(* sequence, an operation takes effect at once, and its reply is the one   *)
(* ListValues computes from that sequence and the arguments.               *)
(***************************************************************************)
EXTENDS ListValues

CONSTANTS
    Value,      \* the elements
    Ints,       \* the integers callers pass as indices and counts
    Null,       \* the reply of Index and the pops when there is no element
    Pending     \* stands for the reply of an operation that has not returned

VARIABLES
    seq,        \* the elements from head to tail
    reply       \* the last operation, its arguments and what it returned

Returns(op, args, x) == reply'.op = op /\ reply'.args = args /\ reply'.is = x

Reads(op, args, x) == Returns(op, args, x) /\ seq' = seq

Init == seq = << >> /\ reply = [op |-> "New", args |-> << >>, is |-> 0]

Call == reply # Pending /\ reply' = Pending /\ seq' = seq

LPush(v) == Returns("LPush", <<v>>, Len(seq')) /\ seq' = PushLeft(seq, <<v>>)
RPush(v) == Returns("RPush", <<v>>, Len(seq')) /\ seq' = PushRight(seq, <<v>>)

LPop == Returns("LPop", << >>, IF seq = << >> THEN Null ELSE Head(seq)) /\ seq' = PopLeft(seq, 1)
RPop == Returns("RPop", << >>, IF seq = << >> THEN Null ELSE Last(seq)) /\ seq' = PopRight(seq, 1)

Index(i) == Reads("Index", <<i>>, IF InRange(seq, i) THEN seq[FromHead(seq, i) + 1] ELSE Null)

Set(i, v) ==
    /\ Returns("Set", <<i, v>>, InRange(seq, i))
    /\ seq' = IF InRange(seq, i) THEN [seq EXCEPT ![FromHead(seq, i) + 1] = v] ELSE seq

GetRange(i, j) == Reads("Range", <<i, j>>, Trim(seq, i, j))

TrimTo(i, j) == Returns("Trim", <<i, j>>, Len(seq')) /\ seq' = Trim(seq, i, j)

\* offset is 0 for InsertBefore and 1 for InsertAfter.
InsertNext(op, offset, pivot, v) ==
    \/ Reads(op, <<pivot, v>>, -1) /\ Occurrences(seq, pivot) = {}
    \/ \E p \in DOMAIN seq :
         /\ Returns(op, <<pivot, v>>, Len(seq'))
         /\ IsFirst(seq, pivot, p)
         /\ seq' = InsertAt(seq, p + offset, v)

RemoveElement(n, v) ==
    /\ Returns("Remove", <<n, v>>, Cardinality(Removed(seq, n, v)))
    /\ LeavesOut(seq', seq, Removed(seq, n, v))

Answers ==
    \/ LPop \/ RPop
    \/ \E v \in Value : LPush(v) \/ RPush(v)
    \/ \E i \in Ints : Index(i) \/ \E v \in Value : Set(i, v) \/ RemoveElement(i, v)
    \/ \E i, j \in Ints : GetRange(i, j) \/ TrimTo(i, j)
    \/ \E pivot, v \in Value :
         InsertNext("InsertBefore", 0, pivot, v) \/ InsertNext("InsertAfter", 1, pivot, v)

Next == Call \/ (reply' # Pending /\ Answers)

Spec == Init /\ [][Next]_<<seq, reply>>

=============================================================================
