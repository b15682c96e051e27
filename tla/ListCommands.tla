---------------------------- MODULE ListCommands ----------------------------
(***************************************************************************)
(* The handlers of src/commands/list.go, over what the linked list of      *)
(* src/datastructures/list.go computes (ListValues).                       *)
(***************************************************************************)
EXTENDS Keyspace, ListValues

CONSTANT
    MaxLen      \* bound: clients stop pushing to a list of that length

ASSUME LengthAssumption == MaxLen \in Nat

Lists(n) == UNION {[1 .. m -> Str] : m \in 0 .. n}

-----------------------------------------------------------------------------
(* Handlers *)

List(k) == ContentsOr(db, k, "list")

\* LPUSH and RPUSH; getOrCreateList.
Push(cmd, k, c) ==
    \/ WrongType(cmd, {k}, k, "list")
    \/ /\ TypeAt(db, k) \in {"none", "list"}
       /\ Len(c) <= MaxLen
       /\ Exec(cmd, {k}, Upsert(db, k, "list", c), Number(Len(c)))

\* Mutant: getOrCreateList in place of getList.
PushXCreating(cmd, k, c) ==
    \/ WrongType(cmd, {k}, k, "list")
    \/ /\ TypeAt(db, k) \in {"none", "list"}
       /\ Len(c) <= MaxLen
       /\ Exec(cmd, {k}, Upsert(db, k, "list", c), Number(Len(c)))

\* LPUSHX and RPUSHX; getList.
PushX(cmd, k, c) ==
    \/ WrongType(cmd, {k}, k, "list")
    \/ Missing(cmd, {k}, k, Number(0))
    \/ /\ TypeAt(db, k) = "list"
       /\ Len(c) <= MaxLen
       /\ Exec(cmd, {k}, Mutate(db, k, c), Number(Len(c)))

\* LPOP and RPOP: n elements at most; `rest' is what they leave and `v' the
\* element at that end.  An empty list is possible when it is shared.
Pop(cmd, k, n, rest, v) ==
    \/ WrongType(cmd, {k}, k, "list")
    \/ Missing(cmd, {k}, k, Nil)
    \/ n < 0 /\ Untouched(cmd, {k}, k, "list", Error)
    \/ /\ n >= 0
       /\ TypeAt(db, k) = "list"
       /\ Exec(cmd, {k}, Shrink(db, k, "list", rest),
               IF rest = List(k) THEN Nil ELSE IF n = 1 THEN Bulk(v) ELSE Array)

ListRead(k) == ReadOnly("LRANGE", {k}, k, "list", {Array, Nil, Error})

LSet(k, i, v) ==
    \/ WrongType("LSET", {k}, k, "list")
    \/ Missing("LSET", {k}, k, Error)
    \/ ~InRange(List(k), i) /\ Untouched("LSET", {k}, k, "list", Error)
    \/ /\ TypeAt(db, k) = "list" /\ InRange(List(k), i)
       /\ Exec("LSET", {k}, Mutate(db, k, [List(k) EXCEPT ![FromHead(List(k), i) + 1] = v]), OK)

\* offset is 0 for BEFORE and 1 for AFTER the first occurrence of pivot.
LInsert(k, offset, pivot, v) ==
    \/ WrongType("LINSERT", {k}, k, "list")
    \/ Missing("LINSERT", {k}, k, Number(0))
    \/ Untouched("LINSERT", {k}, k, "list", Error)
    \/ Occurrences(List(k), pivot) = {} /\ Untouched("LINSERT", {k}, k, "list", Number(-1))
    \/ \E p \in Occurrences(List(k), pivot) :
         /\ TypeAt(db, k) = "list"
         /\ IsFirst(List(k), pivot, p)
         /\ Len(List(k)) < MaxLen
         /\ Exec("LINSERT", {k}, Mutate(db, k, InsertAt(List(k), p + offset, v)),
                 Number(Len(List(k)) + 1))

\* List.Remove negates a negative count; the least integer stays negative.
LRem(k, n, v) ==
    \/ WrongType("LREM", {k}, k, "list")
    \/ Missing("LREM", {k}, k, Number(0))
    \/ /\ TypeAt(db, k) = "list"
       /\ LET P == IF n = -Half THEN {} ELSE Removed(List(k), n, v) IN
          \E d \in Lists(Len(List(k))) :
             /\ LeavesOut(d, List(k), P)
             /\ Exec("LREM", {k}, Shrink(db, k, "list", d), Number(Cardinality(P)))

LTrim(k, start, stop) ==
    \/ WrongType("LTRIM", {k}, k, "list")
    \/ Missing("LTRIM", {k}, k, OK)
    \/ /\ TypeAt(db, k) = "list"
       /\ Exec("LTRIM", {k}, Shrink(db, k, "list", Trim(List(k), start, stop)), OK)

\* RPOPLPUSH and LMOVE: the element leaves src before the type of dst, or the
\* word that says to which end it goes, is looked at.  getOrCreateList reads the
\* clock again, at t: dst, be it src itself, may have expired by then.
Ends == {"LEFT", "RIGHT"}

Take(c, end)    == IF end = "LEFT" THEN PopLeft(c, 1) ELSE PopRight(c, 1)
Taken(c, end)   == IF end = "LEFT" THEN Head(c) ELSE Last(c)
Give(c, end, v) ==
    CASE end = "LEFT"  -> PushLeft(c, <<v>>)
      [] end = "RIGHT" -> PushRight(c, <<v>>)
      [] OTHER         -> c

Popped(src, from) == Shrink(db, src, "list", Take(List(src), from))

\* Mutant: dst is read before the element leaves src.
MoveStale(cmd, src, dst, from, to, t) ==
    LET c == ContentsOr(db, dst, "list")
        v == Taken(List(src), from)
    IN /\ TypeAt(db, src) = "list" /\ List(src) # << >> /\ {from, to} \subseteq Ends
       /\ TypeAt(db, dst) \in {"none", "list"} /\ Len(c) < MaxLen
       /\ Exec(cmd, {src, dst}, Upsert(Popped(src, from), dst, "list", Give(c, to, v)), Bulk(v))

Move(cmd, src, dst, from, to, t) ==
    \/ WrongType(cmd, {src, dst}, src, "list")
    \/ Missing(cmd, {src, dst}, src, Nil)
    \/ from \notin Ends /\ Untouched(cmd, {src, dst}, src, "list", Error)
    \/ List(src) = << >> /\ from \in Ends /\ Untouched(cmd, {src, dst}, src, "list", Nil)
    \/ /\ TypeAt(db, src) = "list" /\ List(src) # << >> /\ from \in Ends
       /\ LET s == LookupAt(Popped(src, from), dst, t)
              v == Taken(List(src), from)
              c == ContentsOr(s, dst, "list")
          IN \/ /\ TypeAt(s, dst) \notin {"none", "list"}
                /\ ExecUntil(t, cmd, {src, dst}, s, Error)
             \/ /\ TypeAt(s, dst) \in {"none", "list"}
                /\ Len(c) < MaxLen
                /\ ExecUntil(t, cmd, {src, dst}, Upsert(s, dst, "list", Give(c, to, v)),
                        IF to \in Ends THEN Bulk(v) ELSE Error)

ListNext ==
    \/ \E k \in Key : ListRead(k)
    \/ \E k \in Key, vs \in UNION {[1 .. n -> Args] : n \in 1 .. 2} :
         \/ Push("LPUSH", k, PushLeft(List(k), vs))
         \/ Push("RPUSH", k, PushRight(List(k), vs))
         \/ PushX("LPUSHX", k, PushLeft(List(k), vs))
         \/ PushX("RPUSHX", k, PushRight(List(k), vs))
    \/ \E k \in Key, n \in Deltas \cup {1} :
         \/ Pop("LPOP", k, n, PopLeft(List(k), n), List(k)[1])
         \/ Pop("RPOP", k, n, PopRight(List(k), n), List(k)[Len(List(k))])
    \/ \E k \in Key, i, j \in Deltas : LTrim(k, i, j)
    \/ \E k \in Key, i \in Deltas, v \in Args : LSet(k, i, v) \/ LRem(k, i, v)
    \/ \E k \in Key, offset \in {0, 1}, pivot, v \in Args : LInsert(k, offset, pivot, v)
    \/ \E src, dst \in Key, t \in now .. MaxTime :
         \/ Move("RPOPLPUSH", src, dst, "RIGHT", "LEFT", t)
         \/ \E from, to \in Ends \cup {"elsewhere"} : Move("LMOVE", src, dst, from, to, t)

=============================================================================
