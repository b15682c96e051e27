------------------------------ MODULE SortedSet ------------------------------
(***************************************************************************)
(* store.ZSet (src/store/store.go): a map from members to scores and the   *)
(* skiplist of src/datastructures/skiplist.go with the same pairs, and the *)
(* ranges that src/commands/zset.go computes from them.                    *)
(*                                                                         *)
(* Members are numbers, ordered as the strings they stand for, 0 for the   *)
(* empty string.  The code's levels 0 .. 31 are 1 .. MaxLevel here.        *)
(***************************************************************************)
EXTENDS ListValues

CONSTANTS
    Member,     \* members; 0 is the empty string
    Score,      \* scores: integers and perhaps NaN
    NaN,        \* not a number: strconv.ParseFloat reads it, and inf - inf is it
    MaxLevel,   \* skiplistMaxLevel
    Copies,     \* bound: nodes of one member in the skiplist
    Header,     \* the address of the header node
    Nil         \* nil

ASSUME MemberAssumption == Member \subseteq Nat
ASSUME ScoreAssumption  == Score \subseteq Int \cup {NaN} /\ NaN \notin Int
ASSUME LevelAssumption  == MaxLevel \in Nat \ {0} /\ Copies \in Nat \ {0}
ASSUME HeaderAssumption == Nil # Header /\ {Nil, Header} \cap (Member \X (1 .. Copies)) = {}

VARIABLES
    sl,         \* the skiplist: node, tail, length, level
    members,    \* the map
    popped      \* the last entry ZPOPMIN or ZPOPMAX took, and from which end

zvars == <<sl, members, popped>>

\* float64 comparisons; none holds of NaN.
Below(s, t)   == s # NaN /\ t # NaN /\ s < t
Same(s, t)    == s # NaN /\ t # NaN /\ s = t
AtMost(s, t)  == Below(s, t) \/ Same(s, t)

\* An address is a member and a number: which one the allocator picks is all
\* the same.
Fresh(s, m) == CHOOSE a \in {m} \X (1 .. Copies) : a \notin DOMAIN s.node

Precedes(n, score, m) == Below(n.score, score) \/ (Same(n.score, score) /\ n.member < m)

EmptyList ==
    [node |-> [a \in {Header} |->
                 [member |-> 0, score |-> 0, backward |-> Nil,
                  levels |-> [i \in 1 .. MaxLevel |-> [forward |-> Nil, span |-> 0]]]],
     tail |-> Nil, length |-> 0, level |-> 1]

-----------------------------------------------------------------------------
(* The search all operations begin with: on each level from the top, go on *)
(* while the rank the next node would have is one it is passed at.         *)

\* The link of the node a on level i; no search comes to a node on a level that
\* the node does not have.
LinkAt(s, a, i) ==
    IF i \in DOMAIN s.node[a].levels THEN s.node[a].levels[i] ELSE [forward |-> Nil, span |-> 0]

\* Where the loop of level i ends that begins at `start', a node and its rank.
Along(s, passedAt, i, start) ==
    LET go[x \in [at : DOMAIN s.node, rank : Nat]] ==
          LET l == LinkAt(s, x.at, i) IN
          IF l.forward # Nil /\ x.rank + l.span \in passedAt[l.forward]
          THEN go[[at |-> l.forward, rank |-> x.rank + l.span]]
          ELSE x
    IN go[start]

Path(s, passedAt) ==
    LET down[i \in 1 .. s.level] ==
          Along(s, passedAt, i, IF i = s.level THEN [at |-> Header, rank |-> 0] ELSE down[i + 1])
    IN down

\* The search that goes past the nodes of A, whatever their ranks.
PathPast(s, A) == Path(s, [a \in DOMAIN s.node |-> IF a \in A THEN Nat ELSE {}])

PathTo(s, score, m) == PathPast(s, {a \in DOMAIN s.node : Precedes(s.node[a], score, m)})

Next0(s, a) == s.node[a].levels[1].forward

\* Skiplist.Insert; `level' is what randomLevel returned.
Insert(s, score, m, level) ==
    LET path    == PathTo(s, score, m)
        a       == Fresh(s, m)
        update  == path \o [i \in 1 .. Max({level, s.level}) - s.level |-> [at |-> Header, rank |-> 0]]
        gap(i)  == update[1].rank - update[i].rank
        link(i) == s.node[update[i].at].levels[i]
        next    == Next0(s, update[1].at)
    IN [node |-> [b \in DOMAIN s.node \cup {a} |->
           IF b = a
           THEN [member |-> m, score |-> score,
                 backward |-> IF update[1].at = Header THEN Nil ELSE update[1].at,
                 levels |-> [i \in 1 .. level |->
                    [forward |-> link(i).forward,
                     span |-> (IF i <= s.level THEN link(i).span ELSE s.length) - gap(i)]]]
           ELSE [s.node[b] EXCEPT
                 !.backward = IF b = next THEN a ELSE @,
                 !.levels = [i \in DOMAIN @ |->
                    IF i \notin DOMAIN update \/ update[i].at # b THEN @[i]
                    ELSE IF i <= level THEN [forward |-> a, span |-> gap(i) + 1]
                    ELSE [forward |-> @[i].forward, span |-> @[i].span + 1]]]],
        tail |-> IF next = Nil THEN a ELSE s.tail,
        length |-> s.length + 1, level |-> Max({level, s.level})]

\* Mutant: a link that passes over x keeps its span.
PastSameSpan(l, x, gone) ==
    IF l.forward = x THEN [forward |-> gone.forward, span |-> l.span + gone.span - 1] ELSE l

\* What becomes of the link l when x leaves, whose own link was `gone'.
Past(l, x, gone) ==
    IF l.forward = x THEN [forward |-> gone.forward, span |-> l.span + gone.span - 1]
    ELSE [forward |-> l.forward, span |-> l.span - 1]

\* deleteNode: the node x, found with the search `path'.
Unlinked(s, x, path) ==
    LET next == Next0(s, x)
        rest == [b \in DOMAIN s.node \ {x} |->
           [s.node[b] EXCEPT
            !.backward = IF b = next THEN s.node[x].backward ELSE @,
            !.levels = [i \in DOMAIN @ |->
               IF i \notin DOMAIN path THEN @[i]
               ELSE IF path[i].at # b THEN @[i]
               ELSE Past(@[i], x, IF i \in DOMAIN s.node[x].levels THEN s.node[x].levels[i] ELSE Nil)]]]
    IN [node |-> rest,
        tail |-> IF next = Nil THEN s.node[x].backward ELSE s.tail,
        length |-> s.length - 1,
        level |-> Max({1} \cup {i \in 1 .. s.level : rest[Header].levels[i].forward # Nil})]

\* Skiplist.Delete
Deleted(s, score, m) ==
    LET path == PathTo(s, score, m)
        x    == Next0(s, path[1].at)
    IN IF x # Nil /\ Same(s.node[x].score, score) /\ s.node[x].member = m
       THEN Unlinked(s, x, path) ELSE s

-----------------------------------------------------------------------------
(* ZSet *)

Room(s, m) == {m} \X (1 .. Copies) \ DOMAIN s.node # {}

\* Mutant: the pair the member had stays in the skiplist.
AddAgain(score, m, level) ==
    /\ Room(sl, m)
    /\ sl' = Insert(sl, score, m, level)
    /\ members' = [x \in DOMAIN members \cup {m} |-> IF x = m THEN score ELSE members[x]]
    /\ popped' = << >>

\* ZSet.Add
Add(score, m, level) ==
    /\ LET s == IF m \in DOMAIN members THEN Deleted(sl, members[m], m) ELSE sl
       IN Room(s, m) /\ sl' = Insert(s, score, m, level)
    /\ members' = [x \in DOMAIN members \cup {m} |-> IF x = m THEN score ELSE members[x]]
    /\ popped' = << >>

\* ZSet.Remove
Drop(m) ==
    /\ sl' = IF m \in DOMAIN members THEN Deleted(sl, members[m], m) ELSE sl
    /\ members' = [x \in DOMAIN members \ {m} |-> members[x]]

Rem(m) == m \in DOMAIN members /\ Drop(m) /\ popped' = << >>

Entry(s, a) == [member |-> s.node[a].member, score |-> s.node[a].score]

\* Skiplist.First and Last
End(s, end) == IF end = "min" THEN Next0(s, Header) ELSE s.tail

\* Mutant: the entry is read after the member is removed.
PopLate(end) ==
    /\ End(sl, end) # Nil
    /\ Drop(sl.node[End(sl, end)].member)
    /\ popped' = IF End(sl', end) = Nil THEN << >> ELSE <<end, Entry(sl', End(sl', end))>>

\* One round of the loop in ZPOPMIN or ZPOPMAX, which stops at nil.
Pop(end) ==
    /\ End(sl, end) # Nil
    /\ popped' = <<end, Entry(sl, End(sl, end))>>
    /\ Drop(sl.node[End(sl, end)].member)

InitZSet == sl = EmptyList /\ members = << >> /\ popped = << >>

NextZSet ==
    \/ \E m \in Member, score \in Score, level \in 1 .. MaxLevel : Add(score, m, level)
    \/ \E m \in Member : Rem(m)
    \/ \E end \in {"min", "max"} : Pop(end)

SpecZSet == InitZSet /\ [][NextZSet]_zvars

-----------------------------------------------------------------------------
(* Queries *)

From(a) == LET from[b \in DOMAIN sl.node \cup {Nil}] ==
                 IF b = Nil THEN << >> ELSE <<b>> \o from[Next0(sl, b)]
           IN from[a]

\* Following `backward' ends at nil, never at the header.
Back(a) == LET back[b \in DOMAIN sl.node \cup {Nil}] ==
                 IF b \in {Nil, Header} THEN << >> ELSE <<b>> \o back[sl.node[b].backward]
           IN back[a]

Entries(s) == [p \in DOMAIN s |-> Entry(sl, s[p])]

\* A loop that goes on while it meets nodes of A, then LIMIT offset count; a
\* count that is not positive is no limit.
While(s, A) == SubSeq(s, 1, Max({p \in 0 .. Len(s) : \A q \in 1 .. p : s[q] \in A}))
Limit(s, offset, count) ==
    LET rest == SubSeq(s, (IF offset > 0 THEN offset ELSE 0) + 1, Len(s))
    IN IF count > 0 THEN SubSeq(rest, 1, Min({count, Len(rest)})) ELSE rest

\* GetRank: it stops on the first level where it is at a node of the member,
\* and the header counts as one of the empty string.
GetRank(score, m) ==
    LET path == PathPast(sl, {a \in DOMAIN sl.node : LET n == sl.node[a] IN
                                 Below(n.score, score) \/ (Same(n.score, score) /\ n.member <= m)})
        hits == {i \in DOMAIN path : sl.node[path[i].at].member = m}
    IN IF hits = {} THEN 0 ELSE path[Max(hits)].rank

Rank(m)    == GetRank(members[m], m) - 1
RevRank(m) == sl.length - 1 - Rank(m)

GetByRank(rank) ==
    LET path == Path(sl, [a \in DOMAIN sl.node |-> 0 .. rank])
        hits == {i \in DOMAIN path : path[i].rank = rank}
    IN IF hits = {} THEN Nil ELSE path[Max(hits)].at

RangeByRank(start, stop) ==
    LET i == IF start < 1 THEN 1 ELSE start
        j == IF stop > sl.length THEN sl.length ELSE stop
    IN IF i > j THEN << >> ELSE Entries(Limit(From(GetByRank(i)), 0, j - i + 1))

NotAbove(max) == {a \in DOMAIN sl.node : AtMost(sl.node[a].score, max)}
NotBelow(min) == {a \in DOMAIN sl.node : AtMost(min, sl.node[a].score)}

AtScore(min) == Next0(sl, PathPast(sl, {a \in DOMAIN sl.node : Below(sl.node[a].score, min)})[1].at)

RangeByScore(min, max, offset, count) ==
    Entries(Limit(While(From(AtScore(min)), NotAbove(max)), offset, count))

RevRangeByScore(max, min, offset, count) ==
    LET x == PathPast(sl, NotAbove(max))[1].at
    IN Entries(Limit(While(Back(x), NotBelow(min)), offset, count))

CountByScore(min, max) == Len(While(From(AtScore(min)), NotAbove(max)))

\* ZRANGE and ZREVRANGE turn indices that may be negative into ranks.
Index0(i) == IF i < 0 THEN sl.length + i ELSE i

ZRange(start, stop) ==
    LET i == Index0(start)
        j == Index0(stop)
    IN RangeByRank((IF i < 0 THEN 0 ELSE i) + 1, (IF j >= sl.length THEN sl.length - 1 ELSE j) + 1)

\* Mutant: the bounds are not exchanged.
ZRevRangeSameOrder(start, stop) ==
    LET i == sl.length - 1 - Index0(start)
        j == sl.length - 1 - Index0(stop)
    IN Reverse(RangeByRank((IF i < 0 THEN 0 ELSE i) + 1, (IF j >= sl.length THEN sl.length - 1 ELSE j) + 1))

ZRevRange(start, stop) ==
    LET i == sl.length - 1 - Index0(stop)
        j == sl.length - 1 - Index0(start)
    IN Reverse(RangeByRank((IF i < 0 THEN 0 ELSE i) + 1, (IF j >= sl.length THEN sl.length - 1 ELSE j) + 1))

\* ZRANGEBYLEX asks the map: bounds are "-" or "+", or a member, exclusive or
\* not.
Bound == [any |-> TRUE]
BoundAt(m, exclusive) == [any |-> FALSE, at |-> m, exclusive |-> exclusive]

LexInRange(m, lo, hi) ==
    /\ lo.any \/ lo.at < m \/ (lo.at = m /\ ~lo.exclusive)
    /\ hi.any \/ m < hi.at \/ (m = hi.at /\ ~hi.exclusive)

ZRangeByLex(lo, hi) == SetToSortSeq({m \in DOMAIN members : LexInRange(m, lo, hi)}, <)

-----------------------------------------------------------------------------
Chain == From(Next0(sl, Header))

\* The position of the next node of the chain c after p that is on level i.
Rung(c, i, p) == Min({Len(c) + 1} \cup {q \in p + 1 .. Len(c) : i \in DOMAIN sl.node[c[q]].levels})

LinkOk(c, i, p, l) ==
    /\ l.forward = IF Rung(c, i, p) > Len(c) THEN Nil ELSE c[Rung(c, i, p)]
    /\ l.span = Min({Rung(c, i, p), Len(c)}) - p

(* The skiplist is one: sorted by score and member on the lowest level,     *)
(* each level a subsequence of it, every span the distance it stands for,   *)
(* backward pointers, tail, length and level right, whatever was inserted   *)
(* and deleted with whatever random levels.                                 *)
SkiplistShape ==
    LET c == Chain
    IN /\ sl.length = Len(c)
       /\ sl.tail = IF c = << >> THEN Nil ELSE c[Len(c)]
       /\ \A i \in 1 .. sl.level : LinkOk(c, i, 0, sl.node[Header].levels[i])
       /\ \A p \in DOMAIN c :
            LET n == sl.node[c[p]] IN
            /\ p > 1 => Precedes(sl.node[c[p - 1]], n.score, n.member)
            /\ n.backward = IF p = 1 THEN Nil ELSE c[p - 1]
            /\ \A i \in DOMAIN n.levels : i <= sl.level /\ LinkOk(c, i, p, n.levels[i])
       /\ sl.level > 1 => \E p \in DOMAIN c : Len(sl.node[c[p]].levels) = sl.level

Pairs == {[member |-> m, score |-> members[m]] : m \in DOMAIN members}

(* The map and the skiplist hold the same pairs: ZSCORE answers from one,   *)
(* ZRANGE and ZCARD from the other.                                         *)
PairsAgree == ToSet(Entries(Chain)) = Pairs /\ sl.length = Cardinality(Pairs)

EntryBefore(e, f) == e.score < f.score \/ (e.score = f.score /\ e.member < f.member)

\* The reference the queries are compared with, made from the map alone.
Sorted == SetToSortSeq(Pairs, EntryBefore)

Between(s, min, max) == SelectSeq(s, LAMBDA e : min <= e.score /\ e.score <= max)
Limited(s, offset, count) ==
    LET rest == SubSeq(s, offset + 1, Len(s)) IN IF count > 0 /\ count < Len(rest) THEN SubSeq(rest, 1, count) ELSE rest

(* Ranks, ranges by rank and by score, in both directions, with negative    *)
(* and excessive indices and LIMIT, are those of the pairs in sorted order; *)
(* so are ranges by member, if all scores are the same.                     *)
(* The rank of the empty member is left out.                                *)
QueriesAgree ==
    LET up   == Sorted
        down == Reverse(up)
    IN /\ \A m \in DOMAIN members \ {0} : up[Rank(m) + 1].member = m /\ down[RevRank(m) + 1].member = m
       /\ \A i, j \in -(sl.length + 1) .. sl.length + 1 :
            ZRange(i, j) = Trim(up, i, j) /\ ZRevRange(i, j) = Trim(down, i, j)
       /\ \A lo, hi \in {Bound} \cup {BoundAt(m, e) : m \in Member, e \in BOOLEAN} :
            Cardinality(ToSet([p \in DOMAIN up |-> up[p].score])) = 1 =>
                ZRangeByLex(lo, hi) = SelectSeq([p \in DOMAIN up |-> up[p].member],
                                                LAMBDA m : LexInRange(m, lo, hi))
       /\ \A min, max \in Score :
            /\ CountByScore(min, max) = Len(Between(up, min, max))
            /\ \A offset, count \in 0 .. 2 :
                 /\ RangeByScore(min, max, offset, count) = Limited(Between(up, min, max), offset, count)
                 /\ RevRangeByScore(max, min, offset, count)
                      = Limited(Between(down, min, max), offset, count)

(* ZPOPMIN and ZPOPMAX take the pair before all others or the one after     *)
(* all others, and nothing else.                                            *)
PopsTakeTheEnd ==
    [][popped' # << >> =>
         LET taken == popped'[2]
             left  == Pairs \ {taken}
         IN /\ taken \in Pairs
            /\ \A e \in left : IF popped'[1] = "min" THEN EntryBefore(taken, e) ELSE EntryBefore(e, taken)
            /\ Pairs' = left]_zvars

=============================================================================
