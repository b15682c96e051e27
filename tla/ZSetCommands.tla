---------------------------- MODULE ZSetCommands ----------------------------
(***************************************************************************)
(* The handlers of src/commands/zset.go.  A sorted set is the function     *)
(* from its members to their scores that store.ZSet keeps; its skiplist    *)
(* orders the same pairs.  Scores are integers here: the code's float64    *)
(* scores other than NaN are totally ordered, and so are they.             *)
(***************************************************************************)
EXTENDS Keyspace

CONSTANTS
    Scores,     \* bound: the scores clients give, and keep to when they add
    FlagSets    \* the combinations of ZADD options they use

ASSUME ScoreAssumption == Scores \subseteq Int
ASSUME FlagAssumption  == FlagSets \subseteq SUBSET {"NX", "XX", "GT", "LT", "CH"}

ZSet(k) == ContentsOr(db, k, "zset")

\* The pairs of g that ZADD with these options puts into z.
Applied(z, g, flags) ==
    {m \in DOMAIN g :
        /\ "NX" \in flags => m \notin DOMAIN z
        /\ "XX" \in flags => m \in DOMAIN z
        /\ ("GT" \in flags /\ m \in DOMAIN z) => g[m] > z[m]
        /\ ("LT" \in flags /\ m \in DOMAIN z) => g[m] < z[m]}

\* ZSet.Add for every member of M, with the scores of g.
Scored(z, g, M) == [m \in DOMAIN z \cup M |-> IF m \in M THEN g[m] ELSE z[m]]

\* ZSet.Remove for every member of M.
Unscored(z, M) == [m \in DOMAIN z \ M |-> z[m]]

\* getOrCreateZSet comes first: an odd number of arguments, a score that is
\* not a number and options that keep every pair out leave an empty sorted
\* set behind where there was no key.  P is the pairs added before a bad score
\* is met, none when the number of arguments is odd.
ZAdd(k, g, flags) ==
    LET M == Applied(ZSet(k), g, flags)
        new == M \ DOMAIN ZSet(k)
    IN \/ WrongType("ZADD", {k}, k, "zset")
       \/ \E P \in SUBSET M :
             /\ TypeAt(db, k) \in {"none", "zset"}
             /\ Exec("ZADD", {k}, Upsert(db, k, "zset", Scored(ZSet(k), g, P)), Error)
       \/ /\ TypeAt(db, k) \in {"none", "zset"}
          /\ Exec("ZADD", {k}, Upsert(db, k, "zset", Scored(ZSet(k), g, M)),
                  Number(Cardinality(IF "CH" \in flags THEN M ELSE new)))

ZRem(k, M) ==
    \/ WrongType("ZREM", {k}, k, "zset")
    \/ Missing("ZREM", {k}, k, Number(0))
    \/ /\ TypeAt(db, k) = "zset"
       /\ Exec("ZREM", {k}, Shrink(db, k, "zset", Unscored(ZSet(k), M)),
               Number(Cardinality(M \cap DOMAIN ZSet(k))))

ZIncrBy(k, m, delta) ==
    LET score == (IF m \in DOMAIN ZSet(k) THEN ZSet(k)[m] ELSE 0) + delta
    IN \/ WrongType("ZINCRBY", {k}, k, "zset")
       \/ /\ TypeAt(db, k) \in {"none", "zset"}
          /\ score \in Scores
          /\ Exec("ZINCRBY", {k},
                  Upsert(db, k, "zset", Scored(ZSet(k), [x \in {m} |-> score], {m})), Number(score))

\* ZSCORE, ZRANK, ZREVRANK, the ranges, ZCARD and ZCOUNT.
ZRead(k) == ReadOnly("ZRANGE", {k}, k, "zset", {Array, Nil, Error})

\* M is the n members at the low end of z (sign 1) or at its high end (-1).
\* Equal scores are ordered by member, here in an unspecified order.
IsEnd(z, M, n, sign) ==
    /\ M \subseteq DOMAIN z
    /\ Cardinality(M) = n \/ (M = DOMAIN z /\ Cardinality(M) < n)
    /\ \A m \in M, o \in DOMAIN z \ M : sign * z[m] <= sign * z[o]

\* ZPOPMIN and ZPOPMAX.
ZPop(cmd, k, n, sign) ==
    \/ WrongType(cmd, {k}, k, "zset")
    \/ Missing(cmd, {k}, k, Array)
    \/ n < 0 /\ Untouched(cmd, {k}, k, "zset", Error)
    \/ \E M \in SUBSET DOMAIN ZSet(k) :
         /\ TypeAt(db, k) = "zset"
         /\ n >= 0
         /\ IsEnd(ZSet(k), M, n, sign)
         /\ Exec(cmd, {k}, Shrink(db, k, "zset", Unscored(ZSet(k), M)), Array)

ZNext ==
    \/ \E k \in Key : ZRead(k)
    \/ \E k \in Key, M \in (SUBSET Args) \ {{}} :
         \/ ZRem(k, M)
         \/ \E g \in [M -> Scores], flags \in FlagSets : ZAdd(k, g, flags)
    \/ \E k \in Key, m \in Args, delta \in Scores : ZIncrBy(k, m, delta)
    \/ \E k \in Key, n \in Deltas \cup {1} :
         ZPop("ZPOPMIN", k, n, 1) \/ ZPop("ZPOPMAX", k, n, -1)

=============================================================================
