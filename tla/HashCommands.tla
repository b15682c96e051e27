---------------------------- MODULE HashCommands ----------------------------
(***************************************************************************)
(* The handlers of src/commands/hash.go.  A hash is a function from its    *)
(* fields to their values, both strings.                                   *)
(***************************************************************************)
EXTENDS Keyspace

Hash(k) == ContentsOr(db, k, "hash")

Without(f, D) == [x \in DOMAIN f \ D |-> f[x]]
Updated(f, g) == [x \in DOMAIN f \cup DOMAIN g |-> IF x \in DOMAIN g THEN g[x] ELSE f[x]]

\* HSET and HMSET with the pairs of g.
HSet(k, g) ==
    \/ WrongType("HSET", {k}, k, "hash")
    \/ /\ TypeAt(db, k) \in {"none", "hash"}
       /\ Exec("HSET", {k}, Upsert(db, k, "hash", Updated(Hash(k), g)),
               Number(Cardinality(DOMAIN g \ DOMAIN Hash(k))))

HSetNX(k, f, v) ==
    \/ WrongType("HSETNX", {k}, k, "hash")
    \/ f \in DOMAIN Hash(k) /\ Untouched("HSETNX", {k}, k, "hash", Number(0))
    \/ /\ TypeAt(db, k) \in {"none", "hash"}
       /\ f \notin DOMAIN Hash(k)
       /\ Exec("HSETNX", {k}, Upsert(db, k, "hash", Updated(Hash(k), [x \in {f} |-> v])), Number(1))

\* HGET, HMGET, HEXISTS, HGETALL, HKEYS, HVALS and HLEN.
HashRead(k) == ReadOnly("HGETALL", {k}, k, "hash", {Array, Nil})

HDel(k, F) ==
    \/ WrongType("HDEL", {k}, k, "hash")
    \/ Missing("HDEL", {k}, k, Number(0))
    \/ /\ TypeAt(db, k) = "hash"
       /\ Exec("HDEL", {k}, Shrink(db, k, "hash", Without(Hash(k), F)),
               Number(Cardinality(F \cap DOMAIN Hash(k))))

\* The hash is created before the old value is parsed; only a field that is
\* there can fail to parse.
HIncrBy(k, f, delta) ==
    \/ WrongType("HINCRBY", {k}, k, "hash")
    \/ /\ f \in DOMAIN Hash(k) /\ Hash(k)[f] \notin IntVal
       /\ Untouched("HINCRBY", {k}, k, "hash", Error)
    \/ /\ TypeAt(db, k) \in {"none", "hash"}
       /\ f \in DOMAIN Hash(k) => Hash(k)[f] \in IntVal
       /\ LET n == Wrap((IF f \in DOMAIN Hash(k) THEN Hash(k)[f] ELSE 0) + delta)
          IN Exec("HINCRBY", {k}, Upsert(db, k, "hash", Updated(Hash(k), [x \in {f} |-> n])), Number(n))

\* The decimal fraction it writes is not spelled out.
HIncrByFloat(k, f, v) ==
    \/ WrongType("HINCRBYFLOAT", {k}, k, "hash")
    \/ /\ f \in DOMAIN Hash(k) /\ Hash(k)[f] \in Text
       /\ Untouched("HINCRBYFLOAT", {k}, k, "hash", Error)
    \/ /\ TypeAt(db, k) \in {"none", "hash"}
       /\ Exec("HINCRBYFLOAT", {k}, Upsert(db, k, "hash", Updated(Hash(k), [x \in {f} |-> v])), Bulk(v))

HashNext ==
    \/ \E k \in Key : HashRead(k)
    \/ \E k \in Key, F \in (SUBSET Args) \ {{}} : HDel(k, F) \/ \E g \in [F -> Args] : HSet(k, g)
    \/ \E k \in Key, f, v \in Args : HSetNX(k, f, v)
    \/ \E k \in Key, f \in Args, delta \in Deltas : HIncrBy(k, f, delta)
    \/ \E k \in Key, f \in Args, v \in Str : HIncrByFloat(k, f, v)

=============================================================================
