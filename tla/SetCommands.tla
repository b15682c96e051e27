----------------------------- MODULE SetCommands -----------------------------
(***************************************************************************)
(* The handlers of src/commands/set.go.                                    *)
(***************************************************************************)
EXTENDS Keyspace

SetAt(s, k) == ContentsOr(s, k, "set")

SAdd(k, M) ==
    \/ WrongType("SADD", {k}, k, "set")
    \/ /\ TypeAt(db, k) \in {"none", "set"}
       /\ Exec("SADD", {k}, Upsert(db, k, "set", SetAt(db, k) \cup M),
               Number(Cardinality(M \ SetAt(db, k))))

SRem(k, M) ==
    \/ WrongType("SREM", {k}, k, "set")
    \/ Missing("SREM", {k}, k, Number(0))
    \/ /\ TypeAt(db, k) = "set"
       /\ Exec("SREM", {k}, Shrink(db, k, "set", SetAt(db, k) \ M),
               Number(Cardinality(M \cap SetAt(db, k))))

\* SPOP removes n members, or all of them, picked at random.
SPop(k, n) ==
    \/ WrongType("SPOP", {k}, k, "set")
    \/ Missing("SPOP", {k}, k, Nil)
    \/ n < 0 /\ Untouched("SPOP", {k}, k, "set", Error)
    \/ \E M \in SUBSET SetAt(db, k) :
         /\ TypeAt(db, k) = "set"
         /\ n >= 0
         /\ Cardinality(M) = n \/ (M = SetAt(db, k) /\ Cardinality(M) < n)
         /\ Exec("SPOP", {k}, Shrink(db, k, "set", SetAt(db, k) \ M), Array)

\* SRANDMEMBER without a count draws from 0 .. len-1, which must not be empty:
\* rand.Intn(0) panics.
SRandMember(k) ==
    \/ WrongType("SRANDMEMBER", {k}, k, "set")
    \/ Missing("SRANDMEMBER", {k}, k, Nil)
    \/ \E m \in SetAt(db, k) : Untouched("SRANDMEMBER", {k}, k, "set", Bulk(m))

\* SMEMBERS, SISMEMBER, SMISMEMBER and SCARD.
SetRead(k) == ReadOnly("SMEMBERS", {k}, k, "set", {Array})

\* collectSets looks up first and then K, in some order and until t, and finds
\* the keys of M gone.
CollectSets(first, M) == DeleteAll(Lookup(db, first), M)

AllSets(s, K) == \A k \in K : TypeAt(s, k) \in {"none", "set"}

\* It stops at k, the first key that it finds to be of another type.
CollectFails(cmd, keys, first, K, t) ==
    \/ WrongType(cmd, keys, first, "set")
    \/ \E L \in SUBSET K, k \in K : \E M \in Missed(L, t) :
         /\ AllSets(db, {first})
         /\ LiveAt(db, k, t) /\ db.data[k].type # "set"
         /\ ExecUntil(t, cmd, keys, CollectSets(first, M), Error)

\* The set under first was read before those of K, which are those of s.
Combine(op, first, K, s) ==
    CASE op = "union" -> SetAt(db, first) \cup UNION {SetAt(s, k) : k \in K}
      [] op = "inter" -> {m \in SetAt(db, first) : \A k \in K : m \in SetAt(s, k)}
      [] op = "diff"  -> {m \in SetAt(db, first) : \A k \in K : m \notin SetAt(s, k)}

Operations == {"union", "inter", "diff"}

\* SUNION, SINTER and SDIFF.
SetAlgebra(first, K, t) ==
    \/ CollectFails("SUNION", K \cup {first}, first, K, t)
    \/ \E M \in Missed(K, t) :
         LET s == CollectSets(first, M) IN
         /\ AllSets(db, {first}) /\ AllSets(s, K)
         /\ ExecUntil(t, "SUNION", K \cup {first}, s, Array)

\* Mutant: the result of a single set is that set itself, not a copy of it.
SetStoreAsIs(op, dst, first, K, t) ==
    /\ TypeAt(db, first) = "set" /\ K = {}
    /\ Exec("SUNIONSTORE", {first, dst}, SetObject(db, dst, [db.data[first] EXCEPT !.exp = Never]),
            Number(Cardinality(SetAt(db, first))))

\* SUNIONSTORE, SINTERSTORE and SDIFFSTORE: the result, a new map, replaces
\* whatever dst holds, and an empty one removes dst.
SetStore(op, dst, first, K, t) ==
    \/ CollectFails("SUNIONSTORE", K \cup {first, dst}, first, K, t)
    \/ \E M \in Missed(K, t) :
         LET s == CollectSets(first, M)
             result == Combine(op, first, K, s)
         IN /\ AllSets(db, {first}) /\ AllSets(s, K)
            /\ ExecUntil(t, "SUNIONSTORE", K \cup {first, dst},
                         IF result = {} THEN Delete(s, dst)
                                        ELSE Create(Delete(s, dst), dst, "set", result),
                         Number(Cardinality(result)))

\* Mutant: src is kept when its last member leaves.
SMoveKeepingEmpty(src, dst, m, t) ==
    LET s == Mutate(db, src, SetAt(db, src) \ {m})
    IN /\ TypeAt(db, src) = "set" /\ m \in SetAt(db, src)
       /\ TypeAt(s, dst) \in {"none", "set"}
       /\ Exec("SMOVE", {src, dst}, Upsert(s, dst, "set", SetAt(s, dst) \cup {m}), Number(1))

\* The member leaves src before dst is looked up, with the clock at t.
SMove(src, dst, m, t) ==
    LET s == LookupAt(Shrink(db, src, "set", SetAt(db, src) \ {m}), dst, t)
    IN \/ WrongType("SMOVE", {src, dst}, src, "set")
       \/ Missing("SMOVE", {src, dst}, src, Number(0))
       \/ m \notin SetAt(db, src) /\ Untouched("SMOVE", {src, dst}, src, "set", Number(0))
       \/ /\ TypeAt(db, src) = "set" /\ m \in SetAt(db, src)
          /\ \/ /\ TypeAt(s, dst) \notin {"none", "set"}
                /\ ExecUntil(t, "SMOVE", {src, dst}, s, Error)
             \/ /\ TypeAt(s, dst) \in {"none", "set"}
                /\ ExecUntil(t, "SMOVE", {src, dst}, Upsert(s, dst, "set", SetAt(s, dst) \cup {m}), Number(1))

SetNext ==
    \/ \E k \in Key : SetRead(k) \/ SRandMember(k)
    \/ \E k \in Key, n \in Deltas \cup {1} : SPop(k, n)
    \/ \E k \in Key, M \in (SUBSET Args) \ {{}} : SAdd(k, M) \/ SRem(k, M)
    \/ \E src, dst \in Key, m \in Args, t \in now .. MaxTime : SMove(src, dst, m, t)
    \/ \E first \in Key, K \in SUBSET Key, t \in now .. MaxTime :
         \/ SetAlgebra(first, K, t)
         \/ \E op \in Operations, dst \in Key : SetStore(op, dst, first, K, t)

=============================================================================
