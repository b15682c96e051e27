------------------------------ MODULE Keyspace ------------------------------
(***************************************************************************)
(* One database of the store (src/store/store.go, type DB) together with   *)
(* the Go heap its container values live in.                               *)
(*                                                                         *)
(* A string value is stored in its Object.  A list, a hash, a set and a    *)
(* sorted set are reached through a pointer or a map header, so an Object  *)
(* of those types holds a reference into `heap' and two Objects that hold  *)
(* the same reference are two names for one container (COPY does that to   *)
(* lists and sorted sets).                                                 *)
(*                                                                         *)
(* The operators of this module take and return the pair                   *)
(* [data, heap]; a handler is a composition of them, and Exec makes the    *)
(* composed result the next state.  LastAccess and AccessFreq are left out:*)
(* only eviction reads them, and nothing calls eviction.                   *)
(***************************************************************************)
EXTENDS Integers, FiniteSets, Sequences, TLC

CONSTANTS
    Key,        \* names of keys
    Ref,        \* addresses of lists, maps and sorted sets
    Text,       \* the strings strconv.ParseInt refuses
    Half,       \* integers are -Half .. Half-1 (2^63 in the code)
    Never,      \* stands for HasExpiry = FALSE
    MaxTime,    \* bound: the clock stops there
    Commands,   \* the commands the clients send,
    Args,       \* the strings they send as values, fields and members, and
    Deltas      \* the integers they send as increments, counts and indices

ASSUME KeyAssumption   == IsFiniteSet(Key)
ASSUME RefAssumption   == IsFiniteSet(Ref) /\ Cardinality(Ref) > Cardinality(Key)
ASSUME HalfAssumption  == Half \in Nat \ {0}
ASSUME NeverAssumption == Never \notin Int
ASSUME ClockAssumption == MaxTime \in Nat

VARIABLES
    db,     \* [data |-> the map from keys to Objects, heap |-> the containers]
    now,    \* the clock the store reads
    last    \* the last command, the keys it names and its reply

vars == <<db, now, last>>

-----------------------------------------------------------------------------
(* Values *)

IntVal == -Half .. Half - 1

\* int64 arithmetic wraps around.
Wrap(n) == ((n + Half) % (2 * Half)) - Half

Str == Text \cup IntVal

\* Clients send finitely many strings.
ASSUME ArgumentAssumption == Args \subseteq Str /\ IsFiniteSet(Args) /\ Deltas \subseteq IntVal

\* f is a map from some elements of S to elements of T.
IsMap(f, S, T) == DOMAIN f \subseteq S /\ f \in [DOMAIN f -> T]

Containers == {"list", "hash", "set", "zset"}

\* What a reference of an Object of type t points to.
IsContents(t, c) ==
    CASE t = "list" -> c \in Seq(Str)
      [] t = "hash" -> IsMap(c, Str, Str)
      [] t = "set"  -> c \in SUBSET Str
      [] t = "zset" -> IsMap(c, Str, Int)

IsEmpty(t, c) == IF t = "set" THEN c = {} ELSE DOMAIN c = {}

EmptyOf(t) == IF t = "set" THEN {} ELSE << >>

Expiry == Int \cup {Never}

Absent == [type |-> "none"]
StringObject(v, e) == [type |-> "string", val |-> v, exp |-> e]
ContainerObject(t, r, e) == [type |-> t, val |-> r, exp |-> e]

Object == [type : {"string"}, val : Str, exp : Expiry]
              \cup [type : Containers, val : Ref, exp : Expiry]

-----------------------------------------------------------------------------
(* Operations of DB on s = [data, heap] *)

Stored(s, k) == s.data[k].type # "none"

\* Object.IsExpired at time t: strictly after the expiry.
ExpiredAt(s, k, t) == s.data[k].exp # Never /\ s.data[k].exp < t

LiveAt(s, k, t) == Stored(s, k) /\ ~ExpiredAt(s, k, t)
Live(s, k)      == LiveAt(s, k, now)

TypeAt(s, k) == IF Live(s, k) THEN s.data[k].type ELSE "none"

Delete(s, k)    == [s EXCEPT !.data[k] = Absent]
DeleteAll(s, K) == [s EXCEPT !.data = [k \in Key |-> IF k \in K THEN Absent ELSE @[k]]]
SetObject(s, k, o) == [s EXCEPT !.data[k] = o]

\* DB.Get deletes the key it finds expired.
Lookup(s, k) == IF Stored(s, k) /\ ~Live(s, k) THEN Delete(s, k) ELSE s
LookupAll(s, K) == DeleteAll(s, {k \in K : Stored(s, k) /\ ~Live(s, k)})

\* DB.Get of a handler that has looked up other keys before, with the clock now
\* at t.
LookupAt(s, k, t) == IF Stored(s, k) /\ ~LiveAt(s, k, t) THEN Delete(s, k) ELSE s

\* The keys that lookups of K, one after the other between now and t, may find
\* gone: time may pass the expiry of any of them before its turn.
Missed(K, t) ==
    {M \in SUBSET {k \in K : ~LiveAt(db, k, t)} : \A k \in K : ~Live(db, k) => k \in M}

\* DB.Rename, with the clock at t.
Rename(s, src, dst, t) ==
    IF LiveAt(s, src, t)
    THEN [s EXCEPT !.data = [k \in Key |-> CASE k = dst -> @[src]
                                             [] k = src /\ src # dst -> Absent
                                             [] OTHER -> @[k]]]
    ELSE s

-----------------------------------------------------------------------------
(* Containers *)

Contents(s, k) == s.heap[s.data[k].val]

\* What a handler of type t works on: the container of k, or a new empty one.
ContentsOr(s, k, t) == IF TypeAt(s, k) = t THEN Contents(s, k) ELSE EmptyOf(t)

Free(s, r)  == \A k \in Key : Stored(s, k) => s.data[k].val # r
FreshRef(s) == CHOOSE r \in Ref : Free(s, r)

\* Set(key, a new Object around a new container with contents c).
Create(s, k, t, c) ==
    [data |-> [s.data EXCEPT ![k] = ContainerObject(t, FreshRef(s), Never)],
     heap |-> [s.heap EXCEPT ![FreshRef(s)] = c]]

\* The container of k, whoever shares it, now has contents c.
Mutate(s, k, c) == [s EXCEPT !.heap[s.data[k].val] = c]

\* getOrCreateList / Hash / Set / ZSet followed by the update of the container.
Upsert(s, k, t, c) == IF Live(s, k) THEN Mutate(s, k, c) ELSE Create(Lookup(s, k), k, t, c)

\* The update of a container, and DB.Del when it leaves the container empty.
Shrink(s, k, t, c) == IF IsEmpty(t, c) THEN Delete(Mutate(s, k, c), k) ELSE Mutate(s, k, c)

\* The garbage collector: what no Object points to has no contents.
Collect(s) == [s EXCEPT !.heap = [r \in Ref |-> IF Free(s, r) THEN << >> ELSE @[r]]]

-----------------------------------------------------------------------------
(* Replies *)

OK         == [kind |-> "ok"]
Nil        == [kind |-> "nil"]
Error      == [kind |-> "error"]
Number(n)  == [kind |-> "integer", n |-> n]
Bulk(v)    == [kind |-> "bulk", val |-> v]
Array      == [kind |-> "array"]
Bit(b)     == Number(IF b THEN 1 ELSE 0)

-----------------------------------------------------------------------------
(* One command.  The event loop runs a handler to its end before the next, *)
(* so a command is one step.  A handler that looks at several keys reads    *)
(* the clock for each: the first time it reads `now', the last time t.      *)

ExecUntil(t, cmd, keys, s, reply) ==
    /\ cmd \in Commands
    /\ db' = Collect(s)
    /\ last' = [cmd |-> cmd, keys |-> keys, reply |-> reply]
    /\ now' = t

Exec(cmd, keys, s, reply) == ExecUntil(now, cmd, keys, s, reply)

\* The arguments are refused before the database is touched.
Reject(cmd, keys) == Exec(cmd, keys, db, Error)

\* k holds a value of another type than t.
WrongType(cmd, keys, k, t) ==
    TypeAt(db, k) \notin {"none", t} /\ Exec(cmd, keys, db, Error)

\* k is missing or expired; a handler that creates nothing then replies r.
Missing(cmd, keys, k, r) ==
    TypeAt(db, k) = "none" /\ Exec(cmd, keys, Lookup(db, k), r)

\* k holds a value of type t and the handler leaves it alone.
Untouched(cmd, keys, k, t, r) == TypeAt(db, k) = t /\ Exec(cmd, keys, db, r)

\* A handler that only reads a value of type t.
ReadOnly(cmd, keys, k, t, replies) ==
    \/ WrongType(cmd, keys, k, t)
    \/ \E r \in replies : Missing(cmd, keys, k, r) \/ Untouched(cmd, keys, k, t, r)

\* set.Value = string, with the expiry e.
StoreString(cmd, k, v, e, r) == Exec(cmd, {k}, SetObject(db, k, StringObject(v, e)), r)

-----------------------------------------------------------------------------
KeyspaceInit ==
    /\ db = [data |-> [k \in Key |-> Absent], heap |-> [r \in Ref |-> << >>]]
    /\ now = 0
    /\ last = [cmd |-> "none", keys |-> {}, reply |-> OK]

=============================================================================
