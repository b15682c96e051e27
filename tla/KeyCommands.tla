---------------------------- MODULE KeyCommands ----------------------------
(***************************************************************************)
(* The handlers of src/commands/key.go: commands that work on any type of  *)
(* value, and FLUSHDB and DBSIZE of server_cmd.go.                         *)
(***************************************************************************)
EXTENDS Keyspace

CONSTANTS
    Second,         \* clock units in a second; one unit is a millisecond
    Amounts,        \* the integers clients give as a time to live
    Instants        \* the Unix times clients give, in clock units

ASSUME TimeAssumption ==
    /\ Second \in Nat \ {0}
    /\ Amounts \subseteq IntVal
    /\ Instants \subseteq Int

\* time.Duration(n) * unit is an int64 product, of nanoseconds in the code
\* and of clock units here; time.Now().Add(d) does not wrap.
After(n, unit) == now + Wrap(n * unit)

\* What EXPIRE, PEXPIRE and EXPIREAT / PEXPIREAT may set.
ExpiryArguments == {After(n, u) : n \in Amounts, u \in {1, Second}} \cup Instants

-----------------------------------------------------------------------------
LiveCount(K)   == Cardinality({k \in K : Live(db, k)})
StoredCount(K) == Cardinality({k \in K : Stored(db, k)})

\* DB.Del does not ask whether the keys it removes have expired.
Del(K) == Exec("DEL", K, DeleteAll(db, K), Number(StoredCount(K)))

Exists(K) == Exec("EXISTS", K, db, Number(LiveCount(K)))

\* The four commands that set an expiry; DB.SetExpiry.
Expire(k, e) ==
    Exec("EXPIRE", {k},
         IF Live(db, k) THEN [db EXCEPT !.data[k].exp = e] ELSE db,
         Bit(Live(db, k)))

\* DB.TTL, in milliseconds for PTTL and in seconds for TTL.
TTL(k, unit) ==
    Exec("TTL", {k}, db,
         Number(CASE ~Live(db, k)              -> -2
                  [] Live(db, k) /\ db.data[k].exp = Never -> -1
                  [] OTHER -> (db.data[k].exp - now) \div unit))

\* DB.RemoveExpiry does not ask whether the key has expired.
Persist(k) ==
    Exec("PERSIST", {k},
         IF Stored(db, k) THEN [db EXCEPT !.data[k].exp = Never] ELSE db,
         Bit(Stored(db, k)))

RenameKey(src, dst) ==
    Exec("RENAME", {src, dst}, Rename(db, src, dst, now),
         IF Live(db, src) THEN OK ELSE Error)

\* DB.Exists for src, for dst and DB.Rename each read the clock, the last two at
\* t (a dst gone when it is asked for is gone at t), and the result of DB.Rename
\* is not looked at.
RenameNX(src, dst, t) ==
    \/ ~Live(db, src) /\ Exec("RENAMENX", {src, dst}, db, Error)
    \/ Live(db, src) /\ Live(db, dst) /\ Exec("RENAMENX", {src, dst}, db, Number(0))
    \/ /\ Live(db, src) /\ ~LiveAt(db, dst, t)
       /\ ExecUntil(t, "RENAMENX", {src, dst}, Rename(db, src, dst, t), Number(1))

\* TYPE and OBJECT look the key up, which removes it when it has expired.
Inspect(k) ==
    \/ Exec("TYPE", {k}, Lookup(db, k), OK)
    \/ Exec("OBJECT", {k}, Lookup(db, k), IF Live(db, k) THEN Array ELSE Error)

\* KEYS, SCAN and RANDOMKEY skip expired keys and remove nothing.
Browse ==
    \/ Exec("KEYS", Key, db, Array)
    \/ \E k \in Key : Live(db, k) /\ Exec("RANDOMKEY", Key, db, Bulk(k))
    \/ LiveCount(Key) = 0 /\ Exec("RANDOMKEY", Key, db, Nil)
    \/ Exec("DBSIZE", Key, db, Number(LiveCount(Key)))

\* Mutant: no container is cloned.
CopyObjectShallow(s, src, dst) == SetObject(s, dst, s.data[src])

\* deepCopyValue clones strings, hashes and sets; a list or a sorted set is
\* handed over as it is, so that dst and src share it.
CopyObject(s, src, dst) ==
    LET o == s.data[src] IN
    IF o.type \in {"hash", "set"}
    THEN [Create(s, dst, o.type, s.heap[o.val]) EXCEPT !.data[dst].exp = o.exp]
    ELSE SetObject(s, dst, o)

\* src is looked up first; dst is asked for at t, unless it is to be replaced.
Copy(src, dst, replace, t) ==
    \/ Missing("COPY", {src, dst}, src, Number(0))
    \/ /\ Live(db, src) /\ Live(db, dst) /\ ~replace
       /\ Exec("COPY", {src, dst}, db, Number(0))
    \/ /\ Live(db, src) /\ (LiveAt(db, dst, t) => replace)
       /\ ExecUntil(t, "COPY", {src, dst}, CopyObject(db, src, dst), Number(1))

FlushDB == Exec("FLUSHDB", Key, DeleteAll(db, Key), OK)

\* Time passes between commands.
Tick == now < MaxTime /\ now' = now + 1 /\ UNCHANGED <<db, last>>

KeyNext ==
    \/ Tick
    \/ FlushDB
    \/ Browse
    \/ \E K \in (SUBSET Key) \ {{}} : Del(K) \/ Exists(K)
    \/ \E k \in Key : Persist(k) \/ Inspect(k)
    \/ \E k \in Key, e \in ExpiryArguments : Expire(k, e)
    \/ \E k \in Key, unit \in {1, Second} : TTL(k, unit)
    \/ \E src, dst \in Key :
         \/ RenameKey(src, dst)
         \/ \E t \in now .. MaxTime, replace \in BOOLEAN :
              RenameNX(src, dst, t) \/ Copy(src, dst, replace, t)

=============================================================================
