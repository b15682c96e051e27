--------------------------- MODULE StringCommands ---------------------------
(***************************************************************************)
(* The handlers of src/commands/string.go.  A string is an element of Str: *)
(* one that strconv.ParseInt reads is the integer it denotes, the others   *)
(* are the elements of Text.                                               *)
(***************************************************************************)
EXTENDS KeyCommands

\* SET refuses a time that is not positive.
Positive(S) == {n \in S : n > 0}

\* SET with its options: nx, xx, and the expiry e (Never without EX, PX, EXAT
\* or PXAT).  With KEEPTTL, cmd is "SET KEEPTTL"; the code does the same.
Set(cmd, k, v, e, nx, xx) ==
    \/ nx /\ Live(db, k) /\ Exec(cmd, {k}, db, Nil)
    \/ xx /\ Missing(cmd, {k}, k, Nil)
    \/ /\ nx => ~Live(db, k)
       /\ xx => Live(db, k)
       /\ StoreString(cmd, k, v, e, OK)

\* SETEX and PSETEX; an amount that is not positive is refused.
SetEX(k, v, n, unit) ==
    \/ n <= 0 /\ Reject("SETEX", {k})
    \/ n > 0 /\ StoreString("SETEX", k, v, After(n, unit), OK)

SetNX(k, v) ==
    \/ Live(db, k)  /\ Exec("SETNX", {k}, db, Number(0))
    \/ ~Live(db, k) /\ StoreString("SETNX", k, v, Never, Number(1))

\* GET, STRLEN and GETRANGE.
Get(k) ==
    \/ WrongType("GET", {k}, k, "string")
    \/ Missing("GET", {k}, k, Nil)
    \/ TypeAt(db, k) = "string" /\ Exec("GET", {k}, db, Bulk(db.data[k].val))

MGet(K, t) == \E M \in Missed(K, t) : ExecUntil(t, "MGET", K, DeleteAll(db, M), Array)

GetSet(k, v) ==
    \/ WrongType("GETSET", {k}, k, "string")
    \/ TypeAt(db, k) = "none"   /\ StoreString("GETSET", k, v, Never, Nil)
    \/ TypeAt(db, k) = "string" /\ StoreString("GETSET", k, v, Never, Bulk(db.data[k].val))

GetDel(k) ==
    \/ WrongType("GETDEL", {k}, k, "string")
    \/ Missing("GETDEL", {k}, k, Nil)
    \/ TypeAt(db, k) = "string" /\ Exec("GETDEL", {k}, Delete(db, k), Bulk(db.data[k].val))

\* V maps the named keys to their new values.
SetAll(s, V) ==
    [s EXCEPT !.data = [k \in Key |-> IF k \in DOMAIN V THEN StringObject(V[k], Never)
                                                       ELSE @[k]]]

MSet(V) == Exec("MSET", DOMAIN V, SetAll(db, V), OK)

\* Mutant: the keys that are free are set even when another is taken.
MSetNXPartly(V) ==
    LET free == {k \in DOMAIN V : ~Live(db, k)}
    IN Exec("MSETNX", DOMAIN V, SetAll(db, [k \in free |-> V[k]]), Bit(free = DOMAIN V))

\* The first live key found stops the command; the expired ones among those
\* looked at before it have been removed.
MSetNX(V) ==
    \/ /\ \A k \in DOMAIN V : ~Live(db, k)
       /\ Exec("MSETNX", DOMAIN V, SetAll(db, V), Number(1))
    \/ /\ \E k \in DOMAIN V : Live(db, k)
       /\ \E K \in SUBSET {k \in DOMAIN V : ~Live(db, k)} :
             Exec("MSETNX", DOMAIN V, LookupAll(db, K), Number(0))

\* Mutant: the sum is not confined to 64 bits.
IncrByUnbounded(k, delta) ==
    \/ WrongType("INCRBY", {k}, k, "string")
    \/ TypeAt(db, k) = "none" /\ StoreString("INCRBY", k, delta, Never, Number(delta))
    \/ /\ TypeAt(db, k) = "string" /\ db.data[k].val \in IntVal
       /\ LET n == db.data[k].val + delta IN StoreString("INCRBY", k, n, Never, Number(n))

\* INCR, INCRBY, DECR and DECRBY: an unchecked int64 sum, and a new Object.
\* DECRBY negates its argument, which is an int64 too.
IncrBy(k, delta) ==
    \/ WrongType("INCRBY", {k}, k, "string")
    \/ TypeAt(db, k) = "string" /\ db.data[k].val \notin IntVal
         /\ Exec("INCRBY", {k}, db, Error)
    \/ /\ TypeAt(db, k) = "none" \/ (TypeAt(db, k) = "string" /\ db.data[k].val \in IntVal)
       /\ LET n == Wrap((IF Live(db, k) THEN db.data[k].val ELSE 0) + delta)
          IN StoreString("INCRBY", k, n, Never, Number(n))

Increments == Deltas \cup {1, -1} \cup {Wrap(-d) : d \in Deltas}

\* INCRBYFLOAT, APPEND and SETRANGE build a string this model does not spell
\* out.  INCRBYFLOAT may find that the old one is not a number.
Rewrite(cmd, k, v) ==
    \/ WrongType(cmd, {k}, k, "string")
    \/ cmd = "INCRBYFLOAT" /\ TypeAt(db, k) = "string" /\ db.data[k].val \in Text
         /\ Exec(cmd, {k}, db, Error)
    \/ TypeAt(db, k) \in {"none", "string"} /\ StoreString(cmd, k, v, Never, Bulk(v))

Rewriters == {"INCRBYFLOAT", "APPEND", "SETRANGE"}

StringNext ==
    \/ \E k \in Key : Get(k) \/ GetDel(k)
    \/ \E cmd \in {"SET", "SET KEEPTTL"}, k \in Key, v \in Args, nx, xx \in BOOLEAN :
         \/ \E e \in {Never} \cup Positive(Instants) : Set(cmd, k, v, e, nx, xx)
         \/ \E n \in Positive(Amounts), unit \in {1, Second} : Set(cmd, k, v, After(n, unit), nx, xx)
    \/ \E k \in Key, v \in Args :
         \/ \E n \in Amounts, unit \in {1, Second} : SetEX(k, v, n, unit)
         \/ SetNX(k, v)
         \/ GetSet(k, v)
    \/ \E K \in (SUBSET Key) \ {{}} :
         \/ \E t \in now .. MaxTime : MGet(K, t)
         \/ \E V \in [K -> Args] : MSet(V) \/ MSetNX(V)
    \/ \E k \in Key, delta \in Increments : IncrBy(k, delta)
    \/ \E k \in Key, v \in Str, cmd \in Rewriters : Rewrite(cmd, k, v)

=============================================================================
