-------------------------- MODULE KeyspaceContract --------------------------
(***************************************************************************)
(* What clients may rely on: a map from keys to typed values with an       *)
(* expiry, with no pointers, no sharing and no expired entries.  A command *)
(* changes only keys it names, and each class of commands changes them in  *)
(* its own way; time only takes keys away.                                 *)
(***************************************************************************)
EXTENDS Integers

CONSTANTS Key, Never

VARIABLES
    view,   \* what is visible under each key: type, value and expiry
    clock,
    last    \* the last command, the keys it names and its reply

cvars == <<view, clock, last>>

None == [type |-> "none"]

\* An entry as it is seen once its expiry is compared with t.
Visible(v, t) == IF v.type # "none" /\ v.exp # Never /\ v.exp < t THEN None ELSE v

-----------------------------------------------------------------------------
(* The classes of commands. *)

Readers ==
    {"EXISTS", "TTL", "TYPE", "OBJECT", "KEYS", "RANDOMKEY", "DBSIZE", "GET", "MGET",
     "LRANGE", "HGETALL", "SRANDMEMBER", "SMEMBERS", "SUNION", "ZRANGE"}

\* They remove keys.
Removers == {"DEL", "FLUSHDB", "GETDEL"}

\* They set strings, and with them the expiry.
Writers == {"SET", "SET KEEPTTL", "SETEX", "SETNX", "GETSET", "MSET", "MSETNX",
            "INCRBY", "INCRBYFLOAT", "APPEND", "SETRANGE"}

\* The writers that are given an expiry, which may be in the past.
TimedWriters == {"SET", "SET KEEPTTL", "SETEX"}

\* They change a value that is there, and remove it when nothing is left.
Editors == {"LPUSHX", "RPUSHX", "LPOP", "RPOP", "LSET", "LINSERT", "LREM", "LTRIM",
            "HDEL", "SREM", "SPOP", "ZREM", "ZPOPMIN", "ZPOPMAX"}

\* They change a value that is there or make a new one, which does not expire.
Builders == {"LPUSH", "RPUSH", "HSET", "HSETNX", "HINCRBY", "HINCRBYFLOAT", "SADD",
             "ZADD", "ZINCRBY"}

\* They take an element out of one key and put it in another.
Movers == {"RPOPLPUSH", "LMOVE", "SMOVE"}

\* They may fail after their first change.
LateFailers == Movers \cup {"ZADD"}

\* Their reply 0 or nil says that they found nothing to do.
Counting == Removers \cup Editors \cup Movers
              \cup {"SET", "SETNX", "MSETNX", "HSETNX", "SADD", "EXPIRE", "RENAMENX", "COPY"}

-----------------------------------------------------------------------------
(* What each class may do to one entry. *)

\* A list or a sorted set that a failed command left empty goes away when the
\* next command notices.
Unchanged(old, new) ==
    \/ new = old
    \/ old.type \in {"list", "zset"} /\ DOMAIN old.val = {} /\ new = None

Removed(old, new) == new \in {old, None}

Written(old, new) == new = old \/ new.type = "string"

Edited(old, new) ==
    new.type # "none" => new.type = old.type /\ new.exp = old.exp

Built(old, new) ==
    IF old.type = "none"
    THEN new.type = "none" \/ new.exp = Never
    ELSE new.type = old.type /\ new.exp = old.exp

Moved(old, new) == Edited(old, new) \/ Built(old, new)
                     \/ (new.type = old.type /\ new.exp = Never)

Expiring(old, new) ==
    new.type # "none" => new.type = old.type /\ new.val = old.val

\* PERSIST does not look at the clock: a key that has expired and that nothing
\* has read since comes back.
Persisted(old, new) ==
    IF old.type = "none"
    THEN new.type = "none" \/ new.exp = Never
    ELSE new = [old EXCEPT !.exp = Never]

May(cmd, old, new) ==
    /\ cmd \in Readers      => new = old
    /\ cmd \in Removers     => Removed(old, new)
    /\ cmd \in Writers      => Written(old, new) \/ (cmd \in TimedWriters /\ new = None)
    /\ cmd \in Editors      => Edited(old, new)
    /\ cmd \in Builders     => Built(old, new)
    /\ cmd \in Movers       => Moved(old, new)
    /\ cmd = "EXPIRE"       => Expiring(old, new)
    /\ cmd = "PERSIST"      => Persisted(old, new)

-----------------------------------------------------------------------------
(* What the commands that name several keys may do to v, the view before,   *)
(* which becomes w.                                                         *)

\* One key takes over the entry of another, or nothing happens.
Renamed(K, v, w) ==
    w = v \/ \E src, dst \in K : w = [v EXCEPT ![src] = None, ![dst] = v[src]]

Copied(K, v, w) ==
    w = v \/ \E src, dst \in K : w = [v EXCEPT ![dst] = v[src]]

Stored(K, v, w) ==
    w = v \/ \E dst \in K :
              /\ \A k \in Key \ {dst} : w[k] = v[k]
              /\ w[dst].type = "none" \/ (w[dst].type = "set" /\ w[dst].exp = Never)

-----------------------------------------------------------------------------
Failed(reply) == reply.kind = "error"

Idle(reply) == reply.kind = "nil" \/ (reply.kind = "integer" /\ reply.n = 0)

\* The command cmd, which names the keys K and gets this reply, turns v into w.
Allowed(cmd, K, reply, v, w) ==
    /\ \A k \in Key \ K : w[k] = v[k]
    /\ \A k \in K : May(cmd, v[k], w[k])
    /\ Failed(reply) /\ cmd \notin LateFailers => w = v
    /\ Idle(reply) /\ cmd \in Counting => \A k \in K : Unchanged(v[k], w[k])
    /\ cmd = "MSETNX" /\ ~Failed(reply) /\ ~Idle(reply) =>
         \A k \in K : v[k].type = "none" /\ w[k].type = "string"
    /\ cmd \in {"RENAME", "RENAMENX"} => Renamed(K, v, w)
    /\ cmd = "COPY"                   => Copied(K, v, w)
    /\ cmd = "SUNIONSTORE"            => Stored(K, v, w)

\* What is left of v at time t.
Left(v, t) == [k \in Key |-> Visible(v[k], t)]

\* A command may take time.  It does its work on what is left at its end.
Command ==
    /\ clock' >= clock
    /\ Allowed(last'.cmd, last'.keys, last'.reply, Left(view, clock'), view')

TimePasses ==
    /\ clock' > clock
    /\ view' = Left(view, clock')
    /\ UNCHANGED last

Init == clock = 0 /\ view = [k \in Key |-> None]

Spec == Init /\ [][Command \/ TimePasses]_cvars

=============================================================================
