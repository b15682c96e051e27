--------------------------- MODULE MCCommandTable ---------------------------
(***************************************************************************)
(* Instances of CommandTable: what the clients of each run send.           *)
(***************************************************************************)
EXTENDS CommandTable

CONSTANTS a, b      \* two strings that are not numbers

TextAB == {a, b}
TextA  == {a}

StringCommandNames ==
    {"SET", "SET KEEPTTL", "SETEX", "SETNX", "GET", "MGET", "GETSET", "GETDEL", "MSET", "MSETNX",
     "INCRBY", "INCRBYFLOAT", "APPEND", "SETRANGE"}
KeyCommandNames ==
    {"DEL", "EXISTS", "EXPIRE", "TTL", "RENAME", "RENAMENX", "TYPE", "OBJECT",
     "KEYS", "RANDOMKEY", "DBSIZE", "FLUSHDB"}
ListCommandNames ==
    {"LPUSH", "RPUSH", "LPUSHX", "RPUSHX", "LPOP", "RPOP", "LRANGE", "LSET", "LINSERT",
     "LREM", "LTRIM", "RPOPLPUSH", "LMOVE"}
HashCommandNames == {"HSET", "HSETNX", "HGETALL", "HDEL", "HINCRBY", "HINCRBYFLOAT"}
SetCommandNames ==
    {"SADD", "SREM", "SPOP", "SRANDMEMBER", "SMEMBERS", "SUNION", "SUNIONSTORE", "SMOVE"}
ZSetCommandNames == {"ZADD", "ZREM", "ZINCRBY", "ZRANGE", "ZPOPMIN", "ZPOPMAX"}

\* COPY shares lists and sorted sets, so it is left to the workloads without them.
ScalarWorkload ==
    StringCommandNames \cup KeyCommandNames \cup HashCommandNames \cup {"COPY", "PERSIST"}
CollectionWorkload ==
    ListCommandNames \cup SetCommandNames \cup ZSetCommandNames
      \cup {"SETNX", "DEL", "EXPIRE", "RENAME"}
MixedWorkload ==
    {"SETNX", "LPUSH", "LPOP", "RPOPLPUSH", "SADD", "SREM", "SMOVE", "SUNIONSTORE", "HSET",
     "HDEL", "INCRBY", "ZADD", "ZPOPMIN", "COPY", "RENAME", "PERSIST", "EXPIRE"}
MoveWorkload    == {"LPUSH", "SETNX", "RPOPLPUSH"}

OneScore    == {0}
ZFlagSets   == {{}, {"XX"}, {"NX", "CH"}}
NoFlags     == {{}}
OneDelta    == {1}
BothWays    == {-1, 1}
NoInts      == {}
OneSecond   == {1}
AtOnce      == {0}     \* gone as soon as time passes
NowOrLater  == {0, 1}

\* Next never reads `last' and the properties read only its next value, so two
\* states that differ in it alone are one state.
DataOnly == <<db, now>>

=============================================================================
