# QwikStore in TLA+

QwikStore is a Redis-like server written in Go: one event loop over epoll, a
RESP parser, typed values in memory, an append-only file (AOF). The modules in
this directory model its command handlers on one database, the data structures
under them, its persistence, its event loop and the protocol. TLC checks them on
small instances; TLAPS proves the invariants of the command handlers, of the
event loop, of the append-only file and of the linked list, that the handlers
implement a contract for clients and that the list implements a sequence, for
all values of the constants. Paths below are relative
to `src/`.

## 1. The system

| Component | Source | State | Operations | Model |
|---|---|---|---|---|
| Keyspace | `store/store.go` | `DB.data`: key to `Object` (type, value, expiry); the heap the values live in | Get, Set, Del, Exists, Rename, SetExpiry, RemoveExpiry, TTL, Flush, Size, Keys | `Keyspace` |
| Key commands | `commands/key.go`, part of `server_cmd.go` | none of their own | DEL .. COPY, OBJECT, FLUSHDB, DBSIZE, SCAN | `KeyCommands`; SCAN: `Scan` |
| String commands | `commands/string.go` | | SET .. SETRANGE | `StringCommands` |
| List commands, linked list | `commands/list.go`, `datastructures/list.go` | doubly linked nodes, length | LPUSH .. LMOVE | `ListCommands`, over sequences; the nodes: `LinkedList` |
| Hash commands | `commands/hash.go` | a Go map | HSET .. HSETNX | `HashCommands` |
| Set commands | `commands/set.go` | a Go map | SADD .. SRANDMEMBER | `SetCommands` |
| Sorted sets, skiplist | `commands/zset.go`, `store.ZSet`, `datastructures/skiplist.go` | a map and a skiplist of the same pairs | ZADD .. ZPOPMAX | `ZSetCommands`, over the map; map, skiplist and ranges: `SortedSet` |
| Command table | `commands/registry.go` | | dispatch | `CommandTable` |
| Append-only file | `persistence/aof.go` | `bufio.Writer`, file, mutex, ticker | Write, bgSync, Close, Replay | `Persistence` |
| Event loop | `server/server.go`, `rawconn.go`, `epoll.go` | `clients` by descriptor, the epoll set | accept, read, execute, reply, remove | `EventLoop`; execute and log in `Persistence`; both in `Server` |
| Transactions | `server/client.go`, `server.go` | `inMulti`, `multiQueue` of each client | MULTI, EXEC, DISCARD, queueing | `EventLoop`; what EXEC logs: `Persistence`, `Server` |
| RESP reader and writer | `resp/` | `bufio.Reader` of a connection | ReadValue, WriteValue | `Resp`; where a request is cut: `EventLoop` |
| Start and shutdown | `main.go` | signal goroutine | New (replay), Close, exit | `Persistence` |
| Eviction | `store/eviction.go` | `LastAccess`, `AccessFreq` | Evict | not modelled: nothing calls it |
| Introspection, configuration | `commands/server_cmd.go`, `config/config.go` | | INFO, CONFIG, COMMAND, DEBUG; flags | not modelled: text only; the flags' values are constants |

How they interact. The event loop goroutine takes a batch of descriptors from
`EpollWait`, accepts connections, reads *one* request per ready descriptor,
runs its handler to the end, passes the request to `AOF.Write`, and writes the
reply with a loop that spins until the kernel takes it. So command handlers
never interleave with one another. Two other goroutines exist: `bgSync`, which
flushes and syncs the log every second (it shares the AOF mutex), and the signal
handler, which closes epoll, the listening socket and the log and calls
`os.Exit` while the loop may be anywhere. The kernel sits between: receive and
send buffers, the page cache.

What is hard, and what makes each part correct:

* *Handlers.* Most check, create, mutate and check again; an error found late
  leaves what was done. Containers are pointers, COPY hands some of them out
  twice, a key that became empty is deleted under a handler that still holds its
  list. Time can pass an expiry between any two commands and, since every lookup
  reads the clock, between two lookups within one. Correct: a command changes only the keys it
  names and only in the way of its kind; expired keys are never seen; values
  have the type their `Object` says; no empty hash or set is left behind.
* *Persistence.* A crash may come anywhere in Write, the buffer spills in the
  middle of an entry, a power cut keeps any part of what was not synced, the
  replay reads torn entries, a write may fail. Correct: what the policy promises
  is there after a restart, nothing is repeated or reordered, what is lost is
  what came last.
* *Data structures.* Nodes are linked both ways and walked from either end;
  a skiplist keeps spans on random levels; a sorted set keeps every pair twice.
  One forgotten repair shows only after the right history. Correct: they are
  the sequence and the sorted map the commands take them for.
* *SCAN.* A cursor is an index into a list that every call makes anew from a
  Go map. Correct: a call returns live, matching keys, an iteration ends.
* *Protocol.* Texts may contain the bytes that delimit them, and a crash may
  cut the file at any byte. Correct: the reader takes what was written, value
  for value, and nothing of what was cut.
* *Event loop.* Requests arrive in pieces and several at once, a descriptor is
  used again for another client within one batch, transactions end in several
  ways, a client leaves at any point. Correct: each connection gets the replies
  it is owed, in order, its commands run as it sent them, and every request is
  answered.

`PROJECT.json` lists the 40 hazards found in reading the code, each at its line
with the properties that would catch it.

## 2. The modules

### Keyspace and the six command modules

`Keyspace` is `DB` and its heap. The state is `db = [data, heap]`: `data` maps
each key to an Object, `heap` maps references to contents. A string is stored
in its Object; an Object of another type holds a reference, as the Go code holds
a `*List`, a map or a `*ZSet`, so that aliasing is visible. `now` is the clock
the store reads and `last` records the last command, the keys it named and its
reply, for the properties. Operators of `DB` take and return the pair `s`;
a handler is one composition of them under `Exec`, which also collects the
garbage (a reference nothing holds has its contents reset: the allocator may
give it out again).

Every lookup of the code reads the clock. Where a handler looks up several keys
and the reply or the effect depends on each, the action takes a time `t` in
`now .. MaxTime` and ends there (`ExecUntil`): RENAMENX, COPY, MGET, SMOVE,
RPOPLPUSH and LMOVE, and the set operations, whose keys beyond the first are
looked up in any order (`CollectSets`; `Missed` are those found gone, which may
be any of those that expire on the way). So RPOPLPUSH of a list to itself may
find it expired when it comes to push. Other handlers take one time: their
second reading decides nothing (RENAME, SET NX, EXPIRE, MSETNX), or only
counts or lists keys, in an order or a number no property looks at (EXISTS,
DBSIZE, KEYS, TTL). A key that is named several times is looked up once.

`KeyCommands`, `StringCommands`, `ListCommands`, `HashCommands`, `SetCommands`
and `ZSetCommands` have one action per handler, with a disjunct per return.
Handlers that have the same effect on the store are one action (GET, STRLEN and
GETRANGE; SUNION, SINTER and SDIFF; INCR .. DECRBY). `CommandTable` is their
union and the specification. The linked list and the sorted set appear as what
they compute: a sequence and a function from members to scores. Data that no
property tells apart is abstract: the strings APPEND, SETRANGE and INCRBYFLOAT
build are any string; a string is either the integer `ParseInt` reads in it or
an element of `Text`; integers are `-Half .. Half-1` and wrap as int64 does;
scores are integers here. What the operations of a list compute is in
`ListValues`, which `LinkedList` is held to.

`KeyspaceContract` is the abstract specification: a map from keys to typed
values, with no pointers and no expired entries. It says what each class of
commands may do to the keys it names (readers nothing, removers remove, editors
keep type and expiry, builders make values that do not expire, a failed command
nothing except for the few that fail late), and that time only takes keys away.
`Allowed` is that relation between the view before and the view after, for a
command, its keys, its reply and the time at which it ends: what a command finds
expired on the way it may treat as gone (`Left`). Two clauses are what the code does rather than
what one would ask: a writer that is given an expiry (`TimedWriters`) may leave
nothing, since the expiry may wrap into the past, and PERSIST may bring an
expired key back (`Persisted`). `CommandTable!View` is the refinement mapping:
keys that are live, with their contents in place of their references.

### ListValues, ListContract, LinkedList

`LinkedList` is `datastructures/list.go` on addresses: `node` maps the addresses
in use to value, next and prev. Operations that walk (LINDEX, LSET, LRANGE,
LTRIM, LINSERT, LREM) are a call, steps of a loop and a return, with the code's
local variables (`seek`: which operation, where it is, how far to go) as state;
`nodeAt` starts at the nearer end, `Remove` saves the next node before it
unlinks one. Nothing else runs meanwhile, and the loop must end (`CallsReturn`).
`ListContract` says in one step what each operation does to a sequence, with the
operators of `ListValues`; the refinement mapping `Values` follows `next` from
`head`. So `ListCommands` works on sequences with the same operators the nodes
are shown to implement.

### SortedSet

`store.ZSet`: the map `members` and the skiplist `sl` with levels, spans,
backward pointers, tail, length and level. `Path` is the search on all levels
that every operation begins with; the level of a new node is any. `Add`, `Rem`
and `Pop` change it; queries (`Rank`, `RangeByScore`, `ZRange`, `ZRevRange`,
`ZRangeByLex`, ...) are operators compared with the sorted pairs of the map.
Members are numbers in the order of the strings, 0 the empty string, which the
header also holds. `NaN` may be a score; the comparisons are false for it.

### Scan

The keys, one iteration in progress (`scan`) and a history of what it returned.
`Call` lists the live keys in any order, as ranging over a Go map does, and goes
on from the cursor; `AddKey` and `DeleteKey` are other clients. Filters (MATCH,
TYPE) are sets of keys. Time that makes keys expire is `DeleteKey`: `Scan` skips
expired keys and removes none.

### Resp

`Encode` is the writer and `ReadValues` the reader, over sequences of bytes
(digits, type bytes, CR, LF, others). `Write` and `TypeInline` put values or a
typed command on a stream, `Take` reads one, `Tear` cuts the stream at a byte
and starts a new reader, as a restart does with the log. `Encode` is the only
RECURSIVE operator of the project; no theorem's module reaches it.

### Persistence

A database is abstracted to the effects on it since it was last flushed, a log
entry to two chunks, so that a write can stop inside one. `pc` walks the event
loop through execute, append, flush, sync, reply; the mutex of `AOF.Write` is
`Unlocked`. `BgSync`, `Signal`, `CloseAOF`, `Exit` are the other goroutines;
`FlushAside` is as far as `bgSync` and `Close` get if the sync that follows the
flush fails, or the process dies in front of it;
`WriteBack`, `Kill`, `PowerCut` the machine; `AppendFails`, `FlushFails` and
`FlushFailsAside` a full disk, after which `bufio.Writer` keeps its error and
drops everything. `Restart` is `New`: `Readings` gives what `Replay` may read
from a file with torn entries, `Replayed` executes that on database 0. Which
commands are logged, and what their replay makes of them, is a parameter
(`Kinds`). `Begin(n)` starts a command (`n` = 1) or a transaction of `n`,
`Continue` and `ExecuteNext` go on to its next command after the log entry of
the one before, and `Reply` acknowledges them together. An entry that was torn
and then appended to may swallow what follows: `Readings` has it lost, the end
of the replay, or a command with arguments nobody sent (`-id`). Kinds are
`write` (deterministic), `pop` (SPOP: the outcome is random), `ttl` (EXPIRE,
SETEX: the outcome depends on the time), `flushdb`, `flushall`.

### EventLoop and Server

Clients run a `Program` of requests. A request is three chunks: two cuts that
matter to the reader, one inside a line (the reader gives up after a hundred
empty reads) and one inside a payload (`io.ReadFull` reads on). The kernel's
buffers, the descriptor table, `Server.clients`, the batch and the loop's
position are the state. `Fill` is `rawConn.Read` under `bufio.Reader`, `Fail`
the three ways a read ends in an error and the connection without a reply (the
stream is over, a line pauses too long, a request does not parse: `GARBLED`), `Multi` .. `Execute` the branches of
`handleClient`, `Write` and `WriteToNobody` the reply to a client that is there
or is not, `Malformed` a request that is no command (`BAD`: an empty array, an
integer). What a command does to the store is not in it; `log` records that it
ran.

`Server` composes `EventLoop` (as `L`) and `Persistence` (as `P`, with its `pc`
called `logging`): they share one goroutine. Steps that run a command are steps
of both (`Run`, `RunNext`), the reply leaves only when the log has been written
(`Answer`), a crash ends every connection, loses what was in the sockets and
leaves replies under way to arrive or not.

### MC modules

`MCCommandTable`, `MCPersistence`, `MCEventLoop`, `MCServer`, `MCScan` give the
constants their values. `MCStructures` runs `LinkedList`, `SortedSet`, `Scan`
and `Resp` in one model: the variable `subject`, which no step changes, says
which of them a behaviour is about, and the others stand still; the states
add up instead of multiplying.

### Proof modules

`CommandTableProof`, `EventLoopProof`, `PersistenceProof`, `LinkedListProof`,
`SortedSetProof` and `ServerProof` extend the module they prove about;
`ContractProof` extends `CommandTableProof` with the refinement of
`KeyspaceContract`, `RestartProof` extends `PersistenceProof` with the theorems
about a restart. `ServerProof` instantiates `EventLoopProof` and
`PersistenceProof` and uses their lemmas for its parts (section 4).

## 3. The runs

All properties of a run are checked together. Model sizes are distinct states.

| Run | What it asks | States |
|---|---|---|
| `scalars` | Do the string, hash and key commands with COPY and PERSIST implement the contract, whenever time passes? | 13 687 |
| `collections` | Do lists, sets and sorted sets, with RENAME, EXPIRE and strings as wrong types? Do moves that succeed conserve elements, even if a key expires between their lookups? | 6 906 |
| `mixed` | All types together, with COPY, RENAME, PERSIST, expiry: is the heap well typed (`TypeOK`), is no hash or set empty (`MapsAreNeverEmpty`: SRANDMEMBER would panic in `rand.Intn(0)`), is sharing confined to lists and sorted sets of one type (`SharingIsTyped`: a type assertion would panic), and does a command reach other keys only through it (`OnlyAliasesFollow`)? | 27 208 |
| `persist` | What survives kills, power cuts, shutdowns and write errors under each of the three policies, transactions included? | 4 289 835 |
| `connections` | Three connections over one descriptor: are replies and executions those each is owed? | 1 486 473 |
| `server` | Loop and log together: does what a client has read as done survive and reach the disk, and is every request answered, if clients wait for their replies? | 92 228 |
| `structures` | Are the linked list, the skiplist with its map, SCAN and the protocol what the commands take them for? | 118 643 |
| `pipeline_stall` | Is every request answered when a client sends ahead? **no** | violation |
| `scan_misses` | Does an iteration with SCAN return every key? **no**, not even if nothing changes | violation |
| `move_loses` | Does RPOPLPUSH never lose an element? **no**, when it fails on the type of dst | violation |
| `flushall_undone` | Does a clean restart restore the state? **no**, after FLUSHALL | violation |
| `torn_tail` | Does an acknowledged write under `always` survive whatever happens? **no**, after a torn entry was appended to | violation |

What holds, in words.

* `ImplementsContract`: whatever the order of commands and the passing of time,
  a command has only the visible effects of its class, and none on other keys,
  as long as COPY shares nothing.
* `OnlyAliasesFollow`: and if it does, other keys that hold the same list or
  sorted set follow in their value, and nothing else of them or of any key.
* `MovesConserve`: a move that succeeds neither loses nor duplicates an element.
  If its list expires between the two lookups, which read the clock each, the
  element that was taken is saved, in a new list, and the others go. A reply of
  success is all the client sees of it.
* `AckedWritesSurvive`: under `always` an acknowledged write is never missing,
  during a run or after a restart, unless its own log write hit a closed or
  failed file, or an earlier crash left a torn entry in the middle of the file.
  The exceptions are the code's: the AOF error is dropped (`server.go:268`), and
  Replay stops at a torn entry that is then appended to.
* `SyncedWritesSurvive`: under `everysec` a crash costs only writes since the
  last sync. `RestartFindsPrefix`: under every policy what is lost is a suffix.
  `EffectsOnceInOrder`: nothing is replayed twice or out of order.
  `ShutdownKeepsState`: once `AOF.Close` has written out the buffer between two
  commands, and if none follows, nothing is lost that the log can express,
  whether the process then ends in `os.Exit`, because `main` returns, by a kill
  or by a power cut. It does not say that a signal with no command running loses
  nothing: epoll is closed first, the loop may find it closed, and `main` return
  (`server.go:117`, `main.go:36`), before `Close` comes to the log. Then what was
  in the buffer is lost, though acknowledged and though no command ran; that it
  is a suffix is `RestartFindsPrefix`. Nor does it speak of a file that failed.
* `HeardWritesSurvive`: the promise of `always` seen by the clients: what was
  answered, and read, is there after a crash, be it one command or one EXEC for
  several. `HeardWritesReachDisk` and `RequestsAnswered` are its liveness.
* `Linked`, `ImplementsList`, `CallsReturn`: the nodes are a list in both
  directions whatever is done to them, every call has the effect and the result
  of the sequence operation, and every loop ends.
* `SkiplistShape`, `PairsAgree`, `QueriesAgree`, `PopsTakeTheEnd`: levels, spans
  and backward pointers are right after every history of insertions (with every
  random level) and deletions, the map agrees, and ranks and ranges are those of
  the sorted pairs, with negative and excessive indices.
* `CallsReturnKeys`, `QuietScansEnd`: a call of SCAN returns as many live,
  matching keys as it can, none twice; an iteration ends if no key comes or goes.
* `TakenAsWritten`, `StopsAtTheCut`: the reader takes what was written, in
  order, and after a cut everything that was whole and nothing else.
* `RepliesInOrder`, `ExecutedAsSent`: the `i`-th reply on a connection answers
  its `i`-th request with the kind of reply its program of MULTI, EXEC and
  DISCARD calls for, and the commands executed for it are exactly those of a
  prefix of its program. The reference (`Owed`, `Effects`) looks at the
  program alone, never at the server.

### Bounds

* Two keys, three references. Every handler names at most two keys that play
  different parts (source and destination), except MSETNX, DEL, SUNIONSTORE,
  which quantify over sets of keys. `Ref` is one more than `Key`, so that a new
  container can always be made while both keys hold one.
* `Half` 2: integers that wrap in one or two steps. `MaxTime` 1: before and
  after an expiry. `collections` and `mixed` set times to live of 0, which pass
  when time does; `scalars` sets times to live of 0 and 1, in milliseconds and
  in seconds of 3 units, whose product with 1 wraps to -1, so that SET and SETEX
  may store a key that has expired already. `MaxLen` 2: a list with two ends
  that differ. `mixed` makes do with 1, since it looks at types and emptiness.
* The command sets of the runs name which handlers take part: taking all at
  once multiplies the states and adds no interaction beyond the types, which
  `mixed` covers.
* `VIEW DataOnly` identifies states that differ only in `last`: no action reads
  it, and properties read it only primed, or ask only for its type.
* COPY is left out of `collections`, because it breaks the contract: it shares
  lists and sorted sets. It is in `mixed`, and in `scalars`, which makes neither.
* `persist`: three commands, two databases, two crashes, a buffer of three
  chunks (one entry and a half, so it spills inside an entry). Two crashes are
  what it takes to append after a torn tail and to look at the result. A
  transaction is two commands long.
* `connections`: one descriptor for three connections forces its reuse. Programs
  of five requests hold a transaction, one discarded, a nested MULTI, an EXEC
  without MULTI, a request that is no command, a QUIT, and a request that does not
  parse between a MULTI and its EXEC.
* `server`: a client with a transaction of two commands and one with a single
  command, whose requests come in pieces and who may leave. Both policies with
  a promise, kills and power cuts, one crash: the promise is looked at after
  it. Shutdowns and full disks are left to `persist`, where the log is all
  there is.
* `structures`: four list nodes and two values, so that a middle has two nodes
  and LREM passes over some; indices -3, 0 and 2 fall inside and beyond both
  ends of lists of every length, and as counts of LREM take from either end, or
  all. Three members, two scores, three levels: ties, and levels above and below
  the list's. Three keys, of which one may come or go in an iteration. Two
  messages, among texts that contain CR LF and LF `*`.

### Fairness

* `EventLoop!FairSpec`: weak fairness of the loop as one process (it is one
  goroutine that never blocks except in `EpollWait`), of a client completing a
  request it began and of reading replies. The last two are about the clients:
  without them the server's spin loops (`rawConn.Write`, `io.ReadFull`) do hang
  it, which is a hazard listed and not a claim of the code. No client must
  connect, send a first byte or leave.
* `Server!FairSpec`: the same, with the loop's steps in the log part of it, and
  weak fairness of `BgSync` (the ticker fires each second; the mutex it waits for
  is held only during one `AOF.Write`, and Go mutexes do not starve) and of
  `WriteBack` (the kernel writes dirty pages back in the end). Nothing is assumed
  of faults. `HeardWritesReachDisk` leaves out policy `no`, for which no
  goroutine flushes the buffer, though the comment at `aof.go:60` speaks of the
  OS deciding.
* `MCStructures!MCSpec`: weak fairness of the steps of a list operation that has
  begun (straight-line code in one goroutine), and of a client's next SCAN call:
  `QuietScansEnd` is about clients that go on.
* `CHECK_DEADLOCK FALSE` is set for the event loop and the server, where all
  clients may be done, for the structures, where a stream that was cut and read
  is the end, and for the command runs, whose clients send what their workload lists
  and need not find anything to send. `Persistence` never stops: the
  loop may always wake or end its batch.

## 4. The theorems

The assumptions are the `ASSUME`s of the modules, and nothing else: for the
commands, `Key` and `Ref` finite with more references than keys (the Go
allocator never runs out; a bound would have to be in the guards otherwise),
`Half` positive, `MaxTime` a natural number, finitely many arguments; for the log, a buffer of at least two
chunks, so that one entry fits, and 0 among the databases; for the event loop,
descriptors that are numbers, programs that are sequences of requests, and
`None` unlike any connection or client; for the list, finitely many addresses,
none of them `Null`, indices that are integers, and a mark for a call under way
(`Pending`) that is no reply; for the sorted set, members that are numbers,
scores that are integers or `NaN`, and addresses unlike the header's and nil;
for the server, what its two parts assume, and
that its commands are writes and shutdown by signal is left out. TLC evaluates
them in every run that has the module. The number of keys, databases,
connections, descriptors, commands, crashes, chunks, nodes, elements, members,
scores and levels is any.

### The commands (`CommandTableProof`)

| Theorem | Statement |
|---|---|
| `Inductive` | `Spec => []IInv` |
| `TypeCorrect` | `Spec => []TypeOK` |
| `NoEmptyMaps` | `Spec => []MapsAreNeverEmpty` |
| `TypedSharing` | `Spec => []SharingIsTyped` |

No property is inductive alone. Writing into a container through one key is
type-safe for the others only if whoever shares it has the same type; that a
hash or set is not shared is what keeps the emptying and deleting of one key
(`Shrink`) from leaving an empty map under another name; and a new container
keeps sharing typed only if its reference is free, which is where
`Cardinality(Ref) > Cardinality(Key)` is used (`FreshRefExists`). So
`IInv` is `Good(db)`, the conjunction of `WellFormed`, `ContainersTyped`,
`NoEmptyMap`, `SharedListsOnly`, with the ranges of `now` and `last`.

The argument goes by operation: one lemma per operator of `Keyspace`
says that it keeps `Good` (`DeleteAllGood`, `RenameGood`, `CreateGood`,
`MutateGood`, `ShrinkGood`, `UpsertGood`, `CopyObjectGood`, `CollectGood`, ...;
those that only rearrange keys follow from `Rearranged`), `ExecInv` turns that
into a step, and one lemma per family (`KeyNextInv` .. `ZNextInv`) has a case for
every handler. `IInv` contains the invariants TLC checks in `mixed`, conjunct
for conjunct.

### The contract (`ContractProof`)

| Theorem | Statement |
|---|---|
| `PrivateImplementsContract` | `Spec /\ []Private(db) => ImplementsContract` |
| `NothingShared` | `Unshared => (Spec => []Private(db))` |
| `ContractImplemented` | `Unshared => (Spec => ImplementsContract)` |
| `MovesAreConservative` | `Unshared => (Spec => MovesConserve)` |

`Private(db)` says that every container belongs to one key. It is the condition
under which keys are independent at all: after COPY of a list a push under one
name is seen under the other (the comment at `key.go:257` says so), and the
contract cannot hold. The first theorem asks it of the behaviour and of nothing
else, whatever the commands are. `Unshared` is a condition on the commands that
gives it: COPY does not run, or none of LPUSH, RPUSH, ZADD and ZINCRBY, the
commands that make lists and sorted sets, does (hashes and sets are copied).
The runs `scalars` and `collections` are its two cases. `Private` is not
inductive with COPY; `Apart` adds that there is no list and no sorted set to
share then.

`IInv` makes each step one of the contract. `ViewOf(s)` is what a client would see
of the pair `s` a handler leaves, and the entry lemmas (`DeleteAllEntry`,
`LookupView`, `RenameView`, `CreateEntry`, `UpsertEntry`, `ShrinkEntry`,
`MutateEntry`, ...) say what each operator of `Keyspace` does to it: one entry
changes, because no other key holds the reference. An expired key that a lookup
removes and a container the collector resets are not seen (`LookupAllView`,
`CollectView`). `Fulfils` is what a handler owes for the state it leaves and the
reply it gives, `Honoured` what the step is then (`ExecHonoured`). Each disjunct
of each handler has its case, with what the reply promises: 0 or nil where
nothing was found, which for LREM and SREM needs that what is removed is
counted (`LeavesOutNothing`). RENAME and COPY have the view with one entry
replaced (`RenameView`, `CopyObjectView`).

RPOPLPUSH, LMOVE and SMOVE take two steps, and the second looks the destination
up again, at a later time: it may be the source, and the source may be gone or
have expired (`TakeEntry`, `GiveEntry`). The entry lemmas are about the time at
which the handler ends; a lookup at an earlier one removes only what has expired
by then as well. The number of elements in all lists is the cardinality of the set
of pairs of a key and a position; `OneMore` says that a list that grows at its
end adds one to it, and `MoveConserves` uses it twice, from the state between
the two steps.

### The event loop (`EventLoopProof`)

| Theorem | Statement |
|---|---|
| `Invariance` | `Spec => []Inductive` |
| `DescriptorsAgree` | `Spec => []TypeOK` |
| `EveryReplyInOrder` | `Spec => []RepliesInOrder` |
| `ExactlyAsSent` | `Spec => []ExecutedAsSent` |

What makes them inductive is `Sessions`: for each connection that has a
descriptor there is a number `n` of requests done with, which explains
everything the server holds for it. The bytes sent are those of `n` requests,
then what was parsed of the next, then the `bufio.Reader`, then the kernel's
buffer (`Stream`); `n` replies were written, fewer only if the client has closed
(`Answered`); the open transaction and its queue are those of the program's
first `n` requests (`Transaction`); the commands in the log are `Effects(p, n)`.
The request whose reply is being written counts as the next already (`Seen`).
`Descriptors` says that a descriptor has one connection, which is why its reuse
cannot mix two sessions; `Waiting` that nothing of a connection is read or
executed before it is accepted. When a connection ends, `n` is forgotten and
`Ordered` and `Faithful` stay. All but `Faithful` is called `Sound`: no part of
it needs `Faithful`, and a crash of the server, which cuts a transaction short,
keeps it. One lemma per action says that it keeps all of it; lemmas `OpenNext`,
`BodyNext`, `EffectsNext` say what one more request does to what a connection is
owed.

### The log (`PersistenceProof`, `RestartProof`)

| Theorem | Statement |
|---|---|
| `Invariance` | `Spec => []Inductive` |
| `StateOfTheLog` | `Spec => []TypeOK` |
| `NeitherRepeatedNorReordered` | `Spec => []EffectsOnceInOrder` |
| `AcknowledgedIsKept` | `Spec => []AckedWritesSurvive` |
| `SyncedIsKept` | `Spec => []SyncedWritesSurvive` |
| `ResumableAlways` | `Spec => []Resumable` |
| `CrashCostsTheLatest` | `Spec => RestartFindsPrefix` |
| `ShutdownIsInvisible` | `Spec => ShutdownKeepsState` |

These are all the properties of the run `persist`. The invariant has these parts:

* `LogInOrder`: the chunks of `Log`, the file and then the buffer, are in order
  of execution, and the second half of an entry follows its first. Every write,
  spill, partial write and power cut keeps a front of it. `MemoryInOrder` says
  the same of the databases.
* `AlwaysOnDisk`: under `always` an entry is synced (`Durable`) when its reply
  is due. `SafeOnDisk`: what was there when `bgSync` synced is, or a torn entry is
  on the disk in front of something (`TornForGood`), which no crash can mend.
* `Traced`: what a database holds has its entry in the log, unless an entry
  inside it is torn. Without it, `bgSync` could count as safe what no file has.
* `AnsweredRemembered`, `SafeRemembered`: the promises themselves. A restart is
  the step that could break them.
* In `RestartProof`, the converse of `Traced`: what the log holds is in the
  databases. `FrontHeld` says it of the entries before the first torn one, under
  any policy; `RunAgrees` and `CleanAgrees` of a log without torn entries, with
  its FLUSHDBs. `Held` is the memory, or what it was when the process died.

What a restart does is the heart of it. `Replay` is the recursive function
`ReadFrom`; `WhatIsRead` says of every reading of a file in order that its
entries are in order, that each is a whole entry or comes from a torn one, and
that no whole entry before the first torn one is missing. This is induction over
the file. The library's induction theorems take an operator as a parameter and
cannot be used, but `WFMin`, the least element of a well-founded order, speaks
of sets: from it come `Least`, `Downward` and `Upward`, induction over `1 .. N`
for a membership in a set, and with the set of positions where the claim holds
they do what the induction theorems would. `RestartFinds` then says what
`Replayed` makes of it, and `PrefixFound` and `ShutdownInvisible` are the two
action properties at the only step they are about.

### The server (`ServerProof`)

| Theorem | Statement |
|---|---|
| `Invariance` | `Spec => []Inductive` |
| `LogRefined` | `Spec => PP!Spec` |
| `HeardIsKept` | `Spec => []HeardWritesSurvive` |

The invariants of the parts, `LP!Sound` and `PP!Inductive`, are used as they are.
`LogStep`: a step of the server is a step of the log or leaves it alone, so
`Persistence` is refined (`PP` is `Persistence` with `MaxOps` for `MaxQueue`,
since a transaction may be as long as a client's program). `LoopStep` says
likewise of the loop, except in a crash, of which `EventLoop` knows nothing;
`CrashSound` shows that one ends every session and leaves a state that
`LP!Sound` describes.

What is added is how the two agree. `InStep`: the loop's list of commands runs
ahead of the log's by what is left of the transaction, and by nothing between
requests. `Honest`: a command that the log has not acknowledged has not been
answered (`Untold`), and either its reply is the one at hand (`Due`) or its
connection has ended. The second half is what makes it inductive: a later
reply could otherwise answer it. That the request at hand was never answered
before (`NotToldYet`) comes from the order of replies, `LP!Ordered`. So what
was heard was acknowledged, and `PP!AnsweredRemembered` says the rest.

### The list (`LinkedListProof`)

| Theorem | Statement |
|---|---|
| `InductiveAlways` | `Spec => []Inductive` |
| `PointersAgree` | `Spec => []Linked` |
| `ListIsASequence` | `Spec => ImplementsList` |

`Linked` speaks of positions in `chain`, the history of addresses, so that no
walk along `next` has to be defined and no induction is needed. Alone it is not
inductive: `removeNode` and the insertions trust the cursor that a loop has
brought along. `Seeking`, `Collecting`, `Inserting`, `Removing` say for each
kind of loop where its cursor is and what it has done so far: `nodeAt` is at
the node of its index, from whichever end it came; `Range` has collected the
part it passed; the pivot is not among those passed; `Remove` has taken out
exactly the occurrences it passed, so that the cursor's place in the list that
is left is its place in the list as it was, less the number removed
(`RemovedBefore`, and `RemovedBehind` for negative counts).

What the pointer assignments do is said once for each (`LinkDoes`,
`UnlinkDoes`, `SetDoes`, `TrimDoes`, `EmptyDoes`): the nodes are linked
afterwards and the values are those of the sequence operation. One lemma per
action (`LPushDoes` .. `RemoveEndsKeeps`) applies them. For `Remove` the lemmas
`KeptUpTo`, `RankGrows`, `RankWithout` and `LeavesOutOneMore` relate a position
to the number of positions kept before it.

The refinement is step by step: `Matched` says that a step is one of
`ListContract` or leaves what callers see alone. An operation takes effect
where it returns. While `Remove` is under way callers see the list as it was
(the mapping `Seen`), and `FirstOnes` and `LastOnes` show that what it has
taken out when it ends, because the list or the count did, are the first or
last occurrences the contract removes.

### The sorted set (`SortedSetProof`)

| Theorem | Statement |
|---|---|
| `ShapeKept` | `NaN \notin Score => (SpecZSet => []SkiplistShape)` |
| `SamePairs` | `NaN \notin Score => (SpecZSet => []PairsAgree)` |
| `PopsTake` | `NaN \notin Score => (SpecZSet => PopsTakeTheEnd)` |

The hypothesis is what the code needs and does not ensure (section 5): `<` and
`==` of NaN are false, so its pair has no place in the order, and Delete, which
compares scores, does not find it. Infinities and zeros of both signs are in
order like other scores, and integers stand for all of them.

`IInv` says that there is a sequence `c` of nodes that the skiplist is
(`Shape`), and that its pairs are those of the map (`Agree`). With a sequence to
speak of, a node has a position, its rank, and the parts of `Shape` need no walk
along pointers: `Linked` has every link lead to the next node of its level with
the distance as its span (`Hop`), `Levelled` the heights, `Backward` the other
direction, `Ordered` the order of any two. `ChainIs` shows in the end that the
walk from the header finds `c`, so that `IInv` implies the three properties, whose
`Chain` is that walk.

Three things carry the proof.

* The search (`AlongStops`, `PathStops`). It is defined by recursion, along a
  level in `Along`, down the levels in `Path`. If the nodes it goes past are the
  first `k`, it stops on each level at the last of them that has the level
  (`StopAt`), at its position as the rank. As for Replay, induction is over
  membership in a set (`Downward`), here over positions from the end and over
  levels from the top: a function that solves the equations is exhibited, so
  the one that `CHOOSE` picks solves them too, and every solution has these
  values. That the nodes before a pair are the first `k` is `LeadingExists`.
* Insert (`Inserted`, `InsertedLinked`, `InsertShape`). `Moved` says where the
  node at a position is afterwards. On a level of the new node, the link it is
  found behind is split in two, and spans add up because ranks are positions;
  above, one span grows; levels that are new begin at the header.
* deleteNode (`UnlinkedLinks`, `UnlinkedHops`, `HeightLeft`, `UnlinkedShape`),
  with `Closed` for `Moved`. That Delete is right to look only at the node after
  the place it stops is `LeadingHere`, and that no member is in the list twice,
  which Insert does not ask, is `OncePerMember`, from the map.

`Add` deletes the member's old pair before it inserts the new one, and both
lemmas are used (`InvAdd`).

### Only model-checked

* Liveness (`RequestsAnswered`, `HeardWritesReachDisk`, `CallsReturn`,
  `QuietScansEnd`): out of the prover's reach, as `ENABLED` and fairness are.
* That a reply carries the right values, beyond what the contract asks of it:
  the handlers' results are in no theorem but the list's.
* `QueriesAgree`: ranks and ranges of the sorted set, whose reference is made by
  sorting and selecting. `ShapeKept` says that the structure they read is right.
* `Scan` and `Resp`. `Resp!Encode` is `RECURSIVE`.

## 5. Divergences met

Five have a run, listed under `findings`. Others were met in modelling; the
models do what the code does:

* PERSIST on a key that has expired but is still stored removes its expiry
  (`store.go:205`) and the key is back; the contract's `Persisted` allows it.
* DEL counts expired keys that are still stored (`store.go:173`).
* COPY of a list or sorted set copies the pointer: the two keys change together.
  The comment at `key.go:257` says so ("shallow"). `OnlyAliasesFollow` says that
  nothing else follows.
* RPOPLPUSH and LMOVE of a list to itself, when its time to live ends between
  their two lookups: the reply is a success, and a list of the one element, which
  does not expire, replaces the list (`list.go:348`, `:362`).
* SCAN's listing has another order at each call, so keys are missed or come
  twice (`scan_misses`). The cursor is taken modulo the number of keys at the
  call and 0 ends the iteration: after a key has come or gone the cursors may go
  round without meeting 0. With COUNT 2 and three keys they are 0, 2, 1; a
  fourth key, and they are 3, 1, 3, 1. A negative cursor makes a negative index,
  which panics.
* NaN scores (`nan`, or `inf` and `-inf` added): the skiplist cannot find the
  pair again and keeps it when the map no longer does. The rank of the empty
  member depends on the random levels, since the header holds that member too.
  LIMIT with count 0 means no limit.
* Later bytes may complete a torn log entry; the replay then runs a command with
  arguments nobody sent.
* An error text is written as it is, with an end of line if it has one
  (`server.go:252` repeats the command's name). A null array is written as a
  null bulk string.
* RANDOMKEY answers nil for the key that is the empty string.
* SET with KEEPTTL drops the time to live (`string.go:75`).
* EXPIRE, SETEX, SET EX multiply into `time.Duration` without a check;
  INCRBY and HINCRBY wrap.
* SELECT is not logged and Replay runs on database 0 (`server.go:231`, `:65`);
  SPOP is logged as the command; times to live start anew at a replay.
* The error of `AOF.Write` is dropped (`server.go:268`).
* With appendfsync `no` the `bufio.Writer` is flushed only when full or closed.
* The signal handler ("Graceful shutdown on signal", `main.go:26`) does not stop
  the loop: commands that run between `AOF.Close` and exit are acknowledged and
  lost. And the loop, which finds epoll closed, lets `main` return, perhaps
  before `AOF.Close` has written the buffer out: acknowledged writes are lost
  with no command running. The model has both (`Exit`, `EndBatch`).
* A line that pauses for a hundred empty reads ends the connection
  (`io.ErrNoProgress`); a payload that pauses keeps the loop reading it, and
  nobody else is served; so does a client that does not read its replies.
* `MaxClients` is never compared with anything, `--databases` is no flag,
  `Evict` is never called although README.md:219 describes what it evicts, and
  accept without free descriptors spins.

## 6. Not modelled, and the plan

Modelled: `Keyspace` and all six families, `CommandTable`,
`KeyspaceContract`, `LinkedList`, `SortedSet`, `Scan`, `Resp`, `Persistence`,
`EventLoop`, `Server`; proved about: `CommandTable` with `KeyspaceContract`,
`EventLoop`, `Persistence`, `Server`, `LinkedList` with `ListContract`, and
`SortedSet`.

Next, proofs:

1. `SortedSet`: `QueriesAgree`, from `PathStops` and `ChainIs`.
2. `Resp`: `TakenAsWritten`, `StopsAtTheCut`, once `Encode` is a recursive
   function.

Not modelled, and why:

* Eviction (`store/eviction.go`) with `LastAccess` and `AccessFreq`: nothing in
  the program calls `Evict`, and nothing else reads the two fields, so it has no
  behaviour to check.
* Introspection (INFO, CONFIG, COMMAND, DEBUG, SAVE ...): text and
  constants; it changes no state that anything reads.
* Configuration (`config/config.go`): parsing of flags, done before anything
  starts; the values that matter are constants (`Policies`, `DBs`).
* Arguments too large for the memory: LPOP and RPOP allocate for their count
  (`list.go:119`, `:167`), SETRANGE pads to its offset (`string.go:403`), and a
  huge one panics, which ends the server. The models have no memory limit.
* Text: glob patterns, formatting of floats, wording. Where a property needs it,
  it is a set (`Filters`) or a choice.
* The platform's socket calls beyond what `EventLoop` says of them.
