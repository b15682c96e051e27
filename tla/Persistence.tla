----------------------------- MODULE Persistence -----------------------------
(***************************************************************************)
(* The append-only file: what src/server/server.go logs of the commands it *)
(* executes, how src/persistence/aof.go carries the log from its buffer to *)
(* the file and the disk, what a crash or a shutdown leaves of it, and     *)
(* what the next start makes of that.                                      *)
(*                                                                         *)
(* A database is abstracted to the sequence of the effects on it since it  *)
(* was last flushed.  A log entry is two chunks of bytes, so that a write  *)
(* can stop in the middle of one.                                          *)
(***************************************************************************)
EXTENDS Integers, FiniteSets, SequencesExt

CONSTANTS
    Policies,       \* fsync policies: "always", "everysec", "no"
    DBs,            \* databases; 0 is the one a start replays into
    Kinds,          \* the kinds of command the clients send
    BufferSize,     \* chunks the bufio.Writer holds
    MaxOps,         \* bound: commands executed
    MaxQueue,       \* bound: commands a transaction runs
    MaxCrashes,     \* bound: times the process dies
    Faults          \* what may happen: "kill", "powercut", "signal", "diskfull"

ASSUME PolicyAssumption == Policies \subseteq {"always", "everysec", "no"}
ASSUME DBAssumption     == 0 \in DBs
ASSUME KindAssumption   == Kinds \subseteq {"write", "pop", "ttl", "flushdb", "flushall"}
ASSUME BufferAssumption == BufferSize \in Nat /\ BufferSize >= 2
ASSUME BoundAssumption  == MaxOps \in Nat /\ MaxQueue \in Nat /\ MaxCrashes \in Nat
ASSUME FaultAssumption  == Faults \subseteq {"kill", "powercut", "signal", "diskfull"}

VARIABLES
    policy,     \* the fsync policy, the same at every start
    \* the process
    memory,     \* the databases
    pc,         \* where the event loop is with the current command, or "down"
    rest,       \* commands of the current EXEC still to run
    first,      \* the first command the next reply answers, or 0
    epollOpen,  \* false once the signal handler has closed the epoll descriptor
    buf,        \* chunks in the bufio.Writer
    aofOpen,    \* the file accepts writes: neither closed nor failed
    stopping,   \* the signal handler has started
    \* the machine
    file,       \* chunks in the file, as the kernel sees it
    synced,     \* how many of them are on the disk
    \* history
    ops,        \* every command executed, in order: its kind and database
    acked,      \* the commands whose reply was sent
    unlogged,   \* the commands whose entry was lost to a closed or failed file
    safe,       \* the commands acknowledged and present when bgSync last synced
    before,     \* the databases when the process last died
    clean,      \* AOF.Close wrote out the log between two commands, none has run since
    crashes

process == <<memory, pc, rest, first, epollOpen, buf, aofOpen, stopping>>
disk    == <<file, synced>>
history == <<ops, acked, unlogged, safe, before, clean, crashes>>
vars    == <<policy, process, disk, history>>

-----------------------------------------------------------------------------
(* Effects and entries *)

Current == Len(ops)

\* isWriteCommand lists FLUSHALL and SELECT, but execute returns before it
\* comes to the log.
IsLogged(kind) == kind # "flushall"

\* What the effect depends on besides the command: the member SPOP draws, or the
\* time a time to live counts from, here the number of earlier starts.
Draws == {0, 1}
Outcome(kind, draw) == CASE kind = "pop" -> draw
                         [] kind = "ttl" -> crashes
                         [] OTHER        -> 0

Effect(id, x) == [id |-> id, x |-> x]

Apply(mem, kind, d, e) ==
    CASE kind = "flushall" -> [c \in DBs |-> << >>]
      [] kind = "flushdb"  -> [mem EXCEPT ![d] = << >>]
      [] OTHER             -> [mem EXCEPT ![d] = Append(@, e)]

Entry(id) == <<[id |-> id, part |-> 1], [id |-> id, part |-> 2]>>

Whole(f, i) == i < Len(f) /\ f[i].part = 1 /\ f[i + 1] = [id |-> f[i].id, part |-> 2]

\* The sequences of entries a reader may get out of f.  Where an entry is torn
\* it runs on into the bytes that follow: either they do not parse, and Replay
\* stops, or they are swallowed as elements of the torn array and reading goes
\* on at some later entry.  What the torn entry has become is then no command,
\* or the command with other arguments, here -id.  (FLUSHDB has none.)
Spoilt(id)    == {<< >>} \cup IF ops[id].kind = "flushdb" THEN {} ELSE {<<-id>>}
Resumed(f, i) == {n \in i + 2 .. Len(f) + 1 : n = Len(f) + 1 \/ f[n].part = 1}

Joined(here, later) == {h \o r : h \in here, r \in later}

ReadFrom(f) ==
    LET from[i \in 1 .. Len(f) + 1] ==
          IF i = Len(f) + 1 THEN {<< >>}
          ELSE IF Whole(f, i) THEN Joined({<<f[i].id>>}, from[i + 2])
          ELSE {<< >>} \cup UNION {Joined(Spoilt(f[i].id), from[j]) : j \in Resumed(f, i)}
    IN from

Readings(f) == ReadFrom(f)[1]

\* Replay executes every entry again, on database 0.
Replayed(ids) ==
    LET flushes == {i \in DOMAIN ids : ids[i] > 0 /\ ops[ids[i]].kind = "flushdb"}
        start   == Max({0} \cup flushes) + 1
        last    == SubSeq(ids, start, Len(ids))
        result(id, draw) == IF id < 0 THEN Effect(-id, -1) ELSE Effect(id, Outcome(ops[id].kind, draw))
    IN {[d \in DBs |-> IF d = 0 THEN [i \in DOMAIN last |-> result(last[i], draw[i])] ELSE << >>] :
          draw \in [DOMAIN last -> Draws]}

\* Command id is part of what its database holds.
Remembered(id) == \E i \in DOMAIN memory[ops[id].db] : memory[ops[id].db][i].id = id

-----------------------------------------------------------------------------
(* The event loop executes a command, logs it and replies.                 *)

\* Mutant: the buffer has no end.
BufferedWhole(chunks) == buf' = buf \o chunks /\ UNCHANGED file

\* Mutant: a full buffer is given up.
BufferedAnew(chunks) ==
    /\ buf' = IF Len(buf \o chunks) > BufferSize THEN chunks ELSE buf \o chunks
    /\ UNCHANGED file

\* An entry that does not fit fills the buffer, which is written out whole.
Buffered(chunks) ==
    LET all  == buf \o chunks
        full == Len(all) > BufferSize
    IN /\ file' = IF full THEN file \o SubSeq(all, 1, BufferSize) ELSE file
       /\ buf'  = IF full THEN SubSeq(all, BufferSize + 1, Len(all)) ELSE all

\* A command on its own, or the first of the n that EXEC runs; then the others,
\* each when the one before is logged.
Begin(n) == pc = "batch" /\ Current + n <= MaxOps /\ first' = Current + 1 /\ rest' = n - 1
Continue == pc = "reply" /\ rest > 0 /\ rest' = rest - 1 /\ UNCHANGED first

Execute(kind, d) ==
    /\ ops' = Append(ops, [kind |-> kind, db |-> d])
    /\ \E draw \in Draws : memory' = Apply(memory, kind, d, Effect(Current + 1, Outcome(kind, draw)))
    /\ pc' = IF IsLogged(kind) THEN "append" ELSE "reply"
    /\ clean' = FALSE
    /\ UNCHANGED <<policy, epollOpen, buf, aofOpen, stopping, disk, acked, unlogged, safe, before, crashes>>

ExecuteNext == (Continue \/ \E n \in 1 .. MaxQueue : Begin(n)) /\ \E kind \in Kinds, d \in DBs : Execute(kind, d)

\* AOF.Write up to its switch.  It returns no error the caller looks at.
LogAppend ==
    /\ pc = "append"
    /\ IF aofOpen THEN Buffered(Entry(Current)) /\ UNCHANGED unlogged
       ELSE UNCHANGED <<buf, file>> /\ unlogged' = unlogged \cup {Current}
    /\ pc' = IF policy = "always" THEN "flush" ELSE "reply"
    /\ UNCHANGED <<policy, memory, rest, first, epollOpen, aofOpen, stopping, synced, ops, acked, safe, before,
                   clean, crashes>>

\* Mutant: the file is not synced.
LogFlushOnly ==
    /\ pc = "flush"
    /\ file' = file \o buf /\ buf' = << >>
    /\ pc' = "reply"
    /\ UNCHANGED <<policy, memory, rest, first, epollOpen, aofOpen, stopping, synced, history>>

\* Mutant: the buffer is written out and kept.
LogFlushKeeping ==
    /\ pc = "flush"
    /\ file' = file \o buf
    /\ pc' = "sync"
    /\ UNCHANGED <<policy, memory, rest, first, epollOpen, buf, aofOpen, stopping, synced, history>>

LogFlush ==
    /\ pc = "flush"
    /\ IF aofOpen THEN file' = file \o buf /\ buf' = << >> ELSE UNCHANGED <<buf, file>>
    /\ pc' = IF aofOpen THEN "sync" ELSE "reply"
    /\ UNCHANGED <<policy, memory, rest, first, epollOpen, aofOpen, stopping, synced, history>>

LogSync ==
    /\ pc = "sync"
    /\ synced' = Len(file)
    /\ pc' = "reply"
    /\ UNCHANGED <<policy, memory, rest, first, epollOpen, buf, aofOpen, stopping, file, history>>

\* One reply to a command, or to all of a transaction.
Reply ==
    /\ pc = "reply" /\ rest = 0
    /\ acked' = acked \cup first .. Current
    /\ pc' = "batch" /\ first' = 0
    /\ UNCHANGED <<policy, memory, rest, epollOpen, buf, aofOpen, stopping, disk, ops, unlogged, safe, before, clean, crashes>>

\* A write to the file fails after some of the pending chunks it was given;
\* bufio.Writer keeps the error and drops whatever it gets from then on.
FileFails(pending, given) ==
    /\ "diskfull" \in Faults /\ aofOpen
    /\ \E n \in 0 .. given - 1 :
         /\ file' = file \o SubSeq(pending, 1, n)
         /\ unlogged' = unlogged \cup {pending[i].id : i \in n + 1 .. Len(pending)}
    /\ aofOpen' = FALSE
    /\ UNCHANGED <<policy, memory, rest, first, epollOpen, buf, stopping, synced, ops, acked, safe, before, clean,
                   crashes>>

AppendFails ==
    /\ pc = "append" /\ Len(buf \o Entry(Current)) > BufferSize
    /\ FileFails(buf \o Entry(Current), BufferSize)
    /\ pc' = "reply"

FlushFails == pc = "flush" /\ FileFails(buf, Len(buf)) /\ pc' = "reply"

\* epoll_wait returns with events, also when its descriptor was closed under it;
\* the next call fails if it was, the loop ends and main returns.
Wake == pc = "wait" /\ pc' = "batch"
          /\ UNCHANGED <<policy, memory, rest, first, epollOpen, buf, aofOpen, stopping, disk, history>>

Dies ==
    /\ pc' = "down"
    /\ before' = memory
    /\ crashes' = crashes + 1
    /\ memory' = [d \in DBs |-> << >>]
    /\ buf' = << >> /\ rest' = 0 /\ first' = 0
    /\ UNCHANGED <<policy, epollOpen, aofOpen, stopping, ops, acked, unlogged, safe>>

EndBatch ==
    /\ pc = "batch"
    /\ \/ epollOpen /\ pc' = "wait"
          /\ UNCHANGED <<policy, memory, rest, first, epollOpen, buf, aofOpen, stopping, disk, history>>
       \/ ~epollOpen /\ Dies /\ UNCHANGED <<disk, clean>>

-----------------------------------------------------------------------------
(* The other goroutines.  The mutex of the AOF is held from the append to   *)
(* the end of AOF.Write.                                                    *)

Unlocked == pc \notin {"flush", "sync", "down"}

\* Mutant: fsync comes before the buffer is written out.
BgSyncEarly ==
    /\ policy = "everysec" /\ aofOpen /\ Unlocked
    /\ synced' = Len(file)
    /\ file' = file \o buf
    /\ buf' = << >>
    /\ safe' = safe \cup {id \in acked : Remembered(id)}
    /\ UNCHANGED <<policy, memory, rest, first, pc, epollOpen, aofOpen, stopping, ops, acked, unlogged, before, clean, crashes>>

\* Mutant: the buffer is not written out.
BgSyncFileOnly ==
    /\ policy = "everysec" /\ aofOpen /\ Unlocked
    /\ synced' = Len(file)
    /\ safe' = safe \cup {id \in acked : Remembered(id)}
    /\ UNCHANGED <<policy, memory, rest, first, pc, epollOpen, buf, aofOpen, stopping, file, ops, acked, unlogged, before, clean,
                   crashes>>

BgSync ==
    /\ policy = "everysec" /\ aofOpen /\ Unlocked
    /\ file' = file \o buf
    /\ buf' = << >>
    /\ synced' = Len(file')
    /\ safe' = safe \cup {id \in acked : Remembered(id)}
    /\ UNCHANGED <<policy, memory, rest, first, pc, epollOpen, aofOpen, stopping, ops, acked, unlogged, before, clean, crashes>>

\* bgSync or Close as far as its flush: the sync behind it fails, which neither
\* looks at, or the process dies before it.
FlushAside ==
    /\ policy = "everysec" \/ stopping
    /\ aofOpen /\ Unlocked
    /\ file' = file \o buf
    /\ buf' = << >>
    /\ UNCHANGED <<policy, memory, rest, first, pc, epollOpen, aofOpen, stopping, synced, history>>

\* The flush of bgSync or of Close fails; neither looks at the error.
FlushFailsAside ==
    /\ policy = "everysec" \/ stopping
    /\ Unlocked
    /\ FileFails(buf, Len(buf))
    /\ UNCHANGED pc

MayDie == pc # "down" /\ crashes < MaxCrashes

\* Server.Close in the signal handler: epoll first, then AOF.Close, then exit.
Signal ==
    /\ "signal" \in Faults /\ MayDie /\ ~stopping
    /\ stopping' = TRUE
    /\ epollOpen' = FALSE
    /\ UNCHANGED <<policy, memory, rest, first, pc, buf, aofOpen, disk, history>>

\* Mutant: the buffer is not written out.
CloseAOFUnflushed ==
    /\ stopping /\ aofOpen /\ Unlocked
    /\ synced' = Len(file)
    /\ aofOpen' = FALSE
    /\ clean' = (pc \in {"wait", "batch"})
    /\ UNCHANGED <<policy, memory, rest, first, pc, epollOpen, buf, stopping, file, ops, acked, unlogged, safe, before, crashes>>

CloseAOF ==
    /\ stopping /\ aofOpen /\ Unlocked
    /\ file' = file \o buf
    /\ buf' = << >>
    /\ synced' = Len(file')
    /\ aofOpen' = FALSE
    /\ clean' = (pc \in {"wait", "batch"})
    /\ UNCHANGED <<policy, memory, rest, first, pc, epollOpen, stopping, ops, acked, unlogged, safe, before, crashes>>

Exit ==
    /\ stopping /\ ~aofOpen /\ pc # "down"
    /\ Dies
    /\ UNCHANGED <<disk, clean>>

-----------------------------------------------------------------------------
(* The machine *)

\* The kernel writes file data back when it likes.
WriteBack ==
    /\ synced < Len(file)
    /\ synced' = Len(file)
    /\ UNCHANGED <<policy, process, file, history>>

\* The process is killed; what it has written to the file is kept.
Kill == "kill" \in Faults /\ MayDie /\ Dies /\ UNCHANGED <<disk, clean>>

\* The machine stops; of what was not synced any part from the front is kept.
PowerCut ==
    /\ "powercut" \in Faults /\ MayDie
    /\ Dies /\ UNCHANGED clean
    /\ \E n \in synced .. Len(file) : file' = SubSeq(file, 1, n) /\ synced' = n

\* New: replay, then open the file to append.
Restart ==
    /\ pc = "down"
    /\ \E ids \in Readings(file) : memory' \in Replayed(ids)
    /\ pc' = "wait"
    /\ epollOpen' = TRUE /\ aofOpen' = TRUE /\ stopping' = FALSE
    /\ UNCHANGED <<policy, rest, first, buf, disk, history>>

-----------------------------------------------------------------------------
Init ==
    /\ policy \in Policies
    /\ memory = [d \in DBs |-> << >>] /\ before = memory
    /\ pc = "wait" /\ rest = 0 /\ first = 0 /\ epollOpen = TRUE /\ aofOpen = TRUE /\ stopping = FALSE
    /\ buf = << >> /\ file = << >> /\ synced = 0
    /\ ops = << >> /\ acked = {} /\ unlogged = {} /\ safe = {} /\ clean = FALSE /\ crashes = 0

Loop == Wake \/ EndBatch \/ LogAppend \/ LogFlush \/ LogSync \/ Reply \/ AppendFails \/ FlushFails
          \/ ExecuteNext

Aside == BgSync \/ FlushAside \/ FlushFailsAside

Next == Loop \/ Aside \/ Signal \/ CloseAOF \/ Exit \/ WriteBack \/ Kill \/ PowerCut \/ Restart

Spec == Init /\ [][Next]_vars

-----------------------------------------------------------------------------
TypeOK ==
    /\ pc \in {"wait", "batch", "append", "flush", "sync", "reply", "down"}
    /\ DOMAIN memory = DBs /\ DOMAIN before = DBs
    /\ synced \in 0 .. Len(file) /\ Len(buf) <= BufferSize
    /\ acked \cup unlogged \subseteq DOMAIN ops /\ safe \subseteq acked
    /\ crashes \in 0 .. MaxCrashes

Flushes(id) == {j \in DOMAIN ops : j > id /\ ops[j].kind \in {"flushdb", "flushall"}}

\* The commands of K that set something in database 0 no flush has removed.
Written(K) == {id \in K : ops[id] = [kind |-> "write", db |-> 0] /\ Flushes(id) = {}}

Torn(i)   == file[i].part = 1 /\ ~Whole(file, i)
TornAtEnd == \A i \in DOMAIN file : Torn(i) => i = Len(file)

(* With appendfsync always, no write that was acknowledged is ever missing, *)
(* neither while the server runs nor after a crash and a restart (AOF.Write *)
(* is called before the reply, and flushes and syncs).  Except: the file    *)
(* had failed or was closed when the write came, or the tail of the log was *)
(* torn by an earlier crash and appended to.                                *)
AckedWritesSurvive ==
    policy = "always" /\ pc # "down" /\ TornAtEnd => \A id \in Written(acked \ unlogged) : Remembered(id)

(* The same without exceptions. *)
AlwaysIsSafest ==
    policy = "always" /\ pc # "down" => \A id \in Written(acked) : Remembered(id)

(* With appendfsync everysec, a crash costs only writes acknowledged since  *)
(* the last time bgSync synced the file.                                    *)
SyncedWritesSurvive ==
    policy = "everysec" /\ pc # "down" /\ TornAtEnd => \A id \in Written(safe) : Remembered(id)

(* Whatever was restarted, a database holds each effect once and in the     *)
(* order of execution: buffer, file and replay neither repeat nor reorder.  *)
EffectsOnceInOrder ==
    \A d \in DBs : \A i, j \in DOMAIN memory[d] : i < j => memory[d][i].id < memory[d][j].id

Restarts == pc = "down" /\ pc' # "down"

(* A crash costs the latest writes only, under every policy: what a restart *)
(* finds is a prefix of what was there, never a database with a hole.       *)
OnlyWrites == \A i \in DOMAIN ops : ops[i] = [kind |-> "write", db |-> 0]
RestartFindsPrefix ==
    [][Restarts /\ TornAtEnd /\ OnlyWrites => IsPrefix(memory'[0], before[0])]_vars

(* Once AOF.Close has written the log out between two commands, nothing is  *)
(* lost if no command follows, however the process then ends (by os.Exit,   *)
(* by main returning, by a crash): if no entry of the file is torn, "On     *)
(* startup, the file is replayed to restore state" (README.md).  Nothing is *)
(* said of a signal whose Close does not get that far: the loop may find    *)
(* epoll closed, and main return, while the buffer is still full.           *)
CleanRestart == Restarts /\ clean /\ \A i \in DOMAIN file : ~Torn(i)
RestartRestoresState == [][CleanRestart => memory' = before]_vars

(* The same for the commands that are logged as they run, on database 0.    *)
Expressible == \A i \in DOMAIN ops : ops[i].db = 0 /\ ops[i].kind \in {"write", "flushdb"}
ShutdownKeepsState == [][CleanRestart /\ Expressible => memory' = before]_vars

\* The whole entry is in the part of the file that has been synced.
OnDisk(id) == \E i \in 1 .. synced : file[i] = [id |-> id, part |-> 2]

=============================================================================
