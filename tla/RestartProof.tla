---------------------------- MODULE RestartProof ----------------------------
(***************************************************************************)
(* Proofs of the two action properties of Persistence, for every value of  *)
(* its constants: what a restart finds is a prefix of what was there, and  *)
(* a shutdown during which no command ran is invisible.                    *)
(*                                                                         *)
(* PersistenceProof says what Replay makes of a file, and that what the    *)
(* databases hold is in the log.  What is missing is the converse, that    *)
(* what the log holds is in the databases.  FrontHeld says it of the part  *)
(* of the log before the first torn entry, of which Replay is certain;     *)
(* RunAgrees and CleanAgrees of a log without torn entries, with a FLUSHDB *)
(* here and there.                                                         *)
(***************************************************************************)
EXTENDS PersistenceProof

-----------------------------------------------------------------------------
(* The inductive invariant *)

\* What the process holds, or held when it died.
Held == IF pc = "down" THEN before ELSE memory

\* What is legible in f is in m, and everything before it in m is legible.
LegibleIn(f, m) ==
    \A n \in 1 .. Len(f) : Legible(f, n) =>
      /\ \E i \in 1 .. Len(m) : m[i] = [id |-> f[n].id, x |-> 0]
      /\ \A i \in 1 .. Len(m) : m[i].id < f[n].id => \E j \in 1 .. Len(f) : Legible(f, j) /\ f[j].id = m[i].id

FrontHeld ==
    OnlyWrites =>
      /\ LegibleIn(Log, Held[0])
      /\ pc = "append" => \E i \in 1 .. Len(memory[0]) : memory[0][i] = [id |-> Current, x |-> 0]

Intact(f) == \A n \in 1 .. Len(f) : ~Broken(f, n)

\* m holds what the log f says: every write after its last FLUSHDB.
Agrees(m, f) ==
    /\ \A d \in DBs : d # 0 => m[d] = << >>
    /\ \A i \in 1 .. Len(m[0]) : m[0][i].x = 0
    /\ \A id \in 1 .. Current :
         (\E i \in 1 .. Len(m[0]) : m[0][i].id = id) <=>
            /\ WholeIn(f, id) /\ ops[id].kind = "write"
            /\ \A j \in id .. Current : WholeIn(f, j) => ops[j].kind # "flushdb"

\* The log, with the command that is about to be logged.
Soon == IF pc = "append" THEN Log \o Entry(Current) ELSE Log

RunAgrees == aofOpen /\ pc # "down" /\ Intact(Soon) /\ Expressible => Agrees(memory, Soon)

CleanAgrees ==
    clean => /\ buf = << >> /\ synced = Len(file) /\ pc \in {"wait", "batch", "down"}
             /\ Intact(file) /\ Expressible => Agrees(Held, file)

-----------------------------------------------------------------------------
(* Two sequences in the same order                                          *)

\* What holds of a number when it holds of all that precede it holds of all.
LEMMA Upward ==
    ASSUME NEW N \in Nat, NEW T,
           \A n \in 1 .. N : (\A m \in 1 .. n - 1 : m \in T) => n \in T
    PROVE  \A n \in 1 .. N : n \in T
<1> DEFINE D == {n \in 1 .. N : n \notin T}
<1> SUFFICES ASSUME D # {} PROVE FALSE
  OBVIOUS
<1>1. PICK n \in D : \A m \in D : n <= m
  <2>1. D \in SUBSET Nat
    OBVIOUS
  <2> HIDE DEF D
  <2> QED
    BY <2>1, Least
<1>2. \A m \in 1 .. n - 1 : m \in 1 .. N /\ ~(n <= m)
  BY <1>1
<1> QED
  BY <1>1, <1>2

\* If t has what s has, and s what t has before that, then s is the front of t.
LEMMA Aligned ==
    ASSUME NEW s \in Seq(Effects), NEW t \in Seq(Effects), Increasing(s), Increasing(t),
           \A i \in 1 .. Len(s) : \E p \in 1 .. Len(t) : t[p] = s[i],
           \A i \in 1 .. Len(s) : \A k \in 1 .. Len(t) :
             t[k].id < s[i].id => \E q \in 1 .. Len(s) : s[q].id = t[k].id
    PROVE  Len(s) <= Len(t) /\ \A i \in 1 .. Len(s) : i \in 1 .. Len(t) /\ s[i] = t[i]
<1> DEFINE N == Len(s)
           M == Len(t)
           T == {i \in 1 .. N : i \in 1 .. M /\ s[i] = t[i]}
<1>1. N \in Nat /\ M \in Nat
  BY LenProperties
<1>2. (\A i \in 1 .. N : s[i].id \in Nat) /\ \A i \in 1 .. M : t[i].id \in Nat
  <2>1. (\A i \in 1 .. N : s[i] \in Effects) /\ \A i \in 1 .. M : t[i] \in Effects
    BY ElementOfSeq
  <2> QED
    BY <2>1 DEF Effects
<1>3. /\ \A i, j \in 1 .. N : i < j => s[i].id < s[j].id
      /\ \A i, j \in 1 .. M : i < j => t[i].id < t[j].id
  BY DEF Increasing
<1>4. ASSUME NEW i \in 1 .. N, \A k \in 1 .. i - 1 : k \in T PROVE i \in T
  <2>1. PICK p \in 1 .. M : t[p] = s[i]
    OBVIOUS
  <2>2. ~(p < i)
    <3> SUFFICES ASSUME p < i PROVE FALSE
      OBVIOUS
    <3>1. p \in 1 .. i - 1 /\ p \in 1 .. N
      BY <1>1
    <3>2. s[p] = t[p] /\ s[p].id < s[i].id
      BY <3>1, <1>3, <1>4
    <3> QED
      BY <2>1, <3>1, <3>2, <1>2
  <2>3. ~(i < p)
    <3> SUFFICES ASSUME i < p PROVE FALSE
      OBVIOUS
    <3>1. i \in 1 .. M
      BY <1>1
    <3>2. t[i].id < s[i].id
      BY <2>1, <3>1, <1>3
    <3>3. PICK q \in 1 .. N : s[q].id = t[i].id
      BY <3>1, <3>2
    <3>4. q < i
      BY <3>2, <3>3, <1>2, <1>3
    <3>5. q \in 1 .. i - 1 /\ q \in 1 .. M /\ s[q] = t[q]
      BY <3>4, <1>4
    <3>6. t[q].id < t[i].id
      BY <3>1, <3>4, <3>5, <1>3
    <3> QED
      BY <3>1, <3>3, <3>5, <3>6, <1>2
  <2>4. p = i
    BY <2>2, <2>3
  <2> QED
    BY <2>1, <2>4
<1>5. \A i \in 1 .. N : i \in T
  <2> HIDE DEF T, N, M
  <2> QED
    BY <1>1, <1>4, Upward
<1>6. N <= M
  <2>1. CASE N = 0
    BY <2>1, <1>1
  <2>2. CASE N # 0
    <3>1. N \in 1 .. N
      BY <2>2, <1>1
    <3>2. N \in 1 .. M
      BY <3>1, <1>5
    <3> HIDE DEF N, M
    <3> QED
      BY <3>2, <1>1
  <2> QED
    BY <2>1, <2>2
<1> QED
  BY <1>5, <1>6

LEMMA PrefixOf ==
    ASSUME NEW s \in Seq(Effects), NEW t \in Seq(Effects),
           Len(s) <= Len(t), \A i \in 1 .. Len(s) : i \in 1 .. Len(t) /\ s[i] = t[i]
    PROVE  IsPrefix(s, t)
<1>1. Len(s) \in Nat /\ Len(t) \in Nat
  BY LenProperties
<1>2. SubSeq(s, 1, Len(s)) = [i \in 1 .. Len(s) |-> s[i]] /\ SubSeq(t, 1, Len(s)) = [i \in 1 .. Len(s) |-> t[i]]
  <2> DEFINE N == Len(s)
  <2>1. N \in Nat
    BY <1>1
  <2> HIDE DEF N
  <2>2. SubSeq(s, 1, N) = [i \in 1 .. N |-> s[i]] /\ SubSeq(t, 1, N) = [i \in 1 .. N |-> t[i]]
    BY <2>1
  <2> QED
    BY <2>2 DEF N
<1> QED
  BY <1>2 DEF IsPrefix

\* Two sequences in order with the same effects are equal.
LEMMA Same ==
    ASSUME NEW s \in Seq(Effects), NEW t \in Seq(Effects), Increasing(s), Increasing(t),
           \A i \in 1 .. Len(s) : \E p \in 1 .. Len(t) : t[p] = s[i],
           \A i \in 1 .. Len(t) : \E p \in 1 .. Len(s) : s[p] = t[i]
    PROVE  s = t
<1>1. Len(s) <= Len(t) /\ \A i \in 1 .. Len(s) : i \in 1 .. Len(t) /\ s[i] = t[i]
  <2>1. \A i \in 1 .. Len(s) : \A k \in 1 .. Len(t) : t[k].id < s[i].id => \E q \in 1 .. Len(s) : s[q].id = t[k].id
    OBVIOUS
  <2> QED
    BY <2>1, Aligned
<1>2. Len(t) <= Len(s)
  <2>1. \A i \in 1 .. Len(t) : \A k \in 1 .. Len(s) : s[k].id < t[i].id => \E q \in 1 .. Len(t) : t[q].id = s[k].id
    OBVIOUS
  <2> QED
    BY <2>1, Aligned
<1>3. Len(s) = Len(t)
  BY <1>1, <1>2, LenProperties
<1> QED
  BY <1>1, <1>3, SeqEqual


-----------------------------------------------------------------------------
(* The steps                                                                *)

\* A step takes the log no further than the entry of the current command.
LEMMA LogMoves ==
    ASSUME Base, [Next]_vars
    PROVE  \/ Begins(Log', Log)
           \/ aofOpen /\ pc = "append" /\ Begins(Log', Log \o Entry(Current))
<1>1. Typed /\ Phases /\ Log \in Seq(Chunk) /\ Log' \in Seq(Chunk) /\ file \in Seq(Chunk) /\ buf \in Seq(Chunk)
        /\ Len(buf) \in Nat
  <2>1. Log' \in Seq(Chunk)
    <3>1. file' \in Seq(Chunk) /\ buf' \in Seq(Chunk)
      BY BaseNext DEF Base, Typed
    <3>2. file' \o buf' \in Seq(Chunk)
      BY <3>1, Joining
    <3> QED
      BY <3>1, <3>2 DEF Log
  <2> QED
    BY <2>1, BaseNext, LogTyped DEF Base, Typed
<1>2. ASSUME Log' = Log PROVE Begins(Log', Log)
  BY <1>1, <1>2, BeginsItself
<1>3. CASE Bookkeeping /\ aofOpen'
  <2>1. CASE aofOpen /\ Log' = Log
    BY <2>1, <1>2
  <2>2. CASE aofOpen /\ pc = "append" /\ Log' = Log \o Entry(Current)
    BY <2>2, <1>1, BeginsItself
  <2> QED
    BY <1>3, <2>1, <2>2 DEF Bookkeeping
<1>4. CASE AppendFails
  <2> DEFINE e == Entry(Current)
             pending == buf \o e
  <2>1. Current \in Nat \ {0} /\ pc = "append" /\ FileFails(pending, BufferSize) /\ BufferSize < Len(pending) + 1
    <3>1. Current \in Nat \ {0} /\ pc = "append"
      BY <1>1, <1>4, AnsweredBound DEF AppendFails
    <3>2. e \in Seq(Chunk)
      BY <3>1, EntryIsTwo
    <3> HIDE DEF e
    <3>3. Len(buf \o e) \in Nat
      BY <1>1, <3>2, Joining, LenProperties
    <3> USE DEF e
    <3> QED
      BY <1>4, <3>1, <3>3, BufferAssumption DEF AppendFails
  <2>2. e \in Seq(Chunk)
    BY <2>1, EntryIsTwo
  <2> HIDE DEF e
  <2>3. pending \in Seq(Chunk) /\ Len(pending) \in Nat
    BY <1>1, <2>2, Joining, LenProperties
  <2>4. file \o pending = (file \o buf) \o e
    <3>1. \A f, g, h \in Seq(Chunk) : (f \o g) \o h = f \o (g \o h)
      BY ConcatAssociative
    <3> QED
      BY <1>1, <2>2, <3>1, ZenonT(30)
  <2> HIDE DEF pending
  <2>5. BufferSize \in Nat /\ BufferSize <= Len(pending)
    BY <2>1, <2>3, BufferAssumption
  <2>6. Begins(file', file \o pending) /\ aofOpen /\ ~aofOpen'
    BY <1>1, <2>1, <2>3, <2>5, FailsInLog
  <2>7. Begins(Log', Log \o e)
    BY <2>4, <2>6 DEF Log
  <2> QED
    BY <2>1, <2>6, <2>7 DEF e
<1>5. CASE FlushFails \/ FlushFailsAside
  <2> DEFINE n == Len(buf)
  <2>1. FileFails(buf, n) /\ n \in Nat /\ n <= Len(buf)
    BY <1>1, <1>5 DEF FlushFails, FlushFailsAside
  <2> HIDE DEF n
  <2>2. Begins(file', file \o buf) /\ aofOpen /\ ~aofOpen'
    BY <1>1, <2>1, FailsInLog
  <2> QED
    BY <2>2 DEF Log
<1>6. CASE CloseAOF
  <2>1. aofOpen /\ file' = file \o buf /\ buf' = << >>
    BY <1>6 DEF CloseAOF
  <2> QED
    BY <1>1, <1>2, <2>1, WritesOut
<1>7. CASE UNCHANGED vars \/ Wake \/ (EndBatch /\ epollOpen) \/ LogAppend \/ LogFlush \/ LogSync \/ BgSync \/ FlushAside \/ Signal \/ WriteBack
  <2>1. ~aofOpen' => file' = file /\ ~aofOpen
    BY <1>7 DEF vars, Wake, EndBatch, LogAppend, LogFlush, LogSync, BgSync, FlushAside, Signal, WriteBack, process, disk, history
  <2>2. ~aofOpen' => Log' = Log
    BY <2>1 DEF Log
  <2>3. Bookkeeping \/ ExecuteNext \/ Reply \/ Crash \/ Restart
    BY StepKinds
  <2>4. Bookkeeping
    <3>1. CASE LogAppend
      BY <3>1, LogAppendIsBookkeeping
    <3>2. CASE LogFlush \/ BgSync \/ FlushAside
      BY <3>2, WritingOutIsBookkeeping
    <3>3. CASE ~(LogAppend \/ LogFlush \/ BgSync \/ FlushAside)
      <4>1. UNCHANGED <<file, buf, aofOpen, policy, memory, before, ops, acked, first, unlogged, safe>>
        BY <1>7, <3>3 DEF vars, Wake, EndBatch, LogSync, Signal, WriteBack, process, disk, history
      <4>2. (pc = "down" <=> pc' = "down") /\ (pc = "append" => pc' = "append")
        BY <1>7, <3>3 DEF vars, Wake, EndBatch, LogSync, Signal, WriteBack, process, disk, history
      <4>3. synced' = synced \/ synced' = Len(file)
        BY <1>7, <3>3 DEF vars, Wake, EndBatch, LogSync, Signal, WriteBack, process, disk, history
      <4>4. synced \in Nat /\ Len(file) \in Nat /\ synced <= Len(file)
        BY <1>1, LogTyped
      <4>5. synced <= synced' /\ synced' <= Len(file) /\ synced' \in Nat
        BY <4>3, <4>4
      <4> QED
        BY <4>1, <4>2, <4>5, StillIsBookkeeping
    <3> QED
      BY <3>1, <3>2, <3>3
  <2> QED
    BY <1>2, <1>3, <2>2, <2>3, <2>4
<1>8. CASE ExecuteNext \/ Reply
  <2>1. file' = file /\ buf' = buf /\ aofOpen' = aofOpen
    BY <1>8 DEF ExecuteNext, Execute, Reply, disk
  <2>2. Log' = Log
    BY <2>1 DEF Log
  <2> QED
    BY <1>2, <2>2
<1>9. CASE Crash
  <2>1. Dies /\ Begins(file', file) /\ file' \in Seq(Chunk)
    BY <1>1, <1>9, CrashDies
  <2>2. Log' = file'
    BY <2>1, ConcatEmptySeq DEF Dies, Log
  <2>3. Begins(file', Log)
    BY <1>1, <2>1, LogTyped, BeginsOnward
  <2> QED
    BY <2>2, <2>3
<1>10. CASE Restart
  <2>1. Log' = Log
    BY <1>10, RestartFound
  <2> QED
    BY <1>2, <2>1
<1> QED
  BY <1>4, <1>5, <1>6, <1>7, <1>8, <1>9, <1>10 DEF Next, Loop, Aside, Crash

\* A command waits to be logged only from the step that executed it on.
LEMMA WaitsToBeLogged ==
    ASSUME Base, [Next]_vars, pc' = "append"
    PROVE  ExecuteNext \/ (pc = "append" /\ UNCHANGED <<memory, ops>>)
<1>1. ~Crash
  BY CrashDies DEF Dies, Base
<1>2. ~(EndBatch /\ ~epollOpen) /\ ~Exit /\ ~Kill /\ ~PowerCut
  BY <1>1 DEF Crash
<1> QED
  BY <1>2 DEF Next, Loop, vars, Wake, EndBatch, LogAppend, LogFlush, LogSync, Reply, AppendFails, FlushFails, FileFails,
         Aside, BgSync, FlushAside, FlushFailsAside, Signal, CloseAOF, WriteBack, Restart, process, disk, history

\* Commands already executed stay as they are.
LEMMA OpsKept ==
    ASSUME Base, [Next]_vars
    PROVE  /\ Current \in Nat /\ Current' \in Nat /\ Current <= Current'
           /\ DOMAIN ops = 1 .. Current /\ DOMAIN ops' = 1 .. Current'
           /\ \A id \in 1 .. Current : id \in 1 .. Current' /\ ops'[id] = ops[id]
           /\ ~ExecuteNext => ops' = ops /\ Current' = Current
<1>1. Typed /\ Typed' /\ Current \in Nat /\ Current' \in Nat /\ DOMAIN ops = 1 .. Current /\ DOMAIN ops' = 1 .. Current'
  <2>1. Typed /\ Typed'
    BY BaseNext DEF Base
  <2>2. Typed => Current \in Nat /\ DOMAIN ops = 1 .. Current
    BY LenProperties DEF Typed, Current
  <2>3. Typed' => Current' \in Nat /\ DOMAIN ops' = 1 .. Current'
    BY LenProperties DEF Typed, Current
  <2> QED
    BY <2>1, <2>2, <2>3
<1>2. CASE ExecuteNext
  <2>1. PICK kind \in Kinds, d \in DBs : Execute(kind, d)
    BY <1>2 DEF ExecuteNext
  <2>2. ops \in Seq(Command) /\ [kind |-> kind, db |-> d] \in Command /\ ops' = Append(ops, [kind |-> kind, db |-> d])
    BY <1>1, <2>1 DEF Typed, Command, Execute
  <2>3. Current' = Current + 1 /\ \A id \in 1 .. Current : ops'[id] = ops[id]
    BY <2>2, AppendProperties DEF Current
  <2>4. \A id \in 1 .. Current : id \in 1 .. Current'
    BY <1>1, <2>3
  <2> QED
    BY <1>1, <1>2, <2>3, <2>4
<1>3. CASE ~ExecuteNext
  <2>1. ops' = ops
    BY <1>3, StepKinds, CrashDies DEF Bookkeeping, Reply, Restart, Dies, history, Base
  <2>2. Current' = Current
    BY <2>1 DEF Current
  <2> QED
    BY <1>1, <2>1, <2>2
<1> QED
  BY <1>2, <1>3


-----------------------------------------------------------------------------
(* The front of the log is in the databases.                                *)

\* Cutting a sequence of chunks, or adding to it, leaves legible what is whole.
LEMMA LegibleInPart ==
    ASSUME NEW g \in Seq(Chunk), NEW f \in Seq(Chunk), Begins(g, f)
    PROVE  /\ \A n \in 1 .. Len(g) : Legible(g, n) => n \in 1 .. Len(f) /\ Legible(f, n) /\ f[n] = g[n] /\ n < Len(g)
           /\ \A n \in 1 .. Len(g) - 1 : Legible(f, n) => n \in 1 .. Len(g) /\ Legible(g, n) /\ f[n] = g[n]
<1>1. /\ Len(g) \in Nat /\ Len(f) \in Nat /\ Len(g) <= Len(f)
      /\ \A n \in 1 .. Len(g) : n \in 1 .. Len(f) /\ g[n] = f[n]
      /\ \A n \in 1 .. Len(g) : Whole(g, n) => Whole(f, n)
      /\ \A n \in 1 .. Len(g) - 1 : Whole(g, n) <=> Whole(f, n)
      /\ \A n \in 1 .. Len(g) - 1 : Broken(g, n) <=> Broken(f, n)
      /\ \A n \in 1 .. Len(g) : Broken(f, n) => Broken(g, n)
  BY WholeKept
<1>2. \A n \in 1 .. Len(g) : \A k \in 1 .. n : k \in 1 .. Len(g)
  BY <1>1
<1>3. \A n \in 1 .. Len(g) - 1 : n \in 1 .. Len(g) /\ \A k \in 1 .. n : k \in 1 .. Len(g) - 1
  BY <1>1
<1>4. \A n \in 1 .. Len(g) : Legible(g, n) => Legible(f, n) /\ n < Len(g)
  BY <1>1, <1>2 DEF Legible, Whole
<1>5. \A n \in 1 .. Len(g) - 1 : Legible(f, n) => Legible(g, n)
  BY <1>1, <1>3 DEF Legible
<1> QED
  BY <1>1, <1>3, <1>4, <1>5

\* In a sequence of entries an earlier command is at an earlier place.
LEMMA EarlierPlace ==
    ASSUME NEW f \in Seq(Chunk), Entries(f), NEW j \in 1 .. Len(f), NEW n \in 1 .. Len(f), f[j].id < f[n].id
    PROVE  j < n
<1>1. f[j].id \in Nat /\ f[n].id \in Nat
  <2>1. f[j] \in Chunk /\ f[n] \in Chunk
    BY ElementOfSeq
  <2> QED
    BY <2>1 DEF Chunk
<1>2. CASE n < j
  BY <1>1, <1>2 DEF Entries
<1>3. CASE n = j
  BY <1>1, <1>3
<1> QED
  BY <1>2, <1>3, LenProperties

LEMMA FrontOfPart ==
    ASSUME NEW g \in Seq(Chunk), NEW f \in Seq(Chunk), Begins(g, f), Entries(f), NEW m, LegibleIn(f, m)
    PROVE  LegibleIn(g, m)
<1>1. Len(g) \in Nat
  BY LenProperties
<1> SUFFICES ASSUME NEW n \in 1 .. Len(g), Legible(g, n)
             PROVE  /\ \E i \in 1 .. Len(m) : m[i] = [id |-> g[n].id, x |-> 0]
                    /\ \A i \in 1 .. Len(m) : m[i].id < g[n].id => \E j \in 1 .. Len(g) : Legible(g, j) /\ g[j].id = m[i].id
  BY DEF LegibleIn
<1>2. n \in 1 .. Len(f) /\ Legible(f, n) /\ f[n] = g[n] /\ n < Len(g)
  BY LegibleInPart
<1>3. \E i \in 1 .. Len(m) : m[i] = [id |-> g[n].id, x |-> 0]
  BY <1>2 DEF LegibleIn
<1>4. ASSUME NEW i \in 1 .. Len(m), m[i].id < g[n].id
      PROVE  \E j \in 1 .. Len(g) : Legible(g, j) /\ g[j].id = m[i].id
  <2>1. PICK j \in 1 .. Len(f) : Legible(f, j) /\ f[j].id = m[i].id
    BY <1>2, <1>4 DEF LegibleIn
  <2>2. j < n
    BY <1>2, <1>4, <2>1, EarlierPlace
  <2>3. j \in 1 .. Len(g) - 1
    BY <1>1, <1>2, <2>1, <2>2
  <2> QED
    BY <2>1, <2>3, LegibleInPart
<1> QED
  BY <1>3, <1>4

\* The command about to be logged joins the front, if there is nothing torn.
LEMMA FrontGrows ==
    ASSUME Base, Traced, aofOpen, pc = "append", LegibleIn(Log, memory[0]),
           \E i \in 1 .. Len(memory[0]) : memory[0][i] = [id |-> Current, x |-> 0]
    PROVE  LegibleIn(Log \o Entry(Current), memory[0])
<1> DEFINE g == Log \o Entry(Current)
           m == memory[0]
<1>1. Typed /\ Log \in Seq(Chunk) /\ Entries(Log) /\ Current \in Nat \ {0} /\ \A i \in 1 .. Len(Log) : Log[i].id < Current
  BY LogTyped, AnsweredBound DEF Base, LogInOrder
<1>2. /\ g \in Seq(Chunk) /\ Begins(Log, g) /\ Len(g) = Len(Log) + 2 /\ Len(Log) \in Nat
      /\ g[Len(Log) + 1] = [id |-> Current, part |-> 1] /\ g[Len(Log) + 2] = [id |-> Current, part |-> 2]
  BY <1>1, EntryAdded
<1> HIDE DEF g
<1> SUFFICES ASSUME NEW n \in 1 .. Len(g), Legible(g, n)
             PROVE  /\ \E i \in 1 .. Len(m) : m[i] = [id |-> g[n].id, x |-> 0]
                    /\ \A i \in 1 .. Len(m) : m[i].id < g[n].id => \E j \in 1 .. Len(g) : Legible(g, j) /\ g[j].id = m[i].id
  BY DEF LegibleIn, g
<1>3. n \in 1 .. Len(Log) - 1 \/ n = Len(Log) + 1
  <2>1. n \in 1 .. Len(Log) + 2 /\ Whole(g, n)
    BY <1>2 DEF Legible
  <2>2. n # Len(Log)
    BY <1>2, <2>1 DEF Whole
  <2>3. n # Len(Log) + 2
    BY <1>2, <2>1 DEF Whole
  <2> DEFINE k == Len(Log)
  <2>4. k \in Nat /\ n \in 1 .. k + 2 /\ n # k /\ n # k + 2
    BY <1>2, <2>1, <2>2, <2>3
  <2> HIDE DEF k
  <2>5. n \in 1 .. k - 1 \/ n = k + 1
    BY <2>4
  <2> QED
    BY <2>5 DEF k
<1>4. CASE n \in 1 .. Len(Log) - 1
  <2>1. n \in 1 .. Len(Log) /\ Legible(Log, n) /\ g[n] = Log[n]
    BY <1>1, <1>2, <1>4, LegibleInPart
  <2>2. \A j \in 1 .. Len(Log) : Legible(Log, j) => j \in 1 .. Len(g) /\ Legible(g, j) /\ g[j] = Log[j]
    BY <1>1, <1>2, LegibleInPart
  <2> QED
    BY <2>1, <2>2 DEF LegibleIn
<1>5. CASE n = Len(Log) + 1
  <2>1. g[n].id = Current
    BY <1>2, <1>5
  <2>2. /\ \A k \in 1 .. Len(Log) - 1 : Broken(Log, k) <=> Broken(g, k)
        /\ \A k \in 1 .. Len(Log) : Whole(Log, k) => Whole(g, k)
        /\ \A k \in 1 .. Len(Log) : k \in 1 .. Len(g) /\ Log[k] = g[k]
    BY <1>1, <1>2, WholeKept
  <2>3. \A k \in 1 .. Len(Log) : k \in 1 .. n /\ \A l \in 1 .. k : l \in 1 .. n
    BY <1>2, <1>5
  <2>4. ~TornInside(Log)
    <3>1. \A k \in 1 .. Len(Log) - 1 : k \in 1 .. n
      BY <1>2, <1>5
    <3> QED
      BY <2>2, <3>1 DEF TornInside, Legible
  <2>5. ASSUME NEW i \in 1 .. Len(m), m[i].id < g[n].id
        PROVE  \E j \in 1 .. Len(g) : Legible(g, j) /\ g[j].id = m[i].id
    <3>1. m[i].id # Current
      BY <2>1, <2>5, <1>1
    <3>2. WholeIn(Log, m[i].id)
      BY <2>4, <3>1, DBAssumption DEF Traced
    <3>3. PICK j \in 1 .. Len(Log) : Whole(Log, j) /\ Log[j].id = m[i].id
      BY <3>2 DEF WholeIn
    <3>4. Legible(g, j)
      BY <2>2, <2>3, <3>3 DEF Legible
    <3> QED
      BY <2>2, <3>3, <3>4
  <2> QED
    BY <2>1, <2>5
<1> QED
  BY <1>3, <1>4, <1>5

\* A write adds its effect behind the others.
LEMMA WriteAppends ==
    ASSUME Base, ExecuteNext, OnlyWrites'
    PROVE  /\ memory[0] \in Seq(Effects) /\ memory'[0] \in Seq(Effects) /\ Len(memory[0]) \in Nat
           /\ Len(memory'[0]) = Len(memory[0]) + 1 /\ Current' = Current + 1
           /\ memory'[0][Len(memory[0]) + 1] = [id |-> Current + 1, x |-> 0]
           /\ \A i \in 1 .. Len(memory[0]) : memory'[0][i] = memory[0][i]
           /\ Log' = Log /\ pc # "down" /\ pc # "append" /\ pc' = "append" /\ aofOpen' = aofOpen
<1>1. Typed /\ Current \in Nat /\ memory \in [DBs -> Seq(Effects)]
  BY LogTyped DEF Base, Typed
<1>2. PICK kind \in Kinds, d \in DBs : Execute(kind, d)
  BY DEF ExecuteNext
<1>3. PICK draw \in Draws : memory' = Apply(memory, kind, d, Effect(Current + 1, Outcome(kind, draw)))
  BY <1>2 DEF Execute
<1>4. Current' = Current + 1 /\ kind = "write" /\ d = 0
  <2>1. ops \in Seq(Command) /\ [kind |-> kind, db |-> d] \in Command /\ ops' = Append(ops, [kind |-> kind, db |-> d])
    BY <1>1, <1>2 DEF Typed, Command, Execute
  <2>2. Current' = Current + 1 /\ ops'[Current + 1] = [kind |-> kind, db |-> d] /\ ops' \in Seq(Command) /\ Len(ops') = Current + 1
    BY <2>1, AppendProperties DEF Current
  <2>3. Current + 1 \in DOMAIN ops'
    BY <2>2, <1>1, LenProperties
  <2> QED
    BY <2>2, <2>3 DEF OnlyWrites
<1> DEFINE e == [id |-> Current + 1, x |-> 0]
<1>5. e \in Effects /\ memory'[0] = Append(memory[0], e)
  BY <1>1, <1>3, <1>4, DBAssumption DEF Apply, Effect, Outcome, Effects
<1>6. memory[0] \in Seq(Effects) /\ Len(memory[0]) \in Nat
  BY <1>1, DBAssumption, LenProperties
<1> HIDE DEF e
<1>7. memory'[0] \in Seq(Effects) /\ Len(memory'[0]) = Len(memory[0]) + 1 /\ memory'[0][Len(memory[0]) + 1] = e
        /\ \A i \in 1 .. Len(memory[0]) : memory'[0][i] = memory[0][i]
  BY <1>5, <1>6, AppendProperties
<1>8. file' = file /\ buf' = buf /\ aofOpen' = aofOpen /\ pc' = "append"
  BY <1>2, <1>4 DEF Execute, disk, IsLogged
<1>9. Log' = Log /\ pc \in {"batch", "reply"}
  BY <1>8 DEF Log, ExecuteNext, Continue, Begin
<1> QED
  BY <1>4, <1>6, <1>7, <1>8, <1>9 DEF e

LEMMA FrontExecutes ==
    ASSUME Base, ExecuteNext, OnlyWrites', LegibleIn(Log, memory[0])
    PROVE  LegibleIn(Log, memory'[0]) /\ \E i \in 1 .. Len(memory'[0]) : memory'[0][i] = [id |-> Current', x |-> 0]
<1> DEFINE m == memory[0]
           t == memory'[0]
           N == Len(memory[0])
<1>1. /\ N \in Nat /\ Len(t) = N + 1 /\ Current' = Current + 1
      /\ t[N + 1] = [id |-> Current + 1, x |-> 0]
      /\ \A i \in 1 .. N : t[i] = m[i]
  BY WriteAppends
<1>2. N + 1 \in 1 .. Len(t) /\ \A i \in 1 .. Len(t) : i \in 1 .. N \/ i = N + 1
  <2> HIDE DEF N, t
  <2> QED
    BY <1>1
<1>3. \A i \in 1 .. N : i \in 1 .. Len(t)
  <2> HIDE DEF N, t
  <2> QED
    BY <1>1
<1>4. Current \in Nat /\ \A n \in 1 .. Len(Log) : Log[n].id \in Nat /\ Log[n].id <= Current
  <2>1. Typed /\ Log \in Seq(Chunk) /\ Current \in Nat
    BY LogTyped DEF Base
  <2>2. \A n \in 1 .. Len(Log) : Log[n] \in Chunk
    BY <2>1, ElementOfSeq
  <2> QED
    BY <2>1, <2>2 DEF Chunk, Base, LogInOrder
<1>5. ASSUME NEW n \in 1 .. Len(Log), Legible(Log, n)
      PROVE  /\ \E i \in 1 .. Len(t) : t[i] = [id |-> Log[n].id, x |-> 0]
             /\ \A i \in 1 .. Len(t) : t[i].id < Log[n].id => \E j \in 1 .. Len(Log) : Legible(Log, j) /\ Log[j].id = t[i].id
  <2>1. PICK i \in 1 .. N : m[i] = [id |-> Log[n].id, x |-> 0]
    BY <1>5 DEF LegibleIn
  <2>2. t[i] = [id |-> Log[n].id, x |-> 0] /\ i \in 1 .. Len(t)
    BY <1>1, <1>3, <2>1
  <2>3. ASSUME NEW k \in 1 .. Len(t), t[k].id < Log[n].id
        PROVE  \E j \in 1 .. Len(Log) : Legible(Log, j) /\ Log[j].id = t[k].id
    <3>1. t[N + 1].id = Current + 1
      BY <1>1
    <3>2. ~(Current + 1 < Log[n].id)
      BY <1>4
    <3>3. k \in 1 .. N
      BY <1>2, <2>3, <3>1, <3>2
    <3>4. t[k] = m[k]
      BY <1>1, <3>3
    <3> QED
      BY <1>5, <2>3, <3>3, <3>4 DEF LegibleIn
  <2> QED
    BY <2>2, <2>3
<1>6. LegibleIn(Log, t)
  BY <1>5 DEF LegibleIn
<1> QED
  BY <1>1, <1>2, <1>6


\* A start restores what is legible, and before that nothing else.
LEMMA FrontRestarts ==
    ASSUME Base, Restart, OnlyWrites
    PROVE  LegibleIn(file, memory'[0])
<1> DEFINE m == memory'[0]
<1>1. Typed /\ file \in Seq(Chunk) /\ Entries(file) /\ Len(file) \in Nat /\ Current \in Nat /\ DOMAIN ops = 1 .. Current
        /\ Found(file, memory')
  <2>1. Typed /\ Log = file /\ Found(file, memory') /\ Entries(Log)
    BY RestartFound DEF Base, LogInOrder
  <2> QED
    BY <2>1, LogTyped, LenProperties DEF Typed, Current
<1>2. /\ \A i \in 1 .. Len(m) : \E n \in 1 .. Len(file) :
           /\ file[n].part = 1 /\ file[n].id = m[i].id
           /\ \/ Whole(file, n) /\ (ops[file[n].id].kind = "write" => m[i].x = 0)
              \/ Broken(file, n) /\ n < Len(file)
      /\ \A n \in 1 .. Len(file) :
           Legible(file, n) /\ (\A j \in file[n].id .. Current : WholeIn(file, j) => ops[j].kind # "flushdb")
             => \E i \in 1 .. Len(m) : m[i].id = file[n].id
  BY <1>1 DEF Found
<1>3. m \in Seq(Effects)
  BY <1>1, DBAssumption DEF Found
<1>4. \A n \in 1 .. Len(file) : file[n].id \in 1 .. Current
  <2>1. \A n \in 1 .. Len(file) : file[n] \in Chunk
    BY <1>1, ElementOfSeq
  <2>2. \A n \in 1 .. Len(file) : file[n].id <= Current
    BY RestartFound DEF Base, LogInOrder
  <2> QED
    BY <1>1, <2>1, <2>2 DEF Chunk
<1>5. \A id \in 1 .. Current : ops[id].kind = "write"
  BY <1>1 DEF OnlyWrites
<1>6. ASSUME NEW n \in 1 .. Len(file), Legible(file, n)
      PROVE  \E i \in 1 .. Len(m) : m[i] = [id |-> file[n].id, x |-> 0]
  <2>1. \A j \in file[n].id .. Current : ops[j].kind # "flushdb"
    BY <1>1, <1>4, <1>5
  <2>2. PICK i \in 1 .. Len(m) : m[i].id = file[n].id
    BY <1>2, <1>6, <2>1
  <2>3. PICK k \in 1 .. Len(file) :
           /\ file[k].part = 1 /\ file[k].id = m[i].id
           /\ \/ Whole(file, k) /\ (ops[file[k].id].kind = "write" => m[i].x = 0)
              \/ Broken(file, k) /\ k < Len(file)
    BY <1>2
  <2>4. file[n].part = 1 /\ Whole(file, n)
    BY <1>6 DEF Legible, Whole
  <2>5. k = n
    BY <1>1, <2>2, <2>3, <2>4, WholeStarts
  <2>6. m[i].x = 0
    BY <1>4, <1>5, <2>3, <2>4, <2>5 DEF Broken
  <2>7. m[i] \in Effects
    BY <1>3, ElementOfSeq
  <2> QED
    BY <2>2, <2>6, <2>7 DEF Effects
<1>7. ASSUME NEW n \in 1 .. Len(file), Legible(file, n), NEW i \in 1 .. Len(m), m[i].id < file[n].id
      PROVE  \E j \in 1 .. Len(file) : Legible(file, j) /\ file[j].id = m[i].id
  <2>1. PICK k \in 1 .. Len(file) : file[k].id = m[i].id /\ (Whole(file, k) \/ Broken(file, k))
    BY <1>2
  <2>2. k < n
    BY <1>1, <1>7, <2>1, EarlierPlace
  <2>3. k \in 1 .. n /\ \A l \in 1 .. k : l \in 1 .. n
    BY <2>2
  <2>4. Legible(file, k)
    BY <1>7, <2>1, <2>3 DEF Legible
  <2> QED
    BY <2>1, <2>4
<1> QED
  BY <1>6, <1>7 DEF LegibleIn

LEMMA FrontHeldNext ==
    ASSUME Base, Traced, FrontHeld, [Next]_vars
    PROVE  FrontHeld'
<1> SUFFICES ASSUME OnlyWrites'
             PROVE  /\ LegibleIn(Log', Held'[0])
                    /\ pc' = "append" => \E i \in 1 .. Len(memory'[0]) : memory'[0][i] = [id |-> Current', x |-> 0]
  BY DEF FrontHeld, LegibleIn, Legible, Whole, Broken
<1>1. OnlyWrites
  BY OpsKept DEF OnlyWrites
<1>2. LegibleIn(Log, Held[0]) /\ (pc = "append" => \E i \in 1 .. Len(memory[0]) : memory[0][i] = [id |-> Current, x |-> 0])
  BY <1>1 DEF FrontHeld
<1>3. Log \in Seq(Chunk) /\ Entries(Log) /\ Log' \in Seq(Chunk) /\ Entries(Log') /\ Typed /\ Typed' /\ Phases
  <2>1. Log' \in Seq(Chunk)
    <3>1. file' \in Seq(Chunk) /\ buf' \in Seq(Chunk)
      BY BaseNext DEF Base, Typed
    <3>2. file' \o buf' \in Seq(Chunk)
      BY <3>1, Joining
    <3> QED
      BY <3>1, <3>2 DEF Log
  <2>2. Entries(Log') /\ Typed'
    BY BaseNext DEF Base, LogInOrder, Entries
  <2> QED
    BY <2>1, <2>2, LogTyped DEF Base, LogInOrder
<1>4. CASE ExecuteNext
  <2>1. Log' = Log /\ pc # "down" /\ pc' = "append"
    BY <1>4, WriteAppends
  <2>2. Held = memory /\ Held' = memory'
    BY <2>1 DEF Held
  <2>3. LegibleIn(Log, memory'[0]) /\ \E i \in 1 .. Len(memory'[0]) : memory'[0][i] = [id |-> Current', x |-> 0]
    BY <1>2, <1>4, <2>2, FrontExecutes
  <2> QED
    BY <2>1, <2>2, <2>3
<1>5. CASE ~ExecuteNext /\ ~Restart
  <2>1. Held' = Held
    <3>1. CASE Bookkeeping
      BY <3>1 DEF Bookkeeping, Held
    <3>2. CASE Reply
      BY <3>2 DEF Reply, Held, history
    <3>3. CASE Crash
      BY <1>3, <3>3, CrashDies DEF Dies, MayDie, Held
    <3> QED
      BY <1>5, <3>1, <3>2, <3>3, StepKinds
  <2>2. pc' = "append" => pc = "append" /\ UNCHANGED <<memory, ops>>
    BY <1>5, WaitsToBeLogged
  <2>3. pc' = "append" => \E i \in 1 .. Len(memory'[0]) : memory'[0][i] = [id |-> Current', x |-> 0]
    BY <1>2, <2>2 DEF Current
  <2>4. CASE Begins(Log', Log)
    <3>1. LegibleIn(Log', Held[0])
      BY <1>2, <1>3, <2>4, FrontOfPart
    <3> QED
      BY <2>1, <2>3, <3>1
  <2>5. CASE aofOpen /\ pc = "append" /\ Begins(Log', Log \o Entry(Current))
    <3>1. Held = memory /\ Current \in Nat \ {0} /\ \A i \in 1 .. Len(Log) : Log[i].id < Current
      BY <2>5, AnsweredBound DEF Held, Base, LogInOrder
    <3>2. LegibleIn(Log \o Entry(Current), memory[0])
      BY <1>2, <2>5, <3>1, FrontGrows
    <3>3. Log \o Entry(Current) \in Seq(Chunk) /\ Entries(Log \o Entry(Current))
      BY <1>3, <3>1, EntryAdded
    <3> DEFINE g == Log \o Entry(Current)
    <3>4. g \in Seq(Chunk) /\ Entries(g) /\ Begins(Log', g) /\ LegibleIn(g, memory[0])
      BY <2>5, <3>2, <3>3
    <3> HIDE DEF g
    <3>5. LegibleIn(Log', memory[0])
      BY <1>3, <3>4, FrontOfPart
    <3> QED
      BY <2>1, <2>3, <3>1, <3>5
  <2> QED
    BY <2>4, <2>5, LogMoves
<1>6. CASE Restart
  <2>1. Held' = memory' /\ pc' # "append"
    BY <1>6 DEF Restart, Held
  <2>2. Log' = file
    BY <1>6, RestartFound
  <2> QED
    BY <1>1, <1>6, <2>1, <2>2, FrontRestarts
<1> QED
  BY <1>4, <1>5, <1>6

\* Only Restart leaves "down".
LEMMA OnlyRestartRestarts == ASSUME Base, [Next]_vars, Restarts PROVE Restart
<1>1. ~Bookkeeping /\ ~ExecuteNext /\ ~Reply /\ ~Crash
  BY CrashDies DEF Restarts, Bookkeeping, ExecuteNext, Continue, Begin, Reply, MayDie, Base
<1> QED
  BY <1>1, StepKinds

LEMMA PrefixFound ==
    ASSUME Base, FrontHeld, Restart, TornAtEnd, OnlyWrites
    PROVE  IsPrefix(memory'[0], before[0])
<1> DEFINE s == memory'[0]
           t == before[0]
<1>1. Typed /\ Found(file, memory') /\ Log = file /\ file \in Seq(Chunk) /\ Entries(file) /\ Len(file) \in Nat
  BY RestartFound, LenProperties DEF Base, Typed, LogInOrder
<1>2. LegibleIn(file, t)
  BY <1>1 DEF FrontHeld, Held, Restart
<1>3. LegibleIn(file, s)
  BY FrontRestarts
<1>4. s \in Seq(Effects) /\ t \in Seq(Effects) /\ Increasing(s) /\ Increasing(t)
  BY <1>1, DBAssumption DEF Found, Typed, Base, MemoryInOrder
<1>5. \A k \in 1 .. Len(file) - 1 : ~Broken(file, k)
  BY <1>1, TornSomewhere DEF TornInside
<1>6. ASSUME NEW i \in 1 .. Len(s)
      PROVE  \E n \in 1 .. Len(file) : Legible(file, n) /\ file[n].id = s[i].id
  <2>1. PICK n \in 1 .. Len(file) :
          /\ file[n].id = s[i].id
          /\ Whole(file, n) \/ (Broken(file, n) /\ n < Len(file))
    BY <1>1 DEF Found
  <2>2. n \in 1 .. Len(file) - 1 /\ \A k \in 1 .. n : k \in 1 .. Len(file) - 1
    BY <1>1, <2>1 DEF Whole
  <2>3. Legible(file, n)
    BY <1>5, <2>1, <2>2 DEF Legible
  <2> QED
    BY <2>1, <2>3
<1>7. ASSUME NEW i \in 1 .. Len(s) PROVE \E p \in 1 .. Len(t) : t[p] = s[i]
  <2>1. PICK n \in 1 .. Len(file) : Legible(file, n) /\ file[n].id = s[i].id
    BY <1>6
  <2>2. PICK p \in 1 .. Len(t) : t[p] = [id |-> file[n].id, x |-> 0]
    BY <1>2, <2>1 DEF LegibleIn
  <2>3. PICK q \in 1 .. Len(s) : s[q] = [id |-> file[n].id, x |-> 0]
    BY <1>3, <2>1 DEF LegibleIn
  <2>4. q = i
    <3>1. s[q].id = s[i].id
      BY <2>1, <2>3
    <3>2. s[i].id \in Nat /\ s[q].id \in Nat /\ Len(s) \in Nat
      <4> HIDE DEF s
      <4>1. s[i] \in Effects /\ s[q] \in Effects
        BY <1>4, ElementOfSeq
      <4> QED
        BY <1>4, <4>1, LenProperties DEF Effects
    <3>3. ~(q < i) /\ ~(i < q)
      BY <1>4, <3>1, <3>2 DEF Increasing
    <3> HIDE DEF s
    <3> QED
      BY <3>2, <3>3
  <2> QED
    BY <2>2, <2>3, <2>4
<1>8. ASSUME NEW i \in 1 .. Len(s), NEW k \in 1 .. Len(t), t[k].id < s[i].id
      PROVE  \E q \in 1 .. Len(s) : s[q].id = t[k].id
  <2>1. PICK n \in 1 .. Len(file) : Legible(file, n) /\ file[n].id = s[i].id
    BY <1>6
  <2>2. PICK j \in 1 .. Len(file) : Legible(file, j) /\ file[j].id = t[k].id
    BY <1>2, <1>8, <2>1 DEF LegibleIn
  <2>3. PICK q \in 1 .. Len(s) : s[q] = [id |-> file[j].id, x |-> 0]
    BY <1>3, <2>2 DEF LegibleIn
  <2> QED
    BY <2>2, <2>3
<1> HIDE DEF s, t
<1>9. Len(s) <= Len(t) /\ \A i \in 1 .. Len(s) : i \in 1 .. Len(t) /\ s[i] = t[i]
  BY <1>4, <1>7, <1>8, Aligned
<1>10. IsPrefix(s, t)
  BY <1>4, <1>9, PrefixOf
<1> QED
  BY <1>10 DEF s, t


-----------------------------------------------------------------------------
(* A log without torn entries says what the databases hold.                 *)

LEMMA AgreesRestarts ==
    ASSUME Base, Restart, Expressible, Intact(file)
    PROVE  Agrees(memory', file)
<1> DEFINE m == memory'[0]
<1>1. Typed /\ file \in Seq(Chunk) /\ Current \in Nat /\ DOMAIN ops = 1 .. Current /\ Found(file, memory') /\ m \in Seq(Effects)
  <2>1. Typed /\ Found(file, memory')
    BY RestartFound DEF Base
  <2> QED
    BY <2>1, LogTyped, LenProperties, DBAssumption DEF Typed, Current, Found
<1>2. \A id \in 1 .. Current : ops[id].kind \in {"write", "flushdb"}
  BY <1>1 DEF Expressible
<1>3. ASSUME NEW i \in 1 .. Len(m)
      PROVE  /\ m[i].id \in 1 .. Current /\ WholeIn(file, m[i].id)
             /\ ops[m[i].id].kind = "write" /\ m[i].x = 0
             /\ \A j \in m[i].id .. Current : WholeIn(file, j) => ops[j].kind # "flushdb"
  <2>1. PICK n \in 1 .. Len(file) :
          /\ file[n].id = m[i].id
          /\ \/ Whole(file, n) /\ (ops[file[n].id].kind = "write" => m[i].x = 0)
             \/ Broken(file, n) /\ n < Len(file)
    BY <1>1 DEF Found
  <2>2. Whole(file, n) /\ (ops[m[i].id].kind = "write" => m[i].x = 0)
    BY <2>1 DEF Intact
  <2>3. WholeIn(file, m[i].id)
    BY <2>1, <2>2 DEF WholeIn
  <2>4. m[i] \in Effects
    BY <1>1, ElementOfSeq
  <2>5. m[i].id \in Nat \ {0} /\ m[i].id <= Current
    BY <1>1, <2>4, DBAssumption DEF Effects, Found
  <2>6. m[i].id \in 1 .. Current /\ m[i].id \in m[i].id .. Current
    BY <1>1, <2>5
  <2>7. \A j \in m[i].id .. Current : WholeIn(file, j) => ops[j].kind # "flushdb"
    BY <1>1 DEF Found, Intact
  <2>8. ops[m[i].id].kind = "write"
    BY <1>2, <2>3, <2>6, <2>7
  <2> QED
    BY <2>2, <2>3, <2>6, <2>7, <2>8
<1>4. ASSUME NEW id \in 1 .. Current, WholeIn(file, id), ops[id].kind = "write",
             \A j \in id .. Current : WholeIn(file, j) => ops[j].kind # "flushdb"
      PROVE  \E i \in 1 .. Len(m) : m[i].id = id
  <2>1. PICK n \in 1 .. Len(file) : Whole(file, n) /\ file[n].id = id
    BY <1>4 DEF WholeIn
  <2>2. \A k \in 1 .. n : k \in 1 .. Len(file)
    <3>1. Len(file) \in Nat
      BY <1>1, LenProperties
    <3> QED
      BY <3>1
  <2>3. Legible(file, n)
    BY <2>1, <2>2 DEF Legible, Intact
  <2> QED
    BY <1>1, <1>4, <2>1, <2>3 DEF Found
<1>5. \A d \in DBs : d # 0 => memory'[d] = << >>
  BY <1>1 DEF Found
<1>6. \A id \in 1 .. Current : (\E i \in 1 .. Len(m) : m[i].id = id) <=>
            /\ WholeIn(file, id) /\ ops[id].kind = "write"
            /\ \A j \in id .. Current : WholeIn(file, j) => ops[j].kind # "flushdb"
  BY <1>3, <1>4
<1> QED
  BY <1>3, <1>5, <1>6 DEF Agrees

\* An entry added makes itself whole and no other, and mends nothing.
LEMMA WholeAdded ==
    ASSUME NEW f \in Seq(Chunk), Entries(f), NEW id \in Nat \ {0}, \A i \in 1 .. Len(f) : f[i].id < id
    PROVE  /\ \A j : WholeIn(f \o Entry(id), j) <=> WholeIn(f, j) \/ j = id
           /\ Intact(f \o Entry(id)) => Intact(f)
<1> DEFINE g == f \o Entry(id)
           k == Len(f)
<1>1. /\ g \in Seq(Chunk) /\ Begins(f, g) /\ Len(g) = k + 2 /\ k \in Nat
      /\ g[k + 1] = [id |-> id, part |-> 1] /\ g[k + 2] = [id |-> id, part |-> 2]
  BY EntryAdded
<1>2. WholeIn(g, id)
  BY EntryWhole
<1> HIDE DEF g
<1>3. /\ \A n \in 1 .. k : n \in 1 .. Len(g) /\ f[n] = g[n]
      /\ \A n \in 1 .. k - 1 : Whole(f, n) <=> Whole(g, n)
      /\ \A n \in 1 .. k - 1 : Broken(f, n) <=> Broken(g, n)
      /\ \A j : WholeIn(f, j) => WholeIn(g, j)
  BY <1>1, WholeKept
<1>4. \A n \in 1 .. k : ~Whole(g, k)
  BY <1>1 DEF Whole
<1>5. ~Whole(g, k + 2)
  BY <1>1 DEF Whole
<1>6. \A n \in 1 .. k : n \in 1 .. k - 1 \/ n = k
  <2>1. k \in Nat
    BY <1>1
  <2> HIDE DEF k
  <2> QED
    BY <2>1
<1>7. \A n \in 1 .. Len(g) : n \in 1 .. k - 1 \/ (n \in 1 .. k /\ n = k) \/ n = k + 1 \/ n = k + 2
  <2>1. k \in Nat /\ Len(g) = k + 2
    BY <1>1
  <2> HIDE DEF k
  <2> QED
    BY <2>1
<1>8. \A n \in 1 .. k - 1 : n \in 1 .. k
  <2> HIDE DEF k
  <2> QED
    BY <1>1
<1>9. ASSUME NEW j, WholeIn(g, j), j # id PROVE WholeIn(f, j)
  <2>1. PICK n \in 1 .. Len(g) : Whole(g, n) /\ g[n].id = j
    BY <1>9 DEF WholeIn
  <2>2. n # k + 1 /\ n # k + 2 /\ ~(n \in 1 .. k /\ n = k)
    BY <1>1, <1>4, <1>5, <1>9, <2>1
  <2>3. n \in 1 .. k - 1
    BY <1>7, <2>2
  <2> QED
    BY <1>3, <1>8, <2>1, <2>3 DEF WholeIn
<1>10. ASSUME Intact(g), NEW n \in 1 .. k PROVE ~Broken(f, n)
  <2>1. CASE n \in 1 .. k - 1
    BY <1>3, <1>10, <2>1 DEF Intact
  <2>2. CASE n = k
    <3>1. ~Whole(g, k) /\ g[n] = f[n] /\ n \in 1 .. Len(g)
      BY <1>3, <1>4, <2>2
    <3>2. ~Broken(g, n)
      BY <1>10, <3>1 DEF Intact
    <3> QED
      BY <2>2, <3>1, <3>2 DEF Broken
  <2> QED
    BY <1>6, <2>1, <2>2
<1>11. Intact(g) => Intact(f)
  BY <1>10 DEF Intact
<1> QED
  BY <1>2, <1>3, <1>9, <1>11 DEF g

\* A write or a FLUSHDB does to the database what its entry says.
LEMMA AgreesExecutes ==
    ASSUME Base, ExecuteNext, Expressible', Expressible /\ Intact(Log) => Agrees(memory, Log), Intact(Soon')
    PROVE  Agrees(memory, Soon)'
<1>1. Typed /\ Current \in Nat /\ memory \in [DBs -> Seq(Effects)] /\ Log \in Seq(Chunk) /\ Entries(Log)
        /\ \A i \in 1 .. Len(Log) : Log[i].id <= Current
  BY LogTyped DEF Base, Typed, LogInOrder
<1>2. PICK kind \in Kinds, d \in DBs : Execute(kind, d)
  BY DEF ExecuteNext
<1>3. PICK draw \in Draws : memory' = Apply(memory, kind, d, Effect(Current + 1, Outcome(kind, draw)))
  BY <1>2 DEF Execute
<1>4. /\ Current' = Current + 1 /\ DOMAIN ops' = 1 .. Current + 1 /\ DOMAIN ops = 1 .. Current
      /\ ops'[Current + 1] = [kind |-> kind, db |-> d] /\ \A id \in 1 .. Current : ops'[id] = ops[id]
  <2>1. ops \in Seq(Command) /\ [kind |-> kind, db |-> d] \in Command /\ ops' = Append(ops, [kind |-> kind, db |-> d])
    BY <1>1, <1>2 DEF Typed, Command, Execute
  <2>2. Len(ops) = Current /\ Current' = Len(ops')
    BY DEF Current
  <2>3. ops' \in Seq(Command) /\ Len(ops') = Current + 1
    BY <2>1, <2>2, AppendProperties
  <2> QED
    BY <2>1, <2>2, <2>3, AppendProperties, LenProperties
<1>5. kind \in {"write", "flushdb"} /\ d = 0
  <2>1. Current + 1 \in DOMAIN ops'
    BY <1>1, <1>4
  <2> QED
    BY <1>4, <2>1 DEF Expressible
<1>6. Expressible
  <2>1. \A id \in 1 .. Current : id \in 1 .. Current + 1
    BY <1>1
  <2> QED
    BY <1>4, <2>1 DEF Expressible
<1> DEFINE k == Current + 1
           g == Log \o Entry(k)
<1>7. k \in Nat \ {0} /\ Current \in Nat /\ k = Current + 1 /\ \A i \in 1 .. Len(Log) : Log[i].id < k
  <2>1. \A i \in 1 .. Len(Log) : Log[i].id \in Nat
    <3>1. \A i \in 1 .. Len(Log) : Log[i] \in Chunk
      BY <1>1, ElementOfSeq
    <3> QED
      BY <3>1 DEF Chunk
  <2> QED
    BY <1>1, <2>1
<1>8. Soon' = g
  <2>1. file' = file /\ buf' = buf /\ aofOpen' = aofOpen /\ pc' = "append"
    BY <1>2, <1>5 DEF Execute, disk, IsLogged
  <2>2. Log' = Log
    BY <2>1 DEF Log
  <2> QED
    BY <1>4, <2>1, <2>2 DEF Soon, Entry
<1> HIDE DEF k
<1>9. (\A j : WholeIn(g, j) <=> WholeIn(Log, j) \/ j = k) /\ Intact(Log)
  <2>1. (\A j : WholeIn(g, j) <=> WholeIn(Log, j) \/ j = k) /\ (Intact(g) => Intact(Log))
    BY <1>1, <1>7, WholeAdded
  <2>2. Intact(g)
    BY <1>8
  <2> QED
    BY <2>1, <2>2
<1> HIDE DEF g
<1>10. Agrees(memory, Log)
  BY <1>6, <1>9
<1> DEFINE m == memory[0]
           t == memory'[0]
           e == [id |-> k, x |-> 0]
           W(id) == /\ WholeIn(g, id) /\ ops'[id].kind = "write"
                    /\ \A j \in id .. k : WholeIn(g, j) => ops'[j].kind # "flushdb"
<1>11. m \in Seq(Effects) /\ Len(m) \in Nat /\ e \in Effects
  BY <1>1, <1>7, DBAssumption, LenProperties DEF Effects
<1>12. \A c \in DBs : c # 0 => memory'[c] = << >>
  <2>1. \A c \in DBs : c # 0 => memory'[c] = memory[c]
    BY <1>1, <1>3, <1>5 DEF Apply
  <2> QED
    BY <2>1, <1>10 DEF Agrees
<1>13. CASE kind = "write"
  <2>1. t = Append(m, e)
    BY <1>1, <1>3, <1>5, <1>13, DBAssumption DEF Apply, Effect, Outcome, k
  <2> HIDE DEF e
  <2>2. Len(t) = Len(m) + 1 /\ t[Len(m) + 1] = e /\ \A i \in 1 .. Len(m) : t[i] = m[i]
    BY <1>11, <2>1, AppendProperties
  <2>3. /\ \A i \in 1 .. Len(t) : i \in 1 .. Len(m) \/ i = Len(m) + 1
        /\ \A i \in 1 .. Len(m) : i \in 1 .. Len(t)
        /\ Len(m) + 1 \in 1 .. Len(t)
    <3> DEFINE n == Len(m)
    <3>1. n \in Nat /\ Len(t) = n + 1
      BY <1>11, <2>2
    <3> HIDE DEF n, t
    <3>2. (\A i \in 1 .. Len(t) : i \in 1 .. n \/ i = n + 1) /\ (\A i \in 1 .. n : i \in 1 .. Len(t)) /\ n + 1 \in 1 .. Len(t)
      BY <3>1
    <3> QED
      BY <3>2 DEF n
  <2>4. e.id = k /\ e.x = 0
    BY DEF e
  <2>5. \A i \in 1 .. Len(t) : t[i].x = 0
    BY <1>10, <2>2, <2>3, <2>4 DEF Agrees
  <2>6. ASSUME NEW id \in 1 .. Current
        PROVE  (\E i \in 1 .. Len(t) : t[i].id = id) <=> W(id)
    <3>1. id # k /\ ops'[id] = ops[id] /\ ops'[k].kind = "write"
      BY <1>4, <1>7, <1>13
    <3>2. (\E i \in 1 .. Len(t) : t[i].id = id) <=> \E i \in 1 .. Len(m) : m[i].id = id
      BY <2>2, <2>3, <2>4, <3>1
    <3>3. WholeIn(g, id) <=> WholeIn(Log, id)
      BY <1>9, <3>1
    <3>4. (\A j \in id .. k : WholeIn(g, j) => ops'[j].kind # "flushdb")
            <=> \A j \in id .. Current : WholeIn(Log, j) => ops[j].kind # "flushdb"
      <4>1. \A j \in id .. k : j = k \/ (j \in id .. Current /\ j # k /\ ops'[j] = ops[j])
        <5>1. \A j \in id .. k : j = k \/ (j \in id .. Current /\ j # k /\ j \in 1 .. Current)
          BY <1>7
        <5> QED
          BY <1>4, <5>1
      <4>2. \A j \in id .. Current : j \in id .. k /\ j # k
        BY <1>7
      <4> QED
        BY <1>9, <3>1, <4>1, <4>2
    <3>5. (\E i \in 1 .. Len(m) : m[i].id = id) <=>
            /\ WholeIn(Log, id) /\ ops[id].kind = "write"
            /\ \A j \in id .. Current : WholeIn(Log, j) => ops[j].kind # "flushdb"
      BY <1>10 DEF Agrees
    <3> QED
      BY <3>1, <3>2, <3>3, <3>4, <3>5
  <2>7. (\E i \in 1 .. Len(t) : t[i].id = k) /\ W(k)
    <3>1. \A j \in k .. k : j = k
      BY <1>7
    <3> QED
      BY <1>4, <1>7, <1>9, <1>13, <2>2, <2>3, <2>4, <3>1
  <2>8. \A id \in 1 .. k : (\E i \in 1 .. Len(t) : t[i].id = id) <=> W(id)
    <3>1. \A id \in 1 .. k : id = k \/ id \in 1 .. Current
      BY <1>7
    <3> HIDE DEF W
    <3> QED
      BY <2>6, <2>7, <3>1
  <2> QED
    BY <1>4, <1>7, <1>8, <1>12, <2>5, <2>8 DEF Agrees
<1>14. CASE kind = "flushdb"
  <2>1. t = << >>
    BY <1>1, <1>3, <1>5, <1>14, DBAssumption DEF Apply
  <2>2. 1 .. Len(t) = {}
    BY <2>1
  <2>3. ops'[k].kind = "flushdb" /\ WholeIn(g, k)
    BY <1>4, <1>7, <1>9, <1>14
  <2>4. \A id \in 1 .. k : ~W(id)
    <3>1. \A id \in 1 .. k : k \in id .. k
      BY <1>7
    <3> QED
      BY <2>3, <3>1
  <2> QED
    BY <1>4, <1>7, <1>8, <1>12, <2>2, <2>4 DEF Agrees
<1> QED
  BY <1>5, <1>13, <1>14


LEMMA RunAgreesNext ==
    ASSUME Base, RunAgrees, [Next]_vars
    PROVE  RunAgrees'
<1> SUFFICES ASSUME aofOpen', pc' # "down", Intact(Soon'), Expressible'
             PROVE  Agrees(memory, Soon)'
  BY DEF RunAgrees, Intact, Broken, Whole
<1>1. Typed /\ Current \in Nat
  BY LogTyped DEF Base
<1>2. CASE ExecuteNext
  <2>1. aofOpen /\ pc # "down" /\ pc # "append"
    BY <1>2 DEF ExecuteNext, Continue, Begin, Execute
  <2>2. Soon = Log
    BY <2>1 DEF Soon
  <2>3. Expressible /\ Intact(Log) => Agrees(memory, Log)
    BY <2>1, <2>2 DEF RunAgrees
  <2> QED
    BY <1>2, <2>3, AgreesExecutes
<1>3. CASE ~ExecuteNext
  <2>1. ops' = ops /\ Current' = Current
    BY <1>3, OpsKept
  <2>2. Expressible
    BY <2>1 DEF Expressible
  <2>3. Agrees(memory', Soon') => Agrees(memory, Soon)'
    BY <2>1, SMTT(30) DEF Agrees, WholeIn, Whole
  <2>4. pc' = "append" => pc = "append"
    BY <1>3, WaitsToBeLogged
  <2>5. CASE Restart
    <3>1. Soon' = file
      BY <2>5, RestartFound DEF Restart, Soon
    <3>2. Agrees(memory', file)
      BY <2>2, <2>5, <3>1, AgreesRestarts
    <3> QED
      BY <2>3, <3>1, <3>2
  <2>6. CASE Reply
    <3>1. file' = file /\ buf' = buf /\ aofOpen' = aofOpen /\ memory' = memory /\ pc = "reply" /\ pc' = "batch"
      BY <2>6 DEF Reply, disk
    <3>2. Soon' = Soon
      BY <3>1 DEF Soon, Log
    <3> QED
      BY <2>2, <2>3, <3>1, <3>2 DEF RunAgrees
  <2>7. CASE Crash
    BY <1>1, <2>7, CrashDies DEF Dies, Base
  <2>8. CASE Bookkeeping
    <3>1. memory' = memory /\ pc # "down"
      BY <2>8 DEF Bookkeeping
    <3>2. aofOpen /\ Soon' = Soon
      <4>1. CASE aofOpen /\ Log' = Log /\ (pc = "append" => pc' = "append")
        BY <2>1, <2>4, <4>1 DEF Soon, Entry
      <4>2. CASE aofOpen /\ pc = "append" /\ Log' = Log \o Entry(Current)
        <5>1. pc' # "append"
          <6> SUFFICES ASSUME pc' = "append" PROVE FALSE
            OBVIOUS
          <6>1. \A i \in 1 .. Len(Log') : Log'[i].id < Current
            <7>1. LogInOrder'
              BY BaseNext DEF Base
            <7> QED
              BY <2>1, <7>1 DEF LogInOrder
          <6>2. Current \in Nat \ {0} /\ Entries(Log) /\ Log \in Seq(Chunk) /\ \A i \in 1 .. Len(Log) : Log[i].id < Current
            BY <4>2, AnsweredBound, LogTyped DEF Base, LogInOrder
          <6>3. WholeIn(Log', Current)
            BY <4>2, <6>2, EntryWhole
          <6> QED
            BY <1>1, <6>1, <6>3 DEF WholeIn
        <5> QED
          BY <4>2, <5>1 DEF Soon
      <4> QED
        BY <2>8, <4>1, <4>2 DEF Bookkeeping
    <3> QED
      BY <2>2, <2>3, <3>1, <3>2 DEF RunAgrees
  <2> QED
    BY <1>3, <2>5, <2>6, <2>7, <2>8, StepKinds
<1> QED
  BY <1>2, <1>3

LEMMA CleanAgreesNext ==
    ASSUME Base, RunAgrees, CleanAgrees, [Next]_vars
    PROVE  CleanAgrees'
<1> SUFFICES ASSUME clean'
             PROVE  /\ buf' = << >> /\ synced' = Len(file') /\ pc' \in {"wait", "batch", "down"}
                    /\ Intact(file') /\ Expressible' => Agrees(Held, file)'
  BY DEF CleanAgrees, Intact, Broken, Whole
<1>1. Typed /\ file \in Seq(Chunk) /\ Phases
  BY DEF Base, Typed
<1>2. ~ExecuteNext
  BY DEF ExecuteNext, Execute
<1>3. ops' = ops /\ Current' = Current
  BY <1>2, OpsKept
<1>4. Expressible' = Expressible
  BY <1>3 DEF Expressible
<1>5. ASSUME Agrees(Held', file') PROVE Agrees(Held, file)'
  <2>1. /\ \A d \in DBs : d # 0 => Held'[d] = << >>
        /\ \A i \in 1 .. Len(Held'[0]) : Held'[0][i].x = 0
    BY <1>5 DEF Agrees
  <2>2. \A id \in 1 .. Current : (\E i \in 1 .. Len(Held'[0]) : Held'[0][i].id = id) <=>
           /\ WholeIn(file', id) /\ ops[id].kind = "write"
           /\ \A j \in id .. Current : WholeIn(file', j) => ops[j].kind # "flushdb"
    BY <1>5 DEF Agrees
  <2>3. \A id : WholeIn(file, id)' <=> WholeIn(file', id)
    BY DEF WholeIn, Whole
  <2> QED
    BY <2>1, <2>2, <2>3, <1>3 DEF Agrees
<1>6. CASE CloseAOF
  <2>1. /\ aofOpen /\ file' = file \o buf /\ buf' = << >> /\ pc' = pc /\ memory' = memory /\ pc \in {"wait", "batch"}
        /\ synced' = Len(file')
    BY <1>6 DEF CloseAOF
  <2>2. file' = Log /\ Soon = Log /\ Held' = memory
    BY <2>1 DEF Log, Soon, Held
  <2>3. Intact(file') /\ Expressible => Agrees(memory, file')
    BY <2>1, <2>2 DEF RunAgrees
  <2> QED
    BY <1>4, <1>5, <2>1, <2>2, <2>3
<1>7. CASE Restart
  <2>1. clean /\ file' = file /\ synced' = synced /\ buf' = buf /\ pc' = "wait"
    BY <1>7 DEF Restart, disk, history
  <2>2. buf = << >> /\ synced = Len(file) /\ Held' = memory'
    BY <2>1 DEF CleanAgrees, Held
  <2>3. Intact(file) /\ Expressible => Agrees(memory', file)
    BY <1>7, AgreesRestarts
  <2> QED
    BY <1>4, <1>5, <2>1, <2>2, <2>3
<1>8. CASE Crash
  <2>1. Dies /\ pc # "down" /\ clean /\ file' = file /\ synced' = synced /\ synced = Len(file)
    BY <1>1, <1>8, CrashDies DEF MayDie, CleanAgrees
  <2>2. Held' = Held /\ buf' = << >> /\ pc' = "down"
    BY <2>1 DEF Dies, Held
  <2>3. Intact(file) /\ Expressible => Agrees(Held, file)
    BY <2>1 DEF CleanAgrees
  <2> QED
    BY <1>4, <1>5, <2>1, <2>2, <2>3
<1>9. CASE ~CloseAOF /\ ~Restart /\ ~Crash
  <2>1. ~(EndBatch /\ ~epollOpen) /\ ~Exit /\ ~Kill /\ ~PowerCut
    BY <1>9 DEF Crash
  <2>2. clean
    BY <1>2, <1>9, <2>1 DEF Next, Loop, vars, Wake, EndBatch, LogAppend, LogFlush, LogSync, Reply, AppendFails,
         FlushFails, FileFails, Aside, BgSync, FlushAside, FlushFailsAside, Signal, WriteBack, process, disk, history
  <2>3. buf = << >> /\ synced = Len(file) /\ pc \in {"wait", "batch", "down"} /\ (Intact(file) /\ Expressible => Agrees(Held, file))
    BY <2>2 DEF CleanAgrees
  <2>4. ~FlushFailsAside
    <3>1. Len(buf) = 0
      BY <2>3
    <3>2. 0 .. Len(buf) - 1 = {}
      BY <3>1
    <3> QED
      BY <3>2 DEF FlushFailsAside, FileFails
  <2>5. UNCHANGED vars \/ Wake \/ (EndBatch /\ epollOpen) \/ BgSync \/ FlushAside \/ Signal \/ WriteBack
    BY <1>2, <1>9, <2>1, <2>3, <2>4 DEF Next, Loop, Aside, LogAppend, LogFlush, LogSync, Reply, AppendFails, FlushFails
  <2>6. buf' = << >> /\ (file' = file \/ file' = file \o buf) /\ UNCHANGED <<memory, before>>
          /\ (synced' \in {synced, Len(file), Len(file')})
          /\ (pc' = pc \/ (pc' \in {"wait", "batch"} /\ pc \in {"wait", "batch"}))
    BY <2>3, <2>5 DEF vars, Wake, EndBatch, BgSync, FlushAside, Signal, WriteBack, process, disk, history
  <2>7. file' = file
    BY <1>1, <2>3, <2>6, ConcatEmptySeq
  <2>8. Held' = Held
    BY <2>6 DEF Held
  <2> QED
    BY <1>4, <1>5, <2>3, <2>6, <2>7, <2>8
<1> QED
  BY <1>6, <1>7, <1>8, <1>9

\* Two databases that agree with the same log are the same.
LEMMA OnlyOneAgrees ==
    ASSUME Current \in Nat, NEW f, NEW m \in [DBs -> Seq(Effects)], NEW n \in [DBs -> Seq(Effects)],
           Agrees(m, f), Agrees(n, f), \A d \in DBs : Increasing(m[d]) /\ Increasing(n[d]),
           \A d \in DBs : (\A i \in 1 .. Len(m[d]) : m[d][i].id <= Current) /\ \A i \in 1 .. Len(n[d]) : n[d][i].id <= Current
    PROVE  m = n
<1>1. m[0] \in Seq(Effects) /\ n[0] \in Seq(Effects) /\ Increasing(m[0]) /\ Increasing(n[0])
  BY DBAssumption
<1>2. ASSUME NEW s \in Seq(Effects), NEW t \in Seq(Effects),
             \A i \in 1 .. Len(s) : s[i].x = 0 /\ s[i].id <= Current, \A i \in 1 .. Len(t) : t[i].x = 0,
             \A id \in 1 .. Current : (\E i \in 1 .. Len(s) : s[i].id = id) => \E i \in 1 .. Len(t) : t[i].id = id,
             NEW i \in 1 .. Len(s)
      PROVE  \E p \in 1 .. Len(t) : t[p] = s[i]
  <2>1. s[i] \in Effects /\ \A p \in 1 .. Len(t) : t[p] \in Effects
    BY <1>2, ElementOfSeq
  <2>2. s[i].id \in 1 .. Current
    BY <1>2, <2>1 DEF Effects
  <2>3. PICK p \in 1 .. Len(t) : t[p].id = s[i].id
    BY <1>2, <2>2
  <2>4. s[i].x = t[p].x
    BY <1>2
  <2>5. t[p] = [id |-> s[i].id, x |-> s[i].x] /\ s[i] = [id |-> s[i].id, x |-> s[i].x]
    <3>1. \A a \in Effects : a = [id |-> a.id, x |-> a.x]
      BY DEF Effects
    <3>2. t[p] = [id |-> t[p].id, x |-> t[p].x] /\ s[i] = [id |-> s[i].id, x |-> s[i].x]
      BY <2>1, <3>1
    <3> QED
      BY <2>3, <2>4, <3>2
  <2> QED
    BY <2>5
<1>3. /\ \A id \in 1 .. Current : (\E i \in 1 .. Len(m[0]) : m[0][i].id = id) <=> \E i \in 1 .. Len(n[0]) : n[0][i].id = id
      /\ \A i \in 1 .. Len(m[0]) : m[0][i].x = 0 /\ m[0][i].id <= Current
      /\ \A i \in 1 .. Len(n[0]) : n[0][i].x = 0 /\ n[0][i].id <= Current
  BY DBAssumption DEF Agrees
<1>4. (\A i \in 1 .. Len(m[0]) : \E p \in 1 .. Len(n[0]) : n[0][p] = m[0][i])
        /\ \A i \in 1 .. Len(n[0]) : \E p \in 1 .. Len(m[0]) : m[0][p] = n[0][i]
  <2> DEFINE s == m[0]
             t == n[0]
  <2>1. s \in Seq(Effects) /\ t \in Seq(Effects)
    BY <1>1
  <2>2. /\ \A id \in 1 .. Current : (\E i \in 1 .. Len(s) : s[i].id = id) <=> \E i \in 1 .. Len(t) : t[i].id = id
        /\ \A i \in 1 .. Len(s) : s[i].x = 0 /\ s[i].id <= Current
        /\ \A i \in 1 .. Len(t) : t[i].x = 0 /\ t[i].id <= Current
    BY <1>3
  <2> HIDE DEF s, t
  <2>3. \A i \in 1 .. Len(s) : \E p \in 1 .. Len(t) : t[p] = s[i]
    BY <1>2, <2>1, <2>2
  <2>4. \A i \in 1 .. Len(t) : \E p \in 1 .. Len(s) : s[p] = t[i]
    BY <1>2, <2>1, <2>2
  <2> QED
    BY <2>3, <2>4 DEF s, t
<1>5. m[0] = n[0]
  BY <1>1, <1>4, Same
<1>6. \A d \in DBs : m[d] = n[d]
  BY <1>5 DEF Agrees
<1> QED
  BY <1>6

LEMMA ShutdownInvisible ==
    ASSUME Base, CleanAgrees, Restart, clean, \A i \in DOMAIN file : ~Torn(i), Expressible
    PROVE  memory' = before
<1>1. Typed /\ Current \in Nat /\ file \in Seq(Chunk) /\ pc = "down" /\ Found(file, memory') /\ DOMAIN file = 1 .. Len(file)
  <2>1. Typed /\ pc = "down" /\ Found(file, memory')
    BY RestartFound DEF Base, Restart
  <2> QED
    BY <2>1, LogTyped, LenProperties DEF Typed
<1>2. Intact(file)
  BY <1>1 DEF Torn, Intact, Broken
<1>3. Agrees(before, file)
  BY <1>1, <1>2 DEF CleanAgrees, Held
<1>4. Agrees(memory', file)
  BY <1>2, AgreesRestarts
<1>5. memory' \in [DBs -> Seq(Effects)] /\ before \in [DBs -> Seq(Effects)]
  BY <1>1 DEF Found, Typed
<1>6. \A d \in DBs : Increasing(memory'[d]) /\ Increasing(before[d])
        /\ (\A i \in 1 .. Len(memory'[d]) : memory'[d][i].id <= Current)
        /\ \A i \in 1 .. Len(before[d]) : before[d][i].id <= Current
  BY <1>1 DEF Found, Base, MemoryInOrder
<1> DEFINE m == memory'
<1> HIDE DEF m
<1>7. m = before
  BY <1>1, <1>3, <1>4, <1>5, <1>6, OnlyOneAgrees DEF m
<1> QED
  BY <1>7 DEF m

-----------------------------------------------------------------------------
(* The theorems                                                             *)

Resumable == Inductive /\ FrontHeld /\ RunAgrees /\ CleanAgrees

LEMMA ResumableInit == ASSUME Init PROVE Resumable
<1>1. Inductive
  BY InductiveInit
<1>2. Log = << >> /\ pc = "wait" /\ Current = 0 /\ ~clean /\ memory = [d \in DBs |-> << >>]
  BY ConcatEmptySeq DEF Init, Log, Current
<1>3. 1 .. Len(Log) = {}
  BY <1>2
<1>4. FrontHeld
  BY <1>2, <1>3 DEF FrontHeld, LegibleIn
<1>5. RunAgrees
  <2>1. Soon = Log /\ 1 .. Current = {}
    BY <1>2 DEF Soon
  <2>2. \A d \in DBs : memory[d] = << >> /\ 1 .. Len(memory[d]) = {}
    BY <1>2
  <2> QED
    BY <2>1, <2>2, DBAssumption DEF RunAgrees, Agrees
<1>6. CleanAgrees
  BY <1>2 DEF CleanAgrees
<1> QED
  BY <1>1, <1>4, <1>5, <1>6 DEF Resumable

LEMMA ResumableNext == ASSUME Resumable, [Next]_vars PROVE Resumable'
<1>1. Inductive' /\ FrontHeld' /\ RunAgrees' /\ CleanAgrees'
  BY InductiveNext, FrontHeldNext, RunAgreesNext, CleanAgreesNext DEF Resumable, Inductive
<1> QED
  BY <1>1 DEF Resumable

\* The invariant, with what the log says of the databases, holds of every
\* execution.
THEOREM ResumableAlways == Spec => []Resumable
<1>1. Init => Resumable
  BY ResumableInit
<1>2. Resumable /\ [Next]_vars => Resumable'
  BY ResumableNext
<1> QED
  BY <1>1, <1>2, PTL DEF Spec

\* If the clients only write, what New finds after a crash is a prefix of what
\* the process held when it died, whatever was buffered, written and synced.
THEOREM CrashCostsTheLatest == Spec => RestartFindsPrefix
<1>1. Resumable /\ [Next]_vars => [Restarts /\ TornAtEnd /\ OnlyWrites => IsPrefix(memory'[0], before[0])]_vars
  <2> SUFFICES ASSUME Resumable, [Next]_vars, Restarts, TornAtEnd, OnlyWrites
               PROVE  IsPrefix(memory'[0], before[0])
    OBVIOUS
  <2>1. Restart
    BY OnlyRestartRestarts DEF Resumable, Inductive
  <2> QED
    BY <2>1, PrefixFound DEF Resumable, Inductive
<1> QED
  BY <1>1, ResumableAlways, PTL DEF Spec, RestartFindsPrefix

\* Once AOF.Close has written out the log between two commands and no command
\* has run since, New restores what the process held, as far as the log can
\* express it, whether the process ended by os.Exit, because main returned, by a
\* kill or by a power cut.
THEOREM ShutdownIsInvisible == Spec => ShutdownKeepsState
<1>1. Resumable /\ [Next]_vars => [CleanRestart /\ Expressible => memory' = before]_vars
  <2> SUFFICES ASSUME Resumable, [Next]_vars, CleanRestart, Expressible
               PROVE  memory' = before
    OBVIOUS
  <2>1. Restart
    BY OnlyRestartRestarts DEF CleanRestart, Resumable, Inductive
  <2> QED
    BY <2>1, ShutdownInvisible DEF CleanRestart, Resumable, Inductive
<1> QED
  BY <1>1, ResumableAlways, PTL DEF Spec, ShutdownKeepsState

=============================================================================
