-------------------------- MODULE PersistenceProof --------------------------
(***************************************************************************)
(* Proofs about Persistence, for every number of databases, commands and   *)
(* crashes, every size of the buffer and every combination of faults.      *)
(*                                                                         *)
(* What the log holds is the chunks in the file and, as long as the file   *)
(* takes writes, the chunks in the buffer after them.  The entries of this *)
(* sequence are in order of execution, each in two adjacent chunks unless  *)
(* it is torn.  From this shape follows what Replay can make of the file,  *)
(* by induction along the recursion of ReadFrom; the rest of the invariant *)
(* relates the log to the databases and to the commands acknowledged.      *)
(***************************************************************************)
EXTENDS Persistence, SequenceTheorems, WellFoundedInduction, TLAPS

-----------------------------------------------------------------------------
(* The inductive invariant *)

Chunk   == [id : Nat \ {0}, part : {1, 2}]
Effects == [id : Nat \ {0}, x : Int]
Command == [kind : Kinds, db : DBs]

Typed ==
    /\ policy \in Policies
    /\ memory \in [DBs -> Seq(Effects)] /\ before \in [DBs -> Seq(Effects)]
    /\ pc \in {"wait", "batch", "append", "flush", "sync", "reply", "down"}
    /\ rest \in Nat /\ first \in Nat
    /\ epollOpen \in BOOLEAN /\ aofOpen \in BOOLEAN /\ stopping \in BOOLEAN
    /\ buf \in Seq(Chunk) /\ Len(buf) <= BufferSize
    /\ file \in Seq(Chunk) /\ synced \in 0 .. Len(file)
    /\ ops \in Seq(Command)
    /\ acked \subseteq 1 .. Len(ops) /\ unlogged \subseteq 1 .. Len(ops) /\ safe \subseteq acked
    /\ clean \in BOOLEAN
    /\ crashes \in 0 .. MaxCrashes

\* Where the event loop is.
Phases ==
    /\ pc \in {"wait", "batch", "down"} => first = 0
    /\ pc \in {"append", "flush", "sync", "reply"} => first \in 1 .. Len(ops)
    /\ \A id \in acked : first > 0 => id < first
    /\ pc = "down" => buf = << >>
    /\ pc # "down" /\ stopping => crashes < MaxCrashes
    /\ ~epollOpen => stopping

Log == IF aofOpen THEN file \o buf ELSE file

\* Entries are in order of execution, and a second half follows its first.
Entries(f) ==
    /\ \A i \in 1 .. Len(f) : f[i].part = 2 => i > 1 /\ f[i - 1] = [id |-> f[i].id, part |-> 1]
    /\ \A i, j \in 1 .. Len(f) : i < j => f[i].id <= f[j].id /\ (f[j].part = 1 => f[i].id < f[j].id)

LogInOrder ==
    /\ Entries(Log)
    /\ \A i \in 1 .. Len(Log) : Log[i].id <= Current /\ (pc = "append" => Log[i].id < Current)

Increasing(s) == \A i, j \in 1 .. Len(s) : i < j => s[i].id < s[j].id

MemoryInOrder ==
    \A d \in DBs :
      /\ Increasing(memory[d]) /\ Increasing(before[d])
      /\ \A i \in 1 .. Len(memory[d]) : memory[d][i].id <= Current
      /\ \A i \in 1 .. Len(before[d]) : before[d][i].id <= Current

Broken(f, n)   == n \in 1 .. Len(f) /\ f[n].part = 1 /\ ~Whole(f, n)
WholeIn(f, id) == \E n \in 1 .. Len(f) : Whole(f, n) /\ f[n].id = id
TornInside(f)  == \E n \in 1 .. Len(f) - 1 : Broken(f, n)

\* Entry id is on the disk, or one that no later crash can mend is torn there.
Durable(id) == \E n \in 1 .. synced - 1 : Whole(file, n) /\ file[n].id = id
TornForGood == \E n \in 1 .. synced - 1 : Broken(file, n)

\* The commands a reply has answered or the next one will.
Answered == acked \cup {id \in 1 .. Current : first > 0 /\ id >= first}

\* With appendfsync always an entry is on the disk when AOF.Write returns.
AlwaysOnDisk ==
    policy = "always" =>
      /\ aofOpen /\ pc # "flush" => buf = << >>
      /\ pc = "flush" => IF aofOpen THEN buf = Entry(Current) ELSE Current \in unlogged
      /\ pc = "sync"  => WholeIn(file, Current)
      /\ \A id \in Answered \ unlogged :
           IsLogged(ops[id].kind) => Durable(id) \/ (id = Current /\ pc \in {"append", "flush", "sync"})

AnsweredRemembered ==
    policy = "always" /\ pc # "down" /\ TornAtEnd => \A id \in Written(Answered \ unlogged) : Remembered(id)

\* What a database holds has its entry in the log.
Traced ==
    aofOpen => \A d \in DBs : \A i \in 1 .. Len(memory[d]) :
      \/ WholeIn(Log, memory[d][i].id)
      \/ TornInside(Log)
      \/ pc = "append" /\ memory[d][i].id = Current

SafeOnDisk == \A id \in safe : Durable(id) \/ TornForGood

SafeRemembered == pc # "down" /\ TornAtEnd => \A id \in Written(safe) : Remembered(id)

-----------------------------------------------------------------------------
(* Induction over numbers, stated with a set where one would expect a       *)
(* predicate, so that it can be cited.                                      *)

\* A set of natural numbers has a least element.
LEMMA Least == ASSUME NEW T \in SUBSET Nat, T # {} PROVE \E n \in T : \A m \in T : n <= m
<1>1. \E x \in T : \A y \in T : ~(<<y, x>> \in OpToRel(<, Nat))
  BY NatLessThanWellFounded, WFMin
<1>2. \A x, y \in Nat : <<y, x>> \in OpToRel(<, Nat) <=> y < x
  BY DEF OpToRel
<1>3. PICK x \in T : \A y \in T : ~(y < x)
  BY <1>1, <1>2
<1> QED
  BY <1>3

\* What holds of N, and of a number when it holds of all that follow up to N,
\* holds of all up to N.
LEMMA Downward ==
    ASSUME NEW N \in Nat, NEW T,
           \A n \in 1 .. N : (\A m \in n + 1 .. N : m \in T) => n \in T
    PROVE  \A n \in 1 .. N : n \in T
<1> SUFFICES ASSUME NEW k \in 1 .. N, k \notin T PROVE FALSE
  OBVIOUS
<1> DEFINE D == {d \in Nat : d < N /\ N - d \notin T}
<1>1. N - k \in D
  BY N - (N - k) = k
<1>2. PICK d \in D : \A e \in D : d <= e
  BY <1>1, Least
<1>3. N - d \in 1 .. N /\ N - d \notin T
  BY <1>2
<1>4. ASSUME NEW m \in N - d + 1 .. N, m \notin T PROVE FALSE
  <2>1. N - m \in Nat /\ N - m < d /\ N - m < N /\ N - (N - m) = m
    BY <1>4, <1>2
  <2>2. N - m \in D
    BY <1>4, <2>1
  <2> QED
    BY <2>1, <2>2, <1>2
<1> QED
  BY <1>3, <1>4

\* A set of numbers up to n that is not empty has a maximum.
LEMMA MaxOf ==
    ASSUME NEW n \in Nat, NEW S \in SUBSET (0 .. n), S # {}
    PROVE  Max(S) \in S /\ \A x \in S : x <= Max(S)
<1> DEFINE D == {d \in Nat : d <= n /\ n - d \in S}
<1>1. D # {}
  <2>1. PICK x \in S : TRUE
    OBVIOUS
  <2>2. n - x \in Nat /\ n - x <= n /\ n - (n - x) = x
    BY <2>1
  <2> QED
    BY <2>1, <2>2
<1>2. PICK d \in D : \A e \in D : d <= e
  BY <1>1, Least
<1>3. ASSUME NEW x \in S PROVE n - d >= x
  <2>1. n - x \in Nat /\ n - x <= n /\ n - (n - x) = x
    OBVIOUS
  <2>2. n - x \in D
    BY <2>1, <1>3
  <2>3. d <= n - x /\ d \in Nat /\ x \in Nat
    BY <2>2, <1>2
  <2> HIDE DEF D
  <2> QED
    BY <2>3
<1>4. \E x \in S : \A y \in S : x >= y
  BY <1>2, <1>3
<1>5. Max(S) \in S /\ \A y \in S : Max(S) >= y
  BY <1>4 DEF Max
<1> QED
  BY <1>5

-----------------------------------------------------------------------------
(* What Replay can read                                                     *)

\* One call of the recursion: what can be read from the chunk at i on, when g
\* says it of the later chunks.
Reads(f, g, i) ==
    IF i = Len(f) + 1 THEN {<< >>}
    ELSE IF Whole(f, i) THEN Joined({<<f[i].id>>}, g[i + 2])
    ELSE {<< >>} \cup UNION {Joined(Spoilt(f[i].id), g[j]) : j \in Resumed(f, i)}

\* It depends on the later chunks only.
LEMMA ReadsAhead ==
    ASSUME NEW f \in Seq(Chunk), NEW i \in 1 .. Len(f) + 1, NEW g, NEW h,
           \A j \in i + 1 .. Len(f) + 1 : g[j] = h[j]
    PROVE  Reads(f, g, i) = Reads(f, h, i)
<1>1. Len(f) \in Nat
  BY LenProperties
<1>2. Whole(f, i) => i + 2 \in i + 1 .. Len(f) + 1
  BY <1>1 DEF Whole
<1>3. Resumed(f, i) \subseteq i + 1 .. Len(f) + 1
  BY <1>1 DEF Resumed
<1>4. \A j \in Resumed(f, i) : g[j] = h[j]
  BY <1>3
<1>5. UNION {Joined(Spoilt(f[i].id), g[j]) : j \in Resumed(f, i)}
        = UNION {Joined(Spoilt(f[i].id), h[j]) : j \in Resumed(f, i)}
  BY <1>4
<1>6. CASE i = Len(f) + 1
  BY <1>6 DEF Reads
<1>7. CASE i # Len(f) + 1 /\ Whole(f, i)
  BY <1>7, <1>2 DEF Reads
<1>8. CASE i # Len(f) + 1 /\ ~Whole(f, i)
  BY <1>8, <1>5 DEF Reads
<1> QED
  BY <1>6, <1>7, <1>8

\* The recursion is well-founded: ReadFrom is what its definition says.
LEMMA ReadFromUnfolds ==
    ASSUME NEW f \in Seq(Chunk)
    PROVE  \A i \in 1 .. Len(f) + 1 : ReadFrom(f)[i] = Reads(f, ReadFrom(f), i)
<1> DEFINE N == Len(f) + 1
<1>1. N \in Nat
  BY LenProperties
<1> DEFINE T == {n \in 1 .. N : \E g : \A i \in n .. N : g[i] = Reads(f, g, i)}
<1>2. ASSUME NEW n \in 1 .. N, \A m \in n + 1 .. N : m \in T PROVE n \in T
  <2>1. PICK g : \A i \in n + 1 .. N : g[i] = Reads(f, g, i)
    <3>1. CASE n = N
      <4>1. n + 1 .. N = {}
        BY <3>1, <1>1
      <4> QED
        BY <4>1
    <3>2. CASE n # N
      <4>1. n + 1 \in n + 1 .. N
        BY <3>2, <1>1
      <4> QED
        BY <4>1, <1>2
    <3> QED
      BY <3>1, <3>2
  <2> DEFINE h == [j \in 1 .. N |-> IF j = n THEN Reads(f, g, n) ELSE g[j]]
  <2>2. \A j \in n + 1 .. N : h[j] = g[j]
    BY <1>1
  <2>3. \A i \in n .. N : Reads(f, h, i) = Reads(f, g, i)
    <3>1. ASSUME NEW i \in n .. N PROVE Reads(f, h, i) = Reads(f, g, i)
      <4>1. i \in 1 .. Len(f) + 1 /\ \A j \in i + 1 .. Len(f) + 1 : h[j] = g[j]
        BY <2>2, <1>1
      <4> HIDE DEF h
      <4> QED
        BY <4>1, ReadsAhead
    <3> QED
      BY <3>1
  <2>4. \A i \in n .. N : h[i] = Reads(f, h, i)
    <3>1. ASSUME NEW i \in n .. N PROVE h[i] = Reads(f, g, i)
      BY <2>1, <1>1
    <3> QED
      BY <3>1, <2>3
  <2> QED
    BY <2>4
<1>3. 1 \in 1 .. N
  BY LenProperties
<1>4. 1 \in T
  <2> HIDE DEF T, N
  <2> QED
    BY <1>1, <1>2, <1>3, Downward
<1>5. PICK g : \A i \in 1 .. N : g[i] = Reads(f, g, i)
  BY <1>4
<1> DEFINE h == [i \in 1 .. N |-> g[i]]
<1>6. \A i \in 1 .. N : h[i] = Reads(f, h, i)
  <2>1. ASSUME NEW i \in 1 .. N PROVE h[i] = Reads(f, h, i)
    <3>1. i \in 1 .. Len(f) + 1 /\ \A j \in i + 1 .. Len(f) + 1 : h[j] = g[j]
      BY <1>1
    <3>2. h[i] = g[i]
      OBVIOUS
    <3> HIDE DEF h
    <3>3. Reads(f, h, i) = Reads(f, g, i)
      BY <3>1, ReadsAhead
    <3> QED
      BY <3>2, <3>3, <1>5
  <2> QED
    BY <2>1
<1>7. h = [i \in 1 .. Len(f) + 1 |-> Reads(f, h, i)]
  BY <1>6
<1>8. ReadFrom(f) = [i \in 1 .. Len(f) + 1 |-> Reads(f, ReadFrom(f), i)]
  <2> HIDE DEF h
  <2>1. ReadFrom(f) = CHOOSE from : from = [i \in 1 .. Len(f) + 1 |-> Reads(f, from, i)]
    BY DEF ReadFrom, Reads
  <2> QED
    BY <1>7, <2>1
<1> QED
  BY <1>8

Id(e) == IF e < 0 THEN -e ELSE e

\* What is read from chunk i on: commands in order of execution, whole ones as
\* they are, and one that is torn with the opposite sign, unless it is last.
Sound(f, i, r) ==
    /\ r \in Seq(Int)
    /\ \A p \in 1 .. Len(r) : \E n \in i .. Len(f) :
         /\ f[n].part = 1 /\ f[n].id = Id(r[p])
         /\ (Whole(f, n) /\ r[p] > 0) \/ (Broken(f, n) /\ n < Len(f) /\ r[p] < 0)
    /\ \A p, q \in 1 .. Len(r) : p < q => Id(r[p]) < Id(r[q])

\* Every entry before the first that is torn is among them.
Complete(f, i, r) ==
    \A n \in i .. Len(f) :
      Whole(f, n) /\ (\A k \in i .. n : ~Broken(f, k)) => \E p \in 1 .. Len(r) : r[p] = f[n].id

\* An entry is put before what is read after it.
LEMMA ReadOneMore ==
    ASSUME NEW f \in Seq(Chunk), Entries(f),
           NEW i \in 1 .. Len(f), f[i].part = 1, NEW j \in i + 1 .. Len(f) + 1,
           NEW s, Sound(f, j, s),
           NEW e \in Int, Id(e) = f[i].id, (Whole(f, i) /\ e > 0) \/ (Broken(f, i) /\ i < Len(f) /\ e < 0)
    PROVE  /\ Sound(f, i, <<e>> \o s)
           /\ Len(<<e>> \o s) = Len(s) + 1 /\ (<<e>> \o s)[1] = e
           /\ \A p \in 1 .. Len(s) : (<<e>> \o s)[p + 1] = s[p]
<1> DEFINE r == <<e>> \o s
<1>1. s \in Seq(Int) /\ Len(s) \in Nat /\ Len(f) \in Nat
  BY LenProperties DEF Sound
<1>2. r \in Seq(Int) /\ Len(r) = Len(s) + 1 /\ r[1] = e /\ \A p \in 1 .. Len(s) : r[p + 1] = s[p]
  <2>1. <<e>> \in Seq(Int) /\ Len(<<e>>) = 1 /\ <<e>>[1] = e
    OBVIOUS
  <2>2. r \in Seq(Int) /\ Len(r) = Len(<<e>>) + Len(s)
          /\ \A p \in 1 .. Len(<<e>>) + Len(s) : r[p] = IF p <= Len(<<e>>) THEN <<e>>[p] ELSE s[p - Len(<<e>>)]
    BY <1>1, <2>1, ConcatProperties
  <2>3. Len(r) = Len(s) + 1 /\ r[1] = e
    BY <1>1, <2>1, <2>2
  <2>4. ASSUME NEW p \in 1 .. Len(s) PROVE r[p + 1] = s[p]
    <3>1. p + 1 \in 1 .. Len(<<e>>) + Len(s) /\ ~(p + 1 <= Len(<<e>>)) /\ (p + 1) - Len(<<e>>) = p
      BY <1>1, <2>1
    <3> QED
      BY <3>1, <2>2
  <2> QED
    BY <2>2, <2>3, <2>4
<1> HIDE DEF r
<1>3. \A p \in 1 .. Len(r) : p = 1 \/ (p - 1 \in 1 .. Len(s) /\ r[p] = s[p - 1])
  <2>1. ASSUME NEW p \in 1 .. Len(r), p # 1 PROVE p - 1 \in 1 .. Len(s) /\ r[p] = s[p - 1]
    <3> DEFINE m == Len(s)
    <3>0. m \in Nat /\ p \in 1 .. m + 1
      BY <1>1, <1>2
    <3> HIDE DEF m
    <3>1. p - 1 \in 1 .. m /\ (p - 1) + 1 = p
      BY <3>0, <2>1
    <3> USE DEF m
    <3> QED
      BY <3>1, <1>2
  <2> QED
    BY <2>1
<1>4. \A p \in 1 .. Len(s) : \E n \in j .. Len(f) :
         /\ f[n].part = 1 /\ f[n].id = Id(s[p])
         /\ (Whole(f, n) /\ s[p] > 0) \/ (Broken(f, n) /\ n < Len(f) /\ s[p] < 0)
  BY DEF Sound
<1>5. \A n \in j .. Len(f) : n \in i .. Len(f) /\ (f[n].part = 1 => f[i].id < f[n].id)
  BY <1>1 DEF Entries
<1>6. ASSUME NEW p \in 1 .. Len(r)
      PROVE  \E n \in i .. Len(f) :
               /\ f[n].part = 1 /\ f[n].id = Id(r[p])
               /\ (Whole(f, n) /\ r[p] > 0) \/ (Broken(f, n) /\ n < Len(f) /\ r[p] < 0)
  <2>1. CASE p = 1
    BY <2>1, <1>2, i \in i .. Len(f)
  <2>2. CASE p # 1
    BY <2>2, <1>3, <1>4, <1>5
  <2> QED
    BY <2>1, <2>2
<1>7. ASSUME NEW p \in 1 .. Len(r), NEW q \in 1 .. Len(r), p < q PROVE Id(r[p]) < Id(r[q])
  <2>1. q # 1 /\ q - 1 \in 1 .. Len(s) /\ r[q] = s[q - 1]
    BY <1>7, <1>3
  <2>2. CASE p = 1
    BY <2>1, <2>2, <1>2, <1>4, <1>5
  <2>3. CASE p # 1
    <3>1. p - 1 \in 1 .. Len(s) /\ r[p] = s[p - 1] /\ p - 1 < q - 1
      BY <2>1, <2>3, <1>3, <1>7
    <3> QED
      BY <3>1, <2>1 DEF Sound
  <2> QED
    BY <2>2, <2>3
<1>8. Sound(f, i, r)
  BY <1>2, <1>6, <1>7 DEF Sound
<1> QED
  BY <1>2, <1>8 DEF r

\* What can be read from the beginning of an entry.
LEMMA WhatIsRead ==
    ASSUME NEW f \in Seq(Chunk), Entries(f)
    PROVE  \A i \in 1 .. Len(f) + 1 : (i = Len(f) + 1 \/ f[i].part = 1)
             => \A r \in ReadFrom(f)[i] : Sound(f, i, r) /\ Complete(f, i, r)
<1> DEFINE N == Len(f) + 1
           Start(i) == i = Len(f) + 1 \/ f[i].part = 1
           T == {i \in 1 .. N : Start(i) => \A r \in ReadFrom(f)[i] : Sound(f, i, r) /\ Complete(f, i, r)}
<1>1. N \in Nat /\ Len(f) \in Nat
  BY LenProperties
<1>2. ASSUME NEW i \in 1 .. N, \A m \in i + 1 .. N : m \in T PROVE i \in T
  <2> SUFFICES ASSUME Start(i), NEW r \in ReadFrom(f)[i] PROVE Sound(f, i, r) /\ Complete(f, i, r)
    OBVIOUS
  <2>1. r \in Reads(f, ReadFrom(f), i)
    BY ReadFromUnfolds
  <2>2. CASE r = << >> /\ (i = N \/ Broken(f, i))
    <3>1. r \in Seq(Int) /\ Len(r) = 0
      BY <2>2
    <3>2. Sound(f, i, r)
      BY <3>1 DEF Sound
    <3>3. \A n \in i .. Len(f) : Broken(f, i) /\ i \in i .. n
      BY <2>2, <1>1
    <3>4. Complete(f, i, r)
      BY <3>3 DEF Complete
    <3> QED
      BY <3>2, <3>4
  <2>3. CASE i # N /\ Whole(f, i)
    <3>1. i \in 1 .. Len(f) /\ i + 2 \in i + 1 .. Len(f) + 1 /\ f[i].part = 1 /\ f[i + 1].part = 2
      BY <2>3, <1>1 DEF Whole
    <3>2. PICK s \in ReadFrom(f)[i + 2] : r = <<f[i].id>> \o s
      BY <2>1, <2>3 DEF Reads, Joined
    <3>3. Start(i + 2)
      <4>1. ASSUME i + 2 <= Len(f), f[i + 2].part = 2 PROVE FALSE
        <5>1. i + 2 \in 1 .. Len(f) /\ (i + 2) - 1 = i + 1
          BY <3>1, <4>1, <1>1
        <5>2. f[i + 1] = [id |-> f[i + 2].id, part |-> 1]
          BY <5>1, <4>1 DEF Entries
        <5> QED
          BY <5>2, <3>1
      <4>2. i + 2 <= Len(f) => f[i + 2] \in Chunk
        BY <3>1, <1>1, ElementOfSeq
      <4> QED
        BY <4>1, <4>2, <3>1, <1>1 DEF Chunk
    <3>4. Sound(f, i + 2, s) /\ Complete(f, i + 2, s)
      BY <1>2, <3>1, <3>2, <3>3
    <3>5. f[i].id \in Int /\ f[i].id > 0 /\ Id(f[i].id) = f[i].id
      <4>1. f[i] \in Chunk
        BY <3>1, ElementOfSeq
      <4> QED
        BY <4>1 DEF Chunk, Id
    <3>6. Sound(f, i, r) /\ Len(r) = Len(s) + 1 /\ r[1] = f[i].id /\ \A p \in 1 .. Len(s) : r[p + 1] = s[p]
      <4> DEFINE e == f[i].id
                 j == i + 2
      <4>1. e \in Int /\ Id(e) = f[i].id /\ ((Whole(f, i) /\ e > 0) \/ (Broken(f, i) /\ i < Len(f) /\ e < 0))
        BY <3>5, <2>3
      <4>2. r = <<e>> \o s /\ j \in i + 1 .. Len(f) + 1 /\ Sound(f, j, s) /\ i \in 1 .. Len(f) /\ f[i].part = 1
        BY <3>1, <3>2, <3>4
      <4> HIDE DEF e, j
      <4>3. Sound(f, i, r) /\ Len(r) = Len(s) + 1 /\ r[1] = e /\ \A p \in 1 .. Len(s) : r[p + 1] = s[p]
        BY <4>1, <4>2, ReadOneMore, SMTT(60)
      <4> QED
        BY <4>3 DEF e
    <3>7. ASSUME NEW n \in i .. Len(f), Whole(f, n), \A k \in i .. n : ~Broken(f, k)
          PROVE  \E p \in 1 .. Len(r) : r[p] = f[n].id
      <4>0. Len(s) \in Nat
        BY <3>4, LenProperties DEF Sound
      <4>1. CASE n = i
        BY <4>1, <4>0, <3>6, 1 \in 1 .. Len(r)
      <4>2. CASE n = i + 1
        BY <4>2, <3>1, <3>7 DEF Whole
      <4>3. CASE n > i + 1
        <5>1. n \in i + 2 .. Len(f) /\ \A k \in i + 2 .. n : ~Broken(f, k)
          BY <4>3, <3>7, <3>1, <1>1
        <5>2. PICK p \in 1 .. Len(s) : s[p] = f[n].id
          BY <5>1, <3>4, <3>7 DEF Complete
        <5>3. p + 1 \in 1 .. Len(r)
          BY <4>0, <3>6
        <5> QED
          BY <5>2, <5>3, <3>6
      <4> QED
        BY <4>1, <4>2, <4>3, <3>1, <1>1
    <3> QED
      BY <3>6, <3>7 DEF Complete
  <2>4. CASE i # N /\ ~Whole(f, i) /\ r # << >>
    <3>1. i \in 1 .. Len(f) /\ Broken(f, i)
      BY <2>4, <1>1 DEF Broken
    <3>2. PICK j \in Resumed(f, i) : r \in Joined(Spoilt(f[i].id), ReadFrom(f)[j])
      BY <2>1, <2>4 DEF Reads
    <3>3. PICK t \in Spoilt(f[i].id), s \in ReadFrom(f)[j] : r = t \o s
      BY <3>2 DEF Joined
    <3>4. j \in i + 1 .. Len(f) + 1 /\ Start(j) /\ i < Len(f)
      BY <3>1, <1>1 DEF Resumed
    <3>5. Sound(f, j, s)
      BY <1>2, <3>3, <3>4
    <3>6. Sound(f, i, r)
      <4>1. CASE t = << >>
        <5>1. r = s
          BY <4>1, <3>3, <3>5, ConcatEmptySeq DEF Sound
        <5>2. \A n \in j .. Len(f) : n \in i .. Len(f)
          BY <3>4, <1>1
        <5> QED
          BY <5>1, <5>2, <3>5 DEF Sound
      <4>2. CASE t = <<-f[i].id>>
        <5>1. f[i] \in Chunk
          BY <3>1, ElementOfSeq
        <5>2. -f[i].id \in Int /\ -f[i].id < 0 /\ Id(-f[i].id) = f[i].id
          BY <5>1 DEF Chunk, Id
        <5> QED
          BY <4>2, <5>2, <3>1, <3>3, <3>4, <3>5, ReadOneMore DEF Broken
      <4> QED
        BY <4>1, <4>2, <3>3 DEF Spoilt
    <3>7. Complete(f, i, r)
      BY <3>1 DEF Complete
    <3> QED
      BY <3>6, <3>7
  <2> QED
    <3>1. CASE i = N
      BY <3>1, <2>1, <2>2 DEF Reads
    <3>2. CASE i # N /\ ~Whole(f, i)
      BY <3>2, <2>2, <2>4, <1>1 DEF Broken
    <3> QED
      BY <3>1, <3>2, <2>3
<1>3. \A i \in 1 .. N : i \in T
  <2> HIDE DEF T, N
  <2> QED
    BY <1>1, <1>2, Downward
<1> QED
  BY <1>3

-----------------------------------------------------------------------------
(* What a restart makes of it                                               *)

\* m holds the effects of what follows the last FLUSHDB in r, at k, and nothing
\* but in database 0.
ReplayOf(m, r, k) ==
    /\ k > 0 => r[k] > 0 /\ ops[r[k]].kind = "flushdb"
    /\ \A q \in 1 .. Len(r) : r[q] > 0 /\ ops[r[q]].kind = "flushdb" => q <= k
    /\ m \in [DBs -> Seq(Effects)]
    /\ \A d \in DBs : d # 0 => m[d] = << >>
    /\ Len(m[0]) = Len(r) - k
    /\ \A p \in 1 .. Len(m[0]) :
         /\ m[0][p].id = Id(r[p + k])
         /\ r[p + k] > 0 /\ ops[r[p + k]].kind = "write" => m[0][p].x = 0

LEMMA WhatIsReplayed ==
    ASSUME crashes \in Nat, NEW f \in Seq(Chunk), NEW r, Sound(f, 1, r), NEW m \in Replayed(r)
    PROVE  \E k \in 0 .. Len(r) : ReplayOf(m, r, k)
<1>1. r \in Seq(Int) /\ Len(r) \in Nat /\ DOMAIN r = 1 .. Len(r) /\ \A p \in 1 .. Len(r) : r[p] \in Int
  BY LenProperties, ElementOfSeq DEF Sound
<1> DEFINE flushes == {i \in DOMAIN r : r[i] > 0 /\ ops[r[i]].kind = "flushdb"}
           k == Max({0} \cup flushes)
           last == SubSeq(r, k + 1, Len(r))
           result(id, draw) == IF id < 0 THEN Effect(-id, -1) ELSE Effect(id, Outcome(ops[id].kind, draw))
<1>2. k \in {0} \cup flushes /\ \A q \in flushes : q <= k
  <2> HIDE DEF k
  <2>1. {0} \cup flushes \in SUBSET (0 .. Len(r)) /\ {0} \cup flushes # {}
    BY <1>1
  <2> HIDE DEF flushes
  <2>2. Max({0} \cup flushes) \in {0} \cup flushes /\ \A q \in {0} \cup flushes : q <= Max({0} \cup flushes)
    BY <1>1, <2>1, MaxOf
  <2> QED
    BY <2>2 DEF k
<1>3. k \in 0 .. Len(r)
  <2>1. flushes \subseteq 1 .. Len(r) /\ Len(r) \in Nat
    BY <1>1
  <2> HIDE DEF flushes, k
  <2> QED
    BY <1>2, <2>1
<1>4. PICK draw \in [DOMAIN last -> Draws] :
        m = [d \in DBs |-> IF d = 0 THEN [i \in DOMAIN last |-> result(last[i], draw[i])] ELSE << >>]
  BY DEF Replayed
<1> HIDE DEF k, flushes
<1>5. last \in Seq(Int) /\ Len(last) = Len(r) - k /\ \A i \in 1 .. Len(last) : last[i] = r[i + k]
  <2>1. \A i \in k + 1 .. Len(r) : r[i] \in Int
    BY <1>1, <1>3
  <2>2. last \in Seq(Int) /\ Len(last) = (IF k + 1 <= Len(r) THEN Len(r) - (k + 1) + 1 ELSE 0)
          /\ \A i \in 1 .. Len(r) - (k + 1) + 1 : last[i] = r[(k + 1) + i - 1]
    BY <2>1, <1>1, <1>3, SubSeqProperties
  <2> DEFINE N == Len(r)
  <2>0. N \in Nat /\ k \in 0 .. N
    BY <1>1, <1>3
  <2> HIDE DEF N
  <2>3. N - (k + 1) + 1 = N - k /\ \A i \in 1 .. N - k : (k + 1) + i - 1 = i + k
    BY <2>0
  <2>4. (IF k + 1 <= N THEN N - (k + 1) + 1 ELSE 0) = N - k
    BY <2>0
  <2> USE DEF N
  <2> HIDE DEF last
  <2> QED
    BY <2>2, <2>3, <2>4
<1>6. DOMAIN last = 1 .. Len(last) /\ Len(last) \in Nat
  BY <1>5, LenProperties
<1> HIDE DEF last
<1> DEFINE s == [i \in DOMAIN last |-> result(last[i], draw[i])]
<1>7. ASSUME NEW p \in 1 .. Len(last)
      PROVE  /\ s[p] \in Effects
             /\ s[p].id = Id(r[p + k])
             /\ r[p + k] > 0 /\ ops[r[p + k]].kind = "write" => s[p].x = 0
  <2>1. p + k \in 1 .. Len(r) /\ last[p] = r[p + k] /\ r[p + k] \in Int /\ s[p] = result(r[p + k], draw[p])
    BY <1>1, <1>3, <1>5, <1>6, SMTT(30)
  <2>2. Id(r[p + k]) \in Nat \ {0}
    <3>1. PICK n \in 1 .. Len(f) : f[n].id = Id(r[p + k])
      BY <2>1 DEF Sound
    <3>2. f[n] \in Chunk
      BY ElementOfSeq
    <3> QED
      BY <3>1, <3>2 DEF Chunk
  <2>3. draw[p] \in Int
    BY <1>6 DEF Draws
  <2>4. \A kind : Outcome(kind, draw[p]) \in Int /\ (kind = "write" => Outcome(kind, draw[p]) = 0)
    BY <2>3 DEF Outcome
  <2>5. CASE r[p + k] < 0
    BY <2>1, <2>2, <2>5 DEF Effect, Effects, Id
  <2>6. CASE ~(r[p + k] < 0)
    BY <2>1, <2>2, <2>4, <2>6 DEF Effect, Effects, Id
  <2> QED
    BY <2>5, <2>6
<1>8. s \in Seq(Effects) /\ Len(s) = Len(last)
  <2>1. s \in [1 .. Len(last) -> Effects]
    BY <1>6, <1>7
  <2> QED
    BY <2>1, <1>6, SeqDef
<1>9. m \in [DBs -> Seq(Effects)] /\ m[0] = s /\ \A d \in DBs : d # 0 => m[d] = << >>
  <2>1. m = [d \in DBs |-> IF d = 0 THEN s ELSE << >>]
    BY <1>4
  <2> HIDE DEF s
  <2> QED
    BY <2>1, <1>8, DBAssumption
<1>10. k > 0 => r[k] > 0 /\ ops[r[k]].kind = "flushdb"
  BY <1>2, <1>3 DEF flushes
<1>11. \A q \in 1 .. Len(r) : r[q] > 0 /\ ops[r[q]].kind = "flushdb" => q <= k
  BY <1>1, <1>2 DEF flushes
<1> HIDE DEF s, result
<1>12. \A p \in 1 .. Len(m[0]) :
         /\ m[0][p].id = Id(r[p + k])
         /\ r[p + k] > 0 /\ ops[r[p + k]].kind = "write" => m[0][p].x = 0
  BY <1>7, <1>8, <1>9
<1>13. Len(m[0]) = Len(r) - k
  BY <1>5, <1>8, <1>9
<1>14. ReplayOf(m, r, k)
  BY <1>9, <1>10, <1>11, <1>12, <1>13 DEF ReplayOf
<1> QED
  BY <1>3, <1>14

\* No entry up to n is torn: every reader comes to n and takes it for what it is.
Legible(f, n) == Whole(f, n) /\ \A k \in 1 .. n : ~Broken(f, k)

\* What a start that finds the file f may make of it.
Found(f, m) ==
    /\ m \in [DBs -> Seq(Effects)]
    /\ \A d \in DBs : d # 0 => m[d] = << >>
    /\ \A d \in DBs : Increasing(m[d]) /\ \A i \in 1 .. Len(m[d]) : m[d][i].id <= Current
    /\ \A i \in 1 .. Len(m[0]) : \E n \in 1 .. Len(f) :
         /\ f[n].part = 1 /\ f[n].id = m[0][i].id
         /\ \/ Whole(f, n) /\ (ops[f[n].id].kind = "write" => m[0][i].x = 0)
            \/ Broken(f, n) /\ n < Len(f)
    /\ \A n \in 1 .. Len(f) :
         Legible(f, n) /\ (\A j \in f[n].id .. Current : WholeIn(f, j) => ops[j].kind # "flushdb")
           => \E i \in 1 .. Len(m[0]) : m[0][i].id = f[n].id
    /\ (\A n \in 1 .. Len(f) : ~Broken(f, n)) =>
         \A i \in 1 .. Len(m[0]) : \A j \in m[0][i].id .. Current : WholeIn(f, j) => ops[j].kind # "flushdb"

\* An entry of the file begins with its first half.
LEMMA WholeStarts ==
    ASSUME NEW f \in Seq(Chunk), NEW n \in 1 .. Len(f), NEW j \in 1 .. Len(f),
           Entries(f), f[n].part = 1, f[j].part = 1, f[n].id = f[j].id
    PROVE  n = j
<1>1. Len(f) \in Nat /\ f[n] \in Chunk /\ f[j] \in Chunk
  BY LenProperties, ElementOfSeq
<1>2. ~(n < j) /\ ~(j < n)
  BY <1>1 DEF Entries, Chunk
<1> QED
  BY <1>1, <1>2

LEMMA RestartFinds ==
    ASSUME ops \in Seq(Command), crashes \in Nat,
           NEW f \in Seq(Chunk), Entries(f), \A i \in 1 .. Len(f) : f[i].id <= Current,
           NEW r \in Readings(f), NEW m \in Replayed(r)
    PROVE  Found(f, m)
<1>1. Len(f) \in Nat /\ Current \in Nat /\ \A n \in 1 .. Len(f) : f[n].id \in Nat \ {0}
  <2>1. Len(f) \in Nat /\ Len(ops) \in Nat
    BY LenProperties
  <2>2. \A n \in 1 .. Len(f) : f[n] \in Chunk
    BY ElementOfSeq
  <2> QED
    BY <2>1, <2>2 DEF Current, Chunk
<1>2. Sound(f, 1, r) /\ Complete(f, 1, r)
  <2>1. Len(f) + 1 = 1 \/ f[1].part = 1
    <3>1. CASE Len(f) = 0
      BY <3>1
    <3>2. CASE Len(f) # 0
      <4>1. 1 \in 1 .. Len(f)
        BY <3>2, <1>1
      <4>2. f[1] \in Chunk
        BY <4>1, ElementOfSeq
      <4>3. f[1].part # 2
        <5>1. \A i \in 1 .. Len(f) : f[i].part = 2 => i > 1
          BY DEF Entries
        <5> QED
          BY <4>1, <5>1
      <4> QED
        BY <4>2, <4>3 DEF Chunk
    <3> QED
      BY <3>1, <3>2
  <2>2. 1 \in 1 .. Len(f) + 1 /\ r \in ReadFrom(f)[1]
    BY <1>1 DEF Readings
  <2> QED
    BY <2>1, <2>2, WhatIsRead
<1>3. r \in Seq(Int) /\ Len(r) \in Nat /\ \A p \in 1 .. Len(r) : r[p] \in Int
  BY <1>2, LenProperties, ElementOfSeq DEF Sound
<1>4. PICK k \in 0 .. Len(r) : ReplayOf(m, r, k)
  BY <1>2, WhatIsReplayed
<1>5. m \in [DBs -> Seq(Effects)] /\ m[0] \in Seq(Effects) /\ (\A d \in DBs : d # 0 => m[d] = << >>) /\ Len(m[0]) \in Nat
  <2>1. m \in [DBs -> Seq(Effects)] /\ (\A d \in DBs : d # 0 => m[d] = << >>)
    BY <1>4 DEF ReplayOf
  <2>2. m[0] \in Seq(Effects)
    BY <2>1, DBAssumption
  <2> QED
    BY <2>1, <2>2, LenProperties
<1>6. \A i \in 1 .. Len(m[0]) : i + k \in 1 .. Len(r) /\ i + k > k /\ m[0][i].id = Id(r[i + k])
        /\ (r[i + k] > 0 /\ ops[r[i + k]].kind = "write" => m[0][i].x = 0)
  <2> DEFINE N == Len(r)
             M == Len(m[0])
  <2>1. N \in Nat /\ M \in Nat /\ M = N - k /\ k \in 0 .. N
    BY <1>3, <1>4, <1>5 DEF ReplayOf
  <2> HIDE DEF N, M
  <2>2. \A i \in 1 .. M : i + k \in 1 .. N /\ i + k > k
    BY <2>1
  <2> USE DEF N, M
  <2> QED
    BY <2>2, <1>4 DEF ReplayOf
<1>7. \A p \in 1 .. Len(r) : \E n \in 1 .. Len(f) :
         /\ f[n].part = 1 /\ f[n].id = Id(r[p])
         /\ (Whole(f, n) /\ r[p] > 0) \/ (Broken(f, n) /\ n < Len(f) /\ r[p] < 0)
  BY <1>2 DEF Sound
<1>8. \A p, q \in 1 .. Len(r) : p < q => Id(r[p]) < Id(r[q])
  BY <1>2 DEF Sound
<1>9. Increasing(m[0]) /\ \A i \in 1 .. Len(m[0]) : m[0][i].id <= Current
  <2>1. ASSUME NEW i \in 1 .. Len(m[0]), NEW j \in 1 .. Len(m[0]), i < j PROVE m[0][i].id < m[0][j].id
    <3>1. i + k \in 1 .. Len(r) /\ j + k \in 1 .. Len(r) /\ i + k < j + k
      BY <1>6, <2>1
    <3> QED
      BY <3>1, <1>6, <1>8
  <2>2. ASSUME NEW i \in 1 .. Len(m[0]) PROVE m[0][i].id <= Current
    BY <1>6, <1>7
  <2> QED
    BY <2>1, <2>2 DEF Increasing
<1>10. ASSUME NEW d \in DBs PROVE Increasing(m[d]) /\ \A i \in 1 .. Len(m[d]) : m[d][i].id <= Current
  <2>1. CASE d = 0
    BY <2>1, <1>9
  <2>2. CASE d # 0
    <3>1. m[d] = << >> /\ Len(m[d]) = 0
      BY <2>2, <1>5
    <3> QED
      BY <3>1 DEF Increasing
  <2> QED
    BY <2>1, <2>2
<1>11. ASSUME NEW i \in 1 .. Len(m[0])
       PROVE  \E n \in 1 .. Len(f) :
                /\ f[n].part = 1 /\ f[n].id = m[0][i].id
                /\ \/ Whole(f, n) /\ (ops[f[n].id].kind = "write" => m[0][i].x = 0)
                   \/ Broken(f, n) /\ n < Len(f)
  <2>1. PICK n \in 1 .. Len(f) :
         /\ f[n].part = 1 /\ f[n].id = Id(r[i + k])
         /\ (Whole(f, n) /\ r[i + k] > 0) \/ (Broken(f, n) /\ n < Len(f) /\ r[i + k] < 0)
    BY <1>6, <1>7
  <2>2. r[i + k] > 0 => Id(r[i + k]) = r[i + k]
    BY <1>3, <1>6 DEF Id
  <2> QED
    BY <2>1, <2>2, <1>6
<1>12. ASSUME NEW n \in 1 .. Len(f), Legible(f, n),
              \A j \in f[n].id .. Current : WholeIn(f, j) => ops[j].kind # "flushdb"
       PROVE  \E i \in 1 .. Len(m[0]) : m[0][i].id = f[n].id
  <2>1. PICK p \in 1 .. Len(r) : r[p] = f[n].id
    BY <1>2, <1>12 DEF Complete, Legible
  <2>2. f[n].id > 0 /\ Id(r[p]) = f[n].id
    BY <2>1, <1>1 DEF Id
  <2>3. ~(p <= k)
    <3> SUFFICES ASSUME p <= k PROVE FALSE
      OBVIOUS
    <3>1. k \in 1 .. Len(r) /\ r[k] > 0 /\ ops[r[k]].kind = "flushdb" /\ Id(r[k]) = r[k]
      BY <1>3, <1>4 DEF ReplayOf, Id
    <3>2. Id(r[p]) <= Id(r[k])
      <4>1. CASE p = k
        BY <4>1, <2>2, <1>1
      <4>2. CASE p # k
        <5>1. p < k
          BY <4>2
        <5>2. Id(r[p]) < Id(r[k])
          BY <5>1, <3>1, <1>8
        <5>3. Id(r[p]) \in Int /\ Id(r[k]) \in Int
          BY <3>1, <2>2, <1>1, <1>3
        <5> QED
          BY <5>2, <5>3
      <4> QED
        BY <4>1, <4>2
    <3>3. PICK j \in 1 .. Len(f) : Whole(f, j) /\ f[j].id = r[k]
      <4>1. r[k] \in Int
        BY <3>1, <1>3
      <4> QED
        BY <4>1, <3>1, <1>7
    <3>4. r[k] \in f[n].id .. Current
      BY <3>1, <3>2, <3>3, <2>2, <1>1, <1>3, SMTT(30)
    <3> QED
      BY <3>1, <3>3, <3>4, <1>12 DEF WholeIn
  <2>4. p - k \in 1 .. Len(m[0]) /\ (p - k) + k = p
    <3> DEFINE N == Len(r)
               M == Len(m[0])
    <3>1. N \in Nat /\ M \in Nat /\ M = N - k /\ k \in 0 .. N /\ p \in 1 .. N
      BY <1>3, <1>4, <1>5 DEF ReplayOf
    <3> HIDE DEF N, M
    <3>2. p - k \in 1 .. M /\ (p - k) + k = p
      BY <3>1, <2>3
    <3> QED
      BY <3>2 DEF M
  <2> QED
    BY <2>2, <2>4, <1>6
<1>13. ASSUME \A n \in 1 .. Len(f) : ~Broken(f, n),
              NEW i \in 1 .. Len(m[0]), NEW j \in m[0][i].id .. Current, WholeIn(f, j)
       PROVE  ops[j].kind # "flushdb"
  <2> SUFFICES ASSUME ops[j].kind = "flushdb" PROVE FALSE
    OBVIOUS
  <2>1. PICK n \in 1 .. Len(f) : Whole(f, n) /\ f[n].id = j
    BY <1>13 DEF WholeIn
  <2>2. PICK q \in 1 .. Len(r) : r[q] = j
    BY <2>1, <1>2, <1>13 DEF Complete
  <2>3. j > 0 /\ Id(j) = j
    BY <2>1, <1>1 DEF Id
  <2>4. q <= k
    BY <2>2, <2>3, <1>4 DEF ReplayOf
  <2>5. q < i + k
    BY <2>4, <1>6
  <2>6. Id(r[q]) < Id(r[i + k])
    BY <2>5, <1>6, <1>8
  <2>7. m[0][i].id \in Int
    <3>1. m[0][i] \in Effects
      BY <1>5, ElementOfSeq
    <3> QED
      BY <3>1 DEF Effects
  <2> QED
    BY <2>2, <2>3, <2>6, <2>7, <1>6, SMTT(30)
<1> QED
  BY <1>5, <1>10, <1>11, <1>12, <1>13 DEF Found

-----------------------------------------------------------------------------
(* Sequences of chunks                                                      *)

\* f is what g begins with.
Begins(f, g) == Len(f) <= Len(g) /\ \A i \in 1 .. Len(f) : f[i] = g[i]

LEMMA Joining ==
    ASSUME NEW f \in Seq(Chunk), NEW g \in Seq(Chunk)
    PROVE  /\ f \o g \in Seq(Chunk)
           /\ Len(f \o g) = Len(f) + Len(g)
           /\ Begins(f, f \o g)
           /\ \A i \in 1 .. Len(g) : (f \o g)[Len(f) + i] = g[i]
<1> DEFINE h == f \o g
           m == Len(f)
           n == Len(g)
<1>1. m \in Nat /\ n \in Nat
  BY LenProperties
<1>2. h \in Seq(Chunk) /\ Len(h) = m + n /\ \A i \in 1 .. m + n : h[i] = IF i <= m THEN f[i] ELSE g[i - m]
  BY ConcatProperties
<1>3. Begins(f, h)
  <2> HIDE DEF h
  <2>1. \A i \in 1 .. m : i \in 1 .. m + n /\ i <= m
    BY <1>1
  <2>2. m <= m + n
    BY <1>1
  <2> QED
    BY <1>2, <2>1, <2>2 DEF Begins
<1>4. ASSUME NEW i \in 1 .. n PROVE h[m + i] = g[i]
  <2> HIDE DEF h, m, n
  <2>1. m + i \in 1 .. m + n /\ ~(m + i <= m) /\ (m + i) - m = i
    BY <1>1
  <2> QED
    BY <1>2, <2>1
<1> QED
  BY <1>2, <1>3, <1>4

LEMMA CuttingOff ==
    ASSUME NEW f \in Seq(Chunk), NEW n \in 0 .. Len(f)
    PROVE  SubSeq(f, 1, n) \in Seq(Chunk) /\ Len(SubSeq(f, 1, n)) = n /\ Begins(SubSeq(f, 1, n), f)
<1>1. Len(f) \in Nat /\ n \in Nat /\ n <= Len(f)
  BY LenProperties
<1>2. \A i \in 1 .. n : f[i] \in Chunk
  BY <1>1, ElementOfSeq
<1> DEFINE g == SubSeq(f, 1, n)
<1>3. g \in Seq(Chunk) /\ Len(g) = (IF 1 <= n THEN n - 1 + 1 ELSE 0) /\ \A i \in 1 .. n - 1 + 1 : g[i] = f[1 + i - 1]
  BY <1>1, <1>2, SubSeqProperties
<1> HIDE DEF g
<1>4. Len(g) = n /\ n - 1 + 1 = n /\ \A i \in 1 .. n : 1 + i - 1 = i
  BY <1>1, <1>3
<1>5. Begins(g, f)
  BY <1>1, <1>3, <1>4 DEF Begins
<1> QED
  BY <1>3, <1>4, <1>5 DEF g

LEMMA EntryIsTwo ==
    ASSUME NEW id \in Nat \ {0}
    PROVE  /\ Entry(id) \in Seq(Chunk) /\ Len(Entry(id)) = 2
           /\ Entry(id)[1] = [id |-> id, part |-> 1] /\ Entry(id)[2] = [id |-> id, part |-> 2]
<1>1. [id |-> id, part |-> 1] \in Chunk /\ [id |-> id, part |-> 2] \in Chunk
  BY DEF Chunk
<1> DEFINE a == [id |-> id, part |-> 1]
           b == [id |-> id, part |-> 2]
<1>2. a \in Chunk /\ b \in Chunk
  BY <1>1
<1> HIDE DEF a, b
<1>3. <<a, b>> \in Seq(Chunk) /\ Len(<<a, b>>) = 2 /\ <<a, b>>[1] = a /\ <<a, b>>[2] = b
  BY <1>2
<1> QED
  BY <1>3 DEF a, b, Entry

LEMMA BeginsOnward ==
    ASSUME NEW f \in Seq(Chunk), NEW g \in Seq(Chunk), NEW h \in Seq(Chunk), Begins(f, g), Begins(g, h)
    PROVE  Begins(f, h)
<1>1. Len(f) \in Nat /\ Len(g) \in Nat /\ Len(h) \in Nat
  BY LenProperties
<1>2. Len(f) <= Len(g) /\ Len(g) <= Len(h)
  BY DEF Begins
<1>3. Len(f) <= Len(h) /\ \A i \in 1 .. Len(f) : i \in 1 .. Len(g)
  BY <1>1, <1>2
<1> QED
  BY <1>3 DEF Begins

LEMMA BeginsItself == ASSUME NEW f \in Seq(Chunk) PROVE Begins(f, f)
<1>1. Len(f) \in Nat
  BY LenProperties
<1> QED
  BY <1>1 DEF Begins

\* Entries that are whole stay so when the file grows; one is torn for good when
\* something comes after it.
LEMMA WholeKept ==
    ASSUME NEW f \in Seq(Chunk), NEW g \in Seq(Chunk), Begins(f, g)
    PROVE  /\ Len(f) \in Nat /\ Len(g) \in Nat /\ Len(f) <= Len(g)
           /\ \A n \in 1 .. Len(f) : n \in 1 .. Len(g) /\ f[n] = g[n]
           /\ \A n \in 1 .. Len(f) : Whole(f, n) => Whole(g, n)
           /\ \A n \in 1 .. Len(f) - 1 : Whole(f, n) <=> Whole(g, n)
           /\ \A n \in 1 .. Len(f) - 1 : Broken(f, n) <=> Broken(g, n)
           /\ \A n \in 1 .. Len(f) : Broken(g, n) => Broken(f, n)
           /\ \A id : WholeIn(f, id) => WholeIn(g, id)
           /\ TornInside(f) => TornInside(g)
<1>1. Len(f) \in Nat /\ Len(g) \in Nat /\ Len(f) <= Len(g)
  BY LenProperties DEF Begins
<1>2. \A n \in 1 .. Len(f) : n \in 1 .. Len(g) /\ f[n] = g[n]
  BY <1>1 DEF Begins
<1>3. \A n \in 1 .. Len(f) - 1 : n \in 1 .. Len(f) /\ n + 1 \in 1 .. Len(f) /\ n < Len(f) /\ n < Len(g)
  BY <1>1
<1>4. \A n \in 1 .. Len(f) - 1 : Whole(f, n) <=> Whole(g, n)
  BY <1>2, <1>3 DEF Whole
<1>5. \A n \in 1 .. Len(f) : Whole(f, n) => n \in 1 .. Len(f) - 1
  BY <1>1 DEF Whole
<1>6. \A n \in 1 .. Len(f) - 1 : Broken(f, n) <=> Broken(g, n)
  BY <1>2, <1>3, <1>4 DEF Broken
<1>7. \A n \in 1 .. Len(f) : Broken(g, n) => Broken(f, n)
  BY <1>2, <1>4, <1>5 DEF Broken
<1>8. \A id : WholeIn(f, id) => WholeIn(g, id)
  BY <1>2, <1>4, <1>5 DEF WholeIn
<1>9. TornInside(f) => TornInside(g)
  <2>1. \A n \in 1 .. Len(f) - 1 : n \in 1 .. Len(g) - 1
    BY <1>1
  <2> QED
    BY <1>6, <2>1 DEF TornInside
<1> QED
  BY <1>1, <1>2, <1>4, <1>5, <1>6, <1>7, <1>8, <1>9

LEMMA EntriesOfPart ==
    ASSUME NEW f \in Seq(Chunk), NEW g \in Seq(Chunk), Begins(f, g), Entries(g)
    PROVE  Entries(f)
<1>1. \A n \in 1 .. Len(f) : n \in 1 .. Len(g) /\ f[n] = g[n]
  BY WholeKept
<1>2. \A n \in 1 .. Len(f) : n > 1 => n - 1 \in 1 .. Len(f)
  BY LenProperties
<1>3. ASSUME NEW i \in 1 .. Len(f), f[i].part = 2 PROVE i > 1 /\ f[i - 1] = [id |-> f[i].id, part |-> 1]
  <2>1. i > 1 /\ g[i - 1] = [id |-> g[i].id, part |-> 1]
    BY <1>1, <1>3 DEF Entries
  <2> QED
    BY <2>1, <1>1, <1>2
<1>4. ASSUME NEW i \in 1 .. Len(f), NEW j \in 1 .. Len(f), i < j
      PROVE  f[i].id <= f[j].id /\ (f[j].part = 1 => f[i].id < f[j].id)
  BY <1>1, <1>4 DEF Entries
<1> QED
  BY <1>3, <1>4 DEF Entries

\* A new entry at the end of entries that came before it.
LEMMA EntryAdded ==
    ASSUME NEW f \in Seq(Chunk), Entries(f), NEW id \in Nat \ {0}, \A i \in 1 .. Len(f) : f[i].id < id
    PROVE  /\ f \o Entry(id) \in Seq(Chunk) /\ Entries(f \o Entry(id)) /\ Begins(f, f \o Entry(id))
           /\ Len(f \o Entry(id)) = Len(f) + 2 /\ Len(f) \in Nat
           /\ (f \o Entry(id))[Len(f) + 1] = [id |-> id, part |-> 1]
           /\ (f \o Entry(id))[Len(f) + 2] = [id |-> id, part |-> 2]
           /\ \A i \in 1 .. Len(f) + 2 : (f \o Entry(id))[i].id <= id
<1> DEFINE g == f \o Entry(id)
           m == Len(f)
<1>1. m \in Nat
  BY LenProperties
<1>2. g \in Seq(Chunk) /\ Len(g) = m + 2 /\ Begins(f, g) /\ g[m + 1] = [id |-> id, part |-> 1] /\ g[m + 2] = [id |-> id, part |-> 2]
  <2>1. Entry(id) \in Seq(Chunk) /\ Len(Entry(id)) = 2
    BY EntryIsTwo
  <2> DEFINE e == Entry(id)
  <2> HIDE DEF e
  <2>2. g \in Seq(Chunk) /\ Len(g) = Len(f) + Len(e) /\ Begins(f, g) /\ \A i \in 1 .. Len(e) : g[Len(f) + i] = e[i]
    <3>1. e \in Seq(Chunk) /\ g = f \o e
      BY <2>1 DEF e
    <3> HIDE DEF g
    <3> QED
      BY <3>1, Joining
  <2> HIDE DEF g
  <2>3. Len(e) = 2 /\ e[1] = [id |-> id, part |-> 1] /\ e[2] = [id |-> id, part |-> 2]
    BY <2>1, EntryIsTwo DEF e
  <2> QED
    BY <2>2, <2>3
<1> HIDE DEF g
<1>3. \A i \in 1 .. m : g[i] = f[i] /\ g[i].id < id /\ g[i].id \in Nat
  <2>1. \A i \in 1 .. m : f[i] \in Chunk
    BY ElementOfSeq
  <2> QED
    BY <1>2, <2>1 DEF Begins, Chunk
<1>4. \A i \in 1 .. m + 2 : i \in 1 .. m \/ i = m + 1 \/ i = m + 2
  BY <1>1
<1>5. ASSUME NEW i \in 1 .. m + 2, g[i].part = 2 PROVE i > 1 /\ g[i - 1] = [id |-> g[i].id, part |-> 1]
  <2>1. CASE i \in 1 .. m
    <3>1. i > 1 /\ f[i - 1] = [id |-> f[i].id, part |-> 1]
      BY <2>1, <1>3, <1>5 DEF Entries
    <3>2. i - 1 \in 1 .. m
      BY <1>1, <2>1, <3>1
    <3> QED
      BY <2>1, <3>1, <3>2, <1>3
  <2>2. CASE i = m + 1
    BY <2>2, <1>2, <1>5
  <2>3. CASE i = m + 2
    <3>1. i - 1 = m + 1 /\ i > 1
      BY <2>3, <1>1
    <3> QED
      BY <2>3, <3>1, <1>2
  <2> QED
    BY <2>1, <2>2, <2>3, <1>4
<1>6. ASSUME NEW i \in 1 .. m + 2, NEW j \in 1 .. m + 2, i < j
      PROVE  g[i].id <= g[j].id /\ (g[j].part = 1 => g[i].id < g[j].id)
  <2>1. CASE j \in 1 .. m
    <3>1. i \in 1 .. m
      BY <2>1, <1>1, <1>6
    <3> QED
      BY <2>1, <3>1, <1>3, <1>6 DEF Entries
  <2>2. CASE j = m + 1
    <3>1. i \in 1 .. m
      BY <2>2, <1>1, <1>6
    <3> QED
      BY <2>2, <3>1, <1>2, <1>3
  <2>3. CASE j = m + 2
    <3>1. i \in 1 .. m \/ i = m + 1
      BY <2>3, <1>1, <1>6
    <3> QED
      BY <2>3, <3>1, <1>2, <1>3
  <2> QED
    BY <2>1, <2>2, <2>3, <1>4
<1>7. \A i \in 1 .. m + 2 : g[i].id <= id
  BY <1>2, <1>3, <1>4
<1> QED
  BY <1>1, <1>2, <1>5, <1>6, <1>7 DEF g, Entries

-----------------------------------------------------------------------------
(* What the steps do to the log                                             *)

LEMMA LogTyped ==
    ASSUME Typed
    PROVE  /\ Log \in Seq(Chunk) /\ Begins(file, Log)
           /\ file \o buf \in Seq(Chunk) /\ Begins(file, file \o buf) /\ Len(file \o buf) = Len(file) + Len(buf)
           /\ Current \in Nat /\ Len(file) \in Nat /\ Len(buf) \in Nat /\ synced \in Nat /\ synced <= Len(file)
<1>1. file \in Seq(Chunk) /\ buf \in Seq(Chunk) /\ ops \in Seq(Command)
  BY DEF Typed
<1>2. file \o buf \in Seq(Chunk) /\ Begins(file, file \o buf) /\ Len(file \o buf) = Len(file) + Len(buf) /\ Begins(file, file)
  BY <1>1, Joining, BeginsItself
<1>3. Len(ops) \in Nat /\ Len(file) \in Nat /\ Len(buf) \in Nat
  BY <1>1, LenProperties
<1>4. synced \in Nat /\ synced <= Len(file)
  BY <1>3 DEF Typed
<1> QED
  BY <1>1, <1>2, <1>3, <1>4 DEF Log, Current

\* The buffer takes an entry, or hands it on to the file with what it held.
LEMMA AppendsToLog ==
    ASSUME Typed, Phases, LogAppend
    PROVE  /\ file' \in Seq(Chunk) /\ Begins(file, file') /\ buf' \in Seq(Chunk) /\ Len(buf') <= BufferSize
           /\ aofOpen => file' \o buf' = (file \o buf) \o Entry(Current)
           /\ aofOpen /\ buf = << >> => file' = file /\ buf' = Entry(Current)
           /\ ~aofOpen => file' = file /\ buf' = buf
<1>1. file \in Seq(Chunk) /\ buf \in Seq(Chunk) /\ Len(buf) <= BufferSize /\ Len(buf) \in Nat /\ Len(file) \in Nat
  BY LogTyped DEF Typed
<1>2. CASE ~aofOpen
  BY <1>1, <1>2, BeginsItself DEF LogAppend
<1>3. CASE aofOpen
  <2> DEFINE e   == Entry(Current)
             all == buf \o e
             B   == BufferSize
  <2>1. e \in Seq(Chunk) /\ Len(e) = 2
    <3>1. Current \in Nat \ {0}
      BY DEF Phases, LogAppend, Current
    <3> QED
      BY <3>1, EntryIsTwo
  <2> HIDE DEF e
  <2>2. all \in Seq(Chunk) /\ Len(all) = Len(buf) + 2
    <3>1. all \in Seq(Chunk) /\ Len(all) = Len(buf) + Len(e)
      BY <1>1, <2>1, Joining
    <3> QED
      BY <2>1, <3>1
  <2>3. buf = << >> => all = e
    BY <2>1, ConcatEmptySeq
  <2>4. (file \o buf) \o e = file \o all
    BY <1>1, <2>1, ConcatAssociative, SMTT(30)
  <2>5. /\ file' = IF Len(all) > B THEN file \o SubSeq(all, 1, B) ELSE file
        /\ buf'  = IF Len(all) > B THEN SubSeq(all, B + 1, Len(all)) ELSE all
    BY <1>3 DEF LogAppend, Buffered, e
  <2>6. B \in Nat /\ B >= 2
    BY BufferAssumption
  <2> HIDE DEF all, B
  <2>7. CASE Len(all) > B
    <3>1. SubSeq(all, 1, B) \in Seq(Chunk)
      BY <2>2, <2>6, <2>7, <1>1, CuttingOff
    <3>2. /\ \A i \in B + 1 .. Len(all) : all[i] \in Chunk
          /\ B + 1 \in Int /\ Len(all) \in Int
      BY <2>2, <2>6, <2>7, <1>1, ElementOfSeq
    <3>3. buf' \in Seq(Chunk) /\ Len(buf') = (IF B + 1 <= Len(all) THEN Len(all) - (B + 1) + 1 ELSE 0)
      BY <2>5, <2>7, <3>2, SubSeqProperties
    <3>4. Len(buf') <= B
      <4> DEFINE n == Len(buf)
      <4>1. n \in Nat /\ n <= B /\ Len(all) = n + 2
        BY <1>1, <2>2 DEF B
      <4> HIDE DEF n
      <4> QED
        BY <4>1, <2>6, <3>3
    <3>5. SubSeq(all, 1, B) \o buf' = all
      <4>1. 1 \in 1 .. Len(all) + 1 /\ B \in 1 - 1 .. Len(all) /\ Len(all) \in B .. Len(all)
        BY <2>2, <2>6, <2>7, <1>1
      <4>2. SubSeq(all, 1, B) \o SubSeq(all, B + 1, Len(all)) = SubSeq(all, 1, Len(all))
        BY <4>1, <2>2, ConcatAdjacentSubSeq
      <4> QED
        BY <4>2, <2>2, <2>5, <2>7, SubSeqFull
    <3>6. file' = file \o SubSeq(all, 1, B)
      BY <2>5, <2>7
    <3>7. file' \in Seq(Chunk) /\ Begins(file, file')
      BY <3>1, <3>6, <1>1, Joining
    <3>8. file' \o buf' = file \o all
      <4> DEFINE p == SubSeq(all, 1, B)
      <4>1. p \in Seq(Chunk) /\ p \o buf' = all /\ file' = file \o p
        BY <3>1, <3>5, <3>6
      <4> HIDE DEF p
      <4>2. (file \o p) \o buf' = file \o (p \o buf')
        <5>1. p \in Seq(Chunk) /\ file \in Seq(Chunk) /\ buf' \in Seq(Chunk)
          BY <4>1, <3>3, <1>1
        <5> QED
          BY <5>1, ConcatAssociative
      <4> QED
        BY <4>1, <4>2
    <3>9. buf # << >>
      <4>1. CASE buf = << >>
        <5>1. Len(buf) = 0
          BY <4>1
        <5> QED
          BY <5>1, <2>2, <2>6, <2>7
      <4> QED
        BY <4>1
    <3> QED
      BY <1>3, <2>4, <3>3, <3>4, <3>7, <3>8, <3>9 DEF B, e
  <2>8. CASE ~(Len(all) > B)
    <3>1. file' = file /\ buf' = all
      BY <2>5, <2>8
    <3>2. Len(all) <= B
      BY <2>2, <2>6, <2>8, <1>1
    <3> QED
      BY <1>1, <1>3, <2>2, <2>3, <2>4, <3>1, <3>2, BeginsItself DEF B, e
  <2> QED
    BY <2>7, <2>8
<1> QED
  BY <1>2, <1>3

\* A write that fails leaves a part of what it was given.
LEMMA FailsInLog ==
    ASSUME Typed, NEW pending \in Seq(Chunk), NEW given \in Nat, given <= Len(pending), FileFails(pending, given)
    PROVE  /\ file' \in Seq(Chunk) /\ Begins(file, file') /\ Begins(file', file \o pending)
           /\ aofOpen /\ ~aofOpen' /\ Len(pending) > 0
           /\ \A i \in 1 .. Len(pending) : pending[i].id \in unlogged' \/ Len(file) + i <= Len(file')
           /\ Len(file') < Len(file) + Len(pending)
           /\ unlogged \subseteq unlogged' /\ unlogged' \subseteq unlogged \cup {pending[i].id : i \in 1 .. Len(pending)}
           /\ pending[Len(pending)].id \in unlogged'
<1>1. file \in Seq(Chunk) /\ Len(file) \in Nat /\ Len(pending) \in Nat
  BY LenProperties DEF Typed
<1>2. PICK n \in 0 .. given - 1 :
         /\ file' = file \o SubSeq(pending, 1, n)
         /\ unlogged' = unlogged \cup {pending[i].id : i \in n + 1 .. Len(pending)}
  BY DEF FileFails
<1> DEFINE m == Len(pending)
           k == Len(file)
<1>3. n \in 0 .. m /\ n < m /\ m > 0 /\ m \in Nat /\ k \in Nat
  BY <1>1, <1>2
<1> DEFINE part == SubSeq(pending, 1, n)
<1>4. part \in Seq(Chunk) /\ Len(part) = n /\ Begins(part, pending)
  BY <1>3, CuttingOff
<1> HIDE DEF part
<1>5. file' = file \o part
  BY <1>2 DEF part
<1>6. file' \in Seq(Chunk) /\ Len(file') = k + n /\ Begins(file, file') /\ \A i \in 1 .. n : file'[k + i] = part[i]
  BY <1>1, <1>4, <1>5, Joining
<1>7. file \o pending \in Seq(Chunk) /\ Len(file \o pending) = k + m /\ Begins(file, file \o pending)
        /\ \A i \in 1 .. m : (file \o pending)[k + i] = pending[i]
  BY <1>1, Joining
<1>8. ASSUME NEW i \in 1 .. k + n PROVE file'[i] = (file \o pending)[i]
  <2>1. CASE i \in 1 .. k
    BY <2>1, <1>6, <1>7 DEF Begins
  <2>2. CASE i \notin 1 .. k
    <3> HIDE DEF k, m
    <3>1. i - k \in 1 .. n /\ k + (i - k) = i /\ i - k \in 1 .. m
      BY <2>2, <1>3
    <3> QED
      <4>1. file'[k + (i - k)] = part[i - k] /\ (file \o pending)[k + (i - k)] = pending[i - k]
        BY <3>1, <1>6, <1>7
      <4>2. part[i - k] = pending[i - k]
        BY <3>1, <1>4 DEF Begins
      <4> QED
        BY <3>1, <4>1, <4>2
  <2> QED
    BY <2>1, <2>2
<1>9. Begins(file', file \o pending)
  <2> HIDE DEF k, m
  <2>1. k + n <= k + m
    BY <1>3
  <2> QED
    BY <2>1, <1>6, <1>7, <1>8 DEF Begins
<1>10. \A i \in 1 .. m : i \in n + 1 .. m \/ k + i <= k + n
  <2> HIDE DEF k, m
  <2> QED
    BY <1>3
<1>11. k + n < k + m /\ m \in n + 1 .. m /\ \A i \in n + 1 .. m : i \in 1 .. m
  <2> HIDE DEF k, m
  <2> QED
    BY <1>3
<1>12. aofOpen /\ ~aofOpen'
  BY DEF FileFails, Typed
<1>13. \A i \in n + 1 .. m : pending[i].id \in unlogged'
  BY <1>2
<1>14. unlogged \subseteq unlogged' /\ unlogged' \subseteq unlogged \cup {pending[i].id : i \in 1 .. m}
  BY <1>2, <1>11
<1> HIDE DEF k, m
<1>15. \A i \in 1 .. m : pending[i].id \in unlogged' \/ k + i <= Len(file')
  BY <1>6, <1>10, <1>13
<1>16. Len(file') < k + m /\ pending[m].id \in unlogged'
  BY <1>6, <1>11, <1>13
<1> QED
  BY <1>3, <1>6, <1>9, <1>12, <1>14, <1>15, <1>16 DEF k, m

-----------------------------------------------------------------------------
(* First part of the invariant: types, phases, the order of the log and of  *)
(* the databases.                                                           *)

Base == Typed /\ Phases /\ LogInOrder /\ MemoryInOrder

LEMMA BaseInit == ASSUME Init PROVE Base
<1>1. << >> \in Seq(Chunk) /\ << >> \in Seq(Command) /\ << >> \in Seq(Effects) /\ Len(<< >>) = 0
  BY EmptySeq
<1>2. Typed
  <2>1. memory \in [DBs -> Seq(Effects)] /\ before \in [DBs -> Seq(Effects)]
    BY <1>1 DEF Init
  <2>2. 0 \in 0 .. MaxCrashes /\ 0 \in 0 .. 0 /\ 0 <= BufferSize
    BY BufferAssumption, BoundAssumption
  <2> QED
    BY <1>1, <2>1, <2>2 DEF Init, Typed
<1>3. Phases
  BY DEF Init, Phases
<1>4. Len(Log) = 0
  <2>1. file \o buf = << >>
    BY <1>1, ConcatEmptySeq DEF Init
  <2> QED
    BY <2>1 DEF Init, Log
<1>5. LogInOrder
  BY <1>4 DEF LogInOrder, Entries
<1>6. \A d \in DBs : Len(memory[d]) = 0 /\ Len(before[d]) = 0
  BY DEF Init
<1>7. MemoryInOrder
  BY <1>6 DEF MemoryInOrder, Increasing
<1> QED
  BY <1>2, <1>3, <1>5, <1>7 DEF Base

\* The log stays in order when it loses chunks from its end, or commands are executed.
LEMMA LogShrinks ==
    ASSUME Typed, LogInOrder, Log' \in Seq(Chunk), Begins(Log', Log),
           Current' \in Nat, Current' >= Current, pc' = "append" => pc = "append" \/ Current' > Current
    PROVE  LogInOrder'
<1>1. Log \in Seq(Chunk) /\ Current \in Nat /\ \A i \in 1 .. Len(Log) : Log[i] \in Chunk /\ Log[i].id \in Nat
  <2>1. Log \in Seq(Chunk) /\ Current \in Nat
    BY LogTyped
  <2>2. \A i \in 1 .. Len(Log) : Log[i] \in Chunk
    BY <2>1, ElementOfSeq
  <2> QED
    BY <2>1, <2>2 DEF Chunk
<1> DEFINE f == Log'
           c == Current'
<1>2. f \in Seq(Chunk) /\ Begins(f, Log) /\ c \in Nat /\ c >= Current
  OBVIOUS
<1> HIDE DEF f, c
<1>3. Entries(f) /\ \A n \in 1 .. Len(f) : n \in 1 .. Len(Log) /\ f[n] = Log[n]
  BY <1>1, <1>2, EntriesOfPart, WholeKept DEF LogInOrder
<1>4. \A n \in 1 .. Len(f) : f[n].id <= c /\ (pc = "append" => f[n].id < c) /\ (c > Current => f[n].id < c)
  BY <1>1, <1>2, <1>3 DEF LogInOrder
<1> QED
  BY <1>3, <1>4 DEF f, c, LogInOrder

\* It stays in order when the entry of the current command is added, or a part of it.
LEMMA LogLengthens ==
    ASSUME Typed, Phases, LogInOrder, pc = "append", Log' \in Seq(Chunk), Begins(Log', Log \o Entry(Current)),
           ops' = ops, pc' # "append"
    PROVE  LogInOrder'
<1>1. Log \in Seq(Chunk) /\ Current \in Nat \ {0} /\ Current' = Current
  BY LogTyped DEF Phases, Current
<1> DEFINE f == Log'
           g == Log \o Entry(Current)
<1>2. f \in Seq(Chunk) /\ Begins(f, g)
  OBVIOUS
<1>3. g \in Seq(Chunk) /\ Entries(g) /\ \A n \in 1 .. Len(g) : g[n].id <= Current
  BY <1>1, EntryAdded DEF LogInOrder
<1> HIDE DEF f, g
<1>4. Entries(f) /\ \A n \in 1 .. Len(f) : n \in 1 .. Len(g) /\ f[n] = g[n]
  BY <1>2, <1>3, EntriesOfPart, WholeKept
<1> QED
  BY <1>1, <1>3, <1>4 DEF f, LogInOrder

\* Steps that leave the log and the databases alone.
LEMMA BaseUntouched ==
    ASSUME Base, Typed', Phases', ops' = ops, memory' = memory, before' = before,
           Log' = Log, pc' = "append" => pc = "append"
    PROVE  Base'
<1>1. Current' = Current /\ Current \in Nat /\ Log \in Seq(Chunk)
  BY LogTyped DEF Base, Current
<1>2. Begins(Log', Log)
  BY <1>1, BeginsItself
<1>3. LogInOrder'
  BY <1>1, <1>2, LogShrinks DEF Base
<1>4. MemoryInOrder'
  BY <1>1 DEF Base, MemoryInOrder
<1> QED
  BY <1>3, <1>4 DEF Base

LEMMA WakeBase == ASSUME Base, Wake PROVE Base'
<1>1. Typed' /\ Phases'
  BY DEF Base, Wake, Typed, Phases, disk, history
<1> QED
  BY <1>1, BaseUntouched DEF Wake, disk, history, Log

LEMMA ReplyBase == ASSUME Base, Reply PROVE Base'
<1>1. Len(ops) \in Nat /\ first \in 1 .. Len(ops)
  BY LogTyped DEF Base, Reply, Phases, Current
<1>2. Typed'
  <2>1. acked' \subseteq 1 .. Len(ops) /\ acked \subseteq acked'
    <3> DEFINE n == Len(ops)
    <3>1. acked \subseteq 1 .. n /\ acked' = acked \cup first .. n /\ n \in Nat /\ first \in 1 .. n
      BY <1>1 DEF Base, Reply, Typed, Current
    <3> HIDE DEF n
    <3>2. first .. n \subseteq 1 .. n
      BY <3>1
    <3> QED
      BY <3>1, <3>2 DEF n
  <2> QED
    BY <2>1 DEF Base, Reply, Typed, disk
<1>3. Phases'
  BY DEF Base, Reply, Phases, disk
<1> QED
  BY <1>2, <1>3, BaseUntouched DEF Reply, disk, Log

LEMMA LogSyncBase == ASSUME Base, LogSync PROVE Base'
<1>1. Typed'
  BY LogTyped DEF Base, LogSync, Typed, history
<1>2. Phases'
  BY DEF Base, LogSync, Phases, history
<1> QED
  BY <1>1, <1>2, BaseUntouched DEF LogSync, history, Log

LEMMA SignalBase == ASSUME Base, Signal PROVE Base'
<1>1. Typed'
  BY DEF Base, Signal, Typed, disk, history
<1>2. Phases'
  BY DEF Base, Signal, MayDie, Typed, Phases, disk, history
<1> QED
  BY <1>1, <1>2, BaseUntouched DEF Signal, disk, history, Log

LEMMA WriteBackBase == ASSUME Base, WriteBack PROVE Base'
<1>1. Typed'
  BY LogTyped DEF Base, WriteBack, Typed, process, history
<1>2. Phases'
  BY DEF Base, WriteBack, Phases, process, history
<1> QED
  BY <1>1, <1>2, BaseUntouched DEF WriteBack, process, history, Log

LEMMA ExecuteBase == ASSUME Base, ExecuteNext PROVE Base'
<1>1. PICK kind \in Kinds, d \in DBs : Execute(kind, d)
  BY DEF ExecuteNext
<1>2. Continue \/ \E n \in 1 .. MaxQueue : Begin(n)
  BY DEF ExecuteNext
<1>3. pc \in {"batch", "reply"} /\ first' \in Nat /\ first' >= 1 /\ first' <= Current + 1 /\ rest' \in Nat
        /\ (\A id \in acked : id < first')
  <2>0. Current \in Nat
    BY LogTyped DEF Base
  <2>1. CASE Continue
    BY <2>0, <2>1 DEF Continue, Base, Typed, Phases, Current
  <2>2. CASE \E n \in 1 .. MaxQueue : Begin(n)
    <3>1. PICK n \in 1 .. MaxQueue : Begin(n)
      BY <2>2
    <3>2. n - 1 \in Nat
      BY BoundAssumption
    <3> QED
      BY <2>0, <3>1, <3>2 DEF Begin, Base, Typed, Current
  <2> QED
    BY <2>1, <2>2, <1>2
<1>4. PICK draw \in Draws : memory' = Apply(memory, kind, d, Effect(Current + 1, Outcome(kind, draw)))
  BY <1>1 DEF Execute
<1> DEFINE e == Effect(Current + 1, Outcome(kind, draw))
<1>5. Current \in Nat /\ crashes \in Int
  BY LogTyped DEF Base, Typed
<1>6. e \in Effects /\ e.id = Current + 1
  <2>1. Outcome(kind, draw) \in Int
    BY <1>5 DEF Outcome, Draws
  <2> QED
    BY <1>5, <2>1 DEF Effect, Effects
<1>7. ops' \in Seq(Command) /\ Len(ops') = Len(ops) + 1 /\ Current' = Current + 1
  <2>1. ops \in Seq(Command) /\ [kind |-> kind, db |-> d] \in Command
    BY DEF Base, Typed, Command
  <2>2. ops' = Append(ops, [kind |-> kind, db |-> d])
    BY <1>1 DEF Execute
  <2> QED
    BY <2>1, <2>2, AppendProperties DEF Current
<1> HIDE DEF e
<1>8. /\ memory' \in [DBs -> Seq(Effects)]
      /\ \A c \in DBs : \/ memory'[c] = memory[c]
                        \/ memory'[c] = << >>
                        \/ memory'[c] = Append(memory[c], e)
  <2>1. memory \in [DBs -> Seq(Effects)]
    BY DEF Base, Typed
  <2>2. Append(memory[d], e) \in Seq(Effects) /\ << >> \in Seq(Effects)
    BY <2>1, <1>6, AppendProperties
  <2>3. memory' = Apply(memory, kind, d, e)
    BY <1>4 DEF e
  <2>4. CASE kind = "flushall"
    BY <2>1, <2>2, <2>3, <2>4 DEF Apply
  <2>5. CASE kind = "flushdb"
    BY <2>1, <2>2, <2>3, <2>5 DEF Apply
  <2>6. CASE kind # "flushall" /\ kind # "flushdb"
    <3>1. memory' = [memory EXCEPT ![d] = Append(memory[d], e)]
      BY <2>3, <2>6 DEF Apply
    <3> QED
      BY <3>1, <2>1, <2>2
  <2> QED
    BY <2>4, <2>5, <2>6
<1>9. Typed'
  <2>1. 1 .. Len(ops) \subseteq 1 .. Len(ops')
    BY <1>5, <1>7 DEF Current
  <2>2. acked' \subseteq 1 .. Len(ops') /\ unlogged' \subseteq 1 .. Len(ops')
    BY <1>1, <2>1 DEF Execute, Base, Typed
  <2> QED
    BY <1>1, <1>3, <1>7, <1>8, <2>2 DEF Execute, Base, Typed, disk
<1>10. Phases'
  BY <1>1, <1>3, <1>5, <1>7 DEF Execute, Base, Phases, disk, Current
<1>11. LogInOrder'
  <2>1. Log' = Log /\ Log \in Seq(Chunk) /\ Begins(Log', Log)
    BY <1>1, LogTyped, BeginsItself DEF Execute, Base, disk, Log
  <2> QED
    BY <2>1, <1>5, <1>7, LogShrinks DEF Base
<1>12. ASSUME NEW c \in DBs
       PROVE  Increasing(memory'[c]) /\ \A i \in 1 .. Len(memory'[c]) : memory'[c][i].id <= Current + 1
  <2>1. memory[c] \in Seq(Effects) /\ Increasing(memory[c]) /\ Len(memory[c]) \in Nat
          /\ (\A i \in 1 .. Len(memory[c]) : memory[c][i].id <= Current /\ memory[c][i].id \in Nat)
    <3>1. memory[c] \in Seq(Effects)
      BY DEF Base, Typed
    <3>2. Len(memory[c]) \in Nat /\ \A i \in 1 .. Len(memory[c]) : memory[c][i] \in Effects
      BY <3>1, LenProperties, ElementOfSeq
    <3> QED
      BY <3>1, <3>2 DEF Base, MemoryInOrder, Effects
  <2>2. CASE memory'[c] = memory[c]
    BY <2>1, <2>2, <1>5
  <2>3. CASE memory'[c] = << >>
    BY <2>3 DEF Increasing
  <2>4. CASE memory'[c] = Append(memory[c], e)
    <3> DEFINE s == memory[c]
               t == memory'[c]
               m == Len(s)
    <3>1. Len(t) = m + 1 /\ m \in Nat /\ (\A i \in 1 .. m : t[i] = s[i]) /\ t[m + 1].id = Current + 1
      BY <2>1, <2>4, <1>6, AppendProperties
    <3>2. Increasing(s) /\ \A i \in 1 .. m : s[i].id <= Current /\ s[i].id \in Nat
      BY <2>1
    <3> HIDE DEF s, t, m
    <3>3. \A i \in 1 .. m + 1 : i \in 1 .. m \/ i = m + 1
      BY <3>1
    <3>4. \A i \in 1 .. Len(t) : t[i].id <= Current + 1
      BY <3>1, <3>2, <3>3, <1>5
    <3>5. ASSUME NEW i \in 1 .. Len(t), NEW j \in 1 .. Len(t), i < j PROVE t[i].id < t[j].id
      <4>1. i \in 1 .. m
        BY <3>1, <3>5
      <4>2. CASE j \in 1 .. m
        BY <4>1, <4>2, <3>1, <3>2, <3>5 DEF Increasing, m
      <4>3. CASE j = m + 1
        BY <4>1, <4>3, <3>1, <3>2, <1>5
      <4> QED
        BY <4>2, <4>3, <3>1, <3>3
    <3> QED
      BY <3>4, <3>5 DEF Increasing, t
  <2> QED
    BY <2>2, <2>3, <2>4, <1>8
<1>13. MemoryInOrder'
  <2>1. before' = before /\ before \in [DBs -> Seq(Effects)]
    BY <1>1 DEF Execute, Base, Typed
  <2>2. ASSUME NEW c \in DBs
        PROVE  Increasing(before[c]) /\ \A i \in 1 .. Len(before[c]) : before[c][i].id <= Current + 1
    <3>1. before[c] \in Seq(Effects)
      BY <2>1
    <3>2. \A i \in 1 .. Len(before[c]) : before[c][i] \in Effects
      BY <3>1, ElementOfSeq
    <3> QED
      BY <3>2, <1>5 DEF Base, MemoryInOrder, Effects
  <2> QED
    BY <1>7, <1>12, <2>1, <2>2 DEF MemoryInOrder
<1> QED
  BY <1>9, <1>10, <1>11, <1>13 DEF Base

LEMMA LogAppendBase == ASSUME Base, LogAppend PROVE Base'
<1>1. Typed /\ Phases /\ LogInOrder
  BY DEF Base
<1>2. /\ file' \in Seq(Chunk) /\ Begins(file, file') /\ buf' \in Seq(Chunk) /\ Len(buf') <= BufferSize
      /\ aofOpen => file' \o buf' = (file \o buf) \o Entry(Current)
      /\ ~aofOpen => file' = file /\ buf' = buf
  BY <1>1, AppendsToLog
<1>3. Typed'
  <2>1. unlogged' \subseteq 1 .. Len(ops)
    <3>1. Len(ops) \in Nat /\ Len(ops) \in 1 .. Len(ops) /\ unlogged \subseteq 1 .. Len(ops)
      BY <1>1, LogTyped DEF LogAppend, Typed, Phases, Current
    <3>2. unlogged' \subseteq unlogged \cup {Len(ops)}
      BY DEF LogAppend, Current
    <3> QED
      BY <3>1, <3>2
  <2>2. synced \in 0 .. Len(file')
    BY <1>1, <1>2, LogTyped, WholeKept DEF Typed
  <2> QED
    BY <1>1, <1>2, <2>1, <2>2 DEF LogAppend, Typed
<1>4. Phases'
  BY <1>1 DEF LogAppend, Phases
<1>5. ops' = ops /\ memory' = memory /\ before' = before /\ pc = "append" /\ pc' # "append" /\ aofOpen' = aofOpen
  BY DEF LogAppend
<1>6. CASE aofOpen
  <2>1. Log' = Log \o Entry(Current)
    BY <1>2, <1>5, <1>6 DEF Log
  <2>2. Log' \in Seq(Chunk)
    <3>1. Log' = file' \o buf'
      BY <1>5, <1>6 DEF Log
    <3> QED
      BY <3>1, <1>2, Joining
  <2>3. Begins(Log', Log \o Entry(Current))
    BY <2>1, <2>2, BeginsItself
  <2>4. LogInOrder'
    BY <1>1, <1>5, <2>2, <2>3, LogLengthens
  <2>5. MemoryInOrder'
    BY <1>5 DEF Base, MemoryInOrder, Current
  <2> QED
    BY <1>3, <1>4, <2>4, <2>5 DEF Base
<1>7. CASE ~aofOpen
  <2>1. Log' = Log
    BY <1>2, <1>5, <1>7 DEF Log
  <2> QED
    BY <2>1, <1>3, <1>4, <1>5, BaseUntouched
<1> QED
  BY <1>6, <1>7

\* The buffer is written out.
LEMMA WritesOut ==
    ASSUME Typed, aofOpen, file' = file \o buf, buf' = << >>
    PROVE  /\ file' = Log /\ Log' = Log /\ file' \in Seq(Chunk) /\ Begins(file, file')
           /\ synced \in 0 .. Len(file') /\ Len(file') \in 0 .. Len(file') /\ << >> \in Seq(Chunk) /\ Len(<< >>) <= BufferSize
<1>1. file' \in Seq(Chunk) /\ Begins(file, file') /\ file' = Log /\ Len(file) \in Nat
  BY LogTyped DEF Log
<1>2. Len(file') \in Nat /\ Len(file) <= Len(file')
  BY <1>1, LenProperties DEF Begins
<1>3. synced \in 0 .. Len(file')
  BY <1>1, <1>2, LogTyped
<1>4. file' \o << >> = file'
  BY <1>1, ConcatEmptySeq
<1>5. Log' = Log
  BY <1>1, <1>4 DEF Log
<1> QED
  BY <1>1, <1>2, <1>3, <1>5, EmptySeq, BufferAssumption

LEMMA LogFlushBase == ASSUME Base, LogFlush PROVE Base'
<1>1. Typed /\ Phases
  BY DEF Base
<1>2. CASE aofOpen
  <2>1. file' = file \o buf /\ buf' = << >>
    BY <1>2 DEF LogFlush
  <2>2. Log' = Log /\ file' \in Seq(Chunk) /\ synced \in 0 .. Len(file') /\ << >> \in Seq(Chunk) /\ Len(<< >>) <= BufferSize
    BY <1>1, <1>2, <2>1, WritesOut
  <2>3. Typed'
    BY <1>1, <2>1, <2>2 DEF LogFlush, Typed, history
  <2>4. Phases'
    BY <1>1 DEF LogFlush, Phases, history
  <2> QED
    BY <2>2, <2>3, <2>4, BaseUntouched DEF LogFlush, history
<1>3. CASE ~aofOpen
  <2>1. Typed' /\ Phases'
    BY <1>1, <1>3 DEF LogFlush, Typed, Phases, history
  <2> QED
    BY <1>3, <2>1, BaseUntouched DEF LogFlush, history, Log
<1> QED
  BY <1>2, <1>3

LEMMA BgSyncBase == ASSUME Base, BgSync PROVE Base'
<1>1. Typed /\ Phases
  BY DEF Base
<1>2. aofOpen /\ file' = file \o buf /\ buf' = << >> /\ synced' = Len(file')
  BY DEF BgSync
<1>3. /\ Log' = Log /\ file' \in Seq(Chunk) /\ Len(file') \in 0 .. Len(file')
      /\ << >> \in Seq(Chunk) /\ Len(<< >>) <= BufferSize
  BY <1>1, <1>2, WritesOut
<1>4. Typed'
  BY <1>1, <1>2, <1>3 DEF BgSync, Typed
<1>5. Phases'
  BY <1>1 DEF BgSync, Phases
<1> QED
  BY <1>3, <1>4, <1>5, BaseUntouched DEF BgSync

LEMMA FlushAsideBase == ASSUME Base, FlushAside PROVE Base'
<1>1. Typed /\ Phases
  BY DEF Base
<1>2. aofOpen /\ file' = file \o buf /\ buf' = << >>
  BY DEF FlushAside
<1>3. Log' = Log /\ file' \in Seq(Chunk) /\ synced \in 0 .. Len(file') /\ << >> \in Seq(Chunk) /\ Len(<< >>) <= BufferSize
  BY <1>1, <1>2, WritesOut
<1>4. Typed'
  BY <1>1, <1>2, <1>3 DEF FlushAside, Typed, history
<1>5. Phases'
  BY <1>1 DEF FlushAside, Phases, history
<1> QED
  BY <1>3, <1>4, <1>5, BaseUntouched DEF FlushAside, history

LEMMA CloseAOFBase == ASSUME Base, CloseAOF PROVE Base'
<1>1. Typed /\ Phases
  BY DEF Base
<1>2. aofOpen /\ file' = file \o buf /\ buf' = << >> /\ synced' = Len(file')
  BY DEF CloseAOF
<1>3. /\ file' = Log /\ file' \in Seq(Chunk) /\ Len(file') \in 0 .. Len(file')
      /\ << >> \in Seq(Chunk) /\ Len(<< >>) <= BufferSize
  BY <1>1, <1>2, WritesOut
<1>4. Typed'
  <2>1. clean' \in BOOLEAN
    BY DEF CloseAOF
  <2> QED
    BY <1>1, <1>2, <1>3, <2>1 DEF CloseAOF, Typed
<1>5. Phases'
  BY <1>1 DEF CloseAOF, Phases
<1>6. Log' = Log
  BY <1>3 DEF CloseAOF, Log
<1> QED
  BY <1>4, <1>5, <1>6, BaseUntouched DEF CloseAOF

\* The three places where the file may fail.
LEMMA FailingBase ==
    ASSUME Base, NEW pending \in Seq(Chunk), NEW given \in Nat, given <= Len(pending), FileFails(pending, given),
           \/ pending = buf /\ (pc' = pc \/ (pc = "flush" /\ pc' = "reply")) /\ pc # "down"
           \/ pending = buf \o Entry(Current) /\ pc = "append" /\ pc' = "reply"
    PROVE  Base'
<1>1. Typed /\ Phases /\ LogInOrder /\ Log \in Seq(Chunk)
  BY LogTyped DEF Base
<1>2. /\ file' \in Seq(Chunk) /\ Begins(file, file') /\ Begins(file', file \o pending)
      /\ aofOpen /\ ~aofOpen'
      /\ unlogged' \subseteq unlogged \cup {pending[i].id : i \in 1 .. Len(pending)}
  BY <1>1, FailsInLog
<1>3. /\ ops' = ops /\ memory' = memory /\ before' = before /\ buf' = buf
      /\ UNCHANGED <<policy, rest, first, epollOpen, stopping, synced, acked, safe, clean, crashes>>
  BY DEF FileFails
<1>4. synced \in 0 .. Len(file')
  BY <1>1, <1>2, LogTyped, WholeKept DEF Typed
<1>5. Log' = file' /\ Log = file \o buf
  BY <1>2 DEF Log
<1>6. Current \in Nat /\ file \in Seq(Chunk) /\ buf \in Seq(Chunk) /\ Len(file) \in Nat
  BY <1>1, LogTyped DEF Typed
<1>7. LogInOrder' /\ \A i \in 1 .. Len(pending) : pending[i].id \in 1 .. Current
  <2>1. CASE pending = buf
    <3>1. Begins(Log', Log) /\ Log' \in Seq(Chunk) /\ (pc' = "append" => pc = "append")
      BY <2>1, <1>2, <1>5
    <3>2. Current' \in Nat /\ Current' >= Current
      BY <1>3, <1>6 DEF Current
    <3>3. LogInOrder'
      BY <3>1, <3>2, <1>1, LogShrinks
    <3>4. ASSUME NEW i \in 1 .. Len(buf) PROVE buf[i].id \in 1 .. Current
      <4>1. Log[Len(file) + i] = buf[i] /\ Len(Log) = Len(file) + Len(buf) /\ Len(buf) \in Nat
        BY <1>5, <1>6, Joining, LenProperties
      <4>2. Len(file) + i \in 1 .. Len(Log)
        <5> DEFINE k == Len(file)
                   m == Len(buf)
        <5>1. k \in Nat /\ m \in Nat /\ i \in 1 .. m /\ Len(Log) = k + m
          BY <4>1, <1>6
        <5> HIDE DEF k, m
        <5>2. k + i \in 1 .. k + m
          BY <5>1
        <5> QED
          BY <5>1, <5>2 DEF k
      <4>3. buf[i] \in Chunk /\ buf[i].id <= Current
        BY <4>1, <4>2, <1>1, <1>6, ElementOfSeq DEF LogInOrder
      <4> QED
        BY <4>3, <1>6 DEF Chunk
    <3> QED
      BY <3>3, <3>4, <2>1
  <2>2. CASE pending = buf \o Entry(Current) /\ pc = "append" /\ pc' = "reply"
    <3>1. Current \in Nat \ {0} /\ Entry(Current) \in Seq(Chunk)
      BY <2>2, <1>1, <1>6, EntryIsTwo DEF Phases, Current
    <3>2. file \o pending = Log \o Entry(Current)
      <4> DEFINE e == Entry(Current)
      <4>1. e \in Seq(Chunk) /\ file \in Seq(Chunk) /\ buf \in Seq(Chunk)
        BY <3>1, <1>6
      <4>2. pending = buf \o e /\ Log = file \o buf
        BY <2>2, <1>5
      <4> HIDE DEF e
      <4>3. (file \o buf) \o e = file \o (buf \o e)
        <5>1. \A f, g, h \in Seq(Chunk) : (f \o g) \o h = f \o (g \o h)
          BY ConcatAssociative, SMTT(30)
        <5> QED
          BY <4>1, <5>1, Zenon
      <4> QED
        BY <4>2, <4>3 DEF e
    <3>3. LogInOrder'
      BY <2>2, <3>2, <1>1, <1>2, <1>3, <1>5, LogLengthens
    <3>4. ASSUME NEW i \in 1 .. Len(pending) PROVE pending[i].id \in 1 .. Current
      <4> DEFINE g == Log \o Entry(Current)
      <4>1. g \in Seq(Chunk) /\ \A n \in 1 .. Len(g) : g[n].id <= Current
        <5>1. \A n \in 1 .. Len(Log) : Log[n].id < Current
          BY <2>2, <1>1 DEF LogInOrder
        <5>2. Entries(Log)
          BY <1>1 DEF LogInOrder
        <5>3. g \in Seq(Chunk) /\ Len(g) = Len(Log) + 2 /\ \A n \in 1 .. Len(Log) + 2 : g[n].id <= Current
          BY <5>1, <5>2, <3>1, <1>1, EntryAdded
        <5> QED
          BY <5>3
      <4>2. g[Len(file) + i] = pending[i] /\ Len(g) = Len(file) + Len(pending) /\ Len(pending) \in Nat
        BY <3>2, <1>6, Joining, LenProperties
      <4> HIDE DEF g
      <4>3. Len(file) + i \in 1 .. Len(g)
        <5> DEFINE k == Len(file)
                   m == Len(pending)
        <5>1. k \in Nat /\ m \in Nat /\ i \in 1 .. m /\ Len(g) = k + m
          BY <4>2, <1>6
        <5> HIDE DEF k, m
        <5>2. k + i \in 1 .. k + m
          BY <5>1
        <5> QED
          BY <5>1, <5>2 DEF k
      <4>4. pending[i].id <= Current
        BY <4>1, <4>2, <4>3
      <4>5. pending[i] \in Chunk
        BY ElementOfSeq
      <4> QED
        BY <4>4, <4>5, <1>6 DEF Chunk
    <3> QED
      BY <3>3, <3>4
  <2> QED
    BY <2>1, <2>2
<1>8. Typed'
  <2>1. unlogged' \subseteq 1 .. Len(ops)
    BY <1>1, <1>2, <1>7 DEF Typed, Current
  <2> QED
    <3>1. pc' \in {"wait", "batch", "append", "flush", "sync", "reply", "down"} /\ aofOpen' \in BOOLEAN
      <4>1. aofOpen' = FALSE
        BY DEF FileFails
      <4>2. pc' \in {pc, "reply"}
        OBVIOUS
      <4> QED
        BY <1>1, <4>1, <4>2 DEF Typed
    <3> QED
      BY <1>1, <1>2, <1>3, <1>4, <2>1, <3>1 DEF Typed
<1>9. Phases'
  BY <1>1, <1>3 DEF Phases
<1>10. MemoryInOrder'
  BY <1>3 DEF Base, MemoryInOrder, Current
<1> QED
  BY <1>7, <1>8, <1>9, <1>10 DEF Base

LEMMA FailsBase == ASSUME Base, AppendFails \/ FlushFails \/ FlushFailsAside PROVE Base'
<1>1. buf \in Seq(Chunk) /\ Len(buf) \in Nat /\ Current \in Nat
  BY LogTyped DEF Base, Typed
<1>2. CASE AppendFails
  <2>1. Current \in Nat \ {0} /\ Entry(Current) \in Seq(Chunk)
    <3>1. Current \in Nat \ {0}
      BY <1>1, <1>2 DEF AppendFails, Base, Phases, Current
    <3> QED
      BY <3>1, EntryIsTwo
  <2>2. buf \o Entry(Current) \in Seq(Chunk)
    BY <1>1, <2>1, Joining
  <2>3. Len(buf \o Entry(Current)) \in Nat
    BY <2>2, LenProperties
  <2>4. BufferSize \in Nat /\ BufferSize <= Len(buf \o Entry(Current))
    BY <1>2, <2>3, BufferAssumption DEF AppendFails
  <2> QED
    BY <1>2, <2>2, <2>4, FailingBase DEF AppendFails
<1>3. CASE FlushFails
  BY <1>1, <1>3, FailingBase DEF FlushFails
<1>4. CASE FlushFailsAside
  <2>1. FileFails(buf, Len(buf)) /\ pc' = pc /\ pc # "down"
    BY <1>4 DEF FlushFailsAside, Unlocked
  <2>2. Len(buf) <= Len(buf)
    BY <1>1
  <2> QED
    <3> DEFINE n == Len(buf)
    <3>1. FileFails(buf, n) /\ n \in Nat /\ n <= Len(buf)
      BY <1>1, <2>1, <2>2
    <3> HIDE DEF n
    <3> QED
      BY <1>1, <2>1, <3>1, FailingBase
<1> QED
  BY <1>2, <1>3, <1>4

\* The process dies; the file keeps what it held, or less.
LEMMA DyingBase ==
    ASSUME Base, Dies, MayDie, file' \in Seq(Chunk), Begins(file', file), synced' \in 0 .. Len(file'), clean' \in BOOLEAN
    PROVE  Base'
<1>1. Typed /\ Phases /\ LogInOrder
  BY DEF Base
<1>2. Typed'
  <2>1. memory' \in [DBs -> Seq(Effects)]
    BY EmptySeq DEF Dies
  <2>2. crashes' \in 0 .. MaxCrashes
    BY <1>1, BoundAssumption DEF Dies, MayDie, Typed
  <2>3. Len(<< >>) <= BufferSize /\ << >> \in Seq(Chunk)
    BY EmptySeq, BufferAssumption
  <2> QED
    BY <1>1, <2>1, <2>2, <2>3 DEF Dies, Typed
<1>3. Phases'
  BY <1>1 DEF Dies, Phases, Typed
<1>4. Log' = file'
  <2>1. file' \o << >> = file'
    BY ConcatEmptySeq
  <2> QED
    BY <2>1 DEF Dies, Log
<1>5. LogInOrder'
  <2>1. file \in Seq(Chunk) /\ Log \in Seq(Chunk) /\ Begins(file, Log) /\ Current \in Nat
    BY <1>1, LogTyped DEF Typed
  <2>2. Begins(Log', Log)
    BY <2>1, <1>4, BeginsOnward
  <2>3. Current' = Current /\ pc' # "append"
    BY DEF Dies, Current
  <2> QED
    BY <2>1, <2>2, <2>3, <1>1, <1>4, LogShrinks
<1>6. MemoryInOrder'
  <2>1. \A d \in DBs : memory'[d] = << >> /\ before'[d] = memory[d] /\ Current' = Current
    BY DEF Dies, Current
  <2> QED
    BY <2>1 DEF Base, MemoryInOrder, Increasing
<1> QED
  BY <1>2, <1>3, <1>5, <1>6 DEF Base

\* Every way the process dies.
Crash == (EndBatch /\ ~epollOpen) \/ Exit \/ Kill \/ PowerCut

LEMMA CrashDies ==
    ASSUME Typed, Phases, Crash
    PROVE  /\ Dies /\ MayDie /\ file' \in Seq(Chunk) /\ Begins(file', file)
           /\ synced' \in 0 .. Len(file') /\ synced <= synced' /\ clean' \in BOOLEAN
           /\ Len(file') \in Nat /\ synced \in Nat /\ synced <= Len(file')
           /\ clean' = clean /\ (synced = Len(file) => file' = file /\ synced' = synced)
<1>1. file \in Seq(Chunk) /\ Len(file) \in Nat /\ synced \in 0 .. Len(file) /\ clean \in BOOLEAN
  BY LogTyped DEF Typed
<1>2. Begins(file, file)
  BY <1>1, BeginsItself
<1>0. synced \in Nat /\ synced <= synced /\ synced <= Len(file)
  BY <1>1
<1>3. CASE EndBatch /\ ~epollOpen
  <2>1. Dies /\ clean' = clean /\ file' = file /\ synced' = synced
    BY <1>3 DEF EndBatch, disk
  <2>2. MayDie
    BY <1>3 DEF EndBatch, MayDie, Phases
  <2> QED
    BY <1>0, <1>1, <1>2, <2>1, <2>2
<1>4. CASE Exit
  <2>1. Dies /\ clean' = clean /\ file' = file /\ synced' = synced /\ ~aofOpen
    BY <1>4 DEF Exit, disk
  <2>2. MayDie
    BY <1>4 DEF Exit, MayDie, Phases
  <2> QED
    BY <1>0, <1>1, <1>2, <1>4, <2>1, <2>2
<1>5. CASE Kill
  <2>1. Dies /\ MayDie /\ clean' = clean /\ file' = file /\ synced' = synced
    BY <1>5 DEF Kill, disk
  <2> QED
    BY <1>0, <1>1, <1>2, <2>1
<1>6. CASE PowerCut
  <2>1. PICK n \in synced .. Len(file) : file' = SubSeq(file, 1, n) /\ synced' = n
    BY <1>6 DEF PowerCut
  <2>2. n \in 0 .. Len(file) /\ n \in Nat /\ synced <= n /\ synced \in Nat
    BY <1>1
  <2>3. file' \in Seq(Chunk) /\ Len(file') = n /\ Begins(file', file)
    BY <2>1, <2>2, <1>1, CuttingOff
  <2>4. Dies /\ MayDie /\ clean' = clean /\ n \in 0 .. n
    BY <1>6, <2>2 DEF PowerCut
  <2>5. synced = Len(file) => file' = file /\ synced' = synced
    <3> SUFFICES ASSUME synced = Len(file) PROVE file' = file /\ synced' = synced
      OBVIOUS
    <3>1. n = Len(file)
      BY <1>1
    <3> QED
      BY <1>1, <2>1, <3>1
  <2> QED
    BY <1>1, <2>1, <2>2, <2>3, <2>4, <2>5
<1> QED
  BY <1>3, <1>4, <1>5, <1>6 DEF Crash

LEMMA CrashBase == ASSUME Base, Crash PROVE Base'
BY CrashDies, DyingBase DEF Base

LEMMA RestartFound ==
    ASSUME Base, Restart
    PROVE  Found(file, memory') /\ Log = file /\ Log' = file /\ UNCHANGED <<policy, rest, first, buf, disk, history>>
<1>1. Typed /\ Phases /\ LogInOrder /\ pc = "down" /\ file \in Seq(Chunk)
  BY DEF Base, Restart, Typed
<1>2. Log = file /\ Log' = file
  <2>1. buf = << >> /\ buf' = << >> /\ file' = file
    BY <1>1 DEF Phases, Restart, disk
  <2>2. file \o << >> = file
    BY <1>1, ConcatEmptySeq
  <2> QED
    BY <2>1, <2>2 DEF Log
<1>3. PICK r \in Readings(file) : memory' \in Replayed(r)
  BY DEF Restart
<1>4. Entries(file) /\ \A i \in 1 .. Len(file) : file[i].id <= Current
  BY <1>1, <1>2 DEF LogInOrder
<1>5. ops \in Seq(Command) /\ crashes \in Nat
  BY <1>1, BoundAssumption DEF Typed
<1>6. Found(file, memory')
  BY <1>1, <1>3, <1>4, <1>5, RestartFinds
<1> QED
  BY <1>2, <1>6 DEF Restart

LEMMA RestartBase == ASSUME Base, Restart PROVE Base'
<1>1. Typed /\ Phases /\ Log \in Seq(Chunk) /\ Current \in Nat
  BY LogTyped DEF Base
<1>2. Found(file, memory') /\ Log = file /\ Log' = file /\ UNCHANGED <<policy, rest, first, buf, disk, history>>
  BY RestartFound
<1>3. Typed'
  <2>1. memory' \in [DBs -> Seq(Effects)]
    BY <1>2 DEF Found
  <2> QED
    BY <1>1, <1>2, <2>1 DEF Restart, Typed, disk, history
<1>4. Phases'
  BY <1>1, <1>2 DEF Restart, Phases, disk, history
<1>5. Current' = Current
  BY <1>2 DEF Current, history
<1>6. LogInOrder'
  <2>1. Begins(Log', Log) /\ pc' # "append"
    BY <1>1, <1>2, BeginsItself DEF Restart
  <2> QED
    BY <1>1, <1>2, <1>5, <2>1, LogShrinks DEF Base
<1>7. MemoryInOrder'
  <2>1. before' = before
    BY <1>2 DEF history
  <2> QED
    BY <1>2, <1>5, <2>1 DEF Found, Base, MemoryInOrder
<1> QED
  BY <1>3, <1>4, <1>6, <1>7 DEF Base

LEMMA BaseNext == ASSUME Base, [Next]_vars PROVE Base'
<1>1. CASE UNCHANGED vars
  <2>1. Typed'
    BY <1>1 DEF Base, vars, process, disk, history, Typed
  <2>2. Phases'
    BY <1>1 DEF Base, vars, process, disk, history, Phases
  <2> QED
    BY <1>1, <2>1, <2>2, BaseUntouched DEF vars, process, disk, history, Log
<1>2. ASSUME EndBatch, epollOpen PROVE Base'
  <2>0. pc = "batch" /\ pc' = "wait"
          /\ UNCHANGED <<policy, memory, rest, first, epollOpen, buf, aofOpen, stopping, disk, history>>
    BY <1>2 DEF EndBatch
  <2>1. Typed' /\ Phases'
    BY <2>0 DEF Base, Typed, Phases, disk, history
  <2> QED
    BY <2>0, <2>1, BaseUntouched DEF disk, history, Log
<1>3. CASE Next
  BY <1>2, <1>3, WakeBase, ReplyBase, LogSyncBase, SignalBase, WriteBackBase, ExecuteBase, LogAppendBase,
     LogFlushBase, BgSyncBase, FlushAsideBase, CloseAOFBase, FailsBase, CrashBase, RestartBase DEF Next, Loop, Aside, Crash
<1> QED
  BY <1>1, <1>3

-----------------------------------------------------------------------------
(* The kinds of step.  All but four only carry the log towards the disk.    *)

Bookkeeping ==
    /\ UNCHANGED <<policy, memory, before, ops, acked, first>> /\ unlogged \subseteq unlogged'
    /\ pc = "down" <=> pc' = "down"
    /\ file' \in Seq(Chunk) /\ Begins(file, file') /\ synced <= synced' /\ synced' <= Len(file') /\ synced' \in Nat
    /\ \/ ~aofOpen'
       \/ aofOpen /\ Log' = Log /\ (pc = "append" => pc' = "append")
       \/ aofOpen /\ pc = "append" /\ Log' = Log \o Entry(Current)
    /\ safe' = safe \/ BgSync

LEMMA FailingIsBookkeeping ==
    ASSUME Base, NEW pending \in Seq(Chunk), NEW given \in Nat, given <= Len(pending), FileFails(pending, given),
           pc # "down", pc' # "down"
    PROVE  Bookkeeping
<1>1. Typed
  BY DEF Base
<1>2. file' \in Seq(Chunk) /\ Begins(file, file') /\ ~aofOpen' /\ unlogged \subseteq unlogged'
  BY <1>1, FailsInLog
<1>3. synced \in Nat /\ synced <= Len(file')
  BY <1>1, <1>2, LogTyped, WholeKept DEF Typed
<1> QED
  BY <1>2, <1>3 DEF FileFails, Bookkeeping

LEMMA StillIsBookkeeping ==
    ASSUME Base, file' = file, buf' = buf, aofOpen' = aofOpen,
           UNCHANGED <<policy, memory, before, ops, acked, first, unlogged, safe>>,
           pc = "down" <=> pc' = "down", pc = "append" => pc' = "append" \/ ~aofOpen,
           synced <= synced', synced' <= Len(file), synced' \in Nat
    PROVE  Bookkeeping
<1>1. file \in Seq(Chunk) /\ Begins(file, file)
  BY BeginsItself DEF Base, Typed
<1>2. Log' = Log /\ aofOpen \in BOOLEAN
  BY DEF Log, Base, Typed
<1> QED
  BY <1>1, <1>2 DEF Bookkeeping

LEMMA LogAppendIsBookkeeping == ASSUME Base, LogAppend PROVE Bookkeeping
<1>1. Typed /\ Phases /\ aofOpen \in BOOLEAN
  BY DEF Base, Typed
<1>2. /\ file' \in Seq(Chunk) /\ Begins(file, file')
      /\ aofOpen => file' \o buf' = (file \o buf) \o Entry(Current)
  BY <1>1, AppendsToLog
<1>3. synced \in Nat /\ synced <= Len(file')
  BY <1>1, <1>2, LogTyped, WholeKept DEF Typed
<1>4. /\ UNCHANGED <<policy, memory, before, ops, acked, first, safe>> /\ unlogged \subseteq unlogged'
      /\ pc = "append" /\ pc' \in {"flush", "reply"} /\ aofOpen' = aofOpen /\ synced' = synced
  BY DEF LogAppend
<1>5. aofOpen => Log' = Log \o Entry(Current)
  BY <1>2, <1>4 DEF Log
<1> QED
  BY <1>1, <1>2, <1>3, <1>4, <1>5 DEF Bookkeeping

LEMMA WritingOutIsBookkeeping == ASSUME Base, LogFlush \/ BgSync \/ FlushAside \/ CloseAOF PROVE Bookkeeping
<1>1. Typed /\ synced \in Nat /\ Len(file) \in Nat /\ synced <= Len(file) /\ synced <= synced
  BY LogTyped DEF Base
<1>2. CASE LogFlush /\ ~aofOpen
  BY <1>1, <1>2, StillIsBookkeeping DEF LogFlush, history
<1>3. CASE aofOpen
  <2>1. file' = file \o buf /\ buf' = << >>
    BY <1>3 DEF LogFlush, BgSync, FlushAside, CloseAOF
  <2>2. Log' = Log /\ file' \in Seq(Chunk) /\ Begins(file, file')
    BY <1>1, <1>3, <2>1, WritesOut
  <2>3. Len(file') \in Nat /\ synced <= Len(file') /\ Len(file') <= Len(file')
    BY <1>1, <2>2, WholeKept DEF Typed
  <2>4. UNCHANGED <<policy, memory, before, ops, acked, first, unlogged>> /\ (safe' = safe \/ BgSync)
    BY DEF LogFlush, BgSync, FlushAside, CloseAOF, history
  <2>5. synced' = synced \/ synced' = Len(file')
    BY DEF LogFlush, BgSync, FlushAside, CloseAOF
  <2>6. (pc = "down" <=> pc' = "down") /\ (pc = "append" => pc' = "append")
    BY <1>3 DEF LogFlush, BgSync, FlushAside, CloseAOF
  <2> QED
    BY <1>1, <1>3, <2>2, <2>3, <2>4, <2>5, <2>6 DEF Bookkeeping
<1> QED
  BY <1>2, <1>3 DEF BgSync, FlushAside, CloseAOF

LEMMA StepKinds == ASSUME Base, [Next]_vars PROVE Bookkeeping \/ ExecuteNext \/ Reply \/ Crash \/ Restart
<1>1. Typed /\ synced \in Nat /\ Len(file) \in Nat /\ synced <= Len(file) /\ synced <= synced /\ Len(file) <= Len(file)
        /\ buf \in Seq(Chunk) /\ Len(buf) \in Nat /\ Current \in Nat /\ Phases /\ Len(buf) <= Len(buf)
  BY LogTyped DEF Base, Typed
<1>2. CASE UNCHANGED vars
  BY <1>1, <1>2, StillIsBookkeeping DEF vars, process, disk, history
<1>3. CASE Wake \/ (EndBatch /\ epollOpen) \/ Signal
  <2>1. /\ file' = file /\ buf' = buf /\ aofOpen' = aofOpen /\ synced' = synced
        /\ UNCHANGED <<policy, memory, before, ops, acked, first, unlogged, safe>>
        /\ (pc = "down" <=> pc' = "down") /\ (pc = "append" => pc' = "append")
    BY <1>3 DEF Wake, EndBatch, Signal, MayDie, disk, history
  <2> QED
    BY <1>1, <2>1, StillIsBookkeeping
<1>4. CASE LogSync \/ WriteBack
  <2>1. /\ file' = file /\ buf' = buf /\ aofOpen' = aofOpen /\ synced' = Len(file)
        /\ UNCHANGED <<policy, memory, before, ops, acked, first, unlogged, safe>>
        /\ (pc = "down" <=> pc' = "down") /\ (pc = "append" => pc' = "append")
    BY <1>4 DEF LogSync, WriteBack, process, history
  <2> QED
    BY <1>1, <2>1, StillIsBookkeeping
<1>5. CASE AppendFails
  <2>1. Current \in Nat \ {0}
    BY <1>1, <1>5 DEF AppendFails, Phases, Current
  <2>2. Entry(Current) \in Seq(Chunk)
    BY <2>1, EntryIsTwo
  <2>3. buf \o Entry(Current) \in Seq(Chunk)
    BY <1>1, <2>2, Joining
  <2>4. BufferSize \in Nat /\ BufferSize <= Len(buf \o Entry(Current)) /\ FileFails(buf \o Entry(Current), BufferSize)
          /\ pc # "down" /\ pc' # "down"
    <3>1. Len(buf \o Entry(Current)) \in Nat
      BY <2>3, LenProperties
    <3> QED
      BY <1>5, <3>1, BufferAssumption DEF AppendFails
  <2> DEFINE pending == buf \o Entry(Current)
  <2>5. pending \in Seq(Chunk) /\ BufferSize <= Len(pending) /\ FileFails(pending, BufferSize)
    BY <2>3, <2>4
  <2> HIDE DEF pending
  <2> QED
    BY <2>4, <2>5, FailingIsBookkeeping
<1>6. CASE FlushFails \/ FlushFailsAside
  <2> DEFINE n == Len(buf)
  <2>1. FileFails(buf, n) /\ pc # "down" /\ pc' # "down" /\ n \in Nat /\ n <= Len(buf)
    BY <1>1, <1>6 DEF FlushFails, FlushFailsAside, Unlocked
  <2> HIDE DEF n
  <2> QED
    BY <1>1, <2>1, FailingIsBookkeeping
<1> QED
  BY <1>2, <1>3, <1>4, <1>5, <1>6, LogAppendIsBookkeeping, WritingOutIsBookkeeping DEF Next, Loop, Aside, Crash

\* What is on the disk stays there.
LEMMA DiskKept ==
    ASSUME Base, [Next]_vars
    PROVE  /\ synced \in Nat /\ synced' \in Nat /\ synced <= synced'
           /\ \A n \in 1 .. synced : file'[n] = file[n] /\ n \in 1 .. Len(file) /\ n \in 1 .. Len(file') /\ n \in 1 .. synced'
           /\ \A id : Durable(id) => Durable(id)'
           /\ TornForGood => TornForGood'
<1>1. Typed /\ Phases /\ synced \in Nat /\ Len(file) \in Nat /\ synced <= Len(file) /\ file \in Seq(Chunk)
  BY LogTyped DEF Base, Typed
<1>2. /\ file' \in Seq(Chunk) /\ Len(file') \in Nat /\ synced' \in Nat /\ synced <= synced' /\ synced' <= Len(file')
      /\ \A n \in 1 .. synced : file'[n] = file[n]
  <2>1. CASE Bookkeeping
    BY <1>1, <2>1, LenProperties DEF Bookkeeping, Begins
  <2>2. CASE ExecuteNext \/ Reply \/ Restart
    <3>1. file' = file /\ synced' = synced
      BY <2>2 DEF ExecuteNext, Execute, Reply, Restart, disk
    <3> QED
      BY <1>1, <3>1
  <2>3. CASE Crash
    <3>1. file' \in Seq(Chunk) /\ Begins(file', file) /\ synced' \in 0 .. Len(file') /\ synced <= synced' /\ Len(file') \in Nat
      BY <1>1, <2>3, CrashDies
    <3>2. \A n \in 1 .. synced : n \in 1 .. Len(file')
      BY <3>1, <1>1
    <3>3. synced' \in Nat /\ synced' <= Len(file')
      BY <3>1
    <3> QED
      BY <3>1, <3>2, <3>3 DEF Begins
  <2> QED
    BY <2>1, <2>2, <2>3, StepKinds
<1>3. \A n \in 1 .. synced : n \in 1 .. Len(file) /\ n \in 1 .. Len(file') /\ n \in 1 .. synced'
  BY <1>1, <1>2
<1>4. \A n \in 1 .. synced - 1 : n \in 1 .. synced /\ n + 1 \in 1 .. synced /\ n < Len(file) /\ n < Len(file') /\ n \in 1 .. synced' - 1
  <2> DEFINE k == Len(file)
             m == Len(file')
             t == synced'
  <2>1. k \in Nat /\ m \in Nat /\ t \in Nat /\ synced \in Nat /\ synced <= k /\ synced <= t /\ t <= m
    BY <1>1, <1>2
  <2> HIDE DEF k, m, t
  <2>2. \A n \in 1 .. synced - 1 : n \in 1 .. synced /\ n + 1 \in 1 .. synced /\ n < k /\ n < m /\ n \in 1 .. t - 1
    BY <2>1
  <2> QED
    BY <2>2 DEF k, m, t
<1>5. \A n \in 1 .. synced - 1 : Whole(file, n) <=> Whole(file', n)
  BY <1>2, <1>4 DEF Whole
<1>6. \A n \in 1 .. synced - 1 : Broken(file, n) <=> Broken(file', n)
  BY <1>2, <1>3, <1>4, <1>5 DEF Broken
<1>7. \A id : Durable(id) => Durable(id)'
  BY <1>2, <1>4, <1>5 DEF Durable
<1>8. TornForGood => TornForGood'
  BY <1>2, <1>4, <1>6 DEF TornForGood
<1> QED
  BY <1>1, <1>2, <1>3, <1>7, <1>8

-----------------------------------------------------------------------------
(* Second part: with appendfsync always, replies come after the disk.       *)

LEMMA AnsweredBound ==
    ASSUME Base
    PROVE  /\ Answered \subseteq 1 .. Current /\ Current \in Nat
           /\ \A id \in acked : id \in 1 .. Current /\ (first > 0 => id < first)
           /\ pc \in {"wait", "batch", "down"} => Answered = acked /\ first = 0
           /\ pc \in {"append", "flush", "sync", "reply"} => first \in 1 .. Current /\ Current \notin acked
<1>1. Typed /\ Phases /\ Current \in Nat
  BY LogTyped DEF Base
<1>2. acked \subseteq 1 .. Current /\ \A id \in acked : first > 0 => id < first
  BY <1>1 DEF Typed, Phases, Current
<1>3. pc \in {"wait", "batch", "down"} => first = 0
  BY <1>1 DEF Phases
<1>4. pc \in {"append", "flush", "sync", "reply"} => first \in 1 .. Current
  BY <1>1 DEF Phases, Current
<1>5. pc \in {"append", "flush", "sync", "reply"} => Current \notin acked
  BY <1>1, <1>2, <1>4
<1>6. \A id \in acked : id \in 1 .. Current /\ (first > 0 => id < first)
  BY <1>2
<1>7. pc \in {"wait", "batch", "down"} => Answered = acked
  BY <1>3 DEF Answered
<1>8. Answered \subseteq 1 .. Current
  BY <1>2 DEF Answered
<1> QED
  BY <1>1, <1>3, <1>4, <1>5, <1>6, <1>7, <1>8

\* An entry that ends a sequence of chunks is whole.
LEMMA EntryWhole ==
    ASSUME NEW f \in Seq(Chunk), NEW id \in Nat \ {0}
    PROVE  WholeIn(f \o Entry(id), id)
<1> DEFINE e == Entry(id)
           g == f \o e
           m == Len(f)
<1>1. e \in Seq(Chunk) /\ Len(e) = 2 /\ e[1] = [id |-> id, part |-> 1] /\ e[2] = [id |-> id, part |-> 2]
  BY EntryIsTwo
<1> HIDE DEF e
<1>2. g \in Seq(Chunk) /\ Len(g) = m + Len(e) /\ \A i \in 1 .. Len(e) : g[m + i] = e[i]
  BY <1>1, Joining
<1>3. m \in Nat
  BY LenProperties
<1> HIDE DEF g, m
<1>4. Len(g) = m + 2 /\ g[m + 1] = [id |-> id, part |-> 1] /\ g[m + 2] = [id |-> id, part |-> 2]
  BY <1>1, <1>2
<1>5. m + 1 \in 1 .. Len(g) /\ m + 1 < Len(g) /\ (m + 1) + 1 = m + 2
  BY <1>3, <1>4
<1>6. Whole(g, m + 1) /\ g[m + 1].id = id
  BY <1>4, <1>5 DEF Whole
<1> QED
  BY <1>5, <1>6 DEF WholeIn, g, e

LEMMA AlwaysOnDiskNext ==
    ASSUME Base, AlwaysOnDisk, [Next]_vars
    PROVE  AlwaysOnDisk'
<1> SUFFICES ASSUME policy' = "always" PROVE AlwaysOnDisk'
  BY DEF AlwaysOnDisk
<1>1. Typed /\ Phases /\ file \in Seq(Chunk) /\ buf \in Seq(Chunk) /\ aofOpen \in BOOLEAN /\ Base'
  BY BaseNext DEF Base, Typed
<1>2. policy = "always"
  BY DEF Next, Loop, vars, Wake, EndBatch, LogAppend, LogFlush, LogSync, Reply, AppendFails, FlushFails, FileFails,
         ExecuteNext, Execute, Aside, BgSync, FlushAside, FlushFailsAside, Signal, CloseAOF, Exit, WriteBack, Kill, PowerCut, Restart, Dies
<1>3. /\ aofOpen /\ pc # "flush" => buf = << >>
      /\ pc = "flush" => IF aofOpen THEN buf = Entry(Current) ELSE Current \in unlogged
      /\ pc = "sync"  => WholeIn(file, Current)
      /\ \A id \in Answered \ unlogged :
           IsLogged(ops[id].kind) => Durable(id) \/ (id = Current /\ pc \in {"append", "flush", "sync"})
  BY <1>2 DEF AlwaysOnDisk
<1>4. \A id : Durable(id) => Durable(id)'
  BY DiskKept
<1> DEFINE Next1 == aofOpen' /\ pc' # "flush" => buf' = << >>
           Next2 == pc' = "flush" => IF aofOpen' THEN buf' = Entry(Current)' ELSE Current' \in unlogged'
           Next3 == pc' = "sync" => WholeIn(file, Current)'
           Next4 == \A id \in Answered' \ unlogged' :
                      IsLogged(ops'[id].kind) => Durable(id)' \/ (id = Current' /\ pc' \in {"append", "flush", "sync"})
<1> SUFFICES Next1 /\ Next2 /\ Next3 /\ Next4
  BY DEF AlwaysOnDisk
<1> HIDE DEF AlwaysOnDisk
\* Steps after which every command has the status it had.
<1>5. ASSUME ops' = ops, acked' = acked, first' = first, unlogged \subseteq unlogged',
             pc \in {"append", "flush", "sync"} => pc' = pc
      PROVE  Next4
  <2>1. Answered' = Answered /\ Current' = Current
    BY <1>5 DEF Answered, Current
  <2> QED
    BY <2>1, <1>3, <1>4, <1>5
\* Steps in which AOF.Write is done with the current command.
<1>6. ASSUME ops' = ops, acked' = acked, first' = first, unlogged \subseteq unlogged',
             Durable(Current)' \/ Current \in unlogged'
      PROVE  Next4
  <2>1. Answered' = Answered /\ Current' = Current
    BY <1>6 DEF Answered, Current
  <2> QED
    BY <2>1, <1>3, <1>4, <1>6
<1>7. CASE UNCHANGED vars \/ Wake \/ (EndBatch /\ epollOpen) \/ Signal \/ WriteBack
  <2>1. UNCHANGED <<buf, aofOpen, file, ops, acked, first, unlogged>>
          /\ (pc' = pc \/ (pc' \in {"wait", "batch"} /\ pc \in {"wait", "batch"}))
    BY <1>7 DEF vars, Wake, EndBatch, Signal, WriteBack, process, disk, history
  <2>2. Next4
    BY <2>1, <1>5
  <2>3. Next1
    BY <2>1, <1>3
  <2>4. Next2 /\ Next3
    BY <2>1, <1>3 DEF Current, Entry, WholeIn, Whole
  <2> QED
    BY <2>2, <2>3, <2>4
<1>8. CASE ExecuteNext
  <2>1. PICK kind \in Kinds, d \in DBs : Execute(kind, d)
    BY <1>8 DEF ExecuteNext
  <2>2. /\ UNCHANGED <<buf, aofOpen, acked, unlogged>> /\ ops' = Append(ops, [kind |-> kind, db |-> d])
        /\ pc' = IF IsLogged(kind) THEN "append" ELSE "reply"
    BY <2>1 DEF Execute
  <2>3. pc \in {"batch", "reply"} /\ (first' = Current + 1 \/ (first' = first /\ pc = "reply"))
    BY <1>8 DEF ExecuteNext, Continue, Begin
  <2>4. Current' = Current + 1 /\ ops'[Current + 1].kind = kind /\ \A id \in 1 .. Current : ops'[id] = ops[id]
    <3>1. ops \in Seq(Command) /\ [kind |-> kind, db |-> d] \in Command
      BY <1>1 DEF Typed, Command
    <3> QED
      BY <2>2, <3>1, AppendProperties DEF Current
  <2>5. Next1 /\ Next2 /\ Next3
    BY <2>2, <2>3, <1>3
  <2>6. ASSUME NEW id \in Answered', id \notin unlogged', IsLogged(ops'[id].kind)
        PROVE  Durable(id)' \/ (id = Current' /\ pc' \in {"append", "flush", "sync"})
    <3>1. CASE id = Current + 1
      BY <2>2, <2>4, <2>6, <3>1
    <3>2. CASE id # Current + 1
      <4>1. Current \in Nat /\ acked \subseteq 1 .. Current
        BY AnsweredBound
      <4>2. first \in Nat /\ (first' = Current + 1 \/ (first' = first /\ pc = "reply" /\ first > 0))
        BY <2>3, <4>1, AnsweredBound
      <4>3. id \in acked \/ (id \in 1 .. Current + 1 /\ first' > 0 /\ id >= first')
        BY <2>2, <2>4, <2>6 DEF Answered
      <4>4. id \in 1 .. Current
        <5> HIDE DEF Current
        <5> DEFINE k == Current
        <5>1. k \in Nat /\ (id \in 1 .. k \/ id \in 1 .. k + 1) /\ id # k + 1
          BY <3>2, <4>1, <4>3
        <5> HIDE DEF k
        <5>2. id \in 1 .. k
          BY <5>1
        <5> QED
          BY <5>2 DEF k
      <4>5. id \in Answered
        BY <4>1, <4>2, <4>3, <4>4 DEF Answered
      <4> QED
        BY <2>2, <2>3, <2>4, <2>6, <4>4, <4>5, <1>3, <1>4
    <3> QED
      BY <3>1, <3>2
  <2> QED
    BY <2>5, <2>6
<1>9. CASE LogAppend
  <2>1. pc = "append" /\ pc' = "flush" /\ aofOpen' = aofOpen /\ Current' = Current
          /\ UNCHANGED <<ops, acked, first>> /\ unlogged \subseteq unlogged' /\ (~aofOpen => Current \in unlogged')
    BY <1>9, <1>2 DEF LogAppend, Current
  <2>2. aofOpen => buf' = Entry(Current)
    BY <1>1, <1>3, <1>9, <2>1, AppendsToLog
  <2>3. Next2
    BY <2>1, <2>2, <1>1 DEF Entry
  <2>4. ASSUME NEW id \in Answered', id \notin unlogged', IsLogged(ops'[id].kind)
        PROVE  Durable(id)' \/ (id = Current' /\ pc' \in {"append", "flush", "sync"})
    <3>1. id \in Answered \ unlogged /\ IsLogged(ops[id].kind)
      BY <2>1, <2>4 DEF Answered
    <3> QED
      BY <3>1, <2>1, <1>3, <1>4
  <2> QED
    BY <2>1, <2>3, <2>4
<1>10. CASE LogFlush
  <2>1. pc = "flush" /\ aofOpen' = aofOpen /\ Current' = Current
          /\ UNCHANGED <<ops, acked, first, unlogged>>
    BY <1>10 DEF LogFlush, history, Current
  <2>2. CASE aofOpen
    <3>1. file' = file \o Entry(Current) /\ buf' = << >> /\ pc' = "sync"
      BY <1>10, <1>3, <2>1, <2>2 DEF LogFlush
    <3>2. Current \in Nat \ {0}
      BY <2>1, AnsweredBound
    <3>3. WholeIn(file', Current)
      BY <3>1, <3>2, <1>1, EntryWhole
    <3>4. Next3
      BY <3>3, <2>1 DEF WholeIn, Whole
    <3>5. ASSUME NEW id \in Answered', id \notin unlogged', IsLogged(ops'[id].kind)
          PROVE  Durable(id)' \/ (id = Current' /\ pc' \in {"append", "flush", "sync"})
      <4>1. id \in Answered \ unlogged /\ IsLogged(ops[id].kind)
        BY <2>1, <3>5 DEF Answered
      <4> QED
        BY <4>1, <2>1, <3>1, <1>3, <1>4
    <3> QED
      BY <3>1, <3>4, <3>5
  <2>3. CASE ~aofOpen
    <3>1. pc' = "reply" /\ Current \in unlogged'
      BY <1>10, <1>3, <2>1, <2>3 DEF LogFlush
    <3>2. Next4
      BY <2>1, <3>1, <1>6
    <3> QED
      BY <2>1, <2>3, <3>1, <3>2
  <2> QED
    BY <2>2, <2>3
<1>11. CASE LogSync
  <2>1. pc = "sync" /\ pc' = "reply" /\ synced' = Len(file) /\ UNCHANGED <<file, aofOpen, buf, ops, acked, first, unlogged>>
    BY <1>11 DEF LogSync, history
  <2>2. Durable(Current)'
    <3>1. PICK n \in 1 .. Len(file) : Whole(file, n) /\ file[n].id = Current
      BY <2>1, <1>3 DEF WholeIn
    <3>2. n \in 1 .. Len(file) - 1 /\ Whole(file', n) /\ file'[n].id = Current /\ Current' = Current
      BY <3>1, <2>1, <1>1, LenProperties DEF Whole, Current
    <3> QED
      BY <2>1, <3>2 DEF Durable
  <2>3. Next4
    BY <2>1, <2>2, <1>6
  <2> QED
    BY <2>1, <2>3, <1>3
<1>12. CASE Reply
  <2>1. pc = "reply" /\ pc' = "batch" /\ first' = 0 /\ acked' = acked \cup first .. Current
          /\ UNCHANGED <<file, aofOpen, buf, ops, unlogged>>
    BY <1>12 DEF Reply, disk
  <2>2. first \in 1 .. Current /\ Current \in Nat /\ Current' = Current /\ Answered \subseteq 1 .. Current
    BY <2>1, AnsweredBound DEF Current
  <2>3. ASSUME NEW id \in Answered', id \notin unlogged', IsLogged(ops'[id].kind)
        PROVE  Durable(id)' \/ (id = Current' /\ pc' \in {"append", "flush", "sync"})
    <3>1. id \in acked'
      BY <2>1, <2>3 DEF Answered
    <3>2. id \in Answered
      BY <2>1, <2>2, <3>1 DEF Answered
    <3> QED
      BY <3>2, <2>1, <2>3, <1>3, <1>4
  <2> QED
    BY <2>1, <2>3, <1>3
<1>13. CASE AppendFails \/ FlushFails
  <2> DEFINE pending == IF pc = "append" THEN buf \o Entry(Current) ELSE buf
  <2>1. /\ pc \in {"append", "flush"} /\ pc' = "reply"
        /\ \E given \in Nat : given <= Len(pending) /\ FileFails(pending, given)
        /\ pending \in Seq(Chunk) /\ aofOpen
    <3>0. Current \in Nat \ {0} /\ Len(buf) \in Nat
      BY <1>1, <1>13, AnsweredBound, LogTyped DEF AppendFails, FlushFails
    <3>1. Entry(Current) \in Seq(Chunk)
      BY <3>0, EntryIsTwo
    <3>2. buf \o Entry(Current) \in Seq(Chunk)
      BY <3>1, <1>1, Joining
    <3>3. CASE AppendFails
      <4>1. Len(buf \o Entry(Current)) \in Nat
        BY <3>2, LenProperties
      <4>2. BufferSize \in Nat /\ BufferSize <= Len(buf \o Entry(Current))
        BY <3>3, <4>1, BufferAssumption DEF AppendFails
      <4>3. pc = "append" /\ pc' = "reply" /\ FileFails(buf \o Entry(Current), BufferSize) /\ aofOpen
        BY <3>3 DEF AppendFails, FileFails
      <4>4. pending = buf \o Entry(Current)
        BY <4>3
      <4> HIDE DEF pending
      <4> QED
        BY <3>2, <4>2, <4>3, <4>4
    <3>4. CASE FlushFails
      <4>1. pc = "flush" /\ pc' = "reply" /\ FileFails(buf, Len(buf)) /\ aofOpen
        BY <3>4 DEF FlushFails, FileFails
      <4>2. pending = buf
        BY <4>1
      <4>3. Len(buf) <= Len(buf)
        BY <3>0
      <4> HIDE DEF pending
      <4> QED
        BY <3>0, <4>1, <4>2, <4>3, <1>1
    <3> QED
      BY <3>3, <3>4, <1>13
  <2>2. PICK given \in Nat : given <= Len(pending) /\ FileFails(pending, given)
    BY <2>1
  <2>3. pending[Len(pending)].id = Current
    <3>1. Current \in Nat \ {0}
      BY <2>1, AnsweredBound
    <3>2. Entry(Current) \in Seq(Chunk) /\ Len(Entry(Current)) = 2 /\ Entry(Current)[2] = [id |-> Current, part |-> 2]
      BY <3>1, EntryIsTwo
    <3>4. Entry(Current)[2].id = Current
      BY <3>2
    <3>3. pending = Entry(Current)
      <4>1. CASE pc = "append"
        <5>1. buf = << >>
          BY <4>1, <2>1, <1>3
        <5> QED
          BY <4>1, <5>1, <3>2, ConcatEmptySeq
      <4>2. CASE pc = "flush"
        BY <4>2, <2>1, <1>3
      <4> QED
        BY <4>1, <4>2, <2>1
    <3> QED
      BY <3>2, <3>3, <3>4
  <2> HIDE DEF pending
  <2>4. ~aofOpen' /\ unlogged \subseteq unlogged' /\ Current \in unlogged'
    BY <2>1, <2>2, <2>3, <1>1, FailsInLog
  <2>5. ops' = ops /\ acked' = acked /\ first' = first
    BY <2>2 DEF FileFails
  <2>6. Next4
    BY <2>4, <2>5, <1>6
  <2> QED
    BY <2>1, <2>4, <2>6
<1>14. CASE FlushFailsAside
  <2>1. FileFails(buf, Len(buf)) /\ aofOpen /\ pc # "flush"
    BY <1>14 DEF FlushFailsAside, FileFails, Unlocked
  <2>2. buf = << >>
    BY <2>1, <1>3
  <2>3. Len(buf) = 0
    BY <2>2
  <2>4. 0 .. Len(buf) - 1 = {}
    BY <2>3
  <2> QED
    BY <2>1, <2>4 DEF FileFails
<1>15. CASE BgSync \/ FlushAside
  <2>1. FlushAside
    BY <1>15, <1>2 DEF BgSync
  <2>2. pc' = pc /\ pc # "flush" /\ pc # "sync" /\ buf' = << >> /\ UNCHANGED <<ops, acked, first, unlogged>>
    BY <2>1 DEF FlushAside, Unlocked, history
  <2>3. Next4
    BY <2>2, <1>5
  <2> QED
    BY <2>2, <2>3
<1>16. CASE CloseAOF
  <2>1. pc \notin {"flush", "sync"} /\ pc' = pc /\ ~aofOpen' /\ UNCHANGED <<ops, acked, first, unlogged>>
    BY <1>16 DEF CloseAOF, Unlocked
  <2>2. Next4
    BY <2>1, <1>5
  <2> QED
    BY <2>1, <2>2
<1>17. CASE Crash
  <2>1. Dies /\ pc # "down"
    BY <1>1, <1>17, CrashDies DEF MayDie
  <2>2. pc' = "down" /\ buf' = << >> /\ first' = 0 /\ UNCHANGED <<ops, acked, unlogged>>
    BY <2>1 DEF Dies
  <2>3. ASSUME NEW id \in Answered', id \notin unlogged', IsLogged(ops'[id].kind)
        PROVE  Durable(id)' \/ (id = Current' /\ pc' \in {"append", "flush", "sync"})
    <3>1. id \in acked
      BY <2>2, <2>3 DEF Answered
    <3>2. ~(id = Current /\ pc \in {"append", "flush", "sync"})
      BY <3>1, AnsweredBound
    <3>3. Durable(id)
      BY <3>1, <3>2, <2>2, <2>3, <1>3 DEF Answered
    <3> QED
      BY <3>3, <1>4
  <2> QED
    BY <2>2, <2>3
<1>18. CASE Restart
  <2>1. pc = "down" /\ pc' = "wait" /\ UNCHANGED <<buf, ops, acked, first, unlogged>>
    BY <1>18 DEF Restart, history
  <2>2. buf = << >>
    BY <2>1, <1>1 DEF Phases
  <2>3. Next4
    BY <2>1, <1>5
  <2> QED
    BY <2>1, <2>2, <2>3
<1> QED
  BY <1>7, <1>8, <1>9, <1>10, <1>11, <1>12, <1>13, <1>14, <1>15, <1>16, <1>17, <1>18 DEF Next, Loop, Aside, Crash


-----------------------------------------------------------------------------
(* Third part: what is on the disk is remembered.                           *)

\* Command id sets something in database 0 that no flush has removed.
Kept(id) == ops[id] = [kind |-> "write", db |-> 0] /\ Flushes(id) = {}

\* A write is logged, and Written selects the kept commands.
LEMMA WrittenKept ==
    /\ \A K : \A id : id \in Written(K) <=> id \in K /\ Kept(id)
    /\ \A id : Kept(id) => IsLogged(ops[id].kind) /\ ops[id].db = 0 /\ ops[id].kind = "write"
BY DEF Written, Kept, IsLogged

\* An entry is torn elsewhere than at the end of the file when its torn part
\* was appended to.
LEMMA TornSomewhere ==
    ASSUME Typed
    PROVE  TornAtEnd <=> ~TornInside(file)
<1>1. Len(file) \in Nat /\ DOMAIN file = 1 .. Len(file)
  BY LenProperties DEF Typed
<1>2. \A i \in DOMAIN file : Torn(i) <=> Broken(file, i)
  BY <1>1 DEF Torn, Broken
<1> DEFINE n == Len(file)
<1>3. (\A i \in 1 .. n : i = n \/ i \in 1 .. n - 1) /\ \A i \in 1 .. n - 1 : i \in 1 .. n /\ i # n
  <2>1. n \in Nat
    BY <1>1
  <2> HIDE DEF n
  <2> QED
    BY <2>1
<1> QED
  BY <1>1, <1>2, <1>3 DEF TornAtEnd, TornInside

\* While the process runs a torn entry stays torn.
LEMMA TornStays ==
    ASSUME Base, [Next]_vars, pc' # "down", TornAtEnd'
    PROVE  TornAtEnd
<1>1. Typed /\ Typed' /\ file \in Seq(Chunk) /\ file' \in Seq(Chunk)
  BY BaseNext DEF Base, Typed
<1>2. ~Crash
  BY CrashDies DEF Dies, Base
<1>3. CASE Bookkeeping
  <2>1. TornInside(file) => TornInside(file')
    BY <1>1, <1>3, WholeKept DEF Bookkeeping
  <2>2. ~TornInside(file)'
    <3>1. Typed' => (TornAtEnd' <=> ~TornInside(file)')
      BY TornSomewhere, PTL
    <3> QED
      BY <1>1, <3>1
  <2>3. TornInside(file)' = TornInside(file')
    BY DEF TornInside, Broken, Whole
  <2> QED
    BY <1>1, <2>1, <2>2, <2>3, TornSomewhere
<1>4. CASE ExecuteNext \/ Reply \/ Restart
  <2>1. file' = file
    BY <1>4 DEF ExecuteNext, Execute, Reply, Restart, disk
  <2> QED
    BY <2>1 DEF TornAtEnd, Torn, Whole
<1> QED
  BY <1>2, <1>3, <1>4, StepKinds

\* The configuration does not change.
LEMMA PolicyKept == ASSUME [Next]_vars PROVE policy' = policy
BY DEF Next, Loop, vars, Wake, EndBatch, LogAppend, LogFlush, LogSync, Reply, AppendFails, FlushFails, FileFails,
       ExecuteNext, Execute, Aside, BgSync, FlushAside, FlushFailsAside, Signal, CloseAOF, Exit, WriteBack, Kill, PowerCut, Restart, Dies

\* A start finds what is on the disk.
LEMMA RestartKeeps ==
    ASSUME Base, Restart, TornAtEnd, NEW id, Kept(id), Durable(id)
    PROVE  Remembered(id)'
<1>1. Typed /\ Found(file, memory') /\ ops' = ops /\ Len(file) \in Nat /\ synced \in Nat /\ synced <= Len(file)
  BY RestartFound, LogTyped DEF Base, history
<1>2. PICK n \in 1 .. synced - 1 : Whole(file, n) /\ file[n].id = id
  BY DEF Durable
<1>3. n \in 1 .. Len(file) /\ \A k \in 1 .. n : k \in 1 .. Len(file) - 1
  BY <1>1, <1>2
<1>4. Legible(file, n)
  BY <1>1, <1>2, <1>3, TornSomewhere DEF Legible, TornInside
<1>5. id \in Nat \ {0}
  <2>1. file[n] \in Chunk
    BY <1>1, <1>3, ElementOfSeq DEF Typed
  <2> QED
    BY <2>1, <1>2 DEF Chunk
<1>6. ASSUME NEW j \in id .. Current PROVE ops[j].kind # "flushdb"
  <2>1. CASE j = id
    BY <2>1 DEF Kept
  <2>2. CASE j # id
    <3>1. Current \in Nat /\ DOMAIN ops = 1 .. Current
      BY <1>1, LogTyped, LenProperties DEF Typed, Current
    <3>2. id \in Nat \ {0}
      BY <1>5
    <3>3. j \in DOMAIN ops /\ j > id
      BY <2>2, <3>1, <3>2
    <3> QED
      BY <3>3 DEF Kept, Flushes
  <2> QED
    BY <2>1, <2>2
<1>7. \E i \in 1 .. Len(memory'[0]) : memory'[0][i].id = id
  BY <1>1, <1>2, <1>3, <1>4, <1>6 DEF Found
<1>8. memory'[0] \in Seq(Effects) /\ ops'[id].db = 0
  BY <1>1, DBAssumption DEF Found, Kept
<1> QED
  BY <1>7, <1>8, LenProperties DEF Remembered

\* Executing a command adds its effect, and removes none that is still kept.
LEMMA ExecuteKeeps ==
    ASSUME Base, ExecuteNext, NEW id, Kept(id)',
           id = Current + 1 \/ (id \in 1 .. Current /\ (Kept(id) => Remembered(id)))
    PROVE  Remembered(id)'
<1>1. Typed /\ Current \in Nat /\ ops \in Seq(Command) /\ memory \in [DBs -> Seq(Effects)] /\ DOMAIN ops = 1 .. Current
  BY LogTyped, LenProperties DEF Base, Typed, Current
<1>2. PICK kind \in Kinds, d \in DBs : Execute(kind, d)
  BY DEF ExecuteNext
<1>3. PICK draw \in Draws : memory' = Apply(memory, kind, d, Effect(Current + 1, Outcome(kind, draw)))
  BY <1>2 DEF Execute
<1> DEFINE e == Effect(Current + 1, Outcome(kind, draw))
<1>4. e.id = Current + 1
  BY DEF Effect
<1> HIDE DEF e
<1>5. /\ DOMAIN ops' = 1 .. Current + 1 /\ ops'[Current + 1] = [kind |-> kind, db |-> d]
      /\ \A j \in 1 .. Current : ops'[j] = ops[j]
  <2>1. ops' = Append(ops, [kind |-> kind, db |-> d]) /\ [kind |-> kind, db |-> d] \in Command
    BY <1>2 DEF Execute, Command
  <2>2. ops' \in Seq(Command) /\ Len(ops') = Current + 1
    BY <1>1, <2>1, AppendProperties DEF Current
  <2> QED
    BY <1>1, <2>1, <2>2, AppendProperties, LenProperties DEF Current
<1>6. ops'[id] = [kind |-> "write", db |-> 0] /\ \A j \in 1 .. Current + 1 : j > id => ops'[j].kind \notin {"flushdb", "flushall"}
  BY <1>5 DEF Kept, Flushes
<1>7. memory[d] \in Seq(Effects) /\ memory[0] \in Seq(Effects)
  BY <1>1, DBAssumption
<1>8. CASE id = Current + 1
  <2>1. kind = "write" /\ d = 0
    BY <1>5, <1>6, <1>8
  <2>2. memory'[0] = Append(memory[0], e)
    BY <1>1, <1>3, <2>1, DBAssumption DEF Apply, e
  <2>3. Len(memory[0]) + 1 \in DOMAIN memory'[0] /\ memory'[0][Len(memory[0]) + 1] = e
    BY <1>7, <2>2, AppendProperties, LenProperties
  <2> QED
    BY <1>4, <1>6, <1>8, <2>3 DEF Remembered
<1>9. CASE id \in 1 .. Current
  <2>1. kind \notin {"flushdb", "flushall"}
    BY <1>1, <1>5, <1>6, <1>9
  <2>2. Kept(id)
    <3>1. \A j \in DOMAIN ops : j \in DOMAIN ops' /\ ops'[j] = ops[j]
      BY <1>1, <1>5
    <3> QED
      BY <1>6, <1>9, <1>1, <3>1, <1>5 DEF Kept, Flushes
  <2>3. PICK i \in DOMAIN memory[0] : memory[0][i].id = id
    BY <2>2, <1>8, <1>9, <1>1 DEF Remembered, Kept
  <2>4. memory'[0] = memory[0] \/ memory'[0] = Append(memory[0], e)
    BY <1>1, <1>3, <2>1, DBAssumption DEF Apply, e
  <2>5. i \in DOMAIN memory'[0] /\ memory'[0][i] = memory[0][i]
    <3>1. i \in 1 .. Len(memory[0]) /\ Len(memory[0]) \in Nat
      BY <1>7, <2>3, LenProperties
    <3>2. CASE memory'[0] = Append(memory[0], e)
      <4>1. e \in Effects
        <5>1. crashes \in Nat
          BY <1>1 DEF Typed
        <5> QED
          BY <5>1, <1>1 DEF e, Effects, Effect, Outcome, Draws
      <4>2. Append(memory[0], e) \in Seq(Effects) /\ Len(Append(memory[0], e)) = Len(memory[0]) + 1
              /\ \A k \in 1 .. Len(memory[0]) : Append(memory[0], e)[k] = memory[0][k]
        BY <1>7, <4>1, AppendProperties
      <4>3. DOMAIN memory'[0] = 1 .. Len(memory[0]) + 1
        BY <3>2, <4>2, LenProperties
      <4> QED
        BY <3>1, <3>2, <4>2, <4>3
    <3> QED
      BY <3>2, <2>3, <2>4
  <2> QED
    BY <2>3, <2>5, <1>6 DEF Remembered
<1> QED
  BY <1>8, <1>9


LEMMA AnsweredRememberedNext ==
    ASSUME Base, AlwaysOnDisk, AnsweredRemembered, [Next]_vars
    PROVE  AnsweredRemembered'
<1> SUFFICES ASSUME policy' = "always", pc' # "down", TornAtEnd',
                    NEW id \in Answered', id \notin unlogged', Kept(id)'
             PROVE  Remembered(id)'
  BY WrittenKept DEF AnsweredRemembered, Written, Kept, Flushes
<1>1. Typed /\ policy = "always" /\ TornAtEnd /\ Current \in Nat
  BY PolicyKept, TornStays, LogTyped DEF Base
<1>2. \A i : i \in Answered /\ i \notin unlogged /\ Kept(i) /\ pc # "down" => Remembered(i)
  BY <1>1, WrittenKept DEF AnsweredRemembered
<1>3. ASSUME ops' = ops, memory' = memory, id \in Answered \ unlogged, pc # "down" PROVE Remembered(id)'
  <2>1. Kept(id)
    BY <1>3 DEF Kept, Flushes
  <2> QED
    BY <1>2, <1>3, <2>1 DEF Remembered
<1>4. CASE Bookkeeping
  <2>1. UNCHANGED <<ops, memory, acked, first>> /\ unlogged \subseteq unlogged' /\ pc # "down"
    BY <1>4 DEF Bookkeeping
  <2>2. id \in Answered
    BY <2>1 DEF Answered, Current
  <2> QED
    BY <1>3, <2>1, <2>2
<1>5. CASE ExecuteNext
  <2>1. unlogged' = unlogged /\ acked' = acked /\ Current' = Current + 1 /\ pc # "down"
    <3>1. PICK kind \in Kinds, d \in DBs : Execute(kind, d)
      BY <1>5 DEF ExecuteNext
    <3>2. ops \in Seq(Command) /\ [kind |-> kind, db |-> d] \in Command /\ ops' = Append(ops, [kind |-> kind, db |-> d])
      BY <1>1, <3>1 DEF Typed, Command, Execute
    <3>3. Len(ops') = Len(ops) + 1
      BY <3>2, AppendProperties
    <3>4. pc # "down"
      BY <1>5 DEF ExecuteNext, Continue, Begin
    <3> QED
      BY <3>1, <3>3, <3>4 DEF Execute, Current
  <2>2. first \in Nat /\ (first' = Current + 1 \/ (first' = first /\ pc = "reply" /\ first > 0))
    BY <1>5, <1>1, AnsweredBound DEF ExecuteNext, Continue, Begin
  <2>3. id \in acked \/ (id \in 1 .. Current + 1 /\ first' > 0 /\ id >= first')
    BY <2>1 DEF Answered
  <2>4. acked \subseteq 1 .. Current
    BY AnsweredBound
  <2>7. id \in 1 .. Current + 1
    <3> DEFINE k == Current
    <3>1. k \in Nat /\ (id \in 1 .. k \/ id \in 1 .. k + 1)
      BY <1>1, <2>3, <2>4
    <3> HIDE DEF k
    <3>2. id \in 1 .. k + 1
      BY <3>1
    <3> QED
      BY <3>2 DEF k
  <2>5. id = Current + 1 \/ (id \in 1 .. Current /\ id \in Answered)
    <3> DEFINE k == Current
    <3>1. k \in Nat /\ id \in 1 .. k + 1 /\ acked \subseteq 1 .. k
            /\ (id \in acked \/ (first' > 0 /\ id >= first'))
      BY <1>1, <2>3, <2>4, <2>7
    <3>2. first' = k + 1 \/ (first' = first /\ first > 0)
      BY <2>2
    <3>3. Answered = acked \cup {j \in 1 .. k : first > 0 /\ j >= first}
      BY DEF Answered
    <3> HIDE DEF k
    <3>4. id = k + 1 \/ (id \in 1 .. k /\ (id \in acked \/ (first > 0 /\ id >= first)))
      BY <3>1, <3>2
    <3>5. id = k + 1 \/ (id \in 1 .. k /\ id \in Answered)
      BY <3>3, <3>4
    <3> QED
      BY <3>5 DEF k
  <2>6. id \in 1 .. Current => (Kept(id) => Remembered(id))
    BY <1>1, <1>2, <2>1, <2>5
  <2> QED
    BY <1>5, <2>5, <2>6, ExecuteKeeps
<1>6. CASE Reply
  <2>1. pc = "reply" /\ first' = 0 /\ acked' = acked \cup first .. Current /\ UNCHANGED <<ops, memory, unlogged>>
    BY <1>6 DEF Reply, disk
  <2>2. first \in 1 .. Current
    BY <2>1, AnsweredBound
  <2>3. id \in acked'
    BY <2>1 DEF Answered
  <2>4. id \in Answered
    BY <2>1, <2>2, <2>3, <1>1 DEF Answered
  <2> QED
    BY <1>3, <2>1, <2>4
<1>7. CASE Crash
  BY <1>1, <1>7, CrashDies DEF Dies, Base
<1>8. CASE Restart
  <2>1. pc = "down" /\ UNCHANGED <<ops, acked, first, unlogged>>
    BY <1>8 DEF Restart, history
  <2>2. id \in Answered /\ Kept(id)
    BY <2>1 DEF Answered, Current, Kept, Flushes
  <2>3. Durable(id)
    BY <1>1, <2>1, <2>2, WrittenKept DEF AlwaysOnDisk
  <2> QED
    BY <1>1, <1>8, <2>2, <2>3, RestartKeeps
<1> QED
  BY <1>4, <1>5, <1>6, <1>7, <1>8, StepKinds

\* What a database holds is in the log, since it was logged or came from there.
LEMMA TracedNext ==
    ASSUME Base, Traced, [Next]_vars
    PROVE  Traced'
<1> SUFFICES ASSUME aofOpen', NEW d \in DBs, NEW i \in 1 .. Len(memory'[d])
             PROVE  \/ WholeIn(Log', memory'[d][i].id)
                    \/ TornInside(Log')
                    \/ pc' = "append" /\ memory'[d][i].id = Current'
  BY DEF Traced, WholeIn, TornInside, Broken, Whole
<1>1. Typed /\ Phases /\ Base' /\ Log \in Seq(Chunk) /\ Current \in Nat /\ memory \in [DBs -> Seq(Effects)]
  BY BaseNext, LogTyped DEF Base, Typed
<1>2. ASSUME aofOpen, NEW k \in 1 .. Len(memory[d])
      PROVE  \/ WholeIn(Log, memory[d][k].id)
             \/ TornInside(Log)
             \/ pc = "append" /\ memory[d][k].id = Current
  BY <1>2 DEF Traced
<1>3. CASE Bookkeeping
  <2>1. memory' = memory /\ Current' = Current
    BY <1>3 DEF Bookkeeping, Current
  <2>2. CASE aofOpen /\ Log' = Log /\ (pc = "append" => pc' = "append")
    BY <1>2, <2>1, <2>2
  <2>3. CASE aofOpen /\ pc = "append" /\ Log' = Log \o Entry(Current)
    <3>1. Current \in Nat \ {0}
      BY <1>1, <2>3, AnsweredBound DEF Base
    <3>2. Entry(Current) \in Seq(Chunk)
      BY <3>1, EntryIsTwo
    <3>3. Log' \in Seq(Chunk) /\ Begins(Log, Log')
      BY <1>1, <2>3, <3>2, Joining
    <3>4. WholeIn(Log', Current)
      BY <1>1, <2>3, <3>1, EntryWhole
    <3>5. (\A id : WholeIn(Log, id) => WholeIn(Log', id)) /\ (TornInside(Log) => TornInside(Log'))
      BY <1>1, <3>3, WholeKept
    <3> QED
      BY <1>2, <2>1, <2>3, <3>4, <3>5
  <2> QED
    BY <1>3, <2>2, <2>3 DEF Bookkeeping
<1>4. CASE ExecuteNext
  <2>1. PICK kind \in Kinds, c \in DBs : Execute(kind, c)
    BY <1>4 DEF ExecuteNext
  <2>2. PICK draw \in Draws : memory' = Apply(memory, kind, c, Effect(Current + 1, Outcome(kind, draw)))
    BY <2>1 DEF Execute
  <2> DEFINE e == Effect(Current + 1, Outcome(kind, draw))
  <2>3. e.id = Current + 1 /\ e \in Effects
    <3>1. crashes \in Nat
      BY <1>1 DEF Typed
    <3> QED
      BY <3>1, <1>1 DEF Effects, Effect, Outcome, Draws
  <2> HIDE DEF e
  <2>4. Log' = Log /\ aofOpen /\ pc # "append" /\ pc' = IF IsLogged(kind) THEN "append" ELSE "reply"
    BY <2>1, <1>4 DEF Execute, Log, disk, ExecuteNext, Continue, Begin
  <2>5. Current' = Current + 1
    <3>1. ops \in Seq(Command) /\ [kind |-> kind, db |-> c] \in Command /\ ops' = Append(ops, [kind |-> kind, db |-> c])
      BY <1>1, <2>1 DEF Typed, Command, Execute
    <3> QED
      BY <3>1, AppendProperties DEF Current
  <2>6. memory'[d] = << >> \/ memory'[d] = memory[d] \/ (memory'[d] = Append(memory[d], e) /\ kind # "flushall")
    BY <2>2, <1>1 DEF Apply, e
  <2>7. CASE memory'[d] = memory[d]
    BY <1>2, <2>4, <2>7
  <2>8. CASE memory'[d] = Append(memory[d], e) /\ kind # "flushall"
    <3>1. memory[d] \in Seq(Effects) /\ Len(memory[d]) \in Nat
      BY <1>1, LenProperties
    <3>2. Len(memory'[d]) = Len(memory[d]) + 1 /\ memory'[d][Len(memory[d]) + 1] = e
            /\ \A k \in 1 .. Len(memory[d]) : memory'[d][k] = memory[d][k]
      BY <2>3, <2>8, <3>1, AppendProperties
    <3>3. i \in 1 .. Len(memory[d]) \/ i = Len(memory[d]) + 1
      BY <3>1, <3>2
    <3>4. CASE i \in 1 .. Len(memory[d])
      BY <1>2, <2>4, <3>2, <3>4
    <3>5. CASE i = Len(memory[d]) + 1
      BY <2>3, <2>4, <2>5, <2>8, <3>2, <3>5 DEF IsLogged
    <3> QED
      BY <3>3, <3>4, <3>5
  <2>9. memory'[d] # << >>
    OBVIOUS
  <2> QED
    BY <2>6, <2>7, <2>8, <2>9
<1>5. CASE Reply
  <2>1. memory' = memory /\ Log' = Log /\ aofOpen /\ pc # "append"
    BY <1>5 DEF Reply, disk, Log
  <2> QED
    BY <1>2, <2>1
<1>6. CASE Crash
  <2>1. memory'[d] = << >>
    BY <1>1, <1>6, CrashDies DEF Dies
  <2> QED
    BY <2>1
<1>7. CASE Restart
  <2>1. Found(file, memory') /\ Log' = file /\ file \in Seq(Chunk)
    BY <1>1, <1>7, RestartFound DEF Typed
  <2>2. d = 0
    BY <2>1 DEF Found
  <2>3. PICK n \in 1 .. Len(file) : file[n].id = memory'[0][i].id
                                      /\ (Whole(file, n) \/ (Broken(file, n) /\ n < Len(file)))
    BY <2>1, <2>2 DEF Found
  <2>4. CASE Whole(file, n)
    BY <2>1, <2>2, <2>3, <2>4 DEF WholeIn
  <2>5. CASE Broken(file, n) /\ n < Len(file)
    <3>1. n \in 1 .. Len(file) - 1
      BY <2>1, <2>5, LenProperties
    <3> QED
      BY <2>1, <2>5, <3>1 DEF TornInside
  <2> QED
    BY <2>3, <2>4, <2>5
<1> QED
  BY <1>3, <1>4, <1>5, <1>6, <1>7, StepKinds


\* A sync that bgSync makes puts all that the databases hold on the disk.
LEMMA SafeOnDiskNext ==
    ASSUME Base, Traced, SafeOnDisk, [Next]_vars
    PROVE  SafeOnDisk'
<1> SUFFICES ASSUME NEW id \in safe' PROVE Durable(id)' \/ TornForGood'
  BY DEF SafeOnDisk
<1>1. CASE id \in safe
  BY <1>1, DiskKept DEF SafeOnDisk
<1>2. CASE id \notin safe
  <2>1. BgSync
    BY <1>2, StepKinds, CrashDies DEF Bookkeeping, ExecuteNext, Execute, Reply, Restart, history, Dies, Base
  <2>2. Typed /\ aofOpen /\ file' = file \o buf /\ buf' = << >> /\ synced' = Len(file')
    BY <2>1 DEF BgSync, Base
  <2>3. file' = Log /\ Log \in Seq(Chunk) /\ Len(Log) \in Nat
    BY <2>2, WritesOut, LogTyped, LenProperties
  <2>4. id \in acked /\ Remembered(id)
    BY <1>2, <2>1 DEF BgSync
  <2>5. ops[id].db \in DBs /\ id \in 1 .. Current
    <3>1. id \in 1 .. Len(ops)
      BY <2>2, <2>4 DEF Typed
    <3>2. ops[id] \in Command
      BY <2>2, <3>1, ElementOfSeq DEF Typed
    <3> QED
      BY <3>1, <3>2 DEF Command, Current
  <2>6. PICK i \in DOMAIN memory[ops[id].db] : memory[ops[id].db][i].id = id
    BY <2>4 DEF Remembered
  <2>7. i \in 1 .. Len(memory[ops[id].db])
    BY <2>2, <2>5, <2>6, LenProperties DEF Typed
  <2>8. WholeIn(Log, id) \/ TornInside(Log) \/ (pc = "append" /\ id = Current)
    BY <2>2, <2>5, <2>6, <2>7 DEF Traced
  <2>9. ~(pc = "append" /\ id = Current)
    BY <2>4, AnsweredBound
  <2>10. CASE WholeIn(Log, id)
    <3>1. PICK n \in 1 .. Len(Log) : Whole(Log, n) /\ Log[n].id = id
      BY <2>10 DEF WholeIn
    <3>2. n \in 1 .. Len(Log) - 1
      BY <2>3, <3>1 DEF Whole
    <3>3. \E k \in 1 .. Len(file') - 1 : Whole(file', k) /\ file'[k].id = id
      BY <2>3, <3>1, <3>2
    <3>4. Durable(id)'
      BY <2>2, <3>3 DEF Durable, Whole
    <3> QED
      BY <3>4
  <2>11. CASE TornInside(Log)
    <3>1. \E k \in 1 .. Len(file') - 1 : Broken(file', k)
      BY <2>3, <2>11 DEF TornInside
    <3>2. TornForGood'
      BY <2>2, <3>1 DEF TornForGood, Broken, Whole
    <3> QED
      BY <3>2
  <2> QED
    BY <2>8, <2>9, <2>10, <2>11
<1> QED
  BY <1>1, <1>2

LEMMA SafeRememberedNext ==
    ASSUME Base, SafeOnDisk, SafeRemembered, [Next]_vars
    PROVE  SafeRemembered'
<1> SUFFICES ASSUME pc' # "down", TornAtEnd', NEW id \in safe', Kept(id)'
             PROVE  Remembered(id)'
  BY WrittenKept DEF SafeRemembered, Written, Kept, Flushes
<1>1. Typed /\ TornAtEnd /\ Current \in Nat /\ safe \subseteq acked /\ acked \subseteq 1 .. Current
  BY TornStays, LogTyped DEF Base, Typed, Current
<1>2. \A i : i \in safe /\ Kept(i) /\ pc # "down" => Remembered(i)
  BY <1>1, WrittenKept DEF SafeRemembered
<1>3. CASE Bookkeeping
  <2>1. UNCHANGED <<ops, memory>> /\ pc # "down" /\ (safe' = safe \/ BgSync)
    BY <1>3 DEF Bookkeeping
  <2>2. Kept(id)
    BY <2>1 DEF Kept, Flushes
  <2>3. id \in safe \/ Remembered(id)
    BY <2>1 DEF BgSync
  <2>4. Remembered(id)
    BY <1>2, <2>1, <2>2, <2>3
  <2> QED
    BY <2>1, <2>4 DEF Remembered
<1>4. CASE ExecuteNext
  <2>1. safe' = safe /\ pc # "down"
    BY <1>4 DEF ExecuteNext, Execute, Continue, Begin
  <2>2. id \in 1 .. Current /\ (Kept(id) => Remembered(id))
    BY <1>1, <1>2, <2>1
  <2> QED
    BY <1>4, <2>2, ExecuteKeeps
<1>5. CASE Reply
  <2>1. UNCHANGED <<ops, memory, safe>> /\ pc # "down"
    BY <1>5 DEF Reply, disk
  <2>2. Kept(id)
    BY <2>1 DEF Kept, Flushes
  <2> QED
    BY <1>2, <2>1, <2>2 DEF Remembered
<1>6. CASE Crash
  BY <1>1, <1>6, CrashDies DEF Dies, Base
<1>7. CASE Restart
  <2>1. UNCHANGED <<ops, safe>>
    BY <1>7 DEF Restart, history
  <2>2. Kept(id)
    BY <2>1 DEF Kept, Flushes
  <2>3. ~TornForGood
    <3>1. ~TornInside(file)
      BY <1>1, TornSomewhere
    <3>2. \A n \in 1 .. synced - 1 : n \in 1 .. Len(file) - 1
      <4>1. synced \in Nat /\ Len(file) \in Nat /\ synced <= Len(file)
        BY <1>1, LogTyped
      <4> QED
        BY <4>1
    <3> QED
      BY <3>1, <3>2 DEF TornForGood, TornInside
  <2>4. Durable(id)
    BY <2>1, <2>3 DEF SafeOnDisk
  <2> QED
    BY <1>1, <1>7, <2>2, <2>4, RestartKeeps
<1> QED
  BY <1>3, <1>4, <1>5, <1>6, <1>7, StepKinds

-----------------------------------------------------------------------------
(* The theorems                                                             *)

Inductive ==
    /\ Base /\ AlwaysOnDisk /\ AnsweredRemembered
    /\ Traced /\ SafeOnDisk /\ SafeRemembered

LEMMA InductiveInit == ASSUME Init PROVE Inductive
<1>1. Base
  BY BaseInit
<1>2. acked = {} /\ safe = {} /\ first = 0 /\ buf = << >> /\ pc = "wait" /\ memory = [d \in DBs |-> << >>]
  BY DEF Init
<1>3. Answered = {}
  BY <1>2 DEF Answered
<1>4. AlwaysOnDisk
  BY <1>2, <1>3 DEF AlwaysOnDisk
<1>5. AnsweredRemembered
  BY <1>3 DEF AnsweredRemembered, Written
<1>6. Traced
  <2>1. \A d \in DBs : Len(memory[d]) = 0
    BY <1>2
  <2>2. \A d \in DBs : 1 .. Len(memory[d]) = {}
    BY <2>1
  <2> QED
    BY <2>2 DEF Traced
<1>7. SafeOnDisk /\ SafeRemembered
  BY <1>2 DEF SafeOnDisk, SafeRemembered, Written
<1> QED
  BY <1>1, <1>4, <1>5, <1>6, <1>7 DEF Inductive

LEMMA InductiveNext == ASSUME Inductive, [Next]_vars PROVE Inductive'
BY BaseNext, AlwaysOnDiskNext, AnsweredRememberedNext, TracedNext, SafeOnDiskNext, SafeRememberedNext DEF Inductive

\* The invariant holds of every execution.
THEOREM Invariance == Spec => []Inductive
<1>1. Init => Inductive
  BY InductiveInit
<1>2. Inductive /\ [Next]_vars => Inductive'
  BY InductiveNext
<1> QED
  BY <1>1, <1>2, PTL DEF Spec

\* The state the code keeps about the log is what it is meant to be: the mark
\* of what was synced lies in the file, the buffer does not overflow, and no
\* command is answered or lost that was not executed.
THEOREM StateOfTheLog == Spec => []TypeOK
<1>1. Inductive => TypeOK
  <2> SUFFICES ASSUME Typed PROVE TypeOK
    BY DEF Inductive, Base
  <2>1. DOMAIN ops = 1 .. Len(ops)
    BY LenProperties DEF Typed
  <2> QED
    BY <2>1 DEF Typed, TypeOK
<1> QED
  BY <1>1, Invariance, PTL

\* Execute, AOF.Write, bufio.Writer and Replay neither repeat an effect nor
\* bring effects out of order, whatever crashes and failed writes there were.
THEOREM NeitherRepeatedNorReordered == Spec => []EffectsOnceInOrder
<1>1. Inductive => EffectsOnceInOrder
  <2> SUFFICES ASSUME Typed, MemoryInOrder, NEW d \in DBs,
                      NEW i \in DOMAIN memory[d], NEW j \in DOMAIN memory[d], i < j
               PROVE  memory[d][i].id < memory[d][j].id
    BY DEF Inductive, Base, EffectsOnceInOrder
  <2>1. DOMAIN memory[d] = 1 .. Len(memory[d])
    BY LenProperties DEF Typed
  <2> QED
    BY <2>1 DEF MemoryInOrder, Increasing
<1> QED
  BY <1>1, Invariance, PTL

\* With appendfsync always, what AOF.Write logged before the reply is there
\* after any crash and restart.
THEOREM AcknowledgedIsKept == Spec => []AckedWritesSurvive
<1>1. Inductive => AckedWritesSurvive
  BY DEF Inductive, AnsweredRemembered, Answered, AckedWritesSurvive, Written
<1> QED
  BY <1>1, Invariance, PTL

\* With appendfsync everysec, what was acknowledged when bgSync last synced the
\* file is there after any crash and restart.
THEOREM SyncedIsKept == Spec => []SyncedWritesSurvive
<1>1. Inductive => SyncedWritesSurvive
  BY DEF Inductive, SafeRemembered, SyncedWritesSurvive
<1> QED
  BY <1>1, Invariance, PTL

=============================================================================
