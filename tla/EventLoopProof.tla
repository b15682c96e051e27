--------------------------- MODULE EventLoopProof ----------------------------
(***************************************************************************)
(* Proofs about EventLoop: for any connections, programs, descriptors and  *)
(* buffer sizes, every client gets the replies to its own requests in      *)
(* order, and exactly its own commands are executed, once each.            *)
(***************************************************************************)
EXTENDS EventLoop, SequenceTheorems, TLAPS

-----------------------------------------------------------------------------
(* The inductive invariant *)

Kinds   == {"nothing", "error", "ok", "results", "bye", "queued", "result"}
Replies == [conn : Conns, req : Nat, kind : Kinds]
Entries == [conn : Conns, req : Nat, by : Nat]

Typed ==
    /\ status \in [Conns -> {"new", "queued", "open", "gone"}]
    /\ sent \in [Conns -> Nat]
    /\ inbox \in [Conns -> Seq(Chunks)]
    /\ eof \in [Conns -> BOOLEAN]
    /\ outbox \in [Conns -> Seq(Replies)]
    /\ got \in [Conns -> Seq(Replies)]
    /\ fds \in [Fds -> Conns \cup {None}]
    /\ clients \in [Fds -> Client \cup {None}]
    /\ batch \subseteq Fds \cup {ServerFd}
    /\ pc \in {"wait", "batch", "accept", "parse", "run", "write"}
    /\ cur \in Fds \cup {ServerFd}
    /\ part \in 0 .. 3
    /\ log \in Seq(Entries)

\* A descriptor belongs to one open connection, and so does what the loop holds.
Descriptors ==
    /\ \A fd \in Fds : IF fds[fd] = None THEN clients[fd] = None
                                         ELSE clients[fd] \in Client /\ status[fds[fd]] = "open"
    /\ \A fd, other \in Fds : fds[fd] # None /\ fds[fd] = fds[other] => fd = other
    /\ \A fd \in batch \ {ServerFd} : fds[fd] # None
    /\ pc \in {"parse", "run", "write"} => cur \in Fds /\ fds[cur] # None /\ cur \notin batch
    /\ pc = "parse" => part < 3

Room ==
    \A c \in Conns : /\ sent[c] <= 3 * Len(Program[c])
                     /\ c \notin Fragmented => sent[c] % 3 = 0
                     /\ Len(outbox[c]) <= SendRoom

\* The chunks of c, in order, after its first k.
Stretch(s, c, k) ==
    \A j \in DOMAIN s : s[j] = Chunk(c, ((k + j - 1) \div 3) + 1, ((k + j - 1) % 3) + 1)

\* Nothing was read from a connection that is not accepted yet.
Waiting ==
    \A c \in Conns : status[c] \in {"new", "queued"} =>
        /\ Len(inbox[c]) = sent[c] /\ Stretch(inbox[c], c, 0)
        /\ status[c] = "new" => sent[c] = 0
        /\ got[c] = << >> /\ outbox[c] = << >>
        /\ Executed(c) = {}

\* Chunks of the request at hand that were parsed.
Progress(fd) == IF cur # fd THEN 0
                ELSE IF pc = "parse" THEN part
                ELSE IF pc \in {"run", "write"} THEN 3 ELSE 0

\* Requests done with, when n were before the one at hand.
Seen(fd, n) == IF cur = fd /\ pc = "write" THEN n + 1 ELSE n

\* The bytes of a connection reach the parser in order: those of n requests and
\* of the one at hand are parsed, then come the buffer and the kernel's.
Stream(fd, n) ==
    LET c == fds[fd]  taken == 3 * n + Progress(fd)  buffered == clients[fd].buf
    IN /\ taken + Len(buffered) + Len(inbox[c]) = sent[c]
       /\ Stretch(buffered, c, taken)
       /\ Stretch(inbox[c], c, taken + Len(buffered))

\* Each of n requests was answered, unless the client had closed.
Answered(fd, n) ==
    LET c == fds[fd]
    IN /\ Len(got[c]) + Len(outbox[c]) <= n
       /\ ~eof[c] => Len(got[c]) + Len(outbox[c]) = n
       /\ cur = fd /\ pc = "run" => reply = [conn |-> c, req |-> n + 1]
       /\ cur = fd /\ pc = "write" =>
              reply = [conn |-> c, req |-> n + 1, kind |-> Owed(Program[c], n + 1)]

\* The client's transaction is the one its requests have opened.
Transaction(fd, n) ==
    LET p == Program[fds[fd]]  queue == clients[fd].queue  next == Seen(fd, n) + 1
    IN /\ clients[fd].inMulti <=> Open(p, next)
       /\ {queue[j] : j \in DOMAIN queue} = Body(p, next)
       /\ \A j, k \in DOMAIN queue : j < k => queue[j] < queue[k]

Session(fd, n) ==
    /\ Stream(fd, n)
    /\ Answered(fd, n)
    /\ Transaction(fd, n)
    /\ Effected(fds[fd]) = Effects(Program[fds[fd]], Seen(fd, n))

Sessions == \A fd \in Fds : fds[fd] # None =>
                \E n \in 0 .. Len(Program[fds[fd]]) : Session(fd, n)

\* RepliesInOrder and ExecutedAsSent of one connection.
Ordered(c) ==
    LET replies == got[c] \o outbox[c]
    IN \A i \in DOMAIN replies :
         replies[i] = [conn |-> c, req |-> i, kind |-> Owed(Program[c], i)]

Faithful(c) ==
    /\ \A j, k \in Executed(c) : j < k => log[j].req < log[k].req
    /\ \E n \in Len(got[c] \o outbox[c]) .. Whole(c) : Effected(c) = Effects(Program[c], n)

Sound ==
    /\ Typed /\ Descriptors /\ Room /\ Waiting /\ Sessions
    /\ \A c \in Conns : Ordered(c)

Inductive == Sound /\ \A c \in Conns : Faithful(c)

\* Kept apart from Sound, which also a crash keeps (ServerProof).
StaysFaithful == \A c \in Conns : Faithful(c) => Faithful(c)'

-----------------------------------------------------------------------------
(* What one more request does to what a connection is owed *)

\* After request i a transaction is open if it was and i did not end it, or if
\* i is MULTI.
LEMMA OpenNext ==
    ASSUME NEW p, NEW i \in Nat \ {0}
    PROVE  Open(p, i + 1) <=> \/ p[i] = "MULTI"
                              \/ Open(p, i) /\ p[i] \notin {"EXEC", "DISCARD"}
<1>1. ASSUME p[i] = "MULTI" PROVE Open(p, i + 1)
  <2>1. i \in 1 .. (i + 1) - 1 /\ \A j \in i + 1 .. (i + 1) - 1 : p[j] \notin {"EXEC", "DISCARD"}
    OBVIOUS
  <2>2. QED BY <1>1, <2>1 DEF Open
<1>2. ASSUME Open(p, i), p[i] \notin {"EXEC", "DISCARD"} PROVE Open(p, i + 1)
  <2>1. PICK m \in 1 .. i - 1 : p[m] = "MULTI" /\ \A j \in m + 1 .. i - 1 : p[j] \notin {"EXEC", "DISCARD"}
    BY <1>2 DEF Open
  <2>2. m \in 1 .. (i + 1) - 1 /\ \A j \in m + 1 .. (i + 1) - 1 : p[j] \notin {"EXEC", "DISCARD"}
    BY <1>2, <2>1
  <2>3. QED BY <2>1, <2>2 DEF Open
<1>3. ASSUME Open(p, i + 1), p[i] # "MULTI" PROVE Open(p, i) /\ p[i] \notin {"EXEC", "DISCARD"}
  <2>1. PICK m \in 1 .. (i + 1) - 1 : p[m] = "MULTI" /\ \A j \in m + 1 .. (i + 1) - 1 : p[j] \notin {"EXEC", "DISCARD"}
    BY <1>3 DEF Open
  <2>2. m \in 1 .. i - 1 /\ i \in m + 1 .. (i + 1) - 1
    BY <1>3, <2>1
  <2>3. QED BY <2>1, <2>2 DEF Open
<1>4. QED BY <1>1, <1>2, <1>3

\* Only an open transaction has a body.
LEMMA BodyIsOpen ==
    ASSUME NEW p, NEW n \in Nat \ {0}, NEW i \in Body(p, n)
    PROVE  Open(p, n)
<1>1. /\ i \in 1 .. n - 1 /\ p[i] = "PLAIN" /\ Open(p, i)
      /\ \A j \in i + 1 .. n - 1 : p[j] \notin {"EXEC", "DISCARD"}
  BY DEF Body
<1>2. PICK m \in 1 .. i - 1 : p[m] = "MULTI" /\ \A j \in m + 1 .. i - 1 : p[j] \notin {"EXEC", "DISCARD"}
  BY <1>1 DEF Open
<1>3. m \in 1 .. n - 1 /\ \A j \in m + 1 .. n - 1 : p[j] \notin {"EXEC", "DISCARD"}
  <2>1. SUFFICES ASSUME NEW j \in m + 1 .. n - 1 PROVE p[j] \notin {"EXEC", "DISCARD"}
    BY <1>1
  <2>2. j \in m + 1 .. i - 1 \/ j = i \/ j \in i + 1 .. n - 1
    BY <1>1
  <2>3. QED BY <1>1, <1>2, <2>2
<1>4. QED BY <1>2, <1>3 DEF Open

\* The body of the open transaction grows by the commands queued, and is empty
\* after EXEC and DISCARD.
LEMMA BodyNext ==
    ASSUME NEW p, NEW i \in Nat \ {0}
    PROVE  Body(p, i + 1) = IF p[i] \in {"EXEC", "DISCARD"} THEN {}
                            ELSE IF p[i] = "PLAIN" /\ Open(p, i) THEN Body(p, i) \cup {i}
                            ELSE Body(p, i)
<1>1. ASSUME p[i] \in {"EXEC", "DISCARD"} PROVE Body(p, i + 1) = {}
  <2>1. SUFFICES ASSUME NEW k \in Body(p, i + 1) PROVE FALSE
    OBVIOUS
  <2>2. k \in 1 .. i /\ p[k] = "PLAIN" /\ \A j \in k + 1 .. (i + 1) - 1 : p[j] \notin {"EXEC", "DISCARD"}
    BY DEF Body
  <2>3. k # i
    BY <1>1, <2>2
  <2>4. QED BY <1>1, <2>2, <2>3
<1>2. ASSUME p[i] \notin {"EXEC", "DISCARD"}, NEW k
      PROVE  k \in Body(p, i + 1) <=> k \in Body(p, i) \/ (k = i /\ p[i] = "PLAIN" /\ Open(p, i))
  <2>1. k \in 1 .. (i + 1) - 1 <=> k \in 1 .. i - 1 \/ k = i
    OBVIOUS
  <2>2. ASSUME k \in 1 .. i - 1
        PROVE  (\A j \in k + 1 .. (i + 1) - 1 : p[j] \notin {"EXEC", "DISCARD"})
                 <=> (\A j \in k + 1 .. i - 1 : p[j] \notin {"EXEC", "DISCARD"})
    BY <1>2, <2>2
  <2>3. ASSUME k = i PROVE \A j \in k + 1 .. (i + 1) - 1 : p[j] \notin {"EXEC", "DISCARD"}
    BY <2>3
  <2>4. QED BY <2>1, <2>2, <2>3 DEF Body
<1>3. QED BY <1>1, <1>2

\* What one more request executes.
LEMMA EffectsNext ==
    ASSUME NEW p, NEW n \in Nat
    PROVE  Effects(p, n + 1) = Effects(p, n) \cup
               (IF p[n + 1] = "PLAIN" /\ ~Open(p, n + 1) THEN {<<n + 1, n + 1>>}
                ELSE IF p[n + 1] = "EXEC" /\ Open(p, n + 1) THEN {<<i, n + 1>> : i \in Body(p, n + 1)}
                ELSE {})
<1> DEFINE Direct(k) == {j \in 1 .. k : p[j] = "PLAIN" /\ ~Open(p, j)}
           Ends(k)   == {j \in 1 .. k : p[j] = "EXEC" /\ Open(p, j)}
<1>1. 1 .. n + 1 = (1 .. n) \cup {n + 1}
  OBVIOUS
<1>2. Direct(n + 1) = Direct(n) \cup (IF p[n + 1] = "PLAIN" /\ ~Open(p, n + 1) THEN {n + 1} ELSE {})
  BY <1>1
<1>3. Ends(n + 1) = Ends(n) \cup (IF p[n + 1] = "EXEC" /\ Open(p, n + 1) THEN {n + 1} ELSE {})
  BY <1>1
<1>4. \A k : Effects(p, k) = {<<i, i>> : i \in Direct(k)} \cup UNION {{<<i, e>> : i \in Body(p, e)} : e \in Ends(k)}
  BY DEF Effects
<1> HIDE DEF Direct, Ends
<1>5. QED BY <1>2, <1>3, <1>4

\* A queued command comes after everything that was executed before.
LEMMA BodyAfterEffects ==
    ASSUME NEW p, NEW n \in Nat, NEW i, NEW e, <<i, e>> \in Effects(p, n)
    PROVE  /\ i \in 1 .. n
           /\ \A k \in Body(p, n + 1) : i < k
<1>1. \/ i \in 1 .. n /\ p[i] = "PLAIN" /\ ~Open(p, i)
      \/ e \in 1 .. n /\ p[e] = "EXEC" /\ i \in Body(p, e)
  BY DEF Effects
<1>2. i \in 1 .. n
  BY <1>1 DEF Body
<1>3. ASSUME NEW k \in Body(p, n + 1), ~(i < k) PROVE FALSE
  <2>1. /\ k \in 1 .. n /\ p[k] = "PLAIN" /\ Open(p, k)
        /\ \A j \in k + 1 .. (n + 1) - 1 : p[j] \notin {"EXEC", "DISCARD"}
    BY DEF Body
  <2>2. CASE i \in 1 .. n /\ p[i] = "PLAIN" /\ ~Open(p, i)
    <3>1. k # i
      BY <2>1, <2>2
    <3>2. k \in 1 .. i - 1
      BY <1>3, <2>1, <2>2, <3>1
    <3>3. k \in Body(p, i)
      BY <2>1, <2>2, <3>2 DEF Body
    <3>4. QED BY <2>2, <3>3, BodyIsOpen
  <2>3. CASE e \in 1 .. n /\ p[e] = "EXEC" /\ i \in Body(p, e)
    <3>1. i \in 1 .. e - 1
      BY <2>3 DEF Body
    <3>2. e \in k + 1 .. (n + 1) - 1
      BY <1>3, <2>1, <2>3, <3>1
    <3>3. QED BY <2>1, <2>3, <3>2
  <2>4. QED BY <1>1, <2>2, <2>3
<1>4. QED BY <1>2, <1>3

-----------------------------------------------------------------------------
(* Stretches of a connection's chunks *)

LEMMA StretchConcat ==
    ASSUME NEW s \in Seq(Chunks), NEW t \in Seq(Chunks), NEW c, NEW k \in Nat,
           Stretch(s, c, k), Stretch(t, c, k + Len(s))
    PROVE  Stretch(s \o t, c, k)
<1>1. /\ Len(s \o t) = Len(s) + Len(t) /\ s \o t \in Seq(Chunks)
      /\ \A j \in 1 .. Len(s) + Len(t) : (s \o t)[j] = IF j <= Len(s) THEN s[j] ELSE t[j - Len(s)]
  BY ConcatProperties
<1>2. SUFFICES ASSUME NEW j \in 1 .. Len(s) + Len(t)
               PROVE  (s \o t)[j] = Chunk(c, ((k + j - 1) \div 3) + 1, ((k + j - 1) % 3) + 1)
  BY <1>1, LenProperties DEF Stretch
<1>3. CASE j <= Len(s)
  BY <1>1, <1>3 DEF Stretch
<1>4. CASE j > Len(s)
  <2>1. j - Len(s) \in DOMAIN t /\ (s \o t)[j] = t[j - Len(s)]
    BY <1>1, <1>4
  <2>2. k + Len(s) + (j - Len(s)) - 1 = k + j - 1
    OBVIOUS
  <2>3. QED BY <2>1, <2>2 DEF Stretch
<1>5. QED BY <1>3, <1>4

LEMMA StretchTail ==
    ASSUME NEW s \in Seq(Chunks), NEW c, NEW k \in Nat, Stretch(s, c, k), s # << >>
    PROVE  /\ Stretch(Tail(s), c, k + 1)
           /\ Head(s) = Chunk(c, (k \div 3) + 1, (k % 3) + 1)
<1>1. /\ Tail(s) \in Seq(Chunks) /\ Len(Tail(s)) = Len(s) - 1 /\ Len(s) \in Nat \ {0}
      /\ \A j \in 1 .. Len(Tail(s)) : Tail(s)[j] = s[j + 1]
  BY HeadTailProperties, EmptySeq
<1>0. Head(s) = s[1]
  OBVIOUS
<1>2. ASSUME NEW j \in 1 .. Len(Tail(s))
      PROVE  Tail(s)[j] = Chunk(c, (((k + 1) + j - 1) \div 3) + 1, (((k + 1) + j - 1) % 3) + 1)
  <2>1. j + 1 \in DOMAIN s /\ k + (j + 1) - 1 = (k + 1) + j - 1
    BY <1>1
  <2>2. QED BY <1>1, <2>1 DEF Stretch
<1>3. Stretch(Tail(s), c, k + 1)
  BY <1>1, <1>2, LenProperties DEF Stretch
<1>4. s[1] = Chunk(c, ((k + 1 - 1) \div 3) + 1, ((k + 1 - 1) % 3) + 1)
  BY <1>1 DEF Stretch
<1>5. k + 1 - 1 = k
  OBVIOUS
<1>6. QED BY <1>0, <1>3, <1>4, <1>5

\* What Send sends.
LEMMA StretchSent ==
    ASSUME NEW c \in Conns, NEW k \in Nat, NEW n \in 1 .. 3 - (k % 3),
           NEW s, s = [j \in 1 .. n |-> Chunk(c, (k \div 3) + 1, (k % 3) + j)]
    PROVE  s \in Seq(Chunks) /\ Len(s) = n /\ Stretch(s, c, k)
<1>1. ASSUME NEW j \in 1 .. n
      PROVE  /\ Chunk(c, (k \div 3) + 1, (k % 3) + j) \in Chunks
             /\ (k + j - 1) \div 3 = k \div 3 /\ ((k + j - 1) % 3) + 1 = (k % 3) + j
  BY DEF Chunk, Chunks
<1>2. s \in Seq(Chunks) /\ Len(s) = n
  <2>1. n \in Nat /\ s \in [1 .. n -> Chunks]
    BY <1>1
  <2>2. s \in Seq(Chunks)
    BY <2>1, SeqDef, ZenonT(60)
  <2>3. QED BY <2>1, <2>2, LenProperties
<1>3. Stretch(s, c, k)
  BY <1>1, <1>2 DEF Stretch
<1>4. QED BY <1>2, <1>3

LEMMA StretchEmpty == ASSUME NEW c, NEW k PROVE Stretch(<< >>, c, k)
BY DEF Stretch

-----------------------------------------------------------------------------
(* What a step leaves alone *)

\* The step is not about connection c.
Aloof(c) ==
    /\ sent'[c] = sent[c] /\ inbox'[c] = inbox[c] /\ eof'[c] = eof[c]
    /\ outbox'[c] = outbox[c] /\ got'[c] = got[c]

LEMMA SessionKept ==
    ASSUME Typed, NEW fd \in Fds, fds[fd] # None, NEW n \in Nat, Session(fd, n),
           fds'[fd] = fds[fd], clients'[fd] = clients[fd],
           Aloof(fds[fd]), Effected(fds[fd])' = Effected(fds[fd]),
           Progress(fd)' = Progress(fd), Seen(fd, n)' = Seen(fd, n),
           cur' = fd /\ pc' \in {"run", "write"} => cur = fd /\ pc' = pc /\ reply' = reply
    PROVE  Session(fd, n)'
<1> DEFINE c == fds[fd]
<1>1. Stream(fd, n)'
  BY DEF Session, Stream, Aloof
<1>2. Answered(fd, n)'
  BY DEF Session, Answered, Aloof
<1>3. Transaction(fd, n)'
  BY DEF Session, Transaction
<1>4. QED BY <1>1, <1>2, <1>3 DEF Session

LEMMA EffectsKept ==
    ASSUME log' = log
    PROVE  \A c : Effected(c)' = Effected(c) /\ Executed(c)' = Executed(c)
BY DEF Effected, Executed

LEMMA FaithfulKept ==
    ASSUME NEW c, log' = log, sent'[c] = sent[c],
           (got[c] \o outbox[c])' = got[c] \o outbox[c]
    PROVE  Faithful(c) => Faithful(c)'
<1>1. Executed(c)' = Executed(c) /\ Effected(c)' = Effected(c) /\ Whole(c)' = Whole(c)
  BY EffectsKept DEF Whole
<1>2. QED BY <1>1 DEF Faithful

LEMMA OrderedKept ==
    ASSUME NEW c, Ordered(c), (got[c] \o outbox[c])' = got[c] \o outbox[c]
    PROVE  Ordered(c)'
BY DEF Ordered

\* Only the network changes, for one connection that stays what it is for the
\* server.
Idle == UNCHANGED <<fds, clients, pc, cur, part, reply, log>>

LEMMA IdleKeeps ==
    ASSUME Sound, Idle, NEW fd \in Fds, fds[fd] # None, Aloof(fds[fd])
    PROVE  (\E n \in 0 .. Len(Program[fds[fd]]) : Session(fd, n))'
<1>1. fds[fd] \in Conns
  BY DEF Sound, Typed
<1>2. PICK n \in 0 .. Len(Program[fds[fd]]) : Session(fd, n)
  BY DEF Sound, Sessions
<1>3. n \in Nat
  BY <1>1, ProgramAssumption
<1>4. Effected(fds[fd])' = Effected(fds[fd])
  BY EffectsKept DEF Idle
<1>5. Session(fd, n)'
  BY <1>2, <1>3, <1>4, SessionKept DEF Sound, Idle, Progress, Seen
<1>6. QED BY <1>2, <1>5 DEF Idle

-----------------------------------------------------------------------------
(* Steps of clients *)

LEMMA ConnectStep ==
    ASSUME Sound, NEW c \in Conns, Connect(c)
    PROVE  Sound' /\ StaysFaithful
<1> USE DEF Sound, StaysFaithful, Connect, server
<1>1. Typed'
  BY DEF Typed
<1>2. Descriptors'
  BY DEF Typed, Descriptors
<1>3. Room'
  BY DEF Room
<1>4. Waiting'
  BY EffectsKept DEF Typed, Waiting
<1>5. Sessions'
  <2>1. SUFFICES ASSUME NEW fd \in Fds, fds[fd] # None
                 PROVE  (\E n \in 0 .. Len(Program[fds[fd]]) : Session(fd, n))'
    BY DEF Sessions
  <2>2. QED BY <2>1, IdleKeeps DEF Idle, Aloof
<1>6. \A o \in Conns : Ordered(o)' /\ (Faithful(o) => Faithful(o)')
  BY OrderedKept, FaithfulKept
<1>7. QED BY <1>1, <1>2, <1>3, <1>4, <1>5, <1>6

LEMMA CloseByClientStep ==
    ASSUME Sound, NEW c \in Conns, CloseByClient(c)
    PROVE  Sound' /\ StaysFaithful
<1> USE DEF Sound, StaysFaithful, CloseByClient, server
<1>1. Typed'
  BY DEF Typed
<1>2. Descriptors'
  BY DEF Descriptors
<1>3. Room'
  BY DEF Room
<1>4. Waiting'
  BY EffectsKept DEF Waiting
<1>5. Sessions'
  <2>1. SUFFICES ASSUME NEW fd \in Fds, fds[fd] # None
                 PROVE  (\E n \in 0 .. Len(Program[fds[fd]]) : Session(fd, n))'
    BY DEF Sessions
  <2>2. CASE fds[fd] # c
    BY <2>1, <2>2, IdleKeeps DEF Idle, Aloof, Typed
  <2>3. CASE fds[fd] = c
    <3>1. PICK n \in 0 .. Len(Program[c]) : Session(fd, n)
      BY <2>1, <2>3 DEF Sessions
    <3>2. Answered(fd, n)'
      BY <2>3, <3>1 DEF Session, Answered, Typed
    <3>3. Stream(fd, n)' /\ Transaction(fd, n)'
      BY <3>1 DEF Session, Stream, Transaction, Progress, Seen
    <3>4. Effected(fds[fd])' = Effects(Program[fds[fd]], Seen(fd, n))'
      BY <3>1, EffectsKept DEF Session, Seen
    <3>5. QED BY <2>3, <3>1, <3>2, <3>3, <3>4 DEF Session
  <2>4. QED BY <2>2, <2>3
<1>6. \A o \in Conns : Ordered(o)' /\ (Faithful(o) => Faithful(o)')
  BY OrderedKept, FaithfulKept
<1>7. QED BY <1>1, <1>2, <1>3, <1>4, <1>5, <1>6

LEMMA HeadMoves ==
    ASSUME NEW S, NEW s \in Seq(S), NEW t \in Seq(S), t # << >>
    PROVE  Append(s, Head(t)) \o Tail(t) = s \o t
<1>1. Head(t) \in S /\ Tail(t) \in Seq(S) /\ t = <<Head(t)>> \o Tail(t)
  BY HeadTailProperties
<1>2. Append(s, Head(t)) = s \o <<Head(t)>>
  BY <1>1, AppendIsConcat
<1>3. <<Head(t)>> \in Seq(S)
  BY <1>1
<1>4. (s \o <<Head(t)>>) \o Tail(t) = s \o (<<Head(t)>> \o Tail(t))
  BY <1>1, <1>3, ConcatAssociative
<1>5. QED BY <1>1, <1>2, <1>4

LEMMA AppendToConcat ==
    ASSUME NEW S, NEW s \in Seq(S), NEW t \in Seq(S), NEW e \in S
    PROVE  s \o Append(t, e) = Append(s \o t, e)
<1>1. Append(t, e) = t \o <<e>> /\ <<e>> \in Seq(S)
  BY AppendIsConcat
<1>2. s \o t \in Seq(S)
  BY ConcatProperties
<1>3. Append(s \o t, e) = (s \o t) \o <<e>>
  BY <1>2, AppendIsConcat
<1>4. (s \o t) \o <<e>> = s \o (t \o <<e>>)
  BY <1>1, ConcatAssociative
<1>5. QED BY <1>1, <1>3, <1>4

LEMMA ReceiveStep ==
    ASSUME Sound, NEW c \in Conns, Receive(c)
    PROVE  Sound' /\ StaysFaithful
<1> USE DEF Sound, StaysFaithful, Receive, server
<1>1. /\ outbox[c] \in Seq(Replies) /\ got[c] \in Seq(Replies)
      /\ Head(outbox[c]) \in Replies /\ Tail(outbox[c]) \in Seq(Replies)
      /\ Len(got[c]) \in Nat /\ Len(outbox[c]) \in Nat \ {0} /\ Len(Tail(outbox[c])) = Len(outbox[c]) - 1
      /\ \A i \in 1 .. Len(Tail(outbox[c])) : Tail(outbox[c])[i] = outbox[c][i + 1]
      /\ Head(outbox[c]) = outbox[c][1]
  BY HeadTailProperties, EmptySeq, LenProperties DEF Typed
<1>2. got'[c] = Append(got[c], Head(outbox[c])) /\ outbox'[c] = Tail(outbox[c])
  BY DEF Typed
<1>3. got'[c] \in Seq(Replies) /\ outbox'[c] \in Seq(Replies) /\ Len(got'[c]) = Len(got[c]) + 1
  BY <1>1, <1>2, AppendProperties
<1>4. Typed'
  BY <1>1, <1>3 DEF Typed
<1>5. \A o \in Conns : o # c => got'[o] = got[o] /\ outbox'[o] = outbox[o]
  BY DEF Typed
<1>6. Descriptors'
  BY DEF Descriptors
<1>7. Room'
  BY <1>1, <1>2, <1>5, RoomAssumption DEF Room, Typed
<1>8. Waiting'
  BY <1>5, EffectsKept DEF Waiting
<1>9. got'[c] \o outbox'[c] = got[c] \o outbox[c]
  BY <1>1, <1>2, HeadMoves
<1>10. Sessions'
  <2>1. SUFFICES ASSUME NEW fd \in Fds, fds[fd] # None
                 PROVE  (\E n \in 0 .. Len(Program[fds[fd]]) : Session(fd, n))'
    BY DEF Sessions
  <2>2. CASE fds[fd] # c
    BY <1>5, <2>1, <2>2, IdleKeeps DEF Idle, Aloof, Typed
  <2>3. CASE fds[fd] = c
    <3>1. PICK n \in 0 .. Len(Program[c]) : Session(fd, n)
      BY <2>1, <2>3 DEF Sessions
    <3>2. Answered(fd, n)'
      <4> DEFINE read == Len(got[c])  left == Len(outbox[c])
      <4>1. read \in Nat /\ left \in Nat /\ read' = read + 1 /\ left' = left - 1
        BY <1>1, <1>2, <1>3
      <4>2. read' + left' = read + left
        <5> HIDE DEF read, left
        <5>1. QED BY <4>1
      <4> HIDE DEF Receive, Sound
      <4>3. fds' = fds /\ cur' = cur /\ pc' = pc /\ reply' = reply /\ eof' = eof
        BY DEF Receive, server
      <4>4. QED BY <2>3, <3>1, <4>2, <4>3 DEF Session, Answered
    <3>3. Stream(fd, n)' /\ Transaction(fd, n)'
      BY <3>1 DEF Session, Stream, Transaction, Progress, Seen
    <3>4. Effected(fds[fd])' = Effects(Program[fds[fd]], Seen(fd, n))'
      BY <3>1, EffectsKept DEF Session, Seen
    <3>5. QED BY <2>3, <3>1, <3>2, <3>3, <3>4 DEF Session
  <2>4. QED BY <2>2, <2>3
<1>11. \A o \in Conns : got'[o] \o outbox'[o] = got[o] \o outbox[o]
  BY <1>5, <1>9
<1>12. \A o \in Conns : Ordered(o)' /\ (Faithful(o) => Faithful(o)')
  BY <1>11, OrderedKept, FaithfulKept
<1>13. QED BY <1>4, <1>6, <1>7, <1>8, <1>10, <1>12

LEMMA SendStep ==
    ASSUME Sound, NEW c \in Conns, Send(c)
    PROVE  Sound' /\ StaysFaithful
<1> USE DEF Sound, StaysFaithful
<1>0. PICK n \in 1 .. 3 - (sent[c] % 3) :
         /\ c \notin Fragmented => n = 3
         /\ sent' = [sent EXCEPT ![c] = @ + n]
         /\ inbox' = [inbox EXCEPT ![c] = @ \o [j \in 1 .. n |-> Chunk(c, Whole(c) + 1, (sent[c] % 3) + j)]]
  <2>1. c \notin Fragmented => sent[c] % 3 = 0
    BY DEF Room
  <2>2. PICK n \in IF c \in Fragmented THEN 1 .. 3 - (sent[c] % 3) ELSE {3} :
         /\ sent' = [sent EXCEPT ![c] = @ + n]
         /\ inbox' = [inbox EXCEPT ![c] = @ \o [j \in 1 .. n |-> Chunk(c, Whole(c) + 1, (sent[c] % 3) + j)]]
    BY DEF Send
  <2>3. n \in 1 .. 3 - (sent[c] % 3) /\ (c \notin Fragmented => n = 3)
    BY <2>1, <2>2
  <2>4. QED BY <2>2, <2>3
<1>1. /\ status[c] \in {"queued", "open"} /\ ~eof[c] /\ Whole(c) < Len(Program[c])
      /\ UNCHANGED <<status, eof, outbox, got, server>>
  BY DEF Send
<1> DEFINE more == [j \in 1 .. n |-> Chunk(c, Whole(c) + 1, (sent[c] % 3) + j)]
<1>2. sent[c] \in Nat /\ inbox[c] \in Seq(Chunks)
  BY DEF Typed
<1>3. more \in Seq(Chunks) /\ Len(more) = n /\ Stretch(more, c, sent[c])
  BY <1>2, StretchSent DEF Whole
<1> HIDE DEF more
<1>4. /\ sent'[c] = sent[c] + n
      /\ inbox'[c] = inbox[c] \o more
      /\ \A o \in Conns : o # c => sent'[o] = sent[o] /\ inbox'[o] = inbox[o]
  BY <1>0 DEF Typed, more
<1>5. inbox'[c] \in Seq(Chunks) /\ Len(inbox'[c]) = Len(inbox[c]) + n
  <2>1. inbox[c] \o more \in Seq(Chunks) /\ Len(inbox[c] \o more) = Len(inbox[c]) + n
    BY <1>2, <1>3, ConcatProperties
  <2>2. QED BY <1>4, <2>1
<1>6. Typed'
  <2>1. sent[c] + n \in Nat
    BY <1>2
  <2>2. inbox[c] \o more \in Seq(Chunks)
    BY <1>4, <1>5
  <2>3. sent' \in [Conns -> Nat] /\ inbox' \in [Conns -> Seq(Chunks)]
    BY <1>0, <2>1, <2>2 DEF Typed, more
  <2>4. QED BY <1>1, <2>3 DEF Typed, server
<1>7. Descriptors'
  BY <1>1 DEF Descriptors, server
<1>8. Room'
  <2>1. Len(Program[c]) \in Nat
    BY ProgramAssumption
  <2>2. sent'[c] <= 3 * Len(Program[c])
    <3>1. sent[c] + n <= 3 * (sent[c] \div 3) + 3
      BY <1>2
    <3>2. QED BY <1>1, <1>2, <1>4, <2>1, <3>1 DEF Whole
  <2>3. c \notin Fragmented => sent'[c] % 3 = 0
    <3>1. c \notin Fragmented => sent[c] % 3 = 0 /\ n = 3
      BY <1>0 DEF Room
    <3>2. QED BY <1>2, <1>4, <3>1
  <2>4. QED BY <1>1, <1>4, <2>2, <2>3 DEF Room
<1>9. Waiting'
  <2>1. SUFFICES ASSUME NEW o \in Conns, status[o] \in {"new", "queued"}
                 PROVE  (/\ Len(inbox[o]) = sent[o] /\ Stretch(inbox[o], o, 0)
                         /\ status[o] = "new" => sent[o] = 0
                         /\ got[o] = << >> /\ outbox[o] = << >>
                         /\ Executed(o) = {})'
    BY <1>1 DEF Waiting
  <2>2. Executed(o)' = Executed(o)
    BY <1>1, EffectsKept DEF server
  <2>3. CASE o # c
    BY <1>1, <1>4, <2>1, <2>2, <2>3 DEF Waiting
  <2>4. CASE o = c
    <3>1. Len(inbox[c]) = sent[c] /\ Stretch(inbox[c], c, 0)
      BY <2>1, <2>4 DEF Waiting
    <3>2. Stretch(inbox[c] \o more, c, 0)
      BY <1>2, <1>3, <3>1, StretchConcat
    <3>3. QED BY <1>1, <1>4, <1>5, <2>1, <2>2, <2>4, <3>1, <3>2 DEF Waiting
  <2>5. QED BY <2>3, <2>4
<1>10. Sessions'
  <2>1. SUFFICES ASSUME NEW fd \in Fds, fds[fd] # None
                 PROVE  (\E m \in 0 .. Len(Program[fds[fd]]) : Session(fd, m))'
    BY <1>1 DEF Sessions, server
  <2>2. CASE fds[fd] # c
    BY <1>1, <1>4, <2>1, <2>2, IdleKeeps DEF Idle, Aloof, Typed, server
  <2>3. CASE fds[fd] = c
    <3>1. PICK m \in 0 .. Len(Program[c]) : Session(fd, m)
      BY <2>1, <2>3 DEF Sessions
    <3>2. Stream(fd, m)'
      <4> DEFINE k == 3 * m + Progress(fd) + Len(clients[fd].buf)
      <4>1. clients[fd] \in Client /\ Progress(fd) \in Nat
        BY <2>1, <2>3 DEF Descriptors, Progress, Typed
      <4>2. clients[fd].buf \in Seq(Chunks)
        BY <4>1 DEF Client
      <4>3. m \in Nat
        BY <3>1, ProgramAssumption
      <4>4. k \in Nat /\ k + Len(inbox[c]) = sent[c]
        BY <1>2, <2>3, <3>1, <4>1, <4>2, <4>3, SMTT(30) DEF Session, Stream
      <4>5. Stretch(inbox[c] \o more, c, k)
        BY <1>2, <1>3, <2>3, <3>1, <4>4, StretchConcat DEF Session, Stream
      <4>6. k + Len(inbox'[c]) = sent'[c]
        <5> DEFINE had == Len(inbox[c])  was == sent[c]
        <5>1. had \in Nat /\ was \in Nat /\ had' = had + n /\ was' = was + n /\ k + had = was
          BY <1>2, <1>4, <1>5, <4>4, LenProperties
        <5>2. k + had' = was'
          <6> HIDE DEF had, was, k
          <6>1. QED BY <4>4, <5>1
        <5>3. QED BY <5>2
      <4>7. QED BY <1>1, <1>4, <2>3, <3>1, <4>5, <4>6 DEF Session, Stream, Progress, server
    <3>3. Answered(fd, m)' /\ Transaction(fd, m)'
      BY <1>1, <3>1 DEF Session, Answered, Transaction, Seen, server
    <3>4. Effected(fds[fd])' = Effects(Program[fds[fd]], Seen(fd, m))'
      BY <1>1, <3>1, EffectsKept DEF Session, Seen, server
    <3>5. fds' = fds
      BY <1>1 DEF server
    <3>6. QED BY <2>3, <3>1, <3>2, <3>3, <3>4, <3>5 DEF Session
  <2>4. QED BY <2>2, <2>3
<1>11. \A o \in Conns : Ordered(o)' /\ (Faithful(o) => Faithful(o)')
  <2>1. SUFFICES ASSUME NEW o \in Conns PROVE Ordered(o)' /\ (Faithful(o) => Faithful(o)')
    OBVIOUS
  <2>2. Ordered(o)'
    BY <1>1, OrderedKept
  <2>3. Executed(o)' = Executed(o) /\ Effected(o)' = Effected(o)
    BY <1>1, EffectsKept DEF server
  <2>4. sent[o] \in Nat /\ sent'[o] \in Nat /\ sent[o] <= sent'[o]
    <3>1. sent[o] \in Nat /\ sent'[o] \in Nat
      BY <1>6 DEF Typed
    <3>2. CASE o = c
      BY <1>2, <1>4, <3>2
    <3>3. CASE o # c
      BY <1>4, <3>1, <3>3
    <3>4. QED BY <3>1, <3>2, <3>3
  <2>5. Whole(o) \in Nat /\ Whole(o)' \in Nat /\ Whole(o) <= Whole(o)'
    BY <2>4 DEF Whole
  <2>6. ASSUME Faithful(o) PROVE Faithful(o)'
    <3>1. PICK m \in Len(got[o] \o outbox[o]) .. Whole(o) : Effected(o) = Effects(Program[o], m)
      BY <2>6 DEF Faithful
    <3>2. m \in (Len(got[o] \o outbox[o]) .. Whole(o))'
      <4>1. Len(got[o] \o outbox[o]) \in Nat
        BY ConcatProperties, LenProperties DEF Typed
      <4>2. (got[o] \o outbox[o])' = got[o] \o outbox[o]
        BY <1>1
      <4> DEFINE low == Len(got[o] \o outbox[o])
      <4>3. low' = low /\ low \in Nat /\ m \in low .. Whole(o)
        BY <3>1, <4>1, <4>2
      <4> HIDE DEF low
      <4>4. m \in low' .. Whole(o)'
        BY <2>5, <4>3
      <4>5. QED BY <4>4 DEF low
    <3>3. QED BY <1>1, <2>3, <2>6, <3>1, <3>2 DEF Faithful, server
  <2>7. QED BY <2>2, <2>6
<1>12. QED BY <1>6, <1>7, <1>8, <1>9, <1>10, <1>11

-----------------------------------------------------------------------------
(* Steps of the loop that handle no client *)

LEMMA OtherSessions ==
    ASSUME Sound, NEW fd \in Fds, fds[fd] # None,
           fds'[fd] = fds[fd], clients'[fd] = clients[fd],
           Aloof(fds[fd]), Effected(fds[fd])' = Effected(fds[fd]),
           cur # fd \/ pc \notin {"parse", "run", "write"},
           cur' # fd \/ pc' \notin {"run", "write"},
           Progress(fd)' = 0
    PROVE  (\E n \in 0 .. Len(Program[fds[fd]]) : Session(fd, n))'
<1>1. fds[fd] \in Conns
  BY DEF Sound, Typed
<1>2. PICK n \in 0 .. Len(Program[fds[fd]]) : Session(fd, n)
  BY DEF Sound, Sessions
<1>3. n \in Nat
  BY <1>1, ProgramAssumption
<1>4. Progress(fd)' = Progress(fd) /\ Seen(fd, n)' = Seen(fd, n)
  BY DEF Progress, Seen
<1>5. Session(fd, n)'
  BY <1>2, <1>3, <1>4, SessionKept DEF Sound
<1>6. QED BY <1>2, <1>5

\* Nothing a client or its reader has changes.
LEMMA NothingRead ==
    ASSUME Sound, UNCHANGED <<network, fds, clients, log>>
    PROVE  Room' /\ Waiting' /\ \A o \in Conns : Ordered(o)' /\ (Faithful(o) => Faithful(o)')
<1> USE DEF Sound, network
<1>1. Room'
  BY DEF Room
<1>2. Waiting'
  BY EffectsKept DEF Waiting
<1>3. \A o \in Conns : Ordered(o)' /\ (Faithful(o) => Faithful(o)')
  BY OrderedKept, FaithfulKept
<1>4. QED BY <1>1, <1>2, <1>3

LEMMA WaitStep ==
    ASSUME Sound, Wait
    PROVE  Sound' /\ StaysFaithful
<1> USE DEF Sound, StaysFaithful, Wait, network
<1>1. Typed'
  <2>1. Ready \subseteq Fds \cup {ServerFd}
    BY DEF Ready
  <2>2. QED BY <2>1 DEF Typed
<1>2. Descriptors'
  <2>1. \A fd \in Ready \ {ServerFd} : fd \in Fds /\ fds[fd] # None
    BY DEF Ready
  <2>2. QED BY <2>1 DEF Descriptors
<1>3. Sessions'
  <2>1. SUFFICES ASSUME NEW fd \in Fds, fds[fd] # None
                 PROVE  (\E m \in 0 .. Len(Program[fds[fd]]) : Session(fd, m))'
    BY DEF Sessions
  <2>2. Effected(fds[fd])' = Effected(fds[fd])
    BY EffectsKept
  <2>3. Progress(fd)' = 0
    BY DEF Progress
  <2>4. QED BY <2>1, <2>2, <2>3, OtherSessions DEF Aloof
<1>4. QED BY <1>1, <1>2, <1>3, NothingRead

LEMMA PickStep ==
    ASSUME Sound, Pick
    PROVE  Sound' /\ StaysFaithful
<1>0. /\ pc = "batch" /\ UNCHANGED <<network, fds, clients, reply, log>>
      /\ \/ pc' = "wait" /\ UNCHANGED <<batch, cur, part>>
         \/ \E e \in batch : /\ batch' = batch \ {e} /\ cur' = e /\ part' = 0
                             /\ pc' = IF e = ServerFd THEN "accept" ELSE "parse"
  BY DEF Pick
<1> USE DEF Sound, StaysFaithful, network
<1>1. Typed'
  BY <1>0 DEF Typed
<1>2. Descriptors'
  <2>1. CASE pc' = "wait" /\ UNCHANGED <<batch, cur, part>>
    BY <1>0, <2>1 DEF Descriptors
  <2>2. CASE \E e \in batch : /\ batch' = batch \ {e} /\ cur' = e /\ part' = 0
                              /\ pc' = IF e = ServerFd THEN "accept" ELSE "parse"
    BY <1>0, <2>2 DEF Descriptors, Typed
  <2>3. QED BY <1>0, <2>1, <2>2
<1>3. Sessions'
  <2>1. SUFFICES ASSUME NEW fd \in Fds, fds[fd] # None
                 PROVE  (\E m \in 0 .. Len(Program[fds[fd]]) : Session(fd, m))'
    BY <1>0 DEF Sessions
  <2>2. Effected(fds[fd])' = Effected(fds[fd])
    BY <1>0, EffectsKept
  <2>3. Progress(fd)' = 0 /\ pc' \notin {"run", "write"}
    BY <1>0 DEF Progress
  <2>4. QED BY <1>0, <2>1, <2>2, <2>3, OtherSessions DEF Aloof
<1>4. QED BY <1>0, <1>1, <1>2, <1>3, NothingRead

\* A connection that was accepted has an empty history.
LEMMA NewSession ==
    ASSUME NEW p
    PROVE  ~Open(p, 1) /\ Body(p, 1) = {} /\ Effects(p, 0) = {}
BY DEF Open, Body, Effects

LEMMA AcceptStep ==
    ASSUME Sound, Accept
    PROVE  Sound' /\ StaysFaithful
<1> USE DEF Sound, StaysFaithful
<1>0. /\ pc = "accept"
      /\ UNCHANGED <<sent, inbox, eof, outbox, got, batch, cur, part, reply, log>>
  BY DEF Accept
<1>1. CASE pc' = "batch" /\ UNCHANGED <<fds, clients, status>>
  <2>1. Typed'
    BY <1>0, <1>1 DEF Typed
  <2>2. Descriptors'
    BY <1>0, <1>1 DEF Descriptors
  <2>3. Sessions'
    <3>1. SUFFICES ASSUME NEW fd \in Fds, fds[fd] # None
                   PROVE  (\E m \in 0 .. Len(Program[fds[fd]]) : Session(fd, m))'
      BY <1>1 DEF Sessions
    <3>2. Effected(fds[fd])' = Effected(fds[fd])
      BY <1>0, <1>1, EffectsKept
    <3>3. Progress(fd)' = 0
      BY <1>1 DEF Progress
    <3>4. QED BY <1>0, <1>1, <3>1, <3>2, <3>3, OtherSessions DEF Aloof
  <2>4. QED BY <1>0, <1>1, <2>1, <2>2, <2>3, NothingRead DEF network
<1>2. CASE \E c \in Queued, fd \in FreeFds :
             /\ fds' = [fds EXCEPT ![fd] = c]
             /\ clients' = [clients EXCEPT ![fd] = NewClient]
             /\ status' = [status EXCEPT ![c] = "open"]
             /\ UNCHANGED pc
  <2>0. PICK c \in Queued, fd \in FreeFds :
             /\ fds' = [fds EXCEPT ![fd] = c]
             /\ clients' = [clients EXCEPT ![fd] = NewClient]
             /\ status' = [status EXCEPT ![c] = "open"]
             /\ UNCHANGED pc
    BY <1>2
  <2>1. c \in Conns /\ status[c] = "queued" /\ fd \in Fds /\ fds[fd] = None /\ c # None
    BY NoneAssumption DEF Queued, FreeFds
  <2>2. NewClient \in Client
    BY EmptySeq DEF NewClient, Client
  <2>3. Typed'
    BY <1>0, <2>0, <2>1, <2>2 DEF Typed
  <2>4. Descriptors'
    <3>1. \A other \in Fds : fds[other] # c
      BY <2>1 DEF Descriptors
    <3>2. \A other \in Fds : /\ other # fd => fds'[other] = fds[other] /\ clients'[other] = clients[other]
                             /\ fds'[fd] = c /\ clients'[fd] = NewClient /\ status'[c] = "open"
      BY <2>0, <2>1 DEF Typed
    <3>3. \A other \in Fds : fds[other] # None => status'[fds[other]] = status[fds[other]]
      BY <2>0, <2>1, <3>1 DEF Typed
    <3>4. \A o \in Fds : IF fds'[o] = None THEN clients'[o] = None
                         ELSE clients'[o] \in Client /\ status'[fds'[o]] = "open"
      BY <2>1, <2>2, <3>2, <3>3 DEF Descriptors
    <3>5. \A o, other \in Fds : fds'[o] # None /\ fds'[o] = fds'[other] => o = other
      BY <3>1, <3>2 DEF Descriptors
    <3>6. \A o \in batch \ {ServerFd} : fds'[o] # None
      BY <2>1, <3>2 DEF Descriptors, Typed
    <3>7. QED BY <1>0, <2>0, <3>4, <3>5, <3>6 DEF Descriptors
  <2>5. Room'
    BY <1>0 DEF Room
  <2>6. Waiting'
    <3>1. \A o : Executed(o)' = Executed(o)
      BY <1>0, EffectsKept
    <3>2. \A o \in Conns : status'[o] \in {"new", "queued"} => o # c /\ status'[o] = status[o]
      BY <2>0, <2>1 DEF Typed
    <3>3. QED BY <1>0, <3>1, <3>2 DEF Waiting
  <2>7. Sessions'
    <3>1. SUFFICES ASSUME NEW o \in Fds, fds'[o] # None
                   PROVE  (\E m \in 0 .. Len(Program[fds[o]]) : Session(o, m))'
      BY DEF Sessions
    <3>2. Progress(o)' = 0
      BY <1>0, <2>0 DEF Progress
    <3>3. CASE o # fd
      <4>1. fds'[o] = fds[o] /\ clients'[o] = clients[o]
        BY <2>0, <3>3 DEF Typed
      <4>2. Effected(fds[o])' = Effected(fds[o])
        BY <1>0, <4>1, EffectsKept
      <4>3. QED BY <1>0, <2>0, <3>1, <3>2, <4>1, <4>2, OtherSessions DEF Aloof
    <3>4. CASE o = fd
      <4>1. fds'[o] = c /\ clients'[o] = NewClient
        BY <2>0, <2>1, <3>4 DEF Typed
      <4>2. Seen(o, 0)' = 0
        BY <1>0, <2>0 DEF Seen
      <4>3. /\ Len(inbox[c]) = sent[c] /\ Stretch(inbox[c], c, 0)
            /\ got[c] = << >> /\ outbox[c] = << >> /\ Executed(c) = {}
        BY <2>1 DEF Waiting
      <4>4. Stream(o, 0)'
        BY <1>0, <2>1, <3>2, <4>1, <4>3, StretchEmpty DEF Stream, NewClient, Typed
      <4>5. Answered(o, 0)'
        <5>1. got'[c] = << >> /\ outbox'[c] = << >> /\ Len(<< >>) + Len(<< >>) = 0
          BY <1>0, <4>3
        <5>2. pc' \notin {"run", "write"} /\ fds'[o] = c
          BY <1>0, <2>0, <4>1
        <5> DEFINE read == got[c]  left == outbox[c]
        <5>3. Len(read') + Len(left') = 0
          BY <5>1
        <5> HIDE DEF read, left
        <5>4. /\ Len(read') + Len(left') <= 0
              /\ ~eof'[c] => Len(read') + Len(left') = 0
          BY <5>3
        <5>5. QED BY <5>2, <5>4 DEF Answered, read, left
      <4>6. Transaction(o, 0)'
        BY <4>1, <4>2, NewSession DEF Transaction, NewClient
      <4>7. Effected(c)' = {}
        BY <1>0, <4>3, EffectsKept DEF Effected
      <4>8. Session(o, 0)'
        BY <4>1, <4>2, <4>4, <4>5, <4>6, <4>7, NewSession DEF Session
      <4>9. 0 \in 0 .. Len(Program[fds'[o]])
        BY <2>1, <4>1, ProgramAssumption
      <4>10. QED BY <4>8, <4>9
    <3>5. QED BY <3>3, <3>4
  <2>8. \A o \in Conns : Ordered(o)' /\ (Faithful(o) => Faithful(o)')
    BY <1>0, OrderedKept, FaithfulKept
  <2>9. QED BY <2>3, <2>4, <2>5, <2>6, <2>7, <2>8
<1>3. QED BY <1>1, <1>2 DEF Accept

-----------------------------------------------------------------------------
(* Steps that handle the current client *)

LEMMA Current ==
    ASSUME Sound, pc \in {"parse", "run", "write"}
    PROVE  /\ cur \in Fds /\ fds[cur] # None /\ fds[cur] \in Conns /\ status[fds[cur]] = "open"
           /\ clients[cur] \in Client /\ clients[cur].buf \in Seq(Chunks)
           /\ clients[cur].queue \in Seq(Nat) /\ clients[cur].inMulti \in BOOLEAN
           /\ \A fd \in Fds : fds[fd] = fds[cur] => fd = cur
           /\ \E n \in 0 .. Len(Program[fds[cur]]) : n \in Nat /\ Session(cur, n)
<1>1. cur \in Fds /\ fds[cur] # None /\ fds[cur] \in Conns /\ clients[cur] \in Client
  BY DEF Sound, Descriptors, Typed
<1>2. \E n \in 0 .. Len(Program[fds[cur]]) : n \in Nat /\ Session(cur, n)
  BY <1>1, ProgramAssumption DEF Sound, Sessions
<1>3. QED BY <1>1, <1>2 DEF Sound, Descriptors, Client

\* A step about the current client leaves the other ones' sessions alone.
LEMMA OnlyCurrent ==
    ASSUME Sound, pc \in {"parse", "run", "write"}, cur' = cur,
           \A fd \in Fds : fd # cur => fds'[fd] = fds[fd] /\ clients'[fd] = clients[fd],
           \A c \in Conns : c # fds[cur] => Aloof(c) /\ Effected(c)' = Effected(c),
           fds'[cur] # None => (\E n \in 0 .. Len(Program[fds[cur]]) : Session(cur, n))'
    PROVE  Sessions'
<1>1. SUFFICES ASSUME NEW fd \in Fds, fds'[fd] # None
               PROVE  (\E m \in 0 .. Len(Program[fds[fd]]) : Session(fd, m))'
  BY DEF Sessions
<1>2. CASE fd = cur
  BY <1>1, <1>2
<1>3. CASE fd # cur
  <2>1. fds'[fd] = fds[fd] /\ clients'[fd] = clients[fd] /\ fds[fd] # None
    BY <1>1, <1>3
  <2>2. fds[fd] \in Conns /\ fds[fd] # fds[cur]
    BY <1>3, <2>1, Current DEF Sound, Typed
  <2>3. Effected(fds[fd])' = Effected(fds[fd])
    BY <2>1, <2>2
  <2>4. Progress(fd)' = 0
    BY <1>3 DEF Progress
  <2>5. QED BY <1>3, <2>1, <2>2, <2>3, <2>4, OtherSessions
<1>4. QED BY <1>2, <1>3

LEMMA ParseStep ==
    ASSUME Sound, Parse
    PROVE  Sound' /\ StaysFaithful
<1> DEFINE c == fds[cur]
<1>0. /\ pc = "parse" /\ Me.buf # << >> /\ part' = part + 1 /\ UNCHANGED <<network, fds, batch, cur, log>>
      /\ clients' = [clients EXCEPT ![cur].buf = Tail(@)]
      /\ IF part = 2
         THEN pc' = "run" /\ reply' = [conn |-> Head(Me.buf).conn, req |-> Head(Me.buf).req]
         ELSE UNCHANGED <<pc, reply>>
  BY DEF Parse
<1>1. /\ cur \in Fds /\ c # None /\ c \in Conns /\ clients[cur] \in Client
      /\ clients[cur].buf \in Seq(Chunks) /\ part \in 0 .. 2
  BY <1>0, Current DEF Sound, Descriptors, Typed
<1>2. PICK n \in 0 .. Len(Program[c]) : n \in Nat /\ Session(cur, n)
  BY <1>0, Current
<1>3. /\ clients'[cur] = [clients[cur] EXCEPT !.buf = Tail(@)]
      /\ \A fd \in Fds : fd # cur => clients'[fd] = clients[fd]
  BY <1>0, <1>1 DEF Sound, Typed
<1>4. Tail(clients[cur].buf) \in Seq(Chunks) /\ Len(Tail(clients[cur].buf)) = Len(clients[cur].buf) - 1
  BY <1>0, <1>1, HeadTailProperties DEF Me
<1>5. clients'[cur] \in Client
  BY <1>1, <1>3, <1>4 DEF Client
<1>6. Typed'
  BY <1>0, <1>1, <1>3, <1>5, SMTT(30) DEF Sound, Typed, network
<1>7. Descriptors'
  BY <1>0, <1>1, <1>3, <1>5 DEF Sound, Descriptors, network
<1>8. Room'
  BY <1>0 DEF Sound, Room, network
<1>9. Waiting'
  BY <1>0, EffectsKept DEF Sound, Waiting, network
<1>10. \A o \in Conns : Ordered(o)' /\ (Faithful(o) => Faithful(o)')
  BY <1>0, OrderedKept, FaithfulKept DEF Sound, network
<1>11. Session(cur, n)'
  <2>1. Progress(cur) = part /\ Progress(cur)' = part + 1 /\ Seen(cur, n) = n /\ Seen(cur, n)' = n
    BY <1>0, <1>1 DEF Progress, Seen
  <2> DEFINE k == 3 * n + part  buffered == clients[cur].buf
  <2>2. /\ k \in Nat /\ k + Len(buffered) + Len(inbox[c]) = sent[c]
        /\ Stretch(buffered, c, k) /\ Stretch(inbox[c], c, k + Len(buffered))
    <3>1. k \in Nat
      BY <1>1, <1>2
    <3>2. QED BY <1>2, <2>1, <3>1 DEF Session, Stream
  <2>3. Stretch(Tail(buffered), c, k + 1) /\ Head(buffered) = Chunk(c, (k \div 3) + 1, (k % 3) + 1)
    BY <1>0, <1>1, <2>2, StretchTail DEF Me
  <2>4. buffered' = Tail(buffered)
    BY <1>0, <1>1, <1>3 DEF Client
  <2>5. Stream(cur, n)'
    <3>1. 3 * n + (part + 1) = k + 1
      BY <1>1, <1>2
    <3>2. (k + 1) + Len(Tail(buffered)) = k + Len(buffered)
      <4> DEFINE length == Len(buffered)
      <4>1. length \in Nat /\ Len(Tail(buffered)) = length - 1
        BY <1>1, <1>4, LenProperties
      <4> HIDE DEF length
      <4>2. (k + 1) + (length - 1) = k + length
        BY <4>1, <2>2
      <4>3. QED BY <4>1, <4>2 DEF length
    <3> HIDE DEF k, buffered
    <3>3. QED BY <1>0, <2>1, <2>2, <2>3, <2>4, <3>1, <3>2 DEF Stream, network, buffered
  <2>6. Answered(cur, n)'
    <3>1. ASSUME part = 2 PROVE reply' = [conn |-> c, req |-> n + 1]
      <4>1. k \div 3 = n
        BY <1>2, <3>1
      <4>2. QED BY <1>0, <2>3, <3>1, <4>1, SMTT(30) DEF Chunk, Me
    <3>2. pc' = "run" => part = 2
      BY <1>0
    <3>3. QED BY <1>0, <1>2, <3>1, <3>2 DEF Session, Answered, network
  <2>7. Transaction(cur, n)'
    <3>1. clients'[cur].inMulti = clients[cur].inMulti /\ clients'[cur].queue = clients[cur].queue
      BY <1>1, <1>3 DEF Client
    <3>2. QED BY <1>0, <1>2, <2>1, <3>1 DEF Session, Transaction, network
  <2>8. Effected(c)' = Effected(c)
    BY <1>0, EffectsKept
  <2>9. QED BY <1>0, <1>2, <2>1, <2>5, <2>6, <2>7, <2>8 DEF Session
<1>12. Sessions'
  <2>1. \A o \in Conns : Aloof(o) /\ Effected(o)' = Effected(o)
    BY <1>0, EffectsKept DEF Aloof, network
  <2>2. QED BY <1>0, <1>2, <1>3, <1>11, <2>1, OnlyCurrent
<1>13. QED BY <1>6, <1>7, <1>8, <1>9, <1>10, <1>12 DEF Sound, StaysFaithful

LEMMA FillStep ==
    ASSUME Sound, Fill
    PROVE  Sound' /\ StaysFaithful
<1> DEFINE c == fds[cur]
<1>0. /\ pc = "parse" /\ Me.buf = << >>
      /\ clients' = [clients EXCEPT ![cur].buf = inbox[c]]
      /\ inbox' = [inbox EXCEPT ![c] = << >>]
      /\ UNCHANGED <<status, sent, eof, outbox, got, fds, batch, pc, cur, part, reply, log>>
  BY DEF Fill
<1>1. /\ cur \in Fds /\ c # None /\ c \in Conns /\ status[c] = "open" /\ clients[cur] \in Client
      /\ part \in 0 .. 2 /\ inbox[c] \in Seq(Chunks)
  BY <1>0, Current DEF Sound, Descriptors, Typed
<1>2. PICK n \in 0 .. Len(Program[c]) : n \in Nat /\ Session(cur, n)
  BY <1>0, Current
<1>3. /\ clients'[cur] = [clients[cur] EXCEPT !.buf = inbox[c]]
      /\ \A fd \in Fds : fd # cur => clients'[fd] = clients[fd]
      /\ inbox'[c] = << >> /\ \A o \in Conns : o # c => inbox'[o] = inbox[o]
  BY <1>0, <1>1 DEF Sound, Typed
<1>4. clients'[cur] \in Client
  BY <1>1, <1>3 DEF Client
<1>5. << >> \in Seq(Chunks)
  BY EmptySeq
<1>6. Typed'
  BY <1>0, <1>1, <1>3, <1>4, <1>5 DEF Sound, Typed
<1>7. Descriptors'
  BY <1>0, <1>1, <1>3, <1>4 DEF Sound, Descriptors
<1>8. Room'
  BY <1>0 DEF Sound, Room
<1>9. Waiting'
  <2>1. \A o \in Conns : status[o] \in {"new", "queued"} => inbox'[o] = inbox[o] /\ Executed(o)' = Executed(o)
    BY <1>0, <1>1, <1>3, EffectsKept
  <2>2. QED BY <1>0, <2>1 DEF Sound, Waiting
<1>10. \A o \in Conns : Ordered(o)' /\ (Faithful(o) => Faithful(o)')
  BY <1>0, OrderedKept, FaithfulKept DEF Sound
<1>11. Session(cur, n)'
  <2>1. Progress(cur) = part /\ Progress(cur)' = part /\ Seen(cur, n) = n /\ Seen(cur, n)' = n
    BY <1>0, <1>1 DEF Progress, Seen
  <2> DEFINE k == 3 * n + part
  <2>2. k + 0 + Len(inbox[c]) = sent[c] /\ Stretch(inbox[c], c, k + 0) /\ k \in Nat
    BY <1>0, <1>1, <1>2, <2>1 DEF Session, Stream, Me
  <2>3. clients'[cur].buf = inbox[c]
    BY <1>1, <1>3 DEF Client
  <2>4. Stream(cur, n)'
    <3> DEFINE length == Len(inbox[c])
    <3>1. length \in Nat
      BY <1>1
    <3> HIDE DEF k, length
    <3>2. k + 0 = k /\ k + length + 0 = k + length
      BY <2>2, <3>1
    <3>3. Len(<< >>) = 0
      OBVIOUS
    <3>4. QED BY <1>0, <1>3, <2>1, <2>2, <2>3, <3>2, <3>3, StretchEmpty DEF Stream, k, length
  <2>5. Answered(cur, n)'
    BY <1>0, <1>2 DEF Session, Answered
  <2>6. Transaction(cur, n)'
    <3>1. clients'[cur].inMulti = clients[cur].inMulti /\ clients'[cur].queue = clients[cur].queue
      BY <1>1, <1>3 DEF Client
    <3>2. QED BY <1>0, <1>2, <2>1, <3>1 DEF Session, Transaction
  <2>7. Effected(c)' = Effected(c)
    BY <1>0, EffectsKept
  <2>8. QED BY <1>0, <1>2, <2>1, <2>4, <2>5, <2>6, <2>7 DEF Session
<1>12. Sessions'
  <2>1. \A o \in Conns : o # c => Aloof(o) /\ Effected(o)' = Effected(o)
    BY <1>0, <1>3, EffectsKept DEF Aloof
  <2>2. QED BY <1>0, <1>2, <1>3, <1>11, <2>1, OnlyCurrent
<1>13. QED BY <1>6, <1>7, <1>8, <1>9, <1>10, <1>12 DEF Sound, StaysFaithful

\* The current client goes, with its descriptor and what it has sent.
LEMMA RemoveStep ==
    ASSUME Sound, pc \in {"parse", "run", "write"}, Remove, UNCHANGED <<batch, cur, part, reply, log>>
    PROVE  Sound' /\ StaysFaithful
<1> DEFINE c == fds[cur]
<1>0. /\ status' = [status EXCEPT ![c] = "gone"] /\ inbox' = [inbox EXCEPT ![c] = << >>]
      /\ fds' = [fds EXCEPT ![cur] = None] /\ clients' = [clients EXCEPT ![cur] = None]
      /\ pc' = "batch" /\ UNCHANGED <<sent, eof, outbox, got, batch, cur, part, reply, log>>
  BY DEF Remove
<1>1. /\ cur \in Fds /\ c \in Conns /\ c # None /\ status[c] = "open" /\ cur \notin batch
      /\ \A fd \in Fds : fds[fd] = c => fd = cur
  BY Current DEF Sound, Descriptors
<1>2. /\ fds'[cur] = None /\ clients'[cur] = None
      /\ \A fd \in Fds : fd # cur => fds'[fd] = fds[fd] /\ clients'[fd] = clients[fd]
      /\ \A o \in Conns : o # c => status'[o] = status[o] /\ inbox'[o] = inbox[o]
      /\ status'[c] = "gone"
  BY <1>0, <1>1 DEF Sound, Typed
<1>3. Typed'
  <2>1. << >> \in Seq(Chunks)
    BY EmptySeq
  <2>2. QED BY <1>0, <1>1, <2>1 DEF Sound, Typed
<1>4. Descriptors'
  <2>1. \A fd \in Fds : fd # cur /\ fds[fd] # None => fds[fd] \in Conns /\ status'[fds[fd]] = status[fds[fd]]
    BY <1>1, <1>2 DEF Sound, Typed
  <2>2. \A fd \in Fds : IF fds'[fd] = None THEN clients'[fd] = None
                        ELSE clients'[fd] \in Client /\ status'[fds'[fd]] = "open"
    BY <1>2, <2>1 DEF Sound, Descriptors
  <2>3. \A fd, other \in Fds : fds'[fd] # None /\ fds'[fd] = fds'[other] => fd = other
    BY <1>2 DEF Sound, Descriptors
  <2>4. \A fd \in batch \ {ServerFd} : fds'[fd] # None
    BY <1>1, <1>2 DEF Sound, Descriptors, Typed
  <2>5. QED BY <1>0, <2>2, <2>3, <2>4 DEF Descriptors
<1>5. Room'
  BY <1>0 DEF Sound, Room
<1>6. Waiting'
  <2>1. \A o \in Conns : status'[o] \in {"new", "queued"} =>
          status[o] = status'[o] /\ inbox'[o] = inbox[o] /\ Executed(o)' = Executed(o)
    BY <1>0, <1>2, EffectsKept
  <2>2. QED BY <1>0, <2>1 DEF Sound, Waiting
<1>7. Sessions'
  <2>1. \A o \in Conns : o # c => Aloof(o) /\ Effected(o)' = Effected(o)
    BY <1>0, <1>2, EffectsKept DEF Aloof
  <2>2. QED BY <1>0, <1>2, <2>1, OnlyCurrent
<1>8. \A o \in Conns : Ordered(o)' /\ (Faithful(o) => Faithful(o)')
  BY <1>0, OrderedKept, FaithfulKept DEF Sound
<1>9. QED BY <1>3, <1>4, <1>5, <1>6, <1>7, <1>8 DEF Sound, StaysFaithful

LEMMA FailStep ==
    ASSUME Sound, Fail
    PROVE  Sound' /\ StaysFaithful
BY RemoveStep DEF Fail

\* A request that was read to its end is among those sent.
LEMMA RequestRead ==
    ASSUME Sound, pc \in {"run", "write"}, NEW n \in Nat, Session(cur, n)
    PROVE  /\ n + 1 \in 1 .. Len(Program[fds[cur]])
           /\ Len(got[fds[cur]] \o outbox[fds[cur]]) \in 0 .. n /\ n + 1 <= Whole(fds[cur])
<1> DEFINE c == fds[cur]
<1>1. /\ cur \in Fds /\ c \in Conns /\ clients[cur].buf \in Seq(Chunks)
      /\ inbox[c] \in Seq(Chunks) /\ sent[c] \in Nat /\ sent[c] <= 3 * Len(Program[c])
      /\ got[c] \in Seq(Replies) /\ outbox[c] \in Seq(Replies) /\ Program[c] \in Seq(Requests)
  BY Current, ProgramAssumption DEF Sound, Typed, Room
<1>2. 3 * n + 3 <= sent[c]
  <2>1. Progress(cur) = 3
    BY DEF Progress
  <2> DEFINE buffered == Len(clients[cur].buf)  left == Len(inbox[c])
  <2>2. buffered \in Nat /\ left \in Nat
    BY <1>1
  <2>3. (3 * n + 3) + buffered + left = sent[c]
    BY <2>1 DEF Session, Stream
  <2> HIDE DEF buffered, left
  <2>4. QED BY <1>1, <2>2, <2>3
<1>3. n + 1 <= Whole(c) /\ n + 1 \in 1 .. Len(Program[c])
  <2>1. Len(Program[c]) \in Nat
    BY <1>1
  <2>2. QED BY <1>1, <1>2, <2>1 DEF Whole
<1>4. Len(got[c] \o outbox[c]) \in 0 .. n
  <2>1. /\ Len(got[c] \o outbox[c]) = Len(got[c]) + Len(outbox[c])
        /\ Len(got[c]) \in Nat /\ Len(outbox[c]) \in Nat
    BY <1>1, ConcatProperties, LenProperties
  <2> DEFINE total == Len(got[c] \o outbox[c])  read == Len(got[c])  left == Len(outbox[c])
  <2>2. total = read + left /\ read \in Nat /\ left \in Nat /\ read + left <= n
    BY <2>1 DEF Session, Answered
  <2>3. total \in 0 .. n
    <3> HIDE DEF total, read, left
    <3>1. QED BY <2>2
  <2>4. QED BY <2>3
<1>5. QED BY <1>3, <1>4

\* The request the loop is about to run is the next of its connection's program.
LEMMA RequestAtHand ==
    ASSUME Sound, pc = "run", NEW n \in Nat, Session(cur, n)
    PROVE  /\ n + 1 \in 1 .. Len(Program[fds[cur]])
           /\ reply.conn = fds[cur] /\ reply.req = n + 1
           /\ Request = Program[fds[cur]][n + 1] /\ Request \in Requests
           /\ Len(got[fds[cur]] \o outbox[fds[cur]]) \in 0 .. n /\ n + 1 <= Whole(fds[cur])
<1> DEFINE c == fds[cur]
<1>1. c \in Conns /\ Program[c] \in Seq(Requests)
  BY Current, ProgramAssumption
<1>2. /\ n + 1 \in 1 .. Len(Program[c])
      /\ Len(got[c] \o outbox[c]) \in 0 .. n /\ n + 1 <= Whole(c)
  BY RequestRead
<1>3. reply = [conn |-> c, req |-> n + 1]
  BY DEF Session, Answered
<1>4. Request = Program[c][n + 1] /\ Request \in Requests
  BY <1>1, <1>2, <1>3, ElementOfSeq DEF Request
<1>5. QED BY <1>2, <1>3, <1>4

\* What logging commands of one connection does.
LEMMA Logged ==
    ASSUME Typed, NEW c \in Conns, NEW s \in Seq(Entries), \A j \in DOMAIN s : s[j].conn = c,
           log' = log \o s
    PROVE  /\ log' \in Seq(Entries)
           /\ \A o \in Conns : o # c => Executed(o)' = Executed(o) /\ Effected(o)' = Effected(o)
           /\ Effected(c)' = Effected(c) \cup {<<s[j].req, s[j].by>> : j \in DOMAIN s}
           /\ \A k \in Executed(c)' : \/ k \in Executed(c) /\ log'[k] = log[k]
                                      \/ k - Len(log) \in DOMAIN s /\ k > Len(log) /\ log'[k] = s[k - Len(log)]
           /\ \A k \in DOMAIN log : log'[k] = log[k] /\ k <= Len(log)
<1>1. /\ log \in Seq(Entries) /\ log' \in Seq(Entries) /\ Len(log) \in Nat /\ Len(s) \in Nat
      /\ DOMAIN log = 1 .. Len(log) /\ DOMAIN s = 1 .. Len(s) /\ DOMAIN log' = 1 .. Len(log) + Len(s)
      /\ \A k \in 1 .. Len(log) : log'[k] = log[k]
      /\ \A k \in Len(log) + 1 .. Len(log) + Len(s) : log'[k] = s[k - Len(log)]
  BY ConcatProperties, LenProperties DEF Typed
<1>2. \A k \in DOMAIN log' : \/ k \in DOMAIN log /\ log'[k] = log[k]
                             \/ k - Len(log) \in DOMAIN s /\ k > Len(log) /\ log'[k] = s[k - Len(log)]
  BY <1>1
<1>3. ASSUME NEW o \in Conns, o # c PROVE Executed(o)' = Executed(o)
  BY <1>1, <1>2, <1>3 DEF Executed
<1>4. ASSUME NEW o \in Conns, o # c PROVE Effected(o)' = Effected(o)
  BY <1>1, <1>3, <1>4 DEF Effected, Executed
<1>5. \A k \in Executed(c)' : \/ k \in Executed(c) /\ log'[k] = log[k]
                              \/ k - Len(log) \in DOMAIN s /\ k > Len(log) /\ log'[k] = s[k - Len(log)]
  BY <1>2 DEF Executed
<1>6. \A k \in Executed(c) : k \in Executed(c)' /\ log'[k] = log[k]
  BY <1>1 DEF Executed
<1>7. \A j \in DOMAIN s : j + Len(log) \in Executed(c)' /\ log'[j + Len(log)] = s[j]
  BY <1>1 DEF Executed
<1>8. Effected(c)' = Effected(c) \cup {<<s[j].req, s[j].by>> : j \in DOMAIN s}
  <2>1. ASSUME NEW k \in Executed(c)'
        PROVE  <<log'[k].req, log'[k].by>> \in Effected(c) \cup {<<s[j].req, s[j].by>> : j \in DOMAIN s}
    BY <1>5 DEF Effected
  <2>2. ASSUME NEW k \in Executed(c)
        PROVE  <<log[k].req, log[k].by>> \in Effected(c)'
    BY <1>6 DEF Effected
  <2>3. ASSUME NEW j \in DOMAIN s
        PROVE  <<s[j].req, s[j].by>> \in Effected(c)'
    BY <1>7 DEF Effected
  <2>4. QED BY <2>1, <2>2, <2>3, ZenonT(60) DEF Effected
<1>9. \A k \in DOMAIN log : log'[k] = log[k] /\ k <= Len(log)
  BY <1>1
<1>10. QED BY <1>1, <1>3, <1>4, <1>5, <1>8, <1>9

-----------------------------------------------------------------------------
(* Steps that run a request *)

\* Whatever the request: the invariant holds after it when its reply is the one
\* owed and the transaction and the log are what the requests so far make them.
LEMMA RunStep ==
    ASSUME Sound, Running, NEW kind, Answer(kind),
           NEW n \in 0 .. Len(Program[fds[cur]]), n \in Nat, Session(cur, n),
           kind = Owed(Program[fds[cur]], n + 1),
           NEW client \in Client, clients' = [clients EXCEPT ![cur] = client],
           client.buf = clients[cur].buf,
           client.inMulti <=> Open(Program[fds[cur]], (n + 1) + 1),
           {client.queue[j] : j \in DOMAIN client.queue} = Body(Program[fds[cur]], (n + 1) + 1),
           \A j, k \in DOMAIN client.queue : j < k => client.queue[j] < client.queue[k],
           log' \in Seq(Entries),
           \A k \in DOMAIN log : log'[k] = log[k],
           \A o \in Conns : o # fds[cur] => Executed(o)' = Executed(o) /\ Effected(o)' = Effected(o),
           Effected(fds[cur])' = Effects(Program[fds[cur]], n + 1),
           Faithful(fds[cur]) => \A j, k \in Executed(fds[cur])' : j < k => log'[j].req < log'[k].req
    PROVE  Sound' /\ StaysFaithful
<1> DEFINE c == fds[cur]
<1>0. pc = "run" /\ pc' = "write" /\ UNCHANGED <<network, fds, batch, cur, part>>
  BY DEF Running
<1>1. /\ cur \in Fds /\ c # None /\ c \in Conns /\ status[c] = "open"
  BY <1>0, Current
<1>2. /\ clients'[cur] = client
      /\ \A fd \in Fds : fd # cur => clients'[fd] = clients[fd]
  BY <1>1 DEF Sound, Typed
<1>3. /\ n + 1 \in 1 .. Len(Program[c]) /\ reply.conn = c /\ reply.req = n + 1
      /\ Len(got[c] \o outbox[c]) \in 0 .. n /\ n + 1 <= Whole(c)
  BY <1>0, RequestAtHand
<1>4. Typed'
  BY <1>0, <1>1 DEF Sound, Typed, network
<1>5. Descriptors'
  BY <1>0, <1>1, <1>2 DEF Sound, Descriptors, network
<1>6. Room'
  BY <1>0 DEF Sound, Room, network
<1>7. Waiting'
  <2>1. \A o \in Conns : status[o] \in {"new", "queued"} => Executed(o)' = Executed(o)
    BY <1>1
  <2>2. QED BY <1>0, <2>1 DEF Sound, Waiting, network
<1>8. Session(cur, n)'
  <2>1. Progress(cur) = 3 /\ Progress(cur)' = 3 /\ Seen(cur, n)' = n + 1
    BY <1>0, <1>1 DEF Progress, Seen
  <2>2. Stream(cur, n)'
    BY <1>0, <1>2, <2>1 DEF Session, Stream, network
  <2>3. Answered(cur, n)'
    <3>1. reply' = [conn |-> c, req |-> n + 1, kind |-> Owed(Program[c], n + 1)]
      BY <1>3 DEF Answer
    <3>2. QED BY <1>0, <3>1 DEF Session, Answered, network
  <2>4. Transaction(cur, n)'
    BY <1>0, <1>2, <2>1 DEF Transaction, network
  <2>5. QED BY <1>0, <2>1, <2>2, <2>3, <2>4 DEF Session
<1>9. Sessions'
  <2>1. \A o \in Conns : o # c => Aloof(o) /\ Effected(o)' = Effected(o)
    BY <1>0 DEF Aloof, network
  <2>2. QED BY <1>0, <1>2, <1>8, <2>1, OnlyCurrent
<1>10. \A o \in Conns : Ordered(o)'
  BY <1>0, OrderedKept DEF Sound, network
<1>11. ASSUME NEW o \in Conns, Faithful(o) PROVE Faithful(o)'
  <2>1. Whole(o)' = Whole(o) /\ (got[o] \o outbox[o])' = got[o] \o outbox[o]
    BY <1>0 DEF Whole, network
  <2>2. CASE o # c
    <3>1. Faithful(o)
      BY <1>11
    <3>2. \A j \in Executed(o) : log'[j] = log[j]
      BY DEF Executed
    <3>3. \A j, k \in Executed(o)' : j < k => log'[j].req < log'[k].req
      BY <2>2, <3>1, <3>2 DEF Faithful
    <3>4. QED BY <2>1, <2>2, <3>1, <3>3 DEF Faithful
  <2>3. CASE o = c
    <3>1. n + 1 \in Len(got[c] \o outbox[c]) .. Whole(c)
      <4>1. Whole(c) \in Int
        BY <1>1 DEF Sound, Typed, Whole
      <4> DEFINE low == Len(got[c] \o outbox[c])
      <4>2. low \in 0 .. n
        BY <1>3
      <4> HIDE DEF low
      <4>3. n + 1 \in low .. Whole(c)
        BY <1>3, <4>1, <4>2
      <4>4. QED BY <4>3 DEF low
    <3>2. n + 1 \in (Len(got[c] \o outbox[c]) .. Whole(c))'
      BY <1>0, <2>1, <2>3, <3>1
    <3>3. QED BY <1>0, <1>11, <2>3, <3>2 DEF Faithful
  <2>4. QED BY <2>2, <2>3
<1>12. QED BY <1>4, <1>5, <1>6, <1>7, <1>9, <1>10, <1>11 DEF Sound, StaysFaithful

\* A request that executes nothing.
LEMMA RunQuietly ==
    ASSUME Sound, Running, NEW kind, Answer(kind),
           NEW n \in 0 .. Len(Program[fds[cur]]), n \in Nat, Session(cur, n),
           kind = Owed(Program[fds[cur]], n + 1),
           NEW client \in Client, clients' = [clients EXCEPT ![cur] = client],
           client.buf = clients[cur].buf,
           client.inMulti <=> Open(Program[fds[cur]], (n + 1) + 1),
           {client.queue[j] : j \in DOMAIN client.queue} = Body(Program[fds[cur]], (n + 1) + 1),
           \A j, k \in DOMAIN client.queue : j < k => client.queue[j] < client.queue[k],
           log' = log,
           ~(Request = "PLAIN" /\ ~Open(Program[fds[cur]], n + 1)),
           ~(Request = "EXEC" /\ Open(Program[fds[cur]], n + 1))
    PROVE  Sound' /\ StaysFaithful
<1> DEFINE c == fds[cur]
<1>0. pc = "run" /\ UNCHANGED <<fds, cur>>
  BY DEF Running
<1>1. Request = Program[c][n + 1] /\ c \in Conns /\ Seen(cur, n) = n
  BY <1>0, RequestAtHand, Current DEF Seen
<1>2. Effects(Program[c], n + 1) = Effects(Program[c], n)
  <2> DEFINE p == Program[c]
  <2>1. Effects(p, n + 1) = Effects(p, n) \cup
               (IF p[n + 1] = "PLAIN" /\ ~Open(p, n + 1) THEN {<<n + 1, n + 1>>}
                ELSE IF p[n + 1] = "EXEC" /\ Open(p, n + 1) THEN {<<i, n + 1>> : i \in Body(p, n + 1)}
                ELSE {})
    BY EffectsNext
  <2>2. QED BY <1>1, <2>1
<1>3. Effected(c)' = Effects(Program[c], n + 1)
  BY <1>0, <1>1, <1>2, EffectsKept DEF Session
<1>4. \A o \in Conns : Executed(o)' = Executed(o) /\ Effected(o)' = Effected(o)
  BY EffectsKept
<1>5. Faithful(c) => \A j, k \in Executed(c)' : j < k => log'[j].req < log'[k].req
  <2>1. Executed(c)' = Executed(c)
    BY <1>0, <1>1, <1>4
  <2>2. QED BY <1>0, <2>1 DEF Faithful
<1>6. log' \in Seq(Entries)
  BY DEF Sound, Typed
<1>7. QED BY <1>3, <1>4, <1>5, <1>6, RunStep

\* The request at hand is number n + 1 of its connection, and what it makes of
\* the transaction.
AtHand(n) ==
    LET p == Program[fds[cur]]
    IN /\ n \in 0 .. Len(p) /\ n \in Nat /\ Session(cur, n)
       /\ Request = p[n + 1] /\ reply.conn = fds[cur] /\ reply.req = n + 1
       /\ Me.inMulti <=> Open(p, n + 1)
       /\ {Me.queue[j] : j \in DOMAIN Me.queue} = Body(p, n + 1)
       /\ \A j, k \in DOMAIN Me.queue : j < k => Me.queue[j] < Me.queue[k]
       /\ Open(p, (n + 1) + 1) <=> \/ Request = "MULTI"
                                   \/ Me.inMulti /\ Request \notin {"EXEC", "DISCARD"}
       /\ Body(p, (n + 1) + 1) = IF Request \in {"EXEC", "DISCARD"} THEN {}
                                 ELSE IF Request = "PLAIN" /\ Me.inMulti THEN Body(p, n + 1) \cup {n + 1}
                                 ELSE Body(p, n + 1)
       /\ ~Me.inMulti => Body(p, n + 1) = {}
       /\ Effected(fds[cur]) = Effects(p, n)

LEMMA ClientAtHand ==
    ASSUME Sound, Running
    PROVE  /\ clients[cur] \in Client /\ clients \in [Fds -> Client \cup {None}] /\ cur \in Fds
           /\ clients[cur].queue \in Seq(Nat) /\ clients[cur].inMulti \in BOOLEAN
           /\ \E n \in Nat : AtHand(n)
<1>0. pc = "run"
  BY DEF Running
<1>1. PICK n \in 0 .. Len(Program[fds[cur]]) : n \in Nat /\ Session(cur, n)
  BY <1>0, Current
<1>2. Seen(cur, n) = n
  BY <1>0 DEF Seen
<1>3. Request = Program[fds[cur]][n + 1] /\ reply.conn = fds[cur] /\ reply.req = n + 1
  BY <1>0, <1>1, RequestAtHand
<1> DEFINE p == Program[fds[cur]]
<1>4. n + 1 \in Nat \ {0}
  BY <1>1
<1>5. /\ Me.inMulti <=> Open(p, n + 1)
      /\ {Me.queue[j] : j \in DOMAIN Me.queue} = Body(p, n + 1)
      /\ \A j, k \in DOMAIN Me.queue : j < k => Me.queue[j] < Me.queue[k]
      /\ Effected(fds[cur]) = Effects(p, n)
  BY <1>1, <1>2 DEF Session, Transaction, Me
<1>6. Open(p, (n + 1) + 1) <=> p[n + 1] = "MULTI" \/ (Open(p, n + 1) /\ p[n + 1] \notin {"EXEC", "DISCARD"})
  BY <1>4, OpenNext
<1>7. Body(p, (n + 1) + 1) = IF p[n + 1] \in {"EXEC", "DISCARD"} THEN {}
                             ELSE IF p[n + 1] = "PLAIN" /\ Open(p, n + 1) THEN Body(p, n + 1) \cup {n + 1}
                             ELSE Body(p, n + 1)
  BY <1>4, BodyNext
<1>8. ~Open(p, n + 1) => Body(p, n + 1) = {}
  BY <1>4, BodyIsOpen
<1>9. AtHand(n)
  BY <1>1, <1>3, <1>5, <1>6, <1>7, <1>8 DEF AtHand
<1>10. QED BY <1>0, <1>1, <1>9, Current DEF Sound, Typed

LEMMA UnchangedClient ==
    ASSUME clients \in [Fds -> Client \cup {None}], cur \in Fds, clients' = clients
    PROVE  clients' = [clients EXCEPT ![cur] = clients[cur]]
OBVIOUS

LEMMA MalformedStep ==
    ASSUME Sound, Malformed
    PROVE  Sound' /\ StaysFaithful
<1>0. Running /\ Request = "BAD" /\ Answer("error") /\ clients' = clients /\ log' = log
  BY DEF Malformed
<1>1. PICK n \in Nat : AtHand(n)
  BY <1>0, ClientAtHand
<1>2. clients[cur] \in Client /\ clients' = [clients EXCEPT ![cur] = clients[cur]]
  BY <1>0, ClientAtHand, UnchangedClient
<1> DEFINE p == Program[fds[cur]]
<1>3. (Open(p, (n + 1) + 1) <=> Open(p, n + 1)) /\ Body(p, (n + 1) + 1) = Body(p, n + 1)
  BY <1>0, <1>1 DEF AtHand
<1>4. "error" = Owed(p, n + 1)
  BY <1>0, <1>1 DEF Owed, AtHand
<1>5. QED BY <1>0, <1>1, <1>2, <1>3, <1>4, RunQuietly DEF Me, AtHand

LEMMA QuitStep ==
    ASSUME Sound, Quit
    PROVE  Sound' /\ StaysFaithful
<1>0. Running /\ Request = "QUIT" /\ Answer("bye") /\ clients' = clients /\ log' = log
  BY DEF Quit
<1>1. PICK n \in Nat : AtHand(n)
  BY <1>0, ClientAtHand
<1>2. clients[cur] \in Client /\ clients' = [clients EXCEPT ![cur] = clients[cur]]
  BY <1>0, ClientAtHand, UnchangedClient
<1> DEFINE p == Program[fds[cur]]
<1>3. (Open(p, (n + 1) + 1) <=> Open(p, n + 1)) /\ Body(p, (n + 1) + 1) = Body(p, n + 1)
  BY <1>0, <1>1 DEF AtHand
<1>4. "bye" = Owed(p, n + 1)
  BY <1>0, <1>1 DEF Owed, AtHand
<1>5. QED BY <1>0, <1>1, <1>2, <1>3, <1>4, RunQuietly DEF Me, AtHand

LEMMA MultiStep ==
    ASSUME Sound, Multi
    PROVE  Sound' /\ StaysFaithful
<1>0. Running /\ Request = "MULTI" /\ log' = log
  BY DEF Multi
<1>1. PICK n \in Nat : AtHand(n)
  BY <1>0, ClientAtHand
<1> DEFINE p == Program[fds[cur]]
<1>2. Open(p, (n + 1) + 1) /\ Body(p, (n + 1) + 1) = Body(p, n + 1)
  BY <1>0, <1>1 DEF AtHand
<1>3. CASE Me.inMulti
  <2>1. Answer("error") /\ clients' = clients
    BY <1>3 DEF Multi
  <2>2. clients[cur] \in Client /\ clients' = [clients EXCEPT ![cur] = clients[cur]]
    BY <1>0, <2>1, ClientAtHand, UnchangedClient
  <2>3. "error" = Owed(p, n + 1)
    BY <1>0, <1>1, <1>3 DEF Owed, AtHand
  <2>4. QED BY <1>0, <1>1, <1>2, <1>3, <2>1, <2>2, <2>3, RunQuietly DEF Me, AtHand
<1>4. CASE ~Me.inMulti
  <2> DEFINE client == [clients[cur] EXCEPT !.inMulti = TRUE, !.queue = << >>]
  <2>1. Answer("ok") /\ clients' = [clients EXCEPT ![cur] = client]
    BY <1>4 DEF Multi
  <2>2. << >> \in Seq(Nat) /\ DOMAIN << >> = {}
    BY EmptySeq
  <2>3. /\ client \in Client /\ client.buf = clients[cur].buf
        /\ client.inMulti /\ client.queue = << >>
    BY <1>0, <2>2, ClientAtHand DEF Client
  <2>4. "ok" = Owed(p, n + 1)
    BY <1>0, <1>1, <1>4 DEF Owed, AtHand
  <2>5. Body(p, n + 1) = {}
    BY <1>1, <1>4 DEF AtHand
  <2>6. /\ {client.queue[j] : j \in DOMAIN client.queue} = Body(p, (n + 1) + 1)
        /\ \A j, k \in DOMAIN client.queue : j < k => client.queue[j] < client.queue[k]
    BY <1>2, <2>2, <2>3, <2>5
  <2> HIDE DEF client
  <2>7. QED BY <1>0, <1>1, <1>2, <2>1, <2>3, <2>4, <2>6, RunQuietly DEF AtHand
<1>5. QED BY <1>3, <1>4

LEMMA DiscardStep ==
    ASSUME Sound, Discard
    PROVE  Sound' /\ StaysFaithful
<1>0. Running /\ Request = "DISCARD" /\ log' = log
  BY DEF Discard
<1>1. PICK n \in Nat : AtHand(n)
  BY <1>0, ClientAtHand
<1> DEFINE p == Program[fds[cur]]
<1>2. ~Open(p, (n + 1) + 1) /\ Body(p, (n + 1) + 1) = {}
  BY <1>0, <1>1 DEF AtHand
<1>3. CASE ~Me.inMulti
  <2>1. Answer("error") /\ clients' = clients
    BY <1>3 DEF Discard
  <2>2. clients[cur] \in Client /\ clients' = [clients EXCEPT ![cur] = clients[cur]]
    BY <1>0, <2>1, ClientAtHand, UnchangedClient
  <2>3. "error" = Owed(p, n + 1)
    BY <1>0, <1>1, <1>3 DEF Owed, AtHand
  <2>4. Body(p, n + 1) = {}
    BY <1>1, <1>3 DEF AtHand
  <2>5. QED BY <1>0, <1>1, <1>2, <1>3, <2>1, <2>2, <2>3, <2>4, RunQuietly DEF Me, AtHand
<1>4. CASE Me.inMulti
  <2> DEFINE client == [clients[cur] EXCEPT !.inMulti = FALSE, !.queue = << >>]
  <2>1. Answer("ok") /\ clients' = [clients EXCEPT ![cur] = client]
    BY <1>4 DEF Discard
  <2>2. << >> \in Seq(Nat) /\ DOMAIN << >> = {}
    BY EmptySeq
  <2>3. /\ client \in Client /\ client.buf = clients[cur].buf
        /\ ~client.inMulti /\ client.queue = << >>
    BY <1>0, <2>2, ClientAtHand DEF Client
  <2>4. "ok" = Owed(p, n + 1)
    BY <1>0, <1>1, <1>4 DEF Owed, AtHand
  <2>5. /\ {client.queue[j] : j \in DOMAIN client.queue} = Body(p, (n + 1) + 1)
        /\ \A j, k \in DOMAIN client.queue : j < k => client.queue[j] < client.queue[k]
    BY <1>2, <2>2, <2>3
  <2> HIDE DEF client
  <2>6. QED BY <1>0, <1>1, <1>2, <2>1, <2>3, <2>4, <2>5, RunQuietly DEF AtHand
<1>5. QED BY <1>3, <1>4

LEMMA EnqueueStep ==
    ASSUME Sound, Enqueue
    PROVE  Sound' /\ StaysFaithful
<1>0. /\ Running /\ Request = "PLAIN" /\ Me.inMulti /\ Answer("queued") /\ log' = log
      /\ clients' = [clients EXCEPT ![cur].queue = Append(@, reply.req)]
  BY DEF Enqueue
<1>1. PICK n \in Nat : AtHand(n)
  BY <1>0, ClientAtHand
<1> DEFINE p == Program[fds[cur]]
           client == [clients[cur] EXCEPT !.queue = Append(@, n + 1)]
           queue == clients[cur].queue
<1>2. Open(p, (n + 1) + 1) /\ Body(p, (n + 1) + 1) = Body(p, n + 1) \cup {n + 1}
  BY <1>0, <1>1 DEF AtHand
<1>3. clients' = [clients EXCEPT ![cur] = client]
  BY <1>0, <1>1 DEF AtHand
<1>4. queue \in Seq(Nat) /\ clients[cur] \in Client /\ queue = Me.queue
  BY <1>0, ClientAtHand DEF Me
<1>5. /\ Append(queue, n + 1) \in Seq(Nat) /\ Len(Append(queue, n + 1)) = Len(queue) + 1
      /\ \A j \in 1 .. Len(queue) : Append(queue, n + 1)[j] = queue[j]
      /\ Append(queue, n + 1)[Len(queue) + 1] = n + 1
      /\ Len(queue) \in Nat
  BY <1>1, <1>4, AppendProperties, LenProperties
<1>6. client \in Client /\ client.buf = clients[cur].buf /\ client.inMulti = Me.inMulti /\ client.queue = Append(queue, n + 1)
  BY <1>4, <1>5 DEF Client, Me
<1>7. {client.queue[j] : j \in DOMAIN client.queue} = Body(p, (n + 1) + 1)
  <2>1. DOMAIN client.queue = 1 .. Len(queue) + 1 /\ DOMAIN queue = 1 .. Len(queue)
    BY <1>4, <1>5, <1>6, LenProperties
  <2>2. {client.queue[j] : j \in 1 .. Len(queue) + 1} = {queue[j] : j \in 1 .. Len(queue)} \cup {n + 1}
    <3> DEFINE length == Len(queue)  longer == Append(queue, n + 1)
    <3>1. /\ length \in Nat /\ longer[length + 1] = n + 1
          /\ \A j \in 1 .. length : longer[j] = queue[j]
      BY <1>5
    <3> HIDE DEF length, longer, queue
    <3>2. \A j \in 1 .. length + 1 : j \in 1 .. length \/ j = length + 1
      BY <3>1
    <3>3. {longer[j] : j \in 1 .. length + 1} = {queue[j] : j \in 1 .. length} \cup {n + 1}
      BY <3>1, <3>2
    <3>4. QED BY <1>6, <3>3 DEF length, longer, queue
  <2>3. QED BY <1>1, <1>2, <1>4, <2>1, <2>2, ZenonT(60) DEF AtHand
<1>8. \A j, k \in DOMAIN client.queue : j < k => client.queue[j] < client.queue[k]
  <2>1. \A j \in 1 .. Len(queue) : queue[j] < n + 1
    <3>1. \A i \in Body(p, n + 1) : i \in 1 .. n
      BY <1>1 DEF Body
    <3>2. ASSUME NEW j \in 1 .. Len(queue) PROVE queue[j] < n + 1
      <4>1. j \in DOMAIN queue
        BY <1>4, LenProperties
      <4>2. queue[j] \in Body(p, n + 1)
        BY <1>1, <1>4, <4>1 DEF AtHand
      <4>3. queue[j] \in 1 .. n
        BY <3>1, <4>2
      <4>4. QED BY <4>3
    <3>3. QED BY <3>2
  <2>2. DOMAIN client.queue = 1 .. Len(queue) + 1 /\ DOMAIN queue = 1 .. Len(queue)
    BY <1>4, <1>5, <1>6, LenProperties
  <2>3. SUFFICES ASSUME NEW j \in 1 .. Len(queue) + 1, NEW k \in 1 .. Len(queue) + 1, j < k
                 PROVE  client.queue[j] < client.queue[k]
    BY <2>2
  <2>4. j \in 1 .. Len(queue) /\ client.queue[j] = queue[j]
    BY <1>4, <1>5, <1>6, <2>3
  <2>5. CASE k = Len(queue) + 1
    BY <1>5, <1>6, <2>1, <2>4, <2>5
  <2>6. CASE k # Len(queue) + 1
    <3>1. k \in 1 .. Len(queue) /\ client.queue[k] = queue[k]
      BY <1>4, <1>5, <1>6, <2>3, <2>6
    <3>2. QED BY <1>1, <1>4, <2>2, <2>3, <2>4, <3>1 DEF AtHand
  <2>7. QED BY <2>5, <2>6
<1>9. "queued" = Owed(p, n + 1)
  BY <1>0, <1>1 DEF Owed, AtHand
<1> HIDE DEF client
<1>10. QED BY <1>0, <1>1, <1>2, <1>3, <1>6, <1>7, <1>8, <1>9, RunQuietly DEF AtHand

\* A request that executes the commands s: its own or those queued.
LEMMA RunLogging ==
    ASSUME Sound, Running, NEW kind, Answer(kind), NEW n \in Nat, AtHand(n),
           kind = Owed(Program[fds[cur]], n + 1),
           NEW client \in Client, clients' = [clients EXCEPT ![cur] = client],
           client.buf = clients[cur].buf,
           client.inMulti <=> Open(Program[fds[cur]], (n + 1) + 1),
           {client.queue[j] : j \in DOMAIN client.queue} = Body(Program[fds[cur]], (n + 1) + 1),
           \A j, k \in DOMAIN client.queue : j < k => client.queue[j] < client.queue[k],
           NEW s \in Seq(Entries), log' = log \o s,
           \A j \in DOMAIN s : s[j].conn = fds[cur],
           Effects(Program[fds[cur]], n + 1) =
               Effects(Program[fds[cur]], n) \cup {<<s[j].req, s[j].by>> : j \in DOMAIN s},
           \A j, k \in DOMAIN s : j < k => s[j].req < s[k].req,
           \A i, e : <<i, e>> \in Effects(Program[fds[cur]], n) => \A j \in DOMAIN s : i < s[j].req
    PROVE  Sound' /\ StaysFaithful
<1> DEFINE c == fds[cur]
<1>0. c \in Conns /\ UNCHANGED <<fds, cur>> /\ Typed
  BY Current DEF Sound, Running
<1>1. /\ log' \in Seq(Entries)
      /\ \A o \in Conns : o # c => Executed(o)' = Executed(o) /\ Effected(o)' = Effected(o)
      /\ Effected(c)' = Effected(c) \cup {<<s[j].req, s[j].by>> : j \in DOMAIN s}
      /\ \A k \in Executed(c)' : \/ k \in Executed(c) /\ log'[k] = log[k]
                                 \/ k - Len(log) \in DOMAIN s /\ k > Len(log) /\ log'[k] = s[k - Len(log)]
      /\ \A k \in DOMAIN log : log'[k] = log[k] /\ k <= Len(log)
  BY <1>0, Logged
<1>2. Effected(c)' = Effects(Program[c], n + 1)
  BY <1>0, <1>1 DEF AtHand
<1>3. \A k \in Executed(c) : k <= Len(log) /\ \A j \in DOMAIN s : log[k].req < s[j].req
  <2>1. SUFFICES ASSUME NEW k \in Executed(c)
                 PROVE  k <= Len(log) /\ \A j \in DOMAIN s : log[k].req < s[j].req
    OBVIOUS
  <2>2. <<log[k].req, log[k].by>> \in Effects(Program[c], n)
    BY DEF AtHand, Effected
  <2>3. QED BY <1>1, <2>2 DEF Executed
<1>4. ASSUME Faithful(c), NEW j \in Executed(c)', NEW k \in Executed(c)', j < k
      PROVE  log'[j].req < log'[k].req
  <2>0. /\ Len(log) \in Nat /\ j \in Nat /\ k \in Nat
        /\ \A a, b \in Executed(c) : a < b => log[a].req < log[b].req
    <3>1. Faithful(c)
      BY <1>4
    <3>2. log \in Seq(Entries) /\ log' \in Seq(Entries)
      BY <1>0, <1>1 DEF Typed
    <3>3. j \in DOMAIN log' /\ k \in DOMAIN log'
      BY <1>4 DEF Executed
    <3>4. QED BY <3>1, <3>2, <3>3, LenProperties DEF Faithful
  <2>1. CASE j \in Executed(c) /\ log'[j] = log[j]
    <3>1. CASE k \in Executed(c) /\ log'[k] = log[k]
      BY <1>4, <2>0, <2>1, <3>1
    <3>2. CASE k - Len(log) \in DOMAIN s /\ log'[k] = s[k - Len(log)]
      BY <1>3, <2>1, <3>2
    <3>3. QED BY <1>1, <3>1, <3>2
  <2>2. CASE j - Len(log) \in DOMAIN s /\ j > Len(log) /\ log'[j] = s[j - Len(log)]
    <3>1. k \notin Executed(c)
      BY <1>3, <1>4, <2>0, <2>2
    <3>2. k - Len(log) \in DOMAIN s /\ log'[k] = s[k - Len(log)]
      BY <1>1, <3>1
    <3>3. j - Len(log) < k - Len(log)
      BY <1>4, <2>0
    <3>4. QED BY <2>2, <3>2, <3>3
  <2>3. QED BY <1>1, <2>1, <2>2
<1>5. Faithful(fds[cur]) => \A j, k \in Executed(fds[cur])' : j < k => log'[j].req < log'[k].req
  BY <1>0, <1>4
<1>6. Effected(fds[cur])' = Effects(Program[fds[cur]], n + 1)
  BY <1>0, <1>2
<1>7. QED BY <1>1, <1>5, <1>6, RunStep DEF AtHand

LEMMA ExecuteStep ==
    ASSUME Sound, Execute
    PROVE  Sound' /\ StaysFaithful
<1>0. /\ Running /\ Request = "PLAIN" /\ ~Me.inMulti /\ Answer("result")
      /\ log' = Append(log, Execution(reply.req)) /\ clients' = clients
  BY DEF Execute
<1>1. PICK n \in Nat : AtHand(n)
  BY <1>0, ClientAtHand
<1>2. clients[cur] \in Client /\ clients' = [clients EXCEPT ![cur] = clients[cur]]
  BY <1>0, ClientAtHand, UnchangedClient
<1> DEFINE p == Program[fds[cur]]
           e == [conn |-> fds[cur], req |-> n + 1, by |-> n + 1]
<1>3. e \in Entries /\ <<e>> \in Seq(Entries) /\ log \in Seq(Entries) /\ e = Execution(reply.req)
  <2>1. fds[cur] \in Conns /\ log \in Seq(Entries)
    BY <1>0, Current DEF Running, Sound, Typed
  <2>2. e \in Entries
    BY <2>1 DEF Entries
  <2>3. e = Execution(reply.req)
    BY <1>1 DEF Execution, AtHand
  <2>4. QED BY <2>1, <2>2, <2>3
<1>4. log' = log \o <<e>>
  BY <1>0, <1>3, AppendIsConcat
<1>5. DOMAIN <<e>> = {1} /\ <<e>>[1] = e
  OBVIOUS
<1>6. Effects(p, n + 1) = Effects(p, n) \cup {<<n + 1, n + 1>>}
  <2>1. p[n + 1] = "PLAIN" /\ ~Open(p, n + 1)
    BY <1>0, <1>1 DEF AtHand
  <2>2. QED BY <1>1, <2>1, EffectsNext
<1>7. {<< <<e>>[j].req, <<e>>[j].by >> : j \in DOMAIN <<e>>} = {<<n + 1, n + 1>>}
  BY <1>5
<1>8. \A i, by : <<i, by>> \in Effects(p, n) => i < n + 1
  BY <1>1, BodyAfterEffects
<1>9. "result" = Owed(p, n + 1)
  BY <1>0, <1>1 DEF Owed, AtHand
<1> DEFINE s == <<e>>
<1>10. /\ \A j \in DOMAIN s : s[j].conn = fds[cur] /\ s[j].req = n + 1
       /\ \A j, k \in DOMAIN s : ~(j < k)
       /\ Effects(p, n + 1) = Effects(p, n) \cup {<<s[j].req, s[j].by>> : j \in DOMAIN s}
  BY <1>5, <1>6, <1>7
<1> DEFINE client == clients[cur]
<1>11. /\ client.inMulti <=> Open(p, (n + 1) + 1)
       /\ {client.queue[j] : j \in DOMAIN client.queue} = Body(p, (n + 1) + 1)
       /\ \A j, k \in DOMAIN client.queue : j < k => client.queue[j] < client.queue[k]
  BY <1>0, <1>1 DEF AtHand, Me
<1>12. \A i, by : <<i, by>> \in Effects(p, n) => \A j \in DOMAIN s : i < s[j].req
  BY <1>8, <1>10
<1>13. s \in Seq(Entries) /\ log' = log \o s /\ client \in Client /\ client.buf = clients[cur].buf
       /\ clients' = [clients EXCEPT ![cur] = client]
  BY <1>2, <1>3, <1>4
<1>14. /\ \A j, k \in DOMAIN s : j < k => s[j].req < s[k].req
       /\ \A j \in DOMAIN s : s[j].conn = fds[cur]
       /\ Effects(p, n + 1) = Effects(p, n) \cup {<<s[j].req, s[j].by>> : j \in DOMAIN s}
  BY <1>10
<1>15. Running /\ Answer("result")
  BY <1>0
<1> HIDE DEF e, s, client
<1>16. QED BY <1>1, <1>9, <1>11, <1>12, <1>13, <1>14, <1>15, RunLogging

LEMMA ExecStep ==
    ASSUME Sound, Exec
    PROVE  Sound' /\ StaysFaithful
<1>0. Running /\ Request = "EXEC"
  BY DEF Exec
<1>1. PICK n \in Nat : AtHand(n)
  BY <1>0, ClientAtHand
<1> DEFINE p == Program[fds[cur]]
<1>2. ~Open(p, (n + 1) + 1) /\ Body(p, (n + 1) + 1) = {}
  BY <1>0, <1>1 DEF AtHand
<1>3. CASE ~Me.inMulti
  <2>1. Answer("error") /\ clients' = clients /\ log' = log
    BY <1>3 DEF Exec
  <2>2. clients[cur] \in Client /\ clients' = [clients EXCEPT ![cur] = clients[cur]]
    BY <1>0, <2>1, ClientAtHand, UnchangedClient
  <2>3. "error" = Owed(p, n + 1)
    BY <1>0, <1>1, <1>3 DEF Owed, AtHand
  <2>4. Body(p, n + 1) = {}
    BY <1>1, <1>3 DEF AtHand
  <2>5. QED BY <1>0, <1>1, <1>2, <1>3, <2>1, <2>2, <2>3, <2>4, RunQuietly DEF Me, AtHand
<1>4. CASE Me.inMulti
  <2> DEFINE client == [clients[cur] EXCEPT !.inMulti = FALSE, !.queue = << >>]
             queue  == clients[cur].queue
             s == [j \in DOMAIN queue |-> [conn |-> fds[cur], req |-> queue[j], by |-> n + 1]]
  <2>1. /\ Answer("results") /\ clients' = [clients EXCEPT ![cur] = client]
        /\ log' = log \o [j \in DOMAIN Me.queue |-> Execution(Me.queue[j])]
    BY <1>4 DEF Exec
  <2>2. << >> \in Seq(Nat) /\ DOMAIN << >> = {}
    BY EmptySeq
  <2>3. /\ client \in Client /\ client.buf = clients[cur].buf
        /\ ~client.inMulti /\ client.queue = << >>
    BY <1>0, <2>2, ClientAtHand DEF Client
  <2>4. "results" = Owed(p, n + 1)
    BY <1>0, <1>1, <1>4 DEF Owed, AtHand
  <2>5. /\ {client.queue[j] : j \in DOMAIN client.queue} = Body(p, (n + 1) + 1)
        /\ \A j, k \in DOMAIN client.queue : j < k => client.queue[j] < client.queue[k]
    BY <1>2, <2>2, <2>3
  <2>6. log' = log \o s
    BY <1>1, <2>1 DEF Execution, Me, AtHand
  <2>7. s \in Seq(Entries) /\ DOMAIN s = DOMAIN queue
    <3>1. queue \in Seq(Nat) /\ fds[cur] \in Conns /\ DOMAIN queue = 1 .. Len(queue) /\ Len(queue) \in Nat
      BY <1>0, ClientAtHand, Current, LenProperties DEF Running
    <3>2. \A j \in DOMAIN queue : [conn |-> fds[cur], req |-> queue[j], by |-> n + 1] \in Entries
      BY <3>1 DEF Entries
    <3>3. s \in [1 .. Len(queue) -> Entries]
      BY <3>1, <3>2
    <3>4. QED BY <3>1, <3>3, SeqDef
  <2>8. /\ \A j \in DOMAIN s : s[j].conn = fds[cur] /\ s[j].req = queue[j] /\ s[j].by = n + 1
        /\ {queue[j] : j \in DOMAIN queue} = Body(p, n + 1)
        /\ \A j, k \in DOMAIN queue : j < k => queue[j] < queue[k]
    BY <1>1 DEF AtHand, Me
  <2>9. \A j, k \in DOMAIN s : j < k => s[j].req < s[k].req
    BY <2>7, <2>8
  <2>10. {<<s[j].req, s[j].by>> : j \in DOMAIN s} = {<<i, n + 1>> : i \in Body(p, n + 1)}
    <3> HIDE DEF s, queue
    <3>1. QED BY <2>7, <2>8
  <2>11. Effects(p, n + 1) = Effects(p, n) \cup {<<i, n + 1>> : i \in Body(p, n + 1)}
    <3>1. p[n + 1] = "EXEC" /\ Open(p, n + 1)
      BY <1>0, <1>1, <1>4 DEF AtHand
    <3>2. QED BY <1>1, <3>1, EffectsNext
  <2>12. \A i, e : <<i, e>> \in Effects(p, n) => \A j \in DOMAIN s : i < s[j].req
    <3>1. \A i, e : <<i, e>> \in Effects(p, n) => \A k \in Body(p, n + 1) : i < k
      BY <1>1, BodyAfterEffects
    <3>2. \A j \in DOMAIN s : s[j].req \in Body(p, n + 1)
      BY <2>7, <2>8
    <3>3. QED BY <3>1, <3>2
  <2> HIDE DEF client, s, queue
  <2>13. QED BY <1>0, <1>1, <1>2, <2>1, <2>3, <2>4, <2>5, <2>6, <2>7, <2>8, <2>9, <2>10, <2>11, <2>12, RunLogging
<1>5. QED BY <1>3, <1>4

-----------------------------------------------------------------------------
(* Replies *)

\* What is known when a reply is written.
LEMMA ReplyAtHand ==
    ASSUME Sound, pc = "write"
    PROVE  LET c == fds[cur]  p == Program[c]
           IN /\ cur \in Fds /\ c \in Conns /\ c # None
              /\ \E n \in Nat : /\ n + 1 \in 0 .. Len(p) /\ Session(cur, n)
                                /\ Len(got[c] \o outbox[c]) \in 0 .. n /\ n + 1 <= Whole(c)
                                /\ reply = [conn |-> c, req |-> n + 1, kind |-> Owed(p, n + 1)]
                                /\ reply \in Replies
                                /\ Effected(c) = Effects(p, n + 1)
<1> DEFINE c == fds[cur]  p == Program[c]
<1>1. PICK n \in 0 .. Len(p) : n \in Nat /\ Session(cur, n)
  BY Current
<1>2. cur \in Fds /\ c \in Conns /\ c # None /\ p \in Seq(Requests)
  BY Current, ProgramAssumption
<1>3. n + 1 \in 1 .. Len(p) /\ Len(got[c] \o outbox[c]) \in 0 .. n /\ n + 1 <= Whole(c)
  BY <1>1, RequestRead
<1>4. reply = [conn |-> c, req |-> n + 1, kind |-> Owed(p, n + 1)]
  BY <1>1 DEF Session, Answered
<1>5. Owed(p, n + 1) \in Kinds
  <2>1. p[n + 1] \in Requests
    BY <1>2, <1>3, ElementOfSeq
  <2>2. QED BY <2>1 DEF Owed, Kinds, Requests
<1>6. reply \in Replies
  BY <1>1, <1>2, <1>4, <1>5 DEF Replies
<1>7. Effected(c) = Effects(p, n + 1)
  BY <1>1 DEF Session, Seen
<1>8. n + 1 \in 0 .. Len(p)
  BY <1>3
<1>9. QED BY <1>1, <1>2, <1>3, <1>4, <1>6, <1>7, <1>8

\* The parser and the transaction are ready for the next request.
LEMMA RequestDone ==
    ASSUME Sound, pc = "write", pc' = "batch", UNCHANGED <<sent, inbox, fds, clients, cur, log>>,
           NEW n \in Nat, Session(cur, n), Answered(cur, n + 1)'
    PROVE  Session(cur, n + 1)'
<1>1. /\ Progress(cur) = 3 /\ Progress(cur)' = 0 /\ Seen(cur, n) = n + 1 /\ Seen(cur, n + 1)' = n + 1
      /\ 3 * (n + 1) + 0 = 3 * n + 3
  BY DEF Progress, Seen
<1>2. Stream(cur, n + 1)'
  BY <1>1 DEF Session, Stream
<1>3. Transaction(cur, n + 1)'
  BY <1>1 DEF Session, Transaction
<1>4. Effected(fds[cur])' = Effected(fds[cur])
  BY EffectsKept
<1>5. QED BY <1>1, <1>2, <1>3, <1>4 DEF Session

LEMMA WriteToNobodyStep ==
    ASSUME Sound, WriteToNobody
    PROVE  Sound' /\ StaysFaithful
<1>0. pc = "write" /\ eof[fds[cur]] /\ UNCHANGED <<batch, cur, part, reply, log>>
  BY DEF WriteToNobody
<1>1. CASE Remove
  BY <1>0, <1>1, RemoveStep
<1>2. CASE pc' = "batch" /\ UNCHANGED <<network, fds, clients>>
  <2>1. Typed' /\ Descriptors'
    BY <1>0, <1>2 DEF Sound, Typed, Descriptors, network
  <2>2. PICK n \in Nat : n + 1 \in 0 .. Len(Program[fds[cur]]) /\ Session(cur, n)
    BY <1>0, ReplyAtHand
  <2>3. Answered(cur, n + 1)'
    <3> DEFINE read == Len(got[fds[cur]])  left == Len(outbox[fds[cur]])
    <3>1. read \in Nat /\ left \in Nat /\ read + left <= n /\ read' = read /\ left' = left
      BY <1>0, <1>2, <2>2, Current, LenProperties DEF Session, Answered, network, Sound, Typed
    <3>2. read' + left' <= n + 1
      <4> HIDE DEF read, left
      <4>1. QED BY <3>1
    <3>3. QED BY <1>0, <1>2, <3>2 DEF Answered, network
  <2>4. Session(cur, n + 1)'
    BY <1>0, <1>2, <2>2, <2>3, RequestDone DEF network
  <2>5. Sessions'
    <3>1. \A o \in Conns : Aloof(o) /\ Effected(o)' = Effected(o)
      BY <1>0, <1>2, EffectsKept DEF Aloof, network
    <3>2. QED BY <1>0, <1>2, <2>2, <2>4, <3>1, OnlyCurrent
  <2>6. QED BY <1>0, <1>2, <2>1, <2>5, NothingRead DEF Sound, StaysFaithful
<1>3. QED BY <1>1, <1>2 DEF WriteToNobody

LEMMA WriteStep ==
    ASSUME Sound, Write
    PROVE  Sound' /\ StaysFaithful
<1>1. PICK c \in Conns : /\ c = fds[cur] /\ cur \in Fds /\ c # None /\ status[c] = "open" /\ cur \notin batch
                         /\ \A fd \in Fds : fds[fd] = c => fd = cur
  BY Current DEF Write, Sound, Descriptors
<1> DEFINE p == Program[c]
<1>0. /\ pc = "write" /\ pc' = "batch" /\ ~eof[c] /\ Len(outbox[c]) < SendRoom
      /\ outbox' = [outbox EXCEPT ![c] = Append(@, reply)]
      /\ UNCHANGED <<sent, eof, got, batch, cur, part, reply, log>>
      /\ \/ /\ status' = [status EXCEPT ![c] = "gone"] /\ inbox' = [inbox EXCEPT ![c] = << >>]
            /\ fds' = [fds EXCEPT ![cur] = None] /\ clients' = [clients EXCEPT ![cur] = None]
         \/ UNCHANGED <<status, inbox, fds, clients>>
  BY <1>1 DEF Write
<1>2. PICK n \in Nat : /\ n + 1 \in 0 .. Len(p) /\ Session(cur, n)
                       /\ Len(got[c] \o outbox[c]) \in 0 .. n /\ n + 1 <= Whole(c)
                       /\ reply = [conn |-> c, req |-> n + 1, kind |-> Owed(p, n + 1)]
                       /\ reply \in Replies
                       /\ Effected(c) = Effects(p, n + 1)
  BY <1>0, <1>1, ReplyAtHand
<1>3. got[c] \in Seq(Replies) /\ outbox[c] \in Seq(Replies) /\ Len(outbox[c]) \in Nat /\ Len(got[c]) \in Nat
  BY <1>1 DEF Sound, Typed
<1>4. /\ outbox'[c] = Append(outbox[c], reply)
      /\ \A o \in Conns : o # c => outbox'[o] = outbox[o]
  BY <1>0, <1>1 DEF Sound, Typed
<1>5. /\ Append(outbox[c], reply) \in Seq(Replies)
      /\ Len(Append(outbox[c], reply)) = Len(outbox[c]) + 1
  BY <1>2, <1>3, AppendProperties
<1> DEFINE replies == got[c] \o outbox[c]
<1>6. /\ replies \in Seq(Replies) /\ Len(replies) = n /\ Len(got[c]) + Len(outbox[c]) = n
      /\ replies' = Append(replies, reply)
  <2>1. Len(replies) = Len(got[c]) + Len(outbox[c]) /\ replies \in Seq(Replies)
    BY <1>3, ConcatProperties
  <2>2. Len(got[c]) + Len(outbox[c]) = n
    BY <1>0, <1>1, <1>2 DEF Session, Answered
  <2>3. replies' = got[c] \o Append(outbox[c], reply)
    BY <1>0, <1>4
  <2>4. got[c] \o Append(outbox[c], reply) = Append(got[c] \o outbox[c], reply)
    <3>1. reply \in Replies
      BY <1>2
    <3>2. \A s, q \in Seq(Replies), e \in Replies : s \o Append(q, e) = Append(s \o q, e)
      BY AppendToConcat
    <3>3. QED BY <1>3, <3>1, <3>2, Zenon
  <2>5. QED BY <2>1, <2>2, <2>3, <2>4
<1>7. /\ \A i \in 1 .. n : replies'[i] = replies[i]
      /\ replies'[n + 1] = reply /\ Len(replies') = n + 1 /\ DOMAIN replies' = 1 .. n + 1
  <2> HIDE DEF replies
  <2>1. /\ Append(replies, reply) \in Seq(Replies) /\ Len(Append(replies, reply)) = Len(replies) + 1
        /\ \A i \in 1 .. Len(replies) : Append(replies, reply)[i] = replies[i]
        /\ Append(replies, reply)[Len(replies) + 1] = reply
    BY <1>2, <1>6, AppendProperties
  <2>2. QED BY <1>6, <2>1, LenProperties
<1>8. Ordered(c)'
  <2>1. \A i \in 1 .. n : replies[i] = [conn |-> c, req |-> i, kind |-> Owed(p, i)]
    <3>1. Ordered(c) /\ DOMAIN replies = 1 .. n
      BY <1>6, LenProperties DEF Sound
    <3>2. QED BY <3>1 DEF Ordered
  <2>2. \A i \in 1 .. n + 1 : i \in 1 .. n \/ i = n + 1
    OBVIOUS
  <2>3. \A i \in 1 .. n + 1 : replies'[i] = [conn |-> c, req |-> i, kind |-> Owed(p, i)]
    BY <1>2, <1>7, <2>1, <2>2
  <2>4. QED BY <1>7, <2>3 DEF Ordered
<1>9. Faithful(c) => Faithful(c)'
  <2>1. Executed(c)' = Executed(c) /\ Effected(c)' = Effected(c) /\ Whole(c)' = Whole(c) /\ log' = log
    BY <1>0, EffectsKept DEF Whole
  <2>2. Whole(c) \in Int
    BY <1>1 DEF Sound, Typed, Whole
  <2>3. n + 1 \in (Len(got[c] \o outbox[c]) .. Whole(c))'
    <3> HIDE DEF replies
    <3>1. n + 1 \in Len(replies') .. Whole(c)
      BY <1>2, <1>7, <2>2
    <3>2. QED BY <2>1, <3>1 DEF replies
  <2>4. Faithful(c) => \A j, k \in Executed(c)' : j < k => log'[j].req < log'[k].req
    BY <2>1 DEF Faithful
  <2>5. Effected(c)' = Effects(p, n + 1)
    BY <1>2, <2>1
  <2>6. QED BY <2>3, <2>4, <2>5 DEF Faithful
<1>10. \A o \in Conns : Ordered(o)' /\ (Faithful(o) => Faithful(o)')
  <2>1. SUFFICES ASSUME NEW o \in Conns, o # c PROVE Ordered(o)' /\ (Faithful(o) => Faithful(o)')
    BY <1>8, <1>9
  <2>2. (got[o] \o outbox[o])' = got[o] \o outbox[o] /\ sent'[o] = sent[o] /\ log' = log
    BY <1>0, <1>4, <2>1
  <2>3. QED BY <2>1, <2>2, OrderedKept, FaithfulKept DEF Sound
<1>11. Room'
  <2>1. Len(outbox'[c]) <= SendRoom
    <3> DEFINE left == Len(outbox[c])
    <3>1. left \in Nat /\ left < SendRoom /\ left' = left + 1
      BY <1>0, <1>3, <1>4, <1>5
    <3>2. left' <= SendRoom
      <4> HIDE DEF left
      <4>1. QED BY <3>1, RoomAssumption
    <3>3. QED BY <3>2
  <2>2. QED BY <1>0, <1>4, <2>1 DEF Sound, Room
<1>12. CASE UNCHANGED <<status, inbox, fds, clients>>
  <2>1. Typed' /\ Descriptors'
    BY <1>0, <1>1, <1>4, <1>5, <1>12 DEF Sound, Typed, Descriptors
  <2>2. Waiting'
    <3>1. \A o \in Conns : status[o] \in {"new", "queued"} => outbox'[o] = outbox[o] /\ Executed(o)' = Executed(o)
      BY <1>0, <1>1, <1>4, EffectsKept
    <3>2. QED BY <1>0, <1>12, <3>1 DEF Sound, Waiting
  <2>3. Answered(cur, n + 1)'
    <3> DEFINE read == Len(got[c])  left == Len(outbox[c])
    <3>1. read \in Nat /\ left \in Nat /\ read + left = n /\ read' = read /\ left' = left + 1
      BY <1>0, <1>3, <1>4, <1>5, <1>6
    <3>2. read' + left' = n + 1 /\ read' + left' <= n + 1
      <4> HIDE DEF read, left
      <4>1. QED BY <3>1
    <3>3. QED BY <1>0, <1>1, <1>12, <3>2 DEF Answered
  <2>4. Session(cur, n + 1)'
    BY <1>0, <1>2, <1>12, <2>3, RequestDone
  <2>5. Sessions'
    <3>1. \A o \in Conns : o # c => Aloof(o) /\ Effected(o)' = Effected(o)
      BY <1>0, <1>4, <1>12, EffectsKept DEF Aloof
    <3>2. QED BY <1>0, <1>1, <1>2, <1>12, <2>4, <3>1, OnlyCurrent
  <2>6. QED BY <1>10, <1>11, <2>1, <2>2, <2>5 DEF Sound, StaysFaithful
<1>13. CASE /\ status' = [status EXCEPT ![c] = "gone"] /\ inbox' = [inbox EXCEPT ![c] = << >>]
            /\ fds' = [fds EXCEPT ![cur] = None] /\ clients' = [clients EXCEPT ![cur] = None]
  <2>1. /\ fds'[cur] = None /\ clients'[cur] = None
        /\ \A fd \in Fds : fd # cur => fds'[fd] = fds[fd] /\ clients'[fd] = clients[fd]
        /\ \A o \in Conns : o # c => status'[o] = status[o] /\ inbox'[o] = inbox[o]
        /\ status'[c] = "gone"
    BY <1>1, <1>13 DEF Sound, Typed
  <2>2. Typed'
    <3>1. << >> \in Seq(Chunks)
      BY EmptySeq
    <3>2. QED BY <1>0, <1>1, <1>4, <1>5, <1>13, <3>1 DEF Sound, Typed
  <2>3. Descriptors'
    <3>1. \A fd \in Fds : fd # cur /\ fds[fd] # None => fds[fd] \in Conns /\ status'[fds[fd]] = status[fds[fd]]
      BY <1>1, <2>1 DEF Sound, Typed
    <3>2. \A fd \in Fds : IF fds'[fd] = None THEN clients'[fd] = None
                          ELSE clients'[fd] \in Client /\ status'[fds'[fd]] = "open"
      BY <2>1, <3>1 DEF Sound, Descriptors
    <3>3. \A fd, other \in Fds : fds'[fd] # None /\ fds'[fd] = fds'[other] => fd = other
      BY <2>1 DEF Sound, Descriptors
    <3>4. \A fd \in batch \ {ServerFd} : fds'[fd] # None
      BY <1>1, <2>1 DEF Sound, Descriptors, Typed
    <3>5. QED BY <1>0, <3>2, <3>3, <3>4 DEF Descriptors
  <2>4. Waiting'
    <3>1. \A o \in Conns : status'[o] \in {"new", "queued"} =>
            /\ status[o] = status'[o] /\ inbox'[o] = inbox[o] /\ outbox'[o] = outbox[o]
            /\ Executed(o)' = Executed(o)
      BY <1>0, <1>4, <2>1, EffectsKept
    <3>2. QED BY <1>0, <3>1 DEF Sound, Waiting
  <2>5. Sessions'
    <3>1. \A o \in Conns : o # c => Aloof(o) /\ Effected(o)' = Effected(o)
      BY <1>0, <1>4, <2>1, EffectsKept DEF Aloof
    <3>2. QED BY <1>0, <1>1, <2>1, <3>1, OnlyCurrent
  <2>6. QED BY <1>10, <1>11, <2>2, <2>3, <2>4, <2>5 DEF Sound, StaysFaithful
<1>14. QED BY <1>0, <1>12, <1>13

-----------------------------------------------------------------------------
(* The theorems *)

LEMMA InductiveInit == Init => Inductive
<1> SUFFICES ASSUME Init PROVE Inductive
  OBVIOUS
<1> USE DEF Init
<1>1. Typed
  BY EmptySeq DEF Typed
<1>2. Descriptors
  BY NoneAssumption DEF Descriptors
<1>3. Room
  <2>1. Len(<< >>) = 0
    OBVIOUS
  <2>2. \A c \in Conns : Len(Program[c]) \in Nat
    BY ProgramAssumption
  <2>3. QED BY <2>1, <2>2, RoomAssumption DEF Room
<1>4. \A c \in Conns : Executed(c) = {} /\ Effected(c) = {}
  BY DEF Executed, Effected
<1>5. Waiting
  BY <1>4, StretchEmpty DEF Waiting
<1>6. Sessions
  BY DEF Sessions
<1>7. \A c \in Conns : Ordered(c) /\ Faithful(c)
  <2>1. SUFFICES ASSUME NEW c \in Conns PROVE Ordered(c) /\ Faithful(c)
    OBVIOUS
  <2>2. got[c] \o outbox[c] = << >> /\ Len(<< >>) = 0 /\ DOMAIN << >> = {} /\ Whole(c) = 0
    BY DEF Whole
  <2>3. 0 \in 0 .. 0 /\ Effects(Program[c], 0) = {}
    BY NewSession
  <2>4. QED BY <1>4, <2>2, <2>3 DEF Ordered, Faithful
<1>8. QED BY <1>1, <1>2, <1>3, <1>5, <1>6, <1>7 DEF Inductive, Sound

LEMMA Stuttering ==
    ASSUME Sound, UNCHANGED vars
    PROVE  Sound' /\ StaysFaithful
<1> USE DEF vars, server, network
<1>1. Typed' /\ Descriptors'
  BY DEF Sound, Typed, Descriptors
<1>2. Sessions'
  <2>1. SUFFICES ASSUME NEW fd \in Fds, fds[fd] # None
                 PROVE  (\E n \in 0 .. Len(Program[fds[fd]]) : Session(fd, n))'
    BY DEF Sessions
  <2>2. QED BY <2>1, IdleKeeps DEF Idle, Aloof
<1>3. QED BY <1>1, <1>2, NothingRead DEF Sound, StaysFaithful

LEMMA SoundNext ==
    ASSUME Sound, [Next]_vars
    PROVE  Sound' /\ StaysFaithful
<1>1. ASSUME NEW c \in Conns, Connect(c) \/ Send(c) \/ Receive(c) \/ CloseByClient(c) PROVE Sound' /\ StaysFaithful
  BY <1>1, ConnectStep, SendStep, ReceiveStep, CloseByClientStep
<1>2. CASE Loop
  BY <1>2, WaitStep, PickStep, AcceptStep, ParseStep, FillStep, FailStep, MalformedStep, MultiStep,
     DiscardStep, ExecStep, QuitStep, EnqueueStep, ExecuteStep, WriteStep, WriteToNobodyStep DEF Loop
<1>3. CASE UNCHANGED vars
  BY <1>3, Stuttering
<1>4. QED BY <1>1, <1>2, <1>3 DEF Next

LEMMA InductiveNext == Inductive /\ [Next]_vars => Inductive'
<1> SUFFICES ASSUME Inductive, [Next]_vars PROVE Inductive'
  OBVIOUS
<1>1. Sound' /\ StaysFaithful
  BY SoundNext DEF Inductive
<1>2. QED BY <1>1 DEF Inductive, StaysFaithful

LEMMA InductiveSuffices == Inductive => TypeOK /\ RepliesInOrder /\ ExecutedAsSent
<1> SUFFICES ASSUME Inductive PROVE TypeOK /\ RepliesInOrder /\ ExecutedAsSent
  OBVIOUS
<1>1. \A fd \in batch \ {ServerFd} : clients[fd] # None
  BY NoneAssumption DEF Inductive, Sound, Descriptors, Typed
<1>2. \A c \in Conns : sent[c] \in 0 .. 3 * Len(Program[c])
  <2>1. \A c \in Conns : Len(Program[c]) \in Nat
    BY ProgramAssumption
  <2>2. QED BY <2>1 DEF Inductive, Sound, Room, Typed
<1>3. TypeOK
  BY <1>1, <1>2 DEF Inductive, Sound, Typed, Descriptors, Room, TypeOK
<1>4. QED BY <1>3 DEF Inductive, Sound, Ordered, Faithful, RepliesInOrder, ExecutedAsSent

\* The invariant behind the three theorems.
THEOREM Invariance == Spec => []Inductive
<1>1. QED BY InductiveInit, InductiveNext, PTL DEF Spec

\* The descriptor table and Server.clients agree, handleClient never meets an
\* unknown descriptor and no more replies than fit are sent (server.go).
THEOREM DescriptorsAgree == Spec => []TypeOK
<1>1. QED BY Invariance, InductiveSuffices, PTL

\* Every connection gets the replies to its own requests, in order (server.go).
THEOREM EveryReplyInOrder == Spec => []RepliesInOrder
<1>1. QED BY Invariance, InductiveSuffices, PTL

\* Exactly the commands a connection has sent are executed, once each and in
\* order, a queued one by its EXEC (server.go, client.go).
THEOREM ExactlyAsSent == Spec => []ExecutedAsSent
<1>1. QED BY Invariance, InductiveSuffices, PTL

=============================================================================
