---------------------------- MODULE ServerProof ------------------------------
(***************************************************************************)
(* Proof about Server, for any clients, programs, descriptors and bounds:  *)
(* with appendfsync always, what a client has heard survives every crash.  *)
(*                                                                         *)
(* The proofs about the parts are used as they are: a step of the server   *)
(* is a step of the log or leaves it alone, and a step of the loop unless  *)
(* it is a crash.  What is added relates the replies to the log.           *)
(***************************************************************************)
EXTENDS Server, SequenceTheorems, TLAPS

LP == INSTANCE EventLoopProof

\* Begin asks for Current + n <= MaxOps, so MaxOps bounds a transaction too.
PP == INSTANCE PersistenceProof WITH pc <- logging, MaxQueue <- MaxOps

-----------------------------------------------------------------------------
(* The parts *)

LEMMA ClientSteps ==
    ASSUME NEW c \in Conns
    PROVE  /\ L!Connect(c) => LP!Connect(c)
           /\ L!Send(c) => LP!Send(c)
           /\ L!Receive(c) => LP!Receive(c)
           /\ L!CloseByClient(c) => LP!CloseByClient(c)
<1>1. L!Send(c) => LP!Send(c)
  BY DEF L!Send, LP!Send, L!server, LP!server, L!Whole, LP!Whole, L!InWhole, LP!InWhole, L!Chunk, LP!Chunk
<1> QED
  BY <1>1 DEF L!Connect, LP!Connect, L!Receive, LP!Receive, L!CloseByClient, LP!CloseByClient,
       L!server, LP!server

LEMMA LoopSteps ==
    /\ L!Wait => LP!Wait
    /\ L!Pick => LP!Pick
    /\ L!Accept => LP!Accept
    /\ L!Parse => LP!Parse
    /\ L!Fill => LP!Fill
    /\ L!Fail => LP!Fail
    /\ L!Malformed => LP!Malformed
    /\ L!Multi => LP!Multi
    /\ L!Discard => LP!Discard
    /\ L!Exec => LP!Exec
    /\ L!Quit => LP!Quit
    /\ L!Enqueue => LP!Enqueue
    /\ L!Execute => LP!Execute
    /\ L!Write => LP!Write
    /\ L!WriteToNobody => LP!WriteToNobody
<1>1. L!Wait => LP!Wait
  BY DEF L!Wait, LP!Wait, L!Ready, LP!Ready, L!Queued, LP!Queued, L!network, LP!network
<1>2. L!Pick => LP!Pick
  BY DEF L!Pick, LP!Pick, L!network, LP!network
<1>3. L!Accept => LP!Accept
  BY DEF L!Accept, LP!Accept, L!Queued, LP!Queued, L!FreeFds, LP!FreeFds, L!NewClient, LP!NewClient
<1>4. L!Parse => LP!Parse
  BY DEF L!Parse, LP!Parse, L!Me, LP!Me, L!network, LP!network
<1>5. L!Fill => LP!Fill
  BY DEF L!Fill, LP!Fill, L!Me, LP!Me
<1>6. L!Fail => LP!Fail
  BY DEF L!Fail, LP!Fail, L!Me, LP!Me, L!Remove, LP!Remove, L!Request, LP!Request
<1>7. L!Malformed => LP!Malformed
  BY DEF L!Malformed, LP!Malformed, L!Running, LP!Running, L!network, LP!network, L!Request,
       LP!Request, L!Answer, LP!Answer
<1>8. L!Multi => LP!Multi
  BY DEF L!Multi, LP!Multi, L!Running, LP!Running, L!network, LP!network, L!Request, LP!Request,
       L!Answer, LP!Answer, L!Me, LP!Me
<1>9. L!Discard => LP!Discard
  BY DEF L!Discard, LP!Discard, L!Running, LP!Running, L!network, LP!network, L!Request, LP!Request,
       L!Answer, LP!Answer, L!Me, LP!Me
<1>10. L!Exec => LP!Exec
  BY DEF L!Exec, LP!Exec, L!Running, LP!Running, L!network, LP!network, L!Request, LP!Request,
       L!Answer, LP!Answer, L!Me, LP!Me, L!Execution, LP!Execution
<1>11. L!Quit => LP!Quit
  BY DEF L!Quit, LP!Quit, L!Running, LP!Running, L!network, LP!network, L!Request, LP!Request,
       L!Answer, LP!Answer
<1>12. L!Enqueue => LP!Enqueue
  BY DEF L!Enqueue, LP!Enqueue, L!Running, LP!Running, L!network, LP!network, L!Request, LP!Request,
       L!Answer, LP!Answer, L!Me, LP!Me
<1>13. L!Execute => LP!Execute
  BY DEF L!Execute, LP!Execute, L!Running, LP!Running, L!network, LP!network, L!Request, LP!Request,
       L!Answer, LP!Answer, L!Me, LP!Me, L!Execution, LP!Execution
<1>14. L!Write => LP!Write
  BY DEF L!Write, LP!Write
<1>15. L!WriteToNobody => LP!WriteToNobody
  BY DEF L!WriteToNobody, LP!WriteToNobody, L!Remove, LP!Remove, L!network, LP!network
<1> QED
  BY <1>1, <1>2, <1>3, <1>4, <1>5, <1>6, <1>7, <1>8, <1>9, <1>10, <1>11, <1>12, <1>13, <1>14, <1>15

LEMMA LogSteps ==
    /\ P!Wake => PP!Wake
    /\ P!EndBatch => PP!EndBatch
    /\ P!LogAppend => PP!LogAppend
    /\ P!LogFlush => PP!LogFlush
    /\ P!LogSync => PP!LogSync
    /\ P!AppendFails => PP!AppendFails
    /\ P!FlushFails => PP!FlushFails
    /\ P!FlushFailsAside => PP!FlushFailsAside
    /\ P!Reply => PP!Reply
    /\ P!BgSync => PP!BgSync
    /\ P!FlushAside => PP!FlushAside
    /\ P!WriteBack => PP!WriteBack
    /\ P!Kill => PP!Kill
    /\ P!PowerCut => PP!PowerCut
    /\ P!Restart => PP!Restart
    /\ P!Continue => PP!Continue
    /\ \A n : P!Begin(n) => PP!Begin(n)
    /\ P!Execute("write", 0) => PP!Execute("write", 0)
<1>1. P!Wake => PP!Wake
  BY DEF P!Wake, PP!Wake, P!disk, PP!disk, P!history, PP!history
<1>2. P!EndBatch => PP!EndBatch
  BY DEF P!EndBatch, PP!EndBatch, P!disk, PP!disk, P!history, PP!history, P!Dies, PP!Dies
<1>3. P!LogAppend => PP!LogAppend
  BY DEF P!LogAppend, PP!LogAppend, P!Buffered, PP!Buffered, P!Entry, PP!Entry, P!Current, PP!Current
<1>4. P!LogFlush => PP!LogFlush
  BY DEF P!LogFlush, PP!LogFlush, P!history, PP!history
<1>5. P!LogSync => PP!LogSync
  BY DEF P!LogSync, PP!LogSync, P!history, PP!history
<1>6. P!AppendFails => PP!AppendFails
  BY DEF P!AppendFails, PP!AppendFails, P!Entry, PP!Entry, P!Current, PP!Current, P!FileFails, PP!FileFails
<1>7. P!FlushFails => PP!FlushFails
  BY DEF P!FlushFails, PP!FlushFails, P!FileFails, PP!FileFails
<1>8. P!FlushFailsAside => PP!FlushFailsAside
  BY DEF P!FlushFailsAside, PP!FlushFailsAside, P!FileFails, PP!FileFails, P!Unlocked, PP!Unlocked
<1>9. P!Reply => PP!Reply
  BY DEF P!Reply, PP!Reply, P!disk, PP!disk, P!Current, PP!Current
<1>10. P!BgSync => PP!BgSync
  BY DEF P!BgSync, PP!BgSync, P!Unlocked, PP!Unlocked, P!Remembered, PP!Remembered
<1>11. P!WriteBack => PP!WriteBack
  BY DEF P!WriteBack, PP!WriteBack, P!process, PP!process, P!history, PP!history
<1>12. P!Kill => PP!Kill
  BY DEF P!Kill, PP!Kill, P!MayDie, PP!MayDie, P!Dies, PP!Dies, P!disk, PP!disk
<1>13. P!PowerCut => PP!PowerCut
  BY DEF P!PowerCut, PP!PowerCut, P!MayDie, PP!MayDie, P!Dies, PP!Dies
<1>14. P!Restart => PP!Restart
  <2>1. P!Readings(file) = PP!Readings(file)
    BY DEF P!Readings, PP!Readings, P!ReadFrom, PP!ReadFrom, P!Whole, PP!Whole, P!Joined, PP!Joined,
         P!Spoilt, PP!Spoilt, P!Resumed, PP!Resumed
  <2>2. \A ids : P!Replayed(ids) = PP!Replayed(ids)
    BY DEF P!Replayed, PP!Replayed, P!Effect, PP!Effect, P!Outcome, PP!Outcome, P!Draws, PP!Draws,
         P!Max, PP!Max
  <2> QED
    BY <2>1, <2>2 DEF P!Restart, PP!Restart, P!disk, PP!disk, P!history, PP!history
<1>15. P!Continue => PP!Continue
  BY DEF P!Continue, PP!Continue
<1>16. \A n : P!Begin(n) => PP!Begin(n)
  BY DEF P!Begin, PP!Begin, P!Current, PP!Current
<1>17. P!Execute("write", 0) => PP!Execute("write", 0)
  BY DEF P!Execute, PP!Execute, P!Current, PP!Current, P!disk, PP!disk, P!Draws, PP!Draws, P!Apply,
       PP!Apply, P!Effect, PP!Effect, P!Outcome, PP!Outcome, P!IsLogged, PP!IsLogged
<1>18. P!FlushAside => PP!FlushAside
  BY DEF P!FlushAside, PP!FlushAside, P!Unlocked, PP!Unlocked, P!history, PP!history
<1> QED
  BY <1>1, <1>2, <1>3, <1>4, <1>5, <1>6, <1>7, <1>8, <1>9, <1>10, <1>11, <1>12, <1>13, <1>14, <1>15,
       <1>16, <1>17, <1>18

\* What the proofs about the loop assume follows from what Server assumes.
LEMMA LoopParameters ==
    /\ Program \in [Conns -> Seq(LP!Requests)] /\ Window \in [Conns -> Nat \ {0}]
    /\ Fragmented \subseteq Conns /\ Hurried \subseteq Conns
    /\ Fds \subseteq Nat /\ ServerFd \in Nat \ Fds /\ SendRoom \in Nat \ {0}
    /\ None \notin Conns \cup LP!Client
<1>1. L!Requests = LP!Requests /\ L!Client = LP!Client
  BY DEF L!Requests, LP!Requests, L!Client, LP!Client, L!Chunks, LP!Chunks
<1> QED
  BY <1>1, LoopAssumption

LEMMA LoopKeeps == ASSUME LP!Sound, [LP!Next]_(LP!vars) PROVE LP!Sound'
BY LoopParameters, LP!SoundNext

LEMMA LogKeeps == ASSUME PP!Inductive, [PP!Next]_(PP!vars) PROVE PP!Inductive'
BY ServerAssumption, LogAssumption, PP!InductiveNext

\* A step that leaves the loop alone.
LEMMA LoopAlone == ASSUME LP!Sound, UNCHANGED connections PROVE LP!Sound'
BY LoopKeeps DEF connections, LP!vars, LP!network, LP!server

-----------------------------------------------------------------------------
(* The inductive invariant *)

\* A command is under way, up to the moment its reply is written.
Busy == {"append", "flush", "sync", "reply"}

\* The requests of a connection whose reply was written and not lost.
Told(c) == {got[c][j].req : j \in DOMAIN got[c]} \cup {outbox[c][j].req : j \in DOMAIN outbox[c]}

\* The loop has taken over every command it has still to run and to log.
InStep == Len(log) = Len(ops) + rest /\ (logging \notin Busy => rest = 0)

\* The reply at hand will acknowledge command i.
Due(i) == pc = "write" /\ log[i].conn = fds[cur] /\ log[i].by = reply.req
            /\ logging \in Busy /\ first <= i

\* A command that is not acknowledged has not been answered; if it is not about
\* to be, its connection has ended.
Untold(i) == log[i].by \notin Told(log[i].conn) /\ (status[log[i].conn] = "gone" \/ Due(i))

Honest == \A i \in 1 .. Len(log) : i \in acked \/ Untold(i)

Inductive == LP!Sound /\ PP!Inductive /\ InStep /\ Honest

-----------------------------------------------------------------------------
(* What is told *)

LEMMA LogIs ==
    ASSUME LP!Sound
    PROVE  /\ log \in Seq(LP!Entries) /\ Len(log) \in Nat /\ DOMAIN log = 1 .. Len(log)
           /\ \A i \in 1 .. Len(log) : log[i] \in LP!Entries /\ log[i].conn \in Conns
<1>1. log \in Seq(LP!Entries)
  BY DEF LP!Sound, LP!Typed
<1>2. \A i \in 1 .. Len(log) : log[i] \in LP!Entries
  BY <1>1, ElementOfSeq
<1> QED
  BY <1>1, <1>2, LenProperties DEF LP!Entries

LEMMA CountsAre ==
    ASSUME PP!Inductive
    PROVE  /\ Len(ops) \in Nat /\ rest \in Nat /\ first \in Nat
           /\ logging \in Busy \cup {"wait", "batch", "down"}
           /\ acked \subseteq 1 .. Len(ops)
           /\ logging \in Busy => first \in 1 .. Len(ops)
           /\ DOMAIN ops = 1 .. Len(ops)
BY LenProperties DEF PP!Inductive, PP!Base, PP!Typed, PP!Phases, Busy

\* Replies come in order, so a connection is told of a front of its requests.
LEMMA ToldInOrder ==
    ASSUME LP!Sound, NEW c \in Conns
    PROVE  Told(c) \subseteq 1 .. Len(got[c] \o outbox[c])
<1> DEFINE n == Len(got[c])  m == Len(outbox[c])  both == got[c] \o outbox[c]
<1>1. got[c] \in Seq(LP!Replies) /\ outbox[c] \in Seq(LP!Replies)
  BY DEF LP!Sound, LP!Typed
<1>2. n \in Nat /\ m \in Nat /\ DOMAIN got[c] = 1 .. n /\ DOMAIN outbox[c] = 1 .. m
  BY <1>1, LenProperties
<1>3. /\ both \in Seq(LP!Replies) /\ Len(both) = n + m
      /\ \A j \in 1 .. n + m : both[j] = IF j <= n THEN got[c][j] ELSE outbox[c][j - n]
  BY <1>1, ConcatProperties
<1>4. \A j \in 1 .. n + m : both[j].req = j
  <2>1. LP!Ordered(c) /\ DOMAIN both = 1 .. n + m
    BY <1>3, LenProperties DEF LP!Sound
  <2>2. \A j \in DOMAIN both : both[j] = [conn |-> c, req |-> j, kind |-> LP!Owed(Program[c], j)]
    BY <2>1 DEF LP!Ordered
  <2> HIDE DEF both, n, m
  <2> QED
    BY <2>1, <2>2
<1> HIDE DEF n, m, both
<1>5. \A j \in 1 .. n : got[c][j].req = j /\ j \in 1 .. n + m
  <2>1. \A j \in 1 .. n : j \in 1 .. n + m /\ j <= n
    BY <1>2
  <2> QED
    BY <1>3, <1>4, <2>1
<1>6. \A j \in 1 .. m : outbox[c][j].req = n + j /\ n + j \in 1 .. n + m
  <2>1. \A j \in 1 .. m : n + j \in 1 .. n + m /\ ~(n + j <= n) /\ (n + j) - n = j
    BY <1>2
  <2> QED
    BY <1>3, <1>4, <2>1
<1>7. \A j \in DOMAIN got[c] : got[c][j].req \in 1 .. n + m
  BY <1>2, <1>5
<1>8. \A j \in DOMAIN outbox[c] : outbox[c][j].req \in 1 .. n + m
  BY <1>2, <1>6
<1>9. Told(c) \subseteq 1 .. n + m
  BY <1>7, <1>8 DEF Told
<1> QED
  BY <1>3, <1>9 DEF both

\* The request at hand has not been answered before, nor run.
LEMMA NotToldYet ==
    ASSUME LP!Sound, pc = "run"
    PROVE  reply.conn = fds[cur] /\ fds[cur] \in Conns /\ reply.req \notin Told(fds[cur])
<1>1. fds[cur] \in Conns
  BY LoopParameters, LP!Current
<1>2. PICK n \in Nat : LP!Session(cur, n)
  BY LoopParameters, LP!Current
<1>3. reply.conn = fds[cur] /\ reply.req = n + 1 /\ Len(got[fds[cur]] \o outbox[fds[cur]]) \in 0 .. n
  BY <1>2, LoopParameters, LP!RequestAtHand
<1> DEFINE told == Len(got[fds[cur]] \o outbox[fds[cur]])
<1>4. Told(fds[cur]) \subseteq 1 .. told
  BY <1>1, ToldInOrder
<1> HIDE DEF told
<1>5. told \in 0 .. n
  BY <1>3 DEF told
<1>6. n + 1 \notin 1 .. told
  BY <1>5
<1> QED
  BY <1>1, <1>3, <1>4, <1>6

-----------------------------------------------------------------------------
(* Commands                                                                 *)

\* A request runs the commands s: itself, or those its transaction has queued.
Runs(s) ==
    /\ s \in Seq(LP!Entries) /\ Len(s) \in Nat \ {0}
    /\ \A j \in 1 .. Len(s) : s[j].conn = reply.conn /\ s[j].by = reply.req
    /\ log' = log \o s
    /\ P!Begin(Len(s)) /\ P!Execute("write", 0)
    /\ pc = "run" /\ pc' = "write"
    /\ reply'.conn = reply.conn /\ reply'.req = reply.req
    /\ UNCHANGED <<status, got, outbox, fds, cur>>

LEMMA RunRuns == ASSUME LP!Sound, Run PROVE \E s : Runs(s)
<1>1. L!Running /\ pc = "run" /\ pc' = "write" /\ UNCHANGED <<status, got, outbox, fds, cur>>
  BY DEF Run, L!Execute, L!Exec, L!Running, L!network
<1>2. P!Execute("write", 0)
  BY DEF Run
<1>3. reply.conn \in Conns /\ reply.req \in Nat
  <2>1. PICK n \in Nat : LP!Session(cur, n)
    BY <1>1, LoopParameters, LP!Current
  <2>2. reply.conn = fds[cur] /\ reply.req = n + 1 /\ fds[cur] \in Conns
    BY <1>1, <2>1, NotToldYet, LoopParameters, LP!RequestAtHand
  <2> QED
    BY <2>2
<1>4. CASE L!Execute /\ P!Begin(1)
  <2> DEFINE e == [conn |-> reply.conn, req |-> reply.req, by |-> reply.req]
             s == <<e>>
  <2>1. e \in LP!Entries /\ e.conn = reply.conn /\ e.by = reply.req
    BY <1>3 DEF LP!Entries
  <2>2. /\ log' = Append(log, e)
        /\ reply'.conn = reply.conn /\ reply'.req = reply.req
    BY <1>4 DEF L!Execute, L!Execution, L!Answer
  <2> HIDE DEF e
  <2>3. s \in Seq(LP!Entries) /\ Len(s) = 1 /\ s[1] = e
    BY <2>1
  <2>4. log' = log \o s
    BY <2>1, <2>2, LogIs, AppendIsConcat
  <2>5. \A j \in 1 .. Len(s) : s[j].conn = reply.conn /\ s[j].by = reply.req
    BY <2>1, <2>3
  <2>6. P!Begin(Len(s)) /\ Len(s) \in Nat \ {0}
    BY <1>4, <2>3
  <2> HIDE DEF s
  <2> QED
    BY <1>1, <1>2, <2>2, <2>3, <2>4, <2>5, <2>6 DEF Runs
<1>5. CASE ~NothingToRun /\ L!Exec /\ P!Begin(Len(L!Me.queue))
  <2> DEFINE queue == clients[cur].queue
             s == [j \in DOMAIN queue |-> [conn |-> reply.conn, req |-> queue[j], by |-> reply.req]]
  <2>1. queue \in Seq(Nat) /\ queue # << >>
    BY <1>1, <1>5, LoopParameters, LP!Current DEF NothingToRun, L!Me
  <2>2. Len(queue) \in Nat \ {0} /\ DOMAIN queue = 1 .. Len(queue) /\ \A j \in 1 .. Len(queue) : queue[j] \in Nat
    BY <2>1, LenProperties, ElementOfSeq, EmptySeq
  <2>3. /\ log' = log \o s
        /\ reply'.conn = reply.conn /\ reply'.req = reply.req
    BY <1>5 DEF L!Exec, L!Execution, L!Answer, NothingToRun, L!Me
  <2>4. P!Begin(Len(queue))
    BY <1>5 DEF L!Me
  <2> HIDE DEF queue
  <2>5. s \in [1 .. Len(queue) -> LP!Entries]
    BY <1>3, <2>2 DEF LP!Entries
  <2>6. s \in Seq(LP!Entries) /\ Len(s) = Len(queue)
    BY <2>2, <2>5, SeqDef, LenProperties
  <2>7. \A j \in 1 .. Len(s) : s[j].conn = reply.conn /\ s[j].by = reply.req
    BY <2>2, <2>6
  <2> HIDE DEF s
  <2> QED
    BY <1>1, <1>2, <2>2, <2>3, <2>4, <2>6, <2>7 DEF Runs
<1> QED
  BY <1>4, <1>5 DEF Run

-----------------------------------------------------------------------------
(* The steps of the parts *)

\* To the log, the server is the one goroutine that writes to it.
LEMMA LogStep == ASSUME LP!Sound, PP!Inductive, [Next]_vars PROVE [PP!Next]_(PP!vars)
<1>1. CASE UNCHANGED database
  BY <1>1 DEF database, PP!vars, PP!process, PP!disk, PP!history
<1>2. ASSUME P!Execute("write", 0), P!Continue \/ \E n \in 1 .. MaxOps : P!Begin(n)
      PROVE  PP!Next
  <2>1. "write" \in Kinds /\ 0 \in DBs
    BY ServerAssumption, LogAssumption
  <2>2. PP!ExecuteNext
    BY <1>2, <2>1, LogSteps DEF PP!ExecuteNext
  <2> QED
    BY <2>2 DEF PP!Next, PP!Loop
<1>3. CASE Wait \/ EndBatch
  BY <1>3, LogSteps DEF Wait, EndBatch, PP!Next, PP!Loop
<1>4. CASE Serve
  BY <1>1, <1>4 DEF Serve
<1>5. CASE Run
  <2>1. PICK s : Runs(s)
    BY <1>5, RunRuns
  <2>2. Len(s) \in 1 .. MaxOps
    BY <2>1, CountsAre, LogAssumption DEF Runs, P!Begin, P!Current
  <2> QED
    BY <1>2, <2>1, <2>2 DEF Runs
<1>6. CASE RunNext
  BY <1>2, <1>6 DEF RunNext
<1>7. CASE Log
  BY <1>7, LogSteps DEF Log, PP!Next, PP!Loop
<1>8. CASE Answer
  BY <1>1, <1>8, LogSteps DEF Answer, PP!Next, PP!Loop
<1>9. CASE Aside
  BY <1>9, LogSteps DEF Aside, P!Aside, PP!Aside, PP!Next
<1>10. CASE Crash
  BY <1>10, LogSteps DEF Crash, PP!Next
<1>11. CASE Restart
  BY <1>11, LogSteps DEF Restart, PP!Next
<1>12. CASE \E c \in Conns : Client(c)
  BY <1>1, <1>12 DEF Client
<1>13. CASE UNCHANGED vars
  BY <1>1, <1>13 DEF vars
<1> QED
  BY <1>3, <1>4, <1>5, <1>6, <1>7, <1>8, <1>9, <1>10, <1>11, <1>12, <1>13 DEF Next, Loop

LEMMA LoopStep == ASSUME LP!Sound, [Next]_vars, ~Crash PROVE LP!Sound'
<1>1. CASE UNCHANGED connections
  BY <1>1, LoopAlone
<1>2. CASE Wait \/ EndBatch \/ Serve \/ Run \/ Answer
  BY <1>2, LoopSteps, LoopKeeps DEF Wait, EndBatch, Serve, Run, Answer, LP!Next, LP!Loop
<1>3. CASE RunNext \/ Log \/ Aside \/ Restart \/ UNCHANGED vars
  BY <1>1, <1>3 DEF RunNext, Log, Aside, Restart, vars
<1>4. ASSUME NEW c \in Conns, Client(c) PROVE LP!Sound'
  BY <1>4, ClientSteps, LoopKeeps DEF Client, LP!Next
<1> QED
  BY <1>2, <1>3, <1>4 DEF Next, Loop

\* A step that runs no command ends connections at most.
LEMMA ServeQuietly ==
    ASSUME LP!Sound, Serve
    PROVE  /\ UNCHANGED <<log, got, outbox>> /\ pc # "write"
           /\ \A c \in Conns : status[c] = "gone" => status'[c] = "gone"
<1>0. status \in [Conns -> {"new", "queued", "open", "gone"}] /\ log \in Seq(LP!Entries)
  BY DEF LP!Sound, LP!Typed
<1>1. CASE L!Pick
  BY <1>1 DEF L!Pick, L!network
<1>2. CASE L!Accept
  BY <1>0, <1>2 DEF L!Accept, L!Queued
<1>3. CASE L!Parse \/ L!Fill
  BY <1>3 DEF L!Parse, L!Fill, L!network
<1>4. CASE L!Fail
  BY <1>0, <1>4 DEF L!Fail, L!Remove
<1>5. CASE L!Multi \/ L!Discard \/ L!Quit \/ L!Enqueue \/ L!Malformed
  BY <1>5 DEF L!Multi, L!Discard, L!Quit, L!Enqueue, L!Malformed, L!Running, L!network
<1>6. CASE pc = "run" /\ NothingToRun /\ L!Exec
  <2>1. UNCHANGED <<status, got, outbox>>
    BY <1>6 DEF L!Exec, L!Running, L!network
  <2>2. log' = log
    <3>1. CASE ~L!Me.inMulti
      BY <1>6, <3>1 DEF L!Exec
    <3>2. CASE L!Me.inMulti
      <4> DEFINE s == [j \in DOMAIN L!Me.queue |-> L!Execution(L!Me.queue[j])]
      <4>1. L!Me.queue = << >> /\ log' = log \o s
        BY <1>6, <3>2 DEF L!Exec, NothingToRun
      <4>2. s = << >>
        BY <4>1
      <4> HIDE DEF s
      <4> QED
        BY <1>0, <4>1, <4>2, ConcatEmptySeq
    <3> QED
      BY <3>1, <3>2
  <2> QED
    BY <1>6, <2>1, <2>2
<1> QED
  BY <1>1, <1>2, <1>3, <1>4, <1>5, <1>6 DEF Serve

\* A crash ends every session, so that the invariant of the loop asks little.
LEMMA CrashSound ==
    ASSUME LP!Sound, PP!Inductive, InStep, Crash
    PROVE  /\ LP!Sound'
           /\ \A i \in 1 .. Len(ops) : log'[i] = log[i] /\ i \in 1 .. Len(log)
           /\ Len(log') = Len(ops)
           /\ \A c \in Conns : Told(c)' \subseteq Told(c)
           /\ \A c \in Conns : status[c] # "new" => status'[c] = "gone"
<1> DEFINE n == Len(ops)
<1>1. n \in Nat /\ n <= Len(log)
  BY LogIs, CountsAre DEF InStep
<1>2. log' = SubSeq(log, 1, n)
  BY DEF Crash, P!Current
<1>3. log' \in Seq(LP!Entries) /\ Len(log') = n /\ \A i \in 1 .. n : log'[i] = log[i] /\ i \in 1 .. Len(log)
  <2>1. \A i \in 1 .. n : i \in 1 .. Len(log)
    BY <1>1, LogIs
  <2>2. \A i \in 1 .. n : log[i] \in LP!Entries
    BY <2>1, LogIs
  <2> HIDE DEF n
  <2>3. SubSeq(log, 1, n) \in Seq(LP!Entries) /\ Len(SubSeq(log, 1, n)) = n
        /\ \A i \in 1 .. n : SubSeq(log, 1, n)[i] = log[i]
    BY <1>1, <2>1, <2>2, LogIs, SubSeqProperties
  <2> QED
    BY <1>2, <2>1, <2>3
<1> HIDE DEF n
<1>4. /\ outbox' = outbox \/ outbox' = [c \in Conns |-> << >>]
      /\ got' = got /\ sent' = sent /\ eof' = eof
      /\ status' = [c \in Conns |-> IF status[c] = "new" THEN "new" ELSE "gone"]
      /\ inbox' = [c \in Conns |-> << >>]
      /\ fds' = [fd \in Fds |-> None] /\ clients' = [fd \in Fds |-> None]
      /\ batch' = {} /\ pc' = "wait" /\ cur' = ServerFd /\ part' = 0
  BY DEF Crash
<1>5. \A c \in Conns : Told(c)' \subseteq Told(c)
  <2>1. \A c \in Conns : outbox'[c] = outbox[c] \/ DOMAIN outbox'[c] = {}
    BY <1>4
  <2> QED
    BY <1>4, <2>1 DEF Told
<1>6. LP!Typed'
  <2>1. LP!Typed
    BY DEF LP!Sound
  <2>2. << >> \in Seq(LP!Chunks) /\ << >> \in Seq(LP!Replies)
    OBVIOUS
  <2>3. status' \in [Conns -> {"new", "queued", "open", "gone"}] /\ inbox' \in [Conns -> Seq(LP!Chunks)]
    BY <1>4, <2>2
  <2>4. outbox' \in [Conns -> Seq(LP!Replies)]
    BY <1>4, <2>1, <2>2 DEF LP!Typed
  <2>5. /\ sent' \in [Conns -> Nat] /\ eof' \in [Conns -> BOOLEAN]
        /\ got' \in [Conns -> Seq(LP!Replies)]
    BY <1>4, <2>1 DEF LP!Typed
  <2>6. fds' \in [Fds -> Conns \cup {None}] /\ clients' \in [Fds -> LP!Client \cup {None}]
    BY <1>4
  <2>7. /\ batch' \subseteq Fds \cup {ServerFd} /\ cur' \in Fds \cup {ServerFd}
        /\ pc' \in {"wait", "batch", "accept", "parse", "run", "write"} /\ part' \in 0 .. 3
    BY <1>4
  <2> QED
    BY <1>3, <2>3, <2>4, <2>5, <2>6, <2>7 DEF LP!Typed
<1>7. LP!Descriptors'
  BY <1>4 DEF LP!Descriptors
<1>8. LP!Room'
  <2>1. Len(<< >>) = 0 /\ 0 <= SendRoom
    BY LoopParameters
  <2> QED
    BY <1>4, <2>1 DEF LP!Sound, LP!Room
<1>9. LP!Waiting'
  <2>1. SUFFICES ASSUME NEW c \in Conns, status'[c] \in {"new", "queued"}
                 PROVE  /\ Len(inbox'[c]) = sent'[c] /\ LP!Stretch(inbox'[c], c, 0)
                        /\ status'[c] = "new" => sent'[c] = 0
                        /\ got'[c] = << >> /\ outbox'[c] = << >>
                        /\ LP!Executed(c)' = {}
    BY DEF LP!Waiting
  <2>2. status[c] = "new"
    BY <1>4, <2>1
  <2>3. sent[c] = 0 /\ got[c] = << >> /\ outbox[c] = << >> /\ LP!Executed(c) = {}
    BY <2>2 DEF LP!Sound, LP!Waiting
  <2>4. LP!Executed(c)' = {}
    <3>1. DOMAIN log' = 1 .. n
      BY <1>3, LenProperties
    <3> QED
      BY <1>3, <2>3, <3>1, LogIs DEF LP!Executed
  <2>5. Len(inbox'[c]) = 0 /\ LP!Stretch(inbox'[c], c, 0)
    BY <1>4 DEF LP!Stretch
  <2> QED
    BY <1>4, <2>3, <2>4, <2>5
<1>10. LP!Sessions'
  BY <1>4 DEF LP!Sessions
<1>11. ASSUME NEW c \in Conns PROVE LP!Ordered(c)'
  <2>1. CASE outbox'[c] = outbox[c]
    <3>1. LP!Ordered(c)
      BY DEF LP!Sound
    <3> QED
      BY <1>4, <2>1, <3>1 DEF LP!Ordered
  <2>2. CASE outbox'[c] = << >>
    <3> DEFINE both == got[c] \o outbox[c]
    <3>1. got[c] \in Seq(LP!Replies) /\ outbox[c] \in Seq(LP!Replies)
      BY DEF LP!Sound, LP!Typed
    <3>2. /\ DOMAIN got[c] = 1 .. Len(got[c]) /\ Len(got[c]) \in Nat /\ Len(outbox[c]) \in Nat
          /\ (got[c] \o outbox[c])' = got[c]
      BY <1>4, <2>2, <3>1, LenProperties, ConcatEmptySeq
    <3>3. /\ both \in Seq(LP!Replies) /\ Len(both) = Len(got[c]) + Len(outbox[c])
          /\ \A j \in 1 .. Len(got[c]) + Len(outbox[c]) : both[j] = IF j <= Len(got[c]) THEN got[c][j]
                                                                    ELSE outbox[c][j - Len(got[c])]
      BY <3>1, ConcatProperties
    <3>4. DOMAIN both = 1 .. Len(got[c]) + Len(outbox[c])
      BY <3>3, LenProperties
    <3>5. \A j \in DOMAIN both : both[j] = [conn |-> c, req |-> j, kind |-> LP!Owed(Program[c], j)]
      BY DEF LP!Sound, LP!Ordered
    <3> HIDE DEF both
    <3>6. \A j \in DOMAIN got[c] : j \in DOMAIN both /\ both[j] = got[c][j]
      <4> DEFINE m == Len(got[c])  k == Len(outbox[c])
      <4> HIDE DEF m, k
      <4>1. \A j \in 1 .. m : j \in 1 .. m + k /\ j <= m
        <5>1. m \in Nat /\ k \in Nat
          BY <3>2 DEF m, k
        <5> QED
          BY <5>1
      <4>2. DOMAIN got[c] = 1 .. m /\ DOMAIN both = 1 .. m + k
        BY <3>2, <3>4 DEF m, k
      <4>3. \A j \in 1 .. m + k : j <= m => both[j] = got[c][j]
        BY <3>3 DEF m, k
      <4> QED
        BY <4>1, <4>2, <4>3
    <3>7. \A j \in DOMAIN got[c] : got[c][j] = [conn |-> c, req |-> j, kind |-> LP!Owed(Program[c], j)]
      BY <3>5, <3>6
    <3> QED
      BY <3>2, <3>7 DEF LP!Ordered
  <2> QED
    BY <1>4, <2>1, <2>2
<1>12. LP!Sound'
  BY <1>6, <1>7, <1>8, <1>9, <1>10, <1>11 DEF LP!Sound
<1> QED
  BY <1>3, <1>4, <1>5, <1>12 DEF n

-----------------------------------------------------------------------------
(* The commands taken over                                                  *)

LEMMA InStepNext == ASSUME LP!Sound, PP!Inductive, InStep, [Next]_vars PROVE InStep'
<1>0. Len(ops) \in Nat /\ Len(log) \in Nat /\ rest \in Nat
  BY LogIs, CountsAre
<1>1. ASSUME P!Execute("write", 0) PROVE Len(ops') = Len(ops) + 1 /\ logging' = "append"
  <2>1. ops \in Seq(PP!Command)
    BY DEF PP!Inductive, PP!Base, PP!Typed
  <2>2. [kind |-> "write", db |-> 0] \in PP!Command
    BY ServerAssumption, LogAssumption DEF PP!Command
  <2> QED
    BY <1>1, <2>1, <2>2, AppendProperties DEF P!Execute, P!IsLogged
<1>2. CASE UNCHANGED <<log, database>>
  BY <1>2 DEF database, InStep
<1>3. CASE Wait \/ EndBatch
  <2>1. UNCHANGED <<log, ops>> /\ logging \notin Busy /\ rest' = 0
    BY <1>3 DEF Wait, EndBatch, L!Wait, L!Pick, P!Wake, P!EndBatch, P!Dies, P!history, Busy, InStep
  <2> QED
    BY <1>0, <2>1 DEF InStep
<1>4. CASE Serve
  <2>1. UNCHANGED database
    BY <1>4 DEF Serve
  <2>2. log' = log
    BY <1>4, ServeQuietly
  <2> QED
    BY <1>2, <2>1, <2>2
<1>5. CASE Run
  <2>1. PICK s : Runs(s)
    BY <1>5, RunRuns
  <2>2. Len(log') = Len(log) + Len(s)
    BY <2>1, LogIs, ConcatProperties DEF Runs
  <2>3. rest = 0 /\ rest' = Len(s) - 1 /\ Len(s) \in Nat
    BY <2>1 DEF Runs, P!Begin, InStep, Busy
  <2> QED
    BY <1>0, <1>1, <2>1, <2>2, <2>3 DEF Runs, InStep, Busy
<1>6. CASE RunNext
  <2>1. rest' = rest - 1 /\ log' = log
    BY <1>6 DEF RunNext, P!Continue, connections
  <2> QED
    BY <1>0, <1>1, <1>6, <2>1 DEF RunNext, InStep, Busy
<1>7. CASE Log
  <2>1. UNCHANGED <<log, ops, rest>> /\ logging \in Busy /\ logging' \in Busy
    BY <1>7 DEF Log, connections, P!LogAppend, P!LogFlush, P!LogSync, P!AppendFails, P!FlushFails, P!FileFails,
                P!history, Busy
  <2> QED
    BY <2>1 DEF InStep
<1>8. CASE Answer
  <2>1. log' = log
    BY <1>8 DEF Answer, L!Write, L!WriteToNobody
  <2>2. CASE P!Reply
    BY <2>1, <2>2 DEF P!Reply, InStep
  <2> QED
    BY <1>2, <1>8, <2>1, <2>2 DEF Answer
<1>9. CASE Aside
  BY <1>9 DEF Aside, connections, P!Aside, P!BgSync, P!FlushAside, P!FlushFailsAside, P!FileFails, P!WriteBack, P!process, P!history, InStep
<1>10. CASE Crash
  <2>1. rest' = 0 /\ ops' = ops
    BY <1>10 DEF Crash, P!Kill, P!PowerCut, P!Dies
  <2>2. Len(log') = Len(ops)
    BY <1>10, CrashSound
  <2> QED
    BY <1>0, <2>1, <2>2 DEF InStep
<1>11. CASE Restart
  BY <1>11 DEF Restart, connections, P!Restart, P!history, InStep, Busy
<1>12. ASSUME NEW c \in Conns, Client(c) PROVE InStep'
  <2>1. UNCHANGED <<log, database>>
    BY <1>12 DEF Client, L!Connect, L!Send, L!Receive, L!CloseByClient, L!server
  <2> QED
    BY <1>2, <2>1
<1>13. CASE UNCHANGED vars
  BY <1>2, <1>13 DEF vars, connections
<1> QED
  BY <1>3, <1>4, <1>5, <1>6, <1>7, <1>8, <1>9, <1>10, <1>11, <1>12, <1>13 DEF Next, Loop

-----------------------------------------------------------------------------
(* Honest *)

\* Steps that run no command and take none back.
LEMMA StaysHonest ==
    ASSUME LP!Sound, Honest, log' = log, acked \subseteq acked',
           \A c \in Conns : status[c] = "gone" => status'[c] = "gone" /\ Told(c)' \subseteq Told(c),
           \A i \in 1 .. Len(log) : Due(i) =>
             i \in acked' \/ (Due(i)' /\ \A c \in Conns : Told(c)' \subseteq Told(c))
    PROVE  Honest'
<1> SUFFICES ASSUME NEW i \in 1 .. Len(log), i \notin acked' PROVE Untold(i)'
  BY DEF Honest
<1>1. Untold(i) /\ log[i].conn \in Conns
  BY LogIs DEF Honest
<1> DEFINE c == log[i].conn
<1>2. CASE status[c] = "gone"
  <2>1. status'[c] = "gone" /\ (log[i].by \notin Told(c))'
    BY <1>1, <1>2 DEF Untold, Told
  <2> QED
    BY <2>1 DEF Untold
<1>3. CASE Due(i)
  <2>1. Due(i)' /\ (log[i].by \notin Told(c))'
    BY <1>1, <1>3 DEF Untold, Told
  <2> QED
    BY <2>1 DEF Untold
<1> QED
  BY <1>1, <1>2, <1>3 DEF Untold

\* The loop waits with its reply until the log has the commands.
LEMMA AnswerHonest == ASSUME LP!Sound, PP!Inductive, InStep, Honest, Answer PROVE Honest'
<1>1. log' = log /\ pc = "write"
  BY DEF Answer, L!Write, L!WriteToNobody
<1>2. fds[cur] \in Conns /\ status[fds[cur]] = "open"
  BY <1>1, LoopParameters, LP!Current
<1>3. \A c \in Conns : status[c] = "gone" => status'[c] = "gone" /\ Told(c)' = Told(c)
  <2>1. /\ status \in [Conns -> {"new", "queued", "open", "gone"}]
        /\ outbox \in [Conns -> Seq(LP!Replies)]
    BY DEF LP!Sound, LP!Typed
  <2>2. CASE L!Write
    BY <1>2, <2>1, <2>2 DEF L!Write, Told
  <2>3. CASE L!WriteToNobody
    BY <2>1, <2>3 DEF L!WriteToNobody, L!Remove, L!network, Told
  <2> QED
    BY <2>2, <2>3 DEF Answer
<1>4. CASE logging = "batch" /\ UNCHANGED database
  <2>1. acked' = acked /\ \A i : ~Due(i)
    BY <1>4 DEF database, Due, Busy
  <2> QED
    BY <1>1, <1>3, <2>1, StaysHonest
<1>5. CASE P!Reply
  <2>1. acked' = acked \cup first .. Len(ops) /\ Len(log) = Len(ops)
    BY <1>5, CountsAre DEF P!Reply, P!Current, InStep
  <2>2. \A i \in 1 .. Len(log) : Due(i) => i \in acked'
    BY <2>1, CountsAre DEF Due
  <2> QED
    BY <1>1, <1>3, <2>1, <2>2, StaysHonest
<1> QED
  BY <1>4, <1>5 DEF Answer

\* The commands of a request are due when it is run.
LEMMA RunHonest == ASSUME LP!Sound, PP!Inductive, InStep, Honest, Run PROVE Honest'
<1>1. PICK s : Runs(s)
  BY RunRuns
<1> DEFINE n == Len(log)  m == Len(s)
<1>2. /\ n \in Nat /\ m \in Nat /\ Len(log') = n + m
      /\ \A i \in 1 .. n + m : log'[i] = IF i <= n THEN log[i] ELSE s[i - n]
  BY <1>1, LogIs, ConcatProperties DEF Runs
<1>3. /\ logging = "batch" /\ logging' = "append" /\ first' = n + 1 /\ acked' = acked
      /\ UNCHANGED <<status, got, outbox>>
  <2>1. rest = 0 /\ Len(log) = Len(ops)
    BY <1>1, CountsAre DEF Runs, P!Begin, InStep, Busy
  <2> QED
    BY <1>1, <2>1 DEF Runs, P!Begin, P!Execute, P!IsLogged, P!Current
<1>4. \A j \in 1 .. m : s[j].conn = reply.conn /\ s[j].by = reply.req
  BY <1>1 DEF Runs
<1> HIDE DEF n, m
<1>5. SUFFICES ASSUME NEW i \in 1 .. n + m, i \notin acked PROVE Untold(i)'
  BY <1>2, <1>3 DEF Honest
<1>6. CASE i <= n
  <2>1. i \in 1 .. Len(log) /\ log'[i] = log[i]
    BY <1>2, <1>5, <1>6 DEF n
  <2>2. Untold(i) /\ ~Due(i)
    BY <1>3, <1>5, <2>1 DEF Honest, Due, Busy
  <2> QED
    BY <1>3, <2>1, <2>2 DEF Untold, Told
<1>7. CASE ~(i <= n)
  <2>1. i - n \in 1 .. m /\ n + 1 <= i
    BY <1>2, <1>5, <1>7
  <2>2. log'[i].conn = reply.conn /\ log'[i].by = reply.req
    BY <1>2, <1>4, <1>5, <1>7, <2>1
  <2>3. reply.conn = fds[cur] /\ reply.req \notin Told(fds[cur])
    BY <1>1, NotToldYet DEF Runs
  <2>4. reply'.conn = reply.conn /\ reply'.req = reply.req /\ pc' = "write" /\ UNCHANGED <<fds, cur>>
    BY <1>1 DEF Runs
  <2>5. Due(i)'
    BY <1>3, <2>1, <2>2, <2>3, <2>4 DEF Due, Busy
  <2>6. (log[i].by \notin Told(log[i].conn))'
    BY <1>3, <2>2, <2>3 DEF Told
  <2> QED
    BY <2>5, <2>6 DEF Untold
<1> QED
  BY <1>6, <1>7

\* A crash ends the connections that are owed a reply.
LEMMA CrashHonest == ASSUME LP!Sound, PP!Inductive, InStep, Honest, Crash PROVE Honest'
<1>1. acked' = acked
  BY DEF Crash, P!Kill, P!PowerCut, P!Dies
<1>2. Len(log') = Len(ops) /\ \A i \in 1 .. Len(ops) : log'[i] = log[i] /\ i \in 1 .. Len(log)
  BY CrashSound
<1> SUFFICES ASSUME NEW i \in 1 .. Len(ops), i \notin acked PROVE Untold(i)'
  BY <1>1, <1>2 DEF Honest
<1>3. log'[i] = log[i] /\ i \in 1 .. Len(log) /\ log[i].conn \in Conns
  BY <1>2, LogIs
<1>4. log[i].by \notin Told(log[i].conn)
  BY <1>3 DEF Honest, Untold
<1>5. (log[i].by \notin Told(log[i].conn))'
  <2>1. \A c \in Conns : log[i].by \notin Told(c) => log[i].by \notin Told(c)'
    BY CrashSound
  <2> DEFINE c == log[i].conn
  <2>2. log[i].by \notin {got'[c][j].req : j \in DOMAIN got'[c]} \cup {outbox'[c][j].req : j \in DOMAIN outbox'[c]}
    BY <1>3, <1>4, <2>1 DEF Told
  <2> QED
    BY <1>3, <2>2 DEF Told
<1>6. status'[log[i].conn] = "gone"
  <2>1. i \in LP!Executed(log[i].conn)
    BY <1>3, LogIs DEF LP!Executed
  <2>2. status[log[i].conn] # "new"
    BY <1>3, <2>1 DEF LP!Sound, LP!Waiting
  <2> QED
    BY <1>3, <2>2, CrashSound
<1> QED
  BY <1>3, <1>5, <1>6 DEF Untold

\* A client that reads a reply has been told no more than before.
LEMMA ReceiveTells ==
    ASSUME LP!Sound, NEW c \in Conns, L!Receive(c)
    PROVE  \A d \in Conns : Told(d)' \subseteq Told(d)
<1>1. got \in [Conns -> Seq(LP!Replies)] /\ outbox \in [Conns -> Seq(LP!Replies)]
  BY DEF LP!Sound, LP!Typed
<1>2. /\ outbox[c] # << >>
      /\ got' = [got EXCEPT ![c] = Append(got[c], Head(outbox[c]))]
      /\ outbox' = [outbox EXCEPT ![c] = Tail(outbox[c])]
  BY <1>1 DEF L!Receive
<1>3. \A d \in Conns : d # c => Told(d)' = Told(d)
  BY <1>1, <1>2 DEF Told
<1> DEFINE g == got[c]  o == outbox[c]
<1>4. /\ g \in Seq(LP!Replies) /\ o \in Seq(LP!Replies) /\ o # << >>
      /\ got'[c] = Append(g, Head(o)) /\ outbox'[c] = Tail(o)
  BY <1>1, <1>2
<1> HIDE DEF g, o
<1>5. /\ Len(o) \in Nat \ {0} /\ DOMAIN o = 1 .. Len(o)
      /\ Head(o) = o[1] /\ Tail(o) \in Seq(LP!Replies) /\ Len(Tail(o)) = Len(o) - 1
      /\ \A j \in 1 .. Len(o) - 1 : Tail(o)[j] = o[j + 1]
  BY <1>4, HeadTailProperties, LenProperties, EmptySeq
<1>6. \A j \in DOMAIN Tail(o) : \E k \in DOMAIN o : Tail(o)[j] = o[k]
  <2> SUFFICES ASSUME NEW j \in DOMAIN Tail(o) PROVE \E k \in DOMAIN o : Tail(o)[j] = o[k]
    OBVIOUS
  <2>1. j \in 1 .. Len(o) - 1 /\ j + 1 \in 1 .. Len(o)
    BY <1>5, LenProperties
  <2> QED
    BY <1>5, <2>1
<1>7. Head(o) = o[1] /\ 1 \in DOMAIN o
  BY <1>5
<1>8. \A j \in DOMAIN Append(g, Head(o)) :
        \/ j \in DOMAIN g /\ Append(g, Head(o))[j] = g[j]
        \/ Append(g, Head(o))[j] = Head(o)
  <2>1. Head(o) \in LP!Replies
    BY <1>4, <1>5, ElementOfSeq
  <2> HIDE DEF g, o
  <2>2. /\ Append(g, Head(o)) \in Seq(LP!Replies) /\ Len(Append(g, Head(o))) = Len(g) + 1
        /\ \A j \in 1 .. Len(g) : Append(g, Head(o))[j] = g[j]
        /\ Append(g, Head(o))[Len(g) + 1] = Head(o)
        /\ Len(g) \in Nat
    BY <1>4, <2>1, AppendProperties, LenProperties
  <2>3. DOMAIN g = 1 .. Len(g) /\ DOMAIN Append(g, Head(o)) = 1 .. Len(g) + 1
    BY <1>4, <2>2, LenProperties
  <2>4. \A j \in 1 .. Len(g) + 1 : j \in 1 .. Len(g) \/ j = Len(g) + 1
    BY <2>2
  <2> QED
    BY <2>2, <2>3, <2>4
<1>9. \A j \in DOMAIN got'[c] : got'[c][j].req \in Told(c)
  BY <1>4, <1>7, <1>8 DEF Told, g, o
<1>10. \A j \in DOMAIN outbox'[c] : outbox'[c][j].req \in Told(c)
  BY <1>4, <1>6 DEF Told, o
<1>11. Told(c)' \subseteq Told(c)
  BY <1>9, <1>10 DEF Told
<1> QED
  BY <1>3, <1>11

LEMMA ClientHonest == ASSUME LP!Sound, Honest, NEW c \in Conns, Client(c) PROVE Honest'
<1>1. UNCHANGED <<database, fds, cur, pc, reply, log>>
  BY DEF Client, L!Connect, L!Send, L!Receive, L!CloseByClient, L!server
<1>2. status \in [Conns -> {"new", "queued", "open", "gone"}]
  BY DEF LP!Sound, LP!Typed
<1>3. \A d \in Conns : status[d] = "gone" => status'[d] = "gone"
  BY <1>2 DEF Client, L!Connect, L!Send, L!Receive, L!CloseByClient
<1>4. \A d \in Conns : Told(d)' \subseteq Told(d)
  <2>1. CASE UNCHANGED <<got, outbox>>
    BY <2>1 DEF Told
  <2> QED
    BY <2>1, ReceiveTells DEF Client, L!Connect, L!Send, L!CloseByClient
<1>5. acked' = acked /\ \A i : Due(i) => Due(i)'
  BY <1>1 DEF database, Due
<1>6. \A i \in 1 .. Len(log) : log[i].conn \in Conns
  BY LogIs
<1> QED
  BY <1>1, <1>3, <1>4, <1>5, <1>6, StaysHonest

LEMMA HonestNext == ASSUME LP!Sound, PP!Inductive, InStep, Honest, [Next]_vars PROVE Honest'
<1>1. ASSUME log' = log, acked' = acked, \A i \in 1 .. Len(log) : Due(i) => Due(i)',
             UNCHANGED <<got, outbox>>, \A c \in Conns : status[c] = "gone" => status'[c] = "gone"
      PROVE  Honest'
  <2>1. \A c : Told(c)' = Told(c)
    BY <1>1 DEF Told
  <2> QED
    BY <1>1, <2>1, StaysHonest
<1>2. ASSUME UNCHANGED connections, acked' = acked,
             logging \in Busy => logging' \in Busy /\ first' = first
      PROVE  Honest'
  BY <1>1, <1>2 DEF connections, Due
<1>3. CASE Wait \/ EndBatch
  <2>1. UNCHANGED <<log, got, outbox, status>> /\ pc # "write"
    BY <1>3 DEF Wait, EndBatch, L!Wait, L!Pick, L!network
  <2>2. acked' = acked
    BY <1>3 DEF Wait, EndBatch, P!Wake, P!EndBatch, P!Dies, P!history
  <2> QED
    BY <1>1, <2>1, <2>2 DEF Due
<1>4. CASE Serve
  <2>1. acked' = acked
    BY <1>4 DEF Serve, database
  <2> QED
    BY <1>1, <1>4, <2>1, ServeQuietly DEF Due
<1>5. CASE RunNext
  BY <1>2, <1>5 DEF RunNext, P!Continue, P!Execute, P!IsLogged, Busy
<1>6. CASE Log
  BY <1>2, <1>6 DEF Log, P!LogAppend, P!LogFlush, P!LogSync, P!AppendFails, P!FlushFails, P!FileFails,
     P!history, Busy
<1>7. CASE Aside
  BY <1>2, <1>7 DEF Aside, P!Aside, P!BgSync, P!FlushAside, P!FlushFailsAside, P!FileFails, P!WriteBack, P!process, P!history
<1>8. CASE Restart
  BY <1>2, <1>8 DEF Restart, P!Restart, P!history, Busy
<1>9. CASE UNCHANGED vars
  BY <1>2, <1>9 DEF vars, database
<1> QED
  BY <1>3, <1>4, <1>5, <1>6, <1>7, <1>8, <1>9, RunHonest, AnswerHonest, CrashHonest, ClientHonest DEF Next, Loop

-----------------------------------------------------------------------------
(* What a client has heard *)

LEMMA LogInit == ASSUME Init PROVE PP!Init
BY DEF Init, P!Init, PP!Init

LEMMA InductiveInit == ASSUME Init PROVE Inductive
<1>1. LP!Sound
  <2>1. LP!Init
    BY DEF Init, L!Init, LP!Init
  <2> QED
    BY <2>1, LoopParameters, LP!InductiveInit DEF LP!Inductive
<1>2. PP!Inductive
  BY ServerAssumption, LogAssumption, LogInit, PP!InductiveInit
<1>3. Len(log) = 0 /\ Len(ops) = 0 /\ rest = 0
  BY DEF Init, L!Init, P!Init
<1> QED
  BY <1>1, <1>2, <1>3 DEF Inductive, InStep, Honest

LEMMA InductiveNext == ASSUME Inductive, [Next]_vars PROVE Inductive'
<1> USE DEF Inductive
<1>1. LP!Sound'
  BY LoopStep, CrashSound
<1> QED
  BY <1>1, LogStep, LogKeeps, InStepNext, HonestNext

\* The invariant holds throughout, crashes and restarts included.
THEOREM Invariance == Spec => []Inductive
<1>1. Init => Inductive
  BY InductiveInit
<1>2. Inductive /\ [Next]_vars => Inductive'
  BY InductiveNext
<1> QED
  BY <1>1, <1>2, PTL DEF Spec

\* What runs beside the log keeps to its rules: a step of the server (a
\* transaction of execTransaction, a reply of handleClient, a crash) is a step of
\* Persistence, so that everything proved about every behaviour of the log holds
\* of the server's.
THEOREM LogRefined == Spec => PP!Spec
<1>1. Init => PP!Init
  BY LogInit
<1>2. Inductive /\ [Next]_vars => [PP!Next]_(PP!vars)
  BY LogStep DEF Inductive
<1> QED
  BY <1>1, <1>2, Invariance, PTL DEF Spec, PP!Spec

\* The log keeps every command that was acknowledged.
LEMMA AcknowledgedSurvive == ASSUME PP!Inductive PROVE P!AckedWritesSurvive
<1>1. PP!AckedWritesSurvive
  BY DEF PP!Inductive, PP!AnsweredRemembered, PP!Answered, PP!AckedWritesSurvive, PP!Written
<1> QED
  BY <1>1 DEF P!AckedWritesSurvive, PP!AckedWritesSurvive, P!TornAtEnd, PP!TornAtEnd, P!Torn, PP!Torn,
     P!Whole, PP!Whole, P!Written, PP!Written, P!Flushes, PP!Flushes, P!Remembered, PP!Remembered

\* With appendfsync always, no command whose client has read the reply is lost in
\* a crash, alone or in a transaction (AOF.Write comes before the reply; what was
\* queued is logged command by command, see execTransaction): for any clients,
\* programs, descriptors, bounds and faults.
THEOREM HeardIsKept == Spec => []HeardWritesSurvive
<1>1. Inductive => HeardWritesSurvive
  <2> SUFFICES ASSUME Inductive PROVE HeardWritesSurvive
    OBVIOUS
  <2>1. Heard \subseteq acked
    <3> SUFFICES ASSUME NEW i \in Heard PROVE i \in acked
      OBVIOUS
    <3>1. i \in DOMAIN ops /\ log[i].by \in Told(log[i].conn)
      BY DEF Heard, Told
    <3>2. i \in 1 .. Len(log)
      BY <3>1, LogIs, CountsAre DEF Inductive, InStep
    <3> QED
      BY <3>1, <3>2 DEF Inductive, Honest, Untold
  <2>2. P!Written(Heard \ unlogged) \subseteq P!Written(acked \ unlogged)
    BY <2>1 DEF P!Written
  <2> QED
    BY <2>2, AcknowledgedSurvive DEF Inductive, HeardWritesSurvive, P!AckedWritesSurvive
<1> QED
  BY <1>1, Invariance, PTL

=============================================================================
