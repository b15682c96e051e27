------------------------------- MODULE Server --------------------------------
(***************************************************************************)
(* The server as a whole: EventLoop and Persistence, which share the one   *)
(* goroutine that runs commands (src/server/server.go).  A step of the     *)
(* loop that runs a command is a step of both; the reply is written when   *)
(* the command, or each of a transaction, has been logged; a crash ends    *)
(* every connection.                                                       *)
(*                                                                         *)
(* The clients' commands are writes to database 0.                         *)
(***************************************************************************)
EXTENDS Integers, FiniteSets, SequencesExt

CONSTANTS Conns, Fds, ServerFd, Program, Window, Fragmented, Hurried, SendRoom, None,
          Policies, DBs, Kinds, BufferSize, MaxOps, MaxQueue, MaxCrashes, Faults

\* Shutdown by signal is left to Persistence.
ASSUME ServerAssumption == Kinds = {"write"} /\ "signal" \notin Faults

ASSUME LogAssumption ==
    /\ Policies \subseteq {"always", "everysec", "no"} /\ 0 \in DBs
    /\ BufferSize \in Nat /\ BufferSize >= 2
    /\ MaxOps \in Nat /\ MaxQueue \in Nat /\ MaxCrashes \in Nat
    /\ Faults \subseteq {"kill", "powercut", "signal", "diskfull"}

VARIABLES
    status, sent, inbox, eof, outbox, got, fds, clients, batch, pc, cur, part, reply, log,
    policy, memory, logging, rest, first, epollOpen, buf, aofOpen, stopping, file, synced,
    ops, acked, unlogged, safe, before, clean, crashes

L == INSTANCE EventLoop
P == INSTANCE Persistence WITH pc <- logging

ASSUME LoopAssumption ==
    /\ Program \in [Conns -> Seq(L!Requests)] /\ Window \in [Conns -> Nat \ {0}]
    /\ Fragmented \subseteq Conns /\ Hurried \subseteq Conns
    /\ Fds \subseteq Nat /\ ServerFd \in Nat \ Fds /\ SendRoom \in Nat \ {0}
    /\ None \notin Conns \cup L!Client

connections == <<status, sent, inbox, eof, outbox, got, fds, clients, batch, pc, cur, part, reply, log>>
database    == <<policy, memory, logging, rest, first, epollOpen, buf, aofOpen, stopping, file, synced,
                 ops, acked, unlogged, safe, before, clean, crashes>>
vars        == <<connections, database>>

-----------------------------------------------------------------------------
(* The loop *)

Wait     == L!Wait /\ P!Wake
EndBatch == batch = {} /\ L!Pick /\ P!EndBatch

NothingToRun == ~L!Me.inMulti \/ L!Me.queue = << >>

\* Steps that run no command.
Serve ==
    /\ \/ batch # {} /\ L!Pick
       \/ L!Accept \/ L!Parse \/ L!Fill \/ L!Fail
       \/ L!Multi \/ L!Discard \/ L!Quit \/ L!Enqueue \/ L!Malformed
       \/ pc = "run" /\ NothingToRun /\ L!Exec
    /\ UNCHANGED database

Run ==
    /\ \/ L!Execute /\ P!Begin(1)
       \/ pc = "run" /\ ~NothingToRun /\ L!Exec /\ P!Begin(Len(L!Me.queue))
    /\ P!Execute("write", 0)

\* Mutant: the log gets one entry for a transaction.
RunNextUnlogged ==
    /\ P!Continue
    /\ ops' = Append(ops, [kind |-> "write", db |-> 0])
    /\ memory' = P!Apply(memory, "write", 0, P!Effect(P!Current + 1, 0))
    /\ UNCHANGED <<policy, logging, epollOpen, buf, aofOpen, stopping, file, synced,
                   acked, unlogged, safe, before, clean, crashes, connections>>

\* The next command of a transaction.
RunNext == P!Continue /\ P!Execute("write", 0) /\ UNCHANGED connections

Log ==
    /\ P!LogAppend \/ P!LogFlush \/ P!LogSync \/ P!AppendFails \/ P!FlushFails
    /\ UNCHANGED connections

Answer ==
    /\ L!Write \/ L!WriteToNobody
    /\ \/ logging = "batch" /\ UNCHANGED database
       \/ P!Reply

Loop == Wait \/ EndBatch \/ Serve \/ Run \/ RunNext \/ Log \/ Answer

-----------------------------------------------------------------------------
(* What goes on beside it *)

Aside == (P!Aside \/ P!WriteBack) /\ UNCHANGED connections

\* Nobody listens while the process is down.
Client(c) ==
    /\ (logging # "down" /\ L!Connect(c)) \/ L!Send(c) \/ L!Receive(c) \/ L!CloseByClient(c)
    /\ UNCHANGED database

\* Connections end with the process; replies that are under way arrive or not.
\* What a transaction had not run it never will.
Crash ==
    /\ P!Kill \/ P!PowerCut
    /\ status' = [c \in Conns |-> IF status[c] = "new" THEN "new" ELSE "gone"]
    /\ inbox' = [c \in Conns |-> << >>]
    /\ outbox' \in {outbox, [c \in Conns |-> << >>]}
    /\ fds' = [fd \in Fds |-> None] /\ clients' = [fd \in Fds |-> None]
    /\ batch' = {} /\ pc' = "wait" /\ cur' = ServerFd /\ part' = 0 /\ reply' = None
    /\ log' = SubSeq(log, 1, P!Current)
    /\ UNCHANGED <<sent, eof, got>>

Restart == P!Restart /\ UNCHANGED connections

-----------------------------------------------------------------------------
Init == L!Init /\ P!Init

Next == Loop \/ Aside \/ Crash \/ Restart \/ \E c \in Conns : Client(c)

Spec == Init /\ [][Next]_vars

\* The loop, one goroutine, runs whenever it can; the ticker of bgSync fires
\* every second and the mutex is held only for the length of AOF.Write; the
\* kernel writes dirty pages back in the end; clients finish the requests they
\* began and read replies.
FairSpec ==
    /\ Spec /\ WF_vars(Loop)
    /\ WF_vars(P!BgSync /\ UNCHANGED connections) /\ WF_vars(P!WriteBack /\ UNCHANGED connections)
    /\ \A c \in Conns : /\ WF_vars(L!Finish(c) /\ UNCHANGED database)
                        /\ WF_vars(L!Receive(c) /\ UNCHANGED database)

-----------------------------------------------------------------------------
(* Commands whose client has read the reply: by EXEC if they were queued.   *)
Heard == {i \in DOMAIN ops : \E j \in DOMAIN got[log[i].conn] : got[log[i].conn][j].req = log[i].by}

(* With appendfsync always, no command whose client has read the reply is   *)
(* lost in a crash: neither one on its own nor one of a transaction, which  *)
(* is logged command by command (execTransaction) and answered once.  The   *)
(* exceptions are those of AckedWritesSurvive.                              *)
HeardWritesSurvive ==
    policy = "always" /\ logging # "down" /\ P!TornAtEnd =>
        \A i \in P!Written(Heard \ unlogged) : P!Remembered(i)

(* Every request of a connection that stays is answered, although the loop  *)
(* stops for every flush and fsync of the log (AOF.Write).                  *)
RequestsAnswered == L!RequestsAnswered

(* A write a client has read the reply to is on the disk in the end, unless *)
(* the process dies first, the file failed or the policy is "no".           *)
HeardWritesReachDisk ==
    \A i \in 1 .. MaxOps :
        (i \in DOMAIN ops /\ i \in Heard /\ policy # "no" /\ P!Remembered(i))
            ~> (P!OnDisk(i) \/ i \in unlogged \/ logging = "down")

=============================================================================
