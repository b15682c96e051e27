------------------------------ MODULE EventLoop ------------------------------
(***************************************************************************)
(* The event loop of src/server/server.go with its clients: accepting,     *)
(* reading requests through a bufio.Reader (src/server/rawconn.go,         *)
(* src/resp/reader.go), transactions (src/server/client.go), replies, and  *)
(* the end of a connection.                                                *)
(*                                                                         *)
(* A request is three chunks of bytes, cut where a cut makes a difference  *)
(* to the reader: within a line, and within the payload of a bulk string.  *)
(* A reply is one unit.  What a command does to the store is left to       *)
(* CommandTable; here it is recorded that and when it ran.                 *)
(***************************************************************************)
EXTENDS Integers, FiniteSets, Sequences

CONSTANTS
    Conns,          \* connections clients make
    Fds,            \* file descriptors the process may have for them
    ServerFd,       \* the listening socket
    Program,        \* [Conns -> the requests sent over the connection]
    Window,         \* [Conns -> requests a client sends ahead of the replies]
    Fragmented,     \* connections whose requests may arrive in pieces
    Hurried,        \* connections the client may close at any time
    SendRoom,       \* replies the kernel holds for a client that does not read
    None            \* no connection, no client

\* "BAD" parses but is no command: not an array, or an empty one.  "GARBLED"
\* does not parse: a length that is no number, a line or payload without CR LF.
Requests == {"PLAIN", "MULTI", "EXEC", "DISCARD", "QUIT", "BAD", "GARBLED"}

Chunks == [conn : Conns, req : Nat, part : 1 .. 3]

\* What server.go keeps of a client: the reader's buffer and the transaction.
Client == [buf : Seq(Chunks), inMulti : BOOLEAN, queue : Seq(Nat)]

ASSUME ProgramAssumption == Program \in [Conns -> Seq(Requests)]
ASSUME WindowAssumption  == Window \in [Conns -> Nat \ {0}]
ASSUME SubsetAssumption  == Fragmented \subseteq Conns /\ Hurried \subseteq Conns
ASSUME FdAssumption      == Fds \subseteq Nat /\ ServerFd \in Nat \ Fds
ASSUME RoomAssumption    == SendRoom \in Nat \ {0}
ASSUME NoneAssumption    == None \notin Conns \cup Client

VARIABLES
    \* clients and kernel
    status,     \* [Conns -> "new", "queued" (to be accepted), "open" or "gone"]
    sent,       \* [Conns -> chunks sent]
    inbox,      \* [Conns -> chunks in the kernel's receive buffer]
    eof,        \* [Conns -> the client has closed]
    outbox,     \* [Conns -> replies in the kernel's send buffer]
    got,        \* [Conns -> replies the client has read]
    \* server
    fds,        \* [Fds -> the connection it is a descriptor of, or None]
    clients,    \* Server.clients: [Fds -> Client or None]
    batch,      \* what EpollWait reported and is not handled yet
    pc,         \* where the loop is
    cur,        \* the descriptor being handled
    part,       \* chunks of the current request parsed
    reply,      \* the reply to write, and what follows it
    log         \* commands executed: connection, request, and by which request

network == <<status, sent, inbox, eof, outbox, got>>
server  == <<fds, clients, batch, pc, cur, part, reply, log>>
vars    == <<network, server>>

\* NewClient: an empty buffer, no transaction.
NewClient == [buf |-> << >>, inMulti |-> FALSE, queue |-> << >>]

Chunk(c, i, p) == [conn |-> c, req |-> i, part |-> p]

-----------------------------------------------------------------------------
(* Clients *)

Whole(c)  == sent[c] \div 3             \* requests sent completely
InWhole(c) == sent[c] % 3 = 0

Connect(c) ==
    /\ status[c] = "new"
    /\ status' = [status EXCEPT ![c] = "queued"]
    /\ UNCHANGED <<sent, inbox, eof, outbox, got, server>>

\* The next chunk, or the next request at once.
Send(c) ==
    /\ status[c] \in {"queued", "open"} /\ ~eof[c]
    /\ Whole(c) < Len(Program[c])
    /\ InWhole(c) => Whole(c) < Len(got[c]) + Window[c]
    /\ \E n \in IF c \in Fragmented THEN 1 .. 3 - (sent[c] % 3) ELSE {3} :
         /\ sent' = [sent EXCEPT ![c] = @ + n]
         /\ inbox' = [inbox EXCEPT ![c] = @ \o
                [j \in 1 .. n |-> Chunk(c, Whole(c) + 1, (sent[c] % 3) + j)]]
    /\ UNCHANGED <<status, eof, outbox, got, server>>

Receive(c) ==
    /\ outbox[c] # << >>
    /\ got' = [got EXCEPT ![c] = Append(@, Head(outbox[c]))]
    /\ outbox' = [outbox EXCEPT ![c] = Tail(@)]
    /\ UNCHANGED <<status, sent, inbox, eof, server>>

CloseByClient(c) ==
    /\ status[c] \in {"queued", "open"} /\ ~eof[c]
    /\ c \in Hurried
    /\ eof' = [eof EXCEPT ![c] = TRUE]
    /\ UNCHANGED <<status, sent, inbox, outbox, got, server>>

-----------------------------------------------------------------------------
(* The loop: EpollWait is level-triggered. *)

Queued == {c \in Conns : status[c] = "queued"}

Ready == {fd \in Fds : fds[fd] # None /\ (inbox[fds[fd]] # << >> \/ eof[fds[fd]])}
            \cup {s \in {ServerFd} : Queued # {}}

Wait ==
    /\ pc = "wait" /\ Ready # {}
    /\ batch' = Ready
    /\ pc' = "batch"
    /\ UNCHANGED <<network, fds, clients, cur, part, reply, log>>

\* The events of a batch come in any order.
Pick ==
    /\ pc = "batch"
    /\ \/ batch = {} /\ pc' = "wait" /\ UNCHANGED <<batch, cur, part>>
       \/ \E e \in batch :
            /\ batch' = batch \ {e}
            /\ cur' = e
            /\ part' = 0
            /\ pc' = IF e = ServerFd THEN "accept" ELSE "parse"
    /\ UNCHANGED <<network, fds, clients, reply, log>>

FreeFds == {fd \in Fds : fds[fd] = None}

\* acceptConn loops until nobody waits or there is no descriptor left.
Accept ==
    /\ pc = "accept"
    /\ \/ \E c \in Queued, fd \in FreeFds :
            /\ \A other \in FreeFds : fd <= other
            /\ fds' = [fds EXCEPT ![fd] = c]
            /\ clients' = [clients EXCEPT ![fd] = NewClient]
            /\ status' = [status EXCEPT ![c] = "open"]
            /\ UNCHANGED pc
       \/ (Queued = {} \/ FreeFds = {}) /\ pc' = "batch" /\ UNCHANGED <<fds, clients, status>>
    /\ UNCHANGED <<sent, inbox, eof, outbox, got, batch, cur, part, reply, log>>

\* Mutant: Server.clients keeps the client.
RemoveKeepingClient ==
    /\ status' = [status EXCEPT ![fds[cur]] = "gone"]
    /\ inbox' = [inbox EXCEPT ![fds[cur]] = << >>]
    /\ fds' = [fds EXCEPT ![cur] = None]
    /\ pc' = "batch"
    /\ UNCHANGED <<sent, eof, outbox, got, clients>>

\* removeClient of the current descriptor.
Remove ==
    /\ status' = [status EXCEPT ![fds[cur]] = "gone"]
    /\ inbox' = [inbox EXCEPT ![fds[cur]] = << >>]
    /\ fds' = [fds EXCEPT ![cur] = None]
    /\ clients' = [clients EXCEPT ![cur] = None]
    /\ pc' = "batch"
    /\ UNCHANGED <<sent, eof, outbox, got>>

-----------------------------------------------------------------------------
(* ReadValue *)

Me == clients[cur]

\* Mutant: a new bufio.Reader for every request.
ParseAnew ==
    /\ pc = "parse" /\ Me.buf # << >>
    /\ clients' = [clients EXCEPT ![cur].buf = IF part = 2 THEN << >> ELSE Tail(@)]
    /\ part' = part + 1
    /\ IF part = 2
       THEN pc' = "run" /\ reply' = [conn |-> Head(Me.buf).conn, req |-> Head(Me.buf).req]
       ELSE UNCHANGED <<pc, reply>>
    /\ UNCHANGED <<network, fds, batch, cur, log>>

Parse ==
    /\ pc = "parse" /\ Me.buf # << >>
    /\ clients' = [clients EXCEPT ![cur].buf = Tail(@)]
    /\ part' = part + 1
    /\ IF part = 2
       THEN pc' = "run" /\ reply' = [conn |-> Head(Me.buf).conn, req |-> Head(Me.buf).req]
       ELSE UNCHANGED <<pc, reply>>
    /\ UNCHANGED <<network, fds, batch, cur, log>>

\* The buffer takes all the kernel has.
Fill ==
    /\ pc = "parse" /\ Me.buf = << >>
    /\ inbox[fds[cur]] # << >>
    /\ clients' = [clients EXCEPT ![cur].buf = inbox[fds[cur]]]
    /\ inbox' = [inbox EXCEPT ![fds[cur]] = << >>]
    /\ UNCHANGED <<status, sent, eof, outbox, got, fds, batch, pc, cur, part, reply, log>>

-----------------------------------------------------------------------------
(* handleClient once a request is read *)

\* What the bytes say; `reply' names the request they came with.
Request == Program[reply.conn][reply.req]

\* ReadValue returns an error, and the connection ends without a reply: at the
\* end of the stream; when a hundred reads for the rest of a line find nothing
\* (io.ErrNoProgress); or when a request does not parse.  For the rest of a
\* payload io.ReadFull goes on reading: nothing happens until it comes.
Fail ==
    /\ \/ /\ pc = "parse" /\ Me.buf = << >> /\ inbox[fds[cur]] = << >>
          /\ eof[fds[cur]] \/ part < 2
       \/ pc = "run" /\ Request = "GARBLED"
    /\ Remove
    /\ UNCHANGED <<batch, cur, part, reply, log>>

Answer(kind) == reply' = [conn |-> reply.conn, req |-> reply.req, kind |-> kind]

Execution(i) == [conn |-> reply.conn, req |-> i, by |-> reply.req]

Running == pc = "run" /\ pc' = "write" /\ UNCHANGED <<network, fds, batch, cur, part>>

\* ToCommand fails; the connection and its transaction go on.
Malformed ==
    /\ Running /\ Request = "BAD"
    /\ Answer("error")
    /\ UNCHANGED <<clients, log>>

Multi ==
    /\ Running /\ Request = "MULTI"
    /\ IF Me.inMulti
       THEN Answer("error") /\ UNCHANGED clients
       ELSE /\ Answer("ok")
            /\ clients' = [clients EXCEPT ![cur].inMulti = TRUE, ![cur].queue = << >>]
    /\ UNCHANGED log

Discard ==
    /\ Running /\ Request = "DISCARD"
    /\ IF ~Me.inMulti
       THEN Answer("error") /\ UNCHANGED clients
       ELSE /\ Answer("ok")
            /\ clients' = [clients EXCEPT ![cur].inMulti = FALSE, ![cur].queue = << >>]
    /\ UNCHANGED log

\* Mutant: EXEC leaves the transaction open.
ExecKeeping ==
    /\ Running /\ Request = "EXEC"
    /\ Answer("results")
    /\ log' = log \o [j \in DOMAIN Me.queue |-> Execution(Me.queue[j])]
    /\ UNCHANGED clients

Exec ==
    /\ Running /\ Request = "EXEC"
    /\ IF ~Me.inMulti
       THEN Answer("error") /\ UNCHANGED <<clients, log>>
       ELSE /\ Answer("results")
            /\ log' = log \o [j \in DOMAIN Me.queue |-> Execution(Me.queue[j])]
            /\ clients' = [clients EXCEPT ![cur].inMulti = FALSE, ![cur].queue = << >>]

Quit ==
    /\ Running /\ Request = "QUIT"
    /\ Answer("bye")
    /\ UNCHANGED <<clients, log>>

Enqueue ==
    /\ Running /\ Request = "PLAIN" /\ Me.inMulti
    /\ Answer("queued")
    /\ clients' = [clients EXCEPT ![cur].queue = Append(@, reply.req)]
    /\ UNCHANGED log

Execute ==
    /\ Running /\ Request = "PLAIN" /\ ~Me.inMulti
    /\ Answer("result")
    /\ log' = Append(log, Execution(reply.req))
    /\ UNCHANGED clients

\* Mutant: the reply stays in the bufio.Writer.
WriteUnflushed ==
    /\ pc = "write"
    /\ pc' = "batch"
    /\ UNCHANGED <<network, fds, clients, batch, cur, part, reply, log>>

\* rawConn.Write tries until the kernel takes the reply.
Write ==
    /\ pc = "write"
    /\ ~eof[fds[cur]] /\ Len(outbox[fds[cur]]) < SendRoom
    /\ IF reply.kind = "bye"
       THEN /\ status' = [status EXCEPT ![fds[cur]] = "gone"]
            /\ inbox' = [inbox EXCEPT ![fds[cur]] = << >>]
            /\ fds' = [fds EXCEPT ![cur] = None]
            /\ clients' = [clients EXCEPT ![cur] = None]
       ELSE UNCHANGED <<status, inbox, fds, clients>>
    /\ outbox' = [outbox EXCEPT ![fds[cur]] = Append(@, reply)]
    /\ pc' = "batch"
    /\ UNCHANGED <<sent, eof, got, batch, cur, part, reply, log>>

\* The client has closed.  The write may fail, which ends the connection only
\* after commands that were executed, or be taken and lost.
WriteToNobody ==
    /\ pc = "write"
    /\ eof[fds[cur]]
    /\ \/ reply.kind \in {"bye", "result", "results"} /\ Remove
       \/ reply.kind # "bye" /\ pc' = "batch" /\ UNCHANGED <<network, fds, clients>>
    /\ UNCHANGED <<batch, cur, part, reply, log>>

-----------------------------------------------------------------------------
Init ==
    /\ status = [c \in Conns |-> "new"]
    /\ sent = [c \in Conns |-> 0]
    /\ inbox = [c \in Conns |-> << >>]
    /\ eof = [c \in Conns |-> FALSE]
    /\ outbox = [c \in Conns |-> << >>]
    /\ got = [c \in Conns |-> << >>]
    /\ fds = [fd \in Fds |-> None]
    /\ clients = [fd \in Fds |-> None]
    /\ batch = {} /\ pc = "wait" /\ cur = ServerFd /\ part = 0
    /\ reply = None
    /\ log = << >>

Loop == \/ Wait \/ Pick \/ Accept \/ Parse \/ Fill \/ Fail
        \/ Malformed \/ Multi \/ Discard \/ Exec \/ Quit \/ Enqueue \/ Execute \/ Write \/ WriteToNobody

Next == Loop \/ \E c \in Conns : Connect(c) \/ Send(c) \/ Receive(c) \/ CloseByClient(c)

Spec == Init /\ [][Next]_vars

\* The loop runs whenever it can; clients need not do anything.
LoopSpec == Spec /\ WF_vars(Loop)

\* Clients complete the requests they have begun to send, and read.
Finish(c) == ~InWhole(c) /\ Send(c)
FairSpec == LoopSpec /\ \A c \in Conns : WF_vars(Finish(c)) /\ WF_vars(Receive(c))

-----------------------------------------------------------------------------
TypeOK ==
    /\ pc \in {"wait", "batch", "accept", "parse", "run", "write"}
    /\ part \in 0 .. 3
    /\ \A c \in Conns : sent[c] \in 0 .. 3 * Len(Program[c]) /\ Len(outbox[c]) <= SendRoom
    \* the descriptor table and Server.clients agree
    /\ \A fd \in Fds : IF fds[fd] = None THEN clients[fd] = None ELSE status[fds[fd]] = "open"
    \* handleClient never meets an unknown descriptor
    /\ \A fd \in batch \ {ServerFd} : clients[fd] # None

(* What a connection is owed, by the requests it has sent and nothing else: *)
(* the reference the server is compared with.                               *)
Open(p, i) == \E m \in 1 .. i - 1 : p[m] = "MULTI" /\ \A j \in m + 1 .. i - 1 : p[j] \notin {"EXEC", "DISCARD"}

Body(p, e) == {i \in 1 .. e - 1 : /\ p[i] = "PLAIN" /\ Open(p, i)
                                  /\ \A j \in i + 1 .. e - 1 : p[j] \notin {"EXEC", "DISCARD"}}

Owed(p, i) ==
    CASE p[i] = "MULTI"   -> IF Open(p, i) THEN "error" ELSE "ok"
      [] p[i] = "DISCARD" -> IF Open(p, i) THEN "ok" ELSE "error"
      [] p[i] = "EXEC"    -> IF Open(p, i) THEN "results" ELSE "error"
      [] p[i] = "BAD"     -> "error"
      [] p[i] = "PLAIN"   -> IF Open(p, i) THEN "queued" ELSE "result"
      [] p[i] = "QUIT"    -> "bye"
      [] p[i] = "GARBLED" -> "nothing"

Effects(p, n) ==
    {<<i, i>> : i \in {j \in 1 .. n : p[j] = "PLAIN" /\ ~Open(p, j)}}
      \cup UNION {{<<i, e>> : i \in Body(p, e)} : e \in {j \in 1 .. n : p[j] = "EXEC" /\ Open(p, j)}}

(* Every connection gets the replies to its own requests, one each and in   *)
(* the order it sent them, whatever other connections do, however the bytes *)
(* are cut and whichever descriptor it was given after someone else.        *)
RepliesInOrder ==
    \A c \in Conns :
        LET replies == got[c] \o outbox[c]
        IN \A i \in DOMAIN replies :
             replies[i] = [conn |-> c, req |-> i, kind |-> Owed(Program[c], i)]

(* The commands executed for a connection are those of a prefix of its      *)
(* requests, once each and in order: a queued command by the EXEC of its    *)
(* transaction, never after DISCARD, and never for another connection.      *)
Executed(c) == {k \in DOMAIN log : log[k].conn = c}
Effected(c) == {<<log[k].req, log[k].by>> : k \in Executed(c)}

ExecutedAsSent ==
    \A c \in Conns :
        /\ \A j, k \in Executed(c) : j < k => log[j].req < log[k].req
        /\ \E n \in Len(got[c] \o outbox[c]) .. Whole(c) : Effected(c) = Effects(Program[c], n)

(* Every request is answered, unless the connection ends. *)
RequestsAnswered ==
    \A c \in Conns : \A i \in DOMAIN Program[c] :
        (Whole(c) >= i) ~> (Len(got[c] \o outbox[c]) >= i \/ status[c] = "gone" \/ eof[c])

=============================================================================
