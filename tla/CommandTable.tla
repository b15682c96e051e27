---------------------------- MODULE CommandTable ----------------------------
(***************************************************************************)
(* The command table of src/commands/registry.go: the handlers of all      *)
(* families on one database.  The event loop runs one handler at a time,   *)
(* to its end.                                                             *)
(***************************************************************************)
EXTENDS StringCommands, ListCommands, HashCommands, SetCommands, ZSetCommands

\* A wrong number of arguments or one that does not parse, found before the
\* handler touches the database.
BadArguments == \E cmd \in Commands : Reject(cmd, {})

Next ==
    \/ BadArguments
    \/ KeyNext
    \/ StringNext
    \/ ListNext
    \/ HashNext
    \/ SetNext
    \/ ZNext

Spec == KeyspaceInit /\ [][Next]_vars

-----------------------------------------------------------------------------
(* Every Object is well formed and points to contents of its type. *)
TypeOK ==
    /\ db.data \in [Key -> {Absent} \cup Object]
    /\ DOMAIN db.heap = Ref
    /\ \A k \in Key : db.data[k].type \in Containers => IsContents(db.data[k].type, Contents(db, k))
    /\ now \in 0 .. MaxTime
    /\ last.cmd \in Commands \cup {"none"} /\ last.keys \subseteq Key

(* No handler leaves an empty hash or set behind: SRANDMEMBER draws an      *)
(* index below the number of members without asking whether there is one,   *)
(* and rand.Intn(0) panics.                                                 *)
MapsAreNeverEmpty ==
    \A k \in Key : db.data[k].type \in {"hash", "set"} => ~IsEmpty(db.data[k].type, Contents(db, k))

Shared(j, k) ==
    /\ j # k
    /\ {db.data[j].type, db.data[k].type} \subseteq Containers
    /\ db.data[j].val = db.data[k].val

(* A hash or a set belongs to one key, whatever was copied, renamed, moved  *)
(* or stored; two names of one list or sorted set agree on its type, or     *)
(* the type assertion in getList or getZSet would panic.                    *)
SharingIsTyped ==
    \A j, k \in Key : Shared(j, k) =>
        db.data[j].type = db.data[k].type /\ db.data[j].type \in {"list", "zset"}

-----------------------------------------------------------------------------
(* What a client can see of the database: the keys that have not expired,   *)
(* with the contents of their containers.                                   *)
Entry(s, k) ==
    IF ~Live(s, k) THEN Absent
    ELSE [type |-> s.data[k].type,
          val  |-> IF s.data[k].type = "string" THEN s.data[k].val ELSE Contents(s, k),
          exp  |-> s.data[k].exp]

View == [k \in Key |-> Entry(db, k)]

-----------------------------------------------------------------------------
Contract == INSTANCE KeyspaceContract WITH view <- View, clock <- now

(* Every command does to the visible keys what its class allows and nothing *)
(* to a key it does not name, and expired keys stay invisible: the handlers *)
(* implement the contract.                                                  *)
ImplementsContract == Contract!Spec

-----------------------------------------------------------------------------
(* A command reaches no other key than those it names and those that share  *)
(* a list or a sorted set with one of them, as a copied one does            *)
(* (copyObject); of these it changes the value only.  No hash, set or       *)
(* string, no expiry and no other key follows it, whatever was copied,      *)
(* renamed, stored and expired before.                                      *)
OnlyAliasesFollow ==
    [][\A k \in Key \ last'.keys :
        LET old == Contract!Visible(View[k], now')
        IN View'[k] # old =>
              /\ old.type \in {"list", "zset"}
              /\ \E j \in last'.keys : Shared(j, k)
              /\ View'[k] = [old EXCEPT !.val = View'[k].val]]_vars

-----------------------------------------------------------------------------
\* The step runs the command cmd: the clock alone leaves the database as it is.
Ran(cmd)       == last'.cmd = cmd /\ (now' = now \/ db' # db)
\* It gets an answer other than an error.
Succeeded(cmd) == Ran(cmd) /\ last'.reply.kind # "error"

Positions(v) == UNION {{k} \X DOMAIN v[k].val : k \in {k \in Key : v[k].type = "list"}}
TotalLength(v) == Cardinality(Positions(v))

\* The keys the command names that expire while it runs.
Overtaken == {k \in last'.keys : Live(db, k) /\ ExpiredAt(db, k, now')}

(* RPOPLPUSH and LMOVE lose no element of a list, whatever they reply, when *)
(* no time passes meanwhile.                                                *)
MovesKeepElements ==
    [][now' = now /\ (Ran("RPOPLPUSH") \/ Ran("LMOVE")) => TotalLength(View') = TotalLength(View)]_vars

(* They neither lose nor duplicate one when they succeed, from one list to  *)
(* another or around the same one, which may cease to exist in between.  Of *)
(* a list that expires while they run, the element they took is saved, and  *)
(* nothing else: the count is that of what is left at the end.              *)
MovesConserve ==
    [][Succeeded("RPOPLPUSH") \/ Succeeded("LMOVE") =>
        \E saved \in {0, 1} :
           /\ TotalLength(View') = TotalLength(Contract!Left(View, now')) + saved
           /\ Overtaken \in {{}, last'.keys} => (saved = 1 <=> Overtaken # {})]_vars

=============================================================================
