----------------------------- MODULE LinkedList -----------------------------
(***************************************************************************)
(* The doubly linked list of src/datastructures/list.go: nodes, head, tail *)
(* and length.  An operation that follows pointers is a loop, one          *)
(* iteration a step; `call' is the loop in progress.  Callers run on one   *)
(* goroutine, so an operation starts when the one before has returned.     *)
(***************************************************************************)
EXTENDS ListValues

CONSTANTS
    Addr,       \* addresses of nodes; a bound: nobody pushes when all are used
    Value,      \* elements
    Ints,       \* the integers callers pass as indices and counts
    Null,       \* nil
    Pending     \* the reply of a call that has not returned

ASSUME AddressAssumption == IsFiniteSet(Addr) /\ Null \notin Addr
ASSUME IntsAssumption    == Ints \subseteq Int

\* What the operations return.
Operations == {"New", "LPush", "RPush", "LPop", "RPop", "Index", "Set", "Range", "Trim",
               "InsertBefore", "InsertAfter", "Remove"}
Replies ==
    [op : Operations, args : Seq(Int \cup Value),
     is : Int \cup BOOLEAN \cup Value \cup {Null} \cup Seq(Value)]

ASSUME PendingAssumption == Pending \notin Replies

VARIABLES
    node,       \* [Addr -> [value, prev, next]]
    head, tail, length,
    call,       \* the loop in progress, or Idle
    reply,      \* the last operation, its arguments and what it returned
    chain       \* history: the addresses in the order the operations gave them

list == <<node, head, tail, length, chain>>
vars == <<list, call, reply>>

Idle  == [op |-> "none"]
Blank == [value |-> Null, prev |-> Null, next |-> Null]

\* What nothing refers to any more is collected.
Collected(f, s) == [a \in Addr |-> IF a \in ToSet(s) THEN f[a] ELSE Blank]

Values == [p \in DOMAIN chain |-> node[chain[p]].value]

Position(a) == CHOOSE p \in DOMAIN chain : chain[p] = a

-----------------------------------------------------------------------------
(* Pointers *)

SetNext(f, a, b) == IF a = Null THEN f ELSE [f EXCEPT ![a].next = b]
SetPrev(f, a, b) == IF a = Null THEN f ELSE [f EXCEPT ![a].prev = b]

Free == Addr \ ToSet(chain)
New  == CHOOSE a \in Addr : a \in Free

\* Mutant: the neighbour at the right keeps its prev.
LinkOneWay(p, n, v) ==
    /\ node' = SetNext([node EXCEPT ![New] = [value |-> v, prev |-> p, next |-> n]], p, New)
    /\ head' = IF p = Null THEN New ELSE head
    /\ tail' = IF n = Null THEN New ELSE tail
    /\ length' = length + 1
    /\ chain' = InsertAt(chain, IF p = Null THEN 1 ELSE Position(p) + 1, New)

\* A new node between p and n, either of which may be nil.
Link(p, n, v) ==
    /\ node' = SetPrev(SetNext([node EXCEPT ![New] = [value |-> v, prev |-> p, next |-> n]], p, New), n, New)
    /\ head' = IF p = Null THEN New ELSE head
    /\ tail' = IF n = Null THEN New ELSE tail
    /\ length' = length + 1
    /\ chain' = InsertAt(chain, IF p = Null THEN 1 ELSE Position(p) + 1, New)

\* The node a, whose neighbours are p and n, leaves the list.
Unlink(a, p, n) ==
    /\ chain' = RemoveAt(chain, Position(a))
    /\ node' = Collected(SetPrev(SetNext(node, p, n), n, p), chain')
    /\ head' = IF p = Null THEN n ELSE head
    /\ tail' = IF n = Null THEN p ELSE tail
    /\ length' = length - 1

Begin(c) == call' = c /\ reply' = Pending

Return(op, args, x) == call' = Idle /\ reply' = [op |-> op, args |-> args, is |-> x]

-----------------------------------------------------------------------------
(* Operations without a loop; LPUSH of several elements is several LPush.  *)

LPush(v) ==
    /\ call = Idle /\ Free # {}
    /\ Link(Null, head, v)
    /\ Return("LPush", <<v>>, length')

RPush(v) ==
    /\ call = Idle /\ Free # {}
    /\ Link(tail, Null, v)
    /\ Return("RPush", <<v>>, length')

LPop ==
    /\ call = Idle
    /\ IF head = Null THEN UNCHANGED list /\ Return("LPop", << >>, Null)
       ELSE Unlink(head, Null, node[head].next) /\ Return("LPop", << >>, node[head].value)

RPop ==
    /\ call = Idle
    /\ IF tail = Null THEN UNCHANGED list /\ Return("RPop", << >>, Null)
       ELSE Unlink(tail, node[tail].prev, Null) /\ Return("RPop", << >>, node[tail].value)

-----------------------------------------------------------------------------
(* nodeAt, and the operations that start with it                           *)

FromEnd(i) == IF i < 0 THEN length + i ELSE i
Within(i)  == FromEnd(i) \in 0 .. length - 1

\* normalizeRange
Lower(i) == IF FromEnd(i) < 0 THEN 0 ELSE FromEnd(i)
Upper(i) == IF FromEnd(i) >= length THEN length - 1 ELSE FromEnd(i)

\* Mutant: the walk from the head goes one node too far (i <= idx).
SeekLate(op, args, index) ==
    LET near == index < length \div 2 IN
    [op |-> op, args |-> args, to |-> IF near THEN index + 1 ELSE index,
     at |-> IF near THEN head ELSE tail, i |-> IF near THEN 0 ELSE length - 1]

\* The search for index starts at the nearer end.
Seek(op, args, index) ==
    LET near == index < length \div 2 IN
    [op |-> op, args |-> args, to |-> index,
     at |-> IF near THEN head ELSE tail, i |-> IF near THEN 0 ELSE length - 1]

Index(i) ==
    /\ call = Idle
    /\ IF Within(i) THEN Begin(Seek("Index", <<i>>, FromEnd(i))) ELSE Return("Index", <<i>>, Null)
    /\ UNCHANGED list

Set(i, v) ==
    /\ call = Idle
    /\ IF Within(i) THEN Begin(Seek("Set", <<i, v>>, FromEnd(i))) ELSE Return("Set", <<i, v>>, FALSE)
    /\ UNCHANGED list

GetRange(i, j) ==
    /\ call = Idle
    /\ IF Lower(i) <= Upper(j) THEN Begin(Seek("Range", <<i, j>>, Lower(i)))
       ELSE Return("Range", <<i, j>>, << >>)
    /\ UNCHANGED list

TrimTo(i, j) ==
    /\ call = Idle
    /\ IF Lower(i) <= Upper(j) THEN Begin(Seek("Trim", <<i, j>>, Lower(i))) /\ UNCHANGED list
       ELSE /\ node' = Collected(node, << >>) /\ chain' = << >>
            /\ head' = Null /\ tail' = Null /\ length' = 0
            /\ Return("Trim", <<i, j>>, 0)

Seekers == {"Index", "Set", "Range", "Trim", "TrimEnd"}

Walk ==
    /\ call.op \in Seekers /\ call.i # call.to
    /\ call' = IF call.i < call.to
               THEN [call EXCEPT !.i = @ + 1, !.at = node[@].next]
               ELSE [call EXCEPT !.i = @ - 1, !.at = node[@].prev]
    /\ UNCHANGED <<list, reply>>

Arrived(op) == call.op = op /\ call.i = call.to

IndexFound == Arrived("Index") /\ Return("Index", call.args, node[call.at].value) /\ UNCHANGED list

SetFound ==
    /\ Arrived("Set")
    /\ node' = [node EXCEPT ![call.at].value = call.args[2]]
    /\ Return("Set", call.args, TRUE)
    /\ UNCHANGED <<head, tail, length, chain>>

RangeFound ==
    /\ Arrived("Range")
    /\ call' = [op |-> "Collect", args |-> call.args, at |-> call.at, i |-> call.i, result |-> << >>]
    /\ UNCHANGED <<list, reply>>

Collect ==
    /\ call.op = "Collect"
    /\ IF call.i <= Upper(call.args[2]) /\ call.at # Null
       THEN /\ call' = [call EXCEPT !.i = @ + 1, !.at = node[@].next,
                                    !.result = Append(@, node[call.at].value)]
            /\ UNCHANGED reply
       ELSE Return("Range", call.args, call.result)
    /\ UNCHANGED list

\* newHead is found; nodeAt(stop) comes next.
TrimFound ==
    /\ Arrived("Trim")
    /\ LET s == Seek("TrimEnd", call.args, Upper(call.args[2])) IN
       call' = [op |-> s.op, args |-> s.args, to |-> s.to, at |-> s.at, i |-> s.i, first |-> call.at]
    /\ UNCHANGED <<list, reply>>

TrimEndFound ==
    /\ Arrived("TrimEnd")
    /\ chain' = SubSeq(chain, Lower(call.args[1]) + 1, call.to + 1)
    /\ node' = Collected(SetNext(SetPrev(node, call.first, Null), call.at, Null), chain')
    /\ head' = call.first /\ tail' = call.at
    /\ length' = call.to - Lower(call.args[1]) + 1
    /\ Return("Trim", call.args, length')

-----------------------------------------------------------------------------
(* InsertBefore and InsertAfter *)

InsertNextTo(op, pivot, v) ==
    /\ call = Idle /\ Free # {}
    /\ Begin([op |-> op, args |-> <<pivot, v>>, at |-> head])
    /\ UNCHANGED list

Inserters == {"InsertBefore", "InsertAfter"}

InsertLooksOn ==
    /\ call.op \in Inserters /\ call.at # Null /\ node[call.at].value # call.args[1]
    /\ call' = [call EXCEPT !.at = node[@].next]
    /\ UNCHANGED <<list, reply>>

InsertMisses ==
    /\ call.op \in Inserters /\ call.at = Null
    /\ Return(call.op, call.args, -1)
    /\ UNCHANGED list

InsertFound ==
    /\ call.op \in Inserters /\ call.at # Null /\ node[call.at].value = call.args[1]
    /\ IF call.op = "InsertBefore" THEN Link(node[call.at].prev, call.at, call.args[2])
       ELSE Link(call.at, node[call.at].next, call.args[2])
    /\ Return(call.op, call.args, length')

-----------------------------------------------------------------------------
(* Remove *)

RemoveElement(n, v) ==
    /\ call = Idle
    /\ Begin([op |-> "Remove", args |-> <<n, v>>, at |-> IF n < 0 THEN tail ELSE head,
              removed |-> 0, was |-> Values])
    /\ UNCHANGED list

Goes(n) == call.at # Null /\ (n = 0 \/ call.removed < (IF n < 0 THEN -n ELSE n))

\* Mutant: the cursor stays at a node that stays.
RemoveStuck ==
    /\ call.op = "Remove" /\ Goes(call.args[1])
    /\ LET a    == call.at
           next == IF call.args[1] < 0 THEN node[a].prev ELSE node[a].next
       IN IF node[a].value = call.args[2]
          THEN Unlink(a, node[a].prev, node[a].next)
                 /\ call' = [call EXCEPT !.at = next, !.removed = @ + 1]
          ELSE UNCHANGED <<list, call>>
    /\ UNCHANGED reply

\* `next' is read before the node is unlinked.
RemoveStep ==
    /\ call.op = "Remove" /\ Goes(call.args[1])
    /\ LET a    == call.at
           next == IF call.args[1] < 0 THEN node[a].prev ELSE node[a].next
       IN IF node[a].value = call.args[2]
          THEN Unlink(a, node[a].prev, node[a].next)
                 /\ call' = [call EXCEPT !.at = next, !.removed = @ + 1]
          ELSE UNCHANGED list /\ call' = [call EXCEPT !.at = next]
    /\ UNCHANGED reply

RemoveEnds ==
    /\ call.op = "Remove" /\ ~Goes(call.args[1])
    /\ Return("Remove", call.args, call.removed)
    /\ UNCHANGED list

-----------------------------------------------------------------------------
Init ==
    /\ node = [a \in Addr |-> Blank] /\ head = Null /\ tail = Null /\ length = 0 /\ chain = << >>
    /\ call = Idle /\ reply = [op |-> "New", args |-> << >>, is |-> 0]

\* A caller uses the list.
Use ==
    \/ LPop \/ RPop
    \/ \E v \in Value : LPush(v) \/ RPush(v)
    \/ \E i \in Ints : Index(i) \/ \E v \in Value : Set(i, v) \/ RemoveElement(i, v)
    \/ \E i, j \in Ints : GetRange(i, j) \/ TrimTo(i, j)
    \/ \E op \in Inserters, pivot, v \in Value : InsertNextTo(op, pivot, v)

\* The loop goes on.
Step ==
    \/ Walk \/ IndexFound \/ SetFound \/ RangeFound \/ Collect \/ TrimFound \/ TrimEndFound
    \/ InsertLooksOn \/ InsertMisses \/ InsertFound \/ RemoveStep \/ RemoveEnds

Next == Use \/ Step

Spec == Init /\ [][Next]_vars /\ WF_vars(Step)

-----------------------------------------------------------------------------
(* Both directions of the pointers, head, tail and length tell of the same  *)
(* sequence of nodes, whatever was pushed, inserted, removed or trimmed,    *)
(* and in the middle of a Remove.                                           *)
Linked ==
    /\ length = Len(chain)
    /\ head = IF chain = << >> THEN Null ELSE chain[1]
    /\ tail = IF chain = << >> THEN Null ELSE chain[Len(chain)]
    /\ \A p \in DOMAIN chain :
         /\ \A q \in DOMAIN chain : p # q => chain[p] # chain[q]
         /\ node[chain[p]].next = IF p = Len(chain) THEN Null ELSE chain[p + 1]
         /\ node[chain[p]].prev = IF p = 1 THEN Null ELSE chain[p - 1]

(* The list does to its sequence of elements what ListValues, and so        *)
(* ListCommands, says it does, with the same reply for the same arguments;  *)
(* a Remove under way counts as not yet done.                               *)
Contract == INSTANCE ListContract WITH seq <- IF call.op = "Remove" THEN call.was ELSE Values
ImplementsList == Contract!Spec

(* Every loop over the pointers ends and its caller gets a reply.           *)
CallsReturn == (reply = Pending) ~> (reply # Pending)

=============================================================================
