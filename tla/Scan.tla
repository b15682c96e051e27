-------------------------------- MODULE Scan ---------------------------------
(***************************************************************************)
(* SCAN (DB.Scan in src/store/store.go, cmdScan in src/commands/key.go)    *)
(* and a client that iterates with it, while others add and delete keys.   *)
(* A cursor is an index into a list of the live keys that each call makes  *)
(* anew from a Go map, whose order is different every time.                *)
(***************************************************************************)
EXTENDS Integers, FiniteSets, SequencesExt

CONSTANTS
    Key,        \* keys
    Filters,    \* sets of keys that MATCH and TYPE let through
    Counts,     \* the COUNTs clients ask for
    MaxChanges  \* bound: keys added or deleted during an iteration

ASSUME FilterAssumption == Filters \subseteq SUBSET Key
ASSUME CountAssumption  == Counts \subseteq Int
ASSUME ChangeAssumption == MaxChanges \in Nat

VARIABLES
    keys,       \* the live keys
    scan,       \* the iteration in progress: its filter, COUNT and cursor; or NoScan
    returned,   \* what the last call returned
    seen,       \* history: every key the iteration has returned
    stayed,     \* history: the keys that were there from its beginning
    changes     \* history: keys added or deleted since its beginning

svars == <<keys, scan, returned, seen, stayed, changes>>

NoScan == [on |-> FALSE]

Total == Cardinality(keys)

-----------------------------------------------------------------------------
\* A COUNT that is missing, not a number or not positive is 10.
Wanted(count) == IF count > 0 THEN count ELSE 10

\* Mutant: the first key is looked at again in the end.
AroundAgain(list, start) == [i \in 1 .. Len(list) + 1 |-> list[((start + i - 1) % Len(list)) + 1]]

\* The order the keys are looked at in.
Around(list, start) == [i \in 1 .. Len(list) |-> list[((start + i - 1) % Len(list)) + 1]]

FirstOf(s, n) == SubSeq(s, 1, IF Len(s) < n THEN Len(s) ELSE n)

Result(list, filter, start, count) ==
    FirstOf(SelectSeq(Around(list, start), LAMBDA k : k \in filter), count)

\* Mutant: the cursor goes on from the end of the list, not round.
NextCursorStraight(result, start, count) == IF Len(result) = count THEN start + count ELSE 0

NextCursor(result, start, count) == IF Len(result) = count THEN (start + count) % Total ELSE 0

BeginScan(filter, count) ==
    /\ ~scan.on
    /\ scan' = [on |-> TRUE, filter |-> filter, count |-> Wanted(count), cursor |-> 0]
    /\ returned' = << >> /\ seen' = {} /\ stayed' = keys /\ changes' = 0
    /\ UNCHANGED keys

\* One call with the cursor of the one before; cursor 0 ends the iteration.
Call ==
    /\ scan.on
    /\ IF keys = {}
       THEN returned' = << >> /\ scan' = NoScan
       ELSE \E list \in SetToSeqs(keys) :
              LET start  == scan.cursor % Total
                  result == Result(list, scan.filter, start, scan.count)
                  next   == NextCursor(result, start, scan.count)
              IN /\ returned' = result
                 /\ scan' = IF next = 0 THEN NoScan ELSE [scan EXCEPT !.cursor = next]
    /\ seen' = seen \cup ToSet(returned')
    /\ UNCHANGED <<keys, stayed, changes>>

Change(K) ==
    /\ scan.on => changes < MaxChanges
    /\ keys' = K
    /\ stayed' = IF scan.on THEN stayed \cap K ELSE {}
    /\ seen' = IF scan.on THEN seen ELSE {}
    /\ changes' = IF scan.on THEN changes + 1 ELSE 0
    /\ UNCHANGED <<scan, returned>>

AddKey(k)    == k \notin keys /\ Change(keys \cup {k})
DeleteKey(k) == k \in keys /\ Change(keys \ {k})

InitScan == keys = {} /\ scan = NoScan /\ returned = << >> /\ seen = {} /\ stayed = {} /\ changes = 0

NextScan ==
    \/ Call
    \/ \E filter \in Filters, count \in Counts : BeginScan(filter, count)
    \/ \E k \in Key : AddKey(k) \/ DeleteKey(k)

SpecScan == InitScan /\ [][NextScan]_svars /\ WF_svars(Call)

-----------------------------------------------------------------------------
(* A call returns as many keys as it was asked for, or all there are: live, *)
(* matching and no key twice, wherever the cursor comes from.               *)
CallsReturnKeys ==
    [][scan.on /\ Call =>
         /\ IsInjective(returned')
         /\ ToSet(returned') \subseteq keys \cap scan.filter
         /\ Len(returned') = Min({scan.count, Cardinality(keys \cap scan.filter)})]_svars

(* An iteration ends, whatever COUNT and filter, if no key comes or goes    *)
(* meanwhile.  (After a change the cursors may go round without meeting 0:  *)
(* with COUNT 2 and 3 keys they are 0, 2, 1; a fourth key, and they are 3,  *)
(* 1, 3, 1 ...)                                                             *)
QuietScansEnd == (scan.on /\ changes = 0) ~> (~scan.on \/ changes > 0)

(* An iteration that has ended returned every key that was there all along. *)
ScansAreComplete ==
    [][Call /\ ~scan'.on => stayed \cap scan.filter \subseteq seen']_svars

=============================================================================
