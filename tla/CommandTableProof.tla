-------------------------- MODULE CommandTableProof --------------------------
(***************************************************************************)
(* Type correctness of the command table, for all values of the constants. *)
(***************************************************************************)
EXTENDS CommandTable, TLAPS, FiniteSetTheorems

-----------------------------------------------------------------------------
(* What every handler keeps true of the pair s = [data, heap].             *)

WellFormed(s) ==
    /\ s = [data |-> s.data, heap |-> s.heap]
    /\ s.data \in [Key -> {Absent} \cup Object]
    /\ s.heap = [r \in Ref |-> s.heap[r]]

ContainersTyped(s) ==
    \A k \in Key : s.data[k].type \in Containers => IsContents(s.data[k].type, Contents(s, k))

NoEmptyMap(s) ==
    \A k \in Key : s.data[k].type \in {"hash", "set"} =>
                       ~IsEmpty(s.data[k].type, Contents(s, k))

SharedListsOnly(s) ==
    \A j, k \in Key :
        /\ j # k
        /\ s.data[j].type \in Containers /\ s.data[k].type \in Containers
        /\ s.data[j].val = s.data[k].val
        => s.data[j].type = s.data[k].type /\ s.data[j].type \in {"list", "zset"}

Good(s) == WellFormed(s) /\ ContainersTyped(s) /\ NoEmptyMap(s) /\ SharedListsOnly(s)

IInv ==
    /\ Good(db)
    /\ now \in 0 .. MaxTime
    /\ last.cmd \in Commands \cup {"none"} /\ last.keys \subseteq Key

-----------------------------------------------------------------------------
(* Objects *)

LEMMA ObjectCases ==
    ASSUME NEW o \in {Absent} \cup Object
    PROVE  /\ o.type = "none" \/ o.type = "string" \/ o.type \in Containers
           /\ o.type = "none" <=> o = Absent
           /\ o.type # "none" => o = [type |-> o.type, val |-> o.val, exp |-> o.exp] /\ o.exp \in Expiry
           /\ o.type = "string" => o.val \in Str
           /\ o.type \in Containers => o.val \in Ref
  BY DEF Absent, Object, Containers

LEMMA ObjectTypes ==
    ASSUME NEW e \in Expiry
    PROVE  /\ \A v \in Str : StringObject(v, e) \in Object /\ StringObject(v, e).type = "string"
           /\ \A t \in Containers, r \in Ref :
                 /\ ContainerObject(t, r, e) \in Object
                 /\ ContainerObject(t, r, e).type = t /\ ContainerObject(t, r, e).val = r
  BY DEF StringObject, ContainerObject, Object, Containers

LEMMA StringIsNoContainer == "none" \notin Containers /\ "string" \notin Containers
                               /\ Containers = {"list", "hash", "set", "zset"}
  BY DEF Containers

-----------------------------------------------------------------------------
(* The operations of DB *)

\* An operation that leaves the containers alone: each key that holds one in u
\* takes it from the key f[k] of s, and only lists and sorted sets are taken
\* by two keys.
LEMMA Rearranged ==
    ASSUME NEW s, Good(s), NEW u, WellFormed(u), u.heap = s.heap,
           NEW f \in [Key -> Key],
           \A k \in Key : u.data[k].type \in Containers =>
               u.data[k].type = s.data[f[k]].type /\ u.data[k].val = s.data[f[k]].val,
           \A j, k \in Key :
               /\ j # k /\ f[j] = f[k]
               /\ u.data[j].type \in Containers /\ u.data[k].type \in Containers
               => u.data[j].type \in {"list", "zset"}
    PROVE  Good(u)
<1>1. ContainersTyped(u)
  BY DEF Good, ContainersTyped, Contents
<1>2. NoEmptyMap(u)
  BY StringIsNoContainer DEF Good, NoEmptyMap, Contents
<1>3. SharedListsOnly(u)
  <2> SUFFICES ASSUME NEW j \in Key, NEW k \in Key, j # k,
                      u.data[j].type \in Containers, u.data[k].type \in Containers,
                      u.data[j].val = u.data[k].val
               PROVE  u.data[j].type = u.data[k].type /\ u.data[j].type \in {"list", "zset"}
    BY DEF SharedListsOnly
  <2>1. CASE f[j] = f[k]
    BY <2>1
  <2>2. CASE f[j] # f[k]
    BY <2>2 DEF Good, SharedListsOnly
  <2> QED BY <2>1, <2>2
<1> QED BY <1>1, <1>2, <1>3 DEF Good

\* The same, when every key keeps its own.
LEMMA Kept ==
    ASSUME NEW s, Good(s), NEW u, WellFormed(u), u.heap = s.heap,
           \A k \in Key : u.data[k].type \in Containers =>
               u.data[k].type = s.data[k].type /\ u.data[k].val = s.data[k].val
    PROVE  Good(u)
<1> DEFINE f == [k \in Key |-> k]
<1>1. f \in [Key -> Key] /\ \A k \in Key : f[k] = k
  OBVIOUS
<1> HIDE DEF f
<1> QED BY <1>1, Rearranged

LEMMA DeleteAllGood ==
    ASSUME NEW s, Good(s), NEW K \in SUBSET Key
    PROVE  Good(DeleteAll(s, K))
<1> DEFINE u == DeleteAll(s, K)
<1>1. WellFormed(u)
  BY DEF Good, WellFormed, DeleteAll
<1>2. /\ u.heap = s.heap
      /\ \A k \in Key : u.data[k].type # "none" => u.data[k] = s.data[k]
  BY DEF Good, WellFormed, DeleteAll, Absent
<1> HIDE DEF u
<1> QED BY <1>1, <1>2, Kept, StringIsNoContainer DEF u

LEMMA DeleteGood ==
    ASSUME NEW s, Good(s), NEW k \in Key
    PROVE  Good(Delete(s, k))
<1>1. Delete(s, k) = DeleteAll(s, {k})
  BY DEF Delete, DeleteAll, Good, WellFormed
<1> QED BY <1>1, DeleteAllGood

LEMMA LookupGood ==
    ASSUME NEW s, Good(s), NEW k \in Key
    PROVE  Good(Lookup(s, k))
  BY DeleteGood DEF Lookup

LEMMA LookupAtGood ==
    ASSUME NEW s, Good(s), NEW k \in Key, NEW t
    PROVE  Good(LookupAt(s, k, t))
  BY DeleteGood DEF LookupAt

LEMMA LookupAllGood ==
    ASSUME NEW s, Good(s), NEW K \in SUBSET Key
    PROVE  Good(LookupAll(s, K))
<1>1. {k \in K : Stored(s, k) /\ ~Live(s, k)} \in SUBSET Key
  OBVIOUS
<1> QED BY <1>1, DeleteAllGood DEF LookupAll

\* Some keys get strings.
LEMMA SetAllGood ==
    ASSUME NEW s, Good(s), NEW K \in SUBSET Key, NEW V \in [K -> Str]
    PROVE  Good(SetAll(s, V))
<1> DEFINE u == SetAll(s, V)
<1>1. \A k \in K : StringObject(V[k], Never) \in Object /\ StringObject(V[k], Never).type = "string"
  BY ObjectTypes DEF Expiry
<1>2. WellFormed(u)
  BY <1>1 DEF Good, WellFormed, SetAll
<1>3. /\ u.heap = s.heap
      /\ \A k \in Key : u.data[k].type # "string" => u.data[k] = s.data[k]
  BY <1>1 DEF Good, WellFormed, SetAll
<1> HIDE DEF u
<1> QED BY <1>2, <1>3, Kept, StringIsNoContainer DEF u

LEMMA StoreStringGood ==
    ASSUME NEW s, Good(s), NEW k \in Key, NEW v \in Str, NEW e \in Expiry
    PROVE  Good(SetObject(s, k, StringObject(v, e)))
<1> DEFINE u == SetObject(s, k, StringObject(v, e))
<1>1. StringObject(v, e) \in Object /\ StringObject(v, e).type = "string"
  BY ObjectTypes
<1>2. WellFormed(u)
  BY <1>1 DEF Good, WellFormed, SetObject
<1>3. /\ u.heap = s.heap
      /\ \A j \in Key : u.data[j].type # "string" => u.data[j] = s.data[j]
  BY <1>1 DEF Good, WellFormed, SetObject
<1> HIDE DEF u
<1> QED BY <1>2, <1>3, Kept, StringIsNoContainer DEF u

\* Only the expiry of k changes.
LEMMA SetExpiryGood ==
    ASSUME NEW s, Good(s), NEW k \in Key, NEW e \in Expiry, Stored(s, k)
    PROVE  Good([s EXCEPT !.data[k].exp = e])
<1> DEFINE u == [s EXCEPT !.data[k].exp = e]
           o == s.data[k]
<1>1. o \in Object /\ o = [type |-> o.type, val |-> o.val, exp |-> o.exp]
  BY ObjectCases DEF Good, WellFormed, Stored
<1>2. [o EXCEPT !.exp = e] = [type |-> o.type, val |-> o.val, exp |-> e]
  BY <1>1
<1>3. [o EXCEPT !.exp = e] \in Object
  BY <1>1, <1>2 DEF Object
<1>4. u.data = [s.data EXCEPT ![k] = [o EXCEPT !.exp = e]] /\ u.heap = s.heap
        /\ u = [data |-> u.data, heap |-> u.heap]
  BY DEF Good, WellFormed
<1>5. WellFormed(u)
  BY <1>3, <1>4 DEF Good, WellFormed
<1>6. u.heap = s.heap /\ \A j \in Key : u.data[j].type = s.data[j].type /\ u.data[j].val = s.data[j].val
  BY <1>2, <1>4 DEF Good, WellFormed
<1> HIDE DEF u
<1> QED BY <1>5, <1>6, Kept DEF u

LEMMA RenameGood ==
    ASSUME NEW s, Good(s), NEW src \in Key, NEW dst \in Key, NEW t
    PROVE  Good(Rename(s, src, dst, t))
<1> DEFINE u == [s EXCEPT !.data = [k \in Key |-> CASE k = dst -> @[src]
                                                    [] k = src /\ src # dst -> Absent
                                                    [] OTHER -> @[k]]]
           f == [k \in Key |-> IF k = dst THEN src ELSE k]
<1> SUFFICES Good(u)
  BY DEF Rename
<1>1. u.heap = s.heap /\ WellFormed(u)
  BY DEF Good, WellFormed
<1>2. \A k \in Key : u.data[k].type # "none" => u.data[k] = s.data[f[k]]
  BY DEF Good, WellFormed, Absent
<1>3. \A j, k \in Key : j # k /\ f[j] = f[k] => u.data[j].type = "none" \/ u.data[k].type = "none"
  BY DEF Good, WellFormed, Absent
<1>4. f \in [Key -> Key]
  OBVIOUS
<1> HIDE DEF u, f
<1>5. \A k \in Key : u.data[k].type \in Containers =>
          u.data[k].type = s.data[f[k]].type /\ u.data[k].val = s.data[f[k]].val
  BY <1>2, StringIsNoContainer
<1>6. \A j, k \in Key :
          ~(/\ j # k /\ f[j] = f[k]
            /\ u.data[j].type \in Containers /\ u.data[k].type \in Containers)
  BY <1>3, StringIsNoContainer
<1> QED BY <1>1, <1>4, <1>5, <1>6, Rearranged

-----------------------------------------------------------------------------
(* The operations on containers *)

\* There is always a free reference: every key occupies at most one.
LEMMA FreshRefExists ==
    ASSUME NEW s
    PROVE  FreshRef(s) \in Ref /\ Free(s, FreshRef(s))
<1> DEFINE S == {k \in Key : Stored(s, k) /\ s.data[k].val \in Ref}
           g == [k \in S |-> s.data[k].val]
<1>1. IsFiniteSet(S) /\ Cardinality(S) <= Cardinality(Key)
  BY KeyAssumption, FS_Subset
<1>2. Cardinality(S) \in Nat /\ Cardinality(Key) \in Nat /\ Cardinality(Ref) \in Nat
  BY <1>1, KeyAssumption, RefAssumption, FS_CardinalityType
<1>3. ASSUME \A r \in Ref : ~Free(s, r) PROVE FALSE
  <2>1. g \in Surjection(S, Ref)
    BY <1>3 DEF Surjection, Free
  <2>2. Cardinality(Ref) <= Cardinality(S)
    BY <2>1, <1>1, FS_Surjection
  <2> QED BY <2>2, <1>1, <1>2, RefAssumption
<1> QED BY <1>3 DEF FreshRef

\* c may be what an Object of type t points to once a command is over.
Fits(t, c) == IsContents(t, c) /\ (t \in {"hash", "set"} => ~IsEmpty(t, c))

LEMMA CreateGood ==
    ASSUME NEW s, Good(s), NEW k \in Key, NEW t \in Containers, NEW c, Fits(t, c),
           NEW e \in Expiry
    PROVE  Good([Create(s, k, t, c) EXCEPT !.data[k].exp = e]) /\ Good(Create(s, k, t, c))
<1> DEFINE r == FreshRef(s)
           o == ContainerObject(t, r, Never)
           u == Create(s, k, t, c)
           w == [u EXCEPT !.data[k].exp = e]
<1>1. r \in Ref /\ \A j \in Key : Stored(s, j) => s.data[j].val # r
  BY FreshRefExists DEF Free
<1>2. o \in Object /\ o.type = t /\ o.val = r
  BY <1>1, ObjectTypes DEF Expiry
<1>3. /\ u = [data |-> [s.data EXCEPT ![k] = o], heap |-> [s.heap EXCEPT ![r] = c]]
      /\ u.data = [s.data EXCEPT ![k] = o]
      /\ u.heap = [s.heap EXCEPT ![r] = c]
  BY DEF Create
<1> HIDE DEF u, r, o
<1>4. WellFormed(u)
  BY <1>1, <1>2, <1>3 DEF Good, WellFormed
<1>5. /\ u.data[k] = o
      /\ \A j \in Key \ {k} : u.data[j] = s.data[j]
      /\ u.heap[r] = c
      /\ \A q \in Ref \ {r} : u.heap[q] = s.heap[q]
  BY <1>1, <1>3 DEF Good, WellFormed
<1>6. \A j \in Key \ {k} : s.data[j].type \in Containers => s.data[j].val \in Ref \ {r}
  BY <1>1, ObjectCases, StringIsNoContainer DEF Good, WellFormed, Stored
<1>7. ContainersTyped(u)
  BY <1>2, <1>5, <1>6 DEF Good, ContainersTyped, Contents, Fits
<1>8. NoEmptyMap(u)
  BY <1>2, <1>5, <1>6, StringIsNoContainer DEF Good, NoEmptyMap, Contents, Fits
<1>9. SharedListsOnly(u)
  BY <1>2, <1>5, <1>6 DEF Good, SharedListsOnly
<1>10. Good(u)
  BY <1>4, <1>7, <1>8, <1>9 DEF Good
<1>11. Stored(u, k)
  BY <1>2, <1>5, StringIsNoContainer DEF Stored
<1>12. Good(w)
  BY <1>10, <1>11, SetExpiryGood
<1> QED BY <1>10, <1>12 DEF u

LEMMA MutateGood ==
    ASSUME NEW s, Good(s), NEW k \in Key, s.data[k].type \in Containers,
           NEW c, Fits(s.data[k].type, c)
    PROVE  Good(Mutate(s, k, c))
<1> DEFINE r == s.data[k].val
           u == Mutate(s, k, c)
<1>1. r \in Ref
  BY ObjectCases DEF Good, WellFormed
<1>2. u.data = s.data /\ u.heap = [s.heap EXCEPT ![r] = c] /\ u = [data |-> u.data, heap |-> u.heap]
  BY DEF Good, WellFormed, Mutate
<1> HIDE DEF u, r
<1>3. WellFormed(u)
  BY <1>1, <1>2 DEF Good, WellFormed
<1>4. u.heap[r] = c /\ \A q \in Ref \ {r} : u.heap[q] = s.heap[q]
  BY <1>1, <1>2 DEF Good, WellFormed
<1>5. \A j \in Key : s.data[j].type \in Containers => s.data[j].val \in Ref
  BY ObjectCases DEF Good, WellFormed
<1>6. \A j \in Key : s.data[j].type \in Containers /\ s.data[j].val = r
                       => s.data[j].type = s.data[k].type
  BY DEF Good, SharedListsOnly, r
<1>7. ContainersTyped(u)
  BY <1>2, <1>4, <1>5, <1>6 DEF Good, ContainersTyped, Contents, Fits
<1>8. NoEmptyMap(u)
  BY <1>2, <1>4, <1>5, <1>6, StringIsNoContainer DEF Good, NoEmptyMap, Contents, Fits
<1>9. SharedListsOnly(u)
  BY <1>2 DEF Good, SharedListsOnly
<1> QED BY <1>3, <1>7, <1>8, <1>9 DEF Good, u

LEMMA ShrinkGood ==
    ASSUME NEW s, Good(s), NEW k \in Key, NEW t \in Containers, s.data[k].type = t,
           NEW c, IsContents(t, c)
    PROVE  Good(Shrink(s, k, t, c))
<1>1. CASE Fits(t, c)
  BY <1>1, MutateGood, DeleteGood DEF Shrink
<1>2. CASE ~Fits(t, c)
  <2> DEFINE r == s.data[k].val
             m == Mutate(s, k, c)
             u == Delete(m, k)
  <2>1. t \in {"hash", "set"} /\ Shrink(s, k, t, c) = u
    BY <1>2 DEF Fits, Shrink
  <2>2. r \in Ref
    BY ObjectCases DEF Good, WellFormed
  <2>3. /\ u.data = [s.data EXCEPT ![k] = Absent]
        /\ u.heap = [s.heap EXCEPT ![r] = c]
        /\ u = [data |-> u.data, heap |-> u.heap]
    <3>1. m.data = s.data /\ m.heap = [s.heap EXCEPT ![r] = c] /\ m = [data |-> m.data, heap |-> m.heap]
      BY DEF Good, WellFormed, Mutate
    <3> HIDE DEF m
    <3> QED BY <3>1 DEF Delete
  <2> HIDE DEF u, r
  <2>4. WellFormed(u)
    BY <2>2, <2>3 DEF Good, WellFormed
  <2>5. /\ u.data[k].type = "none"
        /\ \A j \in Key \ {k} : u.data[j] = s.data[j]
        /\ \A q \in Ref \ {r} : u.heap[q] = s.heap[q]
    BY <2>2, <2>3 DEF Good, WellFormed, Absent
  <2>6. ASSUME NEW j \in Key \ {k}, s.data[j].type \in Containers
        PROVE  s.data[j].val \in Ref \ {r}
    <3>1. s.data[j].val \in Ref
      BY <2>6, ObjectCases DEF Good, WellFormed
    <3>2. s.data[j].val # r
      BY <2>1, <2>6, StringIsNoContainer DEF Good, SharedListsOnly, r
    <3> QED BY <3>1, <3>2
  <2>7. ContainersTyped(u)
    BY <2>5, <2>6, StringIsNoContainer DEF Good, ContainersTyped, Contents
  <2>8. NoEmptyMap(u)
    BY <2>5, <2>6, StringIsNoContainer DEF Good, NoEmptyMap, Contents
  <2>9. SharedListsOnly(u)
    BY <2>5, StringIsNoContainer DEF Good, SharedListsOnly
  <2> QED BY <2>1, <2>4, <2>7, <2>8, <2>9 DEF Good
<1> QED BY <1>1, <1>2

LEMMA TypeAtCases ==
    ASSUME NEW s, NEW k \in Key, NEW t, TypeAt(s, k) = t
    PROVE  /\ t # "none" => Live(s, k) /\ s.data[k].type = t
           /\ t = "none" => ~Live(s, k)
  BY DEF TypeAt, Live, LiveAt, Stored

LEMMA UpsertGood ==
    ASSUME NEW s, Good(s), NEW k \in Key, NEW t \in Containers, TypeAt(s, k) \in {"none", t},
           NEW c, Fits(t, c)
    PROVE  Good(Upsert(s, k, t, c))
<1>1. CASE Live(s, k)
  <2>1. s.data[k].type = t
    BY <1>1, TypeAtCases
  <2> QED BY <1>1, <2>1, MutateGood DEF Upsert
<1>2. CASE ~Live(s, k)
  BY <1>2, LookupGood, CreateGood DEF Upsert, Expiry
<1> QED BY <1>1, <1>2

LEMMA CopyObjectGood ==
    ASSUME NEW s, Good(s), NEW src \in Key, NEW dst \in Key, Live(s, src)
    PROVE  Good(CopyObject(s, src, dst))
<1> DEFINE o == s.data[src]
           u == SetObject(s, dst, o)
           f == [k \in Key |-> IF k = dst THEN src ELSE k]
<1>1. o.exp \in Expiry /\ o \in {Absent} \cup Object
  BY ObjectCases DEF Good, WellFormed, Live, LiveAt, Stored
<1>2. CASE o.type \in {"hash", "set"}
  <2>1. Fits(o.type, s.heap[o.val]) /\ o.type \in Containers
    BY <1>2, StringIsNoContainer DEF Good, ContainersTyped, NoEmptyMap, Contents, Fits
  <2>2. Good([Create(s, dst, o.type, s.heap[o.val]) EXCEPT !.data[dst].exp = o.exp])
    BY <1>1, <2>1, CreateGood
  <2> QED BY <1>2, <2>2 DEF CopyObject
<1>3. CASE o.type \notin {"hash", "set"}
  <2>1. u.heap = s.heap /\ WellFormed(u) /\ \A k \in Key : u.data[k] = s.data[f[k]]
    BY <1>1 DEF Good, WellFormed, SetObject
  <2>2. f \in [Key -> Key]
    OBVIOUS
  <2>3. \A j, k \in Key : j # k /\ f[j] = f[k] => f[j] = src
    OBVIOUS
  <2> HIDE DEF u, f
  <2>4. \A j, k \in Key : j # k /\ f[j] = f[k] /\ u.data[j].type \in Containers
                            => u.data[j].type \in {"list", "zset"}
    BY <1>3, <2>1, <2>3, StringIsNoContainer
  <2>5. Good(u)
    BY <2>1, <2>2, <2>4, Rearranged
  <2> QED BY <1>3, <2>5 DEF CopyObject, u
<1> QED BY <1>2, <1>3

LEMMA CollectGood ==
    ASSUME NEW s, Good(s)
    PROVE  Good(Collect(s))
<1> DEFINE u == Collect(s)
<1>1. /\ WellFormed(u) /\ u.data = s.data
      /\ \A r \in Ref : ~Free(s, r) => u.heap[r] = s.heap[r]
  BY DEF Good, WellFormed, Collect
<1> HIDE DEF u
<1>2. \A k \in Key : s.data[k].type \in Containers => Contents(u, k) = Contents(s, k)
  BY <1>1, ObjectCases, StringIsNoContainer DEF Good, WellFormed, Contents, Free, Stored
<1> QED BY <1>1, <1>2, StringIsNoContainer
        DEF Good, ContainersTyped, NoEmptyMap, SharedListsOnly, u

-----------------------------------------------------------------------------
(* The outcomes of a command *)

LEMMA ExecUntilInv ==
    ASSUME IInv, NEW t \in now .. MaxTime, NEW cmd, NEW keys \in SUBSET Key, NEW s, Good(s), NEW reply,
           ExecUntil(t, cmd, keys, s, reply)
    PROVE  IInv'
<1>1. db' = Collect(s) /\ now' \in 0 .. MaxTime /\ last'.cmd \in Commands /\ last'.keys \subseteq Key
  BY ClockAssumption DEF ExecUntil, IInv
<1>2. Good(Collect(s))
  BY CollectGood
<1> QED BY <1>1, <1>2 DEF IInv, Good, WellFormed, ContainersTyped, NoEmptyMap, SharedListsOnly,
                          Contents, IsContents, IsEmpty, IsMap

LEMMA ExecInv ==
    ASSUME IInv, NEW cmd, NEW keys \in SUBSET Key, NEW s, Good(s), NEW reply,
           Exec(cmd, keys, s, reply)
    PROVE  IInv'
<1>1. now \in now .. MaxTime
  BY ClockAssumption DEF IInv
<1> QED BY <1>1, ExecUntilInv DEF Exec

\* The outcomes that leave the database alone, but for an expired key.
LEMMA OutcomesInv ==
    ASSUME IInv, NEW cmd, NEW keys \in SUBSET Key, NEW k \in Key, NEW t, NEW reply
    PROVE  /\ Reject(cmd, keys) => IInv'
           /\ WrongType(cmd, keys, k, t) => IInv'
           /\ Missing(cmd, keys, k, reply) => IInv'
           /\ Untouched(cmd, keys, k, t, reply) => IInv'
<1>1. Good(db) /\ Good(Lookup(db, k))
  BY LookupGood DEF IInv
<1>2. ASSUME Reject(cmd, keys) PROVE IInv'
  BY <1>1, <1>2, ExecInv DEF Reject
<1>3. ASSUME WrongType(cmd, keys, k, t) PROVE IInv'
  BY <1>1, <1>3, ExecInv DEF WrongType
<1>4. ASSUME Missing(cmd, keys, k, reply) PROVE IInv'
  BY <1>1, <1>4, ExecInv DEF Missing
<1>5. ASSUME Untouched(cmd, keys, k, t, reply) PROVE IInv'
  BY <1>1, <1>5, ExecInv DEF Untouched
<1> QED BY <1>2, <1>3, <1>4, <1>5

LEMMA ReadOnlyInv ==
    ASSUME IInv, NEW cmd, NEW keys \in SUBSET Key, NEW k \in Key, NEW t, NEW replies,
           ReadOnly(cmd, keys, k, t, replies)
    PROVE  IInv'
  BY OutcomesInv DEF ReadOnly

LEMMA StoreStringInv ==
    ASSUME IInv, NEW cmd, NEW k \in Key, NEW v \in Str, NEW e \in Expiry, NEW reply,
           StoreString(cmd, k, v, e, reply)
    PROVE  IInv'
<1>1. Good(SetObject(db, k, StringObject(v, e)))
  BY StoreStringGood DEF IInv
<1> QED BY <1>1, ExecInv DEF StoreString

LEMMA UpsertInv ==
    ASSUME IInv, NEW cmd, NEW k \in Key, NEW t \in Containers, TypeAt(db, k) \in {"none", t},
           NEW c, Fits(t, c), NEW reply, Exec(cmd, {k}, Upsert(db, k, t, c), reply)
    PROVE  IInv'
<1>1. Good(Upsert(db, k, t, c))
  BY UpsertGood DEF IInv
<1> QED BY <1>1, ExecInv

LEMMA ShrinkInv ==
    ASSUME IInv, NEW cmd, NEW k \in Key, NEW t \in Containers, TypeAt(db, k) = t,
           NEW c, IsContents(t, c), NEW reply, Exec(cmd, {k}, Shrink(db, k, t, c), reply)
    PROVE  IInv'
<1>1. db.data[k].type = t
  BY TypeAtCases, StringIsNoContainer
<1>2. Good(Shrink(db, k, t, c))
  BY <1>1, ShrinkGood DEF IInv
<1> QED BY <1>2, ExecInv

LEMMA MutateInv ==
    ASSUME IInv, NEW cmd, NEW k \in Key, NEW t \in Containers, TypeAt(db, k) = t,
           NEW c, Fits(t, c), NEW reply, Exec(cmd, {k}, Mutate(db, k, c), reply)
    PROVE  IInv'
<1>1. db.data[k].type = t
  BY TypeAtCases, StringIsNoContainer
<1>2. Good(Mutate(db, k, c))
  BY <1>1, MutateGood DEF IInv
<1> QED BY <1>2, ExecInv

\* What a handler of type t finds under a key.
LEMMA ContentsOrTyped ==
    ASSUME NEW s, Good(s), NEW k \in Key, NEW t \in Containers
    PROVE  IsContents(t, ContentsOr(s, k, t))
<1>1. CASE TypeAt(s, k) = t
  BY <1>1, TypeAtCases, StringIsNoContainer DEF Good, ContainersTyped, ContentsOr
<1>2. CASE TypeAt(s, k) # t
  <2>1. << >> \in Seq(Str) /\ DOMAIN << >> = {}
    OBVIOUS
  <2>2. << >> \in [{} -> Str] /\ << >> \in [{} -> Int]
    OBVIOUS
  <2>3. IsMap(<< >>, Str, Str) /\ IsMap(<< >>, Str, Int)
    BY <2>1, <2>2 DEF IsMap
  <2>4. IsContents(t, EmptyOf(t))
    BY <2>1, <2>3 DEF EmptyOf, IsContents, Containers
  <2> QED BY <1>2, <2>4 DEF ContentsOr
<1> QED BY <1>1, <1>2

-----------------------------------------------------------------------------
(* Integers *)

LEMMA WrapType == ASSUME NEW n \in Int PROVE Wrap(n) \in IntVal
  BY HalfAssumption DEF Wrap, IntVal

LEMMA IntValType == IntVal \subseteq Int /\ IntVal \subseteq Str /\ Int \subseteq Expiry /\ Never \in Expiry
  BY HalfAssumption DEF IntVal, Str, Expiry

LEMMA AfterType ==
    ASSUME IInv, NEW n \in Amounts, NEW unit \in {1, Second}
    PROVE  After(n, unit) \in Expiry
<1>1. n \in Int /\ unit \in Int /\ now \in Int
  BY TimeAssumption, ClockAssumption, IntValType DEF IInv
<1>2. n * unit \in Int
  BY <1>1
<1>3. Wrap(n * unit) \in Int
  BY <1>2, WrapType, IntValType
<1> QED BY <1>1, <1>3, IntValType DEF After

-----------------------------------------------------------------------------
(* The handlers of key.go *)

LEMMA KeyNextInv ==
    ASSUME IInv, KeyNext
    PROVE  IInv'
<1>1. ASSUME Tick PROVE IInv'
  <2>1. db' = db /\ last' = last /\ now' \in 0 .. MaxTime
    BY <1>1, ClockAssumption DEF Tick, IInv
  <2>2. Good(db)'
    BY <2>1 DEF IInv, Good, WellFormed, ContainersTyped, NoEmptyMap, SharedListsOnly,
                Contents, IsContents, IsEmpty, IsMap
  <2> QED BY <2>1, <2>2 DEF IInv
<1>2. ASSUME FlushDB PROVE IInv'
  <2>1. Good(DeleteAll(db, Key))
    BY DeleteAllGood DEF IInv
  <2> QED BY <1>2, <2>1, ExecInv DEF FlushDB
<1>3. ASSUME Browse PROVE IInv'
  <2>1. Good(db)
    BY DEF IInv
  <2>2. \E cmd, reply : Exec(cmd, Key, db, reply)
    BY <1>3 DEF Browse
  <2> QED BY <2>1, <2>2, ExecInv
<1>4. ASSUME NEW K \in SUBSET Key, Del(K) \/ Exists(K) PROVE IInv'
  <2>1. Good(db) /\ Good(DeleteAll(db, K))
    BY DeleteAllGood DEF IInv
  <2> QED BY <1>4, <2>1, ExecInv DEF Del, Exists
<1>5. ASSUME NEW k \in Key, Persist(k) PROVE IInv'
  <2>1. Good(IF Stored(db, k) THEN [db EXCEPT !.data[k].exp = Never] ELSE db)
    BY SetExpiryGood DEF IInv, Expiry
  <2> QED BY <1>5, <2>1, ExecInv DEF Persist
<1>6. ASSUME NEW k \in Key, Inspect(k) PROVE IInv'
  <2>1. Good(Lookup(db, k))
    BY LookupGood DEF IInv
  <2> QED BY <1>6, <2>1, ExecInv DEF Inspect
<1>7. ASSUME NEW k \in Key, NEW e \in ExpiryArguments, Expire(k, e) PROVE IInv'
  <2>1. e \in Expiry
    <3>1. CASE e \in Instants
      BY <3>1, IntValType, TimeAssumption
    <3>2. CASE \E n \in Amounts, u \in {1, Second} : e = After(n, u)
      BY <3>2, AfterType
    <3> QED BY <1>7, <3>1, <3>2 DEF ExpiryArguments
  <2>2. Live(db, k) => Stored(db, k)
    BY DEF Live, LiveAt
  <2>3. Good(IF Live(db, k) THEN [db EXCEPT !.data[k].exp = e] ELSE db)
    BY <2>1, <2>2, SetExpiryGood DEF IInv
  <2> QED BY <1>7, <2>3, ExecInv DEF Expire
<1>8. ASSUME NEW k \in Key, NEW unit, TTL(k, unit) PROVE IInv'
  <2>1. Good(db)
    BY DEF IInv
  <2> QED BY <1>8, <2>1, ExecInv DEF TTL
<1>9. ASSUME NEW src \in Key, NEW dst \in Key, RenameKey(src, dst) PROVE IInv'
  <2>1. Good(Rename(db, src, dst, now))
    BY RenameGood DEF IInv
  <2>2. {src, dst} \in SUBSET Key
    OBVIOUS
  <2> QED BY <1>9, <2>1, <2>2, ExecInv DEF RenameKey
<1>10. ASSUME NEW src \in Key, NEW dst \in Key, NEW t \in now .. MaxTime, RenameNX(src, dst, t)
       PROVE  IInv'
  <2>1. Good(db) /\ Good(Rename(db, src, dst, t))
    BY RenameGood DEF IInv
  <2> QED BY <1>10, <2>1, ExecInv, ExecUntilInv DEF RenameNX
<1>11. ASSUME NEW src \in Key, NEW dst \in Key, NEW t \in now .. MaxTime, NEW replace,
              Copy(src, dst, replace, t)
       PROVE  IInv'
  <2>1. CASE Missing("COPY", {src, dst}, src, Number(0))
    BY <2>1, OutcomesInv
  <2>2. CASE Live(db, src) /\ Exec("COPY", {src, dst}, db, Number(0))
    BY <2>2, ExecInv DEF IInv
  <2>3. CASE Live(db, src) /\ ExecUntil(t, "COPY", {src, dst}, CopyObject(db, src, dst), Number(1))
    <3>1. Good(CopyObject(db, src, dst))
      BY <2>3, CopyObjectGood DEF IInv
    <3> QED BY <2>3, <3>1, ExecUntilInv
  <2> QED BY <1>11, <2>1, <2>2, <2>3 DEF Copy
<1> QED BY <1>1, <1>2, <1>3, <1>4, <1>5, <1>6, <1>7, <1>8, <1>9, <1>10, <1>11 DEF KeyNext

-----------------------------------------------------------------------------
(* The handlers of string.go *)

LEMMA StringHeld ==
    ASSUME IInv, NEW k \in Key, TypeAt(db, k) = "string"
    PROVE  db.data[k].val \in Str
  BY TypeAtCases, ObjectCases DEF IInv, Good, WellFormed

LEMMA IncrByInv ==
    ASSUME IInv, NEW k \in Key, NEW delta \in Int, IncrBy(k, delta)
    PROVE  IInv'
<1> DEFINE old == IF Live(db, k) THEN db.data[k].val ELSE 0
           n   == Wrap(old + delta)
<1>1. CASE WrongType("INCRBY", {k}, k, "string")
  BY <1>1, OutcomesInv
<1>2. CASE Exec("INCRBY", {k}, db, Error)
  BY <1>2, ExecInv DEF IInv
<1>3. CASE /\ TypeAt(db, k) = "none" \/ (TypeAt(db, k) = "string" /\ db.data[k].val \in IntVal)
           /\ StoreString("INCRBY", k, n, Never, Number(n))
  <2>1. old \in Int
    <3>1. CASE TypeAt(db, k) = "none"
      BY <3>1, TypeAtCases
    <3>2. CASE db.data[k].val \in IntVal
      <4>1. db.data[k].val \in Int
        BY <3>2, IntValType
      <4>2. CASE Live(db, k)
        BY <4>1, <4>2
      <4>3. CASE ~Live(db, k)
        BY <4>3
      <4> QED BY <4>2, <4>3
    <3> QED BY <1>3, <3>1, <3>2
  <2>2. old + delta \in Int
    BY <2>1
  <2>3. n \in Str
    BY <2>2, WrapType, IntValType
  <2>4. StoreString("INCRBY", k, n, Never, Number(n))
    BY <1>3
  <2> HIDE DEF n
  <2> QED BY <2>3, <2>4, IntValType, StoreStringInv
<1> QED BY <1>1, <1>2, <1>3 DEF IncrBy

LEMMA StringNextInv ==
    ASSUME IInv, StringNext
    PROVE  IInv'
<1> USE ArgumentAssumption, IntValType
<1>1. ASSUME NEW k \in Key, Get(k) PROVE IInv'
  <2>1. Good(db)
    BY DEF IInv
  <2> QED BY <1>1, <2>1, OutcomesInv, ExecInv DEF Get
<1>2. ASSUME NEW k \in Key, GetDel(k) PROVE IInv'
  <2>1. Good(Delete(db, k))
    BY DeleteGood DEF IInv
  <2> QED BY <1>2, <2>1, OutcomesInv, ExecInv DEF GetDel
<1>3. ASSUME NEW cmd, NEW k \in Key, NEW v \in Args, NEW e \in Expiry, NEW nx, NEW xx,
             Set(cmd, k, v, e, nx, xx)
      PROVE  IInv'
  <2>1. Good(db)
    BY DEF IInv
  <2> QED BY <1>3, <2>1, OutcomesInv, ExecInv, StoreStringInv DEF Set
<1>4. ASSUME NEW k \in Key, NEW v \in Args, NEW n \in Amounts, NEW unit \in {1, Second}, SetEX(k, v, n, unit)
      PROVE  IInv'
  <2>1. After(n, unit) \in Expiry
    BY AfterType
  <2> QED BY <1>4, <2>1, OutcomesInv, StoreStringInv DEF SetEX
<1>5. ASSUME NEW k \in Key, NEW v \in Args, SetNX(k, v) PROVE IInv'
  BY <1>5, ExecInv, StoreStringInv DEF SetNX, IInv
<1>6. ASSUME NEW k \in Key, NEW v \in Args, GetSet(k, v) PROVE IInv'
  BY <1>6, OutcomesInv, StoreStringInv DEF GetSet
<1>7. ASSUME NEW K \in SUBSET Key, NEW t \in now .. MaxTime, MGet(K, t) PROVE IInv'
  <2>1. \A M \in Missed(K, t) : Good(DeleteAll(db, M))
    BY DeleteAllGood DEF IInv, Missed
  <2> QED BY <1>7, <2>1, ExecUntilInv DEF MGet
<1>8. ASSUME NEW K \in SUBSET Key, NEW V \in [K -> Args], MSet(V) \/ MSetNX(V) PROVE IInv'
  <2>1. V \in [K -> Str] /\ DOMAIN V = K
    OBVIOUS
  <2>2. Good(SetAll(db, V))
    BY <2>1, SetAllGood DEF IInv
  <2>3. \A L \in SUBSET {k \in K : ~Live(db, k)} : Good(LookupAll(db, L))
    BY LookupAllGood DEF IInv
  <2>4. CASE MSet(V)
    BY <2>1, <2>2, <2>4, ExecInv DEF MSet
  <2>5. CASE MSetNX(V)
    BY <2>1, <2>2, <2>3, <2>5, ExecInv DEF MSetNX
  <2> QED BY <1>8, <2>4, <2>5
<1>9. ASSUME NEW k \in Key, NEW delta \in Increments, IncrBy(k, delta) PROVE IInv'
  <2>1. \A d \in Deltas : -d \in Int
    OBVIOUS
  <2>2. delta \in Int
    BY <2>1, WrapType DEF Increments
  <2> QED BY <1>9, <2>2, IncrByInv
<1>10. ASSUME NEW k \in Key, NEW v \in Str, NEW cmd, Rewrite(cmd, k, v) PROVE IInv'
  <2>1. Good(db)
    BY DEF IInv
  <2> QED BY <1>10, <2>1, OutcomesInv, ExecInv, StoreStringInv DEF Rewrite
<1>11. CASE \E k \in Key : Get(k) \/ GetDel(k)
  BY <1>1, <1>2, <1>11
<1>12. CASE \E cmd \in {"SET", "SET KEEPTTL"}, k \in Key, v \in Args, nx, xx \in BOOLEAN :
              \/ \E e \in {Never} \cup Positive(Instants) : Set(cmd, k, v, e, nx, xx)
              \/ \E n \in Positive(Amounts), unit \in {1, Second} : Set(cmd, k, v, After(n, unit), nx, xx)
  <2>1. {Never} \cup Positive(Instants) \subseteq Expiry
    BY IntValType, TimeAssumption DEF Positive
  <2>2. \A n \in Positive(Amounts), unit \in {1, Second} : After(n, unit) \in Expiry
    BY AfterType DEF Positive
  <2> QED BY <1>12, <2>1, <2>2, <1>3
<1>13. CASE \E k \in Key, v \in Args :
              \/ \E n \in Amounts, unit \in {1, Second} : SetEX(k, v, n, unit)
              \/ SetNX(k, v)
              \/ GetSet(k, v)
  BY <1>4, <1>5, <1>6, <1>13
<1>14. CASE \E K \in SUBSET Key : \/ \E t \in now .. MaxTime : MGet(K, t)
                                  \/ \E V \in [K -> Args] : MSet(V) \/ MSetNX(V)
  BY <1>7, <1>8, <1>14
<1>15. CASE \/ \E k \in Key, delta \in Increments : IncrBy(k, delta)
            \/ \E k \in Key, v \in Str, cmd \in Rewriters : Rewrite(cmd, k, v)
  BY <1>9, <1>10, <1>15
<1> QED BY <1>11, <1>12, <1>13, <1>14, <1>15 DEF StringNext

-----------------------------------------------------------------------------
(* The handlers of list.go *)

LEMMA PartType ==
    ASSUME NEW c \in Seq(Str), NEW i \in Int, NEW j \in Int, i >= 1, j <= Len(c)
    PROVE  SubSeq(c, i, j) \in Seq(Str)
  OBVIOUS

LEMMA PushType ==
    ASSUME NEW c \in Seq(Str), NEW vs \in Seq(Str)
    PROVE  PushLeft(c, vs) \in Seq(Str) /\ PushRight(c, vs) \in Seq(Str)
<1>1. Reverse(vs) \in [1 .. Len(vs) -> Str]
  BY DEF Reverse
<1>2. Reverse(vs) \in Seq(Str)
  BY <1>1
<1> QED BY <1>2 DEF PushLeft, PushRight

LEMMA PopType ==
    ASSUME NEW c \in Seq(Str), NEW n \in Nat
    PROVE  PopLeft(c, n) \in Seq(Str) /\ PopRight(c, n) \in Seq(Str)
  BY PartType DEF PopLeft, PopRight

LEMMA TrimType ==
    ASSUME NEW c \in Seq(Str), NEW i \in Int, NEW j \in Int
    PROVE  Trim(c, i, j) \in Seq(Str)
<1> DEFINE m == FromHead(c, i)
           n == FromHead(c, j)
           x == (IF m < 0 THEN 0 ELSE m) + 1
           y == (IF n >= Len(c) THEN Len(c) - 1 ELSE n) + 1
<1>1. m \in Int /\ n \in Int /\ Len(c) \in Nat
  BY DEF FromHead
<1>2. x \in Int /\ y \in Int /\ x >= 1 /\ y <= Len(c)
  <2> HIDE DEF m, n
  <2> QED BY <1>1
<1>3. Trim(c, i, j) = SubSeq(c, x, y)
  BY DEF Trim
<1> HIDE DEF x, y
<1> QED BY <1>2, <1>3, PartType

LEMMA InsertType ==
    ASSUME NEW c \in Seq(Str), NEW v \in Str, NEW p \in 1 .. Len(c) + 1
    PROVE  InsertAt(c, p, v) \in Seq(Str)
<1>1. SubSeq(c, 1, p - 1) \in Seq(Str) /\ SubSeq(c, p, Len(c)) \in Seq(Str)
  BY PartType
<1> QED BY <1>1 DEF InsertAt

LEMMA ListType ==
    ASSUME NEW s, Good(s), NEW k \in Key
    PROVE  ContentsOr(s, k, "list") \in Seq(Str)
  BY ContentsOrTyped, StringIsNoContainer DEF IsContents

\* Whatever a list holds fits.
LEMMA ListFits ==
    ASSUME NEW c \in Seq(Str)
    PROVE  Fits("list", c) /\ IsContents("list", c) /\ "list" \in Containers
  BY DEF Fits, IsContents, Containers

LEMMA PushInv ==
    ASSUME IInv, NEW cmd, NEW k \in Key, NEW c \in Seq(Str), Push(cmd, k, c) \/ PushX(cmd, k, c)
    PROVE  IInv'
<1>1. CASE WrongType(cmd, {k}, k, "list") \/ Missing(cmd, {k}, k, Number(0))
  BY <1>1, OutcomesInv
<1>2. CASE /\ TypeAt(db, k) \in {"none", "list"}
           /\ Exec(cmd, {k}, Upsert(db, k, "list", c), Number(Len(c)))
  BY <1>2, ListFits, UpsertInv
<1>3. CASE TypeAt(db, k) = "list" /\ Exec(cmd, {k}, Mutate(db, k, c), Number(Len(c)))
  BY <1>3, ListFits, MutateInv
<1> QED BY <1>1, <1>2, <1>3 DEF Push, PushX

LEMMA PopInv ==
    ASSUME IInv, NEW cmd, NEW k \in Key, NEW n \in Int, NEW rest, n >= 0 => rest \in Seq(Str), NEW v,
           Pop(cmd, k, n, rest, v)
    PROVE  IInv'
<1> DEFINE reply == IF rest = List(k) THEN Nil ELSE IF n = 1 THEN Bulk(v) ELSE Array
<1>1. CASE WrongType(cmd, {k}, k, "list") \/ Missing(cmd, {k}, k, Nil)
             \/ Untouched(cmd, {k}, k, "list", Error)
  BY <1>1, OutcomesInv
<1>2. CASE n >= 0 /\ TypeAt(db, k) = "list" /\ Exec(cmd, {k}, Shrink(db, k, "list", rest), reply)
  <2> HIDE DEF reply
  <2> QED BY <1>2, ListFits, ShrinkInv
<1> QED BY <1>1, <1>2 DEF Pop

LEMMA EditInv ==
    ASSUME IInv, NEW k \in Key, NEW i \in Int, NEW j \in Int, NEW v \in Str,
           LSet(k, i, v) \/ LRem(k, i, v) \/ LTrim(k, i, j)
    PROVE  IInv'
<1> DEFINE c == List(k)
<1>1. c \in Seq(Str)
  BY ListType DEF IInv, List
<1>2. CASE LSet(k, i, v)
  <2>1. CASE InRange(c, i)
    <3>1. FromHead(c, i) + 1 \in DOMAIN c
      BY <1>1, <2>1 DEF InRange, FromHead
    <3>2. [c EXCEPT ![FromHead(c, i) + 1] = v] \in Seq(Str)
      <4> HIDE DEF c
      <4> QED BY <1>1, <3>1
    <3> QED BY <1>2, <2>1, <3>2, OutcomesInv, ListFits, MutateInv DEF LSet
  <2> QED BY <1>2, <2>1, OutcomesInv DEF LSet
<1>3. CASE LRem(k, i, v)
  <2>1. Lists(Len(c)) \subseteq Seq(Str)
    <3> HIDE DEF c
    <3> QED BY <1>1 DEF Lists
  <2>2. \A d \in Lists(Len(c)) : IsContents("list", d)
    BY <2>1, ListFits
  <2>3. "list" \in Containers
    BY DEF Containers
  <2> QED BY <1>3, <2>2, <2>3, OutcomesInv, ShrinkInv DEF LRem
<1>4. CASE LTrim(k, i, j)
  <2>1. Trim(c, i, j) \in Seq(Str)
    BY <1>1, TrimType
  <2> QED BY <1>4, <2>1, OutcomesInv, ListFits, ShrinkInv DEF LTrim
<1> QED BY <1>2, <1>3, <1>4

LEMMA LInsertInv ==
    ASSUME IInv, NEW k \in Key, NEW v \in Str, NEW pivot \in Str, NEW offset \in {0, 1},
           LInsert(k, offset, pivot, v)
    PROVE  IInv'
<1> DEFINE c == List(k)
<1>1. c \in Seq(Str)
  BY ListType DEF IInv, List
<1>2. ASSUME NEW p \in Occurrences(c, pivot) PROVE InsertAt(c, p + offset, v) \in Seq(Str)
  <2>1. p + offset \in 1 .. Len(c) + 1
    <3> HIDE DEF c
    <3> QED BY <1>1, <1>2 DEF Occurrences
  <2> QED BY <1>1, <2>1, InsertType
<1> QED BY <1>2, OutcomesInv, ListFits, MutateInv DEF LInsert

LEMMA MoveInv ==
    ASSUME IInv, NEW cmd, NEW src \in Key, NEW dst \in Key, NEW from, NEW to,
           NEW t \in now .. MaxTime, Move(cmd, src, dst, from, to, t)
    PROVE  IInv'
<1> DEFINE c == List(src)
           s == LookupAt(Popped(src, from), dst, t)
           v == Taken(c, from)
           d == ContentsOr(s, dst, "list")
<1>1. c \in Seq(Str) /\ "list" \in Containers
  BY ListType DEF IInv, List, Containers
<1>2. CASE WrongType(cmd, {src, dst}, src, "list") \/ Missing(cmd, {src, dst}, src, Nil)
             \/ Untouched(cmd, {src, dst}, src, "list", Error)
             \/ Untouched(cmd, {src, dst}, src, "list", Nil)
  BY <1>2, OutcomesInv
<1>3. ASSUME TypeAt(db, src) = "list", c # << >>, from \in Ends
      PROVE  /\ Good(s)
             /\ TypeAt(s, dst) \in {"none", "list"} => Good(Upsert(s, dst, "list", Give(d, to, v)))
  <2>1. Take(c, from) \in Seq(Str)
    BY <1>1, PopType DEF Take
  <2>2. db.data[src].type = "list"
    BY <1>3, TypeAtCases
  <2>3. Good(s)
    BY <1>1, <2>1, <2>2, ListFits, ShrinkGood, LookupAtGood DEF IInv, Popped
  <2>4. v \in Str
    <3> HIDE DEF c
    <3> QED BY <1>1, <1>3 DEF Taken, Last
  <2>5. d \in Seq(Str)
    BY <2>3, ListType
  <2> HIDE DEF s, v, d
  <2>6. Give(d, to, v) \in Seq(Str)
    <3>1. <<v>> \in Seq(Str)
      BY <2>4
    <3>2. PushLeft(d, <<v>>) \in Seq(Str) /\ PushRight(d, <<v>>) \in Seq(Str)
      BY <2>5, <3>1, PushType
    <3> QED BY <2>5, <3>2 DEF Give
  <2> QED BY <1>1, <2>3, <2>6, ListFits, UpsertGood
<1>4. CASE /\ TypeAt(db, src) = "list" /\ c # << >> /\ from \in Ends
           /\ \/ ExecUntil(t, cmd, {src, dst}, s, Error)
              \/ /\ TypeAt(s, dst) \in {"none", "list"}
                 /\ ExecUntil(t, cmd, {src, dst}, Upsert(s, dst, "list", Give(d, to, v)),
                         IF to \in Ends THEN Bulk(v) ELSE Error)
  <2> DEFINE u == Upsert(s, dst, "list", Give(d, to, v))
             reply == IF to \in Ends THEN Bulk(v) ELSE Error
  <2>1. Good(s) /\ (TypeAt(s, dst) \in {"none", "list"} => Good(u)) /\ {src, dst} \in SUBSET Key
    BY <1>3, <1>4
  <2>2. \/ ExecUntil(t, cmd, {src, dst}, s, Error)
        \/ TypeAt(s, dst) \in {"none", "list"} /\ ExecUntil(t, cmd, {src, dst}, u, reply)
    BY <1>4
  <2> HIDE DEF s, u, reply
  <2> QED BY <2>1, <2>2, ExecUntilInv
<1> QED BY <1>2, <1>4 DEF Move

LEMMA ListNextInv ==
    ASSUME IInv, ListNext
    PROVE  IInv'
<1>1. /\ Args \subseteq Str /\ Deltas \subseteq Int
      /\ \A k \in Key : List(k) \in Seq(Str)
  BY ArgumentAssumption, IntValType, ListType DEF IInv, List
<1>2. CASE \E k \in Key : ListRead(k)
  BY <1>2, ReadOnlyInv DEF ListRead
<1>3. CASE \E k \in Key, vs \in UNION {[1 .. n -> Args] : n \in 1 .. 2} :
             \/ Push("LPUSH", k, PushLeft(List(k), vs))
             \/ Push("RPUSH", k, PushRight(List(k), vs))
             \/ PushX("LPUSHX", k, PushLeft(List(k), vs))
             \/ PushX("RPUSHX", k, PushRight(List(k), vs))
  <2>1. ASSUME NEW n \in 1 .. 2, NEW vs \in [1 .. n -> Args] PROVE vs \in Seq(Str)
    <3>1. vs \in [1 .. n -> Str] /\ n \in Nat
      BY <1>1
    <3> QED BY <3>1
  <2>2. ASSUME NEW k \in Key, NEW vs \in Seq(Str)
        PROVE  PushLeft(List(k), vs) \in Seq(Str) /\ PushRight(List(k), vs) \in Seq(Str)
    BY <1>1, PushType
  <2> QED BY <1>3, <2>1, <2>2, PushInv
<1>4. CASE \E k \in Key, n \in Deltas \cup {1} :
             \/ Pop("LPOP", k, n, PopLeft(List(k), n), List(k)[1])
             \/ Pop("RPOP", k, n, PopRight(List(k), n), List(k)[Len(List(k))])
  <2>1. ASSUME NEW k \in Key, NEW n \in Deltas \cup {1},
               \/ Pop("LPOP", k, n, PopLeft(List(k), n), List(k)[1])
               \/ Pop("RPOP", k, n, PopRight(List(k), n), List(k)[Len(List(k))])
        PROVE  IInv'
    <3>1. n \in Int
      BY <1>1
    <3>2. ASSUME n >= 0 PROVE PopLeft(List(k), n) \in Seq(Str) /\ PopRight(List(k), n) \in Seq(Str)
      <4>1. n \in Nat
        BY <3>1, <3>2
      <4> QED BY <1>1, <4>1, PopType
    <3>3. CASE Pop("LPOP", k, n, PopLeft(List(k), n), List(k)[1])
      BY <3>1, <3>2, <3>3, PopInv
    <3>4. CASE Pop("RPOP", k, n, PopRight(List(k), n), List(k)[Len(List(k))])
      BY <3>1, <3>2, <3>4, PopInv
    <3> QED BY <2>1, <3>3, <3>4
  <2> QED BY <1>4, <2>1
<1>5. CASE \E k \in Key, i, j \in Deltas : LTrim(k, i, j)
  <2>1. ASSUME NEW k \in Key, NEW i \in Deltas, NEW j \in Deltas, LTrim(k, i, j) PROVE IInv'
    <3>1. 0 \in Str
      BY IntValType, HalfAssumption DEF IntVal
    <3> QED BY <1>1, <2>1, <3>1, EditInv
  <2> QED BY <1>5, <2>1
<1>6. CASE \E k \in Key, i \in Deltas, v \in Args : LSet(k, i, v) \/ LRem(k, i, v)
  BY <1>1, <1>6, EditInv
<1>7. CASE \E k \in Key, offset \in {0, 1}, pivot, v \in Args : LInsert(k, offset, pivot, v)
  BY <1>1, <1>7, LInsertInv
<1>8. CASE \E src, dst \in Key, t \in now .. MaxTime :
             \/ Move("RPOPLPUSH", src, dst, "RIGHT", "LEFT", t)
             \/ \E from, to \in Ends \cup {"elsewhere"} : Move("LMOVE", src, dst, from, to, t)
  BY <1>8, MoveInv
<1> QED BY <1>2, <1>3, <1>4, <1>5, <1>6, <1>7, <1>8 DEF ListNext

-----------------------------------------------------------------------------
(* The handlers of hash.go *)

LEMMA HashType ==
    ASSUME IInv, NEW k \in Key
    PROVE  IsMap(Hash(k), Str, Str) /\ "hash" \in Containers
  BY ContentsOrTyped, StringIsNoContainer DEF IInv, Hash, IsContents

LEMMA UpdatedFits ==
    ASSUME NEW f, IsMap(f, Str, Str), NEW F, F \subseteq Str, F # {}, NEW g \in [F -> Str]
    PROVE  Fits("hash", Updated(f, g))
<1> DEFINE u == Updated(f, g)
<1>1. DOMAIN u = DOMAIN f \cup F /\ u \in [DOMAIN f \cup F -> Str]
  BY DEF IsMap, Updated
<1> HIDE DEF u
<1>2. IsMap(u, Str, Str) /\ DOMAIN u # {}
  BY <1>1 DEF IsMap
<1> QED BY <1>2 DEF Fits, IsContents, IsEmpty, u

\* One field gets a new value.
LEMMA FieldFits ==
    ASSUME IInv, NEW k \in Key, NEW f \in Str, NEW v \in Str
    PROVE  Fits("hash", Updated(Hash(k), [x \in {f} |-> v]))
<1>1. [x \in {f} |-> v] \in [{f} -> Str] /\ {f} \subseteq Str /\ {f} # {}
  OBVIOUS
<1> QED BY <1>1, HashType, UpdatedFits

LEMMA HIncrByInv ==
    ASSUME IInv, NEW k \in Key, NEW f \in Str, NEW delta \in Int, HIncrBy(k, f, delta)
    PROVE  IInv'
<1> DEFINE old == IF f \in DOMAIN Hash(k) THEN Hash(k)[f] ELSE 0
           n   == Wrap(old + delta)
           c   == Updated(Hash(k), [x \in {f} |-> n])
<1>1. CASE WrongType("HINCRBY", {k}, k, "hash") \/ Untouched("HINCRBY", {k}, k, "hash", Error)
  BY <1>1, OutcomesInv
<1>2. CASE /\ TypeAt(db, k) \in {"none", "hash"}
           /\ f \in DOMAIN Hash(k) => Hash(k)[f] \in IntVal
           /\ Exec("HINCRBY", {k}, Upsert(db, k, "hash", c), Number(n))
  <2>1. old \in Int
    <3>1. CASE f \in DOMAIN Hash(k)
      <4>1. Hash(k)[f] \in Int
        BY <1>2, <3>1, IntValType
      <4> QED BY <3>1, <4>1
    <3>2. CASE f \notin DOMAIN Hash(k)
      BY <3>2
    <3> QED BY <3>1, <3>2
  <2>2. old + delta \in Int
    BY <2>1
  <2>3. n \in Str
    BY <2>2, WrapType, IntValType
  <2> HIDE DEF n
  <2>4. Fits("hash", c)
    BY <2>3, FieldFits
  <2> HIDE DEF c
  <2> QED BY <1>2, <2>4, HashType, UpsertInv
<1> QED BY <1>1, <1>2 DEF HIncrBy

LEMMA HashNextInv ==
    ASSUME IInv, HashNext
    PROVE  IInv'
<1>1. Args \subseteq Str /\ Deltas \subseteq Int /\ "hash" \in Containers
  BY ArgumentAssumption, IntValType, StringIsNoContainer
<1>2. ASSUME NEW k \in Key, HashRead(k) PROVE IInv'
  BY <1>2, ReadOnlyInv DEF HashRead
<1>3. ASSUME NEW k \in Key, NEW F, HDel(k, F) PROVE IInv'
  <2>1. IsContents("hash", Without(Hash(k), F))
    BY HashType DEF IsContents, IsMap, Without
  <2> QED BY <1>1, <1>3, <2>1, OutcomesInv, ShrinkInv DEF HDel
<1>4. ASSUME NEW k \in Key, NEW F \in (SUBSET Args) \ {{}}, NEW g \in [F -> Args], HSet(k, g) PROVE IInv'
  <2>1. F \subseteq Str /\ F # {} /\ g \in [F -> Str]
    BY <1>1
  <2>2. Fits("hash", Updated(Hash(k), g))
    BY <2>1, HashType, UpdatedFits
  <2> QED BY <1>1, <1>4, <2>2, OutcomesInv, UpsertInv DEF HSet
<1>5. ASSUME NEW k \in Key, NEW f \in Args, NEW v \in Args, HSetNX(k, f, v) PROVE IInv'
  <2>1. Fits("hash", Updated(Hash(k), [x \in {f} |-> v]))
    BY <1>1, FieldFits
  <2> QED BY <1>1, <1>5, <2>1, OutcomesInv, UpsertInv DEF HSetNX
<1>6. ASSUME NEW k \in Key, NEW f \in Args, NEW delta \in Deltas, HIncrBy(k, f, delta) PROVE IInv'
  BY <1>1, <1>6, HIncrByInv
<1>7. ASSUME NEW k \in Key, NEW f \in Args, NEW v \in Str, HIncrByFloat(k, f, v) PROVE IInv'
  <2>1. Fits("hash", Updated(Hash(k), [x \in {f} |-> v]))
    BY <1>1, FieldFits
  <2> QED BY <1>1, <1>7, <2>1, OutcomesInv, UpsertInv DEF HIncrByFloat
<1> QED BY <1>2, <1>3, <1>4, <1>5, <1>6, <1>7 DEF HashNext

-----------------------------------------------------------------------------
(* The handlers of set.go *)

LEMMA SetType ==
    ASSUME NEW s, Good(s), NEW k \in Key
    PROVE  SetAt(s, k) \subseteq Str /\ "set" \in Containers
  BY ContentsOrTyped, StringIsNoContainer DEF SetAt, IsContents

LEMMA SetFits ==
    ASSUME NEW M, M \subseteq Str
    PROVE  IsContents("set", M) /\ (M # {} => Fits("set", M))
  BY DEF IsContents, Fits, IsEmpty

LEMMA CollectSetsGood ==
    ASSUME IInv, NEW first \in Key, NEW K \in SUBSET Key, NEW t, NEW M \in Missed(K, t)
    PROVE  Good(CollectSets(first, M))
<1>1. M \in SUBSET Key
  BY DEF Missed
<1> QED BY <1>1, LookupGood, DeleteAllGood DEF IInv, CollectSets

LEMMA CollectFailsInv ==
    ASSUME IInv, NEW cmd, NEW keys \in SUBSET Key, NEW first \in Key, NEW K \in SUBSET Key,
           NEW t \in now .. MaxTime, CollectFails(cmd, keys, first, K, t)
    PROVE  IInv'
<1>1. \A L \in SUBSET K : \A M \in Missed(L, t) : Good(CollectSets(first, M))
  BY CollectSetsGood
<1> QED BY <1>1, OutcomesInv, ExecUntilInv DEF CollectFails

LEMMA SetStoreInv ==
    ASSUME IInv, NEW op \in Operations, NEW dst \in Key, NEW first \in Key, NEW K \in SUBSET Key,
           NEW t \in now .. MaxTime, SetStore(op, dst, first, K, t)
    PROVE  IInv'
<1>1. CASE CollectFails("SUNIONSTORE", K \cup {first, dst}, first, K, t)
  BY <1>1, CollectFailsInv
<1>2. ASSUME NEW M \in Missed(K, t),
             ExecUntil(t, "SUNIONSTORE", K \cup {first, dst},
                       IF Combine(op, first, K, CollectSets(first, M)) = {}
                       THEN Delete(CollectSets(first, M), dst)
                       ELSE Create(Delete(CollectSets(first, M), dst), dst, "set",
                                   Combine(op, first, K, CollectSets(first, M))),
                       Number(Cardinality(Combine(op, first, K, CollectSets(first, M)))))
      PROVE  IInv'
  <2> DEFINE s == CollectSets(first, M)
             result == Combine(op, first, K, s)
             u == IF result = {} THEN Delete(s, dst) ELSE Create(Delete(s, dst), dst, "set", result)
  <2>1. Good(db) /\ Good(s) /\ Good(Delete(s, dst))
    BY CollectSetsGood, DeleteGood DEF IInv
  <2>2. ExecUntil(t, "SUNIONSTORE", K \cup {first, dst}, u, Number(Cardinality(result)))
    BY <1>2
  <2> HIDE DEF s
  <2>3. result \subseteq Str
    BY <2>1, SetType DEF Combine, Operations
  <2>4. result # {} => Good(Create(Delete(s, dst), dst, "set", result))
    BY <2>1, <2>3, SetType, SetFits, CreateGood, IntValType
  <2>5. Good(u)
    BY <2>1, <2>4
  <2> HIDE DEF u, result
  <2> QED BY <2>2, <2>5, ExecUntilInv
<1> QED BY <1>1, <1>2 DEF SetStore

LEMMA SMoveInv ==
    ASSUME IInv, NEW src \in Key, NEW dst \in Key, NEW m \in Str, NEW t \in now .. MaxTime,
           SMove(src, dst, m, t)
    PROVE  IInv'
<1> DEFINE s == LookupAt(Shrink(db, src, "set", SetAt(db, src) \ {m}), dst, t)
           u == Upsert(s, dst, "set", SetAt(s, dst) \cup {m})
<1>1. CASE WrongType("SMOVE", {src, dst}, src, "set") \/ Missing("SMOVE", {src, dst}, src, Number(0))
             \/ Untouched("SMOVE", {src, dst}, src, "set", Number(0))
  BY <1>1, OutcomesInv
<1>2. ASSUME TypeAt(db, src) = "set"
      PROVE  Good(s) /\ (TypeAt(s, dst) \in {"none", "set"} => Good(u))
  <2>1. db.data[src].type = "set"
    BY <1>2, TypeAtCases
  <2>2. SetAt(db, src) \ {m} \subseteq Str
    BY SetType DEF IInv
  <2>3. Good(s)
    BY <2>1, <2>2, SetType, SetFits, ShrinkGood, LookupAtGood DEF IInv
  <2> HIDE DEF s
  <2>4. Fits("set", SetAt(s, dst) \cup {m})
    BY <2>3, SetType, SetFits
  <2> QED BY <2>3, <2>4, SetType, UpsertGood
<1>3. CASE /\ TypeAt(db, src) = "set"
           /\ \/ ExecUntil(t, "SMOVE", {src, dst}, s, Error)
              \/ TypeAt(s, dst) \in {"none", "set"} /\ ExecUntil(t, "SMOVE", {src, dst}, u, Number(1))
  <2>1. {src, dst} \in SUBSET Key
    OBVIOUS
  <2> HIDE DEF s, u
  <2> QED BY <1>2, <1>3, <2>1, ExecUntilInv
<1> QED BY <1>1, <1>3 DEF SMove

LEMMA SetNextInv ==
    ASSUME IInv, SetNext
    PROVE  IInv'
<1>1. Args \subseteq Str /\ "set" \in Containers /\ \A k \in Key : SetAt(db, k) \subseteq Str
  BY ArgumentAssumption, StringIsNoContainer, SetType DEF IInv
<1>2. ASSUME NEW k \in Key, SetRead(k) \/ SRandMember(k) PROVE IInv'
  BY <1>2, OutcomesInv, ReadOnlyInv DEF SetRead, SRandMember
<1>3. ASSUME NEW k \in Key, NEW n, SPop(k, n) PROVE IInv'
  <2>1. \A M : IsContents("set", SetAt(db, k) \ M)
    BY <1>1, SetFits
  <2> QED BY <1>1, <1>3, <2>1, OutcomesInv, ShrinkInv DEF SPop
<1>4. ASSUME NEW k \in Key, NEW M \in (SUBSET Args) \ {{}}, SAdd(k, M) \/ SRem(k, M) PROVE IInv'
  <2>1. Fits("set", SetAt(db, k) \cup M) /\ IsContents("set", SetAt(db, k) \ M)
    BY <1>1, SetFits
  <2>2. CASE SAdd(k, M)
    BY <1>1, <2>1, <2>2, OutcomesInv, UpsertInv DEF SAdd
  <2>3. CASE SRem(k, M)
    BY <1>1, <2>1, <2>3, OutcomesInv, ShrinkInv DEF SRem
  <2> QED BY <1>4, <2>2, <2>3
<1>5. ASSUME NEW src \in Key, NEW dst \in Key, NEW m \in Args, NEW t \in now .. MaxTime,
             SMove(src, dst, m, t)
      PROVE  IInv'
  BY <1>1, <1>5, SMoveInv
<1>6. ASSUME NEW first \in Key, NEW K \in SUBSET Key, NEW t \in now .. MaxTime, SetAlgebra(first, K, t)
      PROVE  IInv'
  <2>1. K \cup {first} \in SUBSET Key /\ \A M \in Missed(K, t) : Good(CollectSets(first, M))
    BY CollectSetsGood
  <2> QED BY <1>6, <2>1, CollectFailsInv, ExecUntilInv DEF SetAlgebra
<1> QED BY <1>2, <1>3, <1>4, <1>5, <1>6, SetStoreInv DEF SetNext

-----------------------------------------------------------------------------
(* The handlers of zset.go *)

LEMMA ZSetType ==
    ASSUME IInv, NEW k \in Key
    PROVE  IsMap(ZSet(k), Str, Int) /\ "zset" \in Containers
  BY ContentsOrTyped, StringIsNoContainer DEF IInv, ZSet, IsContents

LEMMA ZSetFits ==
    ASSUME NEW z, IsMap(z, Str, Int)
    PROVE  Fits("zset", z) /\ IsContents("zset", z)
  BY DEF Fits, IsContents

LEMMA ScoredType ==
    ASSUME NEW z, IsMap(z, Str, Int), NEW g, NEW M, M \subseteq Str, \A m \in M : g[m] \in Int
    PROVE  IsMap(Scored(z, g, M), Str, Int)
  BY DEF IsMap, Scored

LEMMA UnscoredType ==
    ASSUME NEW z, IsMap(z, Str, Int), NEW M
    PROVE  IsMap(Unscored(z, M), Str, Int)
  BY DEF IsMap, Unscored

LEMMA ZNextInv ==
    ASSUME IInv, ZNext
    PROVE  IInv'
<1>1. Args \subseteq Str /\ "zset" \in Containers
  BY ArgumentAssumption, StringIsNoContainer
<1>2. ASSUME NEW k \in Key, ZRead(k) PROVE IInv'
  BY <1>2, ReadOnlyInv DEF ZRead
<1>3. ASSUME NEW k \in Key, NEW M, ZRem(k, M) PROVE IInv'
  <2>1. IsContents("zset", Unscored(ZSet(k), M))
    BY ZSetType, UnscoredType, ZSetFits
  <2> QED BY <1>1, <1>3, <2>1, OutcomesInv, ShrinkInv DEF ZRem
<1>4. ASSUME NEW k \in Key, NEW M \in SUBSET Args, NEW g \in [M -> Scores], NEW flags, ZAdd(k, g, flags)
      PROVE  IInv'
  <2>1. ASSUME NEW P, P \subseteq Applied(ZSet(k), g, flags)
        PROVE  Fits("zset", Scored(ZSet(k), g, P))
    <3>1. P \subseteq M
      BY <2>1 DEF Applied
    <3>2. P \subseteq Str /\ \A m \in P : g[m] \in Int
      BY <1>1, <3>1, ScoreAssumption
    <3> QED BY <3>2, ZSetType, ScoredType, ZSetFits
  <2> QED BY <1>1, <1>4, <2>1, OutcomesInv, UpsertInv DEF ZAdd
<1>5. ASSUME NEW k \in Key, NEW m \in Args, NEW delta, ZIncrBy(k, m, delta) PROVE IInv'
  <2> DEFINE score == (IF m \in DOMAIN ZSet(k) THEN ZSet(k)[m] ELSE 0) + delta
             z == Scored(ZSet(k), [x \in {m} |-> score], {m})
  <2>1. CASE WrongType("ZINCRBY", {k}, k, "zset")
    BY <2>1, OutcomesInv
  <2>2. CASE /\ TypeAt(db, k) \in {"none", "zset"}
             /\ score \in Scores
             /\ Exec("ZINCRBY", {k}, Upsert(db, k, "zset", z), Number(score))
    <3> HIDE DEF score
    <3>1. score \in Int /\ {m} \subseteq Str
      BY <1>1, <2>2, ScoreAssumption
    <3>2. Fits("zset", z)
      BY <3>1, ZSetType, ScoredType, ZSetFits
    <3> HIDE DEF z
    <3> QED BY <1>1, <2>2, <3>2, UpsertInv
  <2> QED BY <1>5, <2>1, <2>2 DEF ZIncrBy
<1>6. ASSUME NEW cmd, NEW k \in Key, NEW n, NEW sign, ZPop(cmd, k, n, sign) PROVE IInv'
  <2>1. \A M : IsContents("zset", Unscored(ZSet(k), M))
    BY ZSetType, UnscoredType, ZSetFits
  <2> QED BY <1>1, <1>6, <2>1, OutcomesInv, ShrinkInv DEF ZPop
<1> QED BY <1>2, <1>3, <1>4, <1>5, <1>6 DEF ZNext

-----------------------------------------------------------------------------
(* The specification *)

LEMMA InitInv == KeyspaceInit => IInv
<1> SUFFICES ASSUME KeyspaceInit PROVE IInv
  OBVIOUS
<1>1. db = [data |-> [k \in Key |-> Absent], heap |-> [r \in Ref |-> << >>]]
        /\ now = 0 /\ last.cmd = "none" /\ last.keys = {}
  BY DEF KeyspaceInit
<1>2. WellFormed(db)
  BY <1>1 DEF WellFormed
<1>3. \A k \in Key : db.data[k].type = "none"
  BY <1>1 DEF Absent
<1>4. Good(db)
  BY <1>2, <1>3, StringIsNoContainer DEF Good, ContainersTyped, NoEmptyMap, SharedListsOnly
<1> QED BY <1>1, <1>4, ClockAssumption DEF IInv

LEMMA NextInv == IInv /\ [Next]_vars => IInv'
<1> SUFFICES ASSUME IInv, [Next]_vars PROVE IInv'
  OBVIOUS
<1>1. ASSUME BadArguments PROVE IInv'
  <2>1. {} \in SUBSET Key /\ Good(db)
    BY DEF IInv
  <2> QED BY <1>1, <2>1, ExecInv DEF BadArguments, Reject
<1>2. ASSUME UNCHANGED vars PROVE IInv'
  <2>1. db' = db /\ now' = now /\ last' = last
    BY <1>2 DEF vars
  <2>2. Good(db)'
    BY <2>1 DEF IInv, Good, WellFormed, ContainersTyped, NoEmptyMap, SharedListsOnly,
                Contents, IsContents, IsEmpty, IsMap
  <2> QED BY <2>1, <2>2 DEF IInv
<1> QED BY <1>1, <1>2, KeyNextInv, StringNextInv, ListNextInv, HashNextInv, SetNextInv, ZNextInv
        DEF Next

(* IInv is an invariant: the conjunction of the three invariants below is   *)
(* inductive, none of them is by itself.  A push through a shared reference *)
(* keeps every key well typed only because sharing is typed, and an emptied *)
(* map is gone for good only because no other key shares it.                *)
THEOREM Inductive == Spec => []IInv
<1>1. KeyspaceInit => IInv
  BY InitInv
<1>2. IInv /\ [Next]_vars => IInv'
  BY NextInv
<1> QED BY <1>1, <1>2, PTL DEF Spec

(* Every Object any sequence of commands stores is well formed, and every   *)
(* container holds what the type assertions of the handlers expect.         *)
THEOREM TypeCorrect == Spec => []TypeOK
<1>1. IInv => TypeOK
  BY DEF IInv, TypeOK, Good, WellFormed, ContainersTyped
<1> QED BY <1>1, Inductive, PTL

(* No hash and no set is ever empty, so that SRANDMEMBER never draws from   *)
(* an empty range.                                                          *)
THEOREM NoEmptyMaps == Spec => []MapsAreNeverEmpty
<1>1. IInv => MapsAreNeverEmpty
  BY DEF IInv, MapsAreNeverEmpty, Good, NoEmptyMap
<1> QED BY <1>1, Inductive, PTL

(* Whatever is copied, renamed, moved or stored, hashes and sets are not    *)
(* shared, and keys that share a container agree on its type.               *)
THEOREM TypedSharing == Spec => []SharingIsTyped
<1>1. IInv => SharingIsTyped
  <2>1. Good(db) => \A j, k \in Key : Shared(j, k) =>
            db.data[j].type = db.data[k].type /\ db.data[j].type \in {"list", "zset"}
    BY DEF Good, SharedListsOnly, Shared
  <2> QED BY <2>1 DEF IInv, SharingIsTyped
<1> QED BY <1>1, Inductive, PTL

=============================================================================
