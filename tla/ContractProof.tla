---------------------------- MODULE ContractProof ----------------------------
(***************************************************************************)
(* The handlers implement the contract of KeyspaceContract, for all values *)
(* of the constants, as long as no two keys share a list or a sorted set.  *)
(***************************************************************************)
EXTENDS CommandTableProof, SequenceTheorems

-----------------------------------------------------------------------------
(* Entries: what a client sees under one key of the pair s = [data, heap].  *)

\* Every container belongs to one key.
Private(s) ==
    \A j, k \in Key : j # k /\ s.data[j].type \in Containers /\ s.data[k].type \in Containers
                        => s.data[j].val # s.data[k].val

ViewOf(s) == [k \in Key |-> Entry(s, k)]

LEMMA EntryCases ==
    ASSUME NEW s, Good(s), NEW k \in Key
    PROVE  /\ ~Live(s, k) => Entry(s, k) = Absent
           /\ Live(s, k) =>
                 /\ Entry(s, k).type = s.data[k].type /\ s.data[k].type # "none"
                 /\ Entry(s, k).exp = s.data[k].exp
                 /\ Entry(s, k) = [type |-> s.data[k].type, val |-> Entry(s, k).val, exp |-> s.data[k].exp]
                 /\ s.data[k].type = "string" => Entry(s, k).val = s.data[k].val
                 /\ s.data[k].type # "string" => s.data[k].type \in Containers
                                                   /\ Entry(s, k).val = Contents(s, k)
           /\ Entry(s, k).type = TypeAt(s, k)
<1>1. s.data[k] \in {Absent} \cup Object
  BY DEF Good, WellFormed
<1>2. CASE ~Live(s, k)
  BY <1>2 DEF Entry, TypeAt, Absent
<1>3. CASE Live(s, k)
  <2>1. s.data[k].type # "none" /\ (s.data[k].type = "string" \/ s.data[k].type \in Containers)
    BY <1>1, <1>3, ObjectCases DEF Live, LiveAt, Stored
  <2> QED BY <1>3, <2>1 DEF Entry, TypeAt
<1> QED BY <1>2, <1>3

\* An Object that has not changed, and neither has what it points to, is seen
\* as before, be it under another key.
LEMMA SameEntry ==
    ASSUME NEW s, Good(s), NEW u, NEW j \in Key, NEW k \in Key, u.data[j] = s.data[k],
           s.data[k].type \in Containers => Contents(u, j) = Contents(s, k)
    PROVE  Entry(u, j) = Entry(s, k)
<1>1. Live(u, j) <=> Live(s, k)
  BY DEF Live, LiveAt, Stored, ExpiredAt
<1>2. CASE ~Live(s, k)
  BY <1>1, <1>2 DEF Entry
<1>3. CASE Live(s, k)
  <2>1. s.data[k].type = "string" \/ s.data[k].type \in Containers
    BY <1>3, EntryCases
  <2> QED BY <1>1, <1>3, <2>1 DEF Entry
<1> QED BY <1>2, <1>3

\* The same when the heap is the same.
LEMMA SameHeapEntry ==
    ASSUME NEW s, Good(s), NEW u, NEW j \in Key, NEW k \in Key, u.data[j] = s.data[k], u.heap = s.heap
    PROVE  Entry(u, j) = Entry(s, k)
  BY SameEntry DEF Contents

LEMMA CollectView ==
    ASSUME NEW s, Good(s)
    PROVE  ViewOf(Collect(s)) = ViewOf(s)
<1> SUFFICES ASSUME NEW k \in Key PROVE Entry(Collect(s), k) = Entry(s, k)
  BY DEF ViewOf
<1> DEFINE u == Collect(s)
<1>1. u.data = s.data /\ \A r \in Ref : ~Free(s, r) => u.heap[r] = s.heap[r]
  BY DEF Good, WellFormed, Collect
<1> HIDE DEF u
<1>2. s.data[k].type \in Containers => Contents(u, k) = Contents(s, k)
  BY <1>1, ObjectCases, StringIsNoContainer DEF Good, WellFormed, Contents, Free, Stored
<1> QED BY <1>1, <1>2, SameEntry DEF u

LEMMA DeadEntry ==
    ASSUME NEW u, NEW k \in Key, u.data[k] = Absent
    PROVE  Entry(u, k) = Absent
  BY DEF Entry, Live, LiveAt, Stored, Absent

LEMMA DeleteAllEntry ==
    ASSUME NEW s, Good(s), NEW K \in SUBSET Key, NEW k \in Key
    PROVE  Entry(DeleteAll(s, K), k) = IF k \in K THEN Absent ELSE Entry(s, k)
<1> DEFINE u == DeleteAll(s, K)
<1>1. u.heap = s.heap /\ u.data[k] = IF k \in K THEN Absent ELSE s.data[k]
  BY DEF Good, WellFormed, DeleteAll
<1> HIDE DEF u
<1>2. CASE k \in K
  BY <1>1, <1>2, DeadEntry DEF u
<1>3. CASE k \notin K
  BY <1>1, <1>3, SameHeapEntry DEF u
<1> QED BY <1>2, <1>3

LEMMA DeleteEntry ==
    ASSUME NEW s, Good(s), NEW j \in Key, NEW k \in Key
    PROVE  Entry(Delete(s, j), k) = IF k = j THEN Absent ELSE Entry(s, k)
<1>1. Delete(s, j) = DeleteAll(s, {j})
  BY DEF Delete, DeleteAll, Good, WellFormed
<1> QED BY <1>1, DeleteAllEntry

\* What a lookup removes was not visible.
LEMMA LookupAllView ==
    ASSUME NEW s, Good(s), NEW K \in SUBSET Key
    PROVE  ViewOf(LookupAll(s, K)) = ViewOf(s)
<1> DEFINE D == {k \in K : Stored(s, k) /\ ~Live(s, k)}
<1>1. D \in SUBSET Key /\ \A k \in D : Entry(s, k) = Absent
  BY EntryCases
<1>2. LookupAll(s, K) = DeleteAll(s, D)
  BY DEF LookupAll
<1> HIDE DEF D
<1>3. \A k \in Key : Entry(DeleteAll(s, D), k) = Entry(s, k)
  BY <1>1, DeleteAllEntry
<1> QED BY <1>2, <1>3 DEF ViewOf

LEMMA LookupView ==
    ASSUME NEW s, Good(s), NEW k \in Key
    PROVE  ViewOf(Lookup(s, k)) = ViewOf(s)
<1>1. CASE Stored(s, k) /\ ~Live(s, k)
  <2>1. Entry(s, k) = Absent
    BY <1>1, EntryCases
  <2>2. \A j \in Key : Entry(Delete(s, k), j) = Entry(s, j)
    BY <2>1, DeleteEntry
  <2> QED BY <1>1, <2>2 DEF Lookup, ViewOf
<1>2. CASE ~(Stored(s, k) /\ ~Live(s, k))
  BY <1>2 DEF Lookup
<1> QED BY <1>1, <1>2

\* A string just stored, which may have expired already.
Fresh(v, e) == IF e # Never /\ e < now THEN Absent ELSE StringObject(v, e)

LEMMA StringEntry ==
    ASSUME NEW u, NEW k \in Key, NEW v, NEW e, u.data[k] = StringObject(v, e)
    PROVE  Entry(u, k) = Fresh(v, e)
  BY DEF Entry, Live, LiveAt, Stored, ExpiredAt, StringObject, Fresh

LEMMA StoreStringEntry ==
    ASSUME NEW s, Good(s), NEW j \in Key, NEW k \in Key, NEW v, NEW e
    PROVE  Entry(SetObject(s, j, StringObject(v, e)), k) = IF k = j THEN Fresh(v, e) ELSE Entry(s, k)
<1> DEFINE u == SetObject(s, j, StringObject(v, e))
<1>1. u.heap = s.heap /\ u.data[k] = IF k = j THEN StringObject(v, e) ELSE s.data[k]
  BY DEF Good, WellFormed, SetObject
<1> HIDE DEF u
<1>2. CASE k = j
  BY <1>1, <1>2, StringEntry DEF u
<1>3. CASE k # j
  BY <1>1, <1>3, SameHeapEntry DEF u
<1> QED BY <1>2, <1>3

LEMMA SetAllEntry ==
    ASSUME NEW s, Good(s), NEW V, NEW k \in Key
    PROVE  Entry(SetAll(s, V), k) = IF k \in DOMAIN V THEN StringObject(V[k], Never) ELSE Entry(s, k)
<1> DEFINE u == SetAll(s, V)
<1>1. u.heap = s.heap /\ u.data[k] = IF k \in DOMAIN V THEN StringObject(V[k], Never) ELSE s.data[k]
  BY DEF Good, WellFormed, SetAll
<1> HIDE DEF u
<1>2. CASE k \in DOMAIN V
  BY <1>1, <1>2, StringEntry DEF u, Fresh
<1>3. CASE k \notin DOMAIN V
  BY <1>1, <1>3, SameHeapEntry DEF u
<1> QED BY <1>2, <1>3

\* Only the expiry of k changes.
WithExpiry(s, k, e) == [s EXCEPT !.data[k].exp = e]

LEMMA SetExpiryEntry ==
    ASSUME NEW s, Good(s), NEW k \in Key, NEW e \in Expiry, Stored(s, k)
    PROVE  LET u == WithExpiry(s, k, e) IN
           /\ \A j \in Key \ {k} : Entry(u, j) = Entry(s, j)
           /\ Entry(u, k) \in {Absent, [type |-> s.data[k].type, val |-> Entry(u, k).val, exp |-> e]}
           /\ Live(s, k) => Entry(u, k) \in {Absent, [Entry(s, k) EXCEPT !.exp = e]}
           /\ Live(s, k) /\ ~(e # Never /\ e < now) => Entry(u, k) = [Entry(s, k) EXCEPT !.exp = e]
<1> DEFINE o == s.data[k]
           u == WithExpiry(s, k, e)
<1>1. o \in Object /\ o = [type |-> o.type, val |-> o.val, exp |-> o.exp]
  BY ObjectCases DEF Good, WellFormed, Stored
<1>2. u.data = [s.data EXCEPT ![k] = [o EXCEPT !.exp = e]] /\ u.heap = s.heap
  BY DEF Good, WellFormed, WithExpiry
<1>5. Good(u)
  BY SetExpiryGood DEF WithExpiry
<1> HIDE DEF u
<1>3. u.data[k] = [type |-> o.type, val |-> o.val, exp |-> e] /\ \A j \in Key \ {k} : u.data[j] = s.data[j]
  BY <1>1, <1>2 DEF Good, WellFormed
<1> HIDE DEF o
<1>4. ASSUME NEW j \in Key \ {k} PROVE Entry(u, j) = Entry(s, j)
  <2>1. u.heap = s.heap /\ u.data[j] = s.data[j]
    BY <1>2, <1>3
  <2> QED BY <2>1, SameHeapEntry
<1>6. CASE ~Live(u, k)
  <2>1. e # Never /\ e < now
    BY <1>1, <1>3, <1>6 DEF Live, LiveAt, ExpiredAt, Stored, o
  <2> QED BY <1>4, <1>5, <1>6, <2>1, EntryCases DEF u, o
<1>7. CASE Live(u, k)
  <2>1. Entry(u, k) = [type |-> o.type, val |-> Entry(u, k).val, exp |-> e]
    <3>1. u.data[k].type = o.type /\ u.data[k].exp = e
      BY <1>3
    <3>2. Entry(u, k) = [type |-> u.data[k].type, val |-> Entry(u, k).val, exp |-> u.data[k].exp]
      BY <1>5, <1>7, EntryCases
    <3> QED BY <3>1, <3>2
  <2>2. ASSUME Live(s, k) PROVE Entry(u, k) = [Entry(s, k) EXCEPT !.exp = e]
    <3>1. Entry(s, k) = [type |-> o.type, val |-> Entry(s, k).val, exp |-> o.exp]
      BY <2>2, EntryCases DEF o
    <3>2. Entry(u, k).val = Entry(s, k).val
      BY <1>2, <1>3, <1>7, <2>2 DEF Entry, Contents, o
    <3> QED BY <2>1, <3>1, <3>2
  <2> QED BY <1>4, <2>1, <2>2 DEF u, o
<1> QED BY <1>6, <1>7 DEF u

LEMMA RenameView ==
    ASSUME NEW s, Good(s), NEW src \in Key, NEW dst \in Key, NEW t, LiveAt(s, src, t)
    PROVE  ViewOf(Rename(s, src, dst, t)) = [ViewOf(s) EXCEPT ![src] = Absent, ![dst] = ViewOf(s)[src]]
<1> DEFINE u == Rename(s, src, dst, t)
<1>1. u.heap = s.heap /\ \A k \in Key : u.data[k] = CASE k = dst -> s.data[src]
                                                      [] k = src /\ src # dst -> Absent
                                                      [] OTHER -> s.data[k]
  BY DEF Good, WellFormed, Rename
<1> HIDE DEF u
<1>2. Entry(u, dst) = Entry(s, src)
  BY <1>1, SameHeapEntry
<1>3. src # dst => Entry(u, src) = Absent
  BY <1>1, DeadEntry
<1>4. \A k \in Key \ {src, dst} : Entry(u, k) = Entry(s, k)
  BY <1>1, SameHeapEntry
<1> QED BY <1>2, <1>3, <1>4 DEF u, ViewOf

LEMMA CreateEntry ==
    ASSUME NEW s, Good(s), NEW k \in Key, NEW t \in Containers, NEW c, Fits(t, c), NEW j \in Key
    PROVE  Entry(Create(s, k, t, c), j) =
               IF j = k THEN [type |-> t, val |-> c, exp |-> Never] ELSE Entry(s, j)
<1> DEFINE r == FreshRef(s)
           u == Create(s, k, t, c)
<1>1. r \in Ref /\ \A i \in Key : Stored(s, i) => s.data[i].val # r
  BY FreshRefExists DEF Free
<1>2. /\ u.data = [s.data EXCEPT ![k] = ContainerObject(t, r, Never)]
      /\ u.heap = [s.heap EXCEPT ![r] = c]
  BY DEF Create
<1>3. u.data[j] = (IF j = k THEN ContainerObject(t, r, Never) ELSE s.data[j])
        /\ \A q \in Ref : u.heap[q] = IF q = r THEN c ELSE s.heap[q]
  BY <1>1, <1>2 DEF Good, WellFormed
<1> HIDE DEF u, r
<1>4. CASE j = k
  BY <1>1, <1>3, <1>4, StringIsNoContainer DEF ContainerObject, Entry, Live, LiveAt, Stored, ExpiredAt, Contents, u
<1>5. CASE j # k
  <2>1. s.data[j].type \in Containers => s.data[j].val \in Ref /\ s.data[j].val # r
    BY <1>1, ObjectCases, StringIsNoContainer DEF Good, WellFormed, Stored
  <2>2. s.data[j].type \in Containers => Contents(u, j) = Contents(s, j)
    BY <1>3, <1>5, <2>1 DEF Contents
  <2> QED BY <1>3, <1>5, <2>2, SameEntry DEF u
<1> QED BY <1>4, <1>5

LEMMA CreatePrivate ==
    ASSUME NEW s, Good(s), Private(s), NEW k \in Key, NEW t \in Containers, NEW c
    PROVE  Private(Create(s, k, t, c))
<1> DEFINE r == FreshRef(s)
           u == Create(s, k, t, c)
<1>1. \A i \in Key : Stored(s, i) => s.data[i].val # r
  BY FreshRefExists DEF Free
<1>2. u.data = [s.data EXCEPT ![k] = ContainerObject(t, r, Never)]
  BY DEF Create
<1> HIDE DEF u, r
<1>3. u.data[k].val = r /\ \A j \in Key \ {k} : u.data[j] = s.data[j]
  BY <1>2 DEF Good, WellFormed, ContainerObject
<1>4. \A j \in Key \ {k} : s.data[j].type \in Containers => s.data[j].val # r
  BY <1>1, StringIsNoContainer DEF Stored
<1> QED BY <1>3, <1>4 DEF Private, u

\* The value of k changes, and nothing else: k does not share its container.
LEMMA MutateEntry ==
    ASSUME NEW s, Good(s), Private(s), NEW k \in Key, s.data[k].type \in Containers, NEW c, NEW j \in Key
    PROVE  /\ Entry(Mutate(s, k, c), j) =
                  IF j = k /\ Live(s, k) THEN [Entry(s, k) EXCEPT !.val = c] ELSE Entry(s, j)
           /\ Mutate(s, k, c).data = s.data
<1> DEFINE r == s.data[k].val
           u == Mutate(s, k, c)
<1>1. r \in Ref
  BY ObjectCases DEF Good, WellFormed
<1>2. u.data = s.data /\ u.heap = [s.heap EXCEPT ![r] = c]
  BY DEF Good, WellFormed, Mutate
<1>3. \A q \in Ref : u.heap[q] = IF q = r THEN c ELSE s.heap[q]
  BY <1>1, <1>2 DEF Good, WellFormed
<1> HIDE DEF u, r
<1>4. Live(u, k) <=> Live(s, k)
  BY <1>2 DEF Live, LiveAt, Stored, ExpiredAt
<1>5. CASE j = k /\ Live(s, k)
  <2>1. Entry(s, k) = [type |-> s.data[k].type, val |-> Entry(s, k).val, exp |-> s.data[k].exp]
    BY <1>5, EntryCases
  <2>2. Entry(u, k) = [type |-> s.data[k].type, val |-> c, exp |-> s.data[k].exp]
    BY <1>1, <1>2, <1>3, <1>4, <1>5, StringIsNoContainer DEF Entry, Contents, r
  <2> QED BY <1>2, <1>5, <2>1, <2>2 DEF u
<1>6. CASE j = k /\ ~Live(s, k)
  BY <1>2, <1>4, <1>6 DEF Entry, u
<1>7. CASE j # k
  <2>1. s.data[j].type \in Containers => s.data[j].val \in Ref /\ s.data[j].val # r
    BY <1>7, ObjectCases DEF Good, WellFormed, Private, r
  <2>2. s.data[j].type \in Containers => Contents(u, j) = Contents(s, j)
    BY <1>2, <1>3, <2>1 DEF Contents
  <2> QED BY <1>2, <1>7, <2>2, SameEntry DEF u
<1> QED BY <1>5, <1>6, <1>7

LEMMA PrivateKept ==
    ASSUME NEW s, Private(s), NEW u,
           \A k \in Key : u.data[k].type \in Containers =>
               u.data[k].type = s.data[k].type /\ u.data[k].val = s.data[k].val
    PROVE  Private(u)
  BY DEF Private

\* What a handler of type t finds under a key.
LEMMA ContentsOrEntry ==
    ASSUME NEW s, Good(s), NEW k \in Key, NEW t
    PROVE  /\ TypeAt(s, k) = Entry(s, k).type
           /\ TypeAt(s, k) = t /\ t \in Containers => Entry(s, k).val = ContentsOr(s, k, t) /\ Live(s, k)
           /\ TypeAt(s, k) # t => ContentsOr(s, k, t) = EmptyOf(t)
  BY EntryCases, TypeAtCases, StringIsNoContainer DEF ContentsOr

LEMMA PositionsFinite ==
    ASSUME NEW s, Good(s)
    PROVE  IsFiniteSet(Positions(ViewOf(s)))
<1> DEFINE v == ViewOf(s)
           L == {k \in Key : v[k].type = "list"}
           T == {{k} \X DOMAIN v[k].val : k \in L}
           f == [k \in L |-> {k} \X DOMAIN v[k].val]
<1>1. IsFiniteSet(L)
  BY KeyAssumption, FS_Subset
<1>2. IsFiniteSet(T)
  <2>1. f \in Surjection(L, T)
    BY DEF Surjection
  <2> QED BY <1>1, <2>1, FS_Surjection
<1>3. ASSUME NEW k \in L PROVE IsFiniteSet({k} \X DOMAIN v[k].val)
  <2>1. k \in Key /\ v[k] = Entry(s, k) /\ v[k].type = "list"
    BY DEF ViewOf
  <2>5. TypeAt(s, k) = "list" /\ "list" \in Containers
    BY <2>1, EntryCases, StringIsNoContainer
  <2>6. v[k].val = ContentsOr(s, k, "list")
    BY <2>1, <2>5, ContentsOrEntry
  <2>2. v[k].val \in Seq(Str)
    BY <2>1, <2>6, ListType
  <2>3. Len(v[k].val) \in Nat /\ DOMAIN v[k].val = 1 .. Len(v[k].val)
    BY <2>2
  <2>4. IsFiniteSet(DOMAIN v[k].val)
    <3> HIDE DEF v
    <3>1. 1 \in Int /\ Len(v[k].val) \in Int
      BY ONLY <2>3
    <3>2. IsFiniteSet(1 .. Len(v[k].val))
      BY ONLY <3>1, FS_Interval
    <3> QED BY ONLY <2>3, <3>2
  <2>7. IsFiniteSet({k})
    BY ONLY FS_Singleton
  <2> QED BY <2>4, <2>7, FS_Product
<1>4. Positions(v) = UNION T
  BY DEF Positions
<1>5. \A X \in T : IsFiniteSet(X)
  BY <1>3
<1> HIDE DEF T, v
<1> QED BY <1>2, <1>4, <1>5, FS_UNION DEF v

-----------------------------------------------------------------------------
(* What the commands that make lists and sorted sets leave apart: COPY      *)
(* shares them.                                                             *)

Unshared == "COPY" \in Commands => Commands \cap {"LPUSH", "RPUSH", "ZADD", "ZINCRBY"} = {}

Sharable == {"list", "zset"}

Apart(s) == Private(s) /\ ("COPY" \in Commands => \A k \in Key : s.data[k].type \notin Sharable)

-----------------------------------------------------------------------------
(* What a command that leaves s does for the client.                        *)

PairMovers == {"RPOPLPUSH", "LMOVE"}

\* What it does between now and t is done to what is left at t.
Aged(s, t) == Contract!Left(ViewOf(s), t)

OvertakenBy(keys, t) == {k \in keys : Live(db, k) /\ ExpiredAt(db, k, t)}

FulfilsUntil(t, cmd, keys, s, reply) ==
    /\ Contract!Allowed(cmd, keys, reply, Aged(db, t), Aged(s, t))
    /\ cmd \in PairMovers /\ reply.kind # "error" =>
         \E saved \in {0, 1} :
            /\ TotalLength(Aged(s, t)) = TotalLength(Aged(db, t)) + saved
            /\ OvertakenBy(keys, t) \in {{}, keys} => (saved = 1 <=> OvertakenBy(keys, t) # {})
    /\ Unshared /\ cmd \in Commands /\ Apart(db) => Apart(s)

\* The same for a command that takes no time.
Fulfils(cmd, keys, s, reply) ==
    /\ Contract!Allowed(cmd, keys, reply, View, ViewOf(s))
    /\ cmd \in PairMovers /\ reply.kind # "error" => TotalLength(ViewOf(s)) = TotalLength(View)
    /\ Unshared /\ cmd \in Commands /\ Apart(db) => Apart(s)

\* A step does for the client what the contract says, and keeps the
\* containers apart.
Conserved ==
    \E saved \in {0, 1} :
       /\ TotalLength(View') = TotalLength(Contract!Left(View, now')) + saved
       /\ Overtaken \in {{}, last'.keys} => (saved = 1 <=> Overtaken # {})

Honoured ==
    /\ [Contract!Command \/ Contract!TimePasses]_(Contract!cvars)
    /\ Succeeded("RPOPLPUSH") \/ Succeeded("LMOVE") => Conserved
    /\ Unshared /\ Apart(db) => Apart(db)'

LEMMA ViewEntries == View = ViewOf(db) /\ \A s : \A k \in Key : ViewOf(s)[k] = Entry(s, k)
  BY DEF View, ViewOf

\* What is seen under a key at t, and what is left of it there.
LEMMA AgedEntry ==
    ASSUME NEW s, Good(s), NEW k \in Key, now \in Int, NEW t \in Int, now <= t
    PROVE  /\ Contract!Visible(Entry(s, k), t) = IF LiveAt(s, k, t) THEN Entry(s, k) ELSE Absent
           /\ LiveAt(s, k, t) => Live(s, k)
<1>1. Stored(s, k) /\ s.data[k].exp # Never => s.data[k].exp \in Int
  BY ObjectCases DEF Good, WellFormed, Stored, Expiry
<1>2. LiveAt(s, k, t) => Live(s, k)
  BY <1>1 DEF Live, LiveAt, ExpiredAt
<1>3. CASE ~Live(s, k)
  <2>1. Entry(s, k) = Absent
    BY <1>3, EntryCases
  <2> QED BY <1>2, <1>3, <2>1 DEF Contract!Visible, Absent
<1>4. CASE Live(s, k)
  <2>1. Entry(s, k).type # "none" /\ Entry(s, k).exp = s.data[k].exp
    BY <1>4, EntryCases
  <2>2. LiveAt(s, k, t) <=> ~(s.data[k].exp # Never /\ s.data[k].exp < t)
    BY <1>4 DEF Live, LiveAt, ExpiredAt
  <2> QED BY <1>2, <2>1, <2>2 DEF Contract!Visible, Contract!None, Absent
<1> QED BY <1>3, <1>4

LEMMA AgedEntries ==
    ASSUME NEW s, NEW t
    PROVE  \A k \in Key : Aged(s, t)[k] = Contract!Visible(Entry(s, k), t)
  BY DEF Aged, Contract!Left, ViewOf

\* Nothing ages in no time.
LEMMA AgedNow ==
    ASSUME NEW s, Good(s), now \in Int
    PROVE  Aged(s, now) = ViewOf(s)
<1>1. ASSUME NEW k \in Key PROVE Contract!Visible(Entry(s, k), now) = Entry(s, k)
  <2>1. now <= now
    OBVIOUS
  <2> QED BY <2>1, AgedEntry, EntryCases DEF Live
<1> QED BY <1>1 DEF Aged, Contract!Left, ViewOf

\* What is seen of s when it is what the command has left, at t.
LEMMA AgedView ==
    ASSUME NEW s, Good(s), now \in Int, NEW t \in Int, now <= t, db' = Collect(s), now' = t
    PROVE  View' = Aged(s, t)
<1> DEFINE u == Collect(s)
<1>1. Good(u) /\ ViewOf(u) = ViewOf(s)
  BY CollectGood, CollectView
<1>2. db' = u
  OBVIOUS
<1> HIDE DEF u
<1>3. ASSUME NEW k \in Key PROVE Entry(db, k)' = Contract!Visible(Entry(u, k), t)
  <2>1. Live(db, k)' <=> LiveAt(u, k, t)
    BY <1>2 DEF Live, LiveAt, ExpiredAt, Stored
  <2>2. Contract!Visible(Entry(u, k), t) = (IF LiveAt(u, k, t) THEN Entry(u, k) ELSE Absent)
          /\ (LiveAt(u, k, t) => Live(u, k))
    BY <1>1, AgedEntry
  <2>3. Entry(db, k)' = IF Live(db, k)' THEN [type |-> u.data[k].type,
                             val  |-> IF u.data[k].type = "string" THEN u.data[k].val ELSE Contents(u, k),
                             exp  |-> u.data[k].exp] ELSE Absent
    BY <1>2 DEF Entry, Contents
  <2> QED BY <2>1, <2>2, <2>3 DEF Entry
<1>4. View' = Aged(u, t)
  BY <1>3 DEF View, Aged, Contract!Left, ViewOf
<1> QED BY <1>1, <1>4 DEF Aged

LEMMA CollectApart ==
    ASSUME NEW s, Good(s), Apart(s)
    PROVE  Apart(Collect(s))
<1>1. Collect(s).data = s.data
  BY DEF Good, WellFormed, Collect
<1> QED BY <1>1 DEF Apart, Private

LEMMA ExecUntilHonoured ==
    ASSUME IInv, NEW t \in now .. MaxTime, NEW cmd, NEW keys, NEW s, Good(s), NEW reply,
           ExecUntil(t, cmd, keys, s, reply), FulfilsUntil(t, cmd, keys, s, reply)
    PROVE  Honoured
<1>1. /\ db' = Collect(s) /\ now' = t /\ cmd \in Commands
      /\ last'.cmd = cmd /\ last'.keys = keys /\ last'.reply = reply
      /\ now \in Int /\ t \in Int /\ now <= t
  BY ClockAssumption DEF ExecUntil, IInv
<1>2. View' = Aged(s, t)
  BY <1>1, AgedView
<1>3. Contract!Left(View, t) = Aged(db, t)
  BY ViewEntries DEF Aged
<1>4. Contract!Command
  BY <1>1, <1>2, <1>3 DEF FulfilsUntil, Contract!Command
<1>5. Overtaken = OvertakenBy(keys, t)
  BY <1>1 DEF Overtaken, OvertakenBy
<1>6. Succeeded("RPOPLPUSH") \/ Succeeded("LMOVE") => Conserved
  BY <1>1, <1>2, <1>3, <1>5 DEF FulfilsUntil, Succeeded, Ran, PairMovers, Conserved
<1>7. Unshared /\ Apart(db) => Apart(Collect(s))
  BY <1>1, CollectApart DEF FulfilsUntil
<1>8. Unshared /\ Apart(db) => Apart(db)'
  BY <1>1, <1>7 DEF Apart, Private
<1> QED BY <1>4, <1>6, <1>8 DEF Honoured

LEMMA ExecHonoured ==
    ASSUME IInv, NEW cmd, NEW keys, NEW s, Good(s), NEW reply,
           Exec(cmd, keys, s, reply), Fulfils(cmd, keys, s, reply)
    PROVE  Honoured
<1>1. now \in Int /\ now \in now .. MaxTime /\ Good(db)
  BY ClockAssumption DEF IInv
<1>2. Aged(db, now) = View /\ Aged(s, now) = ViewOf(s)
  BY <1>1, AgedNow, ViewEntries
<1>3. OvertakenBy(keys, now) = {}
  BY DEF OvertakenBy, Live, LiveAt
<1>4. TotalLength(View) \in Nat
  BY <1>1, ViewEntries, PositionsFinite, FS_CardinalityType DEF TotalLength
<1>5. cmd \in PairMovers /\ reply.kind # "error" => TotalLength(ViewOf(s)) = TotalLength(View) + 0
  BY <1>4 DEF Fulfils
<1>6. FulfilsUntil(now, cmd, keys, s, reply)
  BY <1>2, <1>3, <1>5 DEF Fulfils, FulfilsUntil
<1> QED BY <1>1, <1>6, ExecUntilHonoured DEF Exec

\* The classes of commands.
LEMMA Classes ==
    /\ Contract!Readers = {"EXISTS", "TTL", "TYPE", "OBJECT", "KEYS", "RANDOMKEY", "DBSIZE", "GET", "MGET",
           "LRANGE", "HGETALL", "SRANDMEMBER", "SMEMBERS", "SUNION", "ZRANGE"}
    /\ Contract!Removers = {"DEL", "FLUSHDB", "GETDEL"}
    /\ Contract!None = Absent
  BY DEF Contract!Readers, Contract!Removers, Contract!None, Absent

\* A command that changes nothing does nothing wrong, whatever it replies.
LEMMA QuietFulfils ==
    ASSUME NEW cmd, NEW keys, NEW s, NEW reply, ViewOf(s) = View, Apart(db) => Apart(s),
           keys = {} \/ (cmd # "PERSIST" /\ (cmd = "MSETNX" => reply.kind = "integer" /\ reply.n = 0))
    PROVE  Fulfils(cmd, keys, s, reply)
<1>1. ASSUME keys # {}, NEW k \in keys PROVE Contract!May(cmd, View[k], View[k])
  BY <1>1 DEF Contract!May, Contract!Removed, Contract!Written, Contract!Edited, Contract!Built,
              Contract!Moved, Contract!Expiring
<1>2. cmd = "MSETNX" /\ keys # {} => Contract!Idle(reply)
  BY DEF Contract!Idle
<1>3. Contract!Allowed(cmd, keys, reply, View, View)
  BY <1>1, <1>2 DEF Contract!Allowed, Contract!Renamed, Contract!Copied, Contract!Stored, Contract!Unchanged
<1> QED BY <1>3 DEF Fulfils

\* The outcomes that leave what is visible alone.
LEMMA OutcomesHonoured ==
    ASSUME IInv, NEW cmd, NEW keys \in SUBSET Key, NEW k \in Key, NEW t, NEW reply,
           keys = {} \/ cmd \notin {"PERSIST", "MSETNX"}
    PROVE  /\ Reject(cmd, keys) => Honoured
           /\ WrongType(cmd, keys, k, t) => Honoured
           /\ Missing(cmd, keys, k, reply) => Honoured
           /\ Untouched(cmd, keys, k, t, reply) => Honoured
           /\ Exec(cmd, keys, db, reply) => Honoured
           /\ Exec(cmd, keys, Lookup(db, k), reply) => Honoured
<1>1. Good(db) /\ Good(Lookup(db, k)) /\ ViewOf(db) = View /\ ViewOf(Lookup(db, k)) = View
  BY LookupGood, LookupView, ViewEntries DEF IInv
<1>2. Apart(db) => Apart(Lookup(db, k))
  <2>1. \A j \in Key : Lookup(db, k).data[j] \in {db.data[j], Absent}
    BY DEF IInv, Good, WellFormed, Lookup, Delete
  <2> QED BY <2>1, StringIsNoContainer DEF Apart, Private, Absent, Sharable
<1>3. \A r : Fulfils(cmd, keys, db, r) /\ Fulfils(cmd, keys, Lookup(db, k), r)
  BY <1>1, <1>2, QuietFulfils
<1>4. \A r : Exec(cmd, keys, db, r) \/ Exec(cmd, keys, Lookup(db, k), r) => Honoured
  BY <1>1, <1>3, ExecHonoured
<1> QED BY <1>4 DEF Reject, WrongType, Missing, Untouched

LEMMA ReadOnlyHonoured ==
    ASSUME IInv, NEW cmd, NEW keys \in SUBSET Key, NEW k \in Key, NEW t, NEW replies,
           cmd \notin {"PERSIST", "MSETNX"}, ReadOnly(cmd, keys, k, t, replies)
    PROVE  Honoured
  BY OutcomesHonoured DEF ReadOnly

\* The commands whose contract is about each key by itself.
ByKey(cmd) == cmd \notin {"MSETNX", "RENAME", "RENAMENX", "COPY", "SUNIONSTORE"} \cup PairMovers

LEMMA KeysAllowed ==
    ASSUME NEW K \in SUBSET Key, NEW s, NEW reply, NEW cmd, ByKey(cmd) \/ cmd \in PairMovers,
           \A j \in Key \ K : Entry(s, j) = Entry(db, j),
           \A k \in K : Contract!May(cmd, Entry(db, k), Entry(s, k)),
           reply.kind = "error" => cmd \in Contract!LateFailers,
           Contract!Idle(reply) /\ cmd \in Contract!Counting =>
               \A k \in K : Contract!Unchanged(Entry(db, k), Entry(s, k))
    PROVE  Contract!Allowed(cmd, K, reply, View, ViewOf(s))
<1>1. View = ViewOf(db) /\ \A j \in Key : View[j] = Entry(db, j) /\ ViewOf(s)[j] = Entry(s, j)
  BY ViewEntries
<1> QED BY <1>1 DEF Contract!Allowed, Contract!Failed, ByKey, PairMovers

LEMMA KeysFulfil ==
    ASSUME NEW K \in SUBSET Key, NEW s, NEW reply, NEW cmd, ByKey(cmd),
           \A j \in Key \ K : Entry(s, j) = Entry(db, j),
           \A k \in K : Contract!May(cmd, Entry(db, k), Entry(s, k)),
           reply.kind = "error" => cmd \in Contract!LateFailers,
           Contract!Idle(reply) /\ cmd \in Contract!Counting =>
               \A k \in K : Contract!Unchanged(Entry(db, k), Entry(s, k)),
           Unshared /\ cmd \in Commands /\ Apart(db) => Apart(s)
    PROVE  Fulfils(cmd, K, s, reply)
<1>1. Contract!Allowed(cmd, K, reply, View, ViewOf(s))
  BY KeysAllowed
<1> QED BY <1>1 DEF Fulfils, ByKey

LEMMA OneKeyFulfils ==
    ASSUME NEW k \in Key, NEW s, NEW reply, NEW cmd, ByKey(cmd),
           \A j \in Key \ {k} : Entry(s, j) = Entry(db, j),
           Contract!May(cmd, Entry(db, k), Entry(s, k)),
           reply.kind = "error" => cmd \in Contract!LateFailers,
           Contract!Idle(reply) /\ cmd \in Contract!Counting =>
               Contract!Unchanged(Entry(db, k), Entry(s, k)),
           Unshared /\ cmd \in Commands /\ Apart(db) => Apart(s)
    PROVE  Fulfils(cmd, {k}, s, reply)
<1>1. {k} \in SUBSET Key
  OBVIOUS
<1> QED BY <1>1, KeysFulfil

\* The commands that set a string.
LEMMA StoreStringHonoured ==
    ASSUME IInv, NEW cmd, NEW k \in Key, NEW v \in Str, NEW e \in Expiry, NEW reply,
           StoreString(cmd, k, v, e, reply),
           cmd \in Contract!Writers, cmd # "MSETNX", e = Never \/ cmd \in Contract!TimedWriters,
           reply.kind # "error", Contract!Idle(reply) => cmd \notin Contract!Counting
    PROVE  Honoured
<1> DEFINE s == SetObject(db, k, StringObject(v, e))
<1>1. Good(db) /\ Good(s)
  BY StoreStringGood DEF IInv
<1>2. \A j \in Key : Entry(s, j) = IF j = k THEN Fresh(v, e) ELSE Entry(db, j)
  BY <1>1, StoreStringEntry
<1>3. \A j \in Key : s.data[j] = IF j = k THEN StringObject(v, e) ELSE db.data[j]
  BY <1>1 DEF Good, WellFormed, SetObject
<1>4. Exec(cmd, {k}, s, reply)
  BY DEF StoreString
<1> HIDE DEF s
<1>5. Apart(db) => Apart(s)
  BY <1>3, StringIsNoContainer DEF Apart, Private, StringObject, Sharable
<1>6. Contract!May(cmd, Entry(db, k), Entry(s, k))
  <2>1. Entry(s, k) = Absent \/ Entry(s, k).type = "string"
    BY <1>2 DEF Fresh, StringObject
  <2>2. Entry(s, k) = Absent => cmd \in Contract!TimedWriters
    BY <1>2 DEF Fresh, StringObject, Absent
  <2> QED BY <2>1, <2>2, Classes DEF Contract!May, Contract!Written, Contract!Writers, Contract!Editors,
             Contract!Builders, Contract!Movers
<1>7. ByKey(cmd)
  BY DEF ByKey, PairMovers, Contract!Writers
<1> QED BY <1>1, <1>2, <1>4, <1>5, <1>6, <1>7, OneKeyFulfils, ExecHonoured

-----------------------------------------------------------------------------
(* The operations on a container, when it belongs to one key.               *)

LEMMA LookupPrivate ==
    ASSUME NEW s, Good(s), Private(s), NEW k \in Key
    PROVE  Private(Lookup(s, k))
<1>1. \A j \in Key : Lookup(s, k).data[j] \in {s.data[j], Absent}
  BY DEF Good, WellFormed, Lookup, Delete
<1> QED BY <1>1, StringIsNoContainer DEF Private, Absent

LEMMA UpsertEntry ==
    ASSUME NEW s, Good(s), Private(s), NEW k \in Key, NEW t \in Containers,
           TypeAt(s, k) \in {"none", t}, NEW c, Fits(t, c)
    PROVE  LET u == Upsert(s, k, t, c) IN
           /\ \A j \in Key \ {k} : Entry(u, j) = Entry(s, j)
           /\ Entry(u, k) = [type |-> t, val |-> c,
                             exp  |-> IF Entry(s, k).type = "none" THEN Never ELSE Entry(s, k).exp]
           /\ Private(u)
           /\ \A j \in Key \ {k} : u.data[j].type = s.data[j].type
           /\ u.data[k].type = t
<1> DEFINE u == Upsert(s, k, t, c)
<1>1. CASE Live(s, k)
  <2>1. s.data[k].type = t /\ t # "none" /\ Entry(s, k).type = t
          /\ Entry(s, k) = [type |-> t, val |-> Entry(s, k).val, exp |-> Entry(s, k).exp]
    <3>1. TypeAt(s, k) = s.data[k].type /\ s.data[k].type # "none"
      BY <1>1, EntryCases DEF TypeAt
    <3> QED BY <1>1, <3>1, EntryCases
  <2>2. u = Mutate(s, k, c)
    BY <1>1 DEF Upsert
  <2>3. \A j \in Key : Entry(u, j) = IF j = k THEN [Entry(s, k) EXCEPT !.val = c] ELSE Entry(s, j)
    BY <1>1, <2>1, <2>2, MutateEntry
  <2>4. u.data = s.data
    BY <2>2 DEF Good, WellFormed, Mutate
  <2> HIDE DEF u
  <2>5. Entry(u, k) = [type |-> t, val |-> c, exp |-> Entry(s, k).exp]
    BY <2>1, <2>3
  <2> QED BY <2>1, <2>3, <2>4, <2>5, PrivateKept DEF u
<1>2. CASE ~Live(s, k)
  <2> DEFINE m == Lookup(s, k)
  <2>1. Good(m) /\ ViewOf(m) = ViewOf(s) /\ Private(m)
    BY LookupGood, LookupView, LookupPrivate
  <2>2. u = Create(m, k, t, c)
    BY <1>2 DEF Upsert
  <2>3. \A j \in Key \ {k} : m.data[j] = s.data[j]
    BY DEF Good, WellFormed, Lookup, Delete
  <2> HIDE DEF m
  <2>4. \A j \in Key : Entry(u, j) = IF j = k THEN [type |-> t, val |-> c, exp |-> Never] ELSE Entry(m, j)
    BY <2>1, <2>2, CreateEntry
  <2>5. \A j \in Key : Entry(m, j) = Entry(s, j)
    BY <2>1, ViewEntries
  <2>6. Private(u)
    BY <2>1, <2>2, CreatePrivate
  <2>7. u.data = [m.data EXCEPT ![k] = ContainerObject(t, FreshRef(m), Never)]
    BY <2>2 DEF Create
  <2>8. u.data[k].type = t /\ \A j \in Key \ {k} : u.data[j].type = s.data[j].type
    BY <2>1, <2>3, <2>7 DEF ContainerObject, Good, WellFormed
  <2>9. Entry(s, k).type = "none"
    BY <1>2, EntryCases DEF Absent
  <2> HIDE DEF u
  <2> QED BY <2>4, <2>5, <2>6, <2>8, <2>9 DEF u
<1> QED BY <1>1, <1>2

LEMMA ShrinkEntry ==
    ASSUME NEW s, Good(s), Private(s), NEW k \in Key, NEW t \in Containers, TypeAt(s, k) = t,
           NEW c
    PROVE  LET u == Shrink(s, k, t, c) IN
           /\ \A j \in Key \ {k} : Entry(u, j) = Entry(s, j)
           /\ Entry(u, k) = IF IsEmpty(t, c) THEN Absent ELSE [Entry(s, k) EXCEPT !.val = c]
           /\ Private(u)
           /\ \A j \in Key : u.data[j].type \in {s.data[j].type, "none"}
<1> DEFINE m == Mutate(s, k, c)
           u == Shrink(s, k, t, c)
<1>1. s.data[k].type = t /\ Live(s, k)
  BY TypeAtCases, StringIsNoContainer
<1>2. /\ \A j \in Key : Entry(m, j) = IF j = k THEN [Entry(s, k) EXCEPT !.val = c] ELSE Entry(s, j)
      /\ m.data = s.data
  BY <1>1, MutateEntry
<1> HIDE DEF m
<1>3. CASE ~IsEmpty(t, c)
  <2>1. u = m
    BY <1>3 DEF Shrink, m
  <2> QED BY <1>2, <1>3, <2>1, PrivateKept
<1>4. CASE IsEmpty(t, c)
  <2>1. u = Delete(m, k)
    BY <1>4 DEF Shrink, m
  <2>2. u.data = [s.data EXCEPT ![k] = Absent] /\ u.heap = m.heap
    BY <1>2, <2>1 DEF Delete
  <2>3. \A j \in Key \ {k} : u.data[j] = s.data[j]
    BY <2>2 DEF Good, WellFormed
  <2>4. u.data[k] = Absent
    BY <2>2 DEF Good, WellFormed
  <2> HIDE DEF u
  <2>5. ASSUME NEW j \in Key \ {k} PROVE Entry(u, j) = Entry(m, j)
    BY <1>2, <2>2, <2>3 DEF Entry, Live, LiveAt, Stored, ExpiredAt, Contents
  <2>6. Entry(u, k) = Absent
    BY <2>4, DeadEntry
  <2>7. Private(u) /\ \A j \in Key : u.data[j].type \in {s.data[j].type, "none"}
    BY <2>3, <2>4, StringIsNoContainer DEF Private, Absent
  <2> QED BY <1>2, <1>4, <2>5, <2>6, <2>7 DEF u
<1> QED BY <1>3, <1>4

ListMakers == {"LPUSH", "RPUSH", "ZADD", "ZINCRBY"}

LEMMA UpsertHonoured ==
    ASSUME IInv, Private(db), NEW cmd, NEW k \in Key, NEW t \in Containers, TypeAt(db, k) \in {"none", t},
           NEW c, Fits(t, c), NEW reply, Exec(cmd, {k}, Upsert(db, k, t, c), reply),
           cmd \in Contract!Builders, t \in Sharable => cmd \in ListMakers,
           reply.kind = "error" => cmd \in Contract!LateFailers,
           Contract!Idle(reply) /\ cmd \in Contract!Counting => TypeAt(db, k) = t /\ c = ContentsOr(db, k, t)
    PROVE  Honoured
<1> DEFINE s == Upsert(db, k, t, c)
<1>1. Good(db) /\ Good(s) /\ t # "none"
  BY UpsertGood, StringIsNoContainer DEF IInv
<1>2. /\ \A j \in Key \ {k} : Entry(s, j) = Entry(db, j)
      /\ Entry(s, k) = [type |-> t, val |-> c,
                        exp  |-> IF Entry(db, k).type = "none" THEN Never ELSE Entry(db, k).exp]
      /\ Private(s)
      /\ \A j \in Key \ {k} : s.data[j].type = db.data[j].type
      /\ s.data[k].type = t
  BY <1>1, UpsertEntry
<1>3. Exec(cmd, {k}, s, reply)
  OBVIOUS
<1> HIDE DEF s
<1>4. Entry(db, k).type \in {"none", t}
  BY <1>1, EntryCases
<1>5. Contract!Built(Entry(db, k), Entry(s, k))
  BY <1>2, <1>4 DEF Contract!Built
<1>6. Contract!May(cmd, Entry(db, k), Entry(s, k))
  BY <1>5, Classes DEF Contract!May, Contract!Writers, Contract!Editors, Contract!Builders, Contract!Movers
<1>7. ASSUME Contract!Idle(reply), cmd \in Contract!Counting
      PROVE  Contract!Unchanged(Entry(db, k), Entry(s, k))
  <2>1. TypeAt(db, k) = t /\ c = ContentsOr(db, k, t)
    BY <1>7
  <2>2. Live(db, k) /\ Entry(db, k).val = c /\ Entry(db, k).type = t
    BY <1>1, <2>1, ContentsOrEntry
  <2>3. Entry(db, k) = [type |-> t, val |-> c, exp |-> Entry(db, k).exp]
    BY <1>1, <2>2, EntryCases
  <2> QED BY <1>1, <1>2, <2>2, <2>3 DEF Contract!Unchanged
<1>8. Unshared /\ cmd \in Commands /\ Apart(db) => Apart(s)
  <2>1. Unshared /\ cmd \in Commands /\ t \in Sharable => "COPY" \notin Commands
    BY DEF Unshared, ListMakers
  <2> QED BY <1>2, <2>1 DEF Apart
<1>9. ByKey(cmd)
  BY DEF ByKey, PairMovers, Contract!Builders
<1> QED BY <1>1, <1>2, <1>3, <1>6, <1>7, <1>8, <1>9, OneKeyFulfils, ExecHonoured

LEMMA ShrinkHonoured ==
    ASSUME IInv, Private(db), NEW cmd, NEW k \in Key, NEW t \in Containers, TypeAt(db, k) = t,
           NEW c, IsContents(t, c), NEW reply, Exec(cmd, {k}, Shrink(db, k, t, c), reply),
           cmd \in Contract!Editors, reply.kind # "error",
           Contract!Idle(reply) => c = ContentsOr(db, k, t)
    PROVE  Honoured
<1> DEFINE s == Shrink(db, k, t, c)
<1>1. db.data[k].type = t /\ Live(db, k)
  BY TypeAtCases, StringIsNoContainer
<1>2. Good(db) /\ Good(s)
  BY <1>1, ShrinkGood DEF IInv
<1>3. /\ \A j \in Key \ {k} : Entry(s, j) = Entry(db, j)
      /\ Entry(s, k) = IF IsEmpty(t, c) THEN Absent ELSE [Entry(db, k) EXCEPT !.val = c]
      /\ Private(s)
      /\ \A j \in Key : s.data[j].type \in {db.data[j].type, "none"}
  BY <1>2, ShrinkEntry DEF IInv
<1>4. Exec(cmd, {k}, s, reply)
  OBVIOUS
<1> HIDE DEF s
<1>5. Entry(db, k) = [type |-> t, val |-> Entry(db, k).val, exp |-> Entry(db, k).exp]
        /\ Entry(db, k).val = ContentsOr(db, k, t)
  <2>1. Entry(db, k).val = ContentsOr(db, k, t)
    BY <1>2, ContentsOrEntry
  <2> QED BY <1>1, <1>2, <2>1, EntryCases
<1>6. Contract!Edited(Entry(db, k), Entry(s, k))
  BY <1>3, <1>5 DEF Contract!Edited, Absent
<1>7. Contract!May(cmd, Entry(db, k), Entry(s, k))
  BY <1>6, Classes DEF Contract!May, Contract!Writers, Contract!Editors, Contract!Builders, Contract!Movers
<1>8. ASSUME Contract!Idle(reply) PROVE Contract!Unchanged(Entry(db, k), Entry(s, k))
  <2>1. Entry(db, k).val = c
    BY <1>5, <1>8
  <2>2. CASE ~IsEmpty(t, c)
    BY <1>3, <1>5, <2>1, <2>2 DEF Contract!Unchanged
  <2>3. CASE IsEmpty(t, c)
    <3>1. c = Contents(db, k)
      BY <1>8 DEF ContentsOr
    <3>2. t \notin {"hash", "set"}
      BY <1>1, <1>2, <2>3, <3>1 DEF Good, NoEmptyMap
    <3>3. t \in {"list", "zset"} /\ DOMAIN c = {}
      BY <2>3, <3>2 DEF IsEmpty, Containers
    <3>4. Entry(db, k).type = t /\ Entry(s, k) = Contract!None
      BY <1>3, <1>5, <2>3, Classes
    <3> QED BY <2>1, <3>3, <3>4 DEF Contract!Unchanged
  <2> QED BY <2>2, <2>3
<1>9. Apart(db) => Apart(s)
  BY <1>3 DEF Apart, Sharable
<1>10. ByKey(cmd)
  BY DEF ByKey, PairMovers, Contract!Editors
<1> QED BY <1>2, <1>3, <1>4, <1>7, <1>8, <1>9, <1>10, OneKeyFulfils, ExecHonoured

LEMMA MutateHonoured ==
    ASSUME IInv, Private(db), NEW cmd, NEW k \in Key, NEW t \in Containers, TypeAt(db, k) = t,
           NEW c, Fits(t, c), NEW reply, Exec(cmd, {k}, Mutate(db, k, c), reply),
           cmd \in Contract!Editors, reply.kind # "error", ~Contract!Idle(reply)
    PROVE  Honoured
<1> DEFINE s == Mutate(db, k, c)
<1>1. db.data[k].type = t /\ Live(db, k)
  BY TypeAtCases, StringIsNoContainer
<1>2. Good(db) /\ Good(s)
  BY <1>1, MutateGood DEF IInv
<1>3. \A j \in Key : Entry(s, j) = IF j = k THEN [Entry(db, k) EXCEPT !.val = c] ELSE Entry(db, j)
  BY <1>1, <1>2, MutateEntry
<1>4. s.data = db.data
  BY <1>1, <1>2, MutateEntry
<1>5. Exec(cmd, {k}, s, reply)
  OBVIOUS
<1> HIDE DEF s
<1>6. Entry(db, k) = [type |-> t, val |-> Entry(db, k).val, exp |-> Entry(db, k).exp]
  BY <1>1, <1>2, EntryCases
<1>7. Contract!Edited(Entry(db, k), Entry(s, k))
  BY <1>3, <1>6 DEF Contract!Edited
<1>8. Contract!May(cmd, Entry(db, k), Entry(s, k))
  BY <1>7, Classes DEF Contract!May, Contract!Writers, Contract!Editors, Contract!Builders, Contract!Movers
<1>9. Apart(db) => Apart(s)
  BY <1>4 DEF Apart, Private
<1>10. ByKey(cmd)
  BY DEF ByKey, PairMovers, Contract!Editors
<1> QED BY <1>2, <1>3, <1>5, <1>8, <1>9, <1>10, OneKeyFulfils, ExecHonoured

-----------------------------------------------------------------------------
(* The handlers of key.go *)

LEMMA DeleteAllApart ==
    ASSUME NEW s, Good(s), NEW K \in SUBSET Key, Apart(s)
    PROVE  Apart(DeleteAll(s, K))
<1>1. \A j \in Key : DeleteAll(s, K).data[j] \in {s.data[j], Absent}
  BY DEF Good, WellFormed, DeleteAll
<1> QED BY <1>1, StringIsNoContainer DEF Apart, Private, Absent, Sharable

LEMMA LookupAllApart ==
    ASSUME NEW s, Good(s), NEW K \in SUBSET Key, Apart(s)
    PROVE  Apart(LookupAll(s, K))
<1>1. {k \in K : Stored(s, k) /\ ~Live(s, k)} \in SUBSET Key
  OBVIOUS
<1> QED BY <1>1, DeleteAllApart DEF LookupAll

\* A command that does no more than notice which keys have expired.
LEMMA LookupAllHonoured ==
    ASSUME IInv, NEW cmd, NEW keys \in SUBSET Key, NEW K \in SUBSET Key, NEW reply,
           cmd # "PERSIST", cmd = "MSETNX" => reply.kind = "integer" /\ reply.n = 0,
           Exec(cmd, keys, LookupAll(db, K), reply)
    PROVE  Honoured
<1>1. Good(db) /\ Good(LookupAll(db, K)) /\ ViewOf(LookupAll(db, K)) = View
  BY LookupAllGood, LookupAllView, ViewEntries DEF IInv
<1>2. Fulfils(cmd, keys, LookupAll(db, K), reply)
  BY <1>1, LookupAllApart, QuietFulfils
<1> QED BY <1>1, <1>2, ExecHonoured

\* The clock of a handler that reads it several times.
LEMMA ClockType ==
    ASSUME IInv, NEW t \in now .. MaxTime
    PROVE  now \in Int /\ t \in Int /\ now <= t
  BY ClockAssumption DEF IInv

\* A command that takes until t and changes nothing of what is left at t.
LEMMA QuietUntilHonoured ==
    ASSUME IInv, NEW cmd, NEW keys \in SUBSET Key, NEW s, Good(s), NEW reply, NEW t \in now .. MaxTime,
           cmd \notin {"PERSIST", "MSETNX"} \cup PairMovers, Apart(db) => Apart(s),
           \A k \in Key : Contract!Visible(Entry(s, k), t) = Contract!Visible(Entry(db, k), t),
           ExecUntil(t, cmd, keys, s, reply)
    PROVE  Honoured
<1>1. Aged(s, t) = Aged(db, t)
  BY DEF Aged, Contract!Left, ViewOf
<1>2. ASSUME NEW v PROVE Contract!Allowed(cmd, keys, reply, v, v)
  <2>1. \A k \in keys : Contract!May(cmd, v[k], v[k])
    BY DEF Contract!May, Contract!Removed, Contract!Written, Contract!Edited, Contract!Built,
           Contract!Moved, Contract!Expiring
  <2> QED BY <2>1 DEF Contract!Allowed, Contract!Renamed, Contract!Copied, Contract!Stored, Contract!Unchanged
<1>3. FulfilsUntil(t, cmd, keys, s, reply)
  BY <1>1, <1>2 DEF FulfilsUntil
<1> QED BY <1>3, ExecUntilHonoured

\* Keys that are gone at t are not seen at t.
LEMMA MissedView ==
    ASSUME IInv, NEW s, Good(s), NEW t \in now .. MaxTime, NEW M \in SUBSET Key, \A k \in M : ~LiveAt(s, k, t)
    PROVE  /\ Good(DeleteAll(s, M)) /\ (Apart(s) => Apart(DeleteAll(s, M)))
           /\ \A k \in Key : Contract!Visible(Entry(DeleteAll(s, M), k), t) = Contract!Visible(Entry(s, k), t)
<1>1. ASSUME NEW k \in Key
      PROVE  Contract!Visible(Entry(DeleteAll(s, M), k), t) = Contract!Visible(Entry(s, k), t)
  <2>1. Entry(DeleteAll(s, M), k) = IF k \in M THEN Absent ELSE Entry(s, k)
    BY DeleteAllEntry
  <2>2. CASE k \in M
    <3>1. Contract!Visible(Entry(s, k), t) = Absent
      BY <2>2, ClockType, AgedEntry
    <3> QED BY <2>1, <2>2, <3>1 DEF Contract!Visible, Absent
  <2> QED BY <2>1, <2>2
<1> QED BY <1>1, DeleteAllGood, DeleteAllApart

\* A lookup finds what is left at its time.
LEMMA LookupAtEntry ==
    ASSUME IInv, NEW s, Good(s), NEW k \in Key, NEW t \in now .. MaxTime
    PROVE  LET u == LookupAt(s, k, t) IN
           /\ Good(u) /\ (Private(s) => Private(u)) /\ (Apart(s) => Apart(u))
           /\ \A j \in Key \ {k} : Entry(u, j) = Entry(s, j)
           /\ Entry(u, k) = Contract!Visible(Entry(s, k), t)
           /\ Contract!Visible(Entry(u, k), t) = Entry(u, k)
<1> DEFINE u == LookupAt(s, k, t)
<1>1. Good(u)
  BY LookupAtGood
<1>2. \A j \in Key : u.data[j] \in {s.data[j], Absent}
  BY DEF Good, WellFormed, LookupAt, Delete
<1>3. Contract!Visible(Entry(s, k), t) = IF LiveAt(s, k, t) THEN Entry(s, k) ELSE Absent
  BY ClockType, AgedEntry
<1>4. (\A j \in Key \ {k} : Entry(u, j) = Entry(s, j)) /\ Entry(u, k) = Contract!Visible(Entry(s, k), t)
  <2>1. CASE Stored(s, k) /\ ~LiveAt(s, k, t)
    <3>1. u = Delete(s, k)
      BY <2>1 DEF LookupAt
    <3> QED BY <1>3, <2>1, <3>1, DeleteEntry
  <2>2. CASE LiveAt(s, k, t)
    BY <1>3, <2>2 DEF LookupAt
  <2>3. CASE ~Stored(s, k)
    <3>1. Entry(s, k) = Absent /\ ~LiveAt(s, k, t)
      BY <2>3, EntryCases DEF Live, LiveAt
    <3> QED BY <1>3, <2>3, <3>1 DEF LookupAt
  <2> QED BY <2>1, <2>2, <2>3
<1> HIDE DEF u
<1>5. (Private(s) => Private(u)) /\ (Apart(s) => Apart(u))
  BY <1>2, StringIsNoContainer DEF Apart, Private, Absent, Sharable
<1>6. Contract!Visible(Contract!Visible(Entry(s, k), t), t) = Contract!Visible(Entry(s, k), t)
  BY DEF Contract!Visible, Contract!None
<1> QED BY <1>1, <1>4, <1>5, <1>6 DEF u

\* DEL and FLUSHDB.
LEMMA RemoveHonoured ==
    ASSUME IInv, NEW K \in SUBSET Key, NEW cmd \in {"DEL", "FLUSHDB"}, NEW reply,
           Exec(cmd, K, DeleteAll(db, K), reply),
           reply = OK \/ reply = Number(StoredCount(K))
    PROVE  Honoured
<1> DEFINE s == DeleteAll(db, K)
<1>1. Good(db) /\ Good(s) /\ (Apart(db) => Apart(s))
  BY DeleteAllGood, DeleteAllApart DEF IInv
<1>2. \A k \in Key : Entry(s, k) = IF k \in K THEN Absent ELSE Entry(db, k)
  BY <1>1, DeleteAllEntry
<1>3. Exec(cmd, K, s, reply)
  OBVIOUS
<1> HIDE DEF s
<1>4. \A k \in K : Contract!May(cmd, Entry(db, k), Entry(s, k))
  BY <1>2, Classes DEF Contract!May, Contract!Removed, Contract!Writers, Contract!Editors,
                       Contract!Builders, Contract!Movers
<1>5. ASSUME Contract!Idle(reply), NEW k \in K
      PROVE  Contract!Unchanged(Entry(db, k), Entry(s, k))
  <2>1. Cardinality({j \in K : Stored(db, j)}) = 0
    BY <1>5 DEF Contract!Idle, OK, Number, StoredCount
  <2>2. {j \in K : Stored(db, j)} = {}
    BY <2>1, KeyAssumption, FS_Subset, FS_EmptySet
  <2>3. ~Live(db, k)
    BY <2>2 DEF Live, LiveAt
  <2> QED BY <1>1, <1>2, <2>3, EntryCases DEF Contract!Unchanged
<1>6. ByKey(cmd) /\ reply.kind # "error"
  BY DEF ByKey, PairMovers, OK, Number
<1> QED BY <1>1, <1>2, <1>3, <1>4, <1>5, <1>6, KeysFulfil, ExecHonoured

\* Keys whose containers are the same ones stay apart.
LEMMA ApartKept ==
    ASSUME NEW s, Apart(s), NEW u,
           \A k \in Key : u.data[k].type = s.data[k].type /\ u.data[k].val = s.data[k].val
    PROVE  Apart(u)
  BY DEF Apart, Private

LEMMA WithExpiryApart ==
    ASSUME NEW s, Good(s), Apart(s), NEW k \in Key, NEW e, Stored(s, k)
    PROVE  Apart(WithExpiry(s, k, e))
<1> DEFINE o == s.data[k]
           u == WithExpiry(s, k, e)
<1>1. o = [type |-> o.type, val |-> o.val, exp |-> o.exp]
  BY ObjectCases DEF Good, WellFormed, Stored
<1>2. u.data = [s.data EXCEPT ![k] = [o EXCEPT !.exp = e]]
  BY DEF Good, WellFormed, WithExpiry
<1> HIDE DEF u
<1>3. \A j \in Key : u.data[j].type = s.data[j].type /\ u.data[j].val = s.data[j].val
  BY <1>1, <1>2 DEF Good, WellFormed
<1> QED BY <1>3, ApartKept DEF u

LEMMA ExpireHonoured ==
    ASSUME IInv, NEW k \in Key, NEW e \in Expiry, Expire(k, e)
    PROVE  Honoured
<1>1. Good(db)
  BY DEF IInv
<1>2. CASE ~Live(db, k)
  BY <1>1, <1>2, OutcomesHonoured DEF Expire
<1>3. CASE Live(db, k)
  <2> DEFINE s == WithExpiry(db, k, e)
  <2>1. Stored(db, k)
    BY <1>3 DEF Live, LiveAt
  <2>2. Exec("EXPIRE", {k}, s, Bit(TRUE))
    BY <1>3 DEF Expire, WithExpiry
  <2>3. Good(s) /\ (Apart(db) => Apart(s))
    BY <1>1, <2>1, SetExpiryGood, WithExpiryApart DEF WithExpiry
  <2>4. /\ \A j \in Key \ {k} : Entry(s, j) = Entry(db, j)
        /\ Entry(s, k) \in {Absent, [Entry(db, k) EXCEPT !.exp = e]}
    BY <1>1, <1>3, <2>1, SetExpiryEntry
  <2> HIDE DEF s
  <2>5. Entry(db, k) = [type |-> Entry(db, k).type, val |-> Entry(db, k).val, exp |-> Entry(db, k).exp]
    BY <1>1, <1>3, EntryCases
  <2>6. Contract!Expiring(Entry(db, k), Entry(s, k))
    BY <2>4, <2>5 DEF Contract!Expiring, Absent
  <2>7. Contract!May("EXPIRE", Entry(db, k), Entry(s, k))
    BY <2>6, Classes DEF Contract!May, Contract!Writers, Contract!Editors, Contract!Builders, Contract!Movers
  <2>8. ~Contract!Idle(Bit(TRUE)) /\ Bit(TRUE).kind # "error" /\ ByKey("EXPIRE")
    BY DEF Contract!Idle, Bit, Number, ByKey, PairMovers
  <2>9. Fulfils("EXPIRE", {k}, s, Bit(TRUE))
    BY <2>3, <2>4, <2>7, <2>8, OneKeyFulfils
  <2> QED BY <2>2, <2>3, <2>9, ExecHonoured
<1> QED BY <1>2, <1>3

\* PERSIST may bring an expired key back.
LEMMA PersistHonoured ==
    ASSUME IInv, NEW k \in Key, Persist(k)
    PROVE  Honoured
<1> DEFINE s == IF Stored(db, k) THEN WithExpiry(db, k, Never) ELSE db
<1>1. Good(db) /\ Never \in Expiry
  BY DEF IInv, Expiry
<1>2. Exec("PERSIST", {k}, s, Bit(Stored(db, k)))
  BY DEF Persist, WithExpiry
<1>3. Good(s) /\ (Apart(db) => Apart(s))
  BY <1>1, SetExpiryGood, WithExpiryApart DEF WithExpiry
<1>4. /\ \A j \in Key \ {k} : Entry(s, j) = Entry(db, j)
      /\ Contract!Persisted(Entry(db, k), Entry(s, k))
  <2>1. CASE ~Stored(db, k)
    <3>1. Entry(db, k) = Absent
      BY <1>1, <2>1, EntryCases DEF Live, LiveAt
    <3> QED BY <2>1, <3>1 DEF Contract!Persisted, Absent
  <2>2. CASE Stored(db, k)
    <3> DEFINE u == WithExpiry(db, k, Never)
    <3>1. /\ \A j \in Key \ {k} : Entry(u, j) = Entry(db, j)
          /\ Entry(u, k) = Absent \/ Entry(u, k).exp = Never
          /\ Live(db, k) => Entry(u, k) = [Entry(db, k) EXCEPT !.exp = Never]
      BY <1>1, <2>2, SetExpiryEntry
    <3>2. s = u
      BY <2>2
    <3> HIDE DEF s, u
    <3>3. Live(db, k) <=> Entry(db, k).type # "none"
      BY <1>1, EntryCases DEF Absent
    <3> QED BY <3>1, <3>2, <3>3 DEF Contract!Persisted, Absent
  <2> QED BY <2>1, <2>2
<1> HIDE DEF s
<1>5. Contract!May("PERSIST", Entry(db, k), Entry(s, k))
  BY <1>4, Classes DEF Contract!May, Contract!Writers, Contract!Editors, Contract!Builders, Contract!Movers
<1>6. "PERSIST" \notin Contract!Counting
  BY Classes DEF Contract!Counting, Contract!Editors, Contract!Movers
<1>7. Bit(Stored(db, k)).kind # "error" /\ ByKey("PERSIST")
  BY DEF Bit, Number, ByKey, PairMovers
<1> QED BY <1>2, <1>3, <1>4, <1>5, <1>6, <1>7, OneKeyFulfils, ExecHonoured

\* RENAME and RENAMENX, when the key is there.
LEMMA RenameHonoured ==
    ASSUME IInv, NEW src \in Key, NEW dst \in Key, NEW t \in now .. MaxTime, LiveAt(db, src, t),
           NEW cmd \in {"RENAME", "RENAMENX"}, NEW reply, reply.kind # "error", ~Contract!Idle(reply),
           ExecUntil(t, cmd, {src, dst}, Rename(db, src, dst, t), reply)
    PROVE  Honoured
<1> DEFINE s == Rename(db, src, dst, t)
<1>1. Good(db) /\ Good(s)
  BY RenameGood DEF IInv
<1>2. ViewOf(s) = [View EXCEPT ![src] = Contract!None, ![dst] = View[src]]
  BY <1>1, RenameView, ViewEntries, Classes
<1>3. \A k \in Key : s.data[k] = CASE k = dst -> db.data[src]
                                   [] k = src /\ src # dst -> Absent
                                   [] OTHER -> db.data[k]
  BY <1>1 DEF Good, WellFormed, Rename
<1>4. ExecUntil(t, cmd, {src, dst}, s, reply)
  OBVIOUS
<1> HIDE DEF s
<1>5. Apart(db) => Apart(s)
  BY <1>3, StringIsNoContainer DEF Apart, Private, Absent, Sharable
<1>11. Aged(s, t) = [Aged(db, t) EXCEPT ![src] = Contract!None, ![dst] = Aged(db, t)[src]]
  <2>1. \A k \in Key : /\ ViewOf(s)[k] = CASE k = dst -> View[src]
                                           [] k = src /\ src # dst -> Contract!None
                                           [] OTHER -> View[k]
                       /\ ViewOf(s)[k] = Entry(s, k) /\ View[k] = Entry(db, k)
    BY <1>2 DEF View, ViewOf
  <2>2. Contract!Visible(Contract!None, t) = Contract!None
    BY DEF Contract!Visible, Contract!None
  <2> QED BY <2>1, <2>2 DEF Aged, Contract!Left, ViewOf
<1>6. Contract!Renamed({src, dst}, Aged(db, t), Aged(s, t))
  BY <1>11 DEF Contract!Renamed
<1>7. \A k \in Key \ {src, dst} : Aged(s, t)[k] = Aged(db, t)[k]
  BY <1>11 DEF Aged, Contract!Left
<1>8. \A old, new : Contract!May(cmd, old, new)
  BY Classes DEF Contract!May, Contract!Writers, Contract!Editors, Contract!Builders, Contract!Movers
<1>9. Contract!Allowed(cmd, {src, dst}, reply, Aged(db, t), Aged(s, t))
  BY <1>6, <1>7, <1>8 DEF Contract!Allowed, Contract!Failed
<1>10. FulfilsUntil(t, cmd, {src, dst}, s, reply)
  BY <1>5, <1>9 DEF FulfilsUntil, PairMovers
<1> QED BY <1>1, <1>4, <1>10, ExecUntilHonoured

LEMMA CopyObjectView ==
    ASSUME NEW s, Good(s), NEW src \in Key, NEW dst \in Key, Live(s, src)
    PROVE  ViewOf(CopyObject(s, src, dst)) = [ViewOf(s) EXCEPT ![dst] = ViewOf(s)[src]]
<1> DEFINE o == s.data[src]
<1>1. o.exp \in Expiry /\ o \in {Absent} \cup Object
  BY ObjectCases DEF Good, WellFormed, Live, LiveAt, Stored
<1>2. Entry(s, src) = [type |-> o.type, val |-> Entry(s, src).val, exp |-> o.exp]
  BY EntryCases
<1> SUFFICES /\ Entry(CopyObject(s, src, dst), dst) = Entry(s, src)
             /\ \A k \in Key \ {dst} : Entry(CopyObject(s, src, dst), k) = Entry(s, k)
  BY DEF ViewOf
<1>3. CASE o.type \in {"hash", "set"}
  <2> DEFINE c == s.heap[o.val]
             m == Create(s, dst, o.type, c)
             u == WithExpiry(m, dst, o.exp)
  <2>1. CopyObject(s, src, dst) = u
    BY <1>3 DEF CopyObject, WithExpiry
  <2>2. Fits(o.type, c) /\ o.type \in Containers /\ o.type # "none"
    BY <1>3, StringIsNoContainer DEF Good, ContainersTyped, NoEmptyMap, Contents, Fits
  <2>3. Good(m)
    BY <2>2, CreateGood DEF Expiry
  <2>4. \A k \in Key : Entry(m, k) = IF k = dst THEN [type |-> o.type, val |-> c, exp |-> Never] ELSE Entry(s, k)
    BY <2>2, CreateEntry
  <2>5. Entry(s, src).val = c
    BY <1>3, <2>2, StringIsNoContainer, EntryCases DEF Contents
  <2>6. ~(o.exp # Never /\ o.exp < now)
    BY DEF Live, LiveAt, ExpiredAt
  <2> HIDE DEF c, m
  <2>7. Live(m, dst)
    BY <2>2, <2>3, <2>4, EntryCases DEF Absent
  <2>8. Stored(m, dst)
    BY <2>7 DEF Live, LiveAt
  <2>9. /\ \A k \in Key \ {dst} : Entry(u, k) = Entry(m, k)
        /\ Entry(u, dst) = [Entry(m, dst) EXCEPT !.exp = o.exp]
    BY <1>1, <2>3, <2>6, <2>7, <2>8, SetExpiryEntry
  <2> HIDE DEF u
  <2>10. Entry(u, dst) = [type |-> o.type, val |-> c, exp |-> o.exp]
    BY <2>4, <2>9
  <2> QED BY <1>2, <2>1, <2>4, <2>5, <2>9, <2>10
<1>4. CASE o.type \notin {"hash", "set"}
  <2> DEFINE u == SetObject(s, dst, o)
  <2>1. CopyObject(s, src, dst) = u
    BY <1>4 DEF CopyObject
  <2>2. u.heap = s.heap /\ \A k \in Key : u.data[k] = IF k = dst THEN o ELSE s.data[k]
    BY DEF Good, WellFormed, SetObject
  <2> HIDE DEF u
  <2>3. Entry(u, dst) = Entry(s, src)
    BY <2>2, SameHeapEntry
  <2>4. \A k \in Key \ {dst} : Entry(u, k) = Entry(s, k)
    BY <2>2, SameHeapEntry
  <2> QED BY <2>1, <2>3, <2>4
<1> QED BY <1>3, <1>4

\* A hash and a set are cloned, so that COPY keeps containers apart where
\* there is no list and no sorted set.
LEMMA CopyObjectApart ==
    ASSUME NEW s, Good(s), Apart(s), "COPY" \in Commands, NEW src \in Key, NEW dst \in Key, Live(s, src)
    PROVE  Apart(CopyObject(s, src, dst))
<1> DEFINE o == s.data[src]
<1>1. o.type \notin Sharable /\ o.type # "none" /\ o \in {Absent} \cup Object
  BY DEF Apart, Live, LiveAt, Stored, Good, WellFormed
<1>2. CASE o.type = "string"
  <2>1. CopyObject(s, src, dst).data = [s.data EXCEPT ![dst] = o]
    BY <1>2 DEF CopyObject, SetObject, Good, WellFormed
  <2> DEFINE u == CopyObject(s, src, dst)
  <2>2. \A k \in Key : u.data[k] = IF k = dst THEN o ELSE s.data[k]
    BY <2>1 DEF Good, WellFormed
  <2> HIDE DEF u
  <2>3. Apart(u)
    BY <1>2, <2>2, StringIsNoContainer DEF Apart, Private, Sharable
  <2> QED BY <2>3 DEF u
<1>3. CASE o.type \in {"hash", "set"}
  <2> DEFINE c == s.heap[o.val]
             m == Create(s, dst, o.type, c)
  <2>1. CopyObject(s, src, dst) = WithExpiry(m, dst, o.exp)
    BY <1>3 DEF CopyObject, WithExpiry
  <2>2. o.type \in Containers /\ Fits(o.type, c)
    BY <1>3, StringIsNoContainer DEF Good, ContainersTyped, NoEmptyMap, Contents, Fits
  <2>3. Private(m) /\ Good(m)
    BY <2>2, CreatePrivate, CreateGood DEF Apart, Expiry
  <2>4. m.data = [s.data EXCEPT ![dst] = ContainerObject(o.type, FreshRef(s), Never)]
    BY DEF Create
  <2> HIDE DEF m
  <2>5. \A k \in Key : m.data[k].type = IF k = dst THEN o.type ELSE s.data[k].type
    BY <2>4 DEF ContainerObject, Good, WellFormed
  <2>6. Apart(m) /\ Stored(m, dst)
    BY <1>1, <2>3, <2>5 DEF Apart, Stored
  <2> QED BY <2>1, <2>3, <2>6, WithExpiryApart
<1> QED BY <1>1, <1>2, <1>3, ObjectCases, StringIsNoContainer DEF Sharable

LEMMA CopyHonoured ==
    ASSUME IInv, NEW src \in Key, NEW dst \in Key, NEW replace, NEW t \in now .. MaxTime,
           Copy(src, dst, replace, t)
    PROVE  Honoured
<1>1. Good(db) /\ {src, dst} \in SUBSET Key
  BY DEF IInv
<1>2. CASE Missing("COPY", {src, dst}, src, Number(0)) \/ Exec("COPY", {src, dst}, db, Number(0))
  BY <1>1, <1>2, OutcomesHonoured
<1>3. CASE Live(db, src) /\ ExecUntil(t, "COPY", {src, dst}, CopyObject(db, src, dst), Number(1))
  <2> DEFINE s == CopyObject(db, src, dst)
  <2>1. Good(s) /\ ViewOf(s) = [View EXCEPT ![dst] = View[src]]
    BY <1>1, <1>3, CopyObjectGood, CopyObjectView, ViewEntries
  <2>2. "COPY" \in Commands /\ Apart(db) => Apart(s)
    BY <1>1, <1>3, CopyObjectApart
  <2>3. ExecUntil(t, "COPY", {src, dst}, s, Number(1))
    BY <1>3
  <2> HIDE DEF s
  <2>8. Aged(s, t) = [Aged(db, t) EXCEPT ![dst] = Aged(db, t)[src]]
    <3>1. \A k \in Key : /\ ViewOf(s)[k] = IF k = dst THEN View[src] ELSE View[k]
                         /\ ViewOf(s)[k] = Entry(s, k) /\ View[k] = Entry(db, k)
      BY <2>1 DEF View, ViewOf
    <3> QED BY <3>1 DEF Aged, Contract!Left, ViewOf
  <2>4. /\ Contract!Copied({src, dst}, Aged(db, t), Aged(s, t))
        /\ \A k \in Key \ {src, dst} : Aged(s, t)[k] = Aged(db, t)[k]
    BY <2>8 DEF Contract!Copied, Aged, Contract!Left
  <2>5. \A old, new : Contract!May("COPY", old, new)
    BY Classes DEF Contract!May, Contract!Writers, Contract!Editors, Contract!Builders, Contract!Movers
  <2>6. Contract!Allowed("COPY", {src, dst}, Number(1), Aged(db, t), Aged(s, t))
    BY <2>4, <2>5 DEF Contract!Allowed, Contract!Failed, Contract!Idle, Number
  <2>7. FulfilsUntil(t, "COPY", {src, dst}, s, Number(1))
    BY <2>2, <2>6 DEF FulfilsUntil, PairMovers
  <2> QED BY <2>1, <2>3, <2>7, ExecUntilHonoured
<1> QED BY <1>2, <1>3 DEF Copy

\* Time takes keys away, and only time does without a command.
LEMMA TickHonoured ==
    ASSUME IInv, Tick
    PROVE  Honoured
<1>1. db' = db /\ last' = last /\ now \in Int /\ now' \in Int /\ now' > now
  BY ClockAssumption DEF Tick, IInv
<1>2. ASSUME NEW k \in Key PROVE Entry(db, k)' = Contract!Visible(Entry(db, k), now')
  <2>1. Good(db)
    BY DEF IInv
  <2>2. CASE ~Live(db, k)
    <3>1. Entry(db, k) = Absent
      BY <2>1, <2>2, EntryCases
    <3>2. Stored(db, k) => db.data[k].exp \in Int
      BY <2>1, <2>2, ObjectCases DEF Good, WellFormed, Live, LiveAt, ExpiredAt, Stored, Expiry
    <3>3. ~Live(db, k)'
      BY <1>1, <2>2, <3>2 DEF Live, LiveAt, ExpiredAt, Stored
    <3> QED BY <3>1, <3>3 DEF Entry, Contract!Visible, Absent
  <2>3. CASE Live(db, k)
    <3>1. Live(db, k)' <=> ~(db.data[k].exp # Never /\ db.data[k].exp < now')
      BY <1>1, <2>3 DEF Live, LiveAt, ExpiredAt, Stored
    <3>2. Entry(db, k)' = IF Live(db, k)' THEN Entry(db, k) ELSE Absent
      BY <1>1, <2>3 DEF Entry, Contents
    <3>3. Entry(db, k).type # "none" /\ Entry(db, k).exp = db.data[k].exp
      BY <2>1, <2>3, EntryCases
    <3> QED BY <3>1, <3>2, <3>3, Classes DEF Contract!Visible
  <2> QED BY <2>2, <2>3
<1>3. View' = Contract!Left(View, now')
  BY <1>2 DEF View, Contract!Left
<1>4. Contract!TimePasses
  BY <1>1, <1>3 DEF Contract!TimePasses
<1>5. Apart(db) => Apart(db)'
  BY <1>1 DEF Apart, Private
<1> QED BY <1>1, <1>4, <1>5 DEF Honoured, Succeeded, Ran

\* What EXPIRE may set.
LEMMA ExpiryArgumentType ==
    ASSUME IInv, NEW e \in ExpiryArguments
    PROVE  e \in Expiry
<1>1. CASE e \in Instants
  BY <1>1, IntValType, TimeAssumption
<1>2. CASE \E n \in Amounts, u \in {1, Second} : e = After(n, u)
  BY <1>2, AfterType
<1> QED BY <1>1, <1>2 DEF ExpiryArguments

LEMMA KeyNextHonoured ==
    ASSUME IInv, KeyNext
    PROVE  Honoured
<1>1. Key \in SUBSET Key /\ Good(db)
  BY DEF IInv
<1>2. ASSUME NEW K \in SUBSET Key, NEW cmd, NEW reply, cmd \notin {"PERSIST", "MSETNX"},
             Exec(cmd, K, db, reply)
      PROVE  Honoured
  <2>1. ViewOf(db) = View
    BY ViewEntries
  <2>2. Fulfils(cmd, K, db, reply)
    BY <1>2, <2>1, QuietFulfils
  <2> QED BY <1>1, <1>2, <2>2, ExecHonoured
<1>3. ASSUME FlushDB PROVE Honoured
  BY <1>1, <1>3, RemoveHonoured DEF FlushDB
<1>4. ASSUME Browse PROVE Honoured
  <2>1. \E cmd, reply : cmd \notin {"PERSIST", "MSETNX"} /\ Exec(cmd, Key, db, reply)
    BY <1>4 DEF Browse
  <2> QED BY <1>1, <1>2, <2>1
<1>5. ASSUME NEW K \in SUBSET Key, Del(K) \/ Exists(K) PROVE Honoured
  BY <1>2, <1>5, RemoveHonoured DEF Del, Exists
<1>6. ASSUME NEW k \in Key, Inspect(k) PROVE Honoured
  <2>1. {k} \in SUBSET Key
    OBVIOUS
  <2> QED BY <1>6, <2>1, OutcomesHonoured DEF Inspect
<1>7. ASSUME NEW k \in Key, NEW unit, TTL(k, unit) PROVE Honoured
  <2>1. {k} \in SUBSET Key
    OBVIOUS
  <2> QED BY <1>2, <1>7, <2>1 DEF TTL
<1>8. ASSUME NEW src \in Key, NEW dst \in Key, RenameKey(src, dst) PROVE Honoured
  <2>1. {src, dst} \in SUBSET Key
    OBVIOUS
  <2>2. CASE Live(db, src)
    <3>1. LiveAt(db, src, now) /\ OK.kind # "error" /\ ~Contract!Idle(OK)
      BY <2>2 DEF Live, OK, Contract!Idle
    <3>2. now \in now .. MaxTime
      BY ClockAssumption DEF IInv
    <3> QED BY <1>8, <2>2, <3>1, <3>2, RenameHonoured DEF RenameKey, Exec
  <2>3. CASE ~Live(db, src)
    BY <1>2, <1>8, <2>1, <2>3 DEF RenameKey, Rename, Live
  <2> QED BY <2>2, <2>3
<1>9. ASSUME NEW src \in Key, NEW dst \in Key, NEW t \in now .. MaxTime, RenameNX(src, dst, t)
      PROVE  Honoured
  <2>1. {src, dst} \in SUBSET Key
    OBVIOUS
  <2>2. CASE ExecUntil(t, "RENAMENX", {src, dst}, Rename(db, src, dst, t), Number(1)) /\ LiveAt(db, src, t)
    <3>1. Number(1).kind # "error" /\ ~Contract!Idle(Number(1))
      BY DEF Number, Contract!Idle
    <3> QED BY <2>2, <3>1, RenameHonoured
  <2>3. CASE ExecUntil(t, "RENAMENX", {src, dst}, db, Number(1))
    <3>1. "RENAMENX" \notin {"PERSIST", "MSETNX"} \cup PairMovers
      BY DEF PairMovers
    <3> QED BY <1>1, <2>1, <2>3, <3>1, QuietUntilHonoured
  <2>4. CASE \E reply : Exec("RENAMENX", {src, dst}, db, reply)
    BY <1>2, <2>1, <2>4
  <2> QED BY <1>9, <2>2, <2>3, <2>4 DEF RenameNX, Rename
<1> QED BY <1>3, <1>4, <1>5, <1>6, <1>7, <1>8, <1>9, TickHonoured, PersistHonoured, ExpiryArgumentType,
           ExpireHonoured, CopyHonoured DEF KeyNext

-----------------------------------------------------------------------------
(* The handlers of string.go *)

\* A reply that says that something was done.
LEMMA Replies ==
    /\ OK.kind # "error" /\ ~Contract!Idle(OK)
    /\ Array.kind # "error" /\ ~Contract!Idle(Array)
    /\ Error.kind = "error" /\ ~Contract!Idle(Error)
    /\ Nil.kind # "error"
    /\ \A v : Bulk(v).kind # "error" /\ ~Contract!Idle(Bulk(v))
    /\ \A n : Number(n).kind # "error" /\ (Contract!Idle(Number(n)) <=> n = 0)
  BY DEF OK, Array, Error, Nil, Bulk, Number, Contract!Idle

LEMMA Families ==
    /\ Contract!Writers = {"SET", "SET KEEPTTL", "SETEX", "SETNX", "GETSET", "MSET", "MSETNX",
                           "INCRBY", "INCRBYFLOAT", "APPEND", "SETRANGE"}
    /\ Contract!TimedWriters = {"SET", "SET KEEPTTL", "SETEX"}
    /\ Contract!Editors = {"LPUSHX", "RPUSHX", "LPOP", "RPOP", "LSET", "LINSERT", "LREM", "LTRIM",
                           "HDEL", "SREM", "SPOP", "ZREM", "ZPOPMIN", "ZPOPMAX"}
    /\ Contract!Builders = {"LPUSH", "RPUSH", "HSET", "HSETNX", "HINCRBY", "HINCRBYFLOAT", "SADD",
                            "ZADD", "ZINCRBY"}
    /\ Contract!Movers = {"RPOPLPUSH", "LMOVE", "SMOVE"}
    /\ Contract!LateFailers = {"RPOPLPUSH", "LMOVE", "SMOVE", "ZADD"}
    /\ {"GETSET", "MSET", "INCRBY", "INCRBYFLOAT", "APPEND", "SETRANGE", "SETEX", "HSET", "HINCRBY",
        "HINCRBYFLOAT", "LPUSH", "RPUSH", "ZADD", "ZINCRBY"} \cap Contract!Counting = {}
  BY DEF Contract!Writers, Contract!TimedWriters, Contract!Editors, Contract!Builders, Contract!Movers,
         Contract!LateFailers, Contract!Counting, Contract!Removers

LEMMA GetDelHonoured ==
    ASSUME IInv, NEW k \in Key, GetDel(k)
    PROVE  Honoured
<1>1. CASE WrongType("GETDEL", {k}, k, "string") \/ Missing("GETDEL", {k}, k, Nil)
  BY <1>1, OutcomesHonoured
<1>2. CASE Exec("GETDEL", {k}, Delete(db, k), Bulk(db.data[k].val))
  <2> DEFINE s == Delete(db, k)
             reply == Bulk(db.data[k].val)
  <2>1. Good(db) /\ Good(s) /\ s = DeleteAll(db, {k})
    BY DeleteGood DEF IInv, Delete, DeleteAll, Good, WellFormed
  <2>2. \A j \in Key : Entry(s, j) = IF j = k THEN Absent ELSE Entry(db, j)
    BY <2>1, DeleteEntry
  <2>3. Apart(db) => Apart(s)
    BY <2>1, DeleteAllApart
  <2>4. reply.kind # "error" /\ ~Contract!Idle(reply) /\ Exec("GETDEL", {k}, s, reply)
    BY <1>2, Replies
  <2> HIDE DEF s, reply
  <2>5. Contract!May("GETDEL", Entry(db, k), Entry(s, k))
    BY <2>2, Classes, Families DEF Contract!May, Contract!Removed
  <2>6. ByKey("GETDEL")
    BY DEF ByKey, PairMovers
  <2>7. Fulfils("GETDEL", {k}, s, reply)
    BY <2>2, <2>3, <2>4, <2>5, <2>6, OneKeyFulfils
  <2> QED BY <2>1, <2>4, <2>7, ExecHonoured
<1> QED BY <1>1, <1>2 DEF GetDel

LEMMA SetAllApart ==
    ASSUME NEW s, Good(s), NEW V, Apart(s)
    PROVE  Apart(SetAll(s, V))
<1>1. \A k \in Key : SetAll(s, V).data[k].type = "string" \/ SetAll(s, V).data[k] = s.data[k]
  BY DEF Good, WellFormed, SetAll, StringObject
<1> QED BY <1>1, StringIsNoContainer DEF Apart, Private, Sharable

\* MSET, and MSETNX when none of its keys is there.
LEMMA SetAllHonoured ==
    ASSUME IInv, NEW K \in SUBSET Key, NEW V \in [K -> Str], NEW cmd, NEW reply,
           \/ cmd = "MSET" /\ reply = OK
           \/ cmd = "MSETNX" /\ reply = Number(1) /\ \A k \in K : ~Live(db, k),
           Exec(cmd, K, SetAll(db, V), reply)
    PROVE  Honoured
<1> DEFINE s == SetAll(db, V)
<1>1. Good(db) /\ Good(s) /\ (Apart(db) => Apart(s)) /\ DOMAIN V = K
  BY SetAllGood, SetAllApart DEF IInv
<1>2. \A k \in Key : Entry(s, k) = IF k \in K THEN StringObject(V[k], Never) ELSE Entry(db, k)
  BY <1>1, SetAllEntry
<1>3. Exec(cmd, K, s, reply)
  OBVIOUS
<1> HIDE DEF s
<1>4. \A k \in K : Entry(s, k).type = "string"
  BY <1>2 DEF StringObject
<1>5. reply.kind # "error" /\ ~Contract!Idle(reply)
  BY Replies
<1>6. \A k \in K : Contract!May(cmd, Entry(db, k), Entry(s, k))
  BY <1>4, Classes, Families DEF Contract!May, Contract!Written
<1>7. CASE cmd = "MSET"
  <2>1. ByKey(cmd)
    BY <1>7 DEF ByKey, PairMovers
  <2>2. Fulfils(cmd, K, s, reply)
    BY <1>1, <1>2, <1>5, <1>6, <2>1, KeysFulfil
  <2> QED BY <1>1, <1>3, <2>2, ExecHonoured
<1>8. CASE cmd = "MSETNX"
  <2>1. \A k \in K : Entry(db, k).type = "none"
    BY <1>1, <1>8, EntryCases DEF Absent
  <2>2. \A k \in Key : View[k] = Entry(db, k) /\ ViewOf(s)[k] = Entry(s, k)
    BY DEF View, ViewOf
  <2>3. Contract!Allowed(cmd, K, reply, View, ViewOf(s))
    BY <1>2, <1>4, <1>5, <1>6, <1>8, <2>1, <2>2 DEF Contract!Allowed, Contract!Failed
  <2>4. Fulfils(cmd, K, s, reply)
    BY <1>1, <1>8, <2>3 DEF Fulfils, PairMovers
  <2> QED BY <1>1, <1>3, <2>4, ExecHonoured
<1> QED BY <1>7, <1>8

LEMMA IncrByHonoured ==
    ASSUME IInv, NEW k \in Key, NEW delta \in Int, IncrBy(k, delta)
    PROVE  Honoured
<1> DEFINE old == IF Live(db, k) THEN db.data[k].val ELSE 0
           n   == Wrap(old + delta)
<1>1. CASE WrongType("INCRBY", {k}, k, "string") \/ Exec("INCRBY", {k}, db, Error)
  BY <1>1, OutcomesHonoured
<1>2. CASE /\ TypeAt(db, k) = "none" \/ (TypeAt(db, k) = "string" /\ db.data[k].val \in IntVal)
           /\ StoreString("INCRBY", k, n, Never, Number(n))
  <2>1. old \in Int
    <3>1. CASE TypeAt(db, k) = "none"
      BY <3>1, TypeAtCases
    <3>2. CASE db.data[k].val \in IntVal
      <4>1. db.data[k].val \in Int
        BY <3>2, IntValType
      <4>2. CASE Live(db, k)
        BY <4>1, <4>2
      <4>3. CASE ~Live(db, k)
        BY <4>3
      <4> QED BY <4>2, <4>3
    <3> QED BY <1>2, <3>1, <3>2
  <2>2. old + delta \in Int
    BY <2>1
  <2>3. n \in Str
    BY <2>2, WrapType, IntValType
  <2>4. StoreString("INCRBY", k, n, Never, Number(n))
    BY <1>2
  <2> HIDE DEF n
  <2>5. "INCRBY" \in Contract!Writers /\ "INCRBY" \notin Contract!Counting
    BY Families
  <2> QED BY <2>3, <2>4, <2>5, Replies, IntValType, StoreStringHonoured
<1> QED BY <1>1, <1>2 DEF IncrBy

LEMMA SetHonoured ==
    ASSUME IInv, NEW cmd \in {"SET", "SET KEEPTTL"}, NEW k \in Key, NEW v \in Str, NEW e \in Expiry,
           NEW nx, NEW xx, Set(cmd, k, v, e, nx, xx)
    PROVE  Honoured
<1>1. CASE Exec(cmd, {k}, db, Nil) \/ Missing(cmd, {k}, k, Nil)
  <2>1. {k} \in SUBSET Key
    OBVIOUS
  <2> QED BY <1>1, <2>1, OutcomesHonoured
<1>2. CASE StoreString(cmd, k, v, e, OK)
  <2>1. cmd \in Contract!Writers /\ cmd \in Contract!TimedWriters /\ cmd # "MSETNX"
    BY Families
  <2> QED BY <1>2, <2>1, Replies, StoreStringHonoured
<1> QED BY <1>1, <1>2 DEF Set

LEMMA StringNextHonoured ==
    ASSUME IInv, StringNext
    PROVE  Honoured
<1>1. Args \subseteq Str /\ Never \in Expiry /\ \A k \in Key : {k} \in SUBSET Key
  BY ArgumentAssumption, IntValType
<1>2. ASSUME NEW k \in Key, Get(k) PROVE Honoured
  BY <1>1, <1>2, OutcomesHonoured DEF Get
<1>3. ASSUME NEW k \in Key, NEW v \in Args, NEW n \in Amounts, NEW unit \in {1, Second}, SetEX(k, v, n, unit)
      PROVE  Honoured
  <2>1. After(n, unit) \in Expiry
    BY AfterType
  <2>2. "SETEX" \in Contract!Writers /\ "SETEX" \in Contract!TimedWriters
    BY Families
  <2>3. CASE Reject("SETEX", {k})
    BY <1>1, <2>3, OutcomesHonoured
  <2>4. CASE StoreString("SETEX", k, v, After(n, unit), OK)
    BY <1>1, <2>1, <2>2, <2>4, Replies, StoreStringHonoured
  <2> QED BY <1>3, <2>3, <2>4 DEF SetEX
<1>4. ASSUME NEW k \in Key, NEW v \in Args, SetNX(k, v) PROVE Honoured
  <2>1. "SETNX" \in Contract!Writers
    BY Families
  <2>2. CASE Exec("SETNX", {k}, db, Number(0))
    BY <1>1, <2>2, OutcomesHonoured
  <2>3. CASE StoreString("SETNX", k, v, Never, Number(1))
    BY <1>1, <2>1, <2>3, Replies, StoreStringHonoured
  <2> QED BY <1>4, <2>2, <2>3 DEF SetNX
<1>5. ASSUME NEW k \in Key, NEW v \in Args, GetSet(k, v) PROVE Honoured
  <2>1. "GETSET" \in Contract!Writers /\ "GETSET" \notin Contract!Counting
    BY Families
  <2>2. CASE WrongType("GETSET", {k}, k, "string")
    BY <1>1, <2>2, OutcomesHonoured
  <2>3. CASE \E reply \in {Nil, Bulk(db.data[k].val)} : StoreString("GETSET", k, v, Never, reply)
    BY <1>1, <2>1, <2>3, Replies, StoreStringHonoured
  <2> QED BY <1>5, <2>2, <2>3 DEF GetSet
<1>6. ASSUME NEW K \in SUBSET Key, NEW t \in now .. MaxTime, MGet(K, t) PROVE Honoured
  <2>1. PICK M \in Missed(K, t) : ExecUntil(t, "MGET", K, DeleteAll(db, M), Array)
    BY <1>6 DEF MGet
  <2>2. M \in SUBSET Key /\ Good(db) /\ \A k \in M : ~LiveAt(db, k, t)
    BY DEF Missed, IInv
  <2>3. "MGET" \notin {"PERSIST", "MSETNX"} \cup PairMovers
    BY DEF PairMovers
  <2> QED BY <2>1, <2>2, <2>3, MissedView, QuietUntilHonoured
<1>7. ASSUME NEW K \in SUBSET Key, NEW V \in [K -> Args], MSet(V) \/ MSetNX(V) PROVE Honoured
  <2>1. V \in [K -> Str] /\ DOMAIN V = K
    BY <1>1
  <2>2. CASE MSet(V)
    BY <2>1, <2>2, SetAllHonoured DEF MSet
  <2>3. CASE MSetNX(V)
    <3>1. Number(0).kind = "integer" /\ Number(0).n = 0
      BY DEF Number
    <3>2. CASE \E L \in SUBSET {k \in K : ~Live(db, k)} : Exec("MSETNX", K, LookupAll(db, L), Number(0))
      BY <3>1, <3>2, LookupAllHonoured
    <3>3. CASE (\A k \in K : ~Live(db, k)) /\ Exec("MSETNX", K, SetAll(db, V), Number(1))
      BY <2>1, <3>3, SetAllHonoured
    <3> QED BY <2>1, <2>3, <3>2, <3>3 DEF MSetNX
  <2> QED BY <1>7, <2>2, <2>3
<1>8. ASSUME NEW k \in Key, NEW delta \in Increments, IncrBy(k, delta) PROVE Honoured
  <2>1. \A d \in Deltas : d \in Int /\ -d \in Int
    BY ArgumentAssumption, IntValType
  <2>2. \A d \in Deltas : Wrap(-d) \in Int
    BY <2>1, WrapType, IntValType
  <2>3. delta \in Int
    BY <2>1, <2>2 DEF Increments
  <2> QED BY <1>8, <2>3, IncrByHonoured
<1>9. ASSUME NEW k \in Key, NEW v \in Str, NEW cmd \in Rewriters, Rewrite(cmd, k, v) PROVE Honoured
  <2>1. cmd \in Contract!Writers /\ cmd \notin {"MSETNX", "PERSIST"}
    BY Families DEF Rewriters
  <2>2. CASE WrongType(cmd, {k}, k, "string") \/ Exec(cmd, {k}, db, Error)
    BY <1>1, <2>1, <2>2, OutcomesHonoured
  <2>3. CASE StoreString(cmd, k, v, Never, Bulk(v))
    BY <1>1, <2>1, <2>3, Replies, StoreStringHonoured
  <2> QED BY <1>9, <2>2, <2>3 DEF Rewrite
<1>10. CASE \E k \in Key : Get(k) \/ GetDel(k)
  BY <1>2, <1>10, GetDelHonoured
<1>11. CASE \E cmd \in {"SET", "SET KEEPTTL"}, k \in Key, v \in Args, nx, xx \in BOOLEAN :
              \/ \E e \in {Never} \cup Positive(Instants) : Set(cmd, k, v, e, nx, xx)
              \/ \E n \in Positive(Amounts), unit \in {1, Second} : Set(cmd, k, v, After(n, unit), nx, xx)
  <2>1. {Never} \cup Positive(Instants) \subseteq Expiry
    BY IntValType, TimeAssumption DEF Positive
  <2>2. \A n \in Positive(Amounts), unit \in {1, Second} : After(n, unit) \in Expiry
    BY AfterType DEF Positive
  <2> QED BY <1>1, <1>11, <2>1, <2>2, SetHonoured
<1>12. CASE \E k \in Key, v \in Args :
              \/ \E n \in Amounts, unit \in {1, Second} : SetEX(k, v, n, unit)
              \/ SetNX(k, v)
              \/ GetSet(k, v)
  BY <1>3, <1>4, <1>5, <1>12
<1>13. CASE \E K \in (SUBSET Key) \ {{}} :
               \/ \E t \in now .. MaxTime : MGet(K, t)
               \/ \E V \in [K -> Args] : MSet(V) \/ MSetNX(V)
  BY <1>6, <1>7, <1>13
<1>14. CASE \/ \E k \in Key, delta \in Increments : IncrBy(k, delta)
            \/ \E k \in Key, v \in Str, cmd \in Rewriters : Rewrite(cmd, k, v)
  BY <1>8, <1>9, <1>14
<1> QED BY <1>10, <1>11, <1>12, <1>13, <1>14 DEF StringNext

-----------------------------------------------------------------------------
(* The handlers of hash.go *)

LEMMA HashHeld ==
    ASSUME IInv, NEW k \in Key
    PROVE  /\ IsMap(Hash(k), Str, Str) /\ Hash(k) = ContentsOr(db, k, "hash")
           /\ TypeAt(db, k) = "none" => DOMAIN Hash(k) = {}
<1>1. TypeAt(db, k) = "none" => Hash(k) = << >>
  BY DEF Hash, ContentsOr, EmptyOf
<1>2. DOMAIN << >> = {}
  OBVIOUS
<1> QED BY <1>1, <1>2, HashType DEF Hash

LEMMA HDelHonoured ==
    ASSUME IInv, Private(db), NEW k \in Key, NEW F \in SUBSET Args, HDel(k, F)
    PROVE  Honoured
<1>1. CASE WrongType("HDEL", {k}, k, "hash") \/ Missing("HDEL", {k}, k, Number(0))
  BY <1>1, OutcomesHonoured
<1>2. CASE /\ TypeAt(db, k) = "hash"
           /\ Exec("HDEL", {k}, Shrink(db, k, "hash", Without(Hash(k), F)),
                   Number(Cardinality(F \cap DOMAIN Hash(k))))
  <2> DEFINE c == Without(Hash(k), F)
             n == Cardinality(F \cap DOMAIN Hash(k))
  <2>1. IsContents("hash", c) /\ "hash" \in Containers /\ "HDEL" \in Contract!Editors
    BY HashType, Families DEF IsContents, IsMap, Without
  <2>2. ASSUME n = 0 PROVE c = ContentsOr(db, k, "hash")
    <3>1. F \cap DOMAIN Hash(k) = {}
      BY <2>2, ArgumentAssumption, FS_Subset, FS_EmptySet
    <3>2. c = [x \in DOMAIN Hash(k) |-> Hash(k)[x]]
      BY <3>1 DEF Without
    <3> QED BY <3>2, HashHeld DEF IsMap
  <2>3. Exec("HDEL", {k}, Shrink(db, k, "hash", c), Number(n))
    BY <1>2
  <2> HIDE DEF c, n
  <2> QED BY <1>2, <2>1, <2>2, <2>3, Replies, ShrinkHonoured
<1> QED BY <1>1, <1>2 DEF HDel

\* The commands that make a hash, when they do something.
LEMMA HashUpsertHonoured ==
    ASSUME IInv, Private(db), NEW cmd \in {"HSET", "HSETNX", "HINCRBY", "HINCRBYFLOAT"},
           NEW k \in Key, TypeAt(db, k) \in {"none", "hash"}, NEW c, Fits("hash", c),
           NEW reply, reply.kind # "error", cmd = "HSETNX" => ~Contract!Idle(reply),
           Exec(cmd, {k}, Upsert(db, k, "hash", c), reply)
    PROVE  Honoured
<1>1. /\ cmd \in Contract!Builders
      /\ cmd # "HSETNX" => cmd \notin Contract!Counting
  BY Families
<1>2. "hash" \in Containers /\ "hash" \notin Sharable
  BY DEF Containers, Sharable
<1> QED BY <1>1, <1>2, UpsertHonoured

LEMMA HSetNXHonoured ==
    ASSUME IInv, Private(db), NEW k \in Key, NEW f \in Args, NEW v \in Args, HSetNX(k, f, v)
    PROVE  Honoured
<1>1. CASE WrongType("HSETNX", {k}, k, "hash") \/ Untouched("HSETNX", {k}, k, "hash", Number(0))
  BY <1>1, OutcomesHonoured
<1>2. CASE /\ TypeAt(db, k) \in {"none", "hash"}
           /\ Exec("HSETNX", {k}, Upsert(db, k, "hash", Updated(Hash(k), [x \in {f} |-> v])), Number(1))
  <2>1. Fits("hash", Updated(Hash(k), [x \in {f} |-> v])) /\ "hash" \in Containers
    BY FieldFits, HashType, ArgumentAssumption
  <2> QED BY <1>2, <2>1, Replies, HashUpsertHonoured
<1> QED BY <1>1, <1>2 DEF HSetNX

LEMMA HIncrByHonoured ==
    ASSUME IInv, Private(db), NEW k \in Key, NEW f \in Str, NEW delta \in Int, HIncrBy(k, f, delta)
    PROVE  Honoured
<1> DEFINE old == IF f \in DOMAIN Hash(k) THEN Hash(k)[f] ELSE 0
           n   == Wrap(old + delta)
           c   == Updated(Hash(k), [x \in {f} |-> n])
<1>1. CASE WrongType("HINCRBY", {k}, k, "hash") \/ Untouched("HINCRBY", {k}, k, "hash", Error)
  BY <1>1, OutcomesHonoured
<1>2. CASE /\ TypeAt(db, k) \in {"none", "hash"}
           /\ f \in DOMAIN Hash(k) => Hash(k)[f] \in IntVal
           /\ Exec("HINCRBY", {k}, Upsert(db, k, "hash", c), Number(n))
  <2>1. old \in Int
    <3>1. CASE f \in DOMAIN Hash(k)
      <4>1. Hash(k)[f] \in Int
        BY <1>2, <3>1, IntValType
      <4> QED BY <3>1, <4>1
    <3>2. CASE f \notin DOMAIN Hash(k)
      BY <3>2
    <3> QED BY <3>1, <3>2
  <2>2. old + delta \in Int
    BY <2>1
  <2>3. n \in Str
    BY <2>2, WrapType, IntValType
  <2> HIDE DEF n
  <2>4. Fits("hash", c) /\ "hash" \in Containers
    BY <2>3, FieldFits, HashType
  <2> HIDE DEF c
  <2> QED BY <1>2, <2>4, Replies, HashUpsertHonoured
<1> QED BY <1>1, <1>2 DEF HIncrBy

LEMMA HashNextHonoured ==
    ASSUME IInv, Private(db), HashNext
    PROVE  Honoured
<1>1. Args \subseteq Str /\ Deltas \subseteq Int /\ "hash" \in Containers /\ \A k \in Key : {k} \in SUBSET Key
  BY ArgumentAssumption, IntValType, StringIsNoContainer
<1>2. ASSUME NEW k \in Key, HashRead(k) PROVE Honoured
  BY <1>1, <1>2, ReadOnlyHonoured DEF HashRead
<1>3. ASSUME NEW k \in Key, NEW F \in (SUBSET Args) \ {{}}, NEW g \in [F -> Args], HSet(k, g) PROVE Honoured
  <2>1. F \subseteq Str /\ F # {} /\ g \in [F -> Str]
    BY <1>1
  <2>2. Fits("hash", Updated(Hash(k), g))
    BY <2>1, HashType, UpdatedFits
  <2>3. CASE WrongType("HSET", {k}, k, "hash")
    BY <1>1, <2>3, OutcomesHonoured
  <2>4. CASE \E n : TypeAt(db, k) \in {"none", "hash"}
                    /\ Exec("HSET", {k}, Upsert(db, k, "hash", Updated(Hash(k), g)), Number(n))
    BY <1>1, <2>2, <2>4, Replies, HashUpsertHonoured
  <2> QED BY <1>3, <2>3, <2>4 DEF HSet
<1>4. ASSUME NEW k \in Key, NEW f \in Args, NEW v \in Str, HIncrByFloat(k, f, v) PROVE Honoured
  <2>1. Fits("hash", Updated(Hash(k), [x \in {f} |-> v]))
    BY <1>1, FieldFits
  <2>2. CASE WrongType("HINCRBYFLOAT", {k}, k, "hash") \/ Untouched("HINCRBYFLOAT", {k}, k, "hash", Error)
    BY <1>1, <2>2, OutcomesHonoured
  <2>3. CASE /\ TypeAt(db, k) \in {"none", "hash"}
             /\ Exec("HINCRBYFLOAT", {k}, Upsert(db, k, "hash", Updated(Hash(k), [x \in {f} |-> v])), Bulk(v))
    BY <1>1, <2>1, <2>3, Replies, HashUpsertHonoured
  <2> QED BY <1>4, <2>2, <2>3 DEF HIncrByFloat
<1> QED BY <1>1, <1>2, <1>3, <1>4, HDelHonoured, HSetNXHonoured, HIncrByHonoured DEF HashNext

-----------------------------------------------------------------------------
(* The handlers of set.go *)

LEMMA SAddHonoured ==
    ASSUME IInv, Private(db), NEW k \in Key, NEW M \in (SUBSET Args) \ {{}}, SAdd(k, M)
    PROVE  Honoured
<1> DEFINE c == SetAt(db, k) \cup M
           n == Cardinality(M \ SetAt(db, k))
<1>1. CASE WrongType("SADD", {k}, k, "set")
  BY <1>1, OutcomesHonoured
<1>2. CASE TypeAt(db, k) \in {"none", "set"} /\ Exec("SADD", {k}, Upsert(db, k, "set", c), Number(n))
  <2>1. Fits("set", c) /\ "set" \in Containers
    BY SetType, SetFits, ArgumentAssumption DEF IInv
  <2>2. ASSUME n = 0 PROVE TypeAt(db, k) = "set" /\ c = ContentsOr(db, k, "set")
    <3>1. M \subseteq SetAt(db, k)
      BY <2>2, ArgumentAssumption, FS_Subset, FS_EmptySet
    <3>2. TypeAt(db, k) # "set" => SetAt(db, k) = {}
      BY DEF SetAt, ContentsOr, EmptyOf
    <3> QED BY <3>1, <3>2 DEF SetAt
  <2>3. "SADD" \in Contract!Builders /\ "set" \notin Sharable
    BY Families DEF Sharable
  <2>4. Exec("SADD", {k}, Upsert(db, k, "set", c), Number(n))
    BY <1>2
  <2> HIDE DEF c, n
  <2> QED BY <1>2, <2>1, <2>2, <2>3, <2>4, Replies, UpsertHonoured
<1> QED BY <1>1, <1>2 DEF SAdd

LEMMA SRemHonoured ==
    ASSUME IInv, Private(db), NEW k \in Key, NEW M \in SUBSET Args, SRem(k, M)
    PROVE  Honoured
<1> DEFINE c == SetAt(db, k) \ M
           n == Cardinality(M \cap SetAt(db, k))
<1>1. CASE WrongType("SREM", {k}, k, "set") \/ Missing("SREM", {k}, k, Number(0))
  BY <1>1, OutcomesHonoured
<1>2. CASE TypeAt(db, k) = "set" /\ Exec("SREM", {k}, Shrink(db, k, "set", c), Number(n))
  <2>1. IsContents("set", c) /\ "set" \in Containers /\ "SREM" \in Contract!Editors
    BY SetType, SetFits, Families DEF IInv
  <2>2. ASSUME n = 0 PROVE c = ContentsOr(db, k, "set")
    <3>1. M \cap SetAt(db, k) = {}
      BY <2>2, ArgumentAssumption, FS_Subset, FS_EmptySet
    <3> QED BY <3>1 DEF SetAt
  <2>3. Exec("SREM", {k}, Shrink(db, k, "set", c), Number(n))
    BY <1>2
  <2> HIDE DEF c, n
  <2> QED BY <1>2, <2>1, <2>2, <2>3, Replies, ShrinkHonoured
<1> QED BY <1>1, <1>2 DEF SRem

LEMMA SPopHonoured ==
    ASSUME IInv, Private(db), NEW k \in Key, NEW n, SPop(k, n)
    PROVE  Honoured
<1>1. CASE WrongType("SPOP", {k}, k, "set") \/ Missing("SPOP", {k}, k, Nil)
             \/ Untouched("SPOP", {k}, k, "set", Error)
  BY <1>1, OutcomesHonoured
<1>2. ASSUME NEW M, TypeAt(db, k) = "set", Exec("SPOP", {k}, Shrink(db, k, "set", SetAt(db, k) \ M), Array)
      PROVE  Honoured
  <2>1. IsContents("set", SetAt(db, k) \ M) /\ "set" \in Containers /\ "SPOP" \in Contract!Editors
    BY SetType, SetFits, Families DEF IInv
  <2> QED BY <1>2, <2>1, Replies, ShrinkHonoured
<1> QED BY <1>1, <1>2 DEF SPop

\* What the lookups of the set algebra leave.
LEMMA CollectSetsView ==
    ASSUME IInv, NEW first \in Key, NEW K \in SUBSET Key, NEW t \in now .. MaxTime, NEW M \in Missed(K, t)
    PROVE  LET s == CollectSets(first, M) IN
           /\ Good(s) /\ (Apart(db) => Apart(s))
           /\ \A k \in Key : Contract!Visible(Entry(s, k), t) = Contract!Visible(Entry(db, k), t)
<1> DEFINE l == Lookup(db, first)
<1>1. Good(db) /\ Good(l) /\ \A k \in Key : Entry(l, k) = Entry(db, k)
  BY LookupGood, LookupView, ViewEntries DEF IInv
<1>2. \A k \in Key : l.data[k] \in {db.data[k], Absent}
  BY DEF IInv, Good, WellFormed, Lookup, Delete
<1>3. CollectSets(first, M) = DeleteAll(l, M)
  BY DEF CollectSets
<1> HIDE DEF l
<1>4. Apart(db) => Apart(l)
  BY <1>2, StringIsNoContainer DEF Apart, Private, Absent, Sharable
<1>5. M \in SUBSET Key /\ \A k \in M : ~LiveAt(db, k, t)
  BY DEF Missed
<1>6. \A k \in M : ~LiveAt(l, k, t)
  BY <1>2, <1>5 DEF LiveAt, Stored, ExpiredAt, Absent
<1>7. /\ Good(DeleteAll(l, M)) /\ (Apart(l) => Apart(DeleteAll(l, M)))
      /\ \A k \in Key : Contract!Visible(Entry(DeleteAll(l, M), k), t) = Contract!Visible(Entry(l, k), t)
  BY <1>1, <1>5, <1>6, MissedView
<1> QED BY <1>1, <1>3, <1>4, <1>7

LEMMA CollectFailsHonoured ==
    ASSUME IInv, NEW cmd \in {"SUNION", "SUNIONSTORE"}, NEW keys \in SUBSET Key, NEW first \in Key,
           NEW K \in SUBSET Key, NEW t \in now .. MaxTime, CollectFails(cmd, keys, first, K, t)
    PROVE  Honoured
<1>1. cmd \notin {"PERSIST", "MSETNX"} \cup PairMovers
  BY DEF PairMovers
<1>2. CASE WrongType(cmd, keys, first, "set")
  BY <1>1, <1>2, OutcomesHonoured
<1>3. CASE \E L \in SUBSET K : \E M \in Missed(L, t) : ExecUntil(t, cmd, keys, CollectSets(first, M), Error)
  <2>1. PICK L \in SUBSET K : \E M \in Missed(L, t) : ExecUntil(t, cmd, keys, CollectSets(first, M), Error)
    BY <1>3
  <2>2. PICK M \in Missed(L, t) : ExecUntil(t, cmd, keys, CollectSets(first, M), Error)
    BY <2>1
  <2>3. L \in SUBSET Key
    OBVIOUS
  <2> QED BY <1>1, <2>2, <2>3, CollectSetsView, QuietUntilHonoured
<1> QED BY <1>2, <1>3 DEF CollectFails

LEMMA SetAlgebraHonoured ==
    ASSUME IInv, NEW first \in Key, NEW K \in SUBSET Key, NEW t \in now .. MaxTime, SetAlgebra(first, K, t)
    PROVE  Honoured
<1>1. K \cup {first} \in SUBSET Key /\ "SUNION" \notin {"PERSIST", "MSETNX"} \cup PairMovers
  BY DEF PairMovers
<1>2. CASE CollectFails("SUNION", K \cup {first}, first, K, t)
  BY <1>1, <1>2, CollectFailsHonoured
<1>3. CASE \E M \in Missed(K, t) : ExecUntil(t, "SUNION", K \cup {first}, CollectSets(first, M), Array)
  BY <1>1, <1>3, CollectSetsView, QuietUntilHonoured
<1> QED BY <1>2, <1>3 DEF SetAlgebra

\* The result replaces whatever dst holds.
LEMMA StoreResultHonoured ==
    ASSUME IInv, NEW dst \in Key, NEW keys \in SUBSET Key, dst \in keys, NEW M, M \subseteq Str,
           NEW t \in now .. MaxTime, NEW l, Good(l), Apart(db) => Apart(l),
           \A k \in Key : Contract!Visible(Entry(l, k), t) = Contract!Visible(Entry(db, k), t),
           NEW s, s = Delete(l, dst), NEW n,
           ExecUntil(t, "SUNIONSTORE", keys, IF M = {} THEN s ELSE Create(s, dst, "set", M), Number(n))
    PROVE  Honoured
<1> DEFINE u == IF M = {} THEN s ELSE Create(s, dst, "set", M)
<1>2. s = DeleteAll(l, {dst})
  BY DEF Delete, DeleteAll, Good, WellFormed
<1>3. Good(s) /\ (Apart(db) => Apart(s))
  BY <1>2, DeleteAllGood, DeleteAllApart
<1>4. \A k \in Key : Entry(s, k) = IF k = dst THEN Absent ELSE Entry(l, k)
  BY <1>2, DeleteAllEntry
<1>6. "set" \in Containers /\ "set" \notin Sharable /\ (M # {} => Fits("set", M))
  BY SetFits DEF Containers, Sharable
<1>7. /\ \A k \in Key \ {dst} : Entry(u, k) = Entry(l, k)
      /\ Entry(u, dst).type = "none" \/ (Entry(u, dst).type = "set" /\ Entry(u, dst).exp = Never)
      /\ Good(u)
  <2>1. CASE M = {}
    BY <1>3, <1>4, <2>1 DEF Absent
  <2>2. CASE M # {}
    <3>1. \A k \in Key : Entry(u, k) = IF k = dst THEN [type |-> "set", val |-> M, exp |-> Never] ELSE Entry(s, k)
      BY <1>3, <1>6, <2>2, CreateEntry
    <3>2. Good(u)
      BY <1>3, <1>6, <2>2, CreateGood DEF Expiry
    <3> HIDE DEF u
    <3> QED BY <1>4, <3>1, <3>2
  <2> QED BY <2>1, <2>2
<1>8. Apart(db) => Apart(u)
  <2> SUFFICES ASSUME Apart(db) PROVE Apart(u)
    OBVIOUS
  <2>1. CASE M = {}
    BY <1>3, <2>1
  <2>2. CASE M # {}
    <3>1. u = Create(s, dst, "set", M)
      BY <2>2
    <3>2. Private(u)
      BY <1>3, <1>6, <3>1, CreatePrivate DEF Apart
    <3>3. u.data = [s.data EXCEPT ![dst] = ContainerObject("set", FreshRef(s), Never)]
      BY <3>1 DEF Create
    <3> HIDE DEF u
    <3>4. \A k \in Key : u.data[k].type = IF k = dst THEN "set" ELSE s.data[k].type
      BY <1>3, <3>3 DEF ContainerObject, Good, WellFormed
    <3> QED BY <1>3, <1>6, <3>2, <3>4 DEF Apart
  <2> QED BY <2>1, <2>2
<1>9. ExecUntil(t, "SUNIONSTORE", keys, u, Number(n))
  OBVIOUS
<1> HIDE DEF u
<1>10. /\ \A k \in Key \ {dst} : Aged(u, t)[k] = Aged(db, t)[k]
       /\ Aged(u, t)[dst].type = "none" \/ (Aged(u, t)[dst].type = "set" /\ Aged(u, t)[dst].exp = Never)
  <2>1. \A k \in Key : /\ Aged(u, t)[k] = Contract!Visible(Entry(u, k), t)
                       /\ Aged(db, t)[k] = Contract!Visible(Entry(db, k), t)
    BY AgedEntries
  <2>2. Contract!Visible(Entry(u, dst), t) = Entry(u, dst)
    BY <1>7 DEF Contract!Visible
  <2> QED BY <1>7, <2>1, <2>2
<1>11. Contract!Stored(keys, Aged(db, t), Aged(u, t))
  BY <1>10 DEF Contract!Stored
<1>12. \A old, new : Contract!May("SUNIONSTORE", old, new)
  BY Classes, Families DEF Contract!May
<1>13. "SUNIONSTORE" \notin Contract!Counting /\ Number(n).kind # "error"
  BY Families, Classes, Replies DEF Contract!Counting
<1>14. Contract!Allowed("SUNIONSTORE", keys, Number(n), Aged(db, t), Aged(u, t))
  BY <1>10, <1>11, <1>12, <1>13 DEF Contract!Allowed, Contract!Failed
<1>15. FulfilsUntil(t, "SUNIONSTORE", keys, u, Number(n))
  BY <1>8, <1>14 DEF FulfilsUntil, PairMovers
<1> QED BY <1>7, <1>9, <1>15, ExecUntilHonoured

LEMMA SetStoreHonoured ==
    ASSUME IInv, NEW op \in Operations, NEW dst \in Key, NEW first \in Key, NEW K \in SUBSET Key,
           NEW t \in now .. MaxTime, SetStore(op, dst, first, K, t)
    PROVE  Honoured
<1> DEFINE keys == K \cup {first, dst}
<1>1. keys \in SUBSET Key /\ dst \in keys
  OBVIOUS
<1>2. CASE CollectFails("SUNIONSTORE", keys, first, K, t)
  BY <1>1, <1>2, CollectFailsHonoured
<1>3. ASSUME NEW M \in Missed(K, t),
             LET s == CollectSets(first, M)
                 result == Combine(op, first, K, s)
             IN ExecUntil(t, "SUNIONSTORE", keys, IF result = {} THEN Delete(s, dst)
                                                  ELSE Create(Delete(s, dst), dst, "set", result),
                          Number(Cardinality(result)))
      PROVE  Honoured
  <2> DEFINE s == CollectSets(first, M)
             result == Combine(op, first, K, s)
  <2>1. /\ Good(s) /\ (Apart(db) => Apart(s))
        /\ \A k \in Key : Contract!Visible(Entry(s, k), t) = Contract!Visible(Entry(db, k), t)
    BY CollectSetsView
  <2>2. ExecUntil(t, "SUNIONSTORE", keys, IF result = {} THEN Delete(s, dst)
                                          ELSE Create(Delete(s, dst), dst, "set", result),
                  Number(Cardinality(result)))
    BY <1>3
  <2> HIDE DEF s, keys
  <2>3. result \subseteq Str
    BY <2>1, SetType DEF IInv, Combine, Operations
  <2> HIDE DEF result
  <2> QED BY <1>1, <2>1, <2>2, <2>3, StoreResultHonoured
<1> QED BY <1>2, <1>3 DEF SetStore

-----------------------------------------------------------------------------
(* The handlers of zset.go *)

LEMMA ZRemHonoured ==
    ASSUME IInv, Private(db), NEW k \in Key, NEW M \in SUBSET Args, ZRem(k, M)
    PROVE  Honoured
<1> DEFINE c == Unscored(ZSet(k), M)
           n == Cardinality(M \cap DOMAIN ZSet(k))
<1>1. CASE WrongType("ZREM", {k}, k, "zset") \/ Missing("ZREM", {k}, k, Number(0))
  BY <1>1, OutcomesHonoured
<1>2. CASE TypeAt(db, k) = "zset" /\ Exec("ZREM", {k}, Shrink(db, k, "zset", c), Number(n))
  <2>1. IsContents("zset", c) /\ "zset" \in Containers /\ "ZREM" \in Contract!Editors
    BY ZSetType, UnscoredType, ZSetFits, Families
  <2>2. ASSUME n = 0 PROVE c = ContentsOr(db, k, "zset")
    <3>1. M \cap DOMAIN ZSet(k) = {}
      BY <2>2, ArgumentAssumption, FS_Subset, FS_EmptySet
    <3>2. c = [m \in DOMAIN ZSet(k) |-> ZSet(k)[m]]
      BY <3>1 DEF Unscored
    <3>3. ZSet(k) \in [DOMAIN ZSet(k) -> Int]
      BY ZSetType DEF IsMap
    <3> QED BY <3>2, <3>3 DEF ZSet
  <2>3. Exec("ZREM", {k}, Shrink(db, k, "zset", c), Number(n))
    BY <1>2
  <2> HIDE DEF c, n
  <2> QED BY <1>2, <2>1, <2>2, <2>3, Replies, ShrinkHonoured
<1> QED BY <1>1, <1>2 DEF ZRem

\* ZADD and ZINCRBY, when they get as far as the sorted set.
LEMMA ZSetUpsertHonoured ==
    ASSUME IInv, Private(db), NEW cmd \in {"ZADD", "ZINCRBY"},
           NEW k \in Key, TypeAt(db, k) \in {"none", "zset"}, NEW z, IsMap(z, Str, Int),
           NEW reply, reply.kind = "error" => cmd = "ZADD",
           Exec(cmd, {k}, Upsert(db, k, "zset", z), reply)
    PROVE  Honoured
<1>1. /\ cmd \in Contract!Builders /\ cmd \notin Contract!Counting /\ cmd \in ListMakers
      /\ "ZADD" \in Contract!LateFailers
  BY Families DEF ListMakers
<1>2. "zset" \in Containers /\ Fits("zset", z)
  BY ZSetFits DEF Containers
<1> QED BY <1>1, <1>2, UpsertHonoured

LEMMA ZAddHonoured ==
    ASSUME IInv, Private(db), NEW k \in Key, NEW M \in SUBSET Args, NEW g \in [M -> Scores], NEW flags,
           ZAdd(k, g, flags)
    PROVE  Honoured
<1>1. ASSUME NEW P, P \subseteq Applied(ZSet(k), g, flags)
      PROVE  IsMap(Scored(ZSet(k), g, P), Str, Int)
  <2>1. P \subseteq M
    BY <1>1 DEF Applied
  <2>2. P \subseteq Str /\ \A m \in P : g[m] \in Int
    BY <2>1, ScoreAssumption, ArgumentAssumption
  <2> QED BY <2>2, ZSetType, ScoredType
<1>2. CASE WrongType("ZADD", {k}, k, "zset")
  BY <1>2, OutcomesHonoured
<1>3. ASSUME NEW P \in SUBSET Applied(ZSet(k), g, flags), NEW reply, TypeAt(db, k) \in {"none", "zset"},
             Exec("ZADD", {k}, Upsert(db, k, "zset", Scored(ZSet(k), g, P)), reply)
      PROVE  Honoured
  BY <1>1, <1>3, ZSetUpsertHonoured
<1> QED BY <1>2, <1>3 DEF ZAdd

LEMMA ZIncrByHonoured ==
    ASSUME IInv, Private(db), NEW k \in Key, NEW m \in Args, NEW delta, ZIncrBy(k, m, delta)
    PROVE  Honoured
<1> DEFINE score == (IF m \in DOMAIN ZSet(k) THEN ZSet(k)[m] ELSE 0) + delta
           z == Scored(ZSet(k), [x \in {m} |-> score], {m})
<1>1. CASE WrongType("ZINCRBY", {k}, k, "zset")
  BY <1>1, OutcomesHonoured
<1>2. CASE /\ TypeAt(db, k) \in {"none", "zset"}
           /\ score \in Scores
           /\ Exec("ZINCRBY", {k}, Upsert(db, k, "zset", z), Number(score))
  <2> HIDE DEF score
  <2>1. score \in Int /\ {m} \subseteq Str
    BY <1>2, ScoreAssumption, ArgumentAssumption
  <2>2. IsMap(z, Str, Int)
    BY <2>1, ZSetType, ScoredType
  <2> HIDE DEF z
  <2> QED BY <1>2, <2>2, Replies, ZSetUpsertHonoured
<1> QED BY <1>1, <1>2 DEF ZIncrBy

LEMMA ZNextHonoured ==
    ASSUME IInv, Private(db), ZNext
    PROVE  Honoured
<1>1. ASSUME NEW k \in Key, ZRead(k) PROVE Honoured
  BY <1>1, ReadOnlyHonoured DEF ZRead
<1>2. ASSUME NEW cmd \in {"ZPOPMIN", "ZPOPMAX"}, NEW k \in Key, NEW n, NEW sign, ZPop(cmd, k, n, sign)
      PROVE  Honoured
  <2>1. CASE WrongType(cmd, {k}, k, "zset") \/ Missing(cmd, {k}, k, Array)
               \/ Untouched(cmd, {k}, k, "zset", Error)
    BY <2>1, OutcomesHonoured
  <2>2. ASSUME NEW M, TypeAt(db, k) = "zset", Exec(cmd, {k}, Shrink(db, k, "zset", Unscored(ZSet(k), M)), Array)
        PROVE  Honoured
    <3>1. IsContents("zset", Unscored(ZSet(k), M)) /\ "zset" \in Containers /\ cmd \in Contract!Editors
      BY ZSetType, UnscoredType, ZSetFits, Families
    <3> QED BY <2>2, <3>1, Replies, ShrinkHonoured
  <2> QED BY <1>2, <2>1, <2>2 DEF ZPop
<1> QED BY <1>1, <1>2, ZRemHonoured, ZAddHonoured, ZIncrByHonoured DEF ZNext

-----------------------------------------------------------------------------
(* The handlers of list.go that work on one list *)

LEMMA ListHeld ==
    ASSUME IInv, NEW k \in Key
    PROVE  List(k) \in Seq(Str) /\ List(k) = ContentsOr(db, k, "list") /\ Len(List(k)) \in Nat
<1>1. List(k) \in Seq(Str)
  BY ListType DEF IInv, List
<1> QED BY <1>1 DEF List

LEMMA PushHonoured ==
    ASSUME IInv, Private(db), NEW cmd \in {"LPUSH", "RPUSH"}, NEW k \in Key, NEW c \in Seq(Str), Push(cmd, k, c)
    PROVE  Honoured
<1>1. CASE WrongType(cmd, {k}, k, "list")
  BY <1>1, OutcomesHonoured
<1>2. CASE TypeAt(db, k) \in {"none", "list"} /\ Exec(cmd, {k}, Upsert(db, k, "list", c), Number(Len(c)))
  <2>1. cmd \in Contract!Builders /\ cmd \notin Contract!Counting /\ cmd \in ListMakers
    BY Families DEF ListMakers
  <2>2. Fits("list", c) /\ "list" \in Containers
    BY ListFits
  <2> QED BY <1>2, <2>1, <2>2, Replies, UpsertHonoured
<1> QED BY <1>1, <1>2 DEF Push

LEMMA PushXHonoured ==
    ASSUME IInv, Private(db), NEW cmd \in {"LPUSHX", "RPUSHX"}, NEW k \in Key, NEW c \in Seq(Str), Len(c) # 0,
           PushX(cmd, k, c)
    PROVE  Honoured
<1>1. CASE WrongType(cmd, {k}, k, "list") \/ Missing(cmd, {k}, k, Number(0))
  BY <1>1, OutcomesHonoured
<1>2. CASE TypeAt(db, k) = "list" /\ Exec(cmd, {k}, Mutate(db, k, c), Number(Len(c)))
  <2>1. cmd \in Contract!Editors /\ Fits("list", c) /\ "list" \in Containers
    BY Families, ListFits
  <2> QED BY <1>2, <2>1, Replies, MutateHonoured
<1> QED BY <1>1, <1>2 DEF PushX

LEMMA PopHonoured ==
    ASSUME IInv, Private(db), NEW cmd \in {"LPOP", "RPOP"}, NEW k \in Key, NEW n \in Int,
           NEW rest, n >= 0 => rest \in Seq(Str), NEW v, Pop(cmd, k, n, rest, v)
    PROVE  Honoured
<1> DEFINE reply == IF rest = List(k) THEN Nil ELSE IF n = 1 THEN Bulk(v) ELSE Array
<1>1. CASE WrongType(cmd, {k}, k, "list") \/ Missing(cmd, {k}, k, Nil)
             \/ Untouched(cmd, {k}, k, "list", Error)
  BY <1>1, OutcomesHonoured
<1>2. CASE n >= 0 /\ TypeAt(db, k) = "list" /\ Exec(cmd, {k}, Shrink(db, k, "list", rest), reply)
  <2>1. reply.kind # "error" /\ (Contract!Idle(reply) => rest = ContentsOr(db, k, "list"))
    BY Replies, ListHeld
  <2>2. cmd \in Contract!Editors /\ IsContents("list", rest) /\ "list" \in Containers
    BY <1>2, Families, ListFits
  <2>3. Exec(cmd, {k}, Shrink(db, k, "list", rest), reply)
    BY <1>2
  <2> HIDE DEF reply
  <2> QED BY <1>2, <2>1, <2>2, <2>3, ShrinkHonoured
<1> QED BY <1>1, <1>2 DEF Pop

LEMMA LSetHonoured ==
    ASSUME IInv, Private(db), NEW k \in Key, NEW i \in Int, NEW v \in Str, LSet(k, i, v)
    PROVE  Honoured
<1> DEFINE c == List(k)
<1>1. CASE WrongType("LSET", {k}, k, "list") \/ Missing("LSET", {k}, k, Error)
             \/ Untouched("LSET", {k}, k, "list", Error)
  BY <1>1, OutcomesHonoured
<1>2. CASE /\ TypeAt(db, k) = "list" /\ InRange(c, i)
           /\ Exec("LSET", {k}, Mutate(db, k, [c EXCEPT ![FromHead(c, i) + 1] = v]), OK)
  <2>1. c \in Seq(Str)
    BY ListHeld
  <2>2. FromHead(c, i) + 1 \in DOMAIN c
    BY <1>2, <2>1 DEF InRange, FromHead
  <2>3. [c EXCEPT ![FromHead(c, i) + 1] = v] \in Seq(Str)
    <3> HIDE DEF c
    <3> QED BY <2>1, <2>2
  <2>4. Fits("list", [c EXCEPT ![FromHead(c, i) + 1] = v]) /\ "list" \in Containers /\ "LSET" \in Contract!Editors
    BY <2>3, ListFits, Families
  <2> QED BY <1>2, <2>4, Replies, MutateHonoured
<1> QED BY <1>1, <1>2 DEF LSet

LEMMA LInsertHonoured ==
    ASSUME IInv, Private(db), NEW k \in Key, NEW v \in Str, NEW pivot \in Str, NEW offset \in {0, 1},
           LInsert(k, offset, pivot, v)
    PROVE  Honoured
<1> DEFINE c == List(k)
<1>1. CASE WrongType("LINSERT", {k}, k, "list") \/ Missing("LINSERT", {k}, k, Number(0))
             \/ Untouched("LINSERT", {k}, k, "list", Error)
             \/ Untouched("LINSERT", {k}, k, "list", Number(-1))
  BY <1>1, OutcomesHonoured
<1>2. ASSUME NEW p \in Occurrences(c, pivot), TypeAt(db, k) = "list",
             Exec("LINSERT", {k}, Mutate(db, k, InsertAt(c, p + offset, v)), Number(Len(c) + 1))
      PROVE  Honoured
  <2>1. c \in Seq(Str) /\ Len(c) \in Nat
    BY ListHeld
  <2>2. p + offset \in 1 .. Len(c) + 1 /\ Len(c) + 1 # 0
    <3> HIDE DEF c
    <3> QED BY <1>2, <2>1 DEF Occurrences
  <2>3. InsertAt(c, p + offset, v) \in Seq(Str)
    BY <2>1, <2>2, InsertType
  <2>4. Fits("list", InsertAt(c, p + offset, v)) /\ "list" \in Containers /\ "LINSERT" \in Contract!Editors
    BY <2>3, ListFits, Families
  <2>5. Number(Len(c) + 1).kind # "error" /\ ~Contract!Idle(Number(Len(c) + 1))
    BY <2>2, Replies
  <2> HIDE DEF c
  <2> QED BY <1>2, <2>4, <2>5, MutateHonoured
<1> QED BY <1>1, <1>2 DEF LInsert

\* LREM that finds no occurrence leaves the list as it was.
LEMMA LeavesOutNothing ==
    ASSUME NEW c \in Seq(Str), NEW d \in Seq(Str), LeavesOut(d, c, {})
    PROVE  d = c
<1> DEFINE n == Len(c)
<1>1. n \in Nat /\ DOMAIN c = 1 .. n
  OBVIOUS
<1>2. ASSUME NEW p \in 0 .. n PROVE Cardinality(1 .. p) = p
  <2>1. p \in Int /\ 1 \in Int
    BY <1>1
  <2> QED BY <2>1, <1>1, FS_Interval
<1>3. Len(d) = n
  <2>1. n \in 0 .. n
    BY <1>1
  <2> QED BY <1>1, <1>2, <2>1 DEF LeavesOut
<1>4. ASSUME NEW p \in 1 .. n PROVE d[p] = c[p]
  <2>1. {q \in DOMAIN c \ {} : q <= p} = 1 .. p
    BY <1>1
  <2>2. p \in 0 .. n
    BY <1>1
  <2>3. Cardinality({q \in DOMAIN c \ {} : q <= p}) = p
    BY <1>2, <2>1, <2>2
  <2> QED BY <1>1, <2>3 DEF LeavesOut
<1> HIDE DEF n
<1> QED BY <1>1, <1>3, <1>4

LEMMA LRemHonoured ==
    ASSUME IInv, Private(db), NEW k \in Key, NEW n \in Int, NEW v, LRem(k, n, v)
    PROVE  Honoured
<1> DEFINE c == List(k)
           P == IF n = -Half THEN {} ELSE Removed(c, n, v)
<1>1. CASE WrongType("LREM", {k}, k, "list") \/ Missing("LREM", {k}, k, Number(0))
  BY <1>1, OutcomesHonoured
<1>2. ASSUME NEW d \in Lists(Len(c)), LeavesOut(d, c, P), TypeAt(db, k) = "list",
             Exec("LREM", {k}, Shrink(db, k, "list", d), Number(Cardinality(P)))
      PROVE  Honoured
  <2>1. c \in Seq(Str) /\ c = ContentsOr(db, k, "list")
    BY ListHeld
  <2>2. d \in Seq(Str)
    <3> HIDE DEF c
    <3> QED BY <2>1 DEF Lists
  <2>3. IsFiniteSet(P)
    <3>1. IsFiniteSet({}) /\ IsFiniteSet(Occurrences(c, v))
      <4>1. IsFiniteSet(1 .. Len(c))
        BY <2>1, FS_Interval
      <4>2. DOMAIN c = 1 .. Len(c)
        BY <2>1
      <4>3. Occurrences(c, v) \subseteq DOMAIN c
        BY DEF Occurrences
      <4> QED BY <4>1, <4>2, <4>3, FS_Subset, FS_EmptySet
    <3>2. \A S : S \subseteq Occurrences(c, v) => IsFiniteSet(S)
      BY <3>1, FS_Subset
    <3>3. n = 0 => Removed(c, n, v) \subseteq Occurrences(c, v)
      BY DEF Removed
    <3>4. n > 0 => Removed(c, n, v) \subseteq Occurrences(c, v)
      BY DEF Removed
    <3>5. n < 0 => Removed(c, n, v) \subseteq Occurrences(c, v)
      BY DEF Removed
    <3>6. Removed(c, n, v) \subseteq Occurrences(c, v)
      BY <3>3, <3>4, <3>5
    <3> QED BY <3>1, <3>2, <3>6
  <2> HIDE DEF P
  <2>4. Cardinality(P) = 0 => d = ContentsOr(db, k, "list")
    <3>1. Cardinality(P) = 0 => P = {}
      BY <2>3, FS_EmptySet
    <3> HIDE DEF c
    <3> QED BY <1>2, <2>1, <2>2, <3>1, LeavesOutNothing
  <2>5. IsContents("list", d) /\ "list" \in Containers /\ "LREM" \in Contract!Editors
    BY <2>2, ListFits, Families
  <2> QED BY <1>2, <2>4, <2>5, Replies, ShrinkHonoured
<1> QED BY <1>1, <1>2 DEF LRem

LEMMA LTrimHonoured ==
    ASSUME IInv, Private(db), NEW k \in Key, NEW i \in Int, NEW j \in Int, LTrim(k, i, j)
    PROVE  Honoured
<1>1. CASE WrongType("LTRIM", {k}, k, "list") \/ Missing("LTRIM", {k}, k, OK)
  BY <1>1, OutcomesHonoured
<1>2. CASE TypeAt(db, k) = "list" /\ Exec("LTRIM", {k}, Shrink(db, k, "list", Trim(List(k), i, j)), OK)
  <2>1. Trim(List(k), i, j) \in Seq(Str)
    BY ListHeld, TrimType
  <2>2. IsContents("list", Trim(List(k), i, j)) /\ "list" \in Containers /\ "LTRIM" \in Contract!Editors
    BY <2>1, ListFits, Families
  <2> QED BY <1>2, <2>2, Replies, ShrinkHonoured
<1> QED BY <1>1, <1>2 DEF LTrim

-----------------------------------------------------------------------------
(* The handlers that take an element from one key and give it to another.   *)

\* Two steps of one handler: the container of src shrinks, perhaps to
\* nothing, and then dst, perhaps the same key, gets a container.
LEMMA TakeEntry ==
    ASSUME IInv, Private(db), NEW src \in Key, NEW t \in Containers, TypeAt(db, src) = t,
           NEW c, IsContents(t, c)
    PROVE  LET s == Shrink(db, src, t, c) IN
           /\ Good(s) /\ Private(s) /\ (Apart(db) => Apart(s))
           /\ \A k \in Key \ {src} : Entry(s, k) = Entry(db, k)
           /\ Entry(s, src) = IF IsEmpty(t, c) THEN Absent
                              ELSE [type |-> t, val |-> c, exp |-> Entry(db, src).exp]
           /\ Entry(db, src) = [type |-> t, val |-> ContentsOr(db, src, t), exp |-> Entry(db, src).exp]
           /\ db.data[src].type = t
<1> DEFINE s == Shrink(db, src, t, c)
<1>1. Good(db) /\ db.data[src].type = t /\ Live(db, src)
  BY TypeAtCases, StringIsNoContainer DEF IInv
<1>2. Good(s)
  BY <1>1, ShrinkGood
<1>3. /\ \A j \in Key \ {src} : Entry(s, j) = Entry(db, j)
      /\ Entry(s, src) = IF IsEmpty(t, c) THEN Absent ELSE [Entry(db, src) EXCEPT !.val = c]
      /\ Private(s)
      /\ \A j \in Key : s.data[j].type \in {db.data[j].type, "none"}
  BY <1>1, ShrinkEntry
<1>4. Entry(db, src) = [type |-> t, val |-> Entry(db, src).val, exp |-> Entry(db, src).exp]
        /\ Entry(db, src).val = ContentsOr(db, src, t)
  <2>1. Entry(db, src).val = ContentsOr(db, src, t)
    BY <1>1, ContentsOrEntry
  <2> QED BY <1>1, <2>1, EntryCases
<1> HIDE DEF s
<1>5. [Entry(db, src) EXCEPT !.val = c] = [type |-> t, val |-> c, exp |-> Entry(db, src).exp]
  BY <1>4
<1>6. Apart(db) => Apart(s)
  BY <1>3 DEF Apart, Sharable
<1> QED BY <1>1, <1>2, <1>3, <1>4, <1>5, <1>6 DEF s

\* What the first step leaves once dst has been looked up, at a later time: dst
\* may be gone by then.
AfterTake(src, t, c, dst, till, s) ==
    /\ Good(s) /\ Private(s) /\ (Apart(db) => Apart(s))
    /\ \A k \in Key : k \notin {src, dst} => Entry(s, k) = Entry(db, k)
    /\ \A k \in Key : Contract!Moved(Contract!Visible(Entry(db, k), till),
                                     Contract!Visible(Entry(s, k), till))
    /\ \A k \in Key \ {src} : Contract!Visible(Entry(s, k), till) = Contract!Visible(Entry(db, k), till)
    /\ Contract!Visible(Entry(s, src), till) =
          IF IsEmpty(t, c) THEN Absent
          ELSE Contract!Visible([type |-> t, val |-> c, exp |-> Entry(db, src).exp], till)
    /\ Contract!Visible(Entry(s, dst), till) = Entry(s, dst)
    /\ Entry(db, src) = [type |-> t, val |-> ContentsOr(db, src, t), exp |-> Entry(db, src).exp]

LEMMA TakeMoves ==
    ASSUME IInv, Private(db), NEW src \in Key, NEW t \in Containers, TypeAt(db, src) = t,
           NEW c, IsContents(t, c), NEW dst \in Key, NEW till \in now .. MaxTime,
           NEW s, s = LookupAt(Shrink(db, src, t, c), dst, till)
    PROVE  AfterTake(src, t, c, dst, till, s)
<1> DEFINE z == Shrink(db, src, t, c)
<1>0. s = LookupAt(z, dst, till)
  OBVIOUS
<1>1. /\ Good(z) /\ Private(z) /\ (Apart(db) => Apart(z))
      /\ \A j \in Key \ {src} : Entry(z, j) = Entry(db, j)
      /\ Entry(z, src) = IF IsEmpty(t, c) THEN Absent
                         ELSE [type |-> t, val |-> c, exp |-> Entry(db, src).exp]
      /\ Entry(db, src) = [type |-> t, val |-> ContentsOr(db, src, t), exp |-> Entry(db, src).exp]
  BY TakeEntry
<1> HIDE DEF z
<1>2. /\ Good(s) /\ (Private(z) => Private(s)) /\ (Apart(z) => Apart(s))
      /\ \A j \in Key \ {dst} : Entry(s, j) = Entry(z, j)
      /\ Entry(s, dst) = Contract!Visible(Entry(z, dst), till)
      /\ Contract!Visible(Entry(s, dst), till) = Entry(s, dst)
  BY <1>0, <1>1, LookupAtEntry
<1>3. \A k \in Key : Contract!Visible(Entry(s, k), till) = Contract!Visible(Entry(z, k), till)
  BY <1>2
<1>4. Contract!Visible(Absent, till) = Absent
  BY DEF Contract!Visible, Absent
<1>5. Contract!Visible(Entry(s, src), till) =
          IF IsEmpty(t, c) THEN Absent
          ELSE Contract!Visible([type |-> t, val |-> c, exp |-> Entry(db, src).exp], till)
  BY <1>1, <1>3, <1>4
<1>6. ASSUME NEW k \in Key
      PROVE  Contract!Moved(Contract!Visible(Entry(db, k), till), Contract!Visible(Entry(s, k), till))
  <2>1. CASE k # src
    BY <1>1, <1>3, <2>1 DEF Contract!Moved, Contract!Edited
  <2>2. CASE k = src
    BY <1>1, <1>5, <2>2 DEF Contract!Moved, Contract!Edited, Contract!Visible, Contract!None, Absent
  <2> QED BY <2>1, <2>2
<1> QED BY <1>1, <1>2, <1>3, <1>5, <1>6 DEF AfterTake, z

LEMMA GiveEntry ==
    ASSUME IInv, Private(db), NEW src \in Key, NEW t \in Containers, TypeAt(db, src) = t,
           NEW c, IsContents(t, c), NEW dst \in Key, NEW till \in now .. MaxTime,
           NEW s, s = LookupAt(Shrink(db, src, t, c), dst, till),
           TypeAt(s, dst) \in {"none", t}, NEW d, Fits(t, d)
    PROVE  LET u == Upsert(s, dst, t, d) IN
           /\ Good(u) /\ (Apart(db) => Apart(u))
           /\ \A k \in Key \ {dst} : Entry(u, k) = Entry(s, k)
           /\ Entry(u, dst).type = t /\ Entry(u, dst).val = d
           /\ Contract!Visible(Entry(u, dst), till) = Entry(u, dst)
           /\ \A k \in Key : Contract!Moved(Contract!Visible(Entry(db, k), till),
                                            Contract!Visible(Entry(u, k), till))
<1> DEFINE u == Upsert(s, dst, t, d)
<1>0. AfterTake(src, t, c, dst, till, s)
  BY TakeMoves
<1>1. /\ Good(s) /\ Private(s) /\ (Apart(db) => Apart(s))
      /\ \A k \in Key : Contract!Moved(Contract!Visible(Entry(db, k), till),
                                       Contract!Visible(Entry(s, k), till))
      /\ \A k \in Key \ {src} : Contract!Visible(Entry(s, k), till) = Contract!Visible(Entry(db, k), till)
      /\ Contract!Visible(Entry(s, src), till) =
            IF IsEmpty(t, c) THEN Absent
            ELSE Contract!Visible([type |-> t, val |-> c, exp |-> Entry(db, src).exp], till)
      /\ Contract!Visible(Entry(s, dst), till) = Entry(s, dst)
      /\ Entry(db, src) = [type |-> t, val |-> ContentsOr(db, src, t), exp |-> Entry(db, src).exp]
  BY <1>0 DEF AfterTake
<1>2. Good(u)
  BY <1>1, UpsertGood
<1>3. /\ \A k \in Key \ {dst} : Entry(u, k) = Entry(s, k)
      /\ Entry(u, dst) = [type |-> t, val |-> d,
                          exp  |-> IF Entry(s, dst).type = "none" THEN Never ELSE Entry(s, dst).exp]
      /\ Private(u)
      /\ \A k \in Key \ {dst} : u.data[k].type = s.data[k].type
      /\ u.data[dst].type = t
  BY <1>1, UpsertEntry
<1>4. Entry(s, dst).type \in {"none", t} /\ t # "none"
  BY <1>1, EntryCases, StringIsNoContainer
<1> HIDE DEF u
<1>5. Apart(db) => Apart(u)
  <2>1. t \in Sharable => db.data[src].type = t
    BY TypeAtCases, <1>4
  <2> QED BY <1>1, <1>3, <2>1 DEF Apart
<1>7. Contract!Visible(Entry(u, dst), till) = Entry(u, dst)
  BY <1>1, <1>3, <1>4 DEF Contract!Visible, Contract!None
<1>6. ASSUME NEW k \in Key
      PROVE  Contract!Moved(Contract!Visible(Entry(db, k), till), Contract!Visible(Entry(u, k), till))
  <2>1. CASE k # dst
    BY <1>1, <1>3, <2>1
  <2>2. CASE k = dst /\ dst # src
    <3>1. Contract!Visible(Entry(db, dst), till) = Entry(s, dst)
      BY <1>1, <2>2
    <3> QED BY <1>3, <1>4, <1>7, <2>2, <3>1 DEF Contract!Moved, Contract!Built
  <2>3. CASE k = dst /\ dst = src
    <3> DEFINE old == Contract!Visible(Entry(db, src), till)
    <3>1. old.type \in {"none", t}
      BY <1>1 DEF Contract!Visible, Contract!None
    <3>2. Entry(s, dst).type # "none" => old.type = t /\ old.exp = Entry(s, dst).exp
      BY <1>1, <2>3 DEF Contract!Visible, Contract!None, Absent
    <3> HIDE DEF old
    <3>3. Contract!Moved(old, Entry(u, dst))
      BY <1>3, <1>4, <3>1, <3>2 DEF Contract!Moved, Contract!Edited, Contract!Built
    <3> QED BY <1>7, <2>3, <3>3 DEF old
  <2> QED BY <2>1, <2>2, <2>3
<1> QED BY <1>2, <1>3, <1>5, <1>6, <1>7 DEF u

\* What the two leave is what the contract allows, for one class of commands.
LEMMA MovedAllowed ==
    ASSUME NEW cmd \in Contract!Movers, NEW src \in Key, NEW dst \in Key, NEW till, NEW s, NEW reply,
           \A k \in Key \ {src, dst} : Entry(s, k) = Entry(db, k),
           \A k \in Key : Contract!Moved(Contract!Visible(Entry(db, k), till),
                                         Contract!Visible(Entry(s, k), till)),
           ~Contract!Idle(reply)
    PROVE  Contract!Allowed(cmd, {src, dst}, reply, Aged(db, till), Aged(s, till))
<1>1. \A k \in Key : /\ Aged(s, till)[k] = Contract!Visible(Entry(s, k), till)
                     /\ Aged(db, till)[k] = Contract!Visible(Entry(db, k), till)
  BY AgedEntries
<1>2. \A old, new : Contract!Moved(old, new) => Contract!May(cmd, old, new)
  BY Classes, Families DEF Contract!May, Contract!Movers
<1>3. cmd \in Contract!LateFailers /\ cmd \notin {"MSETNX", "RENAME", "RENAMENX", "COPY", "SUNIONSTORE"}
  BY DEF Contract!Movers, Contract!LateFailers
<1> QED BY <1>1, <1>2, <1>3 DEF Contract!Allowed

LEMMA SMoveHonoured ==
    ASSUME IInv, Private(db), NEW src \in Key, NEW dst \in Key, NEW m \in Args,
           NEW till \in now .. MaxTime, SMove(src, dst, m, till)
    PROVE  Honoured
<1> DEFINE c == SetAt(db, src) \ {m}
           s == LookupAt(Shrink(db, src, "set", c), dst, till)
           d == SetAt(s, dst) \cup {m}
           u == Upsert(s, dst, "set", d)
<1>1. m \in Str /\ "set" \in Containers /\ {src, dst} \in SUBSET Key
  BY ArgumentAssumption, StringIsNoContainer
<1>2. CASE WrongType("SMOVE", {src, dst}, src, "set") \/ Missing("SMOVE", {src, dst}, src, Number(0))
             \/ Untouched("SMOVE", {src, dst}, src, "set", Number(0))
  BY <1>1, <1>2, OutcomesHonoured
<1>3. /\ "SMOVE" \in Contract!Movers /\ "SMOVE" \notin PairMovers
      /\ ~Contract!Idle(Error) /\ ~Contract!Idle(Number(1))
  BY DEF Contract!Movers, PairMovers, Contract!Idle, Error, Number
<1>4. ASSUME TypeAt(db, src) = "set" PROVE IsContents("set", c)
  BY SetType, SetFits DEF IInv
<1>7. ASSUME TypeAt(db, src) = "set"
      PROVE  /\ Good(s) /\ (Apart(db) => Apart(s))
             /\ \A k \in Key \ {src, dst} : Entry(s, k) = Entry(db, k)
             /\ \A k \in Key : Contract!Moved(Contract!Visible(Entry(db, k), till),
                                              Contract!Visible(Entry(s, k), till))
  <2>1. IsContents("set", c) /\ s = LookupAt(Shrink(db, src, "set", c), dst, till)
    BY <1>4, <1>7
  <2> HIDE DEF c, s
  <2>2. AfterTake(src, "set", c, dst, till, s)
    BY <1>1, <1>7, <2>1, TakeMoves
  <2> QED BY <2>2 DEF AfterTake
<1>5. CASE TypeAt(db, src) = "set" /\ ExecUntil(till, "SMOVE", {src, dst}, s, Error)
  <2>2. ExecUntil(till, "SMOVE", {src, dst}, s, Error)
    BY <1>5
  <2> HIDE DEF s
  <2>3. FulfilsUntil(till, "SMOVE", {src, dst}, s, Error)
    BY <1>3, <1>5, <1>7, MovedAllowed DEF FulfilsUntil
  <2> QED BY <1>5, <1>7, <2>2, <2>3, ExecUntilHonoured
<1>6. CASE /\ TypeAt(db, src) = "set" /\ TypeAt(s, dst) \in {"none", "set"}
           /\ ExecUntil(till, "SMOVE", {src, dst}, u, Number(1))
  <2> HIDE DEF c
  <2>2. Fits("set", SetAt(s, dst) \cup {m})
    BY <1>1, <1>6, <1>7, SetType, SetFits
  <2>3. /\ Good(u) /\ (Apart(db) => Apart(u))
        /\ \A k \in Key \ {dst} : Entry(u, k) = Entry(s, k)
        /\ \A k \in Key : Contract!Moved(Contract!Visible(Entry(db, k), till),
                                         Contract!Visible(Entry(u, k), till))
    <3>1. s = LookupAt(Shrink(db, src, "set", c), dst, till) /\ u = Upsert(s, dst, "set", d)
      OBVIOUS
    <3>2. Fits("set", d)
      BY <2>2
    <3>3. /\ TypeAt(db, src) = "set" /\ TypeAt(s, dst) \in {"none", "set"}
          /\ IsContents("set", c)
      BY <1>4, <1>6
    <3> HIDE DEF s, d, u
    <3> QED BY <1>1, <3>1, <3>2, <3>3, GiveEntry
  <2>5. ExecUntil(till, "SMOVE", {src, dst}, u, Number(1))
    BY <1>6
  <2> HIDE DEF u, s
  <2>4. \A k \in Key \ {src, dst} : Entry(u, k) = Entry(db, k)
    BY <1>6, <1>7, <2>3
  <2>6. FulfilsUntil(till, "SMOVE", {src, dst}, u, Number(1))
    BY <1>3, <2>3, <2>4, MovedAllowed DEF FulfilsUntil
  <2> QED BY <2>3, <2>5, <2>6, ExecUntilHonoured
<1> QED BY <1>2, <1>5, <1>6 DEF SMove

\* A view with one more element at the end of the list of k.
LEMMA OneMore ==
    ASSUME NEW v, NEW w, NEW k \in Key, IsFiniteSet(Positions(v)),
           \A j \in Key \ {k} : w[j] = v[j],
           NEW n \in Nat,
           \/ v[k].type = "list" /\ DOMAIN v[k].val = 1 .. n
           \/ v[k].type # "list" /\ n = 0,
           w[k].type = "list", DOMAIN w[k].val = 1 .. n + 1
    PROVE  IsFiniteSet(Positions(w)) /\ TotalLength(w) = TotalLength(v) + 1 /\ TotalLength(v) \in Nat
<1>2. ASSUME NEW u, NEW j, NEW i
      PROVE  <<j, i>> \in Positions(u) <=> j \in Key /\ u[j].type = "list" /\ i \in DOMAIN u[j].val
  BY DEF Positions
<1>3. 1 .. n + 1 = 1 .. n \cup {n + 1} /\ n + 1 \notin 1 .. n
  OBVIOUS
<1>4. <<k, n + 1>> \notin Positions(v)
  BY <1>2, <1>3
<1>5. Positions(w) = Positions(v) \cup {<<k, n + 1>>}
  <2>1. ASSUME NEW j, NEW i
        PROVE  <<j, i>> \in Positions(w) <=> <<j, i>> \in Positions(v) \/ (j = k /\ i = n + 1)
    <3>1. CASE j = k
      BY <1>2, <1>3, <3>1
    <3>2. CASE j # k
      BY <1>2, <3>2
    <3> QED BY <3>1, <3>2
  <2>2. \A u : \A p \in Positions(u) : p = <<p[1], p[2]>>
    BY DEF Positions
  <2> QED BY <2>1, <2>2
<1>6. Cardinality(Positions(v)) \in Nat
  BY FS_CardinalityType
<1>7. /\ IsFiniteSet(Positions(v) \cup {<<k, n + 1>>})
      /\ Cardinality(Positions(v) \cup {<<k, n + 1>>}) = Cardinality(Positions(v)) + 1
  BY <1>4, FS_AddElement
<1> QED BY <1>5, <1>6, <1>7 DEF TotalLength

\* What is left after one pop, and what there is after one push.
LEMMA OneElement ==
    ASSUME NEW c \in Seq(Str), NEW v \in Str, NEW from \in Ends, NEW to
    PROVE  /\ c # << >> => /\ Take(c, from) \in Seq(Str) /\ Len(Take(c, from)) = Len(c) - 1
                            /\ Taken(c, from) \in Str
           /\ Give(c, to, v) \in Seq(Str)
           /\ to \in Ends => Len(Give(c, to, v)) = Len(c) + 1
           /\ to \in Ends => Give(c, to, v) # << >>
<1>1. Take(c, from) \in Seq(Str)
  BY PopType DEF Take
<1>2. c # << >> => Len(c) \in Nat \ {0}
  OBVIOUS
<1>3. c # << >> => Len(SubSeq(c, 1 + 1, Len(c))) = Len(c) - 1 /\ Len(SubSeq(c, 1, Len(c) - 1)) = Len(c) - 1
  <2> SUFFICES ASSUME c # << >>
               PROVE  Len(SubSeq(c, 2, Len(c))) = Len(c) - 1 /\ Len(SubSeq(c, 1, Len(c) - 1)) = Len(c) - 1
    OBVIOUS
  <2>1. Len(c) \in Int /\ Len(c) >= 1 /\ \A i \in 1 .. Len(c) : c[i] \in Str
    BY <1>2
  <2>2. Len(SubSeq(c, 2, Len(c))) = IF 2 <= Len(c) THEN Len(c) - 2 + 1 ELSE 0
    BY <2>1, SubSeqProperties
  <2>3. Len(SubSeq(c, 1, Len(c) - 1)) = IF 1 <= Len(c) - 1 THEN Len(c) - 1 - 1 + 1 ELSE 0
    BY <2>1, SubSeqProperties
  <2> QED BY <2>1, <2>2, <2>3
<1>4. c # << >> => Taken(c, from) \in Str
  BY <1>2 DEF Taken, Last
<1>5. <<v>> \in Seq(Str) /\ Len(<<v>>) = 1
  OBVIOUS
<1>6. PushLeft(c, <<v>>) \in Seq(Str) /\ PushRight(c, <<v>>) \in Seq(Str)
  BY <1>5, PushType
<1>7. Len(PushLeft(c, <<v>>)) = Len(c) + 1 /\ Len(PushRight(c, <<v>>)) = Len(c) + 1
  <2>1. Reverse(<<v>>) \in Seq(Str) /\ Len(Reverse(<<v>>)) = 1
    <3>1. Reverse(<<v>>) = [i \in 1 .. 1 |-> <<v>>[1 - i + 1]]
      BY <1>5 DEF Reverse
    <3>2. Reverse(<<v>>) = [i \in 1 .. 1 |-> v]
      BY <3>1
    <3>3. [i \in 1 .. 1 |-> v] \in Seq(Str) /\ Len([i \in 1 .. 1 |-> v]) = 1
      OBVIOUS
    <3> QED BY <3>2, <3>3
  <2>2. Len(c) \in Nat
    OBVIOUS
  <2>3. Len(Reverse(<<v>>) \o c) = Len(Reverse(<<v>>)) + Len(c)
    BY <2>1, ConcatProperties
  <2>4. Len(c \o <<v>>) = Len(c) + Len(<<v>>)
    BY <1>5, ConcatProperties
  <2>5. PushLeft(c, <<v>>) = Reverse(<<v>>) \o c /\ PushRight(c, <<v>>) = c \o <<v>>
    BY DEF PushLeft, PushRight
  <2>6. Len(PushLeft(c, <<v>>)) = 1 + Len(c) /\ Len(PushRight(c, <<v>>)) = Len(c) + 1
    BY ONLY <1>5, <2>1, <2>3, <2>4, <2>5, Zenon
  <2> QED BY <2>2, <2>6
<1>8. Give(c, to, v) \in Seq(Str) /\ (to \in Ends => Len(Give(c, to, v)) = Len(c) + 1)
  BY <1>6, <1>7 DEF Give, Ends
<1>9. to \in Ends => Give(c, to, v) # << >>
  BY <1>8
<1> QED BY <1>1, <1>3, <1>4, <1>8, <1>9 DEF Take, PopLeft, PopRight, Ends

\* What a list loses at one end and another, or the same, gets at one.  A list
\* that has expired meanwhile is not seen any more and has lost nothing.
LEMMA MoveConserves ==
    ASSUME IInv, Private(db), NEW src \in Key, NEW dst \in Key, TypeAt(db, src) = "list",
           NEW c \in Seq(Str), Len(c) = Len(List(src)) - 1, NEW till \in now .. MaxTime,
           NEW s, s = LookupAt(Shrink(db, src, "list", c), dst, till), TypeAt(s, dst) \in {"none", "list"},
           NEW d \in Seq(Str), Len(d) = Len(ContentsOr(s, dst, "list")) + 1
    PROVE  \E saved \in {0, 1} :
              /\ TotalLength(Aged(Upsert(s, dst, "list", d), till)) = TotalLength(Aged(db, till)) + saved
              /\ saved = 1 <=> src \in OvertakenBy({src, dst}, till)
<1> DEFINE u == Upsert(s, dst, "list", d)
           v == Aged(s, till)
           w == Aged(u, till)
           a == Aged(db, till)
           e == ContentsOr(s, dst, "list")
           old == Contract!Visible(Entry(db, src), till)
           new == Contract!Visible([type |-> "list", val |-> c, exp |-> Entry(db, src).exp], till)
<1>1. "list" \in Containers /\ IsContents("list", c)
  BY StringIsNoContainer, ListFits
<1>2. AfterTake(src, "list", c, dst, till, s)
  BY <1>1, TakeMoves
<1>4. /\ Good(s)
      /\ \A k \in Key \ {src} : Contract!Visible(Entry(s, k), till) = Contract!Visible(Entry(db, k), till)
      /\ Contract!Visible(Entry(s, src), till) = IF IsEmpty("list", c) THEN Absent ELSE new
      /\ Contract!Visible(Entry(s, dst), till) = Entry(s, dst)
      /\ Entry(db, src) = [type |-> "list", val |-> List(src), exp |-> Entry(db, src).exp]
  BY <1>2, ListHeld DEF AfterTake
<1>6. e \in Seq(Str) /\ Len(e) \in Nat
  <2>1. e \in Seq(Str)
    BY <1>4, ListType
  <2> QED BY <2>1
<1>3. Fits("list", d)
  <2>1. d # << >>
    BY <1>6
  <2> QED BY <2>1, ListFits
<1>5. /\ \A k \in Key \ {dst} : Entry(u, k) = Entry(s, k)
      /\ Entry(u, dst).type = "list" /\ Entry(u, dst).val = d
      /\ Contract!Visible(Entry(u, dst), till) = Entry(u, dst)
  BY <1>1, <1>3, GiveEntry
<1>7. /\ TypeAt(s, dst) = Entry(s, dst).type
      /\ Entry(s, dst).type = "list" => Entry(s, dst).val = e
      /\ Entry(s, dst).type # "list" => e = << >>
  BY <1>1, <1>4, ContentsOrEntry DEF EmptyOf
<1>8. IsFiniteSet(Positions(v))
  <2>1. IsFiniteSet(Positions(ViewOf(s)))
    BY <1>4, PositionsFinite
  <2>2. \A k \in Key : v[k] = Contract!Visible(Entry(s, k), till) /\ ViewOf(s)[k] = Entry(s, k)
    BY AgedEntries, ViewEntries
  <2>3. \A k \in Key : v[k].type = "list" => v[k] = ViewOf(s)[k]
    BY <2>2 DEF Contract!Visible, Contract!None
  <2> HIDE DEF v
  <2>4. Positions(v) \subseteq Positions(ViewOf(s))
    BY <2>3 DEF Positions
  <2> QED BY <2>1, <2>4, FS_Subset
<1>9. \A k \in Key : /\ v[k] = Contract!Visible(Entry(s, k), till)
                     /\ w[k] = Contract!Visible(Entry(u, k), till)
                     /\ a[k] = Contract!Visible(Entry(db, k), till)
  BY AgedEntries
<1>10. List(src) \in Seq(Str) /\ Len(List(src)) \in Nat
  BY ListHeld
<1>13. /\ src \in OvertakenBy({src, dst}, till) => old = Absent /\ new = Absent
       /\ src \notin OvertakenBy({src, dst}, till) =>
             old = Entry(db, src) /\ new = [type |-> "list", val |-> c, exp |-> Entry(db, src).exp]
  <2>1. Live(db, src) /\ Entry(db, src).exp = db.data[src].exp
    BY <1>1, <1>4, TypeAtCases, EntryCases, StringIsNoContainer DEF IInv
  <2>2. src \in OvertakenBy({src, dst}, till) <=> Entry(db, src).exp # Never /\ Entry(db, src).exp < till
    BY <2>1 DEF OvertakenBy, ExpiredAt
  <2> QED BY <1>4, <2>2 DEF Contract!Visible, Contract!None, Absent
<1>14. a[src] = old /\ \A j \in Key \ {src} : a[j] = v[j]
  BY <1>4, <1>9
<1>15. v[src] = IF IsEmpty("list", c) THEN Absent ELSE new
  BY <1>4, <1>9
<1> HIDE DEF u, v, w, a, e, old, new
<1>11. TotalLength(v) \in Nat
         /\ TotalLength(a) = TotalLength(v) + (IF src \in OvertakenBy({src, dst}, till) THEN 0 ELSE 1)
  <2>1. CASE src \in OvertakenBy({src, dst}, till)
    <3>1. \A j \in Key : a[j] = v[j]
      BY <1>13, <1>14, <1>15, <2>1
    <3>2. Positions(a) = Positions(v)
      BY <3>1 DEF Positions
    <3> QED BY <1>8, <2>1, <3>2, FS_CardinalityType DEF TotalLength
  <2>2. CASE src \notin OvertakenBy({src, dst}, till)
    <3>1. Len(c) \in Nat /\ DOMAIN c = 1 .. Len(c) /\ Len(List(src)) = Len(c) + 1
      BY <1>10
    <3>2. a[src].type = "list" /\ DOMAIN a[src].val = 1 .. Len(c) + 1
      BY <1>4, <1>10, <1>13, <1>14, <2>2, <3>1
    <3>3. \/ v[src].type = "list" /\ DOMAIN v[src].val = 1 .. Len(c)
          \/ v[src].type # "list" /\ Len(c) = 0
      <4>1. CASE IsEmpty("list", c)
        <5>1. DOMAIN c = {}
          BY <4>1 DEF IsEmpty
        <5>2. Len(c) = 0
          BY <3>1, <5>1
        <5> QED BY <1>15, <4>1, <5>2 DEF Absent
      <4>2. CASE ~IsEmpty("list", c)
        BY <1>13, <1>15, <2>2, <3>1, <4>2
      <4> QED BY <4>1, <4>2
    <3> QED BY <1>8, <1>14, <2>2, <3>1, <3>2, <3>3, OneMore
  <2> QED BY <2>1, <2>2
<1>12. TotalLength(w) = TotalLength(v) + 1
  <2>1. DOMAIN d = 1 .. Len(e) + 1 /\ DOMAIN e = 1 .. Len(e)
    BY <1>6 DEF e
  <2>2. w[dst].type = "list" /\ DOMAIN w[dst].val = 1 .. Len(e) + 1
    BY <1>5, <1>9, <2>1
  <2>3. \/ v[dst].type = "list" /\ DOMAIN v[dst].val = 1 .. Len(e)
        \/ v[dst].type # "list" /\ Len(e) = 0
    BY <1>4, <1>7, <1>9, <2>1
  <2>4. \A j \in Key \ {dst} : w[j] = v[j]
    BY <1>5, <1>9
  <2> QED BY <1>6, <1>8, <2>2, <2>3, <2>4, OneMore
<1> QED
  <2>1. CASE src \in OvertakenBy({src, dst}, till)
    <3>1. TotalLength(w) = TotalLength(a) + 1
      BY <1>11, <1>12, <2>1
    <3> QED BY <2>1, <3>1 DEF w, u, a
  <2>2. CASE src \notin OvertakenBy({src, dst}, till)
    <3>1. TotalLength(w) = TotalLength(a) + 0
      BY <1>11, <1>12, <2>2
    <3> QED BY <2>2, <3>1 DEF w, u, a
  <2> QED BY <2>1, <2>2

LEMMA MoveHonoured ==
    ASSUME IInv, Private(db), NEW cmd \in PairMovers, NEW src \in Key, NEW dst \in Key, NEW from, NEW to,
           NEW till \in now .. MaxTime, Move(cmd, src, dst, from, to, till)
    PROVE  Honoured
<1> DEFINE c == Take(List(src), from)
           s == LookupAt(Shrink(db, src, "list", c), dst, till)
           v == Taken(List(src), from)
           e == ContentsOr(s, dst, "list")
           d == Give(e, to, v)
           u == Upsert(s, dst, "list", d)
           reply == IF to \in Ends THEN Bulk(v) ELSE Error
<1>1. /\ "list" \in Containers /\ {src, dst} \in SUBSET Key
      /\ cmd \in Contract!Movers /\ cmd \notin {"PERSIST", "MSETNX"}
  BY StringIsNoContainer DEF PairMovers, Contract!Movers
<1>2. CASE WrongType(cmd, {src, dst}, src, "list") \/ Missing(cmd, {src, dst}, src, Nil)
             \/ Untouched(cmd, {src, dst}, src, "list", Error)
             \/ Untouched(cmd, {src, dst}, src, "list", Nil)
  BY <1>1, <1>2, OutcomesHonoured
<1>3. Error.kind = "error" /\ ~Contract!Idle(Error)
  BY DEF Error, Contract!Idle
<1>4. ASSUME List(src) # << >>, from \in Ends
      PROVE  c \in Seq(Str) /\ Len(c) = Len(List(src)) - 1 /\ v \in Str /\ IsContents("list", c)
  <2>1. 0 \in Str
    BY IntValType, HalfAssumption DEF IntVal
  <2> QED BY <1>4, <2>1, ListHeld, ListFits, OneElement
<1>7. ASSUME TypeAt(db, src) = "list", List(src) # << >>, from \in Ends
      PROVE  /\ Good(s) /\ (Apart(db) => Apart(s))
             /\ \A k \in Key \ {src, dst} : Entry(s, k) = Entry(db, k)
             /\ \A k \in Key : Contract!Moved(Contract!Visible(Entry(db, k), till),
                                              Contract!Visible(Entry(s, k), till))
  <2>1. IsContents("list", c) /\ s = LookupAt(Shrink(db, src, "list", c), dst, till)
    BY <1>4, <1>7
  <2> HIDE DEF c, s
  <2>2. AfterTake(src, "list", c, dst, till, s)
    BY <1>1, <1>7, <2>1, TakeMoves
  <2> QED BY <2>2 DEF AfterTake
<1>5. CASE /\ TypeAt(db, src) = "list" /\ List(src) # << >> /\ from \in Ends
           /\ ExecUntil(till, cmd, {src, dst}, s, Error)
  <2>2. ExecUntil(till, cmd, {src, dst}, s, Error)
    BY <1>5
  <2> HIDE DEF s
  <2>3. Contract!Allowed(cmd, {src, dst}, Error, Aged(db, till), Aged(s, till))
    BY <1>1, <1>3, <1>5, <1>7, MovedAllowed
  <2>4. FulfilsUntil(till, cmd, {src, dst}, s, Error)
    BY <1>3, <1>5, <1>7, <2>3 DEF FulfilsUntil
  <2> QED BY <1>5, <1>7, <2>2, <2>4, ExecUntilHonoured
<1>6. CASE /\ TypeAt(db, src) = "list" /\ List(src) # << >> /\ from \in Ends
           /\ TypeAt(s, dst) \in {"none", "list"}
           /\ ExecUntil(till, cmd, {src, dst}, u, reply)
  <2>2. e \in Seq(Str)
    BY <1>6, <1>7, ListType
  <2> HIDE DEF c, v, e
  <2>3. d \in Seq(Str) /\ (to \in Ends => Len(d) = Len(e) + 1)
    BY <1>4, <1>6, <2>2, OneElement
  <2>4. Fits("list", d)
    BY <2>3, ListFits
  <2>5. /\ Good(u) /\ (Apart(db) => Apart(u))
        /\ \A k \in Key \ {dst} : Entry(u, k) = Entry(s, k)
        /\ \A k \in Key : Contract!Moved(Contract!Visible(Entry(db, k), till),
                                         Contract!Visible(Entry(u, k), till))
    <3>1. s = LookupAt(Shrink(db, src, "list", c), dst, till) /\ u = Upsert(s, dst, "list", d)
      OBVIOUS
    <3>2. /\ TypeAt(db, src) = "list" /\ TypeAt(s, dst) \in {"none", "list"}
          /\ IsContents("list", c)
      BY <1>4, <1>6
    <3> HIDE DEF s, d, u
    <3> QED BY <1>1, <2>4, <3>1, <3>2, GiveEntry
  <2>7. ExecUntil(till, cmd, {src, dst}, u, reply)
    BY <1>6
  <2>8. to \in Ends => \E saved \in {0, 1} :
              /\ TotalLength(Aged(u, till)) = TotalLength(Aged(db, till)) + saved
              /\ saved = 1 <=> src \in OvertakenBy({src, dst}, till)
    BY <1>4, <1>6, <2>3, MoveConserves DEF e
  <2>9. /\ ~Contract!Idle(reply)
        /\ to \notin Ends => reply.kind = "error"
    BY Replies
  <2> HIDE DEF u, s, d, reply
  <2>10. \A j \in Key \ {src, dst} : Entry(u, j) = Entry(db, j)
    BY <1>6, <1>7, <2>5
  <2>11. Contract!Allowed(cmd, {src, dst}, reply, Aged(db, till), Aged(u, till))
    BY <1>1, <2>5, <2>9, <2>10, MovedAllowed
  <2>13. OvertakenBy({src, dst}, till) \in {{}, {src, dst}}
           => (src \in OvertakenBy({src, dst}, till) <=> OvertakenBy({src, dst}, till) # {})
    OBVIOUS
  <2>12. FulfilsUntil(till, cmd, {src, dst}, u, reply)
    BY <2>5, <2>8, <2>9, <2>11, <2>13 DEF FulfilsUntil
  <2> QED BY <2>5, <2>7, <2>12, ExecUntilHonoured
<1> QED BY <1>2, <1>5, <1>6 DEF Move, Popped

LEMMA SetNextHonoured ==
    ASSUME IInv, Private(db), SetNext
    PROVE  Honoured
<1>1. ASSUME NEW k \in Key, SetRead(k) \/ SRandMember(k) PROVE Honoured
  <2>1. {k} \in SUBSET Key
    OBVIOUS
  <2>2. CASE SetRead(k)
    BY <2>1, <2>2, ReadOnlyHonoured DEF SetRead
  <2>3. CASE SRandMember(k)
    BY <2>1, <2>3, OutcomesHonoured DEF SRandMember
  <2> QED BY <1>1, <2>2, <2>3
<1> QED BY <1>1, SetAlgebraHonoured, SPopHonoured, SAddHonoured, SRemHonoured, SetStoreHonoured,
           SMoveHonoured DEF SetNext

LEMMA ListNextHonoured ==
    ASSUME IInv, Private(db), ListNext
    PROVE  Honoured
<1>1. Args \subseteq Str /\ Deltas \subseteq Int
  BY ArgumentAssumption, IntValType
<1>2. ASSUME NEW k \in Key, ListRead(k) PROVE Honoured
  <2>1. {k} \in SUBSET Key
    OBVIOUS
  <2> QED BY <1>2, <2>1, ReadOnlyHonoured DEF ListRead
<1>3. ASSUME NEW n \in 1 .. 2, NEW vs \in [1 .. n -> Args]
      PROVE  vs \in Seq(Str) /\ Len(vs) # 0
  <2>1. vs \in [1 .. n -> Str] /\ n \in Nat /\ n # 0
    BY <1>1
  <2> QED BY <2>1
<1>4. ASSUME NEW k \in Key, NEW vs \in Seq(Str), Len(vs) # 0
      PROVE  /\ PushLeft(List(k), vs) \in Seq(Str) /\ Len(PushLeft(List(k), vs)) # 0
             /\ PushRight(List(k), vs) \in Seq(Str) /\ Len(PushRight(List(k), vs)) # 0
  <2>1. Reverse(vs) = [i \in 1 .. Len(vs) |-> vs[(Len(vs) - i) + 1]]
    BY DEF Reverse
  <2>2. [i \in 1 .. Len(vs) |-> vs[(Len(vs) - i) + 1]] \in Seq(Str)
          /\ Len([i \in 1 .. Len(vs) |-> vs[(Len(vs) - i) + 1]]) = Len(vs)
    OBVIOUS
  <2>3. List(k) \in Seq(Str) /\ Len(List(k)) \in Nat /\ Len(vs) \in Nat
    BY ListHeld
  <2>4. Len(Reverse(vs) \o List(k)) = Len(Reverse(vs)) + Len(List(k))
          /\ Len(List(k) \o vs) = Len(List(k)) + Len(vs)
    BY <2>1, <2>2, <2>3, ConcatProperties
  <2>5. PushLeft(List(k), vs) = Reverse(vs) \o List(k) /\ PushRight(List(k), vs) = List(k) \o vs
    BY DEF PushLeft, PushRight
  <2>6. Len(Reverse(vs)) = Len(vs)
    BY <2>1, <2>2
  <2>7. PushLeft(List(k), vs) \in Seq(Str) /\ PushRight(List(k), vs) \in Seq(Str)
    BY <2>3, PushType
  <2>8. Len(PushLeft(List(k), vs)) # 0 /\ Len(PushRight(List(k), vs)) # 0
    <3> DEFINE l == Len(PushLeft(List(k), vs))
               r == Len(PushRight(List(k), vs))
    <3>1. l = Len(vs) + Len(List(k)) /\ r = Len(List(k)) + Len(vs)
      BY <2>4, <2>5, <2>6
    <3> HIDE DEF l, r
    <3>2. l # 0 /\ r # 0
      BY <1>4, <2>3, <3>1
    <3> QED BY <3>2 DEF l, r
  <2> QED BY <2>7, <2>8
<1>5. ASSUME NEW k \in Key, NEW n \in 1 .. 2, NEW vs \in [1 .. n -> Args],
             \/ Push("LPUSH", k, PushLeft(List(k), vs))
             \/ Push("RPUSH", k, PushRight(List(k), vs))
             \/ PushX("LPUSHX", k, PushLeft(List(k), vs))
             \/ PushX("RPUSHX", k, PushRight(List(k), vs))
      PROVE  Honoured
  BY <1>3, <1>4, <1>5, PushHonoured, PushXHonoured
<1>6. ASSUME NEW k \in Key, NEW n \in Deltas \cup {1},
             \/ Pop("LPOP", k, n, PopLeft(List(k), n), List(k)[1])
             \/ Pop("RPOP", k, n, PopRight(List(k), n), List(k)[Len(List(k))])
      PROVE  Honoured
  <2>1. n \in Int /\ List(k) \in Seq(Str)
    BY <1>1, ListHeld
  <2>2. ASSUME n >= 0 PROVE PopLeft(List(k), n) \in Seq(Str) /\ PopRight(List(k), n) \in Seq(Str)
    <3>1. n \in Nat
      BY <2>1, <2>2
    <3> QED BY <2>1, <3>1, PopType
  <2>3. CASE Pop("LPOP", k, n, PopLeft(List(k), n), List(k)[1])
    BY <2>1, <2>2, <2>3, PopHonoured
  <2>4. CASE Pop("RPOP", k, n, PopRight(List(k), n), List(k)[Len(List(k))])
    BY <2>1, <2>2, <2>4, PopHonoured
  <2> QED BY <1>6, <2>3, <2>4
<1>7. ASSUME NEW k \in Key, NEW i \in Deltas, NEW j \in Deltas, LTrim(k, i, j) PROVE Honoured
  BY <1>1, <1>7, LTrimHonoured
<1>8. ASSUME NEW k \in Key, NEW i \in Deltas, NEW v \in Args, LSet(k, i, v) \/ LRem(k, i, v) PROVE Honoured
  BY <1>1, <1>8, LSetHonoured, LRemHonoured
<1>9. ASSUME NEW k \in Key, NEW offset \in {0, 1}, NEW pivot \in Args, NEW v \in Args,
             LInsert(k, offset, pivot, v)
      PROVE  Honoured
  BY <1>1, <1>9, LInsertHonoured
<1>10. ASSUME NEW src \in Key, NEW dst \in Key, NEW from, NEW to, NEW t \in now .. MaxTime,
              Move("RPOPLPUSH", src, dst, from, to, t) \/ Move("LMOVE", src, dst, from, to, t)
       PROVE  Honoured
  BY <1>10, MoveHonoured DEF PairMovers
<1> QED BY <1>2, <1>5, <1>6, <1>7, <1>8, <1>9, <1>10 DEF ListNext

-----------------------------------------------------------------------------
(* Every step *)

LEMMA NextHonoured ==
    ASSUME IInv, Private(db), [Next]_vars
    PROVE  Honoured
<1>1. ASSUME BadArguments PROVE Honoured
  <2>1. Good(db) /\ ViewOf(db) = View
    BY ViewEntries DEF IInv
  <2>2. PICK cmd \in Commands : Exec(cmd, {}, db, Error)
    BY <1>1 DEF BadArguments, Reject
  <2>3. Fulfils(cmd, {}, db, Error)
    BY <2>1, QuietFulfils
  <2> QED BY <2>1, <2>2, <2>3, ExecHonoured
<1>2. CASE UNCHANGED vars
  <2>1. db' = db /\ now' = now /\ last' = last
    BY <1>2 DEF vars
  <2>2. View' = View
    BY <2>1 DEF View, Entry, Live, LiveAt, Stored, ExpiredAt, Contents
  <2>3. Apart(db) => Apart(db)'
    BY <2>1 DEF Apart, Private
  <2>4. Conserved
    <3>1. now \in Int /\ Good(db)
      BY DEF IInv
    <3>2. Contract!Left(View, now) = View
      BY <3>1, AgedNow, ViewEntries DEF Aged
    <3>3. TotalLength(View) \in Nat
      BY <3>1, ViewEntries, PositionsFinite, FS_CardinalityType DEF TotalLength
    <3>4. Overtaken = {}
      BY <2>1 DEF Overtaken, Live, LiveAt
    <3>5. TotalLength(View') = TotalLength(Contract!Left(View, now')) + 0
      BY <2>1, <2>2, <3>2, <3>3
    <3> QED BY <3>4, <3>5 DEF Conserved
  <2> QED BY <2>1, <2>2, <2>3, <2>4 DEF Honoured, Contract!cvars
<1> QED BY <1>1, <1>2, KeyNextHonoured, StringNextHonoured, ListNextHonoured, HashNextHonoured,
           SetNextHonoured, ZNextHonoured DEF Next

LEMMA InitHonoured ==
    ASSUME KeyspaceInit
    PROVE  Contract!Init /\ Apart(db)
<1>1. \A k \in Key : db.data[k] = Absent
  BY DEF KeyspaceInit
<1>2. \A k \in Key : Entry(db, k) = Absent
  BY <1>1, DeadEntry
<1>3. Absent.type \notin Containers
  BY StringIsNoContainer DEF Absent
<1>4. Absent.type \notin Sharable
  BY DEF Absent, Sharable
<1> QED BY <1>1, <1>2, <1>3, <1>4, Classes DEF KeyspaceInit, Contract!Init, Apart, Private, View

-----------------------------------------------------------------------------
(* The handlers implement the contract of KeyspaceContract: as long as no   *)
(* list and no sorted set is stored under two keys, whatever the commands   *)
(* that run.  A command changes only the keys it names, in the way of its   *)
(* class, a failed one changes nothing but for those that the contract      *)
(* names, and no expired key is seen again but through PERSIST.             *)
THEOREM PrivateImplementsContract == Spec /\ []Private(db) => ImplementsContract
<1>1. KeyspaceInit => Contract!Init
  BY InitHonoured
<1>2. IInv /\ Private(db) /\ [Next]_vars => [Contract!Command \/ Contract!TimePasses]_(Contract!cvars)
  BY NextHonoured DEF Honoured
<1> QED BY <1>1, <1>2, Inductive, PTL DEF Spec, ImplementsContract, Contract!Spec

(* Without COPY, or with COPY but none of the commands that make a list or  *)
(* a sorted set, no two keys ever share a container: RENAME moves a         *)
(* reference, SMOVE, SUNIONSTORE, RPOPLPUSH and LMOVE make new containers.  *)
THEOREM NothingShared == ASSUME Unshared PROVE Spec => []Private(db)
<1>1. KeyspaceInit => IInv /\ Apart(db)
  BY InitInv, InitHonoured
<1>2. IInv /\ Apart(db) /\ [Next]_vars => (IInv /\ Apart(db))'
  <2> SUFFICES ASSUME IInv, Apart(db), [Next]_vars PROVE IInv' /\ Apart(db)'
    OBVIOUS
  <2>1. Private(db)
    BY DEF Apart
  <2> QED BY <2>1, NextInv, NextHonoured DEF Honoured
<1>3. IInv /\ Apart(db) => Private(db)
  BY DEF Apart
<1> QED BY <1>1, <1>2, <1>3, PTL DEF Spec

(* The handlers of a workload that shares nothing implement the contract.   *)
THEOREM ContractImplemented == ASSUME Unshared PROVE Spec => ImplementsContract
<1>1. Spec => []Private(db)
  BY NothingShared
<1> QED BY <1>1, PrivateImplementsContract, PTL

(* RPOPLPUSH and LMOVE neither lose nor duplicate an element when they      *)
(* succeed, be it between two lists, around one, or out of the last one,    *)
(* and however much time passes between their two lookups: of a list that   *)
(* expires in between, the element they took is saved and nothing else.     *)
THEOREM MovesAreConservative == ASSUME Unshared PROVE Spec => MovesConserve
<1>1. Spec => []Private(db)
  BY NothingShared
<1>2. IInv /\ Private(db) /\ [Next]_vars => [Succeeded("RPOPLPUSH") \/ Succeeded("LMOVE") => Conserved]_vars
  BY NextHonoured DEF Honoured
<1>3. Spec => [][Succeeded("RPOPLPUSH") \/ Succeeded("LMOVE") => Conserved]_vars
  BY <1>1, <1>2, Inductive, PTL DEF Spec
<1> QED BY <1>3 DEF MovesConserve, Conserved

=============================================================================
