------------------------- MODULE VirtualMount_proofs -------------------------
(***************************************************************************)
(* Proofs about VirtualMount, for any number of readers, paths and pulses, *)
(* any size of a pulse and any cap: WholeUnlessShared, StaleOnlyWhileMoved *)
(* and CacheBounded are consequences of MountInv, which is inductive.      *)
(*                                                                         *)
(* The argument: the handles in use are those that the cache or a reader   *)
(* refers to (Referred), so a new one is shared with nobody, and nobody    *)
(* but its readers moves the position of a handle (Sent); the order of the *)
(* cache has every cached path once (InOrder), so that making room for one *)
(* keeps the cap; and a path that was not registered again is loaded for   *)
(* what is registered (UpToDate).                                          *)
(***************************************************************************)
EXTENDS VirtualMount, FiniteSetTheorems, SequenceTheorems, TLAPS

Once(s) == \A i, j \in 1..Len(s) : s[i] = s[j] => i = j

Phases == {"away", "loading", "responding", "streaming", "served"}
HandleRecords == [pulse : Pulses, pos : 0..Chunks, idle : BOOLEAN]
ReaderRecords ==
  [phase : Phases, path : Paths \cup {Nothing}, pulse : Pulses \cup {Nothing},
   handle : Handles \cup {NoHandle}, got : Seq(Nat)]

MountTypes ==
  /\ live \in BOOLEAN /\ files \in [Paths -> Pulses \cup {Nothing}]
  /\ cache \in [Paths -> Handles \cup {NoHandle}] /\ recent \in Seq(Paths)
  /\ heap \in [DOMAIN heap -> HandleRecords] /\ DOMAIN heap \subseteq Handles
  /\ reader \in [Readers -> ReaderRecords]
  /\ met \subseteq Readers /\ moved \subseteq Paths

\* The handles that something refers to.
Cached   == {p \in Paths : cache[p] # NoHandle}
Refs == {cache[p] : p \in Paths} \cup {reader[r].handle : r \in Readers}

HasHandle(r) == reader[r].phase \in {"responding", "streaming", "served"}
IsLoading(r) == reader[r].phase = "loading"

Referred ==
  /\ DOMAIN heap = Refs \ {NoHandle}
  /\ \A r \in Readers :
       /\ IsLoading(r) => reader[r].path \in Paths /\ reader[r].pulse \in Pulses
       /\ HasHandle(r) => reader[r].path \in Paths
       /\ HasHandle(r) <=> reader[r].handle # NoHandle

\* The order of the cache.
InOrder ==
  Once(recent) /\ Len(recent) <= MaxHandles /\ ToSet(recent) = Cached

\* What is cached, or will be, is the registered pulse, but for moved paths.
UpToDate ==
  /\ StaleOnlyWhileMoved
  /\ \A r \in Readers : IsLoading(r) /\ reader[r].path \notin moved
                          => reader[r].pulse = files[reader[r].path]
  /\ \A p \in Paths : files[p] = Nothing =>
       /\ cache[p] = NoHandle
       /\ \A r \in Readers : IsLoading(r) => reader[r].path # p
  /\ ~live => Cached = {}

UpTo(n) == [i \in 1..n |-> i - 1]

\* What a response that met nobody has sent is what its handle is beyond.
Sent ==
  \A r \in Readers :
    /\ reader[r].phase = "responding" => reader[r].got = <<>>
    /\ reader[r].phase = "streaming" /\ r \notin met =>
         reader[r].got = UpTo(heap[reader[r].handle].pos)
    /\ reader[r].phase = "served" /\ r \notin met =>
         reader[r].got = UpTo(Chunks)

MountInv == MountTypes /\ Referred /\ InOrder /\ UpToDate /\ Sent

-----------------------------------------------------------------------------
(* The order of the cache: sequences without repetition.                   *)

LEMMA ToSetOf ==
  ASSUME NEW S, NEW s \in Seq(S)
  PROVE  /\ DOMAIN s = 1..Len(s) /\ Len(s) \in Nat
         /\ ToSet(s) = {s[i] : i \in 1..Len(s)} /\ ToSet(s) \subseteq S
BY LenProperties, ElementOfSeq DEF ToSet

\* The path comes last.
LEMMA Appended ==
  ASSUME NEW S, NEW s \in Seq(S), NEW x \in S, Once(s), x \notin ToSet(s)
  PROVE  /\ Append(s, x) \in Seq(S) /\ Len(Append(s, x)) = Len(s) + 1
         /\ ToSet(Append(s, x)) = ToSet(s) \cup {x} /\ Once(Append(s, x))
<1> DEFINE t == Append(s, x)
<1>1. /\ t \in Seq(S) /\ Len(t) = Len(s) + 1 /\ t[Len(s) + 1] = x
      /\ \A i \in 1..Len(s) : t[i] = s[i]
  BY AppendProperties
<1>2. /\ Len(s) \in Nat /\ ToSet(s) = {s[i] : i \in 1..Len(s)}
      /\ ToSet(t) = {t[i] : i \in 1..Len(t)}
  BY <1>1, ToSetOf
<1> HIDE DEF t
<1>3. \A i \in 1..Len(t) : i \in 1..Len(s) \/ i = Len(s) + 1
  BY <1>1, <1>2
<1>4. ToSet(t) = ToSet(s) \cup {x}
  <2>1. ToSet(t) \subseteq ToSet(s) \cup {x}
    BY <1>1, <1>2, <1>3
  <2>2. ToSet(s) \subseteq ToSet(t) /\ x \in ToSet(t)
    BY <1>1, <1>2
  <2> QED
    BY <2>1, <2>2
<1>5. Once(t)
  BY <1>1, <1>2, <1>3 DEF Once
<1> QED
  BY <1>1, <1>4, <1>5 DEF t

\* The path read longest ago leaves.
LEMMA FirstLeaves ==
  ASSUME NEW S, NEW s \in Seq(S), s # <<>>, Once(s)
  PROVE  /\ Head(s) \in S /\ Tail(s) \in Seq(S) /\ Len(Tail(s)) = Len(s) - 1
         /\ Once(Tail(s)) /\ ToSet(Tail(s)) = ToSet(s) \ {Head(s)}
<1> DEFINE n == Len(s)
           t == Tail(s)
<1>1. n \in Nat \ {0}
  BY LenProperties, EmptySeq
<1>2. /\ t \in Seq(S) /\ Len(t) = n - 1
      /\ \A i \in 1..(n - 1) : t[i] = s[i + 1]
      /\ Head(s) = s[1] /\ Head(s) \in S
  BY <1>1, HeadTailProperties
<1>3. /\ ToSet(s) = {s[i] : i \in 1..n}
      /\ ToSet(t) = {t[i] : i \in 1..(n - 1)}
  BY <1>2, ToSetOf
<1> HIDE DEF n, t
<1>4. \A i \in 1..n : i = 1 \/ (i - 1 \in 1..(n - 1) /\ (i - 1) + 1 = i)
  BY <1>1
<1>5. ToSet(s) = ToSet(t) \cup {s[1]}
  <2>1. ASSUME NEW x \in ToSet(s) PROVE x \in ToSet(t) \cup {s[1]}
    <3>1. PICK i \in 1..n : x = s[i]
      BY <1>3
    <3>2. CASE i # 1
      <4>1. i - 1 \in 1..(n - 1) /\ t[i - 1] = s[i]
        BY <1>2, <1>4, <3>2
      <4> QED
        BY <1>3, <3>1, <4>1
    <3> QED
      BY <3>1, <3>2
  <2>2. ToSet(t) \subseteq ToSet(s) /\ s[1] \in ToSet(s)
    BY <1>1, <1>2, <1>3
  <2> QED
    BY <2>1, <2>2
<1>6. Once(t) /\ s[1] \notin ToSet(t)
  BY <1>1, <1>2, <1>3 DEF Once, n
<1> QED
  BY <1>2, <1>5, <1>6 DEF n, t

\* A path leaves its place; the others keep theirs.
LEMMA Leaves ==
  ASSUME NEW S, NEW s \in Seq(S), NEW x, Once(s)
  PROVE  /\ Without(s, x) \in Seq(S) /\ Once(Without(s, x))
         /\ ToSet(Without(s, x)) = ToSet(s) \ {x}
         /\ Len(Without(s, x)) = IF x \in ToSet(s) THEN Len(s) - 1 ELSE Len(s)
<1>1. CASE x \notin ToSet(s)
  BY <1>1 DEF Without
<1>2. CASE x \in ToSet(s)
  <2> DEFINE i == CHOOSE j \in 1..Len(s) : s[j] = x
             a == SubSeq(s, 1, i - 1)
             b == SubSeq(s, i + 1, Len(s))
             p == Without(s, x)
  <2>1. i \in 1..Len(s) /\ s[i] = x
    BY <1>2, ToSetOf
  <2>2. p = a \o b
    BY <1>2 DEF Without
  <2> HIDE DEF i
  <2>3. Len(s) \in Nat /\ \A k \in 1..Len(s) : s[k] \in S
    BY LenProperties, ElementOfSeq
  <2>4. /\ a \in Seq(S) /\ Len(a) = i - 1
        /\ \A k \in 1..(i - 1) : a[k] = s[k]
    <3>1. \A k \in 1..(i - 1) : s[k] \in S
      BY <2>1, <2>3
    <3>2. /\ a \in Seq(S)
          /\ Len(a) = IF 1 <= i - 1 THEN i - 1 - 1 + 1 ELSE 0
          /\ \A k \in 1..(i - 1 - 1 + 1) : a[k] = s[1 + k - 1]
      BY <2>1, <2>3, <3>1, SubSeqProperties
    <3> QED
      BY <2>1, <2>3, <3>2
  <2>5. /\ b \in Seq(S) /\ Len(b) = Len(s) - i
        /\ \A k \in 1..(Len(s) - i) : b[k] = s[i + k]
    <3>1. \A k \in (i + 1)..Len(s) : s[k] \in S
      BY <2>1, <2>3
    <3>2. /\ b \in Seq(S)
          /\ Len(b) = IF i + 1 <= Len(s) THEN Len(s) - (i + 1) + 1 ELSE 0
          /\ \A k \in 1..(Len(s) - (i + 1) + 1) : b[k] = s[i + 1 + k - 1]
      BY <2>1, <2>3, <3>1, SubSeqProperties
    <3> QED
      BY <2>1, <2>3, <3>2
  <2> HIDE DEF a, b, p
  <2>6. /\ p \in Seq(S) /\ Len(p) = Len(s) - 1
        /\ \A k \in 1..Len(p) : p[k] = IF k < i THEN s[k] ELSE s[k + 1]
    <3>1. /\ p \in Seq(S) /\ Len(p) = Len(a) + Len(b)
          /\ \A k \in 1..(Len(a) + Len(b)) :
               p[k] = IF k <= Len(a) THEN a[k] ELSE b[k - Len(a)]
      BY <2>2, <2>4, <2>5, ConcatProperties
    <3>2. Len(p) = Len(s) - 1
      BY <2>1, <2>3, <2>4, <2>5, <3>1
    <3>3. ASSUME NEW k \in 1..Len(p)
          PROVE  p[k] = IF k < i THEN s[k] ELSE s[k + 1]
      <4>1. CASE k < i
        BY <2>1, <2>3, <2>4, <2>5, <3>1, <4>1
      <4>2. CASE ~(k < i)
        <5>1. k - Len(a) \in 1..(Len(s) - i) /\ i + (k - Len(a)) = k + 1
          BY <2>1, <2>3, <2>4, <3>2, <4>2
        <5>2. p[k] = b[k - Len(a)]
          BY <2>1, <2>3, <2>4, <2>5, <3>1, <4>2
        <5> QED
          BY <2>5, <4>2, <5>1, <5>2
      <4> QED
        BY <4>1, <4>2
    <3> QED
      BY <3>1, <3>2, <3>3
  <2>7. Once(p)
    <3> SUFFICES ASSUME NEW j \in 1..Len(p), NEW k \in 1..Len(p), p[j] = p[k]
                 PROVE  j = k
      BY DEF Once
    <3> QED
      BY <2>1, <2>3, <2>6 DEF Once
  <2>8. /\ ToSet(s) = {s[k] : k \in 1..Len(s)}
        /\ ToSet(p) = {p[k] : k \in 1..Len(p)}
    BY <2>6, ToSetOf
  <2>9. ASSUME NEW y \in ToSet(p) PROVE y \in ToSet(s) \ {x}
    <3>1. PICK k \in 1..Len(p) : y = p[k]
      BY <2>8
    <3>2. PICK j \in 1..Len(s) : y = s[j] /\ j # i
      <4>1. CASE k < i
        BY <2>1, <2>3, <2>6, <3>1, <4>1
      <4>2. CASE ~(k < i)
        <5>1. y = s[k + 1] /\ k + 1 \in 1..Len(s) /\ k + 1 # i
          BY <2>1, <2>3, <2>6, <3>1, <4>2
        <5> QED
          BY <5>1
      <4> QED
        BY <4>1, <4>2
    <3> QED
      BY <2>1, <2>8, <3>2 DEF Once
  <2>10. ASSUME NEW y \in ToSet(s) \ {x} PROVE y \in ToSet(p)
    <3>1. PICK k \in 1..Len(s) : y = s[k]
      BY <2>8
    <3>2. k # i
      BY <2>1, <3>1
    <3>3. CASE k < i
      BY <2>1, <2>3, <2>6, <2>8, <3>1, <3>3
    <3>4. CASE k > i
      <4>1. k - 1 \in 1..Len(p) /\ p[k - 1] = y
        BY <2>1, <2>3, <2>6, <3>1, <3>4
      <4> QED
        BY <2>8, <4>1
    <3> QED
      BY <2>1, <3>2, <3>3, <3>4
  <2> QED
    BY <1>2, <2>6, <2>7, <2>9, <2>10 DEF p
<1> QED
  BY <1>1, <1>2

\* What a reader has received up to position n.
LEMMA UpToNext ==
  ASSUME NEW n \in Nat
  PROVE  /\ UpTo(n) \in Seq(Nat) /\ Append(UpTo(n), n) = UpTo(n + 1)
         /\ Len(UpTo(n)) = n /\ UpTo(0) = <<>>
<1>1. \A m \in Nat : UpTo(m) \in Seq(Nat) /\ Len(UpTo(m)) = m
  <2> SUFFICES ASSUME NEW m \in Nat
               PROVE  UpTo(m) \in Seq(Nat) /\ Len(UpTo(m)) = m
    OBVIOUS
  <2>1. UpTo(m) \in [1..m -> Nat]
    BY DEF UpTo
  <2> QED
    BY <2>1, IsASeq, LenProperties, ElementOfSeq
<1>2. /\ Append(UpTo(n), n) \in Seq(Nat) /\ Len(Append(UpTo(n), n)) = n + 1
      /\ Append(UpTo(n), n)[n + 1] = n
      /\ \A i \in 1..n : Append(UpTo(n), n)[i] = UpTo(n)[i]
  <2>1. UpTo(n) \in Seq(Nat) /\ Len(UpTo(n)) = n
    BY <1>1
  <2>2. \A s \in Seq(Nat) :
          /\ Append(s, n) \in Seq(Nat) /\ Len(Append(s, n)) = Len(s) + 1
          /\ Append(s, n)[Len(s) + 1] = n
          /\ \A i \in 1..Len(s) : Append(s, n)[i] = s[i]
    BY AppendProperties
  <2> QED
    BY <2>1, <2>2
<1>3. UpTo(n + 1) \in Seq(Nat) /\ Len(UpTo(n + 1)) = n + 1
  BY <1>1
<1>4. \A i \in 1..(n + 1) : Append(UpTo(n), n)[i] = UpTo(n + 1)[i]
  <2> SUFFICES ASSUME NEW i \in 1..(n + 1)
               PROVE  Append(UpTo(n), n)[i] = UpTo(n + 1)[i]
    OBVIOUS
  <2>1. UpTo(n + 1)[i] = i - 1 /\ (i \in 1..n => UpTo(n)[i] = i - 1)
    BY DEF UpTo
  <2>2. i \in 1..n \/ i = n + 1
    OBVIOUS
  <2> QED
    BY <1>2, <2>1, <2>2
<1>5. Append(UpTo(n), n) = UpTo(n + 1)
  BY <1>2, <1>3, <1>4, SeqEqual
<1>6. UpTo(0) = <<>>
  BY <1>1, EmptySeq
<1> QED
  BY <1>1, <1>5, <1>6

-----------------------------------------------------------------------------
(* The handles.                                                            *)

\* The handles in use after a step are those that are referred to, as new has
\* them, if new has them all.
LEMMA HeapStep ==
  ASSUME NEW new, HeapBecomes(new), new \in [DOMAIN new -> HandleRecords],
         DOMAIN new \subseteq Handles, Refs' \ {NoHandle} \subseteq DOMAIN new
  PROVE  /\ heap' \in [DOMAIN heap' -> HandleRecords]
         /\ DOMAIN heap' \subseteq Handles
         /\ DOMAIN heap' = Refs' \ {NoHandle}
         /\ \A h \in DOMAIN heap' : h \in DOMAIN new /\ heap'[h] = new[h]
<1> DEFINE used == {h \in DOMAIN new : \/ \E p \in Paths : cache'[p] = h
                                       \/ \E r \in Readers : reader'[r].handle = h}
<1>1. heap' = [h \in used |-> new[h]]
  BY DEF HeapBecomes
<1>2. used = Refs' \cap DOMAIN new
  BY DEF Refs
<1>3. NoHandle \notin DOMAIN new
  BY DEF NoHandle, Handles
<1>4. used = Refs' \ {NoHandle}
  BY <1>2, <1>3
<1> HIDE DEF used
<1>5. DOMAIN heap' = used /\ \A h \in used : heap'[h] = new[h]
  BY <1>1
<1>6. \A h \in used : h \in DOMAIN new /\ new[h] \in HandleRecords
  BY <1>2
<1> QED
  BY <1>1, <1>4, <1>5, <1>6

\* The numbers from 1 to n are n.
LEMMA IntervalCount ==
  ASSUME NEW n \in Nat
  PROVE  IsFiniteSet(1..n) /\ Cardinality(1..n) = n
<1>1. 1 \in Int /\ n \in Int
  OBVIOUS
<1>2. /\ IsFiniteSet(1..n)
      /\ Cardinality(1..n) = IF 1 > n THEN 0 ELSE n - 1 + 1
  BY <1>1, FS_Interval
<1>3. (IF 1 > n THEN 0 ELSE n - 1 + 1) = n
  OBVIOUS
<1> QED
  BY <1>2, <1>3

\* A cache within its cap.
LEMMA CachedBound ==
  ASSUME MountTypes, InOrder
  PROVE  IsFiniteSet(Cached) /\ Cardinality(Cached) <= MaxHandles
<1>1. /\ Len(recent) \in Nat /\ ToSet(recent) = {recent[i] : i \in 1..Len(recent)}
      /\ Len(recent) <= MaxHandles /\ ToSet(recent) = Cached
  BY ToSetOf DEF MountTypes, InOrder
<1> DEFINE f == [i \in 1..Len(recent) |-> recent[i]]
<1>2. f \in Surjection(1..Len(recent), Cached)
  BY <1>1 DEF Surjection
<1>3. IsFiniteSet(1..Len(recent)) /\ Cardinality(1..Len(recent)) = Len(recent)
  BY <1>1, IntervalCount
<1>4. IsFiniteSet(Cached) /\ Cardinality(Cached) <= Len(recent)
  BY <1>2, <1>3, FS_Surjection
<1>5. Cardinality(Cached) \in Nat
  BY <1>4, FS_CardinalityType
<1> QED
  BY <1>1, <1>4, <1>5, MountAssumption

\* There are handles enough: one can be had that is not in use.
LEMMA FreshHandle ==
  ASSUME MountTypes, Referred, InOrder
  PROVE  (CHOOSE h \in Handles : h \notin DOMAIN heap) \in Handles \ DOMAIN heap
<1>1. IsFiniteSet(Cached) /\ Cardinality(Cached) <= MaxHandles
  BY CachedBound
<1>2. IsFiniteSet(Readers) /\ MaxHandles \in Nat
  BY MountAssumption
<1> DEFINE byCache == {cache[p] : p \in Cached}
           byReader == {reader[r].handle : r \in Readers}
           used == byCache \cup byReader
<1>3. IsFiniteSet(byCache) /\ Cardinality(byCache) <= Cardinality(Cached)
  <2> DEFINE f == [p \in Cached |-> cache[p]]
  <2>1. f \in Surjection(Cached, byCache)
    BY DEF Surjection
  <2> QED
    BY <1>1, <2>1, FS_Surjection
<1>4. IsFiniteSet(byReader) /\ Cardinality(byReader) <= Cardinality(Readers)
  <2> DEFINE f == [r \in Readers |-> reader[r].handle]
  <2>1. f \in Surjection(Readers, byReader)
    BY DEF Surjection
  <2> QED
    BY <1>2, <2>1, FS_Surjection
<1>5. DOMAIN heap \subseteq used
  BY DEF Referred, Refs, Cached
<1>6. /\ IsFiniteSet(used)
      /\ Cardinality(used) <= Cardinality(Readers) + MaxHandles
  <2> HIDE DEF byCache, byReader
  <2>1. IsFiniteSet(byCache \cap byReader)
    BY <1>3, FS_Subset
  <2>2. /\ IsFiniteSet(byCache \cup byReader)
        /\ Cardinality(byCache \cup byReader) =
             Cardinality(byCache) + Cardinality(byReader)
               - Cardinality(byCache \cap byReader)
    BY <1>3, <1>4, FS_Union
  <2>3. /\ Cardinality(byCache) \in Nat /\ Cardinality(byReader) \in Nat
        /\ Cardinality(byCache \cap byReader) \in Nat
        /\ Cardinality(Cached) \in Nat /\ Cardinality(Readers) \in Nat
    BY <1>1, <1>2, <1>3, <1>4, <2>1, FS_CardinalityType
  <2> QED
    BY <1>1, <1>2, <1>3, <1>4, <2>2, <2>3
<1> HIDE DEF used
<1>7. Cardinality(Readers) \in Nat /\ Cardinality(used) \in Nat
  BY <1>2, <1>6, FS_CardinalityType
<1>8. Cardinality(Handles) = Cardinality(Readers) + MaxHandles + 1
  <2>1. Cardinality(Readers) + MaxHandles + 1 \in Nat
    BY <1>2, <1>7
  <2> QED
    BY <2>1, IntervalCount DEF Handles
<1>9. ~(Handles \subseteq used)
  <2> SUFFICES ASSUME Handles \subseteq used PROVE FALSE
    OBVIOUS
  <2>1. Cardinality(Handles) <= Cardinality(used)
    BY <1>6, FS_Subset
  <2> QED
    BY <1>2, <1>6, <1>7, <1>8, <2>1
<1>10. \E h \in Handles : h \notin DOMAIN heap
  BY <1>5, <1>9
<1> QED
  BY <1>10

-----------------------------------------------------------------------------
(* The steps.                                                              *)

LEMMA Distinct ==
  /\ Nothing \notin Pulses /\ Nothing \notin Paths /\ NoHandle \notin Handles
  /\ Chunks \in Nat /\ MaxHandles \in Nat \ {0}
BY MountAssumption DEF NoHandle, Handles

LEMMA AwayTyped ==
  /\ Away \in ReaderRecords /\ Away.phase = "away" /\ Away.handle = NoHandle
  /\ Away.got = <<>>
<1>1. <<>> \in Seq(Nat)
  BY EmptySeq
<1> QED
  BY <1>1 DEF Away, ReaderRecords, Phases

\* One reader changes.
LEMMA ReaderStep ==
  ASSUME MountTypes, NEW r \in Readers, NEW x \in ReaderRecords,
         reader' = [reader EXCEPT ![r] = x]
  PROVE  /\ reader' \in [Readers -> ReaderRecords] /\ reader'[r] = x
         /\ \A q \in Readers \ {r} : reader'[q] = reader[q]
BY DEF MountTypes

LEMMA MountInitInv == MountInit => MountInv
<1> SUFFICES ASSUME MountInit PROVE MountInv
  OBVIOUS
<1> USE Distinct DEF MountInit
<1>1. /\ DOMAIN heap = {} /\ heap \in [DOMAIN heap -> HandleRecords]
      /\ recent \in Seq(Paths) /\ Len(recent) = 0 /\ ToSet(recent) = {}
  BY EmptySeq DEF ToSet
<1>2. MountTypes
  BY <1>1, AwayTyped DEF MountTypes
<1>3. Refs \subseteq {NoHandle} /\ Cached = {}
  BY AwayTyped DEF Refs, Cached
<1>4. Referred
  BY <1>1, <1>3, AwayTyped DEF Referred, IsLoading, HasHandle
<1>5. InOrder
  BY <1>1, <1>3 DEF InOrder, Once
<1>6. UpToDate
  BY <1>3, AwayTyped DEF UpToDate, StaleOnlyWhileMoved, IsLoading, Cached
<1>7. Sent
  BY AwayTyped DEF Sent
<1> QED
  BY <1>2, <1>4, <1>5, <1>6, <1>7 DEF MountInv

LEMMA RegisterInv ==
  ASSUME MountInv, NEW p \in Paths, NEW x \in Pulses, Register(p, x)
  PROVE  MountInv'
<1> USE Distinct
<1>1. /\ live /\ files' = [files EXCEPT ![p] = x]
      /\ moved' = IF files[p] = Nothing THEN moved ELSE moved \cup {p}
      /\ UNCHANGED <<live, cache, recent, heap, reader, met>>
      /\ MountTypes /\ Referred /\ InOrder /\ UpToDate /\ Sent
  BY DEF Register, MountInv
<1>2. MountTypes'
  BY <1>1 DEF MountTypes
<1>3. Referred' /\ InOrder' /\ Sent' /\ Cached' = Cached
  BY <1>1 DEF Referred, InOrder, Sent, Refs, Cached, IsLoading, HasHandle
<1>4. /\ files'[p] = x /\ \A q \in Paths \ {p} : files'[q] = files[q]
      /\ files[p] = Nothing \/ p \in moved'
      /\ moved \subseteq moved'
  BY <1>1 DEF MountTypes
<1>5. UpToDate'
  <2>1. StaleOnlyWhileMoved'
    BY <1>1, <1>4 DEF UpToDate, StaleOnlyWhileMoved
  <2>2. ASSUME NEW r \in Readers, IsLoading(r), reader[r].path \notin moved'
        PROVE  reader[r].pulse = files'[reader[r].path]
    BY <1>1, <1>4, <2>2 DEF UpToDate, Referred
  <2>3. \A r \in Readers : IsLoading(r)' <=> IsLoading(r)
    BY <1>1 DEF IsLoading
  <2>4. \A q \in Paths : files'[q] = Nothing =>
          /\ cache[q] = NoHandle
          /\ \A r \in Readers : IsLoading(r) => reader[r].path # q
    BY <1>1, <1>4 DEF UpToDate
  <2> QED
    BY <1>1, <1>3, <2>1, <2>2, <2>3, <2>4 DEF UpToDate
<1> QED
  BY <1>2, <1>3, <1>5 DEF MountInv

LEMMA DestroyInv == ASSUME MountInv, Destroy PROVE MountInv'
<1> USE Distinct
<1>1. /\ live' = FALSE /\ recent' = <<>> /\ HeapBecomes(heap)
      /\ cache' = [p \in Paths |-> NoHandle]
      /\ UNCHANGED <<files, reader, met, moved>>
      /\ MountTypes /\ Referred /\ InOrder /\ UpToDate /\ Sent
  BY DEF Destroy, MountInv
<1>2. Refs' \ {NoHandle} \subseteq DOMAIN heap
  BY <1>1 DEF Refs, Referred
<1>3. /\ heap' \in [DOMAIN heap' -> HandleRecords]
      /\ DOMAIN heap' \subseteq Handles
      /\ DOMAIN heap' = Refs' \ {NoHandle}
      /\ \A h \in DOMAIN heap' : h \in DOMAIN heap /\ heap'[h] = heap[h]
  BY <1>1, <1>2, HeapStep DEF MountTypes
<1>4. /\ recent' \in Seq(Paths) /\ Len(recent') = 0 /\ ToSet(recent') = {}
      /\ Cached' = {}
  BY <1>1, EmptySeq DEF ToSet, Cached
<1>5. MountTypes'
  BY <1>1, <1>3, <1>4 DEF MountTypes
<1>6. Referred'
  BY <1>1, <1>3 DEF Referred, IsLoading, HasHandle
<1>7. InOrder'
  BY <1>4 DEF InOrder, Once
<1>8. UpToDate'
  BY <1>1, <1>4 DEF UpToDate, StaleOnlyWhileMoved, IsLoading
<1>9. Sent'
  <2>1. \A r \in Readers :
          HasHandle(r) => heap'[reader[r].handle] = heap[reader[r].handle]
    BY <1>1, <1>3 DEF Referred, Refs
  <2> QED
    BY <1>1, <2>1 DEF Sent, HasHandle
<1> QED
  BY <1>5, <1>6, <1>7, <1>8, <1>9 DEF MountInv

LEMMA CreateInv == ASSUME MountInv, Create PROVE MountInv'
<1> USE Distinct
<1>1. /\ ~live /\ live' = TRUE /\ \A r \in Readers : reader[r] = Away
      /\ files' = [p \in Paths |-> Nothing] /\ moved' = {}
      /\ UNCHANGED <<cache, recent, heap, reader, met>>
      /\ MountTypes /\ Referred /\ InOrder /\ UpToDate /\ Sent
  BY DEF Create, MountInv
<1>2. MountTypes'
  BY <1>1 DEF MountTypes
<1>3. Referred' /\ InOrder' /\ Sent' /\ Cached' = {}
  BY <1>1
  DEF Referred, InOrder, Sent, Refs, Cached, IsLoading, HasHandle, UpToDate
<1>4. UpToDate'
  BY <1>1, <1>3, AwayTyped DEF UpToDate, StaleOnlyWhileMoved, IsLoading, Cached
<1> QED
  BY <1>2, <1>3, <1>4 DEF MountInv

\* Nobody reads the handle meanwhile.
LEMMA IdleInv ==
  ASSUME MountInv, NEW h \in DOMAIN heap, Idle(h) PROVE MountInv'
<1>1. /\ heap' = [heap EXCEPT ![h].idle = TRUE]
      /\ UNCHANGED <<live, files, cache, recent, reader, met, moved>>
      /\ MountTypes /\ Referred /\ InOrder /\ UpToDate /\ Sent
  BY DEF Idle, MountInv
<1>2. /\ DOMAIN heap' = DOMAIN heap /\ heap' \in [DOMAIN heap' -> HandleRecords]
      /\ \A k \in DOMAIN heap : /\ heap'[k].pos = heap[k].pos
                                /\ heap'[k].pulse = heap[k].pulse
  BY <1>1 DEF MountTypes, HandleRecords
<1>3. MountTypes'
  BY <1>1, <1>2 DEF MountTypes
<1>4. Referred' /\ InOrder' /\ Cached' = Cached
  BY <1>1, <1>2 DEF Referred, InOrder, Refs, Cached, IsLoading, HasHandle
<1>5. UpToDate'
  <2>1. \A p \in Paths : cache[p] # NoHandle => cache[p] \in DOMAIN heap
    BY <1>1 DEF Referred, Refs
  <2>2. StaleOnlyWhileMoved'
    BY <1>1, <1>2, <2>1 DEF UpToDate, StaleOnlyWhileMoved
  <2> QED
    BY <1>1, <1>4, <2>2 DEF UpToDate, IsLoading
<1>6. Sent'
  <2>1. \A r \in Readers :
          HasHandle(r) => heap'[reader[r].handle].pos = heap[reader[r].handle].pos
    BY <1>1, <1>2 DEF Referred, Refs
  <2> QED
    BY <1>1, <2>1 DEF Sent, HasHandle
<1> QED
  BY <1>3, <1>4, <1>5, <1>6 DEF MountInv

LEMMA QuitInv == ASSUME MountInv, NEW r \in Readers, Quit(r) PROVE MountInv'
<1> USE Distinct
<1>1. /\ reader' = [reader EXCEPT ![r] = Away] /\ met' = met \ {r}
      /\ UNCHANGED <<live, files, cache, recent, moved>> /\ HeapBecomes(heap)
      /\ MountTypes /\ Referred /\ InOrder /\ UpToDate /\ Sent
  BY DEF Quit, MountInv
<1>2. /\ reader' \in [Readers -> ReaderRecords] /\ reader'[r] = Away
      /\ \A q \in Readers \ {r} : reader'[q] = reader[q]
  BY <1>1, AwayTyped, ReaderStep
<1>3. Refs' \subseteq Refs \cup {NoHandle}
  BY <1>1, <1>2, AwayTyped DEF Refs
<1>4. /\ heap' \in [DOMAIN heap' -> HandleRecords]
      /\ DOMAIN heap' \subseteq Handles
      /\ DOMAIN heap' = Refs' \ {NoHandle}
      /\ \A h \in DOMAIN heap' : h \in DOMAIN heap /\ heap'[h] = heap[h]
  BY <1>1, <1>3, HeapStep DEF MountTypes, Referred
<1>5. MountTypes'
  BY <1>1, <1>2, <1>4 DEF MountTypes
<1>6. \A q \in Readers : /\ IsLoading(q)' => IsLoading(q) /\ q # r
                         /\ HasHandle(q)' <=> HasHandle(q) /\ q # r
  BY <1>2, AwayTyped DEF IsLoading, HasHandle
<1>7. Referred'
  BY <1>1, <1>2, <1>4, <1>6, AwayTyped DEF Referred
<1>8. InOrder' /\ Cached' = Cached
  BY <1>1 DEF InOrder, Cached
<1>9. UpToDate'
  <2>1. \A p \in Paths : cache[p] # NoHandle => heap'[cache[p]] = heap[cache[p]]
    BY <1>1, <1>4 DEF Refs
  <2>2. StaleOnlyWhileMoved'
    BY <1>1, <2>1 DEF UpToDate, StaleOnlyWhileMoved
  <2> QED
    BY <1>1, <1>2, <1>6, <1>8, <2>2 DEF UpToDate
<1>10. Sent'
  <2>1. \A q \in Readers \ {r} :
          HasHandle(q) => heap'[reader[q].handle] = heap[reader[q].handle]
    <3> SUFFICES ASSUME NEW q \in Readers \ {r}, HasHandle(q)
                 PROVE  heap'[reader[q].handle] = heap[reader[q].handle]
      OBVIOUS
    <3>1. reader[q].handle \in Refs' /\ reader[q].handle # NoHandle
      BY <1>1, <1>2 DEF Refs, Referred
    <3> QED
      BY <1>4, <3>1
  <2> QED
    BY <1>1, <1>2, <2>1, AwayTyped DEF Sent, HasHandle
<1> QED
  BY <1>5, <1>7, <1>8, <1>9, <1>10 DEF MountInv

\* open_file up to its first suspension or its end: a hit.
LEMMA HitInv ==
  ASSUME MountInv, NEW r \in Readers, NEW p \in Paths, reader[r].phase = "away",
         cache[p] # NoHandle, Responding(r, p, cache[p]), met' = met \ {r},
         UNCHANGED <<live, files, moved, cache, recent>>, HeapBecomes(heap)
  PROVE  MountInv'
<1> USE Distinct
<1> DEFINE x == [Away EXCEPT !.phase = "responding", !.path = p,
                             !.handle = cache[p]]
<1>1. MountTypes /\ Referred /\ InOrder /\ UpToDate /\ Sent
  BY DEF MountInv
<1>2. /\ x \in ReaderRecords /\ x.phase = "responding" /\ x.path = p
      /\ x.handle = cache[p] /\ x.got = <<>>
  BY <1>1, AwayTyped DEF MountTypes, ReaderRecords, Phases, Away
<1>3. reader' = [reader EXCEPT ![r] = x]
  BY DEF Responding
<1> HIDE DEF x
<1>4. /\ reader' \in [Readers -> ReaderRecords] /\ reader'[r] = x
      /\ \A q \in Readers \ {r} : reader'[q] = reader[q]
  BY <1>1, <1>2, <1>3, ReaderStep
<1>5. Refs' \subseteq Refs
  BY <1>2, <1>4 DEF Refs
<1>6. /\ heap' \in [DOMAIN heap' -> HandleRecords]
      /\ DOMAIN heap' \subseteq Handles
      /\ DOMAIN heap' = Refs' \ {NoHandle}
      /\ \A h \in DOMAIN heap' : h \in DOMAIN heap /\ heap'[h] = heap[h]
  BY <1>1, <1>5, HeapStep DEF MountTypes, Referred
<1>7. MountTypes'
  BY <1>1, <1>4, <1>6 DEF MountTypes
<1>8. \A q \in Readers : /\ IsLoading(q)' => IsLoading(q) /\ q # r
                         /\ HasHandle(q)' <=> HasHandle(q) \/ q = r
  BY <1>2, <1>4 DEF IsLoading, HasHandle
<1>9. Referred'
  BY <1>1, <1>2, <1>4, <1>6, <1>8 DEF Referred
<1>10. InOrder' /\ Cached' = Cached
  BY <1>1 DEF InOrder, Cached
<1>11. UpToDate'
  <2>1. \A q \in Paths : cache[q] # NoHandle => heap'[cache[q]] = heap[cache[q]]
    BY <1>6 DEF Refs
  <2>2. StaleOnlyWhileMoved'
    BY <1>1, <2>1 DEF UpToDate, StaleOnlyWhileMoved
  <2> QED
    BY <1>1, <1>4, <1>8, <1>10, <2>2 DEF UpToDate
<1>12. Sent'
  <2>1. \A q \in Readers \ {r} :
          HasHandle(q) => heap'[reader[q].handle] = heap[reader[q].handle]
    <3> SUFFICES ASSUME NEW q \in Readers \ {r}, HasHandle(q)
                 PROVE  heap'[reader[q].handle] = heap[reader[q].handle]
      OBVIOUS
    <3>1. reader[q].handle \in Refs' /\ reader[q].handle # NoHandle
      BY <1>1, <1>4 DEF Refs, Referred
    <3> QED
      BY <1>6, <3>1
  <2> QED
    BY <1>1, <1>2, <1>4, <2>1 DEF Sent, HasHandle
<1> QED
  BY <1>7, <1>9, <1>10, <1>11, <1>12 DEF MountInv

\* A miss: an expired handle is dropped, and the load begins.
LEMMA MissInv ==
  ASSUME MountInv, NEW r \in Readers, NEW p \in Paths, reader[r].phase = "away",
         live, files[p] # Nothing, met' = met \ {r},
         reader' = [reader EXCEPT ![r] =
                      [Away EXCEPT !.phase = "loading", !.path = p,
                                   !.pulse = files[p]]],
         cache' = [cache EXCEPT ![p] = NoHandle], recent' = Without(recent, p),
         UNCHANGED <<live, files, moved>>, HeapBecomes(heap)
  PROVE  MountInv'
<1> USE Distinct
<1> DEFINE x == [Away EXCEPT !.phase = "loading", !.path = p, !.pulse = files[p]]
<1>1. MountTypes /\ Referred /\ InOrder /\ UpToDate /\ Sent
  BY DEF MountInv
<1>2. /\ x \in ReaderRecords /\ x.phase = "loading" /\ x.path = p
      /\ x.handle = NoHandle /\ x.got = <<>>
      /\ x.pulse = files[p] /\ files[p] \in Pulses
  BY <1>1, AwayTyped DEF MountTypes, ReaderRecords, Phases, Away
<1>3. reader' = [reader EXCEPT ![r] = x]
  OBVIOUS
<1> HIDE DEF x
<1>4. /\ reader' \in [Readers -> ReaderRecords] /\ reader'[r] = x
      /\ \A q \in Readers \ {r} : reader'[q] = reader[q]
  BY <1>1, <1>2, <1>3, ReaderStep
<1>5. /\ cache' \in [Paths -> Handles \cup {NoHandle}] /\ cache'[p] = NoHandle
      /\ \A q \in Paths \ {p} : cache'[q] = cache[q]
      /\ Cached' = Cached \ {p}
  BY <1>1 DEF MountTypes, Cached
<1>6. /\ recent' \in Seq(Paths) /\ Once(recent')
      /\ ToSet(recent') = ToSet(recent) \ {p}
      /\ Len(recent') <= Len(recent) /\ Len(recent) \in Nat
      /\ Len(recent') \in Nat
  BY <1>1, Leaves, LenProperties DEF MountTypes, InOrder
<1>7. Refs' \subseteq Refs \cup {NoHandle}
  <2>1. \A q \in Readers : reader'[q].handle \in {reader[q].handle, NoHandle}
    BY <1>2, <1>4
  <2>2. \A q \in Paths : cache'[q] \in {cache[q], NoHandle}
    BY <1>5
  <2> QED
    BY <2>1, <2>2 DEF Refs
<1>8. /\ heap' \in [DOMAIN heap' -> HandleRecords]
      /\ DOMAIN heap' \subseteq Handles
      /\ DOMAIN heap' = Refs' \ {NoHandle}
      /\ \A h \in DOMAIN heap' : h \in DOMAIN heap /\ heap'[h] = heap[h]
  BY <1>1, <1>7, HeapStep DEF MountTypes, Referred
<1>9. MountTypes'
  BY <1>1, <1>4, <1>5, <1>6, <1>8 DEF MountTypes
<1>10. \A q \in Readers : /\ IsLoading(q)' <=> IsLoading(q) \/ q = r
                          /\ HasHandle(q)' <=> HasHandle(q) /\ q # r
  BY <1>2, <1>4 DEF IsLoading, HasHandle
<1>11. Referred'
  BY <1>1, <1>2, <1>4, <1>8, <1>10 DEF Referred
<1>12. InOrder'
  BY <1>1, <1>5, <1>6 DEF InOrder
<1>13. UpToDate'
  <2>1. \A q \in Paths : cache'[q] # NoHandle => heap'[cache'[q]] = heap[cache[q]]
    BY <1>5, <1>8 DEF Refs
  <2>2. StaleOnlyWhileMoved'
    BY <1>1, <1>5, <2>1 DEF UpToDate, StaleOnlyWhileMoved
  <2> QED
    BY <1>1, <1>2, <1>4, <1>5, <1>10, <2>2 DEF UpToDate
<1>14. Sent'
  <2>1. \A q \in Readers \ {r} :
          HasHandle(q) => heap'[reader[q].handle] = heap[reader[q].handle]
    <3> SUFFICES ASSUME NEW q \in Readers \ {r}, HasHandle(q)
                 PROVE  heap'[reader[q].handle] = heap[reader[q].handle]
      OBVIOUS
    <3>1. reader[q].handle \in Refs' /\ reader[q].handle # NoHandle
      BY <1>1, <1>4 DEF Refs, Referred
    <3> QED
      BY <1>8, <3>1
  <2> QED
    BY <1>1, <1>2, <1>4, <2>1 DEF Sent, HasHandle
<1> QED
  BY <1>9, <1>11, <1>12, <1>13, <1>14 DEF MountInv

LEMMA OpenInv ==
  ASSUME MountInv, NEW r \in Readers, NEW p \in Paths, Open(r, p)
  PROVE  MountInv'
<1>1. CASE cache[p] # NoHandle /\ ~heap[cache[p]].idle
  BY <1>1, HitInv DEF Open
<1>2. CASE ~(cache[p] # NoHandle /\ ~heap[cache[p]].idle)
  BY <1>2, MissInv DEF Open
<1> QED
  BY <1>1, <1>2

\* put_handle keeps the order and the cap.
LEMMA PutHandleOrder ==
  ASSUME MountTypes, InOrder, NEW p \in Paths, NEW h \in Handles, PutHandle(p, h)
  PROVE  /\ cache' \in [Paths -> Handles \cup {NoHandle}] /\ cache'[p] = h
         /\ \A q \in Paths \ {p} : cache'[q] \in {cache[q], NoHandle}
         /\ recent' \in Seq(Paths) /\ InOrder'
<1> USE Distinct
<1>1. /\ recent \in Seq(Paths) /\ Once(recent) /\ Len(recent) <= MaxHandles
      /\ ToSet(recent) = Cached /\ Len(recent) \in Nat
      /\ cache \in [Paths -> Handles \cup {NoHandle}]
  BY LenProperties DEF MountTypes, InOrder
<1>2. /\ Kept \in Seq(Paths) /\ Once(Kept) /\ Len(Kept) < MaxHandles
      /\ ToSet(Kept) = ToSet(recent) \ Gone /\ Len(Kept) \in Nat
  <2>1. CASE Full
    <3>1. recent # <<>>
      BY <1>1, <2>1, EmptySeq DEF Full
    <3>2. Kept = Tail(recent) /\ Gone = {Head(recent)}
      BY <2>1 DEF Kept, Gone
    <3> QED
      BY <1>1, <3>1, <3>2, FirstLeaves, LenProperties
  <2>2. CASE ~Full
    BY <1>1, <2>2 DEF Full, Kept, Gone
  <2> QED
    BY <2>1, <2>2
<1> DEFINE left == Without(Kept, p)
<1>3. /\ left \in Seq(Paths) /\ Once(left) /\ Len(left) < MaxHandles
      /\ ToSet(left) = (ToSet(recent) \ Gone) \ {p} /\ Len(left) \in Nat
  BY <1>2, Leaves, LenProperties
<1>4. recent' = Append(left, p)
  BY DEF PutHandle
<1> HIDE DEF left
<1>5. /\ recent' \in Seq(Paths) /\ Once(recent') /\ Len(recent') <= MaxHandles
      /\ ToSet(recent') = (ToSet(recent) \ Gone) \cup {p}
  <2>1. p \notin ToSet(left)
    BY <1>3
  <2>2. /\ recent' \in Seq(Paths) /\ Once(recent')
        /\ Len(recent') = Len(left) + 1 /\ ToSet(recent') = ToSet(left) \cup {p}
    BY <1>3, <1>4, <2>1, Appended
  <2> QED
    BY <1>3, <2>2
<1>6. cache' = [q \in Paths |-> IF q = p THEN h
                  ELSE IF q \in Gone THEN NoHandle ELSE cache[q]]
  BY DEF PutHandle
<1>7. /\ cache' \in [Paths -> Handles \cup {NoHandle}] /\ cache'[p] = h
      /\ \A q \in Paths \ {p} : cache'[q] \in {cache[q], NoHandle}
  BY <1>1, <1>6
<1>8. Cached' = (Cached \ Gone) \cup {p}
  BY <1>1, <1>6 DEF Cached
<1> QED
  BY <1>1, <1>5, <1>7, <1>8 DEF InOrder

LEMMA LoadedInv == ASSUME MountInv, NEW r \in Readers, Loaded(r) PROVE MountInv'
<1> USE Distinct
<1> DEFINE p == reader[r].path
           x == reader[r].pulse
           h == CHOOSE h \in Handles : h \notin DOMAIN heap
           new == [k \in DOMAIN heap \cup {h} |->
                     IF k = h THEN [pulse |-> x, pos |-> 0, idle |-> FALSE]
                              ELSE heap[k]]
<1>1. /\ IsLoading(r) /\ UNCHANGED <<live, files, met>> /\ HeapBecomes(new)
      /\ MountTypes /\ Referred /\ InOrder /\ UpToDate /\ Sent
  BY DEF Loaded, MountInv, IsLoading
<1>2. h \in Handles \ DOMAIN heap
  BY <1>1, FreshHandle
<1>3. p \in Paths /\ x \in Pulses
  BY <1>1 DEF Referred
<1> HIDE DEF h, p, x
<1>4. /\ DOMAIN new = DOMAIN heap \cup {h} /\ DOMAIN new \subseteq Handles
      /\ new[h].pulse = x /\ \A k \in DOMAIN heap : new[k] = heap[k]
      /\ new \in [DOMAIN new -> HandleRecords]
  <2>1. [pulse |-> x, pos |-> 0, idle |-> FALSE] \in HandleRecords
    BY <1>3 DEF HandleRecords
  <2>2. \A k \in DOMAIN heap : heap[k] \in HandleRecords
    BY <1>1 DEF MountTypes
  <2> QED
    BY <1>1, <1>2, <2>1, <2>2 DEF MountTypes
<1> HIDE DEF new
<1>5. \A q \in Paths : cache[q] # NoHandle => cache[q] \in DOMAIN heap
  BY <1>1 DEF Referred, Refs
<1>6. \A q \in Readers : HasHandle(q) => reader[q].handle \in DOMAIN heap
  BY <1>1 DEF Referred, Refs
<1>7. CASE live
  <2> DEFINE y == [Away EXCEPT !.phase = "responding", !.path = p, !.handle = h]
  <2>1. /\ PutHandle(p, h) /\ reader' = [reader EXCEPT ![r] = y]
        /\ moved' = IF x = files[p] /\ \A z \in Pulses \ {x} : Loading(p, z) = {}
                      THEN moved \ {p} ELSE moved
    BY <1>7 DEF Loaded, Responding, p, x, h
  <2>2. /\ y \in ReaderRecords /\ y.phase = "responding" /\ y.path = p
        /\ y.handle = h /\ y.got = <<>>
    BY <1>2, <1>3, AwayTyped DEF ReaderRecords, Phases, Away
  <2> HIDE DEF y
  <2>3. /\ reader' \in [Readers -> ReaderRecords] /\ reader'[r] = y
        /\ \A q \in Readers \ {r} : reader'[q] = reader[q]
    BY <1>1, <2>1, <2>2, ReaderStep
  <2>4. /\ cache' \in [Paths -> Handles \cup {NoHandle}] /\ cache'[p] = h
        /\ \A q \in Paths \ {p} : cache'[q] \in {cache[q], NoHandle}
        /\ recent' \in Seq(Paths) /\ InOrder'
    BY <1>1, <1>2, <1>3, <2>1, PutHandleOrder
  <2>5. Refs' \ {NoHandle} \subseteq DOMAIN new
    <3>1. \A q \in Paths : cache'[q] \in {cache[q], NoHandle, h}
      BY <2>4
    <3>2. \A q \in Readers : reader'[q].handle \in {reader[q].handle, h}
      BY <2>2, <2>3
    <3>3. Refs' \subseteq Refs \cup {NoHandle, h}
      BY <3>1, <3>2 DEF Refs
    <3> QED
      BY <1>1, <1>4, <3>3 DEF Referred
  <2>6. /\ heap' \in [DOMAIN heap' -> HandleRecords]
        /\ DOMAIN heap' \subseteq Handles
        /\ DOMAIN heap' = Refs' \ {NoHandle}
        /\ \A k \in DOMAIN heap' : k \in DOMAIN new /\ heap'[k] = new[k]
    BY <1>1, <1>4, <2>5, HeapStep
  <2>7. moved' \subseteq moved /\ \A q \in Paths \ {p} : q \in moved' <=> q \in moved
    BY <2>1
  <2>8. MountTypes'
    BY <1>1, <2>3, <2>4, <2>6, <2>7 DEF MountTypes
  <2>9. \A q \in Readers : /\ IsLoading(q)' <=> IsLoading(q) /\ q # r
                           /\ HasHandle(q)' <=> HasHandle(q) \/ q = r
    BY <1>1, <2>2, <2>3 DEF IsLoading, HasHandle
  <2>10. Referred'
    BY <1>1, <1>2, <1>3, <2>2, <2>3, <2>6, <2>9 DEF Referred
  <2>11. UpToDate'
    <3>1. p \notin moved' => x = files[p]
      BY <1>1, <2>1 DEF UpToDate, p, x
    <3>2. ASSUME NEW q \in Paths \ moved', cache'[q] # NoHandle
          PROVE  heap'[cache'[q]].pulse = files[q]
      <4>1. cache'[q] \in DOMAIN heap'
        BY <2>6, <3>2 DEF Refs
      <4>2. CASE q = p
        BY <1>4, <2>4, <2>6, <3>1, <4>1, <4>2
      <4>3. CASE q # p
        <5>1. /\ cache'[q] = cache[q] /\ cache[q] \in DOMAIN heap
              /\ q \notin moved
          BY <1>5, <2>4, <2>7, <3>2, <4>3
        <5>2. heap'[cache[q]] = heap[cache[q]]
          BY <1>4, <2>6, <4>1, <5>1
        <5> QED
          BY <1>1, <3>2, <5>1, <5>2 DEF UpToDate, StaleOnlyWhileMoved
      <4> QED
        BY <4>2, <4>3
    <3>3. StaleOnlyWhileMoved'
      BY <1>1, <3>2 DEF StaleOnlyWhileMoved
    <3>4. ASSUME NEW q \in Readers, IsLoading(q), reader[q].path \notin moved'
          PROVE  reader[q].pulse = files[reader[q].path]
      <4>1. CASE reader[q].path \notin moved
        BY <1>1, <3>4, <4>1 DEF UpToDate
      <4>2. CASE reader[q].path \in moved
        <5>1. /\ reader[q].path = p /\ x = files[p]
              /\ \A z \in Pulses \ {x} : Loading(p, z) = {}
          BY <2>1, <3>4, <4>2
        <5>2. reader[q].pulse \in Pulses
          BY <1>1, <3>4 DEF Referred
        <5>3. q \in Loading(p, reader[q].pulse)
          BY <3>4, <5>1 DEF Loading, IsLoading
        <5> QED
          BY <5>1, <5>2, <5>3
      <4> QED
        BY <4>1, <4>2
    <3>5. files[p] # Nothing
      BY <1>1, <1>3 DEF UpToDate, p
    <3>6. \A q \in Paths : files[q] = Nothing => cache'[q] = NoHandle
      BY <1>1, <2>4, <3>5 DEF UpToDate
    <3> QED
      BY <1>1, <1>7, <2>3, <2>9, <3>3, <3>4, <3>6 DEF UpToDate
  <2>12. Sent'
    <3>1. \A q \in Readers \ {r} :
            HasHandle(q) => heap'[reader[q].handle] = heap[reader[q].handle]
      <4> SUFFICES ASSUME NEW q \in Readers \ {r}, HasHandle(q)
                   PROVE  heap'[reader[q].handle] = heap[reader[q].handle]
        OBVIOUS
      <4>1. reader[q].handle \in Refs' /\ reader[q].handle # NoHandle
        BY <1>1, <2>3 DEF Refs, Referred
      <4> QED
        BY <1>4, <1>6, <2>6, <4>1
    <3> QED
      BY <1>1, <2>2, <2>3, <3>1 DEF Sent, HasHandle
  <2> QED
    BY <2>4, <2>8, <2>10, <2>11, <2>12 DEF MountInv
<1>8. CASE ~live
  <2>1. /\ reader' = [reader EXCEPT ![r] = Away]
        /\ UNCHANGED <<cache, recent, moved>>
    BY <1>8 DEF Loaded
  <2>2. /\ reader' \in [Readers -> ReaderRecords] /\ reader'[r] = Away
        /\ \A q \in Readers \ {r} : reader'[q] = reader[q]
    BY <1>1, <2>1, AwayTyped, ReaderStep
  <2>3. Refs' \subseteq Refs \cup {NoHandle}
    BY <2>1, <2>2, AwayTyped DEF Refs
  <2>4. /\ heap' \in [DOMAIN heap' -> HandleRecords]
        /\ DOMAIN heap' \subseteq Handles
        /\ DOMAIN heap' = Refs' \ {NoHandle}
        /\ \A k \in DOMAIN heap' : k \in DOMAIN new /\ heap'[k] = new[k]
    BY <1>1, <1>4, <2>3, HeapStep DEF Referred
  <2>5. MountTypes'
    BY <1>1, <2>1, <2>2, <2>4 DEF MountTypes
  <2>6. \A q \in Readers : /\ IsLoading(q)' => IsLoading(q) /\ q # r
                           /\ HasHandle(q)' <=> HasHandle(q)
    BY <1>1, <2>2, AwayTyped DEF IsLoading, HasHandle
  <2>7. Referred'
    <3>1. ~HasHandle(r)
      BY <1>1 DEF IsLoading, HasHandle
    <3> QED
      BY <1>1, <2>2, <2>4, <2>6, <3>1, AwayTyped DEF Referred
  <2>8. InOrder' /\ Cached' = Cached
    BY <1>1, <2>1 DEF InOrder, Cached
  <2>9. UpToDate'
    <3>1. StaleOnlyWhileMoved'
      BY <1>1, <1>8, <2>1 DEF UpToDate, StaleOnlyWhileMoved, Cached
    <3> QED
      BY <1>1, <2>1, <2>2, <2>6, <2>8, <3>1 DEF UpToDate
  <2>10. Sent'
    <3>1. \A q \in Readers \ {r} :
            HasHandle(q) => heap'[reader[q].handle] = heap[reader[q].handle]
      <4> SUFFICES ASSUME NEW q \in Readers \ {r}, HasHandle(q)
                   PROVE  heap'[reader[q].handle] = heap[reader[q].handle]
        OBVIOUS
      <4>1. reader[q].handle \in Refs' /\ reader[q].handle # NoHandle
        BY <1>1, <2>2 DEF Refs, Referred
      <4> QED
        BY <1>4, <1>6, <2>4, <4>1
    <3> QED
      BY <1>1, <2>2, <3>1, AwayTyped DEF Sent, HasHandle
  <2> QED
    BY <2>5, <2>7, <2>8, <2>9, <2>10 DEF MountInv
<1> QED
  BY <1>7, <1>8

LEMMA ReadChunkInv == ASSUME MountInv, NEW r \in Readers, ReadChunk(r) PROVE MountInv'
<1> USE Distinct
<1> DEFINE h == reader[r].handle
           p == reader[r].path
           at == Start(r)
           more == at < Chunks
           x == [reader[r] EXCEPT
                  !.phase = IF more THEN "streaming" ELSE "served",
                  !.got = IF more /\ Len(@) <= Chunks THEN Append(@, at) ELSE @]
           new == [heap EXCEPT ![h].pos = IF more THEN at + 1 ELSE at,
                               ![h].idle = FALSE]
<1>1. /\ reader[r].phase \in {"responding", "streaming"} /\ HasHandle(r)
      /\ recent' = IF cache[p] = h THEN Append(Without(recent, p), p) ELSE recent
      /\ met' = met \cup Sharing(r)
      /\ UNCHANGED <<live, files, cache, moved>> /\ HeapBecomes(new)
      /\ MountTypes /\ Referred /\ InOrder /\ UpToDate /\ Sent
  BY DEF ReadChunk, MountInv, HasHandle
<1>2. reader' = [reader EXCEPT ![r] = x]
  BY <1>1 DEF ReadChunk, MountTypes
<1>3. /\ h \in DOMAIN heap /\ h # NoHandle /\ p \in Paths
      /\ heap[h] \in HandleRecords /\ reader[r] \in ReaderRecords
  BY <1>1 DEF Referred, Refs, MountTypes
<1>4. /\ at \in 0..Chunks
      /\ reader[r].phase = "responding" => at = 0
      /\ reader[r].phase = "streaming" => at = heap[h].pos
  BY <1>1, <1>3 DEF Start, HandleRecords
<1> HIDE DEF at
<1>5. /\ DOMAIN new = DOMAIN heap /\ new \in [DOMAIN new -> HandleRecords]
      /\ new[h].pos = IF more THEN at + 1 ELSE at
      /\ new[h].pulse = heap[h].pulse
      /\ \A k \in DOMAIN heap \ {h} : new[k] = heap[k]
  <2>1. more => at + 1 \in 0..Chunks
    BY <1>4
  <2>2. /\ new = [heap EXCEPT ![h] =
                   [heap[h] EXCEPT !.pos = IF more THEN at + 1 ELSE at,
                                   !.idle = FALSE]]
    BY <1>1, <1>3 DEF MountTypes
  <2>3. [heap[h] EXCEPT !.pos = IF more THEN at + 1 ELSE at, !.idle = FALSE]
          \in HandleRecords
    BY <1>3, <1>4, <2>1 DEF HandleRecords
  <2> QED
    BY <1>1, <1>3, <1>4, <2>2, <2>3 DEF MountTypes, HandleRecords
<1> DEFINE got == reader[r].got
<1>6. /\ x \in ReaderRecords /\ x.path = p /\ x.handle = h
      /\ x.pulse = reader[r].pulse
      /\ x.phase = IF more THEN "streaming" ELSE "served"
      /\ x.got = IF more /\ Len(got) <= Chunks THEN Append(got, at) ELSE got
  <2>1. got \in Seq(Nat) /\ Append(got, at) \in Seq(Nat)
    BY <1>3, <1>4, AppendProperties DEF ReaderRecords
  <2> QED
    BY <1>3, <2>1 DEF ReaderRecords, Phases
<1> HIDE DEF x, new
<1>7. /\ reader' \in [Readers -> ReaderRecords] /\ reader'[r] = x
      /\ \A q \in Readers \ {r} : reader'[q] = reader[q]
  BY <1>1, <1>2, <1>6, ReaderStep
<1>8. Refs' = Refs
  <2>1. \A q \in Readers : reader'[q].handle = reader[q].handle
    BY <1>6, <1>7
  <2> QED
    BY <1>1, <2>1 DEF Refs
<1>9. /\ heap' \in [DOMAIN heap' -> HandleRecords]
      /\ DOMAIN heap' \subseteq Handles
      /\ DOMAIN heap' = DOMAIN heap
      /\ \A k \in DOMAIN heap' : heap'[k] = new[k]
  BY <1>1, <1>5, <1>8, HeapStep DEF MountTypes, Referred
<1>10. recent' \in Seq(Paths) /\ InOrder' /\ Cached' = Cached
  <2>1. Cached' = Cached
    BY <1>1 DEF Cached
  <2>2. CASE cache[p] = h
    <3>1. p \in ToSet(recent) /\ Len(recent) \in Nat
      BY <1>1, <1>3, <2>2, LenProperties DEF InOrder, Cached, MountTypes
    <3> DEFINE s == Without(recent, p)
    <3>2. /\ s \in Seq(Paths) /\ Once(s) /\ Len(s) = Len(recent) - 1
          /\ ToSet(s) = ToSet(recent) \ {p}
      BY <1>1, <3>1, Leaves DEF InOrder, MountTypes
    <3> HIDE DEF s
    <3>3. /\ Append(s, p) \in Seq(Paths) /\ Once(Append(s, p))
          /\ Len(Append(s, p)) = Len(s) + 1
          /\ ToSet(Append(s, p)) = ToSet(s) \cup {p}
      BY <1>3, <3>2, Appended
    <3>4. recent' = Append(s, p)
      BY <1>1, <2>2 DEF s
    <3>5. Len(recent') = Len(recent)
      BY <3>1, <3>2, <3>3, <3>4
    <3>6. ToSet(recent') = Cached
      BY <1>1, <3>1, <3>2, <3>3, <3>4 DEF InOrder
    <3> QED
      BY <1>1, <2>1, <3>3, <3>4, <3>5, <3>6 DEF InOrder
  <2>3. CASE cache[p] # h
    BY <1>1, <2>1, <2>3 DEF InOrder, MountTypes
  <2> QED
    BY <2>2, <2>3
<1>11. MountTypes'
  <2>1. met' \subseteq Readers
    BY <1>1 DEF MountTypes, Sharing
  <2> QED
    BY <1>1, <1>7, <1>9, <1>10, <2>1 DEF MountTypes
<1>12. \A q \in Readers : /\ IsLoading(q)' <=> IsLoading(q)
                          /\ HasHandle(q)' <=> HasHandle(q)
  BY <1>1, <1>6, <1>7 DEF IsLoading, HasHandle
<1>13. Referred'
  BY <1>1, <1>6, <1>7, <1>8, <1>9, <1>12 DEF Referred
<1>14. UpToDate'
  <2>1. \A k \in DOMAIN heap : heap'[k].pulse = heap[k].pulse
    BY <1>5, <1>9
  <2>2. \A q \in Paths : cache[q] # NoHandle => cache[q] \in DOMAIN heap
    BY <1>1 DEF Referred, Refs
  <2>3. StaleOnlyWhileMoved'
    BY <1>1, <2>1, <2>2 DEF UpToDate, StaleOnlyWhileMoved
  <2>4. \A q \in Readers : /\ reader'[q].path = reader[q].path
                           /\ reader'[q].pulse = reader[q].pulse
    BY <1>6, <1>7
  <2> QED
    BY <1>1, <1>10, <1>12, <2>3, <2>4 DEF UpToDate
<1>15. Sent'
  <2>1. ASSUME NEW q \in Readers \ {r}, HasHandle(q)
        PROVE  \/ heap'[reader[q].handle].pos = heap[reader[q].handle].pos
               \/ q \in met' \/ reader[q].phase # "streaming"
    <3>1. reader[q].handle \in DOMAIN heap
      BY <1>1, <2>1 DEF Referred, Refs
    <3>2. CASE reader[q].handle = h
      BY <1>1, <3>2 DEF Sharing
    <3>3. CASE reader[q].handle # h
      BY <1>5, <1>9, <3>1, <3>3
    <3> QED
      BY <3>2, <3>3
  <2>2. met \subseteq met'
    BY <1>1
  <2>3. ASSUME NEW q \in Readers \ {r}
        PROVE  /\ reader'[q].phase = "responding" => reader'[q].got = <<>>
               /\ reader'[q].phase = "streaming" /\ q \notin met' =>
                    reader'[q].got = UpTo(heap'[reader'[q].handle].pos)
               /\ reader'[q].phase = "served" /\ q \notin met' =>
                    reader'[q].got = UpTo(Chunks)
    BY <1>1, <1>7, <2>1, <2>2 DEF Sent, HasHandle
  <2>4. ASSUME r \notin met' PROVE got = UpTo(at)
    <3>1. CASE reader[r].phase = "responding"
      BY <1>1, <1>4, <3>1, UpToNext DEF Sent
    <3>2. CASE reader[r].phase = "streaming"
      BY <1>1, <1>4, <2>2, <2>4, <3>2 DEF Sent
    <3> QED
      BY <1>1, <3>1, <3>2
  <2>5. heap'[x.handle].pos = IF more THEN at + 1 ELSE at
    BY <1>3, <1>5, <1>6, <1>9
  <2>6. ASSUME more, r \notin met' PROVE x.got = UpTo(at + 1)
    <3>1. at \in Nat
      BY <1>4
    <3>2. Len(UpTo(at)) = at /\ Append(UpTo(at), at) = UpTo(at + 1)
      BY <3>1, UpToNext
    <3>3. Len(got) <= Chunks
      BY <1>4, <2>4, <2>6, <3>2
    <3> QED
      BY <1>6, <2>4, <2>6, <3>2, <3>3
  <2>7. ASSUME ~more, r \notin met' PROVE x.got = UpTo(Chunks)
    <3>1. at = Chunks
      BY <1>4, <2>7
    <3> QED
      BY <1>6, <2>4, <2>7, <3>1
  <2>8. /\ x.phase # "responding"
        /\ x.phase = "streaming" /\ r \notin met' =>
             x.got = UpTo(heap'[x.handle].pos)
        /\ x.phase = "served" /\ r \notin met' => x.got = UpTo(Chunks)
    BY <1>6, <2>5, <2>6, <2>7
  <2>9. ASSUME NEW q \in Readers
        PROVE  /\ reader'[q].phase = "responding" => reader'[q].got = <<>>
               /\ reader'[q].phase = "streaming" /\ q \notin met' =>
                    reader'[q].got = UpTo(heap'[reader'[q].handle].pos)
               /\ reader'[q].phase = "served" /\ q \notin met' =>
                    reader'[q].got = UpTo(Chunks)
    <3>1. CASE q = r
      BY <1>7, <2>8, <3>1
    <3>2. CASE q # r
      BY <2>3, <3>2
    <3> QED
      BY <3>1, <3>2
  <2> QED
    BY <2>9 DEF Sent
<1> QED
  BY <1>10, <1>11, <1>13, <1>14, <1>15 DEF MountInv

LEMMA MountStepInv == ASSUME MountInv, [MountNext]_mountVars PROVE MountInv'
<1>1. ASSUME NEW p \in Paths, NEW x \in Pulses, Register(p, x) PROVE MountInv'
  BY <1>1, RegisterInv
<1>2. CASE Destroy \/ Create
  BY <1>2, DestroyInv, CreateInv
<1>3. ASSUME NEW r \in Readers, NEW p \in Paths, Open(r, p) PROVE MountInv'
  BY <1>3, OpenInv
<1>4. ASSUME NEW r \in Readers, Loaded(r) \/ ReadChunk(r) \/ Quit(r)
      PROVE  MountInv'
  BY <1>4, LoadedInv, ReadChunkInv, QuitInv
<1>5. ASSUME NEW h \in DOMAIN heap, Idle(h) PROVE MountInv'
  BY <1>5, IdleInv
<1>6. CASE UNCHANGED mountVars
  BY <1>6
  DEF mountVars, MountInv, MountTypes, Referred, Refs, Cached, InOrder, UpToDate,
      StaleOnlyWhileMoved, Sent, IsLoading, HasHandle
<1> QED
  BY <1>1, <1>2, <1>3, <1>4, <1>5, <1>6 DEF MountNext

LEMMA MountInvariant == MountSpec => []MountInv
BY MountInitInv, MountStepInv, PTL DEF MountSpec

\* A response whose handle nobody else has read since its first chunk is the
\* whole pulse, in order, for any number of readers that share a cache:
\* InMemoryFileHandle.stream rewinds the position that they share.
THEOREM UnsharedAlwaysWhole == MountSpec => []WholeUnlessShared
<1>1. MountInv => WholeUnlessShared
  BY DEF MountInv, Sent, WholeUnlessShared, UpTo
<1> QED
  BY <1>1, MountInvariant, PTL

\* Under a path that was not registered again there is no handle of another
\* pulse than the registered one, whatever loads were under way.
THEOREM StaleAlwaysMoved == MountSpec => []StaleOnlyWhileMoved
<1>1. MountInv => StaleOnlyWhileMoved
  BY DEF MountInv, UpToDate
<1> QED
  BY <1>1, MountInvariant, PTL

\* put_handle keeps the cache at its cap, and the order of its eviction names
\* exactly the paths that are cached.
THEOREM CacheAlwaysBounded == MountSpec => []CacheBounded
<1>1. MountInv => CacheBounded
  BY CachedBound DEF MountInv, InOrder, CacheBounded, Cached
<1> QED
  BY <1>1, MountInvariant, PTL
=============================================================================
