----------------------------- MODULE Scan_proofs -----------------------------
(***************************************************************************)
(* Proofs about Scan, for any tree, any number of workers and any size of  *)
(* the queue: LoopNeverBlocks, ScanIsPartition and MasterComplete are      *)
(* consequences of ScanInv, which is inductive.                            *)
(*                                                                         *)
(* The argument: the directories on the stack and the entries still to be  *)
(* read are never inside each other (Walk), so what lies ahead is ahead in *)
(* one place; an expected entry is ahead, in the queue, in the hands of    *)
(* one worker, listed, or lost, and in one of these only (Places); and     *)
(* there is one sentinel, behind every entry (OneSentinel), so that who    *)
(* has it has found the queue empty, and who has left has seen the last    *)
(* entry taken (LeftLast).                                                 *)
(*                                                                         *)
(* RootFixesShards needs less of the scan and more of MerkleTree: what the *)
(* root is for every number of shards.                                     *)
(***************************************************************************)
EXTENDS Scan, FiniteSetTheorems, SequenceTheorems, WellFoundedInduction, TLAPS

Once(s) == \A i, j \in 1..Len(s) : s[i] = s[j] => i = j

ScanTypes ==
  /\ stack \in Seq(Dirs) /\ unread \subseteq Entries \ {Root}
  /\ producer \in {"walking", "ended"}
  /\ queue \in Seq(Entries \cup {Sentinel})
  /\ worker \in [Workers -> Entries \cup {Sentinel, "get", "left", "failed"}]
  /\ listed \in [Entries -> {0, 1}] /\ lost \subseteq Entries
  /\ stored \in Seq(Dirs)

\* Where the walk goes on: nothing of it lies inside another part of it.
Pending == unread \cup ToSet(stack)

Walk ==
  /\ Once(stack) /\ unread \cap ToSet(stack) = {}
  /\ \A a, b \in Pending : a \in Path[b] => a = b
  /\ unread \subseteq Expected /\ ToSet(stack) \subseteq Expected \cup {Root}
  /\ ~Recursive => ToSet(stack) \subseteq {Root}
  /\ producer = "ended" => unread = {} /\ stack = <<>>

\* The expected entries that the producer has not come to.
Ahead == {e \in Expected : \/ Path[e] \cap unread # {}
                           \/ Path[Parent[e]] \cap ToSet(stack) # {}}
Queued == ToSet(queue) \ {Sentinel}
InHand == {worker[w] : w \in Workers} \cap Entries
Listed == {e \in Entries : listed[e] = 1}
Missed == lost \cap Expected

\* Five sets without a common element.
Apart(a, q, h, l, x) ==
  /\ a \cap (q \cup h \cup l \cup x) = {} /\ q \cap (h \cup l \cup x) = {}
  /\ h \cap (l \cup x) = {} /\ l \cap x = {}
  /\ a \cup q \cup h \cup l \cup x \subseteq Expected

Places ==
  /\ Apart(Ahead, Queued, InHand, Listed, Missed)
  /\ phase # "cancelled" =>
       Expected \subseteq Ahead \cup Queued \cup InHand \cup Listed \cup Missed

OneSentinel ==
  /\ producer = "walking" => /\ Sentinel \notin ToSet(queue)
                             /\ \A w \in Workers : worker[w] # Sentinel
  /\ Once(queue)
  /\ \A i \in 1..Len(queue) : queue[i] = Sentinel => i = Len(queue)
  /\ \A w \in Workers : worker[w] = Sentinel => queue = <<>>
  /\ \A w, v \in Workers :
       worker[w] = worker[v] /\ worker[w] \in Entries \cup {Sentinel} => w = v

LeftLast ==
  /\ phase # "cancelled" /\ (\E w \in Workers : worker[w] = "left") =>
       producer = "ended" /\ Queued = {}
  /\ phase \in {"sealing", "answered"} =>
       producer = "ended" /\ \A w \in Workers : worker[w] = "left"

Answered ==
  phase = "answered" => Manifests = ToSet(stored) /\ master.shards = stored

ScanInv == ScanTypes /\ Walk /\ Places /\ OneSentinel /\ LeftLast /\ Answered

-----------------------------------------------------------------------------
(* The tree.  Path[e] is a least set, which is what the induction of these  *)
(* lemmas is: a set that has e and the parents of its members has Path[e].  *)

Closed(S) == \A x \in S \ {Root} : Parent[x] \in S

LEMMA PathLeast ==
  ASSUME NEW e \in Entries, NEW S \in SUBSET Entries, e \in S, Closed(S)
  PROVE  Path[e] \subseteq S
BY DEF Path, Closed

LEMMA PathBasics ==
  ASSUME NEW e \in Entries
  PROVE  /\ Path[e] \in SUBSET Entries /\ e \in Path[e] /\ Root \in Path[e]
         /\ Closed(Path[e])
<1>1. \A x \in Entries \ {Root} : Parent[x] \in Entries
  BY ScanAssumption
<1>2. Path[e] = {a \in Entries : \A S \in SUBSET Entries :
                   e \in S /\ Closed(S) => a \in S}
  BY DEF Path, Closed
<1>3. e \in Path[e] /\ Root \in Path[e]
  BY <1>2, TreeAssumption
<1>4. ASSUME NEW x \in Path[e] \ {Root} PROVE Parent[x] \in Path[e]
  <2>1. Parent[x] \in Entries
    BY <1>1, <1>2
  <2>2. ASSUME NEW S \in SUBSET Entries, e \in S, Closed(S)
        PROVE  Parent[x] \in S
    <3>1. x \in S
      BY <1>2, <2>2
    <3> QED
      BY <2>2, <3>1, <1>4 DEF Closed
  <2> QED
    BY <1>2, <2>1, <2>2
<1> QED
  BY <1>2, <1>3, <1>4 DEF Closed

\* What contains a container of e contains e.
LEMMA PathInPath ==
  ASSUME NEW e \in Entries, NEW a \in Path[e]
  PROVE  Path[a] \subseteq Path[e]
BY PathBasics, PathLeast

LEMMA PathStep ==
  /\ Path[Root] = {Root}
  /\ \A e \in Entries \ {Root} : Path[e] = {e} \cup Path[Parent[e]]
<1>1. Root \in Entries /\ \A e \in Entries \ {Root} : Parent[e] \in Dirs
  BY ScanAssumption
<1>2. Path[Root] = {Root}
  <2>1. Path[Root] \subseteq {Root}
    BY <1>1, PathLeast DEF Closed
  <2> QED
    BY <1>1, <2>1, PathBasics
<1>3. ASSUME NEW e \in Entries \ {Root}
      PROVE  Path[e] = {e} \cup Path[Parent[e]]
  <2>1. Parent[e] \in Entries
    BY <1>1, ScanAssumption
  <2>2. e \in Path[e] /\ Parent[e] \in Path[e]
    BY PathBasics DEF Closed
  <2>3. Path[Parent[e]] \subseteq Path[e]
    BY <2>2, PathInPath
  <2>4. Closed({e} \cup Path[Parent[e]])
    BY <2>1, PathBasics DEF Closed
  <2>5. Path[e] \subseteq {e} \cup Path[Parent[e]]
    BY <2>1, <2>4, PathLeast, PathBasics
  <2> QED
    BY <2>2, <2>3, <2>5
<1> QED
  BY <1>2, <1>3

\* No entry contains itself.
LEMMA NoCycle == \A e \in Entries \ {Root} : e \notin Path[Parent[e]]
<1> SUFFICES ASSUME NEW e \in Entries \ {Root}, e \in Path[Parent[e]]
             PROVE  FALSE
  OBVIOUS
<1> DEFINE S == {x \in Path[e] : e \in Path[x]}
<1>1. e \in S /\ S \in SUBSET Entries
  BY PathBasics
<1>2. ASSUME NEW x \in S \ {Root} PROVE Parent[x] \in S
  <2>1. x \in Entries /\ Parent[x] \in Path[e] /\ e \in Path[x]
    BY PathBasics DEF Closed
  <2>2. Path[x] = {x} \cup Path[Parent[x]]
    BY <1>2, <2>1, PathStep
  <2>3. e \in Path[Parent[x]]
    <3>1. CASE e = x
      BY <3>1
    <3>2. CASE e # x
      BY <2>1, <2>2, <3>2
    <3> QED
      BY <3>1, <3>2
  <2> QED
    BY <2>1, <2>3
<1>3. Path[e] \subseteq S
  BY <1>1, <1>2, PathLeast DEF Closed
<1>4. e \in Path[Root]
  BY <1>3, PathBasics
<1> QED
  BY <1>4, PathStep

\* Two containers of one entry contain each other.
LEMMA Chain ==
  ASSUME NEW e \in Entries, NEW a \in Path[e], NEW b \in Path[e]
  PROVE  a \in Path[b] \/ b \in Path[a]
<1> DEFINE S == {x \in Entries : a \in Path[x] \/ x \in Path[a]}
<1>1. e \in S /\ a \in Entries /\ S \in SUBSET Entries
  BY PathBasics
<1>2. ASSUME NEW x \in S \ {Root} PROVE Parent[x] \in S
  <2>1. Parent[x] \in Entries /\ Path[x] = {x} \cup Path[Parent[x]]
    BY <1>2, PathStep, ScanAssumption
  <2>2. CASE x \in Path[a]
    BY <1>1, <2>1, <2>2, <1>2, PathBasics DEF Closed
  <2>3. CASE a \in Path[x] /\ a # x
    BY <2>1, <2>3
  <2> QED
    BY <1>1, <2>2, <2>3, PathBasics
<1>3. Path[e] \subseteq S
  BY <1>1, <1>2, PathLeast DEF Closed
<1> QED
  BY <1>3

\* What is strictly inside d is inside one of the entries of d.
LEMMA ChildBetween ==
  ASSUME NEW e \in Entries \ {Root}, NEW d \in Path[Parent[e]]
  PROVE  \E c \in Path[e] \ {Root} : Parent[c] = d
<1> SUFFICES ASSUME \A c \in Path[e] \ {Root} : Parent[c] # d PROVE FALSE
  OBVIOUS
<1>1. Path[e] = {e} \cup Path[Parent[e]] /\ e # d
  BY PathStep, NoCycle
<1>2. Closed(Path[e] \ {d}) /\ e \in Path[e] \ {d}
  BY <1>1, PathBasics DEF Closed
<1>3. Path[e] \subseteq Path[e] \ {d}
  BY <1>2, PathBasics, PathLeast
<1> QED
  BY <1>1, <1>3

\* Expected entries, by the directory that they are in.
LEMMA ExpectedStep ==
  ASSUME NEW d \in Dirs, d \in Expected \cup {Root}, ~Unwalked(d)
  PROVE  Children(d) \subseteq Expected
<1> SUFFICES ASSUME NEW c \in Children(d) PROVE c \in Expected
  OBVIOUS
<1>1. /\ c \in Entries \ {Root} /\ Parent[c] = d /\ c \notin Hidden
      /\ d \in Entries
  BY ScanAssumption DEF Children
<1>2. Path[c] = {c} \cup Path[d]
  BY <1>1, PathStep
<1>3. Path[d] \cap Hidden = {} /\ \A x \in Path[d] : ~Unwalked(x)
  <2>1. CASE d = Root
    BY <2>1, PathStep, ScanAssumption
  <2>2. CASE d # Root
    BY <1>1, <2>2, PathStep DEF Expected
  <2> QED
    BY <2>1, <2>2
<1> QED
  BY <1>1, <1>2, <1>3 DEF Expected

LEMMA ExpectedTyped == Expected \subseteq Entries \ {Root}
BY DEF Expected

-----------------------------------------------------------------------------
(* Sequences without repetition.                                           *)

LEMMA ToSetOf ==
  ASSUME NEW S, NEW s \in Seq(S)
  PROVE  /\ DOMAIN s = 1..Len(s) /\ Len(s) \in Nat
         /\ ToSet(s) = {s[i] : i \in 1..Len(s)} /\ ToSet(s) \subseteq S
BY LenProperties, ElementOfSeq DEF ToSet

LEMMA Appended ==
  ASSUME NEW S, NEW s \in Seq(S), NEW x \in S
  PROVE  /\ Append(s, x) \in Seq(S) /\ Len(Append(s, x)) = Len(s) + 1
         /\ Append(s, x)[Len(s) + 1] = x
         /\ \A i \in 1..Len(s) : Append(s, x)[i] = s[i]
         /\ ToSet(Append(s, x)) = ToSet(s) \cup {x}
         /\ Once(s) /\ x \notin ToSet(s) => Once(Append(s, x))
<1> DEFINE t == Append(s, x)
<1>1. /\ t \in Seq(S) /\ Len(t) = Len(s) + 1 /\ t[Len(s) + 1] = x
      /\ \A i \in 1..Len(s) : t[i] = s[i]
  BY AppendProperties
<1>2. /\ Len(s) \in Nat /\ ToSet(s) = {s[i] : i \in 1..Len(s)}
      /\ ToSet(t) = {t[i] : i \in 1..Len(t)}
  BY <1>1, ToSetOf
<1> HIDE DEF t
<1>3. \A i \in 1..Len(t) : i \in 1..Len(s) \/ i = Len(s) + 1
  BY <1>1, <1>2
<1>4. ToSet(t) = ToSet(s) \cup {x}
  <2>1. ToSet(t) \subseteq ToSet(s) \cup {x}
    BY <1>1, <1>2, <1>3
  <2>2. ToSet(s) \subseteq ToSet(t) /\ x \in ToSet(t)
    BY <1>1, <1>2
  <2> QED
    BY <2>1, <2>2
<1>5. ASSUME Once(s), x \notin ToSet(s) PROVE Once(t)
  BY <1>1, <1>2, <1>3, <1>5 DEF Once
<1> QED
  BY <1>1, <1>4, <1>5 DEF t

LEMMA LastLeaves ==
  ASSUME NEW S, NEW s \in Seq(S), s # <<>>, Once(s)
  PROVE  /\ Last(s) \in S /\ Front(s) \in Seq(S) /\ Once(Front(s))
         /\ ToSet(s) = ToSet(Front(s)) \cup {Last(s)}
         /\ Last(s) \notin ToSet(Front(s))
<1> DEFINE n == Len(s)
           f == Front(s)
<1>1. n \in Nat \ {0}
  BY LenProperties, EmptySeq
<1>2. /\ f \in Seq(S) /\ Len(f) = n - 1
      /\ \A i \in 1..(n - 1) : f[i] = s[i]
  <2>1. \A i \in 1..(n - 1) : s[i] \in S
    BY <1>1, ElementOfSeq
  <2>2. /\ SubSeq(s, 1, n - 1) \in Seq(S)
        /\ Len(SubSeq(s, 1, n - 1)) =
             IF 1 <= n - 1 THEN n - 1 - 1 + 1 ELSE 0
        /\ \A i \in 1..(n - 1 - 1 + 1) : SubSeq(s, 1, n - 1)[i] = s[1 + i - 1]
    BY <1>1, <2>1, SubSeqProperties
  <2>3. f = SubSeq(s, 1, n - 1)
    BY DEF Front
  <2> HIDE DEF f, n
  <2>4. n - 1 - 1 + 1 = n - 1 /\ \A i \in Int : 1 + i - 1 = i
    BY <1>1
  <2> QED
    BY <1>1, <2>2, <2>3, <2>4
<1>3. /\ ToSet(s) = {s[i] : i \in 1..n}
      /\ ToSet(f) = {f[i] : i \in 1..(n - 1)}
  BY <1>2, ToSetOf
<1>4. s[n] \in S /\ Last(s) = s[n]
  BY <1>1, ElementOfSeq DEF Last
<1> HIDE DEF n, f
<1>5. \A i \in 1..n : i \in 1..(n - 1) \/ i = n
  BY <1>1
<1>6. ToSet(s) = ToSet(f) \cup {s[n]}
  <2>1. ToSet(s) \subseteq ToSet(f) \cup {s[n]}
    BY <1>2, <1>3, <1>5
  <2>2. ToSet(f) \subseteq ToSet(s) /\ s[n] \in ToSet(s)
    BY <1>1, <1>2, <1>3
  <2> QED
    BY <2>1, <2>2
<1>7. Once(f) /\ s[n] \notin ToSet(f)
  BY <1>1, <1>2, <1>3 DEF Once, n
<1> QED
  BY <1>2, <1>4, <1>6, <1>7 DEF f

LEMMA FirstLeaves ==
  ASSUME NEW S, NEW s \in Seq(S), s # <<>>, Once(s)
  PROVE  /\ Head(s) = s[1] /\ Head(s) \in S /\ 1 \in 1..Len(s)
         /\ Tail(s) \in Seq(S) /\ Len(Tail(s)) = Len(s) - 1
         /\ \A i \in 1..Len(Tail(s)) : Tail(s)[i] = s[i + 1]
         /\ Once(Tail(s))
         /\ ToSet(s) = ToSet(Tail(s)) \cup {Head(s)}
         /\ Head(s) \notin ToSet(Tail(s))
<1> DEFINE n == Len(s)
           t == Tail(s)
<1>1. n \in Nat \ {0}
  BY LenProperties, EmptySeq
<1>2. /\ t \in Seq(S) /\ Len(t) = n - 1
      /\ \A i \in 1..(n - 1) : t[i] = s[i + 1]
      /\ Head(s) = s[1] /\ Head(s) \in S
  BY <1>1, HeadTailProperties
<1>3. /\ ToSet(s) = {s[i] : i \in 1..n}
      /\ ToSet(t) = {t[i] : i \in 1..(n - 1)}
  BY <1>2, ToSetOf
<1> HIDE DEF n, t
<1>4. \A i \in 1..n : i = 1 \/ (i - 1 \in 1..(n - 1) /\ (i - 1) + 1 = i)
  BY <1>1
<1>5. ToSet(s) = ToSet(t) \cup {s[1]}
  <2>1. ASSUME NEW x \in ToSet(s) PROVE x \in ToSet(t) \cup {s[1]}
    <3>1. PICK i \in 1..n : x = s[i]
      BY <1>3
    <3>2. CASE i # 1
      <4>1. i - 1 \in 1..(n - 1) /\ t[i - 1] = s[i]
        BY <1>2, <1>4, <3>2
      <4> QED
        BY <1>3, <3>1, <4>1
    <3> QED
      BY <3>1, <3>2
  <2>2. ToSet(t) \subseteq ToSet(s) /\ s[1] \in ToSet(s)
    BY <1>1, <1>2, <1>3
  <2> QED
    BY <2>1, <2>2
<1>6. Once(t) /\ s[1] \notin ToSet(t)
  BY <1>1, <1>2, <1>3 DEF Once, n
<1> QED
  BY <1>1, <1>2, <1>5, <1>6 DEF n, t

-----------------------------------------------------------------------------
(* The walk.                                                               *)

LEMMA OpenDirWalk ==
  ASSUME ScanTypes, Walk, OpenDir
  PROVE  /\ stack' \in Seq(Dirs) /\ unread' \subseteq Entries \ {Root}
         /\ Walk' /\ Ahead' = Ahead
<1> DEFINE d == Last(stack)
           new == IF TooDeep(d) THEN {} ELSE Children(d)
<1>1. /\ unread = {} /\ stack # <<>> /\ stack' = Front(stack) /\ unread' = new
      /\ producer' = producer /\ producer # "ended"
  BY DEF OpenDir, Walk
<1>2. /\ d \in Dirs /\ stack' \in Seq(Dirs) /\ Once(stack')
      /\ ToSet(stack) = ToSet(stack') \cup {d} /\ d \notin ToSet(stack')
  BY <1>1, LastLeaves DEF ScanTypes, Walk
<1>3. /\ d \in Entries /\ d \in Expected \cup {Root}
      /\ ToSet(stack') \subseteq Expected \cup {Root} /\ Root \in Entries
      /\ Pending = ToSet(stack') \cup {d}
  BY <1>1, <1>2, ScanAssumption DEF Walk, Pending
<1>4. new \subseteq Expected /\ \A c \in new : c \in Entries \ {Root} /\ Parent[c] = d
  <2>1. Unwalked(d) => TooDeep(d)
    BY <1>2 DEF Unwalked, Walk
  <2> QED
    BY <1>2, <1>3, <2>1, ExpectedStep DEF Children
<1>5. \A c \in new : Path[c] = {c} \cup Path[d] /\ c \notin Path[d]
  BY <1>4, PathStep, NoCycle
<1>6. \A s \in ToSet(stack') : d \notin Path[s] /\ s \notin Path[d] /\ s \in Entries
  BY <1>2, <1>3, ExpectedTyped DEF Walk
<1>7. d \in Path[d]
  BY <1>3, PathBasics
<1>8. \A c \in new, s \in ToSet(stack') :
        c \notin Path[s] /\ s \notin Path[c] /\ c # s
  <2> SUFFICES ASSUME NEW c \in new, NEW s \in ToSet(stack')
               PROVE  c \notin Path[s] /\ s \notin Path[c] /\ c # s
    OBVIOUS
  <2>1. c \notin Path[s]
    BY <1>4, <1>5, <1>6, <1>7, PathInPath
  <2>2. c # s
    BY <1>6, <2>1, PathBasics
  <2> QED
    BY <1>5, <1>6, <2>1, <2>2
<1>9. \A b, c \in new : b \in Path[c] => b = c
  BY <1>5
<1>10. Walk'
  <2>1. unread' \cap ToSet(stack') = {}
    BY <1>1, <1>8
  <2>2. \A a, b \in ToSet(stack') : a \in Path[b] => a = b
    BY <1>3 DEF Walk
  <2>3. ASSUME NEW a \in Pending', NEW b \in Pending', a \in Path[b]
        PROVE  a = b
    <3>1. a \in new \cup ToSet(stack') /\ b \in new \cup ToSet(stack')
      BY <1>1 DEF Pending
    <3> QED
      BY <1>8, <1>9, <2>2, <2>3, <3>1
  <2> QED
    BY <1>1, <1>2, <1>3, <1>4, <2>1, <2>3 DEF Walk
<1>11. ASSUME NEW e \in Expected
       PROVE  \/ Path[e] \cap new # {} \/ Path[Parent[e]] \cap ToSet(stack') # {}
              <=> Path[Parent[e]] \cap ToSet(stack) # {}
  <2>1. e \in Entries \ {Root} /\ Parent[e] \in Entries
    BY ExpectedTyped, ScanAssumption
  <2>2. ASSUME NEW c \in Path[e] \cap new PROVE d \in Path[Parent[e]]
    <3>1. c \in Entries \ {Root} /\ Parent[c] = d
      BY <1>4, <2>2
    <3>2. CASE c = e
      BY <2>1, <3>1, <3>2, PathBasics
    <3>3. CASE c # e
      BY <2>1, <2>2, <3>1, <3>3, PathStep, PathBasics DEF Closed
    <3> QED
      BY <3>2, <3>3
  <2>3. ASSUME d \in Path[Parent[e]] PROVE Path[e] \cap new # {}
    <3>1. ~TooDeep(d)
      BY <2>3 DEF Expected, Unwalked
    <3>2. PICK c \in Path[e] \ {Root} : Parent[c] = d
      BY <2>1, <2>3, ChildBetween
    <3>3. c \in Children(d)
      BY <2>1, <3>2, PathBasics DEF Expected, Children
    <3> QED
      BY <3>1, <3>2, <3>3
  <2> QED
    BY <1>2, <2>2, <2>3
<1>12. Ahead' = Ahead
  BY <1>1, <1>11 DEF Ahead
<1> QED
  BY <1>1, <1>2, <1>4, <1>10, <1>12

\* What is below an entry still to be read is ahead, and nowhere else.
LEMMA BelowAhead ==
  ASSUME ScanTypes, Walk, NEW e \in Expected, Path[e] \cap unread # {}
  PROVE  e \in Ahead /\ Path[Parent[e]] \cap ToSet(stack) = {}
<1>1. e \in Entries \ {Root} /\ Path[e] = {e} \cup Path[Parent[e]]
  BY ExpectedTyped, PathStep
<1>2. PICK u \in unread : u \in Path[e]
  OBVIOUS
<1>3. ASSUME NEW s \in ToSet(stack), s \in Path[Parent[e]] PROVE FALSE
  <2>1. s \in Path[e]
    BY <1>1, <1>3
  <2>2. u \in Path[s] \/ s \in Path[u]
    BY <1>1, <1>2, <2>1, Chain
  <2> QED
    BY <1>2, <1>3, <2>2 DEF Walk, Pending
<1> QED
  BY <1>3 DEF Ahead

LEMMA PutEntryWalk ==
  ASSUME ScanTypes, Walk, NEW e \in unread,
         unread' = unread \ {e}, producer' = producer,
         stack' = IF e \in Dirs /\ Recursive THEN Append(stack, e) ELSE stack
  PROVE  /\ stack' \in Seq(Dirs) /\ unread' \subseteq Entries \ {Root}
         /\ Walk' /\ e \in Ahead /\ Ahead' = Ahead \ {e}
<1>1. /\ e \in Expected /\ e \in Entries \ {Root} /\ producer # "ended"
      /\ e \notin ToSet(stack) /\ e \in Path[e]
  BY PathBasics DEF Walk, ScanTypes
<1>2. /\ stack' \in Seq(Dirs) /\ Once(stack')
      /\ ToSet(stack') =
           ToSet(stack) \cup (IF e \in Dirs /\ Recursive THEN {e} ELSE {})
  <2>1. CASE e \in Dirs /\ Recursive
    BY <1>1, <2>1, Appended DEF ScanTypes, Walk
  <2>2. CASE ~(e \in Dirs /\ Recursive)
    BY <2>2 DEF ScanTypes, Walk
  <2> QED
    BY <2>1, <2>2
<1>3. Walk'
  <2>1. Pending' \subseteq Pending
    BY <1>2 DEF Pending
  <2> QED
    BY <1>1, <1>2, <2>1 DEF Walk
<1>4. e \in Ahead /\ e \notin Ahead'
  <2>1. Path[Parent[e]] \cap ToSet(stack) = {}
    BY <1>1, BelowAhead
  <2>2. Path[e] \cap unread' = {}
    BY <1>1 DEF Walk, Pending
  <2>3. e \notin Path[Parent[e]]
    BY <1>1, NoCycle
  <2> QED
    BY <1>1, <1>2, <2>1, <2>2, <2>3 DEF Ahead
<1>5. ASSUME NEW x \in Expected, x # e
      PROVE  \/ Path[x] \cap unread' # {} \/ Path[Parent[x]] \cap ToSet(stack') # {}
             <=> \/ Path[x] \cap unread # {}
                 \/ Path[Parent[x]] \cap ToSet(stack) # {}
  <2>1. x \in Entries \ {Root} /\ Path[x] = {x} \cup Path[Parent[x]]
    BY ExpectedTyped, PathStep
  <2>2. ASSUME e \in Path[x]
        PROVE  e \in Path[Parent[x]] /\ e \in Dirs /\ Recursive
    <3>1. e \in Path[Parent[x]]
      BY <1>5, <2>1, <2>2
    <3>2. PICK c \in Path[x] \ {Root} : Parent[c] = e
      BY <2>1, <3>1, ChildBetween
    <3>3. c \in Entries \ {Root}
      BY <2>1, <3>2, PathBasics
    <3>4. Recursive
      BY <1>1, <3>1 DEF Expected, Unwalked
    <3> QED
      BY <3>1, <3>2, <3>3, <3>4, ScanAssumption
  <2> QED
    BY <1>2, <2>1, <2>2
<1>6. Ahead' = Ahead \ {e}
  BY <1>4, <1>5 DEF Ahead
<1> QED
  BY <1>1, <1>2, <1>3, <1>4, <1>6 DEF ScanTypes

LEMMA GivenUpWalk ==
  ASSUME ScanTypes, Walk, unread # {}, unread' = {},
         stack' = stack, producer' = producer
  PROVE  /\ Walk' /\ Below(unread) \cap Expected \subseteq Ahead
         /\ Ahead' = Ahead \ Below(unread)
<1>1. Walk'
  BY DEF Walk, Pending
<1>2. Below(unread) \cap Expected \subseteq Ahead
  BY BelowAhead DEF Below
<1>3. ASSUME NEW e \in Expected
      PROVE  Path[Parent[e]] \cap ToSet(stack) # {}
             <=> e \in Ahead /\ Path[e] \cap unread = {}
  BY BelowAhead DEF Ahead
<1>4. Ahead' = Ahead \ Below(unread)
  BY <1>3, ExpectedTyped DEF Ahead, Below
<1> QED
  BY <1>1, <1>2, <1>4

-----------------------------------------------------------------------------
(* The steps of the producer.                                              *)

LEMMA Distinct ==
  /\ Sentinel \notin Entries
  /\ {"get", "left", "failed"} \cap (Entries \cup {Sentinel}) = {}
  /\ Root \in Entries /\ Root \in Dirs /\ Dirs \subseteq Entries
  /\ Workers # {}
BY ScanAssumption

\* What the workers, the request and the sentinel are left with when an entry
\* or nothing goes into the queue.
LEMMA ProducerStep ==
  ASSUME ScanInv, producer = "walking", producer' = "walking",
         UNCHANGED <<worker, listed, requestVars>>,
         stack' \in Seq(Dirs), unread' \subseteq Entries \ {Root},
         lost' \subseteq Entries, Walk', Places',
         \/ queue' = queue
         \/ \E e \in Entries : e \notin Queued /\ queue' = Append(queue, e)
  PROVE  ScanInv'
<1> USE Distinct
<1>1. /\ ScanTypes /\ OneSentinel /\ LeftLast /\ Answered
      /\ queue \in Seq(Entries \cup {Sentinel})
  BY DEF ScanInv, ScanTypes
<1>2. /\ Sentinel \notin ToSet(queue) /\ Once(queue)
      /\ \A w \in Workers : worker[w] # Sentinel
  BY <1>1 DEF OneSentinel
<1>3. /\ queue' \in Seq(Entries \cup {Sentinel}) /\ Once(queue')
      /\ Sentinel \notin ToSet(queue')
  <2>1. CASE queue' = queue
    BY <1>1, <1>2, <2>1
  <2>2. ASSUME NEW e \in Entries, e \notin Queued, queue' = Append(queue, e)
        PROVE  /\ queue' \in Seq(Entries \cup {Sentinel}) /\ Once(queue')
               /\ Sentinel \notin ToSet(queue')
    <3>1. e \notin ToSet(queue) /\ e # Sentinel
      BY <2>2 DEF Queued
    <3> QED
      BY <1>1, <1>2, <2>2, <3>1, Appended
  <2> QED
    BY <2>1, <2>2
<1>4. \A i \in 1..Len(queue') : queue'[i] # Sentinel
  BY <1>3, ToSetOf
<1>5. ScanTypes'
  BY <1>1, <1>3 DEF ScanTypes, requestVars
<1>6. OneSentinel'
  BY <1>1, <1>2, <1>3, <1>4 DEF OneSentinel
<1>7. LeftLast'
  <2>1. \/ phase = "cancelled" \/ \A w \in Workers : worker[w] # "left"
    BY <1>1 DEF LeftLast
  <2> QED
    BY <1>1, <2>1 DEF LeftLast, requestVars
<1>8. Answered'
  BY <1>1 DEF Answered, requestVars, Manifests
<1> QED
  BY <1>5, <1>6, <1>7, <1>8 DEF ScanInv

LEMMA OpenDirInv == ASSUME ScanInv, OpenDir PROVE ScanInv'
<1>1. /\ producer = "walking" /\ producer' = "walking" /\ queue' = queue
      /\ UNCHANGED <<worker, listed, lost, requestVars>>
  BY DEF OpenDir, ScanInv, Walk, ScanTypes
<1>2. /\ stack' \in Seq(Dirs) /\ unread' \subseteq Entries \ {Root}
      /\ Walk' /\ Ahead' = Ahead
  BY OpenDirWalk DEF ScanInv
<1>3. /\ Queued' = Queued /\ InHand' = InHand /\ Listed' = Listed
      /\ Missed' = Missed /\ phase' = phase
  BY <1>1 DEF Queued, InHand, Listed, Missed, requestVars
<1>4. Places'
  BY <1>2, <1>3 DEF ScanInv, Places, Apart
<1> QED
  BY <1>1, <1>2, <1>4, ProducerStep DEF ScanInv, ScanTypes

LEMMA PutEntryInv ==
  ASSUME ScanInv, NEW e \in Entries, PutEntry(e) PROVE ScanInv'
<1> USE Distinct
<1>1. /\ e \in unread /\ producer = "walking" /\ producer' = "walking"
      /\ queue' = Append(queue, e) /\ UNCHANGED <<worker, listed, requestVars>>
      /\ e \in Expected /\ lost \subseteq Entries
      /\ queue \in Seq(Entries \cup {Sentinel})
      /\ ScanTypes /\ Walk
  BY DEF PutEntry, ScanInv, Walk, ScanTypes
<1>2. e \in Ahead
  BY <1>1, BelowAhead, PathBasics
<1>3. e \notin Queued /\ e \notin Missed
  BY <1>2 DEF ScanInv, Places, Apart
<1>4. /\ Queued' = Queued \cup {e} /\ InHand' = InHand /\ Listed' = Listed
      /\ phase' = phase
  BY <1>1, Appended DEF Queued, InHand, Listed, requestVars
<1>5. ASSUME unread' = unread \ {e}, lost' = lost,
             stack' = IF e \in Dirs /\ Recursive THEN Append(stack, e) ELSE stack
      PROVE  ScanInv'
  <2>1. /\ stack' \in Seq(Dirs) /\ unread' \subseteq Entries \ {Root}
        /\ Walk' /\ Ahead' = Ahead \ {e}
    BY <1>1, <1>5, PutEntryWalk
  <2>2. Missed' = Missed
    BY <1>5 DEF Missed
  <2>3. Places'
    BY <1>2, <1>4, <2>1, <2>2 DEF ScanInv, Places, Apart
  <2> QED
    BY <1>1, <1>3, <1>5, <2>1, <2>3, ProducerStep
<1>6. ASSUME unread' = {}, lost' = lost \cup (Below(unread) \ {e}),
             stack' = stack
      PROVE  ScanInv'
  <2>1. /\ Walk' /\ Below(unread) \cap Expected \subseteq Ahead
        /\ Ahead' = Ahead \ Below(unread)
    BY <1>1, <1>6, GivenUpWalk
  <2>2. /\ Missed' = Missed \cup ((Below(unread) \cap Expected) \ {e})
        /\ lost' \subseteq Entries
    BY <1>1, <1>6 DEF Missed, Below
  <2>3. e \in Below(unread)
    BY <1>1, PathBasics DEF Below
  <2>4. Places'
    BY <1>2, <1>4, <2>1, <2>2, <2>3 DEF ScanInv, Places, Apart
  <2>5. stack' \in Seq(Dirs) /\ unread' \subseteq Entries \ {Root}
    BY <1>1, <1>6 DEF ScanTypes
  <2> QED
    BY <1>1, <1>3, <2>1, <2>2, <2>4, <2>5, ProducerStep
<1> QED
  BY <1>5, <1>6 DEF PutEntry

LEMMA GiveUpInv == ASSUME ScanInv, GiveUp PROVE ScanInv'
<1>1. /\ unread # {} /\ unread' = {} /\ stack' = stack /\ queue' = queue
      /\ lost' = lost \cup Below(unread)
      /\ producer = "walking" /\ producer' = "walking"
      /\ UNCHANGED <<worker, listed, requestVars>>
      /\ ScanTypes /\ Walk /\ phase' = phase
  BY DEF GiveUp, ScanInv, Walk, ScanTypes, requestVars
<1>2. /\ Walk' /\ Below(unread) \cap Expected \subseteq Ahead
      /\ Ahead' = Ahead \ Below(unread)
  BY <1>1, GivenUpWalk
<1>3. /\ Queued' = Queued /\ InHand' = InHand /\ Listed' = Listed
      /\ Missed' = Missed \cup (Below(unread) \cap Expected)
      /\ lost' \subseteq Entries
  BY <1>1 DEF Queued, InHand, Listed, Missed, Below, ScanTypes
<1>4. Places'
  BY <1>1, <1>2, <1>3 DEF ScanInv, Places, Apart
<1> QED
  BY <1>1, <1>2, <1>3, <1>4, ProducerStep DEF ScanTypes

LEMMA PutSentinelInv == ASSUME ScanInv, PutSentinel PROVE ScanInv'
<1> USE Distinct
<1>1. /\ producer = "walking" /\ unread = {} /\ stack = <<>>
      /\ queue' = Append(queue, Sentinel) /\ producer' = "ended"
      /\ UNCHANGED <<stack, unread, worker, listed, lost, requestVars>>
      /\ queue \in Seq(Entries \cup {Sentinel})
      /\ ScanTypes /\ Walk /\ phase' = phase
  BY DEF PutSentinel, ScanInv, ScanTypes, requestVars
<1>2. /\ Sentinel \notin ToSet(queue) /\ Once(queue)
      /\ \A w \in Workers : worker[w] # Sentinel
  BY <1>1 DEF ScanInv, OneSentinel
<1>3. /\ queue' \in Seq(Entries \cup {Sentinel}) /\ Once(queue')
      /\ ToSet(queue') = ToSet(queue) \cup {Sentinel}
      /\ Len(queue') = Len(queue) + 1
      /\ \A i \in 1..Len(queue) : queue'[i] = queue[i] /\ queue[i] # Sentinel
      /\ Len(queue) \in Nat
  BY <1>1, <1>2, Appended, ToSetOf
<1>4. Walk' /\ Ahead' = Ahead
  BY <1>1 DEF Walk, Pending, Ahead
<1>5. Places'
  <2>1. /\ Queued' = Queued /\ InHand' = InHand /\ Listed' = Listed
        /\ Missed' = Missed
    BY <1>1, <1>3 DEF Queued, InHand, Listed, Missed
  <2> QED
    BY <1>1, <1>4, <2>1 DEF ScanInv, Places, Apart
<1>6. ScanTypes'
  BY <1>1, <1>3 DEF ScanTypes, requestVars
<1>7. OneSentinel'
  <2>1. \A i \in 1..Len(queue') : queue'[i] = Sentinel => i = Len(queue')
    BY <1>3
  <2> QED
    BY <1>1, <1>2, <1>3, <2>1 DEF ScanInv, OneSentinel
<1>8. LeftLast'
  <2>1. phase # "cancelled" => \A w \in Workers : worker[w] # "left"
    BY <1>1 DEF ScanInv, LeftLast
  <2> QED
    BY <1>1, <2>1 DEF ScanInv, LeftLast
<1>9. Answered'
  BY <1>1 DEF ScanInv, Answered, requestVars, Manifests
<1> QED
  BY <1>4, <1>5, <1>6, <1>7, <1>8, <1>9 DEF ScanInv

-----------------------------------------------------------------------------
(* The steps of the workers.                                               *)

WorkerValues == Entries \cup {Sentinel, "get", "left", "failed"}

\* What is in the hands of the workers when one of them has x instead.
LEMMA HandChange ==
  ASSUME ScanTypes, OneSentinel, NEW w \in Workers, NEW x \in WorkerValues,
         worker' = [worker EXCEPT ![w] = x]
  PROVE  /\ worker' \in [Workers -> WorkerValues] /\ worker'[w] = x
         /\ \A v \in Workers \ {w} : worker'[v] = worker[v]
         /\ InHand' = (InHand \ {worker[w]}) \cup ({x} \cap Entries)
<1>1. /\ worker' \in [Workers -> WorkerValues] /\ worker'[w] = x
      /\ \A v \in Workers \ {w} : worker'[v] = worker[v]
  BY DEF ScanTypes, WorkerValues
<1>2. \A v \in Workers \ {w} : worker[v] \in Entries => worker[v] # worker[w]
  BY DEF OneSentinel
<1>3. InHand' = (InHand \ {worker[w]}) \cup ({x} \cap Entries)
  BY <1>1, <1>2 DEF InHand
<1> QED
  BY <1>1, <1>3

LEMMA TakeInv == ASSUME ScanInv, NEW w \in Workers, Take(w) PROVE ScanInv'
<1> USE Distinct
<1> DEFINE x == Head(queue)
<1>1. /\ worker[w] = "get" /\ queue # <<>> /\ queue' = Tail(queue)
      /\ worker' = [worker EXCEPT ![w] = x]
      /\ UNCHANGED <<walkVars, listed, lost, requestVars>>
      /\ queue \in Seq(Entries \cup {Sentinel}) /\ Once(queue)
      /\ ScanTypes /\ Walk /\ OneSentinel /\ Places /\ LeftLast
      /\ phase' = phase /\ producer' = producer
  BY DEF Take, Becomes, ScanInv, ScanTypes, OneSentinel, requestVars, walkVars
<1>2. /\ x = queue[1] /\ x \in Entries \cup {Sentinel} /\ 1 \in 1..Len(queue)
      /\ queue' \in Seq(Entries \cup {Sentinel}) /\ Len(queue') = Len(queue) - 1
      /\ \A i \in 1..Len(queue') : queue'[i] = queue[i + 1]
      /\ Once(queue') /\ ToSet(queue) = ToSet(queue') \cup {x}
      /\ x \notin ToSet(queue') /\ Len(queue) \in Nat
  BY <1>1, FirstLeaves, LenProperties
<1> HIDE DEF x
<1>3. /\ worker' \in [Workers -> WorkerValues] /\ worker'[w] = x
      /\ \A v \in Workers \ {w} : worker'[v] = worker[v]
      /\ InHand' = InHand \cup ({x} \cap Entries)
  <2>1. x \in WorkerValues
    BY <1>2 DEF WorkerValues
  <2>2. "get" \notin InHand
    BY DEF InHand
  <2>3. /\ worker' \in [Workers -> WorkerValues] /\ worker'[w] = x
        /\ \A v \in Workers \ {w} : worker'[v] = worker[v]
        /\ InHand' = (InHand \ {worker[w]}) \cup ({x} \cap Entries)
    BY <1>1, <2>1, HandChange
  <2> QED
    BY <1>1, <2>2, <2>3
<1>4. Walk' /\ Ahead' = Ahead
  BY <1>1 DEF Walk, Pending, Ahead, walkVars
<1>5. Places'
  <2>1. Listed' = Listed /\ Missed' = Missed
    BY <1>1 DEF Listed, Missed
  <2>2. CASE x = Sentinel
    <3>1. Queued' = Queued /\ InHand' = InHand
      BY <1>2, <1>3, <2>2 DEF Queued
    <3> QED
      BY <1>1, <1>4, <2>1, <3>1 DEF Places, Apart
  <2>3. CASE x \in Entries
    <3>1. /\ Queued' = Queued \ {x} /\ x \in Queued
          /\ InHand' = InHand \cup {x}
      BY <1>2, <1>3, <2>3 DEF Queued
    <3> QED
      BY <1>1, <1>4, <2>1, <3>1 DEF Places, Apart
  <2> QED
    BY <1>2, <2>2, <2>3
<1>6. ScanTypes'
  BY <1>1, <1>2, <1>3 DEF ScanTypes, WorkerValues, requestVars, walkVars
<1>7. OneSentinel'
  <2>1. producer = "walking" => Sentinel \notin ToSet(queue)
    BY <1>1 DEF OneSentinel
  <2>2. \A v \in Workers \ {w} : worker[v] # Sentinel /\ worker[v] # x
    <3>1. x \in Entries => x \notin InHand
      BY <1>1, <1>2 DEF Places, Apart, Queued
    <3> QED
      BY <1>1, <1>2, <3>1 DEF OneSentinel, InHand
  <2>3. x = Sentinel => queue' = <<>>
    <3>1. x = Sentinel => 1 = Len(queue)
      BY <1>1, <1>2 DEF OneSentinel
    <3>2. x = Sentinel => Len(queue') = 0
      <4>1. \A n, m \in Nat : n = 1 /\ m = n - 1 => m = 0
        OBVIOUS
      <4>2. Len(queue) \in Nat /\ Len(queue') \in Nat
        BY <1>2, LenProperties
      <4>3. Len(queue') = Len(queue) - 1
        BY <1>2
      <4> QED
        BY <3>1, <4>1, <4>2, <4>3
    <3> QED
      BY <1>2, <3>2, EmptySeq
  <2>4. \A i \in 1..Len(queue') : queue'[i] = Sentinel => i = Len(queue')
    <3> SUFFICES ASSUME NEW i \in 1..Len(queue'), queue'[i] = Sentinel
                 PROVE  i = Len(queue')
      OBVIOUS
    <3>1. i + 1 \in 1..Len(queue) /\ queue[i + 1] = Sentinel
      BY <1>2
    <3>2. i + 1 = Len(queue)
      BY <1>1, <3>1 DEF OneSentinel
    <3> QED
      BY <1>2, <3>2
  <2>5. \A v, u \in Workers :
          worker'[v] = worker'[u] /\ worker'[v] \in Entries \cup {Sentinel} => v = u
    BY <1>1, <1>3, <2>2 DEF OneSentinel
  <2>6. producer = "walking" => \A v \in Workers : worker[v] # Sentinel
    BY <1>1 DEF OneSentinel
  <2> QED
    BY <1>1, <1>2, <1>3, <2>1, <2>2, <2>3, <2>4, <2>5, <2>6 DEF OneSentinel
<1>8. LeftLast'
  <2>1. phase \notin {"sealing", "answered"}
    BY <1>1 DEF LeftLast
  <2>2. \A v \in Workers : worker'[v] = "left" => worker[v] = "left"
    BY <1>2, <1>3
  <2>3. Queued' \subseteq Queued
    BY <1>2 DEF Queued
  <2> QED
    BY <1>1, <2>1, <2>2, <2>3 DEF LeftLast
<1>9. Answered'
  BY <1>1 DEF ScanInv, Answered, requestVars, Manifests
<1> QED
  BY <1>4, <1>5, <1>6, <1>7, <1>8, <1>9 DEF ScanInv

LEMMA TimeOutInv == ASSUME ScanInv, NEW w \in Workers, TimeOut(w) PROVE ScanInv'
<1> USE Distinct
<1>1. /\ worker[w] = "get" /\ queue = <<>> /\ producer = "ended"
      /\ worker' = [worker EXCEPT ![w] = "left"]
      /\ UNCHANGED <<walkVars, queue, listed, lost, requestVars>>
      /\ ScanTypes /\ Walk /\ OneSentinel /\ Places /\ LeftLast
      /\ phase' = phase /\ producer' = producer
  BY DEF TimeOut, Becomes, ScanInv, requestVars, walkVars
<1>2. /\ worker' \in [Workers -> WorkerValues] /\ worker'[w] = "left"
      /\ \A v \in Workers \ {w} : worker'[v] = worker[v]
      /\ InHand' = InHand
  BY <1>1, HandChange DEF WorkerValues, InHand
<1>3. Walk' /\ Ahead' = Ahead
  BY <1>1 DEF Walk, Pending, Ahead, walkVars
<1>4. Places'
  <2>1. Queued' = Queued /\ Listed' = Listed /\ Missed' = Missed
    BY <1>1 DEF Queued, Listed, Missed
  <2> QED
    BY <1>1, <1>2, <1>3, <2>1 DEF Places, Apart
<1>5. ScanTypes'
  BY <1>1, <1>2 DEF ScanTypes, WorkerValues, requestVars, walkVars
<1>6. OneSentinel'
  BY <1>1, <1>2 DEF OneSentinel
<1>7. LeftLast'
  <2>1. Queued' = {}
    BY <1>1 DEF Queued, ToSet
  <2> QED
    BY <1>1, <1>2, <2>1 DEF LeftLast
<1>8. Answered'
  BY <1>1 DEF ScanInv, Answered, requestVars, Manifests
<1> QED
  BY <1>3, <1>4, <1>5, <1>6, <1>7, <1>8 DEF ScanInv

LEMMA PassOnInv == ASSUME ScanInv, NEW w \in Workers, PassOn(w) PROVE ScanInv'
<1> USE Distinct
<1>1. /\ worker[w] = Sentinel /\ queue' = Append(queue, Sentinel)
      /\ worker' = [worker EXCEPT ![w] = "left"]
      /\ UNCHANGED <<walkVars, listed, lost, requestVars>>
      /\ ScanTypes /\ Walk /\ OneSentinel /\ Places /\ LeftLast
      /\ phase' = phase /\ producer' = producer
  BY DEF PassOn, Becomes, ScanInv, requestVars, walkVars
<1>2. /\ queue = <<>> /\ producer = "ended"
      /\ \A v \in Workers \ {w} : worker[v] # Sentinel
  BY <1>1 DEF OneSentinel, ScanTypes
<1>3. /\ queue' = <<Sentinel>> /\ queue' \in Seq(Entries \cup {Sentinel})
      /\ Len(queue') = 1 /\ queue'[1] = Sentinel
  BY <1>1, <1>2
<1>4. /\ worker' \in [Workers -> WorkerValues] /\ worker'[w] = "left"
      /\ \A v \in Workers \ {w} : worker'[v] = worker[v]
      /\ InHand' = InHand
  <2>1. "left" \in WorkerValues /\ {"left"} \cap Entries = {}
    BY DEF WorkerValues
  <2>2. Sentinel \notin InHand
    BY DEF InHand
  <2>3. /\ worker' \in [Workers -> WorkerValues] /\ worker'[w] = "left"
        /\ \A v \in Workers \ {w} : worker'[v] = worker[v]
        /\ InHand' = (InHand \ {worker[w]}) \cup ({"left"} \cap Entries)
    BY <1>1, <2>1, HandChange
  <2> QED
    BY <1>1, <2>1, <2>2, <2>3
<1>5. Walk' /\ Ahead' = Ahead
  BY <1>1 DEF Walk, Pending, Ahead, walkVars
<1>6. Queued = {} /\ Queued' = {}
  BY <1>2, <1>3, ToSetOf DEF Queued, ToSet
<1>7. Places'
  <2>1. Listed' = Listed /\ Missed' = Missed
    BY <1>1 DEF Listed, Missed
  <2> QED
    BY <1>1, <1>4, <1>5, <1>6, <2>1 DEF Places, Apart
<1>8. ScanTypes'
  BY <1>1, <1>3, <1>4 DEF ScanTypes, WorkerValues, requestVars, walkVars
<1>9. OneSentinel'
  <2>1. Once(queue') /\ \A i \in 1..Len(queue') : i = Len(queue')
    BY <1>3 DEF Once
  <2>2. \A v \in Workers : worker'[v] # Sentinel
    BY <1>2, <1>4
  <2>3. producer' # "walking"
    BY <1>1, <1>2
  <2>4. \A v, u \in Workers :
          worker'[v] = worker'[u] /\ worker'[v] \in Entries \cup {Sentinel} => v = u
    BY <1>1, <1>4 DEF OneSentinel
  <2> QED
    BY <2>1, <2>2, <2>3, <2>4 DEF OneSentinel
<1>10. LeftLast'
  BY <1>1, <1>2, <1>4, <1>6 DEF LeftLast
<1>11. Answered'
  BY <1>1 DEF ScanInv, Answered, requestVars, Manifests
<1> QED
  BY <1>5, <1>7, <1>8, <1>9, <1>10, <1>11 DEF ScanInv

LEMMA ListEntryInv ==
  ASSUME ScanInv, NEW w \in Workers, ListEntry(w) PROVE ScanInv'
<1> USE Distinct
<1> DEFINE e == worker[w]
<1>1. /\ e \in Entries /\ UNCHANGED <<walkVars, queue, round, stored, master>>
      /\ ScanTypes /\ Walk /\ OneSentinel /\ Places /\ LeftLast
      /\ producer' = producer
  BY DEF ListEntry, ScanInv, walkVars
<1>2. /\ phase' \in {phase, "failed"} /\ (phase = "cancelled" => phase' = phase)
      /\ phase \notin {"sealing", "answered"}
      /\ phase' \notin {"sealing", "answered"}
  BY <1>1 DEF ListEntry, LeftLast
<1>3. PICK x \in {"get", "failed"} : worker' = [worker EXCEPT ![w] = x]
  BY DEF ListEntry, Becomes
<1>4. /\ worker' \in [Workers -> WorkerValues] /\ worker'[w] = x
      /\ \A v \in Workers \ {w} : worker'[v] = worker[v]
      /\ InHand' = InHand \ {e}
  BY <1>1, <1>3, HandChange DEF WorkerValues
<1>5. Walk' /\ Ahead' = Ahead /\ Queued' = Queued
  BY <1>1 DEF Walk, Pending, Ahead, Queued, walkVars
<1>6. e \in InHand /\ e \in Expected
  BY <1>1 DEF InHand, Places, Apart
<1>7. /\ listed' \in [Entries -> {0, 1}] /\ lost' \subseteq Entries
      /\ \/ Listed' = Listed \cup {e} /\ Missed' = Missed
         \/ Listed' = Listed /\ Missed' = Missed \cup {e}
  <2>1. CASE listed' = [listed EXCEPT ![e] = @ + 1] /\ lost' = lost
    <3>1. listed[e] = 0
      BY <1>1, <1>6 DEF Places, Apart, Listed, ScanTypes
    <3>2. /\ listed' \in [Entries -> {0, 1}] /\ listed'[e] = 1
          /\ \A d \in Entries \ {e} : listed'[d] = listed[d]
      BY <1>1, <2>1, <3>1 DEF ScanTypes
    <3> QED
      BY <1>1, <2>1, <3>2 DEF Listed, Missed, ScanTypes
  <2>2. CASE listed' = listed /\ lost' = lost \cup {e}
    BY <1>1, <1>6, <2>2 DEF Listed, Missed, ScanTypes
  <2> QED
    BY <2>1, <2>2 DEF ListEntry
<1> HIDE DEF e
<1>8. Places'
  BY <1>1, <1>2, <1>4, <1>5, <1>6, <1>7 DEF Places, Apart
<1>9. ScanTypes'
  BY <1>1, <1>4, <1>7 DEF ScanTypes, WorkerValues, walkVars
<1>10. OneSentinel'
  <2>1. \A v, u \in Workers :
          worker'[v] = worker'[u] /\ worker'[v] \in Entries \cup {Sentinel} => v = u
    BY <1>1, <1>4 DEF OneSentinel
  <2>2. \A v \in Workers : worker'[v] = Sentinel => worker[v] = Sentinel
    BY <1>4
  <2> QED
    BY <1>1, <2>1, <2>2 DEF OneSentinel
<1>11. LeftLast'
  <2>1. \A v \in Workers : worker'[v] = "left" => worker[v] = "left"
    BY <1>4
  <2> QED
    BY <1>1, <1>2, <1>5, <2>1 DEF LeftLast
<1>12. Answered'
  BY <1>2 DEF Answered
<1> QED
  BY <1>5, <1>8, <1>9, <1>10, <1>11, <1>12 DEF ScanInv

-----------------------------------------------------------------------------
(* The steps of the request.                                               *)

\* When every worker has left, each expected entry is listed or lost.
LEMMA GatheredAll ==
  ASSUME ScanInv, producer = "ended", \A w \in Workers : worker[w] = "left",
         phase # "cancelled"
  PROVE  /\ Ahead = {} /\ Queued = {} /\ InHand = {}
         /\ Listed = Expected \ lost /\ Manifests = {Parent[e] : e \in Listed}
<1> USE Distinct
<1>1. unread = {} /\ ToSet(stack) = {}
  BY DEF ScanInv, Walk, ToSet
<1>2. Ahead = {} /\ InHand = {}
  BY <1>1 DEF Ahead, InHand
<1>3. Queued = {}
  BY DEF ScanInv, LeftLast
<1>4. Listed = Expected \ lost
  BY <1>2, <1>3 DEF ScanInv, Places, Apart, Missed
<1>5. \A e \in Entries : listed[e] > 0 <=> listed[e] = 1
  BY DEF ScanInv, ScanTypes
<1>6. Manifests = {Parent[e] : e \in Listed}
  BY <1>5 DEF Manifests, Listed
<1> QED
  BY <1>2, <1>3, <1>4, <1>6

LEMMA ManifestsTyped == ASSUME ScanInv PROVE Manifests \subseteq Dirs
<1>1. Listed \subseteq Expected
  BY DEF ScanInv, Places, Apart
<1>2. \A e \in Entries : listed[e] > 0 => e \in Entries \ {Root}
  BY <1>1, ExpectedTyped DEF Listed, ScanInv, ScanTypes
<1> QED
  BY <1>2, ScanAssumption DEF Manifests

\* The beginning of either round.
Begins ==
  /\ stack = <<Root>> /\ unread = {} /\ producer = "walking" /\ queue = <<>>
  /\ worker = [w \in Workers |-> "get"] /\ listed = [e \in Entries |-> 0]
  /\ lost = {} /\ phase = "scanning" /\ stored \in Seq(Dirs)

LEMMA BeginsInv == Begins => ScanInv
<1> USE Distinct DEF Begins
<1> SUFFICES ASSUME Begins PROVE ScanInv
  OBVIOUS
<1>1. ToSet(stack) = {Root} /\ ToSet(queue) = {} /\ Len(stack) = 1
  BY DEF ToSet
<1>2. ScanTypes
  BY DEF ScanTypes
<1>3. Walk
  BY <1>1 DEF Walk, Pending, Once
<1>4. Places
  <2>1. Ahead = Expected
    BY <1>1, PathBasics, ScanAssumption DEF Ahead, Expected
  <2>2. Queued = {} /\ InHand = {} /\ Listed = {} /\ Missed = {}
    BY <1>1 DEF Queued, InHand, Listed, Missed
  <2> QED
    BY <2>1, <2>2 DEF Places, Apart
<1>5. OneSentinel
  BY <1>1 DEF OneSentinel, Once
<1>6. LeftLast /\ Answered
  BY DEF LeftLast, Answered
<1> QED
  BY <1>2, <1>3, <1>4, <1>5, <1>6 DEF ScanInv

\* Steps of the request that leave the scan alone.
LEMMA RequestStep ==
  ASSUME ScanInv, UNCHANGED <<walkVars, queue, worker, listed, lost>>,
         stored' \in Seq(Dirs), phase = "cancelled" <=> phase' = "cancelled",
         Answered', LeftLast'
  PROVE  ScanInv'
<1>1. Walk' /\ Ahead' = Ahead
  BY DEF ScanInv, Walk, Pending, Ahead, walkVars
<1>2. Queued' = Queued /\ InHand' = InHand /\ Listed' = Listed /\ Missed' = Missed
  BY DEF Queued, InHand, Listed, Missed
<1>3. Places'
  BY <1>1, <1>2 DEF ScanInv, Places, Apart
<1>4. ScanTypes' /\ OneSentinel'
  BY DEF ScanInv, ScanTypes, OneSentinel, walkVars
<1> QED
  BY <1>1, <1>3, <1>4 DEF ScanInv

LEMMA RequestInv == ASSUME ScanInv, Request PROVE ScanInv'
<1> USE Distinct
<1>1. CASE ScanAgain
  <2>1. Begins'
    BY <1>1 DEF ScanAgain, Gathered, ScanInv, Walk, ScanTypes, Begins
  <2> QED
    BY <2>1, BeginsInv, PTL
<1>2. CASE StartSealing
  <2>1. /\ UNCHANGED <<walkVars, queue, worker, listed, lost, stored>>
        /\ phase = "scanning" /\ phase' = "sealing" /\ producer = "ended"
        /\ \A w \in Workers : worker[w] = "left"
    BY <1>2 DEF StartSealing, Gathered, Ends
  <2>2. Queued = {} /\ Queued' = Queued
    BY <2>1, GatheredAll DEF Queued
  <2>3. LeftLast' /\ Answered' /\ stored' \in Seq(Dirs)
    BY <2>1, <2>2 DEF LeftLast, Answered, ScanInv, ScanTypes, walkVars
  <2> QED
    BY <2>1, <2>3, RequestStep
<1>3. CASE SealManifest
  <2>1. /\ UNCHANGED <<walkVars, queue, worker, listed, lost, phase>>
        /\ phase = "sealing"
    BY <1>3 DEF SealManifest
  <2>2. PICK d \in Manifests : stored' = Append(stored, d)
    BY <1>3 DEF SealManifest
  <2>3. stored' \in Seq(Dirs)
    BY <2>2, ManifestsTyped, Appended DEF ScanInv, ScanTypes
  <2>4. LeftLast' /\ Answered'
    BY <2>1 DEF LeftLast, Answered, ScanInv, walkVars, Queued
  <2> QED
    BY <2>1, <2>3, <2>4, RequestStep
<1>4. CASE SaveMaster
  <2>1. /\ UNCHANGED <<walkVars, queue, worker, listed, lost, stored>>
        /\ phase = "sealing" /\ phase' = "answered"
        /\ Manifests = ToSet(stored) /\ master' = MasterOf(stored)
    BY <1>4 DEF SaveMaster, Ends
  <2>2. master'.shards = stored
    BY <2>1 DEF MasterOf, NoMaster
  <2>3. LeftLast' /\ Answered' /\ stored' \in Seq(Dirs)
    BY <2>1, <2>2
    DEF LeftLast, Answered, ScanInv, ScanTypes, walkVars, Queued, Manifests
  <2> QED
    BY <2>1, <2>3, RequestStep
<1> QED
  BY <1>1, <1>2, <1>3, <1>4 DEF Request

LEMMA RequestFailsInv == ASSUME ScanInv, RequestFails PROVE ScanInv'
<1>1. /\ UNCHANGED <<walkVars, queue, worker, listed, lost, stored>>
      /\ phase \in {"scanning", "sealing"} /\ phase' = "failed"
  BY DEF RequestFails, Gathered, Ends
<1>2. LeftLast' /\ Answered' /\ stored' \in Seq(Dirs)
  BY <1>1 DEF LeftLast, Answered, ScanInv, ScanTypes, walkVars, Queued
<1> QED
  BY <1>1, <1>2, RequestStep

LEMMA CancelScanInv == ASSUME ScanInv, CancelScan PROVE ScanInv'
<1> USE Distinct
<1>1. /\ phase' = "cancelled" /\ worker' = [w \in Workers |-> "left"]
      /\ UNCHANGED <<walkVars, queue, listed, lost, round, stored, master>>
  BY DEF CancelScan
<1>2. Walk' /\ Ahead' = Ahead
  BY <1>1 DEF ScanInv, Walk, Pending, Ahead, walkVars
<1>3. Queued' = Queued /\ InHand' = {} /\ Listed' = Listed /\ Missed' = Missed
  BY <1>1 DEF Queued, InHand, Listed, Missed
<1>4. Places'
  BY <1>1, <1>2, <1>3 DEF ScanInv, Places, Apart
<1>5. ScanTypes'
  BY <1>1 DEF ScanInv, ScanTypes, walkVars
<1>6. OneSentinel'
  BY <1>1 DEF ScanInv, OneSentinel, walkVars
<1>7. LeftLast' /\ Answered'
  BY <1>1 DEF LeftLast, Answered
<1> QED
  BY <1>2, <1>4, <1>5, <1>6, <1>7 DEF ScanInv

LEMMA ScanStepInv == ASSUME ScanInv, [ScanNext]_scanVars PROVE ScanInv'
<1>1. CASE Producer
  BY <1>1, OpenDirInv, PutEntryInv, GiveUpInv, PutSentinelInv DEF Producer
<1>2. ASSUME NEW w \in Workers, Work(w) PROVE ScanInv'
  BY <1>2, TakeInv, TimeOutInv, PassOnInv, ListEntryInv DEF Work
<1>3. CASE Request \/ RequestFails \/ CancelScan
  BY <1>3, RequestInv, RequestFailsInv, CancelScanInv
<1>4. CASE UNCHANGED scanVars
  <2>1. /\ UNCHANGED <<walkVars, queue, worker, listed, lost, stored>>
        /\ phase' = phase /\ master' = master
    BY <1>4 DEF scanVars
  <2>2. LeftLast' /\ Answered' /\ stored' \in Seq(Dirs)
    BY <2>1
    DEF LeftLast, Answered, ScanInv, ScanTypes, walkVars, Queued, Manifests
  <2> QED
    BY <2>1, <2>2, RequestStep
<1> QED
  BY <1>1, <1>2, <1>3, <1>4 DEF ScanNext, Finished

LEMMA ScanInvariant == ScanSpec => []ScanInv
<1>1. ScanInit => ScanInv
  <2>1. ScanInit => stored \in Seq(Dirs)
    BY DEF ScanInit
  <2> QED
    BY <2>1, BeginsInv DEF ScanInit, Begins
<1>2. ScanInv /\ [ScanNext]_scanVars => ScanInv'
  BY ScanStepInv
<1> QED
  BY <1>1, <1>2, PTL DEF ScanSpec

\* A worker that has the sentinel finds the queue empty, whatever its size:
\* _consumer_worker never blocks the event loop with its put.
THEOREM LoopIsNeverBlocked == ScanSpec => []LoopNeverBlocks
<1>1. ScanInv => LoopNeverBlocks
  BY DEF ScanInv, OneSentinel, LoopNeverBlocks
<1> QED
  BY <1>1, ScanInvariant, PTL

\* The manifests of a scan that was not cut short list every entry of the tree
\* that should be found, and that no error of the file system hid, exactly
\* once, whatever order the thread and the workers take.
THEOREM ScansArePartitions == ScanSpec => []ScanIsPartition
<1>1. ScanInv => ScanIsPartition
  <2> SUFFICES ASSUME ScanInv, phase \in {"sealing", "answered"}
               PROVE  \A e \in Entries :
                        listed[e] = IF e \in Expected \ lost THEN 1 ELSE 0
    BY DEF ScanIsPartition
  <2>1. Listed = Expected \ lost
    BY GatheredAll DEF ScanInv, LeftLast
  <2>2. \A e \in Entries : listed[e] \in {0, 1}
    BY DEF ScanInv, ScanTypes
  <2> QED
    BY <2>1, <2>2 DEF Listed
<1> QED
  BY <1>1, ScanInvariant, PTL

\* A scan that was answered has stored a pulse for every directory with such
\* an entry, and its master pulse names them all.
THEOREM MastersAlwaysComplete == ScanSpec => []MasterComplete
<1>1. ScanInv => MasterComplete
  <2> SUFFICES ASSUME ScanInv, phase = "answered"
               PROVE  /\ ToSet(stored) = {Parent[e] : e \in Expected \ lost}
                      /\ master.shards = stored
    BY DEF MasterComplete
  <2>1. Listed = Expected \ lost /\ Manifests = {Parent[e] : e \in Listed}
    BY GatheredAll DEF ScanInv, LeftLast
  <2> QED
    BY <2>1 DEF ScanInv, Answered
<1> QED
  BY <1>1, ScanInvariant, PTL

-----------------------------------------------------------------------------
(* The Merkle tree.  A layer determines the one below it, for lists of the *)
(* same length; there is an induction over the layers in what follows, by  *)
(* the least number for which a claim would fail.                          *)

\* Every set of natural numbers but the empty one has a least member.
LEMMA LeastMember ==
  ASSUME NEW T \in SUBSET Nat, T # {}
  PROVE  \E m \in T : \A k \in T : m <= k
<1> DEFINE R == StrictSubsetOrdering(Nat)
           intervals == {0..n : n \in T}
<1>1. IsWellFoundedOn(R, FiniteSubsetsOf(Nat))
  BY FS_StrictSubsetOrderingWellFounded
<1>2. intervals \subseteq FiniteSubsetsOf(Nat) /\ intervals # {}
  <2>1. \A n \in T : 0..n \in SUBSET Nat /\ IsFiniteSet(0..n)
    BY FS_Interval
  <2> QED
    BY <2>1 DEF FiniteSubsetsOf
<1>3. \E x \in intervals : \A y \in intervals : ~ (<<y, x>> \in R)
  <2> HIDE DEF R, intervals
  <2> QED
    BY <1>1, <1>2, WFMin
<1>4. PICK m \in T : \A k \in T : ~ (<<0..k, 0..m>> \in R)
  BY <1>3
<1>5. ASSUME NEW k \in T, ~(m <= k) PROVE FALSE
  <2>1. 0..k \subseteq 0..m /\ m \in 0..m /\ m \notin 0..k
    BY <1>5
  <2>2. 0..k \in SUBSET Nat /\ 0..m \in SUBSET Nat /\ 0..k # 0..m
    BY <2>1
  <2>3. <<0..k, 0..m>> \in R
    BY <2>1, <2>2 DEF StrictSubsetOrdering
  <2> QED
    BY <1>4, <2>3
<1> QED
  BY <1>5

Leaves(s)    == [i \in 1..Len(s) |-> LeafHash(s[i])]
LayerStep(l) == IF Len(l) > 1 THEN NextLayer(l) ELSE l

\* The layers from the leaves to the n-th.
AreLayers(f, s, n) ==
  f = [k \in 0..n |-> IF k = 0 THEN Leaves(s) ELSE LayerStep(f[k - 1])]

\* Two sequences of the same length.
Alike(a, b) == \E S : a \in Seq(S) /\ b \in Seq(S) /\ Len(a) = Len(b)

LEMMA HalfOf ==
  ASSUME NEW n \in Nat
  PROVE  LET m == n + (n % 2)
         IN  m \div 2 \in Nat /\ m = 2 * (m \div 2)
OBVIOUS

LEMMA PartnerOf ==
  ASSUME NEW h \in Nat, NEW i \in 1..(2 * h)
  PROVE  \E j \in 1..h : i = 2 * j \/ i = 2 * j - 1
<1> DEFINE j == (i + 1) \div 2
<1>1. j \in 1..h /\ (i = 2 * j \/ i = 2 * j - 1)
  OBVIOUS
<1> QED
  BY <1>1

LEMMA PaddedBasics ==
  ASSUME NEW S, NEW a \in Seq(S), Len(a) > 1
  PROVE  /\ Padded(a) \in Seq(S) /\ Len(Padded(a)) = Len(a) + (Len(a) % 2)
         /\ \A i \in 1..Len(a) : Padded(a)[i] = a[i]
<1>1. Len(a) \in Nat /\ a[Len(a)] \in S
  OBVIOUS
<1>2. Len(a) % 2 = 1 \/ Len(a) % 2 = 0
  BY <1>1
<1>3. CASE Len(a) % 2 = 1
  <2>1. Padded(a) = Append(a, a[Len(a)])
    BY <1>3 DEF Padded
  <2> QED
    BY <1>1, <1>3, <2>1, AppendProperties
<1>4. CASE Len(a) % 2 = 0
  <2>1. Padded(a) = a
    BY <1>4 DEF Padded
  <2> QED
    BY <1>1, <1>4, <2>1
<1> QED
  BY <1>2, <1>3, <1>4

\* The next layer is half as long, and every node of it is a pair.
LEMMA NextBasics ==
  ASSUME NEW S, NEW a \in Seq(S), Len(a) > 1
  PROVE  LET h == (Len(a) + (Len(a) % 2)) \div 2
         IN  /\ NextLayer(a) \in Seq(S \X S) /\ Len(NextLayer(a)) = h
             /\ \A j \in 1..h : NextLayer(a)[j] =
                                  <<Padded(a)[2 * j - 1], Padded(a)[2 * j]>>
<1> DEFINE n == Len(a)
           h == (n + (n % 2)) \div 2
<1>1. n \in Nat
  OBVIOUS
<1>2. h \in Nat /\ n + (n % 2) = 2 * h
  BY <1>1, HalfOf
<1>3. /\ Padded(a) \in Seq(S) /\ Len(Padded(a)) = 2 * h
  BY <1>2, PaddedBasics
<1>4. NextLayer(a) =
        [j \in 1..h |-> <<Padded(a)[2 * j - 1], Padded(a)[2 * j]>>]
  <2>1. Len(Padded(a)) \div 2 = h
    BY <1>2, <1>3
  <2> QED
    BY <2>1 DEF NextLayer, NodeHash
<1>5. \A j \in 1..h : 2 * j - 1 \in 1..(2 * h) /\ 2 * j \in 1..(2 * h)
  BY <1>2
<1>6. \A j \in 1..h : Padded(a)[2 * j - 1] \in S /\ Padded(a)[2 * j] \in S
  BY <1>3, <1>5, ElementOfSeq
<1> HIDE DEF h, n
<1>7. NextLayer(a) \in [1..h -> S \X S]
  BY <1>4, <1>6
<1>8. NextLayer(a) \in Seq(S \X S) /\ Len(NextLayer(a)) = h
  BY <1>2, <1>7
<1> QED
  BY <1>4, <1>8 DEF h, n

\* A layer determines the one below it.
LEMMA NextDetermines ==
  ASSUME NEW S, NEW a \in Seq(S), NEW b \in Seq(S), Len(a) = Len(b), Len(a) > 1,
         NextLayer(a) = NextLayer(b)
  PROVE  a = b
<1> DEFINE n == Len(a)
           h == (n + (n % 2)) \div 2
<1>1. n \in Nat
  OBVIOUS
<1>2. h \in Nat /\ n + (n % 2) = 2 * h
  BY <1>1, HalfOf
<1>3. \A j \in 1..h : NextLayer(a)[j] =
                        <<Padded(a)[2 * j - 1], Padded(a)[2 * j]>>
  BY NextBasics
<1>4. \A j \in 1..h : NextLayer(b)[j] =
                        <<Padded(b)[2 * j - 1], Padded(b)[2 * j]>>
  BY NextBasics
<1>5. \A i \in 1..n : Padded(a)[i] = a[i] /\ Padded(b)[i] = b[i]
  BY PaddedBasics
<1>6. n <= 2 * h
  BY <1>1, <1>2
<1> HIDE DEF h
<1>7. ASSUME NEW i \in 1..n PROVE a[i] = b[i]
  <2>1. PICK j \in 1..h : i = 2 * j \/ i = 2 * j - 1
    <3>1. i \in 1..(2 * h)
      BY <1>1, <1>2, <1>6
    <3> QED
      BY <1>2, <3>1, PartnerOf
  <2>2. /\ Padded(a)[2 * j - 1] = Padded(b)[2 * j - 1]
        /\ Padded(a)[2 * j] = Padded(b)[2 * j]
    BY <1>3, <1>4
  <2> QED
    BY <1>5, <2>1, <2>2
<1> QED
  BY <1>7

\* What a layer makes of two lists of the same length.
LEMMA StepAlike ==
  ASSUME NEW a, NEW b, Alike(a, b)
  PROVE  /\ Alike(LayerStep(a), LayerStep(b))
         /\ LayerStep(a) = LayerStep(b) => a = b
<1>1. PICK S : a \in Seq(S) /\ b \in Seq(S) /\ Len(a) = Len(b)
  BY DEF Alike
<1>2. CASE Len(a) > 1
  <2>1. LayerStep(a) = NextLayer(a) /\ LayerStep(b) = NextLayer(b)
    BY <1>1, <1>2 DEF LayerStep
  <2>2. /\ NextLayer(a) \in Seq(S \X S)
        /\ Len(NextLayer(a)) = (Len(a) + (Len(a) % 2)) \div 2
    BY <1>1, <1>2, NextBasics
  <2>3. /\ NextLayer(b) \in Seq(S \X S)
        /\ Len(NextLayer(b)) = (Len(b) + (Len(b) % 2)) \div 2
    BY <1>1, <1>2, NextBasics
  <2>4. Alike(NextLayer(a), NextLayer(b))
    BY <1>1, <2>2, <2>3 DEF Alike
  <2>5. NextLayer(a) = NextLayer(b) => a = b
    BY <1>1, <1>2, NextDetermines
  <2> QED
    BY <2>1, <2>4, <2>5
<1>3. CASE ~(Len(a) > 1)
  BY <1>1, <1>3 DEF LayerStep
<1> QED
  BY <1>2, <1>3

\* There are layers over every list, and the root is the last of them.
LEMMA LayersExist ==
  ASSUME NEW s
  PROVE  \A n \in Nat : \E f : AreLayers(f, s, n)
<1> DEFINE T == {n \in Nat : ~(\E f : AreLayers(f, s, n))}
<1> SUFFICES ASSUME T # {} PROVE FALSE
  OBVIOUS
<1>1. PICK m \in T : \A k \in T : m <= k
  BY LeastMember
<1>2. m # 0
  <2> DEFINE f == [k \in 0..0 |-> Leaves(s)]
  <2>1. AreLayers(f, s, 0)
    BY DEF AreLayers
  <2> QED
    BY <2>1
<1>3. m - 1 \in Nat /\ m - 1 \notin T
  BY <1>1, <1>2
<1>4. PICK f : AreLayers(f, s, m - 1)
  BY <1>3
<1> DEFINE g == [k \in 0..m |-> IF k = m THEN LayerStep(f[m - 1]) ELSE f[k]]
<1>5. \A k \in 0..(m - 1) :
        f[k] = IF k = 0 THEN Leaves(s) ELSE LayerStep(f[k - 1])
  BY <1>4 DEF AreLayers
<1>6. ASSUME NEW k \in 0..m
      PROVE  g[k] = IF k = 0 THEN Leaves(s) ELSE LayerStep(g[k - 1])
  <2>1. k = 0 \/ (k - 1 \in 0..m /\ k - 1 # m)
    BY <1>3
  <2>2. k = m \/ k \in 0..(m - 1)
    BY <1>3
  <2> QED
    BY <1>2, <1>5, <2>1, <2>2
<1>7. AreLayers(g, s, m)
  <2> HIDE DEF g
  <2>1. g = [k \in 0..m |-> g[k]]
    BY DEF g
  <2> QED
    BY <1>6, <2>1 DEF AreLayers
<1> QED
  BY <1>7

LEMMA RootOf ==
  ASSUME NEW s, Len(s) \in Nat
  PROVE  \E f : AreLayers(f, s, Len(s)) /\ MerkleRoot(s) = f[Len(s)]
<1>1. \E f : AreLayers(f, s, Len(s))
  BY LayersExist
<1> QED
  BY <1>1 DEF AreLayers, MerkleRoot, LayerStep, Leaves

\* Lists of the same length with the same root are the same.
LEMMA RootDetermines ==
  ASSUME NEW S, NEW s \in Seq(S), NEW t \in Seq(S), Len(s) = Len(t),
         MerkleRoot(s) = MerkleRoot(t)
  PROVE  s = t
<1> DEFINE n == Len(s)
<1>1. n \in Nat
  OBVIOUS
<1>2. PICK f : AreLayers(f, s, n) /\ MerkleRoot(s) = f[n]
  BY <1>1, RootOf
<1>3. PICK g : AreLayers(g, t, n) /\ MerkleRoot(t) = g[n]
  BY <1>1, RootOf
<1>4. /\ f[0] = Leaves(s) /\ g[0] = Leaves(t)
      /\ \A k \in 1..n : f[k] = LayerStep(f[k - 1]) /\ g[k] = LayerStep(g[k - 1])
  <2>1. \A k \in 0..n :
          /\ f[k] = IF k = 0 THEN Leaves(s) ELSE LayerStep(f[k - 1])
          /\ g[k] = IF k = 0 THEN Leaves(t) ELSE LayerStep(g[k - 1])
    BY <1>2, <1>3 DEF AreLayers
  <2>2. 0 \in 0..n /\ \A k \in 1..n : k \in 0..n /\ k # 0
    BY <1>1
  <2> QED
    BY <2>1, <2>2
<1> HIDE DEF n
<1>5. Alike(f[0], g[0])
  <2>1. /\ Leaves(s) \in Seq(Seq(S)) /\ Len(Leaves(s)) = Len(s)
        /\ Leaves(t) \in Seq(Seq(S)) /\ Len(Leaves(t)) = Len(t)
    BY DEF Leaves, LeafHash
  <2> QED
    BY <1>4, <2>1 DEF Alike
<1>6. \A k \in 0..n : Alike(f[k], g[k])
  <2> DEFINE T == {k \in 0..n : ~Alike(f[k], g[k])}
  <2> SUFFICES ASSUME T # {} PROVE FALSE
    OBVIOUS
  <2>0. T \in SUBSET Nat
    BY <1>1
  <2>1. PICK m \in T : \A k \in T : m <= k
    <3> HIDE DEF T
    <3> QED
      BY <2>0, LeastMember
  <2>2. m # 0
    BY <1>5
  <2>3. m \in 1..n /\ m - 1 \in 0..n /\ m - 1 \notin T
    BY <1>1, <2>1, <2>2
  <2>4. Alike(f[m - 1], g[m - 1])
    BY <2>3
  <2>5. Alike(LayerStep(f[m - 1]), LayerStep(g[m - 1]))
    BY <2>4, StepAlike
  <2> QED
    BY <1>4, <2>3, <2>5
<1>7. f[0] = g[0]
  <2> DEFINE T == {k \in 0..n : f[k] = g[k]}
  <2>0. f[n] = g[n]
    BY <1>2, <1>3 DEF n
  <2>1. n \in T /\ T \in SUBSET Nat
    BY <1>1, <2>0
  <2>2. PICK m \in T : \A k \in T : m <= k
    <3> HIDE DEF T
    <3> QED
      BY <2>1, LeastMember
  <2>3. ASSUME m # 0 PROVE FALSE
    <3>1. m \in 1..n /\ m - 1 \in 0..n /\ m - 1 \notin T
      BY <1>1, <2>2, <2>3
    <3>2. LayerStep(f[m - 1]) = LayerStep(g[m - 1])
      BY <1>4, <2>2, <3>1
    <3>3. Alike(f[m - 1], g[m - 1])
      BY <1>6, <3>1
    <3>4. f[m - 1] = g[m - 1]
      BY <3>2, <3>3, StepAlike
    <3> QED
      BY <3>1, <3>4
  <2> QED
    BY <2>2, <2>3
<1>8. ASSUME NEW i \in 1..Len(s) PROVE s[i] = t[i]
  <2>1. Leaves(s)[i] = <<s[i]>> /\ Leaves(t)[i] = <<t[i]>>
    BY DEF Leaves, LeafHash
  <2> QED
    BY <1>4, <1>7, <2>1
<1> QED
  BY <1>8

\* The root in a master pulse is that of its shards.
Rooted ==
  \/ master = NoMaster
  \/ master.shards \in Seq(Dirs) /\ master.root = MerkleRoot(master.shards)

LEMMA RootedStep == ASSUME ScanInv, Rooted, [ScanNext]_scanVars PROVE Rooted'
<1>1. CASE master' = MasterOf(stored)
  <2>1. stored \in Seq(Dirs)
    BY DEF ScanInv, ScanTypes
  <2> QED
    BY <1>1, <2>1 DEF Rooted, MasterOf
<1>2. CASE UNCHANGED master
  BY <1>2 DEF Rooted
<1>3. master' = MasterOf(stored) \/ UNCHANGED master
  BY DEF ScanNext, Producer, OpenDir, PutEntry, GiveUp, PutSentinel, Work, Take,
         TimeOut, PassOn, ListEntry, Request, ScanAgain, StartSealing,
         SealManifest, SaveMaster, RequestFails, CancelScan, Finished,
         requestVars, scanVars
<1> QED
  BY <1>1, <1>2, <1>3

\* The Merkle root of a master pulse fixes its shards and their order: no other
\* list of as many shards has it, however many there are.
THEOREM RootAlwaysFixesShards == ScanSpec => []RootFixesShards
<1>1. ScanInit => Rooted
  BY DEF ScanInit, Rooted
<1>2. Rooted => RootFixesShards
  <2> SUFFICES ASSUME Rooted, master # NoMaster,
                      NEW other \in [1..Len(master.shards) -> Dirs],
                      MerkleRoot(other) = master.root
               PROVE  other = master.shards
    BY DEF RootFixesShards
  <2>1. /\ master.shards \in Seq(Dirs) /\ Len(master.shards) \in Nat
        /\ master.root = MerkleRoot(master.shards)
    BY DEF Rooted
  <2>2. other \in Seq(Dirs) /\ Len(other) = Len(master.shards)
    BY <2>1
  <2> QED
    BY <2>1, <2>2, RootDetermines
<1>3. ScanInv /\ Rooted /\ [ScanNext]_scanVars => Rooted'
  BY RootedStep
<1> QED
  BY <1>1, <1>2, <1>3, ScanInvariant, PTL DEF ScanSpec
=============================================================================
