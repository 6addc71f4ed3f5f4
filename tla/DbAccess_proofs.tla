--------------------------- MODULE DbAccess_proofs ---------------------------
(***************************************************************************)
(* Theorems about Bulkhead and DbAccess, for any number of requests, slots *)
(* and attempts.                                                           *)
(*                                                                         *)
(* The first part says of each operation of the semaphore what it does to  *)
(* its slots and to the requests in line; the second follows the actions.  *)
(***************************************************************************)
EXTENDS DbAccess, FiniteSetTheorems, SequenceTheorems, TLAPS

-----------------------------------------------------------------------------
(* The semaphore.                                                          *)

Elements(q) == {q[i] : i \in 1..Len(q)}

Once(q) == \A i, j \in 1..Len(q) : q[i] = q[j] => i = j

Semaphores == [value : Nat, queue : Seq(Requests), woken : SUBSET Requests]

\* Nobody is in line twice.
SemOK(s) ==
  /\ s \in Semaphores
  /\ IsFiniteSet(s.woken)
  /\ Once(s.queue)
  /\ Elements(s.queue) \cap s.woken = {}

\* Who is in line; the slots that are not in use; no lost wakeup.
InLine(s) == Elements(s.queue) \cup s.woken
Spare(s)  == s.value + Cardinality(s.woken)
Wakes(s)  == s.value > 0 /\ s.queue # <<>> => s.woken # {}

\* The first of a queue leaves it, and the others keep their places.
LEMMA FirstLeaves ==
  ASSUME NEW q \in Seq(Requests), q # <<>>, Once(q)
  PROVE  /\ Head(q) \in Requests /\ Tail(q) \in Seq(Requests)
         /\ Once(Tail(q))
         /\ Head(q) \in Elements(q)
         /\ Elements(Tail(q)) = Elements(q) \ {Head(q)}
<1>1. /\ Head(q) \in Requests /\ Tail(q) \in Seq(Requests)
      /\ Len(Tail(q)) = Len(q) - 1 /\ Len(q) \in Nat \ {0}
      /\ \A i \in 1..Len(Tail(q)) : Tail(q)[i] = q[i + 1]
  BY HeadTailProperties, EmptySeq
<1>2. Head(q) = q[1]
  BY <1>1
<1>3. Once(Tail(q))
  <2> SUFFICES ASSUME NEW i \in 1..Len(Tail(q)), NEW j \in 1..Len(Tail(q)),
                      Tail(q)[i] = Tail(q)[j]
               PROVE  i = j
    BY DEF Once
  <2>1. q[i + 1] = q[j + 1] /\ i + 1 \in 1..Len(q) /\ j + 1 \in 1..Len(q)
    BY <1>1
  <2> QED
    BY <2>1 DEF Once
<1>4. ASSUME NEW x \in Elements(Tail(q))
      PROVE  x \in Elements(q) \ {Head(q)}
  <2>1. PICK i \in 1..Len(Tail(q)) : x = Tail(q)[i]
    BY DEF Elements
  <2>2. x = q[i + 1] /\ i + 1 \in 1..Len(q) /\ 1 \in 1..Len(q) /\ i + 1 # 1
    BY <1>1, <2>1
  <2> QED
    BY <1>2, <2>2 DEF Elements, Once
<1>5. ASSUME NEW x \in Elements(q) \ {Head(q)}
      PROVE  x \in Elements(Tail(q))
  <2>1. PICK i \in 1..Len(q) : x = q[i]
    BY DEF Elements
  <2>2. i # 1
    BY <1>2, <2>1
  <2>3. i - 1 \in 1..Len(Tail(q)) /\ Tail(q)[i - 1] = x
    BY <1>1, <2>1, <2>2
  <2> QED
    BY <2>3 DEF Elements
<1>6. Head(q) \in Elements(q)
  BY <1>1, <1>2 DEF Elements
<1> QED
  BY <1>1, <1>3, <1>4, <1>5, <1>6

LEMMA JoinsQueue ==
  ASSUME NEW q \in Seq(Requests), NEW r \in Requests, r \notin Elements(q),
         Once(q)
  PROVE  /\ Append(q, r) \in Seq(Requests) /\ Append(q, r) # <<>>
         /\ Once(Append(q, r))
         /\ Elements(Append(q, r)) = Elements(q) \cup {r}
<1> DEFINE p == Append(q, r)
<1>1. /\ p \in Seq(Requests) /\ p # <<>> /\ Len(p) = Len(q) + 1
      /\ Len(q) \in Nat
      /\ \A i \in 1..Len(q) : p[i] = q[i]
      /\ p[Len(q) + 1] = r
  BY AppendProperties, LenProperties
<1> HIDE DEF p
<1>2. \A i \in 1..Len(p) : i \in 1..Len(q) \/ i = Len(q) + 1
  BY <1>1
<1>3. Elements(p) = Elements(q) \cup {r}
  <2>1. ASSUME NEW x \in Elements(p) PROVE x \in Elements(q) \cup {r}
    BY <1>1, <1>2 DEF Elements
  <2>2. ASSUME NEW x \in Elements(q) \cup {r} PROVE x \in Elements(p)
    <3>1. CASE x = r
      BY <1>1, <3>1 DEF Elements
    <3>2. CASE x \in Elements(q)
      BY <1>1, <3>2 DEF Elements
    <3> QED
      BY <3>1, <3>2
  <2> QED
    BY <2>1, <2>2
<1>4. Once(p)
  BY <1>1, <1>2 DEF Once, Elements
<1> QED
  BY <1>1, <1>3, <1>4 DEF p

\* _waiters.remove: the request leaves its place, the others keep theirs.
LEMMA LeavesQueue ==
  ASSUME NEW q \in Seq(Requests), NEW r \in Elements(q), Once(q)
  PROVE  /\ Without(q, r) \in Seq(Requests) /\ q # <<>>
         /\ Once(Without(q, r))
         /\ Elements(Without(q, r)) = Elements(q) \ {r}
<1> DEFINE i == CHOOSE j \in 1..Len(q) : q[j] = r
           a == SubSeq(q, 1, i - 1)
           b == SubSeq(q, i + 1, Len(q))
           p == Without(q, r)
<1>1. i \in 1..Len(q) /\ q[i] = r
  BY DEF Elements
<1>2. p = a \o b
  BY DEF Without
<1> HIDE DEF i
<1>3. Len(q) \in Nat /\ \A k \in 1..Len(q) : q[k] \in Requests
  BY LenProperties, ElementOfSeq
<1>4. /\ a \in Seq(Requests) /\ Len(a) = i - 1
      /\ \A k \in 1..(i - 1) : a[k] = q[k]
  <2>1. \A k \in 1..(i - 1) : q[k] \in Requests
    BY <1>1, <1>3
  <2>2. /\ a \in Seq(Requests)
        /\ Len(a) = IF 1 <= i - 1 THEN i - 1 - 1 + 1 ELSE 0
        /\ \A k \in 1..(i - 1 - 1 + 1) : a[k] = q[1 + k - 1]
    BY <1>1, <1>3, <2>1, SubSeqProperties
  <2> QED
    BY <1>1, <1>3, <2>2
<1>5. /\ b \in Seq(Requests) /\ Len(b) = Len(q) - i
      /\ \A k \in 1..(Len(q) - i) : b[k] = q[i + k]
  <2>1. \A k \in (i + 1)..Len(q) : q[k] \in Requests
    BY <1>1, <1>3
  <2>2. /\ b \in Seq(Requests)
        /\ Len(b) = IF i + 1 <= Len(q) THEN Len(q) - (i + 1) + 1 ELSE 0
        /\ \A k \in 1..(Len(q) - (i + 1) + 1) : b[k] = q[(i + 1) + k - 1]
    BY <1>1, <1>3, <2>1, SubSeqProperties
  <2> QED
    BY <1>1, <1>3, <2>2
<1> HIDE DEF a, b, p
<1>6. /\ p \in Seq(Requests) /\ Len(p) = Len(q) - 1
      /\ \A k \in 1..Len(p) : p[k] = IF k < i THEN q[k] ELSE q[k + 1]
  <2>1. /\ p \in Seq(Requests) /\ Len(p) = Len(a) + Len(b)
        /\ \A k \in 1..(Len(a) + Len(b)) :
             p[k] = IF k <= Len(a) THEN a[k] ELSE b[k - Len(a)]
    BY <1>2, <1>4, <1>5, ConcatProperties
  <2>2. Len(p) = Len(q) - 1
    BY <1>1, <1>3, <1>4, <1>5, <2>1
  <2>3. ASSUME NEW k \in 1..Len(p)
        PROVE  p[k] = IF k < i THEN q[k] ELSE q[k + 1]
    <3>1. CASE k < i
      BY <1>1, <1>3, <1>4, <1>5, <2>1, <3>1
    <3>2. CASE ~(k < i)
      <4>1. k - Len(a) \in 1..(Len(q) - i) /\ i + (k - Len(a)) = k + 1
        BY <1>1, <1>3, <1>4, <2>2, <3>2
      <4>2. p[k] = b[k - Len(a)]
        BY <1>1, <1>3, <1>4, <1>5, <2>1, <3>2
      <4> QED
        BY <1>5, <3>2, <4>1, <4>2
    <3> QED
      BY <3>1, <3>2
  <2> QED
    BY <2>1, <2>2, <2>3
<1>7. Once(p)
  <2> SUFFICES ASSUME NEW j \in 1..Len(p), NEW k \in 1..Len(p), p[j] = p[k]
               PROVE  j = k
    BY DEF Once
  <2> QED
    BY <1>1, <1>3, <1>6 DEF Once
<1>8. ASSUME NEW x \in Elements(p) PROVE x \in Elements(q) \ {r}
  <2>1. PICK k \in 1..Len(p) : x = p[k]
    BY DEF Elements
  <2>2. CASE k < i
    BY <1>1, <1>3, <1>6, <2>1, <2>2 DEF Elements, Once
  <2>3. CASE ~(k < i)
    <3>1. x = q[k + 1] /\ k + 1 \in 1..Len(q) /\ k + 1 # i
      BY <1>1, <1>3, <1>6, <2>1, <2>3
    <3> QED
      BY <1>1, <3>1 DEF Elements, Once
  <2> QED
    BY <2>2, <2>3
<1>9. ASSUME NEW x \in Elements(q) \ {r} PROVE x \in Elements(p)
  <2>1. PICK k \in 1..Len(q) : x = q[k]
    BY DEF Elements
  <2>2. k # i
    BY <1>1, <2>1
  <2>3. CASE k < i
    BY <1>1, <1>3, <1>6, <2>1, <2>3 DEF Elements
  <2>4. CASE k > i
    <3>1. k - 1 \in 1..Len(p) /\ p[k - 1] = x
      BY <1>1, <1>3, <1>6, <2>1, <2>4
    <3> QED
      BY <3>1 DEF Elements
  <2> QED
    BY <1>1, <1>3, <2>2, <2>3, <2>4
<1> QED
  BY <1>1, <1>3, <1>6, <1>7, <1>8, <1>9, EmptySeq DEF p

\* Bulkhead.__aenter__ takes a free slot when nobody is in line.
LEMMA Taken ==
  ASSUME NEW s, SemOK(s), ~Locked(s)
  PROVE  /\ SemOK(Take(s)) /\ Wakes(Take(s))
         /\ InLine(Take(s)) = InLine(s)
         /\ Spare(Take(s)) = Spare(s) - 1
<1>1. s.value \in Nat \ {0} /\ s.queue = <<>> /\ s.woken = {}
  BY DEF SemOK, Semaphores, Locked
<1>2. /\ Take(s) \in Semaphores
      /\ Take(s).value = s.value - 1
      /\ Take(s).queue = s.queue /\ Take(s).woken = s.woken
  BY <1>1 DEF SemOK, Semaphores, Take
<1>3. Cardinality(s.woken) \in Nat
  BY FS_CardinalityType DEF SemOK
<1> QED
  BY <1>1, <1>2, <1>3 DEF SemOK, Wakes, InLine, Spare, Semaphores

\* Whoever finds the semaphore locked joins the queue.
LEMMA Waits ==
  ASSUME NEW s, NEW r \in Requests, SemOK(s), Wakes(s), Locked(s),
         r \notin InLine(s)
  PROVE  /\ SemOK(Wait(s, r)) /\ Wakes(Wait(s, r))
         /\ InLine(Wait(s, r)) = InLine(s) \cup {r}
         /\ Spare(Wait(s, r)) = Spare(s)
<1> DEFINE t == Wait(s, r)
<1>1. /\ s.queue \in Seq(Requests) /\ Once(s.queue)
      /\ r \notin Elements(s.queue) /\ r \notin s.woken
  BY DEF SemOK, Semaphores, InLine
<1>2. /\ Append(s.queue, r) \in Seq(Requests)
      /\ Once(Append(s.queue, r))
      /\ Elements(Append(s.queue, r)) = Elements(s.queue) \cup {r}
  BY <1>1, JoinsQueue
<1>3. /\ t \in Semaphores /\ t.value = s.value /\ t.woken = s.woken
      /\ t.queue = Append(s.queue, r)
  BY <1>2 DEF SemOK, Semaphores, Wait
<1>4. SemOK(t)
  BY <1>1, <1>2, <1>3 DEF SemOK
<1>5. Wakes(t)
  BY <1>3 DEF Wakes, Locked, SemOK, Semaphores
<1> QED
  BY <1>2, <1>3, <1>4, <1>5 DEF InLine, Spare

\* _wake_up_next moves a slot to the first waiter and loses neither.
LEMMA Waked ==
  ASSUME NEW s, SemOK(s), s.value > 0
  PROVE  /\ SemOK(WakeNext(s)) /\ Wakes(WakeNext(s))
         /\ InLine(WakeNext(s)) = InLine(s)
         /\ Spare(WakeNext(s)) = Spare(s)
<1> DEFINE t == WakeNext(s)
           w == Head(s.queue)
<1>1. CASE s.queue = <<>>
  BY <1>1 DEF WakeNext, Wakes
<1>2. CASE s.queue # <<>>
  <2>1. /\ s.queue \in Seq(Requests) /\ Once(s.queue)
        /\ s.value \in Nat \ {0} /\ s.woken \in SUBSET Requests
    BY DEF SemOK, Semaphores
  <2>2. /\ w \in Requests /\ Tail(s.queue) \in Seq(Requests)
        /\ Once(Tail(s.queue)) /\ w \in Elements(s.queue)
        /\ Elements(Tail(s.queue)) = Elements(s.queue) \ {w}
    BY <1>2, <2>1, FirstLeaves
  <2> HIDE DEF w
  <2>3. t = [value |-> s.value - 1, queue |-> Tail(s.queue),
             woken |-> s.woken \cup {w}]
    BY <1>2 DEF WakeNext, w
  <2>4. /\ t \in Semaphores /\ t.value = s.value - 1
        /\ t.queue = Tail(s.queue) /\ t.woken = s.woken \cup {w}
    BY <2>1, <2>2, <2>3 DEF Semaphores
  <2>5. w \notin s.woken
    BY <2>2 DEF SemOK
  <2>6. /\ IsFiniteSet(t.woken)
        /\ Cardinality(t.woken) = Cardinality(s.woken) + 1
        /\ Cardinality(s.woken) \in Nat
    BY <2>4, <2>5, FS_AddElement, FS_CardinalityType DEF SemOK
  <2>7. SemOK(t)
    BY <2>2, <2>4, <2>6 DEF SemOK
  <2> QED
    BY <2>1, <2>2, <2>4, <2>6, <2>7 DEF Wakes, InLine, Spare
<1> QED
  BY <1>1, <1>2

\* Bulkhead.__aexit__.
LEMMA Released ==
  ASSUME NEW s, SemOK(s)
  PROVE  /\ SemOK(Release(s)) /\ Wakes(Release(s))
         /\ InLine(Release(s)) = InLine(s)
         /\ Spare(Release(s)) = Spare(s) + 1
<1> DEFINE t == [s EXCEPT !.value = @ + 1]
<1>1. /\ t \in Semaphores /\ t.value = s.value + 1 /\ s.value \in Nat
      /\ t.queue = s.queue /\ t.woken = s.woken
  BY DEF SemOK, Semaphores
<1>2. Cardinality(s.woken) \in Nat
  BY FS_CardinalityType DEF SemOK
<1>3. Release(s) = WakeNext(t)
  BY DEF Release
<1> HIDE DEF t
<1>4. /\ SemOK(t) /\ t.value > 0 /\ InLine(t) = InLine(s)
      /\ Spare(t) = Spare(s) + 1
  BY <1>1, <1>2 DEF SemOK, InLine, Spare
<1> QED
  BY <1>3, <1>4, Waked

\* A woken waiter is no longer woken: its slot is neither spare nor lost.
LEMMA WokenLeaves ==
  ASSUME NEW s, SemOK(s), NEW r \in s.woken
  PROVE  LET t == [s EXCEPT !.woken = @ \ {r}]
         IN  /\ SemOK(t) /\ r \in Requests
             /\ t.value = s.value /\ t.queue = s.queue
             /\ InLine(t) = InLine(s) \ {r}
             /\ Spare(t) = Spare(s) - 1
<1> DEFINE t == [s EXCEPT !.woken = @ \ {r}]
<1>1. /\ t \in Semaphores /\ t.value = s.value /\ s.value \in Nat
      /\ t.queue = s.queue /\ t.woken = s.woken \ {r} /\ r \in Requests
  BY DEF SemOK, Semaphores
<1>2. /\ IsFiniteSet(s.woken \ {r}) /\ Cardinality(s.woken) \in Nat
      /\ Cardinality(s.woken \ {r}) = Cardinality(s.woken) - 1
  BY FS_RemoveElement, FS_CardinalityType DEF SemOK
<1>3. r \notin Elements(s.queue)
  BY DEF SemOK
<1> HIDE DEF t
<1>4. SemOK(t) /\ InLine(t) = InLine(s) \ {r} /\ Spare(t) = Spare(s) - 1
  BY <1>1, <1>2, <1>3 DEF SemOK, InLine, Spare
<1> QED
  BY <1>1, <1>4 DEF t

LEMMA ResumedIn ==
  ASSUME NEW s, SemOK(s), NEW r \in s.woken
  PROVE  /\ SemOK(Resumed(s, r)) /\ Wakes(Resumed(s, r))
         /\ InLine(Resumed(s, r)) = InLine(s) \ {r}
         /\ Spare(Resumed(s, r)) = Spare(s) - 1
<1> DEFINE t == [s EXCEPT !.woken = @ \ {r}]
<1>1. /\ SemOK(t) /\ InLine(t) = InLine(s) \ {r} /\ Spare(t) = Spare(s) - 1
  BY WokenLeaves
<1>2. Resumed(s, r) = IF t.value > 0 THEN WakeNext(t) ELSE t
  BY DEF Resumed
<1> HIDE DEF t
<1>3. CASE t.value > 0
  BY <1>1, <1>2, <1>3, Waked
<1>4. CASE ~(t.value > 0)
  BY <1>1, <1>2, <1>4 DEF Wakes
<1> QED
  BY <1>3, <1>4

\* However a wait ends that is cancelled, no slot is lost.
LEMMA GivenUp ==
  ASSUME NEW s, SemOK(s), Wakes(s), NEW r \in InLine(s)
  PROVE  /\ SemOK(Abandoned(s, r)) /\ Wakes(Abandoned(s, r))
         /\ InLine(Abandoned(s, r)) = InLine(s) \ {r}
         /\ Spare(Abandoned(s, r)) = Spare(s)
<1>1. CASE r \in s.woken
  <2> DEFINE t == [s EXCEPT !.woken = @ \ {r}]
  <2>1. /\ SemOK(t) /\ InLine(t) = InLine(s) \ {r}
        /\ Spare(t) = Spare(s) - 1
    BY <1>1, WokenLeaves
  <2>2. Abandoned(s, r) = Release(t)
    BY <1>1 DEF Abandoned
  <2>3. Spare(s) \in Nat
    BY FS_CardinalityType DEF SemOK, Semaphores, Spare
  <2> HIDE DEF t
  <2> QED
    BY <2>1, <2>2, <2>3, Released
<1>2. CASE r \notin s.woken
  <2> DEFINE t == [s EXCEPT !.queue = Without(@, r)]
  <2>1. r \in Elements(s.queue) /\ s.queue \in Seq(Requests) /\ Once(s.queue)
    BY <1>2 DEF InLine, SemOK, Semaphores
  <2>2. /\ Without(s.queue, r) \in Seq(Requests) /\ s.queue # <<>>
        /\ Once(Without(s.queue, r))
        /\ Elements(Without(s.queue, r)) = Elements(s.queue) \ {r}
    BY <2>1, LeavesQueue
  <2>3. /\ t \in Semaphores /\ t.value = s.value /\ t.woken = s.woken
        /\ t.queue = Without(s.queue, r)
    BY <2>2 DEF SemOK, Semaphores
  <2>4. Abandoned(s, r) = t
    BY <1>2 DEF Abandoned
  <2> HIDE DEF t
  <2>5. SemOK(t)
    BY <2>2, <2>3 DEF SemOK
  <2> QED
    BY <1>2, <2>2, <2>3, <2>4, <2>5 DEF Wakes, InLine, Spare
<1> QED
  BY <1>1, <1>2

-----------------------------------------------------------------------------
(* The inductive invariant.                                                *)

DBTypes ==
  /\ inside \in SUBSET Requests /\ IsFiniteSet(inside)
  /\ phase \in [Requests -> {"new", "trying", "sleeping", "answered"}]
  /\ place \in [Requests -> {"idle", "running", "probing"}]

\* A request tries while it is inside or in line, never both.
Placed ==
  /\ inside \cap InLine(sem) = {}
  /\ \A r \in Requests : phase[r] = "trying" <=> r \in inside \cup InLine(sem)

Conserved ==
  /\ Spare(sem) + Cardinality(inside) = MaxConcurrent
  /\ active = Cardinality(inside)

\* The circuit's calls are the guarded requests inside.
Counted ==
  \A r \in Requests : place[r] # "idle" <=> r \in inside /\ r \in Guarded

DBInv ==
  DBTypes /\ SemOK(sem) /\ Wakes(sem) /\ Placed /\ Conserved /\ Counted

LEMMA DBInitially == DBInit => DBInv
<1> SUFFICES ASSUME DBInit PROVE DBInv
  OBVIOUS
<1>1. /\ sem = NewSemaphore /\ inside = {} /\ active = 0
      /\ phase = [r \in Requests |-> "new"]
      /\ place = [r \in Requests |-> "idle"]
  BY DEF DBInit, BHInit, Breaker!CBInit
<1>2. IsFiniteSet({}) /\ Cardinality({}) = 0
  BY FS_EmptySet
<1>3. <<>> \in Seq(Requests) /\ Len(<<>>) = 0
  BY EmptySeq
<1>4. Elements(<<>>) = {} /\ Once(<<>>)
  BY <1>3 DEF Elements, Once
<1>5. /\ sem \in Semaphores /\ sem.value = MaxConcurrent
      /\ sem.queue = <<>> /\ sem.woken = {}
  BY <1>1, <1>3, BulkheadAssumption DEF NewSemaphore, Semaphores
<1>6. SemOK(sem) /\ Wakes(sem) /\ InLine(sem) = {}
  BY <1>2, <1>4, <1>5 DEF SemOK, Wakes, InLine
<1>7. Conserved
  BY <1>1, <1>2, <1>5, BulkheadAssumption DEF Conserved, Spare
<1> QED
  BY <1>1, <1>2, <1>6, <1>7 DEF DBInv, DBTypes, Placed, Counted

LEMMA SpareType ==
  ASSUME DBInv
  PROVE  Spare(sem) \in Nat /\ Cardinality(inside) \in Nat
BY FS_CardinalityType DEF DBInv, DBTypes, SemOK, Semaphores, Spare

LEMMA KindsApart == \A r \in Requests : r \in Guarded <=> r \notin Others
BY DbAccessAssumption DEF Guarded

\* A request goes in with a slot that was taken for it, or is refused by the
\* circuit and gives the slot back.
LEMMA Begins ==
  ASSUME DBInv, NEW r \in Requests, NEW s, SemOK(s), Wakes(s),
         r \notin inside, InLine(s) = InLine(sem) \ {r},
         Spare(s) = Spare(sem) - 1,
         Begin(r, s)
  PROVE  DBInv'
<1> USE DEF DBInv
<1>1. Spare(sem) \in Nat /\ Cardinality(inside) \in Nat
  BY SpareType
<1>2. CASE sem' = s /\ GoIn(r) /\ To(r, "trying")
           /\ \/ /\ r \in Guarded
                 /\ \E w \in {"running", "probing"} : place' = [place EXCEPT ![r] = w]
              \/ r \in Others /\ place' = place
  <2>1. inside' = inside \cup {r} /\ active' = active + 1
    BY <1>2 DEF GoIn
  <2>2. /\ IsFiniteSet(inside')
        /\ Cardinality(inside') = Cardinality(inside) + 1
    BY <2>1, FS_AddElement DEF DBTypes
  <2>3. DBTypes'
    BY <1>2, <2>1, <2>2 DEF DBTypes, To
  <2>4. SemOK(sem') /\ Wakes(sem')
    BY <1>2
  <2>5. Placed'
    BY <1>2, <2>1 DEF Placed, DBTypes, To
  <2>6. Conserved'
    BY <1>1, <1>2, <2>1, <2>2 DEF Conserved
  <2>7. Counted'
    BY <1>2, <2>1, KindsApart DEF Counted, DBTypes
  <2> QED
    BY <2>3, <2>4, <2>5, <2>6, <2>7
<1>3. CASE /\ sem' = Release(s) /\ UNCHANGED <<inside, active, place>>
           /\ To(r, "answered")
  <2>1. /\ SemOK(sem') /\ Wakes(sem') /\ InLine(sem') = InLine(s)
        /\ Spare(sem') = Spare(s) + 1
    BY <1>3, Released
  <2>2. DBTypes'
    BY <1>3 DEF DBTypes, To
  <2>3. Placed'
    BY <1>3, <2>1 DEF Placed, DBTypes, To
  <2>4. Conserved'
    BY <1>1, <1>3, <2>1 DEF Conserved
  <2>5. Counted'
    BY <1>3 DEF Counted
  <2> QED
    BY <2>1, <2>2, <2>3, <2>4, <2>5
<1> QED
  BY <1>2, <1>3
     DEF Begin, Breaker!Admit, Breaker!Reject, Breaker!cbVars, circuitVars

LEMMA AttemptKeeps ==
  ASSUME DBInv, NEW r \in Requests, Attempt(r)
  PROVE  DBInv'
<1> USE DEF DBInv
<1>1. r \notin inside /\ r \notin InLine(sem)
  BY DEF Attempt, Placed
<1>2. CASE Locked(sem)
  <2>1. /\ sem' = Wait(sem, r) /\ To(r, "trying")
        /\ UNCHANGED <<inside, active, place>>
    BY <1>2 DEF Attempt, circuitVars
  <2>2. /\ SemOK(sem') /\ Wakes(sem')
        /\ InLine(sem') = InLine(sem) \cup {r} /\ Spare(sem') = Spare(sem)
    BY <1>1, <1>2, <2>1, Waits
  <2>3. DBTypes' /\ Counted'
    BY <2>1 DEF DBTypes, To, Counted
  <2>4. Placed'
    BY <1>1, <2>1, <2>2 DEF Placed, DBTypes, To
  <2>5. Conserved'
    BY <2>1, <2>2 DEF Conserved
  <2> QED
    BY <2>2, <2>3, <2>4, <2>5
<1>3. CASE ~Locked(sem)
  <2>1. Begin(r, Take(sem))
    BY <1>3 DEF Attempt
  <2>2. /\ SemOK(Take(sem)) /\ Wakes(Take(sem))
        /\ InLine(Take(sem)) = InLine(sem)
        /\ Spare(Take(sem)) = Spare(sem) - 1
    BY <1>3, Taken
  <2> QED
    BY <1>1, <2>1, <2>2, Begins
<1> QED
  BY <1>2, <1>3

LEMMA WokenKeeps ==
  ASSUME DBInv, NEW r \in Requests, Woken(r)
  PROVE  DBInv'
<1> USE DEF DBInv
<1>1. r \in sem.woken /\ Begin(r, Resumed(sem, r))
  BY DEF Woken
<1>2. r \notin inside
  BY <1>1 DEF Placed, InLine
<1> QED
  BY <1>1, <1>2, ResumedIn, Begins

\* However the work in the bulkhead ends, by a result, an error or a
\* cancellation, the slot goes on and the circuit's call is over.
LEMMA Leaves ==
  ASSUME DBInv, NEW r \in Requests, Leave(r),
         NEW w \in {"sleeping", "answered"}, To(r, w),
         \/ r \in Guarded /\ place' = [place EXCEPT ![r] = "idle"]
         \/ r \in Others /\ place' = place
  PROVE  DBInv'
<1> USE DEF DBInv
<1>1. Spare(sem) \in Nat /\ Cardinality(inside) \in Nat
  BY SpareType
<1>2. /\ r \in inside /\ inside' = inside \ {r} /\ active' = active - 1
      /\ sem' = Release(sem)
  BY DEF Leave
<1>3. /\ SemOK(sem') /\ Wakes(sem') /\ InLine(sem') = InLine(sem)
      /\ Spare(sem') = Spare(sem) + 1
  BY <1>2, Released
<1>4. IsFiniteSet(inside') /\ Cardinality(inside') = Cardinality(inside) - 1
  BY <1>2, FS_RemoveElement DEF DBTypes
<1>5. DBTypes'
  BY <1>2, <1>4 DEF DBTypes, To
<1>6. Placed'
  BY <1>2, <1>3 DEF Placed, DBTypes, To
<1>7. Conserved'
  BY <1>1, <1>2, <1>3, <1>4 DEF Conserved
<1>8. Counted'
  BY <1>2, KindsApart DEF Counted, DBTypes
<1> QED
  BY <1>3, <1>5, <1>6, <1>7, <1>8

LEMMA CancelKeeps ==
  ASSUME DBInv, NEW r \in Requests, CancelRequest(r)
  PROVE  DBInv'
<1> USE DEF DBInv
<1>1. To(r, "answered")
  BY DEF CancelRequest
<1>2. CASE r \in Guarded /\ Leave(r) /\ Breaker!Cancel(r)
  BY <1>1, <1>2, Leaves DEF Breaker!Cancel, Breaker!Return
<1>5. CASE r \in Others /\ Leave(r) /\ UNCHANGED circuitVars
  BY <1>1, <1>5, Leaves DEF circuitVars
<1>3. CASE CancelWait(r) /\ UNCHANGED circuitVars
  <2>1. r \in InLine(sem)
    BY <1>3 DEF CancelWait, Waiting, InLine, Elements
  <2>2. /\ sem' = Abandoned(sem, r) /\ UNCHANGED <<inside, active, place>>
    BY <1>3 DEF CancelWait, circuitVars
  <2>3. /\ SemOK(sem') /\ Wakes(sem') /\ InLine(sem') = InLine(sem) \ {r}
        /\ Spare(sem') = Spare(sem)
    BY <2>1, <2>2, GivenUp
  <2>4. DBTypes' /\ Conserved' /\ Counted'
    BY <1>1, <2>2, <2>3 DEF DBTypes, Conserved, Counted, To
  <2>5. Placed'
    BY <1>1, <2>1, <2>2, <2>3 DEF Placed, DBTypes, To
  <2> QED
    BY <2>3, <2>4, <2>5
<1>4. CASE phase[r] = "sleeping" /\ UNCHANGED <<bhVars, circuitVars>>
  BY <1>1, <1>4
     DEF To, bhVars, circuitVars, DBTypes, Placed, Conserved, Counted
<1> QED
  BY <1>2, <1>3, <1>4, <1>5 DEF CancelRequest

\* One step per action.
LEMMA DBStep ==
  ASSUME DBInv, [DBNext]_dbVars
  PROVE  DBInv'
<1> USE DEF DBInv
<1>1. ASSUME NEW r \in Requests, Attempt(r) PROVE DBInv'
  BY <1>1, AttemptKeeps
<1>2. ASSUME NEW r \in Requests, Woken(r) PROVE DBInv'
  BY <1>2, WokenKeeps
<1>3. ASSUME NEW r \in Requests, Succeeds(r) PROVE DBInv'
  BY <1>3, Leaves, KindsApart
     DEF Succeeds, Breaker!Succeed, Breaker!Return, circuitVars
<1>4. ASSUME NEW r \in Requests, Breaks(r) PROVE DBInv'
  BY <1>4, Leaves, KindsApart
     DEF Breaks, Breaker!Fail, Breaker!Return, circuitVars
<1>5. ASSUME NEW r \in Requests, Refused(r) PROVE DBInv'
  BY <1>5, Leaves, KindsApart
     DEF Refused, Breaker!Fail, Breaker!Return, circuitVars
<1>6. ASSUME NEW r \in Requests, CancelRequest(r) PROVE DBInv'
  BY <1>6, CancelKeeps
<1>7. ASSUME NEW r \in Requests, Again(r) PROVE DBInv'
  BY <1>7
     DEF Again, To, bhVars, circuitVars, DBTypes, Placed, Conserved, Counted
<1>8. CASE TimePasses
  BY <1>8 DEF TimePasses, Breaker!Tick, Breaker!Observe, bhVars,
              DBTypes, Placed, Conserved, Counted
<1>9. CASE UNCHANGED dbVars
  BY <1>9 DEF dbVars, bhVars, circuitVars, DBTypes, Placed, Conserved, Counted
<1> QED
  BY <1>1, <1>2, <1>3, <1>4, <1>5, <1>6, <1>7, <1>8, <1>9 DEF DBNext, Proceeds

LEMMA DBInvariant == DBSpec => []DBInv
<1>1. DBInv /\ [DBNext]_dbVars => DBInv'
  BY DBStep
<1> QED
  BY DBInitially, <1>1, PTL DEF DBSpec

\* A queue in which nobody is twice is as long as the set of who is in it.
LEMMA QueueLength ==
  ASSUME NEW q \in Seq(Requests), Once(q)
  PROVE  Cardinality(Elements(q)) = Len(q)
<1>1. /\ Len(q) \in Nat /\ IsFiniteSet(1..Len(q))
      /\ Cardinality(1..Len(q)) = Len(q)
  <2>1. Len(q) \in Nat /\ 1 \in Int
    BY LenProperties
  <2>2. /\ IsFiniteSet(1..Len(q))
        /\ Cardinality(1..Len(q)) = IF 1 > Len(q) THEN 0 ELSE Len(q) - 1 + 1
    BY <2>1, FS_Interval
  <2> QED
    BY <2>1, <2>2
<1>2. q \in Bijection(1..Len(q), Elements(q))
  BY LenProperties
     DEF Bijection, Injection, Surjection, IsInjective, Elements, Once
<1> QED
  BY <1>1, <1>2, FS_Bijection DEF ExistsBijection

\* No slot of the bulkhead is lost or made, and the gauge counts those in
\* use (retry.py:210-245), for any number of requests that load, save, fail,
\* are refused by the circuit, retried or cancelled at any await.
THEOREM SlotsAlwaysConserved == DBSpec => []SlotsConserved
<1>1. DBInv => SlotsConserved
  <2> SUFFICES ASSUME DBInv PROVE SlotsConserved
    OBVIOUS
  <2>1. Spare(sem) + Cardinality(inside) = MaxConcurrent
    BY DEF DBInv, Conserved
  <2> QED
    BY <2>1 DEF DBInv, Conserved, SlotsConserved, Spare
<1> QED
  BY <1>1, DBInvariant, PTL

\* A request waits beside a free slot only while the resumption of another
\* will wake it (retry.py:210-245): no wakeup of the semaphore is lost.
THEOREM NoWakeupLost == DBSpec => []NoLostWakeup
<1>1. DBInv => NoLostWakeup
  BY DEF DBInv, Wakes, NoLostWakeup
<1> QED
  BY <1>1, DBInvariant, PTL

\* The circuit's running calls are the loads and saves in the bulkhead
\* (main.py's _load_blob and seal handlers): nothing leaks in either layer.
THEOREM CallsAlwaysHoldSlots == DBSpec => []CallsHoldSlots
<1>1. DBInv => CallsHoldSlots
  BY DEF DBInv, DBTypes, Counted, CallsHoldSlots
<1> QED
  BY <1>1, DBInvariant, PTL

\* Whoever asks for an answer is in one place of the bulkhead, and nobody
\* else is in any.
THEOREM TryingAlwaysSomewhere == DBSpec => []TryingIsSomewhere
<1>1. DBInv => TryingIsSomewhere
  <2> SUFFICES ASSUME DBInv PROVE TryingIsSomewhere
    OBVIOUS
  <2>1. Waiting = Elements(sem.queue)
    BY DEF Waiting, Elements
  <2>2. Cardinality(Waiting) = Len(sem.queue)
    BY <2>1, QueueLength DEF DBInv, SemOK, Semaphores
  <2>3. inside \subseteq Requests /\ InLine(sem) \subseteq Requests
    BY DEF DBInv, DBTypes, SemOK, Semaphores, InLine, Elements
  <2>4. InLine(sem) = sem.woken \cup Waiting /\ Waiting \cap sem.woken = {}
    BY <2>1 DEF DBInv, SemOK, InLine
  <2>5. {r \in Requests : phase[r] = "trying"} = inside \cup InLine(sem)
    BY <2>3 DEF DBInv, Placed
  <2> QED
    BY <2>2, <2>4, <2>5 DEF DBInv, Placed, TryingIsSomewhere
<1> QED
  BY <1>1, DBInvariant, PTL

\* Only a request that the circuit lets in at that moment enters the bulkhead.
LEMMA EntersAsked ==
  ASSUME NEW r \in Guarded, NEW q \in Requests, NEW s, Begin(q, s),
         r \in inside' \ inside
  PROVE  Breaker!StateRead # "open"
<1>1. q \notin Others => Breaker!Admit(q) /\ Breaker!StateRead # "open"
  BY DEF Begin, Breaker!Admit
<1>2. q = r
  BY DEF Begin, GoIn
<1> QED
  BY <1>1, <1>2, KindsApart DEF Guarded

\* Loads and saves ask the circuit when they get their slot, after whatever
\* wait or pause, and tell it of a failure before they pause (main.py's
\* _load_blob: with_retry around db_bulkhead around mongo_circuit).
THEOREM AskedAndTold == DBSpec => AskedAndToldPerAttempt
<1> DEFINE Asked(r) == r \in inside' \ inside => Breaker!StateRead # "open"
           Told(r)  == r \in inside /\ phase'[r] = "sleeping" =>
                         failures' = failures + 1 /\ r \notin inside'
<1>1. ASSUME DBInv, DBNext, NEW r \in Guarded
      PROVE  Asked(r)
  <2>1. ASSUME NEW q \in Requests, Attempt(q) \/ Woken(q) PROVE Asked(r)
    <3>1. (\E s : Begin(q, s)) \/ inside' = inside
      BY <2>1 DEF Attempt, Woken
    <3> QED
      BY <3>1, EntersAsked
  <2>2. ASSUME NEW q \in Requests,
               \/ Succeeds(q) \/ Breaks(q) \/ Refused(q)
               \/ CancelRequest(q) \/ Again(q)
        PROVE  inside' \subseteq inside
    BY <2>2 DEF Succeeds, Breaks, Refused, CancelRequest, Again, Leave,
                CancelWait, bhVars
  <2>3. TimePasses => inside' = inside
    BY DEF TimePasses, bhVars
  <2> QED
    BY <1>1, <2>1, <2>2, <2>3 DEF DBNext, Proceeds
<1>2. ASSUME DBInv, DBNext, NEW r \in Guarded
      PROVE  Told(r)
  <2> SUFFICES ASSUME r \in inside, phase'[r] = "sleeping"
               PROVE  failures' = failures + 1 /\ r \notin inside'
    OBVIOUS
  <2>1. /\ r \in Requests /\ phase[r] = "trying"
        /\ phase \in [Requests -> {"new", "trying", "sleeping", "answered"}]
    BY <1>2 DEF DBInv, DBTypes, Placed
  <2>2. ASSUME NEW q \in Requests, NEW w, To(q, w)
        PROVE  q = r /\ w = "sleeping"
    BY <2>1, <2>2 DEF To
  <2>3. PICK q \in Requests : Breaks(q)
    <3>1. ASSUME NEW q \in Requests, NEW s, Begin(q, s) PROVE FALSE
      BY <2>2, <3>1 DEF Begin
    <3>2. ASSUME NEW q \in Requests, Attempt(q) \/ Woken(q) PROVE FALSE
      BY <2>2, <3>1, <3>2 DEF Attempt, Woken
    <3>3. ASSUME NEW q \in Requests,
                 Succeeds(q) \/ Refused(q) \/ CancelRequest(q) \/ Again(q)
          PROVE  FALSE
      BY <2>2, <3>3 DEF Succeeds, Refused, CancelRequest, Again
    <3>4. ~TimePasses
      BY <2>1 DEF TimePasses
    <3> QED
      BY <1>2, <3>2, <3>3, <3>4 DEF DBNext, Proceeds
  <2>4. q = r /\ r \notin inside'
    BY <2>2, <2>3 DEF Breaks, Leave
  <2> QED
    BY <2>3, <2>4 DEF Breaks, Breaker!Fail, Breaker!OnFailure
<1>3. ASSUME DBInv, [DBNext]_dbVars, NEW r \in Guarded
      PROVE  [Asked(r) /\ Told(r)]_dbVars
  BY <1>1, <1>2, <1>3
<1>4. ASSUME DBInv, [DBNext]_dbVars
      PROVE  [\A r \in Guarded :
                /\ r \in inside' \ inside => Breaker!StateRead # "open"
                /\ r \in inside /\ phase'[r] = "sleeping" =>
                     failures' = failures + 1 /\ r \notin inside']_dbVars
  BY <1>3, <1>4
<1> QED
  BY <1>4, DBInvariant, PTL DEF DBSpec, AskedAndToldPerAttempt

-----------------------------------------------------------------------------
(* What CircuitBreaker_proofs proves, for the circuit of the server.       *)

\* Each step of a request is for the circuit a step of CircuitBreaker or none:
\* DbAccess is written so, and the lemma carries the theorems over.
LEMMA CircuitSteps ==
  DBSpec => Breaker!CBInit /\ [][Breaker!CBNext]_(Breaker!cbVars)
<1>1. DBInit => Breaker!CBInit
  BY DEF DBInit
<1>2. ASSUME [DBNext]_dbVars
      PROVE  [Breaker!CBNext]_(Breaker!cbVars)
  <2> USE DEF Breaker!cbVars, circuitVars
  <2>1. ASSUME NEW r \in Requests, NEW s, Begin(r, s)
        PROVE  [Breaker!CBNext]_(Breaker!cbVars)
    BY <2>1 DEF Begin, Breaker!CBNext
  <2>2. ASSUME NEW r \in Requests, Attempt(r) \/ Woken(r)
        PROVE  [Breaker!CBNext]_(Breaker!cbVars)
    BY <2>1, <2>2 DEF Attempt, Woken
  <2>3. ASSUME NEW r \in Requests,
               \/ Succeeds(r) \/ Breaks(r) \/ Refused(r)
               \/ CancelRequest(r) \/ Again(r)
        PROVE  [Breaker!CBNext]_(Breaker!cbVars)
    BY <2>3 DEF Succeeds, Breaks, Refused, CancelRequest, Again, Breaker!CBNext
  <2>4. CASE TimePasses
    BY <2>4 DEF TimePasses, Breaker!CBNext
  <2>5. CASE UNCHANGED dbVars
    BY <2>5 DEF dbVars
  <2> QED
    BY <1>2, <2>2, <2>3, <2>4, <2>5 DEF DBNext, Proceeds
<1> QED
  BY <1>1, <1>2, PTL DEF DBSpec

Circuit == INSTANCE CircuitBreaker_proofs WITH Calls <- Requests

LEMMA SameCircuit ==
  Breaker!CBInit /\ [][Breaker!CBNext]_(Breaker!cbVars)
    => Circuit!CBInit /\ [][Circuit!CBNext]_(Circuit!cbVars)
<1>1. Breaker!CBInit => Circuit!CBInit
  BY DEF Breaker!CBInit, Circuit!CBInit, Breaker!NotOpened, Circuit!NotOpened
<1>2. [Breaker!CBNext]_(Breaker!cbVars) => [Circuit!CBNext]_(Circuit!cbVars)
  BY DEF Breaker!cbVars, Circuit!cbVars, Breaker!CBNext, Circuit!CBNext,
         Breaker!Admit, Circuit!Admit, Breaker!Reject, Circuit!Reject,
         Breaker!Succeed, Circuit!Succeed, Breaker!Fail, Circuit!Fail,
         Breaker!Cancel, Circuit!Cancel, Breaker!Return, Circuit!Return,
         Breaker!OnSuccess, Circuit!OnSuccess,
         Breaker!OnFailure, Circuit!OnFailure,
         Breaker!Observe, Circuit!Observe, Breaker!Tick, Circuit!Tick,
         Breaker!StateRead, Circuit!StateRead,
         Breaker!NotOpened, Circuit!NotOpened
<1> QED
  BY <1>1, <1>2, PTL

\* The circuit of the server keeps its fields in agreement (retry.py:133-160)
\* under loads that are retried, saves, waits for the bulkhead and
\* cancellations.
THEOREM ServerCircuitAgrees == DBSpec => []Breaker!FieldsAgree
<1>1. Circuit!BreakerAssumption
  BY DbAccessAssumption DEF Circuit!BreakerAssumption
<1>2. Circuit!CBInv => Breaker!FieldsAgree
  BY DEF Circuit!CBInv, Circuit!FieldsAgree, Breaker!FieldsAgree,
         Circuit!NotOpened, Breaker!NotOpened
<1> QED
  BY <1>1, <1>2, CircuitSteps, SameCircuit, Circuit!BreakerInvariant, PTL

\* When open it becomes half-open only after the full timeout and closes only
\* when a call that was still running succeeds (retry.py:133-148), whatever
\* retries, waits and cancellations come between its calls.
THEOREM ServerCircuitLeftInTime == DBSpec => Breaker!OpenIsLeftInTime
<1>1. Circuit!BreakerAssumption
  BY DbAccessAssumption DEF Circuit!BreakerAssumption
<1>2. Circuit!OpenIsLeftInTime => Breaker!OpenIsLeftInTime
  BY PTL DEF Circuit!OpenIsLeftInTime, Breaker!OpenIsLeftInTime,
             Circuit!cbVars, Breaker!cbVars
<1> QED
  BY <1>1, <1>2, CircuitSteps, SameCircuit, Circuit!BreakerLeavesOpen, PTL
=============================================================================
