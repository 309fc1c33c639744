--------------------------- MODULE DpcQueueProofs ---------------------------
(***************************************************************************)
(* Proofs about the queue of emulated DPCs: its links are those of a        *)
(* first-in, first-out queue, and it keeps its promises to those who insert, *)
(* remove and flush.                                                         *)
(***************************************************************************)
EXTENDS DpcQueue, TLAPS

\* What flush_queue needs of its callers: no two of them flush at the same time.
SafeFlushes == ~Overlapping \/ \A f, g \in Flushers : f = g

\* An entry is on a list; a DPC is on it ahead of the marker.
OnList(s, e) == \E i \in 1 .. Len(s) : s[i] = e
Ahead(s, e) == \E i, j \in 1 .. Len(s) : i < j /\ s[i] = e /\ s[j] = Flush

\* AcceptedAccounted and NoLostWakeup, said of the entries queued and not of the links.
AcceptedInv ==
  \A d \in Dpcs, p \in Params :
    credit[<<d, p>>] = (IF OnList(list, d) /\ parameter[d] = p THEN 1 ELSE 0)
                     + (IF current = <<d, p>> THEN 1 ELSE 0)

WakeInv ==
  /\ pc = "waiting" /\ ~notified => Len(list) = 0 /\ ~terminate
  /\ \A f \in flushing \ woken : OnList(list, Flush)

\* The marker is queued only while a flusher waits for it, and what the flusher
\* waits for is ahead of it, or in the hands of the DPC thread.  Nobody waits when the
\* queue is destroyed.
MarkerInv ==
  /\ OnList(list, Flush) => flushing # {}
  /\ terminate => flushing = {}
  /\ \A f \in flushing : \A x \in before[f] :
       IF x = Idle THEN current # Idle /\ OnList(list, Flush) ELSE Ahead(list, x)

\* The DPC thread has a DPC exactly between the two critical sections around its
\* routine.
ThreadInv == current # Idle <=> pc \in {"unlocked", "routine"}

IInv ==
  /\ TypeOK
  /\ Links(List, list)
  /\ process = "running"
  /\ AcceptedInv
  /\ WakeInv
  /\ MarkerInv
  /\ ThreadInv

-----------------------------------------------------------------------------
(* Lists.                                                                  *)

LinkPairs == [flink : [Entries -> Entries], blink : [Entries -> Entries]]
Lists == Seq(Dpcs \cup {Flush})

\* The entries around the circle are entries, and the head is none of those queued.
LEMMA NodeTypes ==
  ASSUME NEW s \in Lists
  PROVE  /\ \A i \in Int : Node(s, i) \in Entries
         /\ \A i \in 1 .. Len(s) : s[i] \in Dpcs \cup {Flush} /\ s[i] # head /\ Node(s, i) = s[i]
         /\ \A i \in Int \ (1 .. Len(s)) : Node(s, i) = head
<1>1. \A i \in 1 .. Len(s) : s[i] \in Dpcs \cup {Flush}
  BY DEF Lists
<1>2. head \in Entries /\ \A e \in Dpcs \cup {Flush} : e \in Entries /\ e # head
  BY DpcAssumption DEF Entries
<1>3. \A i \in 1 .. Len(s) : Node(s, i) = s[i]
  BY Zenon DEF Node
<1>4. \A i \in Int \ (1 .. Len(s)) : Node(s, i) = head
  BY DEF Node
<1>5. \A i \in Int : i \in 1 .. Len(s) \/ i \in Int \ (1 .. Len(s))
  OBVIOUS
<1>6. \A i \in Int : Node(s, i) \in Entries
  BY Zenon, <1>1, <1>2, <1>3, <1>4, <1>5
<1> QED BY Zenon, <1>1, <1>2, <1>3, <1>4, <1>6

\* An entry is linked to itself exactly if it is not in the list: the test of insert
\* and remove.
LEMMA LinkedIffQueued ==
  ASSUME NEW l \in LinkPairs, NEW s \in Lists, Links(l, s), NEW e \in Entries \ {head}
  PROVE  IsEmpty(l.flink, e) <=> \A i \in 1 .. Len(s) : s[i] # e
<1>1. ASSUME NEW i \in 1 .. Len(s), s[i] = e
      PROVE  l.flink[e] # e
  <2>1. l.flink[e] = Node(s, i + 1)
    BY <1>1, NodeTypes DEF Links, Lists
  <2>2. CASE i + 1 \in 1 .. Len(s)
    BY <1>1, <2>1, <2>2, NodeTypes DEF Links, Lists
  <2>3. CASE i + 1 \notin 1 .. Len(s)
    BY <1>1, <2>1, <2>3 DEF Node, Lists
  <2> QED BY <2>2, <2>3
<1>2. ASSUME \A i \in 1 .. Len(s) : s[i] # e
      PROVE  l.flink[e] = e
  BY <1>2 DEF Links
<1> QED BY <1>1, <1>2 DEF IsEmpty

\* The list is empty exactly if its head is linked to itself.
LEMMA EmptyIffEmpty ==
  ASSUME NEW l \in LinkPairs, NEW s \in Lists, Links(l, s)
  PROVE  /\ l.flink[head] = Node(s, 1)
         /\ IsEmpty(l.flink, head) <=> Len(s) = 0
<1>1. Len(s) \in Nat
  BY DEF Lists
<1>2. l.flink[head] = Node(s, 1)
  <2>1. Node(s, 0) = head
    BY <1>1 DEF Node
  <2>2. l.flink[Node(s, 0)] = Node(s, 0 + 1)
    BY <1>1 DEF Links
  <2> QED BY <2>1, <2>2
<1>3. CASE Len(s) = 0
  BY <1>2, <1>3 DEF Node, IsEmpty
<1>4. CASE Len(s) # 0
  <2>1. 1 \in 1 .. Len(s)
    BY <1>1, <1>4
  <2> QED BY <1>2, <1>4, <2>1, NodeTypes DEF IsEmpty
<1> QED BY <1>2, <1>3, <1>4

\* usersim_list_insert_tail puts an entry that is not in the list at its end, and
\* its assertions hold.
LEMMA InsertTailAppends ==
  ASSUME NEW l \in LinkPairs, NEW s \in Lists, Links(l, s), NEW e \in Dpcs \cup {Flush},
         \A i \in 1 .. Len(s) : s[i] # e
  PROVE  /\ InsertTail(l, e) \in LinkPairs
         /\ Append(s, e) \in Lists
         /\ Links(InsertTail(l, e), Append(s, e))
         /\ TailAssertions(InsertTail(l, e))
<1> DEFINE n == Len(s)  t == Append(s, e)  m == InsertTail(l, e)  last == Node(s, n)
<1>1. n \in Nat /\ t \in Lists /\ Len(t) = n + 1 /\ e \in Entries /\ e # head /\ head \in Entries
  BY DpcAssumption DEF Lists, Entries
<1>2. /\ \A i \in 1 .. n : t[i] = s[i]
      /\ t[n + 1] = e
  BY DEF Lists
<1>3. l.blink[head] = last /\ last \in Entries /\ last # e
  <2>1. Node(s, n + 1) = head
    BY <1>1 DEF Node
  <2>2. l.blink[Node(s, n + 1)] = Node(s, n)
    BY <1>1 DEF Links
  <2>3. last \in Entries
    BY <1>1, NodeTypes
  <2>4. last # e
    BY <1>1 DEF Node
  <2> QED BY <2>1, <2>2, <2>3, <2>4
<1>4. /\ m \in LinkPairs
      /\ m.flink = [[l.flink EXCEPT ![e] = head] EXCEPT ![last] = e]
      /\ m.blink = [[l.blink EXCEPT ![e] = last] EXCEPT ![head] = e]
  BY <1>1, <1>3 DEF InsertTail, LinkPairs
<1>5. /\ \A i \in 0 .. n : Node(t, i) = Node(s, i)
      /\ Node(t, n + 1) = e /\ Node(t, n + 2) = head
  BY <1>1, <1>2 DEF Node
<1>6. \A i \in 0 .. n - 1 : Node(s, i) # last /\ Node(s, i) # e /\ Node(s, i + 1) # head /\ Node(s, i + 1) # e
  <2> SUFFICES ASSUME NEW i \in 0 .. n - 1
               PROVE  Node(s, i) # last /\ Node(s, i) # e /\ Node(s, i + 1) # head /\ Node(s, i + 1) # e
    OBVIOUS
  <2>1. last = s[n] /\ n \in 1 .. n /\ s[n] # head
    BY <1>1, NodeTypes DEF Node
  <2>2. i + 1 \in 1 .. n /\ Node(s, i + 1) = s[i + 1] /\ s[i + 1] # head
    BY <1>1, NodeTypes DEF Node
  <2>3. Node(s, i) # last
    BY <1>1, <2>1 DEF Node, Links
  <2>4. Node(s, i) # e
    BY <1>1 DEF Node
  <2> QED BY <2>2, <2>3, <2>4
<1>7. ASSUME NEW i \in 0 .. n + 1
      PROVE  m.flink[Node(t, i)] = Node(t, i + 1) /\ m.blink[Node(t, i + 1)] = Node(t, i)
  <2> HIDE DEF t, m, last
  <2> DEFINE a == Node(s, i)  b == Node(s, i + 1)
  <2>1. CASE i \in 0 .. n - 1
    <3>1. Node(t, i) = a /\ Node(t, i + 1) = b
      BY <1>1, <1>5, <2>1
    <3>2. l.flink[a] = b /\ l.blink[b] = a
      BY <1>1, <2>1 DEF Links
    <3>3. a # last /\ a # e /\ b # head /\ b # e
      BY <1>6, <2>1
    <3>4. a \in Entries /\ b \in Entries
      BY <1>1, <2>1, NodeTypes
    <3> HIDE DEF a, b
    <3> QED BY <1>3, <1>4, <3>1, <3>2, <3>3, <3>4 DEF LinkPairs
  <2>2. CASE i = n
    <3>1. Node(t, i) = last /\ Node(t, i + 1) = e
      BY <1>1, <1>5, <2>2 DEF last
    <3> QED BY <1>1, <1>3, <1>4, <3>1 DEF LinkPairs
  <2>3. CASE i = n + 1
    <3>1. Node(t, i) = e /\ Node(t, i + 1) = head
      BY <1>1, <1>5, <2>3
    <3> QED BY <1>1, <1>3, <1>4, <3>1 DEF LinkPairs
  <2> QED BY <1>1, <2>1, <2>2, <2>3
<1>8. \A i, j \in 1 .. Len(t) : t[i] = t[j] => i = j
  <2>1. \A i \in 1 .. Len(t) : i \in 1 .. n \/ i = n + 1
    BY <1>1
  <2> QED BY <1>1, <1>2, <2>1 DEF Links
<1>9. ASSUME NEW x \in Entries \ {head}, \A i \in 1 .. Len(t) : t[i] # x
      PROVE  m.flink[x] = x /\ m.blink[x] = x
  <2>1. x # e /\ \A i \in 1 .. n : s[i] # x
    BY <1>1, <1>2, <1>9
  <2>2. l.flink[x] = x /\ l.blink[x] = x
    BY <2>1 DEF Links
  <2>3. x # last
    BY <1>1, <2>1 DEF Node
  <2> HIDE DEF m, last
  <2> QED BY <1>1, <1>3, <1>4, <2>1, <2>2, <2>3 DEF LinkPairs
<1>10. Links(m, t)
  BY <1>1, <1>7, <1>8, <1>9 DEF Links
<1>11. TailAssertions(m)
  <2>1. m.blink[head] = e /\ m.flink[e] = head
    BY <1>1, <1>3, <1>4 DEF LinkPairs
  <2>2. m.flink[head] = Node(t, 1)
    BY <1>1, <1>4, <1>10, EmptyIffEmpty, Zenon
  <2>3. m.blink[Node(t, 0 + 1)] = Node(t, 0)
    BY <1>1, <1>7
  <2>4. Node(t, 0) = head
    BY <1>1 DEF Node
  <2> QED BY <2>1, <2>2, <2>3, <2>4 DEF TailAssertions
<1> QED BY <1>1, <1>4, <1>10, <1>11

\* What is left of a list without its k-th entry, and in which order.
LEMMA WithoutAtFacts ==
  ASSUME NEW s \in Lists, NEW k \in 1 .. Len(s)
  PROVE  /\ WithoutAt(s, k) \in Lists
         /\ Len(WithoutAt(s, k)) = Len(s) - 1
         /\ \A i \in 1 .. Len(s) - 1 : WithoutAt(s, k)[i] = s[IF i < k THEN i ELSE i + 1]
<1> DEFINE n == Len(s)
<1>1. n \in Nat /\ n - 1 \in Nat
  BY DEF Lists
<1>2. \A i \in 1 .. n - 1 : s[IF i < k THEN i ELSE i + 1] \in Dpcs \cup {Flush}
  BY <1>1 DEF Lists
<1>3. WithoutAt(s, k) \in [1 .. n - 1 -> Dpcs \cup {Flush}]
  BY <1>2 DEF WithoutAt
<1>4. WithoutAt(s, k) \in Lists /\ Len(WithoutAt(s, k)) = n - 1
  BY <1>1, <1>3 DEF Lists
<1> QED BY <1>4 DEF WithoutAt

\* usersim_list_remove_entry takes the k-th entry out of a list, wherever it is.
LEMMA RemoveEntryRemoves ==
  ASSUME NEW l \in LinkPairs, NEW s \in Lists, Links(l, s), NEW k \in 1 .. Len(s)
  PROVE  /\ RemoveEntry(l, s[k]) \in LinkPairs
         /\ Links(RemoveEntry(l, s[k]), WithoutAt(s, k))
<1> DEFINE n == Len(s)  e == s[k]  t == WithoutAt(s, k)  m == RemoveEntry(l, e)
           prev == Node(s, k - 1)  next == Node(s, k + 1)
<1>1. /\ n \in Nat /\ k \in Nat /\ t \in Lists /\ Len(t) = n - 1
      /\ \A i \in 1 .. n - 1 : t[i] = s[IF i < k THEN i ELSE i + 1]
  <2>1. n \in Nat /\ k \in Nat
    BY DEF Lists
  <2> QED BY Zenon, <2>1, WithoutAtFacts
<1>2. /\ e \in Entries /\ e # head /\ Node(s, k) = e /\ prev \in Entries /\ next \in Entries
      /\ e \in Dpcs \cup {Flush}
  BY NodeTypes DEF Lists
<1>3. l.flink[e] = next /\ l.blink[e] = prev
  <2>1. l.flink[Node(s, k)] = Node(s, k + 1)
    BY <1>1 DEF Links
  <2>2. l.blink[Node(s, (k - 1) + 1)] = Node(s, k - 1)
    BY <1>1 DEF Links
  <2>3. (k - 1) + 1 = k
    BY <1>1
  <2> QED BY <1>2, <2>1, <2>2, <2>3
<1>4. prev # e /\ next # e
  <2>1. k - 1 # k /\ k + 1 # k
    BY <1>1
  <2>2. \A i \in 1 .. n : s[i] = s[k] => i = k
    BY DEF Links
  <2> QED BY <1>2, <2>1, <2>2 DEF Node
<1>5. /\ m \in LinkPairs
      /\ m.flink = [[l.flink EXCEPT ![prev] = next] EXCEPT ![e] = e]
      /\ m.blink = [[l.blink EXCEPT ![next] = prev] EXCEPT ![e] = e]
  BY <1>2, <1>3 DEF RemoveEntry, Initialize, LinkPairs
<1>6. \A i \in 0 .. n : Node(t, i) = Node(s, IF i < k THEN i ELSE i + 1)
  BY <1>1 DEF Node
<1>7. ASSUME NEW i \in 0 .. n, i # k
      PROVE  /\ Node(s, i) # e
             /\ i # k - 1 => Node(s, i) # prev
             /\ i # k - 1 => Node(s, i + 1) # e
             /\ Node(s, i + 1) # next
  <2>1. Node(s, i) # e
    BY <1>1, <1>2, <1>7 DEF Node, Links
  <2>2. i # k - 1 => Node(s, i) # prev
    BY <1>1, <1>2, <1>7, NodeTypes DEF Node, Links
  <2>3. i # k - 1 => Node(s, i + 1) # e
    BY <1>1, <1>2, <1>7 DEF Node, Links
  <2>4. Node(s, i + 1) # next
    BY <1>1, <1>2, <1>7, NodeTypes DEF Node, Links
  <2> QED BY <2>1, <2>2, <2>3, <2>4
<1>8. ASSUME NEW i \in 0 .. n - 1
      PROVE  m.flink[Node(t, i)] = Node(t, i + 1) /\ m.blink[Node(t, i + 1)] = Node(t, i)
  <2> HIDE DEF t, m, prev, next, e
  <2>1. CASE i = k - 1
    <3>1. Node(t, i) = prev /\ Node(t, i + 1) = next
      BY <1>1, <1>6, <2>1 DEF prev, next
    <3> QED BY <1>2, <1>4, <1>5, <3>1 DEF LinkPairs
  <2>2. ASSUME i # k - 1, NEW j \in 0 .. n, j # k, j # k - 1, Node(t, i) = Node(s, j), Node(t, i + 1) = Node(s, j + 1)
        PROVE  m.flink[Node(t, i)] = Node(t, i + 1) /\ m.blink[Node(t, i + 1)] = Node(t, i)
    <3> DEFINE a == Node(s, j)  b == Node(s, j + 1)
    <3>1. l.flink[a] = b /\ l.blink[b] = a
      BY <1>1, <2>2 DEF Links
    <3>2. a # e /\ a # prev /\ b # e /\ b # next
      BY <1>7, <2>2
    <3>3. a \in Entries /\ b \in Entries
      BY <1>1, <2>2, NodeTypes
    <3>4. Node(t, i) = a /\ Node(t, i + 1) = b
      BY <2>2
    <3> HIDE DEF a, b
    <3> QED BY <1>2, <1>5, <3>1, <3>2, <3>3, <3>4 DEF LinkPairs
  <2>3. CASE i < k - 1
    <3>1. Node(t, i) = Node(s, i) /\ Node(t, i + 1) = Node(s, i + 1)
      BY <1>1, <1>6, <2>3
    <3> QED BY <1>1, <2>2, <2>3, <3>1
  <2>4. CASE i > k - 1
    <3>1. Node(t, i) = Node(s, i + 1) /\ Node(t, i + 1) = Node(s, (i + 1) + 1)
      BY <1>1, <1>6, <2>4
    <3>2. i + 1 \in 0 .. n /\ i + 1 # k /\ i + 1 # k - 1 /\ i # k - 1
      BY <1>1, <2>4
    <3> QED BY <2>2, <3>1, <3>2
  <2> QED BY <1>1, <2>1, <2>3, <2>4
<1>9. \A i, j \in 1 .. Len(t) : t[i] = t[j] => i = j
  <2> HIDE DEF t
  <2> SUFFICES ASSUME NEW i \in 1 .. n - 1, NEW j \in 1 .. n - 1, t[i] = t[j] PROVE i = j
    BY <1>1
  <2> DEFINE a == IF i < k THEN i ELSE i + 1  b == IF j < k THEN j ELSE j + 1
  <2>1. a \in 1 .. n /\ b \in 1 .. n /\ (a = b => i = j)
    BY <1>1
  <2>2. s[a] = s[b]
    BY <1>1
  <2> HIDE DEF a, b
  <2> QED BY Zenon, <2>1, <2>2 DEF Links
<1>10. ASSUME NEW x \in Entries \ {head}, \A i \in 1 .. Len(t) : t[i] # x
       PROVE  m.flink[x] = x /\ m.blink[x] = x
  <2>1. CASE x = e
    <3> HIDE DEF m, prev, next, e
    <3> QED BY <1>2, <1>5, <2>1 DEF LinkPairs
  <2>2. CASE x # e
    <3>1. ASSUME NEW i \in 1 .. n
          PROVE  s[i] # x
      <4>1. CASE i < k
        BY <1>1, <1>10, <4>1
      <4>2. CASE i = k
        BY <2>2, <4>2
      <4>3. CASE i > k
        <5>1. i - 1 \in 1 .. Len(t) /\ t[i - 1] = s[i]
          BY <1>1, <4>3
        <5> QED BY <1>10, <5>1
      <4> QED BY <1>1, <4>1, <4>2, <4>3
    <3>2. l.flink[x] = x /\ l.blink[x] = x
      BY <3>1 DEF Links
    <3>3. x # prev /\ x # next
      BY <1>1, <3>1 DEF Node
    <3> HIDE DEF m, prev, next, e
    <3> QED BY <1>2, <1>5, <2>2, <3>2, <3>3 DEF LinkPairs
  <2> QED BY <2>1, <2>2
<1>11. Links(m, t)
  BY <1>1, <1>8, <1>9, <1>10 DEF Links
<1> QED BY <1>5, <1>11

\* Taking the first entry and initialising it is the same as removing it.
LEMMA RemoveHeadRemoves ==
  ASSUME NEW l \in LinkPairs, NEW s \in Lists, Links(l, s), Len(s) # 0
  PROVE  /\ l.flink[head] = s[1]
         /\ Initialize(RemoveHead(l), s[1]) = RemoveEntry(l, s[1])
<1>1. 1 \in 1 .. Len(s) /\ 0 \in 0 .. Len(s)
  BY DEF Lists
<1>2. l.flink[head] = s[1]
  BY <1>1, NodeTypes, EmptyIffEmpty
<1>3. l.blink[s[1]] = head
  <2>1. l.blink[Node(s, 0 + 1)] = Node(s, 0)
    BY <1>1 DEF Links
  <2>2. Node(s, 0) = head /\ Node(s, 1) = s[1]
    BY <1>1 DEF Node
  <2> QED BY <2>1, <2>2
<1> QED BY <1>2, <1>3 DEF RemoveHead, RemoveEntry, Initialize, LinkPairs

\* Without an element that is in a list once, the list is shorter by its place.
LEMMA WithoutQueued ==
  ASSUME NEW s \in Lists, NEW k \in 1 .. Len(s), \A i, j \in 1 .. Len(s) : s[i] = s[j] => i = j
  PROVE  Without(s, s[k]) = WithoutAt(s, k)
<1>1. (CHOOSE i \in 1 .. Len(s) : s[i] = s[k]) = k
  OBVIOUS
<1> QED BY <1>1 DEF Without

\* What an entry put at the end of a list does to it.
LEMMA AppendOn ==
  ASSUME NEW s \in Lists, NEW e \in Dpcs \cup {Flush}
  PROVE  /\ Append(s, e) \in Lists /\ Len(Append(s, e)) # 0
         /\ \A x : OnList(Append(s, e), x) <=> OnList(s, x) \/ x = e
         /\ \A x : Ahead(s, x) => Ahead(Append(s, e), x)
         /\ e = Flush => \A x : OnList(s, x) => Ahead(Append(s, e), x)
<1> DEFINE n == Len(s)  t == Append(s, e)
<1>1. n \in Nat /\ t \in Lists /\ Len(t) = n + 1 /\ t[n + 1] = e /\ \A i \in 1 .. n : t[i] = s[i]
  BY DEF Lists
<1>2. 1 .. Len(t) = (1 .. n) \cup {n + 1} /\ \A i \in 1 .. n : i < n + 1
  BY <1>1
<1> HIDE DEF t
<1>3. \A x : OnList(t, x) <=> OnList(s, x) \/ x = e
  BY <1>1, <1>2 DEF OnList
<1>4. \A x : Ahead(s, x) => Ahead(t, x)
  BY <1>1, <1>2 DEF Ahead
<1>5. e = Flush => \A x : OnList(s, x) => Ahead(t, x)
  BY <1>1, <1>2 DEF Ahead, OnList
<1>6. Len(t) # 0
  BY <1>1
<1> QED BY <1>1, <1>3, <1>4, <1>5, <1>6 DEF t

\* What taking an entry out of a list does to it.
LEMMA WithoutOn ==
  ASSUME NEW s \in Lists, NEW k \in 1 .. Len(s), \A i, j \in 1 .. Len(s) : s[i] = s[j] => i = j
  PROVE  /\ WithoutAt(s, k) \in Lists
         /\ \A x : OnList(WithoutAt(s, k), x) <=> OnList(s, x) /\ x # s[k]
         /\ s[k] # Flush => \A x : x # s[k] /\ Ahead(s, x) => Ahead(WithoutAt(s, k), x)
<1> DEFINE n == Len(s)  t == WithoutAt(s, k)
<1>1. n \in Nat /\ k \in Nat
  BY DEF Lists
<1>2. t \in Lists /\ Len(t) = n - 1 /\ \A i \in 1 .. n - 1 : t[i] = s[IF i < k THEN i ELSE i + 1]
  BY Zenon, WithoutAtFacts
<1> HIDE DEF t
<1>3. \A i \in 1 .. n : i # k => (IF i < k THEN i ELSE i - 1) \in 1 .. n - 1 /\ t[IF i < k THEN i ELSE i - 1] = s[i]
  BY <1>1, <1>2
<1>4. \A i \in 1 .. n - 1 : (IF i < k THEN i ELSE i + 1) \in 1 .. n /\ (IF i < k THEN i ELSE i + 1) # k
  BY <1>1
<1>5. ASSUME NEW x
      PROVE  OnList(t, x) <=> OnList(s, x) /\ x # s[k]
  <2>1. ASSUME OnList(t, x)
        PROVE  OnList(s, x) /\ x # s[k]
    <3>1. PICK i \in 1 .. n - 1 : t[i] = x
      BY <1>2, <2>1 DEF OnList
    <3> DEFINE j == IF i < k THEN i ELSE i + 1
    <3>2. j \in 1 .. n /\ j # k /\ s[j] = x
      BY <1>2, <1>4, <3>1
    <3> HIDE DEF j
    <3> QED BY <3>2 DEF OnList
  <2>2. ASSUME OnList(s, x), x # s[k]
        PROVE  OnList(t, x)
    <3>1. PICK i \in 1 .. n : s[i] = x
      BY <2>2 DEF OnList
    <3>2. i # k
      BY <2>2, <3>1
    <3> QED BY <1>2, <1>3, <3>1, <3>2 DEF OnList
  <2> QED BY <2>1, <2>2
<1>6. ASSUME NEW x, x # s[k], s[k] # Flush, Ahead(s, x)
      PROVE  Ahead(t, x)
  <2>1. PICK i \in 1 .. n, j \in 1 .. n : i < j /\ s[i] = x /\ s[j] = Flush
    BY <1>6 DEF Ahead
  <2>2. i # k /\ j # k
    BY <1>6, <2>1
  <2> DEFINE a == IF i < k THEN i ELSE i - 1  b == IF j < k THEN j ELSE j - 1
  <2>3. a \in 1 .. n - 1 /\ b \in 1 .. n - 1 /\ t[a] = x /\ t[b] = Flush
    BY <1>3, <2>1, <2>2
  <2>4. a < b
    BY <1>1, <2>1, <2>2
  <2> HIDE DEF a, b
  <2> QED BY <1>2, <2>3, <2>4 DEF Ahead
<1> QED BY <1>2, <1>5, <1>6 DEF t

\* Nothing is ahead of a marker that is the first entry.
LEMMA NothingAhead ==
  ASSUME NEW s \in Lists, \A i, j \in 1 .. Len(s) : s[i] = s[j] => i = j, Len(s) # 0, s[1] = Flush
  PROVE  \A x : ~Ahead(s, x)
<1> SUFFICES ASSUME NEW x, Ahead(s, x) PROVE FALSE
  OBVIOUS
<1>1. PICK i \in 1 .. Len(s), j \in 1 .. Len(s) : i < j /\ s[i] = x /\ s[j] = Flush
  BY DEF Ahead
<1>2. 1 \in 1 .. Len(s) /\ j = 1
  BY <1>1 DEF Lists
<1> QED BY <1>1, <1>2

-----------------------------------------------------------------------------
(* The inductive invariant.                                                *)

\* The links of a state, as lists.
LEMMA StateLinks ==
  ASSUME IInv
  PROVE  /\ List \in LinkPairs /\ list \in Lists
         /\ List.flink = Flink /\ List.blink = Blink
         /\ Flink[head] = Node(list, 1)
         /\ IsEmpty(Flink, head) <=> Len(list) = 0
         /\ \A e \in Dpcs \cup {Flush} : IsEmpty(Flink, e) <=> ~OnList(list, e)
         /\ \A i, j \in 1 .. Len(list) : list[i] = list[j] => i = j
<1>1. List \in LinkPairs /\ list \in Lists /\ List.flink = Flink /\ List.blink = Blink
  BY DEF IInv, TypeOK, LinkPairs, Lists, List
<1>2. Links(List, list)
  BY DEF IInv
<1>3. PICK l \in LinkPairs : l = List
  BY <1>1
<1>4. PICK s \in Lists : s = list
  BY <1>1
<1>5. Links(l, s)
  BY <1>2, <1>3, <1>4
<1>6. l.flink[head] = Node(s, 1) /\ (IsEmpty(l.flink, head) <=> Len(s) = 0)
  BY Zenon, <1>5, EmptyIffEmpty
<1>7. \A e \in Dpcs \cup {Flush} : IsEmpty(l.flink, e) <=> ~OnList(s, e)
  <2> SUFFICES ASSUME NEW e \in Dpcs \cup {Flush} PROVE IsEmpty(l.flink, e) <=> ~OnList(s, e)
    OBVIOUS
  <2>1. e \in Entries \ {head}
    BY DpcAssumption DEF Entries
  <2>2. IsEmpty(l.flink, e) <=> \A i \in 1 .. Len(s) : s[i] # e
    BY Zenon, <1>5, <2>1, LinkedIffQueued
  <2> QED BY Zenon, <2>2 DEF OnList
<1>8. \A i, j \in 1 .. Len(s) : s[i] = s[j] => i = j
  BY <1>5 DEF Links
<1> QED BY <1>1, <1>3, <1>4, <1>6, <1>7, <1>8

\* The invariant holds at the start.
LEMMA InitInv ==
  ASSUME Init
  PROVE  IInv
<1>1. list = << >> /\ Len(list) = 0
  BY DEF Init
<1>2. TypeOK
  <2>1. Flink \in [Entries -> Entries] /\ Blink \in [Entries -> Entries] /\ parameter \in [Dpcs -> Params]
    BY DEF Init
  <2>2. notified \in BOOLEAN /\ terminate \in BOOLEAN /\ flushing \subseteq Flushers /\ woken \subseteq flushing
    BY Zenon DEF Init
  <2>3. raises \in 0 .. MaxRaises /\ list \in Seq(Dpcs \cup {Flush})
    BY DpcAssumption DEF Init
  <2>4. credit \in [Dpcs \X Params -> 0 .. 2] /\ before \in [Flushers -> SUBSET (Dpcs \cup {Idle})]
    BY DEF Init
  <2>5. /\ pc = "start" /\ current \in (Dpcs \X Params) \cup {Idle} /\ lock = "free" /\ process = "running"
    BY Zenon DEF Init
  <2> QED BY <2>1, <2>2, <2>3, <2>4, <2>5 DEF TypeOK
<1>3. Links(List, list)
  <2>1. \A i \in Int : Node(list, i) = head
    BY <1>1 DEF Node
  <2>2. \A e \in Entries : List.flink[e] = e /\ List.blink[e] = e
    BY DEF Init, List
  <2>3. head \in Entries
    BY DEF Entries
  <2> QED BY <1>1, <2>1, <2>2, <2>3 DEF Links
<1>4. AcceptedInv
  <2> SUFFICES ASSUME NEW d \in Dpcs, NEW p \in Params
               PROVE  credit[<<d, p>>] = (IF OnList(list, d) /\ parameter[d] = p THEN 1 ELSE 0)
                                       + (IF current = <<d, p>> THEN 1 ELSE 0)
    BY Zenon DEF AcceptedInv
  <2>1. ~OnList(list, d) /\ current # <<d, p>> /\ credit[<<d, p>>] = 0
    BY <1>1, DpcAssumption DEF Init, OnList
  <2> QED BY <2>1
<1>5. WakeInv /\ MarkerInv /\ ThreadInv
  BY <1>1 DEF Init, WakeInv, MarkerInv, ThreadInv, OnList
<1> QED BY <1>2, <1>3, <1>4, <1>5 DEF Init, IInv

\* What an insertion at the tail does to the queue.
LEMMA QueueGrows ==
  ASSUME IInv, NEW e \in Dpcs \cup {Flush}, ~OnList(list, e), SetList(InsertTail(List, e)),
         list' = Append(list, e)
  PROVE  /\ Flink' \in [Entries -> Entries] /\ Blink' \in [Entries -> Entries]
         /\ list' \in Seq(Dpcs \cup {Flush})
         /\ Links(List, list)'
         /\ TailAssertions(InsertTail(List, e))
         /\ InsertTail(List, e).flink = Flink'
         /\ Len(list') # 0
         /\ \A x : OnList(list', x) <=> OnList(list, x) \/ x = e
         /\ \A x : Ahead(list, x) => Ahead(list', x)
         /\ e = Flush => \A x : OnList(list, x) => Ahead(list', x)
<1>1. PICK l \in LinkPairs : l = List
  BY StateLinks
<1>2. PICK s \in Lists : s = list
  BY StateLinks
<1>3. Links(l, s) /\ \A i \in 1 .. Len(s) : s[i] # e
  BY <1>1, <1>2 DEF IInv, OnList
<1>4. PICK m : m = InsertTail(l, e)
  OBVIOUS
<1>5. PICK t : t = Append(s, e)
  BY Zenon
<1>6. m \in LinkPairs /\ t \in Lists /\ Links(m, t) /\ TailAssertions(m)
  BY Zenon, <1>3, <1>4, <1>5, InsertTailAppends
<1>7. list' = t /\ m.flink = Flink' /\ m.blink = Blink' /\ m = InsertTail(List, e)
  BY Zenon, <1>1, <1>2, <1>4, <1>5 DEF SetList
<1>8. List' = m
  BY <1>6, <1>7 DEF List, LinkPairs
<1>9. Links(List, list)'
  BY Zenon, <1>6, <1>7, <1>8
<1>10. Flink' \in [Entries -> Entries] /\ Blink' \in [Entries -> Entries]
  BY <1>6, <1>7 DEF LinkPairs
<1>11. /\ Len(t) # 0
       /\ \A x : OnList(t, x) <=> OnList(s, x) \/ x = e
       /\ \A x : Ahead(s, x) => Ahead(t, x)
       /\ e = Flush => \A x : OnList(s, x) => Ahead(t, x)
  BY Zenon, <1>5, AppendOn
<1> QED BY Zenon, <1>2, <1>6, <1>7, <1>9, <1>10, <1>11 DEF Lists

\* What the removal of an entry does to the queue.
LEMMA QueueShrinks ==
  ASSUME IInv, NEW e \in Dpcs \cup {Flush}, OnList(list, e), SetList(RemoveEntry(List, e)),
         list' = Without(list, e)
  PROVE  /\ Flink' \in [Entries -> Entries] /\ Blink' \in [Entries -> Entries]
         /\ list' \in Seq(Dpcs \cup {Flush})
         /\ Links(List, list)'
         /\ RemoveEntry(List, e).flink = Flink'
         /\ Len(list) # 0
         /\ \A x : OnList(list', x) <=> OnList(list, x) /\ x # e
         /\ e # Flush => \A x : x # e /\ Ahead(list, x) => Ahead(list', x)
         /\ \E k \in 1 .. Len(list) : list[k] = e /\ list' = WithoutAt(list, k)
<1>1. PICK l \in LinkPairs : l = List
  BY StateLinks
<1>2. PICK s \in Lists : s = list
  BY StateLinks
<1>3. Links(l, s) /\ \A i, j \in 1 .. Len(s) : s[i] = s[j] => i = j
  BY Zenon, <1>1, <1>2, StateLinks DEF IInv
<1>4. PICK k \in 1 .. Len(s) : s[k] = e
  BY <1>2 DEF OnList
<1>5. PICK m : m = RemoveEntry(l, e)
  OBVIOUS
<1>6. PICK t : t = WithoutAt(s, k)
  OBVIOUS
<1>7. m \in LinkPairs /\ Links(m, t)
  BY Zenon, <1>3, <1>4, <1>5, <1>6, RemoveEntryRemoves
<1>8. t = Without(s, e)
  BY Zenon, <1>3, <1>4, <1>6, WithoutQueued
<1>9. list' = t /\ m.flink = Flink' /\ m.blink = Blink' /\ m = RemoveEntry(List, e)
  BY Zenon, <1>1, <1>2, <1>5, <1>8 DEF SetList
<1>10. List' = m
  BY <1>7, <1>9 DEF List, LinkPairs
<1>11. Links(List, list)'
  BY Zenon, <1>7, <1>9, <1>10
<1>12. Flink' \in [Entries -> Entries] /\ Blink' \in [Entries -> Entries]
  BY <1>7, <1>9 DEF LinkPairs
<1>13. /\ t \in Lists
       /\ \A x : OnList(t, x) <=> OnList(s, x) /\ x # e
       /\ e # Flush => \A x : x # e /\ Ahead(s, x) => Ahead(t, x)
  BY Zenon, <1>3, <1>4, <1>6, WithoutOn
<1>14. Len(s) # 0
  BY <1>4 DEF Lists
<1> QED BY Zenon, <1>2, <1>4, <1>6, <1>9, <1>11, <1>12, <1>13, <1>14 DEF Lists

\* The entry that the DPC thread takes is the oldest one, and taking it is its removal.
LEMMA FrontIsOldest ==
  ASSUME IInv, NEW e \in Dpcs \cup {Flush}, Flink[head] = e
  PROVE  /\ Len(list) # 0 /\ list[1] = e /\ OnList(list, e)
         /\ Initialize(RemoveHead(List), e) = RemoveEntry(List, e)
<1>1. PICK l \in LinkPairs : l = List
  BY StateLinks
<1>2. PICK s \in Lists : s = list
  BY StateLinks
<1>3. Links(l, s) /\ l.flink = Flink
  BY Zenon, <1>1, <1>2, StateLinks DEF IInv
<1>4. e # head
  BY DpcAssumption
<1>5. Len(s) # 0
  BY <1>3, <1>4, EmptyIffEmpty DEF IsEmpty
<1>6. s[1] = e /\ Initialize(RemoveHead(l), s[1]) = RemoveEntry(l, s[1])
  BY Zenon, <1>3, <1>5, RemoveHeadRemoves
<1>7. OnList(s, e)
  BY <1>5, <1>6 DEF OnList, Lists
<1> QED BY Zenon, <1>1, <1>2, <1>5, <1>6, <1>7

\* insert keeps the invariant.
LEMMA InsertInv ==
  ASSUME IInv, NEW d \in Dpcs, NEW p \in Params, Insert(d, p)
  PROVE  IInv' /\ ~OnList(list, d) /\ list' = Append(list, d)
<1>1. /\ parameter' = [parameter EXCEPT ![d] = p] /\ SetList(InsertTail(List, d))
      /\ process' = IF AssertsEnabled /\ ~TailAssertions(InsertTail(List, d)) THEN "assertion" ELSE process
      /\ notified' = (pc = "waiting" \/ notified) /\ woken' = flushing
      /\ list' = Append(list, d) /\ credit' = [credit EXCEPT ![<<d, p>>] = @ + 1]
      /\ UNCHANGED <<pc, current, terminate, flushing, lock, raises, before>>
  BY Zenon DEF Insert, NotifyAll, lockVars
<1>2. ~OnList(list, d)
  BY Zenon, StateLinks DEF Insert
<1>3. /\ Flink' \in [Entries -> Entries] /\ Blink' \in [Entries -> Entries]
      /\ list' \in Seq(Dpcs \cup {Flush}) /\ Links(List, list)' /\ TailAssertions(InsertTail(List, d))
      /\ Len(list') # 0
      /\ \A x : OnList(list', x) <=> OnList(list, x) \/ x = d
      /\ \A x : Ahead(list, x) => Ahead(list', x)
  BY Zenon, <1>1, <1>2, QueueGrows
<1>4. process' = "running"
  BY Zenon, <1>1, <1>3 DEF IInv
<1>5. AcceptedInv'
  <2> SUFFICES ASSUME NEW c \in Dpcs, NEW q \in Params
               PROVE  credit'[<<c, q>>] = (IF OnList(list', c) /\ parameter'[c] = q THEN 1 ELSE 0)
                                        + (IF current' = <<c, q>> THEN 1 ELSE 0)
    BY Zenon DEF AcceptedInv
  <2>1. credit[<<c, q>>] = (IF OnList(list, c) /\ parameter[c] = q THEN 1 ELSE 0)
                         + (IF current = <<c, q>> THEN 1 ELSE 0)
    BY Zenon DEF IInv, AcceptedInv
  <2>2. credit \in [Dpcs \X Params -> 0 .. 2] /\ parameter \in [Dpcs -> Params]
    BY Zenon DEF IInv, TypeOK
  <2>3. OnList(list', c) <=> OnList(list, c) \/ c = d
    BY Zenon, <1>3
  <2>4. CASE c = d
    <3>1. CASE q = p
      BY <1>1, <1>2, <2>1, <2>2, <2>3, <2>4, <3>1
    <3>2. CASE q # p
      BY <1>1, <1>2, <2>1, <2>2, <2>3, <2>4, <3>2
    <3> QED BY <3>1, <3>2
  <2>5. CASE c # d
    BY <1>1, <1>2, <2>1, <2>2, <2>3, <2>5
  <2> QED BY <2>4, <2>5
<1>6. WakeInv'
  <2>1. pc' = "waiting" => notified'
    BY Zenon, <1>1
  <2>2. woken' = flushing'
    BY Zenon, <1>1
  <2> QED BY Zenon, <2>1, <2>2 DEF WakeInv
<1>7. MarkerInv'
  <2>1. OnList(list', Flush) <=> OnList(list, Flush)
    BY <1>3, DpcAssumption, Zenon
  <2> QED BY Zenon, <1>1, <1>3, <2>1 DEF IInv, MarkerInv
<1>8. ThreadInv'
  BY Zenon, <1>1 DEF IInv, ThreadInv
<1>9. TypeOK'
  <2>1. credit' \in [Dpcs \X Params -> 0 .. 2]
    <3>1. credit[<<d, p>>] \in {0, 1}
      BY <1>2 DEF IInv, AcceptedInv
    <3>2. credit \in [Dpcs \X Params -> 0 .. 2]
      BY Zenon DEF IInv, TypeOK
    <3>3. credit[<<d, p>>] + 1 \in 0 .. 2
      BY <3>1
    <3> QED BY <1>1, <3>2, <3>3
  <2>2. parameter' \in [Dpcs -> Params]
    BY <1>1 DEF IInv, TypeOK
  <2>3. notified' \in BOOLEAN /\ woken' \subseteq flushing'
    BY Zenon, <1>1 DEF IInv, TypeOK
  <2> QED BY Zenon, <1>1, <1>3, <1>4, <2>1, <2>2, <2>3 DEF IInv, TypeOK
<1> QED BY Zenon, <1>1, <1>2, <1>3, <1>4, <1>5, <1>6, <1>7, <1>8, <1>9 DEF IInv

\* remove keeps the invariant.
LEMMA RemoveInv ==
  ASSUME IInv, NEW d \in Dpcs, Remove(d)
  PROVE  IInv' /\ \E k \in 1 .. Len(list) : list[k] = d /\ list' = WithoutAt(list, k)
<1>1. /\ SetList(RemoveEntry(List, d)) /\ list' = Without(list, d)
      /\ credit' = [credit EXCEPT ![<<d, parameter[d]>>] = @ - 1]
      /\ before' = [f \in Flushers |-> before[f] \ {d}]
      /\ UNCHANGED <<parameter, pc, notified, current, terminate, flushing, woken, lock, raises, process>>
  BY Zenon DEF Remove, dpcThread, flushVars, lockVars
<1>2. OnList(list, d)
  BY Zenon, StateLinks DEF Remove
<1>3. /\ Flink' \in [Entries -> Entries] /\ Blink' \in [Entries -> Entries]
      /\ list' \in Seq(Dpcs \cup {Flush}) /\ Links(List, list)'
      /\ Len(list) # 0
      /\ \A x : OnList(list', x) <=> OnList(list, x) /\ x # d
      /\ d # Flush => \A x : x # d /\ Ahead(list, x) => Ahead(list', x)
      /\ \E k \in 1 .. Len(list) : list[k] = d /\ list' = WithoutAt(list, k)
  BY Zenon, <1>1, <1>2, QueueShrinks
<1>4. d # Flush /\ d # Idle
  BY DpcAssumption
<1>5. AcceptedInv'
  <2> SUFFICES ASSUME NEW c \in Dpcs, NEW q \in Params
               PROVE  credit'[<<c, q>>] = (IF OnList(list', c) /\ parameter'[c] = q THEN 1 ELSE 0)
                                        + (IF current' = <<c, q>> THEN 1 ELSE 0)
    BY Zenon DEF AcceptedInv
  <2>1. credit[<<c, q>>] = (IF OnList(list, c) /\ parameter[c] = q THEN 1 ELSE 0)
                         + (IF current = <<c, q>> THEN 1 ELSE 0)
    BY Zenon DEF IInv, AcceptedInv
  <2>2. credit \in [Dpcs \X Params -> 0 .. 2] /\ parameter \in [Dpcs -> Params]
    BY Zenon DEF IInv, TypeOK
  <2>3. OnList(list', c) <=> OnList(list, c) /\ c # d
    BY Zenon, <1>3
  <2>4. CASE c = d
    <3>1. CASE q = parameter[d]
      BY <1>1, <1>2, <2>1, <2>2, <2>3, <2>4, <3>1
    <3>2. CASE q # parameter[d]
      BY <1>1, <1>2, <2>1, <2>2, <2>3, <2>4, <3>2
    <3> QED BY <3>1, <3>2
  <2>5. CASE c # d
    BY <1>1, <2>1, <2>2, <2>3, <2>5
  <2> QED BY <2>4, <2>5
<1>6. WakeInv'
  <2>1. pc' = "waiting" /\ ~notified' => FALSE
    BY Zenon, <1>1, <1>3 DEF IInv, WakeInv
  <2>2. \A f \in flushing' \ woken' : OnList(list', Flush)
    BY Zenon, <1>1, <1>3, <1>4 DEF IInv, WakeInv
  <2> QED BY Zenon, <2>1, <2>2 DEF WakeInv
<1>7. MarkerInv'
  <2>1. (OnList(list', Flush) => flushing' # {}) /\ (terminate' => flushing' = {})
    BY Zenon, <1>1, <1>3 DEF IInv, MarkerInv
  <2>2. ASSUME NEW f \in flushing', NEW x \in before'[f]
        PROVE  IF x = Idle THEN current' # Idle /\ OnList(list', Flush) ELSE Ahead(list', x)
    <3>1. f \in flushing /\ f \in Flushers
      BY Zenon, <1>1, <2>2 DEF IInv, TypeOK
    <3>2. x \in before[f] /\ x # d
      BY <1>1, <2>2, <3>1
    <3> QED BY Zenon, <1>1, <1>3, <1>4, <3>1, <3>2 DEF IInv, MarkerInv
  <2> QED BY Zenon, <2>1, <2>2 DEF MarkerInv
<1>8. ThreadInv'
  BY Zenon, <1>1 DEF IInv, ThreadInv
<1>9. TypeOK'
  <2>1. credit' \in [Dpcs \X Params -> 0 .. 2]
    <3>1. parameter[d] \in Params
      BY DEF IInv, TypeOK
    <3>2. credit[<<d, parameter[d]>>] \in {1, 2}
      BY <1>2, <3>1 DEF IInv, AcceptedInv
    <3> QED BY <1>1, <3>1, <3>2 DEF IInv, TypeOK
  <2>2. before' \in [Flushers -> SUBSET (Dpcs \cup {Idle})]
    BY <1>1 DEF IInv, TypeOK
  <2> QED BY Zenon, <1>1, <1>3, <2>1, <2>2 DEF IInv, TypeOK
<1> QED BY Zenon, <1>1, <1>3, <1>5, <1>6, <1>7, <1>8, <1>9 DEF IInv

\* flush_queue up to its wait keeps the invariant, if no other flush is under way.
LEMMA FlushQueueInv ==
  ASSUME SafeFlushes, IInv, NEW f \in Flushers, FlushQueue(f), ~terminate
  PROVE  IInv' /\ ~OnList(list, Flush) /\ list' = Append(list, Flush)
<1>1. flushing = {} /\ woken = {}
  <2>1. f \notin flushing /\ (flushing = {} \/ Overlapping)
    BY Zenon DEF FlushQueue
  <2>2. flushing \subseteq Flushers /\ woken \subseteq flushing
    BY Zenon DEF IInv, TypeOK
  <2>3. CASE Overlapping
    <3>1. \A g \in Flushers : g = f
      BY Zenon, <2>3 DEF SafeFlushes
    <3> QED BY <2>1, <2>2, <3>1
  <2> QED BY <2>1, <2>2, <2>3
<1>2. ~OnList(list, Flush) /\ Flink[Flush] = Flush /\ Blink[Flush] = Flush
  <2>1. ~OnList(list, Flush)
    BY Zenon, <1>1 DEF IInv, MarkerInv
  <2>2. Flush \in Entries \ {head}
    BY DpcAssumption DEF Entries
  <2>3. List.flink[Flush] = Flush /\ List.blink[Flush] = Flush
    BY Zenon, <2>1, <2>2 DEF IInv, Links, OnList
  <2> QED BY <2>1, <2>3, StateLinks, Zenon
<1>3. Initialize(List, Flush) = List
  BY <1>2 DEF Initialize, List, IInv, TypeOK
<1>4. Without(list, Flush) = list
  BY Zenon, <1>2 DEF Without, OnList
<1>5. /\ SetList(InsertTail(List, Flush)) /\ list' = Append(list, Flush)
      /\ process' = IF AssertsEnabled /\ ~TailAssertions(InsertTail(List, Flush)) THEN "assertion" ELSE process
      /\ IF terminate \/ IsEmpty(InsertTail(List, Flush).flink, Flush)
         THEN UNCHANGED <<flushing, before>>
         ELSE /\ flushing' = flushing \cup {f}
              /\ before' = [before EXCEPT ![f] = {d \in Dpcs : ~IsEmpty(Flink, d)}
                                                 \cup (IF current = Idle THEN {} ELSE {Idle})]
      /\ notified' = (pc = "waiting" \/ notified) /\ woken' = flushing
      /\ UNCHANGED <<parameter, pc, current, terminate, lock, raises, credit>>
  BY Zenon, <1>3, <1>4 DEF FlushQueue, NotifyAll, lockVars
<1>6. /\ Flink' \in [Entries -> Entries] /\ Blink' \in [Entries -> Entries]
      /\ list' \in Seq(Dpcs \cup {Flush}) /\ Links(List, list)' /\ TailAssertions(InsertTail(List, Flush))
      /\ InsertTail(List, Flush).flink = Flink'
      /\ Len(list') # 0
      /\ \A x : OnList(list', x) <=> OnList(list, x) \/ x = Flush
      /\ \A x : OnList(list, x) => Ahead(list', x)
  BY Zenon, <1>2, <1>5, QueueGrows
<1>7. process' = "running"
  BY Zenon, <1>5, <1>6 DEF IInv
<1>8. ~IsEmpty(Flink', Flush)
  <2>1. PICK l \in LinkPairs : l.flink = Flink' /\ l = List'
    BY <1>6 DEF LinkPairs, List
  <2>2. PICK s \in Lists : s = list'
    BY <1>6 DEF Lists
  <2>3. Links(l, s)
    BY Zenon, <1>6, <2>1, <2>2
  <2>4. Flush \in Entries \ {head}
    BY DpcAssumption DEF Entries
  <2>5. IsEmpty(l.flink, Flush) <=> \A i \in 1 .. Len(s) : s[i] # Flush
    BY Zenon, <2>3, <2>4, LinkedIffQueued
  <2>6. OnList(s, Flush)
    BY Zenon, <1>6, <2>2
  <2> QED BY Zenon, <2>1, <2>5, <2>6 DEF OnList
<1>9. /\ flushing' = {f}
      /\ before' = [before EXCEPT ![f] = {d \in Dpcs : ~IsEmpty(Flink, d)}
                                         \cup (IF current = Idle THEN {} ELSE {Idle})]
  BY Zenon, <1>1, <1>5, <1>6, <1>8
<1>10. AcceptedInv'
  <2> SUFFICES ASSUME NEW c \in Dpcs, NEW q \in Params
               PROVE  credit'[<<c, q>>] = (IF OnList(list', c) /\ parameter'[c] = q THEN 1 ELSE 0)
                                        + (IF current' = <<c, q>> THEN 1 ELSE 0)
    BY Zenon DEF AcceptedInv
  <2>1. credit[<<c, q>>] = (IF OnList(list, c) /\ parameter[c] = q THEN 1 ELSE 0)
                         + (IF current = <<c, q>> THEN 1 ELSE 0)
    BY Zenon DEF IInv, AcceptedInv
  <2>2. c # Flush
    BY DpcAssumption
  <2>3. OnList(list', c) <=> OnList(list, c)
    BY Zenon, <1>6, <2>2
  <2> QED BY Zenon, <1>5, <2>1, <2>3
<1>11. WakeInv'
  <2>1. pc' = "waiting" => notified'
    BY Zenon, <1>5
  <2>2. OnList(list', Flush)
    BY Zenon, <1>6
  <2> QED BY Zenon, <2>1, <2>2 DEF WakeInv
<1>12. MarkerInv'
  <2>1. flushing' # {} /\ ~terminate'
    BY Zenon, <1>5, <1>9
  <2>2. ASSUME NEW g \in flushing', NEW x \in before'[g]
        PROVE  IF x = Idle THEN current' # Idle /\ OnList(list', Flush) ELSE Ahead(list', x)
    <3>1. x \in {d \in Dpcs : ~IsEmpty(Flink, d)} \cup (IF current = Idle THEN {} ELSE {Idle})
      BY <1>9, <2>2 DEF IInv, TypeOK
    <3>2. CASE x = Idle
      <4>1. x \notin Dpcs
        BY <3>2, DpcAssumption
      <4> QED BY Zenon, <1>5, <1>6, <3>1, <3>2, <4>1
    <3>3. CASE x # Idle
      <4>1. x \in Dpcs /\ ~IsEmpty(Flink, x)
        BY <3>1, <3>3
      <4> QED BY Zenon, <1>6, <3>3, <4>1, StateLinks
    <3> QED BY <3>2, <3>3
  <2> QED BY Zenon, <2>1, <2>2 DEF MarkerInv
<1>13. ThreadInv'
  BY Zenon, <1>5 DEF IInv, ThreadInv
<1>14. TypeOK'
  <2>1. before' \in [Flushers -> SUBSET (Dpcs \cup {Idle})]
    <3>1. {d \in Dpcs : ~IsEmpty(Flink, d)} \cup (IF current = Idle THEN {} ELSE {Idle})
            \in SUBSET (Dpcs \cup {Idle})
      BY Zenon
    <3> QED BY <1>9, <3>1 DEF IInv, TypeOK
  <2>2. notified' \in BOOLEAN /\ flushing' \subseteq Flushers /\ woken' \subseteq flushing'
    BY Zenon, <1>1, <1>5, <1>9 DEF IInv, TypeOK
  <2> QED BY Zenon, <1>5, <1>6, <1>7, <2>1, <2>2 DEF IInv, TypeOK
<1> QED BY Zenon, <1>2, <1>5, <1>6, <1>7, <1>10, <1>11, <1>12, <1>13, <1>14 DEF IInv

\* What the loop does when it takes the first entry: common to a marker and a DPC.
LEMMA TakeEffect ==
  ASSUME IInv, NEW e \in Dpcs \cup {Flush}, Flink[head] = e,
         SetList(Initialize(RemoveHead(List), e)), list' = Without(list, e)
  PROVE  /\ Flink' \in [Entries -> Entries] /\ Blink' \in [Entries -> Entries]
         /\ list' \in Seq(Dpcs \cup {Flush})
         /\ Links(List, list)'
         /\ Initialize(RemoveHead(List), e).flink = Flink'
         /\ Len(list) # 0 /\ list[1] = e /\ OnList(list, e)
         /\ \A x : OnList(list', x) <=> OnList(list, x) /\ x # e
         /\ e # Flush => \A x : x # e /\ Ahead(list, x) => Ahead(list', x)
         /\ list' = WithoutAt(list, 1)
<1>1. /\ Len(list) # 0 /\ list[1] = e /\ OnList(list, e)
      /\ Initialize(RemoveHead(List), e) = RemoveEntry(List, e)
  BY Zenon, FrontIsOldest
<1>2. SetList(RemoveEntry(List, e))
  BY Zenon, <1>1
<1>3. /\ Flink' \in [Entries -> Entries] /\ Blink' \in [Entries -> Entries]
      /\ list' \in Seq(Dpcs \cup {Flush})
      /\ Links(List, list)'
      /\ RemoveEntry(List, e).flink = Flink'
      /\ \A x : OnList(list', x) <=> OnList(list, x) /\ x # e
      /\ e # Flush => \A x : x # e /\ Ahead(list, x) => Ahead(list', x)
      /\ \E k \in 1 .. Len(list) : list[k] = e /\ list' = WithoutAt(list, k)
  BY Zenon, <1>1, <1>2, QueueShrinks
<1>4. list' = WithoutAt(list, 1)
  <2>1. PICK k \in 1 .. Len(list) : list[k] = e /\ list' = WithoutAt(list, k)
    BY Zenon, <1>3
  <2>2. PICK s \in Lists : s = list
    BY StateLinks
  <2>3. Len(s) # 0 /\ s[1] = e /\ k \in 1 .. Len(s) /\ s[k] = e /\ \A i, j \in 1 .. Len(s) : s[i] = s[j] => i = j
    BY Zenon, <1>1, <2>1, <2>2, StateLinks
  <2>4. Len(s) \in Nat
    BY DEF Lists
  <2>5. 1 \in 1 .. Len(s)
    BY <2>3, <2>4
  <2>6. k = 1
    BY Zenon, <2>3, <2>5
  <2> QED BY Zenon, <2>1, <2>6
<1> QED BY Zenon, <1>1, <1>3, <1>4

\* The thread waits only on an empty list: the condition of its wait in the next state.
LEMMA WaitsOnEmpty ==
  ASSUME Flink' \in [Entries -> Entries], Blink' \in [Entries -> Entries],
         list' \in Seq(Dpcs \cup {Flush}), Links(List, list)', WaitForWork(Flink')
  PROVE  /\ pc' = "waiting" => Len(list') = 0 /\ ~terminate
         /\ pc' \in {"loop", "waiting"} /\ notified' = FALSE
<1>1. PICK l \in LinkPairs : l.flink = Flink' /\ l = List'
  BY DEF LinkPairs, List
<1>2. PICK s \in Lists : s = list'
  BY DEF Lists
<1>3. Links(l, s)
  BY Zenon, <1>1, <1>2
<1>4. IsEmpty(l.flink, head) <=> Len(s) = 0
  BY Zenon, <1>3, EmptyIffEmpty
<1> QED BY Zenon, <1>1, <1>2, <1>4 DEF WaitForWork

\* The loop keeps the invariant when it takes the marker of a flush.
LEMMA TakeMarkerInv ==
  ASSUME IInv, TakeMarker
  PROVE  IInv' /\ Len(list) # 0 /\ list[1] = Flush /\ list' = WithoutAt(list, 1)
<1>1. /\ pc = "loop" /\ ~terminate /\ Flink[head] = Flush
      /\ SetList(Initialize(RemoveHead(List), Flush)) /\ WaitForWork(Initialize(RemoveHead(List), Flush).flink)
      /\ woken' = flushing /\ list' = Without(list, Flush)
      /\ UNCHANGED <<parameter, current, terminate, flushing, lock, raises, credit, before, process>>
  BY Zenon DEF TakeMarker, lockVars
<1>2. /\ Flink' \in [Entries -> Entries] /\ Blink' \in [Entries -> Entries]
      /\ list' \in Seq(Dpcs \cup {Flush}) /\ Links(List, list)'
      /\ Initialize(RemoveHead(List), Flush).flink = Flink'
      /\ Len(list) # 0 /\ list[1] = Flush /\ list' = WithoutAt(list, 1)
      /\ \A x : OnList(list', x) <=> OnList(list, x) /\ x # Flush
  BY Zenon, <1>1, TakeEffect
<1>3. /\ pc' = "waiting" => Len(list') = 0 /\ ~terminate
      /\ pc' \in {"loop", "waiting"} /\ notified' = FALSE
  BY Zenon, <1>1, <1>2, WaitsOnEmpty
<1>4. current = Idle
  BY <1>1 DEF IInv, ThreadInv
<1>5. \A x : ~Ahead(list, x)
  BY Zenon, <1>2, StateLinks, NothingAhead
<1>6. AcceptedInv'
  <2> SUFFICES ASSUME NEW c \in Dpcs, NEW q \in Params
               PROVE  credit'[<<c, q>>] = (IF OnList(list', c) /\ parameter'[c] = q THEN 1 ELSE 0)
                                        + (IF current' = <<c, q>> THEN 1 ELSE 0)
    BY Zenon DEF AcceptedInv
  <2>1. credit[<<c, q>>] = (IF OnList(list, c) /\ parameter[c] = q THEN 1 ELSE 0)
                         + (IF current = <<c, q>> THEN 1 ELSE 0)
    BY Zenon DEF IInv, AcceptedInv
  <2>2. c # Flush
    BY DpcAssumption
  <2>3. OnList(list', c) <=> OnList(list, c)
    BY Zenon, <1>2, <2>2
  <2> QED BY Zenon, <1>1, <2>1, <2>3
<1>7. WakeInv'
  BY Zenon, <1>1, <1>3 DEF WakeInv
<1>8. MarkerInv'
  <2>1. ~OnList(list', Flush)
    BY Zenon, <1>2
  <2>2. \A f \in flushing' : before'[f] = {}
    <3> SUFFICES ASSUME NEW f \in flushing, NEW x \in before[f] PROVE FALSE
      BY Zenon, <1>1
    <3>1. IF x = Idle THEN current # Idle /\ OnList(list, Flush) ELSE Ahead(list, x)
      BY Zenon DEF IInv, MarkerInv
    <3> QED BY Zenon, <1>4, <1>5, <3>1
  <2> QED BY Zenon, <1>1, <2>1, <2>2 DEF IInv, MarkerInv
<1>9. ThreadInv'
  BY <1>1, <1>3, <1>4 DEF ThreadInv
<1>10. TypeOK'
  <2>1. woken' \subseteq flushing' /\ notified' \in BOOLEAN
    BY Zenon, <1>1, <1>3
  <2>2. pc' \in {"start", "loop", "waiting", "unlocked", "routine", "relock", "exited"}
    BY <1>3
  <2> QED BY Zenon, <1>1, <1>2, <2>1, <2>2 DEF IInv, TypeOK
<1> QED BY Zenon, <1>1, <1>2, <1>6, <1>7, <1>8, <1>9, <1>10 DEF IInv

\* The loop keeps the invariant when it takes a DPC.
LEMMA TakeDpcInv ==
  ASSUME IInv, TakeDpc
  PROVE  /\ IInv' /\ Len(list) # 0 /\ list[1] \in Dpcs /\ list' = WithoutAt(list, 1)
         /\ current = Idle /\ current' = <<list[1], parameter[list[1]]>>
<1>1. PICK d \in Dpcs : d = Flink[head]
  BY Zenon DEF TakeDpc
<1>2. /\ pc = "loop" /\ ~terminate
      /\ SetList(Initialize(RemoveHead(List), d)) /\ list' = Without(list, d)
      /\ current' = <<d, parameter[d]>>
      /\ before' = [f \in Flushers |-> IF d \in before[f] THEN (before[f] \ {d}) \cup {Idle} ELSE before[f]]
      /\ pc' = "unlocked"
      /\ UNCHANGED <<parameter, notified, terminate, flushing, woken, lock, raises, credit, process>>
  BY Zenon, <1>1 DEF TakeDpc, flushVars, lockVars
<1>3. /\ Flink' \in [Entries -> Entries] /\ Blink' \in [Entries -> Entries]
      /\ list' \in Seq(Dpcs \cup {Flush}) /\ Links(List, list)'
      /\ Len(list) # 0 /\ list[1] = d /\ OnList(list, d) /\ list' = WithoutAt(list, 1)
      /\ \A x : OnList(list', x) <=> OnList(list, x) /\ x # d
      /\ d # Flush => \A x : x # d /\ Ahead(list, x) => Ahead(list', x)
  BY Zenon, <1>1, <1>2, TakeEffect
<1>4. current = Idle /\ d # Flush /\ d # Idle /\ parameter[d] \in Params /\ <<d, parameter[d]>> # Idle
  <2>1. parameter[d] \in Params
    BY DEF IInv, TypeOK
  <2>2. <<d, parameter[d]>> \in Dpcs \X Params
    BY <2>1
  <2> QED BY <1>2, <2>1, <2>2, DpcAssumption DEF IInv, ThreadInv
<1>5. AcceptedInv'
  <2> SUFFICES ASSUME NEW c \in Dpcs, NEW q \in Params
               PROVE  credit'[<<c, q>>] = (IF OnList(list', c) /\ parameter'[c] = q THEN 1 ELSE 0)
                                        + (IF current' = <<c, q>> THEN 1 ELSE 0)
    BY Zenon DEF AcceptedInv
  <2>1. credit[<<c, q>>] = (IF OnList(list, c) /\ parameter[c] = q THEN 1 ELSE 0)
                         + (IF current = <<c, q>> THEN 1 ELSE 0)
    BY Zenon DEF IInv, AcceptedInv
  <2>2. current # <<c, q>>
    BY <1>4, DpcAssumption
  <2>3. OnList(list', c) <=> OnList(list, c) /\ c # d
    BY Zenon, <1>3
  <2>4. current' = <<c, q>> <=> c = d /\ q = parameter[d]
    BY <1>2
  <2>5. credit'[<<c, q>>] = IF OnList(list, c) /\ parameter[c] = q THEN 1 ELSE 0
    <3>1. credit' = credit
      BY Zenon, <1>2
    <3> QED BY <2>1, <2>2, <3>1
  <2>6. parameter' = parameter /\ OnList(list, d)
    BY Zenon, <1>2, <1>3
  <2>7. CASE c = d
    BY <2>3, <2>4, <2>5, <2>6, <2>7
  <2>8. CASE c # d
    BY <2>3, <2>4, <2>5, <2>6, <2>8
  <2> QED BY <2>7, <2>8
<1>6. WakeInv'
  <2>1. \A f \in flushing' \ woken' : OnList(list', Flush)
    BY Zenon, <1>2, <1>3, <1>4 DEF IInv, WakeInv
  <2>2. pc' # "waiting"
    BY <1>2
  <2> QED BY Zenon, <2>1, <2>2 DEF WakeInv
<1>7. MarkerInv'
  <2>1. (OnList(list', Flush) => flushing' # {}) /\ (terminate' => flushing' = {})
    BY Zenon, <1>2, <1>3 DEF IInv, MarkerInv
  <2>2. ASSUME NEW f \in flushing', NEW x \in before'[f]
        PROVE  IF x = Idle THEN current' # Idle /\ OnList(list', Flush) ELSE Ahead(list', x)
    <3>1. f \in flushing /\ f \in Flushers
      BY Zenon, <1>2, <2>2 DEF IInv, TypeOK
    <3>2. CASE x = Idle
      <4>1. x \in before[f] \/ d \in before[f]
        BY <1>2, <2>2, <3>1
      <4>3. d \in before[f]
        BY Zenon, <1>4, <3>2, <4>1, <3>1 DEF IInv, MarkerInv
      <4>4. Ahead(list, d)
        BY Zenon, <1>4, <3>1, <4>3 DEF IInv, MarkerInv
      <4>5. OnList(list, Flush)
        BY Zenon, <4>4 DEF Ahead, OnList
      <4> QED BY Zenon, <1>2, <1>3, <1>4, <3>2, <4>5
    <3>3. CASE x # Idle
      <4>1. x \in before[f] /\ x # d
        BY <1>2, <2>2, <3>1, <3>3
      <4>2. Ahead(list, x)
        BY Zenon, <3>1, <3>3, <4>1 DEF IInv, MarkerInv
      <4> QED BY Zenon, <1>3, <1>4, <3>3, <4>1, <4>2
    <3> QED BY <3>2, <3>3
  <2> QED BY Zenon, <2>1, <2>2 DEF MarkerInv
<1>8. ThreadInv'
  BY <1>2, <1>4 DEF ThreadInv
<1>9. TypeOK'
  <2>1. before' \in [Flushers -> SUBSET (Dpcs \cup {Idle})]
    BY <1>2 DEF IInv, TypeOK
  <2>2. current' \in (Dpcs \X Params) \cup {Idle}
    BY <1>2, <1>4
  <2>3. pc' \in {"start", "loop", "waiting", "unlocked", "routine", "relock", "exited"}
    BY <1>2
  <2> QED BY Zenon, <1>2, <1>3, <2>1, <2>2, <2>3 DEF IInv, TypeOK
<1> QED BY Zenon, <1>2, <1>3, <1>4, <1>5, <1>6, <1>7, <1>8, <1>9 DEF IInv

\* A step that touches neither the queue nor the books of its users keeps the
\* invariant if no flusher leaves its marker behind and nobody falls asleep over work.
LEMMA QuietInv ==
  ASSUME IInv, UNCHANGED <<links, parameter, current, history, process>>,
         pc' \in {"start", "loop", "waiting", "unlocked", "routine", "relock", "exited"},
         notified' \in BOOLEAN, terminate' \in BOOLEAN, lock' \in {"free", "dpc", "thread"},
         raises' \in 0 .. MaxRaises,
         pc' \in {"unlocked", "routine"} <=> pc \in {"unlocked", "routine"},
         flushing' \subseteq flushing, woken' \subseteq flushing',
         OnList(list, Flush) => flushing' = flushing,
         terminate' => flushing' = {},
         pc' = "waiting" /\ ~notified' => Len(list) = 0 /\ ~terminate',
         \A f \in flushing' \ woken' : OnList(list, Flush)
  PROVE  IInv'
<1>1. UNCHANGED <<list, credit, before, current, parameter, process, Flink, Blink>>
  BY Zenon DEF history, links
<1>2. Links(List, list)'
  BY Zenon, <1>1 DEF IInv, List
<1>3. AcceptedInv'
  BY Zenon, <1>1 DEF IInv, AcceptedInv
<1>4. WakeInv'
  BY Zenon, <1>1 DEF WakeInv
<1>5. MarkerInv'
  <2>1. OnList(list', Flush) => flushing' # {}
    BY Zenon, <1>1 DEF IInv, MarkerInv
  <2>2. \A f \in flushing' : \A x \in before'[f] :
          IF x = Idle THEN current' # Idle /\ OnList(list', Flush) ELSE Ahead(list', x)
    BY Zenon, <1>1 DEF IInv, MarkerInv
  <2> QED BY Zenon, <2>1, <2>2 DEF MarkerInv
<1>6. ThreadInv'
  BY Zenon, <1>1 DEF IInv, ThreadInv
<1>7. TypeOK'
  <2>1. flushing' \subseteq Flushers
    BY Zenon DEF IInv, TypeOK
  <2> QED BY Zenon, <1>1, <2>1 DEF IInv, TypeOK
<1> QED BY Zenon, <1>1, <1>2, <1>3, <1>4, <1>5, <1>6, <1>7 DEF IInv

\* The wait of flush_queue returns, or is entered again.
LEMMA FlushStepInv ==
  ASSUME IInv, NEW f \in Flushers, FlushStep(f)
  PROVE  IInv' /\ UNCHANGED <<list, parameter, current>>
<1>1. /\ UNCHANGED <<links, parameter, current, history, process, pc, notified, terminate, lock, raises>>
      /\ f \in woken /\ woken' = woken \ {f}
      /\ \/ flushing' = flushing \ {f} /\ (terminate \/ IsEmpty(Flink, Flush))
         \/ flushing' = flushing /\ ~terminate /\ ~IsEmpty(Flink, Flush)
  BY Zenon DEF FlushStep, FlushReturns, FlushWaitsOn, dpcThread, lockVars
<1>2. woken \subseteq flushing /\ (terminate => flushing = {}) /\ ~terminate
  BY Zenon, <1>1 DEF IInv, TypeOK, MarkerInv
<1>3. IsEmpty(Flink, Flush) <=> ~OnList(list, Flush)
  BY Zenon, StateLinks
<1>4. /\ flushing' \subseteq flushing /\ woken' \subseteq flushing'
      /\ OnList(list, Flush) => flushing' = flushing
      /\ terminate' => flushing' = {}
  BY <1>1, <1>2, <1>3
<1>5. \A g \in flushing' \ woken' : OnList(list, Flush)
  <2> SUFFICES ASSUME NEW g \in flushing' \ woken' PROVE OnList(list, Flush)
    OBVIOUS
  <2>1. CASE g \in woken
    BY <1>1, <1>2, <1>3, <2>1
  <2>2. CASE g \notin woken
    BY Zenon, <1>4, <2>2 DEF IInv, WakeInv
  <2> QED BY <2>1, <2>2
<1>6. pc' = "waiting" /\ ~notified' => Len(list) = 0 /\ ~terminate'
  BY Zenon, <1>1 DEF IInv, WakeInv
<1>7. /\ pc' \in {"start", "loop", "waiting", "unlocked", "routine", "relock", "exited"}
      /\ notified' \in BOOLEAN /\ terminate' \in BOOLEAN /\ lock' \in {"free", "dpc", "thread"}
      /\ raises' \in 0 .. MaxRaises
      /\ pc' \in {"unlocked", "routine"} <=> pc \in {"unlocked", "routine"}
  BY Zenon, <1>1 DEF IInv, TypeOK
<1>8. IInv'
  BY Zenon, <1>1, <1>4, <1>5, <1>6, <1>7, QuietInv
<1> QED BY Zenon, <1>1, <1>8 DEF history

\* The destructor, and threads that raise and lower the level.
LEMMA OthersInv ==
  ASSUME IInv, Destroy \/ Raise \/ Lower
  PROVE  IInv' /\ UNCHANGED <<list, parameter, current>>
<1>1. /\ UNCHANGED <<links, parameter, current, history, process, pc, flushing, woken>>
      /\ \/ UNCHANGED <<notified, terminate>>
         \/ flushing = {} /\ terminate' = TRUE /\ notified' = (pc = "waiting" \/ notified)
  BY Zenon DEF Destroy, Raise, Lower, dpcThread, flushVars, lockVars
<1>2. lock' \in {"free", "dpc", "thread"} /\ raises' \in 0 .. MaxRaises
  <2>1. CASE Destroy
    BY Zenon, <2>1 DEF Destroy, lockVars, IInv, TypeOK
  <2>2. CASE Raise
    BY <2>2, DpcAssumption DEF Raise, IInv, TypeOK
  <2>3. CASE Lower
    BY Zenon, <2>3 DEF Lower, IInv, TypeOK
  <2> QED BY <2>1, <2>2, <2>3
<1>3. pc' = "waiting" /\ ~notified' => Len(list) = 0 /\ ~terminate'
  BY Zenon, <1>1 DEF IInv, WakeInv
<1>4. /\ pc' \in {"start", "loop", "waiting", "unlocked", "routine", "relock", "exited"}
      /\ notified' \in BOOLEAN /\ terminate' \in BOOLEAN
      /\ pc' \in {"unlocked", "routine"} <=> pc \in {"unlocked", "routine"}
      /\ flushing' \subseteq flushing /\ woken' \subseteq flushing'
      /\ OnList(list, Flush) => flushing' = flushing
      /\ terminate' => flushing' = {}
  <2>1. /\ pc \in {"start", "loop", "waiting", "unlocked", "routine", "relock", "exited"}
        /\ notified \in BOOLEAN /\ terminate \in BOOLEAN /\ woken \subseteq flushing
        /\ terminate => flushing = {}
    BY Zenon DEF IInv, TypeOK, MarkerInv
  <2>2. notified' \in BOOLEAN /\ terminate' \in BOOLEAN
    BY <1>1, <2>1, Zenon
  <2> QED BY Zenon, <1>1, <2>1, <2>2
<1>5. \A g \in flushing' \ woken' : OnList(list, Flush)
  BY Zenon, <1>1 DEF IInv, WakeInv
<1>6. IInv'
  BY Zenon, <1>1, <1>2, <1>3, <1>4, <1>5, QuietInv
<1> QED BY Zenon, <1>1, <1>6 DEF history

\* The steps of the DPC thread that neither take an entry nor finish a routine.
LEMMA ThreadMovesInv ==
  ASSUME IInv, Start \/ Exit \/ NothingToDo \/ StartRoutine \/ Relock \/ Wake
  PROVE  IInv' /\ UNCHANGED <<list, parameter, current>>
<1>1. UNCHANGED <<links, parameter, current, history, process, terminate, flushing, woken, raises>>
  BY Zenon DEF Start, Exit, NothingToDo, StartRoutine, Relock, Wake, flushVars, lockVars
<1>2. IsEmpty(Flink, head) <=> Len(list) = 0
  BY Zenon, StateLinks
<1>3. /\ pc' \in {"start", "loop", "waiting", "unlocked", "routine", "relock", "exited"}
      /\ notified' \in BOOLEAN /\ lock' \in {"free", "dpc", "thread"}
      /\ pc' \in {"unlocked", "routine"} <=> pc \in {"unlocked", "routine"}
      /\ pc' = "waiting" => Len(list) = 0 /\ ~terminate
  <2>0. notified \in BOOLEAN /\ lock \in {"free", "dpc", "thread"}
    BY Zenon DEF IInv, TypeOK
  <2>1. CASE Start
    BY <2>0, <2>1 DEF Start, lockVars
  <2>2. CASE Exit
    BY <2>0, <2>2 DEF Exit, lockVars
  <2>3. CASE NothingToDo
    BY <1>2, <2>0, <2>3, Zenon DEF NothingToDo, WaitForWork, lockVars
  <2>4. CASE StartRoutine
    BY <2>0, <2>4 DEF StartRoutine
  <2>5. CASE Relock
    BY <1>2, <2>0, <2>5, Zenon DEF Relock, WaitForWork, lockVars
  <2>6. CASE Wake
    BY <1>2, <2>0, <2>6, Zenon DEF Wake, WaitForWork, lockVars
  <2> QED BY <2>1, <2>2, <2>3, <2>4, <2>5, <2>6
<1>4. /\ terminate' \in BOOLEAN /\ raises' \in 0 .. MaxRaises
      /\ flushing' \subseteq flushing /\ woken' \subseteq flushing'
      /\ OnList(list, Flush) => flushing' = flushing
      /\ terminate' => flushing' = {}
      /\ pc' = "waiting" /\ ~notified' => Len(list) = 0 /\ ~terminate'
  BY Zenon, <1>1, <1>3 DEF IInv, TypeOK, MarkerInv
<1>5. \A g \in flushing' \ woken' : OnList(list, Flush)
  BY Zenon, <1>1 DEF IInv, WakeInv
<1>6. IInv'
  BY Zenon, <1>1, <1>3, <1>4, <1>5, QuietInv
<1> QED BY Zenon, <1>1, <1>6 DEF history

\* The routine returns.
LEMMA FinishRoutineInv ==
  ASSUME IInv, FinishRoutine
  PROVE  IInv' /\ UNCHANGED <<list, parameter>> /\ current # Idle /\ current' = Idle
<1>1. /\ pc = "routine" /\ lock' = "free" /\ pc' = "relock" /\ credit' = [credit EXCEPT ![current] = @ - 1]
      /\ before' = [f \in Flushers |-> before[f] \ {Idle}] /\ current' = Idle
      /\ UNCHANGED <<links, parameter, notified, terminate, flushing, woken, raises, list, process>>
  BY Zenon DEF FinishRoutine, flushVars
<1>2. current # Idle /\ current \in Dpcs \X Params
  BY <1>1 DEF IInv, ThreadInv, TypeOK
<1>3. PICK d \in Dpcs, p \in Params : current = <<d, p>>
  BY <1>2
<1>4. Links(List, list)'
  BY Zenon, <1>1 DEF IInv, List, links
<1>5. AcceptedInv'
  <2> SUFFICES ASSUME NEW c \in Dpcs, NEW q \in Params
               PROVE  credit'[<<c, q>>] = (IF OnList(list', c) /\ parameter'[c] = q THEN 1 ELSE 0)
                                        + (IF current' = <<c, q>> THEN 1 ELSE 0)
    BY Zenon DEF AcceptedInv
  <2>1. credit[<<c, q>>] = (IF OnList(list, c) /\ parameter[c] = q THEN 1 ELSE 0)
                         + (IF current = <<c, q>> THEN 1 ELSE 0)
    BY Zenon DEF IInv, AcceptedInv
  <2>2. current' # <<c, q>>
    BY <1>1, DpcAssumption
  <2>3. credit \in [Dpcs \X Params -> 0 .. 2]
    BY Zenon DEF IInv, TypeOK
  <2>4. credit'[<<c, q>>] = credit[<<c, q>>] - (IF current = <<c, q>> THEN 1 ELSE 0)
    BY <1>1, <1>3, <2>3
  <2> QED BY <1>1, <2>1, <2>2, <2>4
<1>6. WakeInv'
  <2>1. pc' # "waiting"
    BY <1>1
  <2> QED BY Zenon, <1>1, <2>1 DEF IInv, WakeInv
<1>7. MarkerInv'
  <2>1. (OnList(list', Flush) => flushing' # {}) /\ (terminate' => flushing' = {})
    BY Zenon, <1>1 DEF IInv, MarkerInv
  <2>2. ASSUME NEW f \in flushing', NEW x \in before'[f]
        PROVE  IF x = Idle THEN current' # Idle /\ OnList(list', Flush) ELSE Ahead(list', x)
    <3>1. f \in flushing /\ f \in Flushers
      BY Zenon, <1>1, <2>2 DEF IInv, TypeOK
    <3>2. x \in before[f] /\ x # Idle
      BY <1>1, <2>2, <3>1
    <3> QED BY Zenon, <1>1, <3>1, <3>2 DEF IInv, MarkerInv
  <2> QED BY Zenon, <2>1, <2>2 DEF MarkerInv
<1>8. ThreadInv'
  BY <1>1 DEF ThreadInv
<1>9. TypeOK'
  <2>1. credit' \in [Dpcs \X Params -> 0 .. 2]
    <3>1. credit[current] \in {1, 2}
      BY <1>3 DEF IInv, AcceptedInv
    <3> QED BY <1>1, <1>2, <3>1 DEF IInv, TypeOK
  <2>2. before' \in [Flushers -> SUBSET (Dpcs \cup {Idle})]
    BY <1>1 DEF IInv, TypeOK
  <2>3. /\ pc' \in {"start", "loop", "waiting", "unlocked", "routine", "relock", "exited"}
        /\ lock' \in {"free", "dpc", "thread"}
    BY <1>1
  <2> QED BY Zenon, <1>1, <2>1, <2>2, <2>3 DEF IInv, TypeOK, links
<1> QED BY Zenon, <1>1, <1>2, <1>4, <1>5, <1>6, <1>7, <1>8, <1>9 DEF IInv

\* The steps that change the list or the DPC in hand, and the others: what a step
\* does, with the invariant after it.
Queueing ==
  \/ \E d \in Dpcs, p \in Params : Insert(d, p)
  \/ \E d \in Dpcs : Remove(d)
  \/ \E f \in Flushers : ~terminate /\ FlushQueue(f)
  \/ TakeMarker \/ TakeDpc \/ FinishRoutine

\* Every step keeps the invariant.
LEMMA NextInv ==
  ASSUME SafeFlushes, IInv, [Next]_vars
  PROVE  IInv' /\ (Queueing \/ UNCHANGED <<list, parameter, current>>)
<1>1. CASE UNCHANGED vars
  <2>1. /\ UNCHANGED <<Flink, Blink, parameter, pc, notified, current, terminate, flushing, woken>>
        /\ UNCHANGED <<lock, raises, list, credit, before, process>>
    BY Zenon, <1>1 DEF vars, links, dpcThread, flushVars, lockVars, history
  <2>2. Links(List, list)'
    BY Zenon, <2>1 DEF IInv, List
  <2>3. TypeOK'
    BY Zenon, <2>1 DEF IInv, TypeOK
  <2>4. AcceptedInv' /\ WakeInv' /\ MarkerInv' /\ ThreadInv'
    BY Zenon, <2>1 DEF IInv, AcceptedInv, WakeInv, MarkerInv, ThreadInv
  <2> QED BY Zenon, <2>1, <2>2, <2>3, <2>4 DEF IInv
<1>2. CASE DpcThreadStep
  <2>1. CASE Start \/ Exit \/ NothingToDo \/ StartRoutine \/ Relock \/ Wake
    BY Zenon, <2>1, ThreadMovesInv
  <2>2. CASE TakeMarker
    BY Zenon, <2>2, TakeMarkerInv DEF Queueing
  <2>3. CASE TakeDpc
    BY Zenon, <2>3, TakeDpcInv DEF Queueing
  <2>4. CASE FinishRoutine
    BY Zenon, <2>4, FinishRoutineInv DEF Queueing
  <2> QED BY Zenon, <1>2, <2>1, <2>2, <2>3, <2>4 DEF DpcThreadStep
<1>3. ASSUME NEW d \in Dpcs, Remove(d)
      PROVE  IInv' /\ Queueing
  BY Zenon, <1>3, RemoveInv DEF Queueing
<1>4. ASSUME NEW d \in Dpcs, InsertRefused(d)
      PROVE  IInv' /\ UNCHANGED <<list, parameter, current>>
  BY Zenon, <1>1, <1>4 DEF InsertRefused, vars, history, dpcThread
<1>5. ASSUME NEW d \in Dpcs, NEW p \in Params, Insert(d, p)
      PROVE  IInv' /\ Queueing
  BY Zenon, <1>5, InsertInv DEF Queueing
<1>6. ASSUME NEW f \in Flushers, ~terminate, FlushQueue(f)
      PROVE  IInv' /\ Queueing
  BY Zenon, <1>6, FlushQueueInv DEF Queueing
<1>7. ASSUME NEW f \in Flushers, FlushStep(f)
      PROVE  IInv' /\ UNCHANGED <<list, parameter, current>>
  BY Zenon, <1>7, FlushStepInv
<1>8. CASE Destroy \/ Raise \/ Lower
  BY Zenon, <1>8, OthersInv
<1> QED BY Zenon, <1>1, <1>2, <1>3, <1>4, <1>5, <1>6, <1>7, <1>8 DEF Next

-----------------------------------------------------------------------------
(* The theorems.                                                           *)

\* The invariant is inductive, whatever the DPCs, arguments and threads, if no two
\* flushes of the queue overlap.
THEOREM Invariance ==
  ASSUME SafeFlushes
  PROVE  Spec => []IInv
<1>1. Init => IInv
  BY InitInv
<1>2. IInv /\ [Next]_vars => IInv'
  BY NextInv
<1> QED BY <1>1, <1>2, PTL DEF Spec

\* The queue is always consistent: the links are those of the entries queued, "linked
\* to itself" stands for "not queued", the assertions of usersim_list_insert_tail
\* hold, every accepted insertion is accounted for with its arguments, and nobody
\* sleeps through what they wait for.
THEOREM AlwaysConsistent ==
  ASSUME SafeFlushes
  PROVE  Spec => []QueueConsistent
<1>1. IInv => QueueConsistent
  <2> SUFFICES ASSUME IInv PROVE QueueConsistent
    OBVIOUS
  <2>1. /\ IsEmpty(Flink, head) <=> Len(list) = 0
        /\ \A e \in Dpcs \cup {Flush} : IsEmpty(Flink, e) <=> ~OnList(list, e)
    BY Zenon, StateLinks
  <2>2. ListWellFormed
    <3>1. \A e \in Entries \ {head} : e \in Dpcs \cup {Flush}
      BY DEF Entries
    <3> QED BY Zenon, <2>1, <3>1 DEF IInv, ListWellFormed, OnList
  <2>3. AcceptedAccounted
    <3>1. \A d \in Dpcs : ~IsEmpty(Flink, d) <=> OnList(list, d)
      BY Zenon, <2>1
    <3> QED BY <3>1, Zenon DEF IInv, AcceptedInv, AcceptedAccounted
  <2>4. NoLostWakeup
    BY Zenon, <2>1 DEF IInv, WakeInv, NoLostWakeup
  <2>5. TypeOK /\ process # "assertion"
    BY DEF IInv
  <2> QED BY Zenon, <2>2, <2>3, <2>4, <2>5 DEF QueueConsistent
<1> QED BY <1>1, Invariance, PTL

\* A flush returns only when every DPC that was queued or running when it was called
\* has been removed or has finished.
THEOREM FlushesCover ==
  ASSUME SafeFlushes
  PROVE  Spec => FlushCovers
<1>1. ASSUME IInv, [Next]_vars
      PROVE  [\A f \in Flushers : f \in flushing /\ f \notin flushing' /\ ~terminate => before[f] = {}]_vars
  <2> SUFFICES ASSUME Next, NEW f \in Flushers, f \in flushing, f \notin flushing', ~terminate
               PROVE  before[f] = {}
    BY Zenon, <1>1
  <2>1. FlushReturns(f)
    <3>1. ~DpcThreadStep
      BY Zenon DEF DpcThreadStep, Start, Exit, TakeMarker, TakeDpc, NothingToDo, StartRoutine, FinishRoutine,
                   Relock, Wake, flushVars
    <3>2. ASSUME NEW d \in Dpcs, Remove(d) \/ InsertRefused(d) PROVE FALSE
      BY Zenon, <3>2 DEF Remove, InsertRefused, vars, flushVars
    <3>3. ASSUME NEW d \in Dpcs, NEW p \in Params, Insert(d, p) PROVE FALSE
      BY Zenon, <3>3 DEF Insert
    <3>4. ASSUME NEW g \in Flushers, FlushQueue(g) PROVE FALSE
      <4>1. flushing' = flushing \/ flushing' = flushing \cup {g}
        BY Zenon, <3>4 DEF FlushQueue
      <4> QED BY <4>1
    <3>5. ~Destroy /\ ~Raise /\ ~Lower
      BY Zenon DEF Destroy, Raise, Lower, flushVars
    <3>6. PICK g \in Flushers : FlushStep(g)
      BY Zenon, <3>1, <3>2, <3>3, <3>4, <3>5 DEF Next
    <3>7. FlushReturns(g) /\ flushing' = flushing \ {g}
      BY Zenon, <3>6 DEF FlushStep, FlushReturns, FlushWaitsOn
    <3>8. f = g
      BY <3>7
    <3> QED BY Zenon, <3>7, <3>8
  <2>2. ~OnList(list, Flush)
    BY Zenon, <1>1, <2>1, StateLinks DEF FlushReturns
  <2>3. \A x : ~Ahead(list, x)
    BY Zenon, <2>2 DEF Ahead, OnList
  <2> QED BY Zenon, <1>1, <2>2, <2>3 DEF IInv, MarkerInv
<1> QED BY <1>1, Invariance, PTL DEF Spec, FlushCovers

-----------------------------------------------------------------------------
(* The refinement.                                                         *)

\* The entries of a list with their arguments.
Paired(s, par) == [k \in 1 .. Len(s) |-> IF s[k] = Flush THEN Flush ELSE <<s[k], par[s[k]]>>]
Pairs == (Dpcs \X Params) \cup {Flush}

\* The abstract queue has the length and the order of the list.
LEMMA PairedType ==
  ASSUME NEW s \in Lists, NEW par \in [Dpcs -> Params]
  PROVE  Paired(s, par) \in Seq(Pairs) /\ Len(Paired(s, par)) = Len(s)
<1>1. Len(s) \in Nat /\ \A k \in 1 .. Len(s) : s[k] \in Dpcs \cup {Flush}
  BY DEF Lists
<1>2. Paired(s, par) \in [1 .. Len(s) -> Pairs]
  BY <1>1, Zenon DEF Paired, Pairs
<1> QED BY <1>1, <1>2

\* Two sequences of the same length with the same elements are the same.
LEMMA SameSequence ==
  ASSUME NEW S, NEW q \in Seq(S), NEW r \in Seq(S), Len(q) = Len(r),
         \A i \in 1 .. Len(q) : q[i] = r[i]
  PROVE  q = r
  OBVIOUS

\* Putting a DPC with its arguments, or the marker, at the end.
LEMMA PairedAppend ==
  ASSUME NEW s \in Lists, NEW par \in [Dpcs -> Params], NEW new \in [Dpcs -> Params],
         NEW e \in Dpcs \cup {Flush}, \A d \in Dpcs : d # e => new[d] = par[d], ~OnList(s, e)
  PROVE  Paired(Append(s, e), new) = Append(Paired(s, par), IF e = Flush THEN Flush ELSE <<e, new[e]>>)
<1> DEFINE n == Len(s)  t == Append(s, e)  x == IF e = Flush THEN Flush ELSE <<e, new[e]>>
           q == Paired(t, new)  r == Append(Paired(s, par), x)
<1>1. n \in Nat /\ t \in Lists /\ Len(t) = n + 1 /\ t[n + 1] = e /\ \A i \in 1 .. n : t[i] = s[i]
  BY DEF Lists
<1>2. x \in Pairs
  BY DEF Pairs
<1>3. q \in Seq(Pairs) /\ Len(q) = n + 1
  BY <1>1, PairedType, Zenon
<1>4. Paired(s, par) \in Seq(Pairs) /\ Len(Paired(s, par)) = n
  BY PairedType
<1>5. r \in Seq(Pairs) /\ Len(r) = n + 1 /\ r[n + 1] = x /\ \A i \in 1 .. n : r[i] = Paired(s, par)[i]
  BY <1>2, <1>4
<1>6. ASSUME NEW i \in 1 .. n + 1
      PROVE  q[i] = r[i]
  <2>1. CASE i = n + 1
    <3>1. q[i] = IF t[i] = Flush THEN Flush ELSE <<t[i], new[t[i]]>>
      BY <1>1 DEF Paired
    <3> HIDE DEF q, r, t
    <3> QED BY <1>1, <1>5, <2>1, <3>1
  <2>2. CASE i \in 1 .. n
    <3>1. q[i] = (IF t[i] = Flush THEN Flush ELSE <<t[i], new[t[i]]>>) /\ t[i] = s[i]
      BY <1>1, <2>2 DEF Paired
    <3>2. r[i] = IF s[i] = Flush THEN Flush ELSE <<s[i], par[s[i]]>>
      BY <1>5, <2>2, Zenon DEF Paired
    <3>3. s[i] # e /\ s[i] \in Dpcs \cup {Flush}
      BY <2>2 DEF OnList, Lists
    <3> HIDE DEF q, r, t
    <3> QED BY <3>1, <3>2, <3>3
  <2>3. i = n + 1 \/ i \in 1 .. n
    BY <1>1
  <2> QED BY Zenon, <2>1, <2>2, <2>3
<1>7. q = r
  <2> HIDE DEF q, r
  <2> QED BY <1>3, <1>5, <1>6, SameSequence
<1> QED BY <1>7

\* Taking an entry out.
LEMMA PairedWithout ==
  ASSUME NEW s \in Lists, NEW par \in [Dpcs -> Params], NEW k \in 1 .. Len(s)
  PROVE  Paired(WithoutAt(s, k), par) = WithoutAt(Paired(s, par), k)
<1> DEFINE n == Len(s)  t == WithoutAt(s, k)  q == Paired(s, par)
<1>1. n \in Nat /\ k \in Nat
  BY DEF Lists
<1>2. t \in Lists /\ Len(t) = n - 1 /\ \A i \in 1 .. n - 1 : t[i] = s[IF i < k THEN i ELSE i + 1]
  BY Zenon, WithoutAtFacts
<1>3. q \in Seq(Pairs) /\ Len(q) = n
  BY PairedType
<1>4. \A i \in 1 .. n - 1 : (IF i < k THEN i ELSE i + 1) \in 1 .. n
  BY <1>1
<1>5. ASSUME NEW i \in 1 .. n - 1
      PROVE  (IF t[i] = Flush THEN Flush ELSE <<t[i], par[t[i]]>>) = q[IF i < k THEN i ELSE i + 1]
  <2>1. PICK j \in 1 .. n : j = (IF i < k THEN i ELSE i + 1)
    BY <1>4
  <2>2. q[j] = IF s[j] = Flush THEN Flush ELSE <<s[j], par[s[j]]>>
    BY DEF Paired
  <2> QED BY Zenon, <1>2, <2>1, <2>2
<1>6. Paired(t, par) = [i \in 1 .. n - 1 |-> q[IF i < k THEN i ELSE i + 1]]
  <2>1. Paired(t, par) = [i \in 1 .. n - 1 |-> IF t[i] = Flush THEN Flush ELSE <<t[i], par[t[i]]>>]
    BY Zenon, <1>2 DEF Paired
  <2> QED BY Zenon, <1>5, <2>1
<1> QED BY Zenon, <1>3, <1>6 DEF WithoutAt

\* The first element of the abstract queue, and the rest.
LEMMA PairedFirst ==
  ASSUME NEW s \in Lists, NEW par \in [Dpcs -> Params], Len(s) # 0
  PROVE  /\ Paired(s, par) # << >>
         /\ Head(Paired(s, par)) = IF s[1] = Flush THEN Flush ELSE <<s[1], par[s[1]]>>
         /\ Tail(Paired(s, par)) = Paired(WithoutAt(s, 1), par)
<1> DEFINE n == Len(s)  q == Paired(s, par)
<1>1. n \in Nat /\ 1 \in 1 .. n
  BY DEF Lists
<1>2. q \in Seq(Pairs) /\ Len(q) = n
  BY PairedType
<1>3. q[1] = IF s[1] = Flush THEN Flush ELSE <<s[1], par[s[1]]>>
  BY <1>1 DEF Paired
<1>4. Paired(WithoutAt(s, 1), par) = WithoutAt(q, 1)
  BY <1>1, PairedWithout
<1>5. WithoutAt(q, 1) = Tail(q)
  <2> HIDE DEF q
  <2>1. Tail(q) \in Seq(Pairs) /\ Len(Tail(q)) = n - 1 /\ \A i \in 1 .. n - 1 : Tail(q)[i] = q[i + 1]
    BY <1>1, <1>2
  <2>2. /\ WithoutAt(q, 1) \in [1 .. n - 1 -> Pairs]
        /\ \A i \in 1 .. n - 1 : WithoutAt(q, 1)[i] = q[i + 1]
    BY <1>1, <1>2 DEF WithoutAt
  <2>3. WithoutAt(q, 1) \in Seq(Pairs) /\ Len(WithoutAt(q, 1)) = n - 1
    BY <1>1, <2>2
  <2> QED BY <2>1, <2>2, <2>3, SameSequence, Zenon
<1>6. q # << >> /\ Head(q) = q[1]
  <2> HIDE DEF q
  <2> QED BY <1>1, <1>2
<1> QED BY <1>3, <1>4, <1>5, <1>6

\* Every step of the queue is a step of the abstract one, or changes nothing there.
LEMMA StepRefines ==
  ASSUME SafeFlushes, IInv, [Next]_vars
  PROVE  [Fifo!Next]_(Fifo!vars)
<1>1. list \in Lists /\ parameter \in [Dpcs -> Params] /\ parameter' \in [Dpcs -> Params]
  BY Zenon, NextInv DEF IInv, TypeOK, Lists
<1>2. PICK s \in Lists, par \in [Dpcs -> Params], new \in [Dpcs -> Params] :
        s = list /\ par = parameter /\ new = parameter'
  BY Zenon, <1>1
<1>3. Queue = Paired(s, par) /\ Queue' = Paired(list', new)
  BY Zenon, <1>2 DEF Queue, Paired
<1>4. Paired(s, par) \in Seq(Pairs) /\ Len(Paired(s, par)) = Len(s)
  BY Zenon, PairedType
<1>5. \A k \in 1 .. Len(s) : /\ s[k] \in Dpcs \cup {Flush}
                             /\ Queue[k] = IF s[k] = Flush THEN Flush ELSE <<s[k], par[s[k]]>>
  BY <1>3 DEF Lists, Paired
<1>6. \A d \in Dpcs, p \in Params : <<d, p>> # Flush /\ <<d, p>> # Idle /\ d # Flush
  BY DpcAssumption
<1>7. ASSUME NEW d \in Dpcs, NEW p \in Params, Insert(d, p)
      PROVE  Fifo!Next
  <2>1. ~OnList(s, d) /\ list' = Append(s, d)
    BY Zenon, <1>2, <1>7, InsertInv
  <2>2. new = [par EXCEPT ![d] = p] /\ current' = current
    BY Zenon, <1>2, <1>7 DEF Insert
  <2>3. new[d] = p /\ \A c \in Dpcs : c # d => new[c] = par[c]
    BY <2>2
  <2>4. Queue' = Append(Queue, IF d = Flush THEN Flush ELSE <<d, new[d]>>)
    <3>1. d \in Dpcs \cup {Flush}
      BY Zenon
    <3> QED BY Zenon, <1>3, <2>1, <2>3, <3>1, PairedAppend
  <2>5. Queue' = Append(Queue, <<d, p>>)
    BY Zenon, <1>6, <2>3, <2>4
  <2>6. ASSUME NEW k \in 1 .. Len(Queue), Queue[k] # Flush, Queue[k][1] = d
        PROVE  FALSE
    <3>1. k \in 1 .. Len(s)
      BY Zenon, <1>3, <1>4
    <3>2. Queue[k] = <<s[k], par[s[k]]>>
      BY Zenon, <1>5, <2>6, <3>1
    <3>3. s[k] = d
      BY <2>6, <3>2
    <3> QED BY Zenon, <2>1, <3>1, <3>3 DEF OnList
  <2>7. Fifo!Insert(d, p)
    BY Zenon, <2>2, <2>5, <2>6 DEF Fifo!Insert, Fifo!Holds
  <2> QED BY Zenon, <2>7 DEF Fifo!Next
<1>8. ASSUME NEW d \in Dpcs, Remove(d)
      PROVE  Fifo!Next
  <2>1. PICK k \in 1 .. Len(s) : s[k] = d /\ list' = WithoutAt(s, k)
    BY Zenon, <1>2, <1>8, RemoveInv
  <2>2. new = par /\ current' = current
    BY Zenon, <1>2, <1>8 DEF Remove, dpcThread
  <2>3. Queue' = WithoutAt(Queue, k)
    BY Zenon, <1>3, <2>1, <2>2, PairedWithout
  <2>4. k \in 1 .. Len(Queue) /\ Queue[k] = <<d, par[d]>> /\ Queue[k] # Flush /\ Queue[k][1] = d
    <3>1. k \in 1 .. Len(Queue)
      BY Zenon, <1>3, <1>4
    <3>2. Queue[k] = <<d, par[d]>> /\ par[d] \in Params
      BY <1>5, <1>6, <2>1, Zenon
    <3> QED BY <1>6, <3>1, <3>2
  <2>5. Fifo!Remove(d)
    BY Zenon, <2>2, <2>3, <2>4 DEF Fifo!Remove, Fifo!Holds, WithoutAt
  <2> QED BY Zenon, <2>5 DEF Fifo!Next
<1>9. ASSUME NEW f \in Flushers, ~terminate, FlushQueue(f)
      PROVE  Fifo!Next
  <2>1. ~OnList(s, Flush) /\ list' = Append(s, Flush)
    BY Zenon, <1>2, <1>9, FlushQueueInv
  <2>2. new = par /\ current' = current
    BY Zenon, <1>2, <1>9 DEF FlushQueue
  <2>3. Queue' = Append(Queue, IF Flush = Flush THEN Flush ELSE <<Flush, new[Flush]>>)
    BY Zenon, <1>3, <2>1, <2>2, PairedAppend
  <2>4. ASSUME NEW k \in 1 .. Len(Queue)
        PROVE  Queue[k] # Flush
    <3>1. k \in 1 .. Len(s)
      BY Zenon, <1>3, <1>4
    <3>2. s[k] # Flush /\ s[k] \in Dpcs
      BY <1>5, <2>1, <3>1, Zenon DEF OnList
    <3>3. Queue[k] = <<s[k], par[s[k]]>> /\ par[s[k]] \in Params
      BY <1>5, <3>1, <3>2, Zenon
    <3> QED BY Zenon, <1>6, <3>2, <3>3
  <2>5. Fifo!Mark
    BY Zenon, <2>2, <2>3, <2>4 DEF Fifo!Mark
  <2> QED BY Zenon, <2>5 DEF Fifo!Next
<1>10. CASE TakeMarker
  <2>1. Len(s) # 0 /\ s[1] = Flush /\ list' = WithoutAt(s, 1)
    BY Zenon, <1>2, <1>10, TakeMarkerInv
  <2>2. new = par /\ current' = current /\ current = Idle
    <3>1. pc = "loop" /\ UNCHANGED <<parameter, current>>
      BY Zenon, <1>10 DEF TakeMarker
    <3>2. current = Idle
      BY <3>1 DEF IInv, ThreadInv
    <3> QED BY Zenon, <1>2, <3>1, <3>2
  <2>3. /\ Queue # << >>
        /\ Head(Queue) = IF s[1] = Flush THEN Flush ELSE <<s[1], par[s[1]]>>
        /\ Tail(Queue) = Queue'
    BY Zenon, <1>3, <2>1, <2>2, PairedFirst
  <2>4. Fifo!TakeMarker
    BY Zenon, <2>1, <2>2, <2>3 DEF Fifo!TakeMarker
  <2> QED BY Zenon, <2>4 DEF Fifo!Next
<1>11. CASE TakeDpc
  <2>1. /\ Len(s) # 0 /\ s[1] \in Dpcs /\ list' = WithoutAt(s, 1)
        /\ current = Idle /\ current' = <<s[1], par[s[1]]>>
    BY Zenon, <1>2, <1>11, TakeDpcInv
  <2>2. new = par
    BY Zenon, <1>2, <1>11 DEF TakeDpc
  <2>3. /\ Queue # << >>
        /\ Head(Queue) = IF s[1] = Flush THEN Flush ELSE <<s[1], par[s[1]]>>
        /\ Tail(Queue) = Queue'
    BY Zenon, <1>3, <2>1, <2>2, PairedFirst
  <2>4. par[s[1]] \in Params
    BY <2>1
  <2>5. Head(Queue) = <<s[1], par[s[1]]>> /\ Head(Queue) # Flush
    BY Zenon, <1>6, <2>1, <2>3, <2>4
  <2>6. Fifo!TakeDpc
    BY Zenon, <2>1, <2>3, <2>5 DEF Fifo!TakeDpc
  <2> QED BY Zenon, <2>6 DEF Fifo!Next
<1>12. CASE FinishRoutine
  <2>1. list' = s /\ new = par /\ current # Idle /\ current' = Idle
    BY Zenon, <1>2, <1>12, FinishRoutineInv
  <2>2. Fifo!Finish
    BY Zenon, <1>3, <2>1 DEF Fifo!Finish
  <2> QED BY Zenon, <2>2 DEF Fifo!Next
<1>13. CASE UNCHANGED <<list, parameter, current>>
  <2>1. Queue' = Queue /\ current' = current
    BY Zenon, <1>13 DEF Queue
  <2> QED BY Zenon, <2>1 DEF Fifo!vars
<1> QED BY Zenon, <1>7, <1>8, <1>9, <1>10, <1>11, <1>12, <1>13, NextInv DEF Queueing

\* The linked list with its marker implements a first-in, first-out queue, whatever
\* is inserted, removed and flushed while the thread works on it.
THEOREM Refinement ==
  ASSUME SafeFlushes
  PROVE  Spec => ImplementsFifo
<1>1. Init => Fifo!Init
  <2> SUFFICES ASSUME Init PROVE Fifo!Init
    OBVIOUS
  <2>1. list = << >> /\ current = Idle
    BY Zenon DEF Init
  <2>2. Queue = << >>
    BY <2>1 DEF Queue
  <2> QED BY Zenon, <2>1, <2>2 DEF Fifo!Init
<1>2. IInv /\ [Next]_vars => [Fifo!Next]_(Fifo!vars)
  BY StepRefines
<1> QED BY <1>1, <1>2, Invariance, PTL DEF Spec, ImplementsFifo, Fifo!Spec
=============================================================================
