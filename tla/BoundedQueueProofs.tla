--------------------------- MODULE BoundedQueueProofs --------------------------
(***************************************************************************)
(* What BoundedQueue guarantees for any threads, policies, capacity and    *)
(* number of puts: its invariants, and that it implements FifoChannel.     *)
(***************************************************************************)
EXTENDS BoundedQueue, TLAPS

Elements(s) == {s[i] : i \in 1..Len(s)}

\* The messages pending are numbered in increasing order, after the last one
\* handed out and up to the last one accepted.
InOrder ==
    /\ \A i, j \in 1..Len(items) : i < j => items[i] < items[j]
    /\ \A i \in 1..Len(items) : last < items[i] /\ items[i] <= enqueued
    /\ last <= enqueued

QueueInv ==
    TypeOK /\ WithinCapacity /\ Accounted /\ NoLostWakeup /\ InOrder

-----------------------------------------------------------------------------
(* Sequences.                                                              *)

\* Appending adds one element.
LEMMA ElementsAppend ==
    ASSUME NEW s \in Seq(Nat), NEW n \in Nat
    PROVE  Elements(Append(s, n)) = Elements(s) \cup {n}
<1>1. Elements(Append(s, n)) \subseteq Elements(s) \cup {n}
  BY DEF Elements
<1>2. ASSUME NEW m \in Elements(s)  PROVE m \in Elements(Append(s, n))
  <2>1. PICK i \in 1..Len(s) : m = s[i]
    BY DEF Elements
  <2>2. i \in 1..Len(Append(s, n)) /\ Append(s, n)[i] = m
    BY <2>1
  <2> QED
    BY <2>2 DEF Elements
<1>3. n \in Elements(Append(s, n))
  <2>1. Len(s) + 1 \in 1..Len(Append(s, n)) /\ Append(s, n)[Len(s) + 1] = n
    OBVIOUS
  <2> QED
    BY <2>1 DEF Elements
<1> QED
  BY <1>1, <1>2, <1>3

\* The tail of an increasing sequence has every element but the least.
LEMMA ElementsTail ==
    ASSUME NEW s \in Seq(Nat), s # <<>>,
           \A i, j \in 1..Len(s) : i < j => s[i] < s[j]
    PROVE  /\ Tail(s) \in Seq(Nat) /\ Len(Tail(s)) = Len(s) - 1
           /\ \A i \in 1..Len(Tail(s)) : Tail(s)[i] = s[i + 1]
           /\ Head(s) \in Elements(s)
           /\ \A m \in Elements(s) : Head(s) <= m
           /\ Elements(Tail(s)) = Elements(s) \ {Head(s)}
<1>1. /\ Tail(s) \in Seq(Nat) /\ Len(Tail(s)) = Len(s) - 1
      /\ \A i \in 1..Len(Tail(s)) : Tail(s)[i] = s[i + 1]
      /\ Len(s) >= 1 /\ Head(s) = s[1]
      /\ \A i \in 1..Len(s) : s[i] \in Nat
  OBVIOUS
<1>2. Head(s) \in Elements(s) /\ \A m \in Elements(s) : Head(s) <= m
  BY <1>1 DEF Elements
<1>3. ASSUME NEW m \in Elements(Tail(s))
      PROVE  m \in Elements(s) \ {Head(s)}
  <2>1. PICK i \in 1..Len(Tail(s)) : m = s[i + 1]
    BY <1>1 DEF Elements
  <2>2. i + 1 \in 1..Len(s) /\ s[1] < s[i + 1]
    BY <1>1
  <2> QED
    BY <1>1, <2>1, <2>2 DEF Elements
<1>4. ASSUME NEW m \in Elements(s), m # Head(s)
      PROVE  m \in Elements(Tail(s))
  <2>1. PICK i \in 1..Len(s) : m = s[i]
    BY DEF Elements
  <2>2. i - 1 \in 1..Len(Tail(s)) /\ Tail(s)[i - 1] = m
    BY <1>1, <1>4, <2>1
  <2> QED
    BY <2>2 DEF Elements
<1> QED
  BY <1>1, <1>2, <1>3, <1>4

-----------------------------------------------------------------------------
(* The inductive invariant.                                                *)

LEMMA InitQueueInv == Init => QueueInv
<1> SUFFICES ASSUME Init PROVE QueueInv
  OBVIOUS
<1>1. items = <<>> /\ items \in Seq(Nat) /\ Len(items) = 0
  BY DEF Init
<1>2. TypeOK
  <2>1. /\ policy \in Policies /\ closed \in BOOLEAN
        /\ enqueued \in Nat /\ dequeued \in Nat /\ dropped \in Nat
        /\ maxDepth \in Nat /\ rejected \in Nat /\ last \in Nat
    BY DEF Init
  <2>2. call \in [Threads -> Methods \cup {None}] /\ asleep \subseteq Threads
    BY DEF Init
  <2>3. puts \in 0..MaxPuts
    BY QueueAssumption DEF Init
  <2> QED
    BY <1>1, <2>1, <2>2, <2>3 DEF TypeOK
<1>3. WithinCapacity /\ Accounted
  BY <1>1, QueueAssumption DEF Init, WithinCapacity, Accounted
<1>4. NoLostWakeup /\ InOrder
  BY <1>1 DEF Init, NoLostWakeup, InOrder
<1> QED
  BY <1>2, <1>3, <1>4 DEF QueueInv

\* The counters are numbers.
LEMMA Counters ==
    ASSUME QueueInv
    PROVE  /\ enqueued \in Nat /\ dequeued \in Nat
           /\ dropped \in Nat /\ maxDepth \in Nat
           /\ rejected \in Nat /\ last \in Nat
           /\ items \in Seq(Nat) /\ Len(items) \in Nat
  BY DEF QueueInv, TypeOK

\* What an append that discards some messages does to the account.
LEMMA Balance ==
    ASSUME NEW accepted \in Nat, NEW refused \in Nat, NEW taken \in Nat,
           NEW gone \in Nat, NEW kept \in Nat, NEW lost \in Nat,
           accepted + refused = taken + gone + (kept + lost)
    PROVE  (accepted + 1) + refused = taken + (gone + lost) + (kept + 1)
  OBVIOUS

\* A message accepted behind the messages kept, a part of those pending.
LEMMA EnqueueKeeps ==
    ASSUME QueueInv, NEW t \in Threads, NEW kept \in Seq(Nat), NEW lost \in Nat,
           Len(kept) + lost = Len(items), Len(kept) < Capacity,
           \A i \in 1..Len(kept) : kept[i] = items[i + lost],
           Enqueue(kept, lost), NotifyAll, Return(t),
           UNCHANGED <<policy, closed, history>>
    PROVE  QueueInv'
<1>0. /\ Len(items) \in Nat /\ Len(kept) \in Nat /\ Len(kept) + lost = Len(items)
      /\ enqueued \in Nat /\ dequeued \in Nat /\ dropped \in Nat
      /\ rejected \in Nat /\ rejected' = rejected
  BY DEF QueueInv, TypeOK, history
<1>1. /\ items' \in Seq(Nat) /\ Len(items') = Len(kept) + 1
      /\ items'[Len(kept) + 1] = enqueued + 1
      /\ \A i \in 1..Len(kept) : items'[i] = items[i + lost]
  BY Counters DEF Enqueue
<1>2. /\ enqueued' = enqueued + 1 /\ dequeued' = dequeued
      /\ dropped' = dropped + lost
      /\ maxDepth' = IF maxDepth > Len(kept) + 1
                     THEN maxDepth ELSE Len(kept) + 1
      /\ Len(kept) \in Nat
  BY DEF Enqueue
<1>3. TypeOK'
  BY <1>1, <1>2 DEF QueueInv, TypeOK, NotifyAll, Return, history
<1>4. WithinCapacity'
  BY <1>1, <1>2, QueueAssumption DEF QueueInv, TypeOK, WithinCapacity
<1>5. Accounted'
  <2>1. enqueued + rejected = dequeued + dropped + Len(items)
    BY DEF QueueInv, Accounted
  <2>2. Len(items') = Len(kept) + 1
    BY <1>1
  <2>3. enqueued' = enqueued + 1 /\ dequeued' = dequeued
        /\ dropped' = dropped + lost
    BY <1>2
  <2>4. (enqueued + 1) + rejected = dequeued + (dropped + lost) + (Len(kept) + 1)
    <3>1. enqueued + rejected = dequeued + dropped + (Len(kept) + lost)
      BY <1>0, <2>1, Zenon
    <3> QED
      BY <1>0, <3>1, Balance
  <2>5. enqueued' + rejected' = dequeued' + dropped' + Len(items')
    BY <1>0, <2>2, <2>3, <2>4, Zenon
  <2> QED
    BY <2>5 DEF Accounted
<1>6. NoLostWakeup'
  BY DEF NoLostWakeup, NotifyAll
<1>7. InOrder'
  <2>1. last' = last /\ last \in Nat /\ enqueued \in Nat
    BY DEF QueueInv, TypeOK, history
  <2>2. ASSUME NEW i \in 1..Len(kept)
        PROVE  /\ items'[i] \in Nat
               /\ last < items'[i] /\ items'[i] <= enqueued
    <3>1. i + lost \in 1..Len(items)
      BY Counters
    <3>2. items[i + lost] \in Nat
      <4>1. items \in Seq(Nat) BY DEF QueueInv, TypeOK
      <4>2. \A k \in 1..Len(items) : items[k] \in Nat BY <4>1
      <4> QED BY <3>1, <4>2, Zenon
    <3>3. last < items[i + lost] /\ items[i + lost] <= enqueued
      <4>1. \A k \in 1..Len(items) : last < items[k] /\ items[k] <= enqueued
        BY DEF QueueInv, InOrder
      <4> QED BY <3>1, <4>1, Zenon
    <3> QED
      BY <1>1, <3>2, <3>3
  <2>3. ASSUME NEW i \in 1..Len(items'), NEW j \in 1..Len(items'), i < j
        PROVE  items'[i] < items'[j]
    <3>1. i \in 1..Len(kept)
      BY <1>1, <2>3
    <3>2. CASE j = Len(kept) + 1
      <4>1. items'[i] \in Nat /\ items'[i] <= enqueued
        BY <2>2, <3>1
      <4>2. items'[j] = enqueued + 1
        BY <1>1, <3>2
      <4> QED
        BY <2>1, <4>1, <4>2
    <3>3. CASE j \in 1..Len(kept)
      <4>1. /\ i + lost \in 1..Len(items) /\ j + lost \in 1..Len(items)
            /\ i + lost < j + lost
        BY <1>0, <2>3, <3>1, <3>3
      <4> QED
        BY <1>1, <3>1, <3>3, <4>1 DEF QueueInv, InOrder
    <3> QED
      BY <1>1, <3>2, <3>3
  <2>4. ASSUME NEW i \in 1..Len(items')
        PROVE  last' < items'[i] /\ items'[i] <= enqueued'
    <3>1. CASE i = Len(kept) + 1
      BY <1>1, <1>2, <2>1, <3>1 DEF QueueInv, InOrder
    <3>2. CASE i \in 1..Len(kept)
      BY <1>2, <2>1, <2>2, <3>2
    <3> QED
      BY <1>1, <3>1, <3>2
  <2> QED
    BY <1>2, <2>1, <2>3, <2>4 DEF QueueInv, TypeOK, InOrder
<1> QED
  BY <1>3, <1>4, <1>5, <1>6, <1>7 DEF QueueInv

LEMMA PutKeeps ==
    ASSUME QueueInv, NEW t \in Threads, Put(t)  PROVE QueueInv'
<1>1. /\ items \in Seq(Nat) /\ Len(items) + 0 = Len(items)
      /\ Len(items) < Capacity
      /\ \A i \in 1..Len(items) : items[i] = items[i + 0]
  BY QueueAssumption DEF QueueInv, TypeOK, Put, Full
<1> QED
  BY <1>1, EnqueueKeeps DEF Put

LEMMA PutLatestKeeps ==
    ASSUME QueueInv, NEW t \in Threads, PutLatest(t)  PROVE QueueInv'
<1>1. items \in Seq(Nat) /\ Len(items) \in Nat
  BY DEF QueueInv, TypeOK
<1>2. <<>> \in Seq(Nat)
  OBVIOUS
<1>3. /\ Len(<<>>) + Len(items) = Len(items) /\ Len(<<>>) < Capacity
      /\ \A i \in 1..Len(<<>>) : <<>>[i] = items[i + Len(items)]
  BY <1>1, QueueAssumption
<1> QED
  BY <1>1, <1>2, <1>3, EnqueueKeeps DEF PutLatest

LEMMA PutDroppingOldestKeeps ==
    ASSUME QueueInv, NEW t \in Threads, PutDroppingOldest(t)  PROVE QueueInv'
<1>1. items \in Seq(Nat) /\ Len(items) <= Capacity /\ Len(items) >= 1
  BY QueueAssumption DEF QueueInv, TypeOK, WithinCapacity,
     PutDroppingOldest, Full
<1>2. items # <<>>
  BY <1>1
<1>3. /\ Tail(items) \in Seq(Nat) /\ Len(Tail(items)) + 1 = Len(items)
      /\ Len(Tail(items)) < Capacity
      /\ \A i \in 1..Len(Tail(items)) : Tail(items)[i] = items[i + 1]
  BY <1>1, <1>2, ElementsTail, QueueAssumption DEF QueueInv, InOrder
<1> QED
  BY <1>3, EnqueueKeeps DEF PutDroppingOldest

LEMMA TakeKeeps ==
    ASSUME QueueInv, NEW t \in Threads, Take(t)  PROVE QueueInv'
<1>1. items \in Seq(Nat) /\ items # <<>>
  BY DEF QueueInv, TypeOK, Take
<1>2. /\ items' \in Seq(Nat) /\ Len(items') = Len(items) - 1
      /\ \A i \in 1..Len(items') : items'[i] = items[i + 1]
      /\ Len(items) >= 1 /\ last' = items[1] /\ last' \in Nat
  BY <1>1, ElementsTail DEF QueueInv, InOrder, Take
<1>3. /\ enqueued' = enqueued
      /\ dequeued' = dequeued + 1
      /\ dropped' = dropped /\ maxDepth' = maxDepth
  BY DEF QueueInv, TypeOK, Take
<1>4. TypeOK'
  BY <1>2, <1>3 DEF QueueInv, TypeOK, Take, NotifyAll, Return
<1>5. WithinCapacity'
  BY <1>1, <1>2, <1>3 DEF QueueInv, TypeOK, WithinCapacity
<1>6. Accounted'
  BY <1>1, <1>2, <1>3 DEF QueueInv, TypeOK, Accounted, Take
<1>7. NoLostWakeup'
  BY DEF NoLostWakeup, Take, NotifyAll
<1>8. InOrder'
  <2>1. \A i \in 1..Len(items') : i + 1 \in 1..Len(items)
    BY <1>1, <1>2
  <2>2. \A i, j \in 1..Len(items) : i < j => items[i] < items[j]
    BY DEF QueueInv, InOrder
  <2>3. \A i \in 1..Len(items) : items[i] <= enqueued
    BY DEF QueueInv, InOrder
  <2>4. ASSUME NEW i \in 1..Len(items'), NEW j \in 1..Len(items'), i < j
        PROVE  items'[i] < items'[j]
    <3>1. /\ i + 1 \in 1..Len(items) /\ j + 1 \in 1..Len(items)
          /\ i + 1 < j + 1
      BY <2>1, <2>4
    <3> QED
      BY <1>2, <2>2, <3>1
  <2>5. ASSUME NEW i \in 1..Len(items')
        PROVE  last' < items'[i] /\ items'[i] <= enqueued'
    <3>1. 1 \in 1..Len(items) /\ i + 1 \in 1..Len(items) /\ 1 < i + 1
      BY <1>2, <2>1
    <3> QED
      BY <1>2, <1>3, <2>2, <2>3, <3>1
  <2>6. last' <= enqueued'
    BY <1>2, <1>3, <2>3
  <2> QED
    BY <2>4, <2>5, <2>6 DEF InOrder
<1> QED
  BY <1>4, <1>5, <1>6, <1>7, <1>8 DEF QueueInv

LEMMA DiscardKeeps ==
    ASSUME QueueInv, DiscardPending  PROVE QueueInv'
<1>1. /\ items' = <<>> /\ items' \in Seq(Nat) /\ Len(items') = 0
      /\ items \in Seq(Nat) /\ Len(items) \in Nat
  BY DEF QueueInv, TypeOK, DiscardPending
<1>2. /\ enqueued' = enqueued /\ dequeued' = dequeued
      /\ dropped' = dropped + Len(items)
      /\ maxDepth' = maxDepth
  BY <1>1 DEF QueueInv, TypeOK, DiscardPending
<1> QED
  BY <1>1, <1>2, QueueAssumption DEF QueueInv, TypeOK, WithinCapacity,
     Accounted, NoLostWakeup, InOrder, DiscardPending, NotifyAll, history

LEMMA NextQueueInv == QueueInv /\ [Next]_vars => QueueInv'
<1> SUFFICES ASSUME QueueInv, [Next]_vars  PROVE QueueInv'
  OBVIOUS
<1> USE QueueAssumption DEF QueueInv, TypeOK, WithinCapacity, Accounted,
        NoLostWakeup, InOrder, Methods
<1>1. CASE UNCHANGED vars
  BY <1>1 DEF vars, queue, stats, threads, history, Full, Blocking
<1>2. ASSUME NEW t \in Threads, NEW method \in Methods, Begin(t, method)
      PROVE  QueueInv'
  BY <1>2 DEF Begin, queue, stats, Full, Blocking
<1>3. ASSUME NEW t \in Threads, Wait(t)  PROVE QueueInv'
  BY <1>3 DEF Wait, Running, queue, stats, history, Full, Blocking
<1>4. ASSUME NEW t \in Threads, PutRefused(t)  PROVE QueueInv'
  BY <1>4 DEF PutRefused, Running, Return, queue, stats, history, Full, Blocking
<1>5. ASSUME NEW t \in Threads, PutRejected(t)  PROVE QueueInv'
  <2>1. /\ enqueued' = enqueued
        /\ dequeued' = dequeued
        /\ dropped' = dropped + 1
        /\ maxDepth' = maxDepth
    BY <1>5 DEF PutRejected, Running, queue, stats
  <2>2. Accounted'
    BY <1>5, <2>1, Counters DEF PutRejected
  <2>3. NoLostWakeup'
    BY <1>5 DEF PutRejected, Running, Return, Full, Blocking
  <2>4. TypeOK'
    BY <1>5, <2>1 DEF PutRejected, Return
  <2> QED
    BY <1>5, <2>1, <2>2, <2>3, <2>4 DEF PutRejected
<1>6. ASSUME NEW t \in Threads, TakeNothing(t)  PROVE QueueInv'
  BY <1>6 DEF TakeNothing, Running, Return, queue, stats, history, Full, Blocking
<1>7. CASE Close
  BY <1>7 DEF Close, NotifyAll, stats, history, Full, Blocking
<1> QED
  BY <1>1, <1>2, <1>3, <1>4, <1>5, <1>6, <1>7, PutKeeps, PutLatestKeeps,
     PutDroppingOldestKeeps, TakeKeeps, DiscardKeeps DEF Next, Proceed

THEOREM QueueInvariant == Spec => []QueueInv
  BY InitQueueInv, NextQueueInv, PTL DEF Spec

-----------------------------------------------------------------------------
(* The results.                                                            *)

\* The state of the queue keeps its shape (queueing.py, every method).
THEOREM QueueTypeCorrect == Spec => []TypeOK
  BY QueueInvariant, PTL DEF QueueInv

\* No message disappears from the statistics.
THEOREM NothingUnaccounted == Spec => []Accounted
  BY QueueInvariant, PTL DEF QueueInv

\* What stats() reports is true of the queue.
THEOREM StatisticsAreTrue == Spec => []Bookkeeping
  BY QueueInvariant, PTL DEF QueueInv, Bookkeeping

\* Nobody sleeps on the condition variable without a reason.
THEOREM WakeupsAreNotLost == Spec => []NoLostWakeup
  BY QueueInvariant, PTL DEF QueueInv

-----------------------------------------------------------------------------
(* Refinement.                                                             *)

Pending == Elements(items)

\* Accepting a message, with or without displacing older ones, is a Send.
LEMMA EnqueueIsSend ==
    ASSUME QueueInv, NEW kept \in Seq(Nat), NEW lost \in Nat,
           Elements(kept) \subseteq Pending,
           policy = "block" => Elements(kept) = Pending,
           Enqueue(kept, lost), policy' = policy, last' = last
    PROVE  Channel!Send
<1> DEFINE displaced == Pending \ Elements(kept)
<1>1. enqueued' = enqueued + 1 /\ items' = Append(kept, enqueued + 1)
      /\ enqueued + 1 \in Nat
  BY Counters DEF Enqueue
<1>2. Pending' = Elements(kept) \cup {enqueued + 1}
  BY <1>1, ElementsAppend DEF Pending, Elements
<1>3. displaced \in SUBSET Pending /\ (policy = "block" => displaced = {})
      /\ Pending' = (Pending \ displaced) \cup {enqueued + 1}
  BY <1>2
<1>4. (policy = "block")' = (policy = "block") /\ last' = last
  OBVIOUS
<1> QED
  BY <1>1, <1>3, <1>4 DEF Channel!Send, Pending, Elements

\* A receive takes the oldest message pending.
LEMMA TakeIsReceive ==
    ASSUME QueueInv, NEW t \in Threads, Take(t)  PROVE Channel!Receive
<1>1. items \in Seq(Nat) /\ items # <<>> /\ items' = Tail(items)
      /\ last' = Head(items) /\ enqueued' = enqueued /\ policy' = policy
  BY Counters DEF Take
<1>2. \A i, j \in 1..Len(items) : i < j => items[i] < items[j]
  BY DEF QueueInv, InOrder
<1>3. /\ Head(items) \in Pending
      /\ \A m \in Pending : Head(items) <= m
      /\ Pending' = Pending \ {Head(items)}
  BY <1>1, <1>2, ElementsTail DEF Pending, Elements
<1>4. (policy = "block")' = (policy = "block")
  BY <1>1
<1> QED
  BY <1>1, <1>3, <1>4 DEF Channel!Receive, Pending, Elements

LEMMA DiscardIsDiscard ==
    ASSUME DiscardPending  PROVE Channel!Discard
<1>1. items' = <<>> /\ enqueued' = enqueued /\ policy' = policy /\ last' = last
  BY DEF DiscardPending, history
<1>2. {items'[i] : i \in 1..Len(items')} = {}
  BY <1>1
<1> QED
  BY <1>1, <1>2 DEF Channel!Discard

LEMMA StepIsChannelStep ==
    QueueInv /\ [Next]_vars => [Channel!Next]_(Channel!channel)
<1> SUFFICES ASSUME QueueInv, [Next]_vars
             PROVE  [Channel!Next]_(Channel!channel)
  OBVIOUS
<1>a. ASSUME policy' = policy, enqueued' = enqueued, items' = items,
             last' = last
      PROVE  UNCHANGED Channel!channel
  BY <1>a DEF Channel!channel
<1>1. CASE UNCHANGED vars
  BY <1>1, <1>a DEF vars, queue, stats, history
<1>2. ASSUME NEW t \in Threads, NEW method \in Methods, Begin(t, method)
      PROVE  UNCHANGED Channel!channel
  BY <1>2, <1>a DEF Begin, queue, stats
<1>3. ASSUME NEW t \in Threads,
             Wait(t) \/ PutRefused(t) \/ PutRejected(t) \/ TakeNothing(t)
      PROVE  UNCHANGED Channel!channel
  BY <1>3, <1>a DEF Wait, PutRefused, PutRejected, TakeNothing, queue, stats,
     history
<1>4. CASE Close
  BY <1>4, <1>a DEF Close, stats, history
<1>5. ASSUME NEW t \in Threads, Put(t)  PROVE Channel!Send
  BY <1>5, Counters, EnqueueIsSend DEF Put, history, Pending
<1>6. ASSUME NEW t \in Threads, PutLatest(t)  PROVE Channel!Send
  <2>1. <<>> \in Seq(Nat)
    OBVIOUS
  <2>2. Elements(<<>>) = {}
    BY DEF Elements
  <2> QED
    BY <1>6, <2>1, <2>2, Counters, EnqueueIsSend DEF PutLatest, history
<1>7. ASSUME NEW t \in Threads, PutDroppingOldest(t)  PROVE Channel!Send
  <2>1. items \in Seq(Nat) /\ items # <<>>
    BY <1>7, Counters, QueueAssumption DEF PutDroppingOldest, Full
  <2>2. Tail(items) \in Seq(Nat) /\ Elements(Tail(items)) \subseteq Pending
    BY <2>1, ElementsTail DEF QueueInv, InOrder, Pending
  <2> QED
    BY <1>7, <2>2, EnqueueIsSend DEF PutDroppingOldest, history
<1>8. ASSUME NEW t \in Threads, Take(t)  PROVE Channel!Receive
  BY <1>8, TakeIsReceive
<1>9. CASE DiscardPending
  BY <1>9, DiscardIsDiscard DEF Channel!Next
<1> QED
  BY <1>1, <1>2, <1>3, <1>4, <1>5, <1>6, <1>7, <1>8, <1>9
     DEF Next, Proceed, Channel!Next

\* The queue implements the channel: every step of every thread is a send, a
\* receive of the oldest message, a discard, or invisible.
THEOREM QueueIsFifo == Spec => IsFifo
<1>1. Init => Channel!Init
  <2> SUFFICES ASSUME Init  PROVE Channel!Init
    OBVIOUS
  <2>1. {items[i] : i \in 1..Len(items)} = {}
    BY DEF Init
  <2>2. (policy = "block") \in BOOLEAN
    OBVIOUS
  <2> QED
    BY <2>1, <2>2 DEF Init, Channel!Init
<1> QED
  BY <1>1, QueueInvariant, StepIsChannelStep, PTL
     DEF Spec, IsFifo, Channel!Spec
=============================================================================
