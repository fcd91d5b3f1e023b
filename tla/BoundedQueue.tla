------------------------------ MODULE BoundedQueue -----------------------------
(***************************************************************************)
(* PythonBoundedQueue (queueing.py): a bounded queue under one lock and    *)
(* one condition variable, shared by any threads.  A call is made (Begin)  *)
(* and then runs its critical section, once or, when it waits, each time   *)
(* it has been notified.  A message is the number the queue accepted it    *)
(* under.                                                                  *)
(***************************************************************************)
EXTENDS Integers, Sequences, FiniteSets

CONSTANTS
    Threads,    \* the threads that share the queue
    Policies,   \* the policies a queue may be created with
    Capacity,   \* _capacity
    MaxPuts,    \* bound: put and put_control calls
    None        \* no call in progress

AllPolicies == {"block", "latest", "drop_oldest", "drop_newest"}

ASSUME QueueAssumption ==
    /\ Capacity \in Nat \ {0}
    /\ Policies \subseteq AllPolicies
    /\ MaxPuts \in Nat
    /\ None \notin {"put", "control", "get", "try"}

VARIABLES
    policy,     \* _policy
    items,      \* _items
    closed,     \* _closed
    enqueued, dequeued, dropped, maxDepth,      \* _stats
    call,       \* what each thread is doing: a method, or None
    asleep,     \* threads in _condition.wait that nobody has notified
    puts,       \* puts begun
    rejected,   \* history: messages dropped on arrival
    last        \* history: number of the last message handed out

stats == <<enqueued, dequeued, dropped, maxDepth>>
queue == <<policy, items, closed, stats>>
threads == <<call, asleep>>
history == <<puts, rejected, last>>
vars == <<queue, threads, history>>

Full == Len(items) >= Capacity
Blocking(t) == call[t] = "control" \/ (call[t] = "put" /\ policy = "block")

Init ==
    /\ policy \in Policies
    /\ items = <<>> /\ closed = FALSE
    /\ enqueued = 0 /\ dequeued = 0 /\ dropped = 0 /\ maxDepth = 0
    /\ call = [t \in Threads |-> None] /\ asleep = {}
    /\ puts = 0 /\ rejected = 0 /\ last = 0

Begin(t, method) ==
    /\ call[t] = None
    /\ IF method \in {"put", "control"}
       THEN puts < MaxPuts /\ puts' = puts + 1
       ELSE UNCHANGED puts
    /\ call' = [call EXCEPT ![t] = method]
    /\ UNCHANGED <<queue, asleep, rejected, last>>

-----------------------------------------------------------------------------
(* Critical sections.                                                      *)

Running(t, methods) == call[t] \in methods /\ t \notin asleep
Return(t) == call' = [call EXCEPT ![t] = None]

\* The condition variable: all waiters are woken.
NotifyAll == asleep' = {}

\* The message goes behind the ones that are kept.
Enqueue(kept, lost) ==
    /\ items' = Append(kept, enqueued + 1)
    /\ enqueued' = enqueued + 1
    /\ dropped' = dropped + lost
    /\ maxDepth' = IF maxDepth > Len(kept) + 1 THEN maxDepth ELSE Len(kept) + 1
    /\ dequeued' = dequeued

\* A full queue, or an empty one for a receiver, and not closed.
Wait(t) ==
    /\ ~closed
    /\ \/ Running(t, {"put", "control"}) /\ Blocking(t) /\ Full
       \/ Running(t, {"get"}) /\ items = <<>>
    /\ asleep' = asleep \cup {t}
    /\ UNCHANGED <<queue, call, history>>

PutRefused(t) ==
    /\ Running(t, {"put", "control"}) /\ closed
    /\ Return(t)
    /\ UNCHANGED <<queue, asleep, history>>

\* Policy `drop_newest`.
PutRejected(t) ==
    /\ Running(t, {"put"}) /\ ~closed
    /\ policy = "drop_newest" /\ Full
    /\ dropped' = dropped + 1
    /\ rejected' = rejected + 1
    /\ Return(t)
    /\ UNCHANGED <<policy, items, closed, enqueued, dequeued, maxDepth, asleep,
                   puts, last>>

\* Mutant: a call that may wait does not wait for room.
PutUnbounded(t) ==
    /\ Running(t, {"put", "control"}) /\ ~closed
    /\ Blocking(t) \/ ~Full
    /\ policy # "latest" \/ call[t] = "control"
    /\ Enqueue(items, 0)
    /\ NotifyAll /\ Return(t)
    /\ UNCHANGED <<policy, closed, history>>

\* There is room: control messages and every policy but `latest`.
Put(t) ==
    /\ Running(t, {"put", "control"}) /\ ~closed
    /\ ~Full
    /\ policy # "latest" \/ call[t] = "control"
    /\ Enqueue(items, 0)
    /\ NotifyAll /\ Return(t)
    /\ UNCHANGED <<policy, closed, history>>

\* Mutant: the messages replaced are not counted.
PutLatestUncounted(t) ==
    /\ Running(t, {"put"}) /\ ~closed
    /\ policy = "latest"
    /\ Enqueue(<<>>, 0)
    /\ NotifyAll /\ Return(t)
    /\ UNCHANGED <<policy, closed, history>>

\* Policy `latest` replaces whatever is pending.
PutLatest(t) ==
    /\ Running(t, {"put"}) /\ ~closed
    /\ policy = "latest"
    /\ Enqueue(<<>>, Len(items))
    /\ NotifyAll /\ Return(t)
    /\ UNCHANGED <<policy, closed, history>>

PutDroppingOldest(t) ==
    /\ Running(t, {"put"}) /\ ~closed
    /\ policy = "drop_oldest" /\ Full
    /\ Enqueue(Tail(items), 1)
    /\ NotifyAll /\ Return(t)
    /\ UNCHANGED <<policy, closed, history>>

\* Mutant: taking a message wakes nobody.
TakeQuietly(t) ==
    /\ Running(t, {"get", "try"}) /\ items # <<>>
    /\ items' = Tail(items)
    /\ last' = Head(items)
    /\ dequeued' = dequeued + 1
    /\ Return(t)
    /\ UNCHANGED <<policy, closed, enqueued, dropped, maxDepth, asleep, puts,
                   rejected>>

\* Mutant: the newest message is taken.
TakeNewest(t) ==
    /\ Running(t, {"get", "try"}) /\ items # <<>>
    /\ items' = SubSeq(items, 1, Len(items) - 1)
    /\ last' = items[Len(items)]
    /\ dequeued' = dequeued + 1
    /\ NotifyAll /\ Return(t)
    /\ UNCHANGED <<policy, closed, enqueued, dropped, maxDepth, puts, rejected>>

\* get and try_get, closed or not.
Take(t) ==
    /\ Running(t, {"get", "try"}) /\ items # <<>>
    /\ items' = Tail(items)
    /\ last' = Head(items)
    /\ dequeued' = dequeued + 1
    /\ NotifyAll /\ Return(t)
    /\ UNCHANGED <<policy, closed, enqueued, dropped, maxDepth, puts, rejected>>

\* Mutant: the answer of an empty queue is handed out as a message.
TakeNothingAsMessage(t) ==
    /\ items = <<>>
    /\ Running(t, {"try"}) \/ (Running(t, {"get"}) /\ closed)
    /\ last' = None
    /\ Return(t)
    /\ UNCHANGED <<queue, asleep, puts, rejected>>

TakeNothing(t) ==
    /\ items = <<>>
    /\ Running(t, {"try"}) \/ (Running(t, {"get"}) /\ closed)
    /\ Return(t)
    /\ UNCHANGED <<queue, asleep, history>>

-----------------------------------------------------------------------------
(* Calls that never wait: the whole call is its critical section.          *)

\* Mutant: closing wakes nobody.
CloseQuietly ==
    /\ closed' = TRUE
    /\ UNCHANGED <<policy, items, stats, threads, history>>

Close ==
    /\ closed' = TRUE
    /\ NotifyAll
    /\ UNCHANGED <<policy, items, stats, call, history>>

DiscardPending ==
    /\ items' = <<>>
    /\ dropped' = dropped + Len(items)
    /\ NotifyAll
    /\ UNCHANGED <<policy, closed, enqueued, dequeued, maxDepth, call, history>>

-----------------------------------------------------------------------------
Methods == {"put", "control", "get", "try"}
Proceed(t) ==
    \/ Wait(t)
    \/ PutRefused(t) \/ PutRejected(t)
    \/ Put(t) \/ PutLatest(t) \/ PutDroppingOldest(t)
    \/ Take(t) \/ TakeNothing(t)

Next ==
    \/ \E t \in Threads, method \in Methods : Begin(t, method)
    \/ \E t \in Threads : Proceed(t)
    \/ Close \/ DiscardPending

Spec == Init /\ [][Next]_vars
\* A thread that has been notified gets the lock some time.
FairSpec == Spec /\ \A t \in Threads : WF_vars(Proceed(t))

-----------------------------------------------------------------------------
(* Properties.                                                             *)

\* The shape of the queue and of the calls made on it.
TypeOK ==
    /\ policy \in Policies
    /\ items \in Seq(Nat) /\ closed \in BOOLEAN
    /\ enqueued \in Nat /\ dequeued \in Nat /\ dropped \in Nat
    /\ maxDepth \in Nat
    /\ call \in [Threads -> Methods \cup {None}]
    /\ asleep \subseteq Threads
    /\ puts \in 0..MaxPuts /\ rejected \in Nat /\ last \in Nat

\* The depth never passes the one reported as the highest, nor that the capacity.
WithinCapacity ==
    Len(items) <= maxDepth /\ maxDepth <= Capacity

\* The statistics lose no message: what was offered and not refused is
\* delivered, pending or counted as dropped.
Accounted ==
    enqueued + rejected = dequeued + dropped + Len(items)

\* What stats() reports is true of the queue (the two above).
Bookkeeping == WithinCapacity /\ Accounted

\* No lost wake-up: a thread that sleeps has a reason to.  A producer that waits
\* for room finds none, a consumer that waits for a message finds none, and
\* nobody waits on a closed queue, whoever made the last change.
NoLostWakeup ==
    \A t \in asleep :
        /\ ~closed
        /\ \/ call[t] \in {"put", "control"} /\ Blocking(t) /\ Full
           \/ call[t] = "get" /\ items = <<>>

\* Closing the queue releases everybody: every call on a closed queue returns
\* ("Close-aware").
CloseReleases ==
    \A t \in Threads : closed /\ call[t] # None ~> call[t] = None

\* The queue is a FIFO channel, lossless under policy `block`.
Channel == INSTANCE FifoChannel WITH
    lossless <- policy = "block",
    accepted <- enqueued,
    pending <- {items[i] : i \in 1..Len(items)},
    received <- last
IsFifo == Channel!Spec
=============================================================================
