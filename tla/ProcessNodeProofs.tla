--------------------------- MODULE ProcessNodeProofs --------------------------
(***************************************************************************)
(* Theorems about ProcessNode: its types, the exchange of questions and    *)
(* answers between the worker thread and its child process, the slots of   *)
(* the output pool, and the lives of the children, for any number of       *)
(* slots, calls, restarts and faults.                                      *)
(***************************************************************************)
EXTENDS ProcessNode, SequenceTheorems, TLAPS

N == restarts + 1          \* the newest child
Restarting == {"closing", "killing", "reaping", "starting"}

(***************************************************************************)
(* The inductive invariant.                                                *)
(***************************************************************************)

\* TypeOK but for the lengths of the pipes.
ThreadTypes ==
    /\ setup \in Setups
    /\ worker \in {"opening", "between", "checking", "reserving", "sending", "sent",
                   "receiving", "acking", "excepting", "closing", "killing",
                   "reaping", "starting", "awaiting", "ended", "failed"}
    /\ call \in Nat /\ slot \in Slots \cup {None}
    /\ reading \in Children \cup {None}
    /\ restarts \in 0..MaxRestarts
    /\ conn \in Children \cup {None} /\ proc \in Children \cup {None}
    /\ lock \in {"free", "worker", "watchdog"}
    /\ watchdog \in {"watching", "locking", "killing", "reaping", "dead"}
    /\ main \in {"running", "polling", "closing", "killing", "reaping", "releasing",
                 "closed", "broken"}
FlagTypes ==
    /\ ready \in BOOLEAN /\ seen \in BOOLEAN /\ triggered \in BOOLEAN
    /\ stop \in BOOLEAN /\ open \in BOOLEAN /\ left \in BOOLEAN /\ strange \in BOOLEAN
    /\ late \in BOOLEAN
PipeTypes ==
    /\ child \in [Children -> [state: States, call: Nat, slot: Slots \cup {None},
                              made: Nat]]
    /\ requests \in [Children -> Seq(Questions)]
    /\ replies \in [Children -> Seq(Answers)]
PoolTypes ==
    /\ free \subseteq Slots /\ downstream \subseteq Slots
    /\ faults \in 0..MaxFaults /\ interrupts \in Nat
Types == ThreadTypes /\ FlagTypes /\ PipeTypes /\ PoolTypes

\* The connection and the process are those of the newest child or nobody's;
\* the later ones are not born.
Held ==
    /\ conn \in {None, N} /\ proc \in {None, N}
    /\ worker = "receiving" => reading = N
    /\ worker \in Restarting => restarts < MaxRestarts
    /\ worker \in Restarting \ {"closing"} \/ watchdog \in {"killing", "reaping"}
          => conn = None
Future ==
    /\ \A g \in Children : g > N =>
          child[g] = Unborn /\ requests[g] = <<>> /\ replies[g] = <<>>
    /\ child[N].state # "unborn"
NewestInv == Held /\ Future

\* The threads hold the restart lock where they say so, and each place in the
\* worker's code is reached under the policy and with the counters it needs.
LockInv ==
    /\ lock = "worker" <=> worker \in Restarting \cup {"awaiting"}
    /\ lock = "watchdog" <=> watchdog \in {"killing", "reaping"}
    /\ worker = "opening" => /\ watchdog = "watching" /\ ~ready
                             /\ main = "running" /\ restarts = 0
    /\ worker \notin {"opening", "between", "ended", "failed"} => call > 0
    /\ worker \in Restarting \cup {"awaiting"} => setup.policy = "restart"
    /\ setup.policy # "restart" => restarts = 0
    /\ watchdog = "locking" => interrupts > 0

\* The worker holds a slot exactly while a call has one.
PoolInv ==
    /\ SlotsAccounted
    /\ worker \in {"opening", "between", "checking", "reserving", "ended", "failed"}
          => slot = None
    /\ worker \in {"sending", "sent", "receiving", "acking"} => slot # None
    /\ open <=> main # "closed"

\* Of the children at most the newest is alive, and it is not when somebody
\* has just ended or forgotten it.
Forgotten ==
    \/ proc = None
    \/ worker \in {"reaping", "starting"} \/ watchdog = "reaping"
    \/ main \in {"reaping", "releasing", "closed"}
DeathsInv ==
    ~late => /\ \A g \in Children : g < N => child[g].state = "dead"
             /\ Forgotten => child[N].state = "dead"
LateInv == late => main # "running"

\* What the pipe of the newest child holds: nothing the worker waits for,
Quiet ==
    /\ replies[N] = <<>>
    /\ \/ requests[N] = <<>> /\ child[N].state \in {"idle", "acking"}
       \/ /\ Len(requests[N]) = 1 /\ requests[N][1].op = "ack"
          /\ child[N].state = "acking"
       \/ child[N].state = "dead"
\* a call the child has not answered,
Asks(x) == x.op = "call" /\ x.call = call
Asking ==
    /\ replies[N] = <<>>
    /\ \/ /\ Len(requests[N]) = 1 /\ Asks(requests[N][1])
          /\ child[N].state \in {"idle", "acking"}
       \/ /\ Len(requests[N]) = 2 /\ requests[N][1].op = "ack"
          /\ Asks(requests[N][2]) /\ child[N].state = "acking"
       \/ /\ requests[N] = <<>> /\ child[N].state \in {"working", "hung"}
          /\ child[N].call = call
       \/ child[N].state = "dead"
\* the answer to the call,
HasAnswer ==
    /\ requests[N] = <<>> /\ Len(replies[N]) = 1
    /\ replies[N][1].kind \in {"ok", "eos", "error"}
    /\ replies[N][1].kind # "error" => replies[N][1].call = call
    /\ replies[N][1].ack => replies[N][1].kind = "ok"
    /\ child[N].state \in {"dead", IF replies[N][1].ack THEN "acking" ELSE "idle"}
\* nothing, while the child waits for an acknowledgement,
AckAwaited ==
    /\ requests[N] = <<>> /\ replies[N] = <<>>
    /\ child[N].state \in {"acking", "dead"}
\* or the greeting of a new child.
Opening ==
    /\ requests[N] = <<>>
    /\ \/ child[N].state \in {"starting", "dead"} /\ replies[N] = <<>>
       \/ /\ child[N].state \in {"idle", "dead"}
          /\ Len(replies[N]) = 1 /\ replies[N][1].kind = "ready"

Lengths == \A g \in Children : Len(requests[g]) <= 2 /\ Len(replies[g]) <= 1
Resting ==
    conn = N /\ worker \in {"between", "checking", "reserving", "sending",
                            "excepting", "closing", "ended", "failed"} => Quiet
Waiting == (conn = N /\ worker = "sent") \/ worker = "receiving" => Asking \/ HasAnswer
Acking == conn = N /\ worker = "acking" => AckAwaited
Greeted == conn = N /\ worker \in {"opening", "awaiting"} => Opening
Protocol == Lengths /\ Resting /\ Waiting /\ Acking /\ Greeted

\* No slot that was named to the newest child is in a message.
Intact ==
    /\ child[N].state \in {"working", "hung"} => child[N].slot \notin downstream
    /\ \A i \in 1..Len(requests[N]) :
          requests[N][i].op = "call" => requests[N][i].slot \notin downstream

\* The child waits for an acknowledgement that will not come.
Stuck ==
    /\ child[N].state = "acking" /\ replies[N] = <<>>
    /\ requests[N] = <<>> \/ requests[N][1].op = "call"
Orphan == conn = N /\ worker # "acking" /\ Stuck

\* The worker has run into something, or will.
Broken ==
    \/ conn = None \/ child[N].state = "dead"
    \/ \E i \in 1..Len(replies[N]) : replies[N][i].kind = "error"
InTrouble ==
    /\ worker \notin {"ended", "failed"}
    /\ worker \in Restarting \cup {"excepting"} \/ Broken

Count(b) == IF b THEN 1 ELSE 0
Paid ==
    restarts + Count(worker = "failed") + Count(InTrouble)
        + Count(watchdog = "locking") <= faults + interrupts
OrphanInv ==
    Orphan => /\ faults > 0
              /\ \/ setup.policy = "skip"
                 \/ worker \in {"excepting", "closing", "failed"}

NodeInv ==
    /\ Types /\ NewestInv /\ LockInv /\ PoolInv /\ DeathsInv /\ LateInv
    /\ main = "running" => Protocol /\ Intact /\ Paid /\ OrphanInv /\ ~strange

-----------------------------------------------------------------------------
\* The constants: None names no slot and no child.
LEMMA Bounds ==
    /\ Calls \in Nat \ {0} /\ MaxRestarts \in Nat /\ MaxFaults \in Nat
    /\ None \notin Nat /\ None \notin Slots /\ None \notin Children
  BY NodeAssumption DEF Children

LEMMA NewestIsChild ==
  ASSUME ThreadTypes PROVE N \in Children /\ N \in Nat /\ N # None
  BY Bounds DEF ThreadTypes, N, Children

(***************************************************************************)
(* What the steps of a child change.                                       *)
(***************************************************************************)

\* The states, questions and answers of the other children stay as they are.
Others(g) == \A h \in Children \ {g} : /\ child'[h] = child[h]
                                       /\ requests'[h] = requests[h]
                                       /\ replies'[h] = replies[h]

\* A child either says something, or dies of the pipe that nobody holds.
Answer(g, kind, s, ack) == [kind |-> kind, call |-> child[g].call, slot |-> s, ack |-> ack]
Tells(g, r, state, made) ==
    IF Connected(g)
    THEN /\ replies' = [replies EXCEPT ![g] = Append(@, r)]
         /\ child' = [child EXCEPT ![g].state = state, ![g].made = made]
    ELSE child' = [child EXCEPT ![g].state = "dead"] /\ UNCHANGED replies

\* Where it leaves the pipe and the child: told, or dead.
Told(g, r, state) ==
    /\ child'[g].call = child[g].call /\ child'[g].slot = child[g].slot
    /\ IF Connected(g)
       THEN child'[g].state = state /\ replies'[g] = Append(replies[g], r)
       ELSE child'[g].state = "dead" /\ replies'[g] = replies[g]

LEMMA Telling ==
  ASSUME PipeTypes, NEW g \in Children, NEW r \in Answers, NEW state \in States,
         NEW made \in Nat, Tells(g, r, state, made)
  PROVE  /\ child' \in [Children -> [state: States, call: Nat,
                                     slot: Slots \cup {None}, made: Nat]]
         /\ replies' \in [Children -> Seq(Answers)]
         /\ \A h \in Children \ {g} : child'[h] = child[h] /\ replies'[h] = replies[h]
         /\ Told(g, r, state)
  <1>1. CASE Connected(g)
    <2>1. /\ replies' = [replies EXCEPT ![g] = Append(@, r)]
          /\ child' = [child EXCEPT ![g].state = state, ![g].made = made]
      BY <1>1 DEF Tells
    <2>2. Append(replies[g], r) \in Seq(Answers)
      BY DEF PipeTypes
    <2>3. replies' \in [Children -> Seq(Answers)]
      BY <2>1, <2>2 DEF PipeTypes
    <2>4. child' \in [Children -> [state: States, call: Nat,
                                   slot: Slots \cup {None}, made: Nat]]
      BY <2>1 DEF PipeTypes
    <2>5. child'[g].state = state /\ child'[g].call = child[g].call
             /\ child'[g].slot = child[g].slot
      BY <2>1 DEF PipeTypes
    <2>6. /\ replies'[g] = Append(replies[g], r)
          /\ \A h \in Children \ {g} : child'[h] = child[h] /\ replies'[h] = replies[h]
      BY <2>1 DEF PipeTypes
    <2>. QED BY <1>1, <2>3, <2>4, <2>5, <2>6 DEF Told
  <1>2. CASE ~Connected(g)
    <2>1. child' = [child EXCEPT ![g].state = "dead"] /\ replies' = replies
      BY <1>2 DEF Tells
    <2>2. child' \in [Children -> [state: States, call: Nat,
                                   slot: Slots \cup {None}, made: Nat]]
      BY <2>1 DEF PipeTypes, States
    <2>3. child'[g].state = "dead" /\ child'[g].call = child[g].call
             /\ child'[g].slot = child[g].slot
      BY <2>1 DEF PipeTypes
    <2>4. \A h \in Children \ {g} : child'[h] = child[h]
      BY <2>1 DEF PipeTypes
    <2>. QED BY <1>2, <2>1, <2>2, <2>3, <2>4 DEF PipeTypes, Told
  <1>. QED BY <1>1, <1>2

\* The head of a pipe, and what is left of it.
LEMMA Taking ==
  ASSUME NEW S, NEW s \in Seq(S), s # <<>>
  PROVE  /\ Head(s) = s[1] /\ Head(s) \in S /\ Tail(s) \in Seq(S)
         /\ Len(Tail(s)) = Len(s) - 1 /\ Len(s) >= 1
         /\ \A i \in 1..Len(Tail(s)) : i + 1 \in 1..Len(s) /\ Tail(s)[i] = s[i + 1]
  OBVIOUS

\* A child that takes a request.
LEMMA Hearing ==
  ASSUME PipeTypes, NEW g \in Children, requests[g] # <<>>, TakeRequest(g)
  PROVE  /\ requests' \in [Children -> Seq(Questions)]
         /\ requests'[g] = Tail(requests[g])
         /\ \A h \in Children \ {g} : requests'[h] = requests[h]
         /\ Request(g) = requests[g][1] /\ Request(g) \in Questions
  <1>1. requests[g] \in Seq(Questions)
    BY DEF PipeTypes
  <1>2. Tail(requests[g]) \in Seq(Questions) /\ Head(requests[g]) \in Questions
           /\ Head(requests[g]) = requests[g][1]
    BY <1>1, Taking
  <1>. QED BY <1>2 DEF PipeTypes, TakeRequest, Request

ChildAct(g) ==
    \/ ChildStarts(g) \/ ChildTakesCall(g) \/ ChildCloses(g) \/ ChildHearsStray(g)
    \/ ChildAnswers(g) \/ ChildHearsAck(g) \/ ChildIsLeft(g)
FaultAct(g) == NodeRaises(g) \/ NodeHangs(g) \/ ChildDies(g)

\* Saying something is telling an answer.
LEMMA SaysReady ==
  ASSUME PipeTypes, NEW g \in Children, ChildStarts(g)
  PROVE  /\ Tells(g, Answer(g, "ready", None, FALSE), "idle", 0)
         /\ Answer(g, "ready", None, FALSE) \in Answers
  BY DEF PipeTypes, ChildStarts, Say, Tells, Answer, Answers

LEMMA SaysClosed ==
  ASSUME PipeTypes, NEW g \in Children, ChildCloses(g)
  PROVE  /\ Tells(g, Answer(g, "closed", None, FALSE), "dead", child[g].made)
         /\ Answer(g, "closed", None, FALSE) \in Answers
  BY DEF PipeTypes, ChildCloses, Say, Tells, Answer, Answers

LEMMA SaysError ==
  ASSUME PipeTypes, NEW g \in Children,
         \/ ChildHearsStray(g)
         \/ ChildHearsAck(g) /\ Request(g).op # "ack"
         \/ NodeRaises(g)
  PROVE  \E made \in Nat : /\ Tells(g, Answer(g, "error", None, FALSE), "idle", made)
                           /\ Answer(g, "error", None, FALSE) \in Answers
  <1>1. child[g].made \in Nat /\ (IF setup.source THEN Calls ELSE 0) \in Nat
    BY Bounds DEF PipeTypes
  <1>2. Answer(g, "error", None, FALSE) \in Answers
    BY DEF PipeTypes, Answer, Answers
  <1>3. CASE ChildHearsStray(g) \/ (ChildHearsAck(g) /\ Request(g).op # "ack")
    <2>1. Tells(g, Answer(g, "error", None, FALSE), "idle", child[g].made)
      BY <1>3 DEF ChildHearsStray, ChildHearsAck, Say, Tells, Answer
    <2>. QED BY <1>1, <1>2, <2>1
  <1>4. CASE NodeRaises(g)
    <2>1. Tells(g, Answer(g, "error", None, FALSE), "idle",
                IF setup.source THEN Calls ELSE 0)
      BY <1>4 DEF NodeRaises, Say, Tells, Answer
    <2>. QED BY <1>1, <1>2, <2>1
  <1>. QED BY <1>3, <1>4

LEMMA SaysOk ==
  ASSUME PipeTypes, NEW g \in Children, ChildAnswers(g)
  PROVE  \E r \in Answers, made \in Nat :
             /\ Tells(g, r, IF r.ack THEN "acking" ELSE "idle", made)
             /\ r.kind \in {"ok", "eos"} /\ r.call = child[g].call
             /\ r.slot \in {None, child[g].slot}
             /\ r.kind = "eos" => ~r.ack
  <1>1. CASE setup.source /\ child[g].made = Calls
    <2>. DEFINE r == Answer(g, "eos", None, FALSE)
    <2>1. /\ r \in Answers /\ ~r.ack /\ r.kind = "eos" /\ r.call = child[g].call
          /\ r.slot = None
      BY DEF PipeTypes, Answer, Answers
    <2>2. Tells(g, r, "idle", Calls)
      BY <1>1 DEF ChildAnswers, Say, Tells, Answer
    <2>. QED BY <2>1, <2>2, Bounds
  <1>2. CASE ~(setup.source /\ child[g].made = Calls)
    <2>. DEFINE m == IF setup.source THEN child[g].made + 1 ELSE 0
    <2>1. PICK shape \in Shapes(g) :
             Say(g, "ok", shape.slot, shape.ack, IF shape.ack THEN "acking" ELSE "idle",
                 IF setup.source THEN child[g].made + 1 ELSE 0)
      BY <1>2 DEF ChildAnswers
    <2>. DEFINE r == [kind |-> "ok", call |-> child[g].call, slot |-> shape.slot,
                      ack |-> shape.ack]
    <2>0. \/ shape = [slot |-> child[g].slot, ack |-> FALSE]
          \/ shape = [slot |-> None, ack |-> TRUE]
          \/ shape = [slot |-> None, ack |-> FALSE]
      BY DEF Shapes
    <2>2. /\ shape.slot \in {None, child[g].slot} /\ shape.ack \in BOOLEAN
          /\ child[g].slot \in Slots \cup {None} /\ child[g].call \in Nat
      <3>1. child[g].slot \in Slots \cup {None} /\ child[g].call \in Nat
        BY DEF PipeTypes
      <3>2. CASE shape = [slot |-> child[g].slot, ack |-> FALSE]
        BY <3>1, <3>2
      <3>3. CASE shape = [slot |-> None, ack |-> TRUE]
        BY <3>1, <3>3
      <3>4. CASE shape = [slot |-> None, ack |-> FALSE]
        BY <3>1, <3>4
      <3>. QED BY <2>0, <3>2, <3>3, <3>4
    <2>3. /\ r \in Answers /\ r.kind = "ok" /\ r.call = child[g].call
          /\ r.slot \in {None, child[g].slot} /\ r.ack = shape.ack
      BY <2>2 DEF Answers
    <2>4. Tells(g, r, IF r.ack THEN "acking" ELSE "idle", m)
      BY <2>1 DEF Say, Tells
    <2>5. m \in Nat
      BY DEF PipeTypes
    <2>. HIDE DEF r, m
    <2>. QED BY <2>3, <2>4, <2>5
  <1>. QED BY <1>1, <1>2

\* Every step of a child keeps the types of the pipes, and touches no other.
LEMMA ChildTypes ==
  ASSUME PipeTypes, NEW g \in Children,
         \/ ChildAct(g)
         \/ FaultAct(g) /\ UNCHANGED requests
  PROVE  /\ PipeTypes' /\ Others(g)
         /\ child[g].state \notin {"unborn", "dead"} /\ child'[g].state # "unborn"
  <1>. DEFINE C == [Children -> [state: States, call: Nat, slot: Slots \cup {None},
                                 made: Nat]]
              Kept == \A h \in Children \ {g} : child'[h] = child[h]
  <1>0. /\ "idle" \in States /\ "dead" \in States /\ "acking" \in States
        /\ "working" \in States /\ "hung" \in States
        /\ child[g].made \in Nat
    BY DEF PipeTypes, States
  <1>1. CASE ChildStarts(g)
    <2>1. UNCHANGED requests /\ child[g].state = "starting"
      BY <1>1 DEF ChildStarts
    <2>2. /\ child' \in C /\ replies' \in [Children -> Seq(Answers)] /\ Kept
          /\ \A h \in Children \ {g} : replies'[h] = replies[h]
          /\ child'[g].state # "unborn"
      BY <1>0, <1>1, SaysReady, Telling DEF Told
    <2>. QED BY <2>1, <2>2 DEF PipeTypes, Others
  <1>2. CASE ChildTakesCall(g)
    <2>. DEFINE x == Request(g).call
                y == Request(g).slot
    <2>1. x \in Nat /\ y \in Slots \cup {None}
      BY <1>2, Hearing DEF ChildTakesCall, Questions
    <2>2. child[g].state = "idle" /\ child \in C
      BY <1>2 DEF ChildTakesCall, PipeTypes
    <2>3. child' = [child EXCEPT ![g].state = "working", ![g].call = x, ![g].slot = y]
      BY <1>2 DEF ChildTakesCall
    <2>. HIDE DEF x, y
    <2>4. child' \in C /\ child'[g].state = "working" /\ Kept
      BY <1>0, <2>1, <2>2, <2>3
    <2>. QED BY <1>2, <2>2, <2>4, Hearing DEF ChildTakesCall, PipeTypes, Others
  <1>3. CASE ChildCloses(g)
    <2>1. /\ requests[g] # <<>> /\ TakeRequest(g) /\ child[g].state = "idle"
      BY <1>3 DEF ChildCloses
    <2>2. /\ child' \in C /\ replies' \in [Children -> Seq(Answers)] /\ Kept
          /\ \A h \in Children \ {g} : replies'[h] = replies[h]
          /\ child'[g].state # "unborn"
      BY <1>0, <1>3, SaysClosed, Telling DEF Told
    <2>3. /\ requests' \in [Children -> Seq(Questions)]
          /\ \A h \in Children \ {g} : requests'[h] = requests[h]
      BY <2>1, Hearing
    <2>. QED BY <2>1, <2>2, <2>3 DEF PipeTypes, Others
  <1>4. CASE ChildHearsStray(g) \/ (ChildHearsAck(g) /\ Request(g).op # "ack")
    <2>1. /\ requests[g] # <<>> /\ TakeRequest(g) /\ child[g].state \in {"idle", "acking"}
      BY <1>4 DEF ChildHearsStray, ChildHearsAck
    <2>2. /\ child' \in C /\ replies' \in [Children -> Seq(Answers)] /\ Kept
          /\ \A h \in Children \ {g} : replies'[h] = replies[h]
          /\ child'[g].state # "unborn"
      BY <1>0, <1>4, SaysError, Telling DEF Told
    <2>3. /\ requests' \in [Children -> Seq(Questions)]
          /\ \A h \in Children \ {g} : requests'[h] = requests[h]
      BY <2>1, Hearing
    <2>. QED BY <2>1, <2>2, <2>3 DEF PipeTypes, Others
  <1>5. CASE ChildAnswers(g)
    <2>1. UNCHANGED requests /\ child[g].state = "working"
      BY <1>5 DEF ChildAnswers
    <2>2. PICK r \in Answers, made \in Nat : Tells(g, r, IF r.ack THEN "acking" ELSE "idle",
      made)
      BY <1>5, SaysOk
    <2>3. (IF r.ack THEN "acking" ELSE "idle") \in States \ {"unborn"}
      BY <1>0
    <2>. QED BY <1>0, <2>1, <2>2, <2>3, Telling DEF PipeTypes, Others, Told
  <1>6. CASE ChildHearsAck(g) /\ Request(g).op = "ack"
    <2>1. child' \in C /\ Kept /\ child'[g].state = "idle" /\ UNCHANGED replies
          /\ child[g].state = "acking"
      BY <1>0, <1>6 DEF ChildHearsAck, PipeTypes
    <2>. QED BY <1>6, <2>1, Hearing DEF ChildHearsAck, PipeTypes, Others
  <1>7. CASE ChildIsLeft(g) \/ (NodeHangs(g) /\ UNCHANGED requests)
                \/ (ChildDies(g) /\ UNCHANGED requests)
    <2>1. /\ UNCHANGED <<requests, replies>> /\ child[g].state \notin {"unborn", "dead"}
          /\ \/ child' = [child EXCEPT ![g].state = "dead"]
             \/ child' = [child EXCEPT ![g].state = "hung"]
      BY <1>7 DEF ChildIsLeft, NodeHangs, ChildDies, Alive
    <2>2. CASE child' = [child EXCEPT ![g].state = "dead"]
      BY <1>0, <2>1, <2>2 DEF PipeTypes, Others
    <2>3. CASE child' = [child EXCEPT ![g].state = "hung"]
      BY <1>0, <2>1, <2>3 DEF PipeTypes, Others
    <2>. QED BY <2>1, <2>2, <2>3
  <1>8. CASE NodeRaises(g) /\ UNCHANGED requests
    <2>1. child[g].state = "working"
      BY <1>8 DEF NodeRaises
    <2>2. /\ child' \in C /\ replies' \in [Children -> Seq(Answers)] /\ Kept
          /\ \A h \in Children \ {g} : replies'[h] = replies[h]
          /\ child'[g].state # "unborn"
      BY <1>0, <1>8, SaysError, Telling DEF Told
    <2>. QED BY <1>8, <2>1, <2>2 DEF PipeTypes, Others
  <1>. QED
    BY <1>1, <1>2, <1>3, <1>4, <1>5, <1>6, <1>7, <1>8 DEF ChildAct, FaultAct

\* A step of a child leaves the threads, the pool and the health alone.
ThreadVars == <<setup, worker, proxy, health, pool, ends, interrupts, strange, late>>
LEMMA ChildFrame ==
  ASSUME NEW g \in Children, ChildStep(g) \/ Fault(g)
  PROVE  /\ UNCHANGED ThreadVars
         /\ \/ ChildAct(g) /\ UNCHANGED faults
            \/ /\ FaultAct(g) /\ UNCHANGED requests
               /\ faults < MaxFaults /\ faults' = faults + 1
  BY DEF ChildStep, Fault, ThreadVars, history, ChildAct, FaultAct

LEMMA ChildKeepsTypes ==
  ASSUME Types, NEW g \in Children, ChildStep(g) \/ Fault(g)
  PROVE  Types' /\ Others(g)
         /\ child[g].state \notin {"unborn", "dead"} /\ child'[g].state # "unborn"
  <1>1. PipeTypes
    BY DEF Types
  <1>2. /\ PipeTypes' /\ Others(g)
        /\ child[g].state \notin {"unborn", "dead"} /\ child'[g].state # "unborn"
    BY <1>1, ChildFrame, ChildTypes
  <1>3. ThreadTypes' /\ FlagTypes'
    BY ChildFrame DEF Types, ThreadTypes, FlagTypes, ThreadVars, proxy, health, pool,
        ends
  <1>4. PoolTypes'
    BY ChildFrame, Bounds DEF Types, PoolTypes, ThreadVars, pool, history
  <1>. QED BY <1>2, <1>3, <1>4 DEF Types

(***************************************************************************)
(* Types.                                                                  *)
(***************************************************************************)

LEMMA ThreadTypesKept ==
  ASSUME Types, NewestInv, LockInv, Next
  PROVE  ThreadTypes'
  <1>1. CASE Begin
    BY <1>1, Bounds DEF Begin, Flush, pipes, pool, ends, history, Types,
        ThreadTypes, NewestInv, Held, N, Children, Restarting
  <1>2. CASE Check
    BY <1>2, Bounds DEF Check, Caught, proxy, health, pipes, pool, ends,
        history, Types, ThreadTypes, NewestInv, Held, N, Children, Restarting
  <1>3. CASE Reserve
    BY <1>3 DEF Reserve, health, pipes, ends, history, Types, ThreadTypes, PoolTypes
  <1>4. CASE ReserveFails
    BY <1>4, Bounds DEF ReserveFails, Escape, GiveBack, Release, NodeFails,
        pipes, history, Types, ThreadTypes, NewestInv, Held, N, Children,
        Restarting
  <1>5. CASE Send
    BY <1>5, Bounds DEF Send, proxy, health, pool, ends, history, Types,
        ThreadTypes, NewestInv, Held, N, Children, Restarting
  <1>6. CASE Listen
    BY <1>6, Bounds DEF Listen, health, pipes, pool, ends, history, Types,
        ThreadTypes, NewestInv, Held, N, Children, Restarting
  <1>7. CASE PipeBroken
    BY <1>7, Bounds DEF PipeBroken, Caught, proxy, health, pipes, pool, ends,
        history, Types, ThreadTypes, NewestInv, Held, N, Children, Restarting
  <1>8. CASE ConnectionGone
    BY <1>8, Bounds DEF ConnectionGone, Escape, GiveBack, Release, NodeFails,
        pipes, history, Types, ThreadTypes, NewestInv, Held, N, Children,
        Restarting
  <1>9. CASE ReceiveError
    BY <1>9, Bounds DEF ReceiveError, Answered, TakeAnswer, Caught, Reply,
        proxy, health, pool, ends, history, Types, ThreadTypes, NewestInv,
        Held, N, Children, Restarting
  <1>10. CASE ReceiveAnswer
    BY <1>10, Bounds DEF ReceiveAnswer, Answered, TakeAnswer, Deliver,
        Release, Reply, pool, ends, Types, ThreadTypes, NewestInv, Held, N,
        Children, Restarting
  <1>11. CASE Acknowledge
    BY <1>11, Bounds DEF Acknowledge, Deliver, Release, ends, history, Types,
        ThreadTypes, NewestInv, Held, N, Children, Restarting
  <1>12. CASE Skip
    <2>1. call > 0
      BY <1>12 DEF Skip, LockInv
    <2>. QED
      BY <1>12, <2>1 DEF Skip, ReturnNothing, GiveBack, Release, health, pipes, ends,
          history, Types, ThreadTypes
  <1>13. CASE Recover
    BY <1>13, Bounds DEF Recover, health, pipes, pool, ends, history, Types,
        ThreadTypes, NewestInv, Held, N, Children, Restarting
  <1>14. CASE GiveUp
    BY <1>14, Bounds DEF GiveUp, GiveBack, Release, NodeFails, pipes,
        history, Types, ThreadTypes, NewestInv, Held, N, Children, Restarting
  <1>15. CASE WorkerCloses
    BY <1>15, Bounds DEF WorkerCloses, health, pipes, pool, ends, history,
        Types, ThreadTypes, NewestInv, Held, N, Children, Restarting
  <1>16. CASE WorkerKills
    BY <1>16, Bounds DEF WorkerKills, EndProcess, proxy, health, pool, ends,
        history, Types, ThreadTypes, NewestInv, Held, N, Children, Restarting
  <1>17. CASE WorkerReaps
    BY <1>17, Bounds DEF WorkerReaps, GiveBack, Release, NodeFails, history,
        pipes, pool, Types, ThreadTypes, NewestInv, Held, N, Children,
        Restarting
  <1>18. CASE StartChild
    BY <1>18, Bounds DEF StartChild, health, pool, ends, Types, ThreadTypes,
        NewestInv, Held, N, Children, Restarting
  <1>19. CASE ChildIsReady
    BY <1>19, Bounds DEF ChildIsReady, AwaitsChild, Newborn, TakeAnswer,
        GiveBack, Release, pool, ends, history, Types, ThreadTypes,
        NewestInv, Held, N, Children, Restarting
  <1>20. CASE StartFails
    BY <1>20, Bounds DEF StartFails, AwaitsChild, Newborn, GiveBack, Release,
        NodeFails, pipes, history, Types, ThreadTypes, NewestInv, Held, N,
        Children, Restarting
  <1>21. CASE DecodeFails
    BY <1>21, Bounds DEF DecodeFails, Answered, TakeAnswer, Reply, Escape,
        Caught, GiveBack, Release, NodeFails, pool, Types, ThreadTypes,
        NewestInv, Held, N, Children, Restarting
  <1>22. CASE StartTimesOut
    BY <1>22, Bounds DEF StartTimesOut, AwaitsChild, Newborn, EndProcess,
        GiveBack, Release, NodeFails, Types, ThreadTypes, NewestInv, Held, N,
        Children, Restarting
  <1>23. CASE WatchdogFires
    BY <1>23, Bounds DEF WatchdogFires, proxy, pipes, pool, ends, Types,
        ThreadTypes, NewestInv, Held, N, Children, Restarting
  <1>24. CASE Interrupt
    BY <1>24, Bounds DEF Interrupt, pipes, pool, ends, history, Types,
        ThreadTypes, NewestInv, Held, N, Children, Restarting
  <1>25. CASE WatchdogKills
    BY <1>25, Bounds DEF WatchdogKills, EndProcess, pool, ends, history,
        Types, ThreadTypes, NewestInv, Held, N, Children, Restarting
  <1>26. CASE WatchdogReaps
    BY <1>26, Bounds DEF WatchdogReaps, pipes, pool, ends, history, Types,
        ThreadTypes, NewestInv, Held, N, Children, Restarting
  <1>27. CASE RequestStop
    BY <1>27, Bounds DEF RequestStop, proxy, health, pipes, pool, history,
        Types, ThreadTypes, NewestInv, Held, N, Children, Restarting
  <1>28. CASE MainCloses
    BY <1>28, Bounds DEF MainCloses, proxy, health, pool, history, Types,
        ThreadTypes, NewestInv, Held, N, Children, Restarting
  <1>29. CASE MainPolls
    BY <1>29, Bounds DEF MainPolls, TakeAnswer, proxy, health, pool, history,
        Types, ThreadTypes, NewestInv, Held, N, Children, Restarting
  <1>30. CASE MainClosesPipe
    BY <1>30, Bounds DEF MainClosesPipe, health, pipes, pool, history, Types,
        ThreadTypes, NewestInv, Held, N, Children, Restarting
  <1>31. CASE MainKills
    BY <1>31, Bounds DEF MainKills, EndProcess, proxy, health, pool, history,
        Types, ThreadTypes, NewestInv, Held, N, Children, Restarting
  <1>32. CASE MainReaps
    BY <1>32, Bounds DEF MainReaps, health, pipes, pool, history, Types,
        ThreadTypes, NewestInv, Held, N, Children, Restarting
  <1>33. CASE MainBreaks
    BY <1>33, Bounds DEF MainBreaks, proxy, health, pipes, pool, history,
        Types, ThreadTypes, NewestInv, Held, N, Children, Restarting
  <1>34. CASE ClosePool
    BY <1>34, Bounds DEF ClosePool, proxy, health, pipes, history, Types,
        ThreadTypes, NewestInv, Held, N, Children, Restarting
  <1>35. CASE Consume
    BY <1>35, Bounds DEF Consume, Release, proxy, health, pipes, ends,
        history, Types, ThreadTypes, NewestInv, Held, N, Children, Restarting
  <1>36. CASE ConsumersLeave
    BY <1>36, Bounds DEF ConsumersLeave, proxy, health, pipes, ends, history,
        Types, ThreadTypes, NewestInv, Held, N, Children, Restarting
  <1>37. ASSUME NEW g \in Children, ChildStep(g) \/ Fault(g)
       PROVE  ThreadTypes'
    BY <1>37, ChildKeepsTypes DEF Types
  <1>. QED
    BY <1>1, <1>2, <1>3, <1>4, <1>5, <1>6, <1>7, <1>8, <1>9, <1>10, <1>11,
        <1>12, <1>13, <1>14, <1>15, <1>16, <1>17, <1>18, <1>19, <1>20, <1>21,
        <1>22, <1>23, <1>24, <1>25, <1>26, <1>27, <1>28, <1>29, <1>30, <1>31,
        <1>32, <1>33, <1>34, <1>35, <1>36, <1>37 DEF Next, WorkerStep,
        WatchdogStep, MainStep

LEMMA FlagTypesKept ==
  ASSUME Types, NewestInv, Next
  PROVE  FlagTypes'
  <1>1. CASE Begin
    BY <1>1 DEF Begin, Flush, pipes, pool, ends, history, Types, FlagTypes
  <1>2. CASE Check
    BY <1>2 DEF Check, Caught, proxy, health, pipes, pool, ends, history,
        Types, FlagTypes
  <1>3. CASE Reserve
    BY <1>3 DEF Reserve, health, pipes, ends, history, Types, FlagTypes
  <1>4. CASE ReserveFails
    BY <1>4 DEF ReserveFails, Escape, GiveBack, Release, NodeFails, pipes,
        history, Types, FlagTypes
  <1>5. CASE Send
    BY <1>5 DEF Send, proxy, health, pool, ends, history, Types, FlagTypes
  <1>6. CASE Listen
    BY <1>6 DEF Listen, health, pipes, pool, ends, history, Types, FlagTypes
  <1>7. CASE PipeBroken
    BY <1>7 DEF PipeBroken, Caught, proxy, health, pipes, pool, ends,
        history, Types, FlagTypes
  <1>8. CASE ConnectionGone
    BY <1>8 DEF ConnectionGone, Escape, GiveBack, Release, NodeFails, pipes,
        history, Types, FlagTypes
  <1>9. CASE ReceiveError
    BY <1>9 DEF ReceiveError, Answered, TakeAnswer, Caught, Reply, proxy,
        health, pool, ends, history, Types, FlagTypes
  <1>10. CASE ReceiveAnswer
    BY <1>10 DEF ReceiveAnswer, Answered, TakeAnswer, Deliver, Release,
        Reply, pool, ends, Types, FlagTypes
  <1>11. CASE Acknowledge
    BY <1>11 DEF Acknowledge, Deliver, Release, ends, history, Types,
        FlagTypes
  <1>12. CASE Skip
    BY <1>12 DEF Skip, ReturnNothing, GiveBack, Release, Flush, health,
        pipes, ends, history, Types, FlagTypes
  <1>13. CASE Recover
    BY <1>13 DEF Recover, health, pipes, pool, ends, history, Types,
        FlagTypes
  <1>14. CASE GiveUp
    BY <1>14 DEF GiveUp, GiveBack, Release, NodeFails, pipes, history, Types,
        FlagTypes
  <1>15. CASE WorkerCloses
    BY <1>15 DEF WorkerCloses, health, pipes, pool, ends, history, Types,
        FlagTypes
  <1>16. CASE WorkerKills
    BY <1>16 DEF WorkerKills, EndProcess, proxy, health, pool, ends, history,
        Types, FlagTypes
  <1>17. CASE WorkerReaps
    BY <1>17 DEF WorkerReaps, GiveBack, Release, NodeFails, history, pipes,
        pool, Types, FlagTypes
  <1>18. CASE StartChild
    BY <1>18 DEF StartChild, health, pool, ends, Types, FlagTypes
  <1>19. CASE ChildIsReady
    BY <1>19 DEF ChildIsReady, AwaitsChild, Newborn, TakeAnswer, GiveBack,
        Release, pool, ends, history, Types, FlagTypes
  <1>20. CASE StartFails
    BY <1>20 DEF StartFails, AwaitsChild, Newborn, GiveBack, Release,
        NodeFails, pipes, history, Types, FlagTypes
  <1>21. CASE DecodeFails
    BY <1>21 DEF DecodeFails, Answered, TakeAnswer, Reply, Escape, Caught,
        GiveBack, Release, NodeFails, pool, Types, FlagTypes
  <1>22. CASE StartTimesOut
    BY <1>22 DEF StartTimesOut, AwaitsChild, Newborn, EndProcess, GiveBack,
        Release, NodeFails, Types, FlagTypes
  <1>23. CASE WatchdogFires
    BY <1>23 DEF WatchdogFires, proxy, pipes, pool, ends, Types, FlagTypes
  <1>24. CASE Interrupt
    BY <1>24 DEF Interrupt, pipes, pool, ends, history, Types, FlagTypes
  <1>25. CASE WatchdogKills
    BY <1>25 DEF WatchdogKills, EndProcess, pool, ends, history, Types,
        FlagTypes
  <1>26. CASE WatchdogReaps
    BY <1>26 DEF WatchdogReaps, pipes, pool, ends, history, Types, FlagTypes
  <1>27. CASE RequestStop
    BY <1>27 DEF RequestStop, proxy, health, pipes, pool, history, Types,
        FlagTypes
  <1>28. CASE MainCloses
    BY <1>28 DEF MainCloses, proxy, health, pool, history, Types, FlagTypes
  <1>29. CASE MainPolls
    BY <1>29 DEF MainPolls, TakeAnswer, proxy, health, pool, history, Types,
        FlagTypes
  <1>30. CASE MainClosesPipe
    BY <1>30 DEF MainClosesPipe, health, pipes, pool, history, Types,
        FlagTypes
  <1>31. CASE MainKills
    BY <1>31 DEF MainKills, EndProcess, proxy, health, pool, history, Types,
        FlagTypes
  <1>32. CASE MainReaps
    BY <1>32 DEF MainReaps, health, pipes, pool, history, Types, FlagTypes
  <1>33. CASE MainBreaks
    BY <1>33 DEF MainBreaks, proxy, health, pipes, pool, history, Types,
        FlagTypes
  <1>34. CASE ClosePool
    BY <1>34 DEF ClosePool, proxy, health, pipes, history, Types, FlagTypes
  <1>35. CASE Consume
    BY <1>35 DEF Consume, Release, proxy, health, pipes, ends, history,
        Types, FlagTypes
  <1>36. CASE ConsumersLeave
    BY <1>36 DEF ConsumersLeave, proxy, health, pipes, ends, history, Types,
        FlagTypes
  <1>37. ASSUME NEW g \in Children, ChildStep(g) \/ Fault(g)
       PROVE  FlagTypes'
    BY <1>37, ChildKeepsTypes DEF Types
  <1>. QED
    BY <1>1, <1>2, <1>3, <1>4, <1>5, <1>6, <1>7, <1>8, <1>9, <1>10, <1>11,
        <1>12, <1>13, <1>14, <1>15, <1>16, <1>17, <1>18, <1>19, <1>20, <1>21,
        <1>22, <1>23, <1>24, <1>25, <1>26, <1>27, <1>28, <1>29, <1>30, <1>31,
        <1>32, <1>33, <1>34, <1>35, <1>36, <1>37 DEF Next, WorkerStep,
        WatchdogStep, MainStep

LEMMA PoolTypesKept ==
  ASSUME Types, NewestInv, PoolInv, Next
  PROVE  PoolTypes'
  <1>1. CASE Begin
    BY <1>1, Bounds DEF Begin, Flush, pipes, pool, ends, history, Types,
        PoolTypes, ThreadTypes
  <1>2. CASE Check
    BY <1>2, Bounds DEF Check, Caught, proxy, health, pipes, pool, ends,
        history, Types, PoolTypes, ThreadTypes
  <1>3. CASE Reserve
    BY <1>3, Bounds DEF Reserve, health, pipes, ends, history, Types,
        PoolTypes, ThreadTypes
  <1>4. CASE ReserveFails
    BY <1>4, Bounds DEF ReserveFails, Escape, GiveBack, Release, NodeFails,
        pipes, history, Types, PoolTypes, ThreadTypes
  <1>5. CASE Send
    BY <1>5, Bounds DEF Send, proxy, health, pool, ends, history, Types,
        PoolTypes, ThreadTypes
  <1>6. CASE Listen
    BY <1>6, Bounds DEF Listen, health, pipes, pool, ends, history, Types,
        PoolTypes, ThreadTypes
  <1>7. CASE PipeBroken
    BY <1>7, Bounds DEF PipeBroken, Caught, proxy, health, pipes, pool, ends,
        history, Types, PoolTypes, ThreadTypes
  <1>8. CASE ConnectionGone
    BY <1>8, Bounds DEF ConnectionGone, Escape, GiveBack, Release, NodeFails,
        pipes, history, Types, PoolTypes, ThreadTypes
  <1>9. CASE ReceiveError
    BY <1>9, Bounds DEF ReceiveError, Answered, TakeAnswer, Caught, Reply,
        proxy, health, pool, ends, history, Types, PoolTypes, ThreadTypes
  <1>10. CASE ReceiveAnswer
    <2>1. slot \in Slots
      BY <1>10 DEF ReceiveAnswer, Answered, PoolInv, Types, ThreadTypes
    <2>. QED
      BY <1>10, <2>1 DEF ReceiveAnswer, Deliver, Release, pool, ends, Types, PoolTypes
  <1>11. CASE Acknowledge
    BY <1>11, Bounds DEF Acknowledge, Deliver, Release, ends, history, Types,
        PoolTypes, ThreadTypes
  <1>12. CASE Skip
    BY <1>12, Bounds DEF Skip, ReturnNothing, GiveBack, Release, Flush,
        health, pipes, ends, history, Types, PoolTypes, ThreadTypes
  <1>13. CASE Recover
    BY <1>13, Bounds DEF Recover, health, pipes, pool, ends, history, Types,
        PoolTypes, ThreadTypes
  <1>14. CASE GiveUp
    BY <1>14, Bounds DEF GiveUp, GiveBack, Release, NodeFails, pipes,
        history, Types, PoolTypes, ThreadTypes
  <1>15. CASE WorkerCloses
    BY <1>15, Bounds DEF WorkerCloses, health, pipes, pool, ends, history,
        Types, PoolTypes, ThreadTypes
  <1>16. CASE WorkerKills
    BY <1>16, Bounds DEF WorkerKills, EndProcess, proxy, health, pool, ends,
        history, Types, PoolTypes, ThreadTypes
  <1>17. CASE WorkerReaps
    BY <1>17, Bounds DEF WorkerReaps, GiveBack, Release, NodeFails, history,
        pipes, pool, Types, PoolTypes, ThreadTypes
  <1>18. CASE StartChild
    BY <1>18, Bounds DEF StartChild, health, pool, ends, Types, PoolTypes,
        ThreadTypes
  <1>19. CASE ChildIsReady
    BY <1>19, Bounds DEF ChildIsReady, AwaitsChild, Newborn, TakeAnswer,
        GiveBack, Release, pool, ends, history, Types, PoolTypes, ThreadTypes
  <1>20. CASE StartFails
    BY <1>20, Bounds DEF StartFails, AwaitsChild, Newborn, GiveBack, Release,
        NodeFails, pipes, history, Types, PoolTypes, ThreadTypes
  <1>21. CASE DecodeFails
    BY <1>21, Bounds DEF DecodeFails, Answered, TakeAnswer, Reply, Escape,
        Caught, GiveBack, Release, NodeFails, pool, Types, PoolTypes,
        ThreadTypes
  <1>22. CASE StartTimesOut
    BY <1>22, Bounds DEF StartTimesOut, AwaitsChild, Newborn, EndProcess,
        GiveBack, Release, NodeFails, Types, PoolTypes, ThreadTypes
  <1>23. CASE WatchdogFires
    BY <1>23, Bounds DEF WatchdogFires, proxy, pipes, pool, ends, Types,
        PoolTypes, ThreadTypes
  <1>24. CASE Interrupt
    BY <1>24, Bounds DEF Interrupt, pipes, pool, ends, history, Types,
        PoolTypes, ThreadTypes
  <1>25. CASE WatchdogKills
    BY <1>25, Bounds DEF WatchdogKills, EndProcess, pool, ends, history,
        Types, PoolTypes, ThreadTypes
  <1>26. CASE WatchdogReaps
    BY <1>26, Bounds DEF WatchdogReaps, pipes, pool, ends, history, Types,
        PoolTypes, ThreadTypes
  <1>27. CASE RequestStop
    BY <1>27, Bounds DEF RequestStop, proxy, health, pipes, pool, history,
        Types, PoolTypes, ThreadTypes
  <1>28. CASE MainCloses
    BY <1>28, Bounds DEF MainCloses, proxy, health, pool, history, Types,
        PoolTypes, ThreadTypes
  <1>29. CASE MainPolls
    BY <1>29, Bounds DEF MainPolls, TakeAnswer, proxy, health, pool, history,
        Types, PoolTypes, ThreadTypes
  <1>30. CASE MainClosesPipe
    BY <1>30, Bounds DEF MainClosesPipe, health, pipes, pool, history, Types,
        PoolTypes, ThreadTypes
  <1>31. CASE MainKills
    BY <1>31, Bounds DEF MainKills, EndProcess, proxy, health, pool, history,
        Types, PoolTypes, ThreadTypes
  <1>32. CASE MainReaps
    BY <1>32, Bounds DEF MainReaps, health, pipes, pool, history, Types,
        PoolTypes, ThreadTypes
  <1>33. CASE MainBreaks
    BY <1>33, Bounds DEF MainBreaks, proxy, health, pipes, pool, history,
        Types, PoolTypes, ThreadTypes
  <1>34. CASE ClosePool
    BY <1>34, Bounds DEF ClosePool, proxy, health, pipes, history, Types,
        PoolTypes, ThreadTypes
  <1>35. CASE Consume
    BY <1>35, Bounds DEF Consume, Release, proxy, health, pipes, ends,
        history, Types, PoolTypes, ThreadTypes
  <1>36. CASE ConsumersLeave
    BY <1>36, Bounds DEF ConsumersLeave, proxy, health, pipes, ends, history,
        Types, PoolTypes, ThreadTypes
  <1>37. ASSUME NEW g \in Children, ChildStep(g) \/ Fault(g)
       PROVE  PoolTypes'
    BY <1>37, ChildKeepsTypes DEF Types
  <1>. QED
    BY <1>1, <1>2, <1>3, <1>4, <1>5, <1>6, <1>7, <1>8, <1>9, <1>10, <1>11,
        <1>12, <1>13, <1>14, <1>15, <1>16, <1>17, <1>18, <1>19, <1>20, <1>21,
        <1>22, <1>23, <1>24, <1>25, <1>26, <1>27, <1>28, <1>29, <1>30, <1>31,
        <1>32, <1>33, <1>34, <1>35, <1>36, <1>37 DEF Next, WorkerStep,
        WatchdogStep, MainStep

\* What the threads do to the pipe and the process of the newest child: they ask,
\* take an answer, end the process, or start the next child.
Wrote(q) == /\ conn = N /\ q \in Questions
            /\ requests'[N] = Append(requests[N], q)
            /\ child' = child /\ replies' = replies
Took == /\ conn = N /\ replies[N] # <<>> /\ replies'[N] = Tail(replies[N])
        /\ child' = child /\ requests' = requests
Ended == /\ proc = N /\ child'[N].state = "dead"
         /\ child'[N].call = child[N].call /\ child'[N].slot = child[N].slot
         /\ requests' = requests /\ replies' = replies

LEMMA Writing ==
  ASSUME PipeTypes, conn = N, N \in Children, NEW q \in Questions,
         requests' = [requests EXCEPT ![conn] = Append(@, q)],
         UNCHANGED <<child, replies>>
  PROVE  PipeTypes' /\ Others(N) /\ Wrote(q)
  <1>1. Append(requests[N], q) \in Seq(Questions)
    BY DEF PipeTypes
  <1>. QED BY <1>1 DEF PipeTypes, Others, Wrote

LEMMA TakingAnswer ==
  ASSUME PipeTypes, conn = N, N \in Children, replies[N] # <<>>,
         TakeAnswer, UNCHANGED <<child, requests>>
  PROVE  PipeTypes' /\ Others(N) /\ Took
  <1>1. replies[N] \in Seq(Answers)
    BY DEF PipeTypes
  <1>2. Tail(replies[N]) \in Seq(Answers)
    BY <1>1, Taking
  <1>. QED BY <1>2 DEF PipeTypes, Others, Took, TakeAnswer

LEMMA EndingProcess ==
  ASSUME PipeTypes, proc = N, N \in Children, EndProcess, UNCHANGED <<requests, replies>>
  PROVE  PipeTypes' /\ Others(N) /\ Ended
  BY DEF PipeTypes, Others, Ended, EndProcess, States

LEMMA StartingChild ==
  ASSUME PipeTypes, ThreadTypes, restarts < MaxRestarts, StartChild
  PROVE  /\ PipeTypes' /\ Others(N + 1) /\ N + 1 \in Children /\ N' = N + 1
         /\ child'[N + 1] = [child[N + 1] EXCEPT !.state = "starting"]
         /\ UNCHANGED <<requests, replies>>
  <1>1. /\ N + 1 = restarts + 2 /\ N + 1 \in Children /\ N' = N + 1
        /\ child' = [child EXCEPT ![N + 1].state = "starting"]
        /\ UNCHANGED <<requests, replies>>
    <2>1. restarts \in Nat /\ N + 1 = restarts + 2 /\ N + 1 \in Children
      BY Bounds DEF ThreadTypes, N, Children
    <2>2. N' = N + 1
      BY <2>1 DEF StartChild, N
    <2>. QED BY <2>1, <2>2 DEF StartChild
  <1>. QED BY <1>1 DEF PipeTypes, Others, States

Pipework ==
    \/ UNCHANGED pipes
    \/ Others(N) /\ \/ \E q \in Questions : Wrote(q)
                    \/ Took
                    \/ Ended

LEMMA Pipes ==
  ASSUME PipeTypes, ThreadTypes, NewestInv, Next, ~StartChild,
         ~\E g \in Children : ChildStep(g) \/ Fault(g)
  PROVE  PipeTypes' /\ Pipework
  <1>1. CASE \/ Begin \/ Check \/ Reserve \/ ReserveFails \/ Listen
             \/ PipeBroken \/ ConnectionGone \/ Skip \/ Recover
             \/ GiveUp \/ WorkerCloses \/ WorkerReaps \/ StartFails
             \/ WatchdogFires \/ Interrupt \/ WatchdogReaps
             \/ RequestStop \/ MainClosesPipe \/ MainReaps
             \/ MainBreaks \/ ClosePool \/ Consume \/ ConsumersLeave
    <2>1. UNCHANGED pipes
      BY <1>1 DEF Begin, Flush, pipes, pool, ends, history, Check, Caught,
          proxy, health, Reserve, ReserveFails, Escape, GiveBack, Release,
          NodeFails, Listen, PipeBroken, ConnectionGone, Skip, ReturnNothing,
          Recover, GiveUp, WorkerCloses, WorkerReaps, StartFails,
          AwaitsChild, Newborn, WatchdogFires, Interrupt, WatchdogReaps,
          RequestStop, MainClosesPipe, MainReaps, MainBreaks, ClosePool,
          Consume, ConsumersLeave
    <2>. QED BY <2>1 DEF pipes, Pipework, PipeTypes
  <1>2. CASE Send
    <2>1. /\ conn \in Children \cup {None} /\ conn # None /\ conn = N
          /\ [op |-> "call", call |-> call, slot |-> slot] \in Questions
      BY <1>2 DEF Send, PipeUp, ThreadTypes, NewestInv, Held, Questions
    <2>. QED BY <1>2, <2>1, NewestIsChild, Writing DEF Send, Pipework
  <1>3. CASE Acknowledge
    <2>1. /\ conn = N
          /\ [op |-> "ack", call |-> call, slot |-> None] \in Questions
      BY <1>3 DEF Acknowledge, PipeUp, ThreadTypes, NewestInv, Held, Questions
    <2>. QED BY <1>3, <2>1, NewestIsChild, Writing DEF Acknowledge, Pipework
  <1>4. CASE MainCloses
    <2>1. CASE conn # None /\ ProcessAlive
      <3>1. /\ conn = N
            /\ [op |-> "close", call |-> 0, slot |-> None] \in Questions
        BY <2>1 DEF NewestInv, Held, Questions
      <3>. QED BY <1>4, <2>1, <3>1, NewestIsChild, Writing DEF MainCloses, Pipework
    <2>2. CASE ~(conn # None /\ ProcessAlive)
      BY <1>4, <2>2 DEF MainCloses, Pipework, pipes, PipeTypes
    <2>. QED BY <2>1, <2>2
  <1>5. CASE MainPolls
    <2>1. CASE conn # None /\ replies[conn] # <<>>
      <3>1. conn = N
        BY <2>1 DEF NewestInv, Held
      <3>. QED BY <1>5, <2>1, <3>1, NewestIsChild, TakingAnswer DEF MainPolls, Pipework
    <2>2. CASE ~(conn # None /\ replies[conn] # <<>>)
      BY <1>5, <2>2 DEF MainPolls, Pipework, pipes, PipeTypes
    <2>. QED BY <2>1, <2>2
  <1>6. CASE StartTimesOut
    <2>1. proc = N /\ proc # None
      BY <1>6, NewestIsChild DEF StartTimesOut, Newborn, N
    <2>. QED BY <1>6, <2>1, NewestIsChild, EndingProcess DEF StartTimesOut, Pipework
  <1>7. CASE ReceiveError
    <2>1. conn = N /\ replies[N] # <<>>
      BY <1>7 DEF ReceiveError, Answered, NewestInv, Held, ThreadTypes
    <2>. QED BY <1>7, <2>1, NewestIsChild, TakingAnswer DEF ReceiveError, Pipework
  <1>8. CASE ReceiveAnswer
    <2>1. conn = N /\ replies[N] # <<>>
      BY <1>8 DEF ReceiveAnswer, Answered, NewestInv, Held, ThreadTypes
    <2>. QED BY <1>8, <2>1, NewestIsChild, TakingAnswer DEF ReceiveAnswer, Pipework
  <1>9. CASE DecodeFails
    <2>1. conn = N /\ replies[N] # <<>>
      BY <1>9 DEF DecodeFails, Answered, NewestInv, Held, ThreadTypes
    <2>. QED BY <1>9, <2>1, NewestIsChild, TakingAnswer DEF DecodeFails, Pipework
  <1>10. CASE ChildIsReady
    <2>1. conn = N /\ replies[N] # <<>>
      BY <1>10 DEF ChildIsReady, Newborn, N
    <2>. QED BY <1>10, <2>1, NewestIsChild, TakingAnswer DEF ChildIsReady, Pipework
  <1>11. CASE WorkerKills
    <2>1. CASE proc = None
      BY <1>11, <2>1 DEF WorkerKills, Pipework, pipes, PipeTypes
    <2>2. CASE proc # None
      <3>1. proc = N
        BY <2>2 DEF NewestInv, Held
      <3>. QED BY <1>11, <2>2, <3>1, NewestIsChild, EndingProcess DEF WorkerKills, Pipework
    <2>. QED BY <2>1, <2>2
  <1>12. CASE WatchdogKills
    <2>1. CASE proc = None
      BY <1>12, <2>1 DEF WatchdogKills, Pipework, pipes, PipeTypes
    <2>2. CASE proc # None
      <3>1. proc = N
        BY <2>2 DEF NewestInv, Held
      <3>. QED BY <1>12, <2>2, <3>1, NewestIsChild, EndingProcess DEF WatchdogKills, Pipework
    <2>. QED BY <2>1, <2>2
  <1>13. CASE MainKills
    <2>1. CASE proc = None
      BY <1>13, <2>1 DEF MainKills, Pipework, pipes, PipeTypes
    <2>2. CASE proc # None
      <3>1. proc = N
        BY <2>2 DEF NewestInv, Held
      <3>. QED BY <1>13, <2>2, <3>1, NewestIsChild, EndingProcess DEF MainKills, Pipework
    <2>. QED BY <2>1, <2>2
  <1>. QED
    BY <1>1, <1>2, <1>3, <1>4, <1>5, <1>6, <1>7, <1>8, <1>9, <1>10, <1>11,
        <1>12, <1>13 DEF Next, WorkerStep, WatchdogStep, MainStep

LEMMA TypesKept ==
  ASSUME Types, NewestInv, LockInv, PoolInv, Next
  PROVE  Types'
  <1>1. CASE \E g \in Children : ChildStep(g) \/ Fault(g)
    BY <1>1, ChildKeepsTypes
  <1>2. CASE StartChild
    <2>1. restarts < MaxRestarts
      BY <1>2 DEF StartChild, NewestInv, Held, Restarting
    <2>. QED BY <1>2, <2>1, StartingChild, ThreadTypesKept, FlagTypesKept, PoolTypesKept
             DEF Types
  <1>3. CASE ~StartChild /\ ~\E g \in Children : ChildStep(g) \/ Fault(g)
    BY <1>3, Pipes, ThreadTypesKept, FlagTypesKept, PoolTypesKept DEF Types
  <1>. QED BY <1>1, <1>2, <1>3

LEMMA RestartsStay ==
  ASSUME Next, ~StartChild, ~\E g \in Children : ChildStep(g) \/ Fault(g)
  PROVE  restarts' = restarts /\ late' = late
  <1>1. CASE Begin
    BY <1>1 DEF Begin, Flush, pipes, pool, ends, history
  <1>2. CASE Check
    BY <1>2 DEF Check, Caught, proxy, health, pipes, pool, ends, history
  <1>3. CASE Reserve
    BY <1>3 DEF Reserve, health, pipes, ends, history
  <1>4. CASE ReserveFails
    BY <1>4 DEF ReserveFails, Escape, GiveBack, Release, NodeFails, pipes,
        history
  <1>5. CASE Send
    BY <1>5 DEF Send, proxy, health, pool, ends, history
  <1>6. CASE Listen
    BY <1>6 DEF Listen, health, pipes, pool, ends, history
  <1>7. CASE PipeBroken
    BY <1>7 DEF PipeBroken, Caught, proxy, health, pipes, pool, ends, history
  <1>8. CASE ConnectionGone
    BY <1>8 DEF ConnectionGone, Escape, GiveBack, Release, NodeFails, pipes,
        history
  <1>9. CASE ReceiveError
    BY <1>9 DEF ReceiveError, Answered, TakeAnswer, Caught, Reply, proxy,
        health, pool, ends, history
  <1>10. CASE ReceiveAnswer
    BY <1>10 DEF ReceiveAnswer, Answered, TakeAnswer, Deliver, Release,
        Reply, pool, ends
  <1>11. CASE Acknowledge
    BY <1>11 DEF Acknowledge, Deliver, Release, ends, history
  <1>12. CASE Skip
    BY <1>12 DEF Skip, ReturnNothing, GiveBack, Release, Flush, health,
        pipes, ends, history
  <1>13. CASE Recover
    BY <1>13 DEF Recover, health, pipes, pool, ends, history
  <1>14. CASE GiveUp
    BY <1>14 DEF GiveUp, GiveBack, Release, NodeFails, pipes, history
  <1>15. CASE WorkerCloses
    BY <1>15 DEF WorkerCloses, health, pipes, pool, ends, history
  <1>16. CASE WorkerKills
    BY <1>16 DEF WorkerKills, EndProcess, proxy, health, pool, ends, history
  <1>17. CASE WorkerReaps
    BY <1>17 DEF WorkerReaps, GiveBack, Release, NodeFails, history, pipes,
        pool
  <1>18. CASE ChildIsReady
    BY <1>18 DEF ChildIsReady, AwaitsChild, Newborn, TakeAnswer, GiveBack,
        Release, pool, ends, history
  <1>19. CASE StartFails
    BY <1>19 DEF StartFails, AwaitsChild, Newborn, GiveBack, Release,
        NodeFails, pipes, history
  <1>20. CASE DecodeFails
    BY <1>20 DEF DecodeFails, Answered, TakeAnswer, Reply, Escape, Caught,
        GiveBack, Release, NodeFails, pool
  <1>21. CASE StartTimesOut
    BY <1>21 DEF StartTimesOut, AwaitsChild, Newborn, EndProcess, GiveBack,
        Release, NodeFails
  <1>22. CASE WatchdogFires
    BY <1>22 DEF WatchdogFires, proxy, pipes, pool, ends
  <1>23. CASE Interrupt
    BY <1>23 DEF Interrupt, pipes, pool, ends, history
  <1>24. CASE WatchdogKills
    BY <1>24 DEF WatchdogKills, EndProcess, pool, ends, history
  <1>25. CASE WatchdogReaps
    BY <1>25 DEF WatchdogReaps, pipes, pool, ends, history
  <1>26. CASE RequestStop
    BY <1>26 DEF RequestStop, proxy, health, pipes, pool, history
  <1>27. CASE MainCloses
    BY <1>27 DEF MainCloses, proxy, health, pool, history
  <1>28. CASE MainPolls
    BY <1>28 DEF MainPolls, TakeAnswer, proxy, health, pool, history
  <1>29. CASE MainClosesPipe
    BY <1>29 DEF MainClosesPipe, health, pipes, pool, history
  <1>30. CASE MainKills
    BY <1>30 DEF MainKills, EndProcess, proxy, health, pool, history
  <1>31. CASE MainReaps
    BY <1>31 DEF MainReaps, health, pipes, pool, history
  <1>32. CASE MainBreaks
    BY <1>32 DEF MainBreaks, proxy, health, pipes, pool, history
  <1>33. CASE ClosePool
    BY <1>33 DEF ClosePool, proxy, health, pipes, history
  <1>34. CASE Consume
    BY <1>34 DEF Consume, Release, proxy, health, pipes, ends, history
  <1>35. CASE ConsumersLeave
    BY <1>35 DEF ConsumersLeave, proxy, health, pipes, ends, history
  <1>. QED
    BY <1>1, <1>2, <1>3, <1>4, <1>5, <1>6, <1>7, <1>8, <1>9, <1>10, <1>11,
        <1>12, <1>13, <1>14, <1>15, <1>16, <1>17, <1>18, <1>19, <1>20, <1>21,
        <1>22, <1>23, <1>24, <1>25, <1>26, <1>27, <1>28, <1>29, <1>30, <1>31,
        <1>32, <1>33, <1>34, <1>35 DEF Next, WorkerStep, WatchdogStep,
        MainStep

LEMMA HeldKept ==
  ASSUME Types, NewestInv, LockInv, Next
  PROVE  Held'
  <1>1. CASE Begin
    BY <1>1, Bounds DEF Begin, Flush, pipes, pool, ends, history, Types,
        ThreadTypes, LockInv, NewestInv, Held, N, Restarting
  <1>2. CASE Check
    BY <1>2, Bounds DEF Check, Caught, proxy, health, pipes, pool, ends,
        history, Types, ThreadTypes, LockInv, NewestInv, Held, N, Restarting
  <1>3. CASE Reserve
    BY <1>3, Bounds DEF Reserve, health, pipes, ends, history, Types,
        ThreadTypes, LockInv, NewestInv, Held, N, Restarting
  <1>4. CASE ReserveFails
    BY <1>4, Bounds DEF ReserveFails, Escape, GiveBack, Release, NodeFails,
        pipes, history, Types, ThreadTypes, LockInv, NewestInv, Held, N,
        Restarting
  <1>5. CASE Send
    BY <1>5, Bounds DEF Send, proxy, health, pool, ends, history, Types,
        ThreadTypes, LockInv, NewestInv, Held, N, Restarting
  <1>6. CASE Listen
    BY <1>6, Bounds DEF Listen, health, pipes, pool, ends, history, Types,
        ThreadTypes, LockInv, NewestInv, Held, N, Restarting
  <1>7. CASE PipeBroken
    BY <1>7, Bounds DEF PipeBroken, Caught, proxy, health, pipes, pool, ends,
        history, Types, ThreadTypes, LockInv, NewestInv, Held, N, Restarting
  <1>8. CASE ConnectionGone
    BY <1>8, Bounds DEF ConnectionGone, Escape, GiveBack, Release, NodeFails,
        pipes, history, Types, ThreadTypes, LockInv, NewestInv, Held, N,
        Restarting
  <1>9. CASE ReceiveError
    BY <1>9, Bounds DEF ReceiveError, Answered, TakeAnswer, Caught, Reply,
        proxy, health, pool, ends, history, Types, ThreadTypes, LockInv,
        NewestInv, Held, N, Restarting
  <1>10. CASE ReceiveAnswer
    BY <1>10, Bounds DEF ReceiveAnswer, Answered, TakeAnswer, Deliver,
        Release, Reply, pool, ends, Types, ThreadTypes, LockInv, NewestInv,
        Held, N, Restarting
  <1>11. CASE Acknowledge
    BY <1>11, Bounds DEF Acknowledge, Deliver, Release, ends, history, Types,
        ThreadTypes, LockInv, NewestInv, Held, N, Restarting
  <1>12. CASE Skip
    BY <1>12, Bounds DEF Skip, ReturnNothing, GiveBack, Release, Flush,
        health, pipes, ends, history, Types, ThreadTypes, LockInv, NewestInv,
        Held, N, Restarting
  <1>13. CASE Recover
    BY <1>13, Bounds DEF Recover, health, pipes, pool, ends, history, Types,
        ThreadTypes, LockInv, NewestInv, Held, N, Restarting
  <1>14. CASE GiveUp
    BY <1>14, Bounds DEF GiveUp, GiveBack, Release, NodeFails, pipes,
        history, Types, ThreadTypes, LockInv, NewestInv, Held, N, Restarting
  <1>15. CASE WorkerCloses
    BY <1>15, Bounds DEF WorkerCloses, health, pipes, pool, ends, history,
        Types, ThreadTypes, LockInv, NewestInv, Held, N, Restarting
  <1>16. CASE WorkerKills
    BY <1>16, Bounds DEF WorkerKills, EndProcess, proxy, health, pool, ends,
        history, Types, ThreadTypes, LockInv, NewestInv, Held, N, Restarting
  <1>17. CASE WorkerReaps
    BY <1>17, Bounds DEF WorkerReaps, GiveBack, Release, NodeFails, history,
        pipes, pool, Types, ThreadTypes, LockInv, NewestInv, Held, N,
        Restarting
  <1>18. CASE StartChild
    BY <1>18, Bounds DEF StartChild, health, pool, ends, Types, ThreadTypes,
        LockInv, NewestInv, Held, N, Restarting
  <1>19. CASE ChildIsReady
    BY <1>19, Bounds DEF ChildIsReady, AwaitsChild, Newborn, TakeAnswer,
        GiveBack, Release, pool, ends, history, Types, ThreadTypes, LockInv,
        NewestInv, Held, N, Restarting
  <1>20. CASE StartFails
    BY <1>20, Bounds DEF StartFails, AwaitsChild, Newborn, GiveBack, Release,
        NodeFails, pipes, history, Types, ThreadTypes, LockInv, NewestInv,
        Held, N, Restarting
  <1>21. CASE DecodeFails
    BY <1>21, Bounds DEF DecodeFails, Answered, TakeAnswer, Reply, Escape,
        Caught, GiveBack, Release, NodeFails, pool, Types, ThreadTypes,
        LockInv, NewestInv, Held, N, Restarting
  <1>22. CASE StartTimesOut
    BY <1>22, Bounds DEF StartTimesOut, AwaitsChild, Newborn, EndProcess,
        GiveBack, Release, NodeFails, Types, ThreadTypes, LockInv, NewestInv,
        Held, N, Restarting
  <1>23. CASE WatchdogFires
    BY <1>23, Bounds DEF WatchdogFires, proxy, pipes, pool, ends, Types,
        ThreadTypes, LockInv, NewestInv, Held, N, Restarting
  <1>24. CASE Interrupt
    BY <1>24, Bounds DEF Interrupt, pipes, pool, ends, history, Types,
        ThreadTypes, LockInv, NewestInv, Held, N, Restarting
  <1>25. CASE WatchdogKills
    BY <1>25, Bounds DEF WatchdogKills, EndProcess, pool, ends, history,
        Types, ThreadTypes, LockInv, NewestInv, Held, N, Restarting
  <1>26. CASE WatchdogReaps
    BY <1>26, Bounds DEF WatchdogReaps, pipes, pool, ends, history, Types,
        ThreadTypes, LockInv, NewestInv, Held, N, Restarting
  <1>27. CASE RequestStop
    BY <1>27, Bounds DEF RequestStop, proxy, health, pipes, pool, history,
        Types, ThreadTypes, LockInv, NewestInv, Held, N, Restarting
  <1>28. CASE MainCloses
    BY <1>28, Bounds DEF MainCloses, proxy, health, pool, history, Types,
        ThreadTypes, LockInv, NewestInv, Held, N, Restarting
  <1>29. CASE MainPolls
    BY <1>29, Bounds DEF MainPolls, TakeAnswer, proxy, health, pool, history,
        Types, ThreadTypes, LockInv, NewestInv, Held, N, Restarting
  <1>30. CASE MainClosesPipe
    BY <1>30, Bounds DEF MainClosesPipe, health, pipes, pool, history, Types,
        ThreadTypes, LockInv, NewestInv, Held, N, Restarting
  <1>31. CASE MainKills
    BY <1>31, Bounds DEF MainKills, EndProcess, proxy, health, pool, history,
        Types, ThreadTypes, LockInv, NewestInv, Held, N, Restarting
  <1>32. CASE MainReaps
    BY <1>32, Bounds DEF MainReaps, health, pipes, pool, history, Types,
        ThreadTypes, LockInv, NewestInv, Held, N, Restarting
  <1>33. CASE MainBreaks
    BY <1>33, Bounds DEF MainBreaks, proxy, health, pipes, pool, history,
        Types, ThreadTypes, LockInv, NewestInv, Held, N, Restarting
  <1>34. CASE ClosePool
    BY <1>34, Bounds DEF ClosePool, proxy, health, pipes, history, Types,
        ThreadTypes, LockInv, NewestInv, Held, N, Restarting
  <1>35. CASE Consume
    BY <1>35, Bounds DEF Consume, Release, proxy, health, pipes, ends,
        history, Types, ThreadTypes, LockInv, NewestInv, Held, N, Restarting
  <1>36. CASE ConsumersLeave
    BY <1>36, Bounds DEF ConsumersLeave, proxy, health, pipes, ends, history,
        Types, ThreadTypes, LockInv, NewestInv, Held, N, Restarting
  <1>37. ASSUME NEW g \in Children, ChildStep(g) \/ Fault(g)
       PROVE  Held'
    BY <1>37, ChildFrame, Bounds DEF ThreadVars, proxy, health, NewestInv, Held, N,
       Restarting
  <1>. QED
    BY <1>1, <1>2, <1>3, <1>4, <1>5, <1>6, <1>7, <1>8, <1>9, <1>10, <1>11,
        <1>12, <1>13, <1>14, <1>15, <1>16, <1>17, <1>18, <1>19, <1>20, <1>21,
        <1>22, <1>23, <1>24, <1>25, <1>26, <1>27, <1>28, <1>29, <1>30, <1>31,
        <1>32, <1>33, <1>34, <1>35, <1>36, <1>37 DEF Next, WorkerStep,
        WatchdogStep, MainStep

LEMMA LockKept ==
  ASSUME Types, NewestInv, LockInv, Next
  PROVE  LockInv'
  <1>1. CASE Begin
    BY <1>1, Bounds DEF Begin, Flush, pipes, pool, ends, history, Types,
        ThreadTypes, FlagTypes, PoolTypes, LockInv, NewestInv, Held,
        Restarting
  <1>2. CASE Check
    BY <1>2, Bounds DEF Check, Caught, proxy, health, pipes, pool, ends,
        history, Types, ThreadTypes, FlagTypes, PoolTypes, LockInv,
        NewestInv, Held, Restarting
  <1>3. CASE Reserve
    BY <1>3, Bounds DEF Reserve, health, pipes, ends, history, Types,
        ThreadTypes, FlagTypes, PoolTypes, LockInv, NewestInv, Held,
        Restarting
  <1>4. CASE ReserveFails
    BY <1>4, Bounds DEF ReserveFails, Escape, GiveBack, Release, NodeFails,
        pipes, history, Types, ThreadTypes, FlagTypes, PoolTypes, LockInv,
        NewestInv, Held, Restarting
  <1>5. CASE Send
    BY <1>5, Bounds DEF Send, proxy, health, pool, ends, history, Types,
        ThreadTypes, FlagTypes, PoolTypes, LockInv, NewestInv, Held,
        Restarting
  <1>6. CASE Listen
    BY <1>6, Bounds DEF Listen, health, pipes, pool, ends, history, Types,
        ThreadTypes, FlagTypes, PoolTypes, LockInv, NewestInv, Held,
        Restarting
  <1>7. CASE PipeBroken
    BY <1>7, Bounds DEF PipeBroken, Caught, proxy, health, pipes, pool, ends,
        history, Types, ThreadTypes, FlagTypes, PoolTypes, LockInv,
        NewestInv, Held, Restarting
  <1>8. CASE ConnectionGone
    BY <1>8, Bounds DEF ConnectionGone, Escape, GiveBack, Release, NodeFails,
        pipes, history, Types, ThreadTypes, FlagTypes, PoolTypes, LockInv,
        NewestInv, Held, Restarting
  <1>9. CASE ReceiveError
    BY <1>9, Bounds DEF ReceiveError, Answered, TakeAnswer, Caught, Reply,
        proxy, health, pool, ends, history, Types, ThreadTypes, FlagTypes,
        PoolTypes, LockInv, NewestInv, Held, Restarting
  <1>10. CASE ReceiveAnswer
    BY <1>10, Bounds DEF ReceiveAnswer, Answered, TakeAnswer, Deliver,
        Release, Reply, pool, ends, Types, ThreadTypes, FlagTypes, PoolTypes,
        LockInv, NewestInv, Held, Restarting
  <1>11. CASE Acknowledge
    BY <1>11, Bounds DEF Acknowledge, Deliver, Release, ends, history, Types,
        ThreadTypes, FlagTypes, PoolTypes, LockInv, NewestInv, Held,
        Restarting
  <1>12. CASE Skip
    BY <1>12, Bounds DEF Skip, ReturnNothing, GiveBack, Release, Flush,
        health, pipes, ends, history, Types, ThreadTypes, FlagTypes,
        PoolTypes, LockInv, NewestInv, Held, Restarting
  <1>13. CASE Recover
    BY <1>13, Bounds DEF Recover, health, pipes, pool, ends, history, Types,
        ThreadTypes, FlagTypes, PoolTypes, LockInv, NewestInv, Held,
        Restarting
  <1>14. CASE GiveUp
    BY <1>14, Bounds DEF GiveUp, GiveBack, Release, NodeFails, pipes,
        history, Types, ThreadTypes, FlagTypes, PoolTypes, LockInv,
        NewestInv, Held, Restarting
  <1>15. CASE WorkerCloses
    BY <1>15, Bounds DEF WorkerCloses, health, pipes, pool, ends, history,
        Types, ThreadTypes, FlagTypes, PoolTypes, LockInv, NewestInv, Held,
        Restarting
  <1>16. CASE WorkerKills
    BY <1>16, Bounds DEF WorkerKills, EndProcess, proxy, health, pool, ends,
        history, Types, ThreadTypes, FlagTypes, PoolTypes, LockInv,
        NewestInv, Held, Restarting
  <1>17. CASE WorkerReaps
    BY <1>17, Bounds DEF WorkerReaps, GiveBack, Release, NodeFails, history,
        pipes, pool, Types, ThreadTypes, FlagTypes, PoolTypes, LockInv,
        NewestInv, Held, Restarting
  <1>18. CASE StartChild
    BY <1>18, Bounds DEF StartChild, health, pool, ends, Types, ThreadTypes,
        FlagTypes, PoolTypes, LockInv, NewestInv, Held, Restarting
  <1>19. CASE ChildIsReady
    BY <1>19, Bounds DEF ChildIsReady, AwaitsChild, Newborn, TakeAnswer,
        GiveBack, Release, pool, ends, history, Types, ThreadTypes,
        FlagTypes, PoolTypes, LockInv, NewestInv, Held, Restarting
  <1>20. CASE StartFails
    BY <1>20, Bounds DEF StartFails, AwaitsChild, Newborn, GiveBack, Release,
        NodeFails, pipes, history, Types, ThreadTypes, FlagTypes, PoolTypes,
        LockInv, NewestInv, Held, Restarting
  <1>21. CASE DecodeFails
    BY <1>21, Bounds DEF DecodeFails, Answered, TakeAnswer, Reply, Escape,
        Caught, GiveBack, Release, NodeFails, pool, Types, ThreadTypes,
        FlagTypes, PoolTypes, LockInv, NewestInv, Held, Restarting
  <1>22. CASE StartTimesOut
    BY <1>22, Bounds DEF StartTimesOut, AwaitsChild, Newborn, EndProcess,
        GiveBack, Release, NodeFails, Types, ThreadTypes, FlagTypes,
        PoolTypes, LockInv, NewestInv, Held, Restarting
  <1>23. CASE WatchdogFires
    BY <1>23, Bounds DEF WatchdogFires, proxy, pipes, pool, ends, Types,
        ThreadTypes, FlagTypes, PoolTypes, LockInv, NewestInv, Held,
        Restarting
  <1>24. CASE Interrupt
    BY <1>24, Bounds DEF Interrupt, pipes, pool, ends, history, Types,
        ThreadTypes, FlagTypes, PoolTypes, LockInv, NewestInv, Held,
        Restarting
  <1>25. CASE WatchdogKills
    BY <1>25, Bounds DEF WatchdogKills, EndProcess, pool, ends, history,
        Types, ThreadTypes, FlagTypes, PoolTypes, LockInv, NewestInv, Held,
        Restarting
  <1>26. CASE WatchdogReaps
    BY <1>26, Bounds DEF WatchdogReaps, pipes, pool, ends, history, Types,
        ThreadTypes, FlagTypes, PoolTypes, LockInv, NewestInv, Held,
        Restarting
  <1>27. CASE RequestStop
    BY <1>27, Bounds DEF RequestStop, proxy, health, pipes, pool, history,
        Types, ThreadTypes, FlagTypes, PoolTypes, LockInv, NewestInv, Held,
        Restarting
  <1>28. CASE MainCloses
    BY <1>28, Bounds DEF MainCloses, proxy, health, pool, history, Types,
        ThreadTypes, FlagTypes, PoolTypes, LockInv, NewestInv, Held,
        Restarting
  <1>29. CASE MainPolls
    BY <1>29, Bounds DEF MainPolls, TakeAnswer, proxy, health, pool, history,
        Types, ThreadTypes, FlagTypes, PoolTypes, LockInv, NewestInv, Held,
        Restarting
  <1>30. CASE MainClosesPipe
    BY <1>30, Bounds DEF MainClosesPipe, health, pipes, pool, history, Types,
        ThreadTypes, FlagTypes, PoolTypes, LockInv, NewestInv, Held,
        Restarting
  <1>31. CASE MainKills
    BY <1>31, Bounds DEF MainKills, EndProcess, proxy, health, pool, history,
        Types, ThreadTypes, FlagTypes, PoolTypes, LockInv, NewestInv, Held,
        Restarting
  <1>32. CASE MainReaps
    BY <1>32, Bounds DEF MainReaps, health, pipes, pool, history, Types,
        ThreadTypes, FlagTypes, PoolTypes, LockInv, NewestInv, Held,
        Restarting
  <1>33. CASE MainBreaks
    BY <1>33, Bounds DEF MainBreaks, proxy, health, pipes, pool, history,
        Types, ThreadTypes, FlagTypes, PoolTypes, LockInv, NewestInv, Held,
        Restarting
  <1>34. CASE ClosePool
    BY <1>34, Bounds DEF ClosePool, proxy, health, pipes, history, Types,
        ThreadTypes, FlagTypes, PoolTypes, LockInv, NewestInv, Held,
        Restarting
  <1>35. CASE Consume
    BY <1>35, Bounds DEF Consume, Release, proxy, health, pipes, ends,
        history, Types, ThreadTypes, FlagTypes, PoolTypes, LockInv,
        NewestInv, Held, Restarting
  <1>36. CASE ConsumersLeave
    BY <1>36, Bounds DEF ConsumersLeave, proxy, health, pipes, ends, history,
        Types, ThreadTypes, FlagTypes, PoolTypes, LockInv, NewestInv, Held,
        Restarting
  <1>37. ASSUME NEW g \in Children, ChildStep(g) \/ Fault(g)
       PROVE  LockInv'
    BY <1>37, ChildFrame DEF ThreadVars, proxy, health, ends, LockInv, Restarting
  <1>. QED
    BY <1>1, <1>2, <1>3, <1>4, <1>5, <1>6, <1>7, <1>8, <1>9, <1>10, <1>11,
        <1>12, <1>13, <1>14, <1>15, <1>16, <1>17, <1>18, <1>19, <1>20, <1>21,
        <1>22, <1>23, <1>24, <1>25, <1>26, <1>27, <1>28, <1>29, <1>30, <1>31,
        <1>32, <1>33, <1>34, <1>35, <1>36, <1>37 DEF Next, WorkerStep,
        WatchdogStep, MainStep

LEMMA SlotsKept ==
  ASSUME Types, PoolInv, LockInv, Next
  PROVE  PoolInv'
  <1>1. CASE Begin
    BY <1>1, Bounds DEF Begin, Flush, pipes, pool, ends, history, Types,
        ThreadTypes, FlagTypes, PoolTypes, PoolInv, SlotsAccounted, LockInv
  <1>2. CASE Check
    BY <1>2, Bounds DEF Check, Caught, proxy, health, pipes, pool, ends,
        history, Types, ThreadTypes, FlagTypes, PoolTypes, PoolInv,
        SlotsAccounted, LockInv
  <1>3. CASE Reserve
    BY <1>3, Bounds DEF Reserve, health, pipes, ends, history, Types,
        ThreadTypes, FlagTypes, PoolTypes, PoolInv, SlotsAccounted, LockInv
  <1>4. CASE ReserveFails
    BY <1>4, Bounds DEF ReserveFails, Escape, GiveBack, Release, NodeFails,
        pipes, history, Types, ThreadTypes, FlagTypes, PoolTypes, PoolInv,
        SlotsAccounted, LockInv
  <1>5. CASE Send
    BY <1>5, Bounds DEF Send, proxy, health, pool, ends, history, Types,
        ThreadTypes, FlagTypes, PoolTypes, PoolInv, SlotsAccounted, LockInv
  <1>6. CASE Listen
    BY <1>6, Bounds DEF Listen, health, pipes, pool, ends, history, Types,
        ThreadTypes, FlagTypes, PoolTypes, PoolInv, SlotsAccounted, LockInv
  <1>7. CASE PipeBroken
    BY <1>7, Bounds DEF PipeBroken, Caught, proxy, health, pipes, pool, ends,
        history, Types, ThreadTypes, FlagTypes, PoolTypes, PoolInv,
        SlotsAccounted, LockInv
  <1>8. CASE ConnectionGone
    BY <1>8, Bounds DEF ConnectionGone, Escape, GiveBack, Release, NodeFails,
        pipes, history, Types, ThreadTypes, FlagTypes, PoolTypes, PoolInv,
        SlotsAccounted, LockInv
  <1>9. CASE ReceiveError
    BY <1>9, Bounds DEF ReceiveError, Answered, TakeAnswer, Caught, Reply,
        proxy, health, pool, ends, history, Types, ThreadTypes, FlagTypes,
        PoolTypes, PoolInv, SlotsAccounted, LockInv
  <1>10. CASE ReceiveAnswer
    BY <1>10, Bounds DEF ReceiveAnswer, Answered, TakeAnswer, Deliver,
        Release, Reply, pool, ends, Types, ThreadTypes, FlagTypes, PoolTypes,
        PoolInv, SlotsAccounted, LockInv
  <1>11. CASE Acknowledge
    BY <1>11, Bounds DEF Acknowledge, Deliver, Release, ends, history, Types,
        ThreadTypes, FlagTypes, PoolTypes, PoolInv, SlotsAccounted, LockInv
  <1>12. CASE Skip
    BY <1>12, Bounds DEF Skip, ReturnNothing, GiveBack, Release, Flush,
        health, pipes, ends, history, Types, ThreadTypes, FlagTypes,
        PoolTypes, PoolInv, SlotsAccounted, LockInv
  <1>13. CASE Recover
    BY <1>13, Bounds DEF Recover, health, pipes, pool, ends, history, Types,
        ThreadTypes, FlagTypes, PoolTypes, PoolInv, SlotsAccounted, LockInv
  <1>14. CASE GiveUp
    BY <1>14, Bounds DEF GiveUp, GiveBack, Release, NodeFails, pipes,
        history, Types, ThreadTypes, FlagTypes, PoolTypes, PoolInv,
        SlotsAccounted, LockInv
  <1>15. CASE WorkerCloses
    BY <1>15, Bounds DEF WorkerCloses, health, pipes, pool, ends, history,
        Types, ThreadTypes, FlagTypes, PoolTypes, PoolInv, SlotsAccounted,
        LockInv
  <1>16. CASE WorkerKills
    BY <1>16, Bounds DEF WorkerKills, EndProcess, proxy, health, pool, ends,
        history, Types, ThreadTypes, FlagTypes, PoolTypes, PoolInv,
        SlotsAccounted, LockInv
  <1>17. CASE WorkerReaps
    BY <1>17, Bounds DEF WorkerReaps, GiveBack, Release, NodeFails, history,
        pipes, pool, Types, ThreadTypes, FlagTypes, PoolTypes, PoolInv,
        SlotsAccounted, LockInv
  <1>18. CASE StartChild
    BY <1>18, Bounds DEF StartChild, health, pool, ends, Types, ThreadTypes,
        FlagTypes, PoolTypes, PoolInv, SlotsAccounted, LockInv
  <1>19. CASE ChildIsReady
    BY <1>19, Bounds DEF ChildIsReady, AwaitsChild, Newborn, TakeAnswer,
        GiveBack, Release, pool, ends, history, Types, ThreadTypes,
        FlagTypes, PoolTypes, PoolInv, SlotsAccounted, LockInv
  <1>20. CASE StartFails
    BY <1>20, Bounds DEF StartFails, AwaitsChild, Newborn, GiveBack, Release,
        NodeFails, pipes, history, Types, ThreadTypes, FlagTypes, PoolTypes,
        PoolInv, SlotsAccounted, LockInv
  <1>21. CASE DecodeFails
    BY <1>21, Bounds DEF DecodeFails, Answered, TakeAnswer, Reply, Escape,
        Caught, GiveBack, Release, NodeFails, pool, Types, ThreadTypes,
        FlagTypes, PoolTypes, PoolInv, SlotsAccounted, LockInv
  <1>22. CASE StartTimesOut
    BY <1>22, Bounds DEF StartTimesOut, AwaitsChild, Newborn, EndProcess,
        GiveBack, Release, NodeFails, Types, ThreadTypes, FlagTypes,
        PoolTypes, PoolInv, SlotsAccounted, LockInv
  <1>23. CASE WatchdogFires
    BY <1>23, Bounds DEF WatchdogFires, proxy, pipes, pool, ends, Types,
        ThreadTypes, FlagTypes, PoolTypes, PoolInv, SlotsAccounted, LockInv
  <1>24. CASE Interrupt
    BY <1>24, Bounds DEF Interrupt, pipes, pool, ends, history, Types,
        ThreadTypes, FlagTypes, PoolTypes, PoolInv, SlotsAccounted, LockInv
  <1>25. CASE WatchdogKills
    BY <1>25, Bounds DEF WatchdogKills, EndProcess, pool, ends, history,
        Types, ThreadTypes, FlagTypes, PoolTypes, PoolInv, SlotsAccounted,
        LockInv
  <1>26. CASE WatchdogReaps
    BY <1>26, Bounds DEF WatchdogReaps, pipes, pool, ends, history, Types,
        ThreadTypes, FlagTypes, PoolTypes, PoolInv, SlotsAccounted, LockInv
  <1>27. CASE RequestStop
    BY <1>27, Bounds DEF RequestStop, proxy, health, pipes, pool, history,
        Types, ThreadTypes, FlagTypes, PoolTypes, PoolInv, SlotsAccounted,
        LockInv
  <1>28. CASE MainCloses
    BY <1>28, Bounds DEF MainCloses, proxy, health, pool, history, Types,
        ThreadTypes, FlagTypes, PoolTypes, PoolInv, SlotsAccounted, LockInv
  <1>29. CASE MainPolls
    BY <1>29, Bounds DEF MainPolls, TakeAnswer, proxy, health, pool, history,
        Types, ThreadTypes, FlagTypes, PoolTypes, PoolInv, SlotsAccounted,
        LockInv
  <1>30. CASE MainClosesPipe
    BY <1>30, Bounds DEF MainClosesPipe, health, pipes, pool, history, Types,
        ThreadTypes, FlagTypes, PoolTypes, PoolInv, SlotsAccounted, LockInv
  <1>31. CASE MainKills
    BY <1>31, Bounds DEF MainKills, EndProcess, proxy, health, pool, history,
        Types, ThreadTypes, FlagTypes, PoolTypes, PoolInv, SlotsAccounted,
        LockInv
  <1>32. CASE MainReaps
    BY <1>32, Bounds DEF MainReaps, health, pipes, pool, history, Types,
        ThreadTypes, FlagTypes, PoolTypes, PoolInv, SlotsAccounted, LockInv
  <1>33. CASE MainBreaks
    BY <1>33, Bounds DEF MainBreaks, proxy, health, pipes, pool, history,
        Types, ThreadTypes, FlagTypes, PoolTypes, PoolInv, SlotsAccounted,
        LockInv
  <1>34. CASE ClosePool
    BY <1>34, Bounds DEF ClosePool, proxy, health, pipes, history, Types,
        ThreadTypes, FlagTypes, PoolTypes, PoolInv, SlotsAccounted, LockInv
  <1>35. CASE Consume
    BY <1>35, Bounds DEF Consume, Release, proxy, health, pipes, ends,
        history, Types, ThreadTypes, FlagTypes, PoolTypes, PoolInv,
        SlotsAccounted, LockInv
  <1>36. CASE ConsumersLeave
    BY <1>36, Bounds DEF ConsumersLeave, proxy, health, pipes, ends, history,
        Types, ThreadTypes, FlagTypes, PoolTypes, PoolInv, SlotsAccounted,
        LockInv
  <1>37. ASSUME NEW g \in Children, ChildStep(g) \/ Fault(g)
       PROVE  PoolInv'
    BY <1>37, ChildFrame DEF ThreadVars, proxy, pool, ends, PoolInv, SlotsAccounted
  <1>. QED
    BY <1>1, <1>2, <1>3, <1>4, <1>5, <1>6, <1>7, <1>8, <1>9, <1>10, <1>11,
        <1>12, <1>13, <1>14, <1>15, <1>16, <1>17, <1>18, <1>19, <1>20, <1>21,
        <1>22, <1>23, <1>24, <1>25, <1>26, <1>27, <1>28, <1>29, <1>30, <1>31,
        <1>32, <1>33, <1>34, <1>35, <1>36, <1>37 DEF Next, WorkerStep,
        WatchdogStep, MainStep

LEMMA FutureKept ==
  ASSUME Types, NewestInv, LockInv, Next
  PROVE  Future'
  <1>1. CASE \E g \in Children : ChildStep(g) \/ Fault(g)
    <2>1. PICK g \in Children : ChildStep(g) \/ Fault(g)
      BY <1>1
    <2>2. Others(g) /\ child[g].state # "unborn" /\ child'[g].state # "unborn"
      BY <2>1, ChildKeepsTypes
    <2>3. ~(g > N) /\ N' = N
      BY <2>1, <2>2, ChildFrame DEF NewestInv, Future, Unborn, N, ThreadVars, proxy
    <2>4. \A h \in Children : h > N => h # g
      BY <2>3
    <2>5. N \in Children
      BY NewestIsChild DEF Types
    <2>6. child'[N].state # "unborn"
      BY <2>2, <2>5 DEF NewestInv, Future, Others
    <2>. QED BY <2>2, <2>3, <2>4, <2>6 DEF NewestInv, Future, Others
  <1>2. CASE StartChild
    <2>1. restarts < MaxRestarts
      BY <1>2 DEF StartChild, NewestInv, Held, Restarting
    <2>2. /\ Others(N + 1) /\ N + 1 \in Children /\ N' = N + 1 /\ N \in Nat
          /\ child'[N + 1].state = "starting"
          /\ UNCHANGED <<requests, replies>>
      BY <1>2, <2>1, NewestIsChild, StartingChild DEF Types, PipeTypes
    <2>3. \A h \in Children : h > N + 1 => h # N + 1 /\ h > N
      BY <2>2 DEF Children
    <2>. QED BY <2>2, <2>3 DEF NewestInv, Future, Others
  <1>3. CASE ~StartChild /\ ~\E g \in Children : ChildStep(g) \/ Fault(g)
    <2>1. N \in Children /\ N \in Nat
      BY NewestIsChild DEF Types
    <2>2. Pipework
      BY <1>3, Pipes DEF Types
    <2>3. N' = N
      BY <1>3, RestartsStay DEF N
    <2>4. child'[N].state # "unborn"
      BY <2>2 DEF Pipework, Wrote, Took, Ended, pipes, NewestInv, Future
    <2>5. \A h \in Children : h > N => /\ child'[h] = child[h] /\ requests'[h] = requests[h]
                                     /\ replies'[h] = replies[h]
      BY <2>1, <2>2 DEF Pipework, Others, pipes
    <2>. QED BY <2>3, <2>4, <2>5 DEF NewestInv, Future
  <1>. QED BY <1>1, <1>2, <1>3

\* A child is forgotten only when it has been ended.
LEMMA ForgetsTheDead ==
  ASSUME Types, NewestInv, Next, ~StartChild, Forgotten',
         ~\E g \in Children : ChildStep(g) \/ Fault(g)
  PROVE  Forgotten \/ child'[N].state = "dead"
  <1>1. CASE Begin
    BY <1>1 DEF Begin, Flush, pipes, pool, ends, history, Forgotten
  <1>2. CASE Check
    BY <1>2 DEF Check, Caught, proxy, health, pipes, pool, ends, history,
        Forgotten
  <1>3. CASE Reserve
    BY <1>3 DEF Reserve, health, pipes, ends, history, Forgotten
  <1>4. CASE ReserveFails
    BY <1>4 DEF ReserveFails, Escape, GiveBack, Release, NodeFails, pipes,
        history, Forgotten
  <1>5. CASE Send
    BY <1>5 DEF Send, proxy, health, pool, ends, history, Forgotten
  <1>6. CASE Listen
    BY <1>6 DEF Listen, health, pipes, pool, ends, history, Forgotten
  <1>7. CASE PipeBroken
    BY <1>7 DEF PipeBroken, Caught, proxy, health, pipes, pool, ends,
        history, Forgotten
  <1>8. CASE ConnectionGone
    BY <1>8 DEF ConnectionGone, Escape, GiveBack, Release, NodeFails, pipes,
        history, Forgotten
  <1>9. CASE ReceiveError
    BY <1>9 DEF ReceiveError, Answered, TakeAnswer, Caught, Reply, proxy,
        health, pool, ends, history, Forgotten
  <1>10. CASE ReceiveAnswer
    BY <1>10 DEF ReceiveAnswer, Answered, TakeAnswer, Deliver, Release,
        Reply, pool, ends, Forgotten
  <1>11. CASE Acknowledge
    BY <1>11 DEF Acknowledge, Deliver, Release, ends, history, Forgotten
  <1>12. CASE Skip
    BY <1>12 DEF Skip, ReturnNothing, GiveBack, Release, Flush, health,
        pipes, ends, history, Forgotten
  <1>13. CASE Recover
    BY <1>13 DEF Recover, health, pipes, pool, ends, history, Forgotten
  <1>14. CASE GiveUp
    BY <1>14 DEF GiveUp, GiveBack, Release, NodeFails, pipes, history,
        Forgotten
  <1>15. CASE WorkerCloses
    BY <1>15 DEF WorkerCloses, health, pipes, pool, ends, history, Forgotten
  <1>16. CASE WorkerKills
    <2>1. Forgotten \/ child'[N].state = "dead"
      BY <1>16, NewestIsChild DEF WorkerKills, Newborn, N, EndProcess, Types, PipeTypes,
         Forgotten, NewestInv, Held
    <2>. QED BY <2>1
  <1>17. CASE WorkerReaps
    BY <1>17 DEF WorkerReaps, GiveBack, Release, NodeFails, history, pipes,
        pool, Forgotten
  <1>18. CASE ChildIsReady
    BY <1>18 DEF ChildIsReady, AwaitsChild, Newborn, TakeAnswer, GiveBack,
        Release, pool, ends, history, Forgotten
  <1>19. CASE StartFails
    BY <1>19 DEF StartFails, AwaitsChild, Newborn, GiveBack, Release,
        NodeFails, pipes, history, Forgotten
  <1>20. CASE DecodeFails
    BY <1>20 DEF DecodeFails, Answered, TakeAnswer, Reply, Escape, Caught,
        GiveBack, Release, NodeFails, pool, Forgotten
  <1>21. CASE StartTimesOut
    <2>1. Forgotten \/ child'[N].state = "dead"
      BY <1>21, NewestIsChild DEF StartTimesOut, Newborn, N, EndProcess, Types, PipeTypes,
         Forgotten, NewestInv, Held
    <2>. QED BY <2>1
  <1>22. CASE WatchdogFires
    BY <1>22 DEF WatchdogFires, proxy, pipes, pool, ends, Forgotten
  <1>23. CASE Interrupt
    BY <1>23 DEF Interrupt, pipes, pool, ends, history, Forgotten
  <1>24. CASE WatchdogKills
    <2>1. Forgotten \/ child'[N].state = "dead"
      BY <1>24, NewestIsChild DEF WatchdogKills, Newborn, N, EndProcess, Types, PipeTypes,
         Forgotten, NewestInv, Held
    <2>. QED BY <2>1
  <1>25. CASE WatchdogReaps
    BY <1>25 DEF WatchdogReaps, pipes, pool, ends, history, Forgotten
  <1>26. CASE RequestStop
    BY <1>26 DEF RequestStop, proxy, health, pipes, pool, history, Forgotten
  <1>27. CASE MainCloses
    BY <1>27 DEF MainCloses, proxy, health, pool, history, Forgotten
  <1>28. CASE MainPolls
    BY <1>28 DEF MainPolls, TakeAnswer, proxy, health, pool, history,
        Forgotten
  <1>29. CASE MainClosesPipe
    BY <1>29 DEF MainClosesPipe, health, pipes, pool, history, Forgotten
  <1>30. CASE MainKills
    <2>1. Forgotten \/ child'[N].state = "dead"
      BY <1>30, NewestIsChild DEF MainKills, Newborn, N, EndProcess, Types, PipeTypes,
         Forgotten, NewestInv, Held
    <2>. QED BY <2>1
  <1>31. CASE MainReaps
    BY <1>31 DEF MainReaps, health, pipes, pool, history, Forgotten
  <1>32. CASE MainBreaks
    BY <1>32 DEF MainBreaks, proxy, health, pipes, pool, history, Forgotten
  <1>33. CASE ClosePool
    BY <1>33 DEF ClosePool, proxy, health, pipes, history, Forgotten
  <1>34. CASE Consume
    BY <1>34 DEF Consume, Release, proxy, health, pipes, ends, history,
        Forgotten
  <1>35. CASE ConsumersLeave
    BY <1>35 DEF ConsumersLeave, proxy, health, pipes, ends, history,
        Forgotten
  <1>. QED
    BY <1>1, <1>2, <1>3, <1>4, <1>5, <1>6, <1>7, <1>8, <1>9, <1>10, <1>11,
        <1>12, <1>13, <1>14, <1>15, <1>16, <1>17, <1>18, <1>19, <1>20, <1>21,
        <1>22, <1>23, <1>24, <1>25, <1>26, <1>27, <1>28, <1>29, <1>30, <1>31,
        <1>32, <1>33, <1>34, <1>35 DEF Next, WorkerStep, WatchdogStep,
        MainStep

LEMMA DeathsKept ==
  ASSUME Types, NewestInv, LockInv, DeathsInv, Next
  PROVE  DeathsInv'
  <1>. SUFFICES ASSUME ~late'
                PROVE  /\ \A g \in Children : g < N' => child'[g].state = "dead"
                       /\ Forgotten' => child'[N'].state = "dead"
    BY DEF DeathsInv
  <1>0. N \in Children /\ N \in Nat /\ \A g \in Children : g \in Nat
    BY NewestIsChild DEF Types, Children
  <1>1. CASE \E g \in Children : ChildStep(g) \/ Fault(g)
    <2>1. PICK g \in Children : ChildStep(g) \/ Fault(g)
      BY <1>1
    <2>2. Others(g) /\ child[g].state # "unborn" /\ child[g].state # "dead"
      BY <2>1, ChildKeepsTypes
    <2>3. ~late /\ N' = N /\ Forgotten' = Forgotten
      BY <2>1, ChildFrame DEF ThreadVars, proxy, health, ends, N, Forgotten
    <2>4. ~(g < N) /\ ~(g > N)
      BY <2>2, <2>3 DEF NewestInv, Future, Unborn, DeathsInv
    <2>5. g = N
      BY <1>0, <2>4
    <2>6. ~Forgotten
      BY <2>2, <2>3, <2>5 DEF DeathsInv
    <2>7. \A h \in Children : h < N => child'[h].state = "dead"
      BY <1>0, <2>2, <2>3, <2>5 DEF DeathsInv, Others
    <2>. QED BY <2>3, <2>6, <2>7
  <1>2. CASE StartChild
    <2>1. restarts < MaxRestarts
      BY <1>2 DEF StartChild, NewestInv, Held, Restarting
    <2>2. Others(N + 1) /\ N' = N + 1
      BY <1>2, <2>1, StartingChild DEF Types
    <2>3. ~late /\ main = "running" /\ worker = "starting"
      BY <1>2 DEF StartChild
    <2>4. \A h \in Children : h < N + 1 => child[h].state = "dead"
      <3>1. \A h \in Children : h < N + 1 => h < N \/ h = N
        BY <1>0
      <3>2. child[N].state = "dead" /\ \A h \in Children : h < N => child[h].state = "dead"
        BY <2>3 DEF DeathsInv, Forgotten
      <3>. QED BY <3>1, <3>2
    <2>5. \A h \in Children : h < N + 1 => child'[h].state = "dead"
      BY <1>0, <2>2, <2>4 DEF Others
    <2>6. ~Forgotten'
      <3>1. proc' = restarts + 2 /\ worker' = "awaiting" /\ main' = "running"
            /\ watchdog' = watchdog
        BY <1>2, <2>3 DEF StartChild, health, ends
      <3>2. watchdog # "reaping"
        BY <2>3 DEF LockInv, Restarting
      <3>3. restarts + 2 # None
        BY Bounds DEF Types, ThreadTypes
      <3>. QED BY <3>1, <3>2, <3>3 DEF Forgotten
    <2>. QED BY <2>2, <2>5, <2>6
  <1>3. CASE ~StartChild /\ ~\E g \in Children : ChildStep(g) \/ Fault(g)
    <2>1. Pipework
      BY <1>3, Pipes DEF Types
    <2>2. N' = N /\ ~late
      BY <1>3, RestartsStay DEF N
    <2>3. \A h \in Children : child[h].state = "dead" => child'[h].state = "dead"
      BY <2>1 DEF Pipework, Wrote, Took, Ended, Others, pipes
    <2>4. Forgotten' => child'[N].state = "dead"
      BY <1>0, <1>3, <2>2, <2>3, ForgetsTheDead DEF DeathsInv
    <2>. QED BY <2>2, <2>3, <2>4 DEF DeathsInv
  <1>. QED BY <1>1, <1>2, <1>3

\* A child is started late only when the main thread has begun to close.
LEMMA LateKept ==
  ASSUME LateInv, Next
  PROVE  LateInv'
  <1>1. CASE Begin
    BY <1>1 DEF Begin, Flush, pipes, pool, ends, history, Types, ThreadTypes,
        LateInv
  <1>2. CASE Check
    BY <1>2 DEF Check, Caught, proxy, health, pipes, pool, ends, history,
        LateInv
  <1>3. CASE Reserve
    BY <1>3 DEF Reserve, health, pipes, ends, history, Types, ThreadTypes,
        LateInv
  <1>4. CASE ReserveFails
    BY <1>4 DEF ReserveFails, Escape, GiveBack, Release, NodeFails, pipes,
        history, LateInv
  <1>5. CASE Send
    BY <1>5 DEF Send, proxy, health, pool, ends, history, Types, ThreadTypes,
        LateInv
  <1>6. CASE Listen
    BY <1>6 DEF Listen, health, pipes, pool, ends, history, Types,
        ThreadTypes, LateInv
  <1>7. CASE PipeBroken
    BY <1>7 DEF PipeBroken, Caught, proxy, health, pipes, pool, ends,
        history, LateInv
  <1>8. CASE ConnectionGone
    BY <1>8 DEF ConnectionGone, Escape, GiveBack, Release, NodeFails, pipes,
        history, LateInv
  <1>9. CASE ReceiveError
    BY <1>9 DEF ReceiveError, Answered, TakeAnswer, Caught, Reply, proxy,
        health, pool, ends, history, LateInv
  <1>10. CASE ReceiveAnswer
    BY <1>10 DEF ReceiveAnswer, Answered, TakeAnswer, Deliver, Release,
        Reply, pool, ends, LateInv
  <1>11. CASE Acknowledge
    BY <1>11 DEF Acknowledge, Deliver, Release, ends, history, Types,
        ThreadTypes, LateInv
  <1>12. CASE Skip
    BY <1>12 DEF Skip, ReturnNothing, GiveBack, Release, Flush, health,
        pipes, ends, history, LateInv
  <1>13. CASE Recover
    BY <1>13 DEF Recover, health, pipes, pool, ends, history, Types,
        ThreadTypes, LateInv
  <1>14. CASE GiveUp
    BY <1>14 DEF GiveUp, GiveBack, Release, NodeFails, pipes, history, Types,
        ThreadTypes, LateInv
  <1>15. CASE WorkerCloses
    BY <1>15 DEF WorkerCloses, health, pipes, pool, ends, history, Types,
        ThreadTypes, LateInv
  <1>16. CASE WorkerKills
    BY <1>16 DEF WorkerKills, EndProcess, proxy, health, pool, ends, history,
        LateInv
  <1>17. CASE WorkerReaps
    BY <1>17 DEF WorkerReaps, GiveBack, Release, NodeFails, history, pipes,
        pool, LateInv
  <1>18. CASE StartChild
    BY <1>18 DEF StartChild, health, pool, ends, LateInv
  <1>19. CASE ChildIsReady
    BY <1>19 DEF ChildIsReady, AwaitsChild, Newborn, TakeAnswer, GiveBack,
        Release, pool, ends, history, LateInv
  <1>20. CASE StartFails
    BY <1>20 DEF StartFails, AwaitsChild, Newborn, GiveBack, Release,
        NodeFails, pipes, history, LateInv
  <1>21. CASE DecodeFails
    BY <1>21 DEF DecodeFails, Answered, TakeAnswer, Reply, Escape, Caught,
        GiveBack, Release, NodeFails, pool, LateInv
  <1>22. CASE StartTimesOut
    BY <1>22 DEF StartTimesOut, AwaitsChild, Newborn, EndProcess, GiveBack,
        Release, NodeFails, LateInv
  <1>23. CASE WatchdogFires
    BY <1>23 DEF WatchdogFires, proxy, pipes, pool, ends, Types, ThreadTypes,
        LateInv
  <1>24. CASE Interrupt
    BY <1>24 DEF Interrupt, pipes, pool, ends, history, Types, ThreadTypes,
        LateInv
  <1>25. CASE WatchdogKills
    BY <1>25 DEF WatchdogKills, EndProcess, pool, ends, history, Types,
        ThreadTypes, LateInv
  <1>26. CASE WatchdogReaps
    BY <1>26 DEF WatchdogReaps, pipes, pool, ends, history, Types,
        ThreadTypes, LateInv
  <1>27. CASE RequestStop
    BY <1>27 DEF RequestStop, proxy, health, pipes, pool, history, Types,
        ThreadTypes, LateInv
  <1>28. CASE MainCloses
    BY <1>28 DEF MainCloses, proxy, health, pool, history, Types,
        ThreadTypes, LateInv
  <1>29. CASE MainPolls
    BY <1>29 DEF MainPolls, TakeAnswer, proxy, health, pool, history, Types,
        ThreadTypes, LateInv
  <1>30. CASE MainClosesPipe
    BY <1>30 DEF MainClosesPipe, health, pipes, pool, history, Types,
        ThreadTypes, LateInv
  <1>31. CASE MainKills
    BY <1>31 DEF MainKills, EndProcess, proxy, health, pool, history, Types,
        ThreadTypes, LateInv
  <1>32. CASE MainReaps
    BY <1>32 DEF MainReaps, health, pipes, pool, history, Types, ThreadTypes,
        LateInv
  <1>33. CASE MainBreaks
    BY <1>33 DEF MainBreaks, proxy, health, pipes, pool, history, Types,
        ThreadTypes, LateInv
  <1>34. CASE ClosePool
    BY <1>34 DEF ClosePool, proxy, health, pipes, history, Types,
        ThreadTypes, LateInv
  <1>35. CASE Consume
    BY <1>35 DEF Consume, Release, proxy, health, pipes, ends, history,
        LateInv
  <1>36. CASE ConsumersLeave
    BY <1>36 DEF ConsumersLeave, proxy, health, pipes, ends, history, Types,
        ThreadTypes, LateInv
  <1>37. ASSUME NEW g \in Children, ChildStep(g) \/ Fault(g)
       PROVE  LateInv'
    BY <1>37, ChildFrame DEF ThreadVars, ends, LateInv
  <1>. QED
    BY <1>1, <1>2, <1>3, <1>4, <1>5, <1>6, <1>7, <1>8, <1>9, <1>10, <1>11,
        <1>12, <1>13, <1>14, <1>15, <1>16, <1>17, <1>18, <1>19, <1>20, <1>21,
        <1>22, <1>23, <1>24, <1>25, <1>26, <1>27, <1>28, <1>29, <1>30, <1>31,
        <1>32, <1>33, <1>34, <1>35, <1>36, <1>37 DEF Next, WorkerStep,
        WatchdogStep, MainStep

(***************************************************************************)
(* The exchange, while the main thread leaves the connection alone.        *)
(***************************************************************************)

\* What is put at the end of a pipe.
LEMMA Putting ==
  ASSUME NEW S, NEW s \in Seq(S), NEW e \in S
  PROVE  /\ Len(Append(s, e)) = Len(s) + 1 /\ Append(s, e) \in Seq(S)
         /\ Append(s, e)[Len(s) + 1] = e /\ Append(s, e) # <<>>
         /\ \A i \in 1..Len(s) : Append(s, e)[i] = s[i]
         /\ Len(s) \in Nat /\ (s = <<>> <=> Len(s) = 0)
  OBVIOUS

LEMMA PipesAreSequences ==
  ASSUME PipeTypes, NEW g \in Children
  PROVE  /\ requests[g] \in Seq(Questions) /\ replies[g] \in Seq(Answers)
         /\ Len(requests[g]) \in Nat /\ (requests[g] = <<>> <=> Len(requests[g]) = 0)
         /\ Len(replies[g]) \in Nat /\ (replies[g] = <<>> <=> Len(replies[g]) = 0)
  <1>1. requests[g] \in Seq(Questions) /\ replies[g] \in Seq(Answers)
    BY DEF PipeTypes
  <1>. QED BY <1>1

\* The shapes depend on the pipes of the newest child, and two on the call.
LEMMA ShapesStay ==
  ASSUME UNCHANGED <<pipes, restarts>>
  PROVE  /\ Quiet' <=> Quiet
         /\ AckAwaited' <=> AckAwaited
         /\ Opening' <=> Opening
         /\ call' = call => (Asking' <=> Asking) /\ (HasAnswer' <=> HasAnswer)
         /\ Lengths => Lengths'
         /\ Lengths => Lengths'
  <1>1. N' = N /\ child' = child /\ requests' = requests /\ replies' = replies
    BY DEF N, pipes
  <1>2. Quiet' <=> Quiet
    BY <1>1 DEF Quiet
  <1>3. AckAwaited' <=> AckAwaited
    BY <1>1 DEF AckAwaited
  <1>4. Opening' <=> Opening
    BY <1>1 DEF Opening
  <1>5. call' = call => (Asking' <=> Asking)
    BY <1>1 DEF Asking, Asks
  <1>6. call' = call => (HasAnswer' <=> HasAnswer)
    BY <1>1 DEF HasAnswer
  <1>7. Lengths => Lengths'
    BY <1>1 DEF Lengths
  <1>. QED BY <1>2, <1>3, <1>4, <1>5, <1>6, <1>7

\* They hold of a child that has died.
LEMMA ShapesOfTheDead ==
  ASSUME N' = N, child'[N].state = "dead", UNCHANGED <<requests, replies>>
  PROVE  /\ Quiet => Quiet'
         /\ AckAwaited => AckAwaited'
         /\ Opening => Opening'
         /\ Asking => Asking'
         /\ call' = call /\ HasAnswer => HasAnswer'
  <1>1. Quiet => Quiet'
    BY DEF Quiet
  <1>2. AckAwaited => AckAwaited'
    BY DEF AckAwaited
  <1>3. Opening => Opening'
    BY DEF Opening
  <1>4. Asking => Asking'
    BY DEF Asking
  <1>5. call' = call /\ HasAnswer => HasAnswer'
    BY DEF HasAnswer
  <1>. QED BY <1>1, <1>2, <1>3, <1>4, <1>5

\* Who finds its child dead and nothing to read expects nothing.
LEMMA QuietOfTheDead ==
  ASSUME ~Alive(N), Future, replies[N] = <<>>
  PROVE  Quiet
  BY DEF Alive, Future, Quiet

\* Steps that leave the pipes alone.
Still ==
    \/ Begin \/ Check \/ Reserve \/ ReserveFails \/ Listen
    \/ PipeBroken \/ ConnectionGone \/ Skip \/ Recover
    \/ GiveUp \/ WorkerCloses \/ WorkerReaps \/ StartFails
    \/ WatchdogFires \/ Interrupt \/ WatchdogReaps
    \/ RequestStop \/ Consume \/ ConsumersLeave
LEMMA StillSteps ==
  ASSUME Still PROVE UNCHANGED <<pipes, restarts>>
  BY DEF Still, Begin, Flush, pipes, pool, ends, history, Check, Caught, proxy,
      health, Reserve, ReserveFails, Escape, GiveBack, Release,
      NodeFails, Listen, PipeBroken, ConnectionGone, Skip, ReturnNothing,
      Recover, GiveUp, WorkerCloses, WorkerReaps, StartFails,
      AwaitsChild, Newborn, WatchdogFires, Interrupt, WatchdogReaps,
      RequestStop, Consume, ConsumersLeave
LEMMA ProtocolStill ==
  ASSUME Types, NewestInv, PoolInv, LateInv, DeathsInv, Protocol, main = "running", Still
  PROVE  Protocol'
  <1>0. /\ N' = N /\ N # None
        /\ Quiet' <=> Quiet
        /\ AckAwaited' <=> AckAwaited
        /\ Opening' <=> Opening
        /\ call' = call => (Asking' <=> Asking) /\ (HasAnswer' <=> HasAnswer)
        /\ Lengths'
    <2>1. UNCHANGED <<pipes, restarts>>
      BY StillSteps
    <2>2. N' = N
      BY <2>1 DEF N
    <2>3. N # None
      BY NewestIsChild DEF Types
    <2>. QED BY <2>1, <2>2, <2>3, ShapesStay DEF Protocol
  <1>1. CASE Begin
    BY <1>1, <1>0 DEF Begin, Flush, pipes, pool, ends, history, Protocol,
        Resting, Waiting, Acking, Greeted, NewestInv, Held, Restarting
  <1>2. CASE Check
    BY <1>2, <1>0 DEF Check, Caught, proxy, health, pipes, pool, ends,
        history, Protocol, Resting, Waiting, Acking, Greeted, NewestInv,
        Held, Restarting
  <1>3. CASE Reserve
    BY <1>3, <1>0 DEF Reserve, health, pipes, ends, history, Protocol,
        Resting, Waiting, Acking, Greeted, NewestInv, Held, Restarting
  <1>4. CASE ReserveFails
    BY <1>4, <1>0 DEF ReserveFails, Escape, GiveBack, Release, NodeFails,
        pipes, history, Protocol, Resting, Waiting, Acking, Greeted,
        NewestInv, Held, Restarting
  <1>5. CASE Listen
    BY <1>5, <1>0 DEF Listen, health, pipes, pool, ends, history, Protocol,
        Resting, Waiting, Acking, Greeted, NewestInv, Held, Restarting
  <1>6. CASE PipeBroken
    <2>1. CASE worker = "receiving" /\ ~Alive(reading) /\ replies[reading] = <<>>
      <3>1. Quiet
        BY <2>1, QuietOfTheDead DEF NewestInv, Held
      <3>. QED BY <1>6, <1>0, <2>1, <3>1 DEF PipeBroken, Caught, Protocol, Resting, Waiting,
                  Acking, Greeted, proxy, pipes
    <2>2. CASE worker = "acking" /\ conn = N /\ ~PipeUp
      <3>1. ~Alive(N) /\ replies[N] = <<>>
        BY <1>0, <2>2 DEF PipeUp, Protocol, Acking, AckAwaited
      <3>2. Quiet
        BY <3>1, QuietOfTheDead DEF NewestInv
      <3>. QED BY <1>6, <1>0, <2>2, <3>2 DEF PipeBroken, Caught, Protocol, Resting, Waiting,
                  Acking, Greeted, proxy, pipes
    <2>3. CASE ~(worker = "receiving" /\ ~Alive(reading) /\ replies[reading] = <<>>)
               /\ ~(worker = "acking" /\ conn = N /\ ~PipeUp)
      BY <1>6, <1>0, <2>3 DEF PipeBroken, Caught, Protocol, Resting, Waiting, Acking,
         Greeted, proxy, pipes, NewestInv, Held
    <2>. QED BY <2>1, <2>2, <2>3
  <1>7. CASE ConnectionGone
    BY <1>7, <1>0 DEF ConnectionGone, Escape, GiveBack, Release, NodeFails,
        pipes, history, Protocol, Resting, Waiting, Acking, Greeted,
        NewestInv, Held, Restarting
  <1>8. CASE Skip
    BY <1>8, <1>0 DEF Skip, ReturnNothing, GiveBack, Release, Flush, health,
        pipes, ends, history, Protocol, Resting, Waiting, Acking, Greeted,
        NewestInv, Held, Restarting
  <1>9. CASE Recover
    BY <1>9, <1>0 DEF Recover, health, pipes, pool, ends, history, Protocol,
        Resting, Waiting, Acking, Greeted, NewestInv, Held, Restarting
  <1>10. CASE GiveUp
    BY <1>10, <1>0 DEF GiveUp, GiveBack, Release, NodeFails, pipes, history,
        Protocol, Resting, Waiting, Acking, Greeted, NewestInv, Held,
        Restarting
  <1>11. CASE WorkerCloses
    BY <1>11, <1>0 DEF WorkerCloses, health, pipes, pool, ends, history,
        Protocol, Resting, Waiting, Acking, Greeted, NewestInv, Held,
        Restarting
  <1>12. CASE WorkerReaps
    BY <1>12, <1>0 DEF WorkerReaps, GiveBack, Release, NodeFails, history,
        pipes, pool, Protocol, Resting, Waiting, Acking, Greeted, NewestInv,
        Held, Restarting
  <1>13. CASE StartFails
    <2>1. CASE conn = N
      <3>1. ~Alive(N) /\ replies[N] = <<>>
        BY <1>13, <2>1 DEF StartFails, Newborn, N
      <3>2. Quiet
        BY <3>1, QuietOfTheDead DEF NewestInv
      <3>. QED BY <1>13, <1>0, <2>1, <3>2 DEF StartFails, GiveBack, NodeFails, Protocol,
                  Resting, Waiting, Acking, Greeted, pipes
    <2>2. CASE conn # N
      BY <1>13, <1>0, <2>2 DEF StartFails, GiveBack, NodeFails, Protocol, Resting, Waiting,
         Acking, Greeted, pipes
    <2>. QED BY <2>1, <2>2
  <1>14. CASE WatchdogFires
    BY <1>14, <1>0 DEF WatchdogFires, proxy, pipes, pool, ends, Protocol,
        Resting, Waiting, Acking, Greeted, NewestInv, Held, Restarting
  <1>15. CASE Interrupt
    BY <1>15, <1>0 DEF Interrupt, pipes, pool, ends, history, Protocol,
        Resting, Waiting, Acking, Greeted, NewestInv, Held, Restarting
  <1>16. CASE WatchdogReaps
    BY <1>16, <1>0 DEF WatchdogReaps, pipes, pool, ends, history, Protocol,
        Resting, Waiting, Acking, Greeted, NewestInv, Held, Restarting
  <1>17. CASE RequestStop
    BY <1>17, <1>0 DEF RequestStop, proxy, health, pipes, pool, history,
        Protocol, Resting, Waiting, Acking, Greeted, NewestInv, Held,
        Restarting
  <1>18. CASE Consume
    BY <1>18, <1>0 DEF Consume, Release, proxy, health, pipes, ends, history,
        Protocol, Resting, Waiting, Acking, Greeted, NewestInv, Held,
        Restarting
  <1>19. CASE ConsumersLeave
    BY <1>19, <1>0 DEF ConsumersLeave, proxy, health, pipes, ends, history,
        Protocol, Resting, Waiting, Acking, Greeted, NewestInv, Held,
        Restarting
  <1>. QED
    BY <1>1, <1>2, <1>3, <1>4, <1>5, <1>6, <1>7, <1>8, <1>9, <1>10, <1>11,
        <1>12, <1>13, <1>14, <1>15, <1>16, <1>17, <1>18, <1>19 DEF Still

\* What is left of a pipe that held one thing.
LEMMA LastTaken ==
  ASSUME NEW S, NEW s \in Seq(S), Len(s) = 1
  PROVE  Tail(s) = <<>> /\ Head(s) = s[1]
  <1>1. Tail(s) \in Seq(S) /\ Len(Tail(s)) = 0 /\ Head(s) = s[1]
    BY Taking
  <1>. QED BY <1>1, EmptySeq

LEMMA LengthsMove ==
  ASSUME Types, Lengths, Others(N),
         \/ \E q \in Questions : Wrote(q) /\ Len(requests[N]) <= 1
         \/ Took
         \/ Ended
  PROVE  Lengths'
  <1>1. N \in Children /\ PipeTypes
    BY NewestIsChild DEF Types
  <1>2. Len(requests'[N]) <= 2 /\ Len(replies'[N]) <= 1
    <2>1. CASE \E q \in Questions : Wrote(q) /\ Len(requests[N]) <= 1
      <3>1. PICK q \in Questions : Wrote(q) /\ Len(requests[N]) <= 1
        BY <2>1
      <3>2. Len(Append(requests[N], q)) = Len(requests[N]) + 1 /\ Len(requests[N]) \in Nat
        BY <1>1, PipesAreSequences, Putting
      <3>. QED BY <1>1, <3>1, <3>2 DEF Wrote, Lengths
    <2>2. CASE Took
      <3>1. Len(Tail(replies[N])) = Len(replies[N]) - 1 /\ Len(replies[N]) \in Nat
        BY <1>1, <2>2, PipesAreSequences, Taking DEF Took
      <3>. QED BY <1>1, <2>2, <3>1 DEF Took, Lengths
    <2>3. CASE Ended
      BY <1>1, <2>3 DEF Ended, Lengths
    <2>. QED BY <2>1, <2>2, <2>3
  <1>3. \A h \in Children \ {N} : Len(requests'[h]) <= 2 /\ Len(replies'[h]) <= 1
    BY DEF Others, Lengths
  <1>. QED BY <1>2, <1>3 DEF Lengths

\* What asking, answering and acknowledging make of the shapes.
LEMMA QuietThenAsking ==
  ASSUME PipeTypes, N \in Children, N' = N, call' = call, Alive(N), Quiet,
         NEW q \in Questions, q.op = "call", q.call = call, Wrote(q)
  PROVE  Asking' /\ Len(requests[N]) <= 1
  <1>1. /\ requests[N] \in Seq(Questions) /\ replies' = replies /\ child' = child
        /\ requests'[N] = Append(requests[N], q)
    BY DEF PipeTypes, Wrote
  <1>2. child[N].state # "dead" /\ replies[N] = <<>>
    BY DEF Alive, Quiet
  <1>3. CASE requests[N] = <<>> /\ child[N].state \in {"idle", "acking"}
    <2>1. Len(requests'[N]) = 1 /\ requests'[N][1] = q /\ Len(requests[N]) = 0
      BY <1>1, <1>3
    <2>. QED BY <1>1, <1>2, <1>3, <2>1 DEF Asking, Asks
  <1>4. CASE /\ Len(requests[N]) = 1 /\ requests[N][1].op = "ack"
             /\ child[N].state = "acking"
    <2>1. Len(requests'[N]) = 2 /\ requests'[N][2] = q
             /\ requests'[N][1] = requests[N][1]
      BY <1>1, <1>4
    <2>. QED BY <1>1, <1>2, <1>4, <2>1 DEF Asking, Asks
  <1>. QED BY <1>2, <1>3, <1>4 DEF Quiet

LEMMA AcknowledgedIsQuiet ==
  ASSUME PipeTypes, N \in Children, N' = N, Alive(N), AckAwaited,
         NEW q \in Questions, q.op = "ack", Wrote(q)
  PROVE  Quiet' /\ requests[N] = <<>>
  <1>1. /\ requests[N] = <<>> /\ replies' = replies /\ child' = child
        /\ requests'[N] = Append(requests[N], q)
        /\ child[N].state = "acking" /\ replies[N] = <<>>
    BY DEF Wrote, Alive, AckAwaited
  <1>2. Len(requests'[N]) = 1 /\ requests'[N][1] = q
    BY <1>1
  <1>. QED BY <1>1, <1>2 DEF Quiet

LEMMA AnswerTaken ==
  ASSUME PipeTypes, N \in Children, N' = N, HasAnswer, Took
  PROVE  /\ Quiet'
         /\ replies[N][1].ack => AckAwaited'
         /\ replies[N][1] = Head(replies[N])
         /\ requests'[N] = <<>> /\ child' = child
         /\ replies'[N] = <<>>
  <1>1. /\ replies[N] \in Seq(Answers) /\ Len(replies[N]) = 1
        /\ replies'[N] = Tail(replies[N])
        /\ requests[N] = <<>> /\ child' = child /\ requests' = requests
    BY DEF PipeTypes, HasAnswer, Took
  <1>2. replies'[N] = <<>> /\ replies[N][1] = Head(replies[N])
    BY <1>1, LastTaken
  <1>3. child[N].state \in {"dead", IF replies[N][1].ack THEN "acking" ELSE "idle"}
    BY DEF HasAnswer
  <1>4. Quiet'
    BY <1>1, <1>2, <1>3 DEF Quiet
  <1>5. replies[N][1].ack => AckAwaited'
    BY <1>1, <1>2, <1>3 DEF AckAwaited
  <1>. QED BY <1>1, <1>2, <1>4, <1>5

LEMMA GreetingTaken ==
  ASSUME PipeTypes, N \in Children, N' = N, Opening, Took
  PROVE  Quiet' /\ replies'[N] = <<>> /\ child' = child /\ requests'[N] = <<>>
         /\ child[N].state \in {"idle", "dead"}
  <1>1. /\ replies[N] \in Seq(Answers) /\ Len(replies[N]) = 1
        /\ replies'[N] = Tail(replies[N])
        /\ requests[N] = <<>> /\ child' = child /\ requests' = requests
        /\ child[N].state \in {"idle", "dead"}
    BY DEF PipeTypes, Opening, Took
  <1>2. replies'[N] = <<>>
    BY <1>1, LastTaken
  <1>. QED BY <1>1, <1>2 DEF Quiet

\* What a worker that is answered finds.
LEMMA AnsweredShape ==
  ASSUME Types, NewestInv, Protocol, Answered
  PROVE  HasAnswer /\ conn = N /\ replies[N] # <<>> /\ N \in Children /\ N # None
  <1>1. N \in Children /\ N # None
    BY NewestIsChild DEF Types
  <1>2. conn = N /\ replies[N] # <<>> /\ worker = "receiving"
    BY <1>1 DEF Answered, NewestInv, Held
  <1>3. Asking \/ HasAnswer
    BY <1>2 DEF Protocol, Waiting
  <1>4. ~Asking
    BY <1>2 DEF Asking
  <1>. QED BY <1>1, <1>2, <1>3, <1>4

\* Each step that moves the pipes, in terms of what it moves.
LEMMA SendAsks ==
  ASSUME Types, NewestInv, Send
  PROVE  /\ Wrote([op |-> "call", call |-> call, slot |-> slot]) /\ Others(N)
         /\ [op |-> "call", call |-> call, slot |-> slot] \in Questions
         /\ conn = N /\ N' = N /\ N \in Children /\ Alive(N)
         /\ PipeTypes /\ call' = call
  <1>1. /\ N \in Children /\ N' = N /\ PipeTypes /\ call' = call
        /\ conn = N /\ Alive(N)
    BY NewestIsChild DEF Types, Send, N, proxy, PipeUp, NewestInv, Held
  <1>2. [op |-> "call", call |-> call, slot |-> slot] \in Questions
    BY DEF Types, ThreadTypes, Questions
  <1>. QED BY <1>1, <1>2, Writing DEF Send

LEMMA AcknowledgeAsks ==
  ASSUME Types, NewestInv, Acknowledge
  PROVE  /\ Wrote([op |-> "ack", call |-> call, slot |-> None]) /\ Others(N)
         /\ [op |-> "ack", call |-> call, slot |-> None] \in Questions
         /\ conn = N /\ N' = N /\ N \in Children /\ Alive(N) /\ PipeTypes
  <1>1. /\ N \in Children /\ N' = N /\ PipeTypes /\ conn = N /\ Alive(N)
    BY NewestIsChild DEF Types, Acknowledge, N, PipeUp, NewestInv, Held
  <1>2. [op |-> "ack", call |-> call, slot |-> None] \in Questions
    BY DEF Types, ThreadTypes, Questions
  <1>. QED BY <1>1, <1>2, Writing DEF Acknowledge

LEMMA ReceiveTakes ==
  ASSUME Types, NewestInv, Protocol, ReceiveError \/ ReceiveAnswer \/ DecodeFails
  PROVE  /\ Took /\ Others(N) /\ N' = N /\ N \in Children /\ conn = N /\ conn' = N
         /\ HasAnswer /\ PipeTypes /\ worker = "receiving" /\ call' = call
         /\ N # None
  <1>1. Answered /\ TakeAnswer /\ UNCHANGED <<child, requests, restarts, conn, call>>
    BY DEF ReceiveError, ReceiveAnswer, DecodeFails, proxy
  <1>2. N' = N /\ worker = "receiving" /\ PipeTypes /\ UNCHANGED <<conn, call>>
    BY <1>1 DEF N, Answered, Types
  <1>. QED BY <1>1, <1>2, AnsweredShape, TakingAnswer

LEMMA ReadyTakes ==
  ASSUME Types, NewestInv, Protocol, ChildIsReady
  PROVE  /\ Took /\ Others(N) /\ N' = N /\ N \in Children /\ conn = N /\ conn' = N
         /\ Opening /\ PipeTypes /\ N # None
  <1>1. /\ N \in Children /\ N # None /\ N' = N /\ PipeTypes /\ conn = N /\ conn' = N
        /\ replies[N] # <<>> /\ worker \in {"opening", "awaiting"}
        /\ TakeAnswer /\ UNCHANGED <<child, requests>>
    BY NewestIsChild DEF ChildIsReady, AwaitsChild, Newborn, N, Types
  <1>2. Opening
    BY <1>1 DEF Protocol, Greeted
  <1>. QED BY <1>1, <1>2, TakingAnswer

LEMMA KillsEnd ==
  ASSUME Types, NewestInv, WorkerKills \/ WatchdogKills \/ StartTimesOut
  PROVE  /\ N' = N /\ N \in Children /\ N # None /\ call' = call
         /\ UNCHANGED pipes \/ (Ended /\ Others(N))
  <1>1. N' = N /\ N \in Children /\ N # None /\ PipeTypes /\ call' = call
    BY NewestIsChild DEF WorkerKills, WatchdogKills, StartTimesOut, N, Types, proxy
  <1>2. proc \in {None, N}
    BY DEF NewestInv, Held
  <1>3. CASE WorkerKills \/ WatchdogKills
    <2>1. CASE proc = None
      <3>1. WorkerKills => UNCHANGED pipes
        BY <2>1 DEF WorkerKills, pipes
      <3>2. WatchdogKills => UNCHANGED pipes
        BY <2>1 DEF WatchdogKills, pipes
      <3>. QED BY <1>1, <1>3, <3>1, <3>2
    <2>2. CASE proc # None
      BY <1>1, <1>2, <1>3, <2>2, EndingProcess DEF WorkerKills, WatchdogKills
    <2>. QED BY <1>1, <2>1, <2>2
  <1>4. CASE StartTimesOut
    <2>1. proc = N
      BY <1>4 DEF StartTimesOut, Newborn, N
    <2>. QED BY <1>1, <1>4, <2>1, EndingProcess DEF StartTimesOut
  <1>. QED BY <1>3, <1>4

\* Steps that move the pipes.
LEMMA ProtocolMoves ==
  ASSUME Types, NewestInv, LockInv, Protocol,
         \/ Send \/ ReceiveError \/ ReceiveAnswer \/ DecodeFails \/ Acknowledge
         \/ ChildIsReady \/ WorkerKills \/ WatchdogKills \/ StartTimesOut \/ StartChild
  PROVE  Protocol'
  <1>1. CASE Send
    <2>1. Quiet
      BY <1>1, SendAsks DEF Send, Protocol, Resting
    <2>2. Asking' /\ Len(requests[N]) <= 1
      BY <1>1, <2>1, SendAsks, QuietThenAsking
    <2>3. Lengths'
      BY <1>1, <2>2, SendAsks, LengthsMove DEF Protocol
    <2>4. worker' = "sent"
      BY <1>1 DEF Send
    <2>. QED BY <2>2, <2>3, <2>4 DEF Protocol, Resting, Waiting, Acking, Greeted
  <1>2. CASE ReceiveError \/ ReceiveAnswer \/ DecodeFails
    <2>1. Lengths'
      BY <1>2, ReceiveTakes, LengthsMove DEF Protocol
    <2>2. /\ Quiet' /\ Reply = replies[N][1]
          /\ replies[N][1].ack => AckAwaited'
      BY <1>2, ReceiveTakes, AnswerTaken DEF Reply
    <2>3. CASE ReceiveError
      BY <2>1, <2>2, <2>3 DEF ReceiveError, Caught, Protocol, Resting, Waiting, Acking,
         Greeted
    <2>4. CASE ReceiveAnswer
      BY <2>1, <2>2, <2>4 DEF ReceiveAnswer, Deliver, Protocol, Resting, Waiting, Acking,
         Greeted
    <2>5. CASE DecodeFails
      BY <2>1, <2>2, <2>5 DEF DecodeFails, Escape, NodeFails, Caught, Protocol, Resting,
         Waiting, Acking, Greeted
    <2>. QED BY <1>2, <2>3, <2>4, <2>5
  <1>3. CASE Acknowledge
    <2>1. AckAwaited
      BY <1>3, AcknowledgeAsks DEF Acknowledge, Protocol, Acking
    <2>2. Quiet' /\ requests[N] = <<>>
      BY <1>3, <2>1, AcknowledgeAsks, AcknowledgedIsQuiet
    <2>3. Lengths'
      BY <1>3, <2>2, AcknowledgeAsks, LengthsMove DEF Protocol
    <2>. QED BY <1>3, <2>2, <2>3 DEF Acknowledge, Deliver, Protocol, Resting, Waiting,
         Acking, Greeted
  <1>4. CASE ChildIsReady
    <2>1. Quiet'
      BY <1>4, ReadyTakes, GreetingTaken
    <2>2. Lengths'
      BY <1>4, ReadyTakes, LengthsMove DEF Protocol
    <2>. QED BY <1>4, <2>1, <2>2 DEF ChildIsReady, Protocol, Resting, Waiting, Acking,
         Greeted
  <1>5. CASE WorkerKills \/ WatchdogKills \/ StartTimesOut
    <2>0. N' = N /\ call' = call /\ N # None
      BY <1>5, KillsEnd
    <2>1. /\ Lengths' /\ (Quiet => Quiet') /\ (Asking => Asking')
          /\ (HasAnswer => HasAnswer') /\ (AckAwaited => AckAwaited')
          /\ (Opening => Opening')
      <3>1. CASE UNCHANGED pipes
        <4>1. UNCHANGED restarts
          BY <1>5 DEF WorkerKills, WatchdogKills, StartTimesOut, proxy
        <4>. QED BY <2>0, <3>1, <4>1, ShapesStay DEF Protocol
      <3>2. CASE Ended /\ Others(N)
        BY <2>0, <3>2, ShapesOfTheDead, LengthsMove DEF Protocol, Ended
      <3>. QED BY <1>5, <3>1, <3>2, KillsEnd
    <2>2. CASE WorkerKills
      BY <2>0, <2>1, <2>2 DEF WorkerKills, Protocol, Resting, Waiting, Acking, Greeted
    <2>3. CASE WatchdogKills
      BY <2>0, <2>1, <2>3 DEF WatchdogKills, Protocol, Resting, Waiting, Acking, Greeted
    <2>4. CASE StartTimesOut
      BY <2>0, <2>1, <2>4 DEF StartTimesOut, NodeFails, Protocol, Resting, Waiting,
         Acking, Greeted
    <2>. QED BY <1>5, <2>2, <2>3, <2>4
  <1>6. CASE StartChild
    <2>1. restarts < MaxRestarts
      BY <1>6 DEF StartChild, NewestInv, Held, Restarting
    <2>2. /\ Others(N + 1) /\ N + 1 \in Children /\ N' = N + 1 /\ N \in Nat
          /\ child'[N + 1].state = "starting"
          /\ UNCHANGED <<requests, replies>>
      BY <1>6, <2>1, NewestIsChild, StartingChild DEF Types, PipeTypes
    <2>3. requests[N + 1] = <<>> /\ replies[N + 1] = <<>>
      BY <2>2 DEF NewestInv, Future
    <2>4. Opening' /\ Lengths'
      BY <2>2, <2>3 DEF Opening, Protocol, Lengths
    <2>. QED BY <1>6, <2>4 DEF StartChild, Protocol, Resting, Waiting, Acking, Greeted
  <1>. QED BY <1>1, <1>2, <1>3, <1>4, <1>5, <1>6

(***************************************************************************)
(* What each step of a child does to its pipe.                             *)
(***************************************************************************)
Same(g) == /\ requests'[g] = requests[g] /\ replies'[g] = replies[g]
           /\ child'[g].call = child[g].call /\ child'[g].slot = child[g].slot
Hears(g) == requests[g] # <<>> /\ requests'[g] = Tail(requests[g])

Greets(g) ==
    /\ child[g].state = "starting" /\ requests'[g] = requests[g]
    /\ \E r \in Answers : Told(g, r, "idle") /\ r.kind = "ready"
Takes(g) ==
    /\ child[g].state = "idle" /\ Hears(g) /\ requests[g][1].op = "call"
    /\ child'[g].state = "working" /\ replies'[g] = replies[g]
    /\ child'[g].call = requests[g][1].call /\ child'[g].slot = requests[g][1].slot
Parts(g) ==
    /\ child[g].state = "idle" /\ Hears(g) /\ requests[g][1].op = "close"
    /\ \E r \in Answers : Told(g, r, "dead")
Objects(g) ==
    /\ \/ child[g].state = "idle" /\ requests[g][1].op = "ack"
       \/ child[g].state = "acking" /\ requests[g][1].op # "ack"
    /\ Hears(g)
    /\ \E r \in Answers : Told(g, r, "idle") /\ r.kind = "error" /\ ~r.ack
Responds(g) ==
    /\ child[g].state = "working" /\ requests'[g] = requests[g]
    /\ \E r \in Answers : /\ Told(g, r, IF r.ack THEN "acking" ELSE "idle")
                          /\ r.kind \in {"ok", "eos"} /\ r.call = child[g].call
                          /\ r.slot \in {None, child[g].slot}
                          /\ r.ack => r.kind = "ok"
HearsOut(g) ==
    /\ child[g].state = "acking" /\ Hears(g) /\ requests[g][1].op = "ack"
    /\ child'[g].state = "idle" /\ replies'[g] = replies[g]
    /\ child'[g].call = child[g].call /\ child'[g].slot = child[g].slot
Leaves(g) == ~Connected(g) /\ child'[g].state = "dead" /\ Same(g)
Raises(g) ==
    /\ child[g].state = "working" /\ requests'[g] = requests[g]
    /\ \E r \in Answers : Told(g, r, "idle") /\ r.kind = "error" /\ ~r.ack
Hangs(g) == child[g].state = "working" /\ child'[g].state = "hung" /\ Same(g)
Dies(g) == child'[g].state = "dead" /\ Same(g)

LEMMA ChildEffects ==
  ASSUME PipeTypes, NEW g \in Children
  PROVE  /\ ChildAct(g) => \/ Greets(g) \/ Takes(g) \/ Parts(g) \/ Objects(g)
                           \/ Responds(g) \/ HearsOut(g) \/ Leaves(g)
         /\ FaultAct(g) /\ UNCHANGED requests => Raises(g) \/ Hangs(g) \/ Dies(g)
  <1>0. "idle" \in States /\ "dead" \in States /\ "acking" \in States
        /\ child[g].made \in Nat
    BY DEF PipeTypes, States
  <1>1. ChildStarts(g) => Greets(g)
    <2>. SUFFICES ASSUME ChildStarts(g) PROVE Greets(g)
      OBVIOUS
    <2>. DEFINE r == Answer(g, "ready", None, FALSE)
    <2>1. r \in Answers /\ Told(g, r, "idle")
      BY <1>0, SaysReady, Telling
    <2>2. r.kind = "ready"
      BY DEF Answer
    <2>3. child[g].state = "starting" /\ requests'[g] = requests[g]
      BY DEF ChildStarts
    <2>. HIDE DEF r
    <2>. QED BY <2>1, <2>2, <2>3 DEF Greets
  <1>2. ChildTakesCall(g) => Takes(g)
    <2>. SUFFICES ASSUME ChildTakesCall(g) PROVE Takes(g)
      OBVIOUS
    <2>1. Hears(g) /\ Request(g) = requests[g][1] /\ Request(g).op = "call"
          /\ child[g].state = "idle"
      BY Hearing DEF ChildTakesCall, Hears
    <2>2. child'[g].state = "working" /\ replies'[g] = replies[g]
             /\ child'[g].call = Request(g).call /\ child'[g].slot = Request(g).slot
      BY DEF ChildTakesCall, PipeTypes
    <2>. QED BY <2>1, <2>2 DEF Takes
  <1>3. ChildCloses(g) => Parts(g)
    <2>. SUFFICES ASSUME ChildCloses(g) PROVE Parts(g)
      OBVIOUS
    <2>1. Hears(g) /\ requests[g][1].op = "close" /\ child[g].state = "idle"
      BY Hearing DEF ChildCloses, Hears
    <2>2. \E r \in Answers : Told(g, r, "dead")
      BY <1>0, SaysClosed, Telling
    <2>. QED BY <2>1, <2>2 DEF Parts
  <1>4. ASSUME ChildHearsStray(g) \/ (ChildHearsAck(g) /\ Request(g).op # "ack")
        PROVE  Objects(g)
    <2>1. /\ Hears(g)
          /\ \/ child[g].state = "idle" /\ requests[g][1].op = "ack"
             \/ child[g].state = "acking" /\ requests[g][1].op # "ack"
      BY <1>4, Hearing DEF ChildHearsStray, ChildHearsAck, Hears
    <2>. DEFINE r == Answer(g, "error", None, FALSE)
    <2>2. r \in Answers /\ Told(g, r, "idle")
      BY <1>0, <1>4, SaysError, Telling
    <2>3. r.kind = "error" /\ ~r.ack
      BY DEF Answer
    <2>. HIDE DEF r
    <2>. QED BY <2>1, <2>2, <2>3 DEF Objects
  <1>5. ChildAnswers(g) => Responds(g)
    <2>. SUFFICES ASSUME ChildAnswers(g) PROVE Responds(g)
      OBVIOUS
    <2>1. PICK r \in Answers, made \in Nat :
             /\ Tells(g, r, IF r.ack THEN "acking" ELSE "idle", made)
             /\ r.kind \in {"ok", "eos"} /\ r.call = child[g].call
             /\ r.slot \in {None, child[g].slot}
             /\ r.kind = "eos" => ~r.ack
      BY SaysOk
    <2>2. (IF r.ack THEN "acking" ELSE "idle") \in States
      BY <1>0
    <2>3. Told(g, r, IF r.ack THEN "acking" ELSE "idle")
      BY <2>1, <2>2, Telling
    <2>4. child[g].state = "working" /\ requests'[g] = requests[g]
      BY DEF ChildAnswers
    <2>. QED BY <2>1, <2>3, <2>4 DEF Responds
  <1>6. ASSUME ChildHearsAck(g), Request(g).op = "ack" PROVE HearsOut(g)
    <2>1. Hears(g) /\ requests[g][1].op = "ack" /\ child[g].state = "acking"
      BY <1>6, Hearing DEF ChildHearsAck, Hears
    <2>2. child'[g].state = "idle" /\ replies'[g] = replies[g]
             /\ child'[g].call = child[g].call /\ child'[g].slot = child[g].slot
      BY <1>6 DEF ChildHearsAck, PipeTypes
    <2>. QED BY <2>1, <2>2 DEF HearsOut
  <1>7. ChildIsLeft(g) => Leaves(g)
    BY DEF ChildIsLeft, Leaves, Same, PipeTypes
  <1>8. ASSUME NodeRaises(g), UNCHANGED requests PROVE Raises(g)
    <2>. DEFINE r == Answer(g, "error", None, FALSE)
    <2>1. r \in Answers /\ Told(g, r, "idle")
      BY <1>0, <1>8, SaysError, Telling
    <2>2. r.kind = "error" /\ ~r.ack
      BY DEF Answer
    <2>3. child[g].state = "working" /\ requests'[g] = requests[g]
      BY <1>8 DEF NodeRaises
    <2>. HIDE DEF r
    <2>. QED BY <2>1, <2>2, <2>3 DEF Raises
  <1>9. NodeHangs(g) /\ UNCHANGED requests => Hangs(g)
    BY DEF NodeHangs, Hangs, Same, PipeTypes
  <1>10. ChildDies(g) /\ UNCHANGED requests => Dies(g)
    BY DEF ChildDies, Dies, Same, PipeTypes
  <1>. QED
    BY <1>1, <1>2, <1>3, <1>4, <1>5, <1>6, <1>7, <1>8, <1>9, <1>10
    DEF ChildAct, FaultAct

\* While no child was started late, only the newest one does anything.
LEMMA NewestMoves ==
  ASSUME Types, NewestInv, DeathsInv, ~late, NEW g \in Children, ChildStep(g) \/ Fault(g)
  PROVE  g = N
  <1>1. child[g].state # "unborn" /\ child[g].state # "dead"
    BY ChildKeepsTypes
  <1>2. ~(g < N) /\ ~(g > N)
    BY <1>1 DEF NewestInv, Future, Unborn, DeathsInv
  <1>. QED BY <1>2, NewestIsChild DEF Types, Children

LEMMA HearsTail ==
  ASSUME PipeTypes, NEW g \in Children, Hears(g)
  PROVE  /\ Len(requests[g]) >= 1 /\ Len(requests'[g]) = Len(requests[g]) - 1
         /\ Len(requests[g]) = 1 => requests'[g] = <<>>
         /\ Len(requests[g]) = 2 => /\ requests'[g][1] = requests[g][2]
                                    /\ Len(requests'[g]) = 1
         /\ \A i \in 1..Len(requests'[g]) :
               i + 1 \in 1..Len(requests[g]) /\ requests'[g][i] = requests[g][i + 1]
  <1>1. requests[g] \in Seq(Questions) /\ requests[g] # <<>>
           /\ requests'[g] = Tail(requests[g])
    BY DEF PipeTypes, Hears
  <1>2. /\ Len(requests'[g]) = Len(requests[g]) - 1 /\ Len(requests[g]) >= 1
        /\ \A i \in 1..Len(requests'[g]) :
               i + 1 \in 1..Len(requests[g]) /\ requests'[g][i] = requests[g][i + 1]
    BY <1>1, Taking
  <1>3. Len(requests[g]) = 1 => requests'[g] = <<>>
    BY <1>1, LastTaken
  <1>. QED BY <1>2, <1>3

LEMMA SaidAlone ==
  ASSUME PipeTypes, NEW g \in Children, NEW r \in Answers, NEW state, Told(g, r, state),
         Connected(g), replies[g] = <<>>
  PROVE  Len(replies'[g]) = 1 /\ replies'[g][1] = r /\ child'[g].state = state
  <1>1. replies[g] \in Seq(Answers) /\ replies'[g] = Append(replies[g], r)
           /\ child'[g].state = state
    BY DEF PipeTypes, Told
  <1>2. Len(replies[g]) = 0
    BY <1>1
  <1>. QED BY <1>1, <1>2, Putting

\* What a step of the child the worker is connected to makes of the shapes.
Effect(g) ==
    \/ Greets(g) \/ Takes(g) \/ Parts(g) \/ Objects(g) \/ Responds(g) \/ HearsOut(g)
    \/ Leaves(g) \/ Raises(g) \/ Hangs(g) \/ Dies(g)

LEMMA ChildIsQuiet ==
  ASSUME PipeTypes, N \in Children, N' = N, Connected(N), Effect(N), Quiet,
         child[N].state # "dead"
  PROVE  Quiet'
  <1>1. replies[N] = <<>>
    BY DEF Quiet
  <1>2. CASE requests[N] = <<>> /\ child[N].state \in {"idle", "acking"}
    BY <1>1, <1>2 DEF Effect, Greets, Takes, Parts, Objects, Hears, Responds, HearsOut,
       Leaves, Raises, Hangs, Dies, Same, Quiet
  <1>3. CASE /\ Len(requests[N]) = 1 /\ requests[N][1].op = "ack"
             /\ child[N].state = "acking"
    <2>1. HearsOut(N) \/ Dies(N)
      BY <1>3 DEF Effect, Greets, Takes, Parts, Objects, Responds, Leaves, Raises, Hangs
    <2>2. CASE HearsOut(N)
      <3>1. requests'[N] = <<>>
        BY <1>3, <2>2, HearsTail DEF HearsOut
      <3>. QED BY <1>1, <2>2, <3>1 DEF HearsOut, Quiet
    <2>3. CASE Dies(N)
      BY <1>1, <2>3 DEF Dies, Same, Quiet
    <2>. QED BY <2>1, <2>2, <2>3
  <1>. QED BY <1>2, <1>3 DEF Quiet

LEMMA ChildIsAsked ==
  ASSUME PipeTypes, N \in Children, N' = N, call' = call, Connected(N), Effect(N), Asking,
         child[N].state # "dead"
  PROVE  Asking' \/ HasAnswer'
  <1>1. replies[N] = <<>>
    BY DEF Asking
  <1>2. CASE /\ Len(requests[N]) = 1 /\ Asks(requests[N][1])
             /\ child[N].state \in {"idle", "acking"}
    <2>1. Takes(N) \/ Objects(N) \/ Dies(N)
      BY <1>2 DEF Effect, Greets, Parts, Responds, HearsOut, Leaves, Raises, Hangs, Asks
    <2>2. CASE Takes(N)
      <3>1. requests'[N] = <<>>
        BY <1>2, <2>2, HearsTail DEF Takes
      <3>. QED BY <1>1, <1>2, <2>2, <3>1 DEF Takes, Asking, Asks
    <2>3. CASE Objects(N)
      <3>1. requests'[N] = <<>>
        BY <1>2, <2>3, HearsTail DEF Objects
      <3>2. PICK r \in Answers : Told(N, r, "idle") /\ r.kind = "error" /\ ~r.ack
        BY <2>3 DEF Objects
      <3>3. Len(replies'[N]) = 1 /\ replies'[N][1] = r /\ child'[N].state = "idle"
        BY <1>1, <3>2, SaidAlone
      <3>. QED BY <3>1, <3>2, <3>3 DEF HasAnswer
    <2>4. CASE Dies(N)
      BY <1>1, <2>4 DEF Dies, Same, Asking
    <2>. QED BY <2>1, <2>2, <2>3, <2>4
  <1>3. CASE /\ Len(requests[N]) = 2 /\ requests[N][1].op = "ack"
             /\ Asks(requests[N][2]) /\ child[N].state = "acking"
    <2>1. HearsOut(N) \/ Dies(N)
      BY <1>3 DEF Effect, Greets, Takes, Parts, Objects, Responds, Leaves, Raises, Hangs
    <2>2. CASE HearsOut(N)
      <3>1. requests'[N][1] = requests[N][2] /\ Len(requests'[N]) = 1
        BY <1>3, <2>2, HearsTail DEF HearsOut
      <3>. QED BY <1>1, <1>3, <2>2, <3>1 DEF HearsOut, Asking, Asks
    <2>3. CASE Dies(N)
      BY <1>1, <2>3 DEF Dies, Same, Asking
    <2>. QED BY <2>1, <2>2, <2>3
  <1>4. CASE /\ requests[N] = <<>> /\ child[N].state \in {"working", "hung"}
             /\ child[N].call = call
    <2>1. Responds(N) \/ Raises(N) \/ Hangs(N) \/ Dies(N)
      BY <1>4 DEF Effect, Greets, Takes, Parts, Objects, HearsOut, Leaves
    <2>2. CASE Responds(N)
      <3>1. PICK r \in Answers : /\ Told(N, r, IF r.ack THEN "acking" ELSE "idle")
                                 /\ r.kind \in {"ok", "eos"} /\ r.call = child[N].call
                                 /\ r.ack => r.kind = "ok"
        BY <2>2 DEF Responds
      <3>2. /\ Len(replies'[N]) = 1 /\ replies'[N][1] = r
            /\ child'[N].state = IF r.ack THEN "acking" ELSE "idle"
        BY <1>1, <3>1, SaidAlone
      <3>3. requests'[N] = <<>>
        BY <1>4, <2>2 DEF Responds
      <3>. QED BY <1>4, <3>1, <3>2, <3>3 DEF HasAnswer
    <2>3. CASE Raises(N)
      <3>1. PICK r \in Answers : Told(N, r, "idle") /\ r.kind = "error" /\ ~r.ack
        BY <2>3 DEF Raises
      <3>2. Len(replies'[N]) = 1 /\ replies'[N][1] = r /\ child'[N].state = "idle"
        BY <1>1, <3>1, SaidAlone
      <3>3. requests'[N] = <<>>
        BY <1>4, <2>3 DEF Raises
      <3>. QED BY <3>1, <3>2, <3>3 DEF HasAnswer
    <2>4. CASE Hangs(N) \/ Dies(N)
      BY <1>1, <1>4, <2>4 DEF Hangs, Dies, Same, Asking
    <2>. QED BY <2>1, <2>2, <2>3, <2>4
  <1>. QED BY <1>2, <1>3, <1>4 DEF Asking

LEMMA ChildHasAnswered ==
  ASSUME N' = N, call' = call, Connected(N), Effect(N), child[N].state # "dead"
  PROVE  /\ HasAnswer => HasAnswer'
         /\ AckAwaited => AckAwaited'
  <1>1. ASSUME HasAnswer PROVE HasAnswer'
    <2>1. requests[N] = <<>> /\ child[N].state \in {"idle", "acking"}
      BY <1>1 DEF HasAnswer
    <2>2. Dies(N)
      BY <2>1 DEF Effect, Greets, Takes, Parts, Objects, Hears, Responds, HearsOut,
         Leaves, Raises, Hangs
    <2>. QED BY <1>1, <2>2 DEF Dies, Same, HasAnswer
  <1>2. ASSUME AckAwaited PROVE AckAwaited'
    <2>1. requests[N] = <<>> /\ child[N].state = "acking"
      BY <1>2 DEF AckAwaited
    <2>2. Dies(N)
      BY <2>1 DEF Effect, Greets, Takes, Parts, Objects, Hears, Responds, HearsOut,
         Leaves, Raises, Hangs
    <2>. QED BY <1>2, <2>2 DEF Dies, Same, AckAwaited
  <1>. QED BY <1>1, <1>2

LEMMA ChildGreets ==
  ASSUME PipeTypes, N \in Children, N' = N, Connected(N), Effect(N), Opening,
         child[N].state # "dead"
  PROVE  Opening'
  <1>1. requests[N] = <<>>
    BY DEF Opening
  <1>2. CASE child[N].state = "starting" /\ replies[N] = <<>>
    <2>1. Greets(N) \/ Dies(N)
      BY <1>2 DEF Effect, Takes, Parts, Objects, Responds, HearsOut, Leaves, Raises, Hangs
    <2>2. CASE Greets(N)
      <3>1. PICK r \in Answers : Told(N, r, "idle") /\ r.kind = "ready"
        BY <2>2 DEF Greets
      <3>2. Len(replies'[N]) = 1 /\ replies'[N][1] = r /\ child'[N].state = "idle"
        BY <1>2, <3>1, SaidAlone
      <3>. QED BY <1>1, <2>2, <3>1, <3>2 DEF Greets, Opening
    <2>3. CASE Dies(N)
      BY <1>1, <1>2, <2>3 DEF Dies, Same, Opening
    <2>. QED BY <2>1, <2>2, <2>3
  <1>3. CASE /\ child[N].state = "idle"
             /\ Len(replies[N]) = 1 /\ replies[N][1].kind = "ready"
    <2>1. Dies(N)
      BY <1>1, <1>3 DEF Effect, Greets, Takes, Parts, Objects, Hears, Responds, HearsOut,
         Leaves, Raises, Hangs
    <2>. QED BY <1>1, <1>3, <2>1 DEF Dies, Same, Opening
  <1>. QED BY <1>2, <1>3 DEF Opening

\* A step of the newest child.
LEMMA ChildStepFacts ==
  ASSUME Types, NewestInv, DeathsInv, ~late, NEW g \in Children, ChildStep(g) \/ Fault(g)
  PROVE  /\ g = N /\ N \in Children /\ N' = N /\ N # None /\ call' = call /\ conn' = conn
         /\ worker' = worker /\ PipeTypes /\ Others(N) /\ Effect(N)
         /\ child[N].state # "dead"
         /\ Connected(N) <=> conn = N \/ worker = "receiving"
  <1>1. g = N /\ N \in Children /\ N # None /\ PipeTypes
    BY NewestMoves, NewestIsChild DEF Types
  <1>2. N' = N /\ call' = call /\ conn' = conn /\ worker' = worker
    BY ChildFrame DEF ThreadVars, proxy, N
  <1>3. Others(N) /\ child[N].state # "dead"
    BY <1>1, ChildKeepsTypes
  <1>4. Effect(N)
    BY <1>1, ChildFrame, ChildEffects DEF Effect
  <1>5. Connected(N) <=> conn = N \/ worker = "receiving"
    BY DEF Connected, NewestInv, Held
  <1>. QED BY <1>1, <1>2, <1>3, <1>4, <1>5

LEMMA ProtocolOfChild ==
  ASSUME Types, NewestInv, DeathsInv, ~late, Protocol,
         NEW g \in Children, ChildStep(g) \/ Fault(g)
  PROVE  Protocol'
  <1>0. /\ N \in Children /\ N' = N /\ call' = call /\ conn' = conn /\ worker' = worker
        /\ PipeTypes /\ Others(N) /\ Effect(N) /\ child[N].state # "dead"
        /\ Connected(N) <=> conn = N \/ worker = "receiving"
    BY ChildStepFacts
  <1>1. Resting'
    BY <1>0, ChildIsQuiet DEF Protocol, Resting
  <1>2. Waiting'
    BY <1>0, ChildIsAsked, ChildHasAnswered DEF Protocol, Waiting
  <1>3. Acking'
    BY <1>0, ChildHasAnswered DEF Protocol, Acking
  <1>4. Greeted'
    BY <1>0, ChildGreets DEF Protocol, Greeted
  <1>5. Len(requests'[N]) <= 2
    <2>1. requests'[N] = requests[N] \/ Hears(N)
      BY <1>0 DEF Effect, Greets, Takes, Parts, Objects, Responds, HearsOut, Leaves,
         Raises, Hangs, Dies, Same
    <2>2. Hears(N) => Len(requests'[N]) = Len(requests[N]) - 1
      BY <1>0, HearsTail
    <2>3. Len(requests[N]) \in Nat /\ Len(requests[N]) <= 2
      BY <1>0, PipesAreSequences DEF Protocol, Lengths
    <2>. QED BY <2>1, <2>2, <2>3
  <1>6. Len(replies'[N]) <= 1
    <2>1. replies'[N] = replies[N] \/ Connected(N)
      BY <1>0 DEF Effect, Greets, Takes, Parts, Objects, Responds, HearsOut, Leaves,
         Raises, Hangs, Dies, Same, Told
    <2>2. CASE replies'[N] = replies[N]
      BY <1>0, <2>2 DEF Protocol, Lengths
    <2>3. CASE Connected(N) /\ worker \in {"killing", "reaping", "starting"}
      BY <1>0, <2>3, NewestIsChild DEF NewestInv, Held, Restarting, Types
    <2>4. CASE Connected(N) /\ worker \notin {"killing", "reaping", "starting"}
      <3>1. Quiet' \/ Asking' \/ HasAnswer' \/ AckAwaited' \/ Opening'
        BY <1>0, <1>1, <1>2, <1>3, <1>4, <2>4
        DEF Resting, Waiting, Acking, Greeted, Types, ThreadTypes
      <3>2. replies'[N] = <<>> \/ Len(replies'[N]) = 1
        BY <1>0, <3>1 DEF Quiet, Asking, HasAnswer, AckAwaited, Opening
      <3>3. replies'[N] \in Seq(Answers)
        BY <1>0, ChildKeepsTypes DEF Types, PipeTypes
      <3>4. replies'[N] = <<>> <=> Len(replies'[N]) = 0
        BY <3>3, EmptySeq
      <3>5. 0 <= 1 /\ 1 <= 1
        OBVIOUS
      <3>. QED BY <3>2, <3>4, <3>5
    <2>. QED BY <2>1, <2>2, <2>3, <2>4
  <1>7. \A h \in Children \ {N} : Len(requests'[h]) <= 2 /\ Len(replies'[h]) <= 1
    BY <1>0 DEF Others, Protocol, Lengths
  <1>. QED BY <1>0, <1>1, <1>2, <1>3, <1>4, <1>5, <1>6, <1>7 DEF Protocol, Lengths

\* Steps that move the pipes; one of them takes the answer.
Shifting ==
    \/ Send \/ ReceiveError \/ DecodeFails \/ Acknowledge \/ ChildIsReady
    \/ WorkerKills \/ WatchdogKills \/ StartTimesOut \/ StartChild
Moving == Shifting \/ ReceiveAnswer

LEMMA RunningSteps ==
  ASSUME Next, main = "running", main' = "running"
  PROVE  Still \/ Moving \/ \E g \in Children : ChildStep(g) \/ Fault(g)
  <1>1. ~(MainCloses \/ MainPolls \/ MainClosesPipe \/ MainKills \/ MainReaps
             \/ MainBreaks \/ ClosePool)
    BY DEF MainCloses, MainPolls, MainClosesPipe, MainKills, MainReaps, MainBreaks,
       ClosePool
  <1>. QED BY <1>1 DEF Next, WorkerStep, WatchdogStep, MainStep, Still, Moving, Shifting

LEMMA ProtocolKept ==
  ASSUME Types, NewestInv, LockInv, PoolInv, DeathsInv, LateInv, Protocol, Next,
         main = "running", main' = "running"
  PROVE  Protocol'
  <1>1. ASSUME NEW g \in Children, ChildStep(g) \/ Fault(g) PROVE Protocol'
    BY <1>1, ProtocolOfChild DEF LateInv
  <1>. QED BY <1>1, RunningSteps, ProtocolStill, ProtocolMoves DEF Moving, Shifting

(***************************************************************************)
(* Whose answers, whose slots, and who pays.                               *)
(***************************************************************************)
\* Only an answer is taken for another one, or puts a slot into a message.
LEMMA OnlyAnswers ==
  ASSUME Still \/ Shifting
  PROVE  strange' = strange /\ downstream' \subseteq downstream
  <1>1. CASE Begin
    BY <1>1 DEF Begin, Flush, pipes, pool, ends, history
  <1>2. CASE Check
    BY <1>2 DEF Check, Caught, proxy, health, pipes, pool, ends, history
  <1>3. CASE Reserve
    BY <1>3 DEF Reserve, health, pipes, ends, history
  <1>4. CASE ReserveFails
    BY <1>4 DEF ReserveFails, Escape, GiveBack, Release, NodeFails, pipes,
        history
  <1>5. CASE Listen
    BY <1>5 DEF Listen, health, pipes, pool, ends, history
  <1>6. CASE PipeBroken
    BY <1>6 DEF PipeBroken, Caught, proxy, health, pipes, pool, ends, history
  <1>7. CASE ConnectionGone
    BY <1>7 DEF ConnectionGone, Escape, GiveBack, Release, NodeFails, pipes,
        history
  <1>8. CASE Skip
    BY <1>8 DEF Skip, ReturnNothing, GiveBack, Release, Flush, health, pipes,
        ends, history
  <1>9. CASE Recover
    BY <1>9 DEF Recover, health, pipes, pool, ends, history
  <1>10. CASE GiveUp
    BY <1>10 DEF GiveUp, GiveBack, Release, NodeFails, pipes, history
  <1>11. CASE WorkerCloses
    BY <1>11 DEF WorkerCloses, health, pipes, pool, ends, history
  <1>12. CASE WorkerReaps
    BY <1>12 DEF WorkerReaps, GiveBack, Release, NodeFails, history, pipes,
        pool
  <1>13. CASE StartFails
    BY <1>13 DEF StartFails, AwaitsChild, Newborn, GiveBack, Release,
        NodeFails, pipes, history
  <1>14. CASE WatchdogFires
    BY <1>14 DEF WatchdogFires, proxy, pipes, pool, ends
  <1>15. CASE Interrupt
    BY <1>15 DEF Interrupt, pipes, pool, ends, history
  <1>16. CASE WatchdogReaps
    BY <1>16 DEF WatchdogReaps, pipes, pool, ends, history
  <1>17. CASE RequestStop
    BY <1>17 DEF RequestStop, proxy, health, pipes, pool, history
  <1>18. CASE Consume
    BY <1>18 DEF Consume, Release, proxy, health, pipes, ends, history
  <1>19. CASE ConsumersLeave
    BY <1>19 DEF ConsumersLeave, proxy, health, pipes, ends, history
  <1>20. CASE Send
    BY <1>20 DEF Send, proxy, health, pool, ends, history
  <1>21. CASE ReceiveError
    BY <1>21 DEF ReceiveError, Answered, TakeAnswer, Caught, Reply, proxy,
        health, pool, ends, history
  <1>22. CASE DecodeFails
    BY <1>22 DEF DecodeFails, Answered, TakeAnswer, Reply, Escape, Caught,
        GiveBack, Release, NodeFails, pool
  <1>23. CASE Acknowledge
    BY <1>23 DEF Acknowledge, Deliver, Release, ends, history
  <1>24. CASE ChildIsReady
    BY <1>24 DEF ChildIsReady, AwaitsChild, Newborn, TakeAnswer, GiveBack,
        Release, pool, ends, history
  <1>25. CASE WorkerKills
    BY <1>25 DEF WorkerKills, EndProcess, proxy, health, pool, ends, history
  <1>26. CASE WatchdogKills
    BY <1>26 DEF WatchdogKills, EndProcess, pool, ends, history
  <1>27. CASE StartTimesOut
    BY <1>27 DEF StartTimesOut, AwaitsChild, Newborn, EndProcess, GiveBack,
        Release, NodeFails
  <1>28. CASE StartChild
    BY <1>28 DEF StartChild, health, pool, ends
  <1>. QED
    BY <1>1, <1>2, <1>3, <1>4, <1>5, <1>6, <1>7, <1>8, <1>9, <1>10, <1>11,
        <1>12, <1>13, <1>14, <1>15, <1>16, <1>17, <1>18, <1>19, <1>20, <1>21,
        <1>22, <1>23, <1>24, <1>25, <1>26, <1>27, <1>28 DEF Still, Shifting

LEMMA OwnKept ==
  ASSUME Types, NewestInv, Protocol, ~strange, Next, main = "running", main' = "running"
  PROVE  ~strange'
  <1>1. CASE ReceiveAnswer
    <2>1. HasAnswer /\ Reply = replies[N][1]
      BY <1>1, ReceiveTakes, AnswerTaken DEF Reply
    <2>. QED BY <1>1, <2>1 DEF ReceiveAnswer, HasAnswer
  <1>2. ASSUME NEW g \in Children, ChildStep(g) \/ Fault(g) PROVE ~strange'
    BY <1>2, ChildFrame DEF ThreadVars
  <1>. QED BY <1>1, <1>2, OnlyAnswers, RunningSteps DEF Moving

LEMMA IntactKept ==
  ASSUME Types, NewestInv, PoolInv, DeathsInv, LateInv, Protocol, Intact, Next,
         main = "running", main' = "running"
  PROVE  Intact'
  <1>0. N \in Children /\ PipeTypes /\ ~late
    BY NewestIsChild DEF Types, LateInv
  <1>1. CASE Still
    <2>1. N' = N /\ child' = child /\ requests' = requests
      BY <1>1, StillSteps DEF pipes, N
    <2>2. downstream' \subseteq downstream
      BY <1>1, OnlyAnswers
    <2>. QED BY <2>1, <2>2 DEF Intact
  <1>2. CASE Send
    <2>. DEFINE q == [op |-> "call", call |-> call, slot |-> slot]
    <2>1. /\ N' = N /\ child' = child /\ downstream' = downstream
          /\ requests'[N] = Append(requests[N], q) /\ q \in Questions
      BY <1>2, SendAsks DEF Wrote, Send, pool
    <2>2. slot \notin downstream
      BY <1>2 DEF Send, PoolInv, SlotsAccounted
    <2>3. \A i \in 1..Len(requests'[N]) :
             \/ i \in 1..Len(requests[N]) /\ requests'[N][i] = requests[N][i]
             \/ requests'[N][i] = q
      <3>1. requests[N] \in Seq(Questions)
        BY <1>0 DEF PipeTypes
      <3>2. Len(requests'[N]) = Len(requests[N]) + 1 /\ Len(requests[N]) \in Nat
        BY <2>1, <3>1, Putting
      <3>3. /\ requests'[N][Len(requests[N]) + 1] = q
            /\ \A i \in 1..Len(requests[N]) : requests'[N][i] = requests[N][i]
        BY <2>1, <3>1, Putting
      <3>. QED BY <3>2, <3>3
    <2>4. q.slot = slot
      OBVIOUS
    <2>. HIDE DEF q
    <2>. QED BY <2>1, <2>2, <2>3, <2>4 DEF Intact
  <1>3. CASE ReceiveAnswer
    <2>1. /\ N' = N /\ child' = child /\ requests'[N] = <<>>
          /\ child[N].state \in {"dead", "idle", "acking"}
      BY <1>3, ReceiveTakes, AnswerTaken DEF HasAnswer
    <2>2. Len(requests'[N]) = 0
      BY <2>1
    <2>. QED BY <2>1, <2>2 DEF Intact
  <1>4. CASE ReceiveError \/ DecodeFails \/ ChildIsReady
    <2>1. N' = N /\ child' = child /\ requests' = requests
      BY <1>4, ReceiveTakes, ReadyTakes DEF Took
    <2>2. downstream' \subseteq downstream
      BY <1>4, OnlyAnswers DEF Shifting
    <2>. QED BY <2>1, <2>2 DEF Intact
  <1>5. CASE Acknowledge
    <2>. DEFINE q == [op |-> "ack", call |-> call, slot |-> None]
    <2>1. /\ N' = N /\ child' = child /\ requests'[N] = Append(requests[N], q)
          /\ q \in Questions /\ child[N].state = "acking" /\ requests[N] = <<>>
      BY <1>5, AcknowledgeAsks, AcknowledgedIsQuiet
      DEF Wrote, Acknowledge, Protocol, Acking, AckAwaited, Alive
    <2>2. Len(requests'[N]) = 1 /\ requests'[N][1] = q
      BY <2>1
    <2>. QED BY <2>1, <2>2 DEF Intact
  <1>6. CASE WorkerKills \/ WatchdogKills \/ StartTimesOut
    <2>1. /\ N' = N /\ requests' = requests
          /\ child'[N] = child[N] \/ child'[N].state = "dead"
      BY <1>6, KillsEnd DEF Ended, pipes
    <2>2. downstream' \subseteq downstream
      BY <1>6, OnlyAnswers DEF Shifting
    <2>. QED BY <2>1, <2>2 DEF Intact
  <1>7. CASE StartChild
    <2>1. restarts < MaxRestarts
      BY <1>7 DEF StartChild, NewestInv, Held, Restarting
    <2>2. /\ N' = N + 1 /\ N + 1 \in Children /\ N \in Nat
          /\ child'[N + 1].state = "starting" /\ requests' = requests
      BY <1>7, <2>1, NewestIsChild, StartingChild DEF Types, PipeTypes
    <2>3. requests'[N + 1] = <<>>
      BY <2>2 DEF NewestInv, Future
    <2>4. Len(requests'[N + 1]) = 0
      BY <2>3
    <2>. QED BY <2>2, <2>4 DEF Intact
  <1>8. ASSUME NEW g \in Children, ChildStep(g) \/ Fault(g) PROVE Intact'
    <2>1. N' = N /\ Effect(N)
      BY <1>0, <1>8, ChildStepFacts
    <2>2. downstream' = downstream
      BY <1>8, ChildFrame DEF ThreadVars, pool
    <2>3. \A i \in 1..Len(requests'[N]) : \E k \in 1..Len(requests[N]) :
             requests'[N][i] = requests[N][k]
      <3>1. requests'[N] = requests[N] \/ Hears(N)
        BY <2>1 DEF Effect, Greets, Takes, Parts, Objects, Responds, HearsOut, Leaves,
           Raises, Hangs, Dies, Same
      <3>2. Hears(N) => \A i \in 1..Len(requests'[N]) :
               i + 1 \in 1..Len(requests[N]) /\ requests'[N][i] = requests[N][i + 1]
        BY <1>0, HearsTail
      <3>. QED BY <3>1, <3>2
    <2>4. child'[N].state \in {"working", "hung"} => child'[N].slot \notin downstream
      <3>1. CASE Takes(N)
        <4>1. 1 \in 1..Len(requests[N])
          BY <1>0, <3>1, HearsTail, PipesAreSequences DEF Takes
        <4>. QED BY <3>1, <4>1 DEF Takes, Intact
      <3>2. CASE Hangs(N)
        BY <3>2 DEF Hangs, Same, Intact
      <3>3. CASE ~Takes(N) /\ ~Hangs(N)
        <4>1. child'[N].state \in {"idle", "dead", "acking"}
          BY <2>1, <3>3 DEF Effect, Greets, Parts, Objects, Responds, HearsOut, Leaves,
             Raises, Dies, Told
        <4>. QED BY <4>1
      <3>. QED BY <3>1, <3>2, <3>3
    <2>. QED BY <2>1, <2>2, <2>3, <2>4 DEF Intact
  <1>. QED BY <1>1, <1>2, <1>3, <1>4, <1>5, <1>6, <1>7, <1>8, RunningSteps DEF Moving,
              Shifting

\* A step that leaves the pipes and the connection alone leaves what is broken so.
LEMMA BrokenStays ==
  ASSUME UNCHANGED <<pipes, restarts>>
  PROVE  /\ N' = N /\ (Stuck' <=> Stuck)
         /\ conn' = conn => (Broken' <=> Broken)
         /\ conn' = None => Broken'
  <1>1. N' = N /\ child' = child /\ requests' = requests /\ replies' = replies
    BY DEF N, pipes
  <1>. QED BY <1>1 DEF Broken, Stuck

\* A worker runs into something only when it is broken.
LEMMA FindsBroken ==
  ASSUME Types, NewestInv, DeathsInv, ~late,
         \/ Check /\ worker' = "excepting"
         \/ PipeBroken \/ ConnectionGone \/ StartFails
  PROVE  Broken
  <1>0. /\ conn \in {None, N} /\ proc \in {None, N} /\ N # None
        /\ child[N].state # "unborn"
        /\ proc = None => child[N].state = "dead"
    BY NewestIsChild DEF NewestInv, Held, Future, Types, DeathsInv, Forgotten
  <1>1. CASE Check /\ worker' = "excepting"
    BY <1>0, <1>1 DEF Check, ProcessAlive, Alive, Broken
  <1>2. CASE PipeBroken
    <2>1. worker = "receiving" => reading = N
      BY DEF NewestInv, Held
    <2>. QED BY <1>0, <1>2, <2>1 DEF PipeBroken, PipeUp, Alive, Broken
  <1>3. CASE ConnectionGone
    <2>1. worker = "receiving" => reading = N
      BY DEF NewestInv, Held
    <2>. QED BY <1>0, <1>3, <2>1 DEF ConnectionGone, Broken
  <1>4. CASE StartFails
    BY <1>0, <1>4 DEF StartFails, Newborn, N, Alive, Broken
  <1>. QED BY <1>1, <1>2, <1>3, <1>4

LEMMA PaidStill ==
  ASSUME Types, NewestInv, LockInv, PoolInv, DeathsInv, ~late, Paid, main = "running", Still
  PROVE  Paid'
  <1>0. /\ UNCHANGED <<pipes, restarts>>
        /\ restarts \in Nat /\ faults \in Nat /\ interrupts \in Nat
        /\ conn' = conn => (Broken' <=> Broken)
        /\ conn' = None => Broken'
    BY StillSteps, BrokenStays DEF Types, ThreadTypes, PoolTypes
  <1>1. CASE Begin
    BY <1>1, <1>0 DEF Begin, Flush, pipes, pool, ends, history, Paid,
        InTrouble, Count, Restarting, LockInv
  <1>2. CASE Check
    <2>1. worker' = "excepting" => Broken
      BY <1>2, FindsBroken
    <2>. QED
      BY <1>2, <1>0, <2>1 DEF Check, Caught, proxy, health, pipes, pool, ends,
          history, Paid, InTrouble, Count, Restarting
  <1>3. CASE Reserve
    BY <1>3, <1>0 DEF Reserve, health, pipes, ends, history, Paid, InTrouble,
        Count, Restarting, LockInv
  <1>4. CASE ReserveFails
    BY <1>4 DEF ReserveFails, PoolInv
  <1>5. CASE Listen
    BY <1>5, <1>0 DEF Listen, health, pipes, pool, ends, history, Paid,
        InTrouble, Count, Restarting, LockInv
  <1>6. CASE PipeBroken
    <2>1. Broken
      BY <1>6, FindsBroken
    <2>. QED
      BY <1>6, <1>0, <2>1 DEF PipeBroken, Caught, proxy, health, pipes, pool,
          ends, history, Paid, InTrouble, Count, Restarting
  <1>7. CASE ConnectionGone
    <2>1. Broken
      BY <1>7, FindsBroken
    <2>. QED
      BY <1>7, <1>0, <2>1 DEF ConnectionGone, Escape, GiveBack, Release,
          NodeFails, pipes, history, Paid, InTrouble, Count, Restarting
  <1>8. CASE Skip
    BY <1>8, <1>0 DEF Skip, ReturnNothing, GiveBack, Release, Flush, health,
        pipes, ends, history, Paid, InTrouble, Count, Restarting, LockInv
  <1>9. CASE Recover
    BY <1>9, <1>0 DEF Recover, health, pipes, pool, ends, history, Paid,
        InTrouble, Count, Restarting, LockInv
  <1>10. CASE GiveUp
    BY <1>10, <1>0 DEF GiveUp, GiveBack, Release, NodeFails, pipes, history,
        Paid, InTrouble, Count, Restarting, LockInv
  <1>11. CASE WorkerCloses
    BY <1>11, <1>0 DEF WorkerCloses, health, pipes, pool, ends, history,
        Paid, InTrouble, Count, Restarting, LockInv
  <1>12. CASE WorkerReaps
    BY <1>12, <1>0 DEF WorkerReaps, GiveBack, Release, NodeFails, history,
        pipes, pool, Paid, InTrouble, Count, Restarting, LockInv
  <1>13. CASE StartFails
    <2>1. Broken
      BY <1>13, FindsBroken
    <2>. QED
      BY <1>13, <1>0, <2>1 DEF StartFails, AwaitsChild, Newborn, GiveBack,
          Release, NodeFails, pipes, history, Paid, InTrouble, Count,
          Restarting
  <1>14. CASE WatchdogFires
    BY <1>14, <1>0 DEF WatchdogFires, proxy, pipes, pool, ends, Paid,
        InTrouble, Count, Restarting, LockInv
  <1>15. CASE Interrupt
    BY <1>15, <1>0 DEF Interrupt, pipes, pool, ends, history, Paid,
        InTrouble, Count, Restarting, LockInv
  <1>16. CASE WatchdogReaps
    BY <1>16, <1>0 DEF WatchdogReaps, pipes, pool, ends, history, Paid,
        InTrouble, Count, Restarting, LockInv
  <1>17. CASE RequestStop
    BY <1>17, <1>0 DEF RequestStop, proxy, health, pipes, pool, history,
        Paid, InTrouble, Count, Restarting, LockInv
  <1>18. CASE Consume
    BY <1>18, <1>0 DEF Consume, Release, proxy, health, pipes, ends, history,
        Paid, InTrouble, Count, Restarting, LockInv
  <1>19. CASE ConsumersLeave
    BY <1>19, <1>0 DEF ConsumersLeave, proxy, health, pipes, ends, history,
        Paid, InTrouble, Count, Restarting, LockInv
  <1>. QED
    BY <1>1, <1>2, <1>3, <1>4, <1>5, <1>6, <1>7, <1>8, <1>9, <1>10, <1>11,
        <1>12, <1>13, <1>14, <1>15, <1>16, <1>17, <1>18, <1>19 DEF Still

LEMMA OrphanStill ==
  ASSUME Types, NewestInv, LockInv, DeathsInv, ~late, OrphanInv, Still
  PROVE  OrphanInv'
  <1>0. N' = N /\ (Stuck' <=> Stuck) /\ N # None
    BY StillSteps, BrokenStays, NewestIsChild DEF Types
  <1>1. CASE Begin
    BY <1>1, <1>0 DEF Begin, Flush, pipes, pool, ends, history, OrphanInv,
        Orphan, Restarting, LockInv, NewestInv, Held
  <1>2. CASE Check
    BY <1>2, <1>0 DEF Check, Caught, proxy, health, pipes, pool, ends,
        history, OrphanInv, Orphan, Restarting, LockInv, NewestInv, Held
  <1>3. CASE Reserve
    BY <1>3, <1>0 DEF Reserve, health, pipes, ends, history, OrphanInv,
        Orphan, Restarting, LockInv, NewestInv, Held
  <1>4. CASE ReserveFails
    BY <1>4, <1>0 DEF ReserveFails, Escape, GiveBack, Release, NodeFails,
        pipes, history, OrphanInv, Orphan, Restarting, LockInv, NewestInv,
        Held
  <1>5. CASE Listen
    BY <1>5, <1>0 DEF Listen, health, pipes, pool, ends, history, OrphanInv,
        Orphan, Restarting, LockInv, NewestInv, Held
  <1>6. CASE PipeBroken
    <2>1. conn = N /\ worker = "acking" => ~Stuck
      BY <1>6, <1>0 DEF PipeBroken, PipeUp, Alive, Stuck
    <2>2. worker = "receiving" => reading = N
      BY DEF NewestInv, Held
    <2>3. worker = "receiving" /\ conn = N => ~Stuck
      BY <1>6, <2>2 DEF PipeBroken, Alive, Stuck
    <2>. QED BY <1>6, <1>0, <2>1, <2>3 DEF PipeBroken, Caught, proxy, OrphanInv, Orphan,
                history
  <1>7. CASE ConnectionGone
    BY <1>7, <1>0 DEF ConnectionGone, Escape, GiveBack, Release, NodeFails,
        pipes, history, OrphanInv, Orphan, Restarting, LockInv, NewestInv,
        Held
  <1>8. CASE Skip
    BY <1>8, <1>0 DEF Skip, ReturnNothing, GiveBack, Release, Flush, health,
        pipes, ends, history, OrphanInv, Orphan, Restarting, LockInv,
        NewestInv, Held
  <1>9. CASE Recover
    BY <1>9, <1>0 DEF Recover, health, pipes, pool, ends, history, OrphanInv,
        Orphan, Restarting, LockInv, NewestInv, Held
  <1>10. CASE GiveUp
    BY <1>10, <1>0 DEF GiveUp, GiveBack, Release, NodeFails, pipes, history,
        OrphanInv, Orphan, Restarting, LockInv, NewestInv, Held
  <1>11. CASE WorkerCloses
    BY <1>11, <1>0 DEF WorkerCloses, health, pipes, pool, ends, history,
        OrphanInv, Orphan, Restarting, LockInv, NewestInv, Held
  <1>12. CASE WorkerReaps
    BY <1>12, <1>0 DEF WorkerReaps, GiveBack, Release, NodeFails, history,
        pipes, pool, OrphanInv, Orphan, Restarting, LockInv, NewestInv, Held
  <1>13. CASE StartFails
    BY <1>13, <1>0 DEF StartFails, AwaitsChild, Newborn, GiveBack, Release,
        NodeFails, pipes, history, OrphanInv, Orphan, Restarting, LockInv,
        NewestInv, Held
  <1>14. CASE WatchdogFires
    BY <1>14, <1>0 DEF WatchdogFires, proxy, pipes, pool, ends, OrphanInv,
        Orphan, Restarting, LockInv, NewestInv, Held
  <1>15. CASE Interrupt
    BY <1>15, <1>0 DEF Interrupt, pipes, pool, ends, history, OrphanInv,
        Orphan, Restarting, LockInv, NewestInv, Held
  <1>16. CASE WatchdogReaps
    BY <1>16, <1>0 DEF WatchdogReaps, pipes, pool, ends, history, OrphanInv,
        Orphan, Restarting, LockInv, NewestInv, Held
  <1>17. CASE RequestStop
    BY <1>17, <1>0 DEF RequestStop, proxy, health, pipes, pool, history,
        OrphanInv, Orphan, Restarting, LockInv, NewestInv, Held
  <1>18. CASE Consume
    BY <1>18, <1>0 DEF Consume, Release, proxy, health, pipes, ends, history,
        OrphanInv, Orphan, Restarting, LockInv, NewestInv, Held
  <1>19. CASE ConsumersLeave
    BY <1>19, <1>0 DEF ConsumersLeave, proxy, health, pipes, ends, history,
        OrphanInv, Orphan, Restarting, LockInv, NewestInv, Held
  <1>. QED
    BY <1>1, <1>2, <1>3, <1>4, <1>5, <1>6, <1>7, <1>8, <1>9, <1>10, <1>11,
        <1>12, <1>13, <1>14, <1>15, <1>16, <1>17, <1>18, <1>19 DEF Still

LEMMA PaidMoves ==
  ASSUME Types, NewestInv, LockInv, Protocol, Paid, Moving
  PROVE  Paid'
  <1>0. restarts \in Nat /\ faults \in Nat /\ interrupts \in Nat
    BY DEF Types, ThreadTypes, PoolTypes
  <1>1. CASE Send
    <2>1. /\ N' = N /\ child' = child /\ replies' = replies /\ conn' = conn
      BY <1>1, SendAsks DEF Send, proxy
    <2>2. Broken' <=> Broken
      BY <2>1 DEF Broken
    <2>. QED BY <1>0, <1>1, <2>2 DEF Send, proxy, health, history, Paid, InTrouble, Count,
         Restarting
  <1>2. CASE ReceiveError
    <2>1. Len(replies[N]) = 1 /\ replies[N][1].kind = "error"
      BY <1>2, ReceiveTakes, AnswerTaken DEF ReceiveError, Reply, HasAnswer
    <2>2. Broken
      BY <2>1 DEF Broken
    <2>. QED BY <1>0, <1>2, <2>2, ReceiveTakes DEF ReceiveError, Caught, proxy, health,
         history, Paid, InTrouble, Count, Restarting
  <1>3. CASE ReceiveAnswer
    <2>1. /\ N' = N /\ child' = child /\ replies'[N] = <<>> /\ conn' = conn
      BY <1>3, ReceiveTakes, AnswerTaken
    <2>2. Len(replies'[N]) = 0
      BY <2>1
    <2>3. Broken' => Broken
      BY <2>1, <2>2 DEF Broken
    <2>4. /\ worker = "receiving" /\ worker' \in {"acking", "ended", "between"}
          /\ UNCHANGED <<restarts, watchdog, faults, interrupts>>
      BY <1>3, ReceiveTakes DEF ReceiveAnswer, Deliver
    <2>. QED BY <1>0, <2>3, <2>4 DEF Paid, InTrouble, Count, Restarting
  <1>4. CASE DecodeFails
    <2>1. /\ worker' # "failed" \/ ~InTrouble'
          /\ UNCHANGED <<restarts, watchdog, interrupts>> /\ faults' = faults + 1
      BY <1>4 DEF DecodeFails, InTrouble
    <2>2. worker # "failed"
      BY <1>4, ReceiveTakes
    <2>. QED BY <1>0, <2>1, <2>2 DEF Paid, Count
  <1>5. CASE Acknowledge
    <2>1. /\ N' = N /\ child' = child /\ replies' = replies
      BY <1>5, AcknowledgeAsks DEF Acknowledge
    <2>2. Broken' => Broken
      BY <1>5, <2>1 DEF Acknowledge, Broken
    <2>3. /\ worker = "acking" /\ worker' \in {"ended", "between"}
          /\ UNCHANGED <<restarts, watchdog, faults, interrupts>>
      BY <1>5 DEF Acknowledge, Deliver, history
    <2>. QED BY <1>0, <2>2, <2>3 DEF Paid, InTrouble, Count, Restarting
  <1>6. CASE ChildIsReady
    <2>1. /\ N' = N /\ child' = child /\ replies'[N] = <<>> /\ conn' = conn
      BY <1>6, ReadyTakes, GreetingTaken
    <2>2. Len(replies'[N]) = 0
      BY <2>1
    <2>3. Broken' => Broken
      BY <2>1, <2>2 DEF Broken
    <2>4. /\ worker \in {"opening", "awaiting"} /\ worker' \in {"between", "checking"}
          /\ UNCHANGED <<restarts, watchdog, faults, interrupts>>
      BY <1>6 DEF ChildIsReady, AwaitsChild, history
    <2>. QED BY <1>0, <2>3, <2>4 DEF Paid, InTrouble, Count, Restarting
  <1>7. CASE WorkerKills
    BY <1>0, <1>7 DEF WorkerKills, proxy, health, history, Paid, InTrouble, Count,
       Restarting
  <1>8. CASE WatchdogKills
    <2>1. conn = None
      BY <1>8 DEF WatchdogKills, NewestInv, Held
    <2>2. Broken /\ Broken'
      BY <1>8, <2>1 DEF WatchdogKills, Broken
    <2>3. /\ watchdog' # "locking"
          /\ UNCHANGED <<worker, restarts, faults, interrupts>>
      BY <1>8 DEF WatchdogKills, history
    <2>. QED BY <1>0, <2>2, <2>3 DEF Paid, InTrouble, Count
  <1>9. CASE StartTimesOut
    <2>1. /\ worker # "failed" /\ worker' = "failed" /\ faults' = faults + 1
          /\ UNCHANGED <<restarts, watchdog, interrupts>>
      BY <1>9 DEF StartTimesOut, AwaitsChild, NodeFails
    <2>2. ~InTrouble'
      BY <2>1 DEF InTrouble
    <2>. QED BY <1>0, <2>1, <2>2 DEF Paid, Count
  <1>10. CASE StartChild
    <2>1. restarts < MaxRestarts
      BY <1>10 DEF StartChild, NewestInv, Held, Restarting
    <2>2. /\ N' = N + 1 /\ N + 1 \in Children /\ N \in Nat
          /\ child'[N + 1].state = "starting" /\ replies' = replies
      BY <1>10, <2>1, NewestIsChild, StartingChild DEF Types, PipeTypes
    <2>3. replies'[N + 1] = <<>>
      BY <2>2 DEF NewestInv, Future
    <2>4. Len(replies'[N + 1]) = 0
      BY <2>3
    <2>5. conn' = N + 1 /\ N + 1 # None
      <3>1. N + 1 = restarts + 2
        BY <1>0 DEF N
      <3>. QED BY <1>10, <2>2, <3>1, Bounds DEF StartChild
    <2>6. ~Broken'
      BY <2>2, <2>4, <2>5 DEF Broken
    <2>7. /\ worker = "starting" /\ worker' = "awaiting" /\ restarts' = restarts + 1
          /\ UNCHANGED <<watchdog, faults, interrupts>>
      BY <1>10 DEF StartChild, health
    <2>8. InTrouble /\ ~InTrouble'
      BY <2>6, <2>7 DEF InTrouble, Restarting
    <2>. QED BY <1>0, <2>7, <2>8 DEF Paid, Count
  <1>. QED
    BY <1>1, <1>2, <1>3, <1>4, <1>5, <1>6, <1>7, <1>8, <1>9, <1>10 DEF Moving, Shifting

LEMMA OrphanMoves ==
  ASSUME Types, NewestInv, LockInv, Protocol, OrphanInv, Moving
  PROVE  OrphanInv'
  <1>1. CASE Send
    <2>. DEFINE q == [op |-> "call", call |-> call, slot |-> slot]
    <2>1. /\ N' = N /\ child' = child /\ replies' = replies /\ conn = N
          /\ requests'[N] = Append(requests[N], q) /\ q \in Questions
          /\ requests[N] \in Seq(Questions)
      BY <1>1, SendAsks DEF Wrote, PipeTypes
    <2>2. Quiet
      BY <1>1, SendAsks DEF Send, Protocol, Resting
    <2>3. requests[N] = <<>> \/ requests'[N][1] = requests[N][1]
      <3>1. CASE Len(requests[N]) = 0
        BY <2>1, <3>1, EmptySeq
      <3>2. CASE Len(requests[N]) # 0
        <4>1. 1 \in 1..Len(requests[N])
          BY <2>1, <3>2, Putting
        <4>. QED BY <2>1, <4>1, Putting
      <3>. QED BY <3>1, <3>2
    <2>4. requests'[N] # <<>>
      BY <2>1, Putting
    <2>5. Stuck' => Stuck
      BY <2>1, <2>3, <2>4 DEF Stuck
    <2>. QED BY <1>1, <2>1, <2>5 DEF Send, OrphanInv, Orphan, history
  <1>2. CASE ReceiveError
    <2>1. /\ N' = N /\ child' = child /\ HasAnswer /\ Reply = replies[N][1]
      BY <1>2, ReceiveTakes, AnswerTaken DEF Reply
    <2>2. child[N].state # "acking"
      BY <1>2, <2>1 DEF HasAnswer, ReceiveError
    <2>. QED BY <2>1, <2>2 DEF OrphanInv, Orphan, Stuck
  <1>3. CASE ReceiveAnswer
    <2>1. /\ N' = N /\ child' = child /\ HasAnswer /\ Reply = replies[N][1]
      BY <1>3, ReceiveTakes, AnswerTaken DEF Reply
    <2>2. child[N].state # "acking" \/ worker' = "acking"
      BY <1>3, <2>1 DEF HasAnswer, ReceiveAnswer
    <2>. QED BY <2>1, <2>2 DEF OrphanInv, Orphan, Stuck
  <1>4. CASE DecodeFails
    <2>1. faults' > 0
      BY <1>4 DEF DecodeFails, Types, PoolTypes
    <2>2. setup'.policy = "skip" \/ worker' \in {"excepting", "failed"}
      BY <1>4 DEF DecodeFails, Escape, NodeFails, Caught
    <2>. QED BY <2>1, <2>2 DEF OrphanInv
  <1>5. CASE Acknowledge
    <2>. DEFINE q == [op |-> "ack", call |-> call, slot |-> None]
    <2>1. /\ N' = N /\ requests'[N] = Append(requests[N], q)
          /\ q \in Questions /\ requests[N] = <<>>
      BY <1>5, AcknowledgeAsks, AcknowledgedIsQuiet
      DEF Wrote, Acknowledge, Protocol, Acking, AckAwaited, Alive
    <2>2. requests'[N] # <<>> /\ requests'[N][1] = q
      BY <2>1
    <2>. QED BY <2>1, <2>2 DEF OrphanInv, Orphan, Stuck
  <1>6. CASE ChildIsReady
    <2>1. N' = N /\ child' = child /\ child[N].state \in {"idle", "dead"}
      BY <1>6, ReadyTakes, GreetingTaken
    <2>. QED BY <2>1 DEF OrphanInv, Orphan, Stuck
  <1>7. CASE WorkerKills \/ WatchdogKills \/ StartTimesOut
    <2>1. conn' = None
      BY <1>7 DEF WorkerKills, WatchdogKills, StartTimesOut, NewestInv, Held, Restarting,
         proxy
    <2>2. N' # None
      BY <1>7, KillsEnd
    <2>. QED BY <2>1, <2>2 DEF OrphanInv, Orphan
  <1>8. CASE StartChild
    <2>1. restarts < MaxRestarts
      BY <1>8 DEF StartChild, NewestInv, Held, Restarting
    <2>2. N' = N + 1 /\ child'[N + 1].state = "starting"
      BY <1>8, <2>1, NewestIsChild, StartingChild DEF Types, PipeTypes
    <2>. QED BY <2>2 DEF OrphanInv, Orphan, Stuck
  <1>. QED
    BY <1>1, <1>2, <1>3, <1>4, <1>5, <1>6, <1>7, <1>8 DEF Moving, Shifting

\* What a step of a child breaks: a fault does, or a request that comes instead of
\* the acknowledgement an orphan waits for.
LEMMA ChildBreaks ==
  ASSUME Types, NewestInv, DeathsInv, ~late, Protocol,
         NEW g \in Children, ChildAct(g), ChildStep(g), conn = N
  PROVE  Broken' => Broken \/ Orphan
  <1>0. /\ N \in Children /\ N' = N /\ conn' = conn /\ worker' = worker /\ PipeTypes
        /\ child[N].state # "dead" /\ N # None /\ g = N
        /\ Connected(N)
    BY ChildStepFacts
  <1>1. \/ Greets(N) \/ Takes(N) \/ Parts(N) \/ Objects(N) \/ Responds(N)
        \/ HearsOut(N) \/ Leaves(N)
    BY <1>0, ChildEffects
  <1>2. worker \notin {"killing", "reaping", "starting"}
    BY <1>0 DEF NewestInv, Held, Restarting
  <1>3. Quiet \/ Asking \/ HasAnswer \/ AckAwaited \/ Opening
    BY <1>0, <1>2 DEF Protocol, Resting, Waiting, Acking, Greeted, Types, ThreadTypes
  <1>4. worker = "acking" => AckAwaited
    BY <1>0 DEF Protocol, Acking
  <1>5. CASE Takes(N) \/ HearsOut(N)
    BY <1>0, <1>5 DEF Takes, HearsOut, Broken
  <1>6. CASE Greets(N) \/ Responds(N)
    <2>1. PICK r \in Answers, state \in {"idle", "acking"} :
             Told(N, r, state) /\ r.kind # "error"
      BY <1>6 DEF Greets, Responds
    <2>2. replies[N] = <<>>
      BY <1>0, <1>3, <1>6 DEF Greets, Responds, Quiet, Asking, HasAnswer, AckAwaited, Opening
    <2>3. Len(replies'[N]) = 1 /\ replies'[N][1] = r /\ child'[N].state = state
      BY <1>0, <2>1, <2>2, SaidAlone
    <2>4. \A i \in 1..Len(replies'[N]) : i = 1
      BY <2>3
    <2>. QED BY <1>0, <2>1, <2>3, <2>4 DEF Broken
  <1>7. CASE Objects(N)
    <2>1. child[N].state = "acking" /\ requests[N][1].op # "ack" /\ requests[N] # <<>>
          /\ Asking
      BY <1>0, <1>3, <1>7 DEF Objects, Hears, Quiet, Asking, Asks, HasAnswer, AckAwaited,
         Opening
    <2>2. worker # "acking"
      BY <1>4, <2>1 DEF AckAwaited
    <2>3. requests[N][1].op = "call" /\ replies[N] = <<>>
      BY <2>1 DEF Asking, Asks
    <2>. QED BY <1>0, <2>1, <2>2, <2>3 DEF Orphan, Stuck
  <1>8. CASE Parts(N)
    BY <1>0, <1>3, <1>8 DEF Parts, Hears, Quiet, Asking, Asks, HasAnswer, AckAwaited, Opening
  <1>9. CASE Leaves(N)
    BY <1>0, <1>9 DEF Leaves
  <1>. QED BY <1>1, <1>5, <1>6, <1>7, <1>8, <1>9

LEMMA PaidOfChild ==
  ASSUME Types, NewestInv, LockInv, DeathsInv, ~late, Protocol, Paid, OrphanInv,
         NEW g \in Children, ChildStep(g) \/ Fault(g)
  PROVE  Paid'
  <1>0. restarts \in Nat /\ faults \in Nat /\ interrupts \in Nat
    BY DEF Types, ThreadTypes, PoolTypes
  <1>1. /\ UNCHANGED <<restarts, worker, watchdog, interrupts, conn, setup>>
        /\ \/ FaultAct(g) /\ faults' = faults + 1
           \/ ChildAct(g) /\ faults' = faults
    BY ChildFrame DEF ThreadVars, proxy, health
  <1>2. CASE faults' = faults + 1
    BY <1>0, <1>1, <1>2 DEF Paid, InTrouble, Count
  <1>3. CASE ChildAct(g) /\ faults' = faults
    <2>0. ChildStep(g)
      BY <1>0, <1>3 DEF Fault
    <2>1. CASE conn = None
      <3>1. Broken /\ Broken'
        BY <1>1, <2>1 DEF Broken
      <3>. QED BY <1>0, <1>1, <1>3, <3>1 DEF Paid, InTrouble, Count
    <2>2. CASE conn = N
      <3>1. Broken' => Broken \/ Orphan
        BY <1>3, <2>0, <2>2, ChildBreaks
      <3>2. CASE Broken' => Broken
        BY <1>0, <1>1, <1>3, <3>2 DEF Paid, InTrouble, Count
      <3>3. CASE Orphan /\ worker \in {"excepting", "closing", "failed"}
        BY <1>0, <1>1, <1>3, <3>3 DEF Paid, InTrouble, Count, Restarting
      <3>4. CASE Orphan /\ worker \notin {"excepting", "closing", "failed"}
        <4>1. faults > 0 /\ restarts = 0 /\ (watchdog = "locking" => interrupts > 0)
          BY <3>4 DEF OrphanInv, LockInv
        <4>. QED BY <1>0, <1>1, <1>3, <3>4, <4>1 DEF Paid, Count
      <3>. QED BY <3>1, <3>2, <3>3, <3>4
    <2>. QED BY <2>1, <2>2 DEF NewestInv, Held
  <1>. QED BY <1>1, <1>2, <1>3

LEMMA OrphanOfChild ==
  ASSUME Types, NewestInv, DeathsInv, ~late, NEW g \in Children, ChildStep(g) \/ Fault(g)
  PROVE  OrphanInv'
  <1>. SUFFICES ASSUME Orphan' PROVE FALSE
    BY DEF OrphanInv
  <1>0. /\ N \in Children /\ N' = N /\ conn' = conn /\ PipeTypes /\ Effect(N)
        /\ Connected(N) <=> conn = N \/ worker = "receiving"
    BY ChildStepFacts
  <1>1. conn = N /\ child'[N].state = "acking" /\ replies'[N] = <<>>
    BY <1>0 DEF Orphan, Stuck
  <1>2. Responds(N)
    BY <1>0, <1>1 DEF Effect, Greets, Takes, Parts, Objects, HearsOut, Leaves, Raises,
       Hangs, Dies, Told
  <1>3. PICK r \in Answers : replies'[N] = Append(replies[N], r)
    BY <1>0, <1>1, <1>2 DEF Responds, Told
  <1>4. replies'[N] # <<>>
    BY <1>0, <1>3, Putting DEF PipeTypes
  <1>. QED BY <1>1, <1>4

LEMMA TroubleKept ==
  ASSUME Types, NewestInv, LockInv, PoolInv, DeathsInv, LateInv, Protocol, Paid, OrphanInv,
         Next, main = "running", main' = "running"
  PROVE  Paid' /\ OrphanInv'
  <1>1. ~late
    BY DEF LateInv
  <1>2. CASE Still
    BY <1>1, <1>2, PaidStill, OrphanStill
  <1>3. CASE Moving
    BY <1>3, PaidMoves, OrphanMoves
  <1>4. ASSUME NEW g \in Children, ChildStep(g) \/ Fault(g) PROVE Paid' /\ OrphanInv'
    BY <1>1, <1>4, PaidOfChild, OrphanOfChild
  <1>. QED BY <1>2, <1>3, <1>4, RunningSteps

(***************************************************************************)
(* The theorems.                                                           *)
(***************************************************************************)
Running == Protocol /\ Intact /\ Paid /\ OrphanInv /\ ~strange

\* The invariant holds at first,
LEMMA InvInit == ASSUME Init PROVE NodeInv
  <1>0. /\ Calls \in Nat \ {0} /\ MaxRestarts \in Nat /\ MaxFaults \in Nat
        /\ N = 1 /\ 1 \in Children /\ None # 1 /\ None \notin Slots
    BY Bounds DEF Init, N, Children
  <1>a. restarts \in 0..MaxRestarts /\ faults \in 0..MaxFaults /\ interrupts \in Nat
        /\ call \in Nat
    BY <1>0 DEF Init
  <1>b. ThreadTypes
    BY <1>0, <1>a DEF Init, ThreadTypes
  <1>c. FlagTypes /\ PoolTypes
    BY <1>a DEF Init, FlagTypes, PoolTypes
  <1>1. ThreadTypes /\ FlagTypes /\ PoolTypes
    BY <1>b, <1>c
  <1>2. /\ child \in [Children -> [state: States, call: Nat, slot: Slots \cup {None},
                                   made: Nat]]
        /\ child[1].state = "starting"
        /\ \A g \in Children : g > 1 => child[g] = Unborn
    BY <1>0 DEF Init, Unborn, States
  <1>3. /\ <<>> \in Seq(Questions) /\ <<>> \in Seq(Answers)
        /\ requests = [g \in Children |-> <<>>] /\ replies = [g \in Children |-> <<>>]
    BY DEF Init
  <1>4. PipeTypes
    BY <1>2, <1>3 DEF PipeTypes
  <1>5. NewestInv
    BY <1>0, <1>2, <1>3 DEF Init, NewestInv, Held, Future, Restarting
  <1>6. LockInv
    BY DEF Init, LockInv, Restarting
  <1>7. PoolInv
    BY <1>0 DEF Init, PoolInv, SlotsAccounted
  <1>8. DeathsInv /\ LateInv
    BY <1>0 DEF Init, DeathsInv, LateInv, Forgotten, Children
  <1>9. \A g \in Children : /\ requests[g] = <<>> /\ replies[g] = <<>>
                            /\ Len(requests[g]) = 0 /\ Len(replies[g]) = 0
    BY <1>3
  <1>10. Protocol
    BY <1>0, <1>2, <1>9
    DEF Init, Protocol, Lengths, Resting, Waiting, Acking, Greeted, Opening
  <1>11. Intact
    BY <1>0, <1>2, <1>9 DEF Intact
  <1>12. ~Broken
    BY <1>0, <1>2, <1>9 DEF Init, Broken
  <1>13. Paid
    BY <1>12 DEF Init, Paid, InTrouble, Count, Restarting
  <1>14. OrphanInv /\ ~strange
    BY <1>0, <1>2 DEF Init, OrphanInv, Orphan, Stuck
  <1>. QED
    BY <1>1, <1>4, <1>5, <1>6, <1>7, <1>8, <1>10, <1>11, <1>13, <1>14 DEF NodeInv, Types

\* A main thread that runs has always run: nothing it lets go of comes back.
LEMMA MainGoesOn == ASSUME Next, main' = "running" PROVE main = "running"
  <1>1. ASSUME NEW g \in Children, ChildStep(g) \/ Fault(g) PROVE main = "running"
    BY <1>1, ChildFrame DEF ThreadVars, ends
  <1>2. CASE Begin
    BY <1>2 DEF Begin, Flush, pipes, pool, ends, history
  <1>3. CASE Check
    BY <1>3 DEF Check, Caught, proxy, health, pipes, pool, ends, history
  <1>4. CASE Reserve
    BY <1>4 DEF Reserve, health, pipes, ends, history
  <1>5. CASE ReserveFails
    BY <1>5 DEF ReserveFails, Escape, GiveBack, Release, NodeFails, pipes,
        history
  <1>6. CASE Send
    BY <1>6 DEF Send, proxy, health, pool, ends, history
  <1>7. CASE Listen
    BY <1>7 DEF Listen, health, pipes, pool, ends, history
  <1>8. CASE PipeBroken
    BY <1>8 DEF PipeBroken, Caught, proxy, health, pipes, pool, ends, history
  <1>9. CASE ConnectionGone
    BY <1>9 DEF ConnectionGone, Escape, GiveBack, Release, NodeFails, pipes,
        history
  <1>10. CASE ReceiveError
    BY <1>10 DEF ReceiveError, Answered, TakeAnswer, Caught, Reply, proxy,
        health, pool, ends, history
  <1>11. CASE ReceiveAnswer
    BY <1>11 DEF ReceiveAnswer, Answered, TakeAnswer, Deliver, Release,
        Reply, pool, ends
  <1>12. CASE Acknowledge
    BY <1>12 DEF Acknowledge, Deliver, Release, ends, history
  <1>13. CASE Skip
    BY <1>13 DEF Skip, ReturnNothing, GiveBack, Release, Flush, health,
        pipes, ends, history
  <1>14. CASE Recover
    BY <1>14 DEF Recover, health, pipes, pool, ends, history
  <1>15. CASE GiveUp
    BY <1>15 DEF GiveUp, GiveBack, Release, NodeFails, pipes, history
  <1>16. CASE WorkerCloses
    BY <1>16 DEF WorkerCloses, health, pipes, pool, ends, history
  <1>17. CASE WorkerKills
    BY <1>17 DEF WorkerKills, EndProcess, proxy, health, pool, ends, history
  <1>18. CASE WorkerReaps
    BY <1>18 DEF WorkerReaps, GiveBack, Release, NodeFails, history, pipes,
        pool
  <1>19. CASE StartChild
    BY <1>19 DEF StartChild, health, pool, ends
  <1>20. CASE ChildIsReady
    BY <1>20 DEF ChildIsReady, AwaitsChild, Newborn, TakeAnswer, GiveBack,
        Release, pool, ends, history
  <1>21. CASE StartFails
    BY <1>21 DEF StartFails, AwaitsChild, Newborn, GiveBack, Release,
        NodeFails, pipes, history
  <1>22. CASE DecodeFails
    BY <1>22 DEF DecodeFails, Answered, TakeAnswer, Reply, Escape, Caught,
        GiveBack, Release, NodeFails, pool
  <1>23. CASE StartTimesOut
    BY <1>23 DEF StartTimesOut, AwaitsChild, Newborn, EndProcess, GiveBack,
        Release, NodeFails
  <1>24. CASE WatchdogFires
    BY <1>24 DEF WatchdogFires, proxy, pipes, pool, ends
  <1>25. CASE Interrupt
    BY <1>25 DEF Interrupt, pipes, pool, ends, history
  <1>26. CASE WatchdogKills
    BY <1>26 DEF WatchdogKills, EndProcess, pool, ends, history
  <1>27. CASE WatchdogReaps
    BY <1>27 DEF WatchdogReaps, pipes, pool, ends, history
  <1>28. CASE RequestStop
    BY <1>28 DEF RequestStop, proxy, health, pipes, pool, history
  <1>29. CASE MainCloses
    BY <1>29 DEF MainCloses, proxy, health, pool, history
  <1>30. CASE MainPolls
    BY <1>30 DEF MainPolls, TakeAnswer, proxy, health, pool, history
  <1>31. CASE MainClosesPipe
    BY <1>31 DEF MainClosesPipe, health, pipes, pool, history
  <1>32. CASE MainKills
    BY <1>32 DEF MainKills, EndProcess, proxy, health, pool, history
  <1>33. CASE MainReaps
    BY <1>33 DEF MainReaps, health, pipes, pool, history
  <1>34. CASE MainBreaks
    BY <1>34 DEF MainBreaks, proxy, health, pipes, pool, history
  <1>35. CASE ClosePool
    BY <1>35 DEF ClosePool, proxy, health, pipes, history
  <1>36. CASE Consume
    BY <1>36 DEF Consume, Release, proxy, health, pipes, ends, history
  <1>37. CASE ConsumersLeave
    BY <1>37 DEF ConsumersLeave, proxy, health, pipes, ends, history
  <1>. QED
    BY <1>1, <1>2, <1>3, <1>4, <1>5, <1>6, <1>7, <1>8, <1>9, <1>10, <1>11,
        <1>12, <1>13, <1>14, <1>15, <1>16, <1>17, <1>18, <1>19, <1>20, <1>21,
        <1>22, <1>23, <1>24, <1>25, <1>26, <1>27, <1>28, <1>29, <1>30, <1>31,
        <1>32, <1>33, <1>34, <1>35, <1>36, <1>37 DEF Next, WorkerStep,
        WatchdogStep, MainStep

\* every step keeps it, conjunct by conjunct,
LEMMA InvNext == ASSUME NodeInv, [Next]_vars PROVE NodeInv'
  <1>0. /\ Types /\ NewestInv /\ LockInv /\ PoolInv /\ DeathsInv /\ LateInv
        /\ main = "running" => Running
    BY DEF NodeInv, Running
  <1>1. CASE Next
    <2>1. Types' /\ Held' /\ Future' /\ LockInv' /\ PoolInv' /\ DeathsInv' /\ LateInv'
      BY <1>0, <1>1, TypesKept, HeldKept, FutureKept, LockKept, SlotsKept, DeathsKept,
         LateKept
    <2>2. ASSUME main' = "running" PROVE Running'
      <3>1. main = "running" /\ Running
        BY <1>0, <1>1, <2>2, MainGoesOn
      <3>2. Protocol' /\ Intact' /\ ~strange'
        BY <1>0, <1>1, <2>2, <3>1, ProtocolKept, IntactKept, OwnKept DEF Running
      <3>3. Paid' /\ OrphanInv'
        BY <1>0, <1>1, <2>2, <3>1, TroubleKept DEF Running
      <3>. QED BY <3>2, <3>3 DEF Running
    <2>. QED BY <2>1, <2>2 DEF NodeInv, NewestInv, Running
  <1>2. CASE UNCHANGED vars
    BY <1>2 DEF vars, proxy, health, pipes, pool, ends, history, NodeInv, Types,
       ThreadTypes, FlagTypes, PipeTypes, PoolTypes, NewestInv, Held, Future, N,
       Restarting, LockInv, PoolInv, SlotsAccounted, DeathsInv, Forgotten, LateInv,
       Protocol, Lengths, Resting, Waiting, Acking, Greeted, Quiet, Asking, Asks,
       HasAnswer, AckAwaited, Opening, Intact, Paid, InTrouble, Broken, Count,
       OrphanInv, Orphan, Stuck
  <1>. QED BY <1>1, <1>2

\* so it holds of the specification.
LEMMA InvHolds == Spec => []NodeInv
  BY InvInit, InvNext, PTL DEF Spec

\* The shared attributes of the proxy and the pipes have their types, and until main
\* closes the node no pipe holds more than a call and an acknowledgement or an answer.
THEOREM NodeTypeCorrect == Spec => []TypeOK
  <1>1. NodeInv => TypeOK
    BY DEF NodeInv, Types, ThreadTypes, FlagTypes, PipeTypes, PoolTypes, Protocol, Lengths,
       TypeOK
  <1>. QED BY <1>1, InvHolds, PTL

\* While the node runs a call takes the answer to its own request, no slot of the
\* pool is lost or held twice, and no child writes where a delivered message lives.
THEOREM ExchangeIsSafe == Spec => []SafeExchange
  <1>1. ASSUME NodeInv PROVE SafeExchange
    <2>1. OwnAnswers
      BY <1>1 DEF NodeInv, OwnAnswers
    <2>2. SlotsAccounted
      BY <1>1 DEF NodeInv, PoolInv
    <2>3. MessagesIntact
      <3>. SUFFICES ASSUME main = "running", NEW g \in Children,
                           child[g].state \in {"working", "hung"}
                    PROVE  child[g].slot \notin downstream
        BY DEF MessagesIntact
      <3>1. N \in Children /\ ~late
        BY <1>1, NewestIsChild DEF NodeInv, Types, LateInv
      <3>2. ~(g < N) /\ ~(g > N)
        BY <1>1, <3>1 DEF NodeInv, NewestInv, Future, DeathsInv, Unborn
      <3>3. g = N
        BY <3>1, <3>2, Bounds DEF Children
      <3>. QED BY <1>1, <3>3 DEF NodeInv, Intact
    <2>. QED BY <2>1, <2>2, <2>3 DEF SafeExchange
  <1>. QED BY <1>1, InvHolds, PTL

\* A restart or the loss of the node is paid for by a fault or an interrupt, and once
\* the node is closed and its worker done no child is left.
THEOREM LifetimesHold == Spec => []Lifetimes
  <1>1. ASSUME NodeInv PROVE Lifetimes
    <2>1. TroublePaid
      <3>. SUFFICES ASSUME main = "running"
                    PROVE  restarts + (IF worker = "failed" THEN 1 ELSE 0)
                              <= faults + interrupts
        BY DEF TroublePaid
      <3>1. Paid /\ restarts \in Nat /\ faults \in Nat /\ interrupts \in Nat
        BY <1>1, Bounds DEF NodeInv, Types, ThreadTypes, PoolTypes
      <3>. QED BY <3>1 DEF Paid, Count
    <2>2. ChildrenReaped
      <3>. SUFFICES ASSUME main = "closed", ~late, NEW g \in Children
                    PROVE  ~Alive(g)
        BY DEF ChildrenReaped
      <3>1. N \in Children /\ child[N].state = "dead"
               /\ \A h \in Children : h < N => child[h].state = "dead"
        BY <1>1, NewestIsChild DEF NodeInv, Types, DeathsInv, Forgotten
      <3>2. g > N => child[g].state = "unborn"
        BY <1>1 DEF NodeInv, NewestInv, Future, Unborn
      <3>3. g < N \/ g = N \/ g > N
        BY <3>1, Bounds DEF Children
      <3>. QED BY <3>1, <3>2, <3>3 DEF Alive
    <2>. QED BY <2>1, <2>2 DEF Lifetimes
  <1>. QED BY <1>1, InvHolds, PTL

=============================================================================
