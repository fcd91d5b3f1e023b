----------------------------- MODULE StreamsProofs -----------------------------
(***************************************************************************)
(* Theorems about Streams: its types, the clients the server lists, and    *)
(* the order in which a subscriber receives, for any number of             *)
(* subscribers, connections, messages and faults.                          *)
(***************************************************************************)
EXTENDS Streams, FiniteSetTheorems, TLAPS

(***************************************************************************)
(* The inductive invariant.                                                *)
(***************************************************************************)

\* TypeOK but for the lengths of the wires.
HubTypes ==
    /\ exported \in Queues /\ asked \in [Subscribers -> Queues]
    /\ published \in 0..MaxMessages /\ packet \in 0..MaxMessages
    /\ incoming \in AtMostOne
    /\ broadcast \in {"get", "put", "ended"}
    /\ targets \in Seq(Conns)
    /\ broadcast = "put" => targets # <<>> /\ packet # 0
ServerTypes ==
    /\ clients \in Seq(Conns) /\ doomed \in Seq(Conns)
    /\ acceptor \in {"accept", "ended"}
    /\ thread \in [Conns -> {"none", "hello", "listed", "stranded", "get", "send",
                             "finish"}]
    /\ queue \in [Conns -> AtMostOne]
    /\ deaf \subseteq Conns
    /\ closing \in {"up", "stopping", "draining", "down"}
    /\ faults \in 0..MaxFaults
LinkTypes ==
    /\ near \in [Conns -> {"waiting", "open", "closed"}]
    /\ far \in [Conns -> {"open", "held", "reset", "closed"}]
    /\ reply \in [Conns -> {"none", "ok", "no"}]
    /\ wire \in [Conns -> Seq(1..MaxMessages)]
ReaderTypes ==
    /\ reader \in [Subscribers -> {"dial", "reply", "recv", "ended", "stuck"}]
    /\ conn \in [Subscribers -> Conns \cup {None}]
    /\ sock \in [Subscribers -> Conns \cup {None}]
    /\ again \in [Subscribers -> BOOLEAN]
    /\ tried \in [Subscribers -> Nat]
    /\ \A u \in Subscribers : tried[u] <= Attempts[u]
    /\ spent \in [Subscribers -> 0..Budget]
    /\ shut \subseteq Closers
    /\ got \in [Subscribers -> 0..MaxMessages] /\ stale \subseteq Subscribers
    /\ \A u \in Subscribers : reader[u] \in {"reply", "recv"} => conn[u] \in Conns
Types == HubTypes /\ ServerTypes /\ LinkTypes /\ ReaderTypes

\* The list of clients is that of the threads, and a connection that nobody has
\* accepted has none.
Roster ==
    /\ ClientsAccounted
    /\ \A c \in Conns : near[c] = "waiting" => thread[c] = "none"

\* Where there is nothing to read, or to send: a subscriber that has closed its end
\* has nothing to read, a connection that is not served yet has been sent nothing,
\* a sender in its loop found room, and one that has ended left nothing.
Unserved(c) == near[c] = "waiting" \/ thread[c] \in {"hello", "listed"}
Idleness ==
    \A c \in Conns :
        /\ far[c] = "closed" \/ Unserved(c) => wire[c] = <<>>
        /\ Len(wire[c]) <= WireRoom + 1
        /\ thread[c] = "get" => Len(wire[c]) <= WireRoom
        /\ thread[c] \in {"none", "hello"} => queue[c] = <<>>

\* The broadcast serves nobody that has not been listed.
Untargeted ==
    \A c \in Conns : near[c] = "waiting" \/ thread[c] = "hello" =>
        \A i \in 1..Len(targets) : targets[i] # c

\* On the way to a subscriber the messages of one connection are in order: on the
\* wire, in the client's queue, in the hands of the broadcast and in the stream's queue.
Due(c) == broadcast = "put" /\ \E i \in 1..Len(targets) : targets[i] = c
InWay(c) ==
    /\ \A i, j \in 1..Len(wire[c]) : i < j => wire[c][i] < wire[c][j]
    /\ \A i \in 1..Len(wire[c]) :
        /\ wire[c][i] <= published
        /\ queue[c] # <<>> => wire[c][i] < queue[c][1]
        /\ Due(c) => wire[c][i] < packet
        /\ incoming # <<>> => wire[c][i] < incoming[1]
    /\ queue[c] # <<>> =>
        /\ queue[c][1] <= published
        /\ Due(c) => queue[c][1] < packet
        /\ incoming # <<>> => queue[c][1] < incoming[1]
AtHub ==
    /\ incoming # <<>> => incoming[1] <= published
    /\ incoming # <<>> /\ broadcast = "put" => packet < incoming[1]
    /\ broadcast = "put" => packet <= published
    /\ IsInjective(targets)

\* Nothing that is on the way to a subscriber is as old as what it has.
Ahead(m, c) ==
    /\ \A i \in 1..Len(wire[c]) : m < wire[c][i]
    /\ queue[c] # <<>> => m < queue[c][1]
    /\ Due(c) => m < packet
News(u) ==
    /\ got[u] <= published
    /\ incoming # <<>> => got[u] < incoming[1]
    /\ conn[u] \in Conns => Ahead(got[u], conn[u])
Order ==
    /\ AtHub
    /\ \A c \in Conns : InWay(c)
    /\ \A u \in Subscribers : News(u)

StreamInv == Types /\ Roster /\ Idleness /\ Untargeted /\ Order /\ stale = {}

-----------------------------------------------------------------------------
(***************************************************************************)
(* Constants and sequences.                                                *)
(***************************************************************************)

LEMMA Constants ==
    /\ MaxMessages \in Nat \ {0} /\ MaxClients \in Nat /\ WireRoom \in Nat
    /\ MaxFaults \in Nat /\ Budget \in Nat
    /\ Attempts \in [Subscribers -> Nat] /\ Owner \in [Conns -> Subscribers]
    /\ None \notin Subscribers /\ None \notin Conns
    /\ Closers \subseteq Subscribers
  BY StreamAssumption, SubscriberAssumption

\* A queue of one.
LEMMA OneQueue ==
  /\ <<>> \in AtMostOne
  /\ \A m \in 1..MaxMessages : <<m>> \in AtMostOne /\ <<m>> # <<>> /\ <<m>>[1] = m
  /\ \A q \in AtMostOne : q # <<>> => /\ q[1] \in 1..MaxMessages /\ Head(q) = q[1]
                                      /\ q = <<q[1]>> /\ Len(q) = 1
  BY DEF AtMostOne

LEMMA HeadAndTail ==
  ASSUME NEW S, NEW s \in Seq(S), s # <<>>
  PROVE  /\ Tail(s) \in Seq(S) /\ Len(Tail(s)) = Len(s) - 1 /\ Len(s) \in Nat \ {0}
         /\ \A i \in 1..Len(s) - 1 : Tail(s)[i] = s[i + 1]
         /\ Head(s) = s[1] /\ Head(s) \in S
         /\ \A i \in 1..Len(s) : s[i] \in S
  OBVIOUS

\* Lists of connections and wires.
LEMMA ListOfConns ==
  ASSUME NEW s \in Seq(Conns), s # <<>>
  PROVE  /\ Tail(s) \in Seq(Conns) /\ Len(Tail(s)) = Len(s) - 1 /\ Len(s) \in Nat \ {0}
         /\ \A i \in 1..Len(s) - 1 : Tail(s)[i] = s[i + 1]
         /\ Head(s) = s[1] /\ Head(s) \in Conns
         /\ \A i \in 1..Len(s) : s[i] \in Conns
         /\ Len(s) # 1 => Tail(s) # <<>>
  <1>1. /\ Tail(s) \in Seq(Conns) /\ Len(Tail(s)) = Len(s) - 1 /\ Len(s) \in Nat \ {0}
        /\ \A i \in 1..Len(s) - 1 : Tail(s)[i] = s[i + 1]
        /\ Head(s) = s[1] /\ Head(s) \in Conns
        /\ \A i \in 1..Len(s) : s[i] \in Conns
    BY HeadAndTail
  <1>2. Len(s) # 1 => Len(Tail(s)) # 0
    BY <1>1
  <1>3. Len(<<>>) = 0
    OBVIOUS
  <1>. QED BY <1>1, <1>2, <1>3

LEMMA Wires ==
  ASSUME NEW s \in Seq(1..MaxMessages), s # <<>>
  PROVE  /\ Tail(s) \in Seq(1..MaxMessages) /\ Len(Tail(s)) = Len(s) - 1
         /\ Len(s) \in Nat \ {0}
         /\ \A i \in 1..Len(s) - 1 : Tail(s)[i] = s[i + 1]
         /\ Head(s) = s[1] /\ Head(s) \in 1..MaxMessages
         /\ \A i \in 1..Len(s) : s[i] \in 1..MaxMessages
  BY HeadAndTail

LEMMA Empty ==
  ASSUME NEW S, NEW s \in Seq(S)
  PROVE  (s = <<>> <=> Len(s) = 0) /\ Len(s) \in Nat /\ <<>> \in Seq(S) /\ Len(<<>>) = 0
         /\ DOMAIN s = 1..Len(s)
  OBVIOUS

LEMMA Appending ==
  ASSUME NEW S, NEW s \in Seq(S), NEW x \in S
  PROVE  /\ Append(s, x) \in Seq(S) /\ Len(Append(s, x)) = Len(s) + 1
         /\ \A i \in 1..Len(s) : Append(s, x)[i] = s[i]
         /\ Append(s, x)[Len(s) + 1] = x
  OBVIOUS

LEMMA Joining ==
  ASSUME NEW S, NEW a \in Seq(S), NEW b \in Seq(S)
  PROVE  /\ a \o b \in Seq(S) /\ Len(a \o b) = Len(a) + Len(b)
         /\ \A i \in 1..Len(a) + Len(b) :
                (a \o b)[i] = IF i <= Len(a) THEN a[i] ELSE b[i - Len(a)]
  OBVIOUS

Has(s, x) == \E i \in DOMAIN s : s[i] = x

\* list.remove takes the one occurrence of a client off a list without repetitions.
LEMMA Removing ==
  ASSUME NEW s \in Seq(Conns), IsInjective(s), NEW x
  PROVE  /\ RemoveFirst(s, x) \in Seq(Conns) /\ Len(RemoveFirst(s, x)) <= Len(s)
         /\ IsInjective(RemoveFirst(s, x))
         /\ \A y : Has(RemoveFirst(s, x), y) <=> y # x /\ Has(s, y)
  <1>. DEFINE r == RemoveFirst(s, x)
  <1>1. CASE ~\E i \in 1..Len(s) : s[i] = x
    BY <1>1 DEF RemoveFirst, Has
  <1>2. ASSUME NEW k \in 1..Len(s), s[k] = x
        PROVE  /\ r \in Seq(Conns) /\ Len(r) <= Len(s) /\ IsInjective(r)
               /\ \A y : (\E i \in DOMAIN r : r[i] = y)
                            <=> y # x /\ \E i \in DOMAIN s : s[i] = y
    <2>1. {i \in 1..Len(s) : s[i] = x} = {k}
      BY <1>2 DEF IsInjective
    <2>2. Min({k}) = k
      BY DEF Min
    <2>3. SelectInSeq(s, LAMBDA v : v = x) = k
      BY <2>1, <2>2 DEF SelectInSeq
    <2>4. r = SubSeq(s, 1, k - 1) \o SubSeq(s, k + 1, Len(s))
      BY <1>2, <2>3 DEF RemoveFirst, RemoveAt
    <2>5. /\ SubSeq(s, 1, k - 1) \in Seq(Conns) /\ SubSeq(s, k + 1, Len(s)) \in Seq(Conns)
          /\ Len(SubSeq(s, 1, k - 1)) = k - 1
          /\ Len(SubSeq(s, k + 1, Len(s))) = Len(s) - k
          /\ \A i \in 1..k - 1 : SubSeq(s, 1, k - 1)[i] = s[i]
          /\ \A i \in 1..Len(s) - k : SubSeq(s, k + 1, Len(s))[i] = s[i + k]
      OBVIOUS
    <2>6. /\ r \in Seq(Conns) /\ Len(r) = Len(s) - 1
          /\ \A i \in 1..Len(s) - 1 : r[i] = IF i < k THEN s[i] ELSE s[i + 1]
      <3>. DEFINE a == SubSeq(s, 1, k - 1)
                  b == SubSeq(s, k + 1, Len(s))
      <3>1. /\ a \in Seq(Conns) /\ b \in Seq(Conns) /\ r = a \o b
            /\ Len(a) = k - 1 /\ Len(b) = Len(s) - k
            /\ \A i \in 1..k - 1 : a[i] = s[i]
            /\ \A i \in 1..Len(s) - k : b[i] = s[i + k]
        BY <2>4, <2>5
      <3>. HIDE DEF a, b, r
      <3>2. /\ r \in Seq(Conns) /\ Len(r) = Len(s) - 1
            /\ \A i \in 1..Len(s) - 1 : r[i] = IF i <= k - 1 THEN a[i] ELSE b[i - (k - 1)]
        <4>1. /\ a \o b \in Seq(Conns) /\ Len(a \o b) = Len(a) + Len(b)
              /\ \A i \in 1..Len(a) + Len(b) :
                     (a \o b)[i] = IF i <= Len(a) THEN a[i] ELSE b[i - Len(a)]
          BY <3>1, Joining
        <4>2. Len(a) + Len(b) = Len(s) - 1
          BY <3>1
        <4>. QED BY <3>1, <4>1, <4>2
      <3>3. ASSUME NEW i \in 1..Len(s) - 1
            PROVE  r[i] = IF i < k THEN s[i] ELSE s[i + 1]
        <4>1. CASE i < k
          BY <3>1, <3>2, <4>1
        <4>2. CASE ~(i < k)
          <5>1. i - (k - 1) \in 1..Len(s) - k /\ (i - (k - 1)) + k = i + 1
            BY <4>2
          <5>. QED BY <3>1, <3>2, <4>2, <5>1
        <4>. QED BY <4>1, <4>2
      <3>. QED BY <3>2, <3>3
    <2>. HIDE DEF r
    <2>7. IsInjective(r)
      <3>1. SUFFICES ASSUME NEW i \in 1..Len(s) - 1, NEW j \in 1..Len(s) - 1, r[i] = r[j]
                     PROVE  i = j
        BY <2>6 DEF IsInjective
      <3>. DEFINE f(l) == IF l < k THEN l ELSE l + 1
      <3>2. f(i) \in DOMAIN s /\ f(j) \in DOMAIN s /\ s[f(i)] = s[f(j)]
        BY <2>6, <3>1
      <3>3. f(i) = f(j)
        BY <3>2 DEF IsInjective
      <3>. QED BY <3>3
    <2>8. ASSUME NEW y
          PROVE  (\E i \in DOMAIN r : r[i] = y) <=> y # x /\ \E i \in DOMAIN s : s[i] = y
      <3>1. ASSUME NEW i \in DOMAIN r, r[i] = y
            PROVE  y # x /\ \E j \in DOMAIN s : s[j] = y
        BY <1>2, <2>6, <3>1 DEF IsInjective
      <3>2. ASSUME NEW j \in DOMAIN s, s[j] = y, y # x
            PROVE  \E i \in DOMAIN r : r[i] = y
        <4>1. CASE j < k
          BY <4>1, <2>6, <3>2
        <4>2. CASE j > k
          <5>1. j - 1 \in DOMAIN r /\ r[j - 1] = y
            BY <4>2, <2>6, <3>2
          <5>. QED BY <5>1
        <4>. QED BY <4>1, <4>2, <1>2, <3>2
      <3>. QED BY <3>1, <3>2
    <2>. QED BY <2>6, <2>7, <2>8
  <1>. QED BY <1>1, <1>2 DEF Has

\* SetToSeq lists each member once.
LEMMA Listing ==
  ASSUME NEW S, IsFiniteSet(S)
  PROVE  LET s == SetToSeq(S) IN
         /\ s \in Seq(S) /\ Len(s) = Cardinality(S) /\ IsInjective(s)
         /\ \A x : x \in S <=> \E i \in DOMAIN s : s[i] = x
  <1>. DEFINE n == Cardinality(S)
              s == SetToSeq(S)
  <1>1. n \in Nat /\ ExistsBijection(1..n, S)
    BY FS_CardinalityType
  <1>2. \E f \in [1..n -> S] : IsInjective(f)
    BY <1>1 DEF ExistsBijection, Bijection, Injection
  <1>3. s \in [1..n -> S] /\ IsInjective(s)
    BY <1>2 DEF SetToSeq
  <1>4. IsFiniteSet(1..n) /\ Cardinality(1..n) = n
    BY <1>1, FS_Interval
  <1>5. s \in Injection(1..n, S)
    BY <1>3 DEF Injection
  <1>6. s \in Surjection(1..n, S)
    BY <1>4, <1>5, FS_Injection
  <1>. QED BY <1>1, <1>3, <1>6 DEF Surjection
-----------------------------------------------------------------------------
(***************************************************************************)
(* Types.                                                                  *)
(***************************************************************************)

\* Only the publisher and the broadcast thread touch what lies between them.
LEMMA HubFrame ==
  ASSUME Next
  PROVE  Publish \/ BroadcastStep \/ UNCHANGED hub
  <1>1. ASSUME (Publish \/ TakeIncoming \/ BroadcastEnds
          \/ PutPacket) /\ UNCHANGED cvars
        PROVE  Publish \/ BroadcastStep \/ UNCHANGED hub
    BY <1>1 DEF BroadcastStep
  <1>2. ASSUME (AcceptorEnds \/ SetStop \/ CloseIncoming
          \/ CloseClients) /\ UNCHANGED cvars
        PROVE  Publish \/ BroadcastStep \/ UNCHANGED hub
    BY <1>2 DEF AcceptorEnds, SetStop, CloseIncoming, CloseClients
  <1>3. ASSUME NEW c \in Conns, (Accept(c) \/ HandshakeFails(c) \/ Refuse(c)
          \/ Admit(c) \/ Welcome(c) \/ WelcomeFails(c) \/ TakePacket(c) \/ Sent(c)
          \/ SendFails(c) \/ Leave(c)) /\ UNCHANGED cvars
        PROVE  Publish \/ BroadcastStep \/ UNCHANGED hub
    BY <1>3 DEF Accept, HandshakeFails, Refuse, Admit, Welcome, WelcomeFails,
       TakePacket, Sent, SendFails, Leave, hub
  <1>4. ASSUME NEW u \in Subscribers, Aborts(u) \/ BudgetExhausted(u) \/ Dial(u)
          \/ DialFails(u) \/ Subscribed(u) \/ ConnectFails(u) \/ Receive(u)
          \/ ReceiveFails(u) \/ ReceiveFailsAgain(u)
        PROVE  Publish \/ BroadcastStep \/ UNCHANGED hub
    BY <1>4 DEF Aborts, BudgetExhausted, Dial, DialFails, Subscribed, ConnectFails,
       Receive, ReceiveFails, ReceiveFailsAgain, svars
  <1>5. ASSUME NEW u \in Subscribers, Close(u)
        PROVE  Publish \/ BroadcastStep \/ UNCHANGED hub
    BY <1>5 DEF Close
  <1>6. ASSUME NEW c \in Conns, Reset(c)
        PROVE  Publish \/ BroadcastStep \/ UNCHANGED hub
    BY <1>6 DEF Reset
  <1>. QED
    BY <1>1, <1>2, <1>3, <1>4, <1>5, <1>6
    DEF Next, ServerStep, BroadcastStep, ServerThread, CloseServer, Reader


LEMMA HubTypesKept ==
  ASSUME Types, Next PROVE HubTypes'
  <1>0. /\ HubTypes /\ clients \in Seq(Conns) /\ MaxMessages \in Nat \ {0}
        /\ <<>> \in AtMostOne
    BY Constants, OneQueue DEF Types, ServerTypes
  <1>1. CASE Publish
    BY <1>0, <1>1, OneQueue DEF Publish, HubTypes, AfterPut
  <1>2. CASE TakeIncoming
    <2>1. incoming # <<>> /\ incoming' = <<>> /\ UNCHANGED <<exported, asked, published>>
      BY <1>2 DEF TakeIncoming
    <2>2. Head(incoming) \in 1..MaxMessages
      BY <1>0, <2>1, OneQueue DEF HubTypes
    <2>. QED BY <1>0, <1>2, <2>1, <2>2 DEF TakeIncoming, HubTypes, NextMessage
  <1>3. CASE BroadcastEnds
    BY <1>0, <1>3 DEF BroadcastEnds, HubTypes
  <1>4. CASE PutPacket
    <2>1. /\ targets # <<>> /\ targets \in Seq(Conns) /\ targets' = Tail(targets)
          /\ UNCHANGED <<exported, asked, published, incoming>>
          /\ IF Len(targets) = 1 THEN NextMessage ELSE UNCHANGED <<broadcast, packet>>
      BY <1>0, <1>4 DEF PutPacket, HubTypes
    <2>2. targets' \in Seq(Conns) /\ (Len(targets) # 1 => targets' # <<>>)
      BY <2>1, ListOfConns
    <2>. QED BY <1>0, <2>1, <2>2 DEF NextMessage, HubTypes
  <1>5. CASE UNCHANGED hub
    BY <1>0, <1>5 DEF hub, HubTypes
  <1>. QED BY <1>1, <1>2, <1>3, <1>4, <1>5, HubFrame DEF BroadcastStep

LEMMA ServerTypesKept ==
  ASSUME Types, Roster, Next
  PROVE  ServerTypes'
  <1>0. /\ ServerTypes /\ HubTypes /\ Roster /\ MaxFaults \in Nat
        /\ MaxMessages \in Nat \ {0} /\ <<>> \in Seq(Conns)
    BY Constants, Empty DEF Types
  <1>1. ASSUME (Publish \/ BroadcastEnds) /\ UNCHANGED cvars PROVE ServerTypes'
    BY <1>0, <1>1 DEF Publish, BroadcastEnds, ServerTypes, admission, senders, shutdown
  <1>2. ASSUME TakeIncoming /\ UNCHANGED cvars PROVE ServerTypes'
    BY <1>0, <1>2 DEF TakeIncoming, ServerTypes, OrFault, Fault, admission, senders,
       shutdown
  <1>3. ASSUME PutPacket /\ UNCHANGED cvars PROVE ServerTypes'
    <2>0. /\ targets # <<>> /\ targets \in Seq(Conns) /\ packet \in 1..MaxMessages
      BY <1>0, <1>3 DEF PutPacket, HubTypes
    <2>1. packet \in 1..MaxMessages /\ Head(targets) \in Conns
      BY <2>0, ListOfConns
    <2>2. queue[Head(targets)] \in AtMostOne /\ <<packet>> \in AtMostOne
      BY <1>0, <2>1, OneQueue DEF ServerTypes
    <2>3. queue' \in [Conns -> AtMostOne]
      BY <1>0, <1>3, <2>1, <2>2 DEF PutPacket, AfterPut, ServerTypes
    <2>. QED BY <1>0, <1>3, <2>3 DEF PutPacket, ServerTypes, admission, shutdown
  <1>4. ASSUME AcceptorEnds /\ UNCHANGED cvars PROVE ServerTypes'
    BY <1>0, <1>4 DEF AcceptorEnds, ServerTypes, OrFault, Fault, senders, shutdown
  <1>5. ASSUME SetStop /\ UNCHANGED cvars PROVE ServerTypes'
    BY <1>0, <1>5 DEF SetStop, ServerTypes, Shutdown, admission, senders
  <1>6. ASSUME CloseIncoming /\ UNCHANGED cvars PROVE ServerTypes'
    BY <1>0, <1>6 DEF CloseIncoming, ServerTypes, Shutdown, admission, senders
  <1>7. ASSUME CloseClients /\ UNCHANGED cvars PROVE ServerTypes'
    <2>1. CASE doomed = <<>>
      BY <1>0, <1>7, <2>1 DEF CloseClients, ServerTypes, admission
    <2>2. CASE doomed # <<>>
      <3>1. Tail(doomed) \in Seq(Conns) /\ Head(doomed) \in Conns
        BY <1>0, <2>2, ListOfConns DEF ServerTypes
      <3>. QED BY <1>0, <1>7, <2>2, <3>1 DEF CloseClients, ServerTypes, admission
    <2>. QED BY <2>1, <2>2
  <1>8. ASSUME NEW c \in Conns, (Accept(c) \/ Welcome(c) \/ WelcomeFails(c)
          \/ Sent(c) \/ SendFails(c)) /\ UNCHANGED cvars
        PROVE  ServerTypes'
    BY <1>0, <1>8 DEF Accept, Welcome, WelcomeFails, Sent, SendFails, ServerTypes,
       Goes, NextPacket, senders, shutdown
  <1>9. ASSUME NEW c \in Conns, (HandshakeFails(c) \/ Refuse(c)) /\ UNCHANGED cvars
        PROVE  ServerTypes'
    BY <1>0, <1>9 DEF HandshakeFails, Refuse, ServerTypes, Goes, OrFault, Fault,
       senders, shutdown
  <1>10. ASSUME NEW c \in Conns, Admit(c) /\ UNCHANGED cvars PROVE ServerTypes'
    BY <1>0, <1>10, Appending DEF Admit, ServerTypes, Goes, senders, shutdown
  <1>11. ASSUME NEW c \in Conns, TakePacket(c) /\ UNCHANGED cvars PROVE ServerTypes'
    BY <1>0, <1>11, OneQueue DEF TakePacket, ServerTypes, Goes, shutdown
  <1>12. ASSUME NEW c \in Conns, Leave(c) /\ UNCHANGED cvars PROVE ServerTypes'
    <2>1. clients' \in Seq(Conns)
      BY <1>0, <1>12, Removing DEF Leave, ServerTypes, Roster, ClientsAccounted
    <2>. QED BY <1>0, <1>12, <2>1, OneQueue DEF Leave, ServerTypes, Goes, shutdown
  <1>13. ASSUME NEW u \in Subscribers, Aborts(u) \/ BudgetExhausted(u)
        PROVE  ServerTypes'
    BY <1>0, <1>13 DEF Aborts, BudgetExhausted, ServerTypes, svars, admission, senders,
       shutdown
  <1>14. ASSUME NEW u \in Subscribers, Dial(u) \/ Subscribed(u) \/ Receive(u)
          \/ ReceiveFails(u) \/ ReceiveFailsAgain(u) \/ Close(u)
        PROVE  ServerTypes'
    BY <1>0, <1>14 DEF Dial, Subscribed, Receive, ReceiveFails, ReceiveFailsAgain,
       Close, ServerTypes, admission, senders, shutdown
  <1>15. ASSUME NEW u \in Subscribers, DialFails(u) \/ ConnectFails(u)
        PROVE  ServerTypes'
    BY <1>0, <1>15 DEF DialFails, ConnectFails, ServerTypes, OrFault, Fault, admission,
       senders, shutdown
  <1>16. ASSUME NEW c \in Conns, Reset(c) PROVE ServerTypes'
    BY <1>0, <1>16 DEF Reset, ServerTypes, OrFault, Fault, admission, senders, shutdown
  <1>. QED
    BY <1>1, <1>2, <1>3, <1>4, <1>5, <1>6, <1>7, <1>8, <1>9, <1>10, <1>11, <1>12,
       <1>13, <1>14, <1>15, <1>16
    DEF Next, ServerStep, BroadcastStep, ServerThread, CloseServer, Reader


LEMMA Dropping ==
  ASSUME LinkTypes, NEW c \in Conns, Drop(c)
  PROVE  /\ far' \in [Conns -> {"open", "held", "reset", "closed"}]
         /\ reply' \in [Conns -> {"none", "ok", "no"}]
         /\ wire' \in [Conns -> Seq(1..MaxMessages)]
         /\ far'[c] = "closed" /\ wire'[c] = <<>>
         /\ \A k \in Conns \ {c} : far'[k] = far[k] /\ wire'[k] = wire[k]
  BY DEF Drop, LinkTypes

LEMMA LinkTypesKept ==
  ASSUME Types, Next
  PROVE  LinkTypes'
  <1>0. /\ LinkTypes /\ ServerTypes /\ ReaderTypes /\ <<>> \in Seq(1..MaxMessages)
        /\ None \notin Conns
    BY Constants, Empty DEF Types
  <1>1. ASSUME (Publish \/ TakeIncoming \/ BroadcastEnds \/ PutPacket
          \/ AcceptorEnds \/ CloseIncoming) /\ UNCHANGED cvars
        PROVE  LinkTypes'
    BY <1>0, <1>1 DEF Publish, TakeIncoming, BroadcastEnds, PutPacket, AcceptorEnds,
       CloseIncoming, LinkTypes, links
  <1>2. ASSUME SetStop /\ UNCHANGED cvars PROVE LinkTypes'
    BY <1>0, <1>2 DEF SetStop, LinkTypes
  <1>3. ASSUME CloseClients /\ UNCHANGED cvars PROVE LinkTypes'
    BY <1>0, <1>3, ListOfConns DEF CloseClients, LinkTypes, CloseEnd, ServerTypes
  <1>4. ASSUME NEW c \in Conns, (Accept(c) \/ HandshakeFails(c) \/ WelcomeFails(c)
          \/ Leave(c) \/ Refuse(c) \/ Welcome(c)) /\ UNCHANGED cvars
        PROVE  LinkTypes'
    BY <1>0, <1>4 DEF Accept, HandshakeFails, WelcomeFails, Leave, Refuse, Welcome,
       LinkTypes, CloseEnd
  <1>5. ASSUME NEW c \in Conns, (Admit(c) \/ Sent(c) \/ SendFails(c)) /\ UNCHANGED cvars
        PROVE  LinkTypes'
    BY <1>0, <1>5 DEF Admit, Sent, SendFails, LinkTypes, links
  <1>6. ASSUME NEW c \in Conns, TakePacket(c) /\ UNCHANGED cvars PROVE LinkTypes'
    <2>1. queue[c] # <<>> => Head(queue[c]) \in 1..MaxMessages
      BY <1>0, OneQueue DEF ServerTypes
    <2>2. queue[c] # <<>> => Append(wire[c], Head(queue[c])) \in Seq(1..MaxMessages)
      BY <1>0, <2>1, Appending DEF LinkTypes
    <2>. QED BY <1>0, <1>6, <2>2 DEF TakePacket, LinkTypes
  <1>7. ASSUME NEW u \in Subscribers, Aborts(u) \/ BudgetExhausted(u) PROVE LinkTypes'
    BY <1>0, <1>7 DEF Aborts, BudgetExhausted, LinkTypes, svars, links
  <1>8. ASSUME NEW u \in Subscribers, DialFails(u) PROVE LinkTypes'
    BY <1>0, <1>8 DEF DialFails, LinkTypes, links
  <1>9. ASSUME NEW u \in Subscribers, Dial(u) PROVE LinkTypes'
    BY <1>0, <1>9 DEF Dial, LinkTypes, Put
  <1>10. ASSUME NEW c \in Conns, Reset(c) PROVE LinkTypes'
    BY <1>0, <1>10 DEF Reset, LinkTypes, Put
  <1>11. ASSUME NEW u \in Subscribers, Subscribed(u) PROVE LinkTypes'
    BY <1>0, <1>11 DEF Subscribed, LinkTypes, Put, ReaderTypes
  <1>12. ASSUME NEW u \in Subscribers, ConnectFails(u) \/ ReceiveFails(u)
          \/ ReceiveFailsAgain(u)
        PROVE  LinkTypes'
    <2>1. /\ conn[u] \in Conns /\ near' = near
          /\ Drop(conn[u]) \/ UNCHANGED <<far, wire, reply>>
      BY <1>0, <1>12 DEF ConnectFails, ReceiveFails, ReceiveFailsAgain, ReaderTypes
    <2>. QED BY <1>0, <2>1, Dropping DEF LinkTypes
  <1>13. ASSUME NEW u \in Subscribers, Receive(u) PROVE LinkTypes'
    <2>1. conn[u] \in Conns /\ wire[conn[u]] # <<>>
      BY <1>0, <1>13 DEF Receive, ReaderTypes
    <2>2. Tail(wire[conn[u]]) \in Seq(1..MaxMessages)
      BY <1>0, <2>1, Wires DEF LinkTypes
    <2>. QED BY <1>0, <1>13, <2>1, <2>2 DEF Receive, LinkTypes, Drop, Put
  <1>14. ASSUME NEW u \in Subscribers, Close(u) PROVE LinkTypes'
    <2>1. near' = near /\ (sock[u] # None => sock[u] \in Conns)
      BY <1>0, Constants, <1>14 DEF Close, ReaderTypes
    <2>2. \/ UNCHANGED <<far, wire, reply>>
          \/ sock[u] \in Conns /\ Drop(sock[u])
          \/ /\ sock[u] \in Conns /\ far' = Put(far, sock[u], "held")
             /\ UNCHANGED <<wire, reply>>
      BY <1>14, <2>1 DEF Close
    <2>. QED BY <1>0, <2>1, <2>2, Dropping DEF LinkTypes, Put
  <1>. QED
    BY <1>1, <1>2, <1>3, <1>4, <1>5, <1>6, <1>7, <1>8, <1>9, <1>10, <1>11, <1>12,
       <1>13, <1>14
    DEF Next, ServerStep, BroadcastStep, ServerThread, CloseServer, Reader

LEMMA ReaderTypesKept ==
  ASSUME Types, Next
  PROVE  ReaderTypes'
  <1>0. /\ ReaderTypes /\ LinkTypes /\ Attempts \in [Subscribers -> Nat] /\ Budget \in Nat
        /\ None \notin Conns /\ MaxMessages \in Nat \ {0}
    BY Constants DEF Types
  <1>1. ASSUME (Publish \/ TakeIncoming \/ BroadcastEnds \/ PutPacket
          \/ AcceptorEnds \/ SetStop \/ CloseIncoming
          \/ CloseClients) /\ UNCHANGED cvars
        PROVE  ReaderTypes'
    BY <1>0, <1>1 DEF cvars, session, ReaderTypes
  <1>2. ASSUME NEW c \in Conns, (Accept(c) \/ HandshakeFails(c) \/ Refuse(c)
          \/ Admit(c) \/ Welcome(c) \/ WelcomeFails(c) \/ TakePacket(c) \/ Sent(c)
          \/ SendFails(c) \/ Leave(c)) /\ UNCHANGED cvars
        PROVE  ReaderTypes'
    BY <1>0, <1>2 DEF cvars, session, ReaderTypes
  <1>3. ASSUME NEW u \in Subscribers, Aborts(u) PROVE ReaderTypes'
    BY <1>0, <1>3 DEF Aborts, ReaderTypes, Read, Put, session
  <1>4. ASSUME NEW u \in Subscribers, BudgetExhausted(u) PROVE ReaderTypes'
    BY <1>0, <1>4 DEF BudgetExhausted, ReaderTypes, Read, Put, session
  <1>5. ASSUME NEW u \in Subscribers, Dial(u) PROVE ReaderTypes'
    <2>1. spent' \in [Subscribers -> 0..Budget]
      BY <1>0, <1>5 DEF Dial, Reserve, Put, ReaderTypes
    <2>2. PICK c \in Conns : conn' = [conn EXCEPT ![u] = c]
      BY <1>5 DEF Dial, Put
    <2>3. /\ reader' = [reader EXCEPT ![u] = "reply"]
          /\ UNCHANGED <<sock, again, tried, shut, got, stale>>
      BY <1>5 DEF Dial, Read
    <2>. QED BY <1>0, <2>1, <2>2, <2>3 DEF ReaderTypes
  <1>6. ASSUME NEW u \in Subscribers, DialFails(u) PROVE ReaderTypes'
    <2>1. spent' \in [Subscribers -> 0..Budget]
      BY <1>0, <1>6 DEF DialFails, Reserve, Put, ReaderTypes
    <2>. QED BY <1>0, <1>6, <2>1 DEF DialFails, AttemptFails, ReaderTypes, Read, Put
  <1>7. ASSUME NEW u \in Subscribers, Subscribed(u) PROVE ReaderTypes'
    BY <1>0, <1>7 DEF Subscribed, ReaderTypes, Read, Put, session
  <1>8. ASSUME NEW u \in Subscribers, ConnectFails(u) PROVE ReaderTypes'
    BY <1>0, <1>8 DEF ConnectFails, ReaderTypes, Read, Put, session, AttemptFails
  <1>9. ASSUME NEW u \in Subscribers, Receive(u) PROVE ReaderTypes'
    <2>1. conn[u] \in Conns /\ wire[conn[u]] # <<>>
      BY <1>0, <1>9 DEF Receive, ReaderTypes
    <2>2. Head(wire[conn[u]]) \in 0..MaxMessages
      BY <1>0, <2>1, Wires DEF LinkTypes
    <2>. QED BY <1>0, <1>9, <2>2 DEF Receive, ReaderTypes, Read, Put
  <1>10. ASSUME NEW u \in Subscribers, ReceiveFails(u) PROVE ReaderTypes'
    BY <1>0, <1>10 DEF ReceiveFails, ReaderTypes, Read, Put, session
  <1>11. ASSUME NEW u \in Subscribers, ReceiveFailsAgain(u) PROVE ReaderTypes'
    BY <1>0, <1>11 DEF ReceiveFailsAgain, ReaderTypes, Read, Put, session
  <1>12. ASSUME NEW u \in Subscribers, Close(u) PROVE ReaderTypes'
    BY <1>0, <1>12 DEF Close, ReaderTypes, Read, Put, session
  <1>13. ASSUME NEW c \in Conns, Reset(c) PROVE ReaderTypes'
    BY <1>0, <1>13 DEF Reset, cvars, session, ReaderTypes
  <1>. QED
    BY <1>1, <1>2, <1>3, <1>4, <1>5, <1>6, <1>7, <1>8, <1>9, <1>10, <1>11, <1>12, <1>13
    DEF Next, ServerStep, BroadcastStep, ServerThread, CloseServer, Reader
-----------------------------------------------------------------------------
(***************************************************************************)
(* The clients listed, and who has nothing to read or to send.             *)
(***************************************************************************)

LEMMA ListedAtLast ==
  ASSUME NEW s \in Seq(Conns), NEW c \in Conns, IsInjective(s),
         ~Has(s, c)
  PROVE  /\ Len(Append(s, c)) = Len(s) + 1 /\ IsInjective(Append(s, c))
         /\ \A k : Has(Append(s, c), k) <=> k = c \/ Has(s, k)
  <1>. DEFINE r == Append(s, c)
  <1>1. /\ r \in Seq(Conns) /\ Len(r) = Len(s) + 1 /\ r[Len(s) + 1] = c
        /\ \A i \in 1..Len(s) : r[i] = s[i]
        /\ DOMAIN s = 1..Len(s) /\ DOMAIN r = 1..Len(s) + 1 /\ Len(s) \in Nat
    BY Appending, Empty
  <1>. HIDE DEF r
  <1>2. IsInjective(r)
    <2>1. SUFFICES ASSUME NEW i \in 1..Len(s) + 1, NEW j \in 1..Len(s) + 1, r[i] = r[j]
                   PROVE  i = j
      BY <1>1 DEF IsInjective
    <2>2. CASE i \in 1..Len(s) /\ j \in 1..Len(s)
      BY <1>1, <2>1, <2>2 DEF IsInjective, Has
    <2>. QED BY <1>1, <2>1, <2>2 DEF Has
  <1>3. ASSUME NEW k
        PROVE  (\E i \in DOMAIN r : r[i] = k) <=> k = c \/ \E i \in DOMAIN s : s[i] = k
    <2>1. ASSUME NEW i \in DOMAIN r, r[i] = k
          PROVE  k = c \/ \E j \in DOMAIN s : s[j] = k
      BY <1>1, <2>1
    <2>2. (Len(s) + 1) \in DOMAIN r
      BY <1>1
    <2>3. \A i \in DOMAIN s : i \in DOMAIN r /\ r[i] = s[i]
      BY <1>1
    <2>. QED BY <1>1, <2>1, <2>2, <2>3
  <1>. QED BY <1>1, <1>2, <1>3 DEF r, Has

LEMMA RosterStays ==
  ASSUME Roster, UNCHANGED <<clients, thread, near>> PROVE Roster'
  BY DEF Roster, ClientsAccounted, Listed

LEMMA RosterMoves ==
  ASSUME Roster, ServerTypes, LinkTypes, NEW c \in Conns, clients' = clients,
         NEW t, thread' = [thread EXCEPT ![c] = t],
         NEW n, near' = [near EXCEPT ![c] = n],
         t \in {"none", "hello"} <=> thread[c] \in {"none", "hello"},
         n = "open" => t \notin {"none", "stranded"},
         n = "waiting" => t = "none"
  PROVE  Roster'
  BY DEF Roster, ClientsAccounted, Listed, ServerTypes, LinkTypes

LEMMA RosterKept ==
  ASSUME Types, Roster, Next
  PROVE  Roster'
  <1>0. Roster /\ LinkTypes /\ ServerTypes
    BY DEF Types
  <1>1. ASSUME (Publish \/ TakeIncoming \/ BroadcastEnds \/ PutPacket
          \/ AcceptorEnds \/ CloseIncoming) /\ UNCHANGED cvars
        PROVE  Roster'
    <2>1. UNCHANGED <<clients, thread, near>>
      BY <1>1 DEF Publish, TakeIncoming, BroadcastEnds, PutPacket, AcceptorEnds,
         CloseIncoming, admission, links, svars
    <2>. QED BY <1>0, <2>1, RosterStays
  <1>2. ASSUME NEW u \in Subscribers, Aborts(u) \/ BudgetExhausted(u)
          \/ DialFails(u) \/ Subscribed(u) \/ ConnectFails(u) \/ Receive(u)
          \/ ReceiveFails(u) \/ ReceiveFailsAgain(u) \/ Close(u)
        PROVE  Roster'
    <2>1. UNCHANGED <<clients, thread, near>>
      BY <1>2 DEF Aborts, BudgetExhausted, DialFails, Subscribed, ConnectFails,
         Receive, ReceiveFails, ReceiveFailsAgain, Close, admission, links, svars
    <2>. QED BY <1>0, <2>1, RosterStays
  <1>3. ASSUME NEW c \in Conns, Reset(c) PROVE Roster'
    <2>1. UNCHANGED <<clients, thread, near>>
      BY <1>3 DEF Reset, admission, links, svars
    <2>. QED BY <1>0, <2>1, RosterStays
  <1>4. ASSUME SetStop /\ UNCHANGED cvars PROVE Roster'
    BY <1>0, <1>4 DEF SetStop, Roster, ClientsAccounted, Listed, admission
  <1>5. ASSUME CloseClients /\ UNCHANGED cvars PROVE Roster'
    <2>1. UNCHANGED <<clients, thread>> /\ near' \in [Conns -> {"waiting", "open", "closed"}]
          /\ \A c \in Conns : near'[c] # near[c] => near'[c] = "closed"
      <3>1. CASE doomed = <<>>
        BY <1>0, <1>5, <3>1 DEF CloseClients, LinkTypes, admission
      <3>2. CASE doomed # <<>>
        <4>1. Head(doomed) \in Conns
          BY <1>0, <3>2, ListOfConns DEF ServerTypes
        <4>. QED BY <1>0, <1>5, <3>2, <4>1 DEF CloseClients, LinkTypes, CloseEnd,
           admission
      <3>. QED BY <3>1, <3>2
    <2>. QED BY <1>0, <2>1 DEF Roster, ClientsAccounted, Listed
  <1>6. ASSUME NEW c \in Conns, Accept(c) /\ UNCHANGED cvars PROVE Roster'
    <2>1. clients' = clients /\ near[c] = "waiting" /\ thread[c] = "none"
      BY <1>0, <1>6 DEF Accept, Roster
    <2>2. \/ /\ thread' = [thread EXCEPT ![c] = "hello"] /\ near' = [near EXCEPT ![c] = "open"]
          \/ /\ thread' = [thread EXCEPT ![c] = "none"] /\ near' = [near EXCEPT ![c] = "closed"]
      BY <1>0, <1>6, <2>1 DEF Accept, Goes, CloseEnd, ServerTypes
    <2>. QED BY <1>0, <2>1, <2>2, RosterMoves
  <1>7. ASSUME NEW c \in Conns, (HandshakeFails(c) \/ Refuse(c)) /\ UNCHANGED cvars
        PROVE  Roster'
    <2>1. /\ clients' = clients /\ thread[c] = "hello"
          /\ thread' = [thread EXCEPT ![c] = "none"] /\ near' = [near EXCEPT ![c] = "closed"]
      BY <1>7 DEF HandshakeFails, Refuse, Goes, CloseEnd
    <2>. QED BY <1>0, <2>1, RosterMoves
  <1>8. ASSUME NEW c \in Conns, WelcomeFails(c) /\ UNCHANGED cvars PROVE Roster'
    <2>1. /\ clients' = clients /\ thread[c] = "listed"
          /\ thread' = [thread EXCEPT ![c] = "stranded"] /\ near' = [near EXCEPT ![c] = "closed"]
      BY <1>8 DEF WelcomeFails, Goes, CloseEnd
    <2>2. /\ "stranded" \in {"none", "hello"} <=> thread[c] \in {"none", "hello"}
          /\ "closed" # "open" /\ "closed" # "waiting"
      BY <2>1
    <2>. QED BY <1>0, <2>1, <2>2, RosterMoves
  <1>9. ASSUME NEW c \in Conns, (Welcome(c) \/ TakePacket(c) \/ Sent(c)
          \/ SendFails(c)) /\ UNCHANGED cvars
        PROVE  Roster'
    <2>1. /\ clients' = clients /\ near' = near /\ thread[c] \in {"listed", "get", "send"}
          /\ thread' \in {[thread EXCEPT ![c] = t] : t \in {"finish", "get", "send"}}
      BY <1>9 DEF Welcome, TakePacket, Sent, SendFails, Goes, NextPacket, links
    <2>2. near' = [near EXCEPT ![c] = near[c]] /\ near[c] # "waiting"
      BY <1>0, <2>1 DEF LinkTypes, Roster
    <2>. QED BY <1>0, <2>1, <2>2, RosterMoves
  <1>10. ASSUME NEW c \in Conns, Admit(c) /\ UNCHANGED cvars PROVE Roster'
    <2>1. ~Has(clients, c) /\ IsInjective(clients)
      BY <1>0, <1>10 DEF Admit, Roster, ClientsAccounted, Listed, Has
    <2>2. /\ Len(clients') = Len(clients) + 1 /\ IsInjective(clients')
          /\ \A k : Has(clients', k) <=> k = c \/ Has(clients, k)
      BY <1>0, <1>10, <2>1, ListedAtLast DEF Admit, ServerTypes
    <2>3. Len(clients) \in Nat /\ Len(clients) < MaxClients /\ MaxClients \in Nat
      BY <1>0, <1>10, Empty, Constants DEF Admit, ServerTypes
    <2>4. \A k : (Listed(k) <=> Has(clients, k)) /\ (Listed(k)' <=> Has(clients', k))
      BY DEF Listed, Has
    <2>. QED
      BY <1>0, <1>10, <2>2, <2>3, <2>4
      DEF Admit, Roster, ClientsAccounted, Goes, LinkTypes, ServerTypes, links
  <1>11. ASSUME NEW c \in Conns, Leave(c) /\ UNCHANGED cvars PROVE Roster'
    <2>1. clients \in Seq(Conns) /\ IsInjective(clients) /\ clients' = RemoveFirst(clients, c)
      BY <1>0, <1>11 DEF Leave, Roster, ClientsAccounted, ServerTypes
    <2>2. /\ Len(clients') <= Len(clients) /\ IsInjective(clients')
          /\ \A k : Has(clients', k) <=> k # c /\ Has(clients, k)
          /\ clients' \in Seq(Conns)
      BY <2>1, Removing
    <2>3. Len(clients') \in Nat /\ Len(clients) \in Nat /\ MaxClients \in Nat
      BY <2>1, <2>2, Empty, Constants
    <2>4. \A k : (Listed(k) <=> Has(clients, k)) /\ (Listed(k)' <=> Has(clients', k))
      BY DEF Listed, Has
    <2>. QED
      BY <1>0, <1>11, <2>2, <2>3, <2>4
      DEF Leave, Roster, ClientsAccounted, Goes, CloseEnd, LinkTypes, ServerTypes
  <1>12. ASSUME NEW u \in Subscribers, Dial(u) PROVE Roster'
    <2>1. PICK c \in Conns : Unused(c) /\ near' = [near EXCEPT ![c] = "waiting"]
      BY <1>12 DEF Dial, Put
    <2>2. UNCHANGED <<clients, thread>>
      BY <1>12 DEF Dial, admission
    <2>. QED BY <1>0, <2>1, <2>2 DEF Unused, Roster, ClientsAccounted, Listed, LinkTypes
  <1>. QED
    BY <1>1, <1>2, <1>3, <1>4, <1>5, <1>6, <1>7, <1>8, <1>9, <1>10, <1>11, <1>12
    DEF Next, ServerStep, BroadcastStep, ServerThread, CloseServer, Reader

LEMMA IdlenessStays ==
  ASSUME Idleness, UNCHANGED <<thread, queue, near, far, wire>> PROVE Idleness'
  BY DEF Idleness, Unserved

\* Nothing appears on a wire.
LEMMA IdlenessShrinks ==
  ASSUME Idleness, LinkTypes, UNCHANGED <<thread, queue>>,
         \A c \in Conns : /\ near'[c] # near[c] => near'[c] = "closed"
                          /\ far'[c] = "closed" => far[c] = "closed" \/ wire'[c] = <<>>
                          /\ wire'[c] \in {wire[c], <<>>}
  PROVE  Idleness'
  <1>1. WireRoom \in Nat /\ Len(<<>>) = 0
    BY Constants
  <1>. QED BY <1>1 DEF Idleness, Unserved, LinkTypes

LEMMA IdlenessKept ==
  ASSUME Types, Roster, Idleness, Untargeted, Next
  PROVE  Idleness'
  <1>0. /\ Roster /\ Idleness /\ Untargeted
        /\ LinkTypes /\ ServerTypes /\ ReaderTypes /\ HubTypes
    BY DEF Types
  <1>1. ASSUME (Publish \/ TakeIncoming \/ BroadcastEnds \/ AcceptorEnds
          \/ CloseIncoming) /\ UNCHANGED cvars
        PROVE  Idleness'
    <2>1. UNCHANGED <<thread, queue, near, far, wire>>
      BY <1>1 DEF Publish, TakeIncoming, BroadcastEnds, AcceptorEnds, CloseIncoming,
         admission, senders, links, svars
    <2>. QED BY <1>0, <2>1, IdlenessStays
  <1>2. ASSUME NEW u \in Subscribers, Aborts(u) \/ BudgetExhausted(u)
          \/ DialFails(u) \/ Subscribed(u)
        PROVE  Idleness'
    <2>1. UNCHANGED <<thread, queue, near, far, wire>>
      BY <1>2 DEF Aborts, BudgetExhausted, DialFails, Subscribed, admission, senders,
         links, svars
    <2>. QED BY <1>0, <2>1, IdlenessStays
  <1>3. ASSUME PutPacket /\ UNCHANGED cvars PROVE Idleness'
    <2>1. targets # <<>> /\ targets \in Seq(Conns)
      BY <1>0, <1>3 DEF PutPacket, HubTypes
    <2>2. Head(targets) \in Conns /\ UNCHANGED <<thread, near, far, wire>>
      BY <2>1, ListOfConns, <1>3 DEF PutPacket, links, admission
    <2>3. thread[Head(targets)] # "hello"
      BY <1>0, <2>1, ListOfConns DEF Untargeted
    <2>4. \A c \in Conns : queue'[c] # queue[c] => thread[c] \notin {"none", "hello"}
      BY <1>0, <1>3, <2>2, <2>3 DEF PutPacket, Deaf, ServerTypes
    <2>. QED BY <1>0, <2>2, <2>4 DEF Idleness, Unserved
  <1>4. ASSUME (SetStop \/ CloseClients) /\ UNCHANGED cvars PROVE Idleness'
    <2>1. /\ UNCHANGED <<thread, queue, far, wire>>
          /\ \A c \in Conns : near'[c] # near[c] => near'[c] = "closed"
      <3>1. CASE SetStop
        BY <1>0, <3>1 DEF SetStop, LinkTypes, admission, senders
      <3>2. CASE CloseClients
        BY <1>0, <3>2 DEF CloseClients, LinkTypes, CloseEnd, admission
      <3>. QED BY <1>4, <3>1, <3>2
    <2>. QED BY <1>0, <2>1, IdlenessShrinks
  <1>5. ASSUME NEW c \in Conns, Accept(c) /\ UNCHANGED cvars PROVE Idleness'
    <2>1. /\ near[c] = "waiting" /\ thread[c] = "none" /\ UNCHANGED <<queue, far, wire>>
          /\ thread' = [thread EXCEPT ![c] = "hello"] \/ thread' = thread
          /\ near' = [near EXCEPT ![c] = "open"] \/ near' = [near EXCEPT ![c] = "closed"]
      BY <1>0, <1>5 DEF Accept, Goes, CloseEnd, Roster, senders
    <2>. QED BY <1>0, <2>1 DEF Idleness, Unserved, ServerTypes, LinkTypes
  <1>6. ASSUME NEW c \in Conns, (HandshakeFails(c) \/ Refuse(c)) /\ UNCHANGED cvars
        PROVE  Idleness'
    <2>1. /\ thread[c] = "hello" /\ UNCHANGED <<queue, far, wire>>
          /\ thread' = [thread EXCEPT ![c] = "none"] /\ near' = [near EXCEPT ![c] = "closed"]
      BY <1>6 DEF HandshakeFails, Refuse, Goes, CloseEnd, senders
    <2>2. queue[c] = <<>>
      BY <1>0, <2>1 DEF Idleness
    <2>. QED BY <1>0, <2>1, <2>2 DEF Idleness, Unserved, ServerTypes, LinkTypes
  <1>7. ASSUME NEW c \in Conns, Welcome(c) /\ UNCHANGED cvars PROVE Idleness'
    <2>1. wire[c] = <<>> /\ WireRoom \in Nat
      BY <1>0, <1>7, Constants DEF Welcome, Idleness, Unserved
    <2>2. Len(wire[c]) <= WireRoom
      BY <2>1
    <2>. QED
      BY <1>0, <1>7, <2>2 DEF Welcome, Idleness, Unserved, Goes, NextPacket, LinkTypes,
         ServerTypes, senders
  <1>8. ASSUME NEW c \in Conns, (Admit(c) \/ WelcomeFails(c) \/ Sent(c)
          \/ SendFails(c)) /\ UNCHANGED cvars
        PROVE  Idleness'
    BY <1>0, <1>8 DEF Admit, WelcomeFails, Sent, SendFails, Idleness, Unserved, Goes,
       CloseEnd, NextPacket, LinkTypes, ServerTypes, Roster, links, senders
  <1>9. ASSUME NEW c \in Conns, TakePacket(c) /\ UNCHANGED cvars PROVE Idleness'
    <2>0. /\ thread[c] = "get" /\ UNCHANGED <<near, far>>
          /\ \/ thread' = [thread EXCEPT ![c] = "send"]
             \/ thread' = [thread EXCEPT ![c] = "finish"]
          /\ \/ UNCHANGED <<wire, queue>>
             \/ /\ queue[c] # <<>> /\ queue' = [queue EXCEPT ![c] = <<>>]
                /\ \/ wire' = wire
                   \/ /\ far[c] \in {"open", "held"}
                      /\ wire' = [wire EXCEPT ![c] = Append(wire[c], queue[c][1])]
      BY <1>0, OneQueue, <1>9 DEF TakePacket, Goes, ServerTypes
    <2>1. near[c] # "waiting"
      BY <1>0, <2>0 DEF Roster
    <2>2. /\ wire[c] \in Seq(1..MaxMessages) /\ WireRoom \in Nat
          /\ Len(wire[c]) <= WireRoom /\ (far[c] = "closed" => wire[c] = <<>>)
      BY <1>0, <2>0, Constants DEF Idleness, LinkTypes
    <2>3. queue[c] # <<>> => Len(Append(wire[c], queue[c][1])) = Len(wire[c]) + 1
      <3>1. queue[c] # <<>> => queue[c][1] \in 1..MaxMessages
        BY <1>0, OneQueue DEF ServerTypes
      <3>. QED BY <2>2, <3>1, Appending
    <2>4. /\ thread' \in [Conns -> {"none", "hello", "listed", "stranded", "get", "send", "finish"}]
          /\ thread'[c] \in {"send", "finish"}
          /\ \A k \in Conns \ {c} : thread'[k] = thread[k]
          /\ \A k \in Conns \ {c} : wire'[k] = wire[k] /\ queue'[k] = queue[k]
          /\ \/ wire'[c] = wire[c]
             \/ far[c] # "closed" /\ wire'[c] = Append(wire[c], queue[c][1]) /\ queue[c] # <<>>
      BY <1>0, <2>0 DEF ServerTypes, LinkTypes
    <2>5. Len(wire'[c]) <= WireRoom + 1 /\ (far'[c] = "closed" => wire'[c] = <<>>)
      <3>1. Len(wire[c]) \in Nat
        BY <2>2, Empty
      <3>. QED BY <2>0, <2>2, <2>3, <2>4, <3>1
    <2>. QED BY <1>0, <2>0, <2>1, <2>4, <2>5 DEF Idleness, Unserved
  <1>10. ASSUME NEW c \in Conns, Leave(c) /\ UNCHANGED cvars PROVE Idleness'
    BY <1>0, <1>10 DEF Leave, Idleness, Unserved, Goes, CloseEnd, NextPacket,
       LinkTypes, ServerTypes, Roster, links, senders
  <1>11. ASSUME NEW u \in Subscribers, Dial(u) PROVE Idleness'
    <2>1. PICK c \in Conns : /\ Unused(c) /\ near' = [near EXCEPT ![c] = "waiting"]
                              /\ far' = [far EXCEPT ![c] = "open"]
      BY <1>11 DEF Dial, Put
    <2>2. UNCHANGED <<thread, queue, wire>>
      BY <1>11 DEF Dial, admission, senders
    <2>. QED BY <1>0, <2>1, <2>2 DEF Unused, Idleness, Unserved, LinkTypes
  <1>12. ASSUME NEW u \in Subscribers, ConnectFails(u) \/ ReceiveFails(u)
          \/ ReceiveFailsAgain(u)
        PROVE  Idleness'
    <2>1. /\ conn[u] \in Conns /\ UNCHANGED <<thread, queue, near>>
          /\ Drop(conn[u]) \/ UNCHANGED <<far, wire>>
      BY <1>0, <1>12 DEF ConnectFails, ReceiveFails, ReceiveFailsAgain, ReaderTypes,
         admission, senders
    <2>2. \A c \in Conns : /\ far'[c] = "closed" => far[c] = "closed" \/ wire'[c] = <<>>
                           /\ wire'[c] \in {wire[c], <<>>}
      BY <1>0, <2>1, Dropping
    <2>. QED BY <1>0, <2>1, <2>2, IdlenessShrinks
  <1>13. ASSUME NEW u \in Subscribers, Receive(u) PROVE Idleness'
    <2>1. /\ conn[u] \in Conns /\ wire[conn[u]] # <<>>
          /\ UNCHANGED <<thread, queue, near>>
      BY <1>0, <1>13 DEF Receive, ReaderTypes, admission, senders
    <2>2. CASE Drop(conn[u])
      <3>1. \A c \in Conns : /\ far'[c] = "closed" => far[c] = "closed" \/ wire'[c] = <<>>
                             /\ wire'[c] \in {wire[c], <<>>}
        BY <1>0, <2>1, <2>2, Dropping
      <3>. QED BY <1>0, <2>1, <3>1, IdlenessShrinks
    <2>3. CASE wire' = [wire EXCEPT ![conn[u]] = Tail(wire[conn[u]])] /\ far' = far
      <3>1. /\ Len(Tail(wire[conn[u]])) = Len(wire[conn[u]]) - 1
            /\ Len(wire[conn[u]]) \in Nat \ {0} /\ WireRoom \in Nat
        BY <1>0, <2>1, Wires, Constants DEF LinkTypes
      <3>2. ~(far[conn[u]] = "closed" \/ Unserved(conn[u]))
        BY <1>0, <2>1 DEF Idleness
      <3>. QED BY <1>0, <2>1, <2>3, <3>1, <3>2 DEF Idleness, Unserved, LinkTypes
    <2>. QED BY <1>13, <2>2, <2>3 DEF Receive, Put
  <1>14. ASSUME NEW u \in Subscribers, Close(u) PROVE Idleness'
    <2>1. /\ UNCHANGED <<thread, queue, near>>
          /\ sock[u] = None \/ sock[u] \in Conns
      BY <1>0, <1>14 DEF Close, ReaderTypes, admission, senders
    <2>2. \/ UNCHANGED <<far, wire>>
          \/ sock[u] \in Conns /\ Drop(sock[u])
          \/ /\ sock[u] \in Conns /\ far' = [far EXCEPT ![sock[u]] = "held"]
             /\ UNCHANGED wire
      BY <2>1, <1>14 DEF Close, Put
    <2>3. \A c \in Conns : /\ far'[c] = "closed" => far[c] = "closed" \/ wire'[c] = <<>>
                           /\ wire'[c] \in {wire[c], <<>>}
      BY <1>0, <2>2, Dropping DEF LinkTypes
    <2>. QED BY <1>0, <2>1, <2>3, IdlenessShrinks
  <1>15. ASSUME NEW c \in Conns, Reset(c) PROVE Idleness'
    <2>1. /\ UNCHANGED <<thread, queue, near>>
          /\ far' = [far EXCEPT ![c] = "reset"] /\ wire' = [wire EXCEPT ![c] = <<>>]
      BY <1>15 DEF Reset, Put, admission, senders
    <2>2. \A k \in Conns : /\ far'[k] = "closed" => far[k] = "closed" \/ wire'[k] = <<>>
                           /\ wire'[k] \in {wire[k], <<>>}
      BY <1>0, <2>1 DEF LinkTypes
    <2>. QED BY <1>0, <2>1, <2>2, IdlenessShrinks
  <1>. QED
    BY <1>1, <1>2, <1>3, <1>4, <1>5, <1>6, <1>7, <1>8, <1>9, <1>10, <1>11, <1>12,
       <1>13, <1>14, <1>15
    DEF Next, ServerStep, BroadcastStep, ServerThread, CloseServer, Reader
LEMMA UntargetedKept ==
  ASSUME Types, Roster, Untargeted, Next
  PROVE  Untargeted'
  <1>0. /\ Roster /\ Untargeted
        /\ LinkTypes /\ ServerTypes /\ ReaderTypes /\ HubTypes
    BY DEF Types
  <1>1. ASSUME (Publish \/ BroadcastEnds \/ AcceptorEnds \/ SetStop
          \/ CloseIncoming) /\ UNCHANGED cvars
        PROVE  Untargeted'
    <2>1. /\ targets' = targets
          /\ \A k \in Conns : /\ near'[k] = "waiting" => near[k] = "waiting"
                              /\ thread'[k] = "hello" => thread[k] = "hello" \/ near[k] = "waiting"
      BY <1>0, <1>1 DEF Publish, BroadcastEnds, AcceptorEnds, SetStop, CloseIncoming,
         Goes, CloseEnd, NextPacket, ServerTypes, LinkTypes, hub, admission, links,
         svars
    <2>. QED BY <1>0, <2>1 DEF Untargeted
  <1>2. ASSUME CloseClients /\ UNCHANGED cvars PROVE Untargeted'
    <2>1. targets' = targets /\ thread' = thread
      BY <1>2 DEF CloseClients, hub, admission
    <2>2. near' = near \/ (doomed # <<>> /\ near' = [near EXCEPT ![Head(doomed)] = "closed"])
      BY <1>2 DEF CloseClients, CloseEnd
    <2>. QED BY <1>0, <2>1, <2>2 DEF Untargeted, LinkTypes
  <1>3. ASSUME TakeIncoming /\ UNCHANGED cvars PROVE Untargeted'
    <2>1. /\ targets' = targets \/ targets' = clients
          /\ UNCHANGED <<near, thread>>
      BY <1>3 DEF TakeIncoming, admission, links
    <2>2. \A c \in Conns : near[c] = "waiting" \/ thread[c] = "hello" => ~Listed(c)
      BY <1>0 DEF Roster, ClientsAccounted
    <2>3. \A c \in Conns : ~Listed(c) => \A i \in 1..Len(clients) : clients[i] # c
      BY <1>0, Empty DEF Listed, ServerTypes
    <2>. QED BY <1>0, <2>1, <2>2, <2>3 DEF Untargeted
  <1>4. ASSUME PutPacket /\ UNCHANGED cvars PROVE Untargeted'
    <2>1. /\ targets # <<>> /\ targets \in Seq(Conns) /\ targets' = Tail(targets)
          /\ UNCHANGED <<near, thread>>
      BY <1>0, <1>4 DEF PutPacket, HubTypes, admission, links
    <2>2. /\ Len(Tail(targets)) = Len(targets) - 1 /\ Len(targets) \in Nat \ {0}
          /\ \A i \in 1..Len(targets) - 1 : Tail(targets)[i] = targets[i + 1]
      BY <2>1, ListOfConns
    <2>. QED BY <1>0, <2>1, <2>2 DEF Untargeted
  <1>5. ASSUME NEW c \in Conns, Accept(c) /\ UNCHANGED cvars PROVE Untargeted'
    <2>1. /\ targets' = targets
          /\ \A k \in Conns : /\ near'[k] = "waiting" => near[k] = "waiting"
                              /\ thread'[k] = "hello" => thread[k] = "hello" \/ near[k] = "waiting"
      BY <1>0, <1>5 DEF Accept, Goes, CloseEnd, NextPacket, ServerTypes, LinkTypes,
         hub, admission, links, svars
    <2>. QED BY <1>0, <2>1 DEF Untargeted
  <1>6. ASSUME NEW c \in Conns, (HandshakeFails(c) \/ Refuse(c)) /\ UNCHANGED cvars
        PROVE  Untargeted'
    <2>1. /\ targets' = targets
          /\ \A k \in Conns : /\ near'[k] = "waiting" => near[k] = "waiting"
                              /\ thread'[k] = "hello" => thread[k] = "hello" \/ near[k] = "waiting"
      BY <1>0, <1>6 DEF HandshakeFails, Refuse, Goes, CloseEnd, NextPacket,
         ServerTypes, LinkTypes, hub, admission, links, svars
    <2>. QED BY <1>0, <2>1 DEF Untargeted
  <1>7. ASSUME NEW c \in Conns, (Admit(c) \/ WelcomeFails(c)) /\ UNCHANGED cvars
        PROVE  Untargeted'
    <2>1. /\ targets' = targets
          /\ \A k \in Conns : /\ near'[k] = "waiting" => near[k] = "waiting"
                              /\ thread'[k] = "hello" => thread[k] = "hello" \/ near[k] = "waiting"
      BY <1>0, <1>7 DEF Admit, WelcomeFails, Goes, CloseEnd, NextPacket, ServerTypes,
         LinkTypes, hub, admission, links, svars
    <2>. QED BY <1>0, <2>1 DEF Untargeted
  <1>8. ASSUME NEW c \in Conns, (Welcome(c) \/ TakePacket(c)) /\ UNCHANGED cvars
        PROVE  Untargeted'
    <2>1. /\ targets' = targets
          /\ \A k \in Conns : /\ near'[k] = "waiting" => near[k] = "waiting"
                              /\ thread'[k] = "hello" => thread[k] = "hello" \/ near[k] = "waiting"
      BY <1>0, <1>8 DEF Welcome, TakePacket, Goes, CloseEnd, NextPacket, ServerTypes,
         LinkTypes, hub, admission, links, svars
    <2>. QED BY <1>0, <2>1 DEF Untargeted
  <1>9. ASSUME NEW c \in Conns, (Sent(c) \/ SendFails(c) \/ Leave(c)) /\ UNCHANGED cvars
        PROVE  Untargeted'
    <2>1. /\ targets' = targets
          /\ \A k \in Conns : /\ near'[k] = "waiting" => near[k] = "waiting"
                              /\ thread'[k] = "hello" => thread[k] = "hello" \/ near[k] = "waiting"
      BY <1>0, <1>9 DEF Sent, SendFails, Leave, Goes, CloseEnd, NextPacket,
         ServerTypes, LinkTypes, hub, admission, links, svars
    <2>. QED BY <1>0, <2>1 DEF Untargeted
  <1>10. ASSUME NEW u \in Subscribers, Aborts(u) \/ BudgetExhausted(u)
          \/ DialFails(u) \/ Subscribed(u) \/ ConnectFails(u) \/ Receive(u)
          \/ ReceiveFails(u) \/ ReceiveFailsAgain(u) \/ Close(u)
        PROVE  Untargeted'
    <2>1. /\ targets' = targets
          /\ \A k \in Conns : /\ near'[k] = "waiting" => near[k] = "waiting"
                              /\ thread'[k] = "hello" => thread[k] = "hello" \/ near[k] = "waiting"
      BY <1>0, <1>10 DEF Aborts, BudgetExhausted, DialFails, Subscribed, ConnectFails,
         Receive, ReceiveFails, ReceiveFailsAgain, Close, Goes, CloseEnd, NextPacket,
         ServerTypes, LinkTypes, hub, admission, links, svars
    <2>. QED BY <1>0, <2>1 DEF Untargeted
  <1>11. ASSUME NEW u \in Subscribers, Dial(u) PROVE Untargeted'
    <2>1. PICK c \in Conns : Unused(c) /\ near' = [near EXCEPT ![c] = "waiting"]
      BY <1>11 DEF Dial, Put
    <2>2. UNCHANGED <<targets, thread>> /\ DOMAIN targets = 1..Len(targets)
      BY <1>0, <1>11, Empty DEF Dial, admission, hub, HubTypes
    <2>. QED BY <1>0, <2>1, <2>2 DEF Unused, Untargeted, LinkTypes
  <1>12. ASSUME NEW c \in Conns, Reset(c) PROVE Untargeted'
    <2>1. /\ targets' = targets
          /\ \A k \in Conns : /\ near'[k] = "waiting" => near[k] = "waiting"
                              /\ thread'[k] = "hello" => thread[k] = "hello" \/ near[k] = "waiting"
      BY <1>0, <1>12 DEF Reset, Goes, CloseEnd, NextPacket, ServerTypes, LinkTypes,
         hub, admission, links, svars
    <2>. QED BY <1>0, <2>1 DEF Untargeted
  <1>. QED
    BY <1>1, <1>2, <1>3, <1>4, <1>5, <1>6, <1>7, <1>8, <1>9, <1>10, <1>11, <1>12
    DEF Next, ServerStep, BroadcastStep, ServerThread, CloseServer, Reader

-----------------------------------------------------------------------------
(***************************************************************************)
(* The order of the messages.                                              *)
(***************************************************************************)

\* Messages are lost on the way, and nothing is added.
LEMMA OrderShrinks ==
  ASSUME Order,
         UNCHANGED <<published, incoming, packet, targets, got>>,
         broadcast' = "put" => broadcast = "put",
         \A c \in Conns : wire'[c] = wire[c] \/ wire'[c] = <<>>,
         \A c \in Conns : queue'[c] = queue[c] \/ queue'[c] = <<>>,
         \A u \in Subscribers : conn'[u] = conn[u] \/ conn'[u] = None
  PROVE  Order'
  <1>0. Len(<<>>) = 0 /\ None \notin Conns
    BY Constants
  <1>1. \A c \in Conns : Due(c)' => Due(c)
    BY DEF Due
  <1>2. AtHub'
    BY DEF Order, AtHub
  <1>3. ASSUME NEW c \in Conns PROVE InWay(c)'
    <2>1. InWay(c) /\ (Due(c)' => Due(c))
      BY <1>1 DEF Order
    <2>2. CASE wire'[c] = <<>>
      BY <1>0, <2>1, <2>2 DEF InWay
    <2>3. CASE wire'[c] = wire[c]
      BY <2>1, <2>3 DEF InWay
    <2>. QED BY <2>2, <2>3
  <1>4. ASSUME NEW u \in Subscribers PROVE News(u)'
    <2>1. News(u) /\ (conn'[u] \in Conns => conn'[u] = conn[u] /\ conn[u] \in Conns)
      BY <1>0 DEF Order
    <2>2. ASSUME NEW c \in Conns, Ahead(got[u], c) PROVE Ahead(got[u], c)'
      BY <1>0, <1>1, <2>2 DEF Ahead
    <2>. QED BY <2>1, <2>2 DEF News
  <1>. QED BY <1>2, <1>3, <1>4 DEF Order

\* Messages are numbers.
LEMMA Numbers ==
  ASSUME Types
  PROVE  /\ packet \in Nat /\ \A u \in Subscribers : got[u] \in Nat
         /\ \A c \in Conns : queue[c] # <<>> => queue[c][1] \in Nat
         /\ \A c \in Conns : \A i \in 1..Len(wire[c]) : wire[c][i] \in Nat
  <1>1. /\ packet \in 0..MaxMessages /\ \A u \in Subscribers : got[u] \in 0..MaxMessages
        /\ \A c \in Conns : queue[c] \in AtMostOne
        /\ \A c \in Conns : wire[c] \in Seq(1..MaxMessages)
    BY DEF Types, HubTypes, ServerTypes, LinkTypes, ReaderTypes
  <1>2. ASSUME NEW c \in Conns, NEW i \in 1..Len(wire[c]) PROVE wire[c][i] \in Nat
    <2>1. wire[c] \in Seq(1..MaxMessages)
      BY <1>1
    <2>2. wire[c] # <<>>
      OBVIOUS
    <2>3. wire[c][i] \in 1..MaxMessages
      BY <2>1, <2>2, Wires
    <2>. QED BY <2>3
  <1>3. \A c \in Conns : queue[c] # <<>> => queue[c][1] \in Nat
    BY <1>1, OneQueue
  <1>. QED BY <1>1, <1>2, <1>3

\* The newest message waits for the broadcast, or none is published.
LEMMA OrderOfPublish ==
  ASSUME Types, Order, Publish, UNCHANGED cvars PROVE Order'
  <1>0. /\ UNCHANGED <<wire, queue, broadcast, packet, targets, conn, got>>
        /\ published' = published + 1 /\ published \in Nat
        /\ incoming' = incoming \/ incoming' = <<published + 1>>
    BY DEF Publish, AfterPut, senders, links, cvars, session, Types, HubTypes
  <1>1. /\ packet \in Nat /\ \A u \in Subscribers : got[u] \in Nat
        /\ \A c \in Conns : queue[c] # <<>> => queue[c][1] \in Nat
        /\ \A c \in Conns : \A i \in 1..Len(wire[c]) : wire[c][i] \in Nat
    BY Numbers
  <1>2. incoming # <<>> => incoming[1] \in Nat
    BY OneQueue DEF Types, HubTypes
  <1>3. AtHub'
    BY <1>0, <1>1, <1>2 DEF Order, AtHub
  <1>4. ASSUME NEW c \in Conns PROVE InWay(c)'
    <2>1. InWay(c) /\ Due(c)' = Due(c)
      BY <1>0 DEF Order, Due
    <2>2. CASE incoming' = incoming
      BY <1>0, <1>1, <2>1, <2>2 DEF InWay
    <2>3. CASE incoming' = <<published + 1>>
      <3>1. incoming'[1] = published + 1
        BY <2>3
      <3>. QED BY <1>0, <1>1, <2>1, <3>1 DEF InWay
    <2>. QED BY <1>0, <2>2, <2>3
  <1>5. ASSUME NEW u \in Subscribers PROVE News(u)'
    <2>1. News(u) /\ \A c \in Conns : Due(c)' = Due(c)
      BY <1>0 DEF Order, Due
    <2>2. conn[u] \in Conns => Ahead(got[u], conn[u])'
      BY <1>0, <2>1 DEF News, Ahead
    <2>3. got[u] <= published /\ got[u] \in Nat
      BY <1>1, <2>1 DEF News
    <2>. QED BY <1>0, <2>1, <2>2, <2>3 DEF News
  <1>. QED BY <1>3, <1>4, <1>5 DEF Order

\* A message that is taken is newer than all that were taken before it.
LEMMA OrderOfTakeIncoming ==
  ASSUME Types, Roster, Order, TakeIncoming, UNCHANGED cvars PROVE Order'
  <1>0. /\ UNCHANGED <<wire, queue, published, conn, got>>
        /\ broadcast = "get" /\ incoming # <<>> /\ incoming' = <<>>
        /\ incoming[1] = Head(incoming)
    BY OneQueue DEF TakeIncoming, senders, links, cvars, session, Types, HubTypes
  <1>1. CASE broadcast' # "put" /\ targets' = targets
    <2>1. \A c \in Conns : ~Due(c)'
      BY <1>1 DEF Due
    <2>. QED BY <1>0, <1>1, <2>1 DEF Order, AtHub, InWay, News, Ahead
  <1>2. CASE broadcast' = "put" /\ packet' = incoming[1] /\ targets' = clients
    <2>1. AtHub'
      BY <1>0, <1>2 DEF Order, AtHub, Roster, ClientsAccounted
    <2>2. \A c \in Conns : InWay(c)'
      BY <1>0, <1>2 DEF Order, InWay
    <2>3. \A u \in Subscribers : News(u)'
      BY <1>0, <1>2 DEF Order, News, Ahead
    <2>. QED BY <2>1, <2>2, <2>3 DEF Order
  <1>. QED BY <1>0, <1>1, <1>2 DEF TakeIncoming, NextMessage

\* A client that is served has the message in its queue and is due no more.
LEMMA OrderOfPutPacket ==
  ASSUME Types, Order, PutPacket, UNCHANGED cvars PROVE Order'
  <1>0. /\ UNCHANGED <<wire, published, incoming, conn, got>>
        /\ broadcast = "put" /\ targets' = Tail(targets)
        /\ \/ Len(targets) = 1 /\ broadcast' # "put"
           \/ Len(targets) # 1 /\ broadcast' = "put" /\ packet' = packet
    BY DEF PutPacket, NextMessage, links, cvars, session
  <1>1. /\ targets # <<>> /\ targets \in Seq(Conns)
    BY <1>0 DEF Types, HubTypes
  <1>a. PICK h \in Conns : h = Head(targets)
    BY <1>1, ListOfConns
  <1>2. /\ Len(targets') = Len(targets) - 1 /\ Len(targets) \in Nat \ {0}
        /\ \A i \in 1..Len(targets) - 1 : targets'[i] = targets[i + 1]
        /\ h = targets[1]
        /\ DOMAIN targets = 1..Len(targets) /\ DOMAIN targets' = 1..Len(targets) - 1
    BY <1>0, <1>1, <1>a, ListOfConns, Empty
  <1>3. /\ \A c \in Conns \ {h} : queue'[c] = queue[c]
        /\ queue'[h] = queue[h] \/ queue'[h] = <<packet>>
    BY <1>a DEF PutPacket, AfterPut, Types, ServerTypes
  <1>4. Due(h) /\ AtHub
    BY <1>0, <1>2 DEF Due, Order
  <1>5. ASSUME NEW c \in Conns, Due(c)' PROVE Due(c) /\ c # h /\ packet' = packet
    <2>1. PICK i \in 1..Len(targets) - 1 : targets[i + 1] = c
      BY <1>0, <1>2, <1>5 DEF Due
    <2>2. 1 \in 1..Len(targets) /\ i + 1 \in 1..Len(targets) /\ i + 1 # 1
      BY <1>2
    <2>. QED BY <1>0, <1>2, <1>4, <1>5, <2>1, <2>2 DEF Due, AtHub, IsInjective
  <1>6. AtHub'
    <2>1. IsInjective(targets')
      <3>1. SUFFICES ASSUME NEW i \in 1..Len(targets) - 1, NEW j \in 1..Len(targets) - 1,
                            targets'[i] = targets'[j]
                     PROVE  i = j
        BY <1>2 DEF IsInjective
      <3>2. i + 1 \in 1..Len(targets) /\ j + 1 \in 1..Len(targets)
        BY <1>2
      <3>3. targets[i + 1] = targets[j + 1]
        BY <1>2, <3>1
      <3>4. i + 1 = j + 1
        BY <1>2, <1>4, <3>2, <3>3 DEF AtHub, IsInjective
      <3>. QED BY <3>4
    <2>. QED BY <1>0, <1>4, <2>1 DEF AtHub
  <1>7. ASSUME NEW c \in Conns, c # h PROVE InWay(c)'
    <2>1. InWay(c) /\ queue'[c] = queue[c]
      BY <1>3, <1>7 DEF Order
    <2>. QED BY <1>0, <1>5, <2>1 DEF InWay
  <1>8. InWay(h)'
    <2>1. InWay(h) /\ ~Due(h)'
      BY <1>2, <1>5 DEF Order
    <2>2. CASE queue'[h] = queue[h]
      BY <1>0, <2>1, <2>2 DEF InWay
    <2>3. CASE queue'[h] = <<packet>>
      <3>1. queue'[h][1] = packet /\ queue'[h] # <<>>
        BY <2>3
      <3>. QED BY <1>0, <1>4, <2>1, <3>1 DEF InWay, AtHub
    <2>. QED BY <1>3, <2>2, <2>3
  <1>9. ASSUME NEW u \in Subscribers PROVE News(u)'
    <2>1. News(u)
      BY DEF Order
    <2>2. ASSUME NEW c \in Conns, Ahead(got[u], c) PROVE Ahead(got[u], c)'
      <3>1. CASE queue'[c] = queue[c]
        BY <1>0, <1>5, <2>2, <3>1 DEF Ahead
      <3>2. CASE queue'[c] = <<packet>> /\ c = h
        <4>1. queue'[c][1] = packet /\ ~Due(c)' /\ Due(c)
          BY <1>4, <1>5, <3>2
        <4>. QED BY <1>0, <2>2, <4>1 DEF Ahead
      <3>. QED BY <1>3, <3>1, <3>2
    <2>. QED BY <1>0, <2>1, <2>2 DEF News
  <1>. QED BY <1>6, <1>7, <1>8, <1>9 DEF Order

\* The sender moves the message of the queue to the end of the wire.
LEMMA OrderOfTakePacket ==
  ASSUME Types, Order, NEW c \in Conns, TakePacket(c), UNCHANGED cvars PROVE Order'
  <1>0. /\ UNCHANGED <<published, incoming, broadcast, packet, targets, conn, got>>
        /\ \A k \in Conns \ {c} : wire'[k] = wire[k] /\ queue'[k] = queue[k]
    BY DEF TakePacket, hub, cvars, session, Types, LinkTypes, ServerTypes
  <1>1. queue \in [Conns -> AtMostOne] /\ wire \in [Conns -> Seq(1..MaxMessages)]
    BY DEF Types, LinkTypes, ServerTypes
  <1>2. CASE wire' = wire
    <2>1. \A k \in Conns : queue'[k] = queue[k] \/ queue'[k] = <<>>
      BY <1>1 DEF TakePacket
    <2>. QED BY <1>0, <1>2, <2>1, OrderShrinks
  <1>3. CASE /\ queue[c] # <<>> /\ queue'[c] = <<>>
             /\ wire'[c] = Append(wire[c], queue[c][1])
    <2>1. queue[c][1] \in 1..MaxMessages /\ wire[c] \in Seq(1..MaxMessages)
      BY <1>1, <1>3, OneQueue
    <2>2. /\ Len(wire'[c]) = Len(wire[c]) + 1 /\ Len(wire[c]) \in Nat
          /\ \A i \in 1..Len(wire[c]) : wire'[c][i] = wire[c][i]
          /\ wire'[c][Len(wire[c]) + 1] = queue[c][1]
      BY <1>3, <2>1, Appending, Empty
    <2>3. \A k \in Conns : Due(k)' = Due(k)
      BY <1>0 DEF Due
    <2>4. AtHub'
      BY <1>0 DEF Order, AtHub
    <2>5. InWay(c)'
      <3>1. InWay(c)
        BY DEF Order
      <3>2. \A i \in 1..Len(wire'[c]) : i \in 1..Len(wire[c]) \/ i = Len(wire[c]) + 1
        BY <2>2
      <3>3. ASSUME NEW i \in 1..Len(wire'[c])
            PROVE  /\ wire'[c][i] <= published
                   /\ Due(c) => wire'[c][i] < packet
                   /\ incoming # <<>> => wire'[c][i] < incoming[1]
        BY <1>3, <2>2, <3>1, <3>2 DEF InWay
      <3>4. ASSUME NEW i \in 1..Len(wire'[c]), NEW j \in 1..Len(wire'[c]), i < j
            PROVE  wire'[c][i] < wire'[c][j]
        <4>1. CASE j \in 1..Len(wire[c])
          <5>1. i \in 1..Len(wire[c])
            BY <2>2, <3>4, <4>1
          <5>. QED BY <2>2, <3>1, <3>4, <4>1, <5>1 DEF InWay
        <4>2. CASE j = Len(wire[c]) + 1
          <5>1. i \in 1..Len(wire[c])
            BY <2>2, <3>4, <4>2
          <5>. QED BY <1>3, <2>2, <3>1, <4>2, <5>1 DEF InWay
        <4>. QED BY <3>2, <4>1, <4>2
      <3>. QED BY <1>0, <1>3, <2>3, <3>3, <3>4 DEF InWay
    <2>6. ASSUME NEW k \in Conns, k # c PROVE InWay(k)'
      <3>1. InWay(k) /\ wire'[k] = wire[k] /\ queue'[k] = queue[k]
        BY <1>0, <2>6 DEF Order
      <3>. QED BY <1>0, <2>3, <3>1 DEF InWay
    <2>7. ASSUME NEW u \in Subscribers PROVE News(u)'
      <3>1. News(u)
        BY DEF Order
      <3>2. ASSUME NEW k \in Conns, Ahead(got[u], k) PROVE Ahead(got[u], k)'
        <4>1. CASE k = c
          <5>1. \A i \in 1..Len(wire'[c]) : i \in 1..Len(wire[c]) \/ i = Len(wire[c]) + 1
            BY <2>2
          <5>. QED BY <1>0, <1>3, <2>2, <2>3, <3>2, <4>1, <5>1 DEF Ahead
        <4>2. CASE k # c
          BY <1>0, <2>3, <3>2, <4>2 DEF Ahead
        <4>. QED BY <4>1, <4>2
      <3>. QED BY <1>0, <3>1, <3>2 DEF News
    <2>. QED BY <2>4, <2>5, <2>6, <2>7 DEF Order
  <1>. QED BY <1>1, <1>2, <1>3, OneQueue DEF TakePacket

\* What is received is newer than what was, and older than what follows.
LEMMA OrderOfReceive ==
  ASSUME Types, Order, NEW u \in Subscribers, Receive(u) PROVE Order' /\ stale' = stale
  <1>a. PICK c \in Conns : c = conn[u]
    BY DEF Receive, Types, ReaderTypes
  <1>0. /\ UNCHANGED <<published, incoming, broadcast, packet, targets, conn, queue>>
        /\ wire[c] # <<>>
        /\ got' = [got EXCEPT ![u] = Head(wire[c])]
        /\ stale' = IF Head(wire[c]) > got[u] THEN stale ELSE stale \cup {u}
        /\ wire[c] \in Seq(1..MaxMessages) /\ got[u] \in Nat
    BY <1>a DEF Receive, Put, hub, senders, Types, ReaderTypes, LinkTypes
  <1>1. /\ \A k \in Conns \ {c} : wire'[k] = wire[k]
        /\ wire'[c] = <<>> \/ wire'[c] = Tail(wire[c])
    BY <1>a, <1>0 DEF Receive, Drop, Put, Types, LinkTypes
  <1>2. /\ Len(Tail(wire[c])) = Len(wire[c]) - 1 /\ Len(wire[c]) \in Nat \ {0}
        /\ \A i \in 1..Len(wire[c]) - 1 : Tail(wire[c])[i] = wire[c][i + 1]
        /\ Head(wire[c]) = wire[c][1] /\ Head(wire[c]) \in Nat
    BY <1>0, Wires
  <1>3. /\ Len(wire'[c]) <= Len(wire[c]) - 1 /\ Len(wire'[c]) \in Nat
        /\ \A i \in 1..Len(wire'[c]) : /\ wire'[c][i] = wire[c][i + 1]
                                       /\ i + 1 \in 1..Len(wire[c])
    <2>1. Len(<<>>) = 0
      OBVIOUS
    <2>2. CASE wire'[c] = <<>>
      BY <1>2, <2>1, <2>2
    <2>3. CASE wire'[c] = Tail(wire[c])
      BY <1>2, <2>3
    <2>. QED BY <1>1, <2>2, <2>3
  <1>4. InWay(c) /\ News(u) /\ Ahead(got[u], c) /\ 1 \in 1..Len(wire[c])
    BY <1>0, <1>a, <1>2 DEF Order, News
  <1>5. stale' = stale
    BY <1>0, <1>2, <1>4 DEF Ahead
  <1>6. \A k \in Conns : Due(k)' = Due(k)
    BY <1>0 DEF Due
  <1>7. AtHub'
    BY <1>0 DEF Order, AtHub
  <1>8. InWay(c)'
    <2>1. ASSUME NEW i \in 1..Len(wire'[c]), NEW j \in 1..Len(wire'[c]), i < j
          PROVE  wire'[c][i] < wire'[c][j]
      <3>1. /\ wire'[c][i] = wire[c][i + 1] /\ i + 1 \in 1..Len(wire[c])
            /\ wire'[c][j] = wire[c][j + 1] /\ j + 1 \in 1..Len(wire[c])
            /\ i + 1 < j + 1
        BY <1>3, <2>1
      <3>. QED BY <1>4, <3>1 DEF InWay
    <2>2. ASSUME NEW i \in 1..Len(wire'[c])
          PROVE  /\ wire'[c][i] <= published
                 /\ queue[c] # <<>> => wire'[c][i] < queue[c][1]
                 /\ Due(c) => wire'[c][i] < packet
                 /\ incoming # <<>> => wire'[c][i] < incoming[1]
      BY <1>3, <1>4 DEF InWay
    <2>3. InWay(c)
      BY <1>4
    <2>. QED BY <1>0, <1>6, <2>1, <2>2, <2>3 DEF InWay
  <1>9. ASSUME NEW k \in Conns, k # c PROVE InWay(k)'
    <2>1. InWay(k) /\ wire'[k] = wire[k]
      BY <1>1, <1>9 DEF Order
    <2>. QED BY <1>0, <1>6, <2>1 DEF InWay
  <1>10. News(u)'
    <2>1. got'[u] = wire[c][1]
      BY <1>0, <1>2 DEF Types, ReaderTypes
    <2>2. /\ got'[u] <= published
          /\ incoming # <<>> => got'[u] < incoming[1]
      BY <1>4, <2>1 DEF InWay
    <2>3. Ahead(got[u], c)'
      BY <1>0, <1>2, <1>3, <1>4, <1>6, <2>1 DEF InWay, Ahead
    <2>. QED BY <1>0, <1>a, <2>2, <2>3 DEF News
  <1>11. ASSUME NEW v \in Subscribers, v # u PROVE News(v)'
    <2>1. News(v) /\ got'[v] = got[v]
      BY <1>0, <1>11 DEF Order, Types, ReaderTypes
    <2>2. ASSUME NEW k \in Conns, Ahead(got[v], k) PROVE Ahead(got[v], k)'
      <3>1. CASE k = c
        BY <1>0, <1>3, <1>6, <2>1, <2>2, <3>1 DEF Ahead
      <3>2. CASE k # c
        BY <1>0, <1>1, <1>6, <2>1, <2>2, <3>2 DEF Ahead
      <3>. QED BY <3>1, <3>2
    <2>. QED BY <1>0, <2>1, <2>2 DEF News
  <1>. QED BY <1>5, <1>7, <1>8, <1>9, <1>10, <1>11 DEF Order

\* A new connection starts with nothing on its way.
LEMMA OrderOfDial ==
  ASSUME Types, Idleness, Order, NEW u \in Subscribers, Dial(u) PROVE Order'
  <1>0. /\ UNCHANGED <<published, incoming, broadcast, packet, targets, got, queue, wire>>
    BY DEF Dial, hub, senders
  <1>1. PICK c \in Conns : Unused(c) /\ conn' = [conn EXCEPT ![u] = c]
    BY DEF Dial, Put
  <1>2. /\ wire[c] = <<>> /\ queue[c] = <<>> /\ ~Due(c)
    <2>1. DOMAIN targets = 1..Len(targets)
      BY Empty DEF Types, HubTypes
    <2>. QED BY <1>1, <2>1 DEF Unused, Idleness, Due
  <1>3. \A k \in Conns : Due(k)' = Due(k)
    BY <1>0 DEF Due
  <1>4. AtHub' /\ \A k \in Conns : InWay(k)'
    BY <1>0, <1>3 DEF Order, AtHub, InWay
  <1>5. ASSUME NEW v \in Subscribers PROVE News(v)'
    <2>1. News(v) /\ (conn'[v] = conn[v] \/ conn'[v] = c)
      BY <1>1 DEF Order, Types, ReaderTypes
    <2>2. Ahead(got[v], c)
      <3>1. Len(<<>>) = 0
        OBVIOUS
      <3>. QED BY <1>2, <3>1 DEF Ahead
    <2>3. \A k \in Conns : Ahead(got[v], k) => Ahead(got[v], k)'
      BY <1>0, <1>3 DEF Ahead
    <2>. QED BY <1>0, <1>1, <2>1, <2>2, <2>3 DEF News
  <1>. QED BY <1>4, <1>5 DEF Order
LEMMA OrderKept ==
  ASSUME Types, Roster, Idleness, Order, Next
  PROVE  Order' /\ stale' = stale
  <1>0. /\ Types /\ Roster /\ Idleness /\ Order
        /\ LinkTypes /\ ServerTypes /\ ReaderTypes /\ HubTypes
    BY DEF Types
  <1>1. ASSUME Publish /\ UNCHANGED cvars PROVE Order' /\ stale' = stale
    BY <1>0, <1>1, OrderOfPublish DEF cvars
  <1>2. ASSUME TakeIncoming /\ UNCHANGED cvars PROVE Order' /\ stale' = stale
    BY <1>0, <1>2, OrderOfTakeIncoming DEF cvars
  <1>3. ASSUME PutPacket /\ UNCHANGED cvars PROVE Order' /\ stale' = stale
    BY <1>0, <1>3, OrderOfPutPacket DEF cvars
  <1>4. ASSUME NEW c \in Conns, TakePacket(c) /\ UNCHANGED cvars
        PROVE  Order' /\ stale' = stale
    BY <1>0, <1>4, OrderOfTakePacket DEF cvars
  <1>5. ASSUME NEW u \in Subscribers, Dial(u) PROVE Order' /\ stale' = stale
    BY <1>0, <1>5, OrderOfDial DEF Dial
  <1>6. ASSUME NEW u \in Subscribers, Receive(u) PROVE Order' /\ stale' = stale
    BY <1>0, <1>6, OrderOfReceive
  <1>7. ASSUME BroadcastEnds /\ UNCHANGED cvars PROVE Order' /\ stale' = stale
    <2>1. /\ UNCHANGED <<published, incoming, packet, targets, got, stale>>
          /\ broadcast' = "put" => broadcast = "put"
          /\ \A k \in Conns : wire'[k] = wire[k] \/ wire'[k] = <<>>
          /\ \A k \in Conns : queue'[k] = queue[k] \/ queue'[k] = <<>>
          /\ \A v \in Subscribers : conn'[v] = conn[v] \/ conn'[v] = None
      BY <1>0, <1>7 DEF BroadcastEnds, hub, senders, links, svars, cvars, session
    <2>. QED BY <1>0, <2>1, OrderShrinks
  <1>8. ASSUME (AcceptorEnds \/ SetStop) /\ UNCHANGED cvars
        PROVE  Order' /\ stale' = stale
    <2>1. /\ UNCHANGED <<published, incoming, packet, targets, got, stale>>
          /\ broadcast' = "put" => broadcast = "put"
          /\ \A k \in Conns : wire'[k] = wire[k] \/ wire'[k] = <<>>
          /\ \A k \in Conns : queue'[k] = queue[k] \/ queue'[k] = <<>>
          /\ \A v \in Subscribers : conn'[v] = conn[v] \/ conn'[v] = None
      BY <1>0, <1>8 DEF AcceptorEnds, SetStop, hub, senders, links, svars, cvars,
         session
    <2>. QED BY <1>0, <2>1, OrderShrinks
  <1>9. ASSUME (CloseIncoming \/ CloseClients) /\ UNCHANGED cvars
        PROVE  Order' /\ stale' = stale
    <2>1. /\ UNCHANGED <<published, incoming, packet, targets, got, stale>>
          /\ broadcast' = "put" => broadcast = "put"
          /\ \A k \in Conns : wire'[k] = wire[k] \/ wire'[k] = <<>>
          /\ \A k \in Conns : queue'[k] = queue[k] \/ queue'[k] = <<>>
          /\ \A v \in Subscribers : conn'[v] = conn[v] \/ conn'[v] = None
      BY <1>0, <1>9 DEF CloseIncoming, CloseClients, hub, senders, links, svars, cvars,
         session
    <2>. QED BY <1>0, <2>1, OrderShrinks
  <1>10. ASSUME NEW c \in Conns, (Accept(c) \/ HandshakeFails(c)
          \/ Refuse(c)) /\ UNCHANGED cvars
        PROVE  Order' /\ stale' = stale
    <2>1. /\ UNCHANGED <<published, incoming, packet, targets, got, stale>>
          /\ broadcast' = "put" => broadcast = "put"
          /\ \A k \in Conns : wire'[k] = wire[k] \/ wire'[k] = <<>>
          /\ \A k \in Conns : queue'[k] = queue[k] \/ queue'[k] = <<>>
          /\ \A v \in Subscribers : conn'[v] = conn[v] \/ conn'[v] = None
      BY <1>0, <1>10 DEF Accept, HandshakeFails, Refuse, hub, senders, links, svars,
         cvars, session
    <2>. QED BY <1>0, <2>1, OrderShrinks
  <1>11. ASSUME NEW c \in Conns, (Admit(c) \/ Welcome(c)
          \/ WelcomeFails(c)) /\ UNCHANGED cvars
        PROVE  Order' /\ stale' = stale
    <2>1. /\ UNCHANGED <<published, incoming, packet, targets, got, stale>>
          /\ broadcast' = "put" => broadcast = "put"
          /\ \A k \in Conns : wire'[k] = wire[k] \/ wire'[k] = <<>>
          /\ \A k \in Conns : queue'[k] = queue[k] \/ queue'[k] = <<>>
          /\ \A v \in Subscribers : conn'[v] = conn[v] \/ conn'[v] = None
      BY <1>0, <1>11 DEF Admit, Welcome, WelcomeFails, hub, senders, links, svars,
         cvars, session
    <2>. QED BY <1>0, <2>1, OrderShrinks
  <1>12. ASSUME NEW c \in Conns, (Sent(c) \/ SendFails(c)) /\ UNCHANGED cvars
        PROVE  Order' /\ stale' = stale
    <2>1. /\ UNCHANGED <<published, incoming, packet, targets, got, stale>>
          /\ broadcast' = "put" => broadcast = "put"
          /\ \A k \in Conns : wire'[k] = wire[k] \/ wire'[k] = <<>>
          /\ \A k \in Conns : queue'[k] = queue[k] \/ queue'[k] = <<>>
          /\ \A v \in Subscribers : conn'[v] = conn[v] \/ conn'[v] = None
      BY <1>0, <1>12 DEF Sent, SendFails, hub, senders, links, svars, cvars, session
    <2>. QED BY <1>0, <2>1, OrderShrinks
  <1>13. ASSUME NEW c \in Conns, Leave(c) /\ UNCHANGED cvars
        PROVE  Order' /\ stale' = stale
    <2>1. /\ UNCHANGED <<published, incoming, packet, targets, got, stale>>
          /\ broadcast' = "put" => broadcast = "put"
          /\ \A k \in Conns : wire'[k] = wire[k] \/ wire'[k] = <<>>
          /\ \A k \in Conns : queue'[k] = queue[k] \/ queue'[k] = <<>>
          /\ \A v \in Subscribers : conn'[v] = conn[v] \/ conn'[v] = None
      BY <1>0, <1>13 DEF Leave, hub, senders, links, svars, cvars, session, ServerTypes
    <2>. QED BY <1>0, <2>1, OrderShrinks
  <1>14. ASSUME NEW u \in Subscribers, Aborts(u) \/ BudgetExhausted(u) \/ DialFails(u)
        PROVE  Order' /\ stale' = stale
    <2>1. /\ UNCHANGED <<published, incoming, packet, targets, got, stale>>
          /\ broadcast' = "put" => broadcast = "put"
          /\ \A k \in Conns : wire'[k] = wire[k] \/ wire'[k] = <<>>
          /\ \A k \in Conns : queue'[k] = queue[k] \/ queue'[k] = <<>>
          /\ \A v \in Subscribers : conn'[v] = conn[v] \/ conn'[v] = None
      BY <1>0, <1>14 DEF Aborts, BudgetExhausted, DialFails, hub, senders, links,
         svars, cvars, session
    <2>. QED BY <1>0, <2>1, OrderShrinks
  <1>15. ASSUME NEW u \in Subscribers, Subscribed(u) PROVE Order' /\ stale' = stale
    <2>1. /\ UNCHANGED <<published, incoming, packet, targets, got, stale>>
          /\ broadcast' = "put" => broadcast = "put"
          /\ \A k \in Conns : wire'[k] = wire[k] \/ wire'[k] = <<>>
          /\ \A k \in Conns : queue'[k] = queue[k] \/ queue'[k] = <<>>
          /\ \A v \in Subscribers : conn'[v] = conn[v] \/ conn'[v] = None
      BY <1>0, <1>15 DEF Subscribed, hub, senders, links, svars, cvars, session
    <2>. QED BY <1>0, <2>1, OrderShrinks
  <1>16. ASSUME NEW u \in Subscribers, ConnectFails(u) \/ ReceiveFails(u)
          \/ ReceiveFailsAgain(u)
        PROVE  Order' /\ stale' = stale
    <2>a. /\ conn[u] \in Conns /\ UNCHANGED <<hub, got, stale, queue>>
          /\ Drop(conn[u]) \/ wire' = wire
          /\ conn' = conn \/ conn' = [conn EXCEPT ![u] = None]
      BY <1>0, <1>16 DEF ConnectFails, ReceiveFails, ReceiveFailsAgain, Put,
         ReaderTypes, senders, session
    <2>b. \A k \in Conns : wire'[k] = wire[k] \/ wire'[k] = <<>>
      BY <1>0, <2>a, Dropping
    <2>1. /\ UNCHANGED <<published, incoming, packet, targets, got, stale>>
          /\ broadcast' = "put" => broadcast = "put"
          /\ \A k \in Conns : wire'[k] = wire[k] \/ wire'[k] = <<>>
          /\ \A k \in Conns : queue'[k] = queue[k] \/ queue'[k] = <<>>
          /\ \A v \in Subscribers : conn'[v] = conn[v] \/ conn'[v] = None
      BY <1>0, <2>a, <2>b DEF hub, ReaderTypes
    <2>. QED BY <1>0, <2>1, OrderShrinks
  <1>17. ASSUME NEW u \in Subscribers, Close(u) PROVE Order' /\ stale' = stale
    <2>a. /\ UNCHANGED <<hub, got, stale, queue, conn>>
          /\ wire' = wire \/ (sock[u] \in Conns /\ Drop(sock[u]))
      BY <1>0, <1>17 DEF Close, ReaderTypes, senders
    <2>b. \A k \in Conns : wire'[k] = wire[k] \/ wire'[k] = <<>>
      BY <1>0, <2>a, Dropping
    <2>1. /\ UNCHANGED <<published, incoming, packet, targets, got, stale>>
          /\ broadcast' = "put" => broadcast = "put"
          /\ \A k \in Conns : wire'[k] = wire[k] \/ wire'[k] = <<>>
          /\ \A k \in Conns : queue'[k] = queue[k] \/ queue'[k] = <<>>
          /\ \A v \in Subscribers : conn'[v] = conn[v] \/ conn'[v] = None
      BY <1>0, <2>a, <2>b DEF hub
    <2>. QED BY <1>0, <2>1, OrderShrinks
  <1>18. ASSUME NEW c \in Conns, Reset(c) PROVE Order' /\ stale' = stale
    <2>1. /\ UNCHANGED <<published, incoming, packet, targets, got, stale>>
          /\ broadcast' = "put" => broadcast = "put"
          /\ \A k \in Conns : wire'[k] = wire[k] \/ wire'[k] = <<>>
          /\ \A k \in Conns : queue'[k] = queue[k] \/ queue'[k] = <<>>
          /\ \A v \in Subscribers : conn'[v] = conn[v] \/ conn'[v] = None
      BY <1>0, <1>18 DEF Reset, hub, senders, links, svars, cvars, session, Put,
         LinkTypes
    <2>. QED BY <1>0, <2>1, OrderShrinks
  <1>. QED
    BY <1>1, <1>2, <1>3, <1>4, <1>5, <1>6, <1>7, <1>8, <1>9, <1>10, <1>11, <1>12,
       <1>13, <1>14, <1>15, <1>16, <1>17, <1>18
    DEF Next, ServerStep, BroadcastStep, ServerThread, CloseServer, Reader

-----------------------------------------------------------------------------
(***************************************************************************)
(* The theorems.                                                           *)
(***************************************************************************)

\* The invariant holds at first,
LEMMA InvInit == ASSUME Init PROVE StreamInv
  <1>1. PICK s \in Setups :
            /\ exported = s.export /\ asked = s.ask
            /\ ServerInit(s.early, {c \in s.early : Owner[c] \in Stuck})
            /\ conn = [u \in Subscribers |-> EarlyConn(u, s.early)]
    BY DEF Init
  <1>. DEFINE early == s.early
              full == {c \in early : Owner[c] \in Stuck}
  <1>2. /\ s.export \in Queues /\ s.ask \in [Subscribers -> Queues]
        /\ early \subseteq Conns /\ IsFiniteSet(early) /\ Cardinality(early) <= MaxClients
    BY SubscriberAssumption
  <1>3. /\ clients = SetToSeq(early) /\ clients \in Seq(early) /\ IsInjective(clients)
        /\ Len(clients) = Cardinality(early)
        /\ \A c : c \in early <=> \E i \in DOMAIN clients : clients[i] = c
    BY <1>1, <1>2, Listing DEF ServerInit
  <1>4. clients \in Seq(Conns)
    BY <1>2, <1>3
  <1>5. /\ published = 1 /\ incoming = <<>> /\ broadcast = "get" /\ packet = 0
        /\ targets = <<>> /\ acceptor = "accept" /\ deaf = {} /\ closing = "up"
        /\ doomed = <<>> /\ faults = 0
        /\ thread = [c \in Conns |-> IF c \in full THEN "send"
                                   ELSE IF c \in early THEN "get" ELSE "none"]
        /\ queue = [c \in Conns |-> <<>>]
        /\ near = [c \in Conns |-> IF c \in early THEN "open" ELSE "closed"]
        /\ far = near /\ reply = [c \in Conns |-> "none"]
        /\ wire = [c \in Conns |-> IF c \in full THEN <<1>> ELSE <<>>]
    BY <1>1 DEF ServerInit
  <1>a. full \subseteq early
    OBVIOUS
  <1>6. /\ \A c \in Conns : thread[c] = IF c \in full THEN "send"
                                        ELSE IF c \in early THEN "get" ELSE "none"
        /\ thread \in [Conns -> {"none", "get", "send"}] /\ full \subseteq early
    BY <1>5, <1>a
  <1>7. /\ \A u \in Subscribers : EarlyConn(u, early) \in early \cup {None}
        /\ conn = [u \in Subscribers |-> EarlyConn(u, early)] /\ sock = conn
        /\ reader = [u \in Subscribers |-> CASE u \in Stuck -> "stuck"
                                             [] conn[u] = None -> "dial"
                                             [] OTHER -> "recv"]
    BY <1>1 DEF Init, EarlyConn
  <1>8. /\ again = [u \in Subscribers |-> FALSE]
        /\ tried = [u \in Subscribers |-> 0] /\ spent = [u \in Subscribers |-> 0]
        /\ shut = {} /\ got = [u \in Subscribers |-> 0] /\ stale = {}
    BY DEF Init
  <1>. HIDE DEF early, full
  <1>9. HubTypes
    BY <1>1, <1>2, <1>5, Constants, OneQueue, Empty DEF early, HubTypes
  <1>10. ServerTypes
    BY <1>4, <1>5, <1>6, Constants, OneQueue, Empty DEF ServerTypes
  <1>11. LinkTypes
    <2>1. <<1>> \in Seq(1..MaxMessages) /\ <<>> \in Seq(1..MaxMessages)
      BY Constants
    <2>. QED BY <1>5, <2>1 DEF LinkTypes
  <1>12. ReaderTypes
    <2>1. conn \in [Subscribers -> Conns \cup {None}]
      BY <1>2, <1>7 DEF early
    <2>2. /\ reader \in [Subscribers -> {"dial", "reply", "recv", "ended", "stuck"}]
          /\ \A u \in Subscribers : reader[u] \in {"reply", "recv"} => conn[u] # None
      BY <1>7
    <2>. QED BY <1>7, <1>8, <2>1, <2>2, Constants DEF ReaderTypes
  <1>13. Roster
    <2>1. \A c \in Conns : Listed(c) <=> c \in early
      BY <1>3 DEF Listed
    <2>2. Len(clients) <= MaxClients
      BY <1>2, <1>3 DEF early
    <2>3. \A c \in Conns : near[c] = IF c \in early THEN "open" ELSE "closed"
      BY <1>5
    <2>. QED BY <1>3, <1>6, <2>1, <2>2, <2>3 DEF Roster, ClientsAccounted
  <1>14. \A c \in Conns : /\ wire[c] = <<>> \/ (wire[c] = <<1>> /\ c \in full)
                          /\ queue[c] = <<>>
                          /\ far[c] = near[c] /\ near[c] # "waiting"
    BY <1>5
  <1>15. Len(<<>>) = 0 /\ Len(<<1>>) = 1 /\ <<1>>[1] = 1
    OBVIOUS
  <1>16. Idleness
    <2>1. \A c \in full : far[c] # "closed" /\ thread[c] = "send"
      BY <1>2, <1>5, <1>6 DEF early
    <2>2. \A c \in Conns : Len(wire[c]) \in 0..1 /\ queue[c] = <<>>
      <3>1. ASSUME NEW c \in Conns PROVE Len(wire[c]) \in 0..1
        <4>1. CASE wire[c] = <<>>
          BY <1>15, <4>1
        <4>2. CASE wire[c] = <<1>>
          BY <1>15, <4>2
        <4>. QED BY <1>14, <4>1, <4>2
      <3>. QED BY <1>14, <3>1
    <2>3. ASSUME NEW c \in Conns, far[c] = "closed" \/ Unserved(c) PROVE wire[c] = <<>>
      BY <1>6, <1>14, <2>1, <2>3 DEF Unserved
    <2>4. ASSUME NEW c \in Conns, thread[c] = "get" PROVE Len(wire[c]) = 0
      BY <1>14, <1>15, <2>1, <2>4
    <2>5. WireRoom \in Nat
      BY Constants
    <2>6. \A c \in Conns : /\ Len(wire[c]) <= WireRoom + 1
                           /\ thread[c] = "get" => Len(wire[c]) <= WireRoom
      <3>1. ASSUME NEW l \in 0..1 PROVE l <= WireRoom + 1 /\ (l = 0 => l <= WireRoom)
        BY <2>5
      <3>. QED BY <2>2, <2>4, <3>1
    <2>. QED BY <2>2, <2>3, <2>6 DEF Idleness
  <1>17. Untargeted
    BY <1>5, <1>15 DEF Untargeted
  <1>18. Order
    <2>1. AtHub
      BY <1>5 DEF AtHub, IsInjective
    <2>2. \A c \in Conns : InWay(c)
      BY <1>5, <1>14, <1>15 DEF InWay, Due
    <2>3. \A u \in Subscribers : News(u)
      BY <1>5, <1>8, <1>14, <1>15 DEF News, Ahead, Due
    <2>. QED BY <2>1, <2>2, <2>3 DEF Order
  <1>. QED BY <1>8, <1>9, <1>10, <1>11, <1>12, <1>13, <1>16, <1>17, <1>18 DEF StreamInv, Types

\* every step keeps it,
LEMMA InvNext == ASSUME StreamInv, [Next]_vars PROVE StreamInv'
  <1>1. CASE Next
    <2>0. /\ Types /\ Roster /\ Idleness /\ Untargeted /\ Order /\ stale = {}
      BY DEF StreamInv
    <2>2. HubTypes' /\ LinkTypes' /\ ReaderTypes'
      BY <1>1, <2>0, HubTypesKept, LinkTypesKept, ReaderTypesKept
    <2>3. ServerTypes'
      BY <1>1, <2>0, ServerTypesKept
    <2>4. Roster' /\ Idleness' /\ Untargeted'
      BY <1>1, <2>0, RosterKept, IdlenessKept, UntargetedKept
    <2>5. Order' /\ stale' = stale
      BY <1>1, <2>0, OrderKept
    <2>. QED BY <2>0, <2>2, <2>3, <2>4, <2>5 DEF StreamInv, Types
  <1>2. CASE UNCHANGED vars
    BY <1>2
    DEF vars, svars, cvars, hub, admission, senders, shutdown, links, session, StreamInv,
        Types, HubTypes, ServerTypes, LinkTypes, ReaderTypes, Roster, ClientsAccounted,
        Listed, Idleness, Unserved, Untargeted, Order, AtHub, InWay, News, Ahead, Due
  <1>. QED BY <1>1, <1>2

\* so it holds of the specification.
LEMMA InvHolds == Spec => []StreamInv
  BY InvInit, InvNext, PTL DEF Spec

\* The queues, connections and counters of the server and of its subscribers have
\* their types, and a wire never holds more than the buffers and one message.
THEOREM StreamsTypeCorrect == Spec => []TypeOK
  <1>1. StreamInv => TypeOK
    BY Constants
    DEF StreamInv, Types, HubTypes, ServerTypes, LinkTypes, ReaderTypes, Idleness, TypeOK
  <1>. QED BY <1>1, InvHolds, PTL

\* What the broadcast and the senders deliver, and reconnection resumes, is received
\* in the order of publication and without repetition.
THEOREM ReceivedInOrder == Spec => []InOrder
  <1>1. StreamInv => InOrder
    BY DEF StreamInv, InOrder
  <1>. QED BY <1>1, InvHolds, PTL

\* The clients listed are at most max_clients, listed once, and those whose thread
\* will take them off the list or whose handshake failed after it was listed.
THEOREM ClientsAreAccounted == Spec => []ClientsAccounted
  <1>1. StreamInv => ClientsAccounted
    BY DEF StreamInv, Roster
  <1>. QED BY <1>1, InvHolds, PTL
=============================================================================
