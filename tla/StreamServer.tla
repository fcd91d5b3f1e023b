----------------------------- MODULE StreamServer ------------------------------
(***************************************************************************)
(* StreamServer (streams.py) serving one named stream: the thread that     *)
(* publishes, the broadcast thread, the accept thread, a handshake thread  *)
(* and then a sender thread per connection, and the caller of close.       *)
(* Messages are numbered in the order they are published.  The queues are  *)
(* those of BoundedQueue with room for one message.  A connection has two  *)
(* ends; what the server sends is on the wire until the subscriber reads   *)
(* it.                                                                     *)
(***************************************************************************)
EXTENDS Integers, Sequences, SequencesExt, FiniteSets

CONSTANTS
    Subscribers,    \* StreamClients
    Conns,          \* bound: connections that exist at a time
    Owner,          \* Owner[c]: the subscriber that may make connection c
    MaxMessages,    \* bound: messages published
    MaxClients,     \* max_clients
    MaxHandshakes,  \* max_handshakes
    WireRoom,       \* messages the sockets' buffers hold, but for the one being sent
    MaxFaults,      \* bound: failures of the network or of a request
    None            \* nobody

Queues == {"block", "latest", "drop_newest"}

ASSUME StreamAssumption ==
    /\ {MaxClients, MaxHandshakes, WireRoom, MaxFaults} \subseteq Nat
    /\ MaxMessages \in Nat \ {0}
    /\ Conns \subseteq Nat /\ Owner \in [Conns -> Subscribers]
    /\ None \notin Subscribers \cup Conns

VARIABLES
    exported,   \* the policy of the stream's queue
    asked,      \* the policy that each subscriber asks for
    published,  \* messages the publisher has handed over
    incoming,   \* StreamDefinition.incoming
    broadcast,  \* what the broadcast thread is doing
    packet,     \* the message it has taken
    targets,    \* clients it has still to serve
    clients,    \* StreamDefinition.clients
    acceptor,   \* whether the accept thread runs
    thread,     \* what a connection's handshake or sender thread is doing
    queue,      \* _Client.queue, by connection
    deaf,       \* connections whose queue has been closed
    closing,    \* what the caller of close is doing
    doomed,     \* the clients it has still to close
    near, far,  \* the state of a connection's two ends
    reply,      \* the server's answer to the handshake
    wire,       \* messages on their way to the subscriber
    faults      \* failures so far

hub == <<exported, asked, published, incoming, broadcast, packet, targets>>
admission == <<clients, acceptor, thread>>
senders == <<queue, deaf>>
shutdown == <<closing, doomed>>
links == <<near, far, reply, wire>>
svars == <<hub, admission, senders, shutdown, links, faults>>

\* The first message has been sent to the clients of early connections; full
\* ones have not read it.
ServerInit(early, full) ==
    /\ published = 1 /\ incoming = <<>>
    /\ broadcast = "get" /\ packet = 0 /\ targets = <<>>
    /\ clients = SetToSeq(early) /\ acceptor = "accept"
    /\ thread = [c \in Conns |-> IF c \in full THEN "send"
                               ELSE IF c \in early THEN "get" ELSE "none"]
    /\ queue = [c \in Conns |-> <<>>] /\ deaf = {}
    /\ closing = "up" /\ doomed = <<>>
    /\ near = [c \in Conns |-> IF c \in early THEN "open" ELSE "closed"]
    /\ far = near
    /\ reply = [c \in Conns |-> "none"]
    /\ wire = [c \in Conns |-> IF c \in full THEN <<1>> ELSE <<>>]
    /\ faults = 0

Asked(c) == asked[Owner[c]]         \* the policy of the client's queue
stop == closing # "up"              \* _stop
IncomingClosed == closing \in {"draining", "down"}
Listed(c) == \E i \in DOMAIN clients : clients[i] = c
InHandshake == {c \in Conns : thread[c] \in {"hello", "listed"}}
Deaf(c) == c \in deaf \/ thread[c] = "none"     \* its queue is closed

\* A step that a failure makes possible, or a condition that makes it certain.
Fault == faults < MaxFaults /\ faults' = faults + 1
OrFault(condition) == IF condition THEN UNCHANGED faults ELSE Fault

Goes(c, place) == thread' = [thread EXCEPT ![c] = place]
CloseEnd(c) == near' = [near EXCEPT ![c] = "closed"]

\* put on an open queue of one: whether it returns, and what it leaves.
Returns(q, policy) == q = <<>> \/ policy # "block"
AfterPut(q, policy, m) == IF q # <<>> /\ policy = "drop_newest" THEN q ELSE <<m>>

-----------------------------------------------------------------------------
(* From the publisher to the clients' queues.                              *)

\* StreamServer.publish; a closed queue takes nothing and answers at once.
Publish ==
    /\ published < MaxMessages
    /\ IncomingClosed \/ Returns(incoming, exported)
    /\ published' = published + 1
    /\ incoming' = IF IncomingClosed THEN incoming
                   ELSE AfterPut(incoming, exported, published + 1)
    /\ UNCHANGED <<exported, asked, broadcast, packet, targets, admission, senders,
                   shutdown, links, faults>>

\* The head of the broadcast loop, when a message is done with.
NextMessage ==
    /\ broadcast' = IF stop THEN "ended" ELSE "get"
    /\ packet' = 0

\* A message is taken and, unless nobody listens or it cannot be encoded, the
\* clients of the moment are served.
TakeIncoming ==
    /\ broadcast = "get" /\ incoming # <<>>
    /\ incoming' = <<>>
    /\ \/ /\ clients # <<>>
          /\ broadcast' = "put"
          /\ packet' = Head(incoming) /\ targets' = clients
          /\ UNCHANGED faults
       \/ /\ OrFault(clients = <<>>)
          /\ NextMessage
          /\ UNCHANGED targets
    /\ UNCHANGED <<exported, asked, published, admission, senders, shutdown, links>>

BroadcastEnds ==
    /\ broadcast = "get" /\ incoming = <<>> /\ IncomingClosed
    /\ broadcast' = "ended"
    /\ UNCHANGED <<exported, asked, published, incoming, packet, targets, admission,
                   senders, shutdown, links, faults>>

\* Mutant: the broadcast waits for room whatever the client asked for.
PutPacketWaiting ==
    /\ broadcast = "put"
    /\ LET c == Head(targets)
       IN /\ Deaf(c) \/ queue[c] = <<>>
          /\ queue' = IF Deaf(c) THEN queue ELSE [queue EXCEPT ![c] = <<packet>>]
    /\ targets' = Tail(targets)
    /\ IF Len(targets) = 1 THEN NextMessage ELSE UNCHANGED <<broadcast, packet>>
    /\ UNCHANGED <<exported, asked, published, incoming, admission, deaf, shutdown,
                   links, faults>>

\* client.queue.put(packet), which waits when that client asked for `block`.
PutPacket ==
    /\ broadcast = "put"
    /\ LET c == Head(targets)
           q == queue[c]
       IN /\ Deaf(c) \/ Returns(q, Asked(c))
          /\ queue' = IF Deaf(c) THEN queue
                      ELSE [queue EXCEPT ![c] = AfterPut(q, Asked(c), packet)]
    /\ targets' = Tail(targets)
    /\ IF Len(targets) = 1 THEN NextMessage ELSE UNCHANGED <<broadcast, packet>>
    /\ UNCHANGED <<exported, asked, published, incoming, admission, deaf,
                   shutdown, links, faults>>

-----------------------------------------------------------------------------
(* Admission: the accept thread and the handshakes.                        *)

\* Without a handshake slot the connection is closed at once.
Accept(c) ==
    /\ acceptor = "accept" /\ near[c] = "waiting"
    /\ IF Cardinality(InHandshake) < MaxHandshakes
       THEN Goes(c, "hello") /\ near' = [near EXCEPT ![c] = "open"]
       ELSE CloseEnd(c) /\ UNCHANGED thread
    /\ UNCHANGED <<hub, clients, acceptor, senders, shutdown, far, reply, wire, faults>>

\* accept raises, or times out and _stop is set.
AcceptorEnds ==
    /\ acceptor = "accept"
    /\ OrFault(stop)
    /\ acceptor' = "ended"
    /\ UNCHANGED <<hub, clients, thread, senders, shutdown, links>>

\* The request is late, broken off or malformed.
HandshakeFails(c) ==
    /\ thread[c] = "hello"
    /\ OrFault(far[c] # "open")
    /\ CloseEnd(c)
    /\ Goes(c, "none")
    /\ UNCHANGED <<hub, clients, acceptor, senders, shutdown, far, reply, wire>>

\* Unknown stream, address or token, or too many clients.
Refuse(c) ==
    /\ thread[c] = "hello"
    /\ OrFault(Len(clients) >= MaxClients)
    /\ reply' = [reply EXCEPT ![c] = IF far[c] = "open" THEN "no" ELSE @]
    /\ CloseEnd(c)
    /\ Goes(c, "none")
    /\ UNCHANGED <<hub, clients, acceptor, senders, shutdown, far, wire>>

\* Mutant: only the clients that are being served count.
AdmitUncounted(c) ==
    /\ thread[c] = "hello"
    /\ Cardinality({k \in Conns : thread[k] \in {"get", "send"}}) < MaxClients
    /\ clients' = Append(clients, c)
    /\ Goes(c, "listed")
    /\ UNCHANGED <<hub, acceptor, senders, shutdown, links, faults>>

\* The client is counted and listed under one lock.
Admit(c) ==
    /\ thread[c] = "hello"
    /\ Len(clients) < MaxClients
    /\ clients' = Append(clients, c)
    /\ Goes(c, "listed")
    /\ UNCHANGED <<hub, acceptor, senders, shutdown, links, faults>>

\* The head of a sender's loop.
NextPacket(c) == Goes(c, IF stop THEN "finish" ELSE "get")

\* The answer is sent, the sender starts and the slot is returned.  A send on
\* a connection that the other end has left may still succeed.
Welcome(c) ==
    /\ thread[c] = "listed" /\ near[c] = "open"
    /\ reply' = [reply EXCEPT ![c] = IF far[c] = "open" THEN "ok" ELSE @]
    /\ NextPacket(c)
    /\ UNCHANGED <<hub, clients, acceptor, senders, shutdown, near, far, wire, faults>>

\* The answer, or the settimeout after it, raises: the socket is closed and
\* the client stays listed.
WelcomeFails(c) ==
    /\ thread[c] = "listed"
    /\ near[c] # "open" \/ far[c] # "open"
    /\ CloseEnd(c)
    /\ Goes(c, "stranded")
    /\ UNCHANGED <<hub, clients, acceptor, senders, shutdown, far, reply, wire, faults>>

-----------------------------------------------------------------------------
(* The sender of a client.                                                 *)

\* Mutant: the packet stays in the queue until it has been sent.
TakePacketKept(c) ==
    /\ thread[c] = "get"
    /\ \/ /\ queue[c] # <<>>
          /\ wire' = IF far[c] \in {"open", "held"}
                     THEN [wire EXCEPT ![c] = Append(@, Head(queue[c]))] ELSE wire
          /\ Goes(c, "send")
          /\ UNCHANGED queue
       \/ /\ queue[c] = <<>> /\ c \in deaf
          /\ Goes(c, "finish")
          /\ UNCHANGED <<queue, wire>>
    /\ UNCHANGED <<hub, clients, acceptor, deaf, shutdown, near, far, reply, faults>>

\* queue.get, and the beginning of send_packet.
TakePacket(c) ==
    /\ thread[c] = "get"
    /\ \/ /\ queue[c] # <<>>
          /\ queue' = [queue EXCEPT ![c] = <<>>]
          /\ wire' = IF far[c] \in {"open", "held"}
                     THEN [wire EXCEPT ![c] = Append(@, Head(queue[c]))] ELSE wire
          /\ Goes(c, "send")
       \/ /\ queue[c] = <<>> /\ c \in deaf
          /\ Goes(c, "finish")
          /\ UNCHANGED <<queue, wire>>
    /\ UNCHANGED <<hub, clients, acceptor, deaf, shutdown, near, far, reply, faults>>

\* The buffers have room, or nobody is there any more to fill them.
Sent(c) ==
    /\ thread[c] = "send" /\ near[c] = "open"
    /\ Len(wire[c]) <= WireRoom
    /\ NextPacket(c)
    /\ UNCHANGED <<hub, clients, acceptor, senders, shutdown, links, faults>>

\* The connection is gone: closed by either end, or reset.
SendFails(c) ==
    /\ thread[c] = "send"
    /\ near[c] # "open" \/ far[c] \notin {"open", "held"}
    /\ Goes(c, "finish")
    /\ UNCHANGED <<hub, clients, acceptor, senders, shutdown, links, faults>>

\* Mutant: a sender that ends leaves its client on the list.
LeaveListed(c) ==
    /\ thread[c] = "finish"
    /\ queue' = [queue EXCEPT ![c] = <<>>] /\ deaf' = deaf \ {c}
    /\ CloseEnd(c)
    /\ Goes(c, "none")
    /\ UNCHANGED <<hub, clients, acceptor, shutdown, far, reply, wire, faults>>

\* The queue and the socket are closed and the client is removed; what the
\* queue still held is lost.
Leave(c) ==
    /\ thread[c] = "finish"
    /\ queue' = [queue EXCEPT ![c] = <<>>] /\ deaf' = deaf \ {c}
    /\ CloseEnd(c)
    /\ clients' = RemoveFirst(clients, c)
    /\ Goes(c, "none")
    /\ UNCHANGED <<hub, acceptor, shutdown, far, reply, wire, faults>>

-----------------------------------------------------------------------------
(* close.  It waits for the accept thread, which looks at _stop five times *)
(* a second, and not for the broadcast thread beyond its timeout.          *)

Shutdown(from, to) == closing = from /\ closing' = to

\* _stop is set and the listening socket closed, which resets the connections
\* that nobody has accepted.
SetStop ==
    /\ Shutdown("up", "stopping")
    /\ near' = [c \in Conns |-> IF near[c] = "waiting" THEN "closed" ELSE near[c]]
    /\ UNCHANGED <<hub, admission, senders, doomed, far, reply, wire, faults>>

\* The clients listed now will be closed; then the stream's queue is closed.
CloseIncoming ==
    /\ acceptor = "ended"
    /\ Shutdown("stopping", "draining")
    /\ doomed' = clients
    /\ UNCHANGED <<hub, admission, senders, links, faults>>

\* Mutant: the clients' sockets are closed and their queues are not.
CloseSocketOnly ==
    /\ closing = "draining"
    /\ IF doomed = <<>>
       THEN closing' = "down" /\ UNCHANGED <<doomed, near>>
       ELSE doomed' = Tail(doomed) /\ CloseEnd(Head(doomed)) /\ UNCHANGED closing
    /\ UNCHANGED <<hub, admission, senders, far, reply, wire, faults>>

CloseClients ==
    /\ closing = "draining"
    /\ IF doomed = <<>>
       THEN closing' = "down" /\ UNCHANGED <<doomed, deaf, near>>
       ELSE /\ doomed' = Tail(doomed)
            /\ deaf' = deaf \cup {Head(doomed)}
            /\ CloseEnd(Head(doomed))
            /\ UNCHANGED closing
    /\ UNCHANGED <<hub, admission, queue, far, reply, wire, faults>>
=============================================================================
