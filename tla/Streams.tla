-------------------------------- MODULE Streams --------------------------------
(***************************************************************************)
(* A named stream with its subscribers: StreamServer composed with the     *)
(* StreamClients (streams.py) that read from it.  Each has a reader        *)
(* thread, the reader_loop of record_streams (recording.py) or the loop of *)
(* the viewer, and a caller of close in another thread.  Of the reconnect  *)
(* budget the number of attempts in the window is kept, and time passes    *)
(* at any pace: any of the oldest may have left the window.                *)
(***************************************************************************)
EXTENDS StreamServer

CONSTANTS
    Setups,     \* how it may begin: the policies of the stream and its
                \* subscribers, and the early connections
    Closers,    \* subscribers that are closed while they read
    Stuck,      \* subscribers with an early connection that have stopped reading
    Attempts,   \* Attempts[u]: its reconnect_attempts, per disconnect
    Budget      \* reconnect_max_total_attempts

ASSUME SubscriberAssumption ==
    /\ Setups \subseteq [export : Queues, ask : [Subscribers -> Queues],
                       early : SUBSET Conns]
    /\ \A s \in Setups :
        /\ IsFiniteSet(s.early) /\ Cardinality(s.early) <= MaxClients
        /\ \A b, c \in s.early : Owner[b] = Owner[c] => b = c
        /\ \A u \in Stuck : \E c \in s.early : Owner[c] = u
    /\ Closers \subseteq Subscribers \ Stuck
    /\ Attempts \in [Subscribers -> Nat]
    /\ Budget \in Nat

VARIABLES
    reader,     \* what the reader thread is doing
    conn,       \* the connection it is working on
    sock,       \* self.socket
    again,      \* _reconnect: the reader is inside receive's reconnection
    tried,      \* attempts of this series that have failed
    spent,      \* len(_reconnect_attempt_times)
    shut,       \* _shutdown, and the reader loop's own flag: closed by another thread
    got,        \* history: the last message received
    stale       \* history: subscribers given a message no newer than the last

session == <<conn, sock, again, tried, spent>>
cvars == <<reader, session, shut, got, stale>>
vars == <<svars, cvars>>

EarlyConn(u, early) ==
    IF \E c \in early : Owner[c] = u THEN CHOOSE c \in early : Owner[c] = u ELSE None

Init ==
    /\ \E s \in Setups :
        /\ exported = s.export /\ asked = s.ask
        /\ ServerInit(s.early, {c \in s.early : Owner[c] \in Stuck})
        /\ conn = [u \in Subscribers |-> EarlyConn(u, s.early)]
    /\ sock = conn
    /\ reader = [u \in Subscribers |-> CASE u \in Stuck -> "stuck"
                                         [] conn[u] = None -> "dial"
                                         [] OTHER -> "recv"]
    /\ again = [u \in Subscribers |-> FALSE]
    /\ tried = [u \in Subscribers |-> 0] /\ spent = [u \in Subscribers |-> 0]
    /\ shut = {}
    /\ got = [u \in Subscribers |-> 0] /\ stale = {}

Read(u, place) == reader' = [reader EXCEPT ![u] = place]
Put(f, u, v) == [f EXCEPT ![u] = v]

\* The subscriber's end of a connection is closed; what it had not read is lost.
Drop(c) ==
    /\ far' = [far EXCEPT ![c] = "closed"]
    /\ wire' = [wire EXCEPT ![c] = <<>>]
    /\ reply' = [reply EXCEPT ![c] = "none"]

-----------------------------------------------------------------------------
(* connect.                                                                *)

\* A connection that nobody refers to any more.
Unused(c) ==
    /\ near[c] = "closed" /\ far[c] = "closed" /\ thread[c] = "none"
    /\ \A i \in DOMAIN targets : targets[i] # c
    /\ \A i \in DOMAIN doomed : doomed[i] # c

\* Mutant: the range of attempts is counted from one.
AttemptFailsLate(u) ==
    LET limit == IF again[u] THEN Attempts[u] ELSE Attempts[u] + 1
    IN IF tried[u] < limit
       THEN Read(u, "dial") /\ tried' = Put(tried, u, tried[u] + 1)
       ELSE Read(u, "ended") /\ tried' = Put(tried, u, 0)

\* An attempt has failed: the next one after a backoff that close interrupts,
\* or the exception is raised to the reader, which ends.
AttemptFails(u) ==
    LET limit == IF again[u] THEN Attempts[u] ELSE Attempts[u] + 1
    IN IF tried[u] + 1 < limit
       THEN Read(u, "dial") /\ tried' = Put(tried, u, tried[u] + 1)
       ELSE Read(u, "ended") /\ tried' = Put(tried, u, 0)

\* Before an attempt: close is looked for, and a reconnection takes its
\* attempt from the budget.
Aborts(u) ==
    /\ reader[u] = "dial" /\ u \in shut
    /\ Read(u, "ended")
    /\ UNCHANGED <<svars, session, shut, got, stale>>

Reserve(u) ==
    IF again[u] THEN \E k \in 0..spent[u] : k < Budget /\ spent' = Put(spent, u, k + 1)
                ELSE UNCHANGED spent

BudgetExhausted(u) ==
    /\ reader[u] = "dial" /\ u \notin shut
    /\ again[u] /\ spent[u] >= Budget
    /\ Read(u, "ended")
    /\ UNCHANGED <<svars, session, shut, got, stale>>

\* The attempt reaches the server's backlog, and the request is sent.
Dial(u) ==
    /\ reader[u] = "dial" /\ u \notin shut
    /\ Reserve(u)
    /\ ~stop
    /\ \E c \in Conns :
        /\ Owner[c] = u /\ Unused(c)
        /\ \A k \in Conns : Owner[k] = u /\ Unused(k) => c <= k
        /\ near' = Put(near, c, "waiting") /\ far' = Put(far, c, "open")
        /\ conn' = Put(conn, u, c)
    /\ Read(u, "reply")
    /\ UNCHANGED <<hub, admission, senders, shutdown, reply, wire, sock,
                   again, tried, shut, got, stale, faults>>

\* Nobody listens, or the network does not reach.
DialFails(u) ==
    /\ reader[u] = "dial" /\ u \notin shut
    /\ Reserve(u)
    /\ OrFault(stop \/ ~\E c \in Conns : Owner[c] = u /\ Unused(c))
    /\ AttemptFails(u)
    /\ UNCHANGED <<hub, admission, senders, shutdown, links, conn, sock, again,
                   shut, got, stale>>

\* connect publishes its socket without looking for close again.  The reader
\* looks before it receives, unless it is in receive already, where a socket
\* that close has taken away in between is an error.
Subscribed(u) ==
    /\ reader[u] = "reply" /\ reply[conn[u]] = "ok"
    /\ sock' = Put(sock, u, conn[u])
    /\ reply' = Put(reply, conn[u], "none")
    /\ tried' = Put(tried, u, 0)
    /\ Read(u, IF u \in shut /\ ~again[u] THEN "ended" ELSE "recv")
    /\ UNCHANGED <<hub, admission, senders, shutdown, near, far, wire, conn,
                   again, spent, shut, got, stale, faults>>

\* Refused, closed, reset or late.
ConnectFails(u) ==
    /\ reader[u] = "reply"
    /\ LET c == conn[u]
       IN OrFault(\/ reply[c] = "no" \/ far[c] = "reset"
                  \/ reply[c] = "none" /\ near[c] = "closed"
                  \/ near[c] = "waiting" /\ acceptor = "ended")
    /\ Drop(conn[u])
    /\ conn' = Put(conn, u, None)
    /\ AttemptFails(u)
    /\ UNCHANGED <<hub, admission, senders, shutdown, near, sock, again,
                   spent, shut, got, stale>>

-----------------------------------------------------------------------------
(* receive.                                                                *)

\* A whole message.  The reader then looks for close; a socket that was
\* closed under it is released only now.
Receive(u) ==
    LET c == conn[u]
    IN /\ reader[u] = "recv"
       /\ far[c] \in {"open", "held"} /\ wire[c] # <<>>
       /\ got' = Put(got, u, Head(wire[c]))
       /\ stale' = IF Head(wire[c]) > got[u] THEN stale ELSE stale \cup {u}
       /\ again' = Put(again, u, FALSE)
       /\ IF far[c] = "held" THEN Drop(c)
          ELSE wire' = Put(wire, c, Tail(wire[c])) /\ UNCHANGED <<far, reply>>
       /\ Read(u, IF u \in shut THEN "ended" ELSE "recv")
       /\ UNCHANGED <<hub, admission, senders, shutdown, near, conn, sock,
                      tried, spent, shut, faults>>

\* The other end is gone, perhaps in the middle of a message, or our own was
\* closed under the reader.
Torn(c) ==
    \/ far[c] \in {"closed", "reset"}
    \/ wire[c] = <<>> /\ near[c] = "closed"
    \/ wire[c] # <<>> /\ (far[c] = "held" \/ near[c] = "closed")

\* The first failure of a receive closes the socket and reconnects.
ReceiveFails(u) ==
    LET c == conn[u]
    IN /\ reader[u] = "recv" /\ ~again[u] /\ Torn(c)
       /\ Drop(c)
       /\ sock' = Put(sock, u, None) /\ conn' = Put(conn, u, None)
       /\ IF Attempts[u] = 0
          THEN Read(u, "ended") /\ UNCHANGED again
          ELSE Read(u, "dial") /\ again' = Put(again, u, TRUE)
       /\ UNCHANGED <<hub, admission, senders, shutdown, near, tried, spent,
                      shut, got, stale, faults>>

\* The second is the caller's, and the socket stays as it is.
ReceiveFailsAgain(u) ==
    LET c == conn[u]
    IN /\ reader[u] = "recv" /\ again[u] /\ Torn(c)
       /\ Read(u, "ended")
       /\ IF far[c] = "held" THEN Drop(c) ELSE UNCHANGED <<far, wire, reply>>
       /\ UNCHANGED <<hub, admission, senders, shutdown, near, session,
                      shut, got, stale, faults>>

-----------------------------------------------------------------------------
(* close, and the network.                                                 *)

\* A recv in progress keeps the connection until it returns.
Close(u) ==
    /\ u \in Closers \ shut
    /\ shut' = shut \cup {u}
    /\ sock' = Put(sock, u, None)
    /\ IF sock[u] = None THEN UNCHANGED <<far, wire, reply>>
       ELSE \/ Drop(sock[u])
            \/ /\ reader[u] = "recv" /\ conn[u] = sock[u] /\ far[sock[u]] = "open"
               /\ far' = Put(far, sock[u], "held")
               /\ UNCHANGED <<wire, reply>>
    /\ UNCHANGED <<hub, admission, senders, shutdown, near, reader, conn, again,
                   tried, spent, got, stale, faults>>

Reset(c) ==
    /\ Fault
    /\ near[c] = "open" /\ far[c] = "open"
    /\ far' = Put(far, c, "reset") /\ wire' = Put(wire, c, <<>>)
    /\ UNCHANGED <<hub, admission, senders, shutdown, near, reply, cvars>>

-----------------------------------------------------------------------------

BroadcastStep == TakeIncoming \/ BroadcastEnds \/ PutPacket
ServerThread(c) ==
    \/ HandshakeFails(c) \/ Refuse(c) \/ Admit(c) \/ Welcome(c) \/ WelcomeFails(c)
    \/ TakePacket(c) \/ Sent(c) \/ SendFails(c)
    \/ Leave(c)
CloseServer == SetStop \/ CloseIncoming \/ CloseClients
Reader(u) ==
    \/ Aborts(u) \/ BudgetExhausted(u) \/ Dial(u) \/ DialFails(u)
    \/ Subscribed(u) \/ ConnectFails(u)
    \/ Receive(u) \/ ReceiveFails(u) \/ ReceiveFailsAgain(u)

ServerStep ==
    \/ Publish \/ BroadcastStep \/ AcceptorEnds \/ CloseServer
    \/ \E c \in Conns : Accept(c) \/ ServerThread(c)

Next ==
    \/ ServerStep /\ UNCHANGED cvars
    \/ \E u \in Subscribers : Reader(u) \/ Close(u)
    \/ \E c \in Conns : Reset(c)

\* Threads that can run do run, and timeouts pass; close need never be
\* called, but once begun it goes on.
Fairness ==
    /\ WF_vars(Publish /\ UNCHANGED cvars)
    /\ WF_vars(BroadcastStep /\ UNCHANGED cvars)
    /\ WF_vars(stop /\ AcceptorEnds /\ UNCHANGED cvars)
    /\ WF_vars(stop /\ CloseServer /\ UNCHANGED cvars)
    /\ \A c \in Conns : /\ WF_vars(Accept(c) /\ UNCHANGED cvars)
                        /\ WF_vars(ServerThread(c) /\ UNCHANGED cvars)
    /\ \A u \in Subscribers : WF_vars(Reader(u))

Spec == Init /\ [][Next]_vars /\ Fairness

-----------------------------------------------------------------------------
(* Properties.                                                             *)

AtMostOne == {<<>>} \cup {<<m>> : m \in 1..MaxMessages}
TypeOK ==
    /\ exported \in Queues /\ asked \in [Subscribers -> Queues]
    /\ published \in 0..MaxMessages /\ packet \in 0..MaxMessages
    /\ incoming \in AtMostOne
    /\ broadcast \in {"get", "put", "ended"}
    /\ targets \in Seq(Conns) /\ clients \in Seq(Conns) /\ doomed \in Seq(Conns)
    /\ broadcast = "put" => targets # <<>>
    /\ acceptor \in {"accept", "ended"}
    /\ thread \in [Conns -> {"none", "hello", "listed", "stranded", "get", "send",
                             "finish"}]
    /\ queue \in [Conns -> AtMostOne]
    /\ deaf \subseteq Conns
    /\ closing \in {"up", "stopping", "draining", "down"}
    /\ near \in [Conns -> {"waiting", "open", "closed"}]
    /\ far \in [Conns -> {"open", "held", "reset", "closed"}]
    /\ reply \in [Conns -> {"none", "ok", "no"}]
    /\ wire \in [Conns -> Seq(1..MaxMessages)]
    /\ \A c \in Conns : Len(wire[c]) <= WireRoom + 1
    /\ reader \in [Subscribers -> {"dial", "reply", "recv", "ended", "stuck"}]
    /\ conn \in [Subscribers -> Conns \cup {None}]
    /\ sock \in [Subscribers -> Conns \cup {None}]
    /\ again \in [Subscribers -> BOOLEAN]
    /\ \A u \in Subscribers : tried[u] \in 0..Attempts[u]
    /\ spent \in [Subscribers -> 0..Budget]
    /\ shut \subseteq Closers
    /\ got \in [Subscribers -> 0..MaxMessages] /\ stale \subseteq Subscribers
    /\ faults \in 0..MaxFaults

(***************************************************************************)
(* What a subscriber receives is in the order of publication and without   *)
(* repetition, whatever its policy drops and whatever it reconnects to     *)
(* (_broadcast_loop, _sender_loop, receive).                               *)
(***************************************************************************)
InOrder == stale = {}

(***************************************************************************)
(* The clients listed never exceed max_clients, none is listed twice, each *)
(* has a thread that will take it off the list, unless its handshake       *)
(* failed after it was listed, and no socket of the server is open without *)
(* a thread that will close it (_configure_client, _sender_loop).          *)
(***************************************************************************)
ClientsAccounted ==
    /\ Len(clients) <= MaxClients
    /\ IsInjective(clients)
    /\ \A c \in Conns :
        /\ Listed(c) <=> thread[c] \notin {"none", "hello"}
        /\ near[c] = "open" => thread[c] \notin {"none", "stranded"}

(***************************************************************************)
(* A viewer that has stopped reading has its own queue.  It does not hold  *)
(* the broadcast to the others back unless it asked for `block`, nor the   *)
(* publisher unless the stream too has that policy.  A client with policy  *)
(* `block` that was stranded has the same effect (docs/NETWORKING.md,      *)
(* "Low-latency viewer subscribers"; publish, _broadcast_loop).            *)
(***************************************************************************)
Stranded(policy) == \E c \in Conns : thread[c] = "stranded" /\ Asked(c) = policy
SlowViewerHarmless ==
    LET harmless == \A u \in Stuck : asked[u] # "block"
        through == published = MaxMessages /\ (harmless => broadcast # "put")
    IN exported # "block" \/ harmless => <>[](through \/ Stranded("block"))

(***************************************************************************)
(* Once close has been called every thread of the server ends, though      *)
(* subscribers stop reading, and so does every reader that runs, though it *)
(* may be dialling, reconnecting or waiting at that moment (close,         *)
(* _sender_loop, receive, connect).                                        *)
(***************************************************************************)
ServerEnded ==
    /\ broadcast = "ended" /\ acceptor = "ended" /\ closing = "down"
    /\ \A c \in Conns : thread[c] \in {"none", "stranded"}
CloseEndsAll ==
    stop ~> (ServerEnded /\ \A u \in Subscribers \ Stuck : reader[u] = "ended")
=============================================================================
