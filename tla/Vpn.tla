-------------------------------- MODULE Vpn ---------------------------------
(***************************************************************************)
(* The running system: clients (client/client.cpp) and the server          *)
(* (server/server.cpp), each a single event loop over its socket, its TUN  *)
(* device and a timer, with their session tables (core/session), over a    *)
(* network that loses, repeats and reorders datagrams.  Every handler of   *)
(* an event loop is one action; processes crash and restart.               *)
(*                                                                         *)
(* The handshake is taken at the level of KeyExchange.tla, which           *)
(* Handshake.tla implements: a response opens at a client exactly when it  *)
(* answers the client's pending initiation, and the pair of initiation and *)
(* response names the session's two keys.                                  *)
(***************************************************************************)
EXTENDS ReplayWindow, FiniteSets, Bags, Functions

CONSTANTS
    Client,             \* the clients; also their VPN addresses
    Server,             \* the server's name
    Index,              \* the 32-bit session indices
    None,               \* no index
    RejectAfterTime,    \* kRejectAfterTime in ticks
    KeepaliveTimeout,   \* kKeepaliveTimeout in ticks
    MaxInitiations,     \* bound on the initiations of each client
    MaxCopies,          \* bound on the deliveries of one initiation
    MaxCrashes,         \* bound on crashes of the server
    MaxLosses           \* bound on datagrams lost for good

ASSUME VpnAssumption ==
    /\ Server \notin Client
    /\ None \notin Index
    /\ RejectAfterTime \in Nat /\ KeepaliveTimeout \in Nat
    /\ MaxInitiations \in Nat /\ MaxCopies \in Nat
    /\ MaxCrashes \in Nat /\ MaxLosses \in Nat

VARIABLES
    net,            \* the datagrams that can still be delivered
    inits,          \* per client: initiations sent, over all its lives
    handshake,      \* per client: peer_.handshake
    ctable,         \* per client: indices in index_table_
    csessions,      \* per client: sessions_
    has_session,    \* per client
    active,         \* per client: active_session_index_
    stable,         \* server: indices in index_table_
    ssessions,      \* server: sessions_
    routes,         \* server: ip_to_session_
    crashes,        \* server crashes so far
    answers,        \* per client and initiation: responses sent so far
    losses,         \* datagrams lost for good so far
    established,    \* keys of the sessions that clients have activated
    written         \* bag of the packets written to TUN devices

cvars == <<inits, handshake, ctable, has_session, active, established>>
svars == <<stable, routes, crashes, answers, losses>>
vars == <<net, inits, handshake, ctable, csessions, has_session, active,
          stable, ssessions, routes, crashes, answers, losses, established, written>>

-----------------------------------------------------------------------------
\* Sessions (core/session)

\* SessionManager::CreateSession.  age and idle count the ticks since
\* created and last_sent_time and stop just past their limits; a session
\* that has never sent has last_sent_time in the distant past.
NewSession(key, receiver_index, peer) ==
    [key |-> key, receiver_index |-> receiver_index, peer |-> peer,
     send_nonce |-> 0, window |-> EmptyWindow, age |-> 0,
     idle |-> KeepaliveTimeout + 1, heard |-> FALSE]

\* A slip in Seal: the limit itself is used as a counter.
CanSealAtLimit(s) == s.send_nonce <= kRejectAfterMessages

\* Session::Seal succeeds below the limit.  send_nonce is not followed
\* beyond it.
CanSeal(s) == s.send_nonce < kRejectAfterMessages
Sealed(s) == [s EXCEPT !.send_nonce = @ + 1, !.idle = 0]

Transport(s, to, payload) ==
    [type |-> "transport", to |-> to, receiver_index |-> s.receiver_index,
     key |-> s.key, counter |-> s.send_nonce, payload |-> payload]

\* Session::Open: the limit, the replay window, the key of the direction.
CanOpen(s, m) ==
    /\ m.counter < kRejectAfterMessages
    /\ Check(s.window, m.counter)
    /\ m.key = s.key

\* A slip in Open: the counter is not entered in the replay window.
OpenedUnmarked(s, m) == [s EXCEPT !.heard = TRUE]

Opened(s, m) == [s EXCEPT !.window = Accept(@, m.counter), !.heard = TRUE]

IsExpired(s) == s.age > RejectAfterTime

\* A slip in ShouldSendKeepalive: a session that has received nothing sends.
ShouldSendKeepaliveUnheard(s) == s.idle > KeepaliveTimeout

ShouldSendKeepalive(s) == s.heard /\ s.idle > KeepaliveTimeout

\* SessionManager: sessions_ as a function on the indices in use.
NoSessions == [i \in {} |-> None]
Insert(sessions, i, s) ==
    [j \in DOMAIN sessions \cup {i} |-> IF j = i THEN s ELSE sessions[j]]
SweepExpired(sessions) ==
    Restrict(sessions, {i \in DOMAIN sessions : ~IsExpired(sessions[i])})
GetKeepaliveDue(sessions) ==
    {i \in DOMAIN sessions : ShouldSendKeepalive(sessions[i]) /\ CanSeal(sessions[i])}

\* The first half of both TimerTicks: a keepalive on every session due.
AfterKeepalives(sessions) ==
    [i \in DOMAIN sessions |-> IF i \in GetKeepaliveDue(sessions)
                               THEN Sealed(sessions[i]) ELSE sessions[i]]
Keepalives(sessions) ==
    {Transport(sessions[i], sessions[i].peer, "empty") : i \in GetKeepaliveDue(sessions)}

Older(sessions) ==
    [i \in DOMAIN sessions |->
        [sessions[i] EXCEPT
            !.age = IF @ > RejectAfterTime THEN @ ELSE @ + 1,
            !.idle = IF @ > KeepaliveTimeout THEN @ ELSE @ + 1]]

-----------------------------------------------------------------------------
Idle == [state |-> "Zeroed", init |-> 0, local_index |-> None]

Init ==
    /\ net = {}
    /\ inits = [c \in Client |-> 0]
    /\ handshake = [c \in Client |-> Idle]
    /\ ctable = [c \in Client |-> {}]
    /\ csessions = [c \in Client |-> NoSessions]
    /\ has_session = [c \in Client |-> FALSE]
    /\ active = [c \in Client |-> None]
    /\ stable = {}
    /\ ssessions = NoSessions
    /\ routes = [c \in Client |-> None]
    /\ crashes = 0
    /\ answers = [c \in Client |-> [n \in 1 .. MaxInitiations |-> 0]]
    /\ losses = 0
    /\ established = {}
    /\ written = EmptyBag

\* Time passes for every session.
Tick ==
    /\ csessions' = [c \in Client |-> Older(csessions[c])]
    /\ ssessions' = Older(ssessions)
    /\ UNCHANGED <<net, written>> /\ UNCHANGED cvars /\ UNCHANGED svars

-----------------------------------------------------------------------------
\* Client

\* IndexTable::NewIndex.  Nothing ever leaves an index table.
NewIndex(table) == Index \ table

\* Client::SendInitiation, from a process whose index table is table; also
\* sends the datagrams msgs.
SendInitiation(c, table, msgs) ==
    /\ inits[c] < MaxInitiations
    /\ inits' = [inits EXCEPT ![c] = @ + 1]
    /\ \E i \in NewIndex(table) :
         /\ ctable' = [ctable EXCEPT ![c] = table \cup {i}]
         /\ handshake' = [handshake EXCEPT ![c] =
                [state |-> "InitiationCreated", init |-> inits'[c], local_index |-> i]]
         /\ net' = net \cup msgs \cup
                {[type |-> "initiation", from |-> c, sender_index |-> i,
                  init |-> inits'[c]]}

\* A client process starts, for the first time or after a crash: Init, Run
\* and the SendInitiation at the top of Run.
ClientStart(c) ==
    /\ SendInitiation(c, {}, {})
    /\ csessions' = [csessions EXCEPT ![c] = NoSessions]
    /\ has_session' = [has_session EXCEPT ![c] = FALSE]
    /\ active' = [active EXCEPT ![c] = None]
    /\ UNCHANGED <<ssessions, established, written>> /\ UNCHANGED svars

\* A slip in HandleResponse: the state of the handshake is not tested, and
\* an answer to an earlier initiation of this process passes.
ClientHandleResponseAny(c, m) ==
    /\ m.type = "response" /\ m.to = c
    /\ m.receiver_index \in ctable[c]
    /\ LET i == handshake[c].local_index IN
         /\ csessions' = [csessions EXCEPT ![c] =
                Insert(@, i, NewSession(m.key, m.sender_index, Server))]
         /\ active' = [active EXCEPT ![c] = i]
    /\ has_session' = [has_session EXCEPT ![c] = TRUE]
    /\ established' = established \cup {m.key}
    /\ handshake' = [handshake EXCEPT ![c].state = "Zeroed"]
    /\ UNCHANGED <<net, inits, ctable, ssessions, written>> /\ UNCHANGED svars

\* A slip in HandleResponse: the session is given the client's own index as
\* the one to send to.
ClientHandleResponseOwnIndex(c, m) ==
    /\ m.type = "response" /\ m.to = c
    /\ m.receiver_index \in ctable[c]
    /\ handshake[c].state = "InitiationCreated"
    /\ m.key.init = handshake[c].init
    /\ LET i == handshake[c].local_index IN
         /\ csessions' = [csessions EXCEPT ![c] =
                Insert(@, i, NewSession(m.key, m.receiver_index, Server))]
         /\ active' = [active EXCEPT ![c] = i]
    /\ has_session' = [has_session EXCEPT ![c] = TRUE]
    /\ established' = established \cup {m.key}
    /\ handshake' = [handshake EXCEPT ![c].state = "Zeroed"]
    /\ UNCHANGED <<net, inits, ctable, ssessions, written>> /\ UNCHANGED svars

\* Client::HandleResponse: ConsumeMessageResponse, DeriveSessionKeys,
\* ActivateSession, and the session becomes the active one.
ClientHandleResponse(c, m) ==
    /\ m.type = "response" /\ m.to = c
    /\ m.receiver_index \in ctable[c]
    /\ handshake[c].state = "InitiationCreated"
    /\ m.key.init = handshake[c].init
    /\ LET i == handshake[c].local_index IN
         /\ csessions' = [csessions EXCEPT ![c] =
                Insert(@, i, NewSession(m.key, m.sender_index, Server))]
         /\ active' = [active EXCEPT ![c] = i]
    /\ has_session' = [has_session EXCEPT ![c] = TRUE]
    /\ established' = established \cup {m.key}
    /\ handshake' = [handshake EXCEPT ![c].state = "Zeroed"]
    /\ UNCHANGED <<net, inits, ctable, ssessions, written>> /\ UNCHANGED svars

\* Client::HandleTransport: a keepalive only marks the session.
ClientHandleTransport(c, m) ==
    /\ m.type = "transport" /\ m.to = c
    /\ m.receiver_index \in DOMAIN csessions[c]
    /\ CanOpen(csessions[c][m.receiver_index], m)
    /\ csessions' = [csessions EXCEPT ![c][m.receiver_index] = Opened(@, m)]
    /\ written' = IF m.payload = "empty" THEN written
                  ELSE written (+) SetToBag({m})
    /\ UNCHANGED <<net, ssessions>> /\ UNCHANGED cvars /\ UNCHANGED svars

\* Client::HandleTunRead and SendTransport: a packet from the client's own
\* address.  ActiveSessionLive says the lookup of the active session cannot
\* fail.
ClientHandleTunRead(c) ==
    /\ has_session[c]
    /\ LET s == csessions[c][active[c]] IN
         /\ CanSeal(s)
         /\ net' = net \cup {Transport(s, Server, c)}
         /\ csessions' = [csessions EXCEPT ![c][active[c]] = Sealed(s)]
    /\ UNCHANGED <<ssessions, written>> /\ UNCHANGED cvars /\ UNCHANGED svars

\* A slip in TimerTick: an expired active session is swept, and no new
\* handshake is started.
ClientTimerTickNoReinit(c) ==
    /\ csessions' = [csessions EXCEPT ![c] = SweepExpired(AfterKeepalives(@))]
    /\ net' = net \cup Keepalives(csessions[c])
    /\ UNCHANGED <<ssessions, written>> /\ UNCHANGED cvars /\ UNCHANGED svars

\* The active session is among those that this TimerTick sweeps.
ActiveExpires(c) ==
    has_session[c] /\ active[c] \notin DOMAIN SweepExpired(csessions[c])

\* Client::TimerTick: keepalives and the sweep.
ClientTimerTick(c) ==
    /\ ~ActiveExpires(c)
    /\ csessions' = [csessions EXCEPT ![c] = SweepExpired(AfterKeepalives(@))]
    /\ net' = net \cup Keepalives(csessions[c])
    /\ UNCHANGED <<ssessions, written>> /\ UNCHANGED cvars /\ UNCHANGED svars

\* A slip in TimerTick: the expired session is given up without a new
\* handshake.
ClientTimerTickReinitSilent(c) ==
    /\ ActiveExpires(c)
    /\ csessions' = [csessions EXCEPT ![c] = SweepExpired(AfterKeepalives(@))]
    /\ has_session' = [has_session EXCEPT ![c] = FALSE]
    /\ net' = net \cup Keepalives(csessions[c])
    /\ UNCHANGED <<inits, handshake, ctable, active, ssessions, established, written>>
    /\ UNCHANGED svars

\* Client::TimerTick when the sweep takes the active session: a new
\* handshake starts in the same call.
ClientTimerTickReinit(c) ==
    /\ ActiveExpires(c)
    /\ csessions' = [csessions EXCEPT ![c] = SweepExpired(AfterKeepalives(@))]
    /\ has_session' = [has_session EXCEPT ![c] = FALSE]
    /\ SendInitiation(c, ctable[c], Keepalives(csessions[c]))
    /\ UNCHANGED <<active, ssessions, established, written>> /\ UNCHANGED svars

-----------------------------------------------------------------------------
\* Server

\* A slip in CreateMessageResponse: the response carries the server's own
\* index where the initiator's belongs.
ServerHandleInitiationOwnIndex(m) ==
    /\ m.type = "initiation"
    /\ answers[m.from][m.init] < MaxCopies
    /\ answers' = [answers EXCEPT ![m.from][m.init] = @ + 1]
    /\ \E i \in NewIndex(stable) :
         LET key == [client |-> m.from, init |-> m.init,
                     resp |-> answers'[m.from][m.init]]
         IN  /\ stable' = stable \cup {i}
             /\ net' = net \cup
                  {[type |-> "response", to |-> m.from, sender_index |-> i,
                    receiver_index |-> i, key |-> key]}
             /\ ssessions' = Insert(ssessions, i, NewSession(key, m.sender_index, m.from))
    /\ UNCHANGED <<csessions, routes, crashes, losses, written>> /\ UNCHANGED cvars

\* A slip in HandleInitiation: the session is given the server's own index as the
\* one to send to.
ServerHandleInitiationSelf(m) ==
    /\ m.type = "initiation"
    /\ answers[m.from][m.init] < MaxCopies
    /\ answers' = [answers EXCEPT ![m.from][m.init] = @ + 1]
    /\ \E i \in NewIndex(stable) :
         LET key == [client |-> m.from, init |-> m.init,
                     resp |-> answers'[m.from][m.init]]
         IN  /\ stable' = stable \cup {i}
             /\ net' = net \cup
                  {[type |-> "response", to |-> m.from, sender_index |-> i,
                    receiver_index |-> m.sender_index, key |-> key]}
             /\ ssessions' = Insert(ssessions, i, NewSession(key, i, m.from))
    /\ UNCHANGED <<csessions, routes, crashes, losses, written>> /\ UNCHANGED cvars

\* Server::HandleInitiation, on a Peer made for this datagram: the session
\* is live as soon as the response is sent.  Every response draws fresh
\* ephemeral keys, so the initiation and the number of the response name
\* the session's keys.
ServerHandleInitiation(m) ==
    /\ m.type = "initiation"
    /\ answers[m.from][m.init] < MaxCopies
    /\ answers' = [answers EXCEPT ![m.from][m.init] = @ + 1]
    /\ \E i \in NewIndex(stable) :
         LET key == [client |-> m.from, init |-> m.init,
                     resp |-> answers'[m.from][m.init]]
         IN  /\ stable' = stable \cup {i}
             /\ net' = net \cup
                  {[type |-> "response", to |-> m.from, sender_index |-> i,
                    receiver_index |-> m.sender_index, key |-> key]}
             /\ ssessions' = Insert(ssessions, i, NewSession(key, m.sender_index, m.from))
    /\ UNCHANGED <<csessions, routes, crashes, losses, written>> /\ UNCHANGED cvars

\* A slip in HandleTransport: the route is learned before Open succeeds.
ServerHandleTransportEarlyRoute(m) ==
    /\ m.type = "transport" /\ m.to = Server
    /\ m.receiver_index \in DOMAIN ssessions
    /\ ssessions' = IF CanOpen(ssessions[m.receiver_index], m)
                    THEN [ssessions EXCEPT ![m.receiver_index] = Opened(@, m)]
                    ELSE ssessions
    /\ routes' = IF m.payload = "empty" THEN routes
                 ELSE [routes EXCEPT ![m.payload] = m.receiver_index]
    /\ written' = IF m.payload = "empty" \/ ~CanOpen(ssessions[m.receiver_index], m)
                  THEN written
                  ELSE written (+) SetToBag({m})
    /\ UNCHANGED <<net, csessions, stable, crashes, answers, losses>> /\ UNCHANGED cvars

\* Server::HandleTransport: Open, then learn the route to the packet's
\* source address, then write to TUN.
ServerHandleTransport(m) ==
    /\ m.type = "transport" /\ m.to = Server
    /\ m.receiver_index \in DOMAIN ssessions
    /\ CanOpen(ssessions[m.receiver_index], m)
    /\ ssessions' = [ssessions EXCEPT ![m.receiver_index] = Opened(@, m)]
    /\ routes' = IF m.payload = "empty" THEN routes
                 ELSE [routes EXCEPT ![m.payload] = m.receiver_index]
    /\ written' = IF m.payload = "empty" THEN written
                  ELSE written (+) SetToBag({m})
    /\ UNCHANGED <<net, csessions, stable, crashes, answers, losses>> /\ UNCHANGED cvars

\* Server::HandleTunRead and SendTransport: a packet for address c.
ServerHandleTunRead(c) ==
    /\ routes[c] \in DOMAIN ssessions
    /\ LET s == ssessions[routes[c]] IN
         /\ CanSeal(s)
         /\ net' = net \cup {Transport(s, s.peer, c)}
         /\ ssessions' = [ssessions EXCEPT ![routes[c]] = Sealed(s)]
    /\ UNCHANGED <<csessions, written>> /\ UNCHANGED cvars /\ UNCHANGED svars

\* A slip in TimerTick: a session that a route leads to is not swept.
ServerTimerTickKeepsRouted ==
    /\ ssessions' = Restrict(AfterKeepalives(ssessions),
                             {i \in DOMAIN ssessions : \/ ~IsExpired(ssessions[i])
                                                       \/ \E c \in Client : routes[c] = i})
    /\ net' = net \cup Keepalives(ssessions)
    /\ UNCHANGED <<csessions, stable, routes, crashes, answers, losses, written>>
    /\ UNCHANGED cvars

\* Server::TimerTick: keepalives, the sweep, and the routes of the swept
\* sessions go with them.
ServerTimerTick ==
    /\ ssessions' = SweepExpired(AfterKeepalives(ssessions))
    /\ net' = net \cup Keepalives(ssessions)
    /\ routes' = IF DOMAIN ssessions' = DOMAIN ssessions THEN routes
                 ELSE [c \in Client |-> IF routes[c] \in DOMAIN ssessions'
                                        THEN routes[c] ELSE None]
    /\ UNCHANGED <<csessions, stable, crashes, answers, losses, written>> /\ UNCHANGED cvars

\* The server process dies and starts again with nothing.
ServerCrash ==
    /\ crashes < MaxCrashes
    /\ crashes' = crashes + 1
    /\ stable' = {}
    /\ ssessions' = NoSessions
    /\ routes' = [c \in Client |-> None]
    /\ UNCHANGED <<net, csessions, answers, losses, written>> /\ UNCHANGED cvars

-----------------------------------------------------------------------------
\* A datagram is lost for good.  A datagram of net that is only never
\* delivered needs no action; this one bounds what a fair network loses.
Lose(m) ==
    /\ losses < MaxLosses
    /\ losses' = losses + 1
    /\ net' = net \ {m}
    /\ UNCHANGED <<csessions, ssessions, stable, routes, crashes, answers, written>>
    /\ UNCHANGED cvars

Next ==
    \/ Tick
    \/ \E c \in Client :
         \/ ClientStart(c)
         \/ \E m \in net : ClientHandleResponse(c, m)
         \/ \E m \in net : ClientHandleTransport(c, m)
         \/ ClientHandleTunRead(c)
         \/ ClientTimerTick(c)
         \/ ClientTimerTickReinit(c)
         \/ ServerHandleTunRead(c)
    \/ \E m \in net : ServerHandleInitiation(m)
    \/ \E m \in net : ServerHandleTransport(m)
    \/ ServerTimerTick
    \/ ServerCrash
    \/ \E m \in net : Lose(m)

Spec == Init /\ [][Next]_vars

\* Both event loops run TimerTick after every poll and handle every datagram
\* the socket yields; time passes.  Nothing makes a process start, a packet
\* appear on a TUN device, a crash or a loss happen.
Fairness ==
    /\ WF_vars(Tick)
    /\ WF_vars(ServerTimerTick)
    /\ WF_vars(\E m \in net : ServerHandleInitiation(m))
    /\ \A c \in Client :
         /\ WF_vars(ClientTimerTick(c))
         /\ WF_vars(ClientTimerTickReinit(c))
         /\ WF_vars(\E m \in net : ClientHandleResponse(c, m))

FairSpec == Spec /\ Fairness

-----------------------------------------------------------------------------
Keys == [client : Client, init : 1 .. MaxInitiations, resp : 1 .. MaxCopies]

SessionOK(s) ==
    /\ s.key \in Keys
    /\ s.receiver_index \in Index
    /\ s.peer \in Client \cup {Server}
    /\ s.send_nonce \in 0 .. kRejectAfterMessages
    /\ s.window \in Window
    /\ s.age \in 0 .. (RejectAfterTime + 1)
    /\ s.idle \in 0 .. (KeepaliveTimeout + 1)
    /\ s.heard \in BOOLEAN

\* Type correctness.  No session ever leaves the counters Seal may use.
TypeOK ==
    /\ \A m \in net : m.type = "transport" => m.counter < kRejectAfterMessages
    /\ inits \in [Client -> 0 .. MaxInitiations]
    /\ \A c \in Client :
         /\ handshake[c].state \in {"Zeroed", "InitiationCreated"}
         /\ ctable[c] \subseteq Index
         /\ DOMAIN csessions[c] \subseteq Index
         /\ \A i \in DOMAIN csessions[c] : SessionOK(csessions[c][i])
    /\ has_session \in [Client -> BOOLEAN]
    /\ active \in [Client -> Index \cup {None}]
    /\ stable \subseteq Index
    /\ DOMAIN ssessions \subseteq stable
    /\ \A i \in DOMAIN ssessions : SessionOK(ssessions[i])
    /\ routes \in [Client -> Index \cup {None}]
    /\ established \subseteq Keys
    /\ IsABag(written)

\* has_session_ never promises a session the table has lost: a TUN read
\* between two timer ticks never takes HandleTunRead's branch "active session
\* not found", whatever expiry, late responses and restarts did.
ActiveSessionLive ==
    \A c \in Client : has_session[c] => active[c] \in DOMAIN csessions[c]

\* What the server sends on client c's route arrives: the client has the session
\* under the index the server writes into the header, on the same keys.
Reaches(c) ==
    LET s == ssessions[routes[c]] IN
    /\ routes[c] \in DOMAIN ssessions
    /\ s.receiver_index \in DOMAIN csessions[c]
    /\ csessions[c][s.receiver_index].key = s.key

\* Every entry of ip_to_session_ names a session of the table, and so never a
\* later session that was given the index of a swept one; and whichever of a
\* client's sessions the last packet moved the route to, it reaches that client,
\* unless the session is from before a restart of the client or about to be swept.
RouteReachesClient ==
    \A c \in Client : routes[c] # None =>
        LET s == ssessions[routes[c]]
            sameLife == s.key.init > inits[c] - Cardinality(ctable[c])
        IN  /\ routes[c] \in DOMAIN ssessions
            /\ sameLife /\ ~IsExpired(s) => Reaches(c)

\* A route that does not reach its client does not last.  Client restarts and
\* delayed packets of older sessions make such routes, each packet moving the route
\* back to a session the client has no longer; the server's sweep ends them all.
StaleRouteEnds ==
    \A c \in Client :
        routes[c] # None /\ ~Reaches(c) ~> routes[c] = None \/ Reaches(c)

\* A route leads to a session of the client whose address it is, on keys that
\* this client holds or held: a datagram of an earlier life of the server that
\* hits a reused index does not divert it.
RouteToOwner ==
    \A c \in Client : routes[c] \in DOMAIN ssessions =>
        /\ ssessions[routes[c]].peer = c
        /\ ssessions[routes[c]].key \in established

\* The server sends on a session only after the client has completed it: the
\* session exists from the moment the response leaves, but neither traffic nor
\* a keepalive goes out on keys that no client has derived.
ServerSendsOnlyConfirmed ==
    \A m \in net : m.type = "transport" /\ m.to # Server => m.key \in established

\* The two ends of a live session address each other: a client's session and a
\* server's session on the same keys carry crossed indices and the right peer.
EndsMatch ==
    \A c \in Client, j \in DOMAIN ssessions : \A i \in DOMAIN csessions[c] :
        csessions[c][i].key = ssessions[j].key =>
            /\ csessions[c][i].receiver_index = j
            /\ ssessions[j].receiver_index = i
            /\ ssessions[j].peer = c

\* A client completes an initiation at most once, however many responses the
\* server made to copies of it.
CompletedOnce ==
    \A k, l \in established : k.client = l.client /\ k.init = l.init => k = l

\* No packet reaches a TUN device twice, whatever the network repeats and
\* across restarts of the processes.
WrittenOnce == \A m \in DOMAIN written : written[m] = 1

\* A handshake completes unless the network loses a datagram for good.
HandshakeCompletes ==
    \A c \in Client, n \in 1 .. MaxInitiations :
        handshake[c].state = "InitiationCreated" /\ handshake[c].init = n
            ~> has_session[c] \/ handshake[c].init # n \/ losses > 0

\* The client's session has a counterpart on the server.
Connected(c) ==
    /\ has_session[c]
    /\ \E j \in DOMAIN ssessions : ssessions[j].key = csessions[c][active[c]].key

\* A client whose session the server no longer has (restart, or its own earlier
\* expiry) is connected again once the session expires, unless a datagram is
\* lost for good; the last handshake the bound allows is followed until the
\* client completes it.
DeadSessionReplaced ==
    \A c \in Client :
        has_session[c] /\ ~Connected(c)
            ~> \/ Connected(c)
               \/ has_session[c] /\ handshake[c].init = MaxInitiations
               \/ losses > 0

\* A lost datagram does not end the handshake for ever: the client tries again
\* (handshake_timer.hpp: the timer armed after sending an initiation expires and
\* the handshake is re-initiated).  The bound leaves room for another attempt.
HandshakeSurvivesLoss ==
    \A c \in Client, n \in 1 .. (MaxInitiations - 1) :
        handshake[c].state = "InitiationCreated" /\ handshake[c].init = n
            ~> has_session[c] \/ handshake[c].init # n

\* An initiation makes at most one live session on the server.
OneSessionPerInitiation ==
    \A i, j \in DOMAIN ssessions :
        /\ ssessions[i].key.client = ssessions[j].key.client
        /\ ssessions[i].key.init = ssessions[j].key.init
        => i = j
=============================================================================
