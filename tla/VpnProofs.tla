----------------------------- MODULE VpnProofs ------------------------------
(***************************************************************************)
(* Proofs about Vpn: for any number of clients, indices, initiations,      *)
(* repetitions, crashes and losses, the tables of the two event loops stay *)
(* in step with each other and with the sessions.                          *)
(***************************************************************************)
EXTENDS Vpn, FiniteSetTheorems, TLAPS

--------------------------------------------------------------------------
(* What a window refuses once it refuses for ever.                        *)

\* Unsigned arithmetic below the modulus, as fetch_add and Check use it.
LEMMA ModSmall ==
    ASSUME NEW n \in Nat, NEW d \in Nat, n < d
    PROVE  n % d = n
OBVIOUS

\* The sum in ReplayWindow::Check does not wrap for a counter below the
\* limit.
LEMMA WindowEndExact ==
    ASSUME NEW c \in Counter
    PROVE  WindowEnd(c) = c + kWindowSize
<1>1. c \in Nat /\ c + kWindowSize \in Nat /\ c + kWindowSize < U64
  BY WindowAssumption DEF Counter
<1> QED BY <1>1, ModSmall, WindowAssumption DEF WindowEnd

\* A counter that ReplayWindow::Check refuses is refused after any Accept,
\* and so is the counter accepted.
LEMMA AcceptRefuses ==
    ASSUME NEW w \in Window, NEW d \in Counter, Check(w, d)
    PROVE  /\ Accept(w, d) \in Window
           /\ ~Check(Accept(w, d), d)
           /\ \A c \in Counter : ~Check(w, c) => ~Check(Accept(w, d), c)
<1>1. d \in Nat /\ w.last \in Nat /\ kWindowSize \in Nat \ {0}
  BY WindowAssumption DEF Counter, Window
<1>2. WindowEnd(d) = d + kWindowSize BY WindowEndExact
<1>3. CASE d > w.last
  <2> DEFINE b == ShiftLeft(w.bitmap, d - w.last) \cup {0}
  <2>1. Accept(w, d) = [last |-> d, bitmap |-> b] BY <1>3 DEF Accept
  <2>2. b \subseteq 0 .. (kWindowSize - 1) BY <1>1 DEF ShiftLeft
  <2>3. Accept(w, d) \in Window BY <2>1, <2>2 DEF Window
  <2>4. ~Check(Accept(w, d), d) BY <1>1, <2>1 DEF Check
  <2>5. ASSUME NEW c \in Counter, ~Check(w, c) PROVE ~Check(Accept(w, d), c)
    <3>1. c \in Nat /\ WindowEnd(c) = c + kWindowSize BY WindowEndExact DEF Counter
    <3>2. c <= w.last BY <1>1, <2>5, <3>1 DEF Check
    <3>3. CASE c + kWindowSize <= d
      BY <1>1, <1>3, <2>1, <3>1, <3>2, <3>3 DEF Check
    <3>4. CASE c + kWindowSize > d
      <4>1. (w.last - c) \in w.bitmap
        BY <1>1, <1>3, <2>5, <3>1, <3>2, <3>4 DEF Check
      <4>2. /\ d - c \in 0 .. (kWindowSize - 1)
            /\ d - c >= d - w.last
            /\ (d - c) - (d - w.last) = w.last - c
        BY <1>1, <1>3, <3>1, <3>2, <3>4
      <4>3. d - c \in b BY <4>1, <4>2 DEF ShiftLeft
      <4>4. ~(c > d) BY <1>1, <1>3, <3>1, <3>2
      <4> QED BY <2>1, <4>3, <4>4 DEF Check
    <3> QED BY <1>1, <3>1, <3>3, <3>4
  <2> QED BY <2>3, <2>4, <2>5
<1>4. CASE ~(d > w.last)
  <2>1. w.last - d \in 0 .. (kWindowSize - 1)
    BY <1>1, <1>2, <1>4 DEF Check
  <2>2. /\ Accept(w, d) \in Window
        /\ Accept(w, d).last = w.last
        /\ Accept(w, d).bitmap = w.bitmap \cup {w.last - d}
    BY <1>4, <2>1 DEF Accept, Window
  <2> QED BY <1>4, <2>2 DEF Check
<1> QED BY <1>3, <1>4

--------------------------------------------------------------------------
(* What the operations on sessions preserve.                              *)

Sess ==
    [key : Keys, receiver_index : Index, peer : Client \cup {Server},
     send_nonce : 0 .. kRejectAfterMessages, window : Window,
     age : 0 .. (RejectAfterTime + 1), idle : 0 .. (KeepaliveTimeout + 1),
     heard : BOOLEAN]

\* t is session s at a later time: it refuses what s refuses.
Same(s, t) ==
    /\ t \in Sess
    /\ t.key = s.key
    /\ t.receiver_index = s.receiver_index
    /\ t.peer = s.peer
    /\ \A n \in Counter : ~Check(s.window, n) => ~Check(t.window, n)

\* The sessions of a table, some of which may be gone later.
Keeps(before, after) ==
    /\ DOMAIN after \subseteq DOMAIN before
    /\ \A i \in DOMAIN after : Same(before[i], after[i])

\* Nothing new was opened in these.
SameHeard(before, after) == \A i \in DOMAIN after : after[i].heard => before[i].heard

\* No time passed for these.
SameAges(before, after) == \A i \in DOMAIN after : after[i].age = before[i].age

AllSess(sessions) == \A i \in DOMAIN sessions : sessions[i] \in Sess

LEMMA SessionIsOK == \A s \in Sess : SessionOK(s)
BY DEF Sess, SessionOK

LEMMA NewSessionTyped ==
    ASSUME NEW key \in Keys, NEW i \in Index, NEW p \in Client \cup {Server}
    PROVE  /\ NewSession(key, i, p) \in Sess
           /\ NewSession(key, i, p).key = key
           /\ NewSession(key, i, p).receiver_index = i
           /\ NewSession(key, i, p).peer = p
           /\ ~NewSession(key, i, p).heard
           /\ NewSession(key, i, p).age = 0
<1>1. EmptyWindow \in Window
  BY WindowAssumption DEF EmptyWindow, Window, Counter
<1>2. /\ 0 \in 0 .. kRejectAfterMessages
      /\ 0 \in 0 .. (RejectAfterTime + 1)
      /\ KeepaliveTimeout + 1 \in 0 .. (KeepaliveTimeout + 1)
  BY WindowAssumption, VpnAssumption
<1> QED BY <1>1, <1>2 DEF NewSession, Sess

LEMMA SealedSame ==
    ASSUME NEW s \in Sess, CanSeal(s)
    PROVE  /\ Same(s, Sealed(s))
           /\ Sealed(s).heard = s.heard
           /\ Sealed(s).age = s.age
           /\ s.send_nonce \in Nat /\ s.send_nonce < kRejectAfterMessages
<1>1. s.send_nonce \in Nat /\ s.send_nonce < kRejectAfterMessages
  BY DEF Sess, CanSeal
<1>2. s.send_nonce + 1 \in 0 .. kRejectAfterMessages
  BY <1>1, WindowAssumption
<1>3. 0 \in 0 .. (KeepaliveTimeout + 1)
  BY VpnAssumption
<1> QED BY <1>1, <1>2, <1>3 DEF Same, Sess, Sealed

LEMMA OpenedSame ==
    ASSUME NEW s \in Sess, NEW m, m.counter \in Counter, CanOpen(s, m)
    PROVE  /\ Same(s, Opened(s, m))
           /\ ~Check(Opened(s, m).window, m.counter)
           /\ Opened(s, m).age = s.age
<1> DEFINE w == Accept(s.window, m.counter)
<1>1. /\ w \in Window
      /\ ~Check(w, m.counter)
      /\ \A n \in Counter : ~Check(s.window, n) => ~Check(w, n)
  BY AcceptRefuses DEF Sess, CanOpen
<1>2. Opened(s, m) \in Sess /\ Opened(s, m).window = w
  BY <1>1 DEF Sess, Opened
<1> QED BY <1>1, <1>2 DEF Same, Sess, Opened

\* Time passes.
LEMMA OlderKeeps ==
    ASSUME NEW sessions, AllSess(sessions)
    PROVE  /\ Keeps(sessions, Older(sessions))
           /\ DOMAIN Older(sessions) = DOMAIN sessions
           /\ SameHeard(sessions, Older(sessions))
           /\ \A i \in DOMAIN sessions : Older(sessions)[i].age =
                IF IsExpired(sessions[i]) THEN sessions[i].age ELSE sessions[i].age + 1
<1> DEFINE later(s) ==
        [s EXCEPT !.age = IF @ > RejectAfterTime THEN @ ELSE @ + 1,
                  !.idle = IF @ > KeepaliveTimeout THEN @ ELSE @ + 1]
<1>1. ASSUME NEW s \in Sess
      PROVE  /\ Same(s, later(s)) /\ later(s).heard = s.heard
             /\ later(s).age = IF IsExpired(s) THEN s.age ELSE s.age + 1
  <2>1. (IF s.age > RejectAfterTime THEN s.age ELSE s.age + 1) \in 0 .. (RejectAfterTime + 1)
    BY VpnAssumption DEF Sess
  <2>2. (IF s.idle > KeepaliveTimeout THEN s.idle ELSE s.idle + 1)
            \in 0 .. (KeepaliveTimeout + 1)
    BY VpnAssumption DEF Sess
  <2> QED BY <2>1, <2>2 DEF Same, Sess, IsExpired
<1>2. Older(sessions) = [i \in DOMAIN sessions |-> later(sessions[i])]
  BY DEF Older
<1> HIDE DEF later
<1> QED BY <1>1, <1>2 DEF AllSess, Keeps, SameHeard

\* TimerTick: keepalives and the sweep.
LEMMA TickKeeps ==
    ASSUME NEW sessions, AllSess(sessions)
    PROVE  /\ Keeps(sessions, SweepExpired(AfterKeepalives(sessions)))
           /\ SameHeard(sessions, SweepExpired(AfterKeepalives(sessions)))
           /\ SameAges(sessions, SweepExpired(AfterKeepalives(sessions)))
<1>1. \A i \in GetKeepaliveDue(sessions) : i \in DOMAIN sessions /\ CanSeal(sessions[i])
  BY DEF GetKeepaliveDue
<1>2. ASSUME NEW i \in DOMAIN sessions
      PROVE  /\ Same(sessions[i], AfterKeepalives(sessions)[i])
             /\ AfterKeepalives(sessions)[i].heard = sessions[i].heard
             /\ AfterKeepalives(sessions)[i].age = sessions[i].age
  <2>1. sessions[i] \in Sess
    BY DEF AllSess
  <2>2. CASE i \in GetKeepaliveDue(sessions)
    BY <1>1, <2>1, <2>2, SealedSame DEF AfterKeepalives
  <2>3. CASE i \notin GetKeepaliveDue(sessions)
    BY <2>1, <2>3 DEF AfterKeepalives, Same
  <2> QED BY <2>2, <2>3
<1>3. DOMAIN AfterKeepalives(sessions) = DOMAIN sessions
  BY DEF AfterKeepalives
<1>4. \A T : /\ DOMAIN SweepExpired(T) \subseteq DOMAIN T
             /\ \A i \in DOMAIN SweepExpired(T) : SweepExpired(T)[i] = T[i]
  BY DEF SweepExpired, Restrict
<1> QED BY <1>2, <1>3, <1>4 DEF Keeps, SameHeard, SameAges

\* The sweep looks at ages, which keepalives do not change.
LEMMA SweepAfterKeepalives ==
    ASSUME NEW sessions, AllSess(sessions)
    PROVE  /\ DOMAIN SweepExpired(AfterKeepalives(sessions)) = DOMAIN SweepExpired(sessions)
           /\ DOMAIN SweepExpired(sessions) =
                {i \in DOMAIN sessions : ~IsExpired(sessions[i])}
<1>1. \A s \in Sess : Sealed(s).age = s.age
  BY DEF Sess, Sealed
<1>2. DOMAIN AfterKeepalives(sessions) = DOMAIN sessions
  BY DEF AfterKeepalives
<1>3. \A i \in DOMAIN sessions : AfterKeepalives(sessions)[i].age = sessions[i].age
  BY <1>1 DEF AfterKeepalives, AllSess
<1> QED BY <1>2, <1>3 DEF SweepExpired, Restrict, IsExpired

-----------------------------------------------------------------------------
(* Datagrams.                                                              *)

Initiations ==
    [type : {"initiation"}, from : Client, sender_index : Index,
     init : 1 .. MaxInitiations]
Responses ==
    [type : {"response"}, to : Client, sender_index : Index,
     receiver_index : Index, key : Keys]
Transports ==
    [type : {"transport"}, to : Client \cup {Server}, receiver_index : Index,
     key : Keys, counter : Counter, payload : Client \cup {"empty"}]

\* Session::Seal makes packets below the limit.
LEMMA TransportTyped ==
    ASSUME NEW s \in Sess, CanSeal(s), NEW to \in Client \cup {Server},
           NEW p \in Client \cup {"empty"}
    PROVE  /\ Transport(s, to, p) \in Transports
           /\ Transport(s, to, p).key = s.key
           /\ Transport(s, to, p).to = to
           /\ Transport(s, to, p).payload = p
<1>1. s.send_nonce \in Counter
  BY SealedSame, WindowAssumption DEF Counter
<1>2. s.key \in Keys /\ s.receiver_index \in Index
  BY DEF Sess
<1> QED BY <1>1, <1>2 DEF Transport, Transports

\* A keepalive goes to the peer of a session that has received something.
LEMMA KeepalivesTyped ==
    ASSUME NEW sessions, AllSess(sessions), NEW m \in Keepalives(sessions)
    PROVE  /\ m \in Transports
           /\ m.payload = "empty"
           /\ \E i \in DOMAIN sessions :
                sessions[i].heard /\ m.key = sessions[i].key /\ m.to = sessions[i].peer
<1>1. PICK i \in GetKeepaliveDue(sessions) :
          m = Transport(sessions[i], sessions[i].peer, "empty")
  BY DEF Keepalives
<1>2. /\ i \in DOMAIN sessions /\ sessions[i].heard /\ CanSeal(sessions[i])
      /\ sessions[i] \in Sess /\ sessions[i].peer \in Client \cup {Server}
  BY DEF GetKeepaliveDue, ShouldSendKeepalive, AllSess, Sess
<1> HIDE DEF Transport, Transports
<1> QED BY <1>1, <1>2, TransportTyped

-----------------------------------------------------------------------------
(* The invariant.                                                          *)

ClientTypes ==
    /\ inits \in [Client -> 0 .. MaxInitiations]
    /\ handshake \in [Client -> [state : {"Zeroed", "InitiationCreated"},
                                 init : 0 .. MaxInitiations,
                                 local_index : Index \cup {None}]]
    /\ \A c \in Client :
         /\ handshake[c].init = inits[c]
         /\ handshake[c].state = "InitiationCreated" => handshake[c].local_index \in Index
    /\ ctable \in [Client -> SUBSET Index]
    /\ has_session \in [Client -> BOOLEAN]
    /\ active \in [Client -> Index \cup {None}]
    /\ established \subseteq Keys

ServerTypes ==
    /\ stable \subseteq Index
    /\ DOMAIN ssessions \subseteq stable
    /\ routes \in [Client -> Index \cup {None}]
    /\ answers \in [Client -> [1 .. MaxInitiations -> 0 .. MaxCopies]]

Tables ==
    /\ DOMAIN csessions = Client
    /\ \A c \in Client : DOMAIN csessions[c] \subseteq Index /\ AllSess(csessions[c])
    /\ AllSess(ssessions)

Datagrams == net \subseteq Initiations \cup Responses \cup Transports

\* The keys k have been made.
Made(k) == k.init <= inits[k.client] /\ k.resp <= answers[k.client][k.init]

\* An initiation in the network is one its client sent, and names the index
\* of the handshake that is still its latest.
InitiationLinks ==
    \A m \in net : m.type = "initiation" =>
        /\ m.init <= inits[m.from]
        /\ m.init = inits[m.from] => m.sender_index = handshake[m.from].local_index

\* A response in the network answers such an initiation, and names the index of
\* the server's session on its keys.
ResponseLinks ==
    \A m \in net : m.type = "response" =>
        /\ m.key.client = m.to
        /\ Made(m.key)
        /\ m.key.init = inits[m.to] => m.receiver_index = handshake[m.to].local_index
        /\ \A j \in DOMAIN ssessions : ssessions[j].key = m.key =>
               m.sender_index = j /\ m.receiver_index = ssessions[j].receiver_index

\* Packets travel on keys that a client has derived; those to the server come
\* from the client of the keys.
Proper(m) ==
    /\ m.key \in established
    /\ m.to = Server => m.payload \in {"empty", m.key.client}
TransportLinks == \A m \in net : m.type = "transport" => Proper(m)

ServerSessions ==
    /\ \A j \in DOMAIN ssessions :
         /\ ssessions[j].peer = ssessions[j].key.client
         /\ Made(ssessions[j].key)
         /\ ssessions[j].heard => ssessions[j].key \in established
    /\ \A i, j \in DOMAIN ssessions : ssessions[i].key = ssessions[j].key => i = j

ClientSessions ==
    \A c \in Client :
        /\ \A i \in DOMAIN csessions[c] :
             /\ csessions[c][i].key \in established
             /\ csessions[c][i].key.client = c
             /\ csessions[c][i].peer = Server
        /\ \A i, j \in DOMAIN csessions[c] :
             csessions[c][i].key = csessions[c][j].key => i = j

\* A client derives keys once per handshake, and none while it waits for a
\* response.
Derived ==
    /\ \A k \in established :
         /\ Made(k)
         /\ handshake[k.client].state = "InitiationCreated" => k.init # inits[k.client]
    /\ CompletedOnce

\* Every session a packet could still open under refuses it.
Refused(m) ==
    /\ m.to = Server => \A j \in DOMAIN ssessions :
           ssessions[j].key = m.key => ~Check(ssessions[j].window, m.counter)
    /\ \A c \in Client : m.to = c => \A i \in DOMAIN csessions[c] :
           csessions[c][i].key = m.key => ~Check(csessions[c][i].window, m.counter)

Spent ==
    /\ IsABag(written)
    /\ \A m \in DOMAIN written :
         /\ m \in Transports
         /\ m.key \in established
         /\ written[m] = 1
         /\ Refused(m)

\* The index of a handshake in progress is in the index table, and no session
\* has it yet.
Registered ==
    \A c \in Client :
        /\ IsFiniteSet(ctable[c])
        /\ DOMAIN csessions[c] \subseteq ctable[c]
        /\ handshake[c].state = "InitiationCreated" =>
             /\ handshake[c].local_index \in ctable[c]
             /\ handshake[c].local_index \notin DOMAIN csessions[c]

\* The initiations of earlier lives of client c.
Before(c) == inits[c] - Cardinality(ctable[c])

\* The server's session j is live, on keys that c derived in its present life.
Current(c, j) ==
    /\ ssessions[j].key.client = c
    /\ ssessions[j].key \in established
    /\ ssessions[j].key.init > Before(c)
    /\ ~IsExpired(ssessions[j])

\* Client c has its end of the server's session j, not older than that one.
Counterpart(c, j) ==
    \E i \in DOMAIN csessions[c] :
        /\ csessions[c][i].key = ssessions[j].key
        /\ csessions[c][i].age <= ssessions[j].age

\* The client's end is made after the server's and expires after it.
Counterparts ==
    \A c \in Client, j \in DOMAIN ssessions : Current(c, j) => Counterpart(c, j)

Core ==
    /\ ClientTypes /\ ServerTypes /\ Tables /\ Datagrams
    /\ InitiationLinks /\ ResponseLinks /\ TransportLinks
    /\ ServerSessions /\ ClientSessions /\ Derived /\ EndsMatch /\ Spent
    /\ Registered /\ Counterparts

\* Every entry of ip_to_session_ names a session of the table.
RoutesLive ==
    \A c \in Client : routes[c] # None => routes[c] \in DOMAIN ssessions

IInv == Core /\ ActiveSessionLive /\ RoutesLive /\ RouteToOwner

-----------------------------------------------------------------------------
(* Steps that make no keys: sessions grow older, seal, open, are swept or  *)
(* lost, packets on derived keys are added and datagrams vanish.           *)

\* The ends of client c grow older with those of the server, and c drops none of
\* those that the server could still use.
InStep(c) ==
    \A j \in DOMAIN ssessions' : ~IsExpired(ssessions'[j]) =>
        /\ ~IsExpired(ssessions[j])
        /\ \A i \in DOMAIN csessions[c] : csessions[c][i].age <= ssessions[j].age =>
             /\ i \in DOMAIN csessions'[c]
             /\ csessions'[c][i].age <= ssessions'[j].age

QuietStep ==
    /\ UNCHANGED <<inits, handshake, ctable, established, answers>>
    /\ has_session' = has_session /\ active' = active
    /\ stable' \subseteq Index
    /\ DOMAIN ssessions' \subseteq stable'
    /\ routes' \in [Client -> Index \cup {None}]
    /\ Keeps(ssessions, ssessions')
    /\ \A j \in DOMAIN ssessions' : ssessions'[j].heard => ssessions'[j].key \in established
    /\ DOMAIN csessions' = Client
    /\ \A c \in Client : Keeps(csessions[c], csessions'[c]) /\ InStep(c)
    /\ \A m \in net' : m \in net \/ (m \in Transports /\ Proper(m))
    /\ \/ written' = written
       \/ \E m \in net : /\ m \in Transports
                        /\ m \notin DOMAIN written
                        /\ written' = written (+) SetToBag({m})
                        /\ Refused(m)'

\* A packet written is written once.
LEMMA BagAdd ==
    ASSUME NEW B, NEW m, NEW A, IsABag(B), m \notin DOMAIN B,
           A = [e \in DOMAIN B \cup {m} |-> (IF e \in DOMAIN B THEN B[e] ELSE 0)
                                          + (IF e \in {m} THEN 1 ELSE 0)]
    PROVE  /\ DOMAIN A = DOMAIN B \cup {m}
           /\ A[m] = 1
           /\ \A x \in DOMAIN B : A[x] = B[x]
           /\ IsABag(A)
<1>1. A = [e \in DOMAIN B \cup {m} |-> (IF e \in DOMAIN B THEN B[e] ELSE 0)
                                      + (IF e \in {m} THEN 1 ELSE 0)]
  OBVIOUS
<1>2. \A x \in DOMAIN B : B[x] \in Nat /\ B[x] > 0
  BY DEF IsABag
<1>3. ASSUME NEW x \in DOMAIN B PROVE A[x] = B[x]
  <2>1. x # m /\ x \in DOMAIN B \cup {m}
    OBVIOUS
  <2>2. A[x] = B[x] + 0
    BY <1>1, <2>1
  <2> QED BY <1>2, <2>2
<1>4. A[m] = 1 /\ DOMAIN A = DOMAIN B \cup {m}
  BY <1>1
<1>5. \A x \in DOMAIN A : A[x] \in {n \in Nat : n > 0}
  BY <1>2, <1>3, <1>4
<1>6. A \in [DOMAIN A -> {n \in Nat : n > 0}]
  <2>1. A = [x \in DOMAIN A |-> A[x]]
    BY <1>1
  <2> QED BY <1>5, <2>1
<1> QED BY <1>3, <1>4, <1>6 DEF IsABag

\* A session that the server could still use keeps its counterpart.
LEMMA CounterpartStays ==
    ASSUME NEW c \in Client, NEW j \in DOMAIN ssessions',
           Keeps(ssessions, ssessions'), Keeps(csessions[c], csessions'[c]), InStep(c),
           established' = established, Before(c)' = Before(c),
           Counterparts, Current(c, j)'
    PROVE  Counterpart(c, j)'
<1>1. j \in DOMAIN ssessions /\ ssessions'[j].key = ssessions[j].key
  BY DEF Keeps, Same
<1>2. Current(c, j) /\ ~IsExpired(ssessions'[j])
  BY <1>1 DEF Current, InStep
<1>3. PICK i \in DOMAIN csessions[c] :
          csessions[c][i].key = ssessions[j].key /\ csessions[c][i].age <= ssessions[j].age
  BY <1>1, <1>2 DEF Counterparts, Counterpart
<1>4. i \in DOMAIN csessions'[c] /\ csessions'[c][i].age <= ssessions'[j].age
  BY <1>2, <1>3 DEF InStep
<1>5. csessions'[c][i].key = csessions[c][i].key
  BY <1>4 DEF Keeps, Same
<1> QED BY <1>1, <1>3, <1>4, <1>5 DEF Counterpart

LEMMA Quiet == Core /\ QuietStep => Core'
<1> SUFFICES ASSUME Core, QuietStep PROVE Core'
  OBVIOUS
<1>1. ClientTypes' /\ ServerTypes'
  BY DEF Core, QuietStep, ClientTypes, ServerTypes
<1>2. Tables'
  BY DEF Core, QuietStep, Tables, Keeps, Same, AllSess
<1>3. Datagrams'
  BY DEF Core, QuietStep, Datagrams
<1>4. \A m \in net' : m.type # "transport" => m \in net
  BY DEF QuietStep, Transports
<1>5. InitiationLinks'
  BY <1>4 DEF Core, QuietStep, InitiationLinks
<1>6. \A j \in DOMAIN ssessions' :
         /\ j \in DOMAIN ssessions
         /\ ssessions'[j].key = ssessions[j].key
         /\ ssessions'[j].receiver_index = ssessions[j].receiver_index
         /\ ssessions'[j].peer = ssessions[j].peer
         /\ \A n \in Counter : ~Check(ssessions[j].window, n) => ~Check(ssessions'[j].window, n)
  BY DEF QuietStep, Keeps, Same
<1>7. \A c \in Client : \A i \in DOMAIN csessions'[c] :
         /\ i \in DOMAIN csessions[c]
         /\ csessions'[c][i].key = csessions[c][i].key
         /\ csessions'[c][i].receiver_index = csessions[c][i].receiver_index
         /\ csessions'[c][i].peer = csessions[c][i].peer
         /\ \A n \in Counter :
               ~Check(csessions[c][i].window, n) => ~Check(csessions'[c][i].window, n)
  BY DEF QuietStep, Keeps, Same
<1>8. ResponseLinks'
  BY <1>4, <1>6 DEF Core, QuietStep, ResponseLinks, Made
<1>9. TransportLinks'
  BY DEF Core, QuietStep, TransportLinks, Proper
<1>10. ServerSessions'
  BY <1>6 DEF Core, QuietStep, ServerSessions, Made
<1>11. ClientSessions'
  BY <1>7 DEF Core, QuietStep, ClientSessions
<1>12. Derived'
  BY DEF Core, QuietStep, Derived, Made, CompletedOnce
<1>13. EndsMatch'
  BY <1>6, <1>7 DEF Core, EndsMatch
<1>14. Spent'
  <2>1. ASSUME NEW m \in Transports, Refused(m) PROVE Refused(m)'
    <3>1. m.counter \in Counter
      BY DEF Transports
    <3> QED BY <1>6, <1>7, <2>1, <3>1 DEF Refused
  <2>2. CASE written' = written
    BY <2>1, <2>2 DEF Core, Spent, QuietStep
  <2>3. ASSUME NEW m \in net, m \in Transports, m \notin DOMAIN written,
               written' = written (+) SetToBag({m}), Refused(m)'
        PROVE  Spent'
    <3>1. IsABag(written)
      BY DEF Core, Spent
    <3>2. /\ DOMAIN written' = DOMAIN written \cup {m}
          /\ written'[m] = 1
          /\ \A x \in DOMAIN written : written'[x] = written[x]
          /\ IsABag(written')
      <4>1. written' = [e \in DOMAIN written \cup {m} |->
                            (IF e \in DOMAIN written THEN written[e] ELSE 0)
                                + (IF e \in {m} THEN 1 ELSE 0)]
        BY <2>3 DEF (+), SetToBag
      <4> QED BY <2>3, <3>1, <4>1, BagAdd
    <3>3. m.key \in established /\ established' = established
      BY <2>3 DEF Core, TransportLinks, Proper, Transports, QuietStep
    <3> QED BY <2>1, <2>3, <3>2, <3>3 DEF Core, Spent
  <2> QED BY <2>2, <2>3 DEF QuietStep
<1>15. Registered'
  BY DEF Core, QuietStep, Registered, Keeps
<1>16. Counterparts'
  <2>1. \A c \in Client : Before(c)' = Before(c)
    BY DEF QuietStep, Before
  <2> QED BY <2>1, CounterpartStays DEF Core, QuietStep, Counterparts
<1> QED BY <1>1, <1>2, <1>3, <1>5, <1>8, <1>9, <1>10, <1>11, <1>12, <1>13, <1>14, <1>15, <1>16
        DEF Core

-----------------------------------------------------------------------------
(* Client::SendInitiation, with the client's sessions kept or dropped.     *)

StartStep(c, table, msgs) ==
    /\ SendInitiation(c, table, msgs)
    /\ table \subseteq Index /\ IsFiniteSet(table)
    /\ \A m \in msgs : m \in Transports /\ Proper(m)
    /\ UNCHANGED <<stable, ssessions, routes, answers, established, written>>
    /\ DOMAIN csessions' = Client
    /\ \A d \in Client : Keeps(csessions[d], csessions'[d])
    /\ DOMAIN csessions'[c] \subseteq table
    /\ \A d \in Client : InStep(d) \/ (d = c /\ table = {})
    /\ table # {} => table = ctable[c]
    /\ has_session' \in [Client -> BOOLEAN]
    /\ active' \in [Client -> Index \cup {None}]

LEMMA Start ==
    ASSUME Core, NEW c \in Client, NEW table, NEW msgs, StartStep(c, table, msgs)
    PROVE  Core'
<1>1. PICK i \in NewIndex(table) :
        /\ ctable' = [ctable EXCEPT ![c] = table \cup {i}]
        /\ handshake' = [handshake EXCEPT ![c] =
               [state |-> "InitiationCreated", init |-> inits'[c], local_index |-> i]]
        /\ net' = net \cup msgs \cup
               {[type |-> "initiation", from |-> c, sender_index |-> i, init |-> inits'[c]]}
  BY DEF StartStep, SendInitiation
<1> DEFINE new == [type |-> "initiation", from |-> c, sender_index |-> i,
                   init |-> inits'[c]]
<1>2. i \in Index
  BY DEF NewIndex
<1>3. /\ inits' = [inits EXCEPT ![c] = inits[c] + 1]
      /\ inits \in [Client -> 0 .. MaxInitiations] /\ inits[c] < MaxInitiations
  BY DEF StartStep, SendInitiation, Core, ClientTypes
<1>4. /\ inits' \in [Client -> 0 .. MaxInitiations]
      /\ inits'[c] = inits[c] + 1 /\ inits'[c] \in 1 .. MaxInitiations
      /\ \A d \in Client : d # c => inits'[d] = inits[d]
      /\ \A d \in Client : inits[d] \in Nat /\ inits'[d] \in Nat /\ inits[d] <= inits'[d]
  BY <1>3, VpnAssumption
<1>5. /\ handshake'[c].state = "InitiationCreated"
      /\ handshake'[c].init = inits'[c]
      /\ handshake'[c].local_index = i
      /\ \A d \in Client : d # c => handshake'[d] = handshake[d]
  BY <1>1 DEF Core, ClientTypes
<1>6. ClientTypes'
  <2>1. handshake' \in [Client -> [state : {"Zeroed", "InitiationCreated"},
                                  init : 0 .. MaxInitiations,
                                  local_index : Index \cup {None}]]
    BY <1>1, <1>2, <1>4 DEF Core, ClientTypes
  <2>2. ctable' \in [Client -> SUBSET Index]
    BY <1>1, <1>2 DEF Core, ClientTypes, StartStep
  <2>3. \A d \in Client :
          /\ handshake'[d].init = inits'[d]
          /\ handshake'[d].state = "InitiationCreated" => handshake'[d].local_index \in Index
    BY <1>2, <1>4, <1>5 DEF Core, ClientTypes
  <2> QED BY <1>4, <2>1, <2>2, <2>3 DEF Core, ClientTypes, StartStep
<1>7. ServerTypes'
  BY DEF Core, ServerTypes, StartStep
<1>8. Tables'
  BY DEF Core, Tables, StartStep, Keeps, Same, AllSess
<1>9. new \in Initiations
  BY <1>2, <1>4 DEF Initiations
<1>10. \A m \in net' : m \in net \/ (m \in Transports /\ Proper(m)) \/ m = new
  BY <1>1 DEF StartStep
<1>11. Datagrams'
  BY <1>9, <1>10 DEF Core, Datagrams
<1>12. \A m \in net' : m.type = "initiation" => m \in net \/ m = new
  BY <1>10 DEF Transports
<1>13. \A m \in net' : m.type = "response" => m \in net
  BY <1>10 DEF Transports
<1>14. \A m \in net' : m.type = "transport" => m \in net \/ Proper(m)
  BY <1>10
<1>15. InitiationLinks'
  <2>1. ASSUME NEW m \in net, m.type = "initiation"
        PROVE  /\ m.init <= inits'[m.from]
               /\ m.init = inits'[m.from] => m.sender_index = handshake'[m.from].local_index
    <3>1. m.from \in Client /\ m.init \in Nat
      BY <2>1 DEF Core, Datagrams, Initiations, Responses, Transports
    <3>2. m.init <= inits[m.from]
      BY <2>1 DEF Core, InitiationLinks
    <3>3. CASE m.from = c
      BY <1>4, <3>1, <3>2, <3>3
    <3>4. CASE m.from # c
      BY <1>4, <1>5, <2>1, <3>1, <3>4 DEF Core, InitiationLinks
    <3> QED BY <3>3, <3>4
  <2>2. new.init = inits'[c] /\ new.from = c /\ new.sender_index = i
    OBVIOUS
  <2> HIDE DEF new
  <2>3. new.init <= inits'[new.from] /\ new.sender_index = handshake'[new.from].local_index
    BY <1>4, <1>5, <2>2
  <2> QED BY <1>12, <2>1, <2>3 DEF InitiationLinks
<1> HIDE DEF new
<1>16. \A k \in Keys : Made(k) /\ k.client = c => k.init # inits'[c]
  <2> SUFFICES ASSUME NEW k \in Keys, Made(k), k.client = c
               PROVE  k.init # inits'[c]
    OBVIOUS
  <2>1. k.init \in Nat
    BY DEF Keys
  <2> QED BY <1>4, <2>1 DEF Made, StartStep
<1>17. \A k \in Keys : Made(k) => Made(k)'
  <2> SUFFICES ASSUME NEW k \in Keys, Made(k) PROVE Made(k)'
    OBVIOUS
  <2>1. k.init \in Nat /\ k.client \in Client
    BY DEF Keys
  <2> QED BY <1>4, <2>1 DEF Made, StartStep
<1>18. ResponseLinks'
  <2> SUFFICES ASSUME NEW m \in net, m.type = "response"
               PROVE  /\ m.key.client = m.to
                      /\ Made(m.key)'
                      /\ m.key.init = inits'[m.to] =>
                            m.receiver_index = handshake'[m.to].local_index
                      /\ \A j \in DOMAIN ssessions : ssessions[j].key = m.key =>
                            m.sender_index = j
                            /\ m.receiver_index = ssessions[j].receiver_index
    BY <1>13 DEF ResponseLinks, StartStep
  <2>1. m.key \in Keys /\ m.to \in Client
    BY DEF Core, Datagrams, Initiations, Responses, Transports
  <2>2. Made(m.key) /\ m.key.client = m.to
    BY DEF Core, ResponseLinks
  <2>3. CASE m.to = c
    BY <1>16, <1>17, <2>1, <2>2, <2>3 DEF Core, ResponseLinks
  <2>4. CASE m.to # c
    BY <1>4, <1>5, <1>17, <2>1, <2>2, <2>4 DEF Core, ResponseLinks
  <2> QED BY <2>3, <2>4
<1>19. TransportLinks'
  BY <1>14 DEF Core, TransportLinks, Proper, StartStep
<1>20. ServerSessions'
  <2>1. \A j \in DOMAIN ssessions : ssessions[j].key \in Keys
    BY DEF Core, Tables, AllSess, Sess
  <2> QED BY <1>17, <2>1 DEF Core, ServerSessions, StartStep
<1>21. \A d \in Client : \A j \in DOMAIN csessions'[d] :
         /\ j \in DOMAIN csessions[d]
         /\ csessions'[d][j].key = csessions[d][j].key
         /\ csessions'[d][j].receiver_index = csessions[d][j].receiver_index
         /\ csessions'[d][j].peer = csessions[d][j].peer
         /\ \A n \in Counter :
               ~Check(csessions[d][j].window, n) => ~Check(csessions'[d][j].window, n)
  BY DEF StartStep, Keeps, Same
<1>22. ClientSessions'
  BY <1>21 DEF Core, StartStep, ClientSessions
<1>23. Derived'
  <2>1. established \subseteq Keys /\ established' = established
    BY DEF Core, ClientTypes, StartStep
  <2>2. ASSUME NEW k \in established
        PROVE  /\ Made(k)'
               /\ handshake'[k.client].state = "InitiationCreated"
                     => k.init # inits'[k.client]
    <3>1. k \in Keys /\ k.client \in Client /\ Made(k)
      BY <2>1 DEF Core, Derived, Keys
    <3>2. CASE k.client = c
      BY <1>16, <1>17, <3>1, <3>2
    <3>3. CASE k.client # c
      BY <1>4, <1>5, <1>17, <3>1, <3>3 DEF Core, Derived
    <3> QED BY <3>2, <3>3
  <2> QED BY <2>1, <2>2 DEF Core, Derived, CompletedOnce
<1>24. EndsMatch'
  BY <1>21 DEF Core, EndsMatch, StartStep
<1>25. Spent'
  <2>1. \A m \in Transports : Refused(m) => Refused(m)'
    BY <1>21 DEF Refused, Transports, StartStep
  <2> QED BY <2>1 DEF Core, Spent, StartStep
<1>26. /\ ctable'[c] = table \cup {i} /\ i \notin table
       /\ \A d \in Client : d # c => ctable'[d] = ctable[d]
  BY <1>1 DEF Core, ClientTypes, NewIndex
<1>27. /\ IsFiniteSet(table \cup {i})
       /\ Cardinality(table) \in Nat /\ Cardinality(table \cup {i}) = Cardinality(table) + 1
       /\ table = {} => Cardinality(table) = 0
  BY <1>26, FS_AddElement, FS_CardinalityType, FS_EmptySet DEF StartStep
<1>28. Registered'
  <2>1. ASSUME NEW d \in Client, d # c
        PROVE  /\ IsFiniteSet(ctable'[d])
               /\ DOMAIN csessions'[d] \subseteq ctable'[d]
               /\ handshake'[d].state = "InitiationCreated" =>
                    /\ handshake'[d].local_index \in ctable'[d]
                    /\ handshake'[d].local_index \notin DOMAIN csessions'[d]
    BY <1>5, <1>26, <2>1 DEF Core, Registered, StartStep, Keeps
  <2>2. /\ IsFiniteSet(ctable'[c])
        /\ DOMAIN csessions'[c] \subseteq ctable'[c]
        /\ handshake'[c].local_index \in ctable'[c]
        /\ handshake'[c].local_index \notin DOMAIN csessions'[c]
    BY <1>5, <1>26, <1>27 DEF StartStep
  <2> QED BY <2>1, <2>2 DEF Registered
<1>29. Counterparts'
  <2> SUFFICES ASSUME NEW d \in Client, NEW j \in DOMAIN ssessions', Current(d, j)'
               PROVE  Counterpart(d, j)'
    BY DEF Counterparts
  <2>1. CASE d # c
    <3>1. Before(d)' = Before(d)
      BY <1>4, <1>26, <2>1 DEF Before
    <3> QED BY <2>1, <3>1, CounterpartStays DEF Core, StartStep, Tables, Keeps, Same, AllSess
  <2>2. CASE d = c /\ table # {}
    <3>1. ctable[c] = table
      BY <2>2 DEF StartStep
    <3>2. /\ Cardinality(ctable'[c]) = Cardinality(ctable[c]) + 1
          /\ Cardinality(ctable[c]) \in Nat
      BY <1>26, <1>27, <3>1
    <3>3. Before(d)' = Before(d)
      BY <1>4, <2>2, <3>2 DEF Before
    <3> QED BY <2>2, <3>3, CounterpartStays DEF Core, StartStep, Tables, Keeps, Same, AllSess
  <2>3. CASE d = c /\ table = {}
    <3>1. Before(c)' = inits[c]
      BY <1>4, <1>26, <1>27, <2>3 DEF Before
    <3>2. /\ j \in DOMAIN ssessions /\ ssessions' = ssessions
          /\ ssessions[j].key.client = c /\ ssessions[j].key \in Keys
          /\ Made(ssessions[j].key)
      BY <2>3 DEF StartStep, Current, Core, ServerSessions, Tables, AllSess, Sess
    <3>3. ssessions[j].key.init \in Nat /\ ssessions[j].key.init <= inits[c]
      BY <3>2 DEF Keys, Made
    <3> QED BY <1>4, <2>3, <3>1, <3>2, <3>3 DEF Current
  <2> QED BY <2>1, <2>2, <2>3
<1> QED BY <1>6, <1>7, <1>8, <1>11, <1>15, <1>18, <1>19, <1>20, <1>22, <1>23, <1>24, <1>25,
           <1>28, <1>29 DEF Core

-----------------------------------------------------------------------------
(* Client::HandleResponse: the keys are new at the client, and the         *)
(* server's session on them, if it still has it, is the one the response   *)
(* names.                                                                  *)

LEMMA Response ==
    ASSUME Core, NEW c \in Client, NEW m \in net, ClientHandleResponse(c, m)
    PROVE  Core'
<1> DEFINE i == handshake[c].local_index
           s == NewSession(m.key, m.sender_index, Server)
<1>1. /\ m.type = "response" /\ m.to = c
      /\ handshake[c].state = "InitiationCreated"
      /\ m.key.init = inits[c]
      /\ csessions' = [csessions EXCEPT ![c] = Insert(csessions[c], i, s)]
      /\ active' = [active EXCEPT ![c] = i]
      /\ has_session' = [has_session EXCEPT ![c] = TRUE]
      /\ established' = established \cup {m.key}
      /\ handshake' = [handshake EXCEPT ![c].state = "Zeroed"]
  BY DEF ClientHandleResponse, Core, ClientTypes
<1>2. UNCHANGED <<net, inits, ctable, ssessions, stable, routes, answers, written>>
  BY DEF ClientHandleResponse, svars
<1>3. /\ m.key \in Keys /\ m.sender_index \in Index /\ m.key.client = c
      /\ Made(m.key)
      /\ m.receiver_index = i
      /\ \A j \in DOMAIN ssessions : ssessions[j].key = m.key =>
               m.sender_index = j /\ m.receiver_index = ssessions[j].receiver_index
  BY <1>1 DEF Core, Datagrams, Initiations, Responses, Transports, ResponseLinks
<1>4. i \in Index
  BY <1>1 DEF Core, ClientTypes
<1>5. /\ s \in Sess /\ s.key = m.key /\ s.receiver_index = m.sender_index /\ s.peer = Server
      /\ s.age = 0
  BY <1>3, NewSessionTyped
<1> HIDE DEF s
<1>6. /\ DOMAIN csessions' = Client
      /\ DOMAIN csessions'[c] = DOMAIN csessions[c] \cup {i}
      /\ csessions'[c][i] = s
      /\ \A j \in DOMAIN csessions[c] : j # i => csessions'[c][j] = csessions[c][j]
      /\ \A d \in Client : d # c => csessions'[d] = csessions[d]
  BY <1>1 DEF Core, Tables, Insert
<1>7. /\ \A d \in Client : handshake'[d].init = handshake[d].init
      /\ \A d \in Client : handshake'[d].local_index = handshake[d].local_index
      /\ handshake'[c].state = "Zeroed"
      /\ \A d \in Client : d # c => handshake'[d] = handshake[d]
  BY <1>1 DEF Core, ClientTypes
<1>8. m.key \notin established
  BY <1>1, <1>3 DEF Core, Derived
<1>9. ClientTypes'
  <2>1. handshake' \in [Client -> [state : {"Zeroed", "InitiationCreated"},
                                  init : 0 .. MaxInitiations,
                                  local_index : Index \cup {None}]]
    BY <1>1 DEF Core, ClientTypes
  <2>2. /\ has_session' \in [Client -> BOOLEAN]
        /\ active' \in [Client -> Index \cup {None}]
        /\ established' \subseteq Keys
    BY <1>1, <1>3, <1>4 DEF Core, ClientTypes
  <2>3. \A d \in Client :
          /\ handshake'[d].init = inits'[d]
          /\ handshake'[d].state = "InitiationCreated" => handshake'[d].local_index \in Index
    BY <1>2, <1>7 DEF Core, ClientTypes
  <2>4. inits' \in [Client -> 0 .. MaxInitiations] /\ ctable' \in [Client -> SUBSET Index]
    BY <1>2 DEF Core, ClientTypes
  <2> QED BY <2>1, <2>2, <2>3, <2>4 DEF ClientTypes
<1>10. ServerTypes' /\ Datagrams'
  BY <1>2 DEF Core, ServerTypes, Datagrams
<1>11. Tables'
  BY <1>2, <1>4, <1>5, <1>6 DEF Core, Tables, AllSess
<1> HIDE DEF i
<1>12. InitiationLinks'
  <2>1. \A n \in net : n.type = "initiation" => n.from \in Client
    BY DEF Core, Datagrams, Initiations, Responses, Transports
  <2> QED BY <1>2, <1>7, <2>1 DEF Core, InitiationLinks
<1>13. ResponseLinks'
  <2>1. \A n \in net : n.type = "response" => n.to \in Client
    BY DEF Core, Datagrams, Initiations, Responses, Transports
  <2> QED BY <1>2, <1>7, <2>1 DEF Core, ResponseLinks, Made
<1>14. TransportLinks'
  BY <1>1, <1>2 DEF Core, TransportLinks, Proper
<1>15. ServerSessions'
  BY <1>1, <1>2 DEF Core, ServerSessions, Made
<1>16. \A j \in DOMAIN csessions[c] : csessions[c][j].key # m.key
  BY <1>8 DEF Core, ClientSessions
<1>17. ClientSessions'
  <2>1. ASSUME NEW d \in Client, d # c
        PROVE  /\ \A j \in DOMAIN csessions'[d] :
                    /\ csessions'[d][j].key \in established'
                    /\ csessions'[d][j].key.client = d
                    /\ csessions'[d][j].peer = Server
               /\ \A j, k \in DOMAIN csessions'[d] :
                    csessions'[d][j].key = csessions'[d][k].key => j = k
    BY <1>1, <1>6, <2>1 DEF Core, ClientSessions
  <2>2. /\ \A j \in DOMAIN csessions'[c] :
             /\ csessions'[c][j].key \in established'
             /\ csessions'[c][j].key.client = c
             /\ csessions'[c][j].peer = Server
        /\ \A j, k \in DOMAIN csessions'[c] :
             csessions'[c][j].key = csessions'[c][k].key => j = k
    BY <1>1, <1>3, <1>5, <1>6, <1>16 DEF Core, ClientSessions
  <2> QED BY <2>1, <2>2 DEF ClientSessions
<1>18. Derived'
  <2>1. ASSUME NEW k \in established'
        PROVE  /\ Made(k)'
               /\ handshake'[k.client].state = "InitiationCreated"
                     => k.init # inits'[k.client]
    <3>1. k.client \in Client /\ Made(k)
      BY <1>1, <1>3 DEF Core, Derived, ClientTypes, Keys
    <3>2. CASE k.client = c
      BY <1>2, <1>7, <3>1, <3>2 DEF Made
    <3>3. CASE k.client # c
      BY <1>1, <1>2, <1>3, <1>7, <3>1, <3>3 DEF Core, Derived, Made
    <3> QED BY <3>2, <3>3
  <2>2. \A k \in established : k.client = c => k.init # m.key.init
    BY <1>1 DEF Core, Derived
  <2>3. CompletedOnce'
    BY <1>1, <1>3, <2>2 DEF Core, Derived, CompletedOnce
  <2> QED BY <2>1, <2>3 DEF Derived
<1>19. EndsMatch'
  <2> SUFFICES ASSUME NEW d \in Client, NEW j \in DOMAIN ssessions,
                      NEW k \in DOMAIN csessions'[d],
                      csessions'[d][k].key = ssessions[j].key
               PROVE  /\ csessions'[d][k].receiver_index = j
                      /\ ssessions[j].receiver_index = k
                      /\ ssessions[j].peer = d
    BY <1>2 DEF EndsMatch
  <2>1. CASE d = c /\ k = i
    BY <1>3, <1>5, <1>6, <2>1 DEF Core, ServerSessions
  <2>2. CASE ~(d = c /\ k = i)
    <3>1. k \in DOMAIN csessions[d] /\ csessions'[d][k] = csessions[d][k]
      BY <1>6, <2>2
    <3> QED BY <3>1 DEF Core, EndsMatch
  <2> QED BY <2>1, <2>2
<1>20. Spent'
  <2>1. ASSUME NEW n \in DOMAIN written PROVE Refused(n)'
    <3>1. Refused(n) /\ n.key # m.key
      BY <1>8 DEF Core, Spent
    <3>2. \A d \in Client : \A k \in DOMAIN csessions'[d] :
            csessions'[d][k].key = n.key =>
              k \in DOMAIN csessions[d] /\ csessions'[d][k] = csessions[d][k]
      BY <1>5, <1>6, <3>1
    <3> QED BY <1>2, <3>1, <3>2 DEF Refused
  <2> QED BY <1>1, <1>2, <2>1 DEF Core, Spent
<1>21. i \in ctable[c] /\ i \notin DOMAIN csessions[c]
  BY <1>1 DEF Core, Registered, i
<1>22. Registered'
  BY <1>2, <1>6, <1>7, <1>21 DEF Core, Registered
<1>23. Counterparts'
  <2> SUFFICES ASSUME NEW d \in Client, NEW j \in DOMAIN ssessions, Current(d, j)'
               PROVE  Counterpart(d, j)'
    BY <1>2 DEF Counterparts
  <2>1. Before(d)' = Before(d)
    BY <1>2 DEF Before
  <2>2. CASE ssessions[j].key = m.key
    <3>1. d = c
      BY <1>2, <1>3, <2>2 DEF Current
    <3>2. ssessions[j].age \in Nat
      BY DEF Core, Tables, AllSess, Sess
    <3> QED BY <1>2, <1>5, <1>6, <2>2, <3>1, <3>2 DEF Counterpart
  <2>3. CASE ssessions[j].key # m.key
    <3>1. Current(d, j)
      BY <1>1, <1>2, <2>1, <2>3 DEF Current
    <3>2. PICK k \in DOMAIN csessions[d] :
              /\ csessions[d][k].key = ssessions[j].key
              /\ csessions[d][k].age <= ssessions[j].age
      BY <3>1 DEF Core, Counterparts, Counterpart
    <3>3. k \in DOMAIN csessions'[d] /\ csessions'[d][k] = csessions[d][k]
      BY <1>6, <1>21
    <3> QED BY <1>2, <3>2, <3>3 DEF Counterpart
  <2> QED BY <2>2, <2>3
<1> QED BY <1>9, <1>10, <1>11, <1>12, <1>13, <1>14, <1>15, <1>17, <1>18, <1>19, <1>20, <1>22,
           <1>23 DEF Core

-----------------------------------------------------------------------------
(* Server::HandleInitiation: the keys and the index are new everywhere.    *)

LEMMA Initiation ==
    ASSUME Core, NEW m \in net, ServerHandleInitiation(m)
    PROVE  Core'
<1> DEFINE c == m.from
           n == m.init
<1>1. PICK i \in NewIndex(stable),
           key \in {[client |-> c, init |-> n, resp |-> answers'[c][n]]} :
        /\ stable' = stable \cup {i}
        /\ net' = net \cup {[type |-> "response", to |-> c, sender_index |-> i,
                            receiver_index |-> m.sender_index, key |-> key]}
        /\ ssessions' = Insert(ssessions, i, NewSession(key, m.sender_index, c))
  BY DEF ServerHandleInitiation
<1> DEFINE reply == [type |-> "response", to |-> c, sender_index |-> i,
                     receiver_index |-> m.sender_index, key |-> key]
           s == NewSession(key, m.sender_index, c)
<1>2. /\ m.type = "initiation"
      /\ answers[c][n] < MaxCopies
      /\ answers' = [answers EXCEPT ![c][n] = answers[c][n] + 1]
      /\ UNCHANGED <<csessions, routes, written, inits, handshake, ctable, has_session,
                     active, established>>
  BY DEF ServerHandleInitiation, cvars
<1>3. /\ c \in Client /\ n \in 1 .. MaxInitiations /\ m.sender_index \in Index
      /\ n <= inits[c]
      /\ n = inits[c] => m.sender_index = handshake[c].local_index
  BY <1>2 DEF Core, Datagrams, Initiations, Responses, Transports, InitiationLinks
<1>4. i \in Index /\ i \notin stable /\ i \notin DOMAIN ssessions
  BY DEF NewIndex, Core, ServerTypes
<1> HIDE DEF c, n
<1>5. answers \in [Client -> [1 .. MaxInitiations -> 0 .. MaxCopies]]
  BY DEF Core, ServerTypes
<1>6. /\ answers' \in [Client -> [1 .. MaxInitiations -> 0 .. MaxCopies]]
      /\ answers'[c][n] = answers[c][n] + 1
      /\ answers[c][n] \in Nat /\ answers'[c][n] \in 1 .. MaxCopies
      /\ \A d \in Client : \A k \in 1 .. MaxInitiations :
           answers[d][k] \in Nat /\ answers'[d][k] \in Nat /\ answers[d][k] <= answers'[d][k]
  <2>1. answers'[c] = [answers[c] EXCEPT ![n] = answers[c][n] + 1]
    BY <1>2, <1>3, <1>5
  <2>2. answers'[c][n] = answers[c][n] + 1
    BY <1>3, <1>5, <2>1
  <2>3. answers[c][n] \in Nat /\ answers'[c][n] \in 1 .. MaxCopies
    BY <1>2, <1>3, <1>5, <2>2, VpnAssumption
  <2>4. \A k \in 1 .. MaxInitiations : k # n => answers'[c][k] = answers[c][k]
    BY <1>3, <1>5, <2>1
  <2>5. \A d \in Client : d # c => answers'[d] = answers[d]
    BY <1>2, <1>5
  <2>6. answers'[c] \in [1 .. MaxInitiations -> 0 .. MaxCopies]
    BY <1>3, <1>5, <2>1, <2>2, <2>3
  <2>7. answers' \in [Client -> [1 .. MaxInitiations -> 0 .. MaxCopies]]
    BY <1>2, <1>3, <1>5, <2>5, <2>6
  <2>8. ASSUME NEW d \in Client, NEW k \in 1 .. MaxInitiations
        PROVE  answers[d][k] \in Nat /\ answers'[d][k] \in Nat /\ answers[d][k] <= answers'[d][k]
    <3>1. answers[d][k] \in Nat
      <4>1. answers[d] \in [1 .. MaxInitiations -> 0 .. MaxCopies]
        BY <1>5
      <4>2. answers[d][k] \in 0 .. MaxCopies
        BY <4>1
      <4> QED BY <4>2
    <3>2. CASE d = c /\ k = n
      BY <2>2, <2>3, <3>2
    <3>3. CASE ~(d = c /\ k = n)
      BY <2>4, <2>5, <3>1, <3>3
    <3> QED BY <3>2, <3>3
  <2> QED BY <2>2, <2>3, <2>7, <2>8
<1>7. key \in Keys /\ key.client = c /\ key.init = n /\ key.resp = answers'[c][n]
  BY <1>1, <1>3, <1>6 DEF Keys
\* Keys made before are still made, and are not the new ones.
<1>8. \A k \in Keys : Made(k) => Made(k)' /\ k # key
  <2> SUFFICES ASSUME NEW k \in Keys, Made(k) PROVE Made(k)' /\ k # key
    OBVIOUS
  <2>1. k.client \in Client /\ k.init \in 1 .. MaxInitiations /\ k.resp \in Nat
    BY DEF Keys
  <2>2. Made(k)'
    BY <1>2, <1>6, <2>1 DEF Made
  <2>3. k # key
    BY <1>6, <1>7, <2>1 DEF Made
  <2> QED BY <2>2, <2>3
<1>9. Made(key)'
  BY <1>2, <1>3, <1>6, <1>7 DEF Made
<1>10. s \in Sess /\ s.key = key /\ s.receiver_index = m.sender_index /\ s.peer = c /\ ~s.heard
  BY <1>3, <1>7, NewSessionTyped
<1> HIDE DEF s
<1>11. /\ DOMAIN ssessions' = DOMAIN ssessions \cup {i}
       /\ ssessions'[i] = s
       /\ \A j \in DOMAIN ssessions : ssessions'[j] = ssessions[j]
  BY <1>1, <1>4 DEF Insert, s
<1>12. \A j \in DOMAIN ssessions : ssessions[j].key \in Keys /\ Made(ssessions[j].key)
  BY DEF Core, Tables, AllSess, Sess, ServerSessions
<1>13. established \subseteq Keys /\ \A k \in established : Made(k)
  BY DEF Core, ClientTypes, Derived
<1>14. /\ reply \in Responses /\ reply.type = "response" /\ reply.to = c
       /\ reply.sender_index = i
       /\ reply.receiver_index = m.sender_index /\ reply.key = key
  BY <1>3, <1>4, <1>7 DEF Responses
<1>15. net' = net \cup {reply}
  BY <1>1
<1> HIDE DEF reply
<1>16. ClientTypes'
  BY <1>2 DEF Core, ClientTypes
<1>17. ServerTypes'
  BY <1>1, <1>2, <1>4, <1>6, <1>11 DEF Core, ServerTypes
<1>18. Tables'
  BY <1>2, <1>10, <1>11 DEF Core, Tables, AllSess
<1>19. Datagrams'
  BY <1>14, <1>15 DEF Core, Datagrams
<1>20. InitiationLinks'
  BY <1>2, <1>14, <1>15 DEF Core, InitiationLinks
<1>21. ResponseLinks'
  <2>1. ASSUME NEW r \in net, r.type = "response"
        PROVE  /\ r.key.client = r.to
               /\ Made(r.key)'
               /\ r.key.init = inits'[r.to] =>
                     r.receiver_index = handshake'[r.to].local_index
               /\ \A j \in DOMAIN ssessions' : ssessions'[j].key = r.key =>
                     r.sender_index = j /\ r.receiver_index = ssessions'[j].receiver_index
    <3>1. r.key \in Keys /\ Made(r.key)
      BY <2>1 DEF Core, Datagrams, Initiations, Responses, Transports, ResponseLinks
    <3>2. Made(r.key)' /\ r.key # key
      BY <1>8, <3>1
    <3> QED BY <1>2, <1>10, <1>11, <2>1, <3>2 DEF Core, ResponseLinks
  <2>2. /\ reply.key.client = reply.to
        /\ Made(reply.key)'
        /\ reply.key.init = inits'[reply.to] =>
              reply.receiver_index = handshake'[reply.to].local_index
    BY <1>2, <1>3, <1>7, <1>9, <1>14
  <2>3. \A j \in DOMAIN ssessions' : ssessions'[j].key = key => j = i
    BY <1>8, <1>11, <1>12
  <2>4. \A j \in DOMAIN ssessions' : ssessions'[j].key = reply.key =>
          reply.sender_index = j /\ reply.receiver_index = ssessions'[j].receiver_index
    BY <1>10, <1>11, <1>14, <2>3
  <2> QED BY <1>15, <2>1, <2>2, <2>4 DEF ResponseLinks
<1>22. TransportLinks'
  BY <1>2, <1>14, <1>15 DEF Core, TransportLinks, Proper
<1>23. ServerSessions'
  <2>1. \A j \in DOMAIN ssessions' :
          /\ ssessions'[j].peer = ssessions'[j].key.client
          /\ Made(ssessions[j].key)'
          /\ ssessions'[j].heard => ssessions'[j].key \in established'
    BY <1>2, <1>7, <1>8, <1>9, <1>10, <1>11, <1>12 DEF Core, ServerSessions
  <2>2. \A j, k \in DOMAIN ssessions' : ssessions'[j].key = ssessions'[k].key => j = k
    BY <1>8, <1>10, <1>11, <1>12 DEF Core, ServerSessions
  <2> QED BY <2>1, <2>2 DEF ServerSessions
<1>24. ClientSessions'
  BY <1>2 DEF Core, ClientSessions
<1>25. Derived'
  BY <1>2, <1>8, <1>13 DEF Core, Derived, CompletedOnce
<1>26. EndsMatch'
  <2>1. \A d \in Client : \A k \in DOMAIN csessions[d] : csessions[d][k].key # key
    BY <1>8, <1>13 DEF Core, ClientSessions
  <2> QED BY <1>2, <1>10, <1>11, <2>1 DEF Core, EndsMatch
<1>27. Spent'
  <2>1. ASSUME NEW r \in DOMAIN written PROVE Refused(r)'
    <3>1. Refused(r) /\ r.key # key
      BY <1>8, <1>13 DEF Core, Spent
    <3> QED BY <1>2, <1>10, <1>11, <3>1 DEF Refused
  <2> QED BY <1>2, <2>1 DEF Core, Spent
<1>28. Registered'
  BY <1>2 DEF Core, Registered
<1>29. Counterparts'
  <2> SUFFICES ASSUME NEW d \in Client, NEW j \in DOMAIN ssessions', Current(d, j)'
               PROVE  Counterpart(d, j)'
    BY DEF Counterparts
  <2>1. j \in DOMAIN ssessions
    BY <1>2, <1>8, <1>10, <1>11, <1>13 DEF Current
  <2>2. Current(d, j)
    BY <1>2, <1>11, <2>1 DEF Current, Before
  <2> QED BY <1>2, <1>11, <2>1, <2>2 DEF Core, Counterparts, Counterpart
<1> QED BY <1>16, <1>17, <1>18, <1>19, <1>20, <1>21, <1>22, <1>23, <1>24, <1>25, <1>26, <1>27,
           <1>28, <1>29 DEF Core

-----------------------------------------------------------------------------
(* The steps of the two event loops.                                       *)

LEMMA KeepsAll ==
    ASSUME NEW sessions, AllSess(sessions)
    PROVE  Keeps(sessions, sessions)
BY DEF AllSess, Keeps, Same

\* One session of a table seals or opens.
LEMMA KeepsOne ==
    ASSUME NEW sessions, AllSess(sessions), NEW i \in DOMAIN sessions, NEW t,
           Same(sessions[i], t), t.age = sessions[i].age
    PROVE  /\ Keeps(sessions, [sessions EXCEPT ![i] = t])
           /\ SameAges(sessions, [sessions EXCEPT ![i] = t])
           /\ DOMAIN [sessions EXCEPT ![i] = t] = DOMAIN sessions
           /\ [sessions EXCEPT ![i] = t][i] = t
           /\ \A j \in DOMAIN sessions : j # i => [sessions EXCEPT ![i] = t][j] = sessions[j]
<1>1. Keeps(sessions, sessions)
  BY KeepsAll
<1> QED BY <1>1 DEF Keeps, SameAges

LEMMA CoreTables ==
    ASSUME Core
    PROVE  /\ AllSess(ssessions)
           /\ DOMAIN csessions = Client
           /\ \A c \in Client : AllSess(csessions[c])
           /\ Keeps(ssessions, ssessions)
           /\ \A c \in Client : Keeps(csessions[c], csessions[c])
           /\ stable \subseteq Index /\ DOMAIN ssessions \subseteq stable
           /\ routes \in [Client -> Index \cup {None}]
           /\ \A j \in DOMAIN ssessions : ssessions[j].heard => ssessions[j].key \in established
BY KeepsAll DEF Core, Tables, ServerTypes, ServerSessions

\* No time passes, and client c drops only what has expired.
LEMMA SameAgesInStep ==
    ASSUME NEW c \in Client, AllSess(ssessions), AllSess(csessions[c]),
           DOMAIN ssessions' \subseteq DOMAIN ssessions, SameAges(ssessions, ssessions'),
           SameAges(csessions[c], csessions'[c]),
           \A i \in DOMAIN csessions[c] :
              ~IsExpired(csessions[c][i]) => i \in DOMAIN csessions'[c]
    PROVE  InStep(c)
<1> SUFFICES ASSUME NEW j \in DOMAIN ssessions', ~IsExpired(ssessions'[j])
             PROVE  /\ ~IsExpired(ssessions[j])
                    /\ \A i \in DOMAIN csessions[c] :
                         csessions[c][i].age <= ssessions[j].age =>
                            /\ i \in DOMAIN csessions'[c]
                            /\ csessions'[c][i].age <= ssessions'[j].age
  BY DEF InStep
<1>1. j \in DOMAIN ssessions /\ ssessions'[j].age = ssessions[j].age
  BY DEF SameAges
<1>2. ssessions[j].age \in Nat /\ \A i \in DOMAIN csessions[c] : csessions[c][i].age \in Nat
  BY <1>1 DEF AllSess, Sess
<1>3. ASSUME NEW i \in DOMAIN csessions[c], csessions[c][i].age <= ssessions[j].age
      PROVE  i \in DOMAIN csessions'[c] /\ csessions'[c][i].age <= ssessions'[j].age
  BY <1>1, <1>2, <1>3, VpnAssumption DEF IsExpired, SameAges
<1> QED BY <1>1, <1>3 DEF IsExpired

\* The same for the steps that leave the clients' tables alone.
LEMMA ClientsIdle ==
    ASSUME Core, csessions' = csessions,
           DOMAIN ssessions' \subseteq DOMAIN ssessions, SameAges(ssessions, ssessions')
    PROVE  \A c \in Client : InStep(c)
BY CoreTables, SameAgesInStep DEF SameAges

\* A packet that opens at a client was not written before.
LEMMA OpenedAtClient ==
    ASSUME Core, NEW c \in Client, NEW m \in net, ClientHandleTransport(c, m)
    PROVE  QuietStep /\ DOMAIN csessions'[c] = DOMAIN csessions[c]
<1> DEFINE i == m.receiver_index
           s == csessions[c][i]
<1>1. /\ m.type = "transport" /\ m.to = c /\ i \in DOMAIN csessions[c]
      /\ CanOpen(s, m)
      /\ csessions' = [csessions EXCEPT ![c] = [csessions[c] EXCEPT ![i] = Opened(s, m)]]
      /\ written' = IF m.payload = "empty" THEN written ELSE written (+) SetToBag({m})
  BY DEF ClientHandleTransport
<1>2. UNCHANGED <<net, inits, handshake, ctable, has_session, active, established,
                 stable, ssessions, routes, answers>>
  BY DEF ClientHandleTransport, cvars, svars
<1>3. m \in Transports /\ m.counter \in Counter
  BY <1>1 DEF Core, Datagrams, Initiations, Responses, Transports
<1>4. s \in Sess /\ AllSess(csessions[c]) /\ DOMAIN csessions = Client
  BY <1>1, CoreTables DEF AllSess
<1>5. /\ Same(s, Opened(s, m)) /\ ~Check(Opened(s, m).window, m.counter)
      /\ Opened(s, m).age = s.age
  BY <1>1, <1>3, <1>4, OpenedSame
<1> HIDE DEF i
<1>6. /\ DOMAIN csessions' = Client
      /\ DOMAIN csessions'[c] = DOMAIN csessions[c]
      /\ Keeps(csessions[c], csessions'[c])
      /\ SameAges(csessions[c], csessions'[c])
      /\ csessions'[c][i] = Opened(s, m)
      /\ \A j \in DOMAIN csessions[c] : j # i => csessions'[c][j] = csessions[c][j]
      /\ \A d \in Client : d # c => csessions'[d] = csessions[d]
  BY <1>1, <1>4, <1>5, KeepsOne
<1>7. \A d \in Client : Keeps(csessions[d], csessions'[d]) /\ InStep(d)
  BY <1>2, <1>6, CoreTables, SameAgesInStep DEF SameAges
<1>8. m \notin DOMAIN written
  BY <1>1 DEF Core, Spent, Refused, CanOpen
<1>9. Refused(m)'
  <2>1. m.to # Server
    BY <1>1, VpnAssumption
  <2>2. ASSUME NEW j \in DOMAIN csessions'[c], csessions'[c][j].key = m.key
        PROVE  ~Check(csessions'[c][j].window, m.counter)
    <3>1. j \in DOMAIN csessions[c] /\ csessions[c][j].key = csessions[c][i].key
      BY <1>1, <1>6, <2>2 DEF CanOpen, Keeps, Same
    <3>2. j = i
      BY <1>1, <3>1 DEF Core, ClientSessions
    <3> QED BY <1>5, <1>6, <3>2
  <2> QED BY <1>1, <2>1, <2>2 DEF Refused
<1> QED BY <1>1, <1>2, <1>3, <1>6, <1>7, <1>8, <1>9, CoreTables DEF QuietStep

\* Server::HandleTransport likewise.
LEMMA OpenedAtServer ==
    ASSUME Core, NEW m \in net, ServerHandleTransport(m)
    PROVE  /\ QuietStep
           /\ DOMAIN ssessions' = DOMAIN ssessions
           /\ m.key \in established /\ m.payload \in {"empty", m.key.client}
           /\ ssessions[m.receiver_index].key = m.key
<1> DEFINE i == m.receiver_index
           s == ssessions[i]
<1>1. /\ m.type = "transport" /\ m.to = Server /\ i \in DOMAIN ssessions
      /\ CanOpen(s, m)
      /\ ssessions' = [ssessions EXCEPT ![i] = Opened(s, m)]
      /\ routes' = IF m.payload = "empty" THEN routes ELSE [routes EXCEPT ![m.payload] = i]
      /\ written' = IF m.payload = "empty" THEN written ELSE written (+) SetToBag({m})
  BY DEF ServerHandleTransport
<1>2. UNCHANGED <<net, inits, handshake, ctable, has_session, active, established,
                 stable, csessions, answers>>
  BY DEF ServerHandleTransport, cvars
<1>3. m \in Transports /\ m.counter \in Counter /\ Proper(m) /\ s.key = m.key
  BY <1>1 DEF Core, Datagrams, Initiations, Responses, Transports, TransportLinks, CanOpen
<1>4. s \in Sess /\ AllSess(ssessions)
  BY <1>1, CoreTables DEF AllSess
<1>5. /\ Same(s, Opened(s, m)) /\ ~Check(Opened(s, m).window, m.counter)
      /\ Opened(s, m).age = s.age
  BY <1>1, <1>3, <1>4, OpenedSame
<1> HIDE DEF i
<1>6. /\ DOMAIN ssessions' = DOMAIN ssessions
      /\ Keeps(ssessions, ssessions')
      /\ SameAges(ssessions, ssessions')
      /\ ssessions'[i] = Opened(s, m)
      /\ \A j \in DOMAIN ssessions : j # i => ssessions'[j] = ssessions[j]
  BY <1>1, <1>4, <1>5, KeepsOne
<1>7. \A j \in DOMAIN ssessions' : ssessions'[j].heard => ssessions'[j].key \in established
  BY <1>1, <1>3, <1>5, <1>6, CoreTables DEF Proper, Same
<1>8. m \notin DOMAIN written
  BY <1>1 DEF Core, Spent, Refused, CanOpen
<1>9. Refused(m)'
  <2>1. m.to \notin Client
    BY <1>1, VpnAssumption
  <2>2. ASSUME NEW j \in DOMAIN ssessions', ssessions'[j].key = m.key
        PROVE  ~Check(ssessions'[j].window, m.counter)
    <3>1. j \in DOMAIN ssessions /\ ssessions[j].key = ssessions[i].key
      BY <1>3, <1>6, <2>2 DEF Keeps, Same
    <3>2. j = i
      BY <1>1, <3>1 DEF Core, ServerSessions
    <3> QED BY <1>5, <1>6, <3>2
  <2> QED BY <2>1, <2>2 DEF Refused
<1>10. routes' \in [Client -> Index \cup {None}]
  BY <1>1, CoreTables
<1>11. \A c \in Client : Keeps(csessions[c], csessions'[c]) /\ InStep(c)
  BY <1>2, <1>6, CoreTables, ClientsIdle
<1>12. /\ stable' \subseteq Index /\ DOMAIN ssessions' \subseteq stable'
       /\ DOMAIN csessions' = Client
  BY <1>2, <1>6, CoreTables
<1>13. \/ written' = written
       \/ /\ m \in Transports /\ m \notin DOMAIN written
          /\ written' = written (+) SetToBag({m})
          /\ Refused(m)'
  BY <1>1, <1>3, <1>8, <1>9
<1>14. QuietStep
  BY <1>2, <1>6, <1>7, <1>10, <1>11, <1>12, <1>13 DEF QuietStep
<1> QED BY <1>1, <1>3, <1>6, <1>14 DEF Proper, i

\* The tables lose no session and the routes stay.
LEMMA Steady ==
    ASSUME IInv, UNCHANGED <<routes, active, has_session>>,
           established \subseteq established',
           Keeps(ssessions, ssessions'), DOMAIN ssessions' = DOMAIN ssessions,
           \A c \in Client : DOMAIN csessions[c] \subseteq DOMAIN csessions'[c]
    PROVE  ActiveSessionLive' /\ RoutesLive' /\ RouteToOwner'
<1>1. ActiveSessionLive' /\ RoutesLive'
  BY DEF IInv, ActiveSessionLive, RoutesLive
<1>2. RouteToOwner'
  BY DEF IInv, RouteToOwner, Keeps, Same
<1> QED BY <1>1, <1>2

LEMMA TickStep == IInv /\ Tick => IInv'
<1> SUFFICES ASSUME IInv, Tick PROVE IInv'
  OBVIOUS
<1>1. Core
  BY DEF IInv
<1>2. /\ csessions' = [c \in Client |-> Older(csessions[c])]
      /\ ssessions' = Older(ssessions)
      /\ UNCHANGED <<net, written, inits, handshake, ctable, has_session, active,
                     established, stable, routes, answers>>
  BY DEF Tick, cvars, svars
<1>3. /\ Keeps(ssessions, ssessions') /\ DOMAIN ssessions' = DOMAIN ssessions
      /\ SameHeard(ssessions, ssessions')
  BY <1>1, <1>2, CoreTables, OlderKeeps
<1>4. /\ DOMAIN csessions' = Client
      /\ \A c \in Client : Keeps(csessions[c], csessions'[c])
                         /\ DOMAIN csessions'[c] = DOMAIN csessions[c]
  BY <1>1, <1>2, CoreTables, OlderKeeps
<1>5. \A j \in DOMAIN ssessions' : ssessions'[j].heard => ssessions'[j].key \in established
  BY <1>1, <1>3, CoreTables DEF Keeps, Same, SameHeard
<1>6. ASSUME NEW c \in Client PROVE InStep(c)
  <2>1. AllSess(ssessions) /\ AllSess(csessions[c])
    BY <1>1, CoreTables
  <2>2. /\ csessions'[c] = Older(csessions[c])
        /\ \A i \in DOMAIN csessions[c] : csessions'[c][i].age =
             IF IsExpired(csessions[c][i]) THEN csessions[c][i].age ELSE csessions[c][i].age + 1
        /\ \A j \in DOMAIN ssessions : ssessions'[j].age =
             IF IsExpired(ssessions[j]) THEN ssessions[j].age ELSE ssessions[j].age + 1
    BY <1>2, <2>1, OlderKeeps
  <2>3. /\ \A i \in DOMAIN csessions[c] : csessions[c][i].age \in Nat
        /\ \A j \in DOMAIN ssessions : ssessions[j].age \in Nat
    BY <2>1 DEF AllSess, Sess
  <2> QED BY <1>3, <1>4, <2>2, <2>3, VpnAssumption DEF InStep, IsExpired
<1>7. Core'
  BY <1>1, <1>2, <1>3, <1>4, <1>5, <1>6, CoreTables, Quiet DEF QuietStep
<1> QED BY <1>2, <1>3, <1>4, <1>7, Steady DEF IInv

LEMMA ClientStartStep == ASSUME IInv, NEW c \in Client, ClientStart(c) PROVE IInv'
<1>1. Core
  BY DEF IInv
<1>2. /\ SendInitiation(c, {}, {})
      /\ csessions' = [csessions EXCEPT ![c] = NoSessions]
      /\ has_session' = [has_session EXCEPT ![c] = FALSE]
      /\ active' = [active EXCEPT ![c] = None]
      /\ UNCHANGED <<ssessions, established, written, stable, routes, answers>>
  BY DEF ClientStart, svars
<1>3. /\ DOMAIN csessions' = Client
      /\ \A d \in Client : d # c => csessions'[d] = csessions[d]
      /\ csessions'[c] = NoSessions
  BY <1>1, <1>2, CoreTables
<1>4. /\ \A d \in Client : Keeps(csessions[d], csessions'[d])
      /\ DOMAIN csessions'[c] = {} /\ IsFiniteSet({})
      /\ \A d \in Client : d # c => InStep(d)
  BY <1>1, <1>2, <1>3, CoreTables, SameAgesInStep, FS_EmptySet DEF Keeps, NoSessions, SameAges
<1>5. /\ has_session' \in [Client -> BOOLEAN] /\ ~has_session'[c]
      /\ active' \in [Client -> Index \cup {None}]
      /\ \A d \in Client : d # c => has_session'[d] = has_session[d] /\ active'[d] = active[d]
  BY <1>1, <1>2 DEF Core, ClientTypes
<1>6. Core'
  BY <1>1, <1>2, <1>3, <1>4, <1>5, Start DEF StartStep
<1>7. ActiveSessionLive'
  BY <1>3, <1>5 DEF IInv, ActiveSessionLive
<1>8. RoutesLive' /\ RouteToOwner'
  BY <1>2 DEF IInv, RoutesLive, RouteToOwner
<1> QED BY <1>6, <1>7, <1>8 DEF IInv

LEMMA ResponseStep ==
    ASSUME IInv, NEW c \in Client, NEW m \in net, ClientHandleResponse(c, m)
    PROVE  IInv'
<1>1. Core /\ Core'
  BY Response DEF IInv
<1> DEFINE i == handshake[c].local_index
           s == NewSession(m.key, m.sender_index, Server)
<1>2. /\ csessions' = [csessions EXCEPT ![c] = Insert(csessions[c], i, s)]
      /\ active' = [active EXCEPT ![c] = i]
      /\ has_session' = [has_session EXCEPT ![c] = TRUE]
      /\ established \subseteq established'
      /\ UNCHANGED <<ssessions, routes>>
  BY DEF ClientHandleResponse, svars
<1> HIDE DEF i, s
<1>3. /\ DOMAIN csessions'[c] = DOMAIN csessions[c] \cup {i} /\ active'[c] = i
      /\ \A d \in Client : d # c => /\ csessions'[d] = csessions[d]
                                   /\ active'[d] = active[d]
                                   /\ has_session'[d] = has_session[d]
  BY <1>1, <1>2 DEF Core, ClientTypes, Tables, Insert
<1>4. ActiveSessionLive'
  BY <1>3 DEF IInv, ActiveSessionLive
<1>5. RoutesLive' /\ RouteToOwner'
  BY <1>2 DEF IInv, RoutesLive, RouteToOwner
<1> QED BY <1>1, <1>4, <1>5 DEF IInv

LEMMA ClientTransportStep ==
    ASSUME IInv, NEW c \in Client, NEW m \in net, ClientHandleTransport(c, m)
    PROVE  IInv'
<1>1. Core /\ QuietStep /\ DOMAIN csessions'[c] = DOMAIN csessions[c]
  BY OpenedAtClient DEF IInv
<1>2. /\ UNCHANGED <<routes, active, has_session, established, ssessions>>
      /\ csessions' = [csessions EXCEPT ![c] = csessions'[c]]
  BY <1>1, CoreTables DEF ClientHandleTransport, cvars, svars
<1>3. \A d \in Client : DOMAIN csessions'[d] = DOMAIN csessions[d]
  BY <1>1, <1>2, CoreTables
<1> QED BY <1>1, <1>2, <1>3, CoreTables, Quiet, Steady DEF IInv

LEMMA ClientTunStep == ASSUME IInv, NEW c \in Client, ClientHandleTunRead(c) PROVE IInv'
<1> DEFINE i == active[c]
           s == csessions[c][i]
           p == Transport(s, Server, c)
<1>1. Core /\ i \in DOMAIN csessions[c]
  BY DEF IInv, ActiveSessionLive, ClientHandleTunRead
<1>2. /\ CanSeal(s)
      /\ net' = net \cup {p}
      /\ csessions' = [csessions EXCEPT ![c] = [csessions[c] EXCEPT ![i] = Sealed(s)]]
      /\ UNCHANGED <<written, inits, handshake, ctable, has_session, active, established,
                     stable, ssessions, routes, answers>>
  BY DEF ClientHandleTunRead, cvars, svars
<1>3. s \in Sess /\ s.key \in established /\ s.key.client = c
  BY <1>1, CoreTables DEF AllSess, Core, ClientSessions
<1>4. p \in Transports /\ Proper(p)
  <2>1. p \in Transports /\ p.key = s.key /\ p.payload = c
    BY <1>2, <1>3, TransportTyped
  <2> QED BY <1>3, <2>1 DEF Proper
<1>5. Same(s, Sealed(s)) /\ Sealed(s).age = s.age
  BY <1>2, <1>3, SealedSame
<1> HIDE DEF i, p
<1>6. /\ DOMAIN csessions' = Client
      /\ DOMAIN csessions'[c] = DOMAIN csessions[c]
      /\ Keeps(csessions[c], csessions'[c])
      /\ SameAges(csessions[c], csessions'[c])
      /\ \A d \in Client : d # c => csessions'[d] = csessions[d]
  BY <1>1, <1>2, <1>5, CoreTables, KeepsOne
<1>7. /\ \A d \in Client : Keeps(csessions[d], csessions'[d]) /\ InStep(d)
      /\ \A d \in Client : DOMAIN csessions'[d] = DOMAIN csessions[d]
  BY <1>1, <1>2, <1>6, CoreTables, SameAgesInStep DEF SameAges
<1>8. QuietStep
  BY <1>1, <1>2, <1>4, <1>6, <1>7, CoreTables DEF QuietStep
<1> QED BY <1>1, <1>2, <1>7, <1>8, CoreTables, Quiet, Steady DEF IInv

\* What TimerTick does to a client's table and sends.
LEMMA ClientTick ==
    ASSUME Core, NEW c \in Client, ssessions' = ssessions,
           csessions' = [csessions EXCEPT ![c] = SweepExpired(AfterKeepalives(csessions[c]))]
    PROVE  /\ DOMAIN csessions' = Client
           /\ \A d \in Client : Keeps(csessions[d], csessions'[d]) /\ InStep(d)
           /\ \A d \in Client : d # c => csessions'[d] = csessions[d]
           /\ DOMAIN csessions'[c] = DOMAIN SweepExpired(csessions[c])
           /\ \A m \in Keepalives(csessions[c]) : m \in Transports /\ Proper(m)
<1>1. AllSess(csessions[c]) /\ DOMAIN csessions = Client
  BY CoreTables
<1>2. /\ DOMAIN csessions' = Client
      /\ csessions'[c] = SweepExpired(AfterKeepalives(csessions[c]))
      /\ \A d \in Client : d # c => csessions'[d] = csessions[d]
  BY <1>1
<1>3. Keeps(csessions[c], csessions'[c]) /\ SameAges(csessions[c], csessions'[c])
  BY <1>1, <1>2, TickKeeps
<1>4. DOMAIN csessions'[c] = DOMAIN SweepExpired(csessions[c])
  BY <1>1, <1>2, SweepAfterKeepalives
<1>5. ASSUME NEW m \in Keepalives(csessions[c]) PROVE m \in Transports /\ Proper(m)
  <2>1. PICK i \in DOMAIN csessions[c] : m.key = csessions[c][i].key
    BY <1>1, KeepalivesTyped
  <2>2. m \in Transports /\ m.payload = "empty"
    BY <1>1, KeepalivesTyped
  <2> QED BY <2>1, <2>2 DEF Core, ClientSessions, Proper
<1>6. \A i \in DOMAIN csessions[c] :
         ~IsExpired(csessions[c][i]) => i \in DOMAIN csessions'[c]
  BY <1>1, <1>4, SweepAfterKeepalives
<1>7. \A d \in Client : InStep(d)
  BY <1>2, <1>3, <1>6, CoreTables, SameAgesInStep DEF SameAges
<1> QED BY <1>2, <1>3, <1>4, <1>5, <1>7, CoreTables

LEMMA ClientTimerStep == ASSUME IInv, NEW c \in Client, ClientTimerTick(c) PROVE IInv'
<1>1. Core
  BY DEF IInv
<1>2. /\ csessions' = [csessions EXCEPT ![c] = SweepExpired(AfterKeepalives(csessions[c]))]
      /\ net' = net \cup Keepalives(csessions[c])
      /\ has_session[c] => active[c] \in DOMAIN SweepExpired(csessions[c])
      /\ UNCHANGED <<written, inits, handshake, ctable, has_session, active, established,
                     stable, ssessions, routes, answers>>
  BY DEF ClientTimerTick, ActiveExpires, cvars, svars
<1>3. /\ DOMAIN csessions' = Client
      /\ \A d \in Client : Keeps(csessions[d], csessions'[d]) /\ InStep(d)
      /\ \A d \in Client : d # c => csessions'[d] = csessions[d]
      /\ DOMAIN csessions'[c] = DOMAIN SweepExpired(csessions[c])
      /\ \A m \in Keepalives(csessions[c]) : m \in Transports /\ Proper(m)
  BY <1>1, <1>2, ClientTick
<1>4. QuietStep
  BY <1>1, <1>2, <1>3, CoreTables DEF QuietStep
<1>5. ActiveSessionLive'
  BY <1>2, <1>3 DEF IInv, ActiveSessionLive
<1>6. RoutesLive' /\ RouteToOwner'
  BY <1>2 DEF IInv, RoutesLive, RouteToOwner
<1> QED BY <1>1, <1>4, <1>5, <1>6, Quiet DEF IInv

LEMMA ReinitStep == ASSUME IInv, NEW c \in Client, ClientTimerTickReinit(c) PROVE IInv'
<1>1. Core
  BY DEF IInv
<1>2. /\ csessions' = [csessions EXCEPT ![c] = SweepExpired(AfterKeepalives(csessions[c]))]
      /\ has_session' = [has_session EXCEPT ![c] = FALSE]
      /\ SendInitiation(c, ctable[c], Keepalives(csessions[c]))
      /\ UNCHANGED <<active, established, written, stable, ssessions, routes, answers>>
  BY DEF ClientTimerTickReinit, svars
<1>3. /\ DOMAIN csessions' = Client
      /\ \A d \in Client : Keeps(csessions[d], csessions'[d]) /\ InStep(d)
      /\ \A d \in Client : d # c => csessions'[d] = csessions[d]
      /\ \A m \in Keepalives(csessions[c]) : m \in Transports /\ Proper(m)
  BY <1>1, <1>2, ClientTick
<1>4. /\ has_session' \in [Client -> BOOLEAN] /\ ~has_session'[c]
      /\ \A d \in Client : d # c => has_session'[d] = has_session[d]
      /\ active' \in [Client -> Index \cup {None}]
      /\ ctable[c] \subseteq Index
      /\ IsFiniteSet(ctable[c]) /\ DOMAIN csessions'[c] \subseteq ctable[c]
  BY <1>1, <1>2, <1>3 DEF Core, ClientTypes, Registered, Keeps
<1>5. StartStep(c, ctable[c], Keepalives(csessions[c]))
  BY <1>2, <1>3, <1>4 DEF StartStep
<1>6. Core'
  BY <1>1, <1>5, Start
<1>7. ActiveSessionLive'
  BY <1>2, <1>3, <1>4 DEF IInv, ActiveSessionLive
<1>8. RoutesLive' /\ RouteToOwner'
  BY <1>2 DEF IInv, RoutesLive, RouteToOwner
<1> QED BY <1>6, <1>7, <1>8 DEF IInv

LEMMA InitiationStep == ASSUME IInv, NEW m \in net, ServerHandleInitiation(m) PROVE IInv'
<1>1. Core /\ Core'
  BY Initiation DEF IInv
<1>2. UNCHANGED <<csessions, routes, has_session, active, established>>
  BY DEF ServerHandleInitiation, cvars
<1>3. PICK i, s : i \in NewIndex(stable) /\ ssessions' = Insert(ssessions, i, s)
  BY DEF ServerHandleInitiation
<1>4. i \in Index /\ i \notin DOMAIN ssessions /\ i # None
  BY <1>1, <1>3, CoreTables, VpnAssumption DEF NewIndex
<1>5. /\ DOMAIN ssessions' = DOMAIN ssessions \cup {i}
      /\ \A j \in DOMAIN ssessions : ssessions'[j] = ssessions[j]
  BY <1>3, <1>4 DEF Insert
<1>6. ActiveSessionLive'
  BY <1>2 DEF IInv, ActiveSessionLive
<1>7. RoutesLive'
  BY <1>2, <1>5 DEF IInv, RoutesLive
<1>8. RouteToOwner'
  <2>1. ASSUME NEW c \in Client, routes[c] \in DOMAIN ssessions'
        PROVE  routes[c] \in DOMAIN ssessions
    BY <1>4, <1>5, <2>1 DEF IInv, RoutesLive
  <2> QED BY <1>2, <1>5, <2>1 DEF IInv, RouteToOwner
<1> QED BY <1>1, <1>6, <1>7, <1>8 DEF IInv

LEMMA ServerTransportStep ==
    ASSUME IInv, NEW m \in net, ServerHandleTransport(m)
    PROVE  IInv'
<1> DEFINE i == m.receiver_index
<1>1. /\ Core /\ QuietStep
      /\ DOMAIN ssessions' = DOMAIN ssessions
      /\ m.key \in established /\ m.payload \in {"empty", m.key.client}
      /\ ssessions[i].key = m.key
  BY OpenedAtServer DEF IInv
<1>2. /\ i \in DOMAIN ssessions
      /\ routes' = IF m.payload = "empty" THEN routes ELSE [routes EXCEPT ![m.payload] = i]
      /\ UNCHANGED <<csessions, has_session, active, established>>
  BY DEF ServerHandleTransport, cvars
<1>3. /\ ssessions[i].peer = m.key.client
      /\ routes \in [Client -> Index \cup {None}]
      /\ Keeps(ssessions, ssessions')
  BY <1>1, <1>2, CoreTables DEF Core, ServerSessions, QuietStep
<1> HIDE DEF i
<1>4. ActiveSessionLive'
  BY <1>2 DEF IInv, ActiveSessionLive
<1>5. CASE m.payload = "empty"
  BY <1>1, <1>2, <1>3, <1>5, Quiet, Steady DEF IInv
<1>6. CASE m.payload # "empty"
  <2>1. routes' = [routes EXCEPT ![m.key.client] = i]
    BY <1>1, <1>2, <1>6
  <2>2. \A c \in Client : routes'[c] = routes[c] \/ (routes'[c] = i /\ c = m.key.client)
    BY <1>3, <2>1
  <2>3. RoutesLive'
    BY <1>1, <1>2, <2>2 DEF IInv, RoutesLive
  <2>4. ASSUME NEW c \in Client, routes'[c] \in DOMAIN ssessions'
        PROVE  /\ ssessions'[routes'[c]].peer = c
               /\ ssessions'[routes'[c]].key \in established'
    <3>1. /\ ssessions'[routes'[c]].peer = ssessions[routes'[c]].peer
          /\ ssessions'[routes'[c]].key = ssessions[routes'[c]].key
      BY <1>3, <2>4 DEF Keeps, Same
    <3>2. CASE routes'[c] = routes[c]
      BY <1>1, <1>2, <2>4, <3>1, <3>2 DEF IInv, RouteToOwner
    <3>3. CASE routes'[c] = i /\ c = m.key.client
      BY <1>1, <1>2, <1>3, <3>1, <3>3
    <3> QED BY <2>2, <3>2, <3>3
  <2>5. RouteToOwner'
    BY <2>4 DEF RouteToOwner
  <2> QED BY <1>1, <1>4, <2>3, <2>5, Quiet DEF IInv
<1> QED BY <1>5, <1>6

LEMMA ServerTunStep == ASSUME IInv, NEW c \in Client, ServerHandleTunRead(c) PROVE IInv'
<1> DEFINE i == routes[c]
           s == ssessions[i]
           p == Transport(s, s.peer, c)
<1>1. /\ i \in DOMAIN ssessions
      /\ CanSeal(s)
      /\ net' = net \cup {p}
      /\ ssessions' = [ssessions EXCEPT ![i] = Sealed(s)]
      /\ UNCHANGED <<csessions, written, inits, handshake, ctable, has_session, active,
                     established, stable, routes, answers>>
  BY DEF ServerHandleTunRead, cvars, svars
<1>2. Core /\ s.peer = c /\ s.key \in established
  BY <1>1 DEF IInv, RouteToOwner
<1>3. s \in Sess /\ AllSess(ssessions)
  BY <1>1, <1>2, CoreTables DEF AllSess
<1>4. p \in Transports /\ Proper(p)
  <2>1. p \in Transports /\ p.key = s.key /\ p.to = c
    BY <1>1, <1>2, <1>3, TransportTyped
  <2> QED BY <1>2, <2>1, VpnAssumption DEF Proper
<1>5. Same(s, Sealed(s)) /\ Sealed(s).heard = s.heard /\ Sealed(s).age = s.age
  BY <1>1, <1>3, SealedSame
<1> HIDE DEF i, p
<1>6. /\ DOMAIN ssessions' = DOMAIN ssessions
      /\ Keeps(ssessions, ssessions')
      /\ SameAges(ssessions, ssessions')
      /\ ssessions'[i] = Sealed(s)
      /\ \A j \in DOMAIN ssessions : j # i => ssessions'[j] = ssessions[j]
  BY <1>1, <1>3, <1>5, KeepsOne
<1>7. \A j \in DOMAIN ssessions' : ssessions'[j].heard => ssessions'[j].key \in established
  BY <1>2, <1>5, <1>6, CoreTables DEF Same
<1>8. QuietStep
  BY <1>1, <1>2, <1>4, <1>6, <1>7, CoreTables, ClientsIdle DEF QuietStep
<1> QED BY <1>1, <1>2, <1>6, <1>8, Quiet, Steady DEF IInv

\* Server::TimerTick prunes the routes of the sessions it sweeps.
LEMMA ServerTimerStep == IInv /\ ServerTimerTick => IInv'
<1> SUFFICES ASSUME IInv, ServerTimerTick PROVE IInv'
  OBVIOUS
<1>1. Core /\ AllSess(ssessions)
  BY CoreTables DEF IInv
<1>2. /\ ssessions' = SweepExpired(AfterKeepalives(ssessions))
      /\ net' = net \cup Keepalives(ssessions)
      /\ routes' = IF DOMAIN ssessions' = DOMAIN ssessions THEN routes
                   ELSE [c \in Client |-> IF routes[c] \in DOMAIN ssessions'
                                          THEN routes[c] ELSE None]
      /\ UNCHANGED <<csessions, written, inits, handshake, ctable, has_session, active,
                     established, stable, answers>>
  BY DEF ServerTimerTick, cvars
<1>3. /\ Keeps(ssessions, ssessions') /\ SameHeard(ssessions, ssessions')
      /\ SameAges(ssessions, ssessions')
  BY <1>1, <1>2, TickKeeps
<1>4. \A j \in DOMAIN ssessions' : ssessions'[j].heard => ssessions'[j].key \in established
  BY <1>1, <1>3, CoreTables DEF Keeps, Same, SameHeard
<1>5. ASSUME NEW m \in Keepalives(ssessions) PROVE m \in Transports /\ Proper(m)
  <2>1. PICK i \in DOMAIN ssessions : ssessions[i].heard /\ m.key = ssessions[i].key
    BY <1>1, KeepalivesTyped
  <2>2. m \in Transports /\ m.payload = "empty"
    BY <1>1, KeepalivesTyped
  <2> QED BY <1>1, <2>1, <2>2, CoreTables DEF Proper
<1>6. routes \in [Client -> Index \cup {None}] /\ DOMAIN ssessions' \subseteq DOMAIN ssessions
  BY <1>1, <1>3, CoreTables DEF Keeps
<1>7. /\ routes' \in [Client -> Index \cup {None}]
      /\ \A c \in Client : routes'[c] = routes[c] \/ routes'[c] = None
      /\ \A c \in Client : routes'[c] \in DOMAIN ssessions' \/ routes'[c] = None
                         \/ DOMAIN ssessions' = DOMAIN ssessions
  BY <1>2, <1>6
<1>8. QuietStep
  BY <1>1, <1>2, <1>3, <1>4, <1>5, <1>6, <1>7, CoreTables, ClientsIdle DEF QuietStep
<1>9. ActiveSessionLive'
  BY <1>2 DEF IInv, ActiveSessionLive
<1>10. RoutesLive'
  BY <1>7 DEF IInv, RoutesLive
<1>11. RouteToOwner'
  <2>1. None \notin DOMAIN ssessions
    BY <1>1, CoreTables, VpnAssumption
  <2> QED BY <1>2, <1>3, <1>6, <1>7, <2>1 DEF IInv, RouteToOwner, Keeps, Same
<1> QED BY <1>1, <1>8, <1>9, <1>10, <1>11, Quiet DEF IInv

LEMMA CrashStep == IInv /\ ServerCrash => IInv'
<1> SUFFICES ASSUME IInv, ServerCrash PROVE IInv'
  OBVIOUS
<1>1. /\ stable' = {} /\ ssessions' = NoSessions /\ routes' = [c \in Client |-> None]
      /\ UNCHANGED <<net, csessions, written, inits, handshake, ctable, has_session, active,
                     established, answers>>
  BY DEF ServerCrash, cvars
<1>2. DOMAIN ssessions' = {}
  BY <1>1 DEF NoSessions
<1>3. QuietStep
  BY <1>1, <1>2, CoreTables, ClientsIdle DEF IInv, QuietStep, Keeps, SameAges
<1>4. ActiveSessionLive' /\ RoutesLive' /\ RouteToOwner'
  BY <1>1, <1>2 DEF IInv, ActiveSessionLive, RoutesLive, RouteToOwner
<1> QED BY <1>3, <1>4, Quiet DEF IInv

LEMMA LoseStep == ASSUME IInv, NEW m \in net, Lose(m) PROVE IInv'
<1>1. /\ net' \subseteq net
      /\ UNCHANGED <<stable, ssessions, routes, csessions, written, inits, handshake, ctable,
                     has_session, active, established, answers>>
  BY DEF Lose, cvars
<1>2. QuietStep
  BY <1>1, CoreTables, ClientsIdle DEF IInv, QuietStep, SameAges
<1>3. ActiveSessionLive' /\ RoutesLive' /\ RouteToOwner'
  BY <1>1 DEF IInv, ActiveSessionLive, RoutesLive, RouteToOwner
<1> QED BY <1>2, <1>3, Quiet DEF IInv

LEMMA Inductive == IInv /\ [Next]_vars => IInv'
<1> SUFFICES ASSUME IInv, [Next]_vars PROVE IInv'
  OBVIOUS
<1>1. CASE Tick BY <1>1, TickStep
<1>2. ASSUME NEW c \in Client, ClientStart(c) PROVE IInv' BY <1>2, ClientStartStep
<1>3. ASSUME NEW c \in Client, NEW m \in net, ClientHandleResponse(c, m) PROVE IInv'
  BY <1>3, ResponseStep
<1>4. ASSUME NEW c \in Client, NEW m \in net, ClientHandleTransport(c, m) PROVE IInv'
  BY <1>4, ClientTransportStep
<1>5. ASSUME NEW c \in Client, ClientHandleTunRead(c) PROVE IInv' BY <1>5, ClientTunStep
<1>6. ASSUME NEW c \in Client, ClientTimerTick(c) PROVE IInv' BY <1>6, ClientTimerStep
<1>7. ASSUME NEW c \in Client, ClientTimerTickReinit(c) PROVE IInv' BY <1>7, ReinitStep
<1>8. ASSUME NEW c \in Client, ServerHandleTunRead(c) PROVE IInv' BY <1>8, ServerTunStep
<1>9. ASSUME NEW m \in net, ServerHandleInitiation(m) PROVE IInv' BY <1>9, InitiationStep
<1>10. ASSUME NEW m \in net, ServerHandleTransport(m) PROVE IInv'
  BY <1>10, ServerTransportStep
<1>11. CASE ServerTimerTick BY <1>11, ServerTimerStep
<1>12. CASE ServerCrash BY <1>12, CrashStep
<1>13. ASSUME NEW m \in net, Lose(m) PROVE IInv' BY <1>13, LoseStep
<1>14. CASE UNCHANGED vars
  <2>1. UNCHANGED <<stable, ssessions, routes, csessions, written, inits, handshake, ctable,
                    has_session, active, established, answers, net>>
    BY <1>14 DEF vars
  <2>2. QuietStep
    BY <2>1, CoreTables, ClientsIdle DEF IInv, QuietStep, SameAges
  <2>3. ActiveSessionLive' /\ RoutesLive' /\ RouteToOwner'
    BY <2>1 DEF IInv, ActiveSessionLive, RoutesLive, RouteToOwner
  <2> QED BY <2>2, <2>3, Quiet DEF IInv
<1> QED BY <1>1, <1>2, <1>3, <1>4, <1>5, <1>6, <1>7, <1>8, <1>9, <1>10, <1>11, <1>12, <1>13,
           <1>14 DEF Next

LEMMA Initially == Init => IInv
<1> SUFFICES ASSUME Init PROVE IInv
  OBVIOUS
<1>1. ClientTypes
  BY VpnAssumption DEF Init, ClientTypes, Idle
<1>2. ServerTypes
  <2>1. answers \in [Client -> [1 .. MaxInitiations -> 0 .. MaxCopies]]
    BY VpnAssumption DEF Init
  <2> QED BY <2>1 DEF Init, ServerTypes, NoSessions
<1>3. Tables
  BY DEF Init, Tables, AllSess, NoSessions
<1>4. Datagrams /\ InitiationLinks /\ ResponseLinks /\ TransportLinks
  BY DEF Init, Datagrams, InitiationLinks, ResponseLinks, TransportLinks
<1>5. ServerSessions /\ ClientSessions /\ EndsMatch
  BY DEF Init, ServerSessions, ClientSessions, EndsMatch, NoSessions
<1>6. Derived
  BY DEF Init, Derived, CompletedOnce
<1>7. Spent
  BY DEF Init, Spent, EmptyBag, SetToBag, IsABag
<1>8. ActiveSessionLive /\ RoutesLive /\ RouteToOwner
  BY DEF Init, ActiveSessionLive, RoutesLive, RouteToOwner, NoSessions
<1>9. Registered /\ Counterparts
  BY FS_EmptySet DEF Init, Registered, Counterparts, NoSessions, Idle
<1> QED BY <1>1, <1>2, <1>3, <1>4, <1>5, <1>6, <1>7, <1>8, <1>9 DEF IInv, Core

\* The strengthening holds in every behaviour.
THEOREM Invariance == Spec => []IInv
BY Initially, Inductive, PTL DEF Spec

-----------------------------------------------------------------------------
\* The tables, counters and windows of every process keep their types, and no
\* packet carries a counter that Session::Seal may not use.
THEOREM TypeCorrect == Spec => []TypeOK
<1>1. ASSUME IInv PROVE TypeOK
  <2>1. \A m \in net : m.type = "transport" => m.counter < kRejectAfterMessages
    BY <1>1, WindowAssumption
       DEF IInv, Core, Datagrams, Initiations, Responses, Transports, Counter
  <2>2. \A c \in Client :
          /\ handshake[c].state \in {"Zeroed", "InitiationCreated"}
          /\ ctable[c] \subseteq Index
    BY <1>1 DEF IInv, Core, ClientTypes
  <2>3. \A c \in Client : /\ DOMAIN csessions[c] \subseteq Index
                         /\ \A i \in DOMAIN csessions[c] : SessionOK(csessions[c][i])
    BY <1>1, SessionIsOK DEF IInv, Core, Tables, AllSess
  <2>4. \A i \in DOMAIN ssessions : SessionOK(ssessions[i])
    BY <1>1, SessionIsOK DEF IInv, Core, Tables, AllSess
  <2> QED BY <1>1, <2>1, <2>2, <2>3, <2>4
          DEF IInv, Core, ClientTypes, ServerTypes, Spent, TypeOK
<1> QED BY <1>1, Invariance, PTL

\* Client::HandleTunRead never finds the active session gone.
THEOREM ActiveSession == Spec => []ActiveSessionLive
<1>1. IInv => ActiveSessionLive BY DEF IInv
<1> QED BY <1>1, Invariance, PTL

\* ip_to_session_ leads a packet to the client whose address it has.
THEOREM RouteOwner == Spec => []RouteToOwner
<1>1. IInv => RouteToOwner BY DEF IInv
<1> QED BY <1>1, Invariance, PTL

\* A route leads to a session of the table, and what the server sends on it reaches
\* the client, as long as neither end has been restarted or has expired.
THEOREM RouteReaches == Spec => []RouteReachesClient
<1>1. ASSUME IInv, NEW c \in Client, routes[c] \in DOMAIN ssessions,
             ssessions[routes[c]].key.init > Before(c), ~IsExpired(ssessions[routes[c]])
      PROVE  /\ ssessions[routes[c]].receiver_index \in DOMAIN csessions[c]
             /\ csessions[c][ssessions[routes[c]].receiver_index].key = ssessions[routes[c]].key
  <2> DEFINE j == routes[c]
  <2>1. Current(c, j)
    BY <1>1 DEF IInv, Core, RouteToOwner, ServerSessions, Current
  <2>2. PICK i \in DOMAIN csessions[c] : csessions[c][i].key = ssessions[j].key
    BY <1>1, <2>1 DEF IInv, Core, Counterparts, Counterpart
  <2>3. ssessions[j].receiver_index = i
    BY <1>1, <2>2 DEF IInv, Core, EndsMatch
  <2> QED BY <2>2, <2>3
<1>2. IInv => RouteReachesClient
  BY <1>1 DEF IInv, RoutesLive, RouteReachesClient, Reaches, Before
<1> QED BY <1>2, Invariance, PTL

\* The server sends on no keys that the client has not derived.
THEOREM OnlyConfirmed == Spec => []ServerSendsOnlyConfirmed
<1>1. IInv => ServerSendsOnlyConfirmed
  BY DEF IInv, Core, TransportLinks, Proper, ServerSendsOnlyConfirmed
<1> QED BY <1>1, Invariance, PTL

\* Two sessions on the same keys address each other.
THEOREM EndsAgree == Spec => []EndsMatch
<1>1. IInv => EndsMatch BY DEF IInv, Core
<1> QED BY <1>1, Invariance, PTL

\* Client::HandleResponse completes an initiation once.
THEOREM Completion == Spec => []CompletedOnce
<1>1. IInv => CompletedOnce BY DEF IInv, Core, Derived
<1> QED BY <1>1, Invariance, PTL

\* No packet is written to a TUN device twice, across any crashes, restarts and
\* repetitions.
THEOREM NoDuplicates == Spec => []WrittenOnce
<1>1. IInv => WrittenOnce BY DEF IInv, Core, Spent, WrittenOnce
<1> QED BY <1>1, Invariance, PTL
=============================================================================
