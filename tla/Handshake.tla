----------------------------- MODULE Handshake ------------------------------
(***************************************************************************)
(* core/handshake/handshake_processor.cpp with its handshake state, index  *)
(* table and keypair slots, used as its interface allows: every initiator  *)
(* owns one Peer for the responder, the responder owns one Peer for each   *)
(* initiator, and the five functions are called in any order on any        *)
(* message the network ever carried (lost, repeated and reordered          *)
(* messages).  A call that returns false or nullopt changes nothing and is *)
(* not a step.                                                             *)
(***************************************************************************)
EXTENDS NoiseTerms, Tai64n

CONSTANTS
    Initiator,      \* the initiators
    Responder,      \* the responder's name
    WrongX, WrongK, \* initiators that hold another X25519 or ML-KEM key for it
    OpenPeers,      \* the responder's Peers whose remote_static is all zero
    Index,          \* the 32-bit indices
    None,           \* index 0, a null pointer, an unset key
    MaxClock,       \* bound on the readings of the system clock
    MaxInitiations, \* bound on CreateMessageInitiation
    MaxResponses    \* bound on CreateMessageResponse

ASSUME HandshakeAssumption ==
    /\ WrongX \subseteq Initiator /\ WrongK \subseteq Initiator
    /\ OpenPeers \subseteq Initiator
    /\ Responder \notin Initiator
    /\ None \notin Index \cup Initiator \cup {Responder}

VARIABLES
    fresh,      \* freshness supply: ephemerals and randomness
    stamps,     \* last_ of each initiator's Tai64n
    initiations,\* CreateMessageInitiation calls so far
    net,        \* every handshake message ever sent
    ihs,        \* HandshakeState of each initiator's Peer
    rhs,        \* HandshakeState of the responder's Peer for each initiator
    itable,     \* IndexTable of each initiator
    rtable,     \* IndexTable of the responder
    ikeys,      \* KeypairManager of each initiator's Peer
    rkeys,      \* KeypairManager of the responder's Peers
    recent,     \* per responder Peer: less than kHandshakeInitiationRate has
                \* passed since last_initiation_consumption
    commits,    \* initiations the responder's Peers committed, in order
    idone,      \* keypairs the initiators derived
    rdone       \* keypairs the responder derived

vars == <<fresh, stamps, initiations, net, ihs, rhs, itable, rtable, ikeys,
          rkeys, recent, commits, idone, rdone>>

Psk == "psk"

\* The static keys an initiator is configured with for the responder.
RemoteX(p) == StaticX(IF p \in WrongX THEN None ELSE Responder)
RemoteK(p) == StaticK(IF p \in WrongK THEN None ELSE Responder)

States == {"Zeroed", "InitiationCreated", "InitiationConsumed",
           "ResponseCreated", "ResponseConsumed"}

ZeroHandshake ==
    [state |-> "Zeroed", C |-> <<>>, H |-> <<>>, ephemeral |-> 0,
     remote |-> None, local_index |-> None, remote_index |-> None,
     last_timestamp |-> ZeroStamp]

FreeEntry == [peer |-> None, keypair |-> FALSE]
EmptyTable == [i \in Index |-> FreeEntry]

EmptySlots == [current |-> None, previous |-> None, next |-> None]

Init ==
    /\ fresh = 0
    /\ stamps = [p \in Initiator |-> ZeroStamp]
    /\ initiations = 0
    /\ net = {}
    /\ ihs = [p \in Initiator |-> ZeroHandshake]
    /\ rhs = [p \in Initiator |-> ZeroHandshake]
    /\ itable = [p \in Initiator |-> EmptyTable]
    /\ rtable = EmptyTable
    /\ ikeys = [p \in Initiator |-> EmptySlots]
    /\ rkeys = [p \in Initiator |-> EmptySlots]
    /\ recent = [p \in Initiator |-> FALSE]
    /\ commits = <<>>
    /\ idone = {}
    /\ rdone = {}

-----------------------------------------------------------------------------
\* IndexTable

\* A slip in NewIndex: indices in use are not skipped.
NewIndexUnchecked(table) == Index

\* IndexTable::NewIndex: any index that is not in the table.
NewIndex(table) == {i \in Index : table[i] = FreeEntry}

\* The entry NewIndex makes for a handshake.
Register(table, i, peer) == [table EXCEPT ![i] = [peer |-> peer, keypair |-> FALSE]]

SwapHandshakeToKeypair(table, i) ==
    IF table[i] = FreeEntry THEN table ELSE [table EXCEPT ![i].keypair = TRUE]

-----------------------------------------------------------------------------
\* Message 1

\* Steps 1-11 of CreateMessageInitiation: the transcript of initiator p's
\* initiation with fresh value n and timestamp ts, and its three ciphertexts.
InitiationTranscript(p, n, ts) ==
    LET rsx == RemoteX(p)
        rsk == RemoteK(p)
        ct == Encapsulate(rsk, n)
        C1 == <<EphemeralX(n), EphemeralK(n), DH(EphemeralX(n), rsx)>>
        C2 == MixKey(MixKey(C1, KemSecret(ct)), "empty")
        C3 == MixKey(C2, DH(StaticX(p), rsx))
        H1 == <<rsx, rsk, EphemeralX(n), EphemeralK(n), ct>>
        enc_x == Encrypt(KdfOutput(C1, 2), H1, StaticX(p))
        H2 == MixCiphertext(H1, enc_x)
        enc_k == Encrypt(KdfOutput(C2, 2), H2, StaticK(p))
        H3 == MixCiphertext(H2, enc_k)
        enc_t == Encrypt(KdfOutput(C3, 2), H3, ts)
    IN  [C |-> C3, H |-> MixCiphertext(H3, enc_t), ct |-> ct,
         enc_x |-> enc_x, enc_k |-> enc_k, enc_t |-> enc_t]

\* InitiationMsg with its wire format.  n is not sent: it names the message.
InitiationMsg(i, n, t) ==
    [type |-> "initiation", sender_index |-> i, n |-> n,
     ex |-> EphemeralX(n), ek |-> EphemeralK(n), ct |-> t.ct,
     enc_x |-> t.enc_x, enc_k |-> t.enc_k, enc_t |-> t.enc_t]

\* The system clock may read anything, earlier than before too.
CreateMessageInitiation(p) ==
    /\ initiations < MaxInitiations
    /\ initiations' = initiations + 1
    /\ fresh' = fresh + 1
    /\ \E reading \in 0 .. MaxClock :
         stamps' = [stamps EXCEPT ![p] = Now(@, reading)]
    /\ \E i \in NewIndex(itable[p]) :
         LET n == fresh'
             t == InitiationTranscript(p, n, stamps'[p])
         IN  /\ itable' = [itable EXCEPT ![p] = Register(@, i, p)]
             /\ ihs' = [ihs EXCEPT ![p] = [@ EXCEPT !.state = "InitiationCreated",
                            !.C = t.C, !.H = t.H, !.ephemeral = n,
                            !.local_index = i]]
             /\ net' = net \cup {InitiationMsg(i, n, t)}
    /\ UNCHANGED <<rhs, rtable, ikeys, rkeys, recent, commits, idone, rdone>>

\* A slip in ConsumeMessageInitiation: results of DecryptAndHash are ignored.
ReceivedUnverified(m) ==
    LET sx == StaticX(Responder)
        sk == StaticK(Responder)
        C1 == <<m.ex, m.ek, DH(sx, m.ex)>>
        C2 == MixKey(MixKey(C1, Decapsulate(sk, m.ct)), "empty")
        H1 == <<sx, sk, m.ex, m.ek, m.ct>>
    IN  [C |-> MixKey(C2, DH(sx, m.enc_x.plaintext)),
         H |-> MixCiphertext(MixCiphertext(MixCiphertext(H1, m.enc_x), m.enc_k), m.enc_t),
         ok |-> TRUE]

\* Steps 4-13 of ConsumeMessageInitiation: the transcript the responder
\* computes from message m, and whether the three ciphertexts open.
ReceivedTranscript(m) ==
    LET sx == StaticX(Responder)
        sk == StaticK(Responder)
        C1 == <<m.ex, m.ek, DH(sx, m.ex)>>
        C2 == MixKey(MixKey(C1, Decapsulate(sk, m.ct)), "empty")
        C3 == MixKey(C2, DH(sx, m.enc_x.plaintext))
        H1 == <<sx, sk, m.ex, m.ek, m.ct>>
        H2 == MixCiphertext(H1, m.enc_x)
        H3 == MixCiphertext(H2, m.enc_k)
    IN  [C |-> C3, H |-> MixCiphertext(H3, m.enc_t),
         ok |-> /\ Decrypts(KdfOutput(C1, 2), H1, m.enc_x)
                /\ Decrypts(KdfOutput(C2, 2), H2, m.enc_k)
                /\ Decrypts(KdfOutput(C3, 2), H3, m.enc_t)]

\* Step 11 of ConsumeMessageInitiation.
IdentityOk(q, m) == q \in OpenPeers \/ m.enc_x.plaintext = StaticX(q)

\* A slip in step 14: an equal timestamp passes.
FreshTimestampOrEqual(q, m) ==
    ~Precedes(m.enc_t.plaintext, rhs[q].last_timestamp) /\ ~recent[q]

\* Step 14: the timestamp is newer than the last, and the last initiation
\* was consumed long enough ago.
FreshTimestamp(q, m) ==
    Precedes(rhs[q].last_timestamp, m.enc_t.plaintext) /\ ~recent[q]

ConsumeMessageInitiation(q, m) ==
    LET t == ReceivedTranscript(m) IN
    /\ m.type = "initiation"
    /\ t.ok
    /\ IdentityOk(q, m)
    /\ FreshTimestamp(q, m)
    /\ rhs' = [rhs EXCEPT ![q] = [@ EXCEPT !.state = "InitiationConsumed",
                   !.C = t.C, !.H = t.H, !.remote_index = m.sender_index,
                   !.remote = [ex |-> m.ex, ek |-> m.ek,
                               sx |-> m.enc_x.plaintext,
                               sk |-> m.enc_k.plaintext],
                   !.last_timestamp = m.enc_t.plaintext]]
    /\ recent' = [recent EXCEPT ![q] = TRUE]
    /\ commits' = Append(commits, [peer |-> q, n |-> m.n])
    /\ UNCHANGED <<fresh, stamps, initiations, net, ihs, itable, rtable, ikeys, rkeys,
                   idone, rdone>>

\* kHandshakeInitiationRate passes.
RateElapses(q) ==
    /\ recent[q]
    /\ recent' = [recent EXCEPT ![q] = FALSE]
    /\ UNCHANGED <<fresh, stamps, initiations, net, ihs, rhs, itable, rtable, ikeys,
                   rkeys, commits, idone, rdone>>

-----------------------------------------------------------------------------
\* Message 2

\* A slip in both functions: the chaining key is not written back, and the
\* session keys come from the initiation alone.
ResponseTranscriptStale(C, H, er, dh_ee, ss_ee, ct_ee, dh_se, ss_se, ct_se) ==
    LET C1 == MixKey(MixKey(MixKey(C, er), dh_ee), ss_ee)
        C2 == MixKey(MixKey(MixKey(C1, dh_se), ss_se), Psk)
        H1 == MixHash(MixHash(MixHash(H, er), ct_ee), ct_se)
    IN  [C |-> C, H |-> MixHash(H1, KdfOutput(C2, 2)), key |-> KdfOutput(C2, 3)]

\* Steps 5-11 of ConsumeMessageResponse and 2-8 of CreateMessageResponse mix
\* the same things: the ephemeral key er, two DH results, two KEM secrets
\* with their ciphertexts, and the preshared key.
ResponseTranscript(C, H, er, dh_ee, ss_ee, ct_ee, dh_se, ss_se, ct_se) ==
    LET C1 == MixKey(MixKey(MixKey(C, er), dh_ee), ss_ee)
        C2 == MixKey(MixKey(MixKey(C1, dh_se), ss_se), Psk)
        H1 == MixHash(MixHash(MixHash(H, er), ct_ee), ct_se)
    IN  [C |-> C2, H |-> MixHash(H1, KdfOutput(C2, 2)), key |-> KdfOutput(C2, 3)]

\* ResponseMsg with its wire format.
ResponseMsg(i, receiver_index, er, ct_ee, ct_se, enc) ==
    [type |-> "response", sender_index |-> i, receiver_index |-> receiver_index,
     er |-> er, ct_ee |-> ct_ee, ct_se |-> ct_se, enc_empty |-> enc]

CreateMessageResponse(q) ==
    /\ rhs[q].state = "InitiationConsumed"
    /\ fresh - initiations < MaxResponses
    /\ fresh' = fresh + 1
    /\ \E i \in NewIndex(rtable) :
         LET h == rhs[q]
             er == EphemeralX(fresh')
             ct_ee == Encapsulate(h.remote.ek, fresh')
             ct_se == Encapsulate(h.remote.sk, fresh')
             t == ResponseTranscript(h.C, h.H, er,
                      DH(er, h.remote.ex), KemSecret(ct_ee), ct_ee,
                      DH(er, h.remote.sx), KemSecret(ct_se), ct_se)
             enc == Encrypt(t.key, t.H, "empty")
         IN  /\ rtable' = Register(rtable, i, q)
             /\ rhs' = [rhs EXCEPT ![q] = [@ EXCEPT !.state = "ResponseCreated",
                            !.C = t.C, !.H = MixCiphertext(t.H, enc),
                            !.local_index = i]]
             /\ net' = net \cup {ResponseMsg(i, h.remote_index, er, ct_ee, ct_se, enc)}
    /\ UNCHANGED <<stamps, initiations, ihs, itable, ikeys, rkeys, recent, commits,
                   idone, rdone>>

\* What initiator p computes from response m.
AnsweredTranscript(p, m) ==
    LET e == EphemeralX(ihs[p].ephemeral) IN
    ResponseTranscript(ihs[p].C, ihs[p].H, m.er,
        DH(e, m.er), Decapsulate(EphemeralK(ihs[p].ephemeral), m.ct_ee), m.ct_ee,
        DH(StaticX(p), m.er), Decapsulate(StaticK(p), m.ct_se), m.ct_se)

\* A slip in ConsumeMessageResponse: the tag of enc_empty is not verified.
ConsumeUnverified(p, m) ==
    LET t == AnsweredTranscript(p, m) IN
    /\ m.type = "response"
    /\ itable[p][m.receiver_index].peer = p
    /\ ihs[p].state = "InitiationCreated"
    /\ ihs' = [ihs EXCEPT ![p] = [@ EXCEPT !.state = "ResponseConsumed",
                   !.C = t.C, !.H = MixCiphertext(t.H, m.enc_empty),
                   !.remote_index = m.sender_index, !.ephemeral = 0]]
    /\ UNCHANGED <<fresh, stamps, initiations, net, rhs, itable, rtable, ikeys, rkeys,
                   recent, commits, idone, rdone>>

ConsumeMessageResponse(p, m) ==
    LET t == AnsweredTranscript(p, m) IN
    /\ m.type = "response"
    /\ itable[p][m.receiver_index].peer = p
    /\ ihs[p].state = "InitiationCreated"
    /\ Decrypts(t.key, t.H, m.enc_empty)
    /\ ihs' = [ihs EXCEPT ![p] = [@ EXCEPT !.state = "ResponseConsumed",
                   !.C = t.C, !.H = MixCiphertext(t.H, m.enc_empty),
                   !.remote_index = m.sender_index, !.ephemeral = 0]]
    /\ UNCHANGED <<fresh, stamps, initiations, net, rhs, itable, rtable, ikeys, rkeys,
                   recent, commits, idone, rdone>>

-----------------------------------------------------------------------------
\* Session keys

\* The transport keys T0 and T1 of KDF2(C, empty).
T(C, i) == KdfOutput(MixKey(C, "empty"), i + 1)

\* A slip in DeriveSessionKeys: the keys are not swapped for the responder.
KeypairUnswapped(h, peer, is_initiator) ==
    [peer |-> peer, send_key |-> T(h.C, 0), receive_key |-> T(h.C, 1),
     local_index |-> h.local_index, remote_index |-> h.remote_index]

\* The keypair DeriveSessionKeys builds from handshake state h.
Keypair(h, peer, is_initiator) ==
    [peer |-> peer,
     send_key |-> T(h.C, IF is_initiator THEN 0 ELSE 1),
     receive_key |-> T(h.C, IF is_initiator THEN 1 ELSE 0),
     local_index |-> h.local_index, remote_index |-> h.remote_index]

\* The cleanup at the end of DeriveSessionKeys: last_timestamp, the indices
\* and the remote keys stay.
Wipe(h) == [h EXCEPT !.state = "Zeroed", !.C = <<>>, !.H = <<>>, !.ephemeral = 0]

\* KeypairManager::SetCurrent, SetNext and PromoteNext.  A slot holds the
\* local index of its keypair.
SetCurrent(slots, kp) == [slots EXCEPT !.previous = slots.current, !.current = kp]
SetNext(slots, kp) == [slots EXCEPT !.next = kp]
Promote(slots) ==
    [previous |-> slots.current, current |-> slots.next, next |-> None]

\* DeriveSessionKeys(peer, table, true)
DeriveInitiator(p) ==
    /\ ihs[p].state = "ResponseConsumed"
    /\ idone' = idone \cup {Keypair(ihs[p], p, TRUE)}
    /\ itable' = [itable EXCEPT ![p] = SwapHandshakeToKeypair(@, ihs[p].local_index)]
    /\ ikeys' = [ikeys EXCEPT ![p] = SetCurrent(@, ihs[p].local_index)]
    /\ ihs' = [ihs EXCEPT ![p] = Wipe(@)]
    /\ UNCHANGED <<fresh, stamps, initiations, net, rhs, rtable, rkeys, recent,
                   commits, rdone>>

\* DeriveSessionKeys(peer, table, false)
DeriveResponder(q) ==
    /\ rhs[q].state = "ResponseCreated"
    /\ rdone' = rdone \cup {Keypair(rhs[q], rhs[q].remote.sx, FALSE)}
    /\ rtable' = SwapHandshakeToKeypair(rtable, rhs[q].local_index)
    /\ rkeys' = [rkeys EXCEPT ![q] = SetNext(@, rhs[q].local_index)]
    /\ rhs' = [rhs EXCEPT ![q] = Wipe(@)]
    /\ UNCHANGED <<fresh, stamps, initiations, net, ihs, itable, ikeys, recent,
                   commits, idone>>

\* KeypairManager::PromoteNext, when the responder opens the first packet
\* under the next keypair.
PromoteNext(q) ==
    /\ rkeys[q].next # None
    /\ rkeys' = [rkeys EXCEPT ![q] = Promote(@)]
    /\ UNCHANGED <<fresh, stamps, initiations, net, ihs, rhs, itable, rtable, ikeys,
                   recent, commits, idone, rdone>>

Next ==
    \E p \in Initiator :
        \/ CreateMessageInitiation(p)
        \/ \E m \in net : ConsumeMessageInitiation(p, m)
        \/ RateElapses(p)
        \/ CreateMessageResponse(p)
        \/ \E m \in net : ConsumeMessageResponse(p, m)
        \/ DeriveInitiator(p)
        \/ DeriveResponder(p)
        \/ PromoteNext(p)

Spec == Init /\ [][Next]_vars

-----------------------------------------------------------------------------
\* The two ends of a session agree: an initiator and a responder keypair
\* that share one key share both, crossed, with crossed indices, and the
\* responder attributes the session to that initiator (DeriveSessionKeys:
\* "initiator sends on T0, receives on T1; responder is swapped").
KeyAgreement ==
    \A i \in idone, r \in rdone :
        {i.send_key, i.receive_key} \cap {r.send_key, r.receive_key} # {} =>
            /\ i.send_key = r.receive_key
            /\ i.receive_key = r.send_key
            /\ i.local_index = r.remote_index
            /\ i.remote_index = r.local_index
            /\ r.peer = StaticX(i.peer)

\* No two sessions of one side share a key or, on one host, an index.
SessionsDistinct ==
    /\ \A i, j \in idone :
         i.send_key = j.send_key \/ (i.peer = j.peer /\ i.local_index = j.local_index)
             => i = j
    /\ \A i, j \in rdone :
         i.send_key = j.send_key \/ i.local_index = j.local_index => i = j

\* ConsumeMessageInitiation commits an initiation at most once on a Peer it
\* keeps: repeated or overtaken initiations are refused ("timestamp must be
\* strictly greater than last seen").
ConsumedOnce ==
    \A i, j \in DOMAIN commits : commits[i] = commits[j] => i = j

\* Until the Peer that the responder keeps for initiator p has consumed it, the
\* initiation p has pending is newer than all it consumed, whatever the clock
\* of p did: no honest initiation is refused as a replay.
PendingStillFresh ==
    \A p \in Initiator \ OpenPeers :
        /\ ihs[p].state = "InitiationCreated"
        /\ \A i \in DOMAIN commits : commits[i] # [peer |-> p, n |-> ihs[p].ephemeral]
        => Precedes(rhs[p].last_timestamp, stamps[p])

\* An initiator that holds another static key than the responder's, be it only
\* the ML-KEM key, which decapsulation does not report, never completes a
\* handshake, on either side.
MisconfiguredNeverConnects ==
    /\ \A i \in idone : i.peer \notin WrongX \cup WrongK
    /\ \A r \in rdone, p \in WrongX \cup WrongK : r.peer # StaticX(p)

\* The index of a handshake in progress stays registered to its Peer, and a
\* keypair in a slot has its entry swapped: no function finds its own index
\* taken over by another handshake on the same host.
IndicesRegistered ==
    /\ \A p \in Initiator :
         /\ ihs[p].state # "Zeroed" =>
                itable[p][ihs[p].local_index] = [peer |-> p, keypair |-> FALSE]
         /\ rhs[p].state = "ResponseCreated" =>
                rtable[rhs[p].local_index] = [peer |-> p, keypair |-> FALSE]
         /\ \A i \in {ikeys[p].current, ikeys[p].previous} \ {None} :
                itable[p][i].keypair
         /\ \A i \in {rkeys[p].current, rkeys[p].previous, rkeys[p].next} \ {None} :
                rtable[i] = [peer |-> p, keypair |-> TRUE]

\* The initiations that were sent, those the responder answered (an answer
\* is tied to its initiation by the KEM ciphertext for the initiation's
\* ephemeral key), and those an initiator completed.
Offers == {m.n : m \in {x \in net : x.type = "initiation"}}
Answered == {m.ct_ee.pk[2] : m \in {x \in net : x.type = "response"}}
Agreed == {i.send_key.chain[1][2] : i \in idone}
Pending ==
    [p \in Initiator |-> IF ihs[p].state = "Zeroed" THEN 0 ELSE ihs[p].C[1][2]]

KeyExchange == INSTANCE KeyExchange
    WITH offers <- Offers, answered <- Answered, agreed <- Agreed, pending <- Pending

\* The handshake implements the abstract key exchange: only initiations that
\* were sent are answered, and an initiator completes only the initiation it
\* has pending, once, and only if it was answered.
ImplementsKeyExchange == KeyExchange!Spec
=============================================================================
