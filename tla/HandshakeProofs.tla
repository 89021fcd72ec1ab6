-------------------------- MODULE HandshakeProofs --------------------------
(***************************************************************************)
(* Proofs about Handshake and the stamps it uses: for all initiators,      *)
(* indices and bounds, its safety invariants hold and it implements the    *)
(* abstract key exchange.                                                  *)
(***************************************************************************)
EXTENDS Handshake, TLAPS

-----------------------------------------------------------------------------
\* Stamps

\* Tai64nStamp::operator++ stays well formed across its carry, and moves the
\* stamp on.
LEMMA IncrementLater ==
    ASSUME NEW s \in Stamp
    PROVE  Increment(s) \in Stamp /\ Precedes(s, Increment(s))
BY NanosAssumption DEF Stamp, Increment, Precedes

\* The division of a clock reading into seconds and nanoseconds.
LEMMA StampOfWellFormed ==
    ASSUME NEW t \in Nat
    PROVE  StampOf(t) \in Stamp
<1>1. t \div kNanos \in Nat /\ t % kNanos \in 0 .. (kNanos - 1)
  BY NanosAssumption
<1> QED BY <1>1 DEF StampOf, Stamp

\* Tai64n::Now returns a well-formed stamp later than the one before it,
\* whatever the clock reads: it may stand still or be set back, and the last
\* stamp may be at the end of its second.
THEOREM NowLater ==
    ASSUME NEW last \in Stamp, NEW t \in Nat
    PROVE  Now(last, t) \in Stamp /\ Precedes(last, Now(last, t))
BY IncrementLater, StampOfWellFormed DEF Now

\* The byte order of stamps is a strict total order that begins with zero.
LEMMA StampOrder ==
    /\ ZeroStamp \in Stamp
    /\ \A a \in Stamp : ~Precedes(a, a) /\ ~Precedes(a, ZeroStamp)
    /\ \A a, b \in Stamp : a = b \/ Precedes(a, b) \/ Precedes(b, a)
    /\ \A a, b, c \in Stamp : Precedes(a, b) /\ Precedes(b, c) => Precedes(a, c)
BY NanosAssumption DEF Stamp, ZeroStamp, Precedes

-----------------------------------------------------------------------------
\* Terms

\* s is a sequence of k inputs.
Inputs(s, k) == k \in Nat /\ s = [i \in 1 .. k |-> s[i]]

\* Mixing an input in keeps those before it.
LEMMA MixKeyKeeps ==
    ASSUME NEW s, NEW k, Inputs(s, k), NEW x
    PROVE  /\ Inputs(MixKey(s, x), k + 1)
           /\ \A i \in 1 .. k : MixKey(s, x)[i] = s[i]
           /\ MixKey(s, x)[k + 1] = x
<1> DEFINE S == {s[i] : i \in 1 .. k} \cup {x}
<1>1. k \in Nat BY DEF Inputs
<1>2. s \in [1 .. k -> S] BY DEF Inputs
<1>3. s \in Seq(S) /\ x \in S BY <1>1, <1>2
<1>4. Len(s) = k BY <1>1, <1>2, <1>3
<1> HIDE DEF S
<1>5. Append(s, x) \in Seq(S) /\ Len(Append(s, x)) = k + 1 BY <1>3, <1>4
<1>6. Append(s, x) = [i \in 1 .. (k + 1) |-> Append(s, x)[i]]
  <2> DEFINE t == Append(s, x)
  <2>1. t \in Seq(S) /\ Len(t) = k + 1 BY <1>5
  <2> HIDE DEF t
  <2>2. t \in [1 .. (k + 1) -> S] BY <2>1
  <2>3. t = [i \in 1 .. (k + 1) |-> t[i]] BY <2>2
  <2> QED BY <2>3 DEF t
<1>7. /\ \A i \in 1 .. k : Append(s, x)[i] = s[i]
      /\ Append(s, x)[k + 1] = x
  BY <1>1, <1>3, <1>4
<1> QED BY <1>1, <1>6, <1>7 DEF Inputs, MixKey

\* The chaining key after initiation n of initiator p.
OfferChain(p, n) ==
    MixKey(MixKey(MixKey(
        <<EphemeralX(n), EphemeralK(n), DH(EphemeralX(n), RemoteX(p))>>,
        KemSecret(Encapsulate(RemoteK(p), n))), "empty"),
        DH(StaticX(p), RemoteX(p)))

\* The chaining key after message 2, from the one before it.
Mixed(C, er, dh_ee, ss_ee, dh_se, ss_se) ==
    MixKey(MixKey(MixKey(MixKey(MixKey(MixKey(C, er), dh_ee), ss_ee), dh_se), ss_se), Psk)

\* The chaining key after the response with fresh value r to initiation n of p.
AnswerChain(p, n, r) ==
    Mixed(OfferChain(p, n), EphemeralX(r),
          DH(EphemeralX(r), EphemeralX(n)), KemSecret(Encapsulate(EphemeralK(n), r)),
          DH(EphemeralX(r), StaticX(p)), KemSecret(Encapsulate(StaticK(p), r)))

\* Terms of the same form have the same parts.
LEMMA TermsDiffer ==
    /\ \A a, b : StaticX(a) = StaticX(b) => a = b
    /\ \A a : StaticX(a)[2] = a
    /\ \A a, b : EphemeralX(a) = EphemeralX(b) => a = b
    /\ \A a : EphemeralX(a)[2] = a /\ EphemeralK(a)[2] = a
BY DEF StaticX, EphemeralX, EphemeralK

\* The first input to the chaining key of an initiation.
LEMMA OfferFirst ==
    ASSUME NEW p, NEW n
    PROVE  Inputs(OfferChain(p, n), 6) /\ OfferChain(p, n)[1] = EphemeralX(n)
<1> DEFINE C0 == <<EphemeralX(n), EphemeralK(n), DH(EphemeralX(n), RemoteX(p))>>
           C1 == MixKey(C0, KemSecret(Encapsulate(RemoteK(p), n)))
           C2 == MixKey(C1, "empty")
           C3 == MixKey(C2, DH(StaticX(p), RemoteX(p)))
<1>1. Inputs(C0, 3) /\ C0[1] = EphemeralX(n) BY DEF Inputs
<1> HIDE DEF C0
<1>2. Inputs(C1, 4) /\ C1[1] = EphemeralX(n) BY <1>1, MixKeyKeeps, 3 + 1 = 4
<1> HIDE DEF C1
<1>3. Inputs(C2, 5) /\ C2[1] = EphemeralX(n) BY <1>2, MixKeyKeeps, 4 + 1 = 5
<1> HIDE DEF C2
<1>4. Inputs(C3, 6) /\ C3[1] = EphemeralX(n) BY <1>3, MixKeyKeeps, 5 + 1 = 6
<1> QED BY <1>4 DEF C0, C1, C2, C3, OfferChain

\* Message 2 keeps the first input, and its ephemeral key is the seventh.
LEMMA MixedFirst ==
    ASSUME NEW C, Inputs(C, 6), NEW er, NEW dh_ee, NEW ss_ee, NEW dh_se, NEW ss_se
    PROVE  LET D == Mixed(C, er, dh_ee, ss_ee, dh_se, ss_se)
           IN  Inputs(D, 12) /\ D[1] = C[1] /\ D[7] = er
<1> DEFINE D1 == MixKey(C, er)
           D2 == MixKey(D1, dh_ee)
           D3 == MixKey(D2, ss_ee)
           D4 == MixKey(D3, dh_se)
           D5 == MixKey(D4, ss_se)
           D6 == MixKey(D5, Psk)
<1>1. Inputs(D1, 7) /\ D1[1] = C[1] /\ D1[7] = er BY MixKeyKeeps, 6 + 1 = 7
<1> HIDE DEF D1
<1>2. Inputs(D2, 8) /\ D2[1] = C[1] /\ D2[7] = er BY <1>1, MixKeyKeeps, 7 + 1 = 8
<1> HIDE DEF D2
<1>3. Inputs(D3, 9) /\ D3[1] = C[1] /\ D3[7] = er BY <1>2, MixKeyKeeps, 8 + 1 = 9
<1> HIDE DEF D3
<1>4. Inputs(D4, 10) /\ D4[1] = C[1] /\ D4[7] = er BY <1>3, MixKeyKeeps, 9 + 1 = 10
<1> HIDE DEF D4
<1>5. Inputs(D5, 11) /\ D5[1] = C[1] /\ D5[7] = er BY <1>4, MixKeyKeeps, 10 + 1 = 11
<1> HIDE DEF D5
<1>6. Inputs(D6, 12) /\ D6[1] = C[1] /\ D6[7] = er BY <1>5, MixKeyKeeps, 11 + 1 = 12
<1> QED BY <1>6 DEF D1, D2, D3, D4, D5, D6, Mixed

\* A chaining key after message 2 tells both fresh values.
LEMMA AnswerFirst ==
    ASSUME NEW p, NEW n, NEW r
    PROVE  /\ Inputs(AnswerChain(p, n, r), 12)
           /\ AnswerChain(p, n, r)[1] = EphemeralX(n)
           /\ AnswerChain(p, n, r)[7] = EphemeralX(r)
BY OfferFirst, MixedFirst DEF AnswerChain

\* So does a transport key.
LEMMA TransportKey ==
    ASSUME NEW p, NEW n, NEW r, NEW i \in {0, 1}
    PROVE  /\ T(AnswerChain(p, n, r), i).chain[1] = EphemeralX(n)
           /\ T(AnswerChain(p, n, r), i).chain[7] = EphemeralX(r)
           /\ T(AnswerChain(p, n, r), i).out = i + 1
<1> DEFINE C == AnswerChain(p, n, r)
<1>1. Inputs(C, 12) /\ C[1] = EphemeralX(n) /\ C[7] = EphemeralX(r) BY AnswerFirst
<1> HIDE DEF C
<1>2. MixKey(C, "empty")[1] = EphemeralX(n) /\ MixKey(C, "empty")[7] = EphemeralX(r)
  BY <1>1, MixKeyKeeps
<1>3. T(C, i).chain = MixKey(C, "empty") /\ T(C, i).out = i + 1 BY DEF T, KdfOutput
<1> QED BY <1>2, <1>3 DEF C

-----------------------------------------------------------------------------
\* The inductive invariant

Entry == [peer : Initiator \cup {None}, keypair : BOOLEAN]
Slot == Index \cup {None}
Slots == [current : Slot, previous : Slot, next : Slot]
HandshakeFields ==
    {"state", "C", "H", "ephemeral", "remote", "local_index", "remote_index",
     "last_timestamp"}

\* Types, as far as the proofs need them.  Chaining keys and hashes are terms
\* and have none.
TypeInv ==
    /\ fresh \in Nat /\ initiations \in Nat
    /\ stamps \in [Initiator -> Stamp]
    /\ DOMAIN ihs = Initiator /\ DOMAIN rhs = Initiator
    /\ \A p \in Initiator :
         /\ DOMAIN ihs[p] = HandshakeFields
         /\ ihs[p].state \in {"Zeroed", "InitiationCreated", "ResponseConsumed"}
         /\ ihs[p].state # "Zeroed" => ihs[p].local_index \in Index
         /\ DOMAIN rhs[p] = HandshakeFields
         /\ rhs[p].state \in {"Zeroed", "InitiationConsumed", "ResponseCreated"}
         /\ rhs[p].state = "ResponseCreated" => rhs[p].local_index \in Index
         /\ rhs[p].last_timestamp \in Stamp
    /\ itable \in [Initiator -> [Index -> Entry]]
    /\ rtable \in [Index -> Entry]
    /\ ikeys \in [Initiator -> Slots]
    /\ rkeys \in [Initiator -> Slots]
    /\ recent \in [Initiator -> BOOLEAN]

Initiations == {m \in net : m.type = "initiation"}
Responses == {m \in net : m.type = "response"}

\* What an initiation says, to whoever can open it.
Sender(m) == m.enc_x.plaintext[2]
SentAt(m) == m.enc_t.plaintext

\* The fresh value of a response.
Salt(m) == m.ct_ee.r

\* m is what CreateMessageInitiation makes.
Formed(m) ==
    m = InitiationMsg(m.sender_index, m.n,
                      InitiationTranscript(Sender(m), m.n, SentAt(m)))

\* Response m answers initiation x, which was made for this responder.
Answers(m, x) ==
    /\ Sender(x) \notin WrongX \cup WrongK
    /\ m.receiver_index = x.sender_index
    /\ m.ct_ee = Encapsulate(EphemeralK(x.n), Salt(m))
    /\ m.enc_empty.key = KdfOutput(AnswerChain(Sender(x), x.n, Salt(m)), 3)

\* The messages: initiations are told apart by their fresh value, by their
\* index and by their stamp, responses by their fresh value and their index,
\* and the indices are in the tables.
InitiationsInv ==
    /\ \A m \in Initiations :
         /\ Sender(m) \in Initiator /\ SentAt(m) \in Stamp
         /\ m.sender_index \in Index /\ m.n \in 1 .. fresh
         /\ Formed(m)
         /\ SentAt(m) = stamps[Sender(m)] \/ Precedes(SentAt(m), stamps[Sender(m)])
         /\ Precedes(ZeroStamp, SentAt(m))
         /\ itable[Sender(m)][m.sender_index].peer # None
    /\ \A m, x \in Initiations :
         \/ m.n = x.n
         \/ /\ Sender(m) = Sender(x)
            /\ m.sender_index = x.sender_index \/ SentAt(m) = SentAt(x)
         => m = x

ResponsesInv ==
    /\ \A m \in Responses :
         /\ m.sender_index \in Index /\ Salt(m) \in 1 .. fresh
         /\ rtable[m.sender_index].peer # None
         /\ \E x \in Initiations : Answers(m, x)
    /\ \A m, x \in Responses :
         m.sender_index = x.sender_index \/ Salt(m) = Salt(x) => m = x

\* An initiator's handshake is its last initiation, or a response to it.
InitiatorInv ==
    \A p \in Initiator :
        /\ ihs[p].state = "InitiationCreated" =>
             \E x \in Initiations :
                /\ Sender(x) = p /\ x.n = ihs[p].ephemeral
                /\ SentAt(x) = stamps[p]
                /\ x.sender_index = ihs[p].local_index
                /\ ihs[p].C = OfferChain(p, x.n)
        /\ ihs[p].state = "ResponseConsumed" =>
             \E x \in Initiations, m \in Responses :
                /\ Answers(m, x) /\ Sender(x) = p
                /\ x.sender_index = ihs[p].local_index
                /\ m.sender_index = ihs[p].remote_index
                /\ ihs[p].C = AnswerChain(p, x.n, Salt(m))

\* A Peer of the responder has consumed an initiation, or answered it.
ResponderInv ==
    \A q \in Initiator :
        /\ rhs[q].state = "InitiationConsumed" =>
             \E x \in Initiations :
                /\ Sender(x) \notin WrongX \cup WrongK
                /\ x.sender_index = rhs[q].remote_index
                /\ rhs[q].C = OfferChain(Sender(x), x.n)
                /\ rhs[q].remote = [ex |-> EphemeralX(x.n), ek |-> EphemeralK(x.n),
                                    sx |-> StaticX(Sender(x)), sk |-> StaticK(Sender(x))]
        /\ rhs[q].state = "ResponseCreated" =>
             \E x \in Initiations, m \in Responses :
                /\ Answers(m, x)
                /\ m.sender_index = rhs[q].local_index
                /\ x.sender_index = rhs[q].remote_index
                /\ rhs[q].C = AnswerChain(Sender(x), x.n, Salt(m))
                /\ rhs[q].remote.sx = StaticX(Sender(x))

\* The two ends of the session of response m to initiation x.
InitiatorEnd(x, m) ==
    [peer |-> Sender(x),
     send_key |-> T(AnswerChain(Sender(x), x.n, Salt(m)), 0),
     receive_key |-> T(AnswerChain(Sender(x), x.n, Salt(m)), 1),
     local_index |-> x.sender_index, remote_index |-> m.sender_index]
ResponderEnd(x, m) ==
    [peer |-> StaticX(Sender(x)),
     send_key |-> T(AnswerChain(Sender(x), x.n, Salt(m)), 1),
     receive_key |-> T(AnswerChain(Sender(x), x.n, Salt(m)), 0),
     local_index |-> m.sender_index, remote_index |-> x.sender_index]

\* Keypairs are ends of sessions, and an initiation that is completed is not
\* in progress any more: its initiator has no second keypair from it.
KeypairsInv ==
    /\ \A k \in idone :
         \E x \in Initiations, m \in Responses : Answers(m, x) /\ k = InitiatorEnd(x, m)
    /\ \A k \in rdone :
         \E x \in Initiations, m \in Responses : Answers(m, x) /\ k = ResponderEnd(x, m)
    /\ \A k, l \in idone : k.send_key.chain[1] = l.send_key.chain[1] => k = l
    /\ \A k \in idone, p \in Initiator :
         ihs[p].state # "Zeroed" => k.send_key.chain[1] # ihs[p].C[1]

\* No committed initiation is later than its Peer's last timestamp, which a
\* Peer that knows its initiator has from a committed initiation of that one.
CommitsInv ==
    /\ commits \in Seq([peer : Initiator, n : Nat])
    /\ \A i, j \in DOMAIN commits : commits[i] = commits[j] => i = j
    /\ \A i \in DOMAIN commits :
         \E x \in Initiations :
            /\ x.n = commits[i].n
            /\ ~Precedes(rhs[commits[i].peer].last_timestamp, SentAt(x))
    /\ \A p \in Initiator \ OpenPeers :
         \/ rhs[p].last_timestamp = ZeroStamp
         \/ \E x \in Initiations, i \in DOMAIN commits :
               /\ Sender(x) = p /\ SentAt(x) = rhs[p].last_timestamp
               /\ commits[i] = [peer |-> p, n |-> x.n]

IInv ==
    /\ TypeInv /\ InitiationsInv /\ ResponsesInv /\ InitiatorInv /\ ResponderInv
    /\ KeypairsInv /\ CommitsInv /\ IndicesRegistered

-----------------------------------------------------------------------------
\* Messages

\* The parts of an initiation that the proofs use.
LEMMA InitiationParts ==
    ASSUME NEW i, NEW p, NEW n, NEW ts, NEW x,
           x = InitiationMsg(i, n, InitiationTranscript(p, n, ts))
    PROVE  /\ x.type = "initiation" /\ x.sender_index = i /\ x.n = n
           /\ Sender(x) = p /\ SentAt(x) = ts /\ Formed(x)
<1> DEFINE t == InitiationTranscript(p, n, ts)
<1>1. t.enc_x.plaintext = StaticX(p) /\ t.enc_t.plaintext = ts
  BY DEF InitiationTranscript, Encrypt
<1>2. x = InitiationMsg(i, n, t) OBVIOUS
<1> HIDE DEF t
<1>3. /\ x.type = "initiation" /\ x.sender_index = i /\ x.n = n
      /\ x.enc_x = t.enc_x /\ x.enc_t = t.enc_t
  BY <1>2 DEF InitiationMsg
<1>4. Sender(x) = p /\ SentAt(x) = ts
  BY <1>1, <1>3, TermsDiffer DEF Sender, SentAt
<1>5. Formed(x) BY <1>2, <1>3, <1>4 DEF Formed, t
<1> QED BY <1>1, <1>3, <1>4, <1>5

\* The parts that a responder uses.
LEMMA FormedParts ==
    ASSUME NEW x, Formed(x), NEW X, X = RemoteX(Sender(x)), NEW K, K = RemoteK(Sender(x))
    PROVE  /\ x.ex = EphemeralX(x.n) /\ x.ek = EphemeralK(x.n)
           /\ x.ct = Encapsulate(K, x.n)
           /\ x.enc_x.plaintext = StaticX(Sender(x))
           /\ x.enc_k.plaintext = StaticK(Sender(x))
           /\ x.enc_x.key =
                KdfOutput(<<EphemeralX(x.n), EphemeralK(x.n), DH(EphemeralX(x.n), X)>>, 2)
           /\ x.enc_x.ad = <<X, K, x.ex, x.ek, x.ct>>
<1> DEFINE p == Sender(x)
           n == x.n
           t == InitiationTranscript(p, n, SentAt(x))
<1>1. x = InitiationMsg(x.sender_index, n, t) BY DEF Formed
<1> HIDE DEF p, n
<1>2. /\ t.ct = Encapsulate(K, n)
      /\ t.enc_x.plaintext = StaticX(p) /\ t.enc_k.plaintext = StaticK(p)
      /\ t.enc_x.key = KdfOutput(<<EphemeralX(n), EphemeralK(n), DH(EphemeralX(n), X)>>, 2)
      /\ t.enc_x.ad = <<X, K, EphemeralX(n), EphemeralK(n), t.ct>>
  BY DEF InitiationTranscript, Encrypt, p
<1> HIDE DEF t
<1>3. /\ x.ex = EphemeralX(n) /\ x.ek = EphemeralK(n)
      /\ x.ct = t.ct /\ x.enc_x = t.enc_x /\ x.enc_k = t.enc_k
  BY <1>1 DEF InitiationMsg
<1> QED BY <1>2, <1>3 DEF p, n

\* The chaining key after an initiation does not depend on its stamp.
LEMMA OfferChainIs ==
    ASSUME NEW p, NEW n, NEW ts
    PROVE  InitiationTranscript(p, n, ts).C = OfferChain(p, n)
BY DEF InitiationTranscript, OfferChain

\* A responder that opens an initiation is the one it was made for, and has
\* the same chaining key.
LEMMA Received ==
    ASSUME NEW m, Formed(m), Sender(m) \in Initiator, ReceivedTranscript(m).ok
    PROVE  /\ Sender(m) \notin WrongX \cup WrongK
           /\ ReceivedTranscript(m).C = OfferChain(Sender(m), m.n)
           /\ m.ex = EphemeralX(m.n) /\ m.ek = EphemeralK(m.n)
           /\ m.enc_x.plaintext = StaticX(Sender(m))
           /\ m.enc_k.plaintext = StaticK(Sender(m))
<1> DEFINE p == Sender(m)
           n == m.n
           X == RemoteX(p)
           K == RemoteK(p)
<1>1. /\ m.ex = EphemeralX(n) /\ m.ek = EphemeralK(n)
      /\ m.ct = Encapsulate(K, n)
      /\ m.enc_x.plaintext = StaticX(p) /\ m.enc_k.plaintext = StaticK(p)
      /\ m.enc_x.key = KdfOutput(<<EphemeralX(n), EphemeralK(n), DH(EphemeralX(n), X)>>, 2)
      /\ m.enc_x.ad = <<X, K, m.ex, m.ek, m.ct>>
  BY FormedParts
<1>0. /\ X = StaticX(IF p \in WrongX THEN None ELSE Responder)
      /\ K = StaticK(IF p \in WrongK THEN None ELSE Responder)
  BY DEF RemoteX, RemoteK
<1> HIDE DEF p, n, X, K
<1> DEFINE C1 == <<m.ex, m.ek, DH(StaticX(Responder), m.ex)>>
<1>2. /\ m.enc_x.key = KdfOutput(C1, 2)
      /\ m.enc_x.ad = <<StaticX(Responder), StaticK(Responder), m.ex, m.ek, m.ct>>
  BY DEF ReceivedTranscript, Decrypts
<1>3. C1 = <<EphemeralX(n), EphemeralK(n), DH(EphemeralX(n), X)>>
  BY <1>1, <1>2 DEF KdfOutput
<1>5. X = StaticX(Responder) /\ K = StaticK(Responder)
  BY <1>1, <1>2
<1>7. p \notin WrongX \cup WrongK
  BY <1>0, <1>5, HandshakeAssumption DEF StaticX, StaticK
<1>8. Decapsulate(StaticK(Responder), m.ct) = KemSecret(Encapsulate(K, n))
  BY <1>1, <1>5 DEF Decapsulate, Encapsulate
<1>9. DH(StaticX(Responder), m.enc_x.plaintext) = DH(StaticX(p), X)
  BY <1>1, <1>5 DEF DH
<1>10. ReceivedTranscript(m).C
       = MixKey(MixKey(MixKey(C1, Decapsulate(StaticK(Responder), m.ct)), "empty"),
                DH(StaticX(Responder), m.enc_x.plaintext))
  BY DEF ReceivedTranscript
<1>11. ReceivedTranscript(m).C = OfferChain(p, n)
  BY <1>3, <1>8, <1>9, <1>10 DEF OfferChain, X, K
<1> QED BY <1>1, <1>7, <1>11 DEF p, n

\* What both functions of message 2 compute.
LEMMA ResponseTranscriptIs ==
    ASSUME NEW C, NEW H, NEW er, NEW dh_ee, NEW ss_ee, NEW ct_ee, NEW dh_se, NEW ss_se,
           NEW ct_se
    PROVE  LET t == ResponseTranscript(C, H, er, dh_ee, ss_ee, ct_ee, dh_se, ss_se, ct_se)
           IN  /\ t.C = Mixed(C, er, dh_ee, ss_ee, dh_se, ss_se)
               /\ t.key = KdfOutput(t.C, 3)
BY DEF ResponseTranscript, Mixed

\* A response that opens was made for the initiation that is in progress, and
\* initiator and responder have the same chaining key.
LEMMA Opened ==
    ASSUME NEW p, NEW n, ihs[p].C = OfferChain(p, n),
           NEW m, NEW x, Answers(m, x),
           Decrypts(AnsweredTranscript(p, m).key, AnsweredTranscript(p, m).H, m.enc_empty)
    PROVE  /\ x.n = n
           /\ AnsweredTranscript(p, m).C = AnswerChain(Sender(x), x.n, Salt(m))
<1> DEFINE t == AnsweredTranscript(p, m)
           D == AnswerChain(Sender(x), x.n, Salt(m))
<1>1. /\ t.key = KdfOutput(t.C, 3)
      /\ \E dh_ee, ss_ee, dh_se, ss_se :
            t.C = Mixed(OfferChain(p, n), m.er, dh_ee, ss_ee, dh_se, ss_se)
  BY ResponseTranscriptIs DEF AnsweredTranscript
<1>2. t.C[1] = EphemeralX(n)
  BY <1>1, OfferFirst, MixedFirst
<1>3. KdfOutput(t.C, 3) = KdfOutput(D, 3)
  BY <1>1 DEF Decrypts, Answers
<1>4. t.C = D BY <1>3 DEF KdfOutput
<1>5. D[1] = EphemeralX(x.n) BY AnswerFirst
<1> QED BY <1>2, <1>4, <1>5, TermsDiffer

-----------------------------------------------------------------------------
\* The steps

\* An index that NewIndex gives is free, and registering it frees none.
LEMMA Registered ==
    ASSUME NEW table \in [Index -> Entry], NEW i \in NewIndex(table), NEW peer \in Initiator
    PROVE  /\ i \in Index /\ table[i].peer = None /\ ~table[i].keypair
           /\ Register(table, i, peer) \in [Index -> Entry]
           /\ Register(table, i, peer)[i] = [peer |-> peer, keypair |-> FALSE]
           /\ \A j \in Index : j # i => Register(table, i, peer)[j] = table[j]
BY DEF NewIndex, Register, FreeEntry, Entry

\* CreateMessageInitiation keeps the invariant: its fresh value, index and
\* stamp are new.
LEMMA CreateInitiationStep ==
    ASSUME IInv, NEW p \in Initiator, CreateMessageInitiation(p)
    PROVE  IInv'
<1> DEFINE n == fresh + 1
           ts == stamps'[p]
<1> USE DEF IInv
<1>1. /\ fresh' = n /\ initiations' = initiations + 1
      /\ UNCHANGED <<rhs, rtable, ikeys, rkeys, recent, commits, idone, rdone>>
  BY DEF CreateMessageInitiation
<1>2. PICK reading \in 0 .. MaxClock : stamps' = [stamps EXCEPT ![p] = Now(@, reading)]
  BY DEF CreateMessageInitiation
<1>3. PICK i \in NewIndex(itable[p]) :
        LET t == InitiationTranscript(p, n, ts)
        IN  /\ itable' = [itable EXCEPT ![p] = Register(@, i, p)]
            /\ ihs' = [ihs EXCEPT ![p] = [@ EXCEPT !.state = "InitiationCreated",
                           !.C = t.C, !.H = t.H, !.ephemeral = n, !.local_index = i]]
            /\ net' = net \cup {InitiationMsg(i, n, t)}
  BY <1>1 DEF CreateMessageInitiation
<1> DEFINE t == InitiationTranscript(p, n, ts)
           x == InitiationMsg(i, n, t)
<1>4. n \in Nat /\ 1 <= n /\ fresh \in Nat /\ fresh < n /\ stamps[p] \in Stamp BY DEF TypeInv
<1>5. /\ ts \in Stamp /\ Precedes(stamps[p], ts) /\ Precedes(ZeroStamp, ts)
      /\ stamps' \in [Initiator -> Stamp]
      /\ \A q \in Initiator : q # p => stamps'[q] = stamps[q]
  <2>1. reading \in Nat OBVIOUS
  <2>2. ts = Now(stamps[p], reading) BY <1>2 DEF TypeInv
  <2>3. ts \in Stamp /\ Precedes(stamps[p], ts) BY <1>4, <2>1, <2>2, NowLater
  <2>4. Precedes(ZeroStamp, ts) BY <1>4, <2>3, StampOrder
  <2> QED BY <1>2, <2>3, <2>4 DEF TypeInv
<1> HIDE DEF ts
<1>6. /\ x.type = "initiation" /\ x.sender_index = i /\ x.n = n
      /\ Sender(x) = p /\ SentAt(x) = ts /\ Formed(x)
  BY InitiationParts
<1>7. t.C = OfferChain(p, n) BY OfferChainIs
<1> HIDE DEF t
<1>8. net' = net \cup {x} BY <1>3 DEF t
<1>9. DOMAIN ihs' = Initiator
  BY <1>3 DEF TypeInv
<1>10. /\ DOMAIN ihs'[p] = HandshakeFields
       /\ ihs'[p].state = "InitiationCreated" /\ ihs'[p].C = OfferChain(p, n)
       /\ ihs'[p].ephemeral = n /\ ihs'[p].local_index = i
  BY <1>3, <1>7 DEF TypeInv, HandshakeFields, t
<1>11. \A q \in Initiator : q # p => ihs'[q] = ihs[q]
  BY <1>3 DEF TypeInv
<1> HIDE DEF x
<1>12. Initiations' = Initiations \cup {x} /\ Responses' = Responses
  BY <1>6, <1>8 DEF Initiations, Responses
<1>13. /\ i \in Index /\ itable[p][i].peer = None /\ ~itable[p][i].keypair
       /\ itable'[p][i] = [peer |-> p, keypair |-> FALSE]
       /\ \A j \in Index : j # i => itable'[p][j] = itable[p][j]
       /\ \A q \in Initiator : q # p => itable'[q] = itable[q]
       /\ itable' \in [Initiator -> [Index -> Entry]]
  BY <1>3, Registered DEF TypeInv
<1>14. TypeInv'
  BY <1>1, <1>4, <1>5, <1>9, <1>10, <1>11, <1>13 DEF TypeInv
<1>15. InitiationsInv'
  <2>1. ASSUME NEW m \in Initiations
        PROVE  /\ m.n < n /\ m.n \in 1 .. fresh'
               /\ SentAt(m) = stamps'[Sender(m)] \/ Precedes(SentAt(m), stamps'[Sender(m)])
               /\ itable'[Sender(m)][m.sender_index].peer # None
               /\ Sender(m) = p => m.sender_index # i /\ SentAt(m) # ts
    <3>1. /\ Sender(m) \in Initiator /\ SentAt(m) \in Stamp /\ m.sender_index \in Index
          /\ m.n \in 1 .. fresh
          /\ SentAt(m) = stamps[Sender(m)] \/ Precedes(SentAt(m), stamps[Sender(m)])
          /\ itable[Sender(m)][m.sender_index].peer # None
      BY <2>1 DEF InitiationsInv
    <3>2. m.n < n /\ m.n \in 1 .. fresh' BY <1>1, <1>4, <3>1
    <3>3. CASE Sender(m) = p
      <4>1. Precedes(SentAt(m), ts) BY <1>4, <1>5, <3>1, <3>3, StampOrder
      <4>2. SentAt(m) # ts BY <1>5, <4>1, StampOrder
      <4>3. m.sender_index # i BY <1>13, <3>1, <3>3
      <4> QED BY <1>13, <3>1, <3>2, <3>3, <4>1, <4>2, <4>3 DEF ts
    <3>4. CASE Sender(m) # p BY <1>5, <1>13, <3>1, <3>2, <3>4
    <3> QED BY <3>3, <3>4
  <2>2. p # None BY HandshakeAssumption
  <2>3. itable'[p][i].peer # None BY <1>13, <2>2
  <2>4. /\ Sender(x) \in Initiator /\ SentAt(x) \in Stamp
        /\ x.sender_index \in Index /\ x.n \in 1 .. fresh' /\ Formed(x)
        /\ SentAt(x) = stamps'[Sender(x)]
        /\ Precedes(ZeroStamp, SentAt(x))
        /\ itable'[Sender(x)][x.sender_index].peer # None
    BY <1>1, <1>4, <1>5, <1>6, <1>13, <2>3 DEF ts
  <2>5. \A m \in Initiations' :
         /\ Sender(m) \in Initiator /\ SentAt(m) \in Stamp
         /\ m.sender_index \in Index /\ m.n \in 1 .. fresh'
         /\ Formed(m)
         /\ SentAt(m) = stamps'[Sender(m)] \/ Precedes(SentAt(m), stamps'[Sender(m)])
         /\ Precedes(ZeroStamp, SentAt(m))
         /\ itable'[Sender(m)][m.sender_index].peer # None
    BY <1>12, <2>1, <2>4 DEF InitiationsInv
  <2>6. \A m \in Initiations :
          ~(m.n = x.n \/ (Sender(m) = Sender(x)
                          /\ (m.sender_index = x.sender_index \/ SentAt(m) = SentAt(x))))
    <3> SUFFICES ASSUME NEW m \in Initiations
                 PROVE  ~(m.n = x.n \/ (Sender(m) = Sender(x)
                          /\ (m.sender_index = x.sender_index \/ SentAt(m) = SentAt(x))))
      OBVIOUS
    <3>1. m.n \in Nat /\ m.n < n BY <2>1 DEF InitiationsInv
    <3> QED BY <1>4, <1>6, <2>1, <3>1
  <2>7. \A m, y \in Initiations' :
         \/ m.n = y.n
         \/ /\ Sender(m) = Sender(y)
            /\ m.sender_index = y.sender_index \/ SentAt(m) = SentAt(y)
         => m = y
    BY <1>12, <2>6 DEF InitiationsInv
  <2> QED BY <2>5, <2>7 DEF InitiationsInv
<1>16. ResponsesInv'
  <2>1. \A m \in Responses :
         /\ m.sender_index \in Index /\ Salt(m) \in 1 .. fresh'
         /\ rtable'[m.sender_index].peer # None
         /\ \E y \in Initiations' : Answers(m, y)
    BY <1>1, <1>4, <1>12 DEF ResponsesInv
  <2> QED BY <1>12, <2>1 DEF ResponsesInv
<1>17. InitiatorInv'
  <2> SUFFICES ASSUME NEW q \in Initiator PROVE InitiatorInv!(q)'
    BY DEF InitiatorInv
  <2>1. CASE q = p
    BY <1>6, <1>10, <1>12, <2>1 DEF ts
  <2>2. CASE q # p
    BY <1>5, <1>11, <1>12, <2>2 DEF InitiatorInv
  <2> QED BY <2>1, <2>2
<1>18. ResponderInv'
  BY <1>1, <1>12 DEF ResponderInv
<1>19. KeypairsInv'
  <2>1. \A k \in idone :
         \E y \in Initiations', m \in Responses' : Answers(m, y) /\ k = InitiatorEnd(y, m)
    BY <1>12 DEF KeypairsInv
  <2>2. \A k \in rdone :
         \E y \in Initiations', m \in Responses' : Answers(m, y) /\ k = ResponderEnd(y, m)
    BY <1>12 DEF KeypairsInv
  <2>3. ASSUME NEW k \in idone PROVE k.send_key.chain[1] # EphemeralX(n)
    <3>1. PICK y \in Initiations, m \in Responses : k = InitiatorEnd(y, m)
      BY DEF KeypairsInv
    <3>2. k.send_key.chain[1] = EphemeralX(y.n)
      BY <3>1, TransportKey DEF InitiatorEnd
    <3>3. y.n \in Nat /\ y.n <= fresh BY <1>4 DEF InitiationsInv
    <3> QED BY <1>4, <3>2, <3>3, TermsDiffer
  <2>4. ihs'[p].C[1] = EphemeralX(n) BY <1>10, OfferFirst
  <2>5. \A k \in idone, q \in Initiator :
         ihs'[q].state # "Zeroed" => k.send_key.chain[1] # ihs'[q].C[1]
    BY <1>11, <2>3, <2>4 DEF KeypairsInv
  <2> QED BY <1>1, <2>1, <2>2, <2>5 DEF KeypairsInv
<1>20. CommitsInv'
  BY <1>1, <1>12 DEF CommitsInv
<1>21. IndicesRegistered'
  <2>1. \A q \in Initiator, j \in Index :
          itable[q][j].keypair => itable'[q][j].keypair
    BY <1>13
  <2>2. \A q \in Initiator : ihs'[q].state # "Zeroed" =>
          itable'[q][ihs'[q].local_index] = [peer |-> q, keypair |-> FALSE]
    <3> SUFFICES ASSUME NEW q \in Initiator, ihs'[q].state # "Zeroed"
                 PROVE  itable'[q][ihs'[q].local_index] = [peer |-> q, keypair |-> FALSE]
      OBVIOUS
    <3>1. CASE q = p BY <1>10, <1>13, <3>1
    <3>2. CASE q # p
      <4>1. ihs'[q] = ihs[q] /\ itable'[q] = itable[q] BY <1>11, <1>13, <3>2
      <4>2. itable[q][ihs[q].local_index] = [peer |-> q, keypair |-> FALSE]
        BY <4>1 DEF IndicesRegistered
      <4> QED BY <4>1, <4>2
    <3> QED BY <3>1, <3>2
  <2>3. \A q \in Initiator : {ikeys[q].current, ikeys[q].previous} \ {None} \subseteq Index
    BY DEF TypeInv, Slots, Slot
  <2> QED BY <1>1, <2>1, <2>2, <2>3 DEF IndicesRegistered
<1> QED BY <1>14, <1>15, <1>16, <1>17, <1>18, <1>19, <1>20, <1>21

\* The commits are a sequence of pairs.
LEMMA CommitsSequence ==
    ASSUME NEW S, NEW s \in Seq(S), NEW e \in S
    PROVE  /\ Len(s) \in Nat /\ DOMAIN s = 1 .. Len(s)
           /\ \A i \in DOMAIN s : s[i] \in S
           /\ Append(s, e) \in Seq(S)
           /\ DOMAIN Append(s, e) = (1 .. Len(s)) \cup {Len(s) + 1}
           /\ \A i \in 1 .. Len(s) : Append(s, e)[i] = s[i]
           /\ Append(s, e)[Len(s) + 1] = e
           /\ Len(s) + 1 \notin 1 .. Len(s)
<1>1. Len(Append(s, e)) = Len(s) + 1 /\ Append(s, e) \in Seq(S) OBVIOUS
<1>2. DOMAIN Append(s, e) = 1 .. (Len(s) + 1)
  <2> DEFINE t == Append(s, e)
  <2>1. t \in Seq(S) /\ Len(t) = Len(s) + 1 BY <1>1
  <2> HIDE DEF t
  <2>2. DOMAIN t = 1 .. Len(t) BY <2>1
  <2> QED BY <2>1, <2>2 DEF t
<1>3. Len(s) \in Nat OBVIOUS
<1>4. 1 .. (Len(s) + 1) = (1 .. Len(s)) \cup {Len(s) + 1} BY <1>3
<1> QED BY <1>1, <1>2, <1>3, <1>4

\* A committed initiation has a Peer.
LEMMA CommitPeers ==
    ASSUME CommitsInv
    PROVE  \A j \in DOMAIN commits : commits[j].peer \in Initiator
<1> DEFINE R == [peer : Initiator, n : Nat]
<1>1. commits \in Seq(R) BY DEF CommitsInv
<1>2. \A c \in R : c.peer \in Initiator OBVIOUS
<1> HIDE DEF R
<1>3. \A j \in DOMAIN commits : commits[j] \in R BY <1>1
<1> QED BY <1>2, <1>3

\* ConsumeMessageInitiation keeps the invariant: the initiation it commits is
\* later than all that its Peer has committed.
LEMMA ConsumeInitiationStep ==
    ASSUME IInv, NEW q \in Initiator, NEW m \in net, ConsumeMessageInitiation(q, m)
    PROVE  IInv'
<1> USE DEF IInv
<1>1. /\ UNCHANGED <<fresh, stamps, initiations, net, ihs, itable, rtable, ikeys, rkeys,
                     idone, rdone>>
      /\ recent' = [recent EXCEPT ![q] = TRUE]
      /\ commits' = Append(commits, [peer |-> q, n |-> m.n])
      /\ IdentityOk(q, m) /\ FreshTimestamp(q, m) /\ ReceivedTranscript(m).ok
  BY DEF ConsumeMessageInitiation
<1>2. Initiations' = Initiations /\ Responses' = Responses /\ m \in Initiations
  BY <1>1 DEF ConsumeMessageInitiation, Initiations, Responses
<1>3. /\ Sender(m) \in Initiator /\ SentAt(m) \in Stamp /\ m.n \in Nat /\ Formed(m)
      /\ Precedes(ZeroStamp, SentAt(m))
  BY <1>2 DEF InitiationsInv, TypeInv
<1>4. /\ Sender(m) \notin WrongX \cup WrongK
      /\ ReceivedTranscript(m).C = OfferChain(Sender(m), m.n)
      /\ m.ex = EphemeralX(m.n) /\ m.ek = EphemeralK(m.n)
      /\ m.enc_x.plaintext = StaticX(Sender(m))
      /\ m.enc_k.plaintext = StaticK(Sender(m))
  BY <1>1, <1>3, Received
<1>5. /\ DOMAIN rhs' = Initiator
      /\ \A p \in Initiator : p # q => rhs'[p] = rhs[p]
  BY DEF ConsumeMessageInitiation, TypeInv
<1>6. /\ DOMAIN rhs'[q] = HandshakeFields
      /\ rhs'[q].state = "InitiationConsumed"
      /\ rhs'[q].C = OfferChain(Sender(m), m.n)
      /\ rhs'[q].remote_index = m.sender_index
      /\ rhs'[q].remote = [ex |-> EphemeralX(m.n), ek |-> EphemeralK(m.n),
                           sx |-> StaticX(Sender(m)), sk |-> StaticK(Sender(m))]
      /\ rhs'[q].last_timestamp = SentAt(m)
  BY <1>4 DEF ConsumeMessageInitiation, TypeInv, HandshakeFields, SentAt
<1>7. TypeInv'
  BY <1>1, <1>3, <1>5, <1>6 DEF TypeInv
<1>8. InitiationsInv' /\ ResponsesInv' /\ InitiatorInv' /\ KeypairsInv'
  BY <1>1, <1>2 DEF InitiationsInv, ResponsesInv, InitiatorInv, KeypairsInv
<1>9. ResponderInv'
  <2> SUFFICES ASSUME NEW p \in Initiator PROVE ResponderInv!(p)'
    BY DEF ResponderInv
  <2>1. CASE p = q BY <1>2, <1>4, <1>6, <2>1
  <2>2. CASE p # q
    <3>1. rhs'[p] = rhs[p] BY <1>5, <2>2
    <3>2. ResponderInv!(p) BY DEF ResponderInv
    <3> QED BY <1>2, <3>1, <3>2
  <2> QED BY <2>1, <2>2
<1>10. CommitsInv'
  <2> DEFINE R == [peer : Initiator, n : Nat]
             e == [peer |-> q, n |-> m.n]
             L == Len(commits)
  <2>1. /\ commits \in Seq(R) /\ e \in R /\ L \in Nat
        /\ DOMAIN commits = 1 .. L
        /\ \A i \in 1 .. L : commits[i].peer \in Initiator
    <3>1. commits \in Seq(R) BY DEF CommitsInv
    <3>2. e \in R BY <1>3
    <3>3. \A c \in R : c.peer \in Initiator OBVIOUS
    <3> HIDE DEF R, e
    <3> QED BY <3>1, <3>2, <3>3, CommitsSequence
  <2>2. /\ commits' \in Seq(R) /\ DOMAIN commits' = (1 .. L) \cup {L + 1}
        /\ \A i \in 1 .. L : commits'[i] = commits[i]
        /\ commits'[L + 1] = e
        /\ L + 1 \notin 1 .. L
    <3>1. commits' = Append(commits, e) BY <1>1
    <3> HIDE DEF R, e
    <3> QED BY <2>1, <3>1, CommitsSequence
  <2>3. rhs[q].last_timestamp \in Stamp /\ Precedes(rhs[q].last_timestamp, SentAt(m))
    BY <1>1 DEF TypeInv, FreshTimestamp, SentAt
  <2>4. \A i \in 1 .. L : commits[i] # e
    <3> SUFFICES ASSUME NEW i \in 1 .. L, commits[i] = e PROVE FALSE
      OBVIOUS
    <3>1. PICK x \in Initiations :
            x.n = m.n /\ ~Precedes(rhs[q].last_timestamp, SentAt(x))
      BY <2>1 DEF CommitsInv
    <3>2. x = m BY <1>2, <3>1 DEF InitiationsInv
    <3> QED BY <2>3, <3>1, <3>2
  <2>5. \A i, j \in DOMAIN commits' : commits'[i] = commits'[j] => i = j
    BY <2>1, <2>2, <2>4 DEF CommitsInv
  <2>6. \A i \in DOMAIN commits' :
         \E x \in Initiations :
            /\ x.n = commits'[i].n
            /\ ~Precedes(rhs'[commits'[i].peer].last_timestamp, SentAt(x))
    <3>1. ~Precedes(SentAt(m), SentAt(m)) BY <1>3, StampOrder
    <3>2. ASSUME NEW i \in 1 .. L
          PROVE  \E x \in Initiations :
                    /\ x.n = commits'[i].n
                    /\ ~Precedes(rhs'[commits'[i].peer].last_timestamp, SentAt(x))
      <4>1. PICK x \in Initiations :
              x.n = commits[i].n /\ ~Precedes(rhs[commits[i].peer].last_timestamp, SentAt(x))
        BY <2>1 DEF CommitsInv
      <4>2. SentAt(x) \in Stamp BY DEF InitiationsInv
      <4>3. CASE commits[i].peer = q
        <5>1. ~Precedes(SentAt(m), SentAt(x))
          BY <1>3, <2>3, <4>1, <4>2, <4>3, StampOrder
        <5> QED BY <1>6, <2>2, <4>1, <4>3, <5>1
      <4>4. CASE commits[i].peer # q
        BY <1>5, <2>1, <2>2, <4>1, <4>4
      <4> QED BY <4>3, <4>4
    <3> QED BY <1>2, <1>6, <2>2, <3>1, <3>2
  <2>7. \A p \in Initiator \ OpenPeers :
         \/ rhs'[p].last_timestamp = ZeroStamp
         \/ \E x \in Initiations, i \in DOMAIN commits' :
               /\ Sender(x) = p /\ SentAt(x) = rhs'[p].last_timestamp
               /\ commits'[i] = [peer |-> p, n |-> x.n]
    <3> SUFFICES ASSUME NEW p \in Initiator \ OpenPeers
                 PROVE  \/ rhs'[p].last_timestamp = ZeroStamp
                        \/ \E x \in Initiations, i \in DOMAIN commits' :
                              /\ Sender(x) = p /\ SentAt(x) = rhs'[p].last_timestamp
                              /\ commits'[i] = [peer |-> p, n |-> x.n]
      OBVIOUS
    <3>1. CASE p = q
      <4>1. Sender(m) = p BY <1>1, <1>4, <3>1, TermsDiffer DEF IdentityOk
      <4> QED BY <1>2, <1>6, <2>2, <3>1, <4>1
    <3>2. CASE p # q
      <4>1. rhs'[p] = rhs[p] BY <1>5, <3>2
      <4>2. CASE rhs[p].last_timestamp = ZeroStamp BY <4>1, <4>2
      <4>3. CASE rhs[p].last_timestamp # ZeroStamp
        <5>1. PICK x \in Initiations, i \in 1 .. L :
                /\ Sender(x) = p /\ SentAt(x) = rhs[p].last_timestamp
                /\ commits[i] = [peer |-> p, n |-> x.n]
          BY <2>1, <4>3 DEF CommitsInv
        <5>2. i \in DOMAIN commits' /\ commits'[i] = [peer |-> p, n |-> x.n]
          BY <2>2, <5>1
        <5>3. Sender(x) = p /\ SentAt(x) = rhs'[p].last_timestamp BY <4>1, <5>1
        <5> QED BY <5>2, <5>3
      <4> QED BY <4>2, <4>3
    <3> QED BY <3>1, <3>2
  <2> QED BY <1>2, <2>2, <2>5, <2>6, <2>7 DEF CommitsInv
<1>11. IndicesRegistered'
  BY <1>1, <1>5, <1>6 DEF IndicesRegistered
<1> QED BY <1>7, <1>8, <1>9, <1>10, <1>11

\* CreateMessageResponse keeps the invariant: its fresh value and index are
\* new, and the response is for the initiation its Peer has consumed.
LEMMA CreateResponseStep ==
    ASSUME IInv, NEW q \in Initiator, CreateMessageResponse(q)
    PROVE  IInv'
<1> USE DEF IInv
<1> DEFINE r == fresh + 1
           h == rhs[q]
           er == EphemeralX(r)
           ct_ee == Encapsulate(h.remote.ek, r)
           ct_se == Encapsulate(h.remote.sk, r)
           t == ResponseTranscript(h.C, h.H, er,
                    DH(er, h.remote.ex), KemSecret(ct_ee), ct_ee,
                    DH(er, h.remote.sx), KemSecret(ct_se), ct_se)
           enc == Encrypt(t.key, t.H, "empty")
<1>1. /\ fresh' = r /\ h.state = "InitiationConsumed"
      /\ UNCHANGED <<stamps, initiations, ihs, itable, ikeys, rkeys, recent, commits,
                     idone, rdone>>
  BY DEF CreateMessageResponse
<1>2. PICK i \in NewIndex(rtable) :
        /\ rtable' = Register(rtable, i, q)
        /\ rhs' = [rhs EXCEPT ![q] = [@ EXCEPT !.state = "ResponseCreated",
                       !.C = t.C, !.H = MixCiphertext(t.H, enc), !.local_index = i]]
        /\ net' = net \cup {ResponseMsg(i, h.remote_index, er, ct_ee, ct_se, enc)}
  BY <1>1 DEF CreateMessageResponse
<1>3. PICK x \in Initiations :
        /\ Sender(x) \notin WrongX \cup WrongK
        /\ x.sender_index = h.remote_index
        /\ h.C = OfferChain(Sender(x), x.n)
        /\ h.remote = [ex |-> EphemeralX(x.n), ek |-> EphemeralK(x.n),
                       sx |-> StaticX(Sender(x)), sk |-> StaticK(Sender(x))]
  BY <1>1 DEF ResponderInv
<1> DEFINE D == AnswerChain(Sender(x), x.n, r)
           m == ResponseMsg(i, h.remote_index, er, ct_ee, ct_se, enc)
<1>4. t.C = D /\ t.key = KdfOutput(D, 3)
  <2>1. t.C = Mixed(h.C, er, DH(er, h.remote.ex), KemSecret(ct_ee),
                    DH(er, h.remote.sx), KemSecret(ct_se))
        /\ t.key = KdfOutput(t.C, 3)
    BY ResponseTranscriptIs
  <2> HIDE DEF t
  <2> QED BY <1>3, <2>1 DEF AnswerChain
<1> HIDE DEF t
<1>5. enc.key = KdfOutput(D, 3) BY <1>4 DEF Encrypt
<1> HIDE DEF enc
<1>6. ct_ee = Encapsulate(EphemeralK(x.n), r) BY <1>3
<1>7. ct_ee.r = r BY DEF Encapsulate
<1> HIDE DEF ct_ee
<1>8. /\ m.type = "response" /\ m.sender_index = i /\ m.receiver_index = x.sender_index
      /\ m.ct_ee = ct_ee /\ Salt(m) = r /\ m.enc_empty = enc
  BY <1>3, <1>7 DEF ResponseMsg, Salt
<1>9. net' = net \cup {m} BY <1>2
<1> HIDE DEF m
<1>10. Answers(m, x) BY <1>3, <1>5, <1>6, <1>8 DEF Answers
<1>11. Initiations' = Initiations /\ Responses' = Responses \cup {m}
  BY <1>8, <1>9 DEF Initiations, Responses
<1>12. /\ DOMAIN rhs' = Initiator
       /\ \A p \in Initiator : p # q => rhs'[p] = rhs[p]
  BY <1>2 DEF TypeInv
<1>13. /\ DOMAIN rhs'[q] = HandshakeFields
       /\ rhs'[q].state = "ResponseCreated" /\ rhs'[q].C = D
       /\ rhs'[q].local_index = i /\ rhs'[q].remote_index = h.remote_index
       /\ rhs'[q].remote = h.remote /\ rhs'[q].last_timestamp = h.last_timestamp
  BY <1>2, <1>4 DEF TypeInv, HandshakeFields
<1>14. /\ i \in Index /\ rtable[i].peer = None /\ ~rtable[i].keypair
       /\ rtable'[i] = [peer |-> q, keypair |-> FALSE]
       /\ \A j \in Index : j # i => rtable'[j] = rtable[j]
       /\ rtable' \in [Index -> Entry]
  BY <1>2, Registered DEF TypeInv
<1>15. r \in Nat /\ 1 <= r /\ fresh \in Nat /\ fresh < r BY DEF TypeInv
<1>16. TypeInv'
  <2>1. h.last_timestamp \in Stamp BY DEF TypeInv
  <2> QED BY <1>1, <1>12, <1>13, <1>14, <1>15, <2>1 DEF TypeInv
<1>17. InitiationsInv'
  BY <1>1, <1>11, <1>15 DEF InitiationsInv
<1>18. ResponsesInv'
  <2>1. q # None BY HandshakeAssumption
  <2>2. ASSUME NEW y \in Responses
        PROVE  /\ y.sender_index \in Index /\ Salt(y) \in 1 .. fresh'
               /\ rtable'[y.sender_index].peer # None
               /\ y.sender_index # i /\ Salt(y) # r
    <3>1. /\ y.sender_index \in Index /\ Salt(y) \in 1 .. fresh
          /\ rtable[y.sender_index].peer # None
      BY DEF ResponsesInv
    <3> QED BY <1>1, <1>14, <1>15, <3>1
  <2>3. \A y \in Responses' :
         /\ y.sender_index \in Index /\ Salt(y) \in 1 .. fresh'
         /\ rtable'[y.sender_index].peer # None
         /\ \E z \in Initiations' : Answers(y, z)
    BY <1>1, <1>8, <1>10, <1>11, <1>14, <1>15, <2>1, <2>2 DEF ResponsesInv
  <2>4. \A y, z \in Responses' :
         y.sender_index = z.sender_index \/ Salt(y) = Salt(z) => y = z
    BY <1>8, <1>11, <2>2 DEF ResponsesInv
  <2> QED BY <2>3, <2>4 DEF ResponsesInv
<1>19. InitiatorInv'
  BY <1>1, <1>11 DEF InitiatorInv
<1>20. ResponderInv'
  <2> SUFFICES ASSUME NEW p \in Initiator PROVE ResponderInv!(p)'
    BY DEF ResponderInv
  <2>1. CASE p = q
    BY <1>3, <1>8, <1>10, <1>11, <1>13, <2>1
  <2>2. CASE p # q
    <3>1. rhs'[p] = rhs[p] BY <1>12, <2>2
    <3>2. ResponderInv!(p) BY DEF ResponderInv
    <3> QED BY <1>11, <3>1, <3>2
  <2> QED BY <2>1, <2>2
<1>21. KeypairsInv'
  BY <1>1, <1>11 DEF KeypairsInv
<1>22. CommitsInv'
  <2>1. \A p \in Initiator : rhs'[p].last_timestamp = rhs[p].last_timestamp
    BY <1>12, <1>13
  <2>2. \A j \in DOMAIN commits : commits[j].peer \in Initiator
    BY CommitPeers
  <2>3. commits' = commits /\ Initiations' = Initiations BY <1>1, <1>11
  <2>4. \A j \in DOMAIN commits :
           \E y \in Initiations :
              /\ y.n = commits[j].n
              /\ ~Precedes(rhs'[commits[j].peer].last_timestamp, SentAt(y))
    BY <2>1, <2>2 DEF CommitsInv
  <2>5. \A p \in Initiator \ OpenPeers :
           \/ rhs'[p].last_timestamp = ZeroStamp
           \/ \E y \in Initiations, j \in DOMAIN commits :
                 /\ Sender(y) = p /\ SentAt(y) = rhs'[p].last_timestamp
                 /\ commits[j] = [peer |-> p, n |-> y.n]
    BY <2>1 DEF CommitsInv
  <2> QED BY <2>3, <2>4, <2>5 DEF CommitsInv
<1>23. IndicesRegistered'
  <2>2. \A p \in Initiator : rhs'[p].state = "ResponseCreated" =>
          rtable'[rhs'[p].local_index] = [peer |-> p, keypair |-> FALSE]
    <3> SUFFICES ASSUME NEW p \in Initiator, rhs'[p].state = "ResponseCreated"
                 PROVE  rtable'[rhs'[p].local_index] = [peer |-> p, keypair |-> FALSE]
      OBVIOUS
    <3>1. CASE p = q BY <1>13, <1>14, <3>1
    <3>2. CASE p # q
      <4>1. rhs[p].local_index \in Index /\ rhs'[p] = rhs[p]
        BY <1>12, <3>2 DEF TypeInv
      <4>2. rtable[rhs[p].local_index] = [peer |-> p, keypair |-> FALSE]
        BY <4>1 DEF IndicesRegistered
      <4>3. p # None BY HandshakeAssumption
      <4> QED BY <1>14, <4>1, <4>2, <4>3
    <3> QED BY <3>1, <3>2
  <2>3. \A p \in Initiator :
          \A j \in {rkeys[p].current, rkeys[p].previous, rkeys[p].next} \ {None} :
             rtable'[j] = [peer |-> p, keypair |-> TRUE]
    <3> SUFFICES ASSUME NEW p \in Initiator,
                        NEW j \in {rkeys[p].current, rkeys[p].previous, rkeys[p].next} \ {None}
                 PROVE  rtable'[j] = [peer |-> p, keypair |-> TRUE]
      OBVIOUS
    <3>1. j \in Index BY DEF TypeInv, Slots, Slot
    <3>2. rtable[j] = [peer |-> p, keypair |-> TRUE] BY DEF IndicesRegistered
    <3>3. p # None BY HandshakeAssumption
    <3> QED BY <1>14, <3>1, <3>2, <3>3
  <2> QED BY <1>1, <2>2, <2>3 DEF IndicesRegistered
<1> QED BY <1>16, <1>17, <1>18, <1>19, <1>20, <1>21, <1>22, <1>23

\* ConsumeMessageResponse keeps the invariant: the response that opens answers
\* the initiation in progress.
LEMMA ConsumeResponseStep ==
    ASSUME IInv, NEW p \in Initiator, NEW m \in net, ConsumeMessageResponse(p, m)
    PROVE  IInv'
<1> USE DEF IInv
<1> DEFINE t == AnsweredTranscript(p, m)
<1>1. /\ ihs[p].state = "InitiationCreated"
      /\ Decrypts(t.key, t.H, m.enc_empty)
      /\ UNCHANGED <<fresh, stamps, initiations, net, rhs, itable, rtable, ikeys, rkeys,
                     recent, commits, idone, rdone>>
  BY DEF ConsumeMessageResponse
<1>2. Initiations' = Initiations /\ Responses' = Responses /\ m \in Responses
  BY <1>1 DEF ConsumeMessageResponse, Initiations, Responses
<1>3. PICK x \in Initiations :
        /\ Sender(x) = p /\ x.n = ihs[p].ephemeral
        /\ SentAt(x) = stamps[p]
        /\ x.sender_index = ihs[p].local_index
        /\ ihs[p].C = OfferChain(p, x.n)
  BY <1>1 DEF InitiatorInv
<1>4. PICK y \in Initiations : Answers(m, y)
  BY <1>2 DEF ResponsesInv
<1>5. y.n = x.n /\ t.C = AnswerChain(Sender(y), y.n, Salt(m))
  BY <1>1, <1>3, <1>4, Opened
<1>6. y = x BY <1>5 DEF InitiationsInv
<1>7. /\ DOMAIN ihs' = Initiator
      /\ \A q \in Initiator : q # p => ihs'[q] = ihs[q]
  BY DEF ConsumeMessageResponse, TypeInv
<1>8. /\ DOMAIN ihs'[p] = HandshakeFields
      /\ ihs'[p].state = "ResponseConsumed" /\ ihs'[p].C = t.C
      /\ ihs'[p].remote_index = m.sender_index
      /\ ihs'[p].local_index = ihs[p].local_index
  BY DEF ConsumeMessageResponse, TypeInv, HandshakeFields
<1> HIDE DEF t
<1>9. TypeInv'
  BY <1>1, <1>7, <1>8 DEF TypeInv
<1>10. InitiationsInv' /\ ResponsesInv' /\ ResponderInv' /\ CommitsInv'
  BY <1>1, <1>2 DEF InitiationsInv, ResponsesInv, ResponderInv, CommitsInv
<1>11. InitiatorInv'
  <2> SUFFICES ASSUME NEW q \in Initiator PROVE InitiatorInv!(q)'
    BY DEF InitiatorInv
  <2>1. CASE q = p
    BY <1>2, <1>3, <1>4, <1>5, <1>6, <1>8, <2>1
  <2>2. CASE q # p BY <1>1, <1>2, <1>7, <2>2 DEF InitiatorInv
  <2> QED BY <2>1, <2>2
<1>12. KeypairsInv'
  <2>1. ihs'[p].C[1] = ihs[p].C[1]
    BY <1>3, <1>5, <1>6, <1>8, OfferFirst, AnswerFirst
  <2>2. \A k \in idone, q \in Initiator :
         ihs'[q].state # "Zeroed" => k.send_key.chain[1] # ihs'[q].C[1]
    BY <1>1, <1>7, <2>1 DEF KeypairsInv
  <2> QED BY <1>1, <1>2, <2>2 DEF KeypairsInv
<1>13. IndicesRegistered'
  BY <1>1, <1>7, <1>8 DEF IndicesRegistered
<1> QED BY <1>9, <1>10, <1>11, <1>12, <1>13

\* SwapHandshakeToKeypair changes one entry, which keeps its Peer.
LEMMA Swapped ==
    ASSUME NEW table \in [Index -> Entry], NEW i \in Index, NEW peer \in Initiator,
           table[i] = [peer |-> peer, keypair |-> FALSE]
    PROVE  /\ SwapHandshakeToKeypair(table, i) \in [Index -> Entry]
           /\ SwapHandshakeToKeypair(table, i)[i] = [peer |-> peer, keypair |-> TRUE]
           /\ \A j \in Index : j # i => SwapHandshakeToKeypair(table, i)[j] = table[j]
<1>1. peer # None BY HandshakeAssumption
<1>2. table[i] # FreeEntry BY <1>1 DEF FreeEntry
<1>3. SwapHandshakeToKeypair(table, i) = [table EXCEPT ![i].keypair = TRUE]
  BY <1>2 DEF SwapHandshakeToKeypair
<1>4. [table[i] EXCEPT !.keypair = TRUE] = [peer |-> peer, keypair |-> TRUE]
  <2> DEFINE e == [table[i] EXCEPT !.keypair = TRUE]
  <2>1. table[i].peer = peer OBVIOUS
  <2>2. e \in Entry /\ e.peer = peer /\ e.keypair = TRUE BY <2>1 DEF Entry
  <2> HIDE DEF e
  <2>3. e = [peer |-> peer, keypair |-> TRUE] BY <2>2 DEF Entry
  <2> QED BY <2>3 DEF e
<1>5. [peer |-> peer, keypair |-> TRUE] \in Entry BY DEF Entry
<1>6. SwapHandshakeToKeypair(table, i)
      = [table EXCEPT ![i] = [peer |-> peer, keypair |-> TRUE]]
  BY <1>3, <1>4
<1> QED BY <1>5, <1>6

\* DeriveSessionKeys of an initiator keeps the invariant: no keypair came from
\* this initiation before.
LEMMA DeriveInitiatorStep ==
    ASSUME IInv, NEW p \in Initiator, DeriveInitiator(p)
    PROVE  IInv'
<1> USE DEF IInv
<1> DEFINE k == Keypair(ihs[p], p, TRUE)
           i == ihs[p].local_index
<1>1. /\ ihs[p].state = "ResponseConsumed"
      /\ idone' = idone \cup {k}
      /\ itable' = [itable EXCEPT ![p] = SwapHandshakeToKeypair(@, i)]
      /\ ikeys' = [ikeys EXCEPT ![p] = SetCurrent(@, i)]
      /\ UNCHANGED <<fresh, stamps, initiations, net, rhs, rtable, rkeys, recent,
                     commits, rdone>>
  BY DEF DeriveInitiator
<1>2. Initiations' = Initiations /\ Responses' = Responses
  BY <1>1 DEF Initiations, Responses
<1>3. PICK x \in Initiations, m \in Responses :
        /\ Answers(m, x) /\ Sender(x) = p
        /\ x.sender_index = i
        /\ m.sender_index = ihs[p].remote_index
        /\ ihs[p].C = AnswerChain(p, x.n, Salt(m))
  BY <1>1 DEF InitiatorInv
<1>4. k = InitiatorEnd(x, m)
  BY <1>3 DEF Keypair, InitiatorEnd
<1> HIDE DEF k
<1>5. k.send_key.chain[1] = ihs[p].C[1]
  <2>1. k.send_key.chain[1] = EphemeralX(x.n)
    BY <1>4, TransportKey DEF InitiatorEnd
  <2> QED BY <1>3, <2>1, AnswerFirst
<1>6. /\ DOMAIN ihs' = Initiator
      /\ \A q \in Initiator : q # p => ihs'[q] = ihs[q]
      /\ DOMAIN ihs'[p] = HandshakeFields
      /\ ihs'[p].state = "Zeroed"
  BY DEF DeriveInitiator, Wipe, TypeInv, HandshakeFields
<1>7. /\ i \in Index
      /\ itable[p] \in [Index -> Entry]
      /\ itable[p][i] = [peer |-> p, keypair |-> FALSE]
  BY <1>1 DEF TypeInv, IndicesRegistered
<1>8. /\ itable' \in [Initiator -> [Index -> Entry]]
      /\ itable'[p][i] = [peer |-> p, keypair |-> TRUE]
      /\ \A j \in Index : j # i => itable'[p][j] = itable[p][j]
      /\ \A q \in Initiator : q # p => itable'[q] = itable[q]
  <2> DEFINE table == SwapHandshakeToKeypair(itable[p], i)
  <2>1. /\ table \in [Index -> Entry] /\ table[i] = [peer |-> p, keypair |-> TRUE]
        /\ \A j \in Index : j # i => table[j] = itable[p][j]
    BY <1>7, Swapped
  <2>2. itable' = [itable EXCEPT ![p] = table] BY <1>1
  <2> HIDE DEF table
  <2> QED BY <2>1, <2>2 DEF TypeInv
<1>9. ikeys' \in [Initiator -> Slots]
      /\ ikeys'[p].current = i /\ ikeys'[p].previous = ikeys[p].current
      /\ \A q \in Initiator : q # p => ikeys'[q] = ikeys[q]
  <2> DEFINE slots == SetCurrent(ikeys[p], i)
  <2>1. ikeys[p] \in Slots BY DEF TypeInv
  <2>2. slots \in Slots /\ slots.current = i /\ slots.previous = ikeys[p].current
    BY <1>7, <2>1 DEF SetCurrent, Slots, Slot
  <2>3. ikeys' = [ikeys EXCEPT ![p] = slots] BY <1>1
  <2> HIDE DEF slots
  <2> QED BY <2>2, <2>3 DEF TypeInv
<1>10. TypeInv'
  BY <1>1, <1>6, <1>8, <1>9 DEF TypeInv
<1>11. \A q \in Initiator, j \in Index : itable'[q][j].peer = itable[q][j].peer
  BY <1>7, <1>8
<1>12. InitiationsInv'
  BY <1>1, <1>2, <1>11 DEF InitiationsInv
<1>13. ResponsesInv' /\ ResponderInv' /\ CommitsInv'
  <2>1. ResponsesInv' /\ CommitsInv'
    BY <1>1, <1>2 DEF ResponsesInv, CommitsInv
  <2>2. ResponderInv'
    BY <1>1, <1>2 DEF ResponderInv
  <2> QED BY <2>1, <2>2
<1>14. InitiatorInv'
  BY <1>1, <1>2, <1>6 DEF InitiatorInv
<1>15. KeypairsInv'
  <2>1. \A l \in idone : l.send_key.chain[1] # k.send_key.chain[1]
    BY <1>1, <1>5 DEF KeypairsInv
  <2>2. \A l \in idone' :
         \E y \in Initiations', n \in Responses' : Answers(n, y) /\ l = InitiatorEnd(y, n)
    BY <1>1, <1>2, <1>3, <1>4 DEF KeypairsInv
  <2>3. \A l \in rdone' :
         \E y \in Initiations', n \in Responses' : Answers(n, y) /\ l = ResponderEnd(y, n)
    BY <1>1, <1>2 DEF KeypairsInv
  <2>4. \A l, n \in idone' : l.send_key.chain[1] = n.send_key.chain[1] => l = n
    BY <1>1, <2>1 DEF KeypairsInv
  <2>5. \A q \in Initiator : q # p /\ ihs[q].state # "Zeroed" => ihs[q].C[1] # ihs[p].C[1]
    <3> SUFFICES ASSUME NEW q \in Initiator, q # p, ihs[q].state # "Zeroed",
                        ihs[q].C[1] = ihs[p].C[1]
                 PROVE  FALSE
      OBVIOUS
    <3>1. PICK y \in Initiations : Sender(y) = q /\ ihs[q].C[1] = EphemeralX(y.n)
      BY OfferFirst, AnswerFirst DEF TypeInv, InitiatorInv
    <3>2. y.n = x.n BY <1>3, <3>1, AnswerFirst, TermsDiffer
    <3> QED BY <1>3, <3>1, <3>2 DEF InitiationsInv
  <2>6. \A l \in idone', q \in Initiator :
         ihs'[q].state # "Zeroed" => l.send_key.chain[1] # ihs'[q].C[1]
    BY <1>1, <1>5, <1>6, <2>5 DEF KeypairsInv
  <2> QED BY <2>2, <2>3, <2>4, <2>6 DEF KeypairsInv
<1>16. IndicesRegistered'
  <2>1. \A q \in Initiator : ihs'[q].state # "Zeroed" =>
          itable'[q][ihs'[q].local_index] = [peer |-> q, keypair |-> FALSE]
    <3> SUFFICES ASSUME NEW q \in Initiator, ihs'[q].state # "Zeroed"
                 PROVE  itable'[q][ihs'[q].local_index] = [peer |-> q, keypair |-> FALSE]
      OBVIOUS
    <3>1. q # p BY <1>6
    <3>2. ihs'[q] = ihs[q] /\ itable'[q] = itable[q] BY <1>6, <1>8, <3>1
    <3>3. itable[q][ihs[q].local_index] = [peer |-> q, keypair |-> FALSE]
      BY <3>2 DEF IndicesRegistered
    <3> QED BY <3>2, <3>3
  <2>2. \A q \in Initiator, j \in Index :
          itable[q][j].keypair => itable'[q][j].keypair
    BY <1>8
  <2>3. \A q \in Initiator :
          \A j \in {ikeys'[q].current, ikeys'[q].previous} \ {None} : itable'[q][j].keypair
    <3> SUFFICES ASSUME NEW q \in Initiator,
                        NEW j \in {ikeys'[q].current, ikeys'[q].previous} \ {None}
                 PROVE  itable'[q][j].keypair
      OBVIOUS
    <3>1. CASE q = p /\ j = i BY <1>8, <3>1
    <3>2. CASE ~(q = p /\ j = i)
      <4>1. j \in {ikeys[q].current, ikeys[q].previous} \ {None}
        BY <1>9, <3>2
      <4>2. j \in Index BY <4>1 DEF TypeInv, Slots, Slot
      <4>3. itable[q][j].keypair BY <4>1 DEF IndicesRegistered
      <4> QED BY <2>2, <4>2, <4>3
    <3> QED BY <3>1, <3>2
  <2> QED BY <1>1, <2>1, <2>3 DEF IndicesRegistered
<1> QED BY <1>10, <1>12, <1>13, <1>14, <1>15, <1>16

\* DeriveSessionKeys of the responder keeps the invariant.
LEMMA DeriveResponderStep ==
    ASSUME IInv, NEW q \in Initiator, DeriveResponder(q)
    PROVE  IInv'
<1> USE DEF IInv
<1> DEFINE k == Keypair(rhs[q], rhs[q].remote.sx, FALSE)
           i == rhs[q].local_index
<1>1. /\ rhs[q].state = "ResponseCreated"
      /\ rdone' = rdone \cup {k}
      /\ rtable' = SwapHandshakeToKeypair(rtable, i)
      /\ rkeys' = [rkeys EXCEPT ![q] = SetNext(@, i)]
      /\ UNCHANGED <<fresh, stamps, initiations, net, ihs, itable, ikeys, recent,
                     commits, idone>>
  BY DEF DeriveResponder
<1>2. Initiations' = Initiations /\ Responses' = Responses
  BY <1>1 DEF Initiations, Responses
<1>3. PICK x \in Initiations, m \in Responses :
        /\ Answers(m, x)
        /\ m.sender_index = i
        /\ x.sender_index = rhs[q].remote_index
        /\ rhs[q].C = AnswerChain(Sender(x), x.n, Salt(m))
        /\ rhs[q].remote.sx = StaticX(Sender(x))
  BY <1>1 DEF ResponderInv
<1>4. k = ResponderEnd(x, m)
  BY <1>3 DEF Keypair, ResponderEnd
<1> HIDE DEF k
<1>5. /\ DOMAIN rhs' = Initiator
      /\ \A p \in Initiator : p # q => rhs'[p] = rhs[p]
      /\ DOMAIN rhs'[q] = HandshakeFields
      /\ rhs'[q].state = "Zeroed" /\ rhs'[q].last_timestamp = rhs[q].last_timestamp
  BY DEF DeriveResponder, Wipe, TypeInv, HandshakeFields
<1>6. i \in Index /\ rtable[i] = [peer |-> q, keypair |-> FALSE]
  BY <1>1 DEF TypeInv, IndicesRegistered
<1>7. /\ rtable' \in [Index -> Entry]
      /\ rtable'[i] = [peer |-> q, keypair |-> TRUE]
      /\ \A j \in Index : j # i => rtable'[j] = rtable[j]
  <2>1. rtable \in [Index -> Entry] BY DEF TypeInv
  <2> HIDE DEF IInv
  <2> QED BY <1>1, <1>6, <2>1, Swapped
<1>8. /\ rkeys' \in [Initiator -> Slots]
      /\ rkeys'[q].next = i /\ rkeys'[q].current = rkeys[q].current
      /\ rkeys'[q].previous = rkeys[q].previous
      /\ \A p \in Initiator : p # q => rkeys'[p] = rkeys[p]
  <2> DEFINE slots == SetNext(rkeys[q], i)
  <2>1. rkeys[q] \in Slots /\ rkeys \in [Initiator -> Slots] BY DEF TypeInv
  <2> HIDE DEF IInv
  <2>2. /\ slots \in Slots /\ slots.next = i /\ slots.current = rkeys[q].current
        /\ slots.previous = rkeys[q].previous
    BY <1>6, <2>1 DEF SetNext, Slots, Slot
  <2>3. rkeys' = [rkeys EXCEPT ![q] = slots] BY <1>1
  <2> HIDE DEF slots
  <2> QED BY <2>1, <2>2, <2>3
<1>9. TypeInv'
  <2>1. rhs[q].last_timestamp \in Stamp BY DEF TypeInv
  <2> QED BY <1>1, <1>5, <1>7, <1>8, <2>1 DEF TypeInv
<1>10. InitiationsInv' /\ InitiatorInv'
  BY <1>1, <1>2 DEF InitiationsInv, InitiatorInv
<1>11. ResponsesInv'
  <2>1. \A j \in Index : rtable'[j].peer = rtable[j].peer BY <1>6, <1>7
  <2> QED BY <1>1, <1>2, <2>1 DEF ResponsesInv
<1>12. ResponderInv'
  BY <1>2, <1>5 DEF ResponderInv
<1>13. CommitsInv'
  <2>1. \A p \in Initiator : rhs'[p].last_timestamp = rhs[p].last_timestamp
    BY <1>5
  <2>2. \A j \in DOMAIN commits : commits[j].peer \in Initiator
    BY CommitPeers
  <2> QED BY <1>1, <1>2, <2>1, <2>2 DEF CommitsInv
<1>14. KeypairsInv'
  <2>1. \A l \in rdone' :
         \E y \in Initiations', n \in Responses' : Answers(n, y) /\ l = ResponderEnd(y, n)
    BY <1>1, <1>2, <1>3, <1>4 DEF KeypairsInv
  <2> QED BY <1>1, <1>2, <2>1 DEF KeypairsInv
<1>15. IndicesRegistered'
  <2>1. \A p \in Initiator : rhs'[p].state = "ResponseCreated" =>
          rtable'[rhs'[p].local_index] = [peer |-> p, keypair |-> FALSE]
    <3> SUFFICES ASSUME NEW p \in Initiator, rhs'[p].state = "ResponseCreated"
                 PROVE  rtable'[rhs'[p].local_index] = [peer |-> p, keypair |-> FALSE]
      OBVIOUS
    <3>1. p # q /\ rhs'[p] = rhs[p] BY <1>5
    <3>2. /\ rhs[p].local_index \in Index
          /\ rtable[rhs[p].local_index] = [peer |-> p, keypair |-> FALSE]
      BY <3>1 DEF TypeInv, IndicesRegistered
    <3>3. rhs[p].local_index # i BY <1>6, <3>1, <3>2
    <3> QED BY <1>7, <3>1, <3>2, <3>3
  <2>2. \A p \in Initiator :
          \A j \in {rkeys'[p].current, rkeys'[p].previous, rkeys'[p].next} \ {None} :
             rtable'[j] = [peer |-> p, keypair |-> TRUE]
    <3> SUFFICES ASSUME NEW p \in Initiator,
                        NEW j \in {rkeys'[p].current, rkeys'[p].previous, rkeys'[p].next}
                                  \ {None}
                 PROVE  rtable'[j] = [peer |-> p, keypair |-> TRUE]
      OBVIOUS
    <3>1. CASE p = q /\ j = i BY <1>7, <3>1
    <3>2. CASE ~(p = q /\ j = i)
      <4>1. j \in {rkeys[p].current, rkeys[p].previous, rkeys[p].next} \ {None}
        BY <1>8, <3>2
      <4>2. j \in Index BY <4>1 DEF TypeInv, Slots, Slot
      <4>3. rtable[j] = [peer |-> p, keypair |-> TRUE] BY <4>1 DEF IndicesRegistered
      <4>4. j # i BY <1>6, <4>3
      <4> QED BY <1>7, <4>2, <4>3, <4>4
    <3> QED BY <3>1, <3>2
  <2> QED BY <1>1, <2>1, <2>2 DEF IndicesRegistered
<1> QED BY <1>9, <1>10, <1>11, <1>12, <1>13, <1>14, <1>15

\* PromoteNext keeps the invariant.
LEMMA PromoteStep ==
    ASSUME IInv, NEW q \in Initiator, PromoteNext(q)
    PROVE  IInv'
<1> USE DEF IInv
<1>1. /\ rkeys' = [rkeys EXCEPT ![q] = Promote(@)]
      /\ UNCHANGED <<fresh, stamps, initiations, net, ihs, rhs, itable, rtable, ikeys,
                     recent, commits, idone, rdone>>
  BY DEF PromoteNext
<1>2. Initiations' = Initiations /\ Responses' = Responses
  BY <1>1 DEF Initiations, Responses
<1>3. /\ rkeys' \in [Initiator -> Slots]
      /\ rkeys'[q].current = rkeys[q].next /\ rkeys'[q].previous = rkeys[q].current
      /\ rkeys'[q].next = None
      /\ \A p \in Initiator : p # q => rkeys'[p] = rkeys[p]
  BY <1>1 DEF TypeInv, Promote, Slots, Slot
<1>4. TypeInv'
  BY <1>1, <1>3 DEF TypeInv
<1>5. /\ InitiationsInv' /\ ResponsesInv' /\ InitiatorInv' /\ ResponderInv'
      /\ KeypairsInv' /\ CommitsInv'
  <2>1. InitiationsInv' /\ ResponsesInv'
    BY <1>1, <1>2 DEF InitiationsInv, ResponsesInv
  <2>2. InitiatorInv'
    BY <1>1, <1>2 DEF InitiatorInv
  <2>3. ResponderInv'
    BY <1>1, <1>2 DEF ResponderInv
  <2>4. KeypairsInv' /\ CommitsInv'
    BY <1>1, <1>2 DEF KeypairsInv, CommitsInv
  <2> QED BY <2>1, <2>2, <2>3, <2>4
<1>6. IndicesRegistered'
  <2>1. \A p \in Initiator :
          {rkeys'[p].current, rkeys'[p].previous, rkeys'[p].next} \ {None}
          \subseteq {rkeys[p].current, rkeys[p].previous, rkeys[p].next} \ {None}
    BY <1>3
  <2> QED BY <1>1, <2>1 DEF IndicesRegistered
<1> QED BY <1>4, <1>5, <1>6

\* Steps that change nothing but recent.
LEMMA QuietStep ==
    ASSUME IInv, recent' \in [Initiator -> BOOLEAN],
           UNCHANGED <<fresh, stamps, initiations, net, ihs, rhs, itable, rtable, ikeys,
                       rkeys, commits, idone, rdone>>
    PROVE  IInv'
<1> USE DEF IInv
<1>1. Initiations' = Initiations /\ Responses' = Responses
  BY DEF Initiations, Responses
<1>2. TypeInv' BY DEF TypeInv
<1>3. /\ InitiationsInv' /\ ResponsesInv' /\ InitiatorInv' /\ ResponderInv'
      /\ KeypairsInv' /\ CommitsInv' /\ IndicesRegistered'
  <2>1. InitiationsInv' /\ ResponsesInv' BY <1>1 DEF InitiationsInv, ResponsesInv
  <2>2. InitiatorInv' /\ ResponderInv' BY <1>1 DEF InitiatorInv, ResponderInv
  <2>3. KeypairsInv' /\ CommitsInv' BY <1>1 DEF KeypairsInv, CommitsInv
  <2>4. IndicesRegistered' BY DEF IndicesRegistered
  <2> QED BY <2>1, <2>2, <2>3, <2>4
<1> QED BY <1>2, <1>3

\* The invariant holds initially.
LEMMA Initially == Init => IInv
<1> SUFFICES ASSUME Init PROVE IInv
  OBVIOUS
<1> USE DEF Init
<1>1. Initiations = {} /\ Responses = {} BY DEF Initiations, Responses
<1>2. ZeroStamp \in Stamp BY StampOrder
<1>3. /\ FreeEntry \in Entry /\ EmptyTable \in [Index -> Entry]
      /\ EmptySlots \in Slots
  BY DEF FreeEntry, EmptyTable, Entry, EmptySlots, Slots, Slot
<1>4. /\ DOMAIN ZeroHandshake = HandshakeFields
      /\ ZeroHandshake.state = "Zeroed" /\ ZeroHandshake.last_timestamp = ZeroStamp
  BY DEF ZeroHandshake, HandshakeFields
<1>5. TypeInv BY <1>2, <1>3, <1>4 DEF TypeInv
<1>6. InitiationsInv /\ ResponsesInv /\ InitiatorInv /\ ResponderInv /\ KeypairsInv
  BY <1>1, <1>4 DEF InitiationsInv, ResponsesInv, InitiatorInv, ResponderInv, KeypairsInv
<1>7. CommitsInv BY <1>4 DEF CommitsInv
<1>8. IndicesRegistered BY <1>4 DEF IndicesRegistered, EmptySlots
<1> QED BY <1>5, <1>6, <1>7, <1>8 DEF IInv

\* Every step keeps the invariant.
LEMMA Inductive == IInv /\ [Next]_vars => IInv'
<1> SUFFICES ASSUME IInv, [Next]_vars PROVE IInv'
  OBVIOUS
<1>1. ASSUME NEW p \in Initiator, CreateMessageInitiation(p) PROVE IInv'
  BY <1>1, CreateInitiationStep
<1>2. ASSUME NEW p \in Initiator, NEW m \in net, ConsumeMessageInitiation(p, m) PROVE IInv'
  BY <1>2, ConsumeInitiationStep
<1>3. ASSUME NEW p \in Initiator, RateElapses(p) PROVE IInv'
  BY <1>3, QuietStep DEF RateElapses, IInv, TypeInv
<1>4. ASSUME NEW p \in Initiator, CreateMessageResponse(p) PROVE IInv'
  BY <1>4, CreateResponseStep
<1>5. ASSUME NEW p \in Initiator, NEW m \in net, ConsumeMessageResponse(p, m) PROVE IInv'
  BY <1>5, ConsumeResponseStep
<1>6. ASSUME NEW p \in Initiator, DeriveInitiator(p) PROVE IInv'
  BY <1>6, DeriveInitiatorStep
<1>7. ASSUME NEW p \in Initiator, DeriveResponder(p) PROVE IInv'
  BY <1>7, DeriveResponderStep
<1>8. ASSUME NEW p \in Initiator, PromoteNext(p) PROVE IInv'
  BY <1>8, PromoteStep
<1>9. CASE UNCHANGED vars
  BY <1>9, QuietStep DEF vars, IInv, TypeInv
<1> QED BY <1>1, <1>2, <1>3, <1>4, <1>5, <1>6, <1>7, <1>8, <1>9 DEF Next

\* What the messages and handshake states of the two sides say of each other
\* is invariant.
THEOREM Invariance == Spec => []IInv
BY Initially, Inductive, PTL DEF Spec

-----------------------------------------------------------------------------
\* The properties

\* The indices of handshakes in progress and of the keypairs in the slots stay
\* in the tables (IndexTable, DeriveSessionKeys).
THEOREM Indices == Spec => []IndicesRegistered
<1>1. IInv => IndicesRegistered BY DEF IInv
<1> QED BY <1>1, Invariance, PTL

\* ConsumeMessageInitiation commits an initiation at most once on a Peer that
\* is kept, whatever the network repeats or reorders.
THEOREM CommitsOnce == Spec => []ConsumedOnce
<1>1. IInv => ConsumedOnce BY DEF IInv, CommitsInv, ConsumedOnce
<1> QED BY <1>1, Invariance, PTL

\* The pending initiation of an honest initiator is not refused as a replay,
\* however its clock is set.
THEOREM PendingFresh == Spec => []PendingStillFresh
<1>1. ASSUME IInv PROVE PendingStillFresh
  <2> USE <1>1 DEF IInv
  <2> SUFFICES ASSUME NEW p \in Initiator \ OpenPeers,
                      ihs[p].state = "InitiationCreated",
                      \A i \in DOMAIN commits :
                         commits[i] # [peer |-> p, n |-> ihs[p].ephemeral]
               PROVE  Precedes(rhs[p].last_timestamp, stamps[p])
    BY DEF PendingStillFresh
  <2>1. PICK x \in Initiations :
          Sender(x) = p /\ x.n = ihs[p].ephemeral /\ SentAt(x) = stamps[p]
    BY DEF InitiatorInv
  <2>2. CASE rhs[p].last_timestamp = ZeroStamp
    BY <2>1, <2>2 DEF InitiationsInv
  <2>3. CASE rhs[p].last_timestamp # ZeroStamp
    <3>1. PICK y \in Initiations, i \in DOMAIN commits :
            /\ Sender(y) = p /\ SentAt(y) = rhs[p].last_timestamp
            /\ commits[i] = [peer |-> p, n |-> y.n]
      BY <2>3 DEF CommitsInv
    <3>2. y # x BY <2>1, <3>1
    <3>3. SentAt(y) # stamps[p] BY <2>1, <3>1, <3>2 DEF InitiationsInv
    <3> QED BY <3>1, <3>3 DEF InitiationsInv
  <2> QED BY <2>2, <2>3
<1> QED BY <1>1, Invariance, PTL

\* Sessions of the same keys come from the same two messages.
LEMMA SameSession ==
    ASSUME IInv, NEW x \in Initiations, NEW m \in Responses, Answers(m, x),
           NEW y \in Initiations, NEW l \in Responses, Answers(l, y),
           NEW i \in {0, 1}, NEW j \in {0, 1},
           T(AnswerChain(Sender(x), x.n, Salt(m)), i) = T(AnswerChain(Sender(y), y.n, Salt(l)), j)
    PROVE  x = y /\ m = l /\ i = j
<1>1. x.n = y.n /\ Salt(m) = Salt(l) /\ i = j
  BY TransportKey, TermsDiffer
<1> QED BY <1>1 DEF IInv, InitiationsInv, ResponsesInv

\* A response answers one initiation.
LEMMA SameAnswer ==
    ASSUME IInv, NEW x \in Initiations, NEW y \in Initiations, NEW m, Answers(m, x), Answers(m, y)
    PROVE  x = y
<1>1. m.ct_ee.pk = EphemeralK(x.n) /\ m.ct_ee.pk = EphemeralK(y.n)
  BY DEF Answers, Encapsulate
<1>2. EphemeralK(x.n)[2] = EphemeralK(y.n)[2] BY <1>1
<1>3. x.n = y.n BY <1>2 DEF EphemeralK
<1> QED BY <1>3 DEF IInv, InitiationsInv

\* DeriveSessionKeys gives both ends the same keys, crossed, with crossed
\* indices, and the responder knows whose session it is.
THEOREM Agreement == Spec => []KeyAgreement
<1>1. ASSUME IInv PROVE KeyAgreement
  <2> SUFFICES ASSUME NEW i \in idone, NEW r \in rdone,
                      {i.send_key, i.receive_key} \cap {r.send_key, r.receive_key} # {}
               PROVE  /\ i.send_key = r.receive_key
                      /\ i.receive_key = r.send_key
                      /\ i.local_index = r.remote_index
                      /\ i.remote_index = r.local_index
                      /\ r.peer = StaticX(i.peer)
    BY DEF KeyAgreement
  <2>1. PICK x \in Initiations, m \in Responses : Answers(m, x) /\ i = InitiatorEnd(x, m)
    BY <1>1 DEF IInv, KeypairsInv
  <2>2. PICK y \in Initiations, l \in Responses : Answers(l, y) /\ r = ResponderEnd(y, l)
    BY <1>1 DEF IInv, KeypairsInv
  <2> DEFINE C == AnswerChain(Sender(x), x.n, Salt(m))
             D == AnswerChain(Sender(y), y.n, Salt(l))
  <2>3. /\ i.send_key = T(C, 0) /\ i.receive_key = T(C, 1)
        /\ r.send_key = T(D, 1) /\ r.receive_key = T(D, 0)
    BY <2>1, <2>2 DEF InitiatorEnd, ResponderEnd
  <2> HIDE DEF C, D
  <2>4. \E a, b \in {0, 1} : T(C, a) = T(D, b) BY <2>3
  <2>5. x = y /\ m = l BY <1>1, <2>1, <2>2, <2>4, SameSession DEF C, D
  <2> QED BY <2>1, <2>2, <2>5 DEF InitiatorEnd, ResponderEnd
<1> QED BY <1>1, Invariance, PTL

\* Two sessions of one side differ in keys and, on one host, in index.
THEOREM DistinctSessions == Spec => []SessionsDistinct
<1>1. ASSUME IInv PROVE SessionsDistinct
  <2> USE <1>1 DEF IInv
  <2>1. ASSUME NEW i \in idone, NEW j \in idone,
               i.send_key = j.send_key \/ (i.peer = j.peer /\ i.local_index = j.local_index)
        PROVE  i = j
    <3>1. PICK x \in Initiations, m \in Responses : Answers(m, x) /\ i = InitiatorEnd(x, m)
      BY DEF KeypairsInv
    <3>2. PICK y \in Initiations, l \in Responses : Answers(l, y) /\ j = InitiatorEnd(y, l)
      BY DEF KeypairsInv
    <3>3. CASE i.send_key = j.send_key BY <3>3 DEF KeypairsInv
    <3>4. CASE i.peer = j.peer /\ i.local_index = j.local_index
      <4>1. Sender(x) = Sender(y) /\ x.sender_index = y.sender_index
        BY <3>1, <3>2, <3>4 DEF InitiatorEnd
      <4>2. x = y BY <4>1 DEF InitiationsInv
      <4>3. /\ i.send_key.chain[1] = EphemeralX(x.n)
            /\ j.send_key.chain[1] = EphemeralX(y.n)
        BY <3>1, <3>2, TransportKey DEF InitiatorEnd
      <4> QED BY <4>2, <4>3 DEF KeypairsInv
    <3> QED BY <2>1, <3>3, <3>4
  <2>2. ASSUME NEW i \in rdone, NEW j \in rdone,
               i.send_key = j.send_key \/ i.local_index = j.local_index
        PROVE  i = j
    <3>1. PICK x \in Initiations, m \in Responses : Answers(m, x) /\ i = ResponderEnd(x, m)
      BY DEF KeypairsInv
    <3>2. PICK y \in Initiations, l \in Responses : Answers(l, y) /\ j = ResponderEnd(y, l)
      BY DEF KeypairsInv
    <3>3. CASE i.send_key = j.send_key
      <4>1. T(AnswerChain(Sender(x), x.n, Salt(m)), 1) = T(AnswerChain(Sender(y), y.n, Salt(l)), 1)
        BY <3>1, <3>2, <3>3 DEF ResponderEnd
      <4>2. x = y /\ m = l BY <3>1, <3>2, <4>1, SameSession
      <4> QED BY <3>1, <3>2, <4>2
    <3>4. CASE i.local_index = j.local_index
      <4>1. m.sender_index = l.sender_index
        BY <3>1, <3>2, <3>4 DEF ResponderEnd
      <4>2. m = l BY <4>1 DEF ResponsesInv
      <4>3. x = y BY <3>1, <3>2, <4>2, SameAnswer
      <4> QED BY <3>1, <3>2, <4>2, <4>3
    <3> QED BY <2>2, <3>3, <3>4
  <2> QED BY <2>1, <2>2 DEF SessionsDistinct
<1> QED BY <1>1, Invariance, PTL

\* An initiator with another static key for the responder, of either kind,
\* completes nothing: both keys are in the transcript that the first tag covers.
THEOREM Misconfiguration == Spec => []MisconfiguredNeverConnects
<1>1. ASSUME IInv PROVE MisconfiguredNeverConnects
  <2> USE <1>1 DEF IInv
  <2>1. ASSUME NEW i \in idone PROVE i.peer \notin WrongX \cup WrongK
    <3>1. PICK x \in Initiations, m \in Responses : Answers(m, x) /\ i = InitiatorEnd(x, m)
      BY DEF KeypairsInv
    <3> QED BY <3>1 DEF InitiatorEnd, Answers
  <2>2. ASSUME NEW r \in rdone, NEW p \in WrongX \cup WrongK PROVE r.peer # StaticX(p)
    <3>1. PICK x \in Initiations, m \in Responses : Answers(m, x) /\ r = ResponderEnd(x, m)
      BY DEF KeypairsInv
    <3>2. r.peer = StaticX(Sender(x)) /\ Sender(x) # p
      BY <3>1 DEF ResponderEnd, Answers
    <3> QED BY <3>2, TermsDiffer
  <2> QED BY <2>1, <2>2 DEF MisconfiguredNeverConnects
<1> QED BY <1>1, Invariance, PTL

-----------------------------------------------------------------------------
\* The abstract key exchange

\* What the abstract state is, by the messages.
LEMMA Observed ==
    /\ Offers = {m.n : m \in Initiations} /\ Offers' = {m.n : m \in Initiations'}
    /\ Answered = {m.ct_ee.pk[2] : m \in Responses}
    /\ Answered' = {m.ct_ee.pk[2] : m \in Responses'}
BY DEF Offers, Answered, Initiations, Responses

\* A handshake in progress is one of the offers of its initiator.
LEMMA PendingOffer ==
    ASSUME IInv, NEW p \in Initiator, ihs[p].state # "Zeroed"
    PROVE  \E x \in Initiations :
              Sender(x) = p /\ ihs[p].C[1] = EphemeralX(x.n) /\ Pending[p] = x.n
<1>1. PICK x \in Initiations : Sender(x) = p /\ ihs[p].C[1] = EphemeralX(x.n)
  BY OfferFirst, AnswerFirst DEF IInv, TypeInv, InitiatorInv
<1>2. Pending[p] = x.n
  BY <1>1, TermsDiffer DEF Pending
<1> QED BY <1>1, <1>2

\* What a keypair of an initiator says of its offer.
LEMMA AgreedOffer ==
    ASSUME IInv, NEW k \in idone
    PROVE  k.send_key.chain[1] = EphemeralX(k.send_key.chain[1][2])
<1>1. PICK x \in Initiations, m \in Responses : k = InitiatorEnd(x, m)
  BY DEF IInv, KeypairsInv
<1>2. k.send_key.chain[1] = EphemeralX(x.n)
  BY <1>1, TransportKey DEF InitiatorEnd
<1> QED BY <1>2, TermsDiffer

\* CreateMessageInitiation makes an offer.
LEMMA OfferStep ==
    ASSUME IInv, IInv', NEW p \in Initiator, CreateMessageInitiation(p)
    PROVE  KeyExchange!Offer(p)
<1> DEFINE n == fresh + 1
<1>1. fresh' = n /\ idone' = idone BY DEF CreateMessageInitiation
<1>2. PICK i \in NewIndex(itable[p]) :
        LET t == InitiationTranscript(p, n, stamps'[p])
        IN  /\ ihs' = [ihs EXCEPT ![p] = [@ EXCEPT !.state = "InitiationCreated",
                           !.C = t.C, !.H = t.H, !.ephemeral = n, !.local_index = i]]
            /\ net' = net \cup {InitiationMsg(i, n, t)}
  BY <1>1 DEF CreateMessageInitiation
<1> DEFINE t == InitiationTranscript(p, n, stamps'[p])
           x == InitiationMsg(i, n, t)
<1>3. x.type = "initiation" /\ x.n = n BY InitiationParts
<1>4. t.C = OfferChain(p, n) BY OfferChainIs
<1>5. /\ ihs'[p].state = "InitiationCreated" /\ ihs'[p].C = t.C
      /\ \A q \in Initiator : q # p => ihs'[q] = ihs[q]
  BY <1>2 DEF IInv, TypeInv, HandshakeFields
<1>6. net' = net \cup {x} BY <1>2
<1> HIDE DEF t, x
<1>7. Initiations' = Initiations \cup {x} /\ Responses' = Responses
  BY <1>3, <1>6 DEF Initiations, Responses
<1>8. ihs'[p].C[1] = EphemeralX(n) BY <1>4, <1>5, OfferFirst
<1>9. Pending'[p] = n BY <1>5, <1>8, TermsDiffer DEF Pending
<1>10. \A m \in Initiations : m.n # n
  BY DEF IInv, InitiationsInv, TypeInv
<1>11. n \notin Offers /\ Offers' = Offers \cup {n} /\ Answered' = Answered
  BY <1>3, <1>7, <1>10, Observed
<1>12. Agreed' = Agreed BY <1>1 DEF Agreed
<1>13. Pending' = [Pending EXCEPT ![p] = Pending'[p]]
  BY <1>5 DEF Pending
<1> QED BY <1>9, <1>11, <1>12, <1>13 DEF KeyExchange!Offer

\* CreateMessageResponse answers an offer, perhaps once more.
LEMMA AnswerStep ==
    ASSUME IInv, IInv', NEW q \in Initiator, CreateMessageResponse(q)
    PROVE  \/ \E o \in Offers : KeyExchange!Answer(o)
           \/ UNCHANGED KeyExchange!vars
<1>1. PICK m : net' = net \cup {m} /\ m.type = "response"
  <2> DEFINE r == fresh + 1
             h == rhs[q]
             er == EphemeralX(r)
             ct_ee == Encapsulate(h.remote.ek, r)
             ct_se == Encapsulate(h.remote.sk, r)
             t == ResponseTranscript(h.C, h.H, er,
                      DH(er, h.remote.ex), KemSecret(ct_ee), ct_ee,
                      DH(er, h.remote.sx), KemSecret(ct_se), ct_se)
             enc == Encrypt(t.key, t.H, "empty")
  <2>1. fresh' = r BY DEF CreateMessageResponse
  <2>2. PICK i \in NewIndex(rtable) :
          net' = net \cup {ResponseMsg(i, h.remote_index, er, ct_ee, ct_se, enc)}
    BY <2>1 DEF CreateMessageResponse
  <2> DEFINE m == ResponseMsg(i, h.remote_index, er, ct_ee, ct_se, enc)
  <2>3. net' = net \cup {m} BY <2>2
  <2>4. m.type = "response" BY DEF ResponseMsg
  <2> HIDE DEF m
  <2> QED BY <2>3, <2>4
<1>2. Initiations' = Initiations /\ Responses' = Responses \cup {m}
  BY <1>1 DEF Initiations, Responses
<1>3. PICK x \in Initiations : Answers(m, x)
  BY <1>2 DEF IInv, ResponsesInv
<1>4. m.ct_ee.pk[2] = x.n
  BY <1>3, TermsDiffer DEF Answers, Encapsulate
<1>5. x.n \in Offers /\ Offers' = Offers /\ Answered' = Answered \cup {x.n}
  BY <1>2, <1>4, Observed
<1>6. Agreed' = Agreed /\ Pending' = Pending
  BY DEF CreateMessageResponse, Agreed, Pending
<1>7. CASE x.n \in Answered
  BY <1>5, <1>6, <1>7 DEF KeyExchange!vars
<1>8. CASE x.n \notin Answered
  BY <1>5, <1>6, <1>8 DEF KeyExchange!Answer
<1> QED BY <1>7, <1>8

\* DeriveSessionKeys of an initiator agrees on its pending offer.
LEMMA AgreeStep ==
    ASSUME IInv, NEW p \in Initiator, DeriveInitiator(p)
    PROVE  KeyExchange!Agree(p)
<1> DEFINE k == Keypair(ihs[p], p, TRUE)
<1>1. /\ ihs[p].state = "ResponseConsumed" /\ idone' = idone \cup {k} /\ net' = net
      /\ ihs' = [ihs EXCEPT ![p] = Wipe(@)]
  BY DEF DeriveInitiator
<1>2. Offers' = Offers /\ Answered' = Answered
  BY <1>1 DEF Offers, Answered
<1>3. PICK x \in Initiations, m \in Responses :
        /\ Answers(m, x) /\ Sender(x) = p
        /\ ihs[p].C = AnswerChain(p, x.n, Salt(m))
  BY <1>1 DEF IInv, InitiatorInv
<1>4. k.send_key = T(AnswerChain(p, x.n, Salt(m)), 0)
  BY <1>3 DEF Keypair
<1> HIDE DEF k
<1>5. ihs[p].C[1] = EphemeralX(x.n) /\ k.send_key.chain[1] = EphemeralX(x.n)
  BY <1>3, <1>4, AnswerFirst, TransportKey
<1>6. Pending[p] = x.n
  BY <1>1, <1>5, TermsDiffer DEF Pending
<1>7. x.n \in Answered
  BY <1>3, Observed, TermsDiffer DEF Answers, Encapsulate
<1>8. x.n \notin Agreed
  <2> SUFFICES ASSUME NEW l \in idone, l.send_key.chain[1][2] = x.n PROVE FALSE
    BY DEF Agreed
  <2>1. l.send_key.chain[1] = EphemeralX(x.n) BY AgreedOffer
  <2> QED BY <1>1, <1>5, <2>1 DEF IInv, KeypairsInv
<1>9. Agreed' = Agreed \cup {x.n}
  BY <1>1, <1>5, TermsDiffer DEF Agreed
<1>10. Pending' = [Pending EXCEPT ![p] = 0]
  <2>1. ihs'[p].state = "Zeroed" /\ \A q \in Initiator : q # p => ihs'[q] = ihs[q]
    BY <1>1 DEF IInv, TypeInv, HandshakeFields, Wipe
  <2> QED BY <2>1 DEF Pending
<1> QED BY <1>2, <1>6, <1>7, <1>8, <1>9, <1>10 DEF KeyExchange!Agree

\* The other functions change nothing that the abstract exchange sees.
LEMMA StutterStep ==
    ASSUME net' = net, idone' = idone, Pending' = Pending
    PROVE  UNCHANGED KeyExchange!vars
BY DEF KeyExchange!vars, Offers, Answered, Agreed

\* The five functions implement the key exchange: an initiator completes only
\* the initiation it has in progress, once, after the responder answered it.
THEOREM Refinement == Spec => ImplementsKeyExchange
<1>1. Init => KeyExchange!Init
  BY DEF Init, KeyExchange!Init, Offers, Answered, Agreed, Pending, ZeroHandshake
<1>2. ASSUME IInv, IInv', [Next]_vars PROVE [KeyExchange!Next]_(KeyExchange!vars)
  <2> USE <1>2
  <2>1. ASSUME NEW p \in Initiator, CreateMessageInitiation(p)
        PROVE  [KeyExchange!Next]_(KeyExchange!vars)
    BY <2>1, OfferStep DEF KeyExchange!Next
  <2>2. ASSUME NEW p \in Initiator, NEW m \in net, ConsumeMessageInitiation(p, m)
        PROVE  [KeyExchange!Next]_(KeyExchange!vars)
    BY <2>2, StutterStep DEF ConsumeMessageInitiation, Pending
  <2>3. ASSUME NEW p \in Initiator, RateElapses(p)
        PROVE  [KeyExchange!Next]_(KeyExchange!vars)
    BY <2>3, StutterStep DEF RateElapses, Pending
  <2>4. ASSUME NEW p \in Initiator, CreateMessageResponse(p)
        PROVE  [KeyExchange!Next]_(KeyExchange!vars)
    BY <2>4, AnswerStep DEF KeyExchange!Next
  <2>5. ASSUME NEW p \in Initiator, NEW m \in net, ConsumeMessageResponse(p, m)
        PROVE  [KeyExchange!Next]_(KeyExchange!vars)
    <3>1. net' = net /\ idone' = idone /\ ihs[p].state # "Zeroed" /\ m \in Responses
      BY <2>5 DEF ConsumeMessageResponse, Responses
    <3>2. /\ ihs'[p].state # "Zeroed"
          /\ \A q \in Initiator : q # p => ihs'[q] = ihs[q]
      BY <2>5 DEF ConsumeMessageResponse, IInv, TypeInv, HandshakeFields
    <3>3. ihs'[p].C[1] = ihs[p].C[1]
      <4>1. PICK x \in Initiations : x.n = ihs[p].ephemeral /\ ihs[p].C = OfferChain(p, x.n)
        BY <2>5 DEF ConsumeMessageResponse, IInv, InitiatorInv
      <4>2. PICK y \in Initiations : Answers(m, y)
        BY <3>1 DEF IInv, ResponsesInv
      <4>3. /\ y.n = x.n
            /\ AnsweredTranscript(p, m).C = AnswerChain(Sender(y), y.n, Salt(m))
        BY <2>5, <4>1, <4>2, Opened DEF ConsumeMessageResponse
      <4>4. ihs'[p].C = AnsweredTranscript(p, m).C
        BY <2>5 DEF ConsumeMessageResponse, IInv, TypeInv, HandshakeFields
      <4> QED BY <4>1, <4>3, <4>4, OfferFirst, AnswerFirst
    <3>4. Pending' = Pending BY <3>1, <3>2, <3>3 DEF Pending
    <3> QED BY <3>1, <3>4, StutterStep
  <2>6. ASSUME NEW p \in Initiator, DeriveInitiator(p)
        PROVE  [KeyExchange!Next]_(KeyExchange!vars)
    BY <2>6, AgreeStep DEF KeyExchange!Next
  <2>7. ASSUME NEW p \in Initiator, DeriveResponder(p)
        PROVE  [KeyExchange!Next]_(KeyExchange!vars)
    BY <2>7, StutterStep DEF DeriveResponder, Pending
  <2>8. ASSUME NEW p \in Initiator, PromoteNext(p)
        PROVE  [KeyExchange!Next]_(KeyExchange!vars)
    BY <2>8, StutterStep DEF PromoteNext, Pending
  <2>9. CASE UNCHANGED vars
    BY <2>9, StutterStep DEF vars, Pending
  <2> QED BY <2>1, <2>2, <2>3, <2>4, <2>5, <2>6, <2>7, <2>8, <2>9 DEF Next
<1> QED BY <1>1, <1>2, Invariance, PTL DEF Spec, KeyExchange!Spec, ImplementsKeyExchange
=============================================================================
