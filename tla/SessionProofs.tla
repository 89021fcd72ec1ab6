--------------------------- MODULE SessionProofs ----------------------------
(***************************************************************************)
(* Proofs about Session: for every window size, modulus, limit and number  *)
(* of Seal calls that satisfy the assumptions, nonces are never reused,    *)
(* the replay window is an exact memory, and the session implements the    *)
(* at-most-once channel.                                                   *)
(***************************************************************************)
EXTENDS Session, TLAPS

-----------------------------------------------------------------------------
(* The window is an exact memory of the counters it accepted.              *)

\* Unsigned arithmetic below the modulus, as fetch_add and Check use it.
LEMMA ModSmall ==
    ASSUME NEW n \in Nat, NEW d \in Nat, n < d
    PROVE  n % d = n
OBVIOUS

\* The sum in ReplayWindow::Check does not wrap for a counter below the
\* limit.
LEMMA WindowEndExact ==
    ASSUME NEW c \in Counter
    PROVE  WindowEnd(c) = c + kWindowSize
<1>1. c \in Nat /\ c + kWindowSize \in Nat /\ c + kWindowSize < U64
  BY WindowAssumption DEF Counter
<1> QED BY <1>1, ModSmall, WindowAssumption DEF WindowEnd

\* What a window remembers of a set of counters: nothing in the set is
\* above last, and bit p is set exactly when last - p is in the set.
Remembers(w, S) ==
    /\ \A c \in S : c \in Counter /\ c <= w.last
    /\ \A p \in 0 .. (kWindowSize - 1) :
           p \in w.bitmap <=> (p <= w.last /\ (w.last - p) \in S)

\* A default-constructed window remembers the empty set.
LEMMA EmptyRemembers == EmptyWindow \in Window /\ Remembers(EmptyWindow, {})
BY WindowAssumption DEF EmptyWindow, Window, Counter, Remembers

\* ReplayWindow::Check of a window that remembers S decides membership in S
\* exactly, for every counter still inside the window.
LEMMA CheckExact ==
    ASSUME NEW w \in Window, NEW S, Remembers(w, S), NEW c \in Counter
    PROVE  Check(w, c) <=> c \notin S /\ c + kWindowSize > w.last
<1>1. WindowEnd(c) = c + kWindowSize BY WindowEndExact
<1>2. c \in Nat /\ w.last \in Nat /\ kWindowSize \in Nat
  BY WindowAssumption DEF Counter, Window
<1>3. CASE c > w.last
  BY <1>2, <1>3 DEF Check, Remembers
<1>4. CASE c <= w.last /\ c + kWindowSize > w.last
  <2>1. w.last - c \in 0 .. (kWindowSize - 1) /\ w.last - c <= w.last
    BY <1>2, <1>4
  <2>2. w.last - (w.last - c) = c BY <1>2
  <2>3. (w.last - c) \in w.bitmap <=> c \in S
    BY <2>1, <2>2 DEF Remembers
  <2> QED BY <1>1, <1>2, <1>4, <2>3 DEF Check
<1>5. CASE c <= w.last /\ ~(c + kWindowSize > w.last)
  BY <1>1, <1>2, <1>5 DEF Check
<1> QED BY <1>2, <1>3, <1>4, <1>5

\* ReplayWindow::Accept after a successful Check adds the counter to what
\* the window remembers, and nothing else.
LEMMA AcceptRemembers ==
    ASSUME NEW w \in Window, NEW S, Remembers(w, S), NEW c \in Counter,
           Check(w, c)
    PROVE  Accept(w, c) \in Window /\ Remembers(Accept(w, c), S \cup {c})
<1>1. c \in Nat /\ w.last \in Nat /\ kWindowSize \in Nat \ {0}
  BY WindowAssumption DEF Counter, Window
<1>2. w = [last |-> w.last, bitmap |-> w.bitmap] BY DEF Window
<1>3. CASE c > w.last
  <2> DEFINE b == ShiftLeft(w.bitmap, c - w.last) \cup {0}
  <2>1. Accept(w, c) = [last |-> c, bitmap |-> b] BY <1>3 DEF Accept
  <2>2. b \subseteq 0 .. (kWindowSize - 1) BY <1>1 DEF ShiftLeft
  <2>3. Accept(w, c) \in Window BY <2>1, <2>2 DEF Window
  <2>4. \A x \in S \cup {c} : x \in Counter /\ x <= c
    BY <1>1, <1>3 DEF Remembers, Counter
  <2>5. ASSUME NEW p \in 0 .. (kWindowSize - 1)
        PROVE  p \in b <=> (p <= c /\ (c - p) \in S \cup {c})
    <3>1. CASE p = 0 BY <1>1, <3>1
    <3>2. CASE p # 0 /\ p >= c - w.last
      <4>1. p - (c - w.last) \in 0 .. (kWindowSize - 1) BY <1>1, <1>3, <3>2
      <4>2. p \in b <=> p - (c - w.last) \in w.bitmap
        BY <1>1, <3>2 DEF ShiftLeft
      <4>3. w.last - (p - (c - w.last)) = c - p BY <1>1
      <4>4. p - (c - w.last) <= w.last <=> p <= c BY <1>1
      <4>5. p \in b <=> (p <= c /\ (c - p) \in S)
        BY <4>1, <4>2, <4>3, <4>4 DEF Remembers
      <4>6. c - p # c BY <1>1, <3>2
      <4> QED BY <4>5, <4>6
    <3>3. CASE p # 0 /\ p < c - w.last
      <4>1. p \notin b BY <1>1, <3>3 DEF ShiftLeft
      <4>2. c - p > w.last /\ c - p # c BY <1>1, <3>3
      <4>3. (c - p) \notin S BY <1>1, <4>2 DEF Remembers
      <4> QED BY <4>1, <4>2, <4>3
    <3> QED BY <1>1, <3>1, <3>2, <3>3
  <2> QED BY <2>1, <2>3, <2>4, <2>5 DEF Remembers
<1>4. CASE c <= w.last
  <2>1. c + kWindowSize > w.last BY CheckExact
  <2>2. w.last - c \in 0 .. (kWindowSize - 1) BY <1>1, <1>4, <2>1
  <2>3. Accept(w, c) = [last |-> w.last, bitmap |-> w.bitmap \cup {w.last - c}]
    BY <1>1, <1>2, <1>4 DEF Accept
  <2>4. Accept(w, c) \in Window BY <2>2, <2>3 DEF Window
  <2>5. \A x \in S \cup {c} : x \in Counter /\ x <= w.last
    BY <1>4 DEF Remembers
  <2>6. ASSUME NEW p \in 0 .. (kWindowSize - 1)
        PROVE  p \in w.bitmap \cup {w.last - c}
               <=> (p <= w.last /\ (w.last - p) \in S \cup {c})
    <3>1. p = w.last - c <=> (p <= w.last /\ w.last - p = c)
      BY <1>1, <1>4
    <3> QED BY <3>1 DEF Remembers
  <2> QED BY <2>3, <2>4, <2>5, <2>6 DEF Remembers
<1> QED BY <1>1, <1>3, <1>4

-----------------------------------------------------------------------------
(* The data plane.                                                         *)

\* The header counter send_nonce - 1 in unsigned arithmetic.
LEMMA ModPlus ==
    ASSUME NEW n \in Nat, NEW d \in Nat, n < d
    PROVE  (n + d) % d = n
OBVIOUS

\* fetch_add at the top of the range.
LEMMA ModSame ==
    ASSUME NEW d \in Nat \ {0}
    PROVE  d % d = 0
OBVIOUS

-----------------------------------------------------------------------------
\* The nonce of a packet is the number of the Seal call that made it.
NonceInv ==
    /\ send_nonce = IF seals = U64 THEN 0 ELSE seals
    /\ \A m \in wire : m.counter = m.plaintext /\ m.counter < seals

\* The inductive invariant: types, the nonce discipline, and the window as
\* the memory of the opened counters.
IInv == TypeOK /\ NonceInv /\ Remembers(window, Opened)

\* A packet is its two fields.
LEMMA PacketFields ==
    ASSUME NEW m \in Packet
    PROVE  /\ m = [counter |-> m.counter, plaintext |-> m.plaintext]
           /\ m.counter \in Counter
BY DEF Packet

\* Opening a packet adds its counter to the opened ones.
LEMMA OpenedAppend ==
    ASSUME NEW T, NEW s \in Seq(T), NEW m \in T
    PROVE  {Append(s, m)[i].counter : i \in 1 .. Len(Append(s, m))}
           = {s[i].counter : i \in 1 .. Len(s)} \cup {m.counter}
<1>1. Len(Append(s, m)) = Len(s) + 1 /\ Len(s) \in Nat OBVIOUS
<1>2. \A i \in 1 .. Len(s) : Append(s, m)[i] = s[i] OBVIOUS
<1>3. Append(s, m)[Len(s) + 1] = m OBVIOUS
<1>4. 1 .. (Len(s) + 1) = (1 .. Len(s)) \cup {Len(s) + 1} BY <1>1
<1> QED BY <1>1, <1>2, <1>3, <1>4

\* Seal keeps the nonce discipline, at the limit and at the modulus too.
LEMMA SealStep == IInv /\ Seal => IInv'
<1> SUFFICES ASSUME IInv, Seal PROVE IInv'
  OBVIOUS
<1> USE DEF IInv
<1>1. /\ U64 \in Nat \ {0} /\ MaxSeals \in Nat /\ MaxSeals <= U64
      /\ kRejectAfterMessages \in Nat \ {0} /\ kRejectAfterMessages <= U64
  BY WindowAssumption, SealsAssumption
<1>2. seals \in Nat /\ seals < U64 /\ send_nonce = seals
  BY <1>1 DEF Seal, TypeOK, NonceInv
<1>3. seals' = seals + 1 /\ seals' \in 0 .. MaxSeals
  BY <1>1, <1>2 DEF Seal
<1>4. /\ send_nonce' \in 0 .. (U64 - 1)
      /\ send_nonce' = IF seals' = U64 THEN 0 ELSE seals'
  <2>1. CASE seals + 1 = U64
    BY <1>1, <1>2, <1>3, <2>1, ModSame DEF Seal
  <2>2. CASE seals + 1 < U64
    BY <1>1, <1>2, <1>3, <2>2, ModSmall DEF Seal
  <2> QED BY <1>1, <1>2, <2>1, <2>2
<1>5. CASE send_nonce >= kRejectAfterMessages
  <2>1. wire' = wire BY <1>5 DEF Seal
  <2>2. TypeOK' BY <1>3, <1>4, <2>1 DEF Seal, TypeOK
  <2>3. \A m \in wire : m.counter \in Nat
    BY DEF TypeOK, Packet, Counter
  <2>4. NonceInv' BY <1>2, <1>3, <1>4, <2>1, <2>3 DEF NonceInv
  <2>5. Opened' = Opened /\ window' = window BY DEF Seal, Opened
  <2> QED BY <2>2, <2>4, <2>5 DEF Remembers
<1>6. CASE send_nonce < kRejectAfterMessages
  <2> DEFINE m == [counter |-> seals, plaintext |-> seals]
  <2>1. HeaderCounter(send_nonce') = seals
    <3>1. CASE seals + 1 = U64
      <4>1. send_nonce' + U64 - 1 = seals BY <1>1, <1>2, <1>3, <1>4, <3>1
      <4> QED BY <1>1, <1>2, <4>1, ModSmall DEF HeaderCounter
    <3>2. CASE seals + 1 < U64
      <4>1. send_nonce' + U64 - 1 = seals + U64 BY <1>1, <1>2, <1>3, <1>4, <3>2
      <4> QED BY <1>1, <1>2, <4>1, ModPlus DEF HeaderCounter
    <3> QED BY <1>1, <1>2, <3>1, <3>2
  <2>2. wire' = wire \cup {m} BY <1>1, <1>2, <1>6, <2>1 DEF Seal
  <2>3. m \in Packet
    BY <1>1, <1>2, <1>6 DEF Packet, Counter, Seal
  <2>4. log' = log /\ log \in Seq(wire \cup {m})
    BY DEF Seal, TypeOK
  <2>5. TypeOK' BY <1>3, <1>4, <2>2, <2>3, <2>4 DEF Seal, TypeOK
  <2>6. \A n \in wire : n.counter \in Nat
    BY DEF TypeOK, Packet, Counter
  <2>7. NonceInv' BY <1>2, <1>3, <1>4, <2>2, <2>6 DEF NonceInv
  <2>8. Opened' = Opened /\ window' = window BY DEF Seal, Opened
  <2> QED BY <2>5, <2>7, <2>8 DEF Remembers
<1> QED BY <1>1, <1>2, <1>5, <1>6

\* Open keeps the window a memory of the opened counters.
LEMMA OpenStep ==
    ASSUME IInv, NEW m \in wire, Open(m)
    PROVE  IInv'
<1> USE DEF IInv
<1>1. m \in Packet /\ m.counter \in Counter BY PacketFields DEF TypeOK
<1>2. CASE ~Check(window, m.counter)
  BY <1>2 DEF Open, TypeOK, NonceInv, Opened, Verdicts, Remembers
<1>3. CASE Check(window, m.counter)
  <2>1. /\ window' = Accept(window, m.counter) /\ log' = Append(log, m)
        /\ wire' = wire /\ seals' = seals /\ send_nonce' = send_nonce
        /\ verdict' = "opened"
    BY <1>3 DEF Open
  <2>2. Opened' = Opened \cup {m.counter}
    BY <2>1, OpenedAppend DEF Opened, TypeOK
  <2>3. window' \in Window /\ Remembers(window', Opened')
    BY <1>1, <1>3, <2>1, <2>2, AcceptRemembers DEF TypeOK
  <2>4. TypeOK' BY <2>1, <2>3 DEF TypeOK, Verdicts
  <2>5. NonceInv' BY <2>1 DEF NonceInv
  <2> QED BY <2>3, <2>4, <2>5 DEF Remembers
<1> QED BY <1>2, <1>3

\* IInv is inductive.
LEMMA Inductive == IInv /\ [Next]_vars => IInv'
<1> SUFFICES ASSUME IInv, [Next]_vars PROVE IInv'
  OBVIOUS
<1>1. CASE Seal BY <1>1, SealStep
<1>2. ASSUME NEW m \in wire, Open(m) PROVE IInv' BY <1>2, OpenStep
<1>3. ASSUME NEW c \in 0 .. (U64 - 1), OpenDamaged(c) PROVE IInv'
  BY <1>3 DEF IInv, OpenDamaged, TypeOK, NonceInv, Opened, Verdicts, Remembers
<1>4. CASE UNCHANGED vars
  BY <1>4 DEF IInv, vars, TypeOK, NonceInv, Opened, Remembers
<1> QED BY <1>1, <1>2, <1>3, <1>4 DEF Next

\* IInv holds initially.
LEMMA Initially == Init => IInv
<1> SUFFICES ASSUME Init PROVE IInv
  OBVIOUS
<1>1. Opened = {} BY DEF Init, Opened
<1>2. TypeOK
  BY WindowAssumption, SealsAssumption, EmptyRemembers
  DEF Init, TypeOK, Verdicts
<1>3. NonceInv BY WindowAssumption DEF Init, NonceInv
<1> QED BY <1>1, <1>2, <1>3, EmptyRemembers DEF Init, IInv

\* IInv is an invariant: send_nonce counts the calls of Seal, the packets on
\* the wire carry the counters before it, and the window of the receiver
\* remembers what Open returned.
THEOREM Invariance == Spec => []IInv
BY Initially, Inductive, PTL DEF Spec

-----------------------------------------------------------------------------
\* Both ends of a session and the packets between them keep their types.
THEOREM TypeCorrect == Spec => []TypeOK
<1>1. IInv => TypeOK BY DEF IInv
<1> QED BY <1>1, Invariance, PTL

\* Session::Seal never uses a nonce twice, for any number of calls up to
\* 2^64, those refused at kRejectAfterMessages included.
THEOREM NoncesUnique == Spec => []NonceUnique
<1>1. ASSUME IInv PROVE NonceUnique
  <2> SUFFICES ASSUME NEW m \in wire, NEW n \in wire, m.counter = n.counter
               PROVE  m = n
    BY DEF NonceUnique
  <2>1. m \in Packet /\ n \in Packet BY <1>1 DEF IInv, TypeOK
  <2>2. m.plaintext = n.plaintext BY <1>1 DEF IInv, NonceInv
  <2> QED BY <2>1, <2>2, PacketFields
<1> QED BY <1>1, Invariance, PTL

\* ReplayWindow::Check refuses a counter exactly when Session::Open returned
\* it before or when it lies kWindowSize or more behind the highest one.
THEOREM WindowExact == Spec => []CheckIsExact
<1>1. ASSUME IInv PROVE CheckIsExact
  BY <1>1, CheckExact DEF IInv, TypeOK, CheckIsExact
<1> QED BY <1>1, Invariance, PTL

\* A session implements the at-most-once channel: what Open returns was
\* sealed by the other end and was not returned before.
THEOREM Refinement == Spec => ImplementsChannel
<1>1. Init => Channel!Init BY DEF Init, Channel!Init
<1>2. ASSUME IInv, [Next]_vars PROVE [Channel!Next]_(Channel!vars)
  <2>1. CASE Seal
    <3>1. CASE wire' = wire
      BY <2>1, <3>1 DEF Seal, Channel!vars
    <3>2. CASE wire' # wire
      <4>1. PICK p : wire' = wire \cup {p} /\ p \notin wire
        BY <2>1, <3>2 DEF Seal
      <4>2. p \in Packet BY <1>2, <4>1, <2>1, SealStep DEF IInv, TypeOK
      <4> QED BY <2>1, <4>1, <4>2 DEF Seal, Channel!Next, Channel!Send
    <3> QED BY <3>1, <3>2
  <2>2. ASSUME NEW m \in wire, Open(m) PROVE [Channel!Next]_(Channel!vars)
    <3>1. CASE ~Check(window, m.counter)
      BY <2>2, <3>1 DEF Open, Channel!vars
    <3>2. CASE Check(window, m.counter)
      <4>1. m.counter \in Counter BY <1>2, PacketFields DEF IInv, TypeOK
      <4>2. m.counter \notin Opened
        BY <1>2, <3>2, <4>1, CheckExact DEF IInv, TypeOK
      <4>3. ~Channel!HandedOut(m) BY <4>2 DEF Opened, Channel!HandedOut
      <4>4. log' = Append(log, m) /\ wire' = wire BY <2>2, <3>2 DEF Open
      <4> QED BY <4>3, <4>4 DEF Channel!Next, Channel!Deliver
    <3> QED BY <3>1, <3>2
  <2>3. ASSUME NEW c \in 0 .. (U64 - 1), OpenDamaged(c)
        PROVE  [Channel!Next]_(Channel!vars)
    BY <2>3 DEF OpenDamaged, Channel!vars
  <2>4. CASE UNCHANGED vars BY <2>4 DEF vars, Channel!vars
  <2> QED BY <1>2, <2>1, <2>2, <2>3, <2>4 DEF Next
<1> QED BY <1>1, <1>2, Invariance, PTL
        DEF Spec, Channel!Spec, ImplementsChannel
=============================================================================
