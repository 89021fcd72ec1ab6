------------------------- MODULE EventPollerProofs -------------------------
(***************************************************************************)
(* The three forms of EventPoller implement EventSet: the linear search on *)
(* Windows finds the only entry of a handle, the filters of kqueue are the *)
(* interest of their handle, and whatever a poll writes to the span it is  *)
(* given, no handle is there twice and none is missing that has room.      *)
(***************************************************************************)
EXTENDS EventPoller, FiniteSetTheorems, SequenceTheorems, WellFoundedInduction, TLAPS

Filter == {"Readable", "Writable"}
Conditions == {"Readable", "Writable", "Error", "Hangup"}
Entry == [fd : Handles, events : Masks]
Reports == [handle : Handles, mask : SUBSET Conditions]

-----------------------------------------------------------------------------
(* Induction, from the least element of a set of natural numbers.          *)

LEMMA Least ==
    ASSUME NEW T \in SUBSET Nat, T # {}
    PROVE  \E n \in T : \A m \in T : n <= m
<1>1. IsWellFoundedOn(OpToRel(<, Nat), Nat) BY NatLessThanWellFounded
<1>2. PICK x \in T : \A y \in T : ~(<<y, x>> \in OpToRel(<, Nat))
  BY <1>1, WFMin
<1>3. ASSUME NEW y \in T PROVE x <= y
  <2>1. ~(<<y, x>> \in OpToRel(<, Nat)) BY <1>2
  <2>2. x \in Nat /\ y \in Nat OBVIOUS
  <2>3. ~(y < x) BY <2>1, <2>2 DEF OpToRel
  <2> QED BY <2>2, <2>3
<1> QED BY <1>3

LEMMA Induction ==
    ASSUME NEW T, 0 \in T, \A n \in Nat : n \in T => n + 1 \in T
    PROVE  Nat \subseteq T
<1> SUFFICES ASSUME Nat \ T # {} PROVE FALSE OBVIOUS
<1>1. PICK n \in Nat \ T : \A m \in Nat \ T : n <= m BY Least
<1>2. n # 0 /\ n - 1 \in Nat /\ (n - 1) + 1 = n BY <1>1
<1>3. n - 1 \in T BY <1>1, <1>2
<1> QED BY <1>1, <1>2, <1>3

-----------------------------------------------------------------------------
(* The registries, as functions from handles to what is asked for.         *)

Extend(F, h, m) == [g \in DOMAIN F \cup {h} |-> IF g = h THEN m ELSE F[g]]
Drop(F, h) == [g \in DOMAIN F \ {h} |-> F[g]]

KqueueInterest(r) ==
    [h \in {k[1] : k \in r} |-> {f \in Filter : <<h, f>> \in r}]

ArrayInterest(r) ==
    [h \in {r[i].fd : i \in DOMAIN r} |-> r[Min({i \in DOMAIN r : r[i].fd = h})].events]

\* kqueue: who has a filter has the one for reading.
Kqueue(r) ==
    /\ r \subseteq Handles \X Filter
    /\ \A k \in r : <<k[1], "Readable">> \in r

\* The array: no handle has two entries.
Array(r) ==
    /\ r \in Seq(Entry)
    /\ \A i, j \in DOMAIN r : r[i].fd = r[j].fd => i = j

LEMMA KqueueReads ==
    ASSUME NEW r, Kqueue(r)
    PROVE  /\ \A h : h \in DOMAIN KqueueInterest(r) <=> <<h, "Readable">> \in r
           /\ \A h \in DOMAIN KqueueInterest(r) :
                 KqueueInterest(r)[h] = {f \in Filter : <<h, f>> \in r}
<1>1. DOMAIN KqueueInterest(r) = {k[1] : k \in r} BY DEF KqueueInterest
<1>2. ASSUME NEW h, <<h, "Readable">> \in r PROVE h \in {k[1] : k \in r}
  <2>1. <<h, "Readable">>[1] = h OBVIOUS
  <2> QED BY <1>2, <2>1
<1>3. ASSUME NEW h, h \in {k[1] : k \in r} PROVE <<h, "Readable">> \in r
  BY <1>3 DEF Kqueue
<1> QED BY <1>1, <1>2, <1>3 DEF KqueueInterest

LEMMA KqueueIs ==
    ASSUME NEW r, Kqueue(r), NEW F, F = [g \in DOMAIN F |-> F[g]],
           \A h : h \in DOMAIN F <=> <<h, "Readable">> \in r,
           \A h \in DOMAIN F : F[h] = {f \in Filter : <<h, f>> \in r}
    PROVE  KqueueInterest(r) = F
<1>1. DOMAIN KqueueInterest(r) = DOMAIN F BY KqueueReads
<1>2. \A h \in DOMAIN F : KqueueInterest(r)[h] = F[h] BY KqueueReads
<1>3. KqueueInterest(r) = [g \in DOMAIN KqueueInterest(r) |-> KqueueInterest(r)[g]]
  BY DEF KqueueInterest
<1> QED BY <1>1, <1>2, <1>3

LEMMA KqueueAdd ==
    ASSUME NEW r, Kqueue(r), NEW h \in Handles, NEW m \in Masks
    PROVE  LET F == KqueueInterest(r)
               s == r \cup ({h} \X m)
           IN  /\ Kqueue(s)
               /\ KqueueInterest(s)
                    = Extend(F, h, m \cup (IF h \in DOMAIN F THEN F[h] ELSE {}))
<1> DEFINE F == KqueueInterest(r)
           s == r \cup ({h} \X m)
           G == Extend(F, h, m \cup (IF h \in DOMAIN F THEN F[h] ELSE {}))
<1>1. m \subseteq Filter /\ "Readable" \in m BY PollerAssumption DEF Filter
<1>2. \A g, f : <<g, f>> \in s <=> <<g, f>> \in r \/ (g = h /\ f \in m) OBVIOUS
<1>3. Kqueue(s)
  <2>1. s \subseteq Handles \X Filter BY <1>1 DEF Kqueue
  <2>2. ASSUME NEW k \in s PROVE <<k[1], "Readable">> \in s
    <3>1. CASE k \in r BY <3>1 DEF Kqueue
    <3>2. CASE k \in {h} \X m BY <3>2, <1>1, <1>2
    <3> QED BY <3>1, <3>2
  <2> QED BY <2>1, <2>2 DEF Kqueue
<1>4. /\ \A g : g \in DOMAIN F <=> <<g, "Readable">> \in r
      /\ \A g \in DOMAIN F : F[g] = {f \in Filter : <<g, f>> \in r}
  BY KqueueReads
<1> HIDE DEF F, s
<1>5. \A g : g \in DOMAIN G <=> <<g, "Readable">> \in s
  BY <1>1, <1>2, <1>4 DEF Extend
<1>6. ASSUME NEW g \in DOMAIN G PROVE G[g] = {f \in Filter : <<g, f>> \in s}
  <2>1. CASE g # h BY <1>2, <1>4, <2>1 DEF Extend
  <2>2. CASE g = h
    <3>1. G[h] = m \cup (IF h \in DOMAIN F THEN F[h] ELSE {}) BY DEF Extend
    <3>2. \A f \in Filter : <<h, f>> \in r => h \in DOMAIN F
      <4> SUFFICES ASSUME NEW f \in Filter, <<h, f>> \in r PROVE <<h, "Readable">> \in r
        BY <1>4
      <4>1. <<h, f>>[1] = h OBVIOUS
      <4> QED BY <4>1 DEF Kqueue
    <3> QED BY <1>1, <1>2, <1>4, <2>2, <3>1, <3>2
  <2> QED BY <2>1, <2>2
<1>7. G = [g \in DOMAIN G |-> G[g]] BY DEF Extend
<1>8. KqueueInterest(s) = G
  <2> HIDE DEF G
  <2> QED BY <1>3, <1>5, <1>6, <1>7, KqueueIs
<1> QED BY <1>3, <1>8 DEF F, s

LEMMA KqueueRemove ==
    ASSUME NEW r, Kqueue(r), NEW h
    PROVE  LET s == {k \in r : k[1] # h}
           IN  /\ Kqueue(s)
               /\ KqueueInterest(s) = Drop(KqueueInterest(r), h)
<1> DEFINE F == KqueueInterest(r)
           s == {k \in r : k[1] # h}
           G == Drop(F, h)
<1>1. \A g, f : <<g, f>> \in s <=> <<g, f>> \in r /\ g # h
  <2>1. \A g, f : <<g, f>>[1] = g OBVIOUS
  <2> QED BY <2>1
<1>2. Kqueue(s)
  <2>1. ASSUME NEW k \in s PROVE <<k[1], "Readable">> \in s
    <3>1. <<k[1], "Readable">> \in r /\ k[1] # h BY DEF Kqueue
    <3> QED BY <1>1, <3>1
  <2> QED BY <2>1 DEF Kqueue
<1>3. /\ \A g : g \in DOMAIN F <=> <<g, "Readable">> \in r
      /\ \A g \in DOMAIN F : F[g] = {f \in Filter : <<g, f>> \in r}
  BY KqueueReads
<1> HIDE DEF F, s
<1>4. \A g : g \in DOMAIN G <=> <<g, "Readable">> \in s BY <1>1, <1>3 DEF Drop
<1>5. \A g \in DOMAIN G : G[g] = {f \in Filter : <<g, f>> \in s}
  BY <1>1, <1>3 DEF Drop
<1>6. G = [g \in DOMAIN G |-> G[g]] BY DEF Drop
<1>7. KqueueInterest(s) = G
  <2> HIDE DEF G
  <2> QED BY <1>2, <1>4, <1>5, <1>6, KqueueIs
<1> QED BY <1>2, <1>7 DEF F, s

\* Modify enables the filters of the mask and deletes the others.
LEMMA KqueueModify ==
    ASSUME NEW r, Kqueue(r), NEW h \in Handles, NEW m \in Masks
    PROVE  LET s == {k \in r : k[1] # h} \cup ({h} \X m)
           IN  /\ Kqueue(s)
               /\ KqueueInterest(s) = Extend(KqueueInterest(r), h, m)
<1> DEFINE q == {k \in r : k[1] # h}
           F == KqueueInterest(r)
           D == KqueueInterest(q)
<1>1. Kqueue(q) /\ D = Drop(F, h) BY KqueueRemove
<1>2. /\ Kqueue(q \cup ({h} \X m))
      /\ KqueueInterest(q \cup ({h} \X m))
           = Extend(D, h, m \cup (IF h \in DOMAIN D THEN D[h] ELSE {}))
  <2> HIDE DEF q
  <2> QED BY <1>1, KqueueAdd
<1>3. /\ h \notin DOMAIN D
      /\ DOMAIN D = DOMAIN F \ {h}
      /\ \A g \in DOMAIN D : D[g] = F[g]
  BY <1>1 DEF Drop
<1> HIDE DEF q, D, F
<1>4. Extend(D, h, m \cup (IF h \in DOMAIN D THEN D[h] ELSE {})) = Extend(F, h, m)
  BY <1>3 DEF Extend
<1> QED BY <1>2, <1>4 DEF q, F

-----------------------------------------------------------------------------

\* The linear search finds the only entry.
LEMMA ArrayReads ==
    ASSUME NEW r, Array(r), NEW i \in DOMAIN r
    PROVE  /\ {j \in DOMAIN r : r[j].fd = r[i].fd} = {i}
           /\ Min({j \in DOMAIN r : r[j].fd = r[i].fd}) = i
           /\ r[i].fd \in DOMAIN ArrayInterest(r)
           /\ ArrayInterest(r)[r[i].fd] = r[i].events
<1>1. {j \in DOMAIN r : r[j].fd = r[i].fd} = {i} BY DEF Array
<1>2. i \in Nat BY DEF Array
<1>3. Min({i}) = i BY <1>2 DEF Min
<1>4. r[i].fd \in {r[j].fd : j \in DOMAIN r} OBVIOUS
<1> QED BY <1>1, <1>3, <1>4 DEF ArrayInterest

LEMMA ArrayIs ==
    ASSUME NEW r, Array(r), NEW F, F = [g \in DOMAIN F |-> F[g]],
           DOMAIN F = {r[i].fd : i \in DOMAIN r},
           \A i \in DOMAIN r : F[r[i].fd] = r[i].events
    PROVE  ArrayInterest(r) = F
<1>1. DOMAIN ArrayInterest(r) = DOMAIN F BY DEF ArrayInterest
<1>2. ASSUME NEW h \in DOMAIN F PROVE ArrayInterest(r)[h] = F[h]
  <2>1. PICK i \in DOMAIN r : h = r[i].fd OBVIOUS
  <2>2. ArrayInterest(r)[r[i].fd] = r[i].events BY ArrayReads
  <2> QED BY <2>1, <2>2
<1>3. ArrayInterest(r) = [g \in DOMAIN ArrayInterest(r) |-> ArrayInterest(r)[g]]
  BY DEF ArrayInterest
<1> QED BY <1>1, <1>2, <1>3

LEMMA ArrayAdd ==
    ASSUME NEW r, Array(r), NEW h \in Handles, NEW m \in Masks,
           \A i \in DOMAIN r : r[i].fd # h
    PROVE  LET s == Append(r, [fd |-> h, events |-> m])
           IN  Array(s) /\ ArrayInterest(s) = Extend(ArrayInterest(r), h, m)
<1> DEFINE e == [fd |-> h, events |-> m]
           s == Append(r, e)
           F == ArrayInterest(r)
           G == Extend(F, h, m)
<1>1. e \in Entry /\ e.fd = h /\ e.events = m BY DEF Entry
<1>2. r \in Seq(Entry) /\ Len(r) \in Nat /\ DOMAIN r = 1 .. Len(r) BY DEF Array
<1>3. /\ s \in Seq(Entry)
      /\ DOMAIN s = 1 .. (Len(r) + 1)
      /\ s[Len(r) + 1] = e
      /\ \A i \in DOMAIN r : s[i] = r[i]
  <2> HIDE DEF e
  <2> QED BY <1>1, <1>2
<1>4. DOMAIN s = DOMAIN r \cup {Len(r) + 1} /\ Len(r) + 1 \notin DOMAIN r BY <1>2, <1>3
<1> HIDE DEF e, s
<1>5. Array(s)
  <2>1. ASSUME NEW i \in DOMAIN s, NEW j \in DOMAIN s, s[i].fd = s[j].fd PROVE i = j
    <3>1. CASE i \in DOMAIN r /\ j \in DOMAIN r BY <1>3, <2>1, <3>1 DEF Array
    <3>2. CASE i \notin DOMAIN r /\ j \in DOMAIN r BY <1>1, <1>3, <1>4, <2>1, <3>2
    <3>3. CASE i \in DOMAIN r /\ j \notin DOMAIN r BY <1>1, <1>3, <1>4, <2>1, <3>3
    <3>4. CASE i \notin DOMAIN r /\ j \notin DOMAIN r BY <1>4, <3>4
    <3> QED BY <3>1, <3>2, <3>3, <3>4
  <2> QED BY <1>3, <2>1 DEF Array
<1>6. /\ DOMAIN F = {r[i].fd : i \in DOMAIN r}
      /\ \A i \in DOMAIN r : F[r[i].fd] = r[i].events
  BY ArrayReads DEF ArrayInterest
<1> HIDE DEF F
<1>7. DOMAIN G = {s[i].fd : i \in DOMAIN s}
  <2>1. {s[i].fd : i \in DOMAIN s} = {r[i].fd : i \in DOMAIN r} \cup {h}
    <3>1. \A i \in DOMAIN s : s[i].fd \in {r[j].fd : j \in DOMAIN r} \cup {h}
      BY <1>1, <1>3, <1>4
    <3>2. Len(r) + 1 \in DOMAIN s /\ s[Len(r) + 1].fd = h BY <1>1, <1>3, <1>4
    <3>3. \A j \in DOMAIN r : r[j].fd \in {s[i].fd : i \in DOMAIN s} BY <1>3, <1>4
    <3> QED BY <3>1, <3>2, <3>3
  <2> QED BY <1>6, <2>1 DEF Extend
<1>8. ASSUME NEW i \in DOMAIN s PROVE G[s[i].fd] = s[i].events
  <2>1. CASE i \in DOMAIN r BY <1>3, <1>6, <2>1 DEF Extend
  <2>2. CASE i = Len(r) + 1 BY <1>1, <1>3, <2>2 DEF Extend
  <2> QED BY <1>4, <2>1, <2>2
<1>9. G = [g \in DOMAIN G |-> G[g]] BY DEF Extend
<1>10. ArrayInterest(s) = G
  <2> HIDE DEF G
  <2> QED BY <1>5, <1>7, <1>8, <1>9, ArrayIs
<1> QED BY <1>5, <1>10 DEF s, e, F

LEMMA ArrayModify ==
    ASSUME NEW r, Array(r), NEW n \in DOMAIN r, NEW m \in Masks
    PROVE  LET s == [r EXCEPT ![n].events = m]
           IN  Array(s) /\ ArrayInterest(s) = Extend(ArrayInterest(r), r[n].fd, m)
<1> DEFINE s == [r EXCEPT ![n].events = m]
           F == ArrayInterest(r)
           G == Extend(F, r[n].fd, m)
<1>1. r \in Seq(Entry) /\ Len(r) \in Nat /\ DOMAIN r = 1 .. Len(r) BY DEF Array
<1>2. \A i \in DOMAIN r : r[i] \in Entry BY <1>1
<1>3. /\ DOMAIN s = DOMAIN r
      /\ \A i \in DOMAIN r : i # n => s[i] = r[i]
      /\ s[n] \in Entry /\ s[n].fd = r[n].fd /\ s[n].events = m
  BY <1>2 DEF Entry
<1>4. s \in Seq(Entry)
  <2>1. s \in [1 .. Len(r) -> Entry] BY <1>1, <1>2, <1>3
  <2> QED BY <1>1, <2>1
<1> HIDE DEF s
<1>5. \A i \in DOMAIN r : s[i].fd = r[i].fd BY <1>3
<1>6. Array(s) BY <1>3, <1>4, <1>5 DEF Array
<1>7. /\ DOMAIN F = {r[i].fd : i \in DOMAIN r}
      /\ \A i \in DOMAIN r : F[r[i].fd] = r[i].events
  BY ArrayReads DEF ArrayInterest
<1> HIDE DEF F
<1>8. DOMAIN G = {s[i].fd : i \in DOMAIN s} BY <1>3, <1>5, <1>7 DEF Extend
<1>9. ASSUME NEW i \in DOMAIN s PROVE G[s[i].fd] = s[i].events
  <2>1. CASE i = n BY <1>3, <2>1 DEF Extend
  <2>2. CASE i # n
    <3>1. r[i].fd # r[n].fd BY <1>3, <2>2 DEF Array
    <3> QED BY <1>3, <1>7, <2>2, <3>1 DEF Extend
  <2> QED BY <2>1, <2>2
<1>10. G = [g \in DOMAIN G |-> G[g]] BY DEF Extend
<1>11. ArrayInterest(s) = G
  <2> HIDE DEF G
  <2> QED BY <1>6, <1>8, <1>9, <1>10, ArrayIs
<1> QED BY <1>6, <1>11 DEF s, F

\* The last entry moves into the place of the one that is removed.
LEMMA ArrayRemove ==
    ASSUME NEW r, Array(r), NEW n \in DOMAIN r
    PROVE  LET s == SubSeq([r EXCEPT ![n] = r[Len(r)]], 1, Len(r) - 1)
           IN  Array(s) /\ ArrayInterest(s) = Drop(ArrayInterest(r), r[n].fd)
<1> DEFINE l == Len(r)
           q == [r EXCEPT ![n] = r[l]]
           s == SubSeq(q, 1, l - 1)
           from(i) == IF i = n THEN l ELSE i
           F == ArrayInterest(r)
           G == Drop(F, r[n].fd)
<1>1. r \in Seq(Entry) /\ l \in Nat /\ DOMAIN r = 1 .. l /\ n \in 1 .. l BY DEF Array
<1>2. \A i \in 1 .. l : r[i] \in Entry BY <1>1
<1>3. q \in [1 .. l -> Entry] BY <1>1, <1>2
<1>4. q \in Seq(Entry) /\ Len(q) = l BY <1>1, <1>3
<1>5. \A i \in 1 .. l : q[i] = r[from(i)] BY <1>1
<1> HIDE DEF q
<1>6. /\ s \in Seq(Entry)
      /\ DOMAIN s = 1 .. (l - 1)
      /\ \A i \in 1 .. (l - 1) : s[i] = q[i]
  BY <1>1, <1>4
<1> HIDE DEF s
<1>7. \A i \in 1 .. (l - 1) : from(i) \in 1 .. l /\ from(i) # n /\ s[i] = r[from(i)]
  BY <1>1, <1>5, <1>6
<1>8. \A i \in 1 .. l : i # n => \E j \in 1 .. (l - 1) : from(j) = i
  <2> SUFFICES ASSUME NEW i \in 1 .. l, i # n PROVE \E j \in 1 .. (l - 1) : from(j) = i
    OBVIOUS
  <2>1. CASE i = l
    <3>1. n \in 1 .. (l - 1) /\ from(n) = i BY <1>1, <2>1
    <3> QED BY <3>1
  <2>2. CASE i # l
    <3>1. i \in 1 .. (l - 1)
      <4> HIDE DEF l
      <4> QED BY <1>1, <2>2
    <3>2. from(i) = i OBVIOUS
    <3> QED BY <3>1, <3>2
  <2> QED BY <2>1, <2>2
<1>9. Array(s)
  <2>1. ASSUME NEW i \in 1 .. (l - 1), NEW j \in 1 .. (l - 1), s[i].fd = s[j].fd
        PROVE  i = j
    <3>1. from(i) = from(j) BY <1>1, <1>7, <2>1 DEF Array
    <3> QED BY <1>1, <3>1
  <2> QED BY <1>6, <2>1 DEF Array
<1>10. /\ DOMAIN F = {r[i].fd : i \in DOMAIN r}
       /\ \A i \in DOMAIN r : F[r[i].fd] = r[i].events
  BY ArrayReads DEF ArrayInterest
<1>11. \A i \in 1 .. l : r[i].fd = r[n].fd => i = n BY <1>1 DEF Array
<1> HIDE DEF F, from, l
<1>12. DOMAIN G = {s[i].fd : i \in DOMAIN s}
  <2>1. DOMAIN G = {r[i].fd : i \in 1 .. l} \ {r[n].fd} BY <1>1, <1>10 DEF Drop
  <2>2. ASSUME NEW i \in 1 .. (l - 1) PROVE s[i].fd \in DOMAIN G
    BY <1>7, <1>11, <2>1
  <2>3. ASSUME NEW i \in 1 .. l, r[i].fd # r[n].fd PROVE r[i].fd \in {s[j].fd : j \in DOMAIN s}
    <3>1. PICK j \in 1 .. (l - 1) : from(j) = i BY <1>8, <2>3
    <3> QED BY <1>6, <1>7, <3>1
  <2> QED BY <1>6, <2>1, <2>2, <2>3
<1>13. ASSUME NEW i \in DOMAIN s PROVE G[s[i].fd] = s[i].events
  <2>1. from(i) \in DOMAIN r /\ s[i] = r[from(i)] /\ s[i].fd # r[n].fd
    BY <1>1, <1>6, <1>7, <1>11
  <2> QED BY <1>10, <2>1 DEF Drop
<1>14. G = [g \in DOMAIN G |-> G[g]] BY DEF Drop
<1>15. ArrayInterest(s) = G
  <2> HIDE DEF G
  <2> QED BY <1>9, <1>12, <1>13, <1>14, ArrayIs
<1> QED BY <1>9, <1>15 DEF s, q, F, l

-----------------------------------------------------------------------------
(* What the kernel fills a span with.                                      *)

LEMMA FilledIs ==
    ASSUME NEW S, IsFiniteSet(S), NEW room \in Nat, NEW out \in Filled(S, room)
    PROVE  /\ out \in Seq(S)
           /\ Len(out) <= room
           /\ \A i, j \in DOMAIN out : out[i] = out[j] => i = j
           /\ Cardinality(S) <= room => \A e \in S : \E i \in DOMAIN out : out[i] = e
<1>1. PICK T \in SUBSET S : /\ \/ Cardinality(T) = room
                               \/ Cardinality(T) < room /\ T = S
                            /\ out \in Orders(T)
  BY DEF Filled
<1> DEFINE n == Cardinality(T)
<1>2. IsFiniteSet(T) /\ n \in Nat /\ n <= Cardinality(S) /\ Cardinality(S) \in Nat
  BY FS_Subset, FS_CardinalityType
<1>3. /\ out \in [1 .. n -> T]
      /\ \A i, j \in DOMAIN out : out[i] = out[j] => i = j
  BY <1>1 DEF Orders
<1>4. out \in Seq(T) /\ Len(out) = n
  <2> HIDE DEF n
  <2> QED BY <1>2, <1>3
<1>5. out \in Seq(S)
  <2>1. out \in [1 .. n -> S] BY <1>3
  <2> HIDE DEF n
  <2> QED BY <1>2, <2>1
<1>6. n <= room BY <1>1, <1>2
<1>7. ASSUME Cardinality(S) <= room, NEW e \in S PROVE \E i \in DOMAIN out : out[i] = e
  <2>1. T = S
    <3>1. CASE n = room
      <4>1. Cardinality(S) = n BY <1>2, <1>7, <3>1
      <4> QED BY <4>1, FS_Subset
    <3> QED BY <1>1, <3>1
  <2>2. out \in Injection(1 .. n, T) BY <1>3 DEF Injection, IsInjective
  <2>3. Cardinality(1 .. n) = n
    <3> HIDE DEF n
    <3> QED BY <1>2, FS_Interval
  <2>4. out \in Surjection(1 .. n, T) BY <1>2, <2>2, <2>3, FS_Injection
  <2> QED BY <1>7, <2>1, <2>4 DEF Surjection
<1> QED BY <1>3, <1>4, <1>5, <1>6, <1>7

\* No more handles are written than there are to write.
LEMMA DistinctFit ==
    ASSUME NEW D, IsFiniteSet(D), NEW out \in Seq(Reports),
           \A i, j \in DOMAIN out : out[i].handle = out[j].handle => i = j,
           \A i \in DOMAIN out : out[i].handle \in D
    PROVE  Cardinality(D) \in Nat /\ Len(out) <= Cardinality(D)
<1> DEFINE f == [i \in 1 .. Len(out) |-> out[i].handle]
<1>1. Len(out) \in Nat /\ DOMAIN out = 1 .. Len(out) OBVIOUS
<1>2. f \in Injection(1 .. Len(out), D) BY <1>1 DEF Injection, IsInjective
<1>3. Cardinality(1 .. Len(out)) = Len(out) BY <1>1, FS_Interval
<1>4. Cardinality(1 .. Len(out)) <= Cardinality(D) BY <1>2, FS_Injection
<1> QED BY <1>3, <1>4, FS_CardinalityType

\* If one of D is missing, there is room for it among as many as there are.
LEMMA MissingFits ==
    ASSUME NEW D, IsFiniteSet(D), NEW out \in Seq(Reports),
           \A i, j \in DOMAIN out : out[i].handle = out[j].handle => i = j,
           \A i \in DOMAIN out : out[i].handle \in D,
           NEW h \in D, \A i \in DOMAIN out : out[i].handle # h
    PROVE  Len(out) < Cardinality(D)
<1>1. IsFiniteSet(D \ {h}) /\ Cardinality(D \ {h}) = Cardinality(D) - 1
  BY FS_RemoveElement
<1>2. Len(out) <= Cardinality(D \ {h}) BY <1>1, DistinctFit
<1>3. Cardinality(D) \in Nat /\ Len(out) \in Nat BY FS_CardinalityType
<1> QED BY <1>1, <1>2, <1>3

-----------------------------------------------------------------------------
(* Coalesced: the recursion over the events of kqueue.                     *)

Merges(native, room, n, f) ==
    f = [i \in 0 .. n |-> IF i = 0 THEN <<>> ELSE Merge(f[i - 1], native[i], room)]

LEMMA MergesExist ==
    ASSUME NEW native, NEW room, NEW n \in Nat
    PROVE  \E f : Merges(native, room, n, f)
<1> DEFINE T == {m \in Nat : \E f : Merges(native, room, m, f)}
<1>1. 0 \in T
  <2> DEFINE f == [i \in 0 .. 0 |-> <<>>]
  <2>1. Merges(native, room, 0, f) BY DEF Merges
  <2> QED BY <2>1
<1>2. ASSUME NEW m \in Nat, m \in T PROVE m + 1 \in T
  <2>1. PICK f : Merges(native, room, m, f) BY <1>2
  <2> DEFINE g == [i \in 0 .. (m + 1) |-> IF i = m + 1 THEN Merge(f[m], native[m + 1], room) ELSE f[i]]
  <2>2. \A i \in 0 .. m : f[i] = IF i = 0 THEN <<>> ELSE Merge(f[i - 1], native[i], room)
    BY <2>1 DEF Merges
  <2>3. ASSUME NEW i \in 0 .. (m + 1)
        PROVE  g[i] = IF i = 0 THEN <<>> ELSE Merge(g[i - 1], native[i], room)
    <3>1. CASE i = m + 1 BY <3>1
    <3>2. CASE i # m + 1
      <4>1. i \in 0 .. m /\ g[i] = f[i] BY <3>2
      <4>2. i # 0 => g[i - 1] = f[i - 1] BY <4>1
      <4> QED BY <2>2, <4>1, <4>2
    <3> QED BY <3>1, <3>2
  <2>4. Merges(native, room, m + 1, g)
    <3> DEFINE h == [i \in 0 .. (m + 1) |-> IF i = 0 THEN <<>> ELSE Merge(g[i - 1], native[i], room)]
    <3>1. \A i \in 0 .. (m + 1) : g[i] = h[i] BY <2>3
    <3>2. g = h BY <3>1
    <3> QED BY <3>2 DEF Merges
  <2> QED BY <2>4
<1>3. Nat \subseteq T BY <1>1, <1>2, Induction
<1> QED BY <1>3

LEMMA CoalescedIs ==
    ASSUME NEW native, NEW room, Len(native) \in Nat
    PROVE  \E f : Merges(native, room, Len(native), f) /\ Coalesced(native, room) = f[Len(native)]
<1> DEFINE f == CHOOSE f : f = [i \in 0 .. Len(native) |-> IF i = 0 THEN <<>> ELSE Merge(f[i - 1], native[i], room)]
<1>1. Merges(native, room, Len(native), f) BY MergesExist DEF Merges
<1>2. Coalesced(native, room) = f[Len(native)] BY DEF Coalesced
<1> QED BY <1>1, <1>2

\* An event is dropped, appended or merged with the one of its handle.
Dropped(out, e, room, new) ==
    new = out /\ Len(out) >= room /\ \A i \in DOMAIN out : out[i].handle # e.handle
Appended(out, e, room, new) ==
    new = Append(out, e) /\ Len(out) < room /\ \A i \in DOMAIN out : out[i].handle # e.handle
MergedAt(out, e, n, new) ==
    /\ out[n].handle = e.handle
    /\ new = [out EXCEPT ![n] = [handle |-> e.handle, mask |-> out[n].mask \cup e.mask]]

LEMMA MergeStep ==
    ASSUME NEW out \in Seq(Reports), NEW e \in Reports, NEW room \in Nat,
           \A i, j \in DOMAIN out : out[i].handle = out[j].handle => i = j
    PROVE  \/ Dropped(out, e, room, Merge(out, e, room))
           \/ Appended(out, e, room, Merge(out, e, room))
           \/ \E n \in DOMAIN out : MergedAt(out, e, n, Merge(out, e, room))
<1> DEFINE same == {j \in DOMAIN out : out[j].handle = e.handle}
<1>1. Len(out) \in Nat /\ DOMAIN out = 1 .. Len(out) OBVIOUS
<1>2. CASE same = {}
  <2>1. Merge(out, e, room) = IF Len(out) < room THEN Append(out, e) ELSE out
    BY <1>2 DEF Merge
  <2>2. \A i \in DOMAIN out : out[i].handle # e.handle BY <1>2
  <2>3. CASE Len(out) < room BY <2>1, <2>2, <2>3 DEF Appended
  <2>4. CASE ~(Len(out) < room)
    <3>1. Len(out) >= room BY <1>1, <2>4
    <3> QED BY <2>1, <2>2, <2>4, <3>1 DEF Dropped
  <2> QED BY <2>3, <2>4
<1>3. CASE same # {}
  <2>1. PICK n \in DOMAIN out : out[n].handle = e.handle BY <1>3
  <2>2. same = {n} BY <2>1
  <2>3. Min(same) = n BY <1>1, <2>2 DEF Min
  <2>4. Merge(out, e, room) = [out EXCEPT ![n] = Event(e.handle, out[n].mask \cup e.mask)]
    BY <1>3, <2>3 DEF Merge
  <2> QED BY <2>1, <2>4 DEF Event, MergedAt
<1> QED BY <1>2, <1>3

\* What has been made of the first i events: every handle is there once, with the
\* conditions of its events, and all of them are if there is room for D.
Merged(native, room, D, i, out) ==
    /\ out \in Seq(Reports)
    /\ Len(out) <= room
    /\ \A j, k \in DOMAIN out : out[j].handle = out[k].handle => j = k
    /\ \A j \in DOMAIN out : \E k \in 1 .. i :
          native[k].handle = out[j].handle /\ native[k].mask \subseteq out[j].mask
    /\ \A j \in DOMAIN out : \A c \in out[j].mask : \E k \in 1 .. i :
          native[k].handle = out[j].handle /\ c \in native[k].mask
    /\ Cardinality(D) <= room =>
          \A k \in 1 .. i : \E j \in DOMAIN out :
             out[j].handle = native[k].handle /\ native[k].mask \subseteq out[j].mask

LEMMA MergedStep ==
    ASSUME NEW native \in Seq(Reports), NEW room \in Nat, NEW D, IsFiniteSet(D),
           \A k \in DOMAIN native : native[k].handle \in D,
           NEW i \in Nat, i + 1 <= Len(native), NEW out, Merged(native, room, D, i, out)
    PROVE  Merged(native, room, D, i + 1, Merge(out, native[i + 1], room))
<1> DEFINE e == native[i + 1]
           new == Merge(out, e, room)
<1> SUFFICES Merged(native, room, D, i + 1, new) OBVIOUS
<1>1. Len(native) \in Nat /\ DOMAIN native = 1 .. Len(native) /\ i + 1 \in 1 .. Len(native)
  OBVIOUS
<1>2. e \in Reports /\ e.handle \in D BY <1>1
<1>3. /\ out \in Seq(Reports)
      /\ Len(out) <= room
      /\ \A j, k \in DOMAIN out : out[j].handle = out[k].handle => j = k
  BY DEF Merged
<1>4. Len(out) \in Nat /\ DOMAIN out = 1 .. Len(out) BY <1>3
<1>5. \A j \in DOMAIN out : out[j] \in Reports BY <1>3
<1>6. 1 .. (i + 1) = (1 .. i) \cup {i + 1} OBVIOUS
<1>7. \A j \in DOMAIN out : out[j].handle \in D
  <2>1. \A k \in 1 .. i : k \in DOMAIN native BY <1>1
  <2> QED BY <2>1 DEF Merged
<1>8. CASE Dropped(out, e, room, new)
  <2>1. ~(Cardinality(D) <= room)
    <3>1. Len(out) < Cardinality(D) BY <1>2, <1>3, <1>7, <1>8, MissingFits DEF Dropped
    <3> QED BY <1>4, <1>8, <3>1, FS_CardinalityType DEF Dropped
  <2> HIDE DEF new, e
  <2>2. \A j \in DOMAIN out : \E k \in 1 .. (i + 1) :
           native[k].handle = out[j].handle /\ native[k].mask \subseteq out[j].mask
    BY <1>6 DEF Merged
  <2>3. \A j \in DOMAIN out : \A c \in out[j].mask : \E k \in 1 .. (i + 1) :
           native[k].handle = out[j].handle /\ c \in native[k].mask
    BY <1>6 DEF Merged
  <2> QED BY <1>3, <1>8, <2>1, <2>2, <2>3 DEF Merged, Dropped
<1>9. CASE Appended(out, e, room, new)
  <2> HIDE DEF new, e
  <2>1. /\ new \in Seq(Reports)
        /\ Len(new) = Len(out) + 1
        /\ DOMAIN new = DOMAIN out \cup {Len(out) + 1}
        /\ Len(out) + 1 \notin DOMAIN out
        /\ new[Len(out) + 1] = e
        /\ \A j \in DOMAIN out : new[j] = out[j]
    BY <1>2, <1>3, <1>4, <1>9 DEF Appended
  <2>2. Len(new) <= room BY <1>4, <1>9, <2>1 DEF Appended
  <2>3. \A j, k \in DOMAIN new : new[j].handle = new[k].handle => j = k
    BY <1>3, <1>9, <2>1 DEF Appended
  <2>4. ASSUME NEW j \in DOMAIN new
        PROVE  \E k \in 1 .. (i + 1) :
                  native[k].handle = new[j].handle /\ native[k].mask \subseteq new[j].mask
    <3>1. CASE j \in DOMAIN out BY <1>6, <2>1, <3>1 DEF Merged
    <3>2. CASE j = Len(out) + 1 BY <1>6, <2>1, <3>2 DEF e
    <3> QED BY <2>1, <3>1, <3>2
  <2>5. ASSUME NEW j \in DOMAIN new, NEW c \in new[j].mask
        PROVE  \E k \in 1 .. (i + 1) :
                  native[k].handle = new[j].handle /\ c \in native[k].mask
    <3>1. CASE j \in DOMAIN out BY <1>6, <2>1, <2>5, <3>1 DEF Merged
    <3>2. CASE j = Len(out) + 1 BY <1>6, <2>1, <2>5, <3>2 DEF e
    <3> QED BY <2>1, <3>1, <3>2
  <2>6. ASSUME Cardinality(D) <= room, NEW k \in 1 .. (i + 1)
        PROVE  \E j \in DOMAIN new :
                  new[j].handle = native[k].handle /\ native[k].mask \subseteq new[j].mask
    <3>1. CASE k \in 1 .. i
      <4>1. PICK j \in DOMAIN out : out[j].handle = native[k].handle /\ native[k].mask \subseteq out[j].mask
        BY <2>6, <3>1 DEF Merged
      <4> QED BY <2>1, <4>1
    <3>2. CASE k = i + 1 BY <2>1, <3>2 DEF e
    <3> QED BY <1>6, <3>1, <3>2
  <2> QED BY <2>1, <2>2, <2>3, <2>4, <2>5, <2>6 DEF Merged
<1>10. ASSUME NEW n \in DOMAIN out, MergedAt(out, e, n, new)
       PROVE  Merged(native, room, D, i + 1, new)
  <2> DEFINE b == [handle |-> e.handle, mask |-> out[n].mask \cup e.mask]
  <2>0. b \in Reports BY <1>2, <1>5 DEF Reports
  <2> HIDE DEF new, e
  <2>1. /\ new \in Seq(Reports)
        /\ Len(new) = Len(out)
        /\ DOMAIN new = DOMAIN out
        /\ \A j \in DOMAIN out : j # n => new[j] = out[j]
        /\ new[n] = b
    <3> HIDE DEF b
    <3>1. new \in [1 .. Len(out) -> Reports] BY <1>4, <1>5, <1>10, <2>0 DEF b, MergedAt
    <3>2. new = [out EXCEPT ![n] = b] BY <1>10 DEF b, MergedAt
    <3> QED BY <1>3, <1>4, <3>1, <3>2
  <2>2. /\ new[n].handle = out[n].handle
        /\ new[n].handle = e.handle
        /\ new[n].mask = out[n].mask \cup e.mask
    BY <1>10, <2>1 DEF MergedAt
  <2>3. \A j \in DOMAIN out : new[j].handle = out[j].handle /\ out[j].mask \subseteq new[j].mask
    BY <2>1, <2>2
  <2> HIDE DEF b
  <2>4. \A j, k \in DOMAIN new : new[j].handle = new[k].handle => j = k BY <1>3, <2>1, <2>3
  <2>5. ASSUME NEW j \in DOMAIN new
        PROVE  \E k \in 1 .. (i + 1) :
                  native[k].handle = new[j].handle /\ native[k].mask \subseteq new[j].mask
    <3>1. PICK k \in 1 .. i : native[k].handle = out[j].handle /\ native[k].mask \subseteq out[j].mask
      BY <2>1 DEF Merged
    <3> QED BY <1>6, <2>1, <2>3, <3>1
  <2>6. ASSUME NEW j \in DOMAIN new, NEW c \in new[j].mask
        PROVE  \E k \in 1 .. (i + 1) :
                  native[k].handle = new[j].handle /\ c \in native[k].mask
    <3>1. CASE c \in out[j].mask
      <4>1. PICK k \in 1 .. i : native[k].handle = out[j].handle /\ c \in native[k].mask
        BY <2>1, <3>1 DEF Merged
      <4> QED BY <1>6, <2>1, <2>3, <4>1
    <3>2. CASE c \notin out[j].mask
      <4>1. j = n /\ c \in e.mask BY <2>1, <2>2, <2>6, <3>2
      <4> QED BY <1>6, <2>2, <4>1 DEF e
    <3> QED BY <3>1, <3>2
  <2>7. ASSUME Cardinality(D) <= room, NEW k \in 1 .. (i + 1)
        PROVE  \E j \in DOMAIN new :
                  new[j].handle = native[k].handle /\ native[k].mask \subseteq new[j].mask
    <3>1. CASE k \in 1 .. i
      <4>1. PICK j \in DOMAIN out : out[j].handle = native[k].handle /\ native[k].mask \subseteq out[j].mask
        BY <2>7, <3>1 DEF Merged
      <4> QED BY <2>1, <2>3, <4>1
    <3>2. CASE k = i + 1 BY <2>1, <2>2, <3>2 DEF e
    <3> QED BY <1>6, <3>1, <3>2
  <2>8. Len(new) <= room BY <1>3, <2>1
  <2> QED BY <2>1, <2>4, <2>5, <2>6, <2>7, <2>8 DEF Merged
<1>11. \/ Dropped(out, e, room, new)
       \/ Appended(out, e, room, new)
       \/ \E n \in DOMAIN out : MergedAt(out, e, n, new)
  <2> HIDE DEF e
  <2> QED BY <1>2, <1>3, MergeStep
<1> QED BY <1>8, <1>9, <1>10, <1>11

LEMMA CoalescedMerged ==
    ASSUME NEW native \in Seq(Reports), NEW room \in Nat, NEW D, IsFiniteSet(D),
           \A k \in DOMAIN native : native[k].handle \in D
    PROVE  Merged(native, room, D, Len(native), Coalesced(native, room))
<1>0. Len(native) \in Nat OBVIOUS
<1>1. PICK f : /\ Merges(native, room, Len(native), f)
               /\ Coalesced(native, room) = f[Len(native)]
  BY <1>0, CoalescedIs
<1>2. /\ f[0] = <<>>
      /\ \A i \in Nat : i + 1 <= Len(native) => f[i + 1] = Merge(f[i], native[i + 1], room)
  <2>1. \A i \in 0 .. Len(native) : f[i] = IF i = 0 THEN <<>> ELSE Merge(f[i - 1], native[i], room)
    BY <1>1 DEF Merges
  <2>2. ASSUME NEW i \in Nat, i + 1 <= Len(native) PROVE f[i + 1] = Merge(f[i], native[i + 1], room)
    <3>1. i + 1 \in 0 .. Len(native) /\ i + 1 # 0 /\ (i + 1) - 1 = i BY <1>0, <2>2
    <3> QED BY <2>1, <3>1
  <2>3. 0 \in 0 .. Len(native) BY <1>0
  <2> QED BY <2>1, <2>2, <2>3
<1> DEFINE T == {i \in Nat : i <= Len(native) => Merged(native, room, D, i, f[i])}
<1>3. 0 \in T
  <2>1. <<>> \in Seq(Reports) /\ Len(<<>>) = 0 /\ DOMAIN <<>> = {} OBVIOUS
  <2>2. 1 .. 0 = {} OBVIOUS
  <2>3. Merged(native, room, D, 0, <<>>) BY <2>1, <2>2 DEF Merged
  <2> QED BY <1>2, <2>3
<1>4. ASSUME NEW i \in Nat, i \in T PROVE i + 1 \in T
  <2> SUFFICES ASSUME i + 1 <= Len(native) PROVE Merged(native, room, D, i + 1, f[i + 1])
    OBVIOUS
  <2>1. Merged(native, room, D, i, f[i]) BY <1>0, <1>4
  <2>2. Merged(native, room, D, i + 1, Merge(f[i], native[i + 1], room)) BY <2>1, MergedStep
  <2> QED BY <1>2, <2>2
<1>5. Nat \subseteq T
  <2> HIDE DEF T
  <2> QED BY <1>3, <1>4, Induction
<1> QED BY <1>0, <1>1, <1>5

-----------------------------------------------------------------------------
(* PollWindows: the recursion over the entries of the array.               *)

Due(F, ready) ==
    {h \in DOMAIN F : h \notin live \/ ready[h] \cap (F[h] \cup {"Error", "Hangup"}) # {}}

Reportable(ready, k) == registry[k].fd \notin live \/ WSAMask(ready, k) # {}
EventOf(ready, k) == Event(registry[k].fd, WSAMask(ready, k))

Writes(ready, room, n, f) ==
    f = [i \in 0 .. n |-> IF i = 0 THEN <<>> ELSE Write(f[i - 1], i, ready, room)]

LEMMA WritesExist ==
    ASSUME NEW ready, NEW room, NEW n \in Nat
    PROVE  \E f : Writes(ready, room, n, f)
<1> DEFINE T == {m \in Nat : \E f : Writes(ready, room, m, f)}
<1>1. 0 \in T
  <2> DEFINE f == [i \in 0 .. 0 |-> <<>>]
  <2>1. Writes(ready, room, 0, f) BY DEF Writes
  <2> QED BY <2>1
<1>2. ASSUME NEW m \in Nat, m \in T PROVE m + 1 \in T
  <2>1. PICK f : Writes(ready, room, m, f) BY <1>2
  <2> DEFINE g == [i \in 0 .. (m + 1) |->
                      IF i = m + 1 THEN Write(f[m], m + 1, ready, room) ELSE f[i]]
  <2>2. \A i \in 0 .. m : f[i] = IF i = 0 THEN <<>> ELSE Write(f[i - 1], i, ready, room)
    BY <2>1 DEF Writes
  <2>3. ASSUME NEW i \in 0 .. (m + 1)
        PROVE  g[i] = IF i = 0 THEN <<>> ELSE Write(g[i - 1], i, ready, room)
    <3>1. CASE i = m + 1 BY <3>1
    <3>2. CASE i # m + 1
      <4>1. i \in 0 .. m /\ g[i] = f[i] BY <3>2
      <4>2. i # 0 => g[i - 1] = f[i - 1] BY <4>1
      <4> QED BY <2>2, <4>1, <4>2
    <3> QED BY <3>1, <3>2
  <2>4. Writes(ready, room, m + 1, g)
    <3> DEFINE h == [i \in 0 .. (m + 1) |->
                        IF i = 0 THEN <<>> ELSE Write(g[i - 1], i, ready, room)]
    <3>1. \A i \in 0 .. (m + 1) : g[i] = h[i] BY <2>3
    <3>2. g = h BY <3>1
    <3> QED BY <3>2 DEF Writes
  <2> QED BY <2>4
<1>3. Nat \subseteq T BY <1>1, <1>2, Induction
<1> QED BY <1>3

LEMMA PollWindowsIs ==
    ASSUME NEW ready, NEW room, Len(registry) \in Nat, NEW out \in PollWindows(ready, room)
    PROVE  \E f : Writes(ready, room, Len(registry), f) /\ out = f[Len(registry)]
<1> DEFINE f == CHOOSE f : f = [i \in 0 .. Len(registry) |->
                               IF i = 0 THEN <<>> ELSE Write(f[i - 1], i, ready, room)]
<1>1. Writes(ready, room, Len(registry), f) BY WritesExist DEF Writes
<1>2. out = f[Len(registry)] BY DEF PollWindows
<1> QED BY <1>1, <1>2

\* What has been written of the first i entries, of which those of D have events.
Written(ready, room, D, i, out) ==
    /\ out \in Seq(Reports)
    /\ Len(out) <= room
    /\ \A j, k \in DOMAIN out : out[j].handle = out[k].handle => j = k
    /\ \A j \in DOMAIN out : \E k \in 1 .. i : Reportable(ready, k) /\ out[j] = EventOf(ready, k)
    /\ Cardinality(D) <= room =>
          \A k \in 1 .. i : Reportable(ready, k) =>
             \E j \in DOMAIN out : out[j] = EventOf(ready, k)

LEMMA EventReported ==
    ASSUME Array(registry), NEW ready \in ReadySets, NEW k \in DOMAIN registry
    PROVE  /\ EventOf(ready, k) \in Reports
           /\ EventOf(ready, k).handle = registry[k].fd
           /\ EventOf(ready, k).mask = WSAMask(ready, k)
<1>1. registry[k] \in Entry BY DEF Array
<1>2. registry[k].fd \in Handles BY <1>1 DEF Entry
<1>3. ready[registry[k].fd] \subseteq Conditions BY <1>2 DEF ReadySets, Findings, Conditions
<1>4. WSAMask(ready, k) \subseteq Conditions BY <1>3 DEF WSAMask, Reported
<1> QED BY <1>2, <1>4 DEF EventOf, Event, Reports

LEMMA WrittenStep ==
    ASSUME Array(registry), NEW ready \in ReadySets, NEW room \in Nat,
           NEW D, IsFiniteSet(D),
           \A k \in DOMAIN registry : Reportable(ready, k) => registry[k].fd \in D,
           NEW i \in Nat, i + 1 <= Len(registry), NEW out, Written(ready, room, D, i, out)
    PROVE  Written(ready, room, D, i + 1, Write(out, i + 1, ready, room))
<1> DEFINE e == EventOf(ready, i + 1)
           new == Write(out, i + 1, ready, room)
<1> SUFFICES Written(ready, room, D, i + 1, new) OBVIOUS
<1>1. /\ Len(registry) \in Nat
      /\ DOMAIN registry = 1 .. Len(registry)
      /\ i + 1 \in DOMAIN registry
      /\ \A k \in 1 .. i : k \in DOMAIN registry /\ k # i + 1
  BY DEF Array
<1>2. e \in Reports /\ e.handle = registry[i + 1].fd BY <1>1, EventReported
<1>3. /\ out \in Seq(Reports)
      /\ Len(out) <= room
      /\ \A j, k \in DOMAIN out : out[j].handle = out[k].handle => j = k
  BY DEF Written
<1>4. Len(out) \in Nat /\ DOMAIN out = 1 .. Len(out) BY <1>3
<1>5. 1 .. (i + 1) = (1 .. i) \cup {i + 1} OBVIOUS
<1>6. ASSUME NEW j \in DOMAIN out PROVE out[j].handle \in D /\ out[j].handle # e.handle
  <2>1. PICK k \in 1 .. i : Reportable(ready, k) /\ out[j] = EventOf(ready, k) BY DEF Written
  <2>2. out[j].handle = registry[k].fd BY <1>1, <2>1, EventReported
  <2>3. registry[k].fd # registry[i + 1].fd BY <1>1 DEF Array
  <2> QED BY <1>1, <1>2, <2>1, <2>2, <2>3
<1>7. \A j \in DOMAIN out : \E k \in 1 .. (i + 1) :
         Reportable(ready, k) /\ out[j] = EventOf(ready, k)
  BY <1>5 DEF Written
<1>8. CASE ~Reportable(ready, i + 1)
  <2>1. new = out BY <1>8 DEF Write, Reportable
  <2>2. Cardinality(D) <= room =>
           \A k \in 1 .. (i + 1) : Reportable(ready, k) =>
              \E j \in DOMAIN out : out[j] = EventOf(ready, k)
    BY <1>5, <1>8 DEF Written
  <2> HIDE DEF new
  <2> QED BY <1>3, <1>7, <2>1, <2>2 DEF Written
<1>9. CASE Reportable(ready, i + 1) /\ ~(Len(out) < room)
  <2>1. new = out BY <1>9 DEF Write
  <2>2. ~(Cardinality(D) <= room)
    <3>1. e.handle \in D BY <1>1, <1>2, <1>9
    <3>2. Len(out) < Cardinality(D)
      <4> HIDE DEF e
      <4> QED BY <1>3, <1>6, <3>1, MissingFits
    <3> QED BY <1>4, <1>9, <3>2, FS_CardinalityType
  <2> HIDE DEF new
  <2> QED BY <1>3, <1>7, <2>1, <2>2 DEF Written
<1>10. CASE Reportable(ready, i + 1) /\ Len(out) < room
  <2>1. new = Append(out, e) BY <1>10 DEF Write, Reportable, EventOf
  <2> HIDE DEF new, e
  <2>2. /\ new \in Seq(Reports)
        /\ Len(new) = Len(out) + 1
        /\ DOMAIN new = DOMAIN out \cup {Len(out) + 1}
        /\ Len(out) + 1 \notin DOMAIN out
        /\ new[Len(out) + 1] = e
        /\ \A j \in DOMAIN out : new[j] = out[j]
    BY <1>2, <1>3, <1>4, <2>1
  <2>3. Len(new) <= room BY <1>4, <1>10, <2>2
  <2>4. \A j, k \in DOMAIN new : new[j].handle = new[k].handle => j = k
    BY <1>3, <1>6, <2>2
  <2>5. ASSUME NEW j \in DOMAIN new
        PROVE  \E k \in 1 .. (i + 1) : Reportable(ready, k) /\ new[j] = EventOf(ready, k)
    <3>1. CASE j \in DOMAIN out BY <1>7, <2>2, <3>1
    <3>2. CASE j = Len(out) + 1 BY <1>5, <1>10, <2>2, <3>2 DEF e
    <3> QED BY <2>2, <3>1, <3>2
  <2>6. ASSUME Cardinality(D) <= room, NEW k \in 1 .. (i + 1), Reportable(ready, k)
        PROVE  \E j \in DOMAIN new : new[j] = EventOf(ready, k)
    <3>1. CASE k \in 1 .. i
      <4>1. PICK j \in DOMAIN out : out[j] = EventOf(ready, k) BY <2>6, <3>1 DEF Written
      <4> QED BY <2>2, <4>1
    <3>2. CASE k = i + 1 BY <2>2, <3>2 DEF e
    <3> QED BY <1>5, <3>1, <3>2
  <2> QED BY <2>2, <2>3, <2>4, <2>5, <2>6 DEF Written
<1> QED BY <1>8, <1>9, <1>10

LEMMA PollWindowsWritten ==
    ASSUME Array(registry), NEW ready \in ReadySets, NEW room \in Nat,
           NEW D, IsFiniteSet(D),
           \A k \in DOMAIN registry : Reportable(ready, k) => registry[k].fd \in D,
           NEW out \in PollWindows(ready, room)
    PROVE  Written(ready, room, D, Len(registry), out)
<1>0. Len(registry) \in Nat BY DEF Array
<1>1. PICK f : Writes(ready, room, Len(registry), f) /\ out = f[Len(registry)]
  BY <1>0, PollWindowsIs
<1>2. /\ f[0] = <<>>
      /\ \A i \in Nat : i + 1 <= Len(registry) => f[i + 1] = Write(f[i], i + 1, ready, room)
  <2>1. \A i \in 0 .. Len(registry) : f[i] = IF i = 0 THEN <<>> ELSE Write(f[i - 1], i, ready, room)
    BY <1>1 DEF Writes
  <2>2. ASSUME NEW i \in Nat, i + 1 <= Len(registry)
        PROVE  f[i + 1] = Write(f[i], i + 1, ready, room)
    <3>1. i + 1 \in 0 .. Len(registry) /\ i + 1 # 0 /\ (i + 1) - 1 = i BY <1>0, <2>2
    <3> QED BY <2>1, <3>1
  <2>3. 0 \in 0 .. Len(registry) BY <1>0
  <2> QED BY <2>1, <2>2, <2>3
<1> DEFINE T == {i \in Nat : i <= Len(registry) => Written(ready, room, D, i, f[i])}
<1>3. 0 \in T
  <2>1. <<>> \in Seq(Reports) /\ Len(<<>>) = 0 /\ DOMAIN <<>> = {} OBVIOUS
  <2>2. 1 .. 0 = {} OBVIOUS
  <2>3. Written(ready, room, D, 0, <<>>) BY <2>1, <2>2 DEF Written
  <2> QED BY <1>2, <2>3
<1>4. ASSUME NEW i \in Nat, i \in T PROVE i + 1 \in T
  <2> SUFFICES ASSUME i + 1 <= Len(registry) PROVE Written(ready, room, D, i + 1, f[i + 1])
    OBVIOUS
  <2>1. Written(ready, room, D, i, f[i]) BY <1>0, <1>4
  <2>2. Written(ready, room, D, i + 1, Write(f[i], i + 1, ready, room)) BY <2>1, WrittenStep
  <2> QED BY <1>2, <2>2
<1>5. Nat \subseteq T
  <2> HIDE DEF T
  <2> QED BY <1>3, <1>4, Induction
<1> QED BY <1>0, <1>1, <1>5

-----------------------------------------------------------------------------
(* The invariant: the registry of each platform.                           *)

Fits(p, r, l) ==
    /\ p = "linux" => r \in [DOMAIN r -> Masks] /\ DOMAIN r \subseteq l
    /\ p = "macos" => Kqueue(r) /\ \A k \in r : k[1] \in l
    /\ p = "windows" => Array(r)

InterestOf(p, r) ==
    IF p = "linux" THEN r
    ELSE IF p = "macos" THEN KqueueInterest(r)
    ELSE ArrayInterest(r)

IInv ==
    /\ platform \in {"linux", "macos", "windows"}
    /\ poller_handle \in BOOLEAN
    /\ live \subseteq Handles
    /\ ~poller_handle => registry = EmptyRegistry
    /\ Fits(platform, registry, live)

InterestNow == Interest = InterestOf(platform, registry)

LEMMA InterestIs == platform \in {"linux", "macos", "windows"} => InterestNow
BY DEF InterestNow, InterestOf, Interest, KqueueInterest, ArrayInterest, Filters, Filter,
       PollSlots, SlotsOf

LEMMA EmptyFits ==
    ASSUME NEW p \in {"linux", "macos", "windows"}, NEW l
    PROVE  LET r == IF p = "macos" THEN {} ELSE <<>>
           IN  Fits(p, r, l) /\ InterestOf(p, r) = <<>>
<1>1. Kqueue({}) BY DEF Kqueue
<1>2. Array(<<>>) BY DEF Array
<1>3. KqueueInterest({}) = <<>> BY DEF KqueueInterest
<1>4. ArrayInterest(<<>>) = <<>> BY DEF ArrayInterest
<1>5. <<>> \in [DOMAIN <<>> -> Masks] /\ DOMAIN <<>> = {} OBVIOUS
<1> QED BY <1>1, <1>2, <1>3, <1>4, <1>5 DEF Fits, InterestOf

\* What has to be shown of a poll, platform by platform.
Meets(F, ready, room, out) ==
    /\ out \in Seq(Reports)
    /\ Len(out) <= room
    /\ \A i, j \in DOMAIN out : out[i].handle = out[j].handle => i = j
    /\ \A i \in DOMAIN out :
          /\ out[i].handle \in Due(F, ready)
          /\ IF out[i].handle \in live
             THEN /\ out[i].mask # {}
                  /\ out[i].mask \subseteq ready[out[i].handle] \cap (F[out[i].handle] \cup {"Error", "Hangup"})
             ELSE out[i].mask = {}
    /\ Cardinality(Due(F, ready)) <= room =>
          \A h \in Due(F, ready) \cap live : \E i \in DOMAIN out :
             out[i] = [handle |-> h, mask |-> ready[h] \cap (F[h] \cup {"Error", "Hangup"})]

\* EventSet counts with an instance of FiniteSets of its own.
LEMMA SameCardinality == \A S : EventSets!Cardinality(S) = Cardinality(S)
BY DEF EventSets!Cardinality, Cardinality

LEMMA MeetsPoll ==
    ASSUME poller_handle, NEW ready, NEW room, NEW out, Meets(Interest, ready, room, out)
    PROVE  EventSets!Poll(ready, room, out)
<1>1. /\ Len(out) <= room
      /\ \A i, j \in DOMAIN out : out[i].handle = out[j].handle => i = j
  BY DEF Meets
<1>2. Due(Interest, ready)
        = {h \in EventSets!Registered : h \notin live \/ ready[h] \cap EventSets!Asked(h) # {}}
  BY DEF Due, EventSets!Asked, EventSets!Registered
<1>3. \A h : EventSets!Asked(h) = Interest[h] \cup {"Error", "Hangup"} BY DEF EventSets!Asked
<1> DEFINE D == Due(Interest, ready)
<1>4. ASSUME NEW i \in DOMAIN out
      PROVE  /\ out[i].handle \in D
             /\ IF out[i].handle \in live
                THEN /\ out[i].mask # {}
                     /\ out[i].mask \subseteq ready[out[i].handle] \cap EventSets!Asked(out[i].handle)
                ELSE out[i].mask = {}
  BY <1>3 DEF Meets
<1>5. Cardinality(D) <= room =>
         \A h \in D \cap live : \E i \in DOMAIN out :
            out[i] = [handle |-> h, mask |-> ready[h] \cap EventSets!Asked(h)]
  BY <1>3 DEF Meets
<1> HIDE DEF D
<1> QED BY <1>1, <1>2, <1>4, <1>5, SameCardinality DEF EventSets!Poll, D

LEMMA DueFinite ==
    ASSUME NEW F, NEW ready, DOMAIN F \subseteq Handles
    PROVE  IsFiniteSet(Due(F, ready))
BY PollerAssumption, FS_Subset DEF Due

\* epoll: one event for each handle that is due, as many as there is room for.
LEMMA LinuxMeets ==
    ASSUME IInv, platform = "linux", NEW ready \in ReadySets, NEW room \in Nat,
           NEW out \in PollLinux(ready, room)
    PROVE  Meets(registry, ready, room, out)
<1> DEFINE D == {g \in DOMAIN registry : Reported(ready, g, registry[g]) # {}}
           event(h) == Event(h, Reported(ready, h, registry[h]))
           G == [h \in D |-> event(h)]
           S == {event(h) : h \in D}
<1>1. /\ DOMAIN registry \subseteq live
      /\ DOMAIN registry \subseteq Handles
      /\ \A h \in DOMAIN registry : registry[h] \in Masks
  BY DEF IInv, Fits
<1>2. D = Due(registry, ready) BY <1>1 DEF Due, Reported
<1>3. IsFiniteSet(D) BY <1>1, <1>2, DueFinite
<1>4. G \in Surjection(D, S) BY DEF Surjection
<1>5. IsFiniteSet(S) /\ Cardinality(S) <= Cardinality(D)
  <2> HIDE DEF G, S, D
  <2> QED BY <1>3, <1>4, FS_Surjection
<1>6. out \in Filled(S, room)
  <2>1. D = {g \in DOMAIN registry : Reported(ready, g, registry[g]) # {}} OBVIOUS
  <2> QED BY DEF PollLinux
<1>7. /\ out \in Seq(S)
      /\ Len(out) <= room
      /\ \A i, j \in DOMAIN out : out[i] = out[j] => i = j
      /\ Cardinality(S) <= room => \A e \in S : \E i \in DOMAIN out : out[i] = e
  <2> HIDE DEF S
  <2> QED BY <1>5, <1>6, FilledIs
<1>8. ASSUME NEW h \in D
      PROVE  /\ event(h) \in Reports
             /\ event(h).handle = h
             /\ event(h).mask = ready[h] \cap (registry[h] \cup {"Error", "Hangup"})
             /\ event(h).mask # {}
  <2>1. ready[h] \subseteq Conditions BY <1>1 DEF ReadySets, Findings, Conditions
  <2> QED BY <1>1, <2>1 DEF Event, Reported, Reports
<1>9. ASSUME NEW i \in DOMAIN out PROVE out[i].handle \in D /\ out[i] = event(out[i].handle)
  <2>1. out[i] \in S
    <3> HIDE DEF S
    <3> QED BY <1>7
  <2>2. PICK h \in D : out[i] = event(h) BY <2>1
  <2> HIDE DEF event, D
  <2> QED BY <1>8, <2>2
<1> HIDE DEF event, D
<1>10. out \in Seq(Reports)
  <2>1. \A i \in DOMAIN out : out[i] \in Reports BY <1>8, <1>9
  <2>2. Len(out) \in Nat /\ DOMAIN out = 1 .. Len(out) /\ out \in [1 .. Len(out) -> S] BY <1>7
  <2>3. out \in [1 .. Len(out) -> Reports] BY <2>1, <2>2
  <2> QED BY <2>2, <2>3
<1>11. \A i, j \in DOMAIN out : out[i].handle = out[j].handle => i = j BY <1>7, <1>9
<1>12. \A i \in DOMAIN out :
          /\ out[i].handle \in D
          /\ out[i].handle \in live
          /\ out[i].mask # {}
          /\ out[i].mask \subseteq ready[out[i].handle] \cap (registry[out[i].handle] \cup {"Error", "Hangup"})
  BY <1>1, <1>8, <1>9 DEF D
<1>13. ASSUME Cardinality(D) <= room, NEW h \in D
       PROVE  \E i \in DOMAIN out :
                 out[i] = [handle |-> h, mask |-> ready[h] \cap (registry[h] \cup {"Error", "Hangup"})]
  <2>1. Cardinality(S) <= room
    <3> HIDE DEF S
    <3> QED BY <1>3, <1>5, <1>13, FS_CardinalityType
  <2>2. event(h) \in S OBVIOUS
  <2>3. PICK i \in DOMAIN out : out[i] = event(h) BY <1>7, <2>1, <2>2
  <2>4. event(h) = [handle |-> h, mask |-> ready[h] \cap (registry[h] \cup {"Error", "Hangup"})]
    BY DEF event, Event, Reported
  <2> QED BY <2>3, <2>4
<1> QED BY <1>2, <1>7, <1>10, <1>11, <1>12, <1>13 DEF Meets

\* kqueue: at most two events for each handle that is due, in the span for twice
\* as many as there is room for.
LEMMA MacosMeets ==
    ASSUME IInv, platform = "macos", NEW ready \in ReadySets, NEW room \in Nat,
           NEW out \in PollMacos(ready, room)
    PROVE  Meets(KqueueInterest(registry), ready, room, out)
<1> DEFINE F == KqueueInterest(registry)
           D == Due(F, ready)
           event(f) == Event(f[1], {f[2]} \cup (ready[f[1]] \cap {"Hangup"}))
           fires == {k \in registry : k[2] \in ready[k[1]]}
           fired == {event(f) : f \in fires}
<1>1. /\ registry \subseteq Handles \X Filter
      /\ \A k \in registry : k[1] \in live
      /\ Kqueue(registry)
  BY DEF IInv, Fits, Kqueue
<1>2. /\ \A h : h \in DOMAIN F <=> <<h, "Readable">> \in registry
      /\ \A h \in DOMAIN F : F[h] = {f \in Filter : <<h, f>> \in registry}
  BY <1>1, KqueueReads
<1> HIDE DEF F
<1>3. ASSUME NEW h \in DOMAIN F
      PROVE  /\ h \in Handles /\ h \in live
             /\ ready[h] \subseteq {"Readable", "Writable", "Hangup"}
             /\ "Hangup" \in ready[h] => "Readable" \in ready[h]
             /\ F[h] \subseteq Filter /\ "Readable" \in F[h]
  <2>1. <<h, "Readable">> \in registry BY <1>2
  <2>2. <<h, "Readable">>[1] = h OBVIOUS
  <2>3. h \in Handles /\ h \in live BY <1>1, <2>1, <2>2
  <2>4. ready[h] \in Findings \cup {{}} BY <2>3 DEF ReadySets
  <2> QED BY <1>2, <2>1, <2>3, <2>4 DEF Findings, Filter
<1>4. ASSUME NEW k \in fires
      PROVE  /\ k[1] \in DOMAIN F
             /\ k[1] \in D
             /\ k[2] \in F[k[1]] /\ k[2] \in ready[k[1]] /\ k[2] \in Filter
             /\ event(k) \in Reports
             /\ event(k).handle = k[1]
             /\ event(k).mask = {k[2]} \cup (ready[k[1]] \cap {"Hangup"})
  <2>1. k \in Handles \X Filter /\ k = <<k[1], k[2]>> BY <1>1
  <2>2. <<k[1], "Readable">> \in registry BY <1>1 DEF Kqueue
  <2>3. k[1] \in DOMAIN F BY <1>2, <2>2
  <2>4. k[2] \in F[k[1]] /\ k[2] \in ready[k[1]] /\ k[2] \in Filter BY <1>2, <2>1, <2>3
  <2>5. k[1] \in D BY <2>3, <2>4 DEF Due
  <2>6. {k[2]} \cup (ready[k[1]] \cap {"Hangup"}) \subseteq Conditions
    BY <2>4 DEF Filter, Conditions
  <2>7. event(k) \in Reports BY <2>1, <2>6 DEF Event, Reports
  <2> QED BY <2>3, <2>4, <2>5, <2>7 DEF Event
<1>5. DOMAIN F \subseteq Handles BY <1>3
<1>6. IsFiniteSet(D) /\ Cardinality(D) \in Nat BY <1>5, DueFinite, FS_CardinalityType
<1>7. IsFiniteSet(fired) /\ Cardinality(fired) <= 2 * Cardinality(D)
  <2> DEFINE P == D \X Filter
             G == [k \in fires |-> event(k)]
  <2>1. IsFiniteSet(Filter) /\ Cardinality(Filter) = 2
    <3>1. IsFiniteSet({"Readable"}) /\ Cardinality({"Readable"}) = 1 BY FS_Singleton
    <3>2. Filter = {"Readable"} \cup {"Writable"} /\ "Writable" \notin {"Readable"} BY DEF Filter
    <3>3. /\ IsFiniteSet({"Readable"} \cup {"Writable"})
          /\ Cardinality({"Readable"} \cup {"Writable"}) = 1 + 1
      BY <3>1, <3>2, FS_AddElement
    <3> QED BY <3>2, <3>3
  <2>2. IsFiniteSet(P) /\ Cardinality(P) = Cardinality(D) * 2
    <3> HIDE DEF D
    <3> QED BY <1>6, <2>1, FS_Product
  <2>3. fires \subseteq P BY <1>1, <1>4
  <2>4. /\ IsFiniteSet(fires)
        /\ Cardinality(fires) <= Cardinality(P)
        /\ Cardinality(fires) \in Nat
    <3> HIDE DEF P, fires
    <3> QED BY <2>2, <2>3, FS_Subset, FS_CardinalityType
  <2>5. G \in Surjection(fires, fired) BY DEF Surjection
  <2>6. IsFiniteSet(fired) /\ Cardinality(fired) <= Cardinality(fires)
    <3> HIDE DEF G, fires, fired
    <3> QED BY <2>4, <2>5, FS_Surjection
  <2>7. Cardinality(fired) \in Nat BY <2>6, FS_CardinalityType
  <2> HIDE DEF D, fired, fires, P
  <2> QED BY <1>6, <2>2, <2>4, <2>6, <2>7
<1>8. PICK native \in Filled(fired, 2 * room) : out = Coalesced(native, room) BY DEF PollMacos
<1>9. /\ native \in Seq(fired)
      /\ Cardinality(fired) <= 2 * room => \A e \in fired : \E i \in DOMAIN native : native[i] = e
  <2>1. 2 * room \in Nat OBVIOUS
  <2> HIDE DEF fired
  <2> QED BY <1>7, <2>1, FilledIs
<1>10. ASSUME NEW i \in DOMAIN native
       PROVE  \E k \in fires : native[i] = event(k)
  <2>1. native[i] \in fired
    <3> HIDE DEF fired
    <3> QED BY <1>9
  <2> QED BY <2>1
<1> HIDE DEF event, fires
<1>11. native \in Seq(Reports) /\ \A i \in DOMAIN native : native[i].handle \in D
  <2>1. \A i \in DOMAIN native : native[i] \in Reports /\ native[i].handle \in D BY <1>4, <1>10
  <2>2. /\ Len(native) \in Nat
        /\ DOMAIN native = 1 .. Len(native)
        /\ native \in [1 .. Len(native) -> fired]
    BY <1>9
  <2>3. native \in [1 .. Len(native) -> Reports] BY <2>1, <2>2
  <2> QED BY <2>1, <2>2, <2>3
<1>12. Merged(native, room, D, Len(native), out) BY <1>6, <1>8, <1>11, CoalescedMerged
<1>13. Len(native) \in Nat /\ DOMAIN native = 1 .. Len(native) BY <1>11
<1>14. /\ out \in Seq(Reports)
       /\ Len(out) <= room
       /\ \A j, k \in DOMAIN out : out[j].handle = out[k].handle => j = k
  BY <1>12 DEF Merged
<1>15. ASSUME NEW j \in DOMAIN out
       PROVE  /\ out[j].handle \in D /\ out[j].handle \in live
              /\ out[j].mask # {}
  <2>1. PICK k \in DOMAIN native : native[k].handle = out[j].handle /\ native[k].mask \subseteq out[j].mask
    BY <1>12, <1>13 DEF Merged
  <2>2. PICK f \in fires : native[k] = event(f) BY <1>10
  <2>3. out[j].handle = f[1] /\ f[2] \in native[k].mask BY <1>4, <2>1, <2>2
  <2> QED BY <1>3, <1>4, <2>1, <2>3
<1>16. ASSUME NEW j \in DOMAIN out, NEW c \in out[j].mask
       PROVE  c \in ready[out[j].handle] \cap (F[out[j].handle] \cup {"Error", "Hangup"})
  <2>1. PICK k \in DOMAIN native : native[k].handle = out[j].handle /\ c \in native[k].mask
    BY <1>12, <1>13 DEF Merged
  <2>2. PICK f \in fires : native[k] = event(f) BY <1>10
  <2>3. out[j].handle = f[1] /\ c \in {f[2]} \cup (ready[f[1]] \cap {"Hangup"})
    BY <1>4, <2>1, <2>2
  <2> QED BY <1>4, <2>3
<1>17. ASSUME Cardinality(D) <= room, NEW h \in D
       PROVE  \E i \in DOMAIN out :
                 out[i] = [handle |-> h, mask |-> ready[h] \cap (F[h] \cup {"Error", "Hangup"})]
  <2> DEFINE all == ready[h] \cap (F[h] \cup {"Error", "Hangup"})
  <2>1. h \in DOMAIN F /\ h \in live BY <1>3 DEF Due
  <2>2. all # {} BY <1>3, <2>1 DEF Due
  <2>3. Cardinality(fired) <= 2 * room
    <3>1. Cardinality(fired) \in Nat BY <1>7, FS_CardinalityType
    <3> HIDE DEF fired, D
    <3> QED BY <1>6, <1>7, <1>17, <3>1
  <2>4. \A e \in fired : \E k \in DOMAIN native : native[k] = e BY <1>9, <2>3
  <2>5. ASSUME NEW f \in F[h] \cap ready[h]
        PROVE  \E j \in DOMAIN out :
                  out[j].handle = h /\ {f} \cup (ready[h] \cap {"Hangup"}) \subseteq out[j].mask
    <3>1. <<h, f>> \in fires
      <4>1. <<h, f>> \in registry BY <1>2, <2>1
      <4> QED BY <4>1 DEF fires
    <3>2. /\ event(<<h, f>>) \in fired
          /\ event(<<h, f>>).handle = h
          /\ event(<<h, f>>).mask = {f} \cup (ready[h] \cap {"Hangup"})
      <4>1. <<h, f>>[1] = h /\ <<h, f>>[2] = f OBVIOUS
      <4> QED BY <1>4, <3>1, <4>1
    <3>3. PICK k \in DOMAIN native : native[k] = event(<<h, f>>) BY <2>4, <3>2
    <3>4. PICK j \in DOMAIN out : out[j].handle = native[k].handle /\ native[k].mask \subseteq out[j].mask
      BY <1>12, <1>13, <1>17, <3>3 DEF Merged
    <3> QED BY <3>2, <3>3, <3>4
  <2>6. PICK f0 \in F[h] : f0 \in ready[h]
    BY <1>3, <2>1, <2>2 DEF Conditions
  <2>7. PICK j \in DOMAIN out :
           out[j].handle = h /\ {f0} \cup (ready[h] \cap {"Hangup"}) \subseteq out[j].mask
    BY <2>5, <2>6
  <2>8. all \subseteq out[j].mask
    <3>1. ASSUME NEW f \in F[h] \cap ready[h] PROVE f \in out[j].mask
      <4>1. PICK i \in DOMAIN out : out[i].handle = h /\ f \in out[i].mask BY <2>5
      <4>2. i = j BY <1>14, <2>7, <4>1
      <4> QED BY <4>1, <4>2
    <3> QED BY <1>3, <2>1, <2>7, <3>1
  <2>9. out[j].mask \subseteq all BY <1>16, <2>7
  <2>10. out[j] \in Reports BY <1>14
  <2>11. out[j] = [handle |-> out[j].handle, mask |-> out[j].mask] BY <2>10 DEF Reports
  <2> QED BY <2>7, <2>8, <2>9, <2>11
<1> QED BY <1>14, <1>15, <1>16, <1>17 DEF Meets, F

\* WSAPoll: the array is scanned until the span is full.
LEMMA WindowsMeets ==
    ASSUME IInv, platform = "windows", NEW ready \in ReadySets, NEW room \in Nat,
           NEW out \in PollWindows(ready, room)
    PROVE  Meets(ArrayInterest(registry), ready, room, out)
<1> DEFINE F == ArrayInterest(registry)
           D == Due(F, ready)
<1>1. Array(registry) BY DEF IInv, Fits
<1>2. /\ DOMAIN F = {registry[i].fd : i \in DOMAIN registry}
      /\ \A i \in DOMAIN registry : F[registry[i].fd] = registry[i].events
  BY <1>1, ArrayReads DEF ArrayInterest
<1>3. Len(registry) \in Nat /\ DOMAIN registry = 1 .. Len(registry) BY <1>1 DEF Array
<1>4. \A i \in DOMAIN registry : registry[i].fd \in Handles
  <2>1. \A i \in DOMAIN registry : registry[i] \in Entry BY <1>1 DEF Array
  <2> QED BY <2>1 DEF Entry
<1> HIDE DEF F
<1>5. ASSUME NEW k \in DOMAIN registry
      PROVE  /\ registry[k].fd \in DOMAIN F
             /\ Reportable(ready, k) <=> registry[k].fd \in D
             /\ registry[k].fd \in live =>
                  WSAMask(ready, k) = ready[registry[k].fd] \cap (F[registry[k].fd] \cup {"Error", "Hangup"})
             /\ registry[k].fd \notin live => WSAMask(ready, k) = {}
  BY <1>2 DEF Reportable, WSAMask, Reported, Due
<1>6. IsFiniteSet(D) BY <1>2, <1>4, DueFinite
<1>7. Written(ready, room, D, Len(registry), out) BY <1>1, <1>5, <1>6, PollWindowsWritten
<1> HIDE DEF D
<1>8. /\ out \in Seq(Reports)
      /\ Len(out) <= room
      /\ \A j, k \in DOMAIN out : out[j].handle = out[k].handle => j = k
  BY <1>7 DEF Written
<1>9. ASSUME NEW j \in DOMAIN out
      PROVE  /\ out[j].handle \in D
             /\ IF out[j].handle \in live
                THEN /\ out[j].mask # {}
                     /\ out[j].mask \subseteq ready[out[j].handle] \cap (F[out[j].handle] \cup {"Error", "Hangup"})
                ELSE out[j].mask = {}
  <2>1. PICK k \in DOMAIN registry : Reportable(ready, k) /\ out[j] = EventOf(ready, k)
    BY <1>3, <1>7 DEF Written
  <2>2. out[j].handle = registry[k].fd /\ out[j].mask = WSAMask(ready, k)
    BY <1>1, <2>1, EventReported
  <2> QED BY <1>5, <2>1, <2>2 DEF Reportable
<1>10. ASSUME Cardinality(D) <= room, NEW h \in D \cap live
       PROVE  \E j \in DOMAIN out :
                 out[j] = [handle |-> h, mask |-> ready[h] \cap (F[h] \cup {"Error", "Hangup"})]
  <2>1. h \in DOMAIN F BY DEF D, Due
  <2>2. PICK k \in DOMAIN registry : h = registry[k].fd BY <1>2, <2>1
  <2>3. Reportable(ready, k) BY <1>5, <2>2
  <2>4. PICK j \in DOMAIN out : out[j] = EventOf(ready, k)
    BY <1>3, <1>7, <1>10, <2>3 DEF Written
  <2>5. EventOf(ready, k) = [handle |-> h, mask |-> WSAMask(ready, k)]
    BY <2>2 DEF EventOf, Event
  <2> QED BY <1>5, <2>2, <2>4, <2>5
<1> QED BY <1>8, <1>9, <1>10 DEF Meets, D, F

-----------------------------------------------------------------------------
(* What Add, Modify and Remove leave, platform by platform.                *)

\* Result is Refused, or leaves a registry with the interest that is expected.
Leaves(result, interest) ==
    /\ result.ok = TRUE
    /\ Fits(platform, result.registry, live)
    /\ InterestOf(platform, result.registry) = interest

LEMMA DoneIs == \A after : Done(after).ok = TRUE /\ Done(after).registry = after
BY DEF Done

LEMMA SlotIs ==
    ASSUME Array(registry), NEW h
    PROVE  \/ /\ SlotsOf(h) = {}
              /\ h \notin DOMAIN ArrayInterest(registry)
              /\ \A i \in DOMAIN registry : registry[i].fd # h
           \/ /\ SlotsOf(h) # {}
              /\ h \in DOMAIN ArrayInterest(registry)
              /\ \E n \in DOMAIN registry : Min(SlotsOf(h)) = n /\ registry[n].fd = h
<1>1. SlotsOf(h) = {i \in DOMAIN registry : registry[i].fd = h} BY DEF SlotsOf, PollSlots
<1>2. DOMAIN ArrayInterest(registry) = {registry[i].fd : i \in DOMAIN registry}
  BY DEF ArrayInterest
<1>3. CASE SlotsOf(h) = {} BY <1>1, <1>2, <1>3
<1>4. CASE SlotsOf(h) # {}
  <2>1. PICK n \in DOMAIN registry : registry[n].fd = h BY <1>1, <1>4
  <2>2. Min(SlotsOf(h)) = n BY <1>1, <2>1, ArrayReads
  <2> QED BY <1>2, <1>4, <2>1, <2>2
<1> QED BY <1>3, <1>4

LEMMA AddLeaves ==
    ASSUME IInv, NEW h \in live, NEW mask \in Masks, NEW result,
           \/ platform = "linux" /\ result = AddLinux(h, mask)
           \/ platform = "macos" /\ result = AddMacos(h, mask)
           \/ platform = "windows" /\ result = AddWindows(h, mask)
    PROVE  LET F == InterestOf(platform, registry)
           IN  \/ Leaves(result, Extend(F, h, mask \cup (IF h \in DOMAIN F THEN F[h] ELSE {})))
               \/ result = Refused /\ h \in DOMAIN F
<1> DEFINE F == InterestOf(platform, registry)
           G == Extend(F, h, mask \cup (IF h \in DOMAIN F THEN F[h] ELSE {}))
<1> SUFFICES Leaves(result, G) \/ (result = Refused /\ h \in DOMAIN F) OBVIOUS
<1>0. h \in Handles BY DEF IInv
<1>1. CASE platform = "linux" /\ result = AddLinux(h, mask)
  <2>1. F = registry BY <1>1 DEF InterestOf
  <2>2. CASE h \in DOMAIN registry BY <1>1, <2>1, <2>2 DEF AddLinux
  <2>3. CASE h \notin DOMAIN registry
    <3>1. G = Put(h, mask) BY <2>1, <2>3 DEF Extend, Put
    <3>2. result = Done(Put(h, mask)) BY <1>1, <2>3 DEF AddLinux
    <3>3. Fits(platform, Put(h, mask), live) BY <1>1 DEF IInv, Fits, Put
    <3> QED BY <1>1, <3>1, <3>2, <3>3, DoneIs DEF Leaves, InterestOf
  <2> QED BY <2>2, <2>3
<1>2. CASE platform = "macos" /\ result = AddMacos(h, mask)
  <2> DEFINE s == registry \cup ({h} \X mask)
  <2>1. F = KqueueInterest(registry) /\ Kqueue(registry) BY <1>2 DEF InterestOf, IInv, Fits
  <2>2. Kqueue(s) /\ KqueueInterest(s) = G BY <1>0, <2>1, KqueueAdd
  <2>3. \A k \in s : k[1] \in live BY <1>2 DEF IInv, Fits
  <2>4. result = Done(s) BY <1>2 DEF AddMacos
  <2> HIDE DEF s, G
  <2> QED BY <1>2, <2>2, <2>3, <2>4, DoneIs DEF Leaves, Fits, InterestOf
<1>3. CASE platform = "windows" /\ result = AddWindows(h, mask)
  <2> DEFINE s == Append(registry, [fd |-> h, events |-> mask])
  <2>1. F = ArrayInterest(registry) /\ Array(registry) BY <1>3 DEF InterestOf, IInv, Fits
  <2>2. CASE SlotsOf(h) # {} BY <1>3, <2>1, <2>2, SlotIs DEF AddWindows
  <2>3. CASE SlotsOf(h) = {}
    <3>1. h \notin DOMAIN F /\ \A i \in DOMAIN registry : registry[i].fd # h
      BY <2>1, <2>3, SlotIs
    <3>2. Array(s) /\ ArrayInterest(s) = Extend(F, h, mask) BY <1>0, <2>1, <3>1, ArrayAdd
    <3>3. G = Extend(F, h, mask) BY <3>1
    <3>4. result = Done(s) BY <1>3, <2>3 DEF AddWindows
    <3> HIDE DEF s, G, F
    <3> QED BY <1>3, <3>2, <3>3, <3>4, DoneIs DEF Leaves, Fits, InterestOf
  <2> QED BY <2>2, <2>3
<1> QED BY <1>1, <1>2, <1>3

LEMMA ModifyLeaves ==
    ASSUME IInv, NEW h \in live, NEW mask \in Masks, NEW result,
           \/ platform = "linux" /\ result = ModifyLinux(h, mask)
           \/ platform = "macos" /\ result = ModifyMacos(h, mask)
           \/ platform = "windows" /\ result = ModifyWindows(h, mask)
    PROVE  LET F == InterestOf(platform, registry)
           IN  \/ Leaves(result, Extend(F, h, mask))
               \/ result = Refused /\ h \notin DOMAIN F
<1> DEFINE F == InterestOf(platform, registry)
           G == Extend(F, h, mask)
<1> SUFFICES Leaves(result, G) \/ (result = Refused /\ h \notin DOMAIN F) OBVIOUS
<1>0. h \in Handles BY DEF IInv
<1>1. CASE platform = "linux" /\ result = ModifyLinux(h, mask)
  <2>1. F = registry BY <1>1 DEF InterestOf
  <2>2. CASE h \notin DOMAIN registry BY <1>1, <2>1, <2>2 DEF ModifyLinux
  <2>3. CASE h \in DOMAIN registry
    <3>1. G = Put(h, mask) BY <2>1 DEF Extend, Put
    <3>2. result = Done(Put(h, mask)) BY <1>1, <2>3 DEF ModifyLinux
    <3>3. Fits(platform, Put(h, mask), live) BY <1>1 DEF IInv, Fits, Put
    <3> QED BY <1>1, <3>1, <3>2, <3>3, DoneIs DEF Leaves, InterestOf
  <2> QED BY <2>2, <2>3
<1>2. CASE platform = "macos" /\ result = ModifyMacos(h, mask)
  <2> DEFINE s == {k \in registry : k[1] # h} \cup ({h} \X mask)
  <2>1. F = KqueueInterest(registry) /\ Kqueue(registry) BY <1>2 DEF InterestOf, IInv, Fits
  <2>2. Kqueue(s) /\ KqueueInterest(s) = G BY <1>0, <2>1, KqueueModify
  <2>3. \A k \in s : k[1] \in live BY <1>2 DEF IInv, Fits
  <2>4. "Readable" \in mask BY PollerAssumption
  <2>5. result = Done(s) BY <1>2, <2>4 DEF ModifyMacos
  <2> HIDE DEF s, G
  <2> QED BY <1>2, <2>2, <2>3, <2>5, DoneIs DEF Leaves, Fits, InterestOf
<1>3. CASE platform = "windows" /\ result = ModifyWindows(h, mask)
  <2>1. F = ArrayInterest(registry) /\ Array(registry) BY <1>3 DEF InterestOf, IInv, Fits
  <2>2. CASE SlotsOf(h) = {} BY <1>3, <2>1, <2>2, SlotIs DEF ModifyWindows
  <2>3. CASE SlotsOf(h) # {}
    <3>1. PICK n \in DOMAIN registry : Min(SlotsOf(h)) = n /\ registry[n].fd = h
      BY <2>1, <2>3, SlotIs
    <3> DEFINE s == [registry EXCEPT ![n].events = mask]
    <3>2. Array(s) /\ ArrayInterest(s) = G BY <2>1, <3>1, ArrayModify
    <3>3. result = Done(s) BY <1>3, <2>3, <3>1 DEF ModifyWindows
    <3> HIDE DEF s, G
    <3> QED BY <1>3, <3>2, <3>3, DoneIs DEF Leaves, Fits, InterestOf
  <2> QED BY <2>2, <2>3
<1> QED BY <1>1, <1>2, <1>3

LEMMA RemoveLeaves ==
    ASSUME IInv, NEW h \in live, NEW result,
           \/ platform = "linux" /\ result = RemoveLinux(h)
           \/ platform = "macos" /\ result = RemoveMacos(h)
           \/ platform = "windows" /\ result = RemoveWindows(h)
    PROVE  LET F == InterestOf(platform, registry)
           IN  \/ Leaves(result, Drop(F, h))
               \/ result = Refused /\ h \notin DOMAIN F
<1> DEFINE F == InterestOf(platform, registry)
           G == Drop(F, h)
<1> SUFFICES Leaves(result, G) \/ (result = Refused /\ h \notin DOMAIN F) OBVIOUS
<1>1. CASE platform = "linux" /\ result = RemoveLinux(h)
  <2>1. F = registry BY <1>1 DEF InterestOf
  <2>2. CASE h \notin DOMAIN registry BY <1>1, <2>1, <2>2 DEF RemoveLinux
  <2>3. CASE h \in DOMAIN registry
    <3>1. result = Done(G) BY <1>1, <2>1, <2>3 DEF RemoveLinux, Drop
    <3>2. Fits(platform, G, live) BY <1>1, <2>1 DEF IInv, Fits, Drop
    <3> QED BY <1>1, <3>1, <3>2, DoneIs DEF Leaves, InterestOf
  <2> QED BY <2>2, <2>3
<1>2. CASE platform = "macos" /\ result = RemoveMacos(h)
  <2> DEFINE s == {k \in registry : k[1] # h}
  <2>1. F = KqueueInterest(registry) /\ Kqueue(registry) BY <1>2 DEF InterestOf, IInv, Fits
  <2>2. Kqueue(s) /\ KqueueInterest(s) = G BY <2>1, KqueueRemove
  <2>3. \A k \in s : k[1] \in live BY <1>2 DEF IInv, Fits
  <2>4. result = Done(s)
    <3>1. CASE <<h, "Readable">> \notin registry
      <4>1. \A k \in registry : k[1] # h BY <2>1, <3>1 DEF Kqueue
      <4>2. s = registry BY <4>1
      <4> QED BY <1>2, <3>1, <4>2 DEF RemoveMacos
    <3>2. CASE <<h, "Readable">> \in registry BY <1>2, <3>2 DEF RemoveMacos
    <3> QED BY <3>1, <3>2
  <2> HIDE DEF s, G
  <2> QED BY <1>2, <2>2, <2>3, <2>4, DoneIs DEF Leaves, Fits, InterestOf
<1>3. CASE platform = "windows" /\ result = RemoveWindows(h)
  <2>1. F = ArrayInterest(registry) /\ Array(registry) BY <1>3 DEF InterestOf, IInv, Fits
  <2>2. CASE SlotsOf(h) = {} BY <1>3, <2>1, <2>2, SlotIs DEF RemoveWindows
  <2>3. CASE SlotsOf(h) # {}
    <3>1. PICK n \in DOMAIN registry : Min(SlotsOf(h)) = n /\ registry[n].fd = h
      BY <2>1, <2>3, SlotIs
    <3> DEFINE s == SubSeq([registry EXCEPT ![n] = registry[Len(registry)]], 1, Len(registry) - 1)
    <3>2. Array(s) /\ ArrayInterest(s) = G BY <2>1, <3>1, ArrayRemove
    <3>3. result = Done(s) BY <1>3, <2>3, <3>1 DEF RemoveWindows
    <3> HIDE DEF s, G
    <3> QED BY <1>3, <3>2, <3>3, DoneIs DEF Leaves, Fits, InterestOf
  <2> QED BY <2>2, <2>3
<1> QED BY <1>1, <1>2, <1>3

-----------------------------------------------------------------------------
(* The refinement.                                                         *)

LEMMA InitStep == Init => IInv /\ EventSets!Init
<1> SUFFICES ASSUME Init PROVE IInv /\ EventSets!Init OBVIOUS
<1>1. platform \in {"linux", "macos", "windows"} BY DEF Init
<1>2. registry = (IF platform = "macos" THEN {} ELSE <<>>) BY DEF Init, EmptyRegistry
<1>3. Fits(platform, registry, live) /\ InterestOf(platform, registry) = <<>>
  BY <1>1, <1>2, EmptyFits
<1>4. Interest = <<>> BY <1>1, <1>3, InterestIs DEF InterestNow
<1>5. IInv BY <1>1, <1>3 DEF Init, IInv
<1>6. EventSets!Init BY <1>4 DEF Init, EventSets!Init, Returned, EventSets!Returned
<1> QED BY <1>5, <1>6

\* Where the registry stays, what is asked for stays.
LEMMA SameRegistry ==
    ASSUME IInv, platform' = platform, registry' = registry
    PROVE  Interest' = Interest
BY DEF Interest, Filters, PollSlots, SlotsOf

\* A call leaves the registry as it was, or with the interest that is expected.
LEMMA CallStep ==
    ASSUME IInv, NEW op, NEW h, NEW mask, NEW result, NEW interest,
           Leaves(result, interest) \/ result = Refused,
           Call(op, h, mask, result)
    PROVE  /\ IInv'
           /\ UNCHANGED <<poller_handle, live>>
           /\ \/ /\ poller_handle
                 /\ Leaves(result, interest)
                 /\ Interest' = interest
                 /\ last' = Answered(op, h, mask, TRUE)
              \/ /\ ~poller_handle \/ result = Refused
                 /\ Interest' = Interest
                 /\ last' = Answered(op, h, mask, FALSE)
<1>1. UNCHANGED <<platform, poller_handle, live>> BY DEF Call
<1>2. CASE poller_handle /\ Leaves(result, interest)
  <2>1. registry' = result.registry BY <1>2 DEF Call
  <2>2. last' = Answered(op, h, mask, TRUE) BY <1>2 DEF Call, Leaves
  <2>3. IInv' BY <1>1, <1>2, <2>1 DEF IInv, Leaves
  <2>4. InterestNow' BY <2>3, InterestIs, PTL DEF IInv
  <2>5. Interest' = interest BY <1>1, <1>2, <2>1, <2>4 DEF InterestNow, Leaves
  <2> QED BY <1>1, <1>2, <2>2, <2>3, <2>5
<1>3. CASE ~poller_handle \/ result = Refused
  <2>1. registry' = registry BY <1>3 DEF Call, Refused
  <2>2. last' = Answered(op, h, mask, FALSE)
    <3>1. last' = Answered(op, h, mask, poller_handle /\ result.ok) BY DEF Call
    <3>2. result = Refused => result.ok = FALSE BY DEF Refused
    <3>3. (poller_handle /\ result.ok) = FALSE BY <1>3, <3>2
    <3> QED BY <3>1, <3>3, Zenon
  <2>3. IInv' BY <1>1, <2>1 DEF IInv, EmptyRegistry
  <2>4. Interest' = Interest BY <1>1, <2>1, SameRegistry
  <2> QED BY <1>1, <1>3, <2>2, <2>3, <2>4
<1> QED BY <1>2, <1>3

LEMMA AddStep ==
    ASSUME IInv, NEW h \in live, NEW mask \in Masks, Add(h, mask)
    PROVE  IInv' /\ EventSets!Add(h, mask)
<1> DEFINE F == InterestOf(platform, registry)
           G == Extend(F, h, mask \cup (IF h \in DOMAIN F THEN F[h] ELSE {}))
<1>1. PICK result :
         /\ Call("Add", h, mask, result)
         /\ \/ platform = "linux" /\ result = AddLinux(h, mask)
            \/ platform = "macos" /\ result = AddMacos(h, mask)
            \/ platform = "windows" /\ result = AddWindows(h, mask)
  BY DEF Add, IInv
<1>2. Interest = F BY InterestIs DEF IInv, InterestNow
<1>3. Leaves(result, G) \/ (result = Refused /\ h \in DOMAIN F) BY <1>1, AddLeaves
<1> HIDE DEF F, G
<1>4. /\ IInv'
      /\ UNCHANGED <<poller_handle, live>>
      /\ \/ /\ poller_handle
            /\ Leaves(result, G)
            /\ Interest' = G
            /\ last' = Answered("Add", h, mask, TRUE)
         \/ /\ ~poller_handle \/ result = Refused
            /\ Interest' = Interest
            /\ last' = Answered("Add", h, mask, FALSE)
  BY <1>1, <1>3, CallStep
<1>5. G = EventSets!With(h, mask \cup (IF h \in EventSets!Registered THEN Interest[h] ELSE {}))
  BY <1>2 DEF G, Extend, EventSets!With, EventSets!Registered
<1>6. CASE poller_handle /\ Interest' = G /\ last' = Answered("Add", h, mask, TRUE)
  BY <1>4, <1>5, <1>6 DEF EventSets!Add, EventSets!Answered, Answered
<1>7. CASE /\ ~poller_handle \/ h \in DOMAIN F
           /\ Interest' = Interest
           /\ last' = Answered("Add", h, mask, FALSE)
  BY <1>2, <1>4, <1>7
     DEF EventSets!Add, EventSets!Answered, Answered, EventSets!Refuse, EventSets!Registered
<1>8. result = Refused => ~Leaves(result, G) BY DEF Leaves, Refused
<1> QED BY <1>3, <1>4, <1>6, <1>7, <1>8

LEMMA ModifyStep ==
    ASSUME IInv, NEW h \in live, NEW mask \in Masks, Modify(h, mask)
    PROVE  IInv' /\ EventSets!Modify(h, mask)
<1> DEFINE F == InterestOf(platform, registry)
           G == Extend(F, h, mask)
<1>1. PICK result :
         /\ Call("Modify", h, mask, result)
         /\ \/ platform = "linux" /\ result = ModifyLinux(h, mask)
            \/ platform = "macos" /\ result = ModifyMacos(h, mask)
            \/ platform = "windows" /\ result = ModifyWindows(h, mask)
  BY DEF Modify, IInv
<1>2. Interest = F BY InterestIs DEF IInv, InterestNow
<1>3. Leaves(result, G) \/ (result = Refused /\ h \notin DOMAIN F) BY <1>1, ModifyLeaves
<1> HIDE DEF F, G
<1>4. /\ IInv'
      /\ UNCHANGED <<poller_handle, live>>
      /\ \/ /\ poller_handle
            /\ Leaves(result, G)
            /\ Interest' = G
            /\ last' = Answered("Modify", h, mask, TRUE)
         \/ /\ ~poller_handle \/ result = Refused
            /\ Interest' = Interest
            /\ last' = Answered("Modify", h, mask, FALSE)
  BY <1>1, <1>3, CallStep
<1>5. G = EventSets!With(h, mask) BY <1>2 DEF G, Extend, EventSets!With, EventSets!Registered
<1>6. CASE poller_handle /\ Interest' = G /\ last' = Answered("Modify", h, mask, TRUE)
  BY <1>4, <1>5, <1>6 DEF EventSets!Modify, EventSets!Answered, Answered
<1>7. CASE /\ ~poller_handle \/ h \notin DOMAIN F
           /\ Interest' = Interest
           /\ last' = Answered("Modify", h, mask, FALSE)
  BY <1>2, <1>4, <1>7
     DEF EventSets!Modify, EventSets!Answered, Answered, EventSets!Refuse, EventSets!Registered
<1>8. result = Refused => ~Leaves(result, G) BY DEF Leaves, Refused
<1> QED BY <1>3, <1>4, <1>6, <1>7, <1>8

LEMMA RemoveStep ==
    ASSUME IInv, NEW h \in live, Remove(h)
    PROVE  IInv' /\ EventSets!Remove(h)
<1> DEFINE F == InterestOf(platform, registry)
           G == Drop(F, h)
<1>1. PICK result :
         /\ Call("Remove", h, {}, result)
         /\ \/ platform = "linux" /\ result = RemoveLinux(h)
            \/ platform = "macos" /\ result = RemoveMacos(h)
            \/ platform = "windows" /\ result = RemoveWindows(h)
  BY DEF Remove, IInv
<1>2. Interest = F BY InterestIs DEF IInv, InterestNow
<1>3. Leaves(result, G) \/ (result = Refused /\ h \notin DOMAIN F) BY <1>1, RemoveLeaves
<1> HIDE DEF F, G
<1>4. /\ IInv'
      /\ UNCHANGED <<poller_handle, live>>
      /\ \/ /\ poller_handle
            /\ Leaves(result, G)
            /\ Interest' = G
            /\ last' = Answered("Remove", h, {}, TRUE)
         \/ /\ ~poller_handle \/ result = Refused
            /\ Interest' = Interest
            /\ last' = Answered("Remove", h, {}, FALSE)
  BY <1>1, <1>3, CallStep
<1>5. G = EventSets!Without(h) BY <1>2 DEF G, Drop, EventSets!Without, EventSets!Registered
<1>6. CASE poller_handle /\ Interest' = G /\ last' = Answered("Remove", h, {}, TRUE)
  BY <1>4, <1>5, <1>6 DEF EventSets!Remove, EventSets!Answered, Answered
<1>7. CASE /\ ~poller_handle \/ h \notin DOMAIN F
           /\ Interest' = Interest
           /\ last' = Answered("Remove", h, {}, FALSE)
  BY <1>2, <1>4, <1>7
     DEF EventSets!Remove, EventSets!Answered, Answered, EventSets!Refuse, EventSets!Registered
<1>8. result = Refused => ~Leaves(result, G) BY DEF Leaves, Refused
<1> QED BY <1>3, <1>4, <1>6, <1>7, <1>8

LEMMA OpenHandleStep ==
    ASSUME IInv, NEW h \in Handles, OpenHandle(h)
    PROVE  IInv' /\ EventSets!OpenHandle(h)
<1>1. /\ UNCHANGED <<platform, poller_handle, registry>>
      /\ live' = live \cup {h} /\ h \notin live /\ last' = Returned("none", TRUE)
  BY DEF OpenHandle
<1>2. Fits(platform, registry, live') BY <1>1 DEF IInv, Fits
<1>3. IInv' BY <1>1, <1>2 DEF IInv, EmptyRegistry
<1>4. Interest' = Interest BY <1>1, SameRegistry
<1> QED BY <1>1, <1>3, <1>4 DEF EventSets!OpenHandle, EventSets!Returned, Returned

LEMMA CloseHandleStep ==
    ASSUME IInv, NEW h \in Handles, CloseHandle(h)
    PROVE  IInv' /\ EventSets!CloseHandle(h)
<1> DEFINE F == InterestOf(platform, registry)
<1>1. /\ UNCHANGED <<platform, poller_handle>>
      /\ live' = live \ {h}
      /\ last' = Returned("none", TRUE)
  BY DEF CloseHandle
<1>2. /\ Fits(platform, registry', live')
      /\ InterestOf(platform, registry') \in {F, Drop(F, h)}
      /\ registry = EmptyRegistry => registry' = EmptyRegistry
  <2>1. CASE platform = "linux"
    <3>1. registry' = Drop(registry, h) BY <2>1 DEF CloseHandle, Drop
    <3>2. Fits(platform, Drop(registry, h), live \ {h}) BY <2>1 DEF IInv, Fits, Drop
    <3>3. Drop(<<>>, h) = <<>> BY DEF Drop
    <3> QED BY <1>1, <2>1, <3>1, <3>2, <3>3 DEF InterestOf, EmptyRegistry
  <2>2. CASE platform = "macos"
    <3> DEFINE s == {k \in registry : k[1] # h}
    <3>1. registry' = s BY <2>2 DEF CloseHandle
    <3>2. Kqueue(registry) BY <2>2 DEF IInv, Fits
    <3>3. Kqueue(s) /\ KqueueInterest(s) = Drop(KqueueInterest(registry), h)
      BY <3>2, KqueueRemove
    <3>4. \A k \in s : k[1] \in live \ {h} BY <2>2 DEF IInv, Fits
    <3>5. registry = {} => s = {} OBVIOUS
    <3> HIDE DEF s
    <3> QED BY <1>1, <2>2, <3>1, <3>3, <3>4, <3>5 DEF Fits, InterestOf, EmptyRegistry
  <2>3. CASE platform = "windows"
    <3>1. registry' = registry BY <2>3 DEF CloseHandle
    <3> QED BY <2>3, <3>1 DEF IInv, Fits
  <2> QED BY <2>1, <2>2, <2>3 DEF IInv
<1>3. IInv' BY <1>1, <1>2 DEF IInv, EmptyRegistry
<1>4. InterestNow' BY <1>3, InterestIs, PTL DEF IInv
<1>5. Interest = F BY InterestIs DEF IInv, InterestNow
<1>6. Interest' \in {Interest, EventSets!Without(h)}
  <2>1. Drop(F, h) = EventSets!Without(h)
    BY <1>5 DEF Drop, EventSets!Without, EventSets!Registered
  <2> QED BY <1>1, <1>2, <1>4, <1>5, <2>1 DEF InterestNow
<1> QED BY <1>1, <1>3, <1>6 DEF EventSets!CloseHandle, EventSets!Returned, Returned

LEMMA OpenStep ==
    ASSUME IInv, Open
    PROVE  IInv' /\ EventSets!Open
<1>1. /\ UNCHANGED <<platform, live>>
      /\ poller_handle' = TRUE
      /\ registry' = registry
      /\ last' = Returned("Open", ~poller_handle)
  BY DEF Open, IInv
<1>2. IInv' BY <1>1 DEF IInv
<1>3. Interest' = Interest BY <1>1, SameRegistry
<1> QED BY <1>1, <1>2, <1>3 DEF EventSets!Open, EventSets!Returned, Returned

LEMMA CloseStep ==
    ASSUME IInv, Close
    PROVE  IInv' /\ EventSets!Close
<1>1. /\ UNCHANGED <<platform, live>>
      /\ poller_handle' = FALSE
      /\ registry' = EmptyRegistry
      /\ last' = Returned("Close", TRUE)
  BY DEF Close
<1>2. /\ platform \in {"linux", "macos", "windows"}
      /\ EmptyRegistry = (IF platform = "macos" THEN {} ELSE <<>>)
  BY DEF IInv, EmptyRegistry
<1>3. Fits(platform, EmptyRegistry, live) /\ InterestOf(platform, EmptyRegistry) = <<>>
  BY <1>2, EmptyFits
<1>4. IInv' BY <1>1, <1>3 DEF IInv, EmptyRegistry
<1>5. InterestNow' BY <1>4, InterestIs, PTL DEF IInv
<1>6. Interest' = <<>> BY <1>1, <1>3, <1>5 DEF InterestNow
<1> QED BY <1>1, <1>4, <1>6 DEF EventSets!Close, EventSets!Returned, Returned

LEMMA PollStep ==
    ASSUME IInv, Poll
    PROVE  IInv' /\ EventSets!PollStep
<1>0. PICK ready \in ReadySets, room \in Rooms, interrupted \in BOOLEAN : \E out :
         /\ interrupted => out = <<>>
         /\ ~interrupted => out \in PollOutcomes(ready, room)
         /\ Polled(ready, room, interrupted, out)
  <2>1. PICK ready \in ReadySets, room \in Rooms :
           \/ \E out \in PollOutcomes(ready, room) : Polled(ready, room, FALSE, out)
           \/ Polled(ready, room, TRUE, <<>>)
    BY DEF Poll
  <2>2. CASE \E out \in PollOutcomes(ready, room) : Polled(ready, room, FALSE, out) BY <2>2
  <2>3. CASE Polled(ready, room, TRUE, <<>>) BY <2>3
  <2> QED BY <2>1, <2>2, <2>3
<1>1. PICK out :
         /\ interrupted => out = <<>>
         /\ ~interrupted => out \in PollOutcomes(ready, room)
         /\ Polled(ready, room, interrupted, out)
  BY <1>0
<1>2. /\ UNCHANGED <<platform, poller_handle, live, registry>>
      /\ last' = [op |-> "Poll", ok |-> TRUE, ready |-> ready, room |-> room,
                  interrupted |-> interrupted, out |-> out]
  BY <1>1 DEF Polled
<1>3. poller_handle BY DEF Poll
<1>4. IInv' BY <1>2 DEF IInv, EmptyRegistry
<1>5. Interest' = Interest BY <1>2, SameRegistry
<1>6. room \in Nat BY PollerAssumption
<1>7. ready \in EventSets!Ready
  BY DEF ReadySets, Findings, EventSets!Ready, EventSets!Conditions
<1>8. CASE interrupted
  <2>1. out = <<>> /\ out \in Seq(Reports) BY <1>1, <1>8
  <2>2. last' \in EventSets!Polls
    BY <1>2, <1>7, <2>1 DEF EventSets!Polls, Reports, EventSets!Conditions, Conditions
  <2> QED BY <1>2, <1>4, <1>5, <1>8, <2>1, <2>2 DEF EventSets!PollStep
<1>9. CASE ~interrupted
  <2>1. Meets(Interest, ready, room, out)
    <3>0. out \in PollOutcomes(ready, room) BY <1>1, <1>9
    <3>1. Interest = InterestOf(platform, registry) BY InterestIs DEF IInv, InterestNow
    <3>2. CASE platform = "linux"
      <4>1. out \in PollLinux(ready, room) BY <3>0, <3>2 DEF PollOutcomes
      <4> QED BY <1>6, <3>1, <3>2, <4>1, LinuxMeets DEF InterestOf
    <3>3. CASE platform = "macos"
      <4>1. out \in PollMacos(ready, room) BY <3>0, <3>3 DEF PollOutcomes
      <4> QED BY <1>6, <3>1, <3>3, <4>1, MacosMeets DEF InterestOf
    <3>4. CASE platform = "windows"
      <4>1. out \in PollWindows(ready, room) BY <3>0, <3>4 DEF PollOutcomes
      <4> QED BY <1>6, <3>1, <3>4, <4>1, WindowsMeets DEF InterestOf
    <3> QED BY <3>2, <3>3, <3>4 DEF IInv
  <2>2. EventSets!Poll(ready, room, out) BY <1>3, <2>1, MeetsPoll
  <2>3. out \in Seq(Reports) BY <2>1 DEF Meets
  <2>4. last' \in EventSets!Polls
    BY <1>2, <1>7, <2>3 DEF EventSets!Polls, Reports, EventSets!Conditions, Conditions
  <2>5. /\ last'.interrupted = FALSE
        /\ last'.ready = ready /\ last'.room = room /\ last'.out = out
    BY <1>2, <1>9
  <2> QED BY <1>2, <1>4, <1>5, <2>2, <2>4, <2>5 DEF EventSets!PollStep
<1> QED BY <1>8, <1>9

LEMMA PollClosedStep ==
    ASSUME IInv, PollClosed
    PROVE  IInv' /\ EventSets!PollStep
<1>1. /\ UNCHANGED <<platform, poller_handle, live, registry>>
      /\ ~poller_handle /\ last' = Returned("Poll", FALSE)
  BY DEF PollClosed
<1>2. IInv' BY <1>1 DEF IInv, EmptyRegistry
<1>3. Interest' = Interest BY <1>1, SameRegistry
<1> QED BY <1>1, <1>2, <1>3
     DEF EventSets!PollStep, EventSets!Refuse, EventSets!Returned, Returned

LEMMA NextStep ==
    ASSUME IInv, [Next]_vars
    PROVE  IInv' /\ [EventSets!Next]_EventSets!absVars
<1>1. CASE Open BY <1>1, OpenStep DEF EventSets!Next
<1>2. CASE Close BY <1>2, CloseStep DEF EventSets!Next
<1>3. CASE Poll BY <1>3, PollStep DEF EventSets!Next
<1>4. CASE PollClosed BY <1>4, PollClosedStep DEF EventSets!Next
<1>5. ASSUME NEW h \in Handles, OpenHandle(h) PROVE IInv' /\ EventSets!Next
  BY <1>5, OpenHandleStep DEF EventSets!Next
<1>6. ASSUME NEW h \in Handles, CloseHandle(h) PROVE IInv' /\ EventSets!Next
  BY <1>6, CloseHandleStep DEF EventSets!Next
<1>7. live \subseteq Handles BY DEF IInv
<1>8. ASSUME NEW h \in live, Remove(h) PROVE IInv' /\ EventSets!Next
  BY <1>7, <1>8, RemoveStep DEF EventSets!Next
<1>9. ASSUME NEW h \in live, NEW mask \in Masks, Add(h, mask) PROVE IInv' /\ EventSets!Next
  BY <1>7, <1>9, AddStep DEF EventSets!Next
<1>10. ASSUME NEW h \in live, NEW mask \in Masks, Modify(h, mask) PROVE IInv' /\ EventSets!Next
  BY <1>7, <1>10, ModifyStep DEF EventSets!Next
<1>11. CASE UNCHANGED vars
  <2>1. UNCHANGED <<platform, poller_handle, live, registry, last>> BY <1>11 DEF vars
  <2>2. IInv' BY <2>1 DEF IInv, EmptyRegistry
  <2>3. Interest' = Interest BY <2>1, SameRegistry
  <2> QED BY <2>1, <2>2, <2>3 DEF EventSets!absVars
<1> QED BY <1>1, <1>2, <1>3, <1>4, <1>5, <1>6, <1>8, <1>9, <1>10, <1>11 DEF Next

\* On every platform, for all handles, interest masks and spans: what the calls of
\* EventPoller say they did is what Poll goes by, and Poll reports a handle once,
\* with all conditions that hold of it, and everything that is due if there is room.
THEOREM Refinement == Spec => ImplementsEventSet
<1>1. Init => IInv /\ EventSets!Init BY InitStep
<1>2. IInv /\ [Next]_vars => IInv' /\ [EventSets!Next]_EventSets!absVars BY NextStep
<1> QED BY <1>1, <1>2, PTL DEF Spec, ImplementsEventSet, EventSets!Spec
=============================================================================
