--------------------------- MODULE VpnStreamProofs ---------------------------
(***************************************************************************)
(* Each direction of the VPN's connection is a FIFO of whole packets, for  *)
(* every supply, every window, and every way in which send and recv cut    *)
(* the stream: proofs about VpnTunnel.                                     *)
(*                                                                         *)
(* The bytes on their way in a direction are the receiver's buffer, then   *)
(* the stream, then what the sender still has in hand.  The invariant says *)
(* of them that they are what the packets read and not yet written are     *)
(* made of.  It says so by positions: cut[i] is where packet i ends in all *)
(* that has been read, and a byte on its way is compared with the byte of  *)
(* the packet that its position falls in.  Positions are extended with     *)
(* each packet read, so that no induction over sequences is needed.        *)
(***************************************************************************)
EXTENDS VpnTunnelProofs, SequenceTheorems
-----------------------------------------------------------------------------
(***************************************************************************)
(* Fronts and rests of sequences.                                          *)
(***************************************************************************)
\* What Front and Rest return.
LEMMA FrontProperties ==
  ASSUME NEW S, NEW s \in Seq(S), NEW n \in 0 .. Len(s)
  PROVE  /\ Front(s, n) \in Seq(S) /\ Len(Front(s, n)) = n
         /\ \A i \in 1 .. n : Front(s, n)[i] = s[i]
<1>1. /\ Len(s) \in Nat
      /\ \A i \in 1 .. n : s[i] \in S
  BY LenProperties, ElementOfSeq
<1> QED BY <1>1, SubSeqProperties, n \in Int, 1 \in Int DEF Front

LEMMA RestProperties ==
  ASSUME NEW S, NEW s \in Seq(S), NEW n \in 0 .. Len(s)
  PROVE  /\ Rest(s, n) \in Seq(S) /\ Len(Rest(s, n)) = Len(s) - n
         /\ \A i \in 1 .. Len(s) - n : Rest(s, n)[i] = s[n + i]
<1>1. /\ Len(s) \in Nat
      /\ \A i \in n + 1 .. Len(s) : s[i] \in S
  BY LenProperties, ElementOfSeq
<1>2. /\ Rest(s, n) \in Seq(S)
      /\ Len(Rest(s, n)) = IF n + 1 <= Len(s) THEN Len(s) - (n + 1) + 1 ELSE 0
      /\ \A i \in 1 .. Len(s) - (n + 1) + 1 : Rest(s, n)[i] = s[n + 1 + i - 1]
  BY <1>1, SubSeqProperties, n + 1 \in Int, Len(s) \in Int DEF Rest
<1> QED BY <1>1, <1>2

\* A sequence is its front and its rest.
LEMMA FrontAndRest ==
  ASSUME NEW S, NEW s \in Seq(S), NEW n \in 0 .. Len(s)
  PROVE  Front(s, n) \o Rest(s, n) = s
<1>1. Len(s) \in Nat
  BY LenProperties
<1>2. SubSeq(s, 1, n) \o SubSeq(s, n + 1, Len(s)) = SubSeq(s, 1, Len(s))
  BY <1>1, ConcatAdjacentSubSeq, 1 \in 1 .. Len(s) + 1, n \in 1 - 1 .. Len(s),
     Len(s) \in n .. Len(s)
<1> QED BY <1>2, SubSeqFull DEF Front, Rest
-----------------------------------------------------------------------------
(***************************************************************************)
(* What is on its way.  Of the packets r that have been read, w have been  *)
(* written; q is what is on its way of the others: all of it if whole, and *)
(* a beginning of it if not.                                               *)
(***************************************************************************)
Ends(r, cut) == /\ cut \in [0 .. Len(r) -> Nat] /\ cut[0] = 0
                /\ \A i \in 1 .. Len(r) : cut[i] = cut[i - 1] + Len(r[i])
                /\ \A i, k \in 0 .. Len(r) : i <= k => cut[i] <= cut[k]

\* Where byte j of packet i is in q.
Place(cut, w, i, j) == cut[i - 1] - cut[w] + j

\* Where the bytes of packet i are, in what has not been written.
LEMMA PlaceBounds ==
  ASSUME NEW cut, NEW m, NEW w, NEW i, NEW l, NEW j,
         cut[m] \in Nat, cut[w] \in Nat, cut[i] \in Nat, cut[i - 1] \in Nat,
         cut[i] = cut[i - 1] + l, cut[i] <= cut[m], cut[w] <= cut[i - 1],
         l \in Nat, j \in 1 .. l
  PROVE  Place(cut, w, i, j) \in 1 .. cut[m] - cut[w]
  BY DEF Place

CarriedAt(cut, r, w, q, whole) ==
  /\ Len(q) <= cut[Len(r)] - cut[w]
  /\ whole => Len(q) = cut[Len(r)] - cut[w]
  /\ \A i \in w + 1 .. Len(r) : \A j \in 1 .. Len(r[i]) :
       Place(cut, w, i, j) <= Len(q) => q[Place(cut, w, i, j)] = r[i][j]

Carried(r, w, q, whole) ==
  /\ w <= Len(r)
  /\ \E cut : Ends(r, cut) /\ CarriedAt(cut, r, w, q, whole)

\* Nothing has been read and nothing is on its way.
LEMMA CarriedNone == \A whole : Carried(<<>>, 0, <<>>, whole)
<1> DEFINE cut == [i \in 0 .. 0 |-> 0]
<1>1. Ends(<<>>, cut) /\ \A whole : CarriedAt(cut, <<>>, 0, <<>>, whole)
  BY DEF Ends, CarriedAt
<1> QED BY <1>1 DEF Carried

\* If nothing has been read, nothing is on its way.
LEMMA NoneCarried ==
  ASSUME NEW S, NEW q \in Seq(S), NEW whole, Carried(<<>>, 0, q, whole)
  PROVE  q = <<>>
<1>1. PICK cut : Ends(<<>>, cut) /\ CarriedAt(cut, <<>>, 0, q, whole)
  BY DEF Carried
<1>2. Len(q) \in Nat /\ Len(q) <= 0
  BY <1>1, LenProperties DEF Ends, CarriedAt
<1> QED BY <1>2, EmptySeq

\* A packet read goes to the end of what is on its way, or nowhere.
LEMMA CarriedPut ==
  ASSUME NEW S, NEW r \in Seq(Seq(S)), NEW w \in Nat, NEW q \in Seq(S),
         NEW whole \in BOOLEAN, NEW p \in Seq(S), Carried(r, w, q, whole)
  PROVE  Carried(Append(r, p), w, IF whole THEN q \o p ELSE q, whole)
<1> DEFINE m == Len(r)
           s == Append(r, p)
           t == IF whole THEN q \o p ELSE q
           lenR(i) == Len(r[i])
           lenS(i) == Len(s[i])
           lenP == Len(p)
           lenQ == Len(q)
           lenT == Len(t)
<1>1. PICK cut : Ends(r, cut) /\ CarriedAt(cut, r, w, q, whole)
  BY DEF Carried
<1>2. /\ m \in Nat /\ lenP \in Nat /\ lenQ \in Nat /\ w <= m
      /\ \A i \in 1 .. m : lenR(i) \in Nat
  BY LenProperties, ElementOfSeq DEF Carried
<1>3. /\ Len(s) = m + 1 /\ s[m + 1] = p /\ \A i \in 1 .. m : s[i] = r[i]
      /\ lenS(m + 1) = lenP /\ \A i \in 1 .. m : lenS(i) = lenR(i)
  BY AppendProperties
<1>4. /\ cut[0] = 0 /\ \A i \in 0 .. m : cut[i] \in Nat
      /\ \A i \in 1 .. m : cut[i] = cut[i - 1] + lenR(i)
      /\ \A i, k \in 0 .. m : i <= k => cut[i] <= cut[k]
  BY <1>1 DEF Ends
<1>5. lenQ <= cut[m] - cut[w] /\ (whole => lenQ = cut[m] - cut[w])
  BY <1>1 DEF CarriedAt
<1>6. \A i \in w + 1 .. m : \A j \in 1 .. lenR(i) :
        Place(cut, w, i, j) <= lenQ => q[Place(cut, w, i, j)] = r[i][j]
  BY <1>1 DEF CarriedAt
<1>7. lenT = IF whole THEN lenQ + lenP ELSE lenQ
  BY ConcatProperties
<1>8. /\ \A k \in 1 .. lenQ : t[k] = q[k]
      /\ whole => \A k \in 1 .. lenP : t[lenQ + k] = p[k]
  <2>1. CASE ~ whole
    BY <2>1
  <2>2. CASE whole
    BY <1>2, <2>2, ConcatProperties
  <2> QED BY <2>1, <2>2
<1> HIDE DEF m, s, t, lenR, lenS, lenP, lenQ, lenT
<1> DEFINE end == cut[m] + lenP
           cutS == [i \in 0 .. m + 1 |-> IF i <= m THEN cut[i] ELSE end]
<1>9. cutS \in [0 .. m + 1 -> Nat]
  BY <1>2, <1>4
<1>10. cutS[m + 1] = end /\ \A i \in 0 .. m : cutS[i] = cut[i]
  BY <1>2
<1> HIDE DEF cutS
<1>11. Ends(s, cutS)
  <2>1. ASSUME NEW i \in 1 .. m + 1 PROVE cutS[i] = cutS[i - 1] + lenS(i)
    <3>1. CASE i \in 1 .. m
      <4>1. cutS[i] = cut[i] /\ cutS[i - 1] = cut[i - 1]
        BY <1>2, <1>10, <3>1
      <4> QED BY <1>3, <1>4, <3>1, <4>1
    <3>2. CASE i = m + 1
      BY <1>2, <1>3, <1>10, <3>2
    <3> QED BY <1>2, <3>1, <3>2
  <2>2. ASSUME NEW i \in 0 .. m + 1, NEW k \in 0 .. m + 1, i <= k
        PROVE  cutS[i] <= cutS[k]
    <3>1. CASE k \in 0 .. m
      <4>1. i \in 0 .. m
        BY <1>2, <2>2, <3>1
      <4> QED BY <1>4, <1>10, <2>2, <3>1, <4>1
    <3>2. CASE k = m + 1 /\ i \in 0 .. m
      <4>1. cut[i] <= cut[m] /\ cut[i] \in Nat /\ cut[m] \in Nat
        BY <1>2, <1>4, <3>2
      <4> QED BY <1>2, <1>10, <3>2, <4>1
    <3>3. CASE k = m + 1 /\ i = m + 1
      BY <1>2, <1>4, <1>10, <3>3
    <3> QED BY <1>2, <2>2, <3>1, <3>2, <3>3
  <2> QED BY <1>2, <1>3, <1>4, <1>9, <1>10, <2>1, <2>2 DEF Ends, lenS
<1>12. CarriedAt(cutS, s, w, t, whole)
  <2>1. w \in 0 .. m /\ cut[w] \in Nat /\ cut[m] \in Nat
    BY <1>2, <1>4
  <2>2. lenT <= cutS[m + 1] - cutS[w] /\ (whole => lenT = cutS[m + 1] - cutS[w])
    <3>1. cutS[w] = cut[w] /\ cutS[m + 1] = cut[m] + lenP
      BY <1>10, <2>1
    <3>2. CASE whole
      BY <1>2, <1>5, <1>7, <2>1, <3>1, <3>2
    <3>3. CASE ~ whole
      BY <1>2, <1>5, <1>7, <2>1, <3>1, <3>3
    <3> QED BY <3>2, <3>3
  <2>3. ASSUME NEW i \in w + 1 .. m + 1, NEW j \in 1 .. lenS(i),
               Place(cutS, w, i, j) <= lenT
        PROVE  t[Place(cutS, w, i, j)] = s[i][j]
    <3>1. i - 1 \in 0 .. m /\ Place(cutS, w, i, j) = Place(cut, w, i, j)
      BY <1>2, <1>10, <2>1 DEF Place
    <3>2. CASE i \in 1 .. m
      <4>1. j \in 1 .. lenR(i) /\ lenR(i) \in Nat /\ s[i] = r[i] /\ i \in w + 1 .. m
        BY <1>2, <1>3, <3>2
      <4>2. /\ cut[i] = cut[i - 1] + lenR(i) /\ cut[i] <= cut[m] /\ cut[w] <= cut[i - 1]
            /\ cut[i] \in Nat /\ cut[i - 1] \in Nat
        BY <1>2, <1>4, <2>1, <3>1, <3>2
      <4>3. Place(cut, w, i, j) \in 1 .. cut[m] - cut[w]
        BY <2>1, <4>1, <4>2, PlaceBounds
      <4>4. Place(cut, w, i, j) \in 1 .. lenQ
        BY <1>2, <1>5, <1>7, <2>1, <2>3, <3>1, <4>3
      <4>5. q[Place(cut, w, i, j)] = r[i][j]
        <5> DEFINE k == Place(cut, w, i, j)
        <5>1. k <= lenQ => q[k] = r[i][j]
          BY <1>6, <4>1
        <5>2. k \in 1 .. lenQ
          BY <4>4
        <5> HIDE DEF k
        <5>3. k <= lenQ
          BY <1>2, <5>2
        <5> QED BY <5>1, <5>3 DEF k
      <4> QED BY <1>8, <3>1, <4>1, <4>4, <4>5
    <3>3. CASE i = m + 1
      <4>1. Place(cut, w, i, j) = cut[m] - cut[w] + j /\ j \in 1 .. lenP
        BY <1>2, <1>3, <2>1, <3>3 DEF Place
      <4>2. whole /\ lenQ = cut[m] - cut[w]
        BY <1>2, <1>5, <1>7, <2>1, <2>3, <3>1, <4>1
      <4> QED BY <1>3, <1>8, <3>1, <3>3, <4>1, <4>2
    <3> QED BY <1>2, <3>1, <3>2, <3>3
  <2> QED BY <1>3, <2>2, <2>3 DEF CarriedAt, lenS, lenT
<1> QED BY <1>2, <1>3, <1>11, <1>12 DEF Carried, s, t

\* The place of a byte that has not been written is inside all that has been
\* read and not been written.
LEMMA PlaceInside ==
  ASSUME NEW S, NEW r \in Seq(Seq(S)), NEW cut, Ends(r, cut), NEW w \in 0 .. Len(r),
         NEW i \in w + 1 .. Len(r), NEW j \in 1 .. Len(r[i])
  PROVE  Place(cut, w, i, j) \in 1 .. cut[Len(r)] - cut[w]
<1> DEFINE m == Len(r)
           l == Len(r[i])
<1>1. m \in Nat /\ l \in Nat /\ j \in 1 .. l /\ w \in 0 .. m /\ i \in w + 1 .. m
  <2>1. m \in Nat
    BY LenProperties
  <2>2. i \in 1 .. m
    BY <2>1
  <2> QED BY <2>1, <2>2, LenProperties, ElementOfSeq
<1>2. /\ \A k \in 0 .. m : cut[k] \in Nat
      /\ i \in 1 .. m => cut[i] = cut[i - 1] + l
      /\ \A k, n \in 0 .. m : k <= n => cut[k] <= cut[n]
  BY DEF Ends
<1> HIDE DEF m, l
<1>3. i \in 1 .. m /\ i \in 0 .. m /\ i - 1 \in 0 .. m /\ m \in 0 .. m /\ w <= i - 1 /\ i <= m
  BY <1>1
<1>4. /\ cut[m] \in Nat /\ cut[w] \in Nat /\ cut[i] \in Nat /\ cut[i - 1] \in Nat
      /\ cut[i] = cut[i - 1] + l /\ cut[i] <= cut[m] /\ cut[w] <= cut[i - 1]
  BY <1>1, <1>2, <1>3
<1>5. Place(cut, w, i, j) \in 1 .. cut[m] - cut[w]
  BY <1>1, <1>4, PlaceBounds
<1> QED BY <1>5 DEF m

\* What is on its way begins with the next packet to be written.
LEMMA CarriedFront ==
  ASSUME NEW S, NEW r \in Seq(Seq(S)), NEW w \in Nat, NEW q \in Seq(S), NEW whole,
         Carried(r, w, q, whole), q # <<>>
  PROVE  /\ w < Len(r)
         /\ \A j \in 1 .. Len(r[w + 1]) : j <= Len(q) => q[j] = r[w + 1][j]
<1>1. PICK cut : Ends(r, cut) /\ CarriedAt(cut, r, w, q, whole)
  BY DEF Carried
<1>2. Len(r) \in Nat /\ w <= Len(r) /\ Len(q) \in Nat \ {0}
  BY LenProperties, EmptySeq DEF Carried
<1>3. \A k \in 0 .. Len(r) : cut[k] \in Nat
  BY <1>1 DEF Ends
<1>4. w # Len(r)
  <2>1. Len(q) <= cut[Len(r)] - cut[w]
    BY <1>1 DEF CarriedAt
  <2>2. cut[w] - cut[w] = 0
    BY <1>2, <1>3
  <2> QED BY <1>2, <2>1, <2>2
<1>5. ASSUME NEW j \in 1 .. Len(r[w + 1]), j <= Len(q) PROVE q[j] = r[w + 1][j]
  <2>1. cut[w] \in Nat /\ j \in Int /\ w + 1 - 1 = w
    <3>1. w + 1 \in 1 .. Len(r)
      BY <1>2, <1>4
    <3>2. Len(r[w + 1]) \in Nat
      BY <3>1, LenProperties, ElementOfSeq
    <3> QED BY <1>2, <1>3, <3>2
  <2>2. Place(cut, w, w + 1, j) = j
    BY <2>1 DEF Place
  <2>3. w + 1 \in w + 1 .. Len(r)
    BY <1>2, <1>4
  <2> QED BY <1>1, <1>5, <2>2, <2>3 DEF CarriedAt
<1> QED BY <1>2, <1>4, <1>5

\* A packet written is taken off the front of what is on its way.
LEMMA CarriedGet ==
  ASSUME NEW S, NEW r \in Seq(Seq(S)), NEW w \in Nat, NEW q \in Seq(S), NEW whole,
         Carried(r, w, q, whole), w < Len(r), Len(r[w + 1]) <= Len(q)
  PROVE  Carried(r, w + 1, Rest(q, Len(r[w + 1])), whole)
<1> DEFINE m == Len(r)
           n == Len(r[w + 1])
           t == Rest(q, n)
           lenQ == Len(q)
           lenT == Len(t)
<1>1. PICK cut : Ends(r, cut) /\ CarriedAt(cut, r, w, q, whole)
  BY DEF Carried
<1>2. m \in Nat /\ w < m /\ lenQ \in Nat
  BY LenProperties
<1>3. n \in Nat
  <2>1. w + 1 \in 1 .. m
    BY <1>2
  <2> QED BY <2>1, LenProperties, ElementOfSeq
<1>4. lenT = lenQ - n /\ \A k \in 1 .. lenQ - n : t[k] = q[n + k]
  <2>1. n \in 0 .. lenQ
    BY <1>2, <1>3
  <2> QED BY <2>1, RestProperties
<1>5. /\ \A i \in 0 .. m : cut[i] \in Nat
      /\ cut[w + 1] = cut[w] + n
  <2>1. /\ \A i \in 0 .. m : cut[i] \in Nat
        /\ \A i \in 1 .. m : cut[i] = cut[i - 1] + Len(r[i])
    BY <1>1 DEF Ends
  <2>2. w + 1 \in 1 .. m /\ w + 1 - 1 = w
    BY <1>2
  <2> QED BY <2>1, <2>2
<1>6. lenQ <= cut[m] - cut[w] /\ (whole => lenQ = cut[m] - cut[w])
  BY <1>1 DEF CarriedAt
<1>7. ASSUME NEW i \in w + 1 .. m, NEW j \in 1 .. Len(r[i]), Place(cut, w, i, j) <= lenQ
      PROVE  q[Place(cut, w, i, j)] = r[i][j]
  BY <1>1, <1>7 DEF CarriedAt
<1>8. ASSUME NEW i \in w + 1 + 1 .. m, NEW j \in 1 .. Len(r[i])
      PROVE  Place(cut, w + 1, i, j) \in 1 .. cut[m] - cut[w + 1]
  <2>1. w + 1 \in 0 .. m
    BY <1>2
  <2> QED BY <1>1, <1>8, <2>1, PlaceInside
<1>9. ASSUME NEW i \in w + 1 + 1 .. m, NEW j \in 1 .. Len(r[i])
      PROVE  i \in w + 1 .. m /\ i - 1 \in 0 .. m /\ j \in Int
  <2>1. i \in 1 .. m
    BY <1>2
  <2>2. Len(r[i]) \in Nat
    BY <2>1, LenProperties, ElementOfSeq
  <2> QED BY <1>2, <2>1, <2>2
<1> HIDE DEF m, n, t, lenQ, lenT
<1>10. cut[w + 1] = cut[w] + n /\ cut[w] \in Nat /\ cut[m] \in Nat /\ cut[w + 1] \in Nat
  <2>1. w \in 0 .. m /\ m \in 0 .. m /\ w + 1 \in 0 .. m
    BY <1>2
  <2> QED BY <1>5, <2>1
<1>11. lenT <= cut[m] - cut[w + 1] /\ (whole => lenT = cut[m] - cut[w + 1])
  <2> DEFINE a == cut[m]
             b == cut[w]
             c == cut[w + 1]
  <2>1. c = b + n /\ b \in Nat /\ a \in Nat /\ lenT = lenQ - n
    BY <1>4, <1>10
  <2>2. lenQ <= a - b /\ (whole => lenQ = a - b)
    BY <1>6
  <2> HIDE DEF a, b, c
  <2>3. lenT <= a - c
    BY <1>2, <1>3, <2>1, <2>2
  <2>4. ASSUME whole PROVE lenT = a - c
    BY <1>2, <1>3, <2>1, <2>2, <2>4
  <2> QED BY <2>3, <2>4 DEF a, c
<1>12. ASSUME NEW i \in w + 1 + 1 .. m, NEW j \in 1 .. Len(r[i]),
              Place(cut, w + 1, i, j) <= lenT
       PROVE  t[Place(cut, w + 1, i, j)] = r[i][j]
  <2> DEFINE k == Place(cut, w + 1, i, j)
  <2>1. i - 1 \in 0 .. m /\ j \in Int /\ i \in w + 1 .. m
    BY <1>9
  <2>2. Place(cut, w, i, j) = n + k
    <3> DEFINE a == cut[i - 1]
               b == cut[w]
               c == cut[w + 1]
    <3>1. a \in Nat /\ b \in Nat /\ c = b + n
      BY <1>5, <1>10, <2>1
    <3>2. Place(cut, w, i, j) = a - b + j /\ k = a - c + j
      BY DEF Place
    <3> HIDE DEF a, b, c, k
    <3> QED BY <1>3, <2>1, <3>1, <3>2
  <2>3. k \in 1 .. cut[m] - cut[w + 1]
    BY <1>8
  <2> HIDE DEF k
  <2>4. k \in 1 .. lenQ - n
    <3>1. k <= lenT
      BY <1>12 DEF k
    <3> QED BY <1>2, <1>3, <1>4, <1>10, <2>3, <3>1
  <2>5. t[k] = q[n + k]
    BY <1>4, <2>4
  <2>6. n + k <= lenQ
    BY <1>2, <1>3, <2>4
  <2>7. q[n + k] = r[i][j]
    BY <1>7, <2>1, <2>2, <2>6
  <2> QED BY <2>5, <2>7 DEF k
<1>13. w + 1 <= m /\ w + 1 \in Nat
  BY <1>2
<1> QED BY <1>1, <1>11, <1>12, <1>13 DEF Carried, CarriedAt, m, n, t, lenT

\* What is lost of the bytes on their way is lost at their end.
LEMMA CarriedLess ==
  ASSUME NEW S, NEW r \in Seq(Seq(S)), NEW w \in Nat, NEW q \in Seq(S), NEW whole,
         NEW t \in Seq(S), Carried(r, w, q, whole),
         Len(t) <= Len(q), \A k \in 1 .. Len(t) : t[k] = q[k]
  PROVE  Carried(r, w, t, FALSE)
<1> DEFINE m == Len(r)
           lenQ == Len(q)
           lenT == Len(t)
<1>1. PICK cut : Ends(r, cut) /\ CarriedAt(cut, r, w, q, whole)
  BY DEF Carried
<1>2. m \in Nat /\ w \in 0 .. m /\ lenQ \in Nat /\ lenT \in Nat /\ lenT <= lenQ
  BY LenProperties DEF Carried
<1>3. lenQ <= cut[m] - cut[w] /\ cut[m] \in Nat /\ cut[w] \in Nat
  <2>1. m \in 0 .. m
    BY <1>2
  <2> QED BY <1>1, <1>2, <2>1 DEF CarriedAt, Ends
<1>4. ASSUME NEW i \in w + 1 .. m, NEW j \in 1 .. Len(r[i]), Place(cut, w, i, j) <= lenT
      PROVE  t[Place(cut, w, i, j)] = r[i][j]
  <2> DEFINE k == Place(cut, w, i, j)
  <2>1. k \in 1 .. cut[m] - cut[w]
    BY <1>1, <1>2, PlaceInside
  <2>2. k <= lenQ => q[k] = r[i][j]
    BY <1>1 DEF CarriedAt
  <2>3. k <= lenT
    BY <1>4
  <2>4. \A h \in 1 .. lenT : t[h] = q[h]
    OBVIOUS
  <2> HIDE DEF k, lenQ, lenT, m
  <2>5. k \in 1 .. lenT /\ k <= lenQ
    BY <1>2, <1>3, <2>1, <2>3
  <2> QED BY <2>2, <2>4, <2>5 DEF k
<1>5. lenT <= cut[m] - cut[w]
  <2> HIDE DEF lenQ, lenT, m
  <2> QED BY <1>2, <1>3
<1> QED BY <1>1, <1>2, <1>4, <1>5 DEF Carried, CarriedAt
-----------------------------------------------------------------------------
(***************************************************************************)
(* The inductive invariant.  Of what a side has in hand only that counts   *)
(* which can still be sent: nothing once its socket is not open.           *)
(***************************************************************************)
ByteSet == [of : [id : Nat, len : Nat], at : Nat]

Unsent(x) == IF line[x] = "open" THEN hand[x] ELSE <<>>

\* The bytes on their way from x.
Way(x) == buffer[Peer(x)] \o (stream[x] \o Unsent(x))

DataTypes ==
  /\ hand \in [Sides -> Seq(ByteSet)]
  /\ buffer \in [Sides -> Seq(ByteSet)]
  /\ stream \in [Sides -> Seq(ByteSet)]
  /\ read \in [Sides -> Seq(Seq(ByteSet))]
  /\ written \in [Sides -> Seq(Seq(ByteSet))]
  /\ line \in [Sides -> {"none", "open", "reset", "dead"}]

Unconnected(x) == IF x = "client" THEN {"start", "tun", "routed"} ELSE {"listen"}
Connected(x)   == IF x = "client" THEN {"connected"} ELSE {"accepted", "tun"}

\* A worker runs only on a connection, and takes a new packet only when it has
\* nothing in hand.
HandInv ==
  \A x \in Sides :
    /\ main[x] \in Unconnected(x) => line[x] = "none"
    /\ main[x] \in Connected(x) \/ up[x] # "none" => line[x] # "none"
    /\ main[x] \in Unconnected(x) \cup Connected(x) => up[x] = "none"
    /\ up[x] \in {"none", "check", "read"} => hand[x] = <<>>
    /\ up[x] = "none" => read[x] = <<>>

\* What is read from a tun device is what it has to hand out.
ReadInv ==
  \A x \in Sides : /\ Len(read[x]) <= Len(Supply[x])
                   /\ \A i \in 1 .. Len(read[x]) : read[x][i] = Bytes(Supply[x][i])

CarriedFrom(x) == Carried(read[x], Len(written[Peer(x)]), Way(x), line[x] = "open")

BytesInv == /\ DataTypes /\ HandInv /\ ReadInv
            /\ \A x \in Sides : CarriedFrom(x)
-----------------------------------------------------------------------------
(***************************************************************************)
(* Four kinds of steps move bytes; of the others, some lose what is in the *)
(* stream.                                                                 *)
(***************************************************************************)
Lines == {"none", "open", "reset", "dead"}

\* The two sides are each other's peers.
LEMMA PeersAre ==
  ASSUME NEW x \in Sides
  PROVE  /\ Peer(x) \in Sides /\ Peer(x) # x /\ Peer(Peer(x)) = x
         /\ \A y \in Sides : y = x \/ y = Peer(x)
  BY SidesAre DEF Peer

MovesBytes(x) == SendSome(x) \/ RecvSome(x) \/ ReadTun(x) \/ WriteTun(x)

\* Whose stream is lost can send no more, and a socket opens only once.
LineStep ==
  /\ line' \in [Sides -> Lines] /\ stream' \in [Sides -> Seq(ByteSet)]
  /\ \A x \in Sides : /\ line'[x] = "open" => line[x] \in {"none", "open"}
                      /\ line[x] # "none" => line'[x] # "none"
                      /\ \/ stream'[x] = stream[x]
                         \/ stream'[x] = <<>> /\ line'[x] # "open"

\* A step that moves no bytes is a LineStep.
LEMMA LineSteps ==
  ASSUME DataTypes, HandInv, Next
  PROVE  (\E x \in Sides : MovesBytes(x)) \/ (UNCHANGED data /\ LineStep)
<1> USE DEF LineStep, DataTypes, Lines, data, socket
<1>1. ASSUME UNCHANGED <<line, stream>> PROVE LineStep
  BY <1>1
<1>2. ASSUME NEW x \in Sides, Fin(x) PROVE LineStep
  BY <1>2 DEF Fin
<1>3. ASSUME NEW x \in Sides, Hangup(x) PROVE LineStep
  <2> DEFINE y == Peer(x)
  <2>1. CASE line[x] = "open" /\ stream[y] # <<>>
    <3>1. y \in Sides /\ y # x /\ \A z \in Sides : z = x \/ z = y
      BY PeersAre
    <3>2. /\ line' = [line EXCEPT ![x] = "dead",
                                  ![y] = IF @ = "open" THEN "reset" ELSE @]
          /\ stream' = [stream EXCEPT ![y] = <<>>]
      BY <1>3, <2>1 DEF Hangup
    <3> HIDE DEF y
    <3>3. /\ line' \in [Sides -> Lines] /\ stream' \in [Sides -> Seq(ByteSet)]
          /\ line'[x] = "dead" /\ stream'[x] = stream[x]
          /\ line'[y] = IF line[y] = "open" THEN "reset" ELSE line[y]
          /\ stream'[y] = <<>>
      BY <3>1, <3>2, EmptySeq
    <3> QED BY <2>1, <3>1, <3>3
  <2>2. CASE line[x] # "open"
    BY <1>1, <1>3, <2>2 DEF Hangup
  <2> QED BY <1>2, <1>3, <2>1, <2>2 DEF Hangup
<1>4. ASSUME NEW x \in Sides, Reset(x) PROVE UNCHANGED data /\ LineStep
  BY <1>4, EmptySeq DEF Reset
<1>5. ASSUME NEW x \in Sides, SendFails(x) \/ RecvEnds(x) PROVE UNCHANGED data /\ LineStep
  BY <1>5 DEF SendFails, RecvEnds
<1>6. ASSUME NEW x \in Sides, Shutdown(x) PROVE UNCHANGED data /\ LineStep
  <2>1. CASE line[x] = "open"
    BY <1>2, <1>6, <2>1 DEF Shutdown
  <2>2. CASE line[x] # "open"
    BY <1>6, <2>2 DEF Shutdown
  <2> QED BY <2>1, <2>2
<1>7. CASE Unlisten
  BY <1>7, SidesAre, EmptySeq DEF Unlisten
<1>8. CASE ConnectProxy
  <2>1. line["client"] = "none"
    BY <1>8, SidesAre DEF ConnectProxy, HandInv, Unconnected
  <2> QED BY <1>8, <2>1, SidesAre DEF ConnectProxy
<1>9. CASE AcceptClient
  <2>1. line["proxy"] = "none"
    BY <1>9, SidesAre DEF AcceptClient, HandInv, Unconnected
  <2> QED BY <1>9, <2>1, SidesAre DEF AcceptClient
<1>10. CASE ClientSetupFails \/ ProxyTunFails \/ NatFails
  BY <1>3, <1>10, SidesAre DEF ClientSetupFails, ProxyTunFails, NatFails
<1> HIDE DEF LineStep, DataTypes, Lines
<1>11. ASSUME NEW x \in Sides,
              \/ UpCheck(x) \/ ReadNothing(x) \/ Killed(x) \/ ReadFails(x)
              \/ DownCheck(x) \/ WriteFails(x) \/ PoppedAll(x)
       PROVE  UNCHANGED data /\ LineStep
  BY <1>1, <1>11 DEF UpCheck, ReadNothing, Killed, ReadFails, DownCheck, WriteFails,
    PoppedAll
<1>12. CASE SendInterrupted \/ RecvInterrupted \/ Signal
  BY <1>1, <1>12 DEF SendInterrupted, RecvInterrupted, Signal
<1>13. CASE \/ OpenTun("client") \/ OpenTun("proxy") \/ AddRoute \/ ReplaceDefault
            \/ ClientStops \/ RestoreDefault \/ CleanupRoutes \/ ClientCloses
  BY <1>1, <1>13 DEF OpenTun, AddRoute, ReplaceDefault, ClientStops, RestoreDefault,
    CleanupRoutes, ClientCloses
<1>14. CASE AddRule \/ StartProxy \/ ProxyStops \/ CleanupNat \/ ProxyCloses
  BY <1>1, <1>14 DEF AddRule, StartProxy, ProxyStops, CleanupNat, ProxyCloses
<1> HIDE DEF data, socket
<1>15. ASSUME NEW x \in Sides, Up(x) \/ Down(x) \/ Faults(x)
       PROVE  MovesBytes(x) \/ (UNCHANGED data /\ LineStep)
  BY <1>4, <1>5, <1>11, <1>15 DEF Up, Down, Faults, MovesBytes
<1>16. CASE ClientMain \/ ClientStops \/ ClientSetupFails
  BY <1>6, <1>8, <1>10, <1>13, <1>16, SidesAre DEF ClientMain, ClientSetupFails
<1>17. CASE ProxyMain \/ AcceptFails \/ ProxyTunFails \/ NatFails
  BY <1>6, <1>7, <1>9, <1>10, <1>13, <1>14, <1>17, SidesAre DEF ProxyMain,
    StopListening, AcceptFails
<1> QED BY <1>12, <1>15, <1>16, <1>17 DEF Next
-----------------------------------------------------------------------------
(***************************************************************************)
(* Each step keeps what HandInv says.                                      *)
(***************************************************************************)

\* A step that moves no main, starts no worker and reads no packet.
Calm == /\ UNCHANGED <<main, up, hand, read>>
        /\ \A x \in Sides : line[x] # "none" <=> line'[x] # "none"

\* Such a step keeps HandInv.
LEMMA CalmHand == ASSUME HandInv, Calm PROVE HandInv'
  BY DEF HandInv, Calm

\* A worker's step, of the side x.
LEMMA UpHand ==
  ASSUME Inv, DataTypes, HandInv, NEW x \in Sides,
         \/ UpCheck(x) \/ ReadTun(x) \/ ReadNothing(x) \/ SendSome(x)
         \/ SendFails(x) \/ ReadFails(x)
  PROVE  HandInv'
<1> USE DEF Inv, ThreadTypes, DataTypes, HandInv, socket, data, host
<1>1. CASE UpCheck(x) \/ ReadNothing(x)
  BY <1>1 DEF UpCheck, ReadNothing
<1>2. CASE ReadTun(x)
  BY <1>2 DEF ReadTun
<1>3. CASE SendSome(x)
  <2>1. PICK n \in 1 .. Len(hand[x]) :
          /\ hand' = [hand EXCEPT ![x] = Rest(@, n)]
          /\ up' = [up EXCEPT ![x] = IF n = Len(hand[x]) THEN "check" ELSE @]
    BY <1>3 DEF SendSome
  <2>2. n = Len(hand[x]) => Rest(hand[x], n) = <<>>
    <3>1. hand[x] \in Seq(ByteSet) /\ Len(hand[x]) \in Nat
      BY LenProperties
    <3> QED BY <3>1, SubSeqEmpty DEF Rest
  <2> QED BY <1>3, <2>1, <2>2 DEF SendSome
<1>4. CASE SendFails(x) \/ ReadFails(x)
  BY <1>4 DEF SendFails, ReadFails, UpOver
<1> QED BY <1>1, <1>2, <1>3, <1>4

\* A main that goes on past its set-up, or ends.
GoesOn(x) ==
  /\ \E p \in Phases \ (Unconnected(x) \cup Connected(x)) : main' = [main EXCEPT ![x] = p]
  /\ UNCHANGED <<up, hand, read>>
  /\ line[x] # "none" => line'[x] # "none"
  /\ line[Peer(x)] # "none" <=> line'[Peer(x)] # "none"

\* Such a step keeps HandInv too.
LEMMA GoesOnHand ==
  ASSUME Inv, HandInv, NEW x \in Sides, GoesOn(x) PROVE HandInv'
<1> DEFINE y == Peer(x)
<1>1. y # x /\ \A z \in Sides : z = x \/ z = y
  BY PeersAre
<1>2. PICK p \in Phases \ (Unconnected(x) \cup Connected(x)) : main' = [main EXCEPT ![x] = p]
  BY DEF GoesOn
<1>3. main'[x] = p /\ \A z \in Sides : z # x => main'[z] = main[z]
  BY <1>2 DEF Inv, ThreadTypes
<1>4. /\ UNCHANGED <<up, hand, read>>
      /\ line[x] # "none" => line'[x] # "none"
      /\ line[y] # "none" <=> line'[y] # "none"
  BY DEF GoesOn
<1> HIDE DEF y
<1> QED BY <1>1, <1>2, <1>3, <1>4 DEF HandInv, Unconnected, Connected

\* Hanging up opens no socket.
LEMMA HangupLines ==
  ASSUME DataTypes, NEW x \in Sides, Hangup(x)
  PROVE  \A z \in Sides : line[z] # "none" <=> line'[z] # "none"
<1>1. CASE line[x] = "open" /\ stream[Peer(x)] # <<>>
  <2> DEFINE y == Peer(x)
             reset == [line EXCEPT ![x] = "dead", ![y] = IF @ = "open" THEN "reset" ELSE @]
  <2>1. y \in Sides /\ y # x /\ \A z \in Sides : z = x \/ z = y
    BY PeersAre
  <2>2. line' = reset /\ line \in [Sides -> Lines]
    BY <1>1 DEF Hangup, DataTypes, Lines
  <2> HIDE DEF y
  <2>3. line'[x] = "dead" /\ line'[y] = IF line[y] = "open" THEN "reset" ELSE line[y]
    BY <2>1, <2>2
  <2> QED BY <1>1, <2>1, <2>3
<1>2. CASE ~ (line[x] = "open" /\ stream[Peer(x)] # <<>>)
  BY <1>2 DEF DataTypes, Hangup, Fin, socket
<1> QED BY <1>1, <1>2

\* The steps of the two mains that do so.
LEMMA MainsGoOn ==
  ASSUME DataTypes
  PROVE  /\ \/ ClientStops \/ RestoreDefault \/ CleanupRoutes \/ ClientCloses
            \/ ClientSetupFails \/ Shutdown("client")
            => GoesOn("client")
         /\ \/ Unlisten \/ ProxyTunFails \/ NatFails \/ ProxyStops \/ CleanupNat
            \/ ProxyCloses \/ Shutdown("proxy")
            => GoesOn("proxy")
<1> USE SidesAre DEF GoesOn, Enter, Phases, MainPhases, Over, Unconnected, Connected,
  Peer, socket, data, host
<1>1. ClientStops \/ RestoreDefault \/ CleanupRoutes \/ ClientCloses => GoesOn("client")
  BY DEF ClientStops, RestoreDefault, CleanupRoutes, ClientCloses
<1>2. ProxyStops \/ CleanupNat \/ ProxyCloses => GoesOn("proxy")
  BY DEF ProxyStops, CleanupNat, ProxyCloses
<1>3. ClientSetupFails => GoesOn("client")
  BY HangupLines DEF ClientSetupFails
<1>4. ProxyTunFails \/ NatFails => GoesOn("proxy")
  BY HangupLines DEF ProxyTunFails, NatFails
<1>5. Unlisten => GoesOn("proxy")
  BY DEF Unlisten, DataTypes
<1>6. Shutdown("client") => GoesOn("client")
  BY DEF Shutdown, DataTypes, Fin
<1>7. Shutdown("proxy") => GoesOn("proxy")
  BY DEF Shutdown, DataTypes, Fin
<1> QED BY <1>1, <1>2, <1>3, <1>4, <1>5, <1>6, <1>7

\* The steps of the set-up, the start of the workers, and the step that kills.
LEMMA SetupHand ==
  ASSUME Inv, DataTypes, HandInv,
         \/ OpenTun("client") \/ OpenTun("proxy") \/ AddRoute
         \/ ConnectProxy \/ AcceptClient \/ ReplaceDefault \/ StartProxy
         \/ Killed("client") \/ Killed("proxy")
  PROVE  HandInv'
<1> USE SidesAre DEF Inv, ThreadTypes, DataTypes, HandInv, Unconnected, Connected, Enter,
  Start, socket, data, host
<1>1. CASE OpenTun("client")
  BY <1>1 DEF OpenTun
<1>2. CASE OpenTun("proxy")
  BY <1>2 DEF OpenTun
<1>3. CASE AddRoute
  BY <1>3 DEF AddRoute
<1>4. CASE ConnectProxy
  BY <1>4 DEF ConnectProxy
<1>5. CASE AcceptClient
  BY <1>5 DEF AcceptClient
<1>6. CASE ReplaceDefault
  BY <1>6 DEF ReplaceDefault
<1>7. CASE StartProxy
  BY <1>7 DEF StartProxy
<1>8. CASE Killed("client")
  BY <1>8 DEF Killed
<1>9. CASE Killed("proxy")
  BY <1>9 DEF Killed
<1> QED BY <1>1, <1>2, <1>3, <1>4, <1>5, <1>6, <1>7, <1>8, <1>9

\* Every step keeps HandInv.
LEMMA HandStep == ASSUME Inv, DataTypes, HandInv, Next PROVE HandInv'
<1>1. ASSUME NEW x \in Sides,
             \/ DownCheck(x) \/ RecvSome(x) \/ RecvEnds(x) \/ WriteTun(x)
             \/ PoppedAll(x) \/ WriteFails(x) \/ Reset(x)
      PROVE  Calm
  <2> USE DEF Calm, socket, data, threads
  <2>1. CASE DownCheck(x) \/ RecvSome(x) \/ WriteTun(x) \/ PoppedAll(x) \/ WriteFails(x)
    BY <2>1 DEF DownCheck, RecvSome, WriteTun, PoppedAll, WriteFails, DownOver
  <2>2. CASE RecvEnds(x) \/ Reset(x)
    BY <2>2 DEF RecvEnds, Reset, DownOver, DataTypes
  <2> QED BY <1>1, <2>1, <2>2
<1>2. CASE RecvInterrupted \/ Signal \/ AddRule
  <2>1. Calm
    BY <1>2 DEF RecvInterrupted, Signal, AddRule, Calm, socket, data, threads
  <2> QED BY <2>1, CalmHand
<1>3. CASE SendInterrupted
  BY <1>3, SidesAre DEF SendInterrupted, UpOver, Inv, ThreadTypes, HandInv, socket, data
<1>4. ASSUME NEW x \in Sides, Up(x) \/ Down(x) \/ Faults(x) PROVE HandInv'
  BY <1>1, <1>4, CalmHand, UpHand, SetupHand, SidesAre DEF Up, Down, Faults
<1>5. CASE ClientMain \/ ClientStops \/ ClientSetupFails
  BY <1>5, MainsGoOn, GoesOnHand, SetupHand, SidesAre DEF ClientMain
<1>6. CASE ProxyMain \/ AcceptFails \/ ProxyTunFails \/ NatFails
  BY <1>2, <1>6, MainsGoOn, GoesOnHand, SetupHand, SidesAre DEF ProxyMain,
    StopListening, AcceptFails
<1> QED BY <1>2, <1>3, <1>4, <1>5, <1>6 DEF Next
-----------------------------------------------------------------------------
(***************************************************************************)
(* Each step keeps the types of the data.                                  *)
(***************************************************************************)
\* The bytes of a packet.
LEMMA BytesProperties ==
  ASSUME NEW p \in [id : Nat, len : Nat]
  PROVE  /\ Bytes(p) \in Seq(ByteSet) /\ Len(Bytes(p)) = p.len
         /\ \A i \in 1 .. p.len : Bytes(p)[i] = Byte(p, i)
<1>1. p.len \in Nat /\ \A i \in 1 .. p.len : Byte(p, i) \in ByteSet
  BY DEF Byte, ByteSet
<1>2. Bytes(p) \in [1 .. p.len -> ByteSet]
  BY <1>1 DEF Bytes
<1>3. Bytes(p) \in Seq(ByteSet)
  BY <1>1, <1>2, SeqDef
<1>4. 1 .. Len(Bytes(p)) = 1 .. p.len
  BY <1>2, <1>3, LenProperties
<1>5. Len(Bytes(p)) = p.len
  BY <1>1, <1>3, <1>4, LenProperties
<1> QED BY <1>3, <1>5 DEF Bytes

\* The packet that is read next, and those that have been read.
LEMMA SupplyProperties ==
  ASSUME NEW x \in Sides, NEW i \in 1 .. Len(Supply[x])
  PROVE  /\ Supply[x][i] \in [id : Nat, len : Nat] /\ Len(Supply[x]) \in Nat
         /\ Supply[x][i].len >= Header
<1>1. Supply[x] \in Seq([id : Nat, len : Nat])
  BY SupplyAssumption
<1> QED BY <1>1, LenProperties, ElementOfSeq, LengthAssumption

\* What each of the four steps that move bytes does to them.
LEMMA TypesSend ==
  ASSUME DataTypes, NEW x \in Sides, SendSome(x)
  PROVE  /\ DataTypes'
         /\ \E n \in 1 .. Len(hand[x]) :
              /\ stream'[x] = stream[x] \o Front(hand[x], n)
              /\ hand'[x] = Rest(hand[x], n)
<1>1. PICK n \in 1 .. Len(hand[x]) :
        /\ stream' = [stream EXCEPT ![x] = @ \o Front(hand[x], n)]
        /\ hand' = [hand EXCEPT ![x] = Rest(@, n)]
  BY DEF SendSome
<1>2. Front(hand[x], n) \in Seq(ByteSet) /\ Rest(hand[x], n) \in Seq(ByteSet)
  <2>1. hand[x] \in Seq(ByteSet) /\ n \in 0 .. Len(hand[x])
    BY LenProperties DEF DataTypes
  <2> QED BY <2>1, FrontProperties, RestProperties
<1>3. stream[x] \o Front(hand[x], n) \in Seq(ByteSet)
  BY <1>2, ConcatProperties DEF DataTypes
<1>4. DataTypes'
  <2>1. UNCHANGED <<buffer, read, written, line>>
    BY DEF SendSome
  <2>2. stream' \in [Sides -> Seq(ByteSet)] /\ hand' \in [Sides -> Seq(ByteSet)]
    BY <1>1, <1>2, <1>3 DEF DataTypes
  <2> QED BY <2>1, <2>2 DEF DataTypes
<1> QED BY <1>1, <1>4 DEF DataTypes

LEMMA TypesRecv ==
  ASSUME DataTypes, NEW x \in Sides, RecvSome(Peer(x))
  PROVE  /\ DataTypes'
         /\ \E n \in 1 .. Len(stream[x]) :
              /\ buffer'[Peer(x)] = buffer[Peer(x)] \o Front(stream[x], n)
              /\ stream'[x] = Rest(stream[x], n)
<1> DEFINE y == Peer(x)
<1>1. y \in Sides /\ Peer(y) = x
  BY PeersAre
<1>2. PICK n \in 1 .. Len(stream[x]) :
        /\ buffer' = [buffer EXCEPT ![y] = @ \o Front(stream[x], n)]
        /\ stream' = [stream EXCEPT ![x] = Rest(@, n)]
  BY <1>1 DEF RecvSome
<1>3. UNCHANGED <<hand, read, written, line>>
  BY DEF RecvSome
<1> HIDE DEF y
<1>4. Front(stream[x], n) \in Seq(ByteSet) /\ Rest(stream[x], n) \in Seq(ByteSet)
  <2>1. stream[x] \in Seq(ByteSet) /\ n \in 0 .. Len(stream[x])
    BY LenProperties DEF DataTypes
  <2> QED BY <2>1, FrontProperties, RestProperties
<1>5. buffer[y] \o Front(stream[x], n) \in Seq(ByteSet)
  BY <1>1, <1>4, ConcatProperties DEF DataTypes
<1>6. DataTypes'
  <2>1. stream' \in [Sides -> Seq(ByteSet)] /\ buffer' \in [Sides -> Seq(ByteSet)]
    BY <1>1, <1>2, <1>4, <1>5 DEF DataTypes
  <2> QED BY <1>3, <2>1 DEF DataTypes
<1> QED BY <1>1, <1>2, <1>6 DEF DataTypes, y

LEMMA TypesRead ==
  ASSUME DataTypes, ReadInv, NEW x \in Sides, ReadTun(x)
  PROVE  /\ DataTypes' /\ ReadInv'
         /\ \E p \in Seq(ByteSet) :
              /\ hand'[x] = p /\ read'[x] = Append(read[x], p)
              /\ \E i \in DOMAIN Supply[x] : p = Bytes(Supply[x][i])
<1> DEFINE i == Len(read[x]) + 1
           p == Bytes(Supply[x][i])
<1>1. /\ hand' = [hand EXCEPT ![x] = p]
      /\ read' = [read EXCEPT ![x] = Append(@, p)]
      /\ Len(read[x]) < Len(Supply[x])
      /\ UNCHANGED <<buffer, stream, written, line>>
  BY DEF ReadTun, socket
<1>2. /\ read[x] \in Seq(Seq(ByteSet)) /\ Len(read[x]) \in Nat
      /\ i \in 1 .. Len(Supply[x]) /\ DOMAIN Supply[x] = 1 .. Len(Supply[x])
  <2>1. read[x] \in Seq(Seq(ByteSet)) /\ Len(read[x]) \in Nat
    BY LenProperties DEF DataTypes
  <2>2. Len(Supply[x]) \in Nat /\ DOMAIN Supply[x] = 1 .. Len(Supply[x])
    BY SupplyAssumption, LenProperties
  <2> QED BY <1>1, <2>1, <2>2
<1>3. p \in Seq(ByteSet)
  BY <1>2, SupplyProperties, BytesProperties
<1> HIDE DEF p
<1>4. /\ Append(read[x], p) \in Seq(Seq(ByteSet))
      /\ Len(Append(read[x], p)) = i
      /\ \A k \in 1 .. Len(read[x]) : Append(read[x], p)[k] = read[x][k]
      /\ Append(read[x], p)[i] = p
  BY <1>2, <1>3, AppendProperties
<1>5. /\ hand' \in [Sides -> Seq(ByteSet)] /\ read' \in [Sides -> Seq(Seq(ByteSet))]
      /\ hand'[x] = p /\ read'[x] = Append(read[x], p)
      /\ \A z \in Sides : z # x => read'[z] = read[z]
  BY <1>1, <1>3, <1>4 DEF DataTypes
<1>6. DataTypes'
  BY <1>1, <1>5 DEF DataTypes
<1>7. ReadInv'
  <2>1. ASSUME NEW k \in 1 .. i PROVE Append(read[x], p)[k] = Bytes(Supply[x][k])
    <3>1. CASE k = i
      BY <1>4, <3>1 DEF p
    <3>2. CASE k \in 1 .. Len(read[x])
      BY <1>4, <3>2 DEF ReadInv
    <3> QED BY <1>2, <3>1, <3>2
  <2>2. Len(read'[x]) = i /\ i <= Len(Supply[x])
    BY <1>2, <1>4, <1>5
  <2>3. \A k \in 1 .. i : read'[x][k] = Bytes(Supply[x][k])
    BY <1>5, <2>1
  <2> HIDE DEF i
  <2> QED BY <1>5, <2>2, <2>3 DEF ReadInv
<1> QED BY <1>2, <1>3, <1>5, <1>6, <1>7 DEF p
-----------------------------------------------------------------------------
\* The types of what is on its way.
LEMMA WayTypes ==
  ASSUME DataTypes, NEW x \in Sides
  PROVE  /\ Unsent(x) \in Seq(ByteSet) /\ Way(x) \in Seq(ByteSet)
         /\ stream[x] \o Unsent(x) \in Seq(ByteSet)
         /\ buffer[Peer(x)] \in Seq(ByteSet) /\ stream[x] \in Seq(ByteSet)
         /\ hand[x] \in Seq(ByteSet) /\ read[x] \in Seq(Seq(ByteSet))
         /\ written[Peer(x)] \in Seq(Seq(ByteSet)) /\ Len(written[Peer(x)]) \in Nat
<1>1. Peer(x) \in Sides
  BY PeersAre
<1>2. Unsent(x) \in Seq(ByteSet)
  BY EmptySeq DEF DataTypes, Unsent
<1>3. stream[x] \o Unsent(x) \in Seq(ByteSet)
  BY <1>2, ConcatProperties DEF DataTypes
<1>4. Way(x) \in Seq(ByteSet)
  BY <1>1, <1>3, ConcatProperties DEF DataTypes, Way
<1> QED BY <1>1, <1>2, <1>3, <1>4, LenProperties DEF DataTypes

\* What is taken off the front of a sequence is taken off the front of the whole.
LEMMA ConcatRest ==
  ASSUME NEW S, NEW s \in Seq(S), NEW t \in Seq(S), NEW n \in 0 .. Len(s)
  PROVE  Rest(s, n) \o t = Rest(s \o t, n)
<1> DEFINE u == s \o t
           lenS == Len(s)
           lenT == Len(t)
           a == Rest(s, n)
           b == Rest(u, n)
           c == a \o t
<1>1. lenS \in Nat /\ lenT \in Nat /\ n \in 0 .. lenS
  BY LenProperties
<1>2. u \in Seq(S) /\ Len(u) = lenS + lenT
  BY ConcatProperties
<1>3. \A i \in 1 .. lenS + lenT : u[i] = IF i <= lenS THEN s[i] ELSE t[i - lenS]
  BY ConcatProperties
<1>4. a \in Seq(S) /\ Len(a) = lenS - n
  BY RestProperties
<1>5. \A i \in 1 .. lenS - n : a[i] = s[n + i]
  BY RestProperties
<1> HIDE DEF u, a
<1>6. n \in 0 .. Len(u)
  BY <1>1, <1>2
<1>7. b \in Seq(S) /\ Len(b) = Len(u) - n
  BY <1>2, <1>6, RestProperties
<1>8. \A i \in 1 .. Len(u) - n : b[i] = u[n + i]
  BY <1>2, <1>6, RestProperties
<1>9. c \in Seq(S) /\ Len(c) = Len(a) + lenT
  BY <1>4, ConcatProperties
<1>10. \A i \in 1 .. Len(a) + lenT : c[i] = IF i <= Len(a) THEN a[i] ELSE t[i - Len(a)]
  BY <1>4, ConcatProperties
<1> HIDE DEF lenS, lenT, b, c
<1>11. Len(u) - n = lenS + lenT - n /\ Len(a) + lenT = lenS + lenT - n
  BY <1>1, <1>2, <1>4
<1>12. ASSUME NEW i \in 1 .. lenS + lenT - n PROVE c[i] = b[i]
  <2>1. PICK k \in 1 .. lenS + lenT : k = n + i
    BY <1>1
  <2>2. b[i] = u[k]
    BY <1>8, <1>11, <2>1
  <2>3. CASE i <= lenS - n
    <3>1. i \in 1 .. lenS - n /\ k <= lenS
      BY <1>1, <2>1, <2>3
    <3>2. c[i] = a[i] /\ a[i] = s[k]
      BY <1>4, <1>5, <1>10, <1>11, <2>1, <2>3, <3>1
    <3> QED BY <1>3, <2>2, <3>1, <3>2
  <2>4. CASE ~ (i <= lenS - n)
    <3>1. ~ (k <= lenS) /\ i - (lenS - n) = k - lenS
      BY <1>1, <2>1, <2>4
    <3>2. c[i] = t[k - lenS]
      BY <1>4, <1>10, <1>11, <2>4, <3>1
    <3> QED BY <1>3, <2>2, <3>1, <3>2
  <2> QED BY <2>3, <2>4
<1>13. Len(c) = Len(b)
  BY <1>7, <1>9, <1>11
<1>14. \A i \in 1 .. Len(c) : c[i] = b[i]
  <2>1. Len(c) = lenS + lenT - n
    BY <1>9, <1>11
  <2> QED BY <1>12, <2>1
<1>15. c = b
  BY <1>7, <1>9, <1>13, <1>14, SeqEqual
<1> QED BY <1>15 DEF a, b, c, u

\* What try_pop_ipv4_packet takes off the receiver's buffer is the next packet
\* to be written, whole.
LEMMA PopsPacket ==
  ASSUME DataTypes, ReadInv, NEW x \in Sides, CarriedFrom(x), TryPop(buffer[Peer(x)]) > 0
  PROVE  LET w == Len(written[Peer(x)])
             n == TryPop(buffer[Peer(x)])
         IN  /\ w < Len(read[x]) /\ n = Len(read[x][w + 1])
             /\ n \in 0 .. Len(buffer[Peer(x)])
             /\ Front(buffer[Peer(x)], n) = read[x][w + 1]
<1> DEFINE w == Len(written[Peer(x)])
           b == buffer[Peer(x)]
           t == stream[x] \o Unsent(x)
           q == Way(x)
           r == read[x]
           n == TryPop(b)
           whole == line[x] = "open"
<1>a. /\ b \in Seq(ByteSet) /\ q \in Seq(ByteSet) /\ t \in Seq(ByteSet)
      /\ r \in Seq(Seq(ByteSet)) /\ w \in Nat
  BY WayTypes
<1>b. q = b \o t
  BY DEF Way
<1>2. Carried(r, w, q, whole)
  BY DEF CarriedFrom
<1>3. n > 0
  OBVIOUS
<1> HIDE DEF w, b, t, q, n, r, whole
<1>1. Len(b) \in Nat /\ Len(q) \in Nat /\ Len(r) \in Nat
  BY <1>a, LenProperties
<1>4. Len(b) >= Header /\ Header \in Nat \ {0} /\ b[1].at = 1
      /\ n = b[1].of.len /\ n <= Len(b)
  <2>1. ~ (Len(b) < Header \/ b[1].at # 1 \/ Len(b) < b[1].of.len)
    BY <1>3 DEF n, TryPop
  <2>2. n = b[1].of.len
    BY <2>1 DEF n, TryPop
  <2>3. b[1].of.len \in Nat
    <3>1. 1 \in 1 .. Len(b)
      BY <1>1, <2>1, LengthAssumption
    <3>2. b[1] \in ByteSet
      BY <1>a, <3>1, ElementOfSeq
    <3> QED BY <3>2 DEF ByteSet
  <2> QED BY <1>1, <2>1, <2>2, <2>3, LengthAssumption
<1>5. /\ Len(b) <= Len(q) /\ \A j \in 1 .. Len(b) : q[j] = b[j]
  <2>1. Len(q) = Len(b) + Len(t) /\ Len(t) \in Nat
    BY <1>a, <1>b, ConcatProperties, LenProperties
  <2>2. \A j \in 1 .. Len(b) : q[j] = b[j]
    BY <1>a, <1>b, ConcatProperties
  <2> QED BY <1>1, <2>1, <2>2
<1>6. q # <<>>
  <2>1. Len(q) # 0
    BY <1>1, <1>4, <1>5
  <2> QED BY <2>1, EmptySeq
<1>7. /\ w < Len(r)
      /\ \A j \in 1 .. Len(r[w + 1]) : j <= Len(q) => q[j] = r[w + 1][j]
  BY <1>a, <1>2, <1>6, CarriedFront
<1>8. w + 1 \in 1 .. Len(r) /\ w + 1 \in 1 .. Len(Supply[x])
  <2>1. Len(r) <= Len(Supply[x]) /\ Len(Supply[x]) \in Nat
    BY SupplyAssumption, LenProperties DEF ReadInv, r
  <2> QED BY <1>1, <1>a, <1>7, <2>1
<1> DEFINE p == Supply[x][w + 1]
<1>9. /\ r[w + 1] = Bytes(p) /\ Bytes(p) \in Seq(ByteSet) /\ Len(Bytes(p)) = p.len
      /\ p.len \in Nat /\ p.len >= Header /\ \A j \in 1 .. p.len : Bytes(p)[j] = Byte(p, j)
  <2>1. r[w + 1] = Bytes(p)
    BY <1>8 DEF ReadInv, r
  <2>2. p \in [id : Nat, len : Nat] /\ p.len >= Header
    BY <1>8, SupplyProperties
  <2> QED BY <2>1, <2>2, BytesProperties
<1> HIDE DEF p
<1>10. n = p.len
  <2>1. 1 \in 1 .. p.len /\ 1 \in 1 .. Len(b) /\ 1 <= Len(q)
    BY <1>1, <1>4, <1>5, <1>9
  <2>2. b[1] = Byte(p, 1)
    BY <1>5, <1>7, <1>9, <2>1
  <2> QED BY <1>4, <2>2 DEF Byte
<1>11. n \in 0 .. Len(b) /\ n \in Nat
  BY <1>1, <1>4, <1>9, <1>10
<1>12. Front(b, n) = r[w + 1]
  <2>1. /\ Front(b, n) \in Seq(ByteSet) /\ Len(Front(b, n)) = n
        /\ \A i \in 1 .. n : Front(b, n)[i] = b[i]
    BY <1>a, <1>11, FrontProperties
  <2>2. ASSUME NEW i \in 1 .. n PROVE b[i] = r[w + 1][i]
    <3>1. i \in 1 .. Len(b) /\ i <= Len(q) /\ i \in 1 .. Len(r[w + 1])
      BY <1>1, <1>5, <1>9, <1>10, <1>11
    <3> QED BY <1>5, <1>7, <3>1
  <2>3. \A i \in 1 .. Len(Front(b, n)) : Front(b, n)[i] = r[w + 1][i]
    BY <2>1, <2>2
  <2> QED BY <1>9, <1>10, <2>1, <2>3, SeqEqual
<1> QED BY <1>7, <1>9, <1>10, <1>11, <1>12 DEF w, b, n, r

\* What WriteTun does: it hands out the next packet.
LEMMA TypesWrite ==
  ASSUME DataTypes, ReadInv, NEW x \in Sides, CarriedFrom(x), WriteTun(Peer(x))
  PROVE  LET p == read[x][Len(written[Peer(x)]) + 1]
         IN  /\ DataTypes' /\ Len(written[Peer(x)]) < Len(read[x])
             /\ Len(p) \in 0 .. Len(buffer[Peer(x)]) /\ p \in Seq(ByteSet)
             /\ buffer'[Peer(x)] = Rest(buffer[Peer(x)], Len(p))
             /\ written'[Peer(x)] = Append(written[Peer(x)], p)
<1> DEFINE y == Peer(x)
           w == Len(written[y])
           p == read[x][w + 1]
<1>1. y \in Sides
  BY PeersAre
<1>2. /\ w < Len(read[x]) /\ Len(p) \in 0 .. Len(buffer[y]) /\ TryPop(buffer[y]) = Len(p)
      /\ Front(buffer[y], Len(p)) = p
  BY PopsPacket DEF WriteTun
<1>3. /\ written' = [written EXCEPT ![y] = Append(@, p)]
      /\ buffer' = [buffer EXCEPT ![y] = Rest(@, Len(p))]
      /\ UNCHANGED <<hand, stream, read, line>>
  BY <1>2 DEF WriteTun, socket
<1>4. p \in Seq(ByteSet)
  <2>1. read[x] \in Seq(Seq(ByteSet)) /\ w \in Nat /\ Len(read[x]) \in Nat
    BY WayTypes, LenProperties
  <2>2. w + 1 \in 1 .. Len(read[x])
    BY <1>2, <2>1
  <2> QED BY <2>1, <2>2, ElementOfSeq
<1> HIDE DEF y, p
<1>5. Rest(buffer[y], Len(p)) \in Seq(ByteSet) /\ Append(written[y], p) \in Seq(Seq(ByteSet))
  BY <1>1, <1>2, <1>4, RestProperties, AppendProperties DEF DataTypes
<1>6. DataTypes' /\ buffer'[y] = Rest(buffer[y], Len(p)) /\ written'[y] = Append(written[y], p)
  BY <1>1, <1>3, <1>5 DEF DataTypes
<1> QED BY <1>2, <1>4, <1>6 DEF y, p
-----------------------------------------------------------------------------
(***************************************************************************)
(* Each step keeps what is on its way from x.                              *)
(***************************************************************************)

\* A concatenation begins with its first part.
LEMMA ConcatBegins ==
  ASSUME NEW S, NEW s \in Seq(S), NEW t \in Seq(S)
  PROVE  Len(s) <= Len(s \o t) /\ \A i \in 1 .. Len(s) : (s \o t)[i] = s[i]
<1>1. Len(s) \in Nat /\ Len(t) \in Nat
  BY LenProperties
<1>2. Len(s \o t) = Len(s) + Len(t)
  BY ConcatProperties
<1>3. \A i \in 1 .. Len(s) + Len(t) : (s \o t)[i] = IF i <= Len(s) THEN s[i] ELSE t[i - Len(s)]
  BY ConcatProperties
<1> QED BY <1>1, <1>2, <1>3

\* Concatenation of bytes is associative.
LEMMA BytesAssociative == \A s, t, u \in Seq(ByteSet) : (s \o t) \o u = s \o (t \o u)
  BY ConcatAssociative

\* send_all moves bytes from the hand to the stream.
LEMMA SendCarried ==
  ASSUME DataTypes, NEW x \in Sides, CarriedFrom(x), SendSome(x)
  PROVE  CarriedFrom(x)'
<1> DEFINE y == Peer(x)
           b == buffer[y]
           s == stream[x]
           h == hand[x]
<1>1. b \in Seq(ByteSet) /\ s \in Seq(ByteSet) /\ h \in Seq(ByteSet)
  BY WayTypes
<1>2. PICK n \in 1 .. Len(h) : stream'[x] = s \o Front(h, n) /\ hand'[x] = Rest(h, n)
  BY TypesSend
<1>3. line[x] = "open" /\ UNCHANGED <<line, buffer, read, written>>
  BY DEF SendSome
<1> HIDE DEF b, s, h
<1>4. n \in 0 .. Len(h)
  BY <1>1, LenProperties
<1> DEFINE f == Front(h, n)
           t == Rest(h, n)
<1>5. Way(x)' = b \o ((s \o f) \o t)
  BY <1>2, <1>3 DEF Way, Unsent, b
<1>6. f \o t = h
  BY <1>1, <1>4, FrontAndRest
<1>7. f \in Seq(ByteSet) /\ t \in Seq(ByteSet)
  BY <1>1, <1>4, FrontProperties, RestProperties
<1> HIDE DEF f, t
<1>8. Way(x) = b \o (s \o h)
  BY <1>3 DEF Way, Unsent, b, s, h
<1>9. (s \o f) \o t = s \o (f \o t)
  BY <1>1, <1>7, BytesAssociative, ZenonT(30)
<1> QED BY <1>3, <1>5, <1>6, <1>8, <1>9 DEF CarriedFrom

\* recv moves bytes from the stream to the buffer.
LEMMA RecvCarried ==
  ASSUME DataTypes, NEW x \in Sides, CarriedFrom(x), RecvSome(Peer(x))
  PROVE  CarriedFrom(x)'
<1> DEFINE y == Peer(x)
           b == buffer[y]
           s == stream[x]
           u == Unsent(x)
<1>1. b \in Seq(ByteSet) /\ s \in Seq(ByteSet) /\ u \in Seq(ByteSet)
  BY WayTypes
<1>2. PICK n \in 1 .. Len(s) : buffer'[y] = b \o Front(s, n) /\ stream'[x] = Rest(s, n)
  BY TypesRecv
<1>3. UNCHANGED <<line, hand, read, written>>
  BY DEF RecvSome
<1> DEFINE f == Front(s, n)
           t == Rest(s, n)
<1>4. Way(x) = b \o (s \o u)
  BY DEF Way
<1>5. Way(x)' = (b \o f) \o (t \o u)
  BY <1>2, <1>3 DEF Way, Unsent
<1>6. n \in 0 .. Len(s)
  BY <1>1, LenProperties
<1>7. f \in Seq(ByteSet) /\ t \in Seq(ByteSet)
  BY <1>1, <1>6, FrontProperties, RestProperties
<1>8. f \o t = s
  BY <1>1, <1>6, FrontAndRest
<1> HIDE DEF b, s, u, f, t, y
<1>9. (b \o f) \o (t \o u) = b \o (f \o (t \o u))
  <2>1. t \o u \in Seq(ByteSet)
    BY <1>1, <1>7, ConcatProperties
  <2> QED BY <1>1, <1>7, <2>1, BytesAssociative, ZenonT(30)
<1>10. (f \o t) \o u = f \o (t \o u)
  BY <1>1, <1>7, BytesAssociative, ZenonT(30)
<1> QED BY <1>3, <1>4, <1>5, <1>8, <1>9, <1>10 DEF CarriedFrom

\* A packet read goes to the hand, which is empty.
LEMMA ReadCarried ==
  ASSUME DataTypes, HandInv, ReadInv, NEW x \in Sides, CarriedFrom(x), ReadTun(x)
  PROVE  CarriedFrom(x)'
<1> DEFINE y == Peer(x)
           b == buffer[y]
           s == stream[x]
           w == Len(written[y])
           r == read[x]
           whole == line[x] = "open"
           q == Way(x)
<1>1. /\ b \in Seq(ByteSet) /\ s \in Seq(ByteSet) /\ q \in Seq(ByteSet)
      /\ r \in Seq(Seq(ByteSet)) /\ w \in Nat
  BY WayTypes
<1>2. PICK p \in Seq(ByteSet) : hand'[x] = p /\ read'[x] = Append(r, p)
  BY TypesRead
<1>3. hand[x] = <<>> /\ UNCHANGED <<line, stream, buffer, written>>
  BY DEF ReadTun, HandInv, socket
<1>4. q = b \o (s \o <<>>)
  BY <1>3 DEF Way, Unsent
<1>5. Way(x)' = b \o (s \o IF whole THEN p ELSE <<>>)
  BY <1>2, <1>3 DEF Way, Unsent
<1>6. Carried(r, w, q, whole) /\ whole \in BOOLEAN
  BY DEF CarriedFrom
<1>7. CarriedFrom(x)' = Carried(Append(r, p), w, Way(x)', whole)
  BY <1>2, <1>3 DEF CarriedFrom
<1> HIDE DEF b, s, w, r, whole, q, y
<1>8. q = b \o s
  BY <1>1, <1>4, ConcatEmptySeq
<1>9. Way(x)' = IF whole THEN q \o p ELSE q
  <2>1. CASE whole
    BY <1>1, <1>5, <1>8, <2>1, BytesAssociative
  <2>2. CASE ~ whole
    BY <1>4, <1>5, <2>2
  <2> QED BY <2>1, <2>2
<1>10. Carried(Append(r, p), w, IF whole THEN q \o p ELSE q, whole)
  BY <1>1, <1>6, CarriedPut
<1> QED BY <1>7, <1>9, <1>10

\* A packet written comes from the front of the buffer.
LEMMA WriteCarried ==
  ASSUME DataTypes, ReadInv, NEW x \in Sides, CarriedFrom(x), WriteTun(Peer(x))
  PROVE  CarriedFrom(x)'
<1> DEFINE y == Peer(x)
           b == buffer[y]
           t == stream[x] \o Unsent(x)
           w == Len(written[y])
           r == read[x]
           whole == line[x] = "open"
           p == r[w + 1]
           q == Way(x)
<1>1. /\ b \in Seq(ByteSet) /\ t \in Seq(ByteSet) /\ q \in Seq(ByteSet)
      /\ r \in Seq(Seq(ByteSet)) /\ w \in Nat /\ written[y] \in Seq(Seq(ByteSet))
  BY WayTypes
<1>2. w < Len(r) /\ Len(p) \in 0 .. Len(b) /\ p \in Seq(ByteSet)
  BY TypesWrite
<1>3. buffer'[y] = Rest(b, Len(p)) /\ written'[y] = Append(written[y], p)
  BY TypesWrite
<1>4. UNCHANGED <<line, hand, stream, read>>
  BY DEF WriteTun, socket
<1>5. Way(x)' = Rest(b, Len(p)) \o t
  BY <1>3, <1>4 DEF Way, Unsent
<1>6. q = b \o t
  BY DEF Way
<1>7. Len(written'[y]) = w + 1
  <2> HIDE DEF p, y
  <2> QED BY <1>1, <1>2, <1>3, AppendProperties
<1>8. CarriedFrom(x)' = Carried(r, w + 1, Way(x)', whole)
  BY <1>4, <1>7 DEF CarriedFrom
<1>9. Carried(r, w, q, whole)
  BY DEF CarriedFrom
<1> HIDE DEF b, t, w, r, whole, q, y
<1>10. Rest(b, Len(p)) \o t = Rest(q, Len(p))
  BY <1>1, <1>2, <1>6, ConcatRest
<1>11. Len(p) <= Len(q)
  <2>1. Len(q) = Len(b) + Len(t) /\ Len(b) \in Nat /\ Len(t) \in Nat
    BY <1>1, <1>6, ConcatProperties, LenProperties
  <2> QED BY <1>2, <2>1
<1>12. Carried(r, w + 1, Rest(q, Len(p)), whole)
  BY <1>1, <1>2, <1>9, <1>11, CarriedGet
<1> QED BY <1>5, <1>8, <1>10, <1>12

\* A socket that opens has had nothing to send; what lies unread in the stream
\* when a socket is closed or reset is lost, and what is in hand then too.
LEMMA LineCarried ==
  ASSUME DataTypes, HandInv, UNCHANGED data, LineStep, NEW x \in Sides, CarriedFrom(x)
  PROVE  CarriedFrom(x)'
<1> DEFINE b == buffer[Peer(x)]
           s == stream[x]
           t == stream'[x]
           h == hand[x]
           w == Len(written[Peer(x)])
           r == read[x]
           q == Way(x)
           u == Unsent(x)
           v == IF line'[x] = "open" THEN h ELSE <<>>
           open == line[x] = "open"
           opens == line'[x] = "open"
<1>1. /\ b \in Seq(ByteSet) /\ s \in Seq(ByteSet) /\ h \in Seq(ByteSet)
      /\ r \in Seq(Seq(ByteSet)) /\ w \in Nat
  BY WayTypes
<1>2. q \in Seq(ByteSet) /\ u \in Seq(ByteSet) /\ s \o u \in Seq(ByteSet)
  BY WayTypes
<1>3. Way(x)' = b \o (t \o v) /\ t \in Seq(ByteSet)
  BY DEF Way, Unsent, data, LineStep
<1>4. q = b \o (s \o u) /\ u = IF open THEN h ELSE <<>>
  BY DEF Way, Unsent
<1>5. CarriedFrom(x)' = Carried(r, w, Way(x)', opens)
  BY DEF CarriedFrom, data
<1>6. Carried(r, w, q, open)
  BY DEF CarriedFrom
<1>7. /\ opens => open \/ line[x] = "none"
      /\ t = s \/ (t = <<>> /\ ~ opens)
  BY DEF LineStep
<1>8. line[x] = "none" => r = <<>> /\ h = <<>>
  BY DEF HandInv
<1>9. v = IF opens THEN h ELSE <<>>
  OBVIOUS
<1> HIDE DEF b, s, t, h, w, r, q, u, v, open, opens
<1>10. CASE opens /\ open
  BY <1>3, <1>4, <1>5, <1>6, <1>7, <1>9, <1>10
<1>11. CASE opens /\ ~ open
  <2>1. r = <<>> /\ h = <<>> /\ t = s
    BY <1>7, <1>8, <1>11
  <2>2. Way(x)' = q
    BY <1>3, <1>4, <1>9, <1>11, <2>1
  <2>3. w = 0
    <3>1. w <= Len(r) /\ Len(r) = 0
      BY <1>6, <2>1, EmptySeq DEF Carried
    <3> QED BY <1>1, <3>1
  <2>4. q = <<>>
    BY <1>2, <1>6, <2>1, <2>3, NoneCarried
  <2> QED BY <1>5, <2>1, <2>2, <2>3, <2>4, CarriedNone
<1>12. CASE ~ opens
  <2>1. t \o v = t /\ v = <<>>
    BY <1>3, <1>9, <1>12, ConcatEmptySeq
  <2>2. Way(x)' = b \o t
    BY <1>3, <2>1
  <2> DEFINE k == b \o t
  <2>3. k \in Seq(ByteSet) /\ Len(k) = Len(b) + Len(t)
    BY <1>1, <1>3, ConcatProperties
  <2>4. Len(k) <= Len(q) /\ \A i \in 1 .. Len(k) : k[i] = q[i]
    <3>1. CASE t = <<>>
      <4>1. k = b
        BY <1>1, <3>1, ConcatEmptySeq
      <4>2. /\ Len(b) <= Len(b \o (s \o u))
            /\ \A i \in 1 .. Len(b) : (b \o (s \o u))[i] = b[i]
        <5> HIDE DEF k
        <5> QED BY <1>1, <1>2, ConcatBegins
      <4> QED BY <1>4, <4>1, <4>2
    <3>2. CASE t = s
      <4>1. q = k \o u
        <5>1. b \in Seq(ByteSet) /\ s \in Seq(ByteSet) /\ u \in Seq(ByteSet)
          BY <1>1, <1>2
        <5>2. (b \o s) \o u = b \o (s \o u)
          BY <5>1, BytesAssociative, ZenonT(30)
        <5> QED BY <1>4, <3>2, <5>2
      <4> HIDE DEF k
      <4>2. Len(k) <= Len(k \o u) /\ \A i \in 1 .. Len(k) : (k \o u)[i] = k[i]
        BY <1>2, <2>3, ConcatBegins
      <4> QED BY <4>1, <4>2
    <3> QED BY <1>7, <3>1, <3>2
  <2> HIDE DEF k
  <2>5. Carried(r, w, k, FALSE)
    BY <1>1, <1>2, <1>6, <2>3, <2>4, CarriedLess
  <2>6. opens = FALSE
    BY <1>12 DEF opens
  <2> QED BY <1>5, <2>2, <2>5, <2>6 DEF k
<1> QED BY <1>10, <1>11, <1>12
-----------------------------------------------------------------------------
(***************************************************************************)
(* The invariant.                                                          *)
(***************************************************************************)

\* A step that moves bytes on their way from x.
MovesFrom(x) == \/ SendSome(x) \/ ReadTun(x)
                \/ RecvSome(Peer(x)) \/ WriteTun(Peer(x))

\* Every step that moves bytes is one, of some side.
LEMMA MovesFromSome ==
  ASSUME NEW x \in Sides, MovesBytes(x) PROVE \E y \in Sides : MovesFrom(y)
<1>1. SendSome(x) \/ ReadTun(x) => MovesFrom(x)
  BY DEF MovesFrom
<1>2. RecvSome(x) \/ WriteTun(x) => MovesFrom(Peer(x))
  BY PeersAre DEF MovesFrom
<1>3. Peer(x) \in Sides
  BY PeersAre
<1> QED BY <1>1, <1>2, <1>3 DEF MovesBytes

\* It leaves the other direction alone.
LEMMA OtherCarried ==
  ASSUME DataTypes, NEW x \in Sides, MovesFrom(x), CarriedFrom(Peer(x))
  PROVE  CarriedFrom(Peer(x))'
<1> DEFINE y == Peer(x)
<1>1. y \in Sides /\ y # x /\ Peer(y) = x /\ x \in Sides
  BY PeersAre
<1> HIDE DEF y
<1>2. UNCHANGED <<line, stream[y], hand[y], buffer[x], read[y], written[x]>>
  <2>1. CASE SendSome(x) \/ ReadTun(x)
    BY <1>1, <2>1 DEF SendSome, ReadTun, socket, DataTypes
  <2>2. CASE RecvSome(y)
    BY <1>1, <2>2 DEF RecvSome, DataTypes
  <2>3. CASE WriteTun(y)
    BY <1>1, <2>3 DEF WriteTun, socket, DataTypes
  <2> QED BY <2>1, <2>2, <2>3 DEF MovesFrom, y
<1>3. CarriedFrom(y)
  BY DEF y
<1>4. CarriedFrom(y)'
  BY <1>1, <1>2, <1>3 DEF CarriedFrom, Way, Unsent
<1> QED BY <1>4 DEF y

\* What a step that moves bytes does, in both directions.
LEMMA MovesKeep ==
  ASSUME DataTypes, HandInv, ReadInv, \A x \in Sides : CarriedFrom(x),
         NEW x \in Sides, MovesFrom(x)
  PROVE  DataTypes' /\ ReadInv' /\ \A y \in Sides : CarriedFrom(y)'
<1>1. CarriedFrom(x)'
  BY SendCarried, RecvCarried, ReadCarried, WriteCarried DEF MovesFrom
<1>2. CarriedFrom(Peer(x))'
  BY OtherCarried, PeersAre
<1>3. DataTypes'
  BY TypesSend, TypesRecv, TypesRead, TypesWrite DEF MovesFrom
<1>4. ReadInv'
  <2>1. CASE ReadTun(x)
    BY <2>1, TypesRead
  <2>2. CASE ~ ReadTun(x)
    <3>1. UNCHANGED read
      BY <2>2 DEF MovesFrom, SendSome, RecvSome, WriteTun
    <3> QED BY <3>1 DEF ReadInv
  <2> QED BY <2>1, <2>2
<1> QED BY <1>1, <1>2, <1>3, <1>4, PeersAre

\* The invariant holds at first.
LEMMA BytesInit == Init => BytesInv
<1> SUFFICES ASSUME Init PROVE BytesInv
  OBVIOUS
<1>1. DataTypes
  BY EmptySeq DEF Init, DataTypes
<1>2. HandInv
  BY SidesAre DEF Init, HandInv, Unconnected, Connected
<1>3. ASSUME NEW x \in Sides PROVE read[x] = <<>> /\ written[x] = <<>>
  BY DEF Init
<1>4. Len(<<>>) = 0
  BY EmptySeq
<1>5. ReadInv
  <2>1. \A x \in Sides : Len(Supply[x]) \in Nat
    BY SupplyAssumption, LenProperties
  <2> QED BY <1>3, <1>4, <2>1 DEF ReadInv
<1>6. ASSUME NEW x \in Sides PROVE CarriedFrom(x)
  <2>1. /\ Peer(x) \in Sides /\ buffer[Peer(x)] = <<>> /\ stream[x] = <<>>
        /\ Unsent(x) = <<>>
    BY PeersAre DEF Init, Unsent
  <2>2. Way(x) = <<>>
    <3>1. <<>> \o (<<>> \o <<>>) = <<>>
      BY ConcatEmptySeq, EmptySeq
    <3> QED BY <2>1, <3>1 DEF Way
  <2> QED BY <1>3, <1>4, <2>1, <2>2, CarriedNone DEF CarriedFrom
<1> QED BY <1>1, <1>2, <1>5, <1>6 DEF BytesInv

\* Every step keeps it.
LEMMA BytesStep == Inv /\ BytesInv /\ [Next]_vars => BytesInv'
<1> SUFFICES ASSUME Inv, BytesInv, [Next]_vars PROVE BytesInv'
  OBVIOUS
<1>1. DataTypes /\ HandInv /\ ReadInv /\ \A x \in Sides : CarriedFrom(x)
  BY DEF BytesInv
<1>2. CASE Next
  <2>1. HandInv'
    BY <1>1, <1>2, HandStep
  <2>2. CASE \E x \in Sides : MovesBytes(x)
    <3>1. PICK x \in Sides : MovesFrom(x)
      BY <2>2, MovesFromSome
    <3> QED BY <1>1, <2>1, <3>1, MovesKeep DEF BytesInv
  <2>3. CASE UNCHANGED data /\ LineStep
    <3>1. DataTypes' /\ ReadInv'
      BY <1>1, <2>3 DEF data, LineStep, Lines, DataTypes, ReadInv
    <3>2. \A x \in Sides : CarriedFrom(x)'
      BY <1>1, <2>3, LineCarried
    <3> QED BY <2>1, <3>1, <3>2 DEF BytesInv
  <2> QED BY <1>1, <1>2, <2>2, <2>3, LineSteps
<1>3. CASE UNCHANGED vars
  <2>1. DataTypes' /\ ReadInv'
    BY <1>1, <1>3 DEF vars, socket, data, DataTypes, ReadInv
  <2>2. HandInv'
    BY <1>1, <1>3 DEF vars, threads, socket, data, HandInv
  <2>3. \A x \in Sides : CarriedFrom(x)'
    BY <1>1, <1>3 DEF vars, socket, data, CarriedFrom, Way, Unsent
  <2> QED BY <2>1, <2>2, <2>3 DEF BytesInv
<1> QED BY <1>2, <1>3

\* In every reachable state what is on its way, in the hand, in the stream and
\* in the buffer, is what the packets read and not yet written are made of.
THEOREM BytesAlways == Spec => []BytesInv
<1>1. Init => BytesInv
  BY BytesInit
<1>2. Inv /\ BytesInv /\ [Next]_vars => BytesInv'
  BY BytesStep
<1> QED BY <1>1, <1>2, InvAlways, PTL DEF Spec
-----------------------------------------------------------------------------
(***************************************************************************)
(* Refinement.                                                             *)
(***************************************************************************)
PacketsOf(x) == {Bytes(Supply[x][i]) : i \in DOMAIN Supply[x]}

\* What a step is to the packets from x to its peer.
LEMMA FifoStep ==
  ASSUME BytesInv, NEW x \in Sides, [Next]_vars
  PROVE  \/ UNCHANGED <<read[x], written[Peer(x)]>>
         \/ /\ \E p \in PacketsOf(x) : read'[x] = Append(read[x], p)
            /\ UNCHANGED written[Peer(x)]
         \/ /\ Len(written[Peer(x)]) < Len(read[x])
            /\ written'[Peer(x)] =
                 Append(written[Peer(x)], read[x][Len(written[Peer(x)]) + 1])
            /\ UNCHANGED read[x]
<1> DEFINE y == Peer(x)
           Still == UNCHANGED <<read[x], written[y]>>
<1>1. DataTypes /\ HandInv /\ ReadInv /\ CarriedFrom(x)
  BY DEF BytesInv
<1>2. y \in Sides /\ y # x /\ Peer(y) = x /\ x \in Sides /\ \A z \in Sides : z = x \/ z = y
  BY PeersAre
<1>3. ASSUME NEW z \in Sides, SendSome(z) \/ RecvSome(z) PROVE Still
  BY <1>3 DEF SendSome, RecvSome
<1>4. CASE ReadTun(x)
  <2>1. \E p \in PacketsOf(x) : read'[x] = Append(read[x], p)
    BY <1>1, <1>4, TypesRead DEF PacketsOf
  <2> QED BY <1>4, <2>1 DEF ReadTun
<1>5. CASE WriteTun(y)
  <2>1. /\ Len(written[y]) < Len(read[x])
        /\ written'[y] = Append(written[y], read[x][Len(written[y]) + 1])
    BY <1>1, <1>5, TypesWrite
  <2> QED BY <1>5, <2>1 DEF WriteTun
<1>6. CASE ReadTun(y) \/ WriteTun(x)
  <2>1. Still
    <3> HIDE DEF y
    <3> QED BY <1>1, <1>2, <1>6 DEF ReadTun, WriteTun, DataTypes
  <2> QED BY <2>1
<1>7. CASE UNCHANGED data
  BY <1>7 DEF data
<1>8. CASE UNCHANGED vars
  BY <1>8 DEF vars, data
<1> HIDE DEF y
<1>9. (\E z \in Sides : MovesBytes(z)) \/ UNCHANGED data \/ UNCHANGED vars
  BY <1>1, LineSteps
<1> QED BY <1>2, <1>3, <1>4, <1>5, <1>6, <1>7, <1>8, <1>9 DEF MovesBytes, y

\* Each direction is a FIFO of whole packets, wherever send and recv cut the
\* stream and wherever it ends (client_socket.cpp:118-131): the tunnel refines
\* PacketFifo in either direction.
THEOREM PacketsStayInOrder == Spec => PacketsInOrder
<1>1. Init => ToProxy!Init /\ ToClient!Init
  BY SidesAre DEF Init, ToProxy!Init, ToClient!Init
<1>2. BytesInv /\ [Next]_vars => [ToProxy!Next]_ToProxy!vars
  <2> SUFFICES ASSUME BytesInv, [Next]_vars PROVE [ToProxy!Next]_ToProxy!vars
    OBVIOUS
  <2>1. "client" \in Sides /\ Peer("client") = "proxy"
    BY SidesAre DEF Peer
  <2> QED BY <2>1, FifoStep DEF PacketsOf, ToProxy!Next, ToProxy!vars, ToProxy!Put, ToProxy!Get
<1>3. BytesInv /\ [Next]_vars => [ToClient!Next]_ToClient!vars
  <2> SUFFICES ASSUME BytesInv, [Next]_vars PROVE [ToClient!Next]_ToClient!vars
    OBVIOUS
  <2>1. "proxy" \in Sides /\ Peer("proxy") = "client"
    BY SidesAre DEF Peer
  <2> QED BY <2>1, FifoStep DEF PacketsOf, ToClient!Next, ToClient!vars, ToClient!Put,
    ToClient!Get
<1> QED BY <1>1, <1>2, <1>3, BytesAlways, PTL DEF Spec, PacketsInOrder, ToProxy!Spec,
  ToClient!Spec
-----------------------------------------------------------------------------
(***************************************************************************)
(* Types.                                                                  *)
(***************************************************************************)
HostTypes ==
  /\ down \in [Sides -> {"none", "check", "recv", "pop", "over"}]
  /\ stop \in [Sides -> BOOLEAN] /\ sig \in BOOLEAN
  /\ fin \in [Sides -> BOOLEAN] /\ tun \in [Sides -> BOOLEAN]
  /\ gateway \in {"gateway", "tun", "none"} /\ except \in BOOLEAN
  /\ nat \in 0 .. Rules

\* Every step keeps the types of what is not data.
LEMMA HostTypesStep == ASSUME HostTypes, Next PROVE HostTypes'
<1> USE DEF HostTypes, threads, socket, data, host
<1>1. ASSUME NEW x \in Sides, Hangup(x) PROVE fin' \in [Sides -> BOOLEAN]
  BY <1>1 DEF Hangup, Fin
<1>2. ASSUME NEW x \in Sides, Up(x) PROVE HostTypes'
  <2>1. CASE UpCheck(x) \/ ReadTun(x) \/ ReadNothing(x) \/ SendSome(x)
    BY <2>1 DEF UpCheck, ReadTun, ReadNothing, SendSome
  <2>2. CASE SendFails(x)
    BY <2>2 DEF SendFails, UpOver
  <2>3. CASE Killed(x)
    BY <2>3 DEF Killed
  <2> QED BY <1>2, <2>1, <2>2, <2>3 DEF Up
<1>3. ASSUME NEW x \in Sides, Down(x) PROVE HostTypes'
  <2>1. CASE DownCheck(x) \/ RecvSome(x) \/ WriteTun(x) \/ PoppedAll(x)
    BY <2>1 DEF DownCheck, RecvSome, WriteTun, PoppedAll
  <2>2. CASE RecvEnds(x)
    BY <2>2 DEF RecvEnds, DownOver
  <2> QED BY <1>3, <2>1, <2>2 DEF Down
<1>4. ASSUME NEW x \in Sides, Faults(x) PROVE HostTypes'
  BY <1>4 DEF Faults, ReadFails, WriteFails, Reset, UpOver, DownOver
<1>5. ASSUME NEW x \in Sides, OpenTun(x) \/ Shutdown(x) PROVE HostTypes'
  <2>1. CASE OpenTun(x)
    BY <2>1 DEF OpenTun, Enter
  <2>2. CASE Shutdown(x)
    BY <2>2 DEF Shutdown, Enter, Fin
  <2> QED BY <1>5, <2>1, <2>2
<1>6. CASE AddRoute \/ ConnectProxy \/ RestoreDefault \/ CleanupRoutes \/ ClientCloses
  BY <1>6 DEF AddRoute, ConnectProxy, RestoreDefault, CleanupRoutes, ClientCloses, Enter
<1>7. CASE ReplaceDefault \/ StartProxy
  BY <1>7 DEF ReplaceDefault, StartProxy, Start
<1>8. CASE ClientStops \/ ProxyStops
  BY <1>8 DEF ClientStops, ProxyStops, Enter
<1>9. CASE ClientSetupFails \/ ProxyTunFails \/ NatFails
  <2>1. fin' \in [Sides -> BOOLEAN]
    BY <1>1, <1>9, SidesAre DEF ClientSetupFails, ProxyTunFails, NatFails
  <2> QED BY <1>9, <2>1 DEF ClientSetupFails, ProxyTunFails, NatFails, Enter
<1>10. CASE AcceptClient \/ Unlisten \/ ProxyCloses
  BY <1>10 DEF AcceptClient, Unlisten, ProxyCloses, Enter
<1>11. CASE AddRule \/ CleanupNat
  BY <1>11, LengthAssumption DEF AddRule, CleanupNat, Enter
<1>12. CASE Signal \/ SendInterrupted \/ RecvInterrupted
  BY <1>12 DEF Signal, SendInterrupted, RecvInterrupted, UpOver
<1> HIDE DEF HostTypes
<1> QED BY <1>2, <1>3, <1>4, <1>5, <1>6, <1>7, <1>8, <1>9, <1>10, <1>11, <1>12, SidesAre
  DEF Next, ClientMain, ProxyMain, StopListening, AcceptFails

\* The connection never holds more than its window.
WindowInv == \A x \in Sides : Len(stream[x]) <= Window

\* Every step keeps it: send_all puts no more than the window takes.
LEMMA WindowStep == ASSUME BytesInv, WindowInv, [Next]_vars PROVE WindowInv'
<1>1. DataTypes /\ HandInv
  BY DEF BytesInv
<1>2. ASSUME NEW x \in Sides PROVE Len(stream[x]) \in Nat /\ Len(stream[x]) <= Window
  BY <1>1, LenProperties DEF DataTypes, WindowInv
<1>3. ASSUME NEW x \in Sides, SendSome(x) PROVE WindowInv'
  <2>1. PICK n \in 1 .. Len(hand[x]) :
          /\ Len(stream[x]) + n <= Window
          /\ stream' = [stream EXCEPT ![x] = @ \o Front(hand[x], n)]
    BY <1>3 DEF SendSome
  <2>2. hand[x] \in Seq(ByteSet) /\ n \in 0 .. Len(hand[x])
    BY <1>1, LenProperties DEF DataTypes
  <2>3. Front(hand[x], n) \in Seq(ByteSet) /\ Len(Front(hand[x], n)) = n
    BY <2>2, FrontProperties
  <2>4. Len(stream[x] \o Front(hand[x], n)) = Len(stream[x]) + n
    <3> DEFINE s == stream[x]
               f == Front(hand[x], n)
    <3>1. s \in Seq(ByteSet)
      BY <1>1 DEF DataTypes
    <3>2. f \in Seq(ByteSet) /\ Len(f) = n
      BY <2>3
    <3> HIDE DEF s, f
    <3>3. Len(s \o f) = Len(s) + Len(f)
      BY <3>1, <3>2, ConcatProperties
    <3> QED BY <3>2, <3>3 DEF s, f
  <2>5. \A z \in Sides : stream'[z] = IF z = x THEN stream[x] \o Front(hand[x], n) ELSE stream[z]
    BY <1>1, <2>1 DEF DataTypes
  <2> QED BY <1>2, <2>1, <2>4, <2>5 DEF WindowInv
<1>4. ASSUME NEW y \in Sides, RecvSome(y) PROVE WindowInv'
  <2> DEFINE x == Peer(y)
  <2>1. x \in Sides
    BY PeersAre
  <2>2. PICK n \in 1 .. Len(stream[x]) : stream' = [stream EXCEPT ![x] = Rest(@, n)]
    BY <1>4 DEF RecvSome
  <2> HIDE DEF x
  <2>3. stream[x] \in Seq(ByteSet) /\ n \in 0 .. Len(stream[x])
    BY <1>1, <2>1, LenProperties DEF DataTypes
  <2>4. Len(Rest(stream[x], n)) = Len(stream[x]) - n
    BY <2>3, RestProperties
  <2>5. \A z \in Sides : stream'[z] = IF z = x THEN Rest(stream[x], n) ELSE stream[z]
    BY <1>1, <2>1, <2>2 DEF DataTypes
  <2>6. Len(Rest(stream[x], n)) <= Window
    BY <1>2, <2>1, <2>3, <2>4, LengthAssumption
  <2> QED BY <1>2, <2>5, <2>6 DEF WindowInv
<1>5. CASE UNCHANGED stream
  BY <1>5 DEF WindowInv
<1>6. CASE LineStep
  BY <1>2, <1>6, EmptySeq, LengthAssumption DEF LineStep, WindowInv
<1>7. ASSUME NEW x \in Sides, ReadTun(x) \/ WriteTun(x) PROVE UNCHANGED stream
  BY <1>7 DEF ReadTun, WriteTun, socket
<1>8. UNCHANGED vars => UNCHANGED stream
  BY DEF vars, socket
<1> QED BY <1>1, <1>3, <1>4, <1>5, <1>6, <1>7, <1>8, LineSteps DEF MovesBytes

\* Every variable has a value of its type; the window of the connection is never
\* overrun, and setup_nat_rules adds no more rules than it has.
THEOREM TypeCorrect == Spec => []TypeOK
<1>1. Init => HostTypes /\ WindowInv
  <2>1. Init => HostTypes
    <3>1. 0 \in 0 .. Rules
      BY LengthAssumption
    <3>2. Init => /\ stop \in [Sides -> BOOLEAN] /\ sig \in BOOLEAN
                  /\ fin \in [Sides -> BOOLEAN] /\ tun \in [Sides -> BOOLEAN]
                  /\ except \in BOOLEAN
      <4>1. [x \in Sides |-> FALSE] \in [Sides -> BOOLEAN] /\ FALSE \in BOOLEAN
        OBVIOUS
      <4> QED BY <4>1, Zenon DEF Init
    <3>3. Init => /\ down \in [Sides -> {"none", "check", "recv", "pop", "over"}]
                  /\ gateway \in {"gateway", "tun", "none"} /\ nat \in 0 .. Rules
      BY <3>1 DEF Init
    <3> QED BY <3>2, <3>3 DEF HostTypes
  <2>2. Init => \A x \in Sides : stream[x] = <<>>
    BY DEF Init
  <2>3. Len(<<>>) <= Window
    <3>1. Len(<<>>) = 0
      BY EmptySeq
    <3> QED BY <3>1, LengthAssumption
  <2> QED BY <2>1, <2>2, <2>3 DEF WindowInv
<1>2. BytesInv /\ HostTypes /\ WindowInv /\ [Next]_vars => HostTypes' /\ WindowInv'
  <2>1. HostTypes /\ UNCHANGED vars => HostTypes'
    BY DEF vars, threads, socket, host, HostTypes
  <2> QED BY <2>1, HostTypesStep, WindowStep
<1>3. Inv /\ BytesInv /\ HostTypes /\ WindowInv => TypeOK
  BY DEF Inv, ThreadTypes, Live, BytesInv, DataTypes, HostTypes, WindowInv, TypeOK
<1> QED BY <1>1, <1>2, <1>3, InvAlways, BytesAlways, PTL DEF Spec
=============================================================================
