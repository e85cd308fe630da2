---------------------------- MODULE ByteRangeProofs ----------------------------
(***************************************************************************)
(* Lemmas about the runs of bytes that rings, gaps, buffers and wires hold, *)
(* for the proofs about StreamResume and Bridge.                           *)
(***************************************************************************)
EXTENDS ByteRanges, SequenceTheorems, TLAPS

LEMMA PeerFacts ==
  \A e \in Ends : Peer(e) \in Ends /\ Peer(Peer(e)) = e /\ Peer(e) # e
                 /\ \A x \in Ends : x = e \/ x = Peer(e)
BY Zenon DEF Ends, Peer

LEMMA BytesType ==
  ASSUME NEW a \in Nat, NEW b \in Nat
  PROVE  /\ Bytes(a, b) \in Seq(Nat)
         /\ a <= b => Len(Bytes(a, b)) = b - a
         /\ \A i \in 1 .. b - a : Bytes(a, b)[i] = a + i
<1>1. CASE a <= b
  <2>1. b - a \in Nat
    BY <1>1
  <2>2. Bytes(a, b) \in [1 .. b - a -> Nat]
    BY <2>1 DEF Bytes
  <2>3. Bytes(a, b) \in Seq(Nat)
    BY <2>1, <2>2, SeqDef, Zenon
  <2>4. Len(Bytes(a, b)) = b - a
    BY <2>1, <2>2, <2>3, LenProperties
  <2>5. QED
    BY <2>3, <2>4, Zenon DEF Bytes
<1>2. CASE a > b
  <2>1. 1 .. b - a = {} /\ 1 .. 0 = {}
    BY <1>2
  <2>2. Bytes(a, b) \in [1 .. 0 -> Nat]
    BY <2>1, Zenon DEF Bytes
  <2>3. QED
    BY <1>2, <2>1, <2>2, SeqDef
<1>3. QED
  BY <1>1, <1>2

LEMMA BytesConcat ==
  ASSUME NEW a \in Nat, NEW b \in Nat, NEW c \in Nat, a <= b, b <= c
  PROVE  Bytes(a, b) \o Bytes(b, c) = Bytes(a, c)
<1> DEFINE s == Bytes(a, b)
           t == Bytes(b, c)
           u == Bytes(a, c)
<1>0. a <= c
  OBVIOUS
<1>1. s \in Seq(Nat) /\ Len(s) = b - a /\ \A i \in 1 .. b - a : s[i] = a + i
  BY BytesType, Zenon
<1>2. t \in Seq(Nat) /\ Len(t) = c - b /\ \A i \in 1 .. c - b : t[i] = b + i
  BY BytesType, Zenon
<1>3. u \in Seq(Nat) /\ Len(u) = c - a /\ \A i \in 1 .. c - a : u[i] = a + i
  BY <1>0, BytesType, Zenon
<1> HIDE DEF s, t, u
<1> DEFINE w == s \o t
<1>4. /\ w \in Seq(Nat) /\ Len(w) = Len(s) + Len(t)
      /\ \A i \in 1 .. Len(s) + Len(t) :
           w[i] = IF i <= Len(s) THEN s[i] ELSE t[i - Len(s)]
  BY <1>1, <1>2, ConcatProperties, Zenon
<1> HIDE DEF w
<1>5. ASSUME NEW i \in 1 .. c - a
      PROVE  w[i] = a + i
  <2>0. i \in Int /\ i >= 1 /\ i <= c - a
    OBVIOUS
  <2>1. w[i] = IF i <= b - a THEN s[i] ELSE t[i - (b - a)]
    BY <1>1, <1>2, <1>4
  <2>2. CASE i <= b - a
    BY <2>0, <2>1, <2>2, <1>1
  <2>3. CASE i > b - a
    <3>1. i - (b - a) \in 1 .. c - b
      BY <2>0, <2>3
    <3>2. t[i - (b - a)] = b + (i - (b - a))
      BY <3>1, <1>2, Zenon
    <3>3. w[i] = t[i - (b - a)]
      BY <2>0, <2>1, <2>3
    <3>4. QED
      BY <2>0, <3>2, <3>3
  <2>4. QED
    BY <2>0, <2>2, <2>3
<1>6. w = u
  <2>1. Len(w) = c - a
    BY <1>1, <1>2, <1>4
  <2>2. \A i \in 1 .. Len(w) : w[i] = u[i]
    BY <1>3, <1>5, <2>1, Zenon
  <2>3. QED
    BY <1>3, <1>4, <2>1, <2>2, SeqEqual, Zenon
<1>7. QED
  BY <1>6, Zenon DEF s, t, u, w

LEMMA BytesEmpty ==
  ASSUME NEW a \in Nat
  PROVE  Bytes(a, a) = <<>>
BY BytesType, EmptySeq

LEMMA BytesPrefix ==
  ASSUME NEW a \in Nat, NEW b \in Nat, NEW c \in Nat, a <= b, b <= c
  PROVE  SubSeq(Bytes(a, c), 1, b - a) = Bytes(a, b)
<1> DEFINE s == Bytes(a, c)
           u == Bytes(a, b)
           m == b - a
<1>0. a <= c /\ m \in Nat /\ m <= c - a
  OBVIOUS
<1>1. \A i \in 1 .. c - a : s[i] = a + i
  BY <1>0, BytesType, Zenon
<1>2. u \in Seq(Nat) /\ Len(u) = m /\ \A i \in 1 .. m : u[i] = a + i
  BY BytesType, Zenon
<1> HIDE DEF s, u, m
<1>3. \A i \in 1 .. m : s[i] = a + i
  BY <1>0, <1>1
<1>4. /\ SubSeq(s, 1, m) \in Seq(Nat) /\ Len(SubSeq(s, 1, m)) = m
      /\ \A i \in 1 .. m : SubSeq(s, 1, m)[i] = s[i]
  <2>1. \A i \in 1 .. m : s[i] \in Nat
    BY <1>0, <1>3
  <2>2. QED
    BY <1>0, <2>1, SubSeqProperties
<1>5. \A i \in 1 .. m : SubSeq(s, 1, m)[i] = u[i]
  BY <1>2, <1>3, <1>4, Zenon
<1>6. SubSeq(s, 1, m) = u
  BY <1>2, <1>4, <1>5, SeqEqual, Zenon
<1>7. QED
  BY <1>6, Zenon DEF s, u, m

LEMMA BytesSuffix ==
  ASSUME NEW a \in Nat, NEW b \in Nat, NEW c \in Nat, a <= b, b <= c
  PROVE  SubSeq(Bytes(a, c), b - a + 1, c - a) = Bytes(b, c)
<1> DEFINE s == Bytes(a, c)
           u == Bytes(b, c)
           m == b - a + 1
           n == c - a
<1>0. a <= c /\ m \in Nat /\ n \in Nat /\ m >= 1 /\ m <= n + 1 /\ n - m + 1 = c - b
      /\ a + m - 1 = b
  OBVIOUS
<1>1. \A i \in 1 .. n : s[i] = a + i
  BY <1>0, BytesType, Zenon
<1>2. u \in Seq(Nat) /\ Len(u) = c - b /\ \A i \in 1 .. c - b : u[i] = b + i
  BY BytesType
<1> HIDE DEF s, u, m, n
<1>3. \A i \in m .. n : s[i] = a + i
  BY <1>0, <1>1
<1>4. /\ SubSeq(s, m, n) \in Seq(Nat) /\ Len(SubSeq(s, m, n)) = n - m + 1
      /\ \A i \in 1 .. n - m + 1 : SubSeq(s, m, n)[i] = s[m + i - 1]
  <2>1. \A i \in m .. n : s[i] \in Nat
    BY <1>0, <1>3
  <2>2. QED
    BY <1>0, <2>1, SubSeqProperties
<1>5. ASSUME NEW i \in 1 .. c - b
      PROVE  SubSeq(s, m, n)[i] = u[i]
  <2>1. m + i - 1 \in m .. n /\ i \in 1 .. n - m + 1
    BY <1>0
  <2>2. s[m + i - 1] = a + (m + i - 1)
    BY <2>1, <1>3, Zenon
  <2>3. SubSeq(s, m, n)[i] = s[m + i - 1]
    BY <2>1, <1>4, Zenon
  <2>4. a + (m + i - 1) = b + i
    BY <1>0
  <2>5. QED
    BY <1>2, <2>2, <2>3, <2>4, Zenon
<1>6. SubSeq(s, m, n) = u
  BY <1>0, <1>2, <1>4, <1>5, SeqEqual, ZenonT(30)
<1>7. QED
  BY <1>6, Zenon DEF s, u, m, n

(* The next byte is appended. *)
LEMMA BytesAppend ==
  ASSUME NEW a \in Nat, NEW b \in Nat, a <= b
  PROVE  Append(Bytes(a, b), b + 1) = Bytes(a, b + 1)
<1> DEFINE c == b + 1
<1>0. c \in Nat /\ b <= c /\ c - b = 1 /\ 1 \in 1 .. c - b
  OBVIOUS
<1> HIDE DEF c
<1>1. Bytes(b, c) = <<c>>
  <2>1. /\ Bytes(b, c) \in Seq(Nat)
        /\ Len(Bytes(b, c)) = c - b
        /\ \A i \in 1 .. c - b : Bytes(b, c)[i] = b + i
    BY <1>0, BytesType, Zenon
  <2>2. Bytes(b, c) \in Seq(Nat) /\ Len(Bytes(b, c)) = 1 /\ Bytes(b, c)[1] = c
    BY <1>0, <2>1 DEF c
  <2>3. QED
    BY <1>0, <2>2
<1>2. Append(Bytes(a, b), c) = Bytes(a, b) \o <<c>>
  <2>1. Bytes(a, b) \in Seq(Nat)
    BY BytesType, Zenon
  <2>2. QED
    BY <1>0, <2>1, AppendIsConcat, Zenon
<1>3. Bytes(a, b) \o Bytes(b, c) = Bytes(a, c)
  BY <1>0, BytesConcat, Zenon
<1>4. QED
  BY <1>1, <1>2, <1>3, Zenon DEF c

(* The first byte is taken off. *)
LEMMA BytesHeadTail ==
  ASSUME NEW a \in Nat, NEW b \in Nat, a < b
  PROVE  Head(Bytes(a, b)) = a + 1 /\ Tail(Bytes(a, b)) = Bytes(a + 1, b)
<1>1. Bytes(a, b) \in Seq(Nat) /\ Len(Bytes(a, b)) = b - a /\ Bytes(a, b)[1] = a + 1
  BY BytesType
<1>2. Head(Bytes(a, b)) = a + 1
  BY <1>1
<1>3. Tail(Bytes(a, b)) = SubSeq(Bytes(a, b), 2, Len(Bytes(a, b)))
  BY <1>1
<1>4. SubSeq(Bytes(a, b), (a + 1) - a + 1, b - a) = Bytes(a + 1, b)
  BY BytesSuffix
<1>5. (a + 1) - a + 1 = 2
  OBVIOUS
<1>6. QED
  BY <1>1, <1>2, <1>3, <1>4, <1>5

===============================================================================
