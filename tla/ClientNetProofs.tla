--------------------------- MODULE ClientNetProofs ---------------------------
(***************************************************************************)
(* Proofs about ClientNet: for any header length, buffer size, packet sizes  *)
(* and any splitting of the stream into reads, runRecvMsg cuts the stream    *)
(* exactly where the packets end, unless a connection is replaced in the     *)
(* middle of a packet.                                                       *)
(***************************************************************************)
EXTENDS ClientNet, Integers, SequenceTheorems, TLAPS

(***************************************************************************)
(* The inductive invariant is about the stream: what is in the buffer and    *)
(* what is still on the wire are whole packets, in order.  It is stated for  *)
(* each byte, so that no proof needs an induction over packets.              *)
(***************************************************************************)

\* Byte i of s is in the place its packet gives it, and the whole packet is
\* there.
InPacket(s, i, c) ==
    /\ s[i].conn = c
    /\ s[i].pos <= s[i].len
    /\ s[i].pos <= i
    /\ i - s[i].pos + s[i].len <= Len(s)
    /\ \A k \in 1..s[i].len :
         s[i - s[i].pos + k] =
           [conn |-> c, pkt |-> s[i].pkt, pos |-> k, len |-> s[i].len]

\* After the last byte of a packet the next one begins.
NextStarts(s, i) ==
    i < Len(s) /\ s[i].pos = s[i].len =>
      s[i + 1].pos = 1 /\ s[i + 1].pkt = s[i].pkt + 1

\* s holds the packets of connection c after number fr, up to number se.
Packets(s, c, fr, se) ==
    /\ \A i \in 1..Len(s) : InPacket(s, i, c) /\ NextStarts(s, i)
    /\ s = <<>> => fr = se
    /\ s # <<>> => s[1].pos = 1 /\ s[1].pkt = fr + 1 /\ s[Len(s)].pkt = se

LEMMA Lengths ==
    /\ HeaderLen \in Nat /\ HeaderLen > 0 /\ InMax \in Nat /\ SizeMod \in Nat
    /\ \A n \in Sizes : n \in Nat /\ n >= HeaderLen /\ n > 0 /\ n <= InMax /\ n < SizeMod
  BY NetAssumption

LEMMA ByteFields ==
    ASSUME NEW b \in Byte
    PROVE  /\ b.conn \in Nat /\ b.pkt \in Nat /\ b.pos \in Nat /\ b.len \in Nat
           /\ b.pos > 0 /\ b.len \in Sizes /\ b.len > 0
           /\ b.pkt <= MaxPackets
<1>1. /\ b.conn \in 1..MaxConnects /\ b.pkt \in 1..MaxPackets
      /\ b.pos \in 1..InMax /\ b.len \in Sizes
  BY DEF Byte
<1>2. MaxConnects \in Nat /\ MaxPackets \in Nat /\ InMax \in Nat
  BY NetAssumption
<1>3. b.len \in Nat /\ b.len > 0
  BY <1>1, Lengths
<1>4. \A x, n : n \in Nat /\ x \in 1..n => x \in Nat /\ x > 0 /\ x <= n
  OBVIOUS
<1> QED
  BY <1>1, <1>2, <1>3, <1>4

\* Position k of the packet that byte i, at its position p, belongs to.
LEMMA Within ==
    ASSUME NEW i \in Int, NEW p \in Int, NEW n \in Int, NEW k \in Int, NEW m \in Int,
           p <= i, i - p + n <= m, 1 <= k, k <= n
    PROVE  i - p + k \in 1..m
  OBVIOUS

LEMMA PacketBytes ==
    ASSUME NEW c \in 1..MaxConnects, NEW p \in 1..MaxPackets, NEW n \in Sizes
    PROVE  /\ Bytes(c, p, n) \in Seq(Byte)
           /\ Len(Bytes(c, p, n)) = n
           /\ \A k \in 1..n : Bytes(c, p, n)[k] =
                                [conn |-> c, pkt |-> p, pos |-> k, len |-> n]
<1>1. n \in Nat /\ 1..n \subseteq 1..InMax
  BY Lengths
<1>2. \A k \in 1..n : [conn |-> c, pkt |-> p, pos |-> k, len |-> n] \in Byte
  BY <1>1 DEF Byte
<1>3. Bytes(c, p, n) \in [1..n -> Byte]
  BY <1>2 DEF Bytes
<1> QED
  BY <1>1, <1>3 DEF Bytes

LEMMA SeqFacts ==
    ASSUME NEW s \in Seq(Byte)
    PROVE  /\ Len(s) \in Nat
           /\ s = <<>> <=> Len(s) = 0
           /\ \A i \in 1..Len(s) : s[i] \in Byte
  OBVIOUS

\* The server appends its next packet.
LEMMA PacketAppended ==
    ASSUME NEW c \in 1..MaxConnects, NEW fr \in Nat, NEW se \in Nat, se + 1 <= MaxPackets,
           NEW n \in Sizes, NEW s \in Seq(Byte), Packets(s, c, fr, se)
    PROVE  Packets(s \o Bytes(c, se + 1, n), c, fr, se + 1)
<1> DEFINE b == Bytes(c, se + 1, n)
           t == s \o b
           m == Len(s)
<1>1. /\ b \in Seq(Byte) /\ Len(b) = n /\ n \in Nat /\ n > 0
      /\ \A k \in 1..n : b[k] = [conn |-> c, pkt |-> se + 1, pos |-> k, len |-> n]
  BY PacketBytes, Lengths, NetAssumption
<1>2. m \in Nat /\ (s = <<>> <=> m = 0) /\ \A i \in 1..m : s[i] \in Byte
  BY SeqFacts
<1> HIDE DEF b, m
<1>3. /\ t \in Seq(Byte) /\ Len(t) = m + n
      /\ \A i \in 1..(m + n) : t[i] = IF i <= m THEN s[i] ELSE b[i - m]
  BY <1>1, ConcatProperties DEF m
<1> HIDE DEF t
<1>4. \A i \in 1..m : t[i] = s[i]
  BY <1>1, <1>2, <1>3
<1>5. \A k \in 1..n : t[m + k] = [conn |-> c, pkt |-> se + 1, pos |-> k, len |-> n]
  BY <1>1, <1>2, <1>3
<1>6. ASSUME NEW i \in 1..m PROVE InPacket(t, i, c) /\ NextStarts(t, i)
  <2>1. InPacket(s, i, c) /\ NextStarts(s, i) /\ t[i] = s[i] /\ i \in Nat
    BY <1>2, <1>4 DEF Packets, m
  <2>2. s[i].pos \in Nat /\ s[i].len \in Nat /\ s[i].pos > 0 /\ s[i].pkt \in Nat
    BY <1>2, ByteFields
  <2>3. ASSUME NEW k \in 1..s[i].len
        PROVE  t[i - s[i].pos + k] = s[i - s[i].pos + k]
    <3>1. s[i].pos <= i /\ i - s[i].pos + s[i].len <= m
      BY <2>1 DEF InPacket, m
    <3>2. k \in Int /\ 1 <= k /\ k <= s[i].len
      BY <2>2
    <3>3. i - s[i].pos + k \in 1..m
      <4>1. i \in Int /\ s[i].pos \in Int /\ s[i].len \in Int /\ m \in Int
        BY <1>2, <2>1, <2>2
      <4> QED
        BY <3>1, <3>2, <4>1, Within
    <3> QED
      BY <1>4, <3>3
  <2>4. InPacket(t, i, c)
    <3>1. \A k \in 1..t[i].len :
            t[i - t[i].pos + k] =
              [conn |-> c, pkt |-> t[i].pkt, pos |-> k, len |-> t[i].len]
      BY <2>1, <2>3 DEF InPacket
    <3>2. i - s[i].pos + s[i].len <= m
      BY <2>1 DEF InPacket, m
    <3>3. i - t[i].pos + t[i].len <= Len(t)
      BY <1>1, <1>2, <1>3, <2>1, <2>2, <3>2
    <3>4. t[i].conn = c /\ t[i].pos <= t[i].len /\ t[i].pos <= i
      BY <2>1 DEF InPacket
    <3> QED
      BY <3>1, <3>3, <3>4 DEF InPacket
  <2>5. CASE i < m
    <3>1. t[i + 1] = s[i + 1]
      BY <1>2, <1>4, <2>5
    <3> QED
      BY <2>1, <2>4, <2>5, <3>1 DEF NextStarts, m
  <2>6. CASE i = m
    <3>1. t[m + 1] = [conn |-> c, pkt |-> se + 1, pos |-> 1, len |-> n]
      BY <1>1, <1>5
    <3>2. s[m].pkt = se
      BY <1>2, <2>6 DEF Packets, m
    <3> QED
      BY <2>1, <2>4, <2>6, <3>1, <3>2 DEF NextStarts
  <2> QED
    BY <1>2, <2>5, <2>6
<1>7. ASSUME NEW k \in 1..n PROVE InPacket(t, m + k, c) /\ NextStarts(t, m + k)
  <2>1. /\ t[m + k].conn = c /\ t[m + k].pkt = se + 1 /\ t[m + k].pos = k
        /\ t[m + k].len = n /\ k \in Nat /\ k <= n
    BY <1>1, <1>5
  <2>2. m + k - k = m
    BY <1>2, <2>1
  <2> QED
    BY <1>1, <1>2, <1>3, <1>5, <2>1, <2>2 DEF InPacket, NextStarts
<1>8. ASSUME NEW i \in 1..(m + n) PROVE InPacket(t, i, c) /\ NextStarts(t, i)
  <2>1. CASE i <= m
    BY <1>1, <1>2, <1>6, <2>1
  <2>2. CASE ~(i <= m)
    <3>1. i - m \in 1..n /\ m + (i - m) = i
      BY <1>1, <1>2, <2>2
    <3> QED
      BY <1>7, <3>1
  <2> QED
    BY <2>1, <2>2
<1>9. t # <<>>
  BY <1>1, <1>2, <1>3, SeqFacts
<1>10. t[Len(t)].pkt = se + 1
  BY <1>1, <1>2, <1>3, <1>5
<1>11. t[1].pos = 1 /\ t[1].pkt = fr + 1
  <2>1. CASE m = 0
    BY <1>1, <1>2, <1>5, <2>1 DEF Packets
  <2>2. CASE m # 0
    BY <1>2, <1>4, <2>2 DEF Packets
  <2> QED
    BY <2>1, <2>2
<1> QED
  BY <1>3, <1>8, <1>9, <1>10, <1>11 DEF Packets, t, b

\* The first packet of the stream, and the stream without it.
LEMMA PacketCut ==
    ASSUME NEW c \in 1..MaxConnects, NEW fr \in Nat, NEW se \in Nat,
           NEW s \in Seq(Byte), s # <<>>, Packets(s, c, fr, se)
    PROVE  LET L == s[1].len
           IN  /\ L \in Sizes /\ L <= Len(s) /\ fr + 1 \in 1..MaxPackets
               /\ \A k \in 1..L : s[k] = [conn |-> c, pkt |-> fr + 1, pos |-> k, len |-> L]
               /\ Packets(SubSeq(s, L + 1, Len(s)), c, fr + 1, se)
<1> DEFINE L == s[1].len
           t == SubSeq(s, L + 1, Len(s))
           m == Len(s)
<1>1. m \in Nat /\ m > 0 /\ \A i \in 1..m : s[i] \in Byte
  BY SeqFacts
<1>2. /\ s[1] \in Byte /\ s[1].pos = 1 /\ s[1].pkt = fr + 1 /\ s[m].pkt = se
      /\ InPacket(s, 1, c)
  BY <1>1 DEF Packets
<1>3. L \in Nat /\ L > 0 /\ L \in Sizes /\ fr + 1 \in 1..MaxPackets
  BY <1>2, ByteFields, NetAssumption
<1>4. L <= m
  BY <1>1, <1>2, <1>3 DEF InPacket
<1>5. \A k \in 1..L : s[k] = [conn |-> c, pkt |-> fr + 1, pos |-> k, len |-> L]
  <2> SUFFICES ASSUME NEW k \in 1..L
               PROVE  s[k] = [conn |-> c, pkt |-> fr + 1, pos |-> k, len |-> L]
    OBVIOUS
  <2>1. 1 - s[1].pos + k = k
    BY <1>2, <1>3
  <2> QED
    BY <1>2, <2>1 DEF InPacket
<1> HIDE DEF m, L
<1>6. /\ t \in Seq(Byte) /\ Len(t) = m - L
      /\ \A i \in 1..(m - L) : t[i] = s[L + i]
  <2>1. \A i \in (L + 1)..m : s[i] \in Byte
    BY <1>1, <1>3
  <2>2. /\ t \in Seq(Byte)
        /\ Len(t) = IF L + 1 <= m THEN m - (L + 1) + 1 ELSE 0
        /\ \A i \in 1..(m - (L + 1) + 1) : t[i] = s[L + 1 + i - 1]
    BY <1>1, <1>3, <2>1, SubSeqProperties DEF m
  <2>3. m - (L + 1) + 1 = m - L
    BY <1>1, <1>3
  <2>4. \A i \in 1..(m - L) : L + 1 + i - 1 = L + i
    BY <1>1, <1>3
  <2> HIDE DEF t
  <2> QED
    BY <1>1, <1>3, <1>4, <2>2, <2>3, <2>4
<1> HIDE DEF t
\* A byte after the first packet belongs to a packet that begins after it.
<1>7. ASSUME NEW i \in 1..(m - L) PROVE s[L + i].pos <= i
  <2> DEFINE p == s[L + i].pos
             j == (L + i) - p + 1
  <2>0. L + i \in 1..m /\ s[L + i] \in Byte /\ i \in Nat /\ i > 0
    BY <1>1, <1>3, <1>4
  <2>1. p \in Nat /\ p > 0 /\ s[L + i].len \in Nat /\ s[L + i].len > 0
    BY <2>0, ByteFields
  <2>2. InPacket(s, L + i, c)
    BY <2>0 DEF Packets, m
  <2>3. s[j] = [conn |-> c, pkt |-> s[L + i].pkt, pos |-> 1, len |-> s[L + i].len]
    <3>1. 1 \in 1..s[L + i].len
      BY <2>1
    <3>2. \A k \in 1..s[L + i].len :
            s[(L + i) - s[L + i].pos + k] =
              [conn |-> c, pkt |-> s[L + i].pkt, pos |-> k, len |-> s[L + i].len]
      BY <2>2 DEF InPacket
    <3> QED
      BY <3>1, <3>2
  <2> SUFFICES ASSUME ~(p <= i) PROVE FALSE
    OBVIOUS
  <2>4. j \in 1..L
    BY <1>3, <2>0, <2>1, <2>2 DEF InPacket
  <2>5. s[j] = [conn |-> c, pkt |-> fr + 1, pos |-> j, len |-> L]
    BY <1>5, <2>4
  <2>6. j = 1 /\ s[L + i].len = L
    <3>1. s[j].pos = 1 /\ s[j].len = s[L + i].len
      BY <2>3
    <3>2. s[j].pos = j /\ s[j].len = L
      BY <2>5
    <3> QED
      BY <3>1, <3>2
  <2>7. p = L + i /\ p <= L
    BY <1>3, <2>0, <2>1, <2>2, <2>6 DEF InPacket
  <2> QED
    BY <1>3, <2>0, <2>7
<1>8. ASSUME NEW i \in 1..(m - L) PROVE InPacket(t, i, c) /\ NextStarts(t, i)
  <2>0. L + i \in 1..m /\ t[i] = s[L + i] /\ s[L + i] \in Byte /\ i \in Nat /\ i > 0 /\ i <= m - L
    BY <1>1, <1>3, <1>4, <1>6
  <2>1. t[i].pos \in Nat /\ t[i].len \in Nat /\ t[i].pos > 0 /\ t[i].pos <= i
    BY <1>7, <2>0, ByteFields
  <2>2. InPacket(s, L + i, c) /\ NextStarts(s, L + i)
    BY <2>0 DEF Packets, m
  <2>3. i - t[i].pos + t[i].len <= m - L
    BY <1>1, <1>3, <2>0, <2>1, <2>2 DEF InPacket, m
  <2>4. ASSUME NEW k \in 1..t[i].len
        PROVE  t[i - t[i].pos + k] =
                 [conn |-> c, pkt |-> t[i].pkt, pos |-> k, len |-> t[i].len]
    <3>0. k \in Int /\ 1 <= k /\ k <= t[i].len
      BY <2>1
    <3>1. i - t[i].pos + k \in 1..(m - L)
      <4>1. /\ i \in Int /\ t[i].pos \in Int /\ t[i].len \in Int
            /\ m - L \in Int
        BY <1>1, <1>3, <2>0, <2>1
      <4> QED
        BY <2>1, <2>3, <3>0, <4>1, Within
    <3>2. t[i - t[i].pos + k] = s[L + (i - t[i].pos + k)]
      BY <1>6, <3>1
    <3>3. L + (i - t[i].pos + k) = (L + i) - s[L + i].pos + k
      BY <1>3, <2>0, <2>1
    <3> QED
      BY <2>0, <2>2, <3>2, <3>3 DEF InPacket
  <2>5. InPacket(t, i, c)
    BY <1>6, <2>0, <2>1, <2>2, <2>3, <2>4 DEF InPacket
  <2>6. CASE i < m - L
    <3>1. t[i + 1] = s[L + i + 1]
      <4>1. i + 1 \in 1..(m - L) /\ L + (i + 1) = L + i + 1
        BY <1>1, <1>3, <2>0, <2>6
      <4> QED
        BY <1>6, <4>1
    <3>2. L + i < m
      BY <1>1, <1>3, <2>0, <2>6
    <3> QED
      BY <1>6, <2>0, <2>2, <2>5, <3>1, <3>2 DEF NextStarts, m
  <2>7. CASE ~(i < m - L)
    BY <1>6, <2>5, <2>7 DEF NextStarts
  <2> QED
    BY <2>6, <2>7
<1>9. t = <<>> => fr + 1 = se
  <2> SUFFICES ASSUME t = <<>> PROVE fr + 1 = se
    OBVIOUS
  <2>1. Len(t) = 0
    BY <1>6, SeqFacts
  <2>2. m = L
    BY <1>1, <1>3, <1>6, <2>1
  <2>3. s[L].pkt = fr + 1
    <3>1. L \in 1..L
      BY <1>3
    <3>2. s[L] = [conn |-> c, pkt |-> fr + 1, pos |-> L, len |-> L]
      BY <1>5, <3>1
    <3> QED
      BY <3>2
  <2> QED
    BY <1>2, <2>2, <2>3 DEF m
<1>10. t # <<>> => t[1].pos = 1 /\ t[1].pkt = (fr + 1) + 1 /\ t[Len(t)].pkt = se
  <2> SUFFICES ASSUME t # <<>>
               PROVE  t[1].pos = 1 /\ t[1].pkt = (fr + 1) + 1 /\ t[Len(t)].pkt = se
    OBVIOUS
  <2>1. m - L \in Nat /\ m - L > 0
    BY <1>1, <1>3, <1>4, <1>6, SeqFacts
  <2>2. t[Len(t)] = s[m]
    <3>1. L + (m - L) = m /\ m - L \in 1..(m - L)
      BY <1>1, <1>3, <2>1
    <3> QED
      BY <1>6, <3>1
  <2>3. t[1] = s[L + 1]
    BY <1>6, <2>1
  <2>4. s[L].pos = L /\ s[L].len = L /\ s[L].pkt = fr + 1
    <3>1. L \in 1..L
      BY <1>3
    <3>2. s[L] = [conn |-> c, pkt |-> fr + 1, pos |-> L, len |-> L]
      BY <1>5, <3>1
    <3> QED
      BY <3>2
  <2>5. NextStarts(s, L) /\ L < m
    BY <1>1, <1>3, <1>4, <2>1 DEF Packets, m
  <2> QED
    BY <1>2, <2>2, <2>3, <2>4, <2>5 DEF NextStarts, m
<1>11. Packets(t, c, fr + 1, se)
  BY <1>6, <1>8, <1>9, <1>10 DEF Packets
<1> QED
  BY <1>3, <1>4, <1>5, <1>11 DEF t, m, L
-----------------------------------------------------------------------------
(* Reading, cutting and the header, for any buffer a and any wire w.         *)

LEMMA Unchanged16 ==
    ASSUME NEW n \in Nat, NEW m \in Nat, n < m
    PROVE  n % m = n
  OBVIOUS

\* Part of a sequence of bytes.
LEMMA Part ==
    ASSUME NEW s \in Seq(Byte), NEW i \in Nat, NEW j \in Nat, 1 <= i, j <= Len(s), i <= j + 1
    PROVE  /\ SubSeq(s, i, j) \in Seq(Byte)
           /\ Len(SubSeq(s, i, j)) = j - i + 1
           /\ \A k \in 1..(j - i + 1) : SubSeq(s, i, j)[k] = s[i + k - 1]
<1>1. \A k \in i..j : s[k] \in Byte
  BY SeqFacts
<1>2. /\ SubSeq(s, i, j) \in Seq(Byte)
      /\ Len(SubSeq(s, i, j)) = IF i <= j THEN j - i + 1 ELSE 0
      /\ \A k \in 1..(j - i + 1) : SubSeq(s, i, j)[k] = s[i + k - 1]
  BY <1>1, SubSeqProperties
<1> QED
  BY <1>2

LEMMA StreamAssociative ==
    \A x, y, z \in Seq(Byte) : (x \o y) \o z = x \o (y \o z)
<1>1. \A S : \A x, y, z \in Seq(S) : (x \o y) \o z = x \o (y \o z)
  BY ConcatAssociative
<1> QED
  BY <1>1

\* read() moves bytes from the wire to the buffer and changes no order.
LEMMA ReadKeepsStream ==
    ASSUME NEW a \in Seq(Byte), NEW w \in Seq(Byte), NEW n \in 1..Len(w)
    PROVE  /\ a \o SubSeq(w, 1, n) \in Seq(Byte)
           /\ Len(a \o SubSeq(w, 1, n)) = Len(a) + n
           /\ SubSeq(w, n + 1, Len(w)) \in Seq(Byte)
           /\ (a \o SubSeq(w, 1, n)) \o SubSeq(w, n + 1, Len(w)) = a \o w
<1>1. n \in Nat /\ 1 <= n /\ n <= Len(w) /\ Len(w) \in Nat /\ Len(a) \in Nat
  BY SeqFacts
<1>2. SubSeq(w, 1, n) \in Seq(Byte) /\ Len(SubSeq(w, 1, n)) = n
  BY <1>1, Part
<1>3. SubSeq(w, n + 1, Len(w)) \in Seq(Byte)
  BY <1>1, Part
<1>4. SubSeq(w, 1, n) \o SubSeq(w, n + 1, Len(w)) = w
  <2>1. 1 \in 1..(Len(w) + 1) /\ n \in (1 - 1)..Len(w) /\ Len(w) \in n..Len(w)
    BY <1>1
  <2>2. SubSeq(w, 1, n) \o SubSeq(w, n + 1, Len(w)) = SubSeq(w, 1, Len(w))
    BY <2>1, ConcatAdjacentSubSeq
  <2>3. SubSeq(w, 1, Len(w)) = w
    BY SubSeqFull
  <2> QED
    BY <2>2, <2>3
<1> DEFINE u == SubSeq(w, 1, n)
           v == SubSeq(w, n + 1, Len(w))
<1>5. u \in Seq(Byte) /\ v \in Seq(Byte) /\ Len(u) = n /\ u \o v = w
  BY <1>2, <1>3, <1>4
<1> HIDE DEF u, v
<1>6. (a \o u) \o v = a \o w
  BY <1>5, StreamAssociative
<1>7. a \o u \in Seq(Byte) /\ Len(a \o u) = Len(a) + n
  BY <1>5, ConcatProperties
<1> QED
  BY <1>5, <1>6, <1>7 DEF u, v

\* Cutting n bytes off the buffer cuts them off the stream.
LEMMA CutKeepsStream ==
    ASSUME NEW a \in Seq(Byte), NEW w \in Seq(Byte), NEW n \in Nat, n <= Len(a)
    PROVE  SubSeq(a, n + 1, Len(a)) \o w = SubSeq(a \o w, n + 1, Len(a \o w))
<1> DEFINE d == SubSeq(a, n + 1, Len(a))
           s == a \o w
           e == SubSeq(s, n + 1, Len(s))
<1>1. Len(a) \in Nat /\ Len(w) \in Nat
  BY SeqFacts
<1>2. /\ s \in Seq(Byte) /\ Len(s) = Len(a) + Len(w)
      /\ \A i \in 1..(Len(a) + Len(w)) :
           s[i] = IF i <= Len(a) THEN a[i] ELSE w[i - Len(a)]
  BY ConcatProperties
<1> HIDE DEF s
<1>3. /\ d \in Seq(Byte) /\ Len(d) = Len(a) - n
      /\ \A k \in 1..(Len(a) - n) : d[k] = a[n + k]
  <2>1. /\ d \in Seq(Byte) /\ Len(d) = Len(a) - (n + 1) + 1
        /\ \A k \in 1..(Len(a) - (n + 1) + 1) : d[k] = a[(n + 1) + k - 1]
    BY <1>1, Part
  <2>2. Len(a) - (n + 1) + 1 = Len(a) - n
    BY <1>1
  <2>3. \A k \in 1..(Len(a) - n) : (n + 1) + k - 1 = n + k
    BY <1>1
  <2> HIDE DEF d
  <2> QED
    BY <2>1, <2>2, <2>3
<1>4. /\ e \in Seq(Byte) /\ Len(e) = Len(s) - n
      /\ \A k \in 1..(Len(s) - n) : e[k] = s[n + k]
  <2>1. /\ e \in Seq(Byte) /\ Len(e) = Len(s) - (n + 1) + 1
        /\ \A k \in 1..(Len(s) - (n + 1) + 1) : e[k] = s[(n + 1) + k - 1]
    BY <1>1, <1>2, Part
  <2>2. Len(s) - (n + 1) + 1 = Len(s) - n
    BY <1>1, <1>2
  <2>3. \A k \in 1..(Len(s) - n) : (n + 1) + k - 1 = n + k
    BY <1>1, <1>2
  <2> HIDE DEF e
  <2> QED
    BY <2>1, <2>2, <2>3
<1> HIDE DEF d, e
<1>5. /\ d \o w \in Seq(Byte) /\ Len(d \o w) = Len(d) + Len(w)
      /\ \A i \in 1..(Len(d) + Len(w)) :
           (d \o w)[i] = IF i <= Len(d) THEN d[i] ELSE w[i - Len(d)]
  BY <1>3, ConcatProperties
<1>6. Len(d \o w) = Len(e)
  BY <1>1, <1>2, <1>3, <1>4, <1>5
<1>7. ASSUME NEW k \in 1..Len(d \o w) PROVE (d \o w)[k] = e[k]
  <2>1. /\ k \in Nat /\ k > 0 /\ k <= Len(s) - n /\ e[k] = s[n + k]
        /\ n + k \in 1..(Len(a) + Len(w))
    BY <1>1, <1>2, <1>3, <1>4, <1>5
  <2>2. CASE k <= Len(a) - n
    <3>1. (d \o w)[k] = d[k] /\ d[k] = a[n + k]
      BY <1>1, <1>3, <1>5, <2>1, <2>2
    <3>2. n + k <= Len(a)
      BY <1>1, <2>1, <2>2
    <3> QED
      BY <1>2, <2>1, <3>1, <3>2
  <2>3. CASE ~(k <= Len(a) - n)
    <3>1. (d \o w)[k] = w[k - (Len(a) - n)]
      BY <1>1, <1>3, <1>5, <2>1, <2>3
    <3>2. ~(n + k <= Len(a)) /\ (n + k) - Len(a) = k - (Len(a) - n)
      BY <1>1, <2>1, <2>3
    <3> QED
      BY <1>2, <2>1, <3>1, <3>2
  <2> QED
    BY <2>2, <2>3
<1>8. d \o w = e
  BY <1>4, <1>5, <1>6, <1>7, SeqEqual
<1> QED
  BY <1>8 DEF d, e, s
\* The buffer begins with a packet: its header is there as soon as HeaderLen
\* bytes are, and what is left after the packet is cut out are packets again.
LEMMA AtPacket ==
    ASSUME NEW c \in 1..MaxConnects, NEW fr \in Nat, NEW se \in Nat,
           NEW a \in Seq(Byte), NEW w \in Seq(Byte), a # <<>>,
           Packets(a \o w, c, fr, se)
    PROVE  LET n == a[1].len
           IN  /\ n \in Sizes /\ fr + 1 \in 1..MaxPackets
               /\ Len(a) >= HeaderLen =>
                    SubSeq(a, 1, HeaderLen)
                      = SubSeq(Bytes(a[1].conn, a[1].pkt, n), 1, HeaderLen)
               /\ Len(a) >= n =>
                    /\ SubSeq(a, 1, n) = Bytes(c, fr + 1, n)
                    /\ Packets(SubSeq(a, n + 1, Len(a)) \o w, c, fr + 1, se)
<1> DEFINE s == a \o w
           n == a[1].len
           b == Bytes(c, fr + 1, n)
<1>1. Len(a) \in Nat /\ Len(a) > 0 /\ Len(w) \in Nat
  BY SeqFacts
<1>2. /\ s \in Seq(Byte) /\ Len(s) = Len(a) + Len(w)
      /\ \A i \in 1..(Len(a) + Len(w)) :
           s[i] = IF i <= Len(a) THEN a[i] ELSE w[i - Len(a)]
  BY ConcatProperties
<1>3. Packets(s, c, fr, se)
  OBVIOUS
<1> HIDE DEF s
<1>4. \A k \in 1..Len(a) : s[k] = a[k]
  BY <1>1, <1>2
<1>5. s # <<>> /\ s[1].len = n
  BY <1>1, <1>2, <1>4, SeqFacts
<1>6. /\ n \in Sizes /\ n <= Len(s) /\ fr + 1 \in 1..MaxPackets
      /\ \A k \in 1..n : s[k] = [conn |-> c, pkt |-> fr + 1, pos |-> k, len |-> n]
      /\ Packets(SubSeq(s, n + 1, Len(s)), c, fr + 1, se)
  <2> DEFINE l == s[1].len
  <2>1. /\ l \in Sizes /\ l <= Len(s) /\ fr + 1 \in 1..MaxPackets
        /\ \A k \in 1..l : s[k] = [conn |-> c, pkt |-> fr + 1, pos |-> k, len |-> l]
        /\ Packets(SubSeq(s, l + 1, Len(s)), c, fr + 1, se)
    BY <1>2, <1>3, <1>5, PacketCut
  <2>2. l = n
    BY <1>5
  <2> HIDE DEF l, n
  <2> QED
    BY <2>1, <2>2
<1>7. n \in Nat /\ n > 0 /\ n >= HeaderLen /\ HeaderLen \in Nat /\ HeaderLen > 0
  BY <1>6, Lengths
<1>8. /\ b \in Seq(Byte) /\ Len(b) = n
      /\ \A k \in 1..n : b[k] = [conn |-> c, pkt |-> fr + 1, pos |-> k, len |-> n]
  BY <1>6, PacketBytes
<1>9. a[1].conn = c /\ a[1].pkt = fr + 1
  <2>1. a[1] = s[1] /\ 1 \in 1..n
    BY <1>1, <1>4, <1>7
  <2>2. s[1] = [conn |-> c, pkt |-> fr + 1, pos |-> 1, len |-> n]
    BY <1>6, <2>1
  <2> QED
    BY <2>1, <2>2
<1> HIDE DEF n, b
<1>10. ASSUME NEW m \in Nat, m > 0, m <= n, m <= Len(a)
       PROVE  SubSeq(a, 1, m) = SubSeq(b, 1, m)
  <2>1. /\ SubSeq(a, 1, m) \in Seq(Byte) /\ Len(SubSeq(a, 1, m)) = m - 1 + 1
        /\ \A k \in 1..(m - 1 + 1) : SubSeq(a, 1, m)[k] = a[1 + k - 1]
    BY <1>1, <1>10, Part
  <2>2. /\ SubSeq(b, 1, m) \in Seq(Byte) /\ Len(SubSeq(b, 1, m)) = m - 1 + 1
        /\ \A k \in 1..(m - 1 + 1) : SubSeq(b, 1, m)[k] = b[1 + k - 1]
    BY <1>8, <1>10, Part
  <2>3. \A k \in 1..m : a[k] = b[k]
    <3> TAKE k \in 1..m
    <3>1. k \in 1..n /\ k \in 1..Len(a)
      BY <1>1, <1>7, <1>10
    <3>2. a[k] = s[k]
      BY <1>4, <3>1
    <3>3. s[k] = [conn |-> c, pkt |-> fr + 1, pos |-> k, len |-> n]
      BY <1>6, <3>1
    <3>4. b[k] = [conn |-> c, pkt |-> fr + 1, pos |-> k, len |-> n]
      BY <1>8, <3>1
    <3> QED
      BY <3>2, <3>3, <3>4
  <2>4. \A k \in 1..(m - 1 + 1) : k \in 1..m /\ 1 + k - 1 = k
    OBVIOUS
  <2> DEFINE x == SubSeq(a, 1, m)
             y == SubSeq(b, 1, m)
  <2>5. /\ x \in Seq(Byte) /\ y \in Seq(Byte) /\ Len(x) = Len(y)
        /\ \A k \in 1..Len(x) : x[k] = y[k]
    BY <2>1, <2>2, <2>3, <2>4
  <2> HIDE DEF x, y
  <2>6. x = y
    BY <2>5, SeqEqual
  <2> QED
    BY <2>6 DEF x, y
<1>11. Len(a) >= HeaderLen => SubSeq(a, 1, HeaderLen) = SubSeq(b, 1, HeaderLen)
  BY <1>1, <1>7, <1>10
<1>12. Len(a) >= n => SubSeq(a, 1, n) = b
  <2>1. SubSeq(b, 1, n) = b
    BY <1>8, SubSeqFull
  <2> QED
    BY <1>1, <1>7, <1>10, <2>1
<1>13. Len(a) >= n => SubSeq(a, n + 1, Len(a)) \o w = SubSeq(s, n + 1, Len(s))
  BY <1>1, <1>7, CutKeepsStream DEF s
<1>14. Len(a) >= HeaderLen =>
         SubSeq(a, 1, HeaderLen)
           = SubSeq(Bytes(a[1].conn, a[1].pkt, n), 1, HeaderLen)
  BY <1>9, <1>11 DEF b
<1>15. Len(a) >= n => /\ SubSeq(a, 1, n) = Bytes(c, fr + 1, n)
                      /\ Packets(SubSeq(a, n + 1, Len(a)) \o w, c, fr + 1, se)
  BY <1>6, <1>12, <1>13 DEF b
<1> QED
  BY <1>6, <1>14, <1>15 DEF n
-----------------------------------------------------------------------------
(* The invariant of runRecvMsg.                                              *)

\* What is buffered and what is on the wire are the packets not cut out yet.
StreamWhole == Packets(inBuf \o wire, conn, framed, sent)

\* When the inner loop is not running, no complete packet is in the buffer.
LoopedToTheEnd ==
    pc # "frame" /\ Len(inBuf) >= HeaderLen => Len(inBuf) < inBuf[1].len

NetInv ==
    /\ NetTypeOK
    /\ socket = "open" => conn > 0
    /\ ~spliced => StreamWhole /\ WholePacket /\ LoopedToTheEnd

LEMMA NetInvInit == NetInit => NetInv
<1> SUFFICES ASSUME NetInit PROVE NetInv
  OBVIOUS
<1>1. NetTypeOK
  <2>1. /\ socket \in {"null", "open", "fatal"} /\ pc \in {"idle", "read", "frame"}
        /\ conn \in 0..MaxConnects /\ sent \in 0..MaxPackets /\ framed \in Nat
    BY NetAssumption DEF NetInit
  <2>2. /\ inBuf \in Seq(Byte) /\ dataBuf \in Seq(Byte) /\ wire \in Seq(Byte)
        /\ Len(inBuf) <= InMax
    BY EmptySeq, Lengths DEF NetInit
  <2>3. spliced \in BOOLEAN
    BY DEF NetInit
  <2> QED
    BY <2>1, <2>2, <2>3 DEF NetTypeOK
<1>2. StreamWhole
  <2>1. inBuf \o wire = <<>>
    BY EmptySeq, ConcatEmptySeq DEF NetInit
  <2>2. Len(<<>>) = 0
    BY EmptySeq
  <2> QED
    BY <2>1, <2>2 DEF NetInit, StreamWhole, Packets
<1>3. WholePacket
  BY DEF NetInit, WholePacket
<1>4. LoopedToTheEnd
  BY Lengths, EmptySeq DEF NetInit, LoopedToTheEnd
<1> QED
  BY <1>1, <1>2, <1>3, <1>4 DEF NetInit, NetInv

LEMMA NetFacts ==
    ASSUME NetInv
    PROVE  /\ inBuf \in Seq(Byte) /\ wire \in Seq(Byte) /\ dataBuf \in Seq(Byte)
           /\ Len(inBuf) \in Nat /\ Len(inBuf) <= InMax /\ Len(wire) \in Nat
           /\ inBuf \o wire \in Seq(Byte)
           /\ conn \in 0..MaxConnects /\ conn \in Nat /\ sent \in Nat /\ sent <= MaxPackets
           /\ framed \in Nat
           /\ MaxConnects \in Nat /\ MaxPackets \in Nat /\ InMax \in Nat
  BY NetAssumption, SeqFacts, ConcatProperties DEF NetInv, NetTypeOK

LEMMA ServerSendKeeps ==
    ASSUME NetInv, NEW n \in Sizes, ServerSend(n)
    PROVE  NetInv'
<1> USE NetFacts
<1> DEFINE b == Bytes(conn, sent + 1, n)
<1>1. conn \in 1..MaxConnects /\ sent + 1 \in 1..MaxPackets
  BY DEF NetInv, ServerSend
<1>2. b \in Seq(Byte)
  BY <1>1, PacketBytes
<1>3. wire' \in Seq(Byte) /\ inBuf' \o wire' = (inBuf \o wire) \o b
  <2> HIDE DEF b
  <2>1. wire' = wire \o b /\ inBuf' = inBuf
    BY DEF ServerSend, bufVars, b
  <2>2. (inBuf \o wire) \o b = inBuf \o (wire \o b)
    BY <1>2, StreamAssociative
  <2>3. wire \o b \in Seq(Byte)
    BY <1>2, ConcatProperties
  <2> QED
    BY <2>1, <2>2, <2>3
<1>4. NetTypeOK'
  BY <1>1, <1>3 DEF NetInv, NetTypeOK, ServerSend, bufVars
<1>5. ASSUME ~spliced PROVE StreamWhole'
  <2>1. Packets(inBuf \o wire, conn, framed, sent)
    BY <1>5 DEF NetInv, StreamWhole
  <2>2. Packets((inBuf \o wire) \o b, conn, framed, sent + 1)
    <3> HIDE DEF b
    <3>1. sent + 1 <= MaxPackets
      BY <1>1
    <3> QED
      BY <1>1, <2>1, <3>1, PacketAppended DEF b
  <2>3. conn' = conn /\ framed' = framed /\ sent' = sent + 1
    BY DEF ServerSend
  <2> QED
    BY <1>3, <2>2, <2>3 DEF StreamWhole
<1>6. ASSUME ~spliced PROVE WholePacket' /\ LoopedToTheEnd'
  BY <1>6 DEF NetInv, WholePacket, LoopedToTheEnd, ServerSend, bufVars
<1>7. spliced' = spliced /\ socket' = socket /\ conn' = conn
  BY DEF ServerSend
<1> QED
  BY <1>4, <1>5, <1>6, <1>7 DEF NetInv

LEMMA ConnectKeeps ==
    ASSUME NetInv, NEW o \in {"ready", "unready", "refused", "none"}, Connect(o)
    PROVE  NetInv'
<1> USE NetFacts
<1>1. conn' \in 1..MaxConnects /\ conn' \in Nat /\ conn' > 0
  BY DEF Connect
<1>2. socket' \in {"null", "open", "fatal"}
  BY DEF Connect
<1>3. wire' = <<>> /\ <<>> \in Seq(Byte)
  BY EmptySeq DEF Connect
<1>4. NetTypeOK'
  BY <1>1, <1>2, <1>3 DEF NetInv, NetTypeOK, Connect, bufVars
<1>5. ASSUME ~spliced' PROVE ~spliced /\ inBuf = <<>>
  BY <1>5, Zenon DEF Connect
<1>6. ASSUME ~spliced' PROVE StreamWhole'
  <2>1. inBuf' = <<>>
    BY <1>5, <1>6 DEF Connect, bufVars
  <2>2. inBuf' \o wire' = <<>>
    BY <1>3, <2>1, ConcatEmptySeq
  <2>3. framed' = 0 /\ sent' = 0
    BY DEF Connect
  <2>4. Len(<<>>) = 0
    BY EmptySeq
  <2> QED
    BY <2>2, <2>3, <2>4 DEF StreamWhole, Packets
<1>7. ASSUME ~spliced' PROVE WholePacket' /\ LoopedToTheEnd'
  <2>1. framed' = 0 /\ inBuf' = <<>> /\ Len(<<>>) = 0
    BY <1>5, <1>7, EmptySeq DEF Connect, bufVars
  <2> QED
    BY <2>1, Lengths DEF WholePacket, LoopedToTheEnd
<1> QED
  BY <1>1, <1>4, <1>6, <1>7 DEF NetInv

LEMMA ReadSomeKeeps ==
    ASSUME NetInv, ReadSome
    PROVE  NetInv'
<1> USE NetFacts
<1>1. PICK n \in 1..Len(wire) :
        /\ n <= InMax - Len(inBuf)
        /\ inBuf' = inBuf \o SubSeq(wire, 1, n)
        /\ wire' = SubSeq(wire, n + 1, Len(wire))
  BY DEF ReadSome
<1>2. /\ inBuf' \in Seq(Byte) /\ Len(inBuf') = Len(inBuf) + n
      /\ wire' \in Seq(Byte) /\ inBuf' \o wire' = inBuf \o wire
  BY <1>1, ReadKeepsStream
<1>3. Len(inBuf') <= InMax
  BY <1>1, <1>2
<1>4. NetTypeOK'
  BY <1>2, <1>3 DEF NetInv, NetTypeOK, ReadSome
<1>5. ASSUME ~spliced PROVE StreamWhole' /\ WholePacket'
  BY <1>2, <1>5 DEF NetInv, StreamWhole, WholePacket, ReadSome
<1>6. LoopedToTheEnd'
  BY DEF LoopedToTheEnd, ReadSome
<1>7. spliced' = spliced /\ socket' = socket /\ conn' = conn
  BY DEF ReadSome
<1> QED
  BY <1>4, <1>5, <1>6, <1>7 DEF NetInv
\* With a header in the buffer, the size that runRecvMsg reads is the length of
\* the packet the stream goes on with.
LEMMA HeaderRead ==
    ASSUME NetInv, ~spliced, Len(inBuf) >= HeaderLen
    PROVE  LET n == inBuf[1].len
           IN  /\ PacketSizes = {n} /\ n \in Sizes
               /\ conn \in 1..MaxConnects /\ framed + 1 \in 1..MaxPackets
               /\ Len(inBuf) >= n =>
                    /\ SubSeq(inBuf, 1, n) = Bytes(conn, framed + 1, n)
                    /\ Packets(SubSeq(inBuf, n + 1, Len(inBuf)) \o wire,
                               conn, framed + 1, sent)
<1> USE NetFacts
<1> DEFINE s == inBuf \o wire
           n == inBuf[1].len
<1>1. inBuf # <<>> /\ Len(inBuf) > 0
  BY Lengths, SeqFacts
<1>2. Packets(s, conn, framed, sent)
  BY DEF NetInv, StreamWhole
<1>3. conn \in 1..MaxConnects
  <2>1. Len(s) = Len(inBuf) + Len(wire) /\ s \in Seq(Byte)
    BY ConcatProperties
  <2> HIDE DEF s
  <2>2. 1 \in 1..Len(s)
    BY <1>1, <2>1
  <2>3. s[1] \in Byte /\ s[1].conn = conn
    BY <1>2, <2>1, <2>2, SeqFacts DEF Packets, InPacket
  <2> QED
    BY <2>3 DEF Byte
<1>4. /\ n \in Sizes /\ framed + 1 \in 1..MaxPackets
      /\ SubSeq(inBuf, 1, HeaderLen)
           = SubSeq(Bytes(inBuf[1].conn, inBuf[1].pkt, n), 1, HeaderLen)
      /\ Len(inBuf) >= n =>
           /\ SubSeq(inBuf, 1, n) = Bytes(conn, framed + 1, n)
           /\ Packets(SubSeq(inBuf, n + 1, Len(inBuf)) \o wire, conn, framed + 1, sent)
  <2>1. framed \in Nat /\ sent \in Nat /\ inBuf \in Seq(Byte) /\ wire \in Seq(Byte)
    OBVIOUS
  <2>2. /\ n \in Sizes /\ framed + 1 \in 1..MaxPackets
        /\ Len(inBuf) >= HeaderLen =>
             SubSeq(inBuf, 1, HeaderLen)
               = SubSeq(Bytes(inBuf[1].conn, inBuf[1].pkt, n), 1, HeaderLen)
        /\ Len(inBuf) >= n =>
             /\ SubSeq(inBuf, 1, n) = Bytes(conn, framed + 1, n)
             /\ Packets(SubSeq(inBuf, n + 1, Len(inBuf)) \o wire,
                        conn, framed + 1, sent)
    BY <1>1, <1>2, <1>3, <2>1, AtPacket
  <2> HIDE DEF n
  <2> QED
    BY <2>2
<1>5. n % SizeMod = n
  BY <1>4, Lengths, Unchanged16
<1>6. PacketSizes = {n}
  BY <1>4, <1>5 DEF PacketSizes, AtHeader
<1> QED
  BY <1>3, <1>4, <1>6

LEMMA SizesAreNumbers ==
    ASSUME NetInv, NEW size \in PacketSizes, TakesPacket(size)
    PROVE  size \in Nat /\ size <= Len(inBuf)
<1> USE NetFacts
<1>1. inBuf[1] \in Byte
  BY Lengths, SeqFacts DEF TakesPacket
<1>2. inBuf[1].len \in Nat /\ SizeMod \in Nat /\ inBuf[1].len < SizeMod
  BY <1>1, ByteFields, Lengths
<1>3. inBuf[1].len % SizeMod \in Nat
  BY <1>2, Unchanged16
<1>4. size \in Nat
  BY <1>2, <1>3 DEF PacketSizes
<1> QED
  BY <1>4 DEF TakesPacket

LEMMA FrameKeeps ==
    ASSUME NetInv, Frame
    PROVE  NetInv'
<1> USE NetFacts
<1>1. PICK size \in PacketSizes :
        /\ TakesPacket(size)
        /\ dataBuf' = IF size = 0 THEN dataBuf ELSE SubSeq(inBuf, 1, size)
        /\ inBuf' = SubSeq(inBuf, size + 1, Len(inBuf))
        /\ framed' = IF size = 0 \/ framed = MaxPackets THEN framed ELSE framed + 1
  BY DEF Frame
<1>2. size \in Nat /\ size <= Len(inBuf)
  BY <1>1, SizesAreNumbers
<1>3. SubSeq(inBuf, 1, size) \in Seq(Byte)
  BY <1>2, Part
<1>4. inBuf' \in Seq(Byte) /\ Len(inBuf') <= InMax
  <2>1. /\ SubSeq(inBuf, size + 1, Len(inBuf)) \in Seq(Byte)
        /\ Len(SubSeq(inBuf, size + 1, Len(inBuf))) = Len(inBuf) - (size + 1) + 1
    BY <1>2, Part
  <2>2. Len(inBuf) - (size + 1) + 1 <= InMax
    BY <1>2
  <2> QED
    BY <1>1, <2>1, <2>2
<1>5. framed' \in Nat /\ dataBuf' \in Seq(Byte)
  BY <1>1, <1>3
<1>6. NetTypeOK'
  BY <1>4, <1>5 DEF NetInv, NetTypeOK, Frame, netVars
<1>7. UNCHANGED <<socket, pc, wire, conn, sent, spliced>> /\ pc = "frame"
  BY DEF Frame, netVars
<1>8. ASSUME ~spliced PROVE StreamWhole' /\ WholePacket'
  <2>1. Len(inBuf) >= HeaderLen /\ Len(inBuf) >= size
    BY <1>1 DEF TakesPacket
  <2>2. size = inBuf[1].len
    BY <1>1, <1>8, <2>1, HeaderRead
  <2>3. /\ size \in Sizes /\ conn \in 1..MaxConnects /\ framed + 1 \in 1..MaxPackets
        /\ SubSeq(inBuf, 1, size) = Bytes(conn, framed + 1, size)
        /\ Packets(SubSeq(inBuf, size + 1, Len(inBuf)) \o wire, conn, framed + 1, sent)
    <3> DEFINE n == inBuf[1].len
    <3>1. /\ n \in Sizes /\ conn \in 1..MaxConnects /\ framed + 1 \in 1..MaxPackets
          /\ Len(inBuf) >= n =>
               /\ SubSeq(inBuf, 1, n) = Bytes(conn, framed + 1, n)
               /\ Packets(SubSeq(inBuf, n + 1, Len(inBuf)) \o wire,
                          conn, framed + 1, sent)
      BY <1>8, <2>1, HeaderRead
    <3>2. size = n
      BY <2>2
    <3> HIDE DEF n
    <3> QED
      BY <2>1, <3>1, <3>2
  <2>4. size > 0
    BY <2>3, Lengths
  <2>5. dataBuf' = Bytes(conn, framed + 1, size) /\ framed' = framed + 1
    <3>1. size # 0 /\ framed # MaxPackets
      BY <1>2, <2>3, <2>4
    <3> QED
      BY <1>1, <2>3, <3>1
  <2>6. StreamWhole'
    BY <1>1, <1>7, <2>3, <2>5 DEF StreamWhole
  <2>7. WholePacket'
    <3>1. /\ Len(dataBuf') = size /\ dataBuf' \in Seq(Byte) /\ 1 \in 1..size
          /\ \A k \in 1..size :
               dataBuf'[k] = [conn |-> conn, pkt |-> framed + 1, pos |-> k, len |-> size]
      BY <1>2, <2>3, <2>4, <2>5, PacketBytes
    <3>2. dataBuf' # <<>>
      BY <1>2, <2>4, <3>1, SeqFacts
    <3>3. dataBuf'[1].len = size
      BY <3>1
    <3> QED
      BY <1>7, <2>5, <3>2, <3>3 DEF WholePacket
  <2> QED
    BY <2>6, <2>7
<1>9. LoopedToTheEnd'
  BY <1>7 DEF LoopedToTheEnd
<1> QED
  BY <1>6, <1>7, <1>8, <1>9 DEF NetInv

LEMMA FrameEndKeeps ==
    ASSUME NetInv, FrameEnd
    PROVE  NetInv'
<1> USE NetFacts
<1>1. NetTypeOK'
  BY DEF NetInv, NetTypeOK, FrameEnd, bufVars, netVars
<1>2. UNCHANGED <<socket, inBuf, dataBuf, wire, conn, sent, framed, spliced>>
  BY DEF FrameEnd, bufVars, netVars
<1>3. ASSUME ~spliced PROVE StreamWhole' /\ WholePacket'
  BY <1>2, <1>3 DEF NetInv, StreamWhole, WholePacket
<1>4. ASSUME ~spliced PROVE LoopedToTheEnd'
  <2> SUFFICES ASSUME Len(inBuf) >= HeaderLen PROVE Len(inBuf) < inBuf[1].len
    BY <1>2 DEF LoopedToTheEnd
  <2>1. PacketSizes = {inBuf[1].len} /\ inBuf[1].len \in Sizes
    BY <1>4, HeaderRead
  <2>2. ~TakesPacket(inBuf[1].len)
    BY <2>1 DEF FrameEnd
  <2>3. inBuf[1].len \in Nat
    BY <2>1, Lengths
  <2> QED
    BY <2>2, <2>3 DEF TakesPacket
<1> QED
  BY <1>1, <1>2, <1>3, <1>4 DEF NetInv

\* The call and an empty read leave the stream as it is.
LEMMA CallKeeps ==
    ASSUME NetInv, RunRecvMsg \/ ReadNone \/ UNCHANGED cnVars
    PROVE  NetInv'
<1>1. UNCHANGED <<socket, inBuf, dataBuf, wire, conn, sent, framed, spliced>>
  BY DEF RunRecvMsg, ReadNone, bufVars, netVars, cnVars
<1>2. pc' \in {"idle", "read", "frame"} /\ (pc' # "frame" => pc # "frame")
  BY DEF RunRecvMsg, ReadNone, cnVars, NetInv, NetTypeOK
<1>3. NetTypeOK'
  BY <1>1, <1>2 DEF NetInv, NetTypeOK
<1>4. ASSUME ~spliced PROVE StreamWhole' /\ WholePacket' /\ LoopedToTheEnd'
  BY <1>1, <1>2, <1>4 DEF NetInv, StreamWhole, WholePacket, LoopedToTheEnd
<1> QED
  BY <1>1, <1>3, <1>4 DEF NetInv

LEMMA NetInvStep == NetInv /\ [NetNext]_cnVars => NetInv'
<1> SUFFICES ASSUME NetInv, [NetNext]_cnVars PROVE NetInv'
  OBVIOUS
<1>1. CASE \E n \in Sizes : ServerSend(n)
  BY <1>1, ServerSendKeeps
<1>2. CASE \E o \in {"ready", "unready", "refused", "none"} : Connect(o)
  BY <1>2, ConnectKeeps
<1>3. CASE ReadSome
  BY <1>3, ReadSomeKeeps
<1>4. CASE Frame
  BY <1>4, FrameKeeps
<1>5. CASE FrameEnd
  BY <1>5, FrameEndKeeps
<1>6. CASE RunRecvMsg \/ ReadNone \/ UNCHANGED cnVars
  BY <1>6, CallKeeps
<1> QED
  BY <1>1, <1>2, <1>3, <1>4, <1>5, <1>6 DEF NetNext

LEMMA NetInvAlways == NetSpec => []NetInv
  BY NetInvInit, NetInvStep, PTL DEF NetSpec

\* runRecvMsg cuts the stream exactly where the packets end, whatever parts the
\* stream arrives in, and leaves no complete packet in the buffer when it
\* returns: for every header length, every buffer and size field wide enough
\* for the packets, and any number of packets and connections.
THEOREM StreamIsCutExactly == NetSpec => []FramingExact
<1>1. NetInv => FramingExact
  BY DEF NetInv, FramingExact, FramesWhole, NothingLeftBehind, LoopedToTheEnd
<1> QED
  BY <1>1, NetInvAlways, PTL

\* The receive buffer never overflows and every other variable keeps its type.
THEOREM BufferNeverOverflows == NetSpec => []NetTypeOK
<1>1. NetInv => NetTypeOK
  BY DEF NetInv
<1> QED
  BY <1>1, NetInvAlways, PTL
=============================================================================
