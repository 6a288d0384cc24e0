------------------------ MODULE ControlStreamProofs -------------------------
(***************************************************************************)
(* Theorems about ControlStream for any peers, any number of frames and    *)
(* buffers of any size.                                                    *)
(***************************************************************************)
EXTENDS ControlStream, SequenceTheorems, TLAPS

-----------------------------------------------------------------------------
(* The frame.                                                              *)

\* What is on the stream.
Units == {Encode(p)[k] : p \in Peers, k \in 1 .. FrameLen}

\* A tuple is a sequence.
LEMMA TupleFacts ==
    ASSUME NEW S, NEW n \in Nat, NEW x \in [1 .. n -> S]
    PROVE  x \in Seq(S) /\ Len(x) = n
  OBVIOUS

\* The places of two sequences, one after the other.
LEMMA ConcatAt ==
    ASSUME NEW S, NEW s \in Seq(S), NEW t \in Seq(S)
    PROVE  /\ s \o t \in Seq(S) /\ Len(s \o t) = Len(s) + Len(t)
           /\ \A i \in 1 .. Len(s) : (s \o t)[i] = s[i]
           /\ \A i \in 1 .. Len(t) : (s \o t)[Len(s) + i] = t[i]
<1>1. /\ s \o t \in Seq(S) /\ Len(s \o t) = Len(s) + Len(t)
      /\ \A i \in 1 .. Len(s) + Len(t) :
            (s \o t)[i] = IF i <= Len(s) THEN s[i] ELSE t[i - Len(s)]
  BY ConcatProperties
<1> QED
  BY <1>1

\* The numbers of 8 and of 16 bits.
LEMMA U8Def == \A n : n \in U8 <=> n \in Int /\ 0 <= n /\ n <= 255
<1>1. MaxU8 \in Int
  BY DEF MaxU8
<1>2. \A n : n \in U8 <=> n \in Int /\ 0 <= n /\ n <= MaxU8
  BY <1>1 DEF U8
<1> QED
  BY <1>2 DEF MaxU8

LEMMA U16Def == \A n : n \in U16 <=> n \in Int /\ 0 <= n /\ n <= 65535
<1>1. MaxU16 \in Int
  BY DEF MaxU16
<1>2. \A n : n \in U16 <=> n \in Int /\ 0 <= n /\ n <= MaxU16
  BY <1>1 DEF U16
<1> QED
  BY <1>2 DEF MaxU16

\* The two kinds of peer.
LEMMA PeerKinds ==
    ASSUME NEW p \in Peers
    PROVE  /\ p = [ip |-> p.ip, port |-> p.port, token |-> p.token]
           /\ p.port \in U16
           /\ \/ p.ip \in Seq(U8) /\ Len(p.ip) = 4 /\ IsV4(p.ip)
              \/ p.ip \in Seq(U16) /\ Len(p.ip) = 8 /\ ~IsV4(p.ip)
<1>1. /\ p = [ip |-> p.ip, port |-> p.port, token |-> p.token]
      /\ p.ip \in Ips /\ p.port \in U16
  BY PeersAssumption
<1>2. CASE p.ip \in [1 .. 4 -> U8]
  <2>1. p.ip \in Seq(U8) /\ Len(p.ip) = 4
    BY <1>2, TupleFacts
  <2> QED
    BY <1>1, <2>1 DEF IsV4
<1>3. CASE p.ip \in [1 .. 8 -> U16]
  <2>1. p.ip \in Seq(U16) /\ Len(p.ip) = 8
    BY <1>3, TupleFacts
  <2> QED
    BY <1>1, <2>1 DEF IsV4
<1> QED
  BY <1>1, <1>2, <1>3 DEF Ips

\* A number of 16 bits, and the two bytes it is written in.
LEMMA BeFacts ==
    ASSUME NEW n \in U16
    PROVE  /\ Be(n) \in Seq(U8) /\ Len(Be(n)) = 2
           /\ Be(n)[1] \in U8 /\ Be(n)[2] \in U8
           /\ FromBe(Be(n)[1], Be(n)[2]) = n
<1>1. n \in Int /\ 0 <= n /\ n <= 65535
  BY U16Def
<1>2. /\ n \div 256 \in Int /\ n % 256 \in Int /\ 0 <= n % 256 /\ n % 256 < 256
      /\ 256 * (n \div 256) + (n % 256) = n
  BY <1>1
<1>3. \A d, r \in Int : 0 <= r /\ r < 256 /\ 256 * d + r = n => 0 <= d /\ d <= 255
  BY <1>1
<1>4. n \div 256 \in U8 /\ n % 256 \in U8
  BY <1>2, <1>3, U8Def
<1> QED
  BY <1>2, <1>4 DEF Be, FromBe

LEMMA OctetsFacts ==
    ASSUME NEW p \in Peers
    PROVE  /\ Octets(p.ip) \in Seq(U8) /\ Len(Octets(p.ip)) = 16
           /\ IsV4(p.ip) => /\ \A k \in 1 .. 12 : Octets(p.ip)[k] = Mapped[k]
                            /\ \A k \in 1 .. 4 : Octets(p.ip)[12 + k] = p.ip[k]
           /\ ~IsV4(p.ip) => \A i \in 1 .. 8 : /\ Octets(p.ip)[2 * i - 1] = Be(p.ip[i])[1]
                                               /\ Octets(p.ip)[2 * i] = Be(p.ip[i])[2]
<1> DEFINE o == Octets(p.ip)
<1>1. CASE IsV4(p.ip)
  <2>1. p.ip \in Seq(U8) /\ Len(p.ip) = 4
    BY <1>1, PeerKinds
  <2>2. Mapped \in [1 .. 12 -> U8]
    BY U8Def DEF Mapped
  <2>3. o = Mapped \o p.ip
    BY <1>1 DEF Octets
  <2>4. Mapped \in Seq(U8) /\ Len(Mapped) = 12
    BY <2>2, TupleFacts
  <2> HIDE DEF o
  <2>5. /\ o \in Seq(U8) /\ Len(o) = Len(Mapped) + Len(p.ip)
        /\ \A i \in 1 .. Len(Mapped) : o[i] = Mapped[i]
        /\ \A i \in 1 .. Len(p.ip) : o[Len(Mapped) + i] = p.ip[i]
    <3>1. p.ip \in Seq(U8) /\ Mapped \in Seq(U8)
      BY <2>1, <2>4
    <3> QED
      BY <2>3, <3>1, ConcatAt
  <2>6. /\ o \in Seq(U8) /\ Len(o) = 16
        /\ \A i \in 1 .. 12 : o[i] = Mapped[i]
        /\ \A i \in 1 .. 4 : o[12 + i] = p.ip[i]
    BY <2>1, <2>4, <2>5
  <2> QED
    BY <1>1, <2>6 DEF o
<1>2. CASE ~IsV4(p.ip)
  <2>1. \A i \in 1 .. 8 : p.ip[i] \in U16
    BY <1>2, PeerKinds
  <2>2. o = [k \in 1 .. 16 |-> Be(p.ip[(k + 1) \div 2])[2 - (k % 2)]]
    BY <1>2 DEF Octets
  <2>3. \A k \in 1 .. 16 : (k + 1) \div 2 \in 1 .. 8 /\ 2 - (k % 2) \in {1, 2}
    OBVIOUS
  <2>4. \A k \in 1 .. 16 : o[k] \in U8
    BY <2>1, <2>2, <2>3, BeFacts
  <2>5. o \in Seq(U8) /\ Len(o) = 16
    <3>1. o \in [1 .. 16 -> U8]
      BY <2>2, <2>4
    <3> HIDE DEF o
    <3> QED
      BY <3>1, TupleFacts
  <2>6. ASSUME NEW i \in 1 .. 8
        PROVE  o[2 * i - 1] = Be(p.ip[i])[1] /\ o[2 * i] = Be(p.ip[i])[2]
    <3>1. /\ 2 * i - 1 \in 1 .. 16 /\ 2 * i \in 1 .. 16
          /\ ((2 * i - 1) + 1) \div 2 = i /\ (2 * i + 1) \div 2 = i
          /\ 2 - ((2 * i - 1) % 2) = 1 /\ 2 - ((2 * i) % 2) = 2
      OBVIOUS
    <3> QED
      BY <2>2, <3>1
  <2> QED
    BY <1>2, <2>5, <2>6
<1> QED
  BY <1>1, <1>2

\* The places of a frame.
LEMMA EncodeFacts ==
    ASSUME NEW p \in Peers
    PROVE  /\ Encode(p) \in Seq(Units) /\ Len(Encode(p)) = FrameLen
           /\ \A k \in 1 .. 16 : Encode(p)[k] = Octets(p.ip)[k]
           /\ Encode(p)[17] = Be(p.port)[1] /\ Encode(p)[18] = Be(p.port)[2]
           /\ Encode(p)[19] = p.token
<1> DEFINE o == Octets(p.ip)  b == Be(p.port)  t == <<p.token>>
           ob == o \o b  e == Encode(p)  A == U8 \cup {p.token}
<1>1. o \in Seq(A) /\ Len(o) = 16 /\ b \in Seq(A) /\ Len(b) = 2 /\ t \in Seq(A) /\ Len(t) = 1
      /\ t[1] = p.token
  <2>1. o \in Seq(U8) /\ Len(o) = 16 /\ b \in Seq(U8) /\ Len(b) = 2
    BY OctetsFacts, PeerKinds, BeFacts
  <2>2. U8 \subseteq A /\ p.token \in A
    OBVIOUS
  <2> HIDE DEF o, b, A
  <2>3. o \in Seq(A) /\ b \in Seq(A)
    BY <2>1, <2>2, SeqMonotonic
  <2> QED
    BY <2>1, <2>2, <2>3
<1>2. Encode(p) = o \o b \o t
  BY DEF Encode
<1> HIDE DEF o, b, t, A
<1>3. /\ ob \in Seq(A) /\ Len(ob) = Len(o) + Len(b)
      /\ \A k \in 1 .. Len(o) : ob[k] = o[k]
      /\ \A k \in 1 .. Len(b) : ob[Len(o) + k] = b[k]
  <2>1. o \in Seq(A) /\ b \in Seq(A)
    BY <1>1
  <2> QED
    BY <2>1, ConcatAt
<1>4. e = ob \o t
  BY <1>2
<1> HIDE DEF ob, e
<1>5. /\ e \in Seq(A) /\ Len(e) = Len(ob) + Len(t)
      /\ \A k \in 1 .. Len(ob) : e[k] = ob[k]
      /\ \A k \in 1 .. Len(t) : e[Len(ob) + k] = t[k]
  <2>1. ob \in Seq(A) /\ t \in Seq(A)
    BY <1>1, <1>3
  <2> QED
    BY <1>4, <2>1, ConcatAt
<1>6. /\ Len(e) = 19 /\ e \in Seq(A)
      /\ \A k \in 1 .. 16 : e[k] = o[k]
      /\ e[17] = b[1] /\ e[18] = b[2] /\ e[19] = t[1]
  <2>1. Len(ob) = 18 /\ \A k \in 1 .. 16 : ob[k] = o[k]
    BY <1>1, <1>3
  <2>2. ob[17] = b[1] /\ ob[18] = b[2]
    BY <1>1, <1>3
  <2> QED
    BY <1>1, <1>5, <2>1, <2>2
<1>7. \A k \in 1 .. 19 : e[k] \in Units
  BY DEF Units, FrameLen, e
<1>8. e \in Seq(Units) /\ Len(e) = 19
  <2>1. e \in [1 .. 19 -> Units]
    BY <1>6, <1>7
  <2> QED
    BY <2>1, TupleFacts
<1> QED
  BY <1>1, <1>6, <1>8 DEF FrameLen, o, b, e

\* When the part from m to n of a sequence is t.
LEMMA PartIs ==
    ASSUME NEW S, NEW s \in Seq(S), NEW m \in Nat, 1 <= m, NEW n \in Nat, m <= n, n <= Len(s),
           NEW t, NEW T, t \in Seq(T), Len(t) = n - m + 1
    PROVE  SubSeq(s, m, n) = t <=> \A k \in 1 .. n - m + 1 : s[m + k - 1] = t[k]
<1> DEFINE u == SubSeq(s, m, n)
<1>1. \A i \in m .. n : s[i] \in S
  BY ElementOfSeq
<1>2. /\ u \in Seq(S) /\ Len(u) = n - m + 1
      /\ \A i \in 1 .. n - m + 1 : u[i] = s[m + i - 1]
  BY <1>1, SubSeqProperties
<1> HIDE DEF u
<1>3. ASSUME \A k \in 1 .. n - m + 1 : u[k] = t[k] PROVE u = t
  <2>1. u \in Seq(S \cup T) /\ t \in Seq(S \cup T)
    BY <1>2, SeqMonotonic
  <2> QED
    BY <1>2, <1>3, <2>1, SeqEqual
<1> QED
  BY <1>2, <1>3 DEF u

\* Sixteen bits are the two bytes 0 and 0, or 255 and 255.
LEMMA BeEnds ==
    ASSUME NEW n \in U16
    PROVE  /\ Be(n)[1] = 0 /\ Be(n)[2] = 0 <=> n = 0
           /\ Be(n)[1] = 255 /\ Be(n)[2] = 255 <=> n = 65535
<1>1. n \in Int
  BY U16Def
<1>2. Be(n)[1] \in Int /\ Be(n)[2] \in Int /\ 256 * Be(n)[1] + Be(n)[2] = n
      /\ 0 <= Be(n)[1] /\ Be(n)[1] <= 255 /\ 0 <= Be(n)[2] /\ Be(n)[2] <= 255
  BY BeFacts, U8Def DEF FromBe
<1> DEFINE a == Be(n)[1]  b == Be(n)[2]
<1> HIDE DEF a, b
<1>3. /\ a \in Int /\ b \in Int /\ 256 * a + b = n
      /\ 0 <= a /\ a <= 255 /\ 0 <= b /\ b <= 255
  BY <1>2 DEF a, b
<1>4. (a = 0 /\ b = 0 <=> n = 0) /\ (a = 255 /\ b = 255 <=> n = 65535)
  BY <1>1, <1>3
<1> QED
  BY <1>4 DEF a, b

\* Two pairs, one after the other.
LEMMA PairOfPairs ==
    ASSUME NEW a, NEW b, NEW c, NEW d
    PROVE  <<a, b>> \o <<c, d>> = <<a, b, c, d>>
<1> DEFINE S == {a, b, c, d}  s == <<a, b>>  t == <<c, d>>  u == s \o t  v == <<a, b, c, d>>
<1>1. /\ s \in Seq(S) /\ t \in Seq(S) /\ v \in Seq(S)
      /\ s[1] = a /\ s[2] = b /\ t[1] = c /\ t[2] = d
      /\ v[1] = a /\ v[2] = b /\ v[3] = c /\ v[4] = d
  OBVIOUS
<1>2. Len(s) = 2 /\ Len(t) = 2 /\ Len(v) = 4
  OBVIOUS
<1> HIDE DEF S, s, t, v
<1>3. /\ u \in Seq(S) /\ Len(u) = Len(s) + Len(t)
      /\ \A i \in 1 .. Len(s) : u[i] = s[i]
      /\ \A i \in 1 .. Len(t) : u[Len(s) + i] = t[i]
  BY <1>1, ConcatAt
<1> HIDE DEF u
<1>4. Len(u) = 4 /\ u[1] = a /\ u[2] = b /\ u[3] = c /\ u[4] = d
  BY <1>1, <1>2, <1>3
<1>5. \A i \in 1 .. 4 : u[i] = v[i]
  BY <1>1, <1>4
<1>6. u = v
  BY <1>1, <1>2, <1>3, <1>4, <1>5, SeqEqual
<1> QED
  BY <1>6 DEF u, s, t, v

\* The ipv4-mapped addresses of 8 segments.
IsMappedV6(ip) == SubSeq(ip, 1, 6) = <<0, 0, 0, 0, 0, 65535>>

\* What the node reads is what the relay wrote, an ipv4-mapped address as the
\* ipv4 address it stands for (node.rs, 365-397; relay.rs, 649-666).
THEOREM StreamDecodesEncoded == ASSUME NEW p \in Peers PROVE Decode(Encode(p)) = Canonical(p)
<1> DEFINE e == Encode(p)  o == SubSeq(e, 1, 16)  w == Octets(p.ip)
<1>1. o = w
  <2>1. \A k \in 1 .. 16 : e[k] = w[k]
    BY EncodeFacts
  <2>2. e \in Seq(Units) /\ Len(e) = 19
    BY EncodeFacts DEF FrameLen
  <2>3. w \in Seq(U8) /\ Len(w) = 16
    BY OctetsFacts
  <2> HIDE DEF e, w
  <2>4. 16 <= Len(e) /\ 16 - 1 + 1 = 16 /\ \A k \in 1 .. 16 : 1 + k - 1 = k
    BY <2>2
  <2>5. SubSeq(e, 1, 16) = w <=> \A k \in 1 .. 16 : e[k] = w[k]
    BY <2>2, <2>3, <2>4, PartIs
  <2> QED
    BY <2>1, <2>5
<1>2. FromBe(e[17], e[18]) = p.port /\ e[19] = p.token
  BY EncodeFacts, BeFacts, PeerKinds
<1>3. FromOctets(w) = Canonical(p).ip
  <2>0. w \in Seq(U8) /\ Len(w) = 16
    BY OctetsFacts
  <2>1. Mapped \in Seq(U8) /\ Len(Mapped) = 12
    <3>1. Mapped \in [1 .. 12 -> U8]
      BY U8Def DEF Mapped
    <3> QED
      BY <3>1, TupleFacts
  <2>2. IsMapped(w) <=> \A k \in 1 .. 12 : w[k] = Mapped[k]
    <3>1. 12 - 1 + 1 = 12 /\ \A k \in 1 .. 12 : 1 + k - 1 = k
      OBVIOUS
    <3> HIDE DEF w
    <3> QED
      BY <2>0, <2>1, <3>1, PartIs DEF IsMapped
  <2>3. CASE IsV4(p.ip)
    <3>1. p.ip \in Seq(U8) /\ Len(p.ip) = 4
      BY <2>3, PeerKinds
    <3>2. IsMapped(w) /\ \A k \in 1 .. 4 : w[12 + k] = p.ip[k]
      BY <2>2, <2>3, OctetsFacts
    <3>3. SubSeq(w, 13, 16) = p.ip
      <4>1. 16 - 13 + 1 = 4 /\ \A k \in 1 .. 4 : 13 + k - 1 = 12 + k
        OBVIOUS
      <4> HIDE DEF w
      <4> QED
        BY <2>0, <3>1, <3>2, <4>1, PartIs
    <3> QED
      BY <2>3, <3>2, <3>3 DEF FromOctets, Canonical
  <2>4. CASE ~IsV4(p.ip)
    <3> DEFINE ip == p.ip
    <3>1. ip \in Seq(U16) /\ Len(ip) = 8 /\ \A i \in 1 .. 8 : ip[i] \in U16
      BY <2>4, PeerKinds
    <3>2. \A i \in 1 .. 8 : w[2 * i - 1] = Be(ip[i])[1] /\ w[2 * i] = Be(ip[i])[2]
      BY <2>4, OctetsFacts
    <3> HIDE DEF w, ip
    <3>3. IsMapped(w) <=> \A i \in 1 .. 6 : ip[i] = IF i = 6 THEN 65535 ELSE 0
      <4>1. IsMapped(w) <=> \A i \in 1 .. 6 : w[2 * i - 1] = Mapped[2 * i - 1] /\ w[2 * i] = Mapped[2 * i]
        <5>1. \A k \in 1 .. 12 : \E i \in 1 .. 6 : k = 2 * i - 1 \/ k = 2 * i
          OBVIOUS
        <5>2. \A i \in 1 .. 6 : 2 * i - 1 \in 1 .. 12 /\ 2 * i \in 1 .. 12
          OBVIOUS
        <5> QED
          BY <2>2, <5>1, <5>2
      <4>2. \A i \in 1 .. 6 : /\ Mapped[2 * i - 1] = IF i = 6 THEN 255 ELSE 0
                              /\ Mapped[2 * i] = IF i = 6 THEN 255 ELSE 0
        BY DEF Mapped
      <4>3. \A i \in 1 .. 6 : i \in 1 .. 8
        OBVIOUS
      <4> QED
        BY <3>1, <3>2, <4>1, <4>2, <4>3, BeEnds
    <3>4. IsMapped(w) <=> IsMappedV6(ip)
      <4> DEFINE t == <<0, 0, 0, 0, 0, 65535>>
      <4>1. t \in Seq(Int) /\ Len(t) = 6 /\ \A i \in 1 .. 6 : t[i] = IF i = 6 THEN 65535 ELSE 0
        OBVIOUS
      <4>2. 6 - 1 + 1 = 6 /\ \A k \in 1 .. 6 : 1 + k - 1 = k
        OBVIOUS
      <4>3. IsMappedV6(ip) <=> SubSeq(ip, 1, 6) = t
        BY DEF IsMappedV6
      <4> HIDE DEF t
      <4>4. SubSeq(ip, 1, 6) = t <=> \A i \in 1 .. 6 : ip[i] = t[i]
        BY <3>1, <4>1, <4>2, PartIs
      <4> QED
        BY <3>3, <4>1, <4>3, <4>4
    <3>5. CASE IsMapped(w)
      <4> DEFINE t == Be(ip[7]) \o Be(ip[8])
      <4>1. Be(ip[7]) = <<w[13], w[14]>> /\ Be(ip[8]) = <<w[15], w[16]>>
        BY <3>1, <3>2 DEF Be
      <4>2. t = <<w[13], w[14], w[15], w[16]>>
        <5> QED
          BY <4>1, PairOfPairs
      <4>3. SubSeq(w, 13, 16) = t
        <5>1. t \in Seq(U8) /\ Len(t) = 4 /\ t[1] = w[13] /\ t[2] = w[14] /\ t[3] = w[15] /\ t[4] = w[16]
          <6>1. w[13] \in U8 /\ w[14] \in U8 /\ w[15] \in U8 /\ w[16] \in U8
            <7>1. w \in Seq(U8)
              BY <2>0
            <7>2. \A k \in 1 .. Len(w) : w[k] \in U8
              BY <7>1, ElementOfSeq
            <7> QED
              BY <2>0, <7>2
          <6> HIDE DEF t
          <6> QED
            BY <4>2, <6>1
        <5>2. 16 - 13 + 1 = 4 /\ \A k \in 1 .. 4 : 13 + k - 1 = 12 + k
          OBVIOUS
        <5> HIDE DEF t
        <5>3. \A k \in 1 .. 4 : w[12 + k] = t[k]
          BY <5>1
        <5> QED
          BY <2>0, <5>1, <5>2, <5>3, PartIs
      <4>4. Canonical(p).ip = t
        BY <2>4, <3>4, <3>5, PeerKinds DEF Canonical, IsMappedV6, ip
      <4> QED
        BY <3>5, <4>3, <4>4 DEF FromOctets
    <3>6. CASE ~IsMapped(w)
      <4>1. FromOctets(w) = [i \in 1 .. 8 |-> FromBe(w[2 * i - 1], w[2 * i])]
        BY <3>6 DEF FromOctets
      <4>2. \A i \in 1 .. 8 : FromBe(w[2 * i - 1], w[2 * i]) = ip[i]
        BY <3>1, <3>2, BeFacts
      <4>3. FromOctets(w) = ip
        BY <3>1, <4>1, <4>2
      <4> QED
        BY <2>4, <3>4, <3>6, <4>3 DEF Canonical, IsMappedV6, ip
    <3> QED
      BY <3>5, <3>6
  <2> QED
    BY <2>3, <2>4
<1>4. Canonical(p) = [ip |-> Canonical(p).ip, port |-> p.port, token |-> p.token]
  <2>1. p = [ip |-> p.ip, port |-> p.port, token |-> p.token]
    BY PeerKinds
  <2>2. \A x : [p EXCEPT !.ip = x] = [ip |-> x, port |-> p.port, token |-> p.token]
    BY <2>1
  <2>3. CASE Canonical(p) = p
    BY <2>1, <2>3
  <2>4. CASE Canonical(p) = [p EXCEPT !.ip = Be(p.ip[7]) \o Be(p.ip[8])]
    BY <2>2, <2>4
  <2> QED
    BY <2>3, <2>4 DEF Canonical
<1> QED
  BY <1>1, <1>2, <1>3, <1>4 DEF Decode

-----------------------------------------------------------------------------
(* All the frames.                                                         *)

\* The places of the frames of some peers.
LEMMA FramesAt ==
    ASSUME NEW s \in Seq(Peers)
    PROVE  /\ Frames(s) \in Seq(Units) /\ Len(Frames(s)) = 19 * Len(s)
           /\ \A g \in 0 .. Len(s) - 1, j \in 1 .. 19 : Frames(s)[19 * g + j] = Encode(s[g + 1])[j]
           /\ \A k \in 1 .. 19 * Len(s) :
                 \E g \in 0 .. Len(s) - 1, j \in 1 .. 19 : k = 19 * g + j
<1> DEFINE f == Frames(s)  n == Len(s)
<1>1. n \in Nat /\ \A g \in 0 .. n - 1 : s[g + 1] \in Peers
  OBVIOUS
<1>2. f = [k \in 1 .. 19 * n |-> Encode(s[(k - 1) \div 19 + 1])[((k - 1) % 19) + 1]]
  BY DEF Frames, FrameLen
<1> HIDE DEF n
<1>3. ASSUME NEW g \in 0 .. n - 1, NEW j \in 1 .. 19 PROVE f[19 * g + j] = Encode(s[g + 1])[j]
  <2>1. 19 * g + j \in 1 .. 19 * n
    BY <1>1
  <2>2. ((19 * g + j) - 1) \div 19 = g /\ ((19 * g + j) - 1) % 19 = j - 1
    BY <1>1
  <2>3. f[19 * g + j] = Encode(s[g + 1])[(j - 1) + 1] /\ (j - 1) + 1 = j
    BY <1>2, <2>1, <2>2
  <2> QED
    BY <2>3
<1>4. ASSUME NEW k \in 1 .. 19 * n PROVE \E g \in 0 .. n - 1, j \in 1 .. 19 : k = 19 * g + j
  <2> DEFINE g == (k - 1) \div 19  r == (k - 1) % 19
  <2>1. k \in Int /\ 1 <= k /\ k <= 19 * n
    BY <1>1
  <2>2. g \in Int /\ r \in Int /\ 0 <= r /\ r <= 18 /\ k - 1 = 19 * g + r
    BY <2>1
  <2> HIDE DEF g, r
  <2>3. 0 <= g /\ g <= n - 1
    BY <1>1, <2>1, <2>2
  <2>4. g \in 0 .. n - 1 /\ r + 1 \in 1 .. 19 /\ k = 19 * g + (r + 1)
    BY <1>1, <2>1, <2>2, <2>3
  <2> QED
    BY <2>4
<1>5. f \in Seq(Units) /\ Len(f) = 19 * n
  <2>1. \A g \in 0 .. n - 1, j \in 1 .. 19 : Encode(s[g + 1])[j] \in Units
    BY <1>1 DEF Units, FrameLen
  <2>2. 19 * n \in Nat
    BY <1>1
  <2> HIDE DEF f
  <2>3. \A k \in 1 .. 19 * n : f[k] \in Units
    BY <1>3, <1>4, <2>1
  <2>4. f \in [1 .. 19 * n -> Units]
    BY <1>2, <2>3
  <2> QED
    BY <2>2, <2>4, TupleFacts
<1> QED
  BY <1>3, <1>4, <1>5 DEF n

\* The frames of some peers and one more.
LEMMA FramesAppend ==
    ASSUME NEW s \in Seq(Peers), NEW p \in Peers
    PROVE  Frames(Append(s, p)) = Frames(s) \o Encode(p)
<1> DEFINE t == Append(s, p)  n == Len(s)  f == Frames(t)  e == Encode(p)  h == Frames(s)
           u == h \o e
<1>1. t \in Seq(Peers) /\ Len(t) = n + 1 /\ n \in Nat
      /\ t[n + 1] = p /\ \A g \in 0 .. n - 1 : t[g + 1] = s[g + 1]
  OBVIOUS
<1>2. e \in Seq(Units) /\ Len(e) = 19
  BY EncodeFacts DEF FrameLen
<1>3. /\ h \in Seq(Units) /\ Len(h) = 19 * n
      /\ \A g \in 0 .. n - 1, j \in 1 .. 19 : h[19 * g + j] = Encode(s[g + 1])[j]
  BY FramesAt
<1> HIDE DEF t
<1>4. /\ f \in Seq(Units) /\ Len(f) = 19 * (n + 1)
      /\ \A g \in 0 .. n, j \in 1 .. 19 : f[19 * g + j] = Encode(t[g + 1])[j]
      /\ \A k \in 1 .. 19 * (n + 1) : \E g \in 0 .. n, j \in 1 .. 19 : k = 19 * g + j
  <2>1. /\ f \in Seq(Units) /\ Len(f) = 19 * Len(t)
        /\ \A g \in 0 .. Len(t) - 1, j \in 1 .. 19 : f[19 * g + j] = Encode(t[g + 1])[j]
        /\ \A k \in 1 .. 19 * Len(t) : \E g \in 0 .. Len(t) - 1, j \in 1 .. 19 : k = 19 * g + j
    BY <1>1, FramesAt
  <2>2. Len(t) = n + 1 /\ Len(t) - 1 = n
    BY <1>1
  <2> HIDE DEF f, n
  <2> QED
    BY <2>1, <2>2
<1> HIDE DEF f, h, e, n
<1>5. /\ u \in Seq(Units) /\ Len(u) = Len(h) + Len(e)
      /\ \A i \in 1 .. Len(h) : u[i] = h[i]
      /\ \A i \in 1 .. Len(e) : u[Len(h) + i] = e[i]
  <2>1. h \in Seq(Units) /\ e \in Seq(Units)
    BY <1>2, <1>3
  <2> QED
    BY <2>1, ConcatAt
<1> HIDE DEF u
<1>6. Len(u) = 19 * (n + 1)
  BY <1>1, <1>2, <1>3, <1>5
<1>7. ASSUME NEW g \in 0 .. n, NEW j \in 1 .. 19 PROVE f[19 * g + j] = u[19 * g + j]
  <2>1. CASE g < n
    <3>1. g \in 0 .. n - 1 /\ 19 * g + j \in 1 .. 19 * n
      BY <1>1, <2>1
    <3>2. u[19 * g + j] = h[19 * g + j]
      BY <1>3, <1>5, <3>1
    <3>3. h[19 * g + j] = Encode(s[g + 1])[j] /\ t[g + 1] = s[g + 1]
      BY <1>1, <1>3, <3>1
    <3> QED
      BY <1>4, <3>2, <3>3
  <2>2. CASE g = n
    <3>1. u[19 * n + j] = e[j]
      BY <1>2, <1>3, <1>5
    <3>2. f[19 * n + j] = Encode(t[n + 1])[j]
      BY <1>4, <2>2
    <3> QED
      BY <1>1, <2>2, <3>1, <3>2 DEF e
  <2> QED
    BY <1>1, <2>1, <2>2
<1>8. \A k \in 1 .. Len(f) : f[k] = u[k]
  <2>1. ASSUME NEW k \in 1 .. 19 * (n + 1) PROVE f[k] = u[k]
    <3>1. PICK g \in 0 .. n, j \in 1 .. 19 : k = 19 * g + j
      BY <1>4
    <3> QED
      BY <1>7, <3>1
  <2> QED
    BY <1>4, <2>1
<1>9. f = u
  BY <1>4, <1>5, <1>6, <1>8, SeqEqual
<1> QED
  BY <1>9 DEF u, f, h, e, t

-----------------------------------------------------------------------------
(* The stream.                                                             *)

\* What the node can be told.
Told == {Canonical(p) : p \in Peers}

\* The invariant of the proofs: types, how far the node is, and NothingLost.
StreamInv ==
    /\ sent \in Seq(Peers) /\ got \in Seq(Told) /\ Len(got) <= Len(sent)
    /\ out \in Seq(Units) /\ tls \in Seq(Units) /\ tcp \in Seq(Units) /\ buf \in Seq(Units)
    /\ NothingLost

\* A sequence is its first part and the rest of it.
LEMMA CutInTwo ==
    ASSUME NEW S, NEW s \in Seq(S), NEW n \in 0 .. Len(s)
    PROVE  /\ SubSeq(s, 1, n) \in Seq(S) /\ Len(SubSeq(s, 1, n)) = n
           /\ SubSeq(s, n + 1, Len(s)) \in Seq(S) /\ Len(SubSeq(s, n + 1, Len(s))) = Len(s) - n
           /\ SubSeq(s, 1, n) \o SubSeq(s, n + 1, Len(s)) = s
<1>1. Len(s) \in Nat /\ n \in Int /\ 0 <= n /\ n <= Len(s) /\ \A i \in 1 .. Len(s) : s[i] \in S
  BY LenProperties, ElementOfSeq
<1>2. SubSeq(s, 1, n) \in Seq(S) /\ Len(SubSeq(s, 1, n)) = n
  <2>1. \A i \in 1 .. n : s[i] \in S
    BY <1>1
  <2>2. SubSeq(s, 1, n) \in Seq(S) /\ Len(SubSeq(s, 1, n)) = IF 1 <= n THEN n - 1 + 1 ELSE 0
    BY <1>1, <2>1, SubSeqProperties
  <2> QED
    BY <1>1, <2>2
<1>3. SubSeq(s, n + 1, Len(s)) \in Seq(S) /\ Len(SubSeq(s, n + 1, Len(s))) = Len(s) - n
  <2>1. \A i \in n + 1 .. Len(s) : s[i] \in S
    BY <1>1
  <2>2. n + 1 \in Int
    BY <1>1
  <2>3. /\ SubSeq(s, n + 1, Len(s)) \in Seq(S)
        /\ Len(SubSeq(s, n + 1, Len(s))) = IF n + 1 <= Len(s) THEN Len(s) - (n + 1) + 1 ELSE 0
    BY <1>1, <2>1, <2>2, SubSeqProperties
  <2> QED
    BY <1>1, <2>3
<1>4. SubSeq(s, 1, n) \o SubSeq(s, n + 1, Len(s)) = s
  <2>1. 1 \in 1 .. Len(s) + 1 /\ n \in 1 - 1 .. Len(s) /\ Len(s) \in n .. Len(s)
    BY <1>1
  <2>2. SubSeq(s, 1, n) \o SubSeq(s, n + 1, Len(s)) = SubSeq(s, 1, Len(s))
    BY <2>1, ConcatAdjacentSubSeq
  <2> QED
    BY <2>2, SubSeqFull
<1> QED
  BY <1>2, <1>3, <1>4

\* The relay begins a frame (relay.rs, 649-666).
LEMMA TakeKeeps == ASSUME StreamInv, NEW p \in Peers, TakeCmd(p) PROVE StreamInv'
<1> DEFINE h == Frames(SubSeq(sent, 1, Len(got)))  P == h \o buf \o tcp \o tls  e == Encode(p)
<1>1. /\ sent \in Seq(Peers) /\ got \in Seq(Told) /\ Len(got) <= Len(sent)
      /\ tls \in Seq(Units) /\ tcp \in Seq(Units) /\ buf \in Seq(Units)
      /\ Frames(sent) = P \o out /\ out = <<>> /\ sent' = Append(sent, p) /\ out' = e
      /\ Len(got) \in 0 .. Len(sent) /\ UNCHANGED <<tls, tcp, buf, got>>
  BY DEF StreamInv, TakeCmd, NothingLost
<1>2. e \in Seq(Units)
  BY EncodeFacts
<1>3. h \in Seq(Units)
  BY <1>1, CutInTwo, FramesAt
<1>4. SubSeq(sent', 1, Len(got)) = SubSeq(sent, 1, Len(got))
  BY <1>1
<1>5. Frames(sent') = Frames(sent) \o e
  BY <1>1, FramesAppend
<1>6. P \in Seq(Units)
  <2> HIDE DEF h
  <2> QED
    BY <1>1, <1>3
<1>7. P \o out = P
  <2> HIDE DEF P
  <2> QED
    BY <1>1, <1>6, ConcatEmptySeq
<1>8. NothingLost'
  <2>1. Frames(sent') = P \o e
    BY <1>1, <1>5, <1>7
  <2>2. Len(buf) < FrameLen /\ Len(tls) <= TlsCap /\ Len(tcp) <= TcpCap
    BY DEF StreamInv, NothingLost
  <2> QED
    BY <1>1, <1>4, <2>1, <2>2 DEF NothingLost
<1>9. sent' \in Seq(Peers) /\ Len(got) <= Len(sent')
  BY <1>1
<1> QED
  BY <1>1, <1>2, <1>8, <1>9 DEF StreamInv

\* Concatenation, grouped in other ways, with an operator that the provers leave as it is.
Cat(a, b) == a \o b

LEMMA CatFacts ==
    ASSUME NEW S, NEW a \in Seq(S), NEW b \in Seq(S)
    PROVE  /\ Cat(a, b) \in Seq(S)
           /\ \A c \in Seq(S) : Cat(Cat(a, b), c) = Cat(a, Cat(b, c))
<1>1. Cat(a, b) \in Seq(S)
  BY DEF Cat
<1>2. ASSUME NEW c \in Seq(S) PROVE Cat(Cat(a, b), c) = Cat(a, Cat(b, c))
  BY ConcatAssociative DEF Cat
<1> QED
  BY <1>1, <1>2

LEMMA MoveDown ==
    ASSUME NEW S, NEW a \in Seq(S), NEW b \in Seq(S), NEW c \in Seq(S), NEW d \in Seq(S)
    PROVE  Cat(Cat(a, b), Cat(c, d)) = Cat(Cat(a, Cat(b, c)), d)
<1>1. Cat(a, b) \in Seq(S)
  BY CatFacts
<1>2. Cat(Cat(a, b), Cat(c, d)) = Cat(Cat(Cat(a, b), c), d)
  BY <1>1, CatFacts
<1>3. Cat(Cat(a, b), c) = Cat(a, Cat(b, c))
  BY CatFacts
<1> QED
  BY <1>2, <1>3

\* The session accepts and the socket sends (relay.rs, 649-666).
LEMMA WriteKeeps == ASSUME StreamInv, PollWrite PROVE StreamInv'
<1> DEFINE n == Least(Len(out), TlsCap - Len(tls))
           o1 == SubSeq(out, 1, n)  o2 == SubSeq(out, n + 1, Len(out))
           held == tls \o o1
           m == Least(Len(held), TcpCap - Len(tcp))
           h1 == SubSeq(held, 1, m)  h2 == SubSeq(held, m + 1, Len(held))
           h == Frames(SubSeq(sent, 1, Len(got)))  B == h \o buf
<1>1. /\ sent \in Seq(Peers) /\ Len(got) \in 0 .. Len(sent)
      /\ out \in Seq(Units) /\ tls \in Seq(Units) /\ tcp \in Seq(Units) /\ buf \in Seq(Units)
      /\ Frames(sent) = B \o tcp \o tls \o out
      /\ Len(tls) <= TlsCap /\ Len(tcp) <= TcpCap
  BY DEF StreamInv, NothingLost
<1>2. out' = o2 /\ tls' = h2 /\ tcp' = tcp \o h1 /\ UNCHANGED <<sent, buf, got>>
  BY DEF PollWrite, AfterWrite
<1>3. TlsCap \in Nat /\ TcpCap \in Nat
  BY StreamAssumption
<1>4. n \in 0 .. Len(out) /\ n <= TlsCap - Len(tls)
  BY <1>1, <1>3 DEF Least
<1> HIDE DEF n
<1>5. /\ o1 \in Seq(Units) /\ Len(o1) = n /\ o2 \in Seq(Units)
      /\ o1 \o o2 = out
  BY <1>1, <1>4, CutInTwo
<1> HIDE DEF o1, o2
<1>6. held \in Seq(Units) /\ Len(held) = Len(tls) + n /\ Len(held) <= TlsCap
  <2>1. held \in Seq(Units) /\ Len(held) = Len(tls) + Len(o1)
    BY <1>1, <1>5, ConcatAt
  <2> QED
    BY <1>1, <1>3, <1>4, <1>5, <2>1
<1>7. m \in 0 .. Len(held) /\ m <= TcpCap - Len(tcp)
  <2> HIDE DEF held
  <2> QED
    BY <1>1, <1>3, <1>6 DEF Least
<1>8. /\ h1 \in Seq(Units) /\ Len(h1) = m /\ h2 \in Seq(Units) /\ Len(h2) = Len(held) - m
      /\ h1 \o h2 = held
  <2> HIDE DEF held, m
  <2> QED
    BY <1>6, <1>7, CutInTwo
<1>9. B \in Seq(Units)
  <2>1. h \in Seq(Units)
    BY <1>1, CutInTwo, FramesAt
  <2> HIDE DEF h
  <2> QED
    BY <1>1, <2>1
<1>10. Len(h2) <= TlsCap
  <2> HIDE DEF held, m, h2
  <2> QED
    BY <1>3, <1>6, <1>7, <1>8
<1>11. tcp \o h1 \in Seq(Units) /\ Len(tcp \o h1) <= TcpCap
  <2> HIDE DEF held, m, h1
  <2>1. tcp \o h1 \in Seq(Units) /\ Len(tcp \o h1) = Len(tcp) + Len(h1)
    BY <1>1, <1>8, ConcatAt
  <2> QED
    BY <1>1, <1>3, <1>7, <1>8, <2>1
<1>12. B \o tcp \o tls \o out = B \o (tcp \o h1) \o h2 \o o2
  <2>1. out = o1 \o o2 /\ held = h1 \o h2 /\ held = tls \o o1
    BY <1>5, <1>8
  <2>2. B \o tcp \in Seq(Units) /\ tls \in Seq(Units) /\ o1 \in Seq(Units) /\ o2 \in Seq(Units)
    <3> HIDE DEF B
    <3> QED
      BY <1>1, <1>5, <1>9
  <2>3. /\ B \in Seq(Units) /\ tcp \in Seq(Units) /\ h1 \in Seq(Units) /\ h2 \in Seq(Units)
    BY <1>1, <1>8, <1>9
  <2> HIDE DEF B, held, h1, h2
  <2>4. (B \o tcp) \o tls \o (o1 \o o2) = (B \o tcp) \o (tls \o o1) \o o2
    <3> DEFINE bt == B \o tcp
    <3>1. bt \in Seq(Units) /\ tls \in Seq(Units) /\ o1 \in Seq(Units) /\ o2 \in Seq(Units)
      BY <2>2
    <3> HIDE DEF bt
    <3>2. Cat(Cat(bt, tls), Cat(o1, o2)) = Cat(Cat(bt, Cat(tls, o1)), o2)
      BY <3>1, MoveDown
    <3> QED
      BY <3>2 DEF bt, Cat
  <2>5. B \o tcp \o (h1 \o h2) = B \o (tcp \o h1) \o h2
    <3>1. Cat(Cat(B, tcp), Cat(h1, h2)) = Cat(Cat(B, Cat(tcp, h1)), h2)
      BY <2>3, MoveDown
    <3> QED
      BY <3>1 DEF Cat
  <2> QED
    BY <2>1, <2>4, <2>5
<1>13. NothingLost'
  <2>1. Frames(sent') = B \o tcp' \o tls' \o out'
    BY <1>1, <1>2, <1>12
  <2>2. Len(buf) < FrameLen
    BY DEF StreamInv, NothingLost
  <2> QED
    BY <1>2, <1>10, <1>11, <2>1, <2>2 DEF NothingLost
<1> HIDE DEF h1, h2
<1> QED
  BY <1>2, <1>5, <1>8, <1>11, <1>13 DEF StreamInv

\* When a frame is complete it is the next peer's.
LEMMA NextFrame ==
    ASSUME StreamInv, tcp # <<>>, Len(Append(buf, Head(tcp))) = FrameLen
    PROVE  /\ Len(got) < Len(sent)
           /\ Append(buf, Head(tcp)) = Encode(sent[Len(got) + 1])
<1> DEFINE g == Len(got)  h == Frames(SubSeq(sent, 1, g))  x == Head(tcp)  b == Append(buf, x)
           r == Tail(tcp) \o tls \o out  hb == h \o b
<1>1. /\ sent \in Seq(Peers) /\ g \in 0 .. Len(sent)
      /\ out \in Seq(Units) /\ tls \in Seq(Units) /\ tcp \in Seq(Units) /\ buf \in Seq(Units)
      /\ Frames(sent) = h \o buf \o tcp \o tls \o out
  BY DEF StreamInv, NothingLost
<1>2. /\ SubSeq(sent, 1, g) \in Seq(Peers) /\ Len(SubSeq(sent, 1, g)) = g
  BY <1>1, CutInTwo
<1>3. h \in Seq(Units) /\ Len(h) = 19 * g
  BY <1>2, FramesAt
<1>4. x \in Units /\ Tail(tcp) \in Seq(Units) /\ tcp = <<x>> \o Tail(tcp)
  BY <1>1
<1>5. b \in Seq(Units) /\ b = buf \o <<x>> /\ Len(b) = 19
  BY <1>1, <1>4 DEF FrameLen
<1> HIDE DEF h, g, b
<1>6. r \in Seq(Units)
  BY <1>1, <1>4
<1>7. Frames(sent) = hb \o r
  <2> DEFINE q == Tail(tcp)
  <2>1. q \in Seq(Units) /\ <<x>> \in Seq(Units) /\ tcp = <<x>> \o q
    BY <1>4
  <2>2. h \in Seq(Units) /\ buf \in Seq(Units) /\ tls \in Seq(Units) /\ out \in Seq(Units)
    BY <1>1, <1>3
  <2> HIDE DEF q, x
  <2>3. h \o buf \o (<<x>> \o q) = h \o (buf \o <<x>>) \o q
    <3> DEFINE y == <<x>>
    <3>1. y \in Seq(Units) /\ q \in Seq(Units)
      BY <2>1
    <3> HIDE DEF y
    <3>2. Cat(Cat(h, buf), Cat(y, q)) = Cat(Cat(h, Cat(buf, y)), q)
      BY <2>2, <3>1, MoveDown
    <3> QED
      BY <3>2 DEF y, Cat
  <2>4. hb \in Seq(Units)
    BY <1>3, <1>5
  <2>5. Frames(sent) = hb \o q \o tls \o out
    BY <1>1, <1>5, <2>1, <2>3
  <2> HIDE DEF hb
  <2>6. Cat(q, tls) \in Seq(Units)
    BY <2>1, <2>2, CatFacts
  <2>7. Cat(Cat(hb, q), tls) = Cat(hb, Cat(q, tls))
    BY <2>1, <2>2, <2>4, CatFacts
  <2>8. Cat(Cat(hb, Cat(q, tls)), out) = Cat(hb, Cat(Cat(q, tls), out))
    BY <2>2, <2>4, <2>6, CatFacts
  <2>9. Frames(sent) = Cat(Cat(Cat(hb, q), tls), out)
    BY <2>5 DEF Cat
  <2>10. Frames(sent) = Cat(hb, Cat(Cat(q, tls), out))
    BY <2>7, <2>8, <2>9
  <2> QED
    BY <2>10 DEF q, Cat
<1> HIDE DEF r
<1>8. /\ hb \in Seq(Units) /\ Len(hb) = Len(h) + Len(b)
      /\ \A i \in 1 .. Len(b) : hb[Len(h) + i] = b[i]
  <2>1. h \in Seq(Units) /\ b \in Seq(Units)
    BY <1>3, <1>5
  <2> QED
    BY <2>1, ConcatAt
<1> HIDE DEF hb
<1>9. /\ Len(Frames(sent)) = Len(hb) + Len(r)
      /\ \A i \in 1 .. Len(hb) : Frames(sent)[i] = hb[i]
  <2>1. hb \in Seq(Units)
    BY <1>8
  <2> QED
    BY <1>6, <1>7, <2>1, ConcatAt
<1>10. Len(Frames(sent)) = 19 * Len(sent) /\ Len(hb) = 19 * g + 19 /\ Len(r) \in Nat
  BY <1>1, <1>3, <1>5, <1>6, <1>8, FramesAt
<1>11. g < Len(sent) /\ g \in 0 .. Len(sent) - 1
  BY <1>1, <1>9, <1>10
<1>12. ASSUME NEW j \in 1 .. 19 PROVE b[j] = Encode(sent[g + 1])[j]
  <2>1. Frames(sent)[19 * g + j] = Encode(sent[g + 1])[j]
    BY <1>1, <1>11, FramesAt
  <2>2. hb[19 * g + j] = b[j]
    BY <1>3, <1>5, <1>8
  <2>3. 19 * g + j \in 1 .. Len(hb)
    BY <1>1, <1>10
  <2> QED
    BY <1>9, <2>1, <2>2, <2>3
<1>13. Encode(sent[g + 1]) \in Seq(Units) /\ Len(Encode(sent[g + 1])) = 19
  <2>1. sent[g + 1] \in Peers
    BY <1>1, <1>11
  <2> QED
    BY <2>1, EncodeFacts DEF FrameLen
<1>14. b = Encode(sent[g + 1])
  BY <1>5, <1>12, <1>13, SeqEqual
<1> QED
  BY <1>11, <1>14 DEF b, g

\* The node reads a byte, and may have a frame (node.rs, 365-397).
LEMMA ReadKeeps ==
    ASSUME StreamInv, Read
    PROVE  /\ StreamInv' /\ sent' = sent
           /\ \/ UNCHANGED got
              \/ Len(got) < Len(sent) /\ got' = Append(got, Canonical(sent[Len(got) + 1]))
<1> DEFINE g == Len(got)  h == Frames(SubSeq(sent, 1, g))  x == Head(tcp)  b == Append(buf, x)
           q == Tail(tcp)
<1>1. /\ sent \in Seq(Peers) /\ g \in 0 .. Len(sent) /\ got \in Seq(Told)
      /\ out \in Seq(Units) /\ tls \in Seq(Units) /\ tcp \in Seq(Units) /\ buf \in Seq(Units)
      /\ Frames(sent) = h \o buf \o tcp \o tls \o out
      /\ Len(buf) < FrameLen /\ Len(tls) <= TlsCap /\ Len(tcp) <= TcpCap /\ tcp # <<>>
      /\ tcp' = q /\ UNCHANGED <<sent, out, tls>>
  BY DEF StreamInv, NothingLost, Read
<1>2. h \in Seq(Units)
  BY <1>1, CutInTwo, FramesAt
<1>3. x \in Units /\ q \in Seq(Units) /\ tcp = <<x>> \o q /\ Len(q) <= TcpCap
  <2>1. x \in Units /\ q \in Seq(Units) /\ tcp = <<x>> \o q /\ Len(q) = Len(tcp) - 1
    BY <1>1
  <2>2. Len(tcp) \in Nat /\ TcpCap \in Nat
    BY <1>1, StreamAssumption
  <2> HIDE DEF x, q
  <2> QED
    BY <1>1, <2>1, <2>2
<1>4. b \in Seq(Units) /\ b = buf \o <<x>> /\ Len(b) = Len(buf) + 1 /\ Len(b) <= FrameLen
  <2>1. buf \in Seq(Units) /\ x \in Units /\ Len(buf) < 19
    BY <1>1, <1>3 DEF FrameLen
  <2> HIDE DEF x
  <2>2. b \in Seq(Units) /\ b = buf \o <<x>> /\ Len(b) = Len(buf) + 1 /\ Len(buf) \in Nat
    BY <2>1
  <2> HIDE DEF b
  <2> QED
    BY <2>1, <2>2 DEF FrameLen
<1>5. Frames(sent) = h \o b \o q \o tls \o out
  <2> DEFINE y == <<x>>
  <2>1. y \in Seq(Units)
    BY <1>3
  <2>2. tcp = y \o q /\ b = buf \o y
    BY <1>3, <1>4
  <2> HIDE DEF h, q, y, b
  <2>3. h \in Seq(Units) /\ buf \in Seq(Units) /\ q \in Seq(Units)
    BY <1>1, <1>2, <1>3
  <2>4. h \o buf \o (y \o q) = h \o (buf \o y) \o q
    <3>1. Cat(Cat(h, buf), Cat(y, q)) = Cat(Cat(h, Cat(buf, y)), q)
      BY <2>1, <2>3, MoveDown
    <3> QED
      BY <3>1 DEF Cat
  <2> QED
    BY <1>1, <2>2, <2>4
<1> HIDE DEF q, b
<1>6. CASE Len(b) # FrameLen
  <2>1. buf' = b /\ UNCHANGED got
    BY <1>6 DEF Read, FrameEnds, b
  <2>2. Len(b) < FrameLen
    BY <1>1, <1>4, <1>6 DEF FrameLen
  <2>3. NothingLost'
    BY <1>1, <1>3, <1>5, <2>1, <2>2 DEF NothingLost
  <2> QED
    BY <1>1, <1>3, <1>4, <2>1, <2>3 DEF StreamInv
<1>7. CASE Len(b) = FrameLen
  <2> DEFINE p == sent[g + 1]  c == Canonical(p)
  <2>1. g < Len(sent) /\ b = Encode(p)
    BY <1>1, <1>7, NextFrame DEF b
  <2>2. p \in Peers
    BY <1>1, <2>1
  <2>3. buf' = <<>> /\ got' = Append(got, c)
    <3>1. buf' = <<>> /\ got' = Append(got, Decode(b))
      BY <1>7 DEF Read, FrameEnds, b
    <3> QED
      BY <2>1, <2>2, <3>1, StreamDecodesEncoded
  <2>4. c \in Told
    BY <2>2 DEF Told
  <2> HIDE DEF c
  <2>5. got' \in Seq(Told) /\ Len(got') = g + 1 /\ Len(got') <= Len(sent)
    BY <1>1, <2>1, <2>3, <2>4
  <2>6. SubSeq(sent, 1, g + 1) = Append(SubSeq(sent, 1, g), p) /\ SubSeq(sent, 1, g) \in Seq(Peers)
    BY <1>1, <2>1
  <2>7. Frames(SubSeq(sent, 1, g + 1)) = h \o b
    BY <2>1, <2>2, <2>6, FramesAppend
  <2>8. h \o b \o <<>> = h \o b
    <3> DEFINE k == h \o b
    <3>1. k \in Seq(Units)
      <4> HIDE DEF h
      <4> QED
        BY <1>2, <1>4
    <3> HIDE DEF k
    <3>2. k \o <<>> = k
      BY <3>1, ConcatEmptySeq
    <3> QED
      BY <3>2 DEF k
  <2>9. NothingLost'
    <3>1. SubSeq(sent', 1, Len(got')) = SubSeq(sent, 1, g + 1)
      BY <1>1, <2>5
    <3>2. Len(buf') < FrameLen
      BY <2>3 DEF FrameLen
    <3> HIDE DEF h
    <3>3. Frames(sent') = Frames(SubSeq(sent', 1, Len(got'))) \o buf' \o tcp' \o tls' \o out'
      BY <1>1, <1>5, <2>3, <2>7, <2>8, <3>1
    <3> QED
      BY <1>1, <1>3, <3>2, <3>3 DEF NothingLost
  <2>10. StreamInv'
    BY <1>1, <1>3, <2>3, <2>5, <2>9 DEF StreamInv
  <2> QED
    BY <1>1, <2>1, <2>3, <2>10 DEF c
<1> QED
  BY <1>6, <1>7

-----------------------------------------------------------------------------
(* The theorems.                                                           *)

LEMMA StreamInit == Init => StreamInv
<1> SUFFICES ASSUME Init PROVE StreamInv
  OBVIOUS
<1>1. /\ sent = <<>> /\ got = <<>> /\ out = <<>> /\ tls = <<>> /\ tcp = <<>> /\ buf = <<>>
  BY DEF Init
<1>2. SubSeq(sent, 1, Len(got)) = sent
  BY <1>1
<1>3. Frames(sent) = <<>>
  <2>1. sent \in Seq(Peers) /\ 19 * Len(sent) = 0
    BY <1>1
  <2>2. Frames(sent) \in Seq(Units) /\ Len(Frames(sent)) = 19 * Len(sent)
    BY <2>1, FramesAt
  <2> QED
    BY <2>1, <2>2, EmptySeq
<1>4. <<>> \o <<>> \o <<>> \o <<>> \o <<>> = <<>>
  OBVIOUS
<1>5. NothingLost
  <2>1. Frames(sent) = Frames(SubSeq(sent, 1, Len(got))) \o buf \o tcp \o tls \o out
    BY <1>1, <1>2, <1>3, <1>4
  <2>2. Len(buf) < FrameLen /\ Len(tls) <= TlsCap /\ Len(tcp) <= TcpCap
    BY <1>1, StreamAssumption DEF FrameLen
  <2> QED
    BY <2>1, <2>2 DEF NothingLost
<1> QED
  BY <1>1, <1>5 DEF StreamInv

\* Every step keeps the invariant and is a step of the queue or none.
LEMMA StreamNext ==
    ASSUME StreamInv, [Next]_vars
    PROVE  StreamInv' /\ [Queue!Notify \/ Queue!Hear]_<<sent, got>>
<1>1. ASSUME NEW p \in Peers, TakeCmd(p) PROVE StreamInv' /\ Queue!Notify
  BY <1>1, TakeKeeps DEF TakeCmd, Queue!Notify
<1>2. CASE PollWrite
  BY <1>2, WriteKeeps DEF PollWrite
<1>3. CASE Read
  BY <1>3, ReadKeeps DEF Queue!Hear
<1>4. CASE StreamEnds \/ UNCHANGED vars
  <2>1. UNCHANGED <<sent, out, tls, tcp, buf, got>>
    BY <1>4 DEF StreamEnds, vars
  <2> QED
    BY <2>1 DEF StreamInv, NothingLost
<1> QED
  BY <1>1, <1>2, <1>3, <1>4 DEF Next

\* However frames are buffered and sent in parts, no byte of them is lost,
\* doubled or out of place on its way to the node (relay.rs, 649-666;
\* node.rs, 362-397).
THEOREM StreamNothingLost == Spec => []NothingLost
<1>1. StreamInv => NothingLost
  BY DEF StreamInv
<1> QED
  BY <1>1, StreamInit, StreamNext, PTL DEF Spec

\* The stream implements the queue of notifications: the node is told of each
\* peer once, in order, with its address (relay.rs, 29-45, 649-666; node.rs,
\* 362-397).
THEOREM StreamImplementsQueue == Spec => QueueSpec
<1>1. Init => Queue!Init
  BY DEF Init, Queue!Init
<1> QED
  BY <1>1, StreamInit, StreamNext, PTL DEF Spec, QueueSpec, Queue!Spec
=============================================================================
