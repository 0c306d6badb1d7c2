--------------------------- MODULE FeeLink_proofs ---------------------------
(***************************************************************************)
(* Theorems about the connection, for every procedure, any slots and       *)
(* octets, and however the octets arrive.  First what the operators of     *)
(* RmapPacket build and make of it again, then the stream of frames.       *)
(***************************************************************************)
EXTENDS FeeLink, FiniteSetTheorems, SequenceTheorems, WellFoundedInduction, TLAPS

-----------------------------------------------------------------------------
(* Numbers.                                                                *)

LEMMA Lowest ==
    ASSUME NEW n \in Nat
    PROVE  /\ n = 256 * (n \div 256) + (n % 256) /\ n \div 256 \in Nat /\ n % 256 \in Octet
           /\ n \div (256 * 256) = (n \div 256) \div 256
           /\ n \div (256 * 256 * 256) = ((n \div 256) \div 256) \div 256
           /\ n \div 1 = n
BY SMT DEF Octet

LEMMA OneOctet ==
    ASSUME NEW n \in Octet
    PROVE  n \in Nat /\ n % 256 = n /\ n \div 256 = 0
BY DEF Octet

LEMMA ThreeOctets == \A n \in U24 : n \in Nat /\ n < 256 * 256 * 256
<1>1. \A k \in Int : \A n \in 0 .. k - 1 : n \in Nat /\ n < k
  OBVIOUS
<1>2. 256 * 256 * 256 \in Int
  OBVIOUS
<1>3. U24 = 0 .. (256 * 256 * 256) - 1
  BY Zenon DEF U24
<1>4. QED BY <1>1, <1>2, <1>3, Zenon

LEMMA Quotient ==
    ASSUME NEW n \in Nat, NEW a \in Nat, NEW x \in Octet, n = 256 * a + x
    PROVE  /\ n < 256 * 256 => a \in Octet
           /\ n \in U24 => a < 256 * 256
<1>1. x \in Nat
  BY DEF Octet
<1>2. n < 256 * 256 => a <= 255
  BY <1>1
<1>3. n < 256 * 256 * 256 => a < 256 * 256
  BY <1>1
<1>4. n \in U24 => n < 256 * 256 * 256
  BY ThreeOctets
<1>5. QED BY <1>2, <1>3, <1>4 DEF Octet

LEMMA Composed ==
    ASSUME NEW x \in Int, NEW y \in Int, NEW z \in Int, NEW a, NEW n,
           n = 256 * a + x, a = 256 * z + y
    PROVE  n = x + 256 * y + 256 * 256 * z
OBVIOUS

LEMMA ZeroDiv == 0 \div 256 = 0 /\ 0 % 256 = 0
OBVIOUS

\* A number is what its octets weigh.
LEMMA Weighed ==
    ASSUME NEW n \in Nat
    PROVE  LET o(d) == (n \div d) % 256 IN
           /\ n < 256 * 256 => n = o(1) + 256 * o(256)
           /\ n \in U24 => n = o(1) + 256 * o(256) + 256 * 256 * o(256 * 256)
           /\ n \in U24 => o(256 * 256 * 256) = 0
<1> DEFINE a == n \div 256
           b == a \div 256
<1>1. n = 256 * a + (n % 256) /\ a \in Nat /\ n % 256 \in Octet
  BY Lowest
<1>2. n \div 1 = n /\ n \div (256 * 256) = b /\ n \div (256 * 256 * 256) = b \div 256
  BY Lowest
<1> HIDE DEF a
<1>3. a = 256 * b + (a % 256) /\ b \in Nat /\ a % 256 \in Octet
  BY <1>1, Lowest
<1> HIDE DEF b
<1>4. n < 256 * 256 => a % 256 = a
  BY <1>1, Quotient, OneOctet
<1>5. n \in U24 => b % 256 = b /\ b \div 256 = 0
  <2>1. n \in U24 => a < 256 * 256
    BY <1>1, Quotient
  <2>2. a < 256 * 256 => b \in Octet
    BY <1>1, <1>3, Quotient
  <2>3. QED BY <2>1, <2>2, OneOctet
<1> DEFINE o(d) == (n \div d) % 256
<1>6. o(1) = n % 256 /\ o(256) = a % 256 /\ o(256 * 256) = b % 256
      /\ o(256 * 256 * 256) = (b \div 256) % 256
  BY <1>2 DEF a
<1>7. Octet \subseteq Int
  BY DEF Octet
<1> HIDE DEF o
<1>8. n < 256 * 256 => n = o(1) + 256 * o(256)
  <2>1. n < 256 * 256 => n = 256 * (a % 256) + (n % 256)
    BY <1>1, <1>4
  <2>2. \A x, y \in Int : 256 * y + x = x + 256 * y
    OBVIOUS
  <2>3. n < 256 * 256 => n = (n % 256) + 256 * (a % 256)
    BY <1>1, <1>3, <1>7, <2>1, <2>2
  <2>4. QED BY <1>6, <2>3, Zenon
<1>9. n \in U24 => n = o(1) + 256 * o(256) + 256 * 256 * o(256 * 256)
  BY <1>1, <1>3, <1>5, <1>6, <1>7, Composed
<1>10. n \in U24 => o(256 * 256 * 256) = 0
  BY <1>5, <1>6, ZeroDiv
<1>11. QED BY <1>8, <1>9, <1>10 DEF o

LEMMA WeightShape ==
    /\ Weight[1] = 1 /\ Weight[2] = 256 /\ Weight[3] = 256 * 256 /\ Weight[4] = 256 * 256 * 256
    /\ \A i \in 1 .. 4 : Weight[i] \in Nat \ {0}
<1>1. Weight[1] = 1 /\ Weight[2] = 256 /\ Weight[3] = 256 * 256 /\ Weight[4] = 256 * 256 * 256
  BY DEF Weight
<1>2. QED BY <1>1

LEMMA BigEndianShape ==
    ASSUME NEW n \in Nat, NEW w \in 1 .. 4
    PROVE  /\ BigEndian(n, w) \in Seq(Octet) /\ Len(BigEndian(n, w)) = w
           /\ \A i \in 1 .. w : BigEndian(n, w)[i] = (n \div Weight[w + 1 - i]) % 256
<1>1. ASSUME NEW i \in 1 .. w PROVE (n \div Weight[w + 1 - i]) % 256 \in Octet
  <2>1. Weight[w + 1 - i] \in Nat \ {0}
    BY WeightShape
  <2>2. n \div Weight[w + 1 - i] \in Nat
    BY <2>1
  <2>3. QED BY <2>2 DEF Octet
<1>2. BigEndian(n, w) \in [1 .. w -> Octet]
  BY <1>1 DEF BigEndian
<1>3. QED BY <1>2, SeqDef DEF BigEndian

\* What is decoded is what was encoded.
LEMMA Decoded ==
    ASSUME NEW w \in 2 .. 4, NEW n \in Nat, w = 2 => n < 256 * 256, w > 2 => n \in U24,
           NEW s, Len(s) = w, \A i \in 1 .. w : s[i] = BigEndian(n, w)[i]
    PROVE  FromBigEndian(s) = n
<1> DEFINE o(d) == (n \div d) % 256
           part(i) == IF i <= Len(s) THEN Weight[i] * s[Len(s) + 1 - i] ELSE 0
<1>1. /\ n < 256 * 256 => n = o(1) + 256 * o(256)
      /\ n \in U24 => n = o(1) + 256 * o(256) + 256 * 256 * o(256 * 256)
      /\ n \in U24 => o(256 * 256 * 256) = 0
  BY Weighed, ZenonT(60)
<1>2. \A i \in 1 .. w : s[w + 1 - i] = o(Weight[i])
  <2> TAKE i \in 1 .. w
  <2> DEFINE j == w + 1 - i
  <2>1. j \in 1 .. w /\ w + 1 - j = i /\ w \in 1 .. 4
    OBVIOUS
  <2> HIDE DEF j
  <2>2. BigEndian(n, w)[j] = (n \div Weight[w + 1 - j]) % 256
    BY <2>1, BigEndianShape, SMTT(60)
  <2>3. s[j] = (n \div Weight[i]) % 256
    BY <2>1, <2>2
  <2>4. QED BY <2>3 DEF j
<1>3. o(1) \in Int /\ o(256) \in Int /\ o(256 * 256) \in Int
  OBVIOUS
<1> HIDE DEF o
<1>4. \A i \in 1 .. 4 : part(i) = IF i <= w THEN Weight[i] * o(Weight[i]) ELSE 0
  BY <1>2
<1>5. part(1) = o(1) /\ part(2) = 256 * o(256)
  BY <1>3, <1>4, WeightShape
<1>6. part(3) = IF w > 2 THEN 256 * 256 * o(256 * 256) ELSE 0
  BY <1>4, WeightShape
<1>7. part(4) = IF w > 3 THEN 256 * 256 * 256 * o(256 * 256 * 256) ELSE 0
  BY <1>4, WeightShape
<1> HIDE DEF part
<1>8. CASE w = 2
  BY <1>1, <1>3, <1>5, <1>6, <1>7, <1>8 DEF FromBigEndian, part
<1>9. CASE w > 2
  <2>1. part(4) = 0
    BY <1>1, <1>7, <1>9
  <2>2. part(1) + part(2) + part(3) + part(4) = n
    BY <1>1, <1>3, <1>5, <1>6, <1>9, <2>1
  <2>3. QED BY <2>2, ZenonT(60) DEF FromBigEndian, part
<1>10. QED BY <1>8, <1>9

-----------------------------------------------------------------------------
(* Headers, packages and frames.                                           *)

Joins(s, a, b) ==
    /\ s \in Seq(Octet) /\ Len(s) = Len(a) + Len(b)
    /\ \A i \in 1 .. Len(a) : s[i] = a[i]
    /\ \A i \in 1 .. Len(b) : s[Len(a) + i] = b[i]

LEMMA Joined ==
    ASSUME NEW a \in Seq(Octet), NEW b \in Seq(Octet)
    PROVE  Joins(a \o b, a, b)
<1>1. a \o b \in Seq(Octet) /\ Len(a \o b) = Len(a) + Len(b)
  BY ConcatProperties
<1>2. Len(a) \in Nat /\ Len(b) \in Nat
  BY LenProperties
<1>3. \A i \in 1 .. Len(a) + Len(b) : (a \o b)[i] = IF i <= Len(a) THEN a[i] ELSE b[i - Len(a)]
  BY ConcatProperties
<1>4. \A i \in 1 .. Len(b) : (a \o b)[Len(a) + i] = b[i]
  BY <1>2, <1>3
<1>5. QED BY <1>1, <1>2, <1>3, <1>4 DEF Joins

\* The numbers of a header fit their places.
Fields(p) ==
    /\ p.dst \in Octet /\ p.key \in Octet /\ p.src \in Octet
    /\ p.tr_id \in Nat /\ p.tr_id < 256 * 256
    /\ p.cmd \in 0 .. 15 /\ p.data_len \in U24

\* What every header begins with.
Begins(h, p, instruction) ==
    /\ h \in Seq(Octet) /\ Len(h) >= 7
    /\ h[1] = p.dst /\ h[2] = RMAP_PROTOCOL_ID /\ h[3] = instruction /\ h[4] = p.key /\ h[5] = p.src
    /\ \A i \in 1 .. 2 : h[5 + i] = BigEndian(p.tr_id, 2)[i]

Beginning(p, x) ==
    <<p.dst, RMAP_PROTOCOL_ID, 4 * p.cmd + x, p.key, p.src>> \o BigEndian(p.tr_id, 2)

LEMMA BeginningBuilt ==
    ASSUME NEW p, Fields(p), NEW x \in {0, 64}
    PROVE  Begins(Beginning(p, x), p, 4 * p.cmd + x) /\ Len(Beginning(p, x)) = 7
<1> DEFINE a == <<p.dst, RMAP_PROTOCOL_ID, 4 * p.cmd + x, p.key, p.src>>
           b == BigEndian(p.tr_id, 2)
           s == Beginning(p, x)
<1>1. a \in Seq(Octet) /\ Len(a) = 5
  BY DEF Fields, Octet, RMAP_PROTOCOL_ID
<1>2. a[1] = p.dst /\ a[2] = RMAP_PROTOCOL_ID /\ a[3] = 4 * p.cmd + x /\ a[4] = p.key /\ a[5] = p.src
  OBVIOUS
<1>3. b \in Seq(Octet) /\ Len(b) = 2
  <2>1. p.tr_id \in Nat /\ 2 \in 1 .. 4
    BY DEF Fields
  <2> HIDE DEF a, s
  <2>2. QED BY <2>1, BigEndianShape, SMTT(60)
<1>4. s = a \o b
  BY DEF Beginning
<1> HIDE DEF a, b, s
<1>5. Joins(s, a, b)
  BY <1>1, <1>3, <1>4, Joined
<1>6. s \in Seq(Octet) /\ Len(s) = 7 /\ (\A i \in 1 .. 5 : s[i] = a[i])
      /\ \A i \in 1 .. 2 : s[5 + i] = b[i]
  BY <1>1, <1>3, <1>5 DEF Joins
<1>7. Begins(s, p, 4 * p.cmd + x)
  BY <1>2, <1>6 DEF Begins, b
<1>8. QED BY <1>6, <1>7 DEF s

\* A longer sequence begins alike.
LEMMA StillBegins ==
    ASSUME NEW p, NEW x, NEW a, NEW b, NEW s, Begins(a, p, x), Joins(s, a, b), b \in Seq(Octet)
    PROVE  Begins(s, p, x)
<1>1. a \in Seq(Octet) /\ Len(a) \in Nat /\ Len(a) >= 7 /\ Len(b) \in Nat
  BY LenProperties DEF Begins
<1>2. s \in Seq(Octet) /\ Len(s) >= 7
  <2>1. s \in Seq(Octet) /\ Len(s) = Len(a) + Len(b)
    BY DEF Joins
  <2>2. QED BY <1>1, <2>1
<1>3. \A i \in 1 .. 7 : s[i] = a[i]
  <2> TAKE i \in 1 .. 7
  <2>1. i \in 1 .. Len(a)
    BY <1>1
  <2>2. QED BY <2>1 DEF Joins
<1>4. QED BY <1>2, <1>3 DEF Begins

\* The header of a command: the address and the length of the data follow.
LEMMA CommandHeader ==
    ASSUME NEW p, Fields(p), p.cmd_resp = TRUE, p.addr \in U24
    PROVE  LET h == BuildHdr(p)
           IN  /\ Begins(h, p, 4 * p.cmd + 64) /\ Len(h) = 15
               /\ \A i \in 1 .. 4 : h[8 + i] = BigEndian(p.addr, 4)[i]
               /\ \A i \in 1 .. 3 : h[12 + i] = BigEndian(p.data_len, 3)[i]
<1> DEFINE a == Beginning(p, 64)
           z == <<0>>
           b == BigEndian(p.addr, 4)
           c == BigEndian(p.data_len, 3)
           m == z \o b
           am == a \o m
           h == BuildHdr(p)
<1>1. h = am \o c
  BY DEF BuildHdr, Beginning
<1>2. Begins(a, p, 4 * p.cmd + 64) /\ Len(a) = 7
  BY BeginningBuilt
<1>3. p.addr \in Nat /\ p.data_len \in Nat
  BY ThreeOctets DEF Fields
<1>4. b \in Seq(Octet) /\ Len(b) = 4 /\ c \in Seq(Octet) /\ Len(c) = 3
  <2>1. 4 \in 1 .. 4 /\ 3 \in 1 .. 4
    OBVIOUS
  <2> HIDE DEF a, z, m, am, h
  <2>2. b \in Seq(Octet) /\ Len(b) = 4
    BY <1>3, <2>1, BigEndianShape, SMTT(60)
  <2>3. c \in Seq(Octet) /\ Len(c) = 3
    BY <1>3, <2>1, BigEndianShape, SMTT(60)
  <2>4. QED BY <2>2, <2>3
<1>5. z \in Seq(Octet) /\ Len(z) = 1
  BY DEF Octet
<1> HIDE DEF a, b, c, z, h
<1>6. a \in Seq(Octet)
  BY <1>2 DEF Begins
<1>7. Joins(m, z, b)
  BY <1>4, <1>5, Joined
<1> HIDE DEF m
<1>8. m \in Seq(Octet) /\ Len(m) = 5 /\ \A i \in 1 .. 4 : m[1 + i] = b[i]
  BY <1>4, <1>5, <1>7 DEF Joins
<1>9. Joins(am, a, m)
  BY <1>6, <1>8, Joined
<1> HIDE DEF am
<1>10. am \in Seq(Octet) /\ Len(am) = 12 /\ \A i \in 1 .. 5 : am[7 + i] = m[i]
  BY <1>2, <1>8, <1>9 DEF Joins
<1>11. \A i \in 1 .. 4 : am[8 + i] = b[i]
  <2> TAKE i \in 1 .. 4
  <2>1. 1 + i \in 1 .. 5 /\ 7 + (1 + i) = 8 + i
    OBVIOUS
  <2>2. am[7 + (1 + i)] = m[1 + i]
    BY <1>10, <2>1
  <2>3. QED BY <1>8, <2>1, <2>2
<1>12. Joins(h, am, c)
  BY <1>1, <1>4, <1>10, Joined
<1>13. h \in Seq(Octet) /\ Len(h) = 15 /\ (\A i \in 1 .. 12 : h[i] = am[i])
       /\ \A i \in 1 .. 3 : h[12 + i] = c[i]
  BY <1>4, <1>10, <1>12 DEF Joins
<1>14. Begins(h, p, 4 * p.cmd + 64)
  BY <1>2, <1>4, <1>8, <1>9, <1>12, StillBegins
<1>15. \A i \in 1 .. 4 : h[8 + i] = b[i]
  <2> TAKE i \in 1 .. 4
  <2>1. 8 + i \in 1 .. 12
    OBVIOUS
  <2>2. QED BY <1>11, <1>13, <2>1
<1>16. QED BY <1>13, <1>14, <1>15 DEF b, c, h

\* The header of a reply: to a write without a data length.
LEMMA ReplyHeader ==
    ASSUME NEW p, Fields(p), p.cmd_resp = FALSE, p.cmd \in {READ, WRITE}
    PROVE  LET h == BuildHdr(p)
           IN  /\ Begins(h, p, 4 * p.cmd)
               /\ p.cmd = WRITE => Len(h) = 7
               /\ p.cmd = READ => /\ Len(h) = 11
                                  /\ \A i \in 1 .. 3 : h[8 + i] = BigEndian(p.data_len, 3)[i]
<1> DEFINE a == Beginning(p, 0)
           z == <<0>>
           c == BigEndian(p.data_len, 3)
           az == a \o z
           h == BuildHdr(p)
<1>1. p.cmd \in Nat /\ 4 * p.cmd + 0 = 4 * p.cmd
  BY DEF Fields
<1>2. Begins(a, p, 4 * p.cmd) /\ Len(a) = 7
  <2>1. Begins(a, p, 4 * p.cmd + 0) /\ Len(a) = 7
    BY BeginningBuilt
  <2>2. QED BY <1>1, <2>1
<1>3. Writes(WRITE) /\ ~Writes(READ) /\ READ # WRITE
  BY DEF Writes, WRITE, READ
<1>4. a \in Seq(Octet) /\ z \in Seq(Octet) /\ Len(z) = 1
  BY <1>2 DEF Begins, Octet
<1>5. c \in Seq(Octet) /\ Len(c) = 3
  <2>1. p.data_len \in Nat
    BY ThreeOctets DEF Fields
  <2>2. QED BY <2>1, BigEndianShape, SMTT(60)
<1>6. CASE p.cmd = WRITE
  <2>1. h = (a \o <<>>) \o <<>>
    BY <1>3, <1>6 DEF BuildHdr, Beginning
  <2> HIDE DEF a
  <2>2. h = a
    BY <1>4, <2>1
  <2>3. QED BY <1>2, <1>3, <1>6, <2>2
<1>7. CASE p.cmd = READ
  <2>1. h = az \o c
    BY <1>3, <1>7 DEF BuildHdr, Beginning
  <2> HIDE DEF a, c, z, h
  <2>2. Joins(az, a, z)
    BY <1>4, Joined
  <2> HIDE DEF az
  <2>3. az \in Seq(Octet) /\ Len(az) = 8
    BY <1>2, <1>4, <2>2 DEF Joins
  <2>4. Joins(h, az, c)
    BY <1>5, <2>1, <2>3, Joined
  <2>5. Len(h) = 11 /\ \A i \in 1 .. 3 : h[8 + i] = c[i]
    BY <1>5, <2>3, <2>4 DEF Joins
  <2>6. Begins(h, p, 4 * p.cmd)
    BY <1>2, <1>4, <1>5, <2>2, <2>4, StillBegins
  <2>7. QED BY <1>3, <1>7, <2>5, <2>6 DEF c, h
<1>8. QED BY <1>6, <1>7

\* p is what smile_fee_package() makes of a header and data.
Packs(p, hdr, cmd, data) ==
    /\ p \in Seq(Octet)
    /\ Len(p) = Len(hdr) + 1 + Len(data) + (IF HasDataCrc(cmd) THEN 1 ELSE 0)
    /\ \A i \in 1 .. Len(hdr) : p[i] = hdr[i]
    /\ \A i \in 1 .. Len(data) : p[Len(hdr) + 1 + i] = data[i]

\* smile_fee_package(): header, CRC, data, and what follows the data.
LEMMA PackageShape ==
    ASSUME NEW hdr \in Seq(Octet), NEW data \in Seq(Octet), NEW cmd
    PROVE  Packs(Package(hdr, cmd, data), hdr, cmd, data)
<1> DEFINE c == <<Crc>>
           h == Len(hdr)
           d == Len(data)
           n == h + 1 + d + (IF HasDataCrc(cmd) THEN 1 ELSE 0)
           x == hdr \o c
           y == x \o data
           s == y \o c
           p == Package(hdr, cmd, data)
<1>1. c \in Seq(Octet) /\ Len(c) = 1
  BY DEF Crc, Octet
<1>2. h \in Nat /\ d \in Nat
  BY LenProperties
<1>3. p = SubSeq(s, 1, n)
  BY DEF Package
<1> HIDE DEF c, p
<1>4. Joins(x, hdr, c)
  BY <1>1, Joined
<1> HIDE DEF x
<1>5. x \in Seq(Octet) /\ Len(x) = h + 1 /\ \A i \in 1 .. h : x[i] = hdr[i]
  BY <1>1, <1>4 DEF Joins
<1>6. Joins(y, x, data)
  BY <1>5, Joined
<1> HIDE DEF y
<1>7. y \in Seq(Octet) /\ Len(y) = h + 1 + d /\ (\A i \in 1 .. h + 1 : y[i] = x[i])
      /\ \A i \in 1 .. d : y[h + 1 + i] = data[i]
  BY <1>2, <1>5, <1>6 DEF Joins
<1>8. Joins(s, y, c)
  BY <1>1, <1>7, Joined
<1> HIDE DEF s
<1>9. s \in Seq(Octet) /\ Len(s) = h + 1 + d + 1 /\ \A i \in 1 .. h + 1 + d : s[i] = y[i]
  BY <1>1, <1>2, <1>7, <1>8 DEF Joins
<1>10. n \in Nat /\ h + 1 + d <= n /\ n <= h + 1 + d + 1
  BY <1>2
<1>11. p \in Seq(Octet) /\ Len(p) = n /\ \A i \in 1 .. n : p[i] = s[i]
  <2>1. \A i \in 1 .. n : s[i] \in Octet
    <3>1. \A i \in 1 .. Len(s) : s[i] \in Octet
      BY <1>9, ElementOfSeq
    <3>2. QED BY <1>9, <1>10, <3>1, <1>2
  <2>2. SubSeq(s, 1, n) = [i \in 1 .. n |-> s[i]]
    BY <1>9, <1>10, <1>2
  <2>3. p \in [1 .. n -> Octet]
    BY <1>3, <2>1, <2>2
  <2>4. p \in Seq(Octet) /\ Len(p) = n
    BY <1>10, <2>3, SeqDef
  <2>5. QED BY <1>3, <2>2, <2>4
<1> HIDE DEF h, d, n
<1>12. \A i \in 1 .. h : p[i] = hdr[i]
  <2> TAKE i \in 1 .. h
  <2>1. i \in 1 .. n /\ i \in 1 .. h + 1 + d /\ i \in 1 .. h + 1
    BY <1>2, <1>10
  <2>2. QED BY <1>5, <1>7, <1>9, <1>11, <2>1
<1>13. \A i \in 1 .. d : p[h + 1 + i] = data[i]
  <2> TAKE i \in 1 .. d
  <2>1. h + 1 + i \in 1 .. n /\ h + 1 + i \in 1 .. h + 1 + d
    BY <1>2, <1>10
  <2>2. QED BY <1>7, <1>9, <1>11, <2>1
<1>14. QED BY <1>11, <1>12, <1>13 DEF h, d, n, p, Packs

\* f is a packet with the GRESB header in front.
Frames(f, p) ==
    /\ f \in Seq(Octet) /\ Len(f) = Len(p) + 4
    /\ \A i \in 1 .. 3 : f[1 + i] = BigEndian(Len(p), 3)[i]
    /\ \A i \in 1 .. Len(p) : f[4 + i] = p[i]

LEMMA FrameShape ==
    ASSUME NEW p \in Seq(Octet), Len(p) \in U24
    PROVE  Frames(Frame(p), p)
<1> DEFINE z == <<0>>
           b == BigEndian(Len(p), 3)
           x == z \o b
           f == Frame(p)
<1>1. f = x \o p
  BY DEF Frame
<1>2. z \in Seq(Octet) /\ Len(z) = 1
  BY DEF Octet
<1>3. Len(p) \in Nat
  BY LenProperties
<1>4. b \in Seq(Octet) /\ Len(b) = 3
  BY <1>3, BigEndianShape
<1> HIDE DEF z, b, f
<1>5. Joins(x, z, b)
  BY <1>2, <1>4, Joined
<1> HIDE DEF x
<1>6. x \in Seq(Octet) /\ Len(x) = 4 /\ \A i \in 1 .. 3 : x[1 + i] = b[i]
  BY <1>2, <1>4, <1>5 DEF Joins
<1>7. Joins(f, x, p)
  BY <1>1, <1>6, Joined
<1>8. f \in Seq(Octet) /\ Len(f) = Len(p) + 4 /\ (\A i \in 1 .. 4 : f[i] = x[i])
      /\ \A i \in 1 .. Len(p) : f[4 + i] = p[i]
  BY <1>3, <1>6, <1>7 DEF Joins
<1>9. \A i \in 1 .. 3 : f[1 + i] = b[i]
  <2> TAKE i \in 1 .. 3
  <2>1. 1 + i \in 1 .. 4
    OBVIOUS
  <2>2. QED BY <1>6, <1>8, <2>1
<1>10. QED BY <1>8, <1>9 DEF b, f, Frames

\* o is what is found in a buffer at a place.
Cuts(o, buf, i, len) ==
    /\ o \in Seq(Octet) /\ Len(o) = len
    /\ \A j \in 1 .. len : i + j <= Len(buf) => o[j] = buf[i + j]

LEMMA OctetsShape ==
    ASSUME NEW buf \in Seq(Octet), NEW i \in Nat, NEW len \in Nat
    PROVE  Cuts(Octets(buf, i, len), buf, i, len)
<1>1. \A k \in 1 .. Len(buf) : buf[k] \in Octet
  BY ElementOfSeq
<1>2. Len(buf) \in Nat /\ 0 \in Octet
  BY LenProperties DEF Octet
<1>3. ASSUME NEW j \in 1 .. len
      PROVE  (IF i + j <= Len(buf) THEN buf[i + j] ELSE 0) \in Octet
  BY <1>1, <1>2
<1>4. Octets(buf, i, len) \in [1 .. len -> Octet]
  BY <1>3 DEF Octets
<1>5. QED BY <1>4, SeqDef DEF Octets, Cuts

-----------------------------------------------------------------------------
(* What rmap_pkt_from_buffer() makes of a package.                         *)

U16 == {n \in Nat : n < 256 * 256}

RmapPkt == [cmd_resp : BOOLEAN, cmd : {READ, WRITE}, dst : Octet, key : Octet, src : Octet,
            tr_id : U16, addr : U24, data_len : U24, data : Seq(Octet)]

\* A number is decoded from a buffer that holds its octets.
LEMMA NumberAt ==
    ASSUME NEW buf \in Seq(Octet), NEW i \in Nat, NEW w \in 2 .. 4, NEW n \in Nat,
           w = 2 => n < 256 * 256, w > 2 => n \in U24,
           i + w <= Len(buf), \A j \in 1 .. w : buf[i + j] = BigEndian(n, w)[j]
    PROVE  FromBigEndian(Octets(buf, i, w)) = n
<1> DEFINE o == Octets(buf, i, w)
<1>1. Len(buf) \in Nat
  BY LenProperties
<1>2. Len(o) = w /\ \A j \in 1 .. w : i + j <= Len(buf) => o[j] = buf[i + j]
  <2>1. Cuts(o, buf, i, w)
    BY OctetsShape
  <2>2. QED BY <2>1 DEF Cuts
<1> HIDE DEF o
<1>3. \A j \in 1 .. w : o[j] = BigEndian(n, w)[j]
  BY <1>1, <1>2
<1>4. FromBigEndian(o) = n
  BY <1>2, <1>3, Decoded
<1>5. QED BY <1>4 DEF o

LEMMA Instruction ==
    ASSUME NEW cmd \in {READ, WRITE}
    PROVE  /\ ((4 * cmd + 64) \div 64) % 2 = 1 /\ ((4 * cmd) \div 64) % 2 # 1
           /\ ((4 * cmd + 64) \div 4) % 16 = cmd /\ ((4 * cmd) \div 4) % 16 = cmd
           /\ (4 * cmd + 64) % 4 = 0 /\ (4 * cmd) % 4 = 0
BY DEF READ, WRITE

\* The parts of every header that are found at the same place.
LEMMA BeginningDecoded ==
    ASSUME NEW p, Fields(p), NEW buf \in Seq(Octet), NEW x, Begins(buf, p, x)
    PROVE  /\ Octets(buf, 2, 1)[1] = x
           /\ Octets(buf, 1, 1) = <<RMAP_PROTOCOL_ID>>
           /\ buf[1] = p.dst /\ buf[4] = p.key /\ buf[5] = p.src
           /\ FromBigEndian(Octets(buf, 5, 2)) = p.tr_id
<1>1. Len(buf) \in Nat /\ Len(buf) >= 7
  BY LenProperties DEF Begins
<1>2. Octets(buf, 2, 1)[1] = x
  BY <1>1 DEF Octets, Begins
<1>3. Octets(buf, 1, 1) = <<RMAP_PROTOCOL_ID>>
  BY <1>1 DEF Octets, Begins
<1>4. FromBigEndian(Octets(buf, 5, 2)) = p.tr_id
  <2>1. 2 \in 2 .. 4 /\ 5 \in Nat /\ p.tr_id \in Nat /\ p.tr_id < 256 * 256 /\ 5 + 2 <= Len(buf)
    BY <1>1 DEF Fields
  <2>2. \A j \in 1 .. 2 : buf[5 + j] = BigEndian(p.tr_id, 2)[j]
    BY DEF Begins
  <2> DEFINE w == 2
             i == 5
  <2>3. w \in 2 .. 4 /\ i \in Nat /\ i + w <= Len(buf) /\ ~(w > 2)
        /\ \A j \in 1 .. w : buf[i + j] = BigEndian(p.tr_id, w)[j]
    BY <2>1, <2>2
  <2> HIDE DEF w, i
  <2>4. FromBigEndian(Octets(buf, i, w)) = p.tr_id
    BY <2>1, <2>3, NumberAt
  <2>5. QED BY <2>4 DEF w, i
<1>5. QED BY <1>2, <1>3, <1>4 DEF Begins

LEMMA Minimum ==
    /\ Reads(READ) /\ ~Writes(READ) /\ Writes(WRITE) /\ ~Reads(WRITE) /\ READ # WRITE
    /\ HasDataCrc(WRITE) /\ ~HasDataCrc(READ)
    /\ \A cmd \in {READ, WRITE} : MinHdrSize(cmd, TRUE) = 15
    /\ MinHdrSize(READ, FALSE) = 11 /\ MinHdrSize(WRITE, FALSE) = 7
<1>1. Reads(READ) /\ ~Writes(READ) /\ Writes(WRITE) /\ ~Reads(WRITE) /\ READ # WRITE
      /\ HasDataCrc(WRITE) /\ ~HasDataCrc(READ)
  BY DEF Reads, Writes, READ, WRITE, HasDataCrc
<1>2. QED BY <1>1, Zenon DEF MinHdrSize

\* What is made of a packet that has no path.
Direct(buf, len) ==
    LET instruction == Octets(buf, 2, 1)[1]
        cmd_resp == (instruction \div 64) % 2 = 1
        cmd == (instruction \div 4) % 16
        skip == IF cmd_resp THEN 4 ELSE 0
        data_len == IF ~cmd_resp /\ Writes(cmd) THEN 0
                    ELSE FromBigEndian(Octets(buf, 8 + skip, 3))
        minimum == MinHdrSize(cmd, cmd_resp)
    IN  IF \/ len < 7 \/ Octets(buf, 1, 1) # <<RMAP_PROTOCOL_ID>>
           \/ minimum < 0 \/ len < minimum
           \/ data_len > 0 /\ len < 12 + skip + data_len
        THEN Invalid
        ELSE [cmd_resp |-> cmd_resp, cmd |-> cmd,
              dst |-> buf[1], key |-> buf[4], src |-> buf[5],
              tr_id |-> FromBigEndian(Octets(buf, 5, 2)),
              addr |-> IF cmd_resp THEN FromBigEndian(Octets(buf, 8, 4)) ELSE 0,
              data_len |-> data_len, data |-> Octets(buf, 12 + skip, data_len)]

LEMMA NoPath ==
    ASSUME NEW buf \in Seq(Octet), Len(buf) >= 7, NEW len, Octets(buf, 2, 1)[1] % 4 = 0
    PROVE  FromBuffer(buf, len) = Direct(buf, len)
<1> DEFINE octet(i) == Octets(buf, i, 1)[1]
           instruction == octet(2)
           cmd_resp == (instruction \div 64) % 2 = 1
           cmd == (instruction \div 4) % 16
           path == IF cmd_resp THEN 4 * (instruction % 4) ELSE 0
           skip == IF cmd_resp THEN 4 ELSE 0
           minimum == MinHdrSize(cmd, cmd_resp)
           data_len(s) == IF ~cmd_resp /\ Writes(cmd) THEN 0
                          ELSE FromBigEndian(Octets(buf, 8 + s, 3))
           refused(m, s) ==
               \/ len < 7 \/ Octets(buf, 1, 1) # <<RMAP_PROTOCOL_ID>>
               \/ minimum < 0 \/ len < m
               \/ data_len(s) > 0 /\ len < 12 + s + data_len(s)
           taken_for(dst, key, src, t, a, s) ==
               [cmd_resp |-> cmd_resp, cmd |-> cmd, dst |-> dst, key |-> key, src |-> src,
                tr_id |-> FromBigEndian(Octets(buf, t, 2)),
                addr |-> IF cmd_resp THEN FromBigEndian(Octets(buf, a, 4)) ELSE 0,
                data_len |-> data_len(s), data |-> Octets(buf, 12 + s, data_len(s))]
<1>1. path = 0
  <2>1. 4 * 0 = 0
    OBVIOUS
  <2>2. QED BY <2>1, Zenon
<1>2. octet(0) = buf[1] /\ octet(3) = buf[4] /\ octet(4) = buf[5]
  <2>1. Len(buf) \in Nat
    BY LenProperties
  <2>2. QED BY <2>1 DEF Octets
<1>3. minimum + 0 = minimum
  <2>1. minimum \in {-1, 15, 11, 7}
    BY Zenon DEF MinHdrSize
  <2>2. \A n \in {-1, 15, 11, 7} : n + 0 = n
    OBVIOUS
  <2> HIDE DEF minimum
  <2>3. QED BY <2>1, <2>2
<1>4. 4 + 0 = 4 /\ 5 + 0 = 5 /\ 8 + 0 = 8
  OBVIOUS
<1>5. 0 + skip = skip
  BY SMT
<1>6. FromBuffer(buf, len) =
        IF refused(minimum + path, path + skip) THEN Invalid
        ELSE taken_for(octet(0), octet(3), octet(4 + path), 5 + path, 8 + path, path + skip)
  BY Zenon DEF FromBuffer
<1>7. Direct(buf, len) = IF refused(minimum, skip) THEN Invalid
                         ELSE taken_for(buf[1], buf[4], buf[5], 5, 8, skip)
  BY Zenon DEF Direct
<1> HIDE DEF path, skip, minimum, octet, refused, taken_for
<1> QED BY <1>1, <1>2, <1>3, <1>4, <1>5, <1>6, <1>7, Zenon

\* A command is taken for what it is, or for nothing.
LEMMA CommandDecoded ==
    ASSUME NEW p, Fields(p), p.cmd_resp = TRUE, p.cmd \in {READ, WRITE}, p.addr \in U24,
           NEW data \in Seq(Octet)
    PROVE  LET buf == Package(BuildHdr(p), p.cmd, data)
               q == FromBuffer(buf, Len(buf) + GRESB_HDR_SIZE)
           IN  /\ q = Invalid \/ (q \in RmapPkt /\ q.cmd_resp /\ q.cmd = p.cmd /\ q.addr = p.addr
                                    /\ q.data_len = p.data_len /\ Len(q.data) = q.data_len)
               /\ Len(buf) + GRESB_HDR_SIZE >= 16 + p.data_len => q # Invalid
<1> DEFINE hdr == BuildHdr(p)
           buf == Package(hdr, p.cmd, data)
           q == FromBuffer(buf, Len(buf) + GRESB_HDR_SIZE)
           x == 4 * p.cmd + 64
<1>1. /\ Begins(hdr, p, x) /\ Len(hdr) = 15
      /\ \A i \in 1 .. 4 : hdr[8 + i] = BigEndian(p.addr, 4)[i]
      /\ \A i \in 1 .. 3 : hdr[12 + i] = BigEndian(p.data_len, 3)[i]
  BY CommandHeader
<1> HIDE DEF hdr
<1>2. /\ buf \in Seq(Octet) /\ Len(buf) >= 16 /\ \A i \in 1 .. 15 : buf[i] = hdr[i]
  <2>1. hdr \in Seq(Octet)
    BY <1>1 DEF Begins
  <2>2. /\ buf \in Seq(Octet)
        /\ Len(buf) = Len(hdr) + 1 + Len(data) + (IF HasDataCrc(p.cmd) THEN 1 ELSE 0)
        /\ \A i \in 1 .. Len(hdr) : buf[i] = hdr[i]
    <3>1. Packs(buf, hdr, p.cmd, data)
      BY <2>1, PackageShape
    <3>2. QED BY <3>1 DEF Packs
  <2>3. Len(data) \in Nat
    BY LenProperties
  <2> HIDE DEF buf
  <2>4. QED BY <1>1, <2>2, <2>3
<1> HIDE DEF buf
<1>3. Len(buf) \in Nat
  BY <1>2, LenProperties
<1>4. Begins(buf, p, x)
  <2>1. buf[1] = hdr[1] /\ buf[2] = hdr[2] /\ buf[3] = hdr[3] /\ buf[4] = hdr[4] /\ buf[5] = hdr[5]
    BY <1>2
  <2>2. buf[6] = hdr[6] /\ buf[7] = hdr[7]
    BY <1>2
  <2>3. \A i \in 1 .. 2 : buf[5 + i] = hdr[5 + i]
    BY <2>2
  <2>4. QED BY <1>1, <1>2, <1>3, <2>1, <2>3, SMTT(60) DEF Begins
<1>5. \A i \in 1 .. 4 : buf[8 + i] = BigEndian(p.addr, 4)[i]
  <2> TAKE i \in 1 .. 4
  <2>1. 8 + i \in 1 .. 15
    OBVIOUS
  <2>2. QED BY <1>1, <1>2, <2>1
<1>6. \A i \in 1 .. 3 : buf[12 + i] = BigEndian(p.data_len, 3)[i]
  <2> TAKE i \in 1 .. 3
  <2>1. 12 + i \in 1 .. 15
    OBVIOUS
  <2>2. QED BY <1>1, <1>2, <2>1
<1>7. /\ Octets(buf, 2, 1)[1] = x /\ Octets(buf, 1, 1) = <<RMAP_PROTOCOL_ID>>
      /\ buf[1] = p.dst /\ buf[4] = p.key /\ buf[5] = p.src
      /\ FromBigEndian(Octets(buf, 5, 2)) = p.tr_id
  BY <1>2, <1>4, BeginningDecoded, SMTT(60)
<1>8. FromBigEndian(Octets(buf, 8, 4)) = p.addr
  <2> DEFINE w == 4
             i == 8
  <2>1. w \in 2 .. 4 /\ i \in Nat /\ i + w <= Len(buf) /\ ~(w = 2)
        /\ \A j \in 1 .. w : buf[i + j] = BigEndian(p.addr, w)[j]
    BY <1>2, <1>3, <1>5
  <2> HIDE DEF w, i
  <2>2. FromBigEndian(Octets(buf, i, w)) = p.addr
    BY <1>2, <2>1, NumberAt, ThreeOctets
  <2>3. QED BY <2>2 DEF w, i
<1>9. FromBigEndian(Octets(buf, 8 + 4, 3)) = p.data_len
  <2> DEFINE w == 3
             i == 8 + 4
  <2>1. w \in 2 .. 4 /\ i \in Nat /\ i + w <= Len(buf) /\ ~(w = 2)
        /\ \A j \in 1 .. w : buf[i + j] = BigEndian(p.data_len, w)[j]
    BY <1>2, <1>3, <1>6
  <2>2. p.data_len \in U24 /\ p.data_len \in Nat
    BY ThreeOctets DEF Fields
  <2> HIDE DEF w, i
  <2>3. FromBigEndian(Octets(buf, i, w)) = p.data_len
    BY <1>2, <2>1, <2>2, NumberAt
  <2>4. QED BY <2>3 DEF w, i
<1>10. (x \div 64) % 2 = 1 /\ (x \div 4) % 16 = p.cmd /\ x % 4 = 0
  BY Instruction
<1>q. q = Direct(buf, Len(buf) + GRESB_HDR_SIZE)
  <2>1. Len(buf) >= 7
    BY <1>2, <1>3
  <2>2. QED BY <1>2, <1>7, <1>10, <2>1, NoPath
<1> DEFINE d == Octets(buf, 12 + 4, p.data_len)
           record == [cmd_resp |-> TRUE, cmd |-> p.cmd, dst |-> p.dst, key |-> p.key, src |-> p.src,
                      tr_id |-> p.tr_id, addr |-> p.addr, data_len |-> p.data_len, data |-> d]
<1>11. record \in RmapPkt /\ Len(d) = p.data_len
  <2>1. p.data_len \in Nat
    BY ThreeOctets DEF Fields
  <2>2. d \in Seq(Octet) /\ Len(d) = p.data_len
    <3>1. \A i \in Nat : Cuts(Octets(buf, i, p.data_len), buf, i, p.data_len)
      BY <1>2, <2>1, OctetsShape
    <3>2. Cuts(d, buf, 12 + 4, p.data_len)
      BY <3>1
    <3>3. QED BY <3>2 DEF Cuts
  <2> HIDE DEF d
  <2>3. QED BY <2>2 DEF RmapPkt, Fields, U16
<1> HIDE DEF x, d
<1>12. q = Invalid \/ q = record
  BY <1>7, <1>8, <1>9, <1>10, <1>q DEF Direct, d
<1>13. Len(buf) + GRESB_HDR_SIZE >= 16 + p.data_len => q # Invalid
  <2>1. Invalid # record
    BY DEF Invalid, READ, WRITE
  <2>2. MinHdrSize(p.cmd, TRUE) = 15
    BY Minimum
  <2>3. ASSUME Len(buf) + 4 >= 16 + p.data_len
        PROVE  /\ ~(Len(buf) + 4 < 7) /\ ~(15 < 0) /\ ~(Len(buf) + 4 < 15)
               /\ ~(Len(buf) + 4 < 12 + 4 + p.data_len)
    <3>1. p.data_len \in Nat
      BY ThreeOctets DEF Fields
    <3>2. \A l, n \in Nat : l >= 16 /\ l + 4 >= 16 + n
            => ~(l + 4 < 7) /\ ~(15 < 0) /\ ~(l + 4 < 15) /\ ~(l + 4 < 12 + 4 + n)
      OBVIOUS
    <3>3. Len(buf) >= 16
      BY <1>2
    <3>4. QED BY <1>3, <2>3, <3>1, <3>2, <3>3
  <2>4. Len(buf) + 4 >= 16 + p.data_len => q = record
    BY <1>7, <1>8, <1>9, <1>10, <1>q, <2>2, <2>3, Zenon DEF Direct, d, GRESB_HDR_SIZE
  <2>5. QED BY <2>1, <2>4 DEF GRESB_HDR_SIZE
<1>14. QED BY <1>11, <1>12, <1>13 DEF q, buf, hdr

\* A reply as the simulator builds it: what it carries is what was read.
Reply == {r \in RmapPkt : /\ r.cmd_resp = FALSE /\ r.addr = 0 /\ r.data_len = Len(r.data)
                          /\ r.data_len + 17 \in U24
                          /\ r.cmd = WRITE => r.data = <<>>}

ReplyPackage(r) == Package(BuildHdr(r), r.cmd, r.data)

LEMMA SameSequence ==
    ASSUME NEW s \in Seq(Octet), NEW t \in Seq(Octet), Len(s) = Len(t),
           \A i \in 1 .. Len(s) : s[i] = t[i]
    PROVE  s = t
<1>1. s \in [1 .. Len(s) -> Octet] /\ t \in [1 .. Len(t) -> Octet]
  BY LenProperties
<1>2. QED BY <1>1

LEMMA NineFits == 9 \in U24
<1>1. \A k \in Nat : k > 0 => 9 \in 0 .. (k * 256) - 1
  OBVIOUS
<1>2. 256 * 256 \in Nat /\ 256 * 256 > 0
  OBVIOUS
<1>3. QED BY <1>1, <1>2, Zenon DEF U24

\* Every reply that can be built is decoded to what it was built from.
LEMMA ReplyDecoded ==
    ASSUME NEW r \in Reply
    PROVE  /\ FromBuffer(ReplyPackage(r), Len(ReplyPackage(r)) + GRESB_HDR_SIZE) = r
           /\ ReplyPackage(r) \in Seq(Octet) /\ Len(ReplyPackage(r)) \in U24
           /\ Len(ReplyPackage(r)) >= 8 /\ ReplyPackage(r)[2] = RMAP_PROTOCOL_ID
<1> DEFINE hdr == BuildHdr(r)
           buf == ReplyPackage(r)
           x == 4 * r.cmd
<1>1. /\ r \in RmapPkt /\ r.cmd_resp = FALSE /\ r.addr = 0 /\ r.data_len = Len(r.data)
      /\ r.data_len + 17 \in U24 /\ (r.cmd = WRITE => r.data = <<>>)
  BY DEF Reply
<1>2. /\ r.data \in Seq(Octet) /\ r.data_len \in U24 /\ r.cmd \in {READ, WRITE}
      /\ r.dst \in Octet /\ r.key \in Octet /\ r.src \in Octet /\ r.tr_id \in U16
      /\ r = [cmd_resp |-> r.cmd_resp, cmd |-> r.cmd, dst |-> r.dst, key |-> r.key, src |-> r.src,
              tr_id |-> r.tr_id, addr |-> r.addr, data_len |-> r.data_len, data |-> r.data]
  BY <1>1 DEF RmapPkt
<1>3. Fields(r)
  BY <1>2 DEF Fields, U16, READ, WRITE
<1>4. r.data_len \in Nat /\ Len(r.data) \in Nat
  BY <1>1, <1>2, LenProperties
<1>5. /\ Begins(hdr, r, x) /\ (r.cmd = WRITE => Len(hdr) = 7)
      /\ r.cmd = READ => /\ Len(hdr) = 11
                         /\ \A i \in 1 .. 3 : hdr[8 + i] = BigEndian(r.data_len, 3)[i]
  BY <1>1, <1>2, <1>3, ReplyHeader
<1> HIDE DEF hdr
<1>6. hdr \in Seq(Octet)
  BY <1>5 DEF Begins
<1>7. Packs(buf, hdr, r.cmd, r.data)
  BY <1>2, <1>6, PackageShape DEF ReplyPackage, hdr
<1> HIDE DEF buf
<1>8. /\ buf \in Seq(Octet)
      /\ Len(buf) = Len(hdr) + 1 + r.data_len + (IF HasDataCrc(r.cmd) THEN 1 ELSE 0)
      /\ \A i \in 1 .. Len(hdr) : buf[i] = hdr[i]
      /\ \A i \in 1 .. r.data_len : buf[Len(hdr) + 1 + i] = r.data[i]
  BY <1>1, <1>7 DEF Packs
<1>9. Len(hdr) >= 7 /\ Len(hdr) \in Nat /\ Len(buf) \in Nat
  BY <1>5, <1>6, <1>8, LenProperties DEF Begins
<1>10. Begins(buf, r, x)
  <2>1. Len(buf) >= Len(hdr)
    BY <1>4, <1>8, <1>9
  <2>2. buf[1] = hdr[1] /\ buf[2] = hdr[2] /\ buf[3] = hdr[3] /\ buf[4] = hdr[4] /\ buf[5] = hdr[5]
    BY <1>8, <1>9
  <2>3. buf[6] = hdr[6] /\ buf[7] = hdr[7]
    BY <1>8, <1>9
  <2>4. \A i \in 1 .. 2 : buf[5 + i] = hdr[5 + i]
    BY <2>3
  <2>5. QED BY <1>5, <1>8, <1>9, <2>1, <2>2, <2>4 DEF Begins
<1>11. /\ Octets(buf, 2, 1)[1] = x /\ Octets(buf, 1, 1) = <<RMAP_PROTOCOL_ID>>
       /\ buf[1] = r.dst /\ buf[4] = r.key /\ buf[5] = r.src
       /\ FromBigEndian(Octets(buf, 5, 2)) = r.tr_id
  BY <1>3, <1>8, <1>10, BeginningDecoded
<1>12. (x \div 64) % 2 # 1 /\ (x \div 4) % 16 = r.cmd /\ x % 4 = 0
  BY <1>2, Instruction
<1>13. READ # WRITE
  BY Minimum
<1> DEFINE d == Octets(buf, 12 + 0, r.data_len)
           q == FromBuffer(buf, Len(buf) + GRESB_HDR_SIZE)
<1>14. d \in Seq(Octet) /\ Len(d) = r.data_len
       /\ \A j \in 1 .. r.data_len : 12 + j <= Len(buf) => d[j] = buf[12 + j]
  <2>1. \A i \in Nat : Cuts(Octets(buf, i, r.data_len), buf, i, r.data_len)
    BY <1>4, <1>8, OctetsShape
  <2>2. Cuts(d, buf, 12 + 0, r.data_len)
    BY <2>1
  <2>3. \A j \in 1 .. r.data_len : 12 + 0 + j = 12 + j
    OBVIOUS
  <2> HIDE DEF d
  <2>4. QED BY <2>2, <2>3 DEF Cuts
<1>q. q = Direct(buf, Len(buf) + GRESB_HDR_SIZE)
  <2>1. Len(buf) >= 7
    BY <1>10 DEF Begins
  <2>2. QED BY <1>8, <1>11, <1>12, <2>1, NoPath
<1> HIDE DEF x, d, q
<1>15. d = r.data
  <2>1. CASE r.cmd = WRITE
    <3>1. r.data_len = 0
      BY <1>1, <2>1
    <3>2. d = <<>>
      BY <1>14, <3>1, EmptySeq
    <3>3. QED BY <1>1, <2>1, <3>2
  <2>2. CASE r.cmd = READ
    <3>1. Len(hdr) = 11 /\ Len(buf) = 12 + r.data_len
      <4>1. Len(hdr) = 11 /\ ~HasDataCrc(r.cmd)
        BY <1>5, <2>2, Minimum
      <4>2. QED BY <1>4, <1>8, <4>1
    <3>2. \A j \in 1 .. r.data_len : d[j] = r.data[j]
      BY <1>4, <1>8, <1>9, <1>14, <3>1
    <3>3. QED BY <1>1, <1>2, <1>14, <3>2, SameSequence
  <2>3. QED BY <1>2, <2>1, <2>2
<1>16. CASE r.cmd = WRITE
  <2>1. r.data_len = 0 /\ Len(buf) = 9
    <3>1. r.data_len = 0 /\ HasDataCrc(r.cmd) /\ Len(hdr) = 7
      BY <1>1, <1>5, <1>16, Minimum
    <3>2. QED BY <1>8, <3>1
  <2>2. MinHdrSize(r.cmd, FALSE) = 7 /\ Writes(r.cmd)
    BY <1>16, Minimum
  <2>3. q = [cmd_resp |-> FALSE, cmd |-> r.cmd, dst |-> r.dst, key |-> r.key, src |-> r.src,
             tr_id |-> r.tr_id, addr |-> 0, data_len |-> 0, data |-> Octets(buf, 12 + 0, 0)]
    <3>1. ~(9 + 4 < 7) /\ ~(7 < 0) /\ ~(0 > 0)
      OBVIOUS
    <3>2. QED BY <1>11, <1>12, <2>1, <2>2, <3>1, <1>q, Zenon DEF Direct, GRESB_HDR_SIZE
  <2>4. Octets(buf, 12 + 0, 0) = r.data
    BY <1>15, <2>1 DEF d
  <2>5. q = r
    BY <1>1, <1>2, <2>1, <2>3, <2>4, Zenon
  <2>6. Len(buf) \in U24
    BY <2>1, NineFits
  <2>7. buf[2] = RMAP_PROTOCOL_ID
    BY <1>10 DEF Begins
  <2>8. Len(buf) >= 8
    BY <2>1
  <2>9. QED BY <1>8, <2>5, <2>6, <2>7, <2>8, Zenon DEF q, buf
<1>17. CASE r.cmd = READ
  <2>1. ~HasDataCrc(r.cmd) /\ Len(hdr) = 11
    BY <1>5, <1>17, Minimum
  <2>2. Len(buf) = 12 + r.data_len
    BY <1>4, <1>8, <2>1
  <2>3. MinHdrSize(r.cmd, FALSE) = 11 /\ ~Writes(r.cmd)
    BY <1>17, Minimum
  <2>4. FromBigEndian(Octets(buf, 8 + 0, 3)) = r.data_len
    <3> DEFINE w == 3
               i == 8 + 0
    <3>1. \A j \in 1 .. 3 : buf[8 + j] = hdr[8 + j]
      BY <1>8, <2>1
    <3>2. w \in 2 .. 4 /\ i \in Nat /\ i + w <= Len(buf) /\ ~(w = 2)
          /\ \A j \in 1 .. w : buf[i + j] = BigEndian(r.data_len, w)[j]
      BY <1>4, <1>5, <1>17, <2>2, <3>1
    <3> HIDE DEF w, i
    <3>3. FromBigEndian(Octets(buf, i, w)) = r.data_len
      BY <1>2, <1>4, <1>8, <3>2, NumberAt
    <3>4. QED BY <3>3 DEF w, i
  <2>5. q = [cmd_resp |-> FALSE, cmd |-> r.cmd, dst |-> r.dst, key |-> r.key, src |-> r.src,
             tr_id |-> r.tr_id, addr |-> 0, data_len |-> r.data_len, data |-> d]
    <3>1. ~(Len(buf) + 4 < 7) /\ ~(Len(buf) + 4 < 11) /\ ~(Len(buf) + 4 < 12 + 0 + r.data_len)
          /\ ~(11 < 0)
      BY <1>4, <2>2
    <3>2. QED BY <1>11, <1>12, <2>3, <2>4, <3>1, <1>q, Zenon DEF Direct, d, GRESB_HDR_SIZE
  <2>6. q = r
    BY <1>1, <1>2, <1>15, <2>5, Zenon
  <2>7. Len(buf) \in U24
    <3>1. \A n \in Nat : \A k \in Int : n + 17 \in 0 .. k => 12 + n \in 0 .. k
      OBVIOUS
    <3>2. r.data_len + 17 \in 0 .. (256 * 256 * 256) - 1
      BY <1>1, Zenon DEF U24
    <3>3. (256 * 256 * 256) - 1 \in Int
      OBVIOUS
    <3>4. 12 + r.data_len \in 0 .. (256 * 256 * 256) - 1
      BY <1>4, <3>1, <3>2, <3>3, Zenon
    <3>5. QED BY <2>2, <3>4, Zenon DEF U24
  <2>8. buf[2] = RMAP_PROTOCOL_ID
    BY <1>10 DEF Begins
  <2>9. Len(buf) >= 8
    BY <1>4, <2>2
  <2>10. QED BY <1>8, <2>6, <2>7, <2>8, <2>9, Zenon DEF q, buf
<1>18. QED BY <1>2, <1>16, <1>17

-----------------------------------------------------------------------------
(* The inductive invariant.                                                *)

\* Steps of the procedures that transfer something, and the frames that
\* carry their commands.
Transfer == {step \in UNION {Range(q) : q \in Procedures} : Transfers(step)}

Commands == {Command(step, id) : step \in Transfer, id \in Slots}

\* A read is of a register or of a word.
SmallReads == \A step \in Transfer : step.op = "read" => step.size <= 4

\* A command as the simulator keeps it while it builds the reply.
Accepted == {p \in RmapPkt : /\ p.addr \in Addresses /\ p.data_len + 17 \in U24
                             /\ p.cmd = READ => p.data_len <= Len(Initial)}

TypeInv ==
    /\ pc \in {"next", "rmap", "read", "drain", "crashed"} /\ slot \in Slots \cup {-1}
    /\ size \in Nat /\ block \in Seq(Octet) /\ lead \in Nat /\ missed \in Nat
    /\ taken \in Nat /\ taken <= arrived
    /\ tries \in 0 .. MaxTries /\ pending \subseteq Slots
    /\ fee.pc \in {"rx", "reply"} /\ trigger \in BOOLEAN /\ alive \in BOOLEAN
    /\ fee.pc = "reply" => fee.pkt \in Accepted
    /\ up \in Seq(Commands)
    /\ mem \in [Addresses -> Seq(Octet)] /\ \A a \in Addresses : Len(mem[a]) >= Len(Initial)
    /\ down \in Seq(Octet) /\ arrived \in 0 .. Len(down)
    /\ replies \in Seq(Reply) /\ made \in Nat

\* What is left of a procedure after k steps, and the places of the
\* transfers in it.
Rest(q, k) == [i \in 1 .. Len(q) - k |-> q[k + i]]
Due(q, k) == {i \in DOMAIN q : i > k /\ Transfers(q[i])}

\* The log has a slot for every transfer that is left.
Within(q, k) ==
    /\ todo = Rest(q, k)
    /\ pc \notin {"next", "crashed"} => k < Len(q)
    /\ slot # -1 => pc \in {"rmap", "read", "crashed"} /\ Transfers(q[k + 1])
    /\ Cardinality(pending) + Cardinality(Due(q, k))
         <= Cardinality(Slots) + (IF slot = -1 THEN 0 ELSE 1)

ProcedureInv == \E q \in Procedures : \E k \in 0 .. Len(q) : Within(q, k)

\* Octets f stand in d behind the first a.
Holds(d, a, f) == a + Len(f) <= Len(d) /\ \A i \in 1 .. Len(f) : d[a + i] = f[i]

\* The stream is one frame after the other: at each end of one begins a
\* reply's or a data packet's, whose turn it is, or nothing follows.
Mark(at, r, d) == [at |-> at, replies |-> r, data |-> d]
EndOfStream == Mark(Len(down), Len(replies), made)

NextReply(m) == ReplyPackage(replies[m.replies + 1])
NextData(m) == DataPacket(m.data + 1)

ReplyNext(m) ==
    /\ m.replies < Len(replies) /\ Holds(down, m.at, Frame(NextReply(m)))
    /\ Mark(m.at + Len(NextReply(m)) + 4, m.replies + 1, m.data) \in ends

DataNext(m) ==
    /\ m.data < made /\ Holds(down, m.at, Frame(NextData(m)))
    /\ Mark(m.at + Len(NextData(m)) + 4, m.replies, m.data + 1) \in ends

Marks == [at : Nat, replies : Nat, data : Nat]

StreamInv ==
    /\ ends \subseteq Marks /\ EndOfStream \in ends
    /\ \A m \in ends : m.at <= Len(down) /\ (m = EndOfStream \/ ReplyNext(m) \/ DataNext(m))

\* The client has what lies in front of one of these ends, and reads the
\* frame behind it: as long as no piece was late.
Got(m) ==
    /\ gotReplies \in Seq(Reply) /\ Len(gotReplies) = m.replies /\ m.replies <= Len(replies)
    /\ \A i \in 1 .. m.replies : gotReplies[i] = replies[i]
    /\ gotData \in Seq(Seq(Octet)) /\ Len(gotData) = m.data /\ m.data <= made
    /\ \A i \in 1 .. m.data : gotData[i] = DataPacket(i)

\* Of the frame behind m it has what is in its block.
Holding(m) ==
    /\ lead = 0 /\ taken = m.at + Len(block)
    /\ \A i \in 1 .. Len(block) : block[i] = down[m.at + i]
    /\ pc \notin {"read", "drain"} => block = <<>>

At(m) ==
    /\ Got(m) /\ Holding(m)
    /\ pc = "read" => ReplyNext(m) /\ size = Len(NextReply(m))
    /\ pc = "drain" => DataNext(m) /\ size = Len(NextData(m))

ClientInv == missed = 0 => \E m \in ends : At(m)

IInv == TypeInv /\ ProcedureInv /\ StreamInv /\ ClientInv

-----------------------------------------------------------------------------
(* What is read from the stream, and what the simulator makes of a frame.   *)

LEMMA DataPacketShape ==
    ASSUME NEW n \in Nat
    PROVE  /\ DataPacket(n) \in Seq(Octet) /\ Len(DataPacket(n)) = 4
           /\ DataPacket(n)[2] = FEE_DATA_PROTOCOL /\ 4 \in U24
<1> DEFINE a == <<ICU, FEE_DATA_PROTOCOL>>
           b == BigEndian(n, 2)
           s == DataPacket(n)
<1>1. a \in Seq(Octet) /\ Len(a) = 2 /\ a[2] = FEE_DATA_PROTOCOL
  BY DEF ICU, FEE_DATA_PROTOCOL, Octet
<1>2. b \in Seq(Octet) /\ Len(b) = 2
  BY BigEndianShape
<1>3. s = a \o b
  BY DEF DataPacket
<1> HIDE DEF a, b, s
<1>4. Joins(s, a, b)
  BY <1>1, <1>2, <1>3, Joined
<1>5. s \in Seq(Octet) /\ Len(s) = 4 /\ s[2] = FEE_DATA_PROTOCOL
  BY <1>1, <1>2, <1>4 DEF Joins
<1>6. 4 \in U24
  <2>1. \A k \in Nat : k > 0 => 4 \in 0 .. (k * 256) - 1
    OBVIOUS
  <2>2. 256 * 256 \in Nat /\ 256 * 256 > 0
    OBVIOUS
  <2>3. QED BY <2>1, <2>2, Zenon DEF U24
<1>7. QED BY <1>5, <1>6 DEF s

\* Three octets in front say how long a packet is.
LEMMA SizeDecoded ==
    ASSUME NEW h, NEW p \in Seq(Octet), Len(p) \in U24, h \in Seq(Octet), Len(h) >= 4,
           \A i \in 1 .. 3 : h[1 + i] = BigEndian(Len(p), 3)[i]
    PROVE  FrameSize(h) = Len(p)
<1> DEFINE s == SubSeq(h, 2, 4)
           w == 3
<1>1. Len(h) \in Nat /\ Len(p) \in Nat
  BY LenProperties
<1>2. Len(s) = 3 /\ s[1] = h[2] /\ s[2] = h[3] /\ s[3] = h[4]
  BY <1>1
<1>3. w \in 2 .. 4 /\ Len(s) = w /\ ~(w = 2) /\ \A i \in 1 .. w : s[i] = BigEndian(Len(p), w)[i]
  BY <1>2
<1> HIDE DEF w, s
<1>4. FromBigEndian(s) = Len(p)
  BY <1>1, <1>3, Decoded
<1>5. QED BY <1>4 DEF s, FrameSize

\* What the callbacks make of a frame in the stream.
LEMMA FrameRead ==
    ASSUME NEW d \in Seq(Octet), NEW a \in Nat, NEW p \in Seq(Octet), Len(p) \in U24, Len(p) >= 2,
           Holds(d, a, Frame(p))
    PROVE  /\ Octets(d, a, 6)[6] = p[2] /\ FrameSize(Octets(d, a, 6)) = Len(p)
           /\ Octets(d, a + 4, Len(p)) = p
           /\ a + 4 + Len(p) <= Len(d)
<1> DEFINE f == Frame(p)
           h == Octets(d, a, 6)
           o == Octets(d, a + 4, Len(p))
<1>1. Len(p) \in Nat /\ Len(d) \in Nat
  BY LenProperties
<1>2. Frames(f, p)
  BY FrameShape
<1> HIDE DEF f
<1>3. /\ f \in Seq(Octet) /\ Len(f) = Len(p) + 4
      /\ \A i \in 1 .. 3 : f[1 + i] = BigEndian(Len(p), 3)[i]
      /\ \A i \in 1 .. Len(p) : f[4 + i] = p[i]
  BY <1>2 DEF Frames
<1>4. a + Len(f) <= Len(d) /\ \A i \in 1 .. Len(f) : d[a + i] = f[i]
  BY DEF Holds, f
<1>5. Cuts(h, d, a, 6)
  <2>1. \A n \in Nat : Cuts(Octets(d, a, n), d, a, n)
    BY OctetsShape
  <2>2. QED BY <2>1
<1>6. Cuts(o, d, a + 4, Len(p))
  <2>1. a + 4 \in Nat
    OBVIOUS
  <2>2. QED BY <1>1, <2>1, OctetsShape
<1> HIDE DEF h, o
<1>7. h \in Seq(Octet) /\ Len(h) = 6 /\ \A j \in 1 .. 6 : a + j <= Len(d) => h[j] = d[a + j]
  BY <1>5 DEF Cuts
<1>8. \A j \in 1 .. 6 : h[j] = f[j]
  <2> TAKE j \in 1 .. 6
  <2>1. j \in 1 .. Len(f) /\ a + j <= Len(d)
    BY <1>1, <1>3, <1>4
  <2>2. QED BY <1>4, <1>7, <2>1
<1>9. h[6] = p[2]
  <2>1. f[4 + 2] = p[2]
    BY <1>1, <1>3
  <2>2. QED BY <1>8, <2>1
<1>10. FrameSize(h) = Len(p)
  <2>1. \A i \in 1 .. 3 : h[1 + i] = BigEndian(Len(p), 3)[i]
    <3> TAKE i \in 1 .. 3
    <3>1. 1 + i \in 1 .. 6
      OBVIOUS
    <3>2. QED BY <1>3, <1>8, <3>1
  <2>2. h \in Seq(Octet) /\ Len(h) >= 4
    BY <1>7
  <2>3. QED BY <2>1, <2>2, SizeDecoded
<1>11. o = p
  <2>1. o \in Seq(Octet) /\ Len(o) = Len(p)
        /\ \A j \in 1 .. Len(p) : a + 4 + j <= Len(d) => o[j] = d[a + 4 + j]
    BY <1>6 DEF Cuts
  <2>2. \A j \in 1 .. Len(p) : o[j] = p[j]
    <3> TAKE j \in 1 .. Len(p)
    <3>1. 4 + j \in 1 .. Len(f) /\ a + 4 + j <= Len(d) /\ a + 4 + j = a + (4 + j)
      BY <1>1, <1>3, <1>4
    <3>2. d[a + (4 + j)] = f[4 + j]
      BY <1>4, <3>1
    <3>3. QED BY <1>3, <2>1, <3>1, <3>2
  <2>3. QED BY <2>1, <2>2, SameSequence
<1>12. a + 4 + Len(p) <= Len(d)
  BY <1>1, <1>3, <1>4
<1>13. QED BY <1>9, <1>10, <1>11, <1>12 DEF h, o

\* What is in the stream stays there, and what is appended stands at its end.
LEMMA HoldsStill ==
    ASSUME NEW d \in Seq(Octet), NEW g \in Seq(Octet)
    PROVE  /\ d \o g \in Seq(Octet) /\ Len(d \o g) = Len(d) + Len(g)
           /\ Holds(d \o g, Len(d), g)
           /\ \A a \in Nat : \A f \in Seq(Octet) : Holds(d, a, f) => Holds(d \o g, a, f)
<1> DEFINE s == d \o g
<1>1. Len(d) \in Nat /\ Len(g) \in Nat
  BY LenProperties
<1>2. Joins(s, d, g)
  BY Joined
<1> HIDE DEF s
<1>3. /\ s \in Seq(Octet) /\ Len(s) = Len(d) + Len(g)
      /\ \A i \in 1 .. Len(d) : s[i] = d[i]
      /\ \A i \in 1 .. Len(g) : s[Len(d) + i] = g[i]
  BY <1>2 DEF Joins
<1>4. Holds(s, Len(d), g)
  BY <1>1, <1>3 DEF Holds
<1>5. ASSUME NEW a \in Nat, NEW f \in Seq(Octet), Holds(d, a, f) PROVE Holds(s, a, f)
  <2>1. Len(f) \in Nat
    BY LenProperties
  <2>2. a + Len(f) <= Len(d) /\ \A i \in 1 .. Len(f) : d[a + i] = f[i]
    BY <1>5 DEF Holds
  <2>3. \A i \in 1 .. Len(f) : a + i \in 1 .. Len(d)
    BY <1>1, <2>1, <2>2
  <2>4. QED BY <1>1, <1>3, <2>1, <2>2, <2>3 DEF Holds
<1>6. QED BY <1>3, <1>4, <1>5 DEF s

\* What the assumption says of the steps that transfer something.
LEMMA TransferShape ==
    ASSUME NEW st \in Transfer
    PROVE  /\ st \in Step /\ st.addr \in Addresses /\ st.op \in {"read", "write"}
           /\ st.size + 17 \in U24 /\ Mapped(st.addr, st.size)
           /\ st.op = "read" => st.data = <<>> /\ st.size <= Len(Initial)
           /\ st.op = "write" => st.size = Len(st.data)
<1>1. PICK q \in Procedures : (\E i \in DOMAIN q : st = q[i]) /\ Transfers(st)
  BY DEF Transfer, Range
<1>2. st \in Step
  <2>1. q \in Seq(Step)
    BY FeeLinkAssumption
  <2>2. QED BY <1>1, <2>1, ElementOfSeq, LenProperties
<1>3. st.addr \in Addresses
  BY <1>1 DEF Addresses, Range
<1>4. QED BY <1>1, <1>2, <1>3, FeeLinkAssumption DEF Transfers

\* Less than what fits fits.
LEMMA Fits ==
    ASSUME NEW n \in Nat, NEW k \in Nat, k <= 17, n + 17 \in U24
    PROVE  n + k \in U24
<1>1. \A m \in Int : n + 17 \in 0 .. m => n + k \in 0 .. m
  OBVIOUS
<1>2. (256 * 256 * 256) - 1 \in Int
  OBVIOUS
<1>3. QED BY <1>1, <1>2, Zenon DEF U24

\* What the simulator makes of a command's frame.
LEMMA Understood ==
    ASSUME NEW frame \in Commands
    PROVE  LET buf == SubSeq(frame, GRESB_HDR_SIZE + 1, Len(frame))
               pkt == FromBuffer(buf, FrameSize(frame) + GRESB_HDR_SIZE)
           IN  /\ pkt = Invalid \/ (pkt \in Accepted /\ Len(pkt.data) = pkt.data_len)
               /\ SmallReads => pkt # Invalid /\ Mapped(pkt.addr, pkt.data_len)
<1> DEFINE buf == SubSeq(frame, GRESB_HDR_SIZE + 1, Len(frame))
           pkt == FromBuffer(buf, FrameSize(frame) + GRESB_HDR_SIZE)
<1>1. PICK st \in Transfer, id \in Slots : frame = Command(st, id)
  BY DEF Commands
<1> DEFINE cmd == IF st.op = "read" THEN READ ELSE WRITE
           p == [cmd_resp |-> TRUE, cmd |-> cmd, dst |-> FEE, key |-> 0, src |-> ICU, tr_id |-> id,
                 addr |-> st.addr, data_len |-> st.size]
           hdr == BuildHdr(p)
           pack == Package(hdr, cmd, st.data)
<1>2. frame = Frame(pack)
  BY <1>1 DEF Command
<1>3. /\ st \in Step /\ st.addr \in Addresses /\ st.op \in {"read", "write"}
      /\ st.size + 17 \in U24 /\ Mapped(st.addr, st.size)
      /\ (st.op = "read" => st.data = <<>> /\ st.size <= Len(Initial))
      /\ (st.op = "write" => st.size = Len(st.data))
  BY TransferShape
<1>4. st.addr \in U24 /\ st.size \in Nat /\ st.data \in Seq(Octet) /\ Len(st.data) \in Nat
  <2>1. st.addr \in U24 /\ st.size \in Nat /\ st.data \in Seq(Octet)
    BY <1>3 DEF Step
  <2>2. QED BY <2>1, LenProperties
<1>5. st.size \in U24 /\ st.size + 16 \in U24
  <2>1. st.size + 0 \in U24 /\ st.size + 16 \in U24
    <3>1. \A k \in 0 .. 17 : st.size + k \in U24
      BY <1>3, <1>4, Fits
    <3>2. QED BY <3>1
  <2>2. st.size + 0 = st.size
    BY <1>4
  <2>3. QED BY <2>1, <2>2
<1>6. id \in 0 .. 63
  BY FeeLinkAssumption
<1>7. cmd \in {READ, WRITE} /\ cmd \in 0 .. 15 /\ (cmd = READ => st.op = "read")
      /\ (cmd = WRITE => st.op = "write")
  BY <1>3 DEF READ, WRITE
<1> HIDE DEF cmd
<1>8. p.cmd_resp = TRUE /\ p.cmd = cmd /\ p.addr = st.addr /\ p.data_len = st.size
      /\ p.dst = FEE /\ p.key = 0 /\ p.src = ICU /\ p.tr_id = id
  OBVIOUS
<1> HIDE DEF p
<1>9. Fields(p)
  BY <1>5, <1>6, <1>7, <1>8 DEF Fields, FEE, ICU, Octet
<1>10. Begins(hdr, p, 4 * p.cmd + 64) /\ Len(hdr) = 15
  BY <1>4, <1>8, <1>9, CommandHeader, Zenon
<1> DEFINE q == FromBuffer(pack, Len(pack) + GRESB_HDR_SIZE)
<1>11. (q = Invalid \/ (q \in RmapPkt /\ q.cmd_resp /\ q.cmd = p.cmd /\ q.addr = p.addr
                          /\ q.data_len = p.data_len /\ Len(q.data) = q.data_len))
       /\ (Len(pack) + GRESB_HDR_SIZE >= 16 + p.data_len => q # Invalid)
  BY <1>4, <1>7, <1>8, <1>9, CommandDecoded, Zenon
<1> HIDE DEF hdr
<1>12. Packs(pack, hdr, cmd, st.data)
  <2>1. hdr \in Seq(Octet)
    BY <1>10 DEF Begins
  <2>2. QED BY <1>4, <2>1, PackageShape
<1> HIDE DEF pack, q
<1>13. pack \in Seq(Octet)
       /\ Len(pack) = 15 + 1 + Len(st.data) + (IF HasDataCrc(cmd) THEN 1 ELSE 0)
  BY <1>10, <1>12 DEF Packs
<1>14. Len(pack) \in U24
  <2>1. CASE cmd = READ
    <3>1. Len(st.data) = 0 /\ ~HasDataCrc(cmd)
      BY <1>3, <1>7, <2>1, Minimum
    <3>2. Len(pack) = 16
      BY <1>13, <3>1
    <3>3. 16 \in U24
      <4>1. \A k \in Nat : k > 0 => 16 \in 0 .. (k * 256) - 1
        OBVIOUS
      <4>2. 256 * 256 \in Nat /\ 256 * 256 > 0
        OBVIOUS
      <4>3. QED BY <4>1, <4>2, Zenon DEF U24
    <3>4. QED BY <3>2, <3>3
  <2>2. CASE cmd = WRITE
    <3>1. Len(st.data) = st.size /\ HasDataCrc(cmd)
      BY <1>3, <1>7, <2>2, Minimum
    <3>2. Len(pack) = st.size + 17
      BY <1>4, <1>13, <3>1
    <3>3. QED BY <1>3, <3>2
  <2>3. QED BY <1>7, <2>1, <2>2
<1>15. Frames(frame, pack)
  BY <1>2, <1>13, <1>14, FrameShape
<1>16. /\ frame \in Seq(Octet) /\ Len(frame) = Len(pack) + 4
       /\ \A i \in 1 .. 3 : frame[1 + i] = BigEndian(Len(pack), 3)[i]
       /\ \A i \in 1 .. Len(pack) : frame[4 + i] = pack[i]
  BY <1>15 DEF Frames
<1>17. Len(pack) \in Nat
  BY <1>13, LenProperties
<1>18. FrameSize(frame) = Len(pack)
  <2>1. Len(frame) >= 4
    BY <1>16, <1>17
  <2>2. QED BY <1>13, <1>14, <1>16, <2>1, SizeDecoded
<1>19. buf = pack
  <2>1. GRESB_HDR_SIZE + 1 = 5
    BY DEF GRESB_HDR_SIZE
  <2>2. \A i \in 1 .. Len(frame) : frame[i] \in Octet
    BY <1>16, ElementOfSeq
  <2>3. SubSeq(frame, 5, Len(frame)) = [i \in 1 .. Len(pack) |-> frame[4 + i]]
    BY <1>16, <1>17
  <2>4. pack = [i \in 1 .. Len(pack) |-> pack[i]]
    BY <1>13
  <2>5. [i \in 1 .. Len(pack) |-> frame[4 + i]] = [i \in 1 .. Len(pack) |-> pack[i]]
    BY <1>16
  <2>6. QED BY <2>1, <2>3, <2>4, <2>5
<1>20. pkt = q
  BY <1>18, <1>19 DEF q
<1>21. q # Invalid => q \in Accepted /\ Len(q.data) = q.data_len
  BY <1>3, <1>4, <1>5, <1>7, <1>8, <1>11 DEF Accepted
<1>22. SmallReads => q # Invalid /\ Mapped(q.addr, q.data_len)
  <2>1. SmallReads => Len(pack) + GRESB_HDR_SIZE >= 16 + st.size
    <3>1. CASE cmd = READ
      <4>1. Len(st.data) = 0 /\ ~HasDataCrc(cmd) /\ st.op = "read"
        BY <1>3, <1>7, <3>1, Minimum
      <4>2. SmallReads => st.size <= 4
        BY <4>1 DEF SmallReads
      <4>3. Len(pack) = 16
        BY <1>13, <4>1
      <4>4. QED BY <1>4, <4>2, <4>3 DEF GRESB_HDR_SIZE
    <3>2. CASE cmd = WRITE
      <4>1. Len(st.data) = st.size /\ HasDataCrc(cmd)
        BY <1>3, <1>7, <3>2, Minimum
      <4>2. Len(pack) = st.size + 17
        BY <1>4, <1>13, <4>1
      <4>3. QED BY <1>4, <4>2 DEF GRESB_HDR_SIZE
    <3>3. QED BY <1>7, <3>1, <3>2
  <2>2. SmallReads => q # Invalid
    BY <1>8, <1>11, <2>1
  <2>3. q # Invalid => Mapped(q.addr, q.data_len)
    BY <1>3, <1>8, <1>11
  <2>4. QED BY <2>2, <2>3
<1>23. QED BY <1>20, <1>21, <1>22

-----------------------------------------------------------------------------
(* The procedure and the transaction log.                                  *)

LEMMA AProcedure ==
    ASSUME NEW q \in Procedures
    PROVE  q \in Seq(Step) /\ Len(q) \in Nat /\ DOMAIN q = 1 .. Len(q)
<1>1. q \in Seq(Step)
  BY FeeLinkAssumption
<1>2. QED BY <1>1, LenProperties

LEMMA AsFunction ==
    ASSUME NEW S, NEW s \in Seq(S)
    PROVE  s = [i \in 1 .. Len(s) |-> s[i]]
<1>1. s \in [1 .. Len(s) -> S]
  BY LenProperties
<1>2. QED BY <1>1

LEMMA RestTail ==
    ASSUME NEW q \in Procedures, NEW k \in 0 .. Len(q)
    PROVE  /\ k < Len(q) <=> Rest(q, k) # <<>>
           /\ k < Len(q) => /\ Head(Rest(q, k)) = q[k + 1] /\ k + 1 \in 0 .. Len(q)
                            /\ Tail(Rest(q, k)) = Rest(q, k + 1)
                            /\ q[k + 1] \in UNION {Range(s) : s \in Procedures}
<1> DEFINE n == Len(q) - k
           r == Rest(q, k)
<1>1. q \in Seq(Step) /\ Len(q) \in Nat /\ DOMAIN q = 1 .. Len(q) /\ n \in Nat
  BY AProcedure
<1>2. r = [i \in 1 .. n |-> q[k + i]]
  BY DEF Rest
<1>3. \A i \in 1 .. n : q[k + i] \in Step
  <2>1. \A j \in 1 .. Len(q) : q[j] \in Step
    BY <1>1, ElementOfSeq
  <2>2. QED BY <1>1, <2>1
<1>4. r \in [1 .. n -> Step]
  BY <1>2, <1>3
<1> HIDE DEF r, n
<1>5. r \in Seq(Step) /\ Len(r) = n
  BY <1>1, <1>4, SeqDef
<1>6. r # <<>> <=> n # 0
  BY <1>5, EmptySeq
<1>7. ASSUME k < Len(q)
      PROVE  /\ Head(r) = q[k + 1] /\ k + 1 \in 0 .. Len(q)
             /\ Tail(r) = Rest(q, k + 1)
             /\ q[k + 1] \in UNION {Range(s) : s \in Procedures}
  <2>1. n >= 1 /\ k + 1 \in 1 .. Len(q)
    BY <1>1, <1>7 DEF n
  <2>2. Head(r) = q[k + 1]
    BY <1>2, <1>5, <2>1, HeadTailProperties
  <2>3. Tail(r) = [i \in 1 .. n - 1 |-> q[k + 1 + i]]
    <3>1. Tail(r) = [i \in 1 .. Len(r) - 1 |-> r[i + 1]]
      <4>1. Tail(r) \in Seq(Step) /\ Len(Tail(r)) = Len(r) - 1
            /\ \A i \in 1 .. Len(Tail(r)) : Tail(r)[i] = r[i + 1]
        BY <1>5, <1>6, <2>1, HeadTailProperties
      <4>2. Tail(r) = [i \in 1 .. Len(Tail(r)) |-> Tail(r)[i]]
        BY <4>1, AsFunction
      <4>3. QED BY <4>1, <4>2
    <3>2. \A i \in 1 .. n - 1 : r[i + 1] = q[k + 1 + i]
      <4> TAKE i \in 1 .. n - 1
      <4>1. i + 1 \in 1 .. n /\ k + (i + 1) = k + 1 + i
        BY <1>1
      <4>2. QED BY <1>2, <4>1
    <3>3. QED BY <1>5, <3>1, <3>2
  <2>4. n - 1 = Len(q) - (k + 1)
    BY <1>1 DEF n
  <2>5. q[k + 1] \in Range(q)
    BY <1>1, <2>1 DEF Range
  <2>6. QED BY <2>1, <2>2, <2>3, <2>4, <2>5 DEF Rest
<1>8. k < Len(q) <=> n # 0
  <2>1. k \in Nat /\ k <= Len(q) /\ Len(q) \in Nat
    BY <1>1
  <2>2. QED BY <2>1 DEF n
<1>9. QED BY <1>6, <1>7, <1>8 DEF r

\* With each step there are fewer transfers left.
LEMMA DueShrinks ==
    ASSUME NEW q \in Procedures, NEW k \in 0 .. Len(q)
    PROVE  /\ IsFiniteSet(Due(q, k)) /\ Cardinality(Due(q, k)) \in Nat
           /\ k < Len(q) => /\ Cardinality(Due(q, k + 1)) \in Nat
                            /\ Cardinality(Due(q, k + 1)) <= Cardinality(Due(q, k))
                            /\ Transfers(q[k + 1])
                                 => Cardinality(Due(q, k)) = Cardinality(Due(q, k + 1)) + 1
<1>1. Len(q) \in Nat /\ DOMAIN q = 1 .. Len(q)
  BY AProcedure
<1>2. IsFiniteSet(1 .. Len(q))
  BY <1>1, FS_Interval
<1>3. \A j : IsFiniteSet(Due(q, j)) /\ Cardinality(Due(q, j)) \in Nat
  <2> TAKE j
  <2>1. Due(q, j) \subseteq 1 .. Len(q)
    BY <1>1 DEF Due
  <2>2. QED BY <1>2, <2>1, FS_Subset, FS_CardinalityType
<1>4. ASSUME k < Len(q)
      PROVE  /\ Cardinality(Due(q, k + 1)) <= Cardinality(Due(q, k))
             /\ Transfers(q[k + 1]) => Cardinality(Due(q, k)) = Cardinality(Due(q, k + 1)) + 1
  <2>1. Due(q, k + 1) \subseteq Due(q, k)
    BY <1>1 DEF Due
  <2>2. Cardinality(Due(q, k + 1)) <= Cardinality(Due(q, k))
    BY <1>3, <2>1, FS_Subset
  <2>3. ASSUME Transfers(q[k + 1])
        PROVE  Cardinality(Due(q, k)) = Cardinality(Due(q, k + 1)) + 1
    <3>1. k + 1 \in Due(q, k)
      BY <1>1, <1>4, <2>3 DEF Due
    <3>2. Due(q, k + 1) = Due(q, k) \ {k + 1}
      BY <1>1 DEF Due
    <3>3. Cardinality(Due(q, k + 1)) = Cardinality(Due(q, k)) - 1
      BY <1>3, <3>1, <3>2, FS_RemoveElement
    <3>4. QED BY <1>3, <3>3
  <2>4. QED BY <2>2, <2>3
<1>5. QED BY <1>3, <1>4

LEMMA MinOfSome ==
    ASSUME NEW S \in SUBSET Nat, S # {}
    PROVE  Min(S) \in S /\ \A n \in S : Min(S) <= n
<1>1. PICK m \in S : \A n \in S : ~(<<n, m>> \in OpToRel(<, Nat))
  BY NatLessThanWellFounded, WFMin
<1>2. \A n \in S : ~(n < m)
  BY <1>1 DEF OpToRel
<1>3. m \in S /\ \A n \in S : m <= n
  BY <1>2
<1>4. QED BY <1>3 DEF Min

LEMMA SlotsFinite ==
    /\ \A s \in SUBSET Slots : IsFiniteSet(s) /\ Cardinality(s) \in Nat
                                 /\ Cardinality(s) <= Cardinality(Slots)
    /\ Cardinality(Slots) \in Nat /\ -1 \notin Slots /\ Slots \subseteq 0 .. 63
<1>1. Slots \subseteq 0 .. 63 /\ IsFiniteSet(Slots)
  BY FeeLinkAssumption
<1>2. Cardinality(Slots) \in Nat /\ -1 \notin Slots
  BY <1>1, FS_CardinalityType
<1>3. ASSUME NEW s \in SUBSET Slots
      PROVE  IsFiniteSet(s) /\ Cardinality(s) \in Nat /\ Cardinality(s) <= Cardinality(Slots)
  BY <1>1, FS_Subset, FS_CardinalityType
<1>4. QED BY <1>1, <1>2, <1>3

\* Before a transfer is submitted there is a slot for it, and the smallest
\* one is taken.
LEMMA FreeSlot ==
    ASSUME TypeInv, ProcedureInv, slot = -1, todo # <<>>, Transfers(Head(todo))
    PROVE  Min(Free) \in Free
<1>1. PICK q \in Procedures : \E k \in 0 .. Len(q) : Within(q, k)
  BY DEF ProcedureInv
<1>2. PICK k \in 0 .. Len(q) : Within(q, k)
  BY <1>1
<1>3. k < Len(q) /\ Transfers(q[k + 1])
  BY <1>2, RestTail DEF Within
<1>4. Cardinality(Due(q, k)) >= 1
  <2>1. Cardinality(Due(q, k)) = Cardinality(Due(q, k + 1)) + 1 /\ Cardinality(Due(q, k + 1)) \in Nat
    BY <1>3, DueShrinks
  <2>2. QED BY <2>1
<1>5. Cardinality(pending) + Cardinality(Due(q, k)) <= Cardinality(Slots)
  BY <1>2, SlotsFinite, DueShrinks DEF Within, TypeInv
<1>6. pending # Slots
  BY <1>4, <1>5, SlotsFinite, DueShrinks
<1>7. Free # {} /\ Free \in SUBSET Nat
  <2>1. pending \subseteq Slots
    BY DEF TypeInv
  <2>2. 0 .. 63 \subseteq Nat
    OBVIOUS
  <2>3. QED BY <1>6, <2>1, <2>2, SlotsFinite, Zenon DEF Free
<1>8. QED BY <1>7, MinOfSome

-----------------------------------------------------------------------------
(* The stream.                                                             *)

LEMMA ReplyFrame ==
    ASSUME NEW r \in Reply
    PROVE  Frame(ReplyPackage(r)) \in Seq(Octet)
           /\ Len(Frame(ReplyPackage(r))) = Len(ReplyPackage(r)) + 4
<1>1. ReplyPackage(r) \in Seq(Octet) /\ Len(ReplyPackage(r)) \in U24
  BY ReplyDecoded
<1>2. QED BY <1>1, FrameShape DEF Frames

LEMMA DataFrame ==
    ASSUME NEW n \in Nat
    PROVE  Frame(DataPacket(n)) \in Seq(Octet) /\ Len(Frame(DataPacket(n))) = 8
<1>1. DataPacket(n) \in Seq(Octet) /\ Len(DataPacket(n)) = 4 /\ 4 \in U24
  BY DataPacketShape
<1>2. Frames(Frame(DataPacket(n)), DataPacket(n))
  BY <1>1, FrameShape
<1>3. QED BY <1>1, <1>2 DEF Frames

\* What the simulator appends does not move what is there.
LEMMA StillNext ==
    ASSUME TypeInv, StreamInv, NEW g \in Seq(Octet), down' = down \o g,
           made \in Nat, made' \in Nat, made <= made', ends \subseteq ends',
           Len(replies') \in Nat, Len(replies) <= Len(replies'),
           \A i \in 1 .. Len(replies) : replies'[i] = replies[i],
           NEW m \in ends
    PROVE  /\ ReplyNext(m) => ReplyNext(m)' /\ NextReply(m)' = NextReply(m)
           /\ DataNext(m) => DataNext(m)'
<1>1. down \in Seq(Octet) /\ replies \in Seq(Reply) /\ Len(replies) \in Nat
  BY LenProperties DEF TypeInv
<1>2. m.at \in Nat /\ m.replies \in Nat /\ m.data \in Nat
  BY DEF StreamInv, Marks
<1>3. \A a \in Nat : \A f \in Seq(Octet) : Holds(down, a, f) => Holds(down', a, f)
  BY <1>1, HoldsStill
<1>4. ASSUME ReplyNext(m) PROVE ReplyNext(m)' /\ NextReply(m)' = NextReply(m)
  <2>1. m.replies + 1 \in 1 .. Len(replies) /\ m.replies < Len(replies')
    BY <1>1, <1>2, <1>4, SMTT(60) DEF ReplyNext
  <2>2. replies[m.replies + 1] \in Reply /\ replies'[m.replies + 1] = replies[m.replies + 1]
    BY <1>1, <2>1, ElementOfSeq
  <2>3. NextReply(m)' = NextReply(m)
    BY <2>2 DEF NextReply
  <2>4. Frame(NextReply(m)) \in Seq(Octet)
    BY <2>2, ReplyFrame DEF NextReply
  <2>5. Holds(down', m.at, Frame(NextReply(m)))
    BY <1>2, <1>3, <1>4, <2>4 DEF ReplyNext
  <2>6. Mark(m.at + Len(NextReply(m)) + 4, m.replies + 1, m.data) \in ends'
    BY <1>4 DEF ReplyNext
  <2>7. QED BY <2>1, <2>3, <2>5, <2>6, Zenon DEF ReplyNext
<1>5. ASSUME DataNext(m) PROVE DataNext(m)'
  <2>1. Frame(NextData(m)) \in Seq(Octet)
    <3>1. m.data + 1 \in Nat
      BY <1>2
    <3>2. QED BY <3>1, DataFrame DEF NextData
  <2>2. Holds(down', m.at, Frame(NextData(m)))
    BY <1>2, <1>3, <1>5, <2>1 DEF DataNext
  <2>3. m.data < made'
    BY <1>2, <1>5 DEF DataNext
  <2>4. Mark(m.at + Len(NextData(m)) + 4, m.replies, m.data + 1) \in ends'
    BY <1>5 DEF DataNext
  <2>5. QED BY <2>2, <2>3, <2>4, Zenon DEF DataNext, NextData
<1>6. QED BY <1>4, <1>5

\* The size a callback gives is that of the next packet, which is of its kind.
LEMMA SizeGiven ==
    ASSUME TypeInv, StreamInv, NEW m \in ends, taken = m.at,
           NEW protocol \in {RMAP_PROTOCOL_ID, FEE_DATA_PROTOCOL}, NextSize(protocol) # 0
    PROVE  /\ protocol = RMAP_PROTOCOL_ID
                => ReplyNext(m) /\ NextSize(protocol) = Len(NextReply(m))
           /\ protocol = FEE_DATA_PROTOCOL
                => DataNext(m) /\ NextSize(protocol) = Len(NextData(m))
<1> DEFINE hdr == Octets(down, taken, 6)
<1>1. /\ down \in Seq(Octet) /\ Len(down) \in Nat /\ arrived \in Nat /\ arrived <= Len(down)
      /\ replies \in Seq(Reply)
  BY LenProperties DEF TypeInv
<1>2. m.at \in Nat /\ m.replies \in Nat /\ m.data \in Nat
  BY DEF StreamInv, Marks
<1>3. ~(arrived - taken < 6) /\ hdr[6] = protocol /\ NextSize(protocol) = FrameSize(hdr)
  BY DEF NextSize
<1>4. RMAP_PROTOCOL_ID # FEE_DATA_PROTOCOL
  BY DEF RMAP_PROTOCOL_ID, FEE_DATA_PROTOCOL
<1>5. m # EndOfStream
  <2>1. m.at < Len(down)
    BY <1>1, <1>2, <1>3
  <2>2. EndOfStream.at = Len(down)
    BY DEF EndOfStream, Mark
  <2>3. QED BY <1>1, <2>1, <2>2
<1>6. CASE ReplyNext(m)
  <2> DEFINE p == NextReply(m)
  <2>1. replies[m.replies + 1] \in Reply
    <3>1. m.replies + 1 \in 1 .. Len(replies)
      BY <1>1, <1>2, <1>6, LenProperties DEF ReplyNext
    <3>2. QED BY <1>1, <3>1, ElementOfSeq
  <2>2. p \in Seq(Octet) /\ Len(p) \in U24 /\ Len(p) >= 8 /\ p[2] = RMAP_PROTOCOL_ID
    BY <2>1, ReplyDecoded DEF NextReply
  <2>3. Holds(down, m.at, Frame(p))
    BY <1>6 DEF ReplyNext
  <2> HIDE DEF p
  <2>4. Len(p) \in Nat /\ Len(p) >= 2
    BY <2>2, LenProperties
  <2>5. hdr[6] = p[2] /\ FrameSize(hdr) = Len(p)
    BY <1>1, <1>2, <2>2, <2>3, <2>4, FrameRead
  <2>6. QED BY <1>3, <1>4, <1>6, <2>2, <2>5 DEF p
<1>7. CASE DataNext(m)
  <2> DEFINE p == NextData(m)
  <2>1. m.data + 1 \in Nat
    BY <1>2
  <2>2. p \in Seq(Octet) /\ Len(p) \in U24 /\ Len(p) >= 2 /\ p[2] = FEE_DATA_PROTOCOL
    <3>1. p \in Seq(Octet) /\ Len(p) = 4 /\ 4 \in U24 /\ p[2] = FEE_DATA_PROTOCOL
      BY <2>1, DataPacketShape DEF NextData
    <3> HIDE DEF p
    <3>2. QED BY <3>1
  <2>3. Holds(down, m.at, Frame(p))
    BY <1>7 DEF DataNext
  <2> HIDE DEF p
  <2>4. hdr[6] = p[2] /\ FrameSize(hdr) = Len(p)
    BY <1>1, <1>2, <2>2, <2>3, FrameRead
  <2>5. QED BY <1>3, <1>4, <1>7, <2>2, <2>4 DEF p
<1>8. QED BY <1>5, <1>6, <1>7 DEF StreamInv

\* Whatever it reads for a header, a callback gives a number.
LEMMA SizeShape ==
    ASSUME TypeInv, NEW protocol
    PROVE  NextSize(protocol) \in Nat
<1> DEFINE h == Octets(down, taken, 6)
           s == SubSeq(h, 2, 4)
<1>1. h \in Seq(Octet) /\ Len(h) = 6
  <2>1. \A n \in Nat : Cuts(Octets(down, taken, n), down, taken, n)
    BY OctetsShape DEF TypeInv
  <2>2. Cuts(h, down, taken, 6)
    BY <2>1
  <2>3. QED BY <2>2 DEF Cuts
<1> HIDE DEF h
<1>2. Len(s) = 3 /\ s[1] = h[2] /\ s[2] = h[3] /\ s[3] = h[4]
  BY <1>1
<1>3. h[2] \in Nat /\ h[3] \in Nat /\ h[4] \in Nat
  <2>1. h[2] \in Octet /\ h[3] \in Octet /\ h[4] \in Octet
    BY <1>1, ElementOfSeq
  <2>2. QED BY <2>1 DEF Octet
<1> HIDE DEF s
<1>4. Weight[1] \in Nat /\ Weight[2] \in Nat /\ Weight[3] \in Nat
  BY WeightShape
<1>5. /\ FrameSize(h) = FromBigEndian(s)
      /\ FromBigEndian(s) = Weight[1] * s[3] + Weight[2] * s[2] + Weight[3] * s[1] + 0
  <2>1. FrameSize(h) = FromBigEndian(s)
    BY DEF FrameSize, s
  <2>2. /\ 1 <= Len(s) /\ 2 <= Len(s) /\ 3 <= Len(s) /\ ~(4 <= Len(s))
        /\ Len(s) + 1 - 1 = 3 /\ Len(s) + 1 - 2 = 2 /\ Len(s) + 1 - 3 = 1
    BY <1>2
  <2>3. QED BY <2>1, <2>2, Zenon DEF FromBigEndian
<1>6. \A a, b, c, x, y, z \in Nat : a * x + b * y + c * z + 0 \in Nat
  OBVIOUS
<1>7. FrameSize(h) \in Nat
  BY <1>2, <1>3, <1>4, <1>5, <1>6
<1>8. QED BY <1>7 DEF NextSize, h

\* A new frame at the end: a reply, or the next data packet.
LEMMA Sent ==
    ASSUME TypeInv, StreamInv, NEW p \in Seq(Octet), Len(p) \in U24, Send(p),
           \/ /\ made' = made /\ \E r \in Reply : replies' = Append(replies, r)
                                                   /\ p = ReplyPackage(r)
           \/ made' = made + 1 /\ replies' = replies /\ p = DataPacket(made')
    PROVE  /\ StreamInv'
           /\ \A m \in ends : /\ m \in ends'
                              /\ ReplyNext(m) => ReplyNext(m)' /\ NextReply(m)' = NextReply(m)
                              /\ DataNext(m) => DataNext(m)'
           /\ down' \in Seq(Octet) /\ Len(down) <= Len(down')
           /\ replies' \in Seq(Reply) /\ made' \in Nat
           /\ Len(replies) <= Len(replies') /\ made <= made'
           /\ \A i \in 1 .. Len(replies) : replies'[i] = replies[i]
           /\ \A i \in 1 .. Len(down) : down'[i] = down[i]
<1> DEFINE f == Frame(p)
<1>1. f \in Seq(Octet) /\ Len(f) = Len(p) + 4
  BY FrameShape DEF Frames
<1>2. /\ down \in Seq(Octet) /\ replies \in Seq(Reply) /\ made \in Nat
      /\ Len(down) \in Nat /\ Len(replies) \in Nat /\ Len(p) \in Nat
  BY LenProperties DEF TypeInv
<1>3. down' = down \o f /\ ends' = ends \cup {EndOfStream'}
  BY DEF Send, EndOfStream, Mark
<1> HIDE DEF f
<1>4. /\ down' \in Seq(Octet) /\ Len(down') = Len(down) + Len(p) + 4
      /\ Holds(down', Len(down), f)
      /\ \A i \in 1 .. Len(down) : down'[i] = down[i]
  <2>1. /\ down \o f \in Seq(Octet) /\ Len(down \o f) = Len(down) + Len(f)
        /\ Holds(down \o f, Len(down), f)
    BY <1>1, <1>2, HoldsStill
  <2>2. Len(down) + Len(f) = Len(down) + Len(p) + 4
    BY <1>1, <1>2
  <2>3. Joins(down \o f, down, f)
    BY <1>1, <1>2, Joined
  <2>4. QED BY <1>3, <2>1, <2>2, <2>3 DEF Joins
<1>5. /\ replies' \in Seq(Reply) /\ made' \in Nat /\ Len(replies') \in Nat
      /\ Len(replies) <= Len(replies') /\ made <= made'
      /\ \A i \in 1 .. Len(replies) : replies'[i] = replies[i]
  <2>1. CASE made' = made /\ \E r \in Reply : replies' = Append(replies, r)
    BY <1>2, <2>1, AppendProperties
  <2>2. CASE made' = made + 1 /\ replies' = replies
    BY <1>2, <2>2
  <2>3. QED BY <2>1, <2>2
<1>6. \A m \in ends : /\ m \in ends'
                      /\ ReplyNext(m) => ReplyNext(m)' /\ NextReply(m)' = NextReply(m)
                      /\ DataNext(m) => DataNext(m)'
  <2> TAKE m \in ends
  <2>1. ends \subseteq ends'
    BY <1>3
  <2>2. QED BY <1>1, <1>2, <1>3, <1>5, <2>1, StillNext
<1>7. ends' \subseteq Marks /\ EndOfStream' \in ends'
  <2>1. EndOfStream' \in Marks
    BY <1>4, <1>5, LenProperties DEF EndOfStream, Mark, Marks
  <2>2. QED BY <1>3, <2>1 DEF StreamInv
<1>8. EndOfStream.at = Len(down) /\ EndOfStream.replies = Len(replies) /\ EndOfStream.data = made
  BY DEF EndOfStream, Mark
<1>10. ASSUME NEW m \in ends, m = EndOfStream
       PROVE  ReplyNext(m)' \/ DataNext(m)'
  <2>1. m.at = Len(down) /\ m.replies = Len(replies) /\ m.data = made
    BY <1>8, <1>10
  <2>2. CASE made' = made /\ \E r \in Reply : replies' = Append(replies, r) /\ p = ReplyPackage(r)
    <3>1. PICK r \in Reply : replies' = Append(replies, r) /\ p = ReplyPackage(r)
      BY <2>2
    <3>2. Len(replies') = Len(replies) + 1 /\ replies'[Len(replies) + 1] = r
      BY <1>2, <3>1, AppendProperties
    <3>3. NextReply(m)' = p
      BY <2>1, <3>1, <3>2 DEF NextReply
    <3>4. m.replies < Len(replies')
      BY <1>2, <2>1, <3>2
    <3>5. Mark(m.at + Len(p) + 4, m.replies + 1, m.data) = EndOfStream'
      BY <1>4, <2>1, <2>2, <3>2 DEF EndOfStream, Mark
    <3>6. Holds(down', m.at, Frame(p))
      BY <1>4, <2>1 DEF f
    <3>7. QED BY <1>7, <3>3, <3>4, <3>5, <3>6, Zenon DEF ReplyNext
  <2>3. CASE made' = made + 1 /\ replies' = replies /\ p = DataPacket(made')
    <3>1. NextData(m)' = p /\ m.data < made'
      BY <1>2, <2>1, <2>3 DEF NextData
    <3>2. Mark(m.at + Len(p) + 4, m.replies, m.data + 1) = EndOfStream'
      BY <1>4, <2>1, <2>3 DEF EndOfStream, Mark
    <3>3. Holds(down', m.at, Frame(p))
      BY <1>4, <2>1 DEF f
    <3>4. QED BY <1>7, <3>1, <3>2, <3>3, Zenon DEF DataNext
  <2>4. QED BY <2>2, <2>3
<1>11. ASSUME NEW m \in ends'
       PROVE  m.at <= Len(down') /\ (m = EndOfStream' \/ ReplyNext(m)' \/ DataNext(m)')
  <2>1. CASE m = EndOfStream'
    <3>1. m.at = Len(down')
      BY <2>1 DEF EndOfStream, Mark
    <3>2. QED BY <1>2, <1>4, <2>1, <3>1
  <2>2. CASE m \in ends
    <3>1. m.at \in Nat /\ m.at <= Len(down) /\ (m = EndOfStream \/ ReplyNext(m) \/ DataNext(m))
      BY <2>2 DEF StreamInv, Marks
    <3>2. m.at <= Len(down')
      BY <1>2, <1>4, <3>1
    <3>3. QED BY <1>6, <1>10, <2>2, <3>1, <3>2
  <2>3. QED BY <1>3, <2>1, <2>2
<1>12. StreamInv'
  BY <1>7, <1>11 DEF StreamInv
<1>13. Len(down) <= Len(down')
  BY <1>2, <1>4
<1>14. QED BY <1>4, <1>5, <1>6, <1>12, <1>13

-----------------------------------------------------------------------------
(* Initial states and steps.                                               *)

LEMMA Initially == Init => IInv
<1> SUFFICES ASSUME Init PROVE IInv
  OBVIOUS
<1> USE DEF Init
<1>1. TypeInv
  <2>1. <<>> \in Seq(Octet) /\ <<>> \in Seq(Commands) /\ <<>> \in Seq(Reply) /\ Len(<<>>) = 0
    BY EmptySeq
  <2>2. mem \in [Addresses -> Seq(Octet)] /\ \A a \in Addresses : Len(mem[a]) >= Len(Initial)
    <3>1. Initial \in Seq(Octet) /\ Len(Initial) \in Nat
      BY FeeLinkAssumption, LenProperties
    <3>2. QED BY <3>1
  <2>3. tries \in 0 .. MaxTries
    BY FeeLinkAssumption
  <2>4. /\ fee.pc = "rx" /\ trigger \in BOOLEAN /\ alive \in BOOLEAN /\ made \in Nat
        /\ pending \subseteq Slots
    OBVIOUS
  <2>5. arrived \in 0 .. Len(down)
    <3>1. arrived = 0 /\ Len(down) = 0
      BY <2>1
    <3>2. QED BY <3>1
  <2>6. /\ size \in Nat /\ block \in Seq(Octet) /\ lead \in Nat /\ missed \in Nat
        /\ taken \in Nat /\ taken <= arrived
    BY <2>1
  <2>7. QED BY <2>1, <2>2, <2>3, <2>4, <2>5, <2>6 DEF TypeInv
<1>2. ProcedureInv
  <2>1. todo \in Procedures /\ todo \in Seq(Step) /\ Len(todo) \in Nat /\ DOMAIN todo = 1 .. Len(todo)
    BY AProcedure
  <2>2. todo = Rest(todo, 0)
    <3>1. todo = [i \in 1 .. Len(todo) |-> todo[i]]
      BY <2>1, AsFunction
    <3>2. Len(todo) - 0 = Len(todo) /\ \A i \in 1 .. Len(todo) : 0 + i = i
      BY <2>1
    <3>3. QED BY <3>1, <3>2 DEF Rest
  <2>3. Due(todo, 0) = {i \in DOMAIN todo : Transfers(todo[i])}
    BY <2>1 DEF Due
  <2>4. Cardinality(Due(todo, 0)) <= Cardinality(Slots) /\ Cardinality(pending) = 0
    BY <2>1, <2>3, FeeLinkAssumption, FS_EmptySet
  <2>5. 0 \in 0 .. Len(todo)
    BY <2>1
  <2>6. Within(todo, 0)
    BY <2>1, <2>2, <2>4, <2>5, DueShrinks, SlotsFinite DEF Within
  <2>7. QED BY <2>1, <2>5, <2>6 DEF ProcedureInv
<1>3. ends = {EndOfStream} /\ EndOfStream = Mark(0, 0, 0)
  BY EmptySeq DEF EndOfStream, Mark
<1>4. StreamInv
  BY <1>3, EmptySeq DEF StreamInv, Marks, Mark
<1>5. ClientInv
  <2> DEFINE m == Mark(0, 0, 0)
  <2>1. m \in ends /\ m.at = 0 /\ m.replies = 0 /\ m.data = 0
    BY <1>3 DEF Mark
  <2> HIDE DEF m
  <2>2. <<>> \in Seq(Reply) /\ <<>> \in Seq(Seq(Octet)) /\ Len(<<>>) = 0
    BY EmptySeq
  <2>3. Got(m)
    BY <2>1, <2>2 DEF Got
  <2>4. Holding(m)
    BY <2>1, <2>2 DEF Holding
  <2>5. At(m)
    BY <2>1, <2>3, <2>4 DEF At
  <2>6. QED BY <2>1, <2>5 DEF ClientInv
<1>6. QED BY <1>1, <1>2, <1>4, <1>5 DEF IInv

\* A call of recv() that gives something.
LEMMA PartNumbers ==
    ASSUME TypeInv, RecvPart
    PROVE  \E n, lost \in Nat :
              /\ taken + n <= arrived /\ lost <= n /\ lost <= lead
              /\ taken' = taken + n /\ lead' = lead - lost
              /\ block' = block \o Octets(down, taken + lost, n - lost)
<1> DEFINE S == {Left, arrived - taken}
           n == Min(S)
           T == {lead, n}
           lost == Min(T)
<1>1. Left \in Nat /\ arrived - taken \in Nat /\ arrived \in Nat /\ taken \in Nat /\ lead \in Nat
  <2>1. arrived \in Nat /\ taken \in Nat /\ lead \in Nat /\ size \in Nat /\ Len(block) \in Nat
        /\ taken <= arrived
    BY LenProperties DEF TypeInv
  <2>2. Left \in Int
    BY <2>1 DEF Left, GRESB_HDR_SIZE
  <2>3. QED BY <2>1, <2>2 DEF RecvPart, Receiving
<1>2. S \in SUBSET Nat /\ S # {}
  BY <1>1
<1>3. n \in Nat /\ n <= arrived - taken
  <2>1. n \in S /\ \A x \in S : n <= x
    BY <1>2, MinOfSome
  <2> HIDE DEF n
  <2>2. QED BY <1>1, <2>1
<1>4. /\ taken' = taken + n /\ lead' = lead - lost
      /\ block' = block \o Octets(down, taken + lost, n - lost)
  BY DEF RecvPart
<1> HIDE DEF n
<1>5. lost \in Nat /\ lost <= n /\ lost <= lead
  <2>1. lost \in T /\ \A x \in T : lost <= x
    BY <1>1, <1>3, MinOfSome
  <2> HIDE DEF lost
  <2>2. QED BY <1>1, <1>3, <2>1
<1> HIDE DEF lost
<1>6. taken + n <= arrived
  BY <1>1, <1>3
<1>7. QED BY <1>3, <1>4, <1>5, <1>6

\* What it gives goes behind what is there.
LEMMA ReceivesPart ==
    ASSUME IInv, RecvPart
    PROVE  ClientInv'
<1> SUFFICES ASSUME missed' = 0 PROVE \E m \in ends' : At(m)'
  BY DEF ClientInv
<1>1. missed = 0 /\ UNCHANGED <<size, gotReplies, gotData, ends, down, replies, made>>
      /\ pc \in {"read", "drain"} /\ (lead = 0 => pc' = pc)
  BY DEF RecvPart, Receiving, feeVars
<1>2. PICK m \in ends : At(m)
  BY <1>1 DEF IInv, ClientInv
<1>3. Got(m) /\ lead = 0 /\ taken = m.at + Len(block)
      /\ \A i \in 1 .. Len(block) : block[i] = down[m.at + i]
  BY <1>2 DEF At, Holding
<1>4. /\ down \in Seq(Octet) /\ Len(down) \in Nat /\ arrived \in Nat /\ arrived <= Len(down)
      /\ m.at \in Nat /\ block \in Seq(Octet) /\ Len(block) \in Nat /\ taken \in Nat
  BY LenProperties DEF IInv, TypeInv, StreamInv, Marks
<1>5. PICK n, lost \in Nat :
         /\ taken + n <= arrived /\ lost <= n /\ lost <= lead
         /\ taken' = taken + n /\ lead' = lead - lost
         /\ block' = block \o Octets(down, taken + lost, n - lost)
  BY PartNumbers DEF IInv
<1> DEFINE o == Octets(down, taken, n)
<1>6. lead' = 0 /\ block' = block \o o
  <2>1. lost = 0
    BY <1>3, <1>5
  <2>2. taken + 0 = taken /\ n - 0 = n /\ 0 - 0 = 0
    BY <1>4
  <2>3. QED BY <1>3, <1>5, <2>1, <2>2
<1>7. o \in Seq(Octet) /\ Len(o) = n /\ \A j \in 1 .. n : o[j] = down[taken + j]
  <2>1. Cuts(o, down, taken, n)
    BY <1>4, OctetsShape
  <2> HIDE DEF o
  <2>2. \A j \in 1 .. n : taken + j <= Len(down)
    BY <1>4, <1>5
  <2>3. QED BY <2>1, <2>2 DEF Cuts
<1> HIDE DEF o
<1>8. /\ Len(block') = Len(block) + n
      /\ \A i \in 1 .. Len(block) : block'[i] = block[i]
      /\ \A i \in 1 .. n : block'[Len(block) + i] = o[i]
  <2>1. Joins(block \o o, block, o)
    BY <1>4, <1>7, Joined
  <2>2. QED BY <1>6, <1>7, <2>1 DEF Joins
<1>9. \A i \in 1 .. Len(block') : block'[i] = down'[m.at + i]
  <2> TAKE i \in 1 .. Len(block')
  <2>1. CASE i <= Len(block)
    BY <1>1, <1>3, <1>4, <1>8, <2>1
  <2>2. CASE i > Len(block)
    <3> DEFINE j == i - Len(block)
    <3>1. j \in 1 .. n /\ i = Len(block) + j /\ taken + j = m.at + i
      BY <1>3, <1>4, <1>8, <2>2
    <3> HIDE DEF j
    <3>2. QED BY <1>1, <1>7, <1>8, <3>1
  <2>3. QED BY <1>4, <1>8, <2>1, <2>2
<1>10. taken' = m.at + Len(block')
  BY <1>3, <1>4, <1>5, <1>8
<1>11. Holding(m)'
  BY <1>1, <1>3, <1>6, <1>9, <1>10 DEF Holding
<1>12. Got(m)'
  BY <1>1, <1>3 DEF Got
<1>13. (ReplyNext(m)' <=> ReplyNext(m)) /\ (DataNext(m)' <=> DataNext(m))
       /\ NextReply(m)' = NextReply(m) /\ NextData(m)' = NextData(m)
  BY <1>1 DEF ReplyNext, DataNext, NextReply, NextData
<1>14. At(m)'
  BY <1>1, <1>2, <1>3, <1>11, <1>12, <1>13 DEF At
<1>15. QED BY <1>1, <1>14

\* The packet in the block, once the frame is there.
LEMMA FrameTaken ==
    ASSUME TypeInv, ends \subseteq Marks, NEW m \in ends, Holding(m), Left = 0,
           NEW p \in Seq(Octet), Len(p) \in U24, Len(p) >= 2, size = Len(p),
           Holds(down, m.at, Frame(p))
    PROVE  Packet = p /\ taken = m.at + Len(p) + 4
<1> DEFINE f == Frame(p)
<1>1. /\ lead = 0 /\ taken = m.at + Len(block) /\ m.at \in Nat
      /\ \A i \in 1 .. Len(block) : block[i] = down[m.at + i]
      /\ block \in Seq(Octet) /\ Len(block) \in Nat /\ Len(p) \in Nat
  BY LenProperties DEF Holding, Marks, TypeInv
<1>2. Len(block) = Len(p) + 4
  BY <1>1 DEF Left, GRESB_HDR_SIZE
<1>3. Len(f) = Len(p) + 4
  BY FrameShape DEF Frames
<1>4. \A i \in 1 .. Len(f) : down[m.at + i] = f[i]
  BY DEF Holds
<1> HIDE DEF f
<1>5. Holds(block, 0, f)
  <2>1. 0 + Len(f) <= Len(block)
    BY <1>1, <1>2, <1>3
  <2>2. \A i \in 1 .. Len(f) : block[0 + i] = f[i]
    BY <1>1, <1>2, <1>3, <1>4
  <2>3. QED BY <2>1, <2>2 DEF Holds
<1>6. Octets(block, 0 + 4, Len(p)) = p
  <2>1. 0 \in Nat
    OBVIOUS
  <2>2. QED BY <1>1, <1>5, <2>1, FrameRead DEF f
<1>7. Packet = p
  BY <1>6 DEF Packet, GRESB_HDR_SIZE
<1>8. QED BY <1>1, <1>2, <1>7, SMTT(60)

\* rmap_rx() hands over the reply that stands where the client is, and goes on
\* to the end of its frame.
LEMMA ReadsReply ==
    ASSUME IInv, ReadReply
    PROVE  ClientInv'
<1> SUFFICES ASSUME missed' = 0 PROVE \E m \in ends' : At(m)'
  BY DEF ClientInv
<1>0. missed = 0
  BY DEF ReadReply, HandsOver
<1>1. PICK m \in ends : At(m)
  BY <1>0 DEF IInv, ClientInv
<1>2. Holding(m) /\ Got(m) /\ ReplyNext(m) /\ size = Len(NextReply(m))
  BY <1>1 DEF At, ReadReply
<1>3. /\ down \in Seq(Octet) /\ replies \in Seq(Reply) /\ Len(replies) \in Nat
      /\ m.at \in Nat /\ m.replies \in Nat /\ m.data \in Nat
  BY LenProperties DEF IInv, TypeInv, StreamInv, Marks
<1> DEFINE r == replies[m.replies + 1]
           p == NextReply(m)
<1>4. r \in Reply /\ m.replies + 1 <= Len(replies)
  <2>1. m.replies + 1 \in 1 .. Len(replies)
    BY <1>2, <1>3 DEF ReplyNext
  <2>2. QED BY <1>3, <2>1, ElementOfSeq
<1>5. /\ FromBuffer(p, Len(p) + GRESB_HDR_SIZE) = r
      /\ p \in Seq(Octet) /\ Len(p) \in U24 /\ Len(p) >= 8
  BY <1>4, ReplyDecoded DEF NextReply
<1>6. Holds(down, m.at, Frame(p)) /\ Mark(m.at + Len(p) + 4, m.replies + 1, m.data) \in ends
  BY <1>2 DEF ReplyNext
<1> HIDE DEF p, r
<1>7. Packet = p /\ taken = m.at + Len(p) + 4
  <2>1. Len(p) >= 2
    BY <1>5, LenProperties
  <2>2. TypeInv /\ ends \subseteq Marks /\ Left = 0
    BY DEF IInv, StreamInv, ReadReply, HandsOver
  <2>3. size = Len(p)
    BY <1>2 DEF p
  <2>4. QED BY <1>2, <1>5, <1>6, <2>1, <2>2, <2>3, FrameTaken
<1>8. /\ gotReplies' = Append(gotReplies, r) /\ taken' = m.at + Len(p) + 4
      /\ pc' \in {"rmap", "crashed"} /\ block' = <<>> /\ lead' = 0
      /\ UNCHANGED <<gotData, ends, replies, made>>
  <2>1. size = Len(p) /\ lead = 0
    BY <1>2 DEF p, Holding
  <2>2. QED BY <1>5, <1>7, <2>1 DEF ReadReply, HandsOver, feeVars
<1>9. PICK next \in ends : /\ next.at = m.at + Len(p) + 4 /\ next.replies = m.replies + 1
                            /\ next.data = m.data
  BY <1>6 DEF Mark
<1>10. Got(next)'
  <2>1. /\ gotReplies \in Seq(Reply) /\ Len(gotReplies) = m.replies
        /\ \A i \in 1 .. m.replies : gotReplies[i] = replies[i]
        /\ gotData \in Seq(Seq(Octet)) /\ Len(gotData) = m.data /\ m.data <= made
        /\ \A i \in 1 .. m.data : gotData[i] = DataPacket(i)
    BY <1>2 DEF Got
  <2>2. /\ gotReplies' \in Seq(Reply) /\ Len(gotReplies') = m.replies + 1
        /\ gotReplies'[m.replies + 1] = r
        /\ \A i \in 1 .. m.replies : gotReplies'[i] = gotReplies[i]
    BY <1>4, <1>8, <2>1, AppendProperties
  <2>3. \A i \in 1 .. m.replies + 1 : gotReplies'[i] = replies[i]
    <3> TAKE i \in 1 .. m.replies + 1
    <3>1. i = m.replies + 1 \/ i \in 1 .. m.replies
      BY <1>3
    <3>2. QED BY <2>1, <2>2, <3>1 DEF r
  <2>4. QED BY <1>4, <1>8, <1>9, <2>1, <2>2, <2>3 DEF Got
<1>11. At(next)'
  <2>1. next.at \in Nat /\ Len(<<>>) = 0 /\ taken' = next.at
    BY <1>8, <1>9, EmptySeq DEF IInv, StreamInv, Marks
  <2>2. Holding(next)'
    BY <1>8, <2>1 DEF Holding
  <2>3. QED BY <1>8, <1>10, <2>2 DEF At
<1>12. QED BY <1>8, <1>11

\* So does pkt_rx() with a data packet.
LEMMA ReadsData ==
    ASSUME IInv, ReadData
    PROVE  ClientInv'
<1> SUFFICES ASSUME missed' = 0 PROVE \E m \in ends' : At(m)'
  BY DEF ClientInv
<1>0. missed = 0
  BY DEF ReadData, HandsOver
<1>1. PICK m \in ends : At(m)
  BY <1>0 DEF IInv, ClientInv
<1>2. Holding(m) /\ Got(m) /\ DataNext(m) /\ size = Len(NextData(m))
  BY <1>1 DEF At, ReadData
<1>3. /\ down \in Seq(Octet) /\ made \in Nat
      /\ m.at \in Nat /\ m.replies \in Nat /\ m.data \in Nat
  BY DEF IInv, TypeInv, StreamInv, Marks
<1> DEFINE p == NextData(m)
<1>4. p = DataPacket(m.data + 1) /\ p \in Seq(Octet) /\ Len(p) \in U24 /\ Len(p) = 4
  <2>1. m.data + 1 \in Nat
    BY <1>3
  <2>2. \A n \in Nat : DataPacket(n) \in Seq(Octet) /\ Len(DataPacket(n)) = 4 /\ 4 \in U24
    BY DataPacketShape
  <2>3. QED BY <2>1, <2>2 DEF NextData
<1>5. Holds(down, m.at, Frame(p)) /\ m.data < made
      /\ Mark(m.at + Len(p) + 4, m.replies, m.data + 1) \in ends
  BY <1>2 DEF DataNext
<1> HIDE DEF p
<1>6. Packet = p /\ taken = m.at + Len(p) + 4
  <2>1. Len(p) >= 2
    <3>1. Len(p) = 4
      BY <1>4
    <3>2. QED BY <3>1
  <2>2. TypeInv /\ ends \subseteq Marks /\ Left = 0
    BY DEF IInv, StreamInv, ReadData, HandsOver
  <2>3. size = Len(p)
    BY <1>2 DEF p
  <2>4. QED BY <1>2, <1>4, <1>5, <2>1, <2>2, <2>3, FrameTaken
<1>7. /\ gotData' = Append(gotData, p) /\ taken' = m.at + Len(p) + 4
      /\ pc' \in {"next", "crashed"} /\ block' = <<>> /\ lead' = 0
      /\ UNCHANGED <<gotReplies, ends, replies, made>>
  <2>1. lead = 0
    BY <1>2 DEF Holding
  <2>2. QED BY <1>6, <2>1 DEF ReadData, HandsOver, feeVars
<1>8. PICK next \in ends : /\ next.at = m.at + Len(p) + 4 /\ next.replies = m.replies
                            /\ next.data = m.data + 1
  BY <1>5 DEF Mark
<1>9. Got(next)'
  <2>1. /\ gotReplies \in Seq(Reply) /\ Len(gotReplies) = m.replies /\ m.replies <= Len(replies)
        /\ \A i \in 1 .. m.replies : gotReplies[i] = replies[i]
        /\ gotData \in Seq(Seq(Octet)) /\ Len(gotData) = m.data
        /\ \A i \in 1 .. m.data : gotData[i] = DataPacket(i)
    BY <1>2 DEF Got
  <2>2. /\ gotData' \in Seq(Seq(Octet)) /\ Len(gotData') = m.data + 1
        /\ gotData'[m.data + 1] = p
        /\ \A i \in 1 .. m.data : gotData'[i] = gotData[i]
    BY <1>4, <1>7, <2>1, AppendProperties
  <2>3. \A i \in 1 .. m.data + 1 : gotData'[i] = DataPacket(i)
    <3> TAKE i \in 1 .. m.data + 1
    <3>1. i = m.data + 1 \/ i \in 1 .. m.data
      BY <1>3
    <3>2. QED BY <1>4, <2>1, <2>2, <3>1
  <2>4. m.data + 1 <= made
    BY <1>3, <1>5
  <2>5. QED BY <1>7, <1>8, <2>1, <2>2, <2>3, <2>4 DEF Got
<1>10. At(next)'
  <2>1. next.at \in Nat /\ Len(<<>>) = 0 /\ taken' = next.at
    BY <1>7, <1>8, EmptySeq DEF IInv, StreamInv, Marks
  <2>2. Holding(next)'
    BY <1>7, <2>1 DEF Holding
  <2>3. QED BY <1>7, <1>9, <2>2 DEF At
<1>11. QED BY <1>7, <1>10

\* Only the main thread and the poll thread touch what the stream is about.
LEMMA StreamUntouched ==
    ASSUME StreamInv, UNCHANGED <<ends, down, replies, made>>
    PROVE  /\ StreamInv'
           /\ \A m \in ends : /\ ReplyNext(m)' <=> ReplyNext(m)
                              /\ DataNext(m)' <=> DataNext(m)
                              /\ NextReply(m)' = NextReply(m)
<1>1. \A m \in ends : /\ ReplyNext(m)' <=> ReplyNext(m)
                      /\ DataNext(m)' <=> DataNext(m)
                      /\ NextReply(m)' = NextReply(m)
  BY DEF ReplyNext, DataNext, NextReply, NextData
<1>2. EndOfStream' = EndOfStream
  BY DEF EndOfStream
<1>3. StreamInv'
  BY <1>1, <1>2 DEF StreamInv
<1>4. QED BY <1>1, <1>3

\* Wherever the client is, it is still there if what it has stays the same.
LEMMA ClientUntouched ==
    ASSUME TypeInv, ClientInv, UNCHANGED <<taken, block, lead, missed, gotReplies, gotData>>,
           pc' \notin {"read", "drain"} => pc \notin {"read", "drain"},
           \A i \in 1 .. Len(down) : down'[i] = down[i],
           \A m \in ends : /\ m \in ends'
                           /\ ReplyNext(m) => ReplyNext(m)' /\ NextReply(m)' = NextReply(m)
                           /\ DataNext(m) => DataNext(m)',
           ends \subseteq Marks, Len(replies') \in Nat, Len(replies) <= Len(replies'),
           made' \in Nat, made <= made',
           \A i \in 1 .. Len(replies) : replies'[i] = replies[i],
           pc' = "read" => \A m \in ends : At(m) => ReplyNext(m) /\ size' = Len(NextReply(m)),
           pc' = "drain" => \A m \in ends : At(m) => DataNext(m) /\ size' = Len(NextData(m))
    PROVE  ClientInv'
<1> SUFFICES ASSUME missed' = 0 PROVE \E m \in ends' : At(m)'
  BY DEF ClientInv
<1>1. PICK m \in ends : At(m)
  BY DEF ClientInv
<1>2. Got(m) /\ Holding(m)
  BY <1>1 DEF At
<1>3. m.replies \in Nat /\ m.data \in Nat /\ Len(replies) \in Nat /\ made \in Nat
  BY LenProperties DEF Marks, TypeInv
<1>4. /\ gotReplies \in Seq(Reply) /\ Len(gotReplies) = m.replies /\ m.replies <= Len(replies)
      /\ \A i \in 1 .. m.replies : gotReplies[i] = replies[i]
      /\ gotData \in Seq(Seq(Octet)) /\ Len(gotData) = m.data /\ m.data <= made
      /\ \A i \in 1 .. m.data : gotData[i] = DataPacket(i)
  BY <1>2 DEF Got
<1>5. m.replies <= Len(replies') /\ m.data <= made'
  BY <1>3, <1>4
<1>6. \A i \in 1 .. m.replies : gotReplies[i] = replies'[i]
  BY <1>3, <1>4
<1>7. Got(m)'
  BY <1>4, <1>5, <1>6 DEF Got
<1>8. pc' = "read" => ReplyNext(m)' /\ size' = Len(NextReply(m))'
  BY <1>1
<1>9. pc' = "drain" => DataNext(m)' /\ size' = Len(NextData(m))'
  BY <1>1 DEF NextData
<1>10. Holding(m)'
  <2>1. /\ lead = 0 /\ taken = m.at + Len(block) /\ (pc \notin {"read", "drain"} => block = <<>>)
        /\ \A i \in 1 .. Len(block) : block[i] = down[m.at + i]
    BY <1>2 DEF Holding
  <2>2. m.at \in Nat /\ Len(block) \in Nat /\ Len(down) \in Nat /\ taken <= arrived
        /\ arrived \in Nat /\ arrived <= Len(down)
    BY LenProperties DEF Marks, TypeInv
  <2>3. \A i \in 1 .. Len(block) : m.at + i \in 1 .. Len(down)
    BY <2>1, <2>2
  <2>4. \A i \in 1 .. Len(block) : block'[i] = down'[m.at + i]
    BY <2>1, <2>3
  <2>5. QED BY <2>1, <2>4 DEF Holding
<1>11. At(m)'
  BY <1>7, <1>8, <1>9, <1>10 DEF At
<1>12. m \in ends'
  OBVIOUS
<1>13. QED BY <1>11, <1>12

\* The reply to a command as it was accepted.
LEMMA RepliesSent ==
    ASSUME IInv, SendReply
    PROVE  \E p \in Seq(Octet) :
              /\ Len(p) \in U24 /\ Send(p) /\ made' = made
              /\ \E r \in Reply : replies' = Append(replies, r) /\ p = ReplyPackage(r)
<1> DEFINE p == fee.pkt
           data == IF p.cmd = READ THEN SubSeq(mem[p.addr], 1, p.data_len) ELSE <<>>
           reply == [p EXCEPT !.cmd_resp = FALSE, !.src = p.dst, !.dst = p.src,
                              !.addr = 0, !.data_len = Len(data), !.data = data]
<1>1. p \in Accepted
  BY DEF IInv, TypeInv, SendReply
<1>2. /\ p \in RmapPkt /\ p.addr \in Addresses /\ p.data_len + 17 \in U24
      /\ p.cmd = READ => p.data_len <= Len(Initial)
  BY <1>1 DEF Accepted
<1>3. p.data_len \in U24 /\ p.data_len \in Nat /\ p.cmd \in {READ, WRITE}
  BY <1>2, ThreeOctets DEF RmapPkt
<1>4. mem[p.addr] \in Seq(Octet) /\ Len(mem[p.addr]) >= Len(Initial)
  BY <1>2 DEF IInv, TypeInv
<1>5. data \in Seq(Octet) /\ (p.cmd = READ => Len(data) = p.data_len)
      /\ (p.cmd = WRITE => data = <<>> /\ Len(data) = 0)
  <2>1. CASE p.cmd = READ
    <3> DEFINE s == mem[p.addr]
               n == p.data_len
    <3>1. s \in Seq(Octet) /\ Len(s) \in Nat /\ n \in Nat /\ n <= Len(s)
      <4>1. Len(Initial) \in Nat
        BY FeeLinkAssumption, LenProperties
      <4>2. Len(s) \in Nat
        BY <1>4, LenProperties
      <4>3. n <= Len(Initial)
        BY <1>2, <2>1
      <4> HIDE DEF s, n
      <4>4. Len(s) >= Len(Initial) /\ s \in Seq(Octet) /\ n \in Nat
        BY <1>3, <1>4 DEF s, n
      <4>5. QED BY <4>1, <4>2, <4>3, <4>4
    <3> HIDE DEF s, n
    <3>2. \A i \in 1 .. n : s[i] \in Octet
      BY <3>1, ElementOfSeq
    <3>3. SubSeq(s, 1, n) = [i \in 1 .. n |-> s[i]]
      BY <3>1
    <3>4. SubSeq(s, 1, n) \in [1 .. n -> Octet]
      BY <3>2, <3>3
    <3>5. SubSeq(s, 1, n) \in Seq(Octet) /\ Len(SubSeq(s, 1, n)) = n
      BY <3>1, <3>4, SeqDef
    <3>6. READ # WRITE
      BY Minimum
    <3>7. QED BY <2>1, <3>5, <3>6 DEF s, n
  <2>2. CASE p.cmd = WRITE
    <3>1. READ # WRITE
      BY Minimum
    <3>2. data = <<>>
      BY <2>2, <3>1
    <3>3. QED BY <2>2, <3>1, <3>2, EmptySeq
  <2>3. QED BY <1>3, <2>1, <2>2
<1> HIDE DEF p, data
<1>6. /\ reply.cmd_resp = FALSE /\ reply.addr = 0 /\ reply.data_len = Len(data)
      /\ reply.data = data /\ reply.cmd = p.cmd
  BY <1>2 DEF RmapPkt
<1>7. Len(data) \in Nat /\ Len(data) \in U24 /\ Len(data) + 17 \in U24
  <2>1. CASE p.cmd = READ
    BY <1>2, <1>3, <1>5, <2>1
  <2>2. CASE p.cmd = WRITE
    <3>1. \A n \in {0, 17} : \A k \in Nat : k > 0 => n \in 0 .. (k * 256) - 1
      OBVIOUS
    <3>2. 256 * 256 \in Nat /\ 256 * 256 > 0 /\ 0 + 17 = 17 /\ 0 \in Nat
      OBVIOUS
    <3>3. 0 \in {0, 17} /\ 17 \in {0, 17}
      OBVIOUS
    <3>4. 0 \in U24 /\ 17 \in U24
      BY <3>1, <3>2, <3>3, ZenonT(60) DEF U24
    <3>5. Len(data) = 0
      BY <1>5, <2>2
    <3>6. QED BY <3>2, <3>4, <3>5
  <2>3. QED BY <1>3, <2>1, <2>2
<1>8. 0 \in U24
  <2>1. \A k \in Nat : k > 0 => 0 \in 0 .. (k * 256) - 1
    OBVIOUS
  <2>2. 256 * 256 \in Nat /\ 256 * 256 > 0
    OBVIOUS
  <2>3. QED BY <2>1, <2>2, Zenon DEF U24
<1>9. reply \in RmapPkt
  BY <1>2, <1>5, <1>7, <1>8 DEF RmapPkt
<1> HIDE DEF reply
<1>10. reply \in Reply
  BY <1>5, <1>6, <1>7, <1>9 DEF Reply
<1>11. /\ replies' = Append(replies, reply) /\ made' = made
       /\ Send(Package(BuildHdr(reply), p.cmd, data))
  BY DEF SendReply, p, data, reply
<1>12. Package(BuildHdr(reply), p.cmd, data) = ReplyPackage(reply)
  BY <1>6 DEF ReplyPackage
<1>13. QED BY <1>10, <1>11, <1>12, ReplyDecoded

LEMMA DataSent ==
    ASSUME IInv, SendData
    PROVE  \E p \in Seq(Octet) :
              /\ Len(p) \in U24 /\ Send(p)
              /\ made' = made + 1 /\ replies' = replies /\ p = DataPacket(made')
<1>1. made' = made + 1 /\ replies' = replies /\ Send(DataPacket(made')) /\ made' \in Nat
  BY DEF SendData, IInv, TypeInv
<1>2. DataPacket(made') \in Seq(Octet) /\ Len(DataPacket(made')) \in U24
  <2>1. \A n \in Nat : DataPacket(n) \in Seq(Octet) /\ Len(DataPacket(n)) = 4 /\ 4 \in U24
    BY DataPacketShape
  <2>2. QED BY <1>1, <2>1
<1>3. QED BY <1>1, <1>2

\* Everything the simulator sends extends the stream.
LEMMA Sends ==
    ASSUME IInv, SendReply \/ SendData
    PROVE  /\ StreamInv'
           /\ \A m \in ends : /\ m \in ends'
                              /\ ReplyNext(m) => ReplyNext(m)' /\ NextReply(m)' = NextReply(m)
                              /\ DataNext(m) => DataNext(m)'
           /\ down' \in Seq(Octet) /\ Len(down) <= Len(down')
           /\ replies' \in Seq(Reply) /\ made' \in Nat
           /\ Len(replies) <= Len(replies') /\ made <= made'
           /\ \A i \in 1 .. Len(replies) : replies'[i] = replies[i]
           /\ \A i \in 1 .. Len(down) : down'[i] = down[i]
<1>1. PICK p \in Seq(Octet) :
         /\ Len(p) \in U24 /\ Send(p)
         /\ \/ /\ made' = made
               /\ \E r \in Reply : replies' = Append(replies, r) /\ p = ReplyPackage(r)
            \/ made' = made + 1 /\ replies' = replies /\ p = DataPacket(made')
  BY RepliesSent, DataSent
<1>2. TypeInv /\ StreamInv
  BY DEF IInv
<1>3. QED BY <1>1, <1>2, Sent

\* One lemma for each part of the invariant: every step keeps it.
LEMMA TypeStep ==
    ASSUME IInv, [Next]_vars
    PROVE  TypeInv'
<1> USE DEF IInv, stream
<1>1. CASE UNCHANGED vars
  BY <1>1 DEF vars, clientVars, feeVars, TypeInv
<1>2. CASE Arrive
  <2>1. Len(down) \in Nat /\ Chunks \subseteq Nat
    BY FeeLinkAssumption, LenProperties DEF TypeInv
  <2>2. arrived' \in 0 .. Len(down) /\ taken <= arrived'
    <3>1. arrived \in Nat /\ arrived' <= Len(down)
      BY <1>2, <2>1 DEF Arrive, TypeInv
    <3>2. arrived' = Len(down) \/ \E n \in Chunks : arrived' = arrived + n
      BY <1>2 DEF Arrive
    <3>3. taken \in Nat /\ taken <= arrived
      BY DEF TypeInv
    <3>4. \A n \in Chunks : n \in Nat
      BY <2>1
    <3>5. arrived <= arrived' /\ arrived' \in Nat
      BY <2>1, <3>1, <3>2, <3>4 DEF TypeInv
    <3>6. QED BY <2>1, <3>1, <3>3, <3>5
  <2>3. UNCHANGED <<size, block, lead, missed, taken, pc, slot, tries, pending, fee, trigger, alive, up, mem, down, replies, made>>
    BY <1>2 DEF Arrive, clientVars, feeVars
  <2>4. QED BY <2>2, <2>3 DEF TypeInv
<1>3. CASE Submit
  <2>1. slot = -1
    BY <1>3 DEF Submit, ProcedureInv, Within
  <2>2. Min(Free) \in Free
    BY <1>3, <2>1, FreeSlot DEF Submit
  <2>3. QED BY <1>3, <2>2 DEF Submit, Free, feeVars, TypeInv
<1>4. CASE SyncRmap
  BY <1>4, FeeLinkAssumption DEF SyncRmap, feeVars, TypeInv
<1>5. CASE TakeReply
  BY <1>5, SizeShape DEF TakeReply, feeVars, TypeInv
<1>6. CASE ReadReply
  <2>1. pending' \subseteq Slots
    BY <1>6 DEF ReadReply, TypeInv
  <2>2. <<>> \in Seq(Octet)
    BY EmptySeq
  <2>3. QED BY <1>6, <2>1, <2>2 DEF ReadReply, HandsOver, feeVars, TypeInv
<1>7. CASE Transmit
  <2>1. slot \in Slots /\ slot # -1
    BY <1>7, SlotsFinite DEF Transmit
  <2>2. PICK q \in Procedures : \E k \in 0 .. Len(q) : Within(q, k)
    BY DEF ProcedureInv
  <2>3. PICK k \in 0 .. Len(q) : Within(q, k)
    BY <2>2
  <2>4. pc = "rmap" /\ todo = Rest(q, k) /\ k < Len(q) /\ Transfers(q[k + 1])
    BY <1>7, <2>1, <2>3 DEF Transmit, NoReply, Within
  <2>5. Head(todo) \in Transfer
    BY <2>4, RestTail DEF Transfer
  <2>6. Command(Head(todo), slot) \in Commands
    BY <2>1, <2>5 DEF Commands
  <2>7. up' \in Seq(Commands)
    BY <1>7, <2>6, AppendProperties DEF Transmit, TypeInv
  <2>8. QED BY <1>7, <2>7 DEF Transmit, feeVars, TypeInv
<1>8. CASE Retry
  <2>1. tries' \in 0 .. MaxTries
    BY <1>8, FeeLinkAssumption DEF Retry, TypeInv
  <2>2. QED BY <1>8, <2>1 DEF Retry, feeVars, TypeInv
<1>9. CASE Synced
  BY <1>9, FeeLinkAssumption DEF Synced, feeVars, TypeInv
<1>10. CASE TakeData
  BY <1>10, SizeShape DEF TakeData, feeVars, TypeInv
<1>11. CASE ReadData
  <2>1. <<>> \in Seq(Octet)
    BY EmptySeq
  <2>2. QED BY <1>11, <2>1 DEF ReadData, HandsOver, feeVars, TypeInv
<1>r. CASE RecvPart
  <2>1. PICK n, lost \in Nat :
           /\ taken + n <= arrived /\ lost <= n /\ lost <= lead
           /\ taken' = taken + n /\ lead' = lead - lost
           /\ block' = block \o Octets(down, taken + lost, n - lost)
    BY <1>r, PartNumbers
  <2>2. /\ lead \in Nat /\ taken \in Nat /\ block \in Seq(Octet) /\ down \in Seq(Octet)
        /\ pc \in {"next", "rmap", "read", "drain", "crashed"}
    BY DEF TypeInv
  <2>3. lead' \in Nat /\ taken' \in Nat /\ taken + lost \in Nat /\ n - lost \in Nat
    BY <2>1, <2>2
  <2>4. block' \in Seq(Octet)
    <3> DEFINE o == Octets(down, taken + lost, n - lost)
    <3>1. o \in Seq(Octet)
      BY <2>2, <2>3, OctetsShape DEF Cuts
    <3> HIDE DEF o
    <3>2. block \o o \in Seq(Octet)
      BY <2>2, <3>1, ConcatProperties
    <3>3. QED BY <2>1, <3>2 DEF o
  <2>5. taken' <= arrived
    BY <2>1
  <2>6. pc' \in {"next", "rmap", "read", "drain", "crashed"}
    BY <1>r, <2>2 DEF RecvPart
  <2>7. UNCHANGED <<todo, slot, tries, size, missed, pending, gotReplies, gotData, feeVars, up, arrived>>
    BY <1>r DEF RecvPart
  <2>8. QED BY <2>3, <2>4, <2>5, <2>6, <2>7 DEF feeVars, TypeInv
<1>e. CASE RecvEmpty
  <2>1. PICK k \in Empties :
           /\ block' = SubSeq(block, 1, Len(block) - k)
           /\ lead' = IF k > Len(block) THEN lead + k - Len(block) ELSE lead
    BY <1>e DEF RecvEmpty
  <2>2. /\ k \in Nat /\ Len(block) \in Nat /\ lead \in Nat /\ missed \in Nat
        /\ block \in Seq(Octet)
    BY FeeLinkAssumption, LenProperties DEF TypeInv
  <2>3. lead' \in Nat
    BY <2>1, <2>2
  <2>4. block' \in Seq(Octet)
    <3>1. CASE k < Len(block)
      <4> DEFINE l == Len(block) - k
                 s == SubSeq(block, 1, l)
      <4>1. l \in Nat /\ l <= Len(block)
        BY <2>2, <3>1
      <4> HIDE DEF l
      <4>2. \A i \in 1 .. l : block[i] \in Octet
        BY <2>2, <4>1, ElementOfSeq
      <4>3. s = [i \in 1 .. l |-> block[i]]
        BY <2>2, <4>1
      <4>4. s \in [1 .. l -> Octet]
        BY <4>2, <4>3
      <4> HIDE DEF s
      <4>5. s \in Seq(Octet)
        BY <4>1, <4>4, SeqDef
      <4>6. QED BY <2>1, <4>5 DEF s, l
    <3>2. CASE ~(k < Len(block))
      <4>1. Len(block) - k < 1 /\ Len(block) - k \in Int
        BY <2>2, <3>2
      <4>2. SubSeq(block, 1, Len(block) - k) = <<>>
        BY <2>2, <4>1
      <4>3. QED BY <2>1, <4>2, EmptySeq
    <3>3. QED BY <3>1, <3>2
  <2>5. missed' \in Nat /\ UNCHANGED <<todo, pc, slot, tries, size, taken, pending, gotReplies,
                                       gotData, feeVars, up, arrived>>
    BY <1>e, <2>2 DEF RecvEmpty
  <2>6. QED BY <2>3, <2>4, <2>5 DEF feeVars, TypeInv
<1>12. CASE Execute
  <2> DEFINE frame == Head(up)
             buf == SubSeq(frame, GRESB_HDR_SIZE + 1, Len(frame))
             pkt == FromBuffer(buf, FrameSize(frame) + GRESB_HDR_SIZE)
  <2>1. up # <<>> /\ up \in Seq(Commands)
    BY <1>12 DEF Execute, TypeInv
  <2>2. frame \in Commands /\ up' \in Seq(Commands)
    BY <1>12, <2>1, HeadTailProperties DEF Execute
  <2>3. pkt = Invalid \/ (pkt \in Accepted /\ Len(pkt.data) = pkt.data_len)
    BY <2>2, Understood, Zenon
  <2>4. CASE pkt = Invalid \/ ~Mapped(pkt.addr, pkt.data_len)
    <3>1. alive' = FALSE /\ UNCHANGED <<fee, mem, trigger>>
      BY <1>12, <2>4 DEF Execute
    <3>2. QED BY <1>12, <2>2, <3>1 DEF Execute, feeElse, clientVars, TypeInv
  <2>5. CASE pkt # Invalid /\ Mapped(pkt.addr, pkt.data_len)
    <3>1. /\ mem' = IF pkt.cmd = WRITE
                    THEN [mem EXCEPT ![pkt.addr] =
                            pkt.data \o SubSeq(@, pkt.data_len + 1, Len(@))]
                    ELSE mem
          /\ trigger' = (trigger \/ (pkt.cmd = WRITE /\ pkt.addr = ExecuteOp))
          /\ fee' = [pc |-> "reply", pkt |-> pkt] /\ alive' = alive
      BY <1>12, <2>5 DEF Execute
    <3> HIDE DEF pkt
    <3>2. pkt \in Accepted /\ Len(pkt.data) = pkt.data_len
      BY <2>3, <2>5
    <3>3. /\ pkt.data \in Seq(Octet) /\ pkt.addr \in Addresses /\ pkt.data_len \in Nat
      BY <3>2, ThreeOctets DEF Accepted, RmapPkt
    <3>4. mem' \in [Addresses -> Seq(Octet)] /\ \A a \in Addresses : Len(mem'[a]) >= Len(Initial)
      <4>1. CASE pkt.cmd # WRITE
        BY <3>1, <4>1 DEF TypeInv
      <4>2. CASE pkt.cmd = WRITE
        <5> DEFINE old == mem[pkt.addr]
                   n == pkt.data_len
                   s == SubSeq(old, n + 1, Len(old))
                   new == pkt.data \o s
        <5>1. old \in Seq(Octet) /\ Len(old) \in Nat /\ n \in Nat /\ Len(old) >= Len(Initial)
          BY <3>3, LenProperties DEF TypeInv
        <5>2. mem' = [mem EXCEPT ![pkt.addr] = new]
          BY <3>1, <4>2
        <5> HIDE DEF old, n
        <5>3. \A i \in 1 .. Len(old) : old[i] \in Octet
          BY <5>1, ElementOfSeq
        <5>4. s \in Seq(Octet) /\ Len(s) \in Nat /\ Len(s) >= Len(old) - n
          <6>1. CASE n < Len(old)
            <7>1. s = [i \in 1 .. Len(old) - n |-> old[n + i]]
              BY <5>1, <6>1
            <7>2. \A i \in 1 .. Len(old) - n : old[n + i] \in Octet
              BY <5>1, <5>3, <6>1
            <7>3. s \in [1 .. Len(old) - n -> Octet]
              BY <7>1, <7>2
            <7> HIDE DEF s
            <7>4. Len(old) - n \in Nat
              BY <5>1, <6>1
            <7>5. QED BY <7>3, <7>4, SeqDef
          <6>2. CASE ~(n < Len(old))
            <7>1. s = <<>>
              BY <5>1, <6>2
            <7> HIDE DEF s
            <7>2. s \in Seq(Octet) /\ Len(s) = 0
              BY <7>1, EmptySeq
            <7>3. QED BY <5>1, <6>2, <7>2
          <6>3. QED BY <6>1, <6>2
        <5> HIDE DEF s
        <5>5. new \in Seq(Octet) /\ Len(new) = n + Len(s)
          BY <3>2, <3>3, <5>4, ConcatProperties DEF n
        <5> HIDE DEF new
        <5>6. Len(Initial) \in Nat
          BY FeeLinkAssumption, LenProperties
        <5>7. Len(new) >= Len(Initial)
          BY <5>1, <5>4, <5>5, <5>6
        <5>8. QED BY <3>3, <5>2, <5>5, <5>7 DEF TypeInv
      <4>3. QED BY <4>1, <4>2
    <3>5. trigger' \in BOOLEAN /\ alive' \in BOOLEAN
      BY <3>1 DEF TypeInv
    <3>6. fee'.pc = "reply" /\ fee'.pkt = pkt
      BY <3>1
    <3>7. QED BY <1>12, <2>2, <3>2, <3>4, <3>5, <3>6 DEF Execute, feeElse, clientVars, TypeInv
  <2>6. QED BY <2>4, <2>5
<1>13. CASE SendReply \/ SendData
  <2>1. /\ down' \in Seq(Octet) /\ Len(down) <= Len(down')
        /\ replies' \in Seq(Reply) /\ made' \in Nat
    BY <1>13, Sends
  <2>2. arrived' \in 0 .. Len(down') /\ taken <= arrived'
    <3>1. arrived' = arrived /\ Len(down) \in Nat /\ Len(down') \in Nat
      BY <1>13, <2>1, LenProperties DEF SendReply, SendData, feeElse, TypeInv
    <3>2. QED BY <2>1, <3>1 DEF TypeInv
  <2>3. /\ fee'.pc \in {"rx", "reply"}
        /\ fee'.pc = "reply" => fee'.pkt \in Accepted
    BY <1>13 DEF SendReply, SendData, TypeInv
  <2>4. UNCHANGED <<clientVars, mem, trigger, alive, up>>
    BY <1>13 DEF SendReply, SendData, feeElse
  <2>5. QED BY <2>1, <2>2, <2>3, <2>4 DEF clientVars, TypeInv
<1>14. QED BY <1>1, <1>2, <1>3, <1>4, <1>5, <1>6, <1>7, <1>8, <1>9, <1>10, <1>11, <1>r, <1>e, <1>12,
              <1>13
           DEF Next, Client, PollThread

LEMMA StreamStep ==
    ASSUME IInv, [Next]_vars
    PROVE  StreamInv'
<1>1. CASE SendReply \/ SendData
  BY <1>1, Sends
<1>2. CASE ~(SendReply \/ SendData)
  <2>1. UNCHANGED <<ends, down, replies, made>>
    BY <1>2 DEF Next, Client, PollThread, vars, clientVars, feeVars, feeElse, Arrive, Submit,
                SyncRmap, TakeReply, RecvPart, RecvEmpty, ReadReply, Transmit, Retry, Synced, TakeData,
                ReadData, Execute
  <2>2. QED BY <2>1, StreamUntouched DEF IInv
<1>3. QED BY <1>1, <1>2

LEMMA ClientStep ==
    ASSUME IInv, [Next]_vars
    PROVE  ClientInv'
<1>1. /\ TypeInv /\ StreamInv /\ ClientInv /\ ends \subseteq Marks
      /\ Len(replies) \in Nat /\ made \in Nat
  BY LenProperties DEF IInv, TypeInv, StreamInv
<1>2. CASE ReadReply
  BY <1>2, ReadsReply
<1>3. CASE ReadData
  BY <1>3, ReadsData
<1>r. CASE RecvPart
  BY <1>r, ReceivesPart
<1>e. CASE RecvEmpty
  <2>1. missed' = missed + 1 /\ missed \in Nat
    BY <1>1, <1>e DEF RecvEmpty, TypeInv
  <2>2. missed' # 0
    BY <2>1
  <2>3. QED BY <2>2 DEF ClientInv
<1>4. CASE SendReply \/ SendData
  <2>1. UNCHANGED clientVars
    BY <1>4 DEF SendReply, SendData, feeElse
  <2>2. UNCHANGED <<pc, size, taken, block, lead, missed, gotReplies, gotData>>
    BY <2>1 DEF clientVars, stream
  <2>3. /\ \A m \in ends : /\ m \in ends'
                           /\ ReplyNext(m) => ReplyNext(m)' /\ NextReply(m)' = NextReply(m)
                           /\ DataNext(m) => DataNext(m)'
        /\ replies' \in Seq(Reply) /\ made' \in Nat
        /\ Len(replies) <= Len(replies') /\ made <= made'
        /\ \A i \in 1 .. Len(replies) : replies'[i] = replies[i]
        /\ \A i \in 1 .. Len(down) : down'[i] = down[i]
    BY <1>4, Sends
  <2>4. Len(replies') \in Nat
    BY <2>3, LenProperties
  <2>5. /\ pc' = "read" => \A m \in ends : At(m) => ReplyNext(m) /\ size' = Len(NextReply(m))
        /\ pc' = "drain" => \A m \in ends : At(m) => DataNext(m) /\ size' = Len(NextData(m))
    BY <2>2 DEF At
  <2>6. QED BY <1>1, <2>2, <2>3, <2>4, <2>5, ClientUntouched
<1>5. CASE /\ UNCHANGED <<ends, down, replies, made, stream, gotReplies, gotData>>
           /\ pc' \notin {"read", "drain"} => pc \notin {"read", "drain"}
           /\ pc' = "read" => \A m \in ends : At(m) => ReplyNext(m) /\ size' = Len(NextReply(m))
           /\ pc' = "drain" => \A m \in ends : At(m) => DataNext(m) /\ size' = Len(NextData(m))
  <2>1. \A m \in ends : /\ m \in ends'
                        /\ ReplyNext(m) => ReplyNext(m)' /\ NextReply(m)' = NextReply(m)
                        /\ DataNext(m) => DataNext(m)'
    BY <1>1, <1>5, StreamUntouched
  <2>2. UNCHANGED <<taken, block, lead, missed>>
    BY <1>5 DEF stream
  <2>3. QED BY <1>1, <1>5, <2>1, <2>2, ClientUntouched
<1>6. CASE TakeReply
  <2>1. /\ UNCHANGED <<ends, down, replies, made, stream, gotReplies, gotData>> /\ pc = "rmap" /\ pc' = "read"
        /\ NextSize(RMAP_PROTOCOL_ID) # 0 /\ size' = NextSize(RMAP_PROTOCOL_ID)
    BY <1>6 DEF TakeReply, feeVars
  <2>2. ASSUME NEW m \in ends, At(m) PROVE ReplyNext(m) /\ size' = Len(NextReply(m))
    <3>1. taken = m.at
      <4>1. block = <<>> /\ taken = m.at + Len(block) /\ m.at \in Nat
        BY <1>1, <2>1, <2>2 DEF At, Holding, Marks
      <4>2. QED BY <4>1, EmptySeq
    <3>2. QED BY <1>1, <2>1, <3>1, SizeGiven
  <2>3. QED BY <1>5, <2>1, <2>2
<1>7. CASE TakeData
  <2>1. /\ UNCHANGED <<ends, down, replies, made, stream, gotReplies, gotData>> /\ pc = "next" /\ pc' = "drain"
        /\ NextSize(FEE_DATA_PROTOCOL) # 0 /\ size' = NextSize(FEE_DATA_PROTOCOL)
    BY <1>7 DEF TakeData, feeVars
  <2>2. ASSUME NEW m \in ends, At(m) PROVE DataNext(m) /\ size' = Len(NextData(m))
    <3>1. taken = m.at
      <4>1. block = <<>> /\ taken = m.at + Len(block) /\ m.at \in Nat
        BY <1>1, <2>1, <2>2 DEF At, Holding, Marks
      <4>2. QED BY <4>1, EmptySeq
    <3>2. QED BY <1>1, <2>1, <3>1, SizeGiven
  <2>3. QED BY <1>5, <2>1, <2>2
<1>8. CASE \/ UNCHANGED vars \/ Arrive \/ Submit \/ SyncRmap \/ Transmit \/ Retry \/ Synced \/ Execute
  <2>1. UNCHANGED <<ends, down, replies, made, stream, gotReplies, gotData>>
        /\ \/ pc' \in {"next", "rmap"} /\ pc \in {"next", "rmap"}
           \/ UNCHANGED <<pc, size>>
    BY <1>8 DEF vars, clientVars, feeVars, feeElse, Arrive, Submit, SyncRmap, Transmit, Retry, Synced,
                NoReply, Execute
  <2>2. /\ pc' = "read" => \A m \in ends : At(m) => ReplyNext(m) /\ size' = Len(NextReply(m))
        /\ pc' = "drain" => \A m \in ends : At(m) => DataNext(m) /\ size' = Len(NextData(m))
    BY <2>1 DEF At
  <2>3. pc' \notin {"read", "drain"} => pc \notin {"read", "drain"}
    BY <2>1
  <2>4. QED BY <1>5, <2>1, <2>2, <2>3
<1>9. QED BY <1>2, <1>3, <1>r, <1>e, <1>4, <1>6, <1>7, <1>8 DEF Next, Client, PollThread

\* The procedure goes on, or the log gives slots back.
LEMMA WithinStill ==
    ASSUME TypeInv, NEW q \in Procedures, NEW k \in 0 .. Len(q), Within(q, k),
           UNCHANGED <<todo, slot>>, pending' \subseteq pending,
           pc' \notin {"next", "crashed"} => k < Len(q),
           slot # -1 => pc' \in {"rmap", "read", "crashed"}
    PROVE  Within(q, k)'
<1>1. /\ pending \subseteq Slots /\ pending' \subseteq Slots
      /\ Cardinality(Due(q, k)) \in Nat
  BY DueShrinks DEF TypeInv
<1>2. Cardinality(pending') <= Cardinality(pending) /\ Cardinality(pending') \in Nat
      /\ Cardinality(pending) \in Nat
  BY <1>1, SlotsFinite, FS_Subset
<1>3. Cardinality(Slots) \in Nat
  BY SlotsFinite
<1>4. todo = Rest(q, k) /\ (slot # -1 => Transfers(q[k + 1]))
      /\ Cardinality(pending) + Cardinality(Due(q, k))
           <= Cardinality(Slots) + (IF slot = -1 THEN 0 ELSE 1)
  BY DEF Within
<1>5. Cardinality(pending') + Cardinality(Due(q, k))
        <= Cardinality(Slots) + (IF slot' = -1 THEN 0 ELSE 1)
  BY <1>1, <1>2, <1>3, <1>4
<1>6. QED BY <1>4, <1>5 DEF Within

\* A step of the procedure is through.
LEMMA WithinNext ==
    ASSUME TypeInv, NEW q \in Procedures, NEW k \in 0 .. Len(q), Within(q, k), k < Len(q),
           todo' = Tail(todo), slot' = -1, pc' \in {"next", "crashed"}, UNCHANGED pending
    PROVE  k + 1 \in 0 .. Len(q) /\ Within(q, k + 1)'
<1>1. /\ todo = Rest(q, k) /\ (slot # -1 => Transfers(q[k + 1]))
      /\ Cardinality(pending) + Cardinality(Due(q, k))
           <= Cardinality(Slots) + (IF slot = -1 THEN 0 ELSE 1)
  BY DEF Within
<1>2. k + 1 \in 0 .. Len(q) /\ todo' = Rest(q, k + 1)
  BY <1>1, RestTail
<1>3. /\ Cardinality(Due(q, k)) \in Nat /\ Cardinality(Due(q, k + 1)) \in Nat
      /\ Cardinality(Due(q, k + 1)) <= Cardinality(Due(q, k))
      /\ Transfers(q[k + 1]) => Cardinality(Due(q, k)) = Cardinality(Due(q, k + 1)) + 1
  BY DueShrinks
<1>4. Cardinality(pending) \in Nat /\ Cardinality(Slots) \in Nat
  BY SlotsFinite DEF TypeInv
<1>5. Cardinality(pending) + Cardinality(Due(q, k + 1)) <= Cardinality(Slots)
  BY <1>1, <1>3, <1>4
<1>6. Cardinality(pending') + Cardinality(Due(q, k + 1))
        <= Cardinality(Slots) + (IF slot' = -1 THEN 0 ELSE 1)
  BY <1>3, <1>4, <1>5
<1>7. Within(q, k + 1)'
  BY <1>2, <1>6 DEF Within
<1>8. QED BY <1>2, <1>7

\* A transfer has been given a slot.
LEMMA WithinSubmit ==
    ASSUME TypeInv, ProcedureInv, NEW q \in Procedures, NEW k \in 0 .. Len(q), Within(q, k), Submit
    PROVE  Within(q, k)'
<1>1. /\ slot = -1 /\ todo = Rest(q, k) /\ todo # <<>> /\ Transfers(Head(todo))
      /\ Cardinality(pending) + Cardinality(Due(q, k)) <= Cardinality(Slots) + 0
  BY DEF Within, Submit
<1>2. k < Len(q) /\ Transfers(q[k + 1])
  BY <1>1, RestTail
<1>3. Min(Free) \in Slots /\ Min(Free) \notin pending
  BY <1>1, FreeSlot DEF Free
<1>4. Cardinality(pending') = Cardinality(pending) + 1
  <2>1. IsFiniteSet(pending)
    BY SlotsFinite DEF TypeInv
  <2>2. pending' = pending \cup {Min(Free)}
    BY DEF Submit
  <2>3. QED BY <1>3, <2>1, <2>2, FS_AddElement
<1>5. Cardinality(pending) \in Nat /\ Cardinality(Slots) \in Nat /\ Cardinality(Due(q, k)) \in Nat
  BY SlotsFinite, DueShrinks DEF TypeInv
<1>6. slot' # -1 /\ pc' = "rmap" /\ todo' = todo
  BY <1>3, SlotsFinite DEF Submit
<1>7. Cardinality(pending') + Cardinality(Due(q, k)) <= Cardinality(Slots) + 1
  BY <1>1, <1>4, <1>5
<1>8. QED BY <1>1, <1>2, <1>6, <1>7 DEF Within

LEMMA ProcedureStep ==
    ASSUME IInv, [Next]_vars
    PROVE  ProcedureInv'
<1>1. PICK q \in Procedures : \E k \in 0 .. Len(q) : Within(q, k)
  BY DEF IInv, ProcedureInv
<1>2. PICK k \in 0 .. Len(q) : Within(q, k)
  BY <1>1
<1>3. TypeInv /\ ProcedureInv
  BY DEF IInv
<1>4. /\ todo = Rest(q, k) /\ (pc \notin {"next", "crashed"} => k < Len(q))
      /\ (slot # -1 => pc \in {"rmap", "read", "crashed"})
  BY <1>2 DEF Within
<1>5. todo # <<>> => k < Len(q)
  BY <1>4, RestTail
<1> SUFFICES Within(q, k)' \/ (k + 1 \in 0 .. Len(q) /\ Within(q, k + 1)')
  BY DEF ProcedureInv
<1>6. CASE Submit
  BY <1>2, <1>3, <1>6, WithinSubmit
<1>7. CASE Transmit
  BY <1>2, <1>3, <1>4, <1>7, WithinNext DEF Transmit, NoReply
<1>8. CASE Synced
  BY <1>2, <1>3, <1>4, <1>8, WithinNext DEF Synced, NoReply
<1>9. CASE ReadData
  <2>1. slot = -1 /\ k < Len(q) /\ UNCHANGED <<slot, pending>> /\ pc' \in {"next", "crashed"}
    BY <1>4, <1>9 DEF ReadData, HandsOver
  <2>2. todo' = Tail(todo) \/ todo' = todo
    BY <1>9 DEF ReadData
  <2>3. CASE todo' = Tail(todo)
    BY <1>2, <1>3, <2>1, <2>3, WithinNext
  <2>4. CASE todo' = todo
    BY <1>2, <1>3, <2>1, <2>4, WithinStill
  <2>5. QED BY <2>2, <2>3, <2>4
<1>10. CASE SyncRmap \/ TakeReply \/ RecvPart \/ RecvEmpty \/ ReadReply \/ Retry \/ TakeData
  <2>1. UNCHANGED todo /\ pending' \subseteq pending
    BY <1>10 DEF SyncRmap, TakeReply, RecvPart, RecvEmpty, ReadReply, Retry, TakeData
  <2>2. k < Len(q)
    BY <1>4, <1>5, <1>10
       DEF SyncRmap, TakeReply, RecvPart, RecvEmpty, Receiving, ReadReply, Retry, TakeData, NoReply, Op
  <2>3. UNCHANGED slot /\ (slot # -1 => pc' \in {"rmap", "read", "crashed"})
    BY <1>4, <1>10
       DEF SyncRmap, TakeReply, RecvPart, RecvEmpty, Receiving, ReadReply, HandsOver, Retry, TakeData,
           NoReply
  <2>4. QED BY <1>2, <1>3, <2>1, <2>2, <2>3, WithinStill
<1>11. CASE UNCHANGED vars \/ Arrive \/ PollThread \/ SendData
  <2>1. UNCHANGED <<todo, slot, pending, pc>>
    BY <1>11 DEF vars, clientVars, Arrive, PollThread, Execute, SendReply, SendData, feeElse
  <2>2. QED BY <1>2, <1>3, <1>4, <2>1, WithinStill
<1>12. QED BY <1>6, <1>7, <1>8, <1>9, <1>10, <1>11 DEF Next, Client

-----------------------------------------------------------------------------
(* The theorems.                                                           *)

\* Every reachable state satisfies the invariant.
LEMMA Inductive == Spec => []IInv
<1>1. IInv /\ [Next]_vars => IInv'
  BY TypeStep, ProcedureStep, StreamStep, ClientStep DEF IInv
<1>2. QED BY Initially, <1>1, PTL DEF Spec

\* Whatever the client's procedure is, and however the octets arrive: the
\* types are kept, and as long as no piece of a frame was late, what the client
\* has in hand began at the start of a frame of the stream that both callbacks
\* read.
THEOREM TypeCorrect == Spec => []TypeOK
<1>1. IInv => TypeOK
  <2> SUFFICES ASSUME IInv PROVE TypeOK
    OBVIOUS
  <2>1. \A i \in DOMAIN down : down[i] \in Octet
    BY ElementOfSeq, LenProperties DEF IInv, TypeInv
  <2>2. \A m \in ends : m.at \in 0 .. Len(down)
    BY LenProperties DEF IInv, TypeInv, StreamInv, Marks
  <2>3. missed = 0 => \E m \in ends : taken = m.at + Len(block)
    BY DEF IInv, ClientInv, At, Holding
  <2>4. \A i \in DOMAIN block : block[i] \in Octet
    BY ElementOfSeq, LenProperties DEF IInv, TypeInv
  <2>5. taken \in 0 .. arrived
    BY LenProperties DEF IInv, TypeInv
  <2>6. QED BY <2>1, <2>2, <2>3, <2>4, <2>5 DEF IInv, TypeInv, TypeOK
<1>2. QED BY Inductive, <1>1, PTL

\* As long as no piece of a frame was late, each callback hands over the
\* packets of its kind, all and in order, and every reply decodes to the
\* packet it was built from: encoding and decoding fit, whatever the numbers
\* in the header are and however many pieces a frame comes in.
THEOREM DeliveredCorrect == Spec => []Delivered
<1>1. IInv => Delivered
  <2> SUFFICES ASSUME IInv, missed = 0 PROVE Reassembled
    BY DEF Delivered
  <2>1. PICK m \in ends : Got(m)
    BY DEF IInv, ClientInv, At
  <2>2. replies \in Seq(Reply) /\ made \in Nat /\ m.replies \in Nat /\ m.data \in Nat
    BY DEF IInv, TypeInv, StreamInv, Marks
  <2>3. IsPrefix(gotReplies, replies)
    BY <2>1, <2>2, LenProperties DEF Got, IsPrefix
  <2>4. IsPrefix(gotData, [n \in 1 .. made |-> DataPacket(n)])
    BY <2>1, <2>2, LenProperties DEF Got, IsPrefix
  <2>5. QED BY <2>3, <2>4 DEF Reassembled
<1>2. QED BY Inductive, <1>1, PTL

\* As long as no command reads more than four octets, and each leads into the
\* registers or the SRAM, as the library sees to, the simulator
\* understands every command the library builds, and goes on running: the
\* octets that rmap_pkt_from_buffer() asks for in vain are made up for by
\* the frame's header, which the caller counts twice.
THEOREM UnderstoodCorrect ==
    ASSUME SmallReads
    PROVE  Spec => []CommandsUnderstood
<1>1. Init => CommandsUnderstood
  BY DEF Init, CommandsUnderstood
<1>2. IInv /\ CommandsUnderstood /\ [Next]_vars => CommandsUnderstood'
  <2> SUFFICES ASSUME IInv, CommandsUnderstood, [Next]_vars PROVE CommandsUnderstood'
    OBVIOUS
  <2>1. CASE Execute
    <3> DEFINE frame == Head(up)
               buf == SubSeq(frame, GRESB_HDR_SIZE + 1, Len(frame))
               pkt == FromBuffer(buf, FrameSize(frame) + GRESB_HDR_SIZE)
    <3>1. frame \in Commands
      BY <2>1, HeadTailProperties DEF Execute, IInv, TypeInv
    <3>2. pkt # Invalid /\ Mapped(pkt.addr, pkt.data_len)
      BY <3>1, Understood, Zenon
    <3>3. QED BY <2>1, <3>2 DEF Execute, CommandsUnderstood
  <2>2. CASE ~Execute
    BY <2>2 DEF Next, Client, PollThread, vars, clientVars, feeVars, feeElse, Arrive, Submit, SyncRmap,
                TakeReply, RecvPart, RecvEmpty, ReadReply, Transmit, Retry, Synced, TakeData, ReadData, SendReply, SendData,
                CommandsUnderstood
  <2>3. QED BY <2>1, <2>2
<1>3. QED BY Inductive, <1>1, <1>2, PTL DEF Spec
=============================================================================
