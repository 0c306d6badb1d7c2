------------------------- MODULE GresbBridge_proofs -------------------------
(***************************************************************************)
(* Theorems about the bridge, for any number of users and of packets and   *)
(* however the pieces, the users and the two connections interleave.       *)
(***************************************************************************)
EXTENDS GresbBridge, SequenceTheorems, TLAPS

-----------------------------------------------------------------------------
(* Streams of pieces.                                                      *)

LEMMA PiecesShape ==
    ASSUME NEW ends, NEW f \in ends, NEW b \in Nat, NEW n \in Nat
    PROVE  /\ Pieces(f, b, n) \in Seq(PiecesOf(ends))
           /\ Len(Pieces(f, b, n)) = n
           /\ \A k \in 1 .. n : /\ Pieces(f, b, n)[k].from = f
                                /\ Pieces(f, b, n)[k].i = b + k
<1>1. \A k \in 1 .. n : [from |-> f, i |-> b + k] \in PiecesOf(ends)
  BY DEF PiecesOf
<1>2. Pieces(f, b, n) \in [1 .. n -> PiecesOf(ends)]
  BY <1>1 DEF Pieces
<1>3. Pieces(f, b, n) \in Seq(PiecesOf(ends))
  BY <1>2, SeqDef
<1>4. Len(Pieces(f, b, n)) = n
  BY <1>2
<1>5. QED BY <1>3, <1>4 DEF Pieces

\* n pieces of a stream, behind the first o.
Part(s, o, n) == SubSeq(s, o + 1, o + n)

LEMMA PiecesPart ==
    ASSUME NEW f, NEW b \in Nat, NEW m \in Nat, NEW o \in Nat, NEW n \in Nat, o + n <= m,
           NEW s, s = Pieces(f, b, m)
    PROVE  Part(s, o, n) = Pieces(f, b + o, n)
<1> DEFINE p == Pieces(f, b, m)
           e == PiecesOf({f})
           q == SubSeq(p, o + 1, o + n)
<1>1. p \in Seq(e) /\ Len(p) = m /\ \A k \in 1 .. m : p[k] = [from |-> f, i |-> b + k]
  <2>1. p \in Seq(e) /\ Len(p) = m
    BY PiecesShape
  <2>2. QED BY <2>1 DEF Pieces
<1> HIDE DEF p, e
<1>2. /\ q \in Seq(e) /\ Len(q) = n
      /\ \A k \in 1 .. n : q[k] = p[o + 1 + k - 1]
  <2>1. \A k \in (o + 1) .. (o + n) : p[k] \in e
    <3>1. \A k \in (o + 1) .. (o + n) : k \in 1 .. Len(p)
      BY <1>1
    <3>2. QED BY <1>1, <3>1, ElementOfSeq
  <2>2. /\ (o + n) - (o + 1) + 1 = n /\ o + 1 \in Int /\ o + n \in Int
        /\ o + 1 <= o + n \/ n = 0
    OBVIOUS
  <2>3. QED BY <1>1, <2>1, <2>2, SubSeqProperties
<1>3. \A k \in 1 .. n : q[k] = [from |-> f, i |-> b + o + k]
  <2> TAKE k \in 1 .. n
  <2>1. o + 1 + k - 1 = o + k /\ o + k \in 1 .. m /\ b + (o + k) = b + o + k
    OBVIOUS
  <2>2. QED BY <1>1, <1>2, <2>1
<1> HIDE DEF q
<1>4. q = [k \in 1 .. n |-> [from |-> f, i |-> b + o + k]]
  <2>1. DOMAIN q = 1 .. n
    BY <1>2, LenProperties
  <2>2. q = [k \in DOMAIN q |-> q[k]]
    BY <1>2, SeqDef
  <2>3. QED BY <1>3, <2>1, <2>2
<1>5. QED BY <1>4 DEF q, p, Pieces, Part

\* The stream r is s with n more pieces from one end, after its place b.
Grown(r, s, f, b, n) ==
    /\ Len(s) \in Nat /\ Len(r) = Len(s) + n
    /\ \A k \in 1 .. Len(s) : r[k] = s[k]
    /\ \A k \in 1 .. Len(r) : k > Len(s) => r[k] = [from |-> f, i |-> b + (k - Len(s))]

LEMMA MorePieces ==
    ASSUME NEW ends, NEW s \in Seq(PiecesOf(ends)),
           NEW f \in ends, NEW b \in Nat, NEW n \in Nat
    PROVE  /\ s \o Pieces(f, b, n) \in Seq(PiecesOf(ends))
           /\ Grown(s \o Pieces(f, b, n), s, f, b, n)
<1> DEFINE p == Pieces(f, b, n)
           r == s \o p
           E == PiecesOf(ends)
<1>1. p \in Seq(E)
  BY PiecesShape
<1>2. Len(p) = n
  BY PiecesShape
<1>3. \A k \in 1 .. n : p[k] = [from |-> f, i |-> b + k]
  BY DEF Pieces
<1> HIDE DEF p, E
<1>4. r \in Seq(E) /\ Len(r) = Len(s) + n
      /\ \A k \in 1 .. Len(s) + n : r[k] = IF k <= Len(s) THEN s[k] ELSE p[k - Len(s)]
  BY <1>1, <1>2, ConcatProperties DEF E
<1>5. Len(s) \in Nat
  BY LenProperties
<1> HIDE DEF r
<1>6. ASSUME NEW k \in 1 .. Len(s) PROVE r[k] = s[k]
  <2>1. k \in 1 .. Len(s) + n /\ k <= Len(s)
    BY <1>5
  <2>2. QED BY <1>4, <2>1
<1>7. ASSUME NEW k \in 1 .. Len(r), k > Len(s)
      PROVE  r[k] = [from |-> f, i |-> b + (k - Len(s))]
  <2>1. k - Len(s) \in 1 .. n /\ ~(k <= Len(s)) /\ k \in 1 .. Len(s) + n
    BY <1>4, <1>5, <1>7
  <2>2. r[k] = p[k - Len(s)]
    BY <1>4, <2>1
  <2>3. QED BY <1>3, <2>1, <2>2
<1>8. Grown(r, s, f, b, n)
  BY <1>4, <1>5, <1>6, <1>7 DEF Grown
<1>9. QED BY <1>4, <1>8 DEF r, p, E

LEMMA MorePlaces ==
    ASSUME NEW r, NEW s, NEW f, NEW b \in Nat, NEW n \in Nat, Grown(r, s, f, b, n)
    PROVE  /\ Places(r, f) = Places(s, f) \cup (b + 1) .. (b + n)
           /\ \A g : g # f => Places(r, g) = Places(s, g)
<1>1. /\ Len(s) \in Nat /\ Len(r) = Len(s) + n
  BY DEF Grown
<1>2. ASSUME NEW g, NEW i \in Places(s, g) PROVE i \in Places(r, g)
  <2>1. PICK k \in 1 .. Len(s) : s[k].from = g /\ s[k].i = i
    BY DEF Places
  <2>2. k \in 1 .. Len(r) /\ r[k] = s[k]
    BY <1>1 DEF Grown
  <2>3. QED BY <2>1, <2>2 DEF Places
<1>3. ASSUME NEW i \in (b + 1) .. (b + n) PROVE i \in Places(r, f)
  <2> DEFINE k == Len(s) + (i - b)
  <2>1. k \in 1 .. Len(r) /\ k > Len(s) /\ b + (k - Len(s)) = i
    BY <1>1
  <2> HIDE DEF k
  <2>2. r[k] = [from |-> f, i |-> i]
    BY <2>1 DEF Grown
  <2>3. QED BY <2>1, <2>2 DEF Places
<1>4. ASSUME NEW g, NEW i \in Places(r, g), i \notin Places(s, g)
      PROVE  g = f /\ i \in (b + 1) .. (b + n)
  <2>1. PICK k \in 1 .. Len(r) : r[k].from = g /\ r[k].i = i
    BY DEF Places
  <2>2. k > Len(s)
    <3> SUFFICES ASSUME k <= Len(s) PROVE FALSE
      BY <1>1
    <3>1. k \in 1 .. Len(s)
      BY <1>1
    <3>2. r[k] = s[k]
      BY <3>1 DEF Grown
    <3>3. QED BY <1>4, <2>1, <3>1, <3>2 DEF Places
  <2>3. r[k] = [from |-> f, i |-> b + (k - Len(s))]
    BY <2>2 DEF Grown
  <2>4. g = f /\ i = b + (k - Len(s))
    BY <2>1, <2>3
  <2>5. b + (k - Len(s)) \in (b + 1) .. (b + n)
    BY <1>1, <2>2
  <2>6. QED BY <2>4, <2>5
<1>5. Places(r, f) = Places(s, f) \cup (b + 1) .. (b + n)
  BY <1>2, <1>3, <1>4
<1>6. ASSUME NEW g, g # f PROVE Places(r, g) = Places(s, g)
  BY <1>2, <1>4, <1>6
<1>7. QED BY <1>5, <1>6

\* Later places keep a stream in order.
LEMMA OrderKept ==
    ASSUME NEW ends, NEW s \in Seq(PiecesOf(ends)), NEW r, NEW f, NEW b \in Nat, NEW n \in Nat,
           Grown(r, s, f, b, n), InOrder(s), \A i \in Places(s, f) : i <= b
    PROVE  InOrder(r)
<1>1. Len(s) \in Nat /\ Len(r) = Len(s) + n
  BY DEF Grown
<1> SUFFICES ASSUME NEW j \in 1 .. Len(r), NEW k \in 1 .. Len(r), j < k, r[j].from = r[k].from
             PROVE  r[j].i < r[k].i
  BY DEF InOrder
<1>2. CASE k <= Len(s)
  <2>1. j \in 1 .. Len(s) /\ k \in 1 .. Len(s)
    BY <1>1, <1>2
  <2>2. r[j] = s[j] /\ r[k] = s[k]
    BY <2>1 DEF Grown
  <2>3. QED BY <2>1, <2>2 DEF InOrder
<1>3. CASE j <= Len(s) /\ k > Len(s)
  <2>1. j \in 1 .. Len(s)
    BY <1>1, <1>3
  <2>2. r[j] = s[j] /\ s[j].i \in Nat
    <3>1. s[j] \in PiecesOf(ends)
      BY <2>1, ElementOfSeq
    <3>2. QED BY <2>1, <3>1 DEF Grown, PiecesOf
  <2>3. r[k].from = f /\ r[k].i = b + (k - Len(s))
    BY <1>3 DEF Grown
  <2>4. s[j].i <= b
    BY <2>1, <2>2, <2>3 DEF Places
  <2>5. b + (k - Len(s)) > b
    BY <1>1, <1>3
  <2>6. QED BY <1>1, <2>2, <2>3, <2>4, <2>5
<1>4. CASE j > Len(s)
  <2>1. k > Len(s)
    BY <1>1, <1>4
  <2>2. r[j].i = b + (j - Len(s)) /\ r[k].i = b + (k - Len(s))
    BY <1>4, <2>1 DEF Grown
  <2>3. QED BY <1>1, <2>2
<1>5. QED BY <1>1, <1>2, <1>3, <1>4

\* A stream that ends with a packet, or with the piece before the new ones,
\* stays unmixed.
LEMMA UnmixedKept ==
    ASSUME NEW s, NEW r, NEW f, NEW b \in Nat, NEW n \in Nat \ {0}, Grown(r, s, f, b, n),
           Unmixed(s), Ended(s) \/ (s # <<>> /\ Last(s) = [from |-> f, i |-> b])
    PROVE  /\ Unmixed(r) /\ r # <<>> /\ Last(r) = [from |-> f, i |-> b + n]
           /\ (b + n) % PacketSize = 0 => Ended(r)
<1>1. /\ Len(s) \in Nat /\ Len(r) = Len(s) + n
  BY DEF Grown
<1>2. Last(r) = [from |-> f, i |-> b + n]
  <2>1. Len(r) \in 1 .. Len(r) /\ Len(r) > Len(s) /\ Len(r) - Len(s) = n
    BY <1>1
  <2>2. r[Len(r)] = [from |-> f, i |-> b + n]
    BY <2>1 DEF Grown
  <2>3. QED BY <2>2 DEF Last
<1>3. r # <<>>
  <2>1. Len(<<>>) = 0
    OBVIOUS
  <2>2. QED BY <1>1, <2>1
<1>4. ASSUME NEW k \in 1 .. Len(r) - 1, r[k].i % PacketSize # 0
      PROVE  r[k + 1] = [r[k] EXCEPT !.i = @ + 1]
  <2>1. CASE k < Len(s)
    <3>1. k \in 1 .. Len(s) - 1 /\ k \in 1 .. Len(s) /\ k + 1 \in 1 .. Len(s)
      BY <1>1, <2>1
    <3>2. r[k] = s[k] /\ r[k + 1] = s[k + 1]
      BY <3>1 DEF Grown
    <3>3. QED BY <1>4, <3>1, <3>2 DEF Unmixed
  <2>2. CASE k = Len(s)
    <3>1. k \in 1 .. Len(s) /\ s # <<>>
      BY <1>1, <2>2
    <3>2. r[k] = Last(s)
      BY <2>2, <3>1 DEF Grown, Last
    <3>3. Last(s) = [from |-> f, i |-> b]
      BY <1>4, <3>1, <3>2 DEF Ended
    <3>4. k + 1 \in 1 .. Len(r) /\ k + 1 > Len(s) /\ k + 1 - Len(s) = 1
      BY <1>1, <2>2
    <3>5. r[k + 1] = [from |-> f, i |-> b + 1]
      BY <3>4 DEF Grown
    <3>6. QED BY <3>2, <3>3, <3>5
  <2>3. CASE k > Len(s)
    <3>1. k \in 1 .. Len(r) /\ k + 1 \in 1 .. Len(r) /\ k + 1 > Len(s)
      BY <1>1, <2>3
    <3>2. /\ r[k] = [from |-> f, i |-> b + (k - Len(s))]
          /\ r[k + 1] = [from |-> f, i |-> b + (k + 1 - Len(s))]
      BY <2>3, <3>1 DEF Grown
    <3>3. b + (k + 1 - Len(s)) = b + (k - Len(s)) + 1
      BY <1>1
    <3>4. QED BY <3>2, <3>3
  <2>4. QED BY <1>1, <2>1, <2>2, <2>3
<1>5. (b + n) % PacketSize = 0 => Ended(r)
  BY <1>2 DEF Ended
<1>6. QED BY <1>2, <1>3, <1>4, <1>5 DEF Unmixed

-----------------------------------------------------------------------------
(* Types, and what a connection has received and not forwarded yet.        *)

\* The parts of TypeOK, which different steps change.
UserTypes ==
    /\ fresh \in SUBSET Users /\ left \in SUBSET Users
    /\ hit \in SUBSET Users /\ set \in SUBSET Users /\ crossed \in SUBSET Users

CountTypes ==
    /\ sent \in [Users -> 0 .. (PacketSize * MaxUp)]
    /\ taken \in [Users -> {PacketSize * n : n \in 0 .. MaxUp}]
    /\ \A u \in Users : Avail(u) >= 0

PollTypes ==
    /\ poll \in [ready : SUBSET set, user : set \cup {NoUser}]
    /\ up \in Seq(PiecesOf(Users))

LinkTypes ==
    /\ made \in [Links -> 0 .. (PacketSize * MaxDown)]
    /\ read \in [Links -> Nat]
    /\ \A t \in Links : read[t] <= made[t]

TodoTypes ==
    /\ todo \in [Links -> SUBSET Users]
    /\ buf \in [Links -> Seq(PiecesOf(Links))]
    /\ off \in [Links -> Nat]
    /\ \A t \in Links : /\ todo[t] = {} <=> buf[t] = <<>>
                        /\ off[t] = 0 \/ off[t] < Len(buf[t])

OutTypes == out \in [Users -> Seq(PiecesOf(Links))]

FlagTypes == alive \in BOOLEAN /\ cut \in BOOLEAN

Types == UserTypes /\ CountTypes /\ PollTypes /\ LinkTypes /\ TodoTypes /\ OutTypes /\ FlagTypes

LEMMA TypeParts == TypeOK <=> Types
BY DEF TypeOK, Types, UserTypes, CountTypes, PollTypes, LinkTypes, TodoTypes, OutTypes, FlagTypes

\* What a link has received and not forwarded to everyone is the end of what
\* it has received.
BufInv ==
    \A t \in Links : /\ Len(buf[t]) <= read[t]
                     /\ buf[t] = Pieces(t, read[t] - Len(buf[t]), Len(buf[t]))

Inv == Types /\ BufInv

LEMMA InvInit == Init => Inv
<1> SUFFICES ASSUME Init PROVE Inv
  OBVIOUS
<1>1. /\ MaxUp \in Nat /\ MaxDown \in Nat
  BY GresbBridgeAssumption
<1>2. UserTypes /\ FlagTypes
  BY DEF Init, UserTypes, FlagTypes
<1>3. CountTypes
  <2>1. 0 = PacketSize * 0 /\ 0 \in 0 .. MaxUp /\ 0 \in 0 .. (PacketSize * MaxUp)
    BY <1>1 DEF PacketSize, HeaderSize
  <2>2. 0 \in {PacketSize * n : n \in 0 .. MaxUp}
    BY <2>1
  <2>3. QED BY <2>1, <2>2 DEF Init, CountTypes, Avail
<1>4. PollTypes
  BY EmptySeq DEF Init, PollTypes
<1>5. LinkTypes
  <2>1. 0 \in 0 .. (PacketSize * MaxDown)
    BY <1>1 DEF PacketSize, HeaderSize
  <2>2. QED BY <2>1 DEF Init, LinkTypes
<1>6. TodoTypes
  BY EmptySeq DEF Init, TodoTypes
<1>7. OutTypes
  BY EmptySeq DEF Init, OutTypes
<1>8. BufInv
  <2>1. \A t \in Links : buf[t] = <<>> /\ read[t] = 0
    BY DEF Init
  <2>2. \A t \in Links : Pieces(t, 0, 0) = <<>>
    BY DEF Pieces
  <2>3. Len(<<>>) = 0
    OBVIOUS
  <2>4. QED BY <2>1, <2>2, <2>3 DEF BufInv
<1>9. QED BY <1>2, <1>3, <1>4, <1>5, <1>6, <1>7, <1>8 DEF Inv, Types

\* What Forward does.
LEMMA Forwarding ==
    ASSUME Inv, Forward
    PROVE  /\ poll.user \in Users /\ poll.user \in set
           /\ taken[poll.user] \in Nat /\ taken[poll.user] % PacketSize = 0
           /\ up' = up \o Pieces(poll.user, taken[poll.user], PacketSize)
           /\ up' \in Seq(PiecesOf(Users))
           /\ Grown(up', up, poll.user, taken[poll.user], PacketSize)
<1>1. /\ poll.user \in Users /\ poll.user \in set
  BY DEF Forward, ForwardPieces, Inv, Types, UserTypes, PollTypes
<1>2. PICK n \in 0 .. MaxUp : taken[poll.user] = PacketSize * n
  BY <1>1 DEF Inv, Types, CountTypes
<1>3. taken[poll.user] \in Nat /\ taken[poll.user] % PacketSize = 0
  <2>1. n \in Nat
    BY GresbBridgeAssumption
  <2>2. 3 * n \in Nat /\ (3 * n) % 3 = 0
    BY <2>1
  <2>3. QED BY <1>2, <2>2 DEF PacketSize, HeaderSize
<1>4. up' = up \o Pieces(poll.user, taken[poll.user], PacketSize)
  BY DEF Forward, ForwardPieces
<1>5. up \in Seq(PiecesOf(Users)) /\ PacketSize \in Nat
  BY DEF Inv, Types, PollTypes, PacketSize, HeaderSize
<1>6. QED BY <1>1, <1>3, <1>4, <1>5, MorePieces

\* What Receive does: it takes at least a header.
LEMMA Receiving ==
    ASSUME Inv, NEW t \in Links, Receive(t)
    PROVE  \E n \in Nat \ {0} :
              /\ \E size \in SizesAt(read[t]) : n = Least(size, made[t] - read[t])
              /\ buf[t] = <<>> /\ todo[t] = {} /\ off[t] = 0 /\ off' = off
              /\ read' = [read EXCEPT ![t] = @ + n] /\ read[t] + n <= made[t]
              /\ buf' = [buf EXCEPT ![t] = Pieces(t, read[t], n)]
              /\ todo' = [todo EXCEPT ![t] = Users]
              /\ Pieces(t, read[t], n) \in Seq(PiecesOf(Links))
              /\ Len(Pieces(t, read[t], n)) = n
<1>1. PICK size \in SizesAt(read[t]) : ReceiveInto(t, size, Least(size, made[t] - read[t]))
  BY DEF Receive
<1> DEFINE n == Least(size, made[t] - read[t])
<1>2. read[t] \in Nat /\ made[t] \in Nat
  BY GresbBridgeAssumption DEF Inv, Types, LinkTypes, PacketSize, HeaderSize
<1>3. size \in Nat /\ size >= 2
  BY DEF SizesAt, PacketSize, HeaderSize
<1>4. made[t] - read[t] >= 2
  BY <1>1 DEF ReceiveInto, HeaderSize
<1>5. n \in Nat \ {0} /\ read[t] + n <= made[t]
  BY <1>2, <1>3, <1>4 DEF Least
<1>6. /\ buf[t] = <<>> /\ todo' = [todo EXCEPT ![t] = Users]
      /\ read' = [read EXCEPT ![t] = @ + n]
  BY <1>1 DEF ReceiveInto
<1>7. buf' = [buf EXCEPT ![t] = Pieces(t, read[t], n)]
  <2>1. Least(size, made[t] - read[t]) = n
    OBVIOUS
  <2>2. QED BY <1>1, Zenon DEF ReceiveInto
<1>8. todo[t] = {} /\ off[t] = 0 /\ off' = off
  <2>1. Len(<<>>) = 0
    OBVIOUS
  <2>2. QED BY <1>1, <1>6, <2>1 DEF ReceiveInto, Inv, Types, TodoTypes
<1> HIDE DEF n
<1>9. Pieces(t, read[t], n) \in Seq(PiecesOf(Links)) /\ Len(Pieces(t, read[t], n)) = n
  BY <1>2, <1>5, PiecesShape, ZenonT(60)
<1>10. QED BY <1>5, <1>6, <1>7, <1>8, <1>9 DEF n

\* send_all() returns after this send.
Served(t, u, n) == u \notin set \/ off[t] + n = Len(buf[t])

\* The place that thread t has come to with the user at hand.
At(t) == read[t] - Len(buf[t]) + off[t]

\* What Deliver does: a user that is there gets n more pieces of what was
\* received.
LEMMA Delivering ==
    ASSUME Inv, NEW t \in Links, NEW u \in Users, Deliver(t, u)
    PROVE  \E n \in Nat \ {0} :
           /\ off[t] + n <= Len(buf[t]) /\ Turn(t, u)
           /\ UNCHANGED <<fresh, left, sent, taken, set, poll, up, made, read, cut>>
           /\ \A s \in Links : s # t => /\ buf'[s] = buf[s] /\ todo'[s] = todo[s]
                                         /\ off'[s] = off[s]
           /\ Served(t, u, n) => todo'[t] = todo[t] \ {u} /\ off'[t] = 0
           /\ ~Served(t, u, n) => todo'[t] = todo[t] /\ off'[t] = off[t] + n
           /\ buf'[t] = IF todo'[t] = {} THEN <<>> ELSE buf[t]
           /\ todo' \in [Links -> SUBSET Users] /\ off' \in [Links -> Nat]
           /\ buf' \in [Links -> Seq(PiecesOf(Links))]
           /\ \A v \in Users : v # u => out'[v] = out[v]
           /\ u \notin set \ left => out'[u] = out[u]
           /\ u \in set \ left => Grown(out'[u], out[u], t, At(t), n)
           /\ Len(buf[t]) \in Nat /\ At(t) \in Nat /\ off[t] \in Nat
           /\ out' \in [Users -> Seq(PiecesOf(Links))]
           /\ crossed' = crossed \cup {v \in {u} \cap set : \E s \in Links \ {t} : MidSend(s, v)}
<1> USE DEF gresbElse, userVars, pollVars
<1>t. TodoTypes /\ OutTypes /\ LinkTypes
  BY DEF Inv, Types
<1>0. PICK n \in 1 .. (Len(buf[t]) - off[t]) :
         SendPart(t, u, n, u \notin set \/ off[t] + n = Len(buf[t]))
  BY DEF Deliver
<1>1. /\ Turn(t, u)
      /\ UNCHANGED <<fresh, left, sent, taken, set, poll, up, made, read, cut>>
      /\ crossed' = crossed \cup {v \in {u} \cap set : \E s \in Links \ {t} : MidSend(s, v)}
  BY <1>0 DEF SendPart, Deliver
<1>2. /\ Len(buf[t]) \in Nat /\ At(t) \in Nat /\ off[t] \in Nat
      /\ n \in Nat \ {0} /\ off[t] + n <= Len(buf[t])
      /\ read[t] - Len(buf[t]) \in Nat
  <2>1. Len(buf[t]) \in Nat /\ off[t] \in Nat
    BY <1>t, LenProperties DEF TodoTypes
  <2>2. read[t] \in Nat /\ Len(buf[t]) <= read[t]
    BY <1>t DEF LinkTypes, Inv, BufInv
  <2>3. QED BY <1>0, <2>1, <2>2 DEF At
<1> DEFINE p == Part(buf[t], off[t], n)
<1>3. /\ out[u] \o p \in Seq(PiecesOf(Links))
      /\ Grown(out[u] \o p, out[u], t, At(t), n)
  <2>1. buf[t] = Pieces(t, read[t] - Len(buf[t]), Len(buf[t]))
    BY DEF Inv, BufInv
  <2>2. out[u] \in Seq(PiecesOf(Links))
    BY <1>t DEF OutTypes
  <2>3. p = Pieces(t, At(t), n)
    <3> DEFINE b == read[t] - Len(buf[t])
               m == Len(buf[t])
               o == off[t]
    <3>1. b \in Nat /\ m \in Nat /\ o \in Nat /\ n \in Nat /\ o + n <= m /\ b + o = At(t)
      BY <1>2 DEF At
    <3>2. p = Part(buf[t], o, n) /\ buf[t] = Pieces(t, b, m)
      BY <2>1
    <3> HIDE DEF b, m, o, p
    <3>3. QED BY <3>1, <3>2, PiecesPart
  <2>4. QED BY <1>2, <2>2, <2>3, MorePieces
<1>4. u \in set \ left => out' = [out EXCEPT ![u] = @ \o p]
  BY <1>0 DEF SendPart, Part
<1>5. u \notin set \ left => out' = out
  BY <1>0 DEF SendPart
<1> HIDE DEF p
<1>6. /\ \A v \in Users : v # u => out'[v] = out[v]
      /\ u \notin set \ left => out'[u] = out[u]
      /\ u \in set \ left => Grown(out'[u], out[u], t, At(t), n)
      /\ out' \in [Users -> Seq(PiecesOf(Links))]
  <2>1. CASE u \in set \ left
    BY <1>3, <1>4, <1>t, <2>1 DEF OutTypes
  <2>2. CASE u \notin set \ left
    BY <1>5, <1>t, <2>2 DEF OutTypes
  <2>3. QED BY <2>1, <2>2
<1>7. /\ Served(t, u, n) => todo' = [todo EXCEPT ![t] = @ \ {u}] /\ off' = [off EXCEPT ![t] = 0]
      /\ ~Served(t, u, n) => todo' = todo /\ off' = [off EXCEPT ![t] = @ + n]
  BY <1>0 DEF SendPart, Served
<1>8. /\ Served(t, u, n) => todo'[t] = todo[t] \ {u} /\ off'[t] = 0
      /\ ~Served(t, u, n) => todo'[t] = todo[t] /\ off'[t] = off[t] + n
      /\ \A s \in Links : s # t => todo'[s] = todo[s] /\ off'[s] = off[s]
      /\ todo' \in [Links -> SUBSET Users] /\ off' \in [Links -> Nat]
  <2>1. CASE Served(t, u, n)
    <3>1. todo' = [todo EXCEPT ![t] = @ \ {u}] /\ off' = [off EXCEPT ![t] = 0]
      BY <1>7, <2>1
    <3>2. todo \in [Links -> SUBSET Users] /\ off \in [Links -> Nat]
      BY <1>t DEF TodoTypes
    <3>3. QED BY <2>1, <3>1, <3>2
  <2>2. CASE ~Served(t, u, n)
    <3>1. todo' = todo /\ off' = [off EXCEPT ![t] = @ + n]
      BY <1>7, <2>2
    <3>2. todo \in [Links -> SUBSET Users] /\ off \in [Links -> Nat]
      BY <1>t DEF TodoTypes
    <3>3. QED BY <1>2, <2>2, <3>1, <3>2
  <2>3. QED BY <2>1, <2>2
<1>9. /\ \A s \in Links : s # t => buf'[s] = buf[s]
      /\ buf'[t] = IF todo'[t] = {} THEN <<>> ELSE buf[t]
      /\ buf' \in [Links -> Seq(PiecesOf(Links))]
  <2>1. buf' = IF todo'[t] = {} THEN [buf EXCEPT ![t] = <<>>] ELSE buf
    BY <1>0 DEF SendPart
  <2>2. QED BY <1>t, <2>1, EmptySeq DEF TodoTypes
<1>10. QED BY <1>1, <1>2, <1>6, <1>8, <1>9

LEMMA TypeStep == Inv /\ [Next]_vars => Types'
<1> SUFFICES ASSUME Inv, [Next]_vars PROVE Types'
  OBVIOUS
<1> USE DEF userVars, pollVars, gresbVars, sendVars, pollElse, gresbElse
<1>0. /\ UserTypes /\ CountTypes /\ PollTypes /\ LinkTypes /\ TodoTypes /\ OutTypes /\ FlagTypes
      /\ MaxUp \in Nat /\ MaxDown \in Nat
  BY GresbBridgeAssumption DEF Inv, Types
<1>u. UNCHANGED <<fresh, left, hit, set, crossed>> => UserTypes'
  BY <1>0 DEF UserTypes
<1>c. UNCHANGED <<sent, taken>> => CountTypes'
  BY <1>0 DEF CountTypes, Avail
<1>p. UNCHANGED <<poll, set, up>> => PollTypes'
  BY <1>0 DEF PollTypes
<1>l. UNCHANGED <<made, read>> => LinkTypes'
  BY <1>0 DEF LinkTypes
<1>t. UNCHANGED <<todo, buf, off>> => TodoTypes'
  BY <1>0 DEF TodoTypes
<1>o. UNCHANGED out => OutTypes'
  BY <1>0 DEF OutTypes
<1>f. UNCHANGED <<alive, cut>> => FlagTypes'
  BY <1>0 DEF FlagTypes
<1>1. ASSUME NEW u \in Users, Accept(u) PROVE Types'
  <2>1. UserTypes' /\ PollTypes'
    BY <1>0, <1>1 DEF Accept, UserTypes, PollTypes
  <2>2. QED BY <1>1, <2>1, <1>c, <1>l, <1>t, <1>o, <1>f DEF Accept, Types
<1>2. ASSUME NEW u \in Users, Leave(u) PROVE Types'
  <2>1. UserTypes'
    BY <1>0, <1>2 DEF Leave, UserTypes
  <2>2. QED BY <1>2, <2>1, <1>c, <1>p, <1>l, <1>t, <1>o, <1>f DEF Leave, Types
<1>3. ASSUME NEW u \in Users, NEW n \in 1 .. PacketSize, SendPieces(u, n) PROVE Types'
  <2>1. sent' = [sent EXCEPT ![u] = @ + n] /\ sent[u] + n <= PacketSize * MaxUp
    BY <1>3 DEF SendPieces
  <2>2. /\ n \in Nat /\ PacketSize * MaxUp \in Nat
        /\ \A v \in Users : sent[v] \in Nat /\ taken[v] \in Int
    BY <1>0 DEF CountTypes, PacketSize, HeaderSize
  <2>3. sent' \in [Users -> 0 .. (PacketSize * MaxUp)] /\ \A v \in Users : sent'[v] >= sent[v]
    BY <1>0, <2>1, <2>2 DEF CountTypes
  <2>4. taken' = taken /\ \A v \in Users : sent'[v] - taken[v] >= 0
    <3>1. taken' = taken
      BY <1>3 DEF SendPieces
    <3>2. \A v \in Users : sent'[v] \in Int /\ sent[v] - taken[v] >= 0
      BY <1>0, <2>3 DEF CountTypes, Avail, PacketSize, HeaderSize
    <3>3. QED BY <2>2, <2>3, <3>1, <3>2
  <2>5. CountTypes'
    BY <1>0, <2>3, <2>4 DEF CountTypes, Avail
  <2>6. QED BY <1>3, <2>5, <1>u, <1>p, <1>l, <1>t, <1>o, <1>f DEF SendPieces, Types
<1>4. ASSUME NEW t \in Links, NEW n \in 1 .. PacketSize, Arrive(t, n) PROVE Types'
  <2>1. /\ made' = [made EXCEPT ![t] = @ + n]
        /\ Begun(made'["tx"]) + Begun(made'["rx"]) <= MaxDown
    BY <1>4 DEF Arrive, Bounded, Down
  <2>2. n \in Nat /\ \A k \in Links : made[k] \in Nat /\ read[k] \in Nat
    BY <1>0 DEF LinkTypes, PacketSize, HeaderSize
  <2>3. \A k \in Links : made'[k] \in Nat /\ made'[k] >= made[k]
    BY <1>0, <2>1, <2>2 DEF LinkTypes
  <2>4. made'["tx"] <= 3 * MaxDown /\ made'["rx"] <= 3 * MaxDown
    BY <1>0, <2>1, <2>3 DEF Begun, PacketSize, HeaderSize, Links
  <2>5. \A k \in Links : made'[k] \in 0 .. (PacketSize * MaxDown)
    BY <1>0, <2>3, <2>4 DEF Links, PacketSize, HeaderSize
  <2>6. made' \in [Links -> 0 .. (PacketSize * MaxDown)]
    BY <1>0, <2>1, <2>5 DEF LinkTypes
  <2>7. read' = read /\ \A k \in Links : read[k] <= made'[k]
    BY <1>0, <1>4, <2>2, <2>3 DEF LinkTypes, Arrive
  <2>8. LinkTypes'
    BY <1>0, <2>6, <2>7 DEF LinkTypes
  <2>9. QED BY <1>4, <2>8, <1>u, <1>c, <1>p, <1>t, <1>o, <1>f DEF Arrive, Types
<1>5. CASE Select
  <2>1. PollTypes'
    BY <1>0, <1>5 DEF Select, PollTypes
  <2>2. QED BY <1>5, <2>1, <1>u, <1>c, <1>l, <1>t, <1>o, <1>f DEF Select, Types
<1>6. ASSUME NEW u \in Users, Peek(u) PROVE Types'
  <2>1. UserTypes' /\ PollTypes'
    BY <1>0, <1>6 DEF Peek, UserTypes, PollTypes
  <2>2. QED BY <1>6, <2>1, <1>c, <1>l, <1>t, <1>o, <1>f DEF Peek, Types
<1>7. CASE Forward
  <2>1. PollTypes'
    <3>1. poll' = [poll EXCEPT !.user = NoUser] /\ set' = set
      BY <1>7 DEF Forward, ForwardPieces
    <3>2. poll' \in [ready : SUBSET set, user : set \cup {NoUser}]
      BY <1>0, <3>1 DEF PollTypes
    <3>3. QED BY <1>7, <3>1, <3>2, Forwarding DEF PollTypes
  <2>2. CountTypes'
    <3> DEFINE u == poll.user
    <3>1. u \in Users /\ sent' = sent /\ taken' = [taken EXCEPT ![u] = @ + PacketSize]
      BY <1>7, Forwarding DEF Forward, ForwardPieces
    <3>2. sent[u] - taken[u] >= PacketSize
      BY <1>7 DEF Forward, ForwardPieces, Avail
    <3> HIDE DEF u
    <3>3. PICK n \in 0 .. MaxUp : taken[u] = PacketSize * n
      BY <1>0, <3>1 DEF CountTypes
    <3>4. sent[u] \in 0 .. (3 * MaxUp) /\ n \in Nat
      BY <1>0, <3>1 DEF CountTypes, PacketSize, HeaderSize
    <3>5. n + 1 \in 0 .. MaxUp /\ taken[u] + PacketSize = PacketSize * (n + 1)
      BY <1>0, <3>2, <3>3, <3>4 DEF PacketSize, HeaderSize
    <3>6. taken' \in [Users -> {PacketSize * k : k \in 0 .. MaxUp}]
      BY <1>0, <3>1, <3>5 DEF CountTypes
    <3>7. sent[u] - (taken[u] + PacketSize) >= 0
      BY <3>2, <3>3, <3>4 DEF PacketSize, HeaderSize
    <3>8. \A v \in Users : sent'[v] - taken'[v] >= 0
      BY <1>0, <3>1, <3>7 DEF CountTypes, Avail
    <3>9. QED BY <1>0, <3>1, <3>6, <3>8 DEF CountTypes, Avail
  <2>3. QED
    BY <1>7, <2>1, <2>2, <1>u, <1>l, <1>t, <1>o, <1>f DEF Forward, ForwardPieces, Types
<1>8. ASSUME NEW t \in Links, Receive(t) PROVE Types'
  <2>1. PICK n \in Nat \ {0} :
              /\ read' = [read EXCEPT ![t] = @ + n] /\ read[t] + n <= made[t]
              /\ buf' = [buf EXCEPT ![t] = Pieces(t, read[t], n)]
              /\ todo' = [todo EXCEPT ![t] = Users]
              /\ off[t] = 0 /\ off' = off
              /\ Pieces(t, read[t], n) \in Seq(PiecesOf(Links))
              /\ Len(Pieces(t, read[t], n)) = n
    BY <1>8, Receiving
  <2>2. LinkTypes'
    <3>1. made' = made
      BY <1>8 DEF Receive, ReceiveInto
    <3>2. read' \in [Links -> Nat]
      BY <1>0, <2>1 DEF LinkTypes
    <3>3. \A k \in Links : read'[k] <= made[k]
      BY <1>0, <2>1 DEF LinkTypes
    <3>4. QED BY <1>0, <3>1, <3>2, <3>3 DEF LinkTypes
  <2>3. TodoTypes'
    <3>1. /\ todo' \in [Links -> SUBSET Users] /\ buf' \in [Links -> Seq(PiecesOf(Links))]
      BY <1>0, <2>1 DEF TodoTypes
    <3>2. todo'[t] # {} /\ buf'[t] # <<>>
      BY <1>0, <2>1, GresbBridgeAssumption DEF TodoTypes
    <3>3. \A k \in Links : k # t => todo'[k] = todo[k] /\ buf'[k] = buf[k]
      BY <1>0, <2>1 DEF TodoTypes
    <3>4. QED BY <1>0, <2>1, <3>1, <3>2, <3>3 DEF TodoTypes
  <2>4. alive' = alive /\ cut' \in BOOLEAN
    BY <1>8 DEF Receive, ReceiveInto
  <2>5. FlagTypes'
    BY <1>0, <2>4 DEF FlagTypes
  <2>6. QED
    BY <1>8, <2>2, <2>3, <2>5, <1>u, <1>c, <1>p, <1>o DEF Receive, ReceiveInto, Types
<1>9. ASSUME NEW t \in Links, NEW u \in Users, Deliver(t, u) PROVE Types'
  <2>0. PICK n \in Nat \ {0} :
           /\ off[t] + n <= Len(buf[t]) /\ Turn(t, u)
           /\ \A s \in Links : s # t => /\ buf'[s] = buf[s] /\ todo'[s] = todo[s]
                                         /\ off'[s] = off[s]
           /\ Served(t, u, n) => todo'[t] = todo[t] \ {u} /\ off'[t] = 0
           /\ ~Served(t, u, n) => todo'[t] = todo[t] /\ off'[t] = off[t] + n
           /\ buf'[t] = IF todo'[t] = {} THEN <<>> ELSE buf[t]
           /\ todo' \in [Links -> SUBSET Users] /\ off' \in [Links -> Nat]
           /\ buf' \in [Links -> Seq(PiecesOf(Links))]
           /\ out' \in [Users -> Seq(PiecesOf(Links))]
           /\ Len(buf[t]) \in Nat /\ off[t] \in Nat
           /\ crossed' = crossed \cup {v \in {u} \cap set : \E s \in Links \ {t} : MidSend(s, v)}
           /\ UNCHANGED <<fresh, left, sent, taken, set, poll, up, made, read, cut>>
    BY <1>9, Delivering, ZenonT(60)
  <2>1. TodoTypes'
    <3>1. buf[t] # <<>> /\ u \in todo[t]
      BY <1>0, <2>0 DEF TodoTypes, Turn
    <3>2. todo'[t] = {} <=> buf'[t] = <<>>
      BY <2>0, <3>1
    <3>3. off'[t] = 0 \/ off'[t] < Len(buf'[t])
      BY <2>0, <3>1 DEF Served
    <3>4. QED BY <1>0, <2>0, <3>2, <3>3 DEF TodoTypes
  <2>2. OutTypes'
    BY <2>0 DEF OutTypes
  <2>3. UserTypes'
    <3>1. hit' \in SUBSET Users
      BY <1>0, <1>9 DEF Deliver, SendPart, UserTypes
    <3>2. QED BY <1>0, <2>0, <3>1 DEF UserTypes
  <2>4. alive' \in BOOLEAN
    BY <1>9 DEF Deliver, SendPart
  <2>5. FlagTypes'
    BY <1>0, <2>0, <2>4 DEF FlagTypes
  <2>6. QED BY <2>0, <2>1, <2>2, <2>3, <2>5, <1>c, <1>p, <1>l DEF Types
<1>10. CASE UNCHANGED vars
  BY <1>10, <1>u, <1>c, <1>p, <1>l, <1>t, <1>o, <1>f DEF vars, Types
<1>11. QED
  BY <1>1, <1>2, <1>3, <1>4, <1>5, <1>6, <1>7, <1>8, <1>9, <1>10
  DEF Next, PollThread, GresbThread

LEMMA BufStep == Inv /\ [Next]_vars => BufInv'
<1> SUFFICES ASSUME Inv, [Next]_vars PROVE BufInv'
  OBVIOUS
<1> USE DEF userVars, pollVars, gresbVars, sendVars, pollElse, gresbElse
<1>0. LinkTypes /\ TodoTypes /\ BufInv
  BY DEF Inv, Types
<1>1. CASE UNCHANGED <<read, buf>>
  BY <1>0, <1>1 DEF BufInv
<1>2. ASSUME NEW t \in Links, Receive(t) PROVE BufInv'
  <2>1. PICK n \in Nat \ {0} :
              /\ read' = [read EXCEPT ![t] = @ + n]
              /\ buf' = [buf EXCEPT ![t] = Pieces(t, read[t], n)]
              /\ Len(Pieces(t, read[t], n)) = n
    BY <1>2, Receiving
  <2>2. /\ read[t] \in Nat /\ read'[t] = read[t] + n /\ buf'[t] = Pieces(t, read[t], n)
        /\ \A k \in Links : k # t => read'[k] = read[k] /\ buf'[k] = buf[k]
    BY <1>0, <2>1 DEF LinkTypes, TodoTypes
  <2>3. Len(buf'[t]) = n /\ read'[t] - n = read[t] /\ n <= read'[t]
    BY <2>1, <2>2
  <2>4. Len(buf'[t]) <= read'[t] /\ buf'[t] = Pieces(t, read'[t] - Len(buf'[t]), Len(buf'[t]))
    BY <2>2, <2>3
  <2>5. QED BY <1>0, <2>2, <2>4 DEF BufInv
<1>3. ASSUME NEW t \in Links, NEW u \in Users, Deliver(t, u) PROVE BufInv'
  <2>1. /\ read' = read /\ buf'[t] \in {<<>>, buf[t]}
        /\ \A k \in Links : k # t => buf'[k] = buf[k]
    BY <1>3, Delivering
  <2>2. /\ Len(<<>>) = 0 /\ read[t] \in Nat /\ Pieces(t, read[t], 0) = <<>>
    BY <1>0 DEF LinkTypes, Pieces
  <2>3. buf'[t] = <<>> => /\ Len(buf'[t]) <= read'[t]
                          /\ buf'[t] = Pieces(t, read'[t] - Len(buf'[t]), Len(buf'[t]))
    BY <2>1, <2>2
  <2>4. QED BY <1>0, <2>1, <2>3 DEF BufInv
<1>4. QED
  BY <1>1, <1>2, <1>3
  DEF Next, vars, PollThread, GresbThread, Accept, Leave, SendPieces, Arrive, Select, Peek,
      Forward, ForwardPieces

LEMMA InvStep == Inv /\ [Next]_vars => Inv'
BY TypeStep, BufStep DEF Inv

LEMMA Invariant == Spec => []Inv
BY InvInit, InvStep, PTL DEF Spec

\* Every variable keeps its type; the thread of the users is always at the
\* start of a packet in each of their streams, whatever pieces these come in.
THEOREM TypeCorrect == Spec => []TypeOK
<1>1. Inv => TypeOK
  BY TypeParts DEF Inv
<1>2. QED BY <1>1, Invariant, PTL

-----------------------------------------------------------------------------
(* Nothing is lost, doubled or overtaken.                                  *)

\* The GRESB has got what was received from a user, piece by piece.
UpInv == InOrder(up) /\ \A u \in Users : Places(up, u) = 1 .. taken[u]

LEMMA UpInit == Init => UpInv
<1> SUFFICES ASSUME Init PROVE UpInv
  OBVIOUS
<1>1. up = <<>> /\ Len(up) = 0 /\ \A u \in Users : taken[u] = 0
  BY DEF Init
<1>2. 1 .. Len(up) = {} /\ 1 .. 0 = {}
  BY <1>1
<1>3. QED BY <1>1, <1>2 DEF UpInv, InOrder, Places

LEMMA UpStep == Inv /\ UpInv /\ [Next]_vars => UpInv'
<1> SUFFICES ASSUME Inv, UpInv, [Next]_vars PROVE UpInv'
  OBVIOUS
<1> USE DEF userVars, pollVars, gresbVars, sendVars, pollElse, gresbElse
<1>1. CASE Forward
  <2> DEFINE u == poll.user
             b == taken[u]
  <2>1. /\ u \in Users /\ b \in Nat /\ PacketSize \in Nat
        /\ Grown(up', up, u, b, PacketSize) /\ up \in Seq(PiecesOf(Users))
    BY <1>1, Forwarding DEF Inv, Types, PollTypes, PacketSize, HeaderSize
  <2>2. taken' = [taken EXCEPT ![u] = b + PacketSize]
    BY <1>1 DEF Forward, ForwardPieces
  <2>3. taken'[u] = b + PacketSize /\ \A v \in Users : v # u => taken'[v] = taken[v]
    BY <2>1, <2>2 DEF Inv, Types, CountTypes
  <2> HIDE DEF b, u
  <2>4. Places(up, u) = 1 .. b
    BY <2>1 DEF UpInv, b
  <2>5. InOrder(up')
    BY <2>1, <2>4, OrderKept DEF UpInv
  <2>6. Places(up', u) = 1 .. b \cup (b + 1) .. (b + PacketSize)
        /\ \A v \in Users : v # u => Places(up', v) = Places(up, v)
    BY <2>1, <2>4, MorePlaces, SMTT(60)
  <2>7. 1 .. b \cup (b + 1) .. (b + PacketSize) = 1 .. (b + PacketSize)
    BY <2>1
  <2>8. \A v \in Users : Places(up', v) = 1 .. taken'[v]
    BY <2>3, <2>6, <2>7 DEF UpInv
  <2>9. QED BY <2>5, <2>8 DEF UpInv
<1>2. CASE UNCHANGED <<up, taken>>
  BY <1>2 DEF UpInv
<1>3. QED
  BY <1>1, <1>2
  DEF Next, vars, PollThread, GresbThread, Accept, Leave, SendPieces, Arrive, Select, Peek,
      Receive, ReceiveInto, Deliver, SendPart

\* The place that a link has come to with a user.
Current(u, t) ==
    IF Turn(t, u) THEN At(t)
                  ELSE read[t] - (IF u \in todo[t] THEN Len(buf[t]) ELSE 0)

Attached(u) == u \in set \ left

\* Places up to c without a gap.
Dense(P, c) ==
    P \subseteq Nat /\ (\A i \in P : i <= c) /\ \A i, j \in P : i .. j \subseteq P

\* What a user has got has no gap and ends where each link has come to, as
\* long as it is there.
OutInv ==
    /\ \A u \in Users : u \in fresh => u \notin set /\ out[u] = <<>>
    /\ \A u \in Users : InOrder(out[u])
    /\ \A u \in Users, t \in Links : Dense(Places(out[u], t), Current(u, t))
    /\ \A u \in Users, t \in Links :
          Attached(u) /\ Places(out[u], t) # {} => Current(u, t) \in Places(out[u], t)

LEMMA PlacesEmpty == InOrder(<<>>) /\ \A f : Places(<<>>, f) = {}
<1>1. 1 .. Len(<<>>) = {}
  OBVIOUS
<1>2. QED BY <1>1 DEF InOrder, Places

LEMMA OutInit == Init => OutInv
<1> SUFFICES ASSUME Init PROVE OutInv
  OBVIOUS
<1>1. \A u \in Users : out[u] = <<>> /\ (u \in fresh => u \notin set)
  BY DEF Init
<1>2. \A c : Dense({}, c)
  BY DEF Dense
<1>3. QED BY <1>1, <1>2, PlacesEmpty DEF OutInv

\* More places, from where the link has come to.
LEMMA DenseGrows ==
    ASSUME NEW P, NEW b \in Nat, NEW n \in Nat, Dense(P, b), P # {} => b \in P
    PROVE  LET Q == P \cup (b + 1) .. (b + n)
           IN  Dense(Q, b + n) /\ (Q # {} => b + n \in Q)
<1> DEFINE Q == P \cup (b + 1) .. (b + n)
<1>1. Q \subseteq Nat /\ \A i \in Q : i <= b + n
  BY DEF Dense
<1>2. Q # {} => b + n \in Q
  <2>1. CASE n = 0
    <3>1. (b + 1) .. (b + n) = {} /\ b + n = b
      BY <2>1
    <3>2. QED BY <3>1
  <2>2. CASE n > 0
    BY <2>2
  <2>3. QED BY <2>1, <2>2
<1>3. ASSUME NEW i \in Q, NEW j \in Q, NEW k \in i .. j PROVE k \in Q
  <2>1. i \in Nat /\ j \in Nat /\ j <= b + n
    BY <1>1
  <2>2. CASE k > b
    BY <1>3, <2>1, <2>2
  <2>3. CASE k <= b
    <3>1. i \in P
      BY <1>3, <2>1, <2>3
    <3>2. b \in P /\ k \in i .. b
      BY <1>3, <2>1, <2>3, <3>1
    <3>3. QED BY <3>1, <3>2 DEF Dense
  <2>4. QED BY <2>1, <2>2, <2>3
<1>4. QED BY <1>1, <1>2, <1>3 DEF Dense

LEMMA OutStep == Inv /\ OutInv /\ [Next]_vars => OutInv'
<1> SUFFICES ASSUME Inv, OutInv, [Next]_vars PROVE OutInv'
  OBVIOUS
<1> USE DEF userVars, pollVars, gresbVars, sendVars, pollElse, gresbElse
<1>0. UserTypes /\ LinkTypes /\ TodoTypes /\ OutTypes
  BY DEF Inv, Types
<1>1. ASSUME UNCHANGED <<out, read, todo, buf, off, fresh>>,
             set' \ left' \subseteq set \ left, set' \subseteq set
      PROVE  OutInv'
  <2>1. \A u \in Users, t \in Links : Current(u, t)' = Current(u, t)
    BY <1>1 DEF Current, Turn, At
  <2>2. \A u \in Users : Attached(u)' => Attached(u)
    BY <1>1 DEF Attached
  <2>3. QED BY <1>1, <2>1, <2>2 DEF OutInv
<1>2. ASSUME NEW u \in Users, Accept(u) PROVE OutInv'
  <2>1. /\ UNCHANGED <<out, read, todo, buf, off, left>> /\ u \in fresh
        /\ fresh' = fresh \ {u} /\ set' = set \cup {u}
    BY <1>2 DEF Accept
  <2>2. \A v \in Users, t \in Links : Current(v, t)' = Current(v, t)
    BY <2>1 DEF Current, Turn, At
  <2>3. \A v \in Users : Attached(v)' => Attached(v) \/ v = u
    BY <2>1 DEF Attached
  <2>4. \A t \in Links : Places(out[u], t) = {}
    BY <2>1, PlacesEmpty DEF OutInv
  <2>5. QED BY <2>1, <2>2, <2>3, <2>4 DEF OutInv
<1>3. ASSUME NEW t \in Links, Receive(t) PROVE OutInv'
  <2>1. PICK n \in Nat \ {0} :
              /\ buf[t] = <<>> /\ todo[t] = {} /\ off[t] = 0 /\ off' = off
              /\ read' = [read EXCEPT ![t] = @ + n]
              /\ buf' = [buf EXCEPT ![t] = Pieces(t, read[t], n)]
              /\ todo' = [todo EXCEPT ![t] = Users]
              /\ Len(Pieces(t, read[t], n)) = n
    BY <1>3, Receiving
  <2>2. /\ read[t] \in Nat /\ read'[t] = read[t] + n
        /\ Len(buf'[t]) = n /\ todo'[t] = Users
        /\ \A k \in Links : k # t => /\ read'[k] = read[k] /\ buf'[k] = buf[k]
                                     /\ todo'[k] = todo[k]
    BY <1>0, <2>1 DEF LinkTypes, TodoTypes
  <2>3. \A u \in Users : Current(u, t)' = Current(u, t)
    BY <2>1, <2>2 DEF Current, Turn, At
  <2>4. \A u \in Users, k \in Links : Current(u, k)' = Current(u, k)
    BY <2>1, <2>2, <2>3 DEF Current, Turn, At
  <2>5. UNCHANGED <<out, set, left, fresh>>
    BY <1>3 DEF Receive, ReceiveInto
  <2>6. \A u \in Users : Attached(u)' = Attached(u)
    BY <2>5 DEF Attached
  <2>7. QED BY <2>4, <2>5, <2>6 DEF OutInv
<1>4. ASSUME NEW t \in Links, NEW u \in Users, Deliver(t, u) PROVE OutInv'
  <2> DEFINE b == At(t)
  <2>0. PICK n \in Nat \ {0} :
           /\ off[t] + n <= Len(buf[t]) /\ Turn(t, u)
           /\ UNCHANGED <<fresh, left, set, read>>
           /\ \A s \in Links : s # t => /\ buf'[s] = buf[s] /\ todo'[s] = todo[s]
                                         /\ off'[s] = off[s]
           /\ Served(t, u, n) => todo'[t] = todo[t] \ {u} /\ off'[t] = 0
           /\ ~Served(t, u, n) => todo'[t] = todo[t] /\ off'[t] = off[t] + n
           /\ buf'[t] = IF todo'[t] = {} THEN <<>> ELSE buf[t]
           /\ \A v \in Users : v # u => out'[v] = out[v]
           /\ u \notin set \ left => out'[u] = out[u]
           /\ u \in set \ left => Grown(out'[u], out[u], t, At(t), n)
           /\ Len(buf[t]) \in Nat /\ At(t) \in Nat /\ off[t] \in Nat
    BY <1>4, Delivering
  <2>1. b \in Nat /\ read[t] \in Nat /\ b + n <= read[t] /\ UNCHANGED <<fresh, left, set, read>>
    BY <1>0, <2>0 DEF LinkTypes, At
  <2>2. /\ u \in todo[t] /\ (\A v \in todo[t] : u <= v) /\ todo[t] \subseteq Nat
    BY <1>0, <2>0, GresbBridgeAssumption DEF Turn, TodoTypes
  <2>3. ASSUME NEW v \in Users, v # u PROVE Current(v, t)' = Current(v, t)
    <3>1. ~Turn(t, v)
      BY <2>2, <2>3, GresbBridgeAssumption DEF Turn
    <3>2. CASE Served(t, u, n)
      <4>1. todo'[t] = todo[t] \ {u} /\ off'[t] = 0
        BY <2>0, <3>2
      <4>2. v \in todo[t] => v \in todo'[t] /\ buf'[t] = buf[t]
        BY <2>0, <2>3, <4>1
      <4>3. v \notin todo[t] => v \notin todo'[t]
        BY <4>1
      <4>4. CASE v \in todo[t]
        <5>1. Current(v, t) = read[t] - Len(buf[t])
          BY <3>1, <4>4 DEF Current
        <5>2. Current(v, t)' = read[t] - Len(buf[t])
          BY <2>0, <4>1, <4>2, <4>4, <2>1 DEF Current, At
        <5>3. QED BY <5>1, <5>2
      <4>5. CASE v \notin todo[t]
        BY <2>1, <4>3, <4>5 DEF Current, Turn
      <4>6. QED BY <4>4, <4>5
    <3>3. CASE ~Served(t, u, n)
      <4>1. todo'[t] = todo[t] /\ buf'[t] = buf[t]
        BY <2>0, <2>2, <3>3
      <4>2. ~Turn(t, v)'
        BY <3>1, <4>1 DEF Turn
      <4>3. QED BY <2>1, <3>1, <4>1, <4>2 DEF Current
    <3>4. QED BY <3>2, <3>3
  <2>4. \A v \in Users, k \in Links : v # u \/ k # t => Current(v, k)' = Current(v, k)
    <3>2. ASSUME NEW v \in Users, NEW k \in Links, k # t PROVE Current(v, k)' = Current(v, k)
      BY <2>0, <2>1, <3>2 DEF Current, Turn, At
    <3>3. QED BY <2>3, <3>2
  <2>5. /\ Current(u, t) = b /\ Current(u, t)' >= b /\ Current(u, t)' \in Nat
        /\ u \in set => Current(u, t)' = b + n
    <3>1. Current(u, t) = b
      BY <2>0 DEF Current
    <3>2. CASE Served(t, u, n)
      <4>1. u \notin todo'[t] /\ Current(u, t)' = read[t]
        BY <2>0, <2>1, <3>2 DEF Current, Turn
      <4>2. u \in set => b + n = read[t]
        BY <1>0, <2>0, <2>1, <3>2 DEF Served, At
      <4>3. QED BY <2>1, <3>1, <4>1, <4>2
    <3>3. CASE ~Served(t, u, n)
      <4>1. todo'[t] = todo[t] /\ off'[t] = off[t] + n /\ buf'[t] = buf[t]
        BY <2>0, <2>2, <3>3
      <4>2. Turn(t, u)'
        BY <2>0, <4>1 DEF Turn
      <4>3. Current(u, t)' = read[t] - Len(buf[t]) + (off[t] + n)
        BY <2>1, <4>1, <4>2 DEF Current, At
      <4>4. read[t] - Len(buf[t]) + (off[t] + n) = b + n
        BY <2>0, <2>1 DEF At
      <4>5. QED BY <2>1, <3>1, <4>3, <4>4
    <3>4. QED BY <3>2, <3>3
  <2>6. \A v \in Users : Attached(v)' = Attached(v)
    BY <2>1 DEF Attached
  <2>7. /\ \A v \in Users : v # u => out'[v] = out[v]
        /\ ~Attached(u) => out'[u] = out[u]
        /\ Attached(u) => Grown(out'[u], out[u], t, b, n)
    BY <2>0 DEF Attached
  <2>8. out[u] \in Seq(PiecesOf(Links))
    BY <1>0 DEF OutTypes
  <2> HIDE DEF b
  <2>9. Dense(Places(out[u], t), b)
    BY <2>5 DEF OutInv
  <2>10. u \in fresh => out'[u] = out[u]
    BY <2>7 DEF OutInv, Attached
  <2>11. CASE ~Attached(u)
    <3>1. Dense(Places(out[u], t), Current(u, t)')
      BY <2>1, <2>5, <2>9 DEF Dense
    <3>2. \A v \in Users : out'[v] = out[v]
      BY <2>7, <2>11
    <3>3. \A v \in Users, k \in Links : Dense(Places(out'[v], k), Current(v, k)')
      BY <2>4, <2>5, <3>1, <3>2 DEF OutInv
    <3>4. ASSUME NEW v \in Users, NEW k \in Links, Attached(v)', Places(out'[v], k) # {}
          PROVE  Current(v, k)' \in Places(out'[v], k)
      <4>1. v # u /\ Attached(v)
        BY <2>6, <2>11, <3>4
      <4>2. QED BY <2>4, <3>2, <3>4, <4>1 DEF OutInv
    <3>5. QED BY <2>1, <3>2, <3>3, <3>4 DEF OutInv
  <2>12. CASE Attached(u)
    <3>1. InOrder(out'[u])
      BY <2>1, <2>7, <2>8, <2>9, <2>12, OrderKept DEF OutInv, Dense
    <3>2. /\ Places(out'[u], t) = Places(out[u], t) \cup (b + 1) .. (b + n)
          /\ \A k \in Links : k # t => Places(out'[u], k) = Places(out[u], k)
      BY <2>1, <2>7, <2>12, MorePlaces, SMTT(60)
    <3>3. Places(out[u], t) # {} => b \in Places(out[u], t)
      BY <2>5, <2>12 DEF OutInv
    <3>4. /\ Dense(Places(out'[u], t), b + n)
          /\ Places(out'[u], t) # {} => b + n \in Places(out'[u], t)
      BY <2>1, <2>9, <3>2, <3>3, DenseGrows
    <3>5. \A v \in Users, k \in Links : v # u \/ k # t => Places(out'[v], k) = Places(out[v], k)
      BY <2>7, <3>2
    <3>6. \A v \in Users : InOrder(out'[v])
      BY <2>7, <3>1 DEF OutInv
    <3>7. ASSUME NEW v \in Users, NEW k \in Links
          PROVE  /\ Dense(Places(out'[v], k), Current(v, k)')
                 /\ Attached(v)' /\ Places(out'[v], k) # {}
                       => Current(v, k)' \in Places(out'[v], k)
      <4>1. CASE v = u /\ k = t
        BY <2>5, <2>12, <3>4, <4>1 DEF Attached
      <4>2. CASE v # u \/ k # t
        BY <2>4, <2>6, <3>5, <4>2 DEF OutInv
      <4>3. QED BY <4>1, <4>2
    <3>8. \A v \in Users : v \in fresh' => v \notin set' /\ out'[v] = <<>>
      BY <2>1, <2>7, <2>10 DEF OutInv
    <3>9. QED BY <3>6, <3>7, <3>8 DEF OutInv
  <2>13. QED BY <2>11, <2>12
<1>5. QED
  BY <1>1, <1>2, <1>3, <1>4, <1>0
  DEF Next, vars, PollThread, GresbThread, Leave, SendPieces, Arrive, Select, Peek,
      Forward, ForwardPieces, UserTypes

\* Every stream between two ends that both stay arrives complete and in
\* order: the users' at the GRESB, and from its connections at each user.
THEOREM StreamsKeptCorrect == Spec => []StreamsKept
<1>1. UpInv /\ OutInv => StreamsKept
  BY DEF UpInv, OutInv, StreamsKept, Dense
<1>2. QED BY <1>1, InvInit, InvStep, UpInit, UpStep, OutInit, OutStep, PTL DEF Spec

-----------------------------------------------------------------------------
(* Packets stay whole.                                                     *)

\* A user that is there ends with a whole packet, or with the place of the
\* one thread that is in the middle of a packet to it.
UserWhole(u) ==
    /\ Unmixed(out[u])
    /\ Attached(u) =>
          /\ Ended(out[u]) \/ \E t \in Links : MidSend(t, u)
          /\ \A t \in Links : MidSend(t, u) =>
                 out[u] # <<>> /\ Last(out[u]) = [from |-> t, i |-> At(t)]

\* Unless a packet was not received at once, each link is between two
\* packets, or holds the last one.
LinkWhole ==
    \A t \in Links : /\ read[t] % PacketSize = 0
                     /\ buf[t] # <<>> => Len(buf[t]) = PacketSize

WholeInv ==
    /\ Unmixed(up) /\ Ended(up)
    /\ \A t \in Links, u \in Users : MidSend(t, u) => u \notin fresh
    /\ cut \/ LinkWhole
    /\ cut \/ \A u \in Users \ crossed : UserWhole(u)

LEMMA WholeInit == Init => WholeInv
<1> SUFFICES ASSUME Init PROVE WholeInv
  OBVIOUS
<1>1. Unmixed(<<>>) /\ Ended(<<>>)
  <2>1. 1 .. (Len(<<>>) - 1) = {}
    OBVIOUS
  <2>2. QED BY <2>1 DEF Unmixed, Ended
<1>2. up = <<>> /\ (\A u \in Users : out[u] = <<>>)
      /\ \A t \in Links : read[t] = 0 /\ buf[t] = <<>> /\ off[t] = 0
  BY DEF Init
<1>3. 0 % PacketSize = 0
  BY DEF PacketSize, HeaderSize
<1>4. \A t \in Links, u \in Users : ~MidSend(t, u)
  BY <1>2 DEF MidSend
<1>5. \A u \in Users : UserWhole(u)
  BY <1>1, <1>2, <1>4 DEF UserWhole
<1>6. QED BY <1>1, <1>2, <1>3, <1>4, <1>5 DEF WholeInv, LinkWhole

LEMMA WholeStep == Inv /\ OutInv /\ WholeInv /\ [Next]_vars => WholeInv'
<1> SUFFICES ASSUME Inv, OutInv, WholeInv, [Next]_vars PROVE WholeInv'
  OBVIOUS
<1> USE DEF userVars, pollVars, gresbVars, sendVars, pollElse, gresbElse
<1>0. LinkTypes /\ TodoTypes /\ OutTypes
  BY DEF Inv, Types
<1>s. ASSUME UNCHANGED <<todo, off>>, NEW t \in Links, NEW u \in Users
      PROVE  MidSend(t, u)' <=> MidSend(t, u)
  BY <1>s DEF MidSend, Turn
<1>1. ASSUME UNCHANGED <<out, read, buf, todo, off, cut, crossed>>, Unmixed(up'), Ended(up'),
             fresh' \subseteq fresh,
             \A u \in Users : Attached(u)' => Attached(u) \/ \A t \in Links : ~MidSend(t, u),
             \A u \in Users : Attached(u)' => Attached(u) \/ out[u] = <<>>
      PROVE  WholeInv'
  <2>1. \A t \in Links : At(t)' = At(t)
    BY <1>1 DEF At
  <2>2. \A t \in Links, u \in Users : MidSend(t, u)' <=> MidSend(t, u)
    BY <1>1, <1>s
  <2>3. ASSUME NEW u \in Users, UserWhole(u) PROVE UserWhole(u)'
    <3>1. CASE Attached(u)
      BY <1>1, <2>1, <2>2, <2>3, <3>1 DEF UserWhole
    <3>2. CASE ~Attached(u) /\ Attached(u)'
      BY <1>1, <2>2, <2>3, <3>2 DEF UserWhole, Ended
    <3>3. CASE ~Attached(u)'
      BY <1>1, <2>3, <3>3 DEF UserWhole
    <3>4. QED BY <3>1, <3>2, <3>3
  <2>4. (cut \/ LinkWhole)'
    BY <1>1 DEF WholeInv, LinkWhole
  <2>5. (cut \/ \A u \in Users \ crossed : UserWhole(u))'
    BY <1>1, <2>3 DEF WholeInv
  <2>6. QED BY <1>1, <2>2, <2>4, <2>5 DEF WholeInv
<1>2. CASE Forward
  <2>1. Unmixed(up') /\ Ended(up')
    <3> DEFINE b == taken[poll.user]
    <3>1. /\ b \in Nat /\ b % PacketSize = 0
          /\ Grown(up', up, poll.user, b, PacketSize)
      BY <1>2, Forwarding
    <3>2. PacketSize \in Nat \ {0} /\ (b + PacketSize) % PacketSize = 0
      BY <3>1 DEF PacketSize, HeaderSize
    <3> HIDE DEF b
    <3>3. QED BY <3>1, <3>2, UnmixedKept DEF WholeInv
  <2>2. UNCHANGED <<out, read, buf, todo, off, cut, crossed, fresh, set, left>>
    BY <1>2 DEF Forward, ForwardPieces
  <2>3. QED BY <1>1, <2>1, <2>2 DEF Attached
<1>3. ASSUME NEW t \in Links, Receive(t) PROVE WholeInv'
  <2>1. UNCHANGED <<up, out, set, left, fresh, crossed, made>>
    BY <1>3 DEF Receive, ReceiveInto
  <2>2. PICK n \in Nat \ {0} :
            /\ \E size \in SizesAt(read[t]) : n = Least(size, made[t] - read[t])
            /\ off[t] = 0 /\ off' = off
            /\ todo' = [todo EXCEPT ![t] = Users]
            /\ read' = [read EXCEPT ![t] = @ + n]
            /\ buf' = [buf EXCEPT ![t] = Pieces(t, read[t], n)]
            /\ Len(Pieces(t, read[t], n)) = n
    BY <1>3, Receiving
  <2>3. \A k \in Links, u \in Users :
            /\ MidSend(k, u)' <=> MidSend(k, u)
            /\ MidSend(k, u) => At(k)' = At(k)
    <3>1. ASSUME NEW k \in Links, NEW u \in Users, k = t
          PROVE  ~MidSend(k, u)' /\ ~MidSend(k, u)
      BY <2>2, <3>1 DEF MidSend
    <3>2. ASSUME NEW k \in Links, k # t
          PROVE  /\ todo'[k] = todo[k] /\ off'[k] = off[k] /\ read'[k] = read[k]
                 /\ buf'[k] = buf[k]
      BY <1>0, <2>2, <3>2 DEF TodoTypes, LinkTypes
    <3>3. ASSUME NEW k \in Links, NEW u \in Users, k # t
          PROVE  (MidSend(k, u)' <=> MidSend(k, u)) /\ At(k)' = At(k)
      BY <3>2, <3>3 DEF MidSend, Turn, At
    <3>4. QED BY <3>1, <3>3
  <2>4. \A u \in Users : Attached(u)' <=> Attached(u)
    BY <2>1 DEF Attached
  <2>5. ASSUME NEW u \in Users, UserWhole(u) PROVE UserWhole(u)'
    BY <2>1, <2>3, <2>4, <2>5 DEF UserWhole
  <2>6. CASE cut'
    BY <2>1, <2>3, <2>6 DEF WholeInv
  <2>7. CASE ~cut'
    <3>1. ~cut /\ ~(made[t] - read[t] < PacketSize)
      BY <1>3, <2>7 DEF Receive, ReceiveInto
    <3>2. read[t] % PacketSize = 0
      BY <3>1 DEF WholeInv, LinkWhole
    <3>4. n = PacketSize
      <4>1. n = Least(PacketSize, made[t] - read[t])
        BY <2>2, <3>2 DEF SizesAt
      <4>2. made[t] \in Int /\ read[t] \in Int /\ PacketSize \in Int
        BY <1>0 DEF LinkTypes, PacketSize, HeaderSize
      <4>3. QED BY <3>1, <4>1, <4>2 DEF Least
    <3>5. /\ read'[t] = read[t] + PacketSize /\ Len(buf'[t]) = PacketSize
          /\ \A k \in Links : k # t => read'[k] = read[k] /\ buf'[k] = buf[k]
      BY <1>0, <2>2, <3>4 DEF LinkTypes, TodoTypes
    <3>6. read'[t] % PacketSize = 0
      <4>1. read[t] \in Nat
        BY <1>0 DEF LinkTypes
      <4>2. QED BY <3>2, <3>5, <4>1 DEF PacketSize, HeaderSize
    <3>7. LinkWhole'
      BY <3>1, <3>5, <3>6 DEF WholeInv, LinkWhole
    <3>8. \A u \in Users \ crossed' : UserWhole(u)'
      BY <2>1, <2>5, <3>1 DEF WholeInv
    <3>9. QED BY <2>1, <2>3, <3>7, <3>8 DEF WholeInv
  <2>8. QED BY <2>6, <2>7
<1>4. ASSUME NEW t \in Links, NEW u \in Users, Deliver(t, u) PROVE WholeInv'
  <2>1. PICK n \in Nat \ {0} :
           /\ off[t] + n <= Len(buf[t]) /\ Turn(t, u)
           /\ UNCHANGED <<fresh, left, set, up, read, cut>>
           /\ \A s \in Links : s # t => /\ buf'[s] = buf[s] /\ todo'[s] = todo[s]
                                         /\ off'[s] = off[s]
           /\ Served(t, u, n) => todo'[t] = todo[t] \ {u} /\ off'[t] = 0
           /\ ~Served(t, u, n) => todo'[t] = todo[t] /\ off'[t] = off[t] + n
           /\ buf'[t] = IF todo'[t] = {} THEN <<>> ELSE buf[t]
           /\ \A v \in Users : v # u => out'[v] = out[v]
           /\ u \notin set \ left => out'[u] = out[u]
           /\ u \in set \ left => Grown(out'[u], out[u], t, At(t), n)
           /\ Len(buf[t]) \in Nat /\ At(t) \in Nat /\ off[t] \in Nat
           /\ crossed' = crossed \cup {v \in {u} \cap set : \E s \in Links \ {t} : MidSend(s, v)}
    BY <1>4, Delivering
  <2>2. \A v \in Users : Attached(v)' <=> Attached(v)
    BY <2>1 DEF Attached
  <2>3. \A s \in Links, v \in Users : s # t => (MidSend(s, v)' <=> MidSend(s, v)) /\ At(s)' = At(s)
    BY <2>1 DEF MidSend, Turn, At
  <2>4. u \in todo[t] /\ todo[t] # {} /\ (\A v \in todo[t] : u <= v) /\ buf[t] # <<>>
    BY <1>0, <2>1 DEF Turn, TodoTypes
  <2>5. ASSUME NEW v \in Users, v # u PROVE ~MidSend(t, v) /\ ~MidSend(t, v)'
    <3>1. ~Turn(t, v)
      BY <2>4, <2>5, GresbBridgeAssumption DEF Turn
    <3>2. CASE Served(t, u, n)
      BY <2>1, <3>1, <3>2 DEF MidSend
    <3>3. CASE ~Served(t, u, n)
      BY <2>1, <3>1, <3>3 DEF MidSend, Turn
    <3>4. QED BY <3>2, <3>3
  <2>6. \A s \in Links, v \in Users : MidSend(s, v)' => v \notin fresh'
    <3>1. \A s \in Links, v \in Users : s # t \/ v # u => (MidSend(s, v)' => v \notin fresh')
      BY <2>1, <2>3, <2>5 DEF WholeInv
    <3>2. MidSend(t, u)' => u \in set
      BY <2>1 DEF MidSend, Served
    <3>3. QED BY <2>1, <3>1, <3>2 DEF OutInv
  <2>7. CASE cut
    BY <2>1, <2>6, <2>7 DEF WholeInv
  <2>8. CASE ~cut
    <3>1. LinkWhole'
      BY <2>1, <2>8 DEF WholeInv, LinkWhole
    <3>2. Len(buf[t]) = PacketSize /\ read[t] % PacketSize = 0
      BY <2>4, <2>8 DEF WholeInv, LinkWhole
    <3>3. ASSUME NEW v \in Users, v # u, UserWhole(v) PROVE UserWhole(v)'
      BY <2>1, <2>2, <2>3, <2>5, <3>3 DEF UserWhole
    <3>4. ASSUME u \notin crossed', UserWhole(u), ~Attached(u) PROVE UserWhole(u)'
      BY <2>1, <2>2, <3>4 DEF UserWhole, Attached
    <3>5. ASSUME u \notin crossed', UserWhole(u), Attached(u) PROVE UserWhole(u)'
      <4>1. \A s \in Links : s # t => ~MidSend(s, u) /\ ~MidSend(s, u)'
        BY <2>1, <2>3, <3>5 DEF Attached
      <4>2. Ended(out[u]) \/ (out[u] # <<>> /\ Last(out[u]) = [from |-> t, i |-> At(t)])
        BY <3>5, <4>1 DEF UserWhole
      <4>3. Grown(out'[u], out[u], t, At(t), n) /\ Unmixed(out[u]) /\ u \in set
        BY <2>1, <3>5 DEF Attached, UserWhole
      <4>4. /\ Unmixed(out'[u]) /\ out'[u] # <<>>
            /\ Last(out'[u]) = [from |-> t, i |-> At(t) + n]
            /\ (At(t) + n) % PacketSize = 0 => Ended(out'[u])
        BY <2>1, <4>2, <4>3, UnmixedKept
      <4>5. CASE Served(t, u, n)
        <5>1. off[t] + n = Len(buf[t]) /\ off'[t] = 0
          BY <2>1, <4>3, <4>5 DEF Served
        <5>2. At(t) + n = read[t]
          <6>1. read[t] \in Nat
            BY <1>0 DEF LinkTypes
          <6>2. QED BY <2>1, <5>1, <6>1 DEF At
        <5>3. ~MidSend(t, u)'
          BY <5>1 DEF MidSend
        <5>4. Ended(out'[u])
          BY <3>2, <4>4, <5>2
        <5>5. QED BY <4>1, <4>4, <5>3, <5>4 DEF UserWhole
      <4>6. CASE ~Served(t, u, n)
        <5>1. todo'[t] = todo[t] /\ off'[t] = off[t] + n /\ buf'[t] = buf[t]
          BY <2>1, <2>4, <4>6
        <5>2. MidSend(t, u)'
          BY <2>1, <5>1 DEF MidSend, Turn
        <5>3. At(t)' = At(t) + n
          <6>1. read[t] \in Nat
            BY <1>0 DEF LinkTypes
          <6>2. QED BY <2>1, <5>1, <6>1 DEF At
        <5>4. QED BY <4>1, <4>4, <5>2, <5>3 DEF UserWhole
      <4>7. QED BY <4>5, <4>6
    <3>6. \A v \in Users \ crossed' : v \notin crossed
      BY <2>1
    <3>7. \A v \in Users \ crossed' : UserWhole(v)'
      BY <2>8, <3>3, <3>4, <3>5, <3>6 DEF WholeInv
    <3>8. QED BY <2>1, <2>6, <3>1, <3>7 DEF WholeInv
  <2>9. QED BY <2>7, <2>8
<1>5. ASSUME NEW u \in Users, Accept(u) PROVE WholeInv'
  <2>1. /\ u \in fresh /\ set' = set \cup {u} /\ fresh' = fresh \ {u}
        /\ UNCHANGED <<left, up, out, read, buf, todo, off, cut, crossed>>
    BY <1>5 DEF Accept
  <2>2. \A v \in Users : Attached(v)' => Attached(v) \/ v = u
    BY <2>1 DEF Attached
  <2>3. out[u] = <<>> /\ \A t \in Links : ~MidSend(t, u)
    BY <2>1 DEF OutInv, WholeInv
  <2>4. QED BY <1>1, <2>1, <2>2, <2>3 DEF WholeInv
<1>6. ASSUME UNCHANGED <<up, out, read, buf, todo, off, cut, crossed, fresh>>,
             set' \ left' \subseteq set \ left
      PROVE  WholeInv'
  <2>1. \A u \in Users : Attached(u)' => Attached(u)
    BY <1>6 DEF Attached
  <2>2. QED BY <1>1, <1>6, <2>1 DEF WholeInv
<1>7. QED
  BY <1>2, <1>3, <1>4, <1>5, <1>6
  DEF Next, vars, PollThread, GresbThread, Leave, SendPieces, Arrive, Select, Peek

\* No packet is put between the pieces of another, on the way to the GRESB
\* ever, on the way to a user unless one was not received at once or both
\* threads were sending to this user at a time; and none is left unfinished.
THEOREM PacketsApartCorrect == Spec => []PacketsApart
<1>1. WholeInv => PacketsApart
  BY DEF WholeInv, UserWhole, PacketsApart, Attached
<1>2. QED BY <1>1, InvInit, InvStep, OutInit, OutStep, WholeInit, WholeStep, PTL DEF Spec
=============================================================================
