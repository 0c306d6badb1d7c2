------------------------- MODULE FrameReadout_proofs -------------------------
(***************************************************************************)
(* Theorems about a frame on its way to the client, for nodes, packets,    *)
(* links and numbers of frames of any size.                                *)
(*                                                                         *)
(* The packets on the link and the position of the sender are one stream:  *)
(* each packet is followed by the one that continues the part it belongs   *)
(* to, or by the first one of the next part.  What an aggregator holds is  *)
(* told by the front of the stream, the position of the packet it receives *)
(* next.                                                                   *)
(***************************************************************************)
EXTENDS FrameReadout, FiniteSetTheorems, TLAPS

Parts == Nodes \cup {"HK", "FF"}

\* The place of a part in its frame.
Ord(part) ==
    IF part = "HK" THEN 0 ELSE IF part = "F2" THEN 2
    ELSE IF part = "E4" THEN 3 ELSE IF part = "F4" THEN 4 ELSE 1

\* The parts of a frame.
Playing == IF mode = "FT" THEN {"HK"} \cup node_sel ELSE {"HK", "FF"}

LEMMA PartsOrdered ==
    /\ \A q \in Parts : Ord(q) \in 0 .. 4 /\ (Ord(q) = 0 <=> q = "HK")
    /\ \A q, r \in Nodes : Ord(q) = Ord(r) => q = r
BY DEF Ord, Parts, Nodes

-----------------------------------------------------------------------------
(* The parts that are left of a frame.                                     *)

Increasing(s) == \A i, j \in 1 .. Len(s) : i < j => Ord(s[i]) < Ord(s[j])

\* s holds the parts S in their order.
Listed(s, S) ==
    s \in Seq(S) /\ Increasing(s) /\ \A y \in S : \E i \in 1 .. Len(s) : s[i] = y

\* s holds the parts of S from its first one on.
Rest(s, S) ==
    /\ s \in Seq(S)
    /\ Increasing(s)
    /\ s # <<>> => \A y \in S : Ord(s[1]) <= Ord(y) => \E i \in 1 .. Len(s) : s[i] = y

\* Part q of S comes next after a.
Succ(S, a, q) ==
    /\ q \in S
    /\ Ord(a) < Ord(q)
    /\ \A y \in S : Ord(y) <= Ord(a) \/ Ord(q) <= Ord(y)

\* Part a is the last one of S.
Final(S, a) == \A y \in S : Ord(y) <= Ord(a)

LEMMA SuccIsLater ==
    ASSUME NEW S, NEW a \in Parts, NEW q, Succ(S, a, q) PROVE q # "HK"
BY PartsOrdered DEF Succ, Ord

LEMMA ListedMore ==
    ASSUME NEW S, NEW T, NEW s, NEW t, Listed(s, S), Listed(t, T),
           \A x \in S, y \in T : Ord(x) < Ord(y)
    PROVE  Listed(s \o t, S \cup T)
<1> DEFINE u == s \o t
<1>1. /\ u \in Seq(S \cup T) /\ Len(u) = Len(s) + Len(t)
      /\ Len(s) \in Nat /\ Len(t) \in Nat
  BY DEF Listed
<1>2. \A i \in 1 .. Len(s) : u[i] = s[i] /\ u[i] \in S
  BY DEF Listed
<1>3. \A i \in 1 .. Len(u) : i > Len(s) =>
          /\ i - Len(s) \in 1 .. Len(t)
          /\ u[i] = t[i - Len(s)] /\ u[i] \in T
  BY <1>1 DEF Listed
<1>4. \A i \in 1 .. Len(t) : i + Len(s) \in 1 .. Len(u) /\ u[i + Len(s)] = t[i]
  BY <1>1 DEF Listed
<1>5. Increasing(s) /\ Increasing(t)
  BY DEF Listed
<1>6. \A y \in S : \E i \in 1 .. Len(s) : s[i] = y
  BY DEF Listed
<1>7. \A y \in T : \E i \in 1 .. Len(t) : t[i] = y
  BY DEF Listed
<1> HIDE DEF u
<1>8. Increasing(u)
  <2> SUFFICES ASSUME NEW i \in 1 .. Len(u), NEW j \in 1 .. Len(u), i < j
               PROVE  Ord(u[i]) < Ord(u[j])
    BY DEF Increasing
  <2>1. CASE j <= Len(s)
    <3>1. i \in 1 .. Len(s) /\ j \in 1 .. Len(s)
      BY <2>1, <1>1
    <3>2. QED BY <3>1, <1>2, <1>5 DEF Increasing
  <2>2. CASE i > Len(s)
    <3>1. i - Len(s) \in 1 .. Len(t) /\ j - Len(s) \in 1 .. Len(t) /\ i - Len(s) < j - Len(s)
      BY <2>2, <1>1, <1>3
    <3>2. u[i] = t[i - Len(s)] /\ u[j] = t[j - Len(s)]
      BY <2>2, <1>1, <1>3
    <3>3. QED BY <3>1, <3>2, <1>5 DEF Increasing
  <2>3. CASE i <= Len(s) /\ j > Len(s)
    <3>1. u[i] \in S /\ u[j] \in T
      BY <2>3, <1>1, <1>2, <1>3
    <3>2. QED BY <3>1
  <2>4. QED BY <2>1, <2>2, <2>3, <1>1
<1>9. \A y \in S \cup T : \E i \in 1 .. Len(u) : u[i] = y
  <2>1. ASSUME NEW y \in S PROVE \E i \in 1 .. Len(u) : u[i] = y
    <3>1. PICK i \in 1 .. Len(s) : s[i] = y
      BY <1>6
    <3>2. i \in 1 .. Len(u) /\ u[i] = y
      BY <3>1, <1>1, <1>2
    <3>3. QED BY <3>2
  <2>2. ASSUME NEW y \in T PROVE \E i \in 1 .. Len(u) : u[i] = y
    <3>1. PICK i \in 1 .. Len(t) : t[i] = y
      BY <1>7
    <3>2. QED BY <3>1, <1>4
  <2>3. QED BY <2>1, <2>2
<1>10. Listed(u, S \cup T)
  BY <1>1, <1>8, <1>9 DEF Listed
<1>11. QED BY <1>10 DEF u

LEMMA OneListed ==
    ASSUME NEW x PROVE Listed(<<x>>, {x})
BY DEF Listed, Increasing

LEMMA PartListed ==
    ASSUME NEW x, NEW nodes PROVE Listed(Part(x, nodes), nodes \cap {x})
<1>1. CASE x \in nodes
  <2>1. Part(x, nodes) = <<x>> /\ nodes \cap {x} = {x}
    BY <1>1 DEF Part
  <2>2. QED BY <2>1, OneListed
<1>2. CASE x \notin nodes
  <2>1. Part(x, nodes) = <<>> /\ nodes \cap {x} = {}
    BY <1>2 DEF Part
  <2>2. QED BY <2>1 DEF Listed, Increasing
<1>3. QED BY <1>1, <1>2

LEMMA InOrderListed ==
    ASSUME NEW nodes \in SUBSET Nodes
    PROVE  Listed(InOrder(nodes), nodes)
<1> DEFINE only(x) == nodes \cap {x}
<1>1. Listed(Part("E2", nodes) \o Part("F2", nodes), only("E2") \cup only("F2"))
  <2>1. \A x \in only("E2"), y \in only("F2") : Ord(x) < Ord(y)
    BY DEF Ord
  <2>2. QED BY <2>1, PartListed, ListedMore
<1>2. Listed(Part("E2", nodes) \o Part("F2", nodes) \o Part("E4", nodes),
            (only("E2") \cup only("F2")) \cup only("E4"))
  <2>1. \A x \in only("E2") \cup only("F2"), y \in only("E4") : Ord(x) < Ord(y)
    BY DEF Ord
  <2>2. QED BY <2>1, <1>1, PartListed, ListedMore
<1>3. Listed(InOrder(nodes), ((only("E2") \cup only("F2")) \cup only("E4")) \cup only("F4"))
  <2>1. \A x \in (only("E2") \cup only("F2")) \cup only("E4"), y \in only("F4") : Ord(x) < Ord(y)
    BY DEF Ord
  <2>2. QED BY <2>1, <1>2, PartListed, ListedMore DEF InOrder
<1>4. nodes = ((only("E2") \cup only("F2")) \cup only("E4")) \cup only("F4")
  BY DEF Nodes
<1>5. QED BY <1>3, <1>4

\* What fee_sim_frame_transfer sends.
LEMMA TransferListed ==
    ASSUME NEW nodes \in SUBSET Nodes
    PROVE  Listed(<<"HK">> \o InOrder(nodes), {"HK"} \cup nodes)
<1>1. \A x \in {"HK"}, y \in nodes : Ord(x) < Ord(y)
  BY DEF Ord, Nodes
<1>2. QED BY <1>1, OneListed, InOrderListed, ListedMore

\* What fee_sim_exec_ff_mode sends.
LEMMA FullListed == Listed(<<"HK", "FF">>, {"HK", "FF"})
BY DEF Listed, Increasing, Ord

LEMMA RestOfListed ==
    ASSUME NEW S, NEW s, Listed(s, S) PROVE Rest(s, S)
BY DEF Listed, Rest

LEMMA HeadIsFirst ==
    ASSUME NEW S \in SUBSET Parts, NEW s, Listed(s, S), "HK" \in S
    PROVE  s # <<>> /\ Head(s) = "HK" /\ s[1] = "HK"
<1>1. PICK i \in 1 .. Len(s) : s[i] = "HK"
  BY DEF Listed
<1>2. s \in Seq(S) /\ Len(s) \in Nat /\ 1 \in 1 .. Len(s) /\ s[1] \in S
  BY <1>1 DEF Listed
<1>3. i = 1
  <2> SUFFICES ASSUME 1 < i PROVE FALSE
    BY <1>1
  <2>1. Ord(s[1]) < Ord("HK")
    BY <1>1, <1>2 DEF Listed, Increasing
  <2>2. Ord(s[1]) \in 0 .. 4 /\ Ord("HK") = 0
    BY <1>2, PartsOrdered DEF Ord
  <2>3. QED BY <2>1, <2>2
<1>4. QED BY <1>1, <1>2, <1>3

\* The part after the one in progress.
LEMMA RestTail ==
    ASSUME NEW S \in SUBSET Parts, NEW s, Rest(s, S), s # <<>>
    PROVE  /\ Rest(Tail(s), S)
           /\ Tail(s) # <<>> => Succ(S, s[1], Tail(s)[1])
           /\ Tail(s) = <<>> => Final(S, s[1])
<1> DEFINE t == Tail(s)
<1>1. /\ s \in Seq(S) /\ t \in Seq(S) /\ Len(s) \in Nat /\ Len(s) >= 1
      /\ Len(t) = Len(s) - 1 /\ Increasing(s)
      /\ t = <<>> <=> Len(t) = 0
  <2>1. s \in Seq(S) /\ Increasing(s)
    BY DEF Rest
  <2>2. Len(s) \in Nat /\ Len(s) >= 1
    BY <2>1
  <2>3. t \in Seq(S) /\ Len(t) = Len(s) - 1
    BY <2>1
  <2>4. t = <<>> <=> Len(t) = 0
    BY <2>3
  <2>5. QED BY <2>1, <2>2, <2>3, <2>4
<1>2. \A i \in 1 .. Len(t) : i + 1 \in 1 .. Len(s) /\ t[i] = s[i + 1] /\ t[i] \in S
  BY <1>1
<1>3. s[1] \in S /\ \A y \in S : Ord(y) \in 0 .. 4
  BY <1>1, PartsOrdered
<1>4. \A y \in S : Ord(s[1]) <= Ord(y) => \E i \in 1 .. Len(s) : s[i] = y
  BY DEF Rest
<1> HIDE DEF t
<1>5. Increasing(t)
  <2> SUFFICES ASSUME NEW i \in 1 .. Len(t), NEW j \in 1 .. Len(t), i < j
               PROVE  Ord(t[i]) < Ord(t[j])
    BY DEF Increasing
  <2>1. i + 1 \in 1 .. Len(s) /\ j + 1 \in 1 .. Len(s) /\ i + 1 < j + 1
    BY <1>2
  <2>2. QED BY <2>1, <1>1, <1>2 DEF Increasing
<1>6. \A y \in S : Ord(s[1]) < Ord(y) => \E i \in 1 .. Len(t) : t[i] = y
  <2> SUFFICES ASSUME NEW y \in S, Ord(s[1]) < Ord(y)
               PROVE  \E i \in 1 .. Len(t) : t[i] = y
    OBVIOUS
  <2>1. PICK i \in 1 .. Len(s) : s[i] = y
    BY <1>3, <1>4
  <2>2. i # 1
    BY <2>1, <1>3
  <2>3. i - 1 \in 1 .. Len(t) /\ (i - 1) + 1 = i
    BY <2>2, <1>1
  <2>4. t[i - 1] = y
    BY <2>1, <2>3, <1>2
  <2>5. QED BY <2>3, <2>4
<1>7. ASSUME t # <<>>
      PROVE  /\ \A y \in S : Ord(t[1]) <= Ord(y) => \E i \in 1 .. Len(t) : t[i] = y
             /\ Succ(S, s[1], t[1])
  <2>1. 1 \in 1 .. Len(t) /\ 1 \in 1 .. Len(s) /\ 2 \in 1 .. Len(s) /\ t[1] = s[2] /\ t[1] \in S
    BY <1>7, <1>1, <1>2
  <2>2. Ord(s[1]) < Ord(t[1])
    BY <2>1, <1>1 DEF Increasing
  <2>3. \A y \in S : Ord(t[1]) <= Ord(y) => \E i \in 1 .. Len(t) : t[i] = y
    <3>1. \A y \in S : Ord(t[1]) <= Ord(y) => Ord(s[1]) < Ord(y)
      BY <2>1, <2>2, <1>3
    <3>2. QED BY <3>1, <1>6
  <2>4. \A y \in S : Ord(y) <= Ord(s[1]) \/ Ord(t[1]) <= Ord(y)
    <3> SUFFICES ASSUME NEW y \in S, Ord(s[1]) < Ord(y) PROVE Ord(t[1]) <= Ord(y)
      BY <1>3
    <3>1. PICK i \in 1 .. Len(t) : t[i] = y
      BY <1>6
    <3>2. i = 1 \/ Ord(t[1]) < Ord(t[i])
      BY <2>1, <1>5 DEF Increasing
    <3>3. QED BY <3>1, <3>2, <2>1, <1>3
  <2>5. QED BY <2>1, <2>2, <2>3, <2>4 DEF Succ
<1>8. ASSUME t = <<>> PROVE Final(S, s[1])
  <2>1. \A y \in S : ~(Ord(s[1]) < Ord(y))
    BY <1>8, <1>1, <1>6
  <2>2. QED BY <2>1, <1>3 DEF Final
<1>9. Rest(t, S) /\ (t # <<>> => Succ(S, s[1], t[1])) /\ (t = <<>> => Final(S, s[1]))
  BY <1>1, <1>5, <1>7, <1>8 DEF Rest
<1>10. QED BY <1>9 DEF t

-----------------------------------------------------------------------------
(* The packets.                                                            *)

IsEnd(p) == p.last = 1

PartOf(p) == p.data[1].src

OffOf(p) == p.data[1].idx - 1

\* A packet that fee_sim_tx_payload_data makes of frames up to the given one.
Good(S, top, p) ==
    /\ p \in Packet
    /\ PartOf(p) \in S
    /\ FrameOf(p) \in 1 .. top
    /\ OffOf(p) \in Nat
    /\ Len(p.data) \in 1 .. DATA_LEN_MAX
    /\ OffOf(p) + Len(p.data) <= PartLen(PartOf(p))
    /\ IsEnd(p) <=> OffOf(p) + Len(p.data) = PartLen(PartOf(p))
    /\ \A k \in 1 .. Len(p.data) :
         p.data[k] = [src |-> PartOf(p), frame |-> FrameOf(p), idx |-> OffOf(p) + k]
    /\ p.type = IF PartOf(p) = "HK" THEN "HK" ELSE "DATA"
    /\ p.node = IF PartOf(p) \in Nodes THEN PartOf(p) ELSE "F2"
    /\ PartOf(p) = "HK" /\ HK_LEN <= DATA_LEN_MAX => OffOf(p) = 0

\* Packet p is followed by pixel o + 1 of part q of frame f.
Leads(S, p, f, q, o) ==
    \/ /\ ~IsEnd(p)
       /\ f = FrameOf(p) /\ q = PartOf(p) /\ o = OffOf(p) + Len(p.data)
    \/ /\ IsEnd(p)
       /\ f = FrameOf(p) /\ Succ(S, PartOf(p), q) /\ o = 0
    \/ /\ IsEnd(p)
       /\ f = FrameOf(p) + 1 /\ q = "HK" /\ o = 0 /\ Final(S, PartOf(p))

Cut(part, node, last, cntr, frame, off, len) ==
    [type |-> IF part = "HK" THEN "HK" ELSE "DATA",
     node |-> node,
     last |-> last,
     frame_cntr |-> cntr,
     data |-> [i \in 1 .. len |-> [src |-> part, frame |-> frame, idx |-> off + i]]]

LEMMA PartLenType == \A q : PartLen(q) \in Nat
BY FrameNodesAssumption DEF PartLen

\* The packet p is cut from what is left of a part.
IsCut(p, q, n, c, f, o, len) ==
    /\ p \in Packet
    /\ p.type = IF q = "HK" THEN "HK" ELSE "DATA"
    /\ p.node = n
    /\ p.frame_cntr = c
    /\ p.data = [i \in 1 .. len |-> [src |-> q, frame |-> f, idx |-> o + i]]

LEMMA PixelsType ==
    ASSUME NEW q \in Parts, NEW f \in Nat, NEW o \in Nat, NEW len \in Nat
    PROVE  [i \in 1 .. len |-> [src |-> q, frame |-> f, idx |-> o + i]] \in Seq(Pixel)
<1>1. \A i \in 1 .. len : [src |-> q, frame |-> f, idx |-> o + i] \in Pixel
  BY DEF Pixel, Parts, Nodes
<1>2. QED BY <1>1

LEMMA PacketShape ==
    ASSUME NEW t \in {"HK", "DATA"}, NEW n \in Nodes, NEW e \in {0, 1},
           NEW c \in FrameNumber, NEW d \in Seq(Pixel)
    PROVE  [type |-> t, node |-> n, last |-> e, frame_cntr |-> c, data |-> d] \in Packet
BY DEF Packet

LEMMA CutShape ==
    ASSUME NEW q \in Parts, NEW n \in Nodes, NEW e \in {0, 1}, NEW c \in FrameNumber,
           NEW f \in Nat, NEW o \in Nat, NEW len \in Nat
    PROVE  /\ IsCut(Cut(q, n, e, c, f, o, len), q, n, c, f, o, len)
           /\ Cut(q, n, e, c, f, o, len).last = e
<1> DEFINE d == [i \in 1 .. len |-> [src |-> q, frame |-> f, idx |-> o + i]]
           t == IF q = "HK" THEN "HK" ELSE "DATA"
<1>1. d \in Seq(Pixel) /\ t \in {"HK", "DATA"}
  BY PixelsType
<1>2. Cut(q, n, e, c, f, o, len) =
        [type |-> t, node |-> n, last |-> e, frame_cntr |-> c, data |-> d]
  BY DEF Cut
<1> HIDE DEF d, t
<1>3. Cut(q, n, e, c, f, o, len) \in Packet
  BY <1>1, <1>2, PacketShape
<1>4. QED BY <1>2, <1>3 DEF d, t, IsCut

\* The cut is one that the sender makes, in a frame with the parts S.
IsPiece(S, top, p, q, n, c, f, o, len) ==
    /\ S \in SUBSET Parts /\ q \in S
    /\ top \in Nat /\ f \in 1 .. top /\ o \in Nat /\ len \in 1 .. DATA_LEN_MAX
    /\ IsCut(p, q, n, c, f, o, len)
    /\ o + len <= PartLen(q)
    /\ IsEnd(p) <=> o + len = PartLen(q)
    /\ n = IF q \in Nodes THEN q ELSE "F2"
    /\ q = "HK" /\ HK_LEN <= DATA_LEN_MAX => o = 0

LEMMA CutGood ==
    ASSUME NEW S, NEW top, NEW p, NEW q, NEW n, NEW c, NEW f, NEW o, NEW len,
           IsPiece(S, top, p, q, n, c, f, o, len)
    PROVE  /\ Good(S, top, p)
           /\ PartOf(p) = q /\ FrameOf(p) = f /\ OffOf(p) = o /\ Len(p.data) = len
<1> DEFINE d == [i \in 1 .. len |-> [src |-> q, frame |-> f, idx |-> o + i]]
<1>0. DATA_LEN_MAX \in Nat /\ len \in Nat /\ 1 \in 1 .. len /\ f \in Nat /\ q \in Parts
  BY FrameSenderAssumption DEF IsPiece
<1>1. d \in Seq(Pixel) /\ Len(d) = len
  <2>1. d \in Seq(Pixel)
    BY <1>0, PixelsType DEF IsPiece
  <2>2. QED BY <1>0, <2>1
<1>2. \A i \in 1 .. len : d[i] = [src |-> q, frame |-> f, idx |-> o + i]
  OBVIOUS
<1>3. p.data = d
  BY DEF IsCut, IsPiece
<1> HIDE DEF d
<1>4. PartOf(p) = q /\ FrameOf(p) = f /\ OffOf(p) = o
  <2>1. d[1] = [src |-> q, frame |-> f, idx |-> o + 1]
    BY <1>0, <1>2
  <2>2. d[1].src = q /\ d[1].frame = f /\ d[1].idx = o + 1
    BY <2>1
  <2>3. QED BY <2>2, <1>3 DEF PartOf, FrameOf, OffOf, IsPiece
<1>5. QED BY <1>1, <1>2, <1>3, <1>4 DEF Good, IsCut, IsPiece

LEMMA GoodMore ==
    ASSUME NEW S, NEW top \in Nat, NEW p, Good(S, top, p) PROVE Good(S, top + 1, p)
BY DEF Good

-----------------------------------------------------------------------------
(* The sender and the stream of its packets.                               *)

SenderOK ==
    /\ mode \in {"FT", "FF"}
    /\ node_sel \in Selections
    /\ frame_cntr \in FrameNumber
    /\ made \in 0 .. MaxFrames
    /\ sent \in Nat
    /\ hdr_node \in Nodes
    /\ mode = "FF" => hdr_node = "F2"
    /\ Rest(todo, Playing)
    /\ todo = <<>> => sent = 0
    /\ todo # <<>> => /\ made >= 1
                      /\ sent <= PartLen(todo[1])
                      /\ todo[1] = "HK" => hdr_node = "F2"
                      /\ todo[1] = "HK" /\ HK_LEN <= DATA_LEN_MAX => sent = 0

\* What the sender sends next.
SenderFrame == IF todo = <<>> THEN made + 1 ELSE made

SenderPart == IF todo = <<>> THEN "HK" ELSE todo[1]

Stream ==
    /\ link \in Seq(Packet)
    /\ Len(link) <= LinkSize
    /\ \A i \in 1 .. Len(link) : Good(Playing, made, link[i])
    /\ \A i \in 1 .. Len(link) - 1 :
         Leads(Playing, link[i], FrameOf(link[i + 1]), PartOf(link[i + 1]), OffOf(link[i + 1]))
    /\ link # <<>> => Leads(Playing, link[Len(link)], SenderFrame, SenderPart, sent)

LEMMA PlayingParts ==
    ASSUME SenderOK PROVE Playing \in SUBSET Parts /\ "HK" \in Playing /\ node_sel \in SUBSET Nodes
BY FrameReadoutAssumption DEF SenderOK, Playing, Parts

\* One packet: all of what is left of the part, or a full one.
Sends(len, e) ==
    /\ todo # <<>>
    /\ Len(link) < LinkSize
    /\ SendPart(len, e)
    /\ len \in 1 .. DATA_LEN_MAX
    /\ \/ e = 1 /\ len = PartLen(Head(todo)) - sent
                /\ sent' = 0 /\ todo' = Tail(todo)
       \/ e = 0 /\ len = DATA_LEN_MAX /\ PartLen(Head(todo)) - sent > DATA_LEN_MAX
                /\ sent' = sent + DATA_LEN_MAX /\ todo' = todo

LEMMA SendOne == ASSUME Send PROVE \E len \in Nat, e \in {0, 1} : Sends(len, e)
<1>0. DATA_LEN_MAX \in Nat /\ DATA_LEN_MAX \in 1 .. DATA_LEN_MAX
  BY FrameSenderAssumption
<1>1. CASE SendFull
  <2>1. Sends(DATA_LEN_MAX, 0)
    BY <1>0, <1>1 DEF SendFull, Sends
  <2>2. QED BY <2>1, <1>0
<1>2. CASE SendLast
  <2> DEFINE len == PartLen(Head(todo)) - sent
  <2>1. len \in 1 .. DATA_LEN_MAX
    BY <1>2 DEF SendLast
  <2>2. len \in Nat
    BY <2>1, <1>0
  <2>3. Sends(len, 1)
    BY <1>2, <2>1 DEF SendLast, Sends
  <2>4. QED BY <2>2, <2>3
<1>3. QED BY <1>1, <1>2 DEF Send

\* The packet that is sent, whose last pixel may be the last one of its part.
LEMMA SentPacket ==
    ASSUME SenderOK, NEW len \in Nat, NEW e \in {0, 1}, Sends(len, e)
    PROVE  LET p == Cut(todo[1], PartNode(todo[1]), e, frame_cntr, made, sent, len)
           IN  /\ link' = Append(link, p)
               /\ p.frame_cntr = frame_cntr
               /\ Good(Playing, made, p)
               /\ PartOf(p) = todo[1] /\ FrameOf(p) = made /\ OffOf(p) = sent
               /\ Len(p.data) = len /\ (IsEnd(p) <=> e = 1)
<1> DEFINE q == todo[1]
           n == PartNode(q)
           p == Cut(q, n, e, frame_cntr, made, sent, len)
<1>1. /\ todo # <<>> /\ q = Head(todo) /\ q \in Playing /\ q \in Parts
      /\ Playing \in SUBSET Parts
  BY PlayingParts DEF Sends, SenderOK, Rest
<1>2. link' = Append(link, p)
  BY <1>1 DEF Sends, SendPart, Cut
<1>3. /\ n \in Nodes
      /\ n = IF q \in Nodes THEN q ELSE "F2"
  <2>1. q \notin Nodes => q = "HK" \/ mode = "FF"
    BY <1>1, FrameReadoutAssumption DEF SenderOK, Playing, Nodes
  <2>2. q \notin Nodes => hdr_node = "F2"
    BY <2>1, <1>1 DEF SenderOK
  <2>3. n = IF q \in Nodes THEN q ELSE hdr_node
    BY DEF PartNode
  <2>4. "F2" \in Nodes
    BY DEF Nodes
  <2>5. QED BY <2>2, <2>3, <2>4
<1>4. /\ made \in Nat /\ made \in 1 .. made /\ sent \in Nat /\ frame_cntr \in FrameNumber
      /\ len \in 1 .. DATA_LEN_MAX /\ DATA_LEN_MAX \in Nat /\ PartLen(q) \in Nat
      /\ q = "HK" /\ HK_LEN <= DATA_LEN_MAX => sent = 0
  BY <1>1, FrameSenderAssumption, PartLenType DEF SenderOK, Sends
<1>5. /\ sent + len <= PartLen(q)
      /\ e = 1 <=> sent + len = PartLen(q)
  BY <1>1, <1>4 DEF Sends
<1> HIDE DEF q, n
<1>6. IsCut(p, q, n, frame_cntr, made, sent, len) /\ p.last = e
  <2>1. q \in Parts
    BY <1>1
  <2>2. n \in Nodes
    BY <1>3
  <2>3. frame_cntr \in FrameNumber /\ made \in Nat /\ sent \in Nat
    BY <1>4
  <2>4. QED BY <2>1, <2>2, <2>3, CutShape
<1>7. p.frame_cntr = frame_cntr /\ (IsEnd(p) <=> e = 1)
  BY <1>6 DEF IsCut, IsEnd
<1> HIDE DEF p
<1>8. /\ Good(Playing, made, p)
      /\ PartOf(p) = q /\ FrameOf(p) = made /\ OffOf(p) = sent /\ Len(p.data) = len
  <2>1. Playing \in SUBSET Parts /\ q \in Playing
    BY <1>1
  <2>2. made \in Nat /\ made \in 1 .. made /\ sent \in Nat /\ len \in 1 .. DATA_LEN_MAX
    BY <1>4
  <2>3. sent + len <= PartLen(q) /\ (IsEnd(p) <=> sent + len = PartLen(q))
    BY <1>5, <1>7
  <2>4. q = "HK" /\ HK_LEN <= DATA_LEN_MAX => sent = 0
    BY <1>4
  <2>5. IsCut(p, q, n, frame_cntr, made, sent, len)
    BY <1>6
  <2>6. n = IF q \in Nodes THEN q ELSE "F2"
    BY <1>3
  <2>7. IsPiece(Playing, made, p, q, n, frame_cntr, made, sent, len)
    BY <2>1, <2>2, <2>3, <2>4, <2>5, <2>6 DEF IsPiece
  <2>8. QED BY <2>7, CutGood
<1>9. QED BY <1>2, <1>7, <1>8 DEF p, q, n

LEMMA FrameNumbers ==
    /\ FRAME_CNTR_MAX = 65535
    /\ \A c : c \in FrameNumber <=> c \in Nat /\ c <= FRAME_CNTR_MAX
<1>1. FRAME_CNTR_MAX = 65535
  BY DEF FRAME_CNTR_MAX
<1>2. FRAME_CNTR_MAX \in Nat
  BY <1>1
<1>3. \A c : c \in FrameNumber <=> c \in Nat /\ c <= FRAME_CNTR_MAX
  BY <1>2 DEF FrameNumber
<1>4. QED BY <1>1, <1>3

LEMMA NextNumber == \A c \in FrameNumber : (c + 1) % 65536 \in FrameNumber
BY FrameNumbers

LEMMA InitSender == Init => SenderOK /\ Stream
<1> SUFFICES ASSUME Init PROVE SenderOK /\ Stream
  OBVIOUS
<1> USE DEF Init, SenderInit
<1>1. Rest(todo, Playing)
  BY DEF Rest, Increasing
<1>2. frame_cntr \in FrameNumber
  BY FrameNumbers
<1>3. SenderOK
  BY <1>1, <1>2, FrameSenderAssumption DEF SenderOK, Nodes
<1>4. Stream
  BY FrameSenderAssumption DEF Stream
<1>5. QED BY <1>3, <1>4

\* StartFrame moves the sender to where it was expected.
LEMMA StartStep ==
    ASSUME SenderOK, Stream, StartFrame
    PROVE  /\ SenderOK' /\ Stream'
           /\ SenderFrame' = SenderFrame /\ SenderPart' = SenderPart /\ sent' = sent
           /\ todo = <<>> /\ todo' # <<>> /\ todo'[1] = "HK" /\ made' = made + 1
           /\ UNCHANGED <<mode, node_sel, link>>
<1>1. /\ todo = <<>> /\ sent = 0 /\ sent' = 0 /\ made' = made + 1 /\ made < MaxFrames
      /\ hdr_node' = "F2" /\ UNCHANGED <<mode, node_sel, link>>
      /\ made \in 0 .. MaxFrames /\ MaxFrames \in Nat
  BY FrameSenderAssumption
     DEF StartFrame, FrameTransfer, FullFrame, CreatePayload, SenderOK
<1>2. Playing' = Playing /\ Playing \in SUBSET Parts /\ "HK" \in Playing /\ node_sel \in SUBSET Nodes
  BY <1>1, PlayingParts DEF Playing
<1>3. Listed(todo', Playing)
  <2>1. CASE FrameTransfer
    BY <2>1, <1>2, TransferListed DEF FrameTransfer, Playing
  <2>2. CASE FullFrame
    BY <2>2, FullListed DEF FullFrame, Playing
  <2>3. QED BY <2>1, <2>2 DEF StartFrame
<1>4. todo' # <<>> /\ todo'[1] = "HK"
  BY <1>2, <1>3, HeadIsFirst
<1>5. Rest(todo', Playing')
  BY <1>2, <1>3, RestOfListed
<1>6. frame_cntr' \in FrameNumber
  <2>1. frame_cntr' = frame_cntr \/ frame_cntr' = (frame_cntr + 1) % 65536
    BY DEF StartFrame, FrameTransfer, FullFrame
  <2>2. frame_cntr \in FrameNumber
    BY DEF SenderOK
  <2>3. QED BY <2>1, <2>2, NextNumber
<1>7. SenderOK'
  <2>1. made' \in 0 .. MaxFrames /\ made' >= 1 /\ sent' \in Nat /\ hdr_node' \in Nodes
    BY <1>1 DEF Nodes
  <2>2. sent' <= PartLen(todo'[1])
    BY <1>1, PartLenType
  <2>3. QED BY <1>1, <1>4, <1>5, <1>6, <2>1, <2>2 DEF SenderOK
<1>8. SenderFrame' = SenderFrame /\ SenderPart' = SenderPart /\ sent' = sent
  BY <1>1, <1>4 DEF SenderFrame, SenderPart
<1>9. Stream'
  <2>1. \A i \in 1 .. Len(link) : Good(Playing, made + 1, link[i])
    BY <1>1, GoodMore DEF Stream
  <2>2. QED BY <1>1, <1>2, <1>8, <2>1 DEF Stream
<1>10. QED BY <1>1, <1>4, <1>7, <1>8, <1>9

LEMMA SendStep ==
    ASSUME SenderOK, Stream, NEW len \in Nat, NEW e \in {0, 1}, Sends(len, e)
    PROVE  SenderOK' /\ Stream'
<1> DEFINE q == todo[1]
           p == Cut(q, PartNode(q), e, frame_cntr, made, sent, len)
<1>1. /\ link' = Append(link, p) /\ Good(Playing, made, p)
      /\ PartOf(p) = q /\ FrameOf(p) = made /\ OffOf(p) = sent
      /\ Len(p.data) = len /\ (IsEnd(p) <=> e = 1)
  BY SentPacket
<1> HIDE DEF p
<1>2. /\ todo # <<>> /\ Head(todo) = q /\ Len(link) < LinkSize
      /\ hdr_node' = PartNode(q) /\ UNCHANGED <<mode, node_sel, frame_cntr, made>>
      /\ len \in 1 .. DATA_LEN_MAX
  BY DEF Sends, SendPart, SenderOK, Rest
<1>3. Playing' = Playing /\ Playing \in SUBSET Parts
  BY <1>2, PlayingParts DEF Playing
<1>4. /\ made \in Nat /\ made >= 1 /\ sent \in Nat /\ PartLen(q) \in Nat /\ DATA_LEN_MAX \in Nat
      /\ q \in Parts /\ Rest(todo, Playing)
  BY <1>2, <1>3, FrameSenderAssumption, PartLenType DEF SenderOK, Rest
<1>5. /\ Rest(Tail(todo), Playing)
      /\ Tail(todo) # <<>> => Succ(Playing, q, Tail(todo)[1]) /\ Tail(todo)[1] # "HK"
      /\ Tail(todo) = <<>> => Final(Playing, q)
  <2>1. /\ Rest(Tail(todo), Playing)
        /\ Tail(todo) # <<>> => Succ(Playing, q, Tail(todo)[1])
        /\ Tail(todo) = <<>> => Final(Playing, q)
    BY <1>2, <1>3, <1>4, RestTail
  <2>2. Succ(Playing, q, Tail(todo)[1]) => Tail(todo)[1] # "HK"
    BY <1>4, SuccIsLater
  <2>3. QED BY <2>1, <2>2
<1>6. \/ e = 1 /\ sent' = 0 /\ todo' = Tail(todo)
      \/ e = 0 /\ sent' = sent + len /\ todo' = todo /\ sent + len < PartLen(q)
  BY <1>2, <1>4 DEF Sends
<1>7. SenderOK'
  <2>1. hdr_node' \in Nodes /\ (mode' = "FF" => hdr_node' = "F2")
    <3>1. mode = "FF" => q \notin Nodes
      BY <1>2, <1>4, FrameReadoutAssumption DEF Rest, Playing, Nodes
    <3>2. QED BY <1>2, <3>1 DEF PartNode, SenderOK
  <2>2. CASE e = 1
    <3>1. todo' # <<>> => sent' <= PartLen(todo'[1])
      BY <1>6, <2>2, PartLenType
    <3>2. /\ Rest(todo', Playing')
          /\ todo' # <<>> => todo'[1] # "HK"
      <4>1. todo' = Tail(todo)
        BY <1>6, <2>2
      <4>2. QED BY <4>1, <1>3, <1>5
    <3>3. sent' = 0 /\ sent' \in Nat
      BY <1>6, <2>2
    <3>4. QED BY <1>2, <1>4, <2>1, <3>1, <3>2, <3>3 DEF SenderOK
  <2>3. CASE e = 0
    <3>1. q = "HK" => hdr_node' = "F2" /\ ~(HK_LEN <= DATA_LEN_MAX)
      <4>1. q = "HK" => PartLen(q) = HK_LEN /\ HK_LEN \in Nat
        BY FrameNodesAssumption DEF PartLen
      <4>2. len = DATA_LEN_MAX
        BY <2>3 DEF Sends
      <4>3. q = "HK" => hdr_node = "F2"
        BY <1>2 DEF SenderOK
      <4>4. q = "HK" => hdr_node' = "F2"
        BY <4>3, <1>2 DEF PartNode, Nodes
      <4>5. QED BY <4>1, <4>2, <4>4, <1>4, <1>6, <2>3
    <3>2. todo' = todo /\ sent' \in Nat /\ sent' <= PartLen(q)
      BY <1>2, <1>4, <1>6, <2>3
    <3>3. QED BY <1>2, <1>3, <2>1, <3>1, <3>2 DEF SenderOK
  <2>4. QED BY <2>2, <2>3
<1>8. Leads(Playing, p, SenderFrame', SenderPart', sent')
  <2>1. CASE e = 1
    BY <1>1, <1>2, <1>5, <1>6, <2>1 DEF Leads, SenderFrame, SenderPart
  <2>2. CASE e = 0
    BY <1>1, <1>2, <1>6, <2>2 DEF Leads, SenderFrame, SenderPart
  <2>3. QED BY <2>1, <2>2
<1>9. Stream'
  <2>1. /\ link \in Seq(Packet) /\ p \in Packet /\ link' \in Seq(Packet)
        /\ Len(link) \in Nat /\ Len(link') = Len(link) + 1
        /\ link'[Len(link) + 1] = p
    BY <1>1 DEF Stream, Good
  <2>2. \A i \in 1 .. Len(link) : link'[i] = link[i]
    BY <1>1, <2>1
  <2>3. Len(link') <= LinkSize
    BY <1>2, <2>1, FrameSenderAssumption
  <2>4. \A i \in 1 .. Len(link') : Good(Playing, made, link'[i])
    <3> SUFFICES ASSUME NEW i \in 1 .. Len(link') PROVE Good(Playing, made, link'[i])
      OBVIOUS
    <3>1. i \in 1 .. Len(link) \/ i = Len(link) + 1
      BY <2>1
    <3>2. QED BY <3>1, <1>1, <2>1, <2>2 DEF Stream
  <2>5. SenderFrame = made /\ SenderPart = q
    BY <1>2 DEF SenderFrame, SenderPart
  <2>6. \A i \in 1 .. Len(link') - 1 :
          Leads(Playing, link'[i], FrameOf(link'[i + 1]), PartOf(link'[i + 1]), OffOf(link'[i + 1]))
    <3> SUFFICES ASSUME NEW i \in 1 .. Len(link)
                 PROVE  Leads(Playing, link'[i], FrameOf(link'[i + 1]),
                              PartOf(link'[i + 1]), OffOf(link'[i + 1]))
      BY <2>1
    <3>1. CASE i = Len(link)
      <4>1. link'[i + 1] = p /\ link'[i] = link[Len(link)] /\ link # <<>>
        BY <3>1, <2>1, <2>2
      <4>2. QED BY <4>1, <1>1, <2>5 DEF Stream
    <3>2. CASE i # Len(link)
      <4>1. i \in 1 .. Len(link) - 1 /\ i + 1 \in 1 .. Len(link)
        BY <3>2, <2>1
      <4>2. link'[i] = link[i] /\ link'[i + 1] = link[i + 1]
        BY <4>1, <2>2
      <4>3. QED BY <4>1, <4>2 DEF Stream
    <3>3. QED BY <3>1, <3>2
  <2>7. Leads(Playing, link'[Len(link')], SenderFrame', SenderPart', sent')
    BY <1>8, <2>1
  <2>8. QED BY <1>2, <1>3, <2>1, <2>3, <2>4, <2>6, <2>7 DEF Stream
<1>10. QED BY <1>7, <1>9

\* What is received or lost is taken from the front of the link.
LEMMA TailStep ==
    ASSUME SenderOK, Stream, link # <<>>, link' = Tail(link), UNCHANGED senderVars
    PROVE  SenderOK' /\ Stream'
<1> USE DEF senderVars
<1>1. /\ link \in Seq(Packet) /\ link' \in Seq(Packet) /\ Len(link) \in Nat /\ Len(link) >= 1
      /\ Len(link') = Len(link) - 1
  <2>1. link \in Seq(Packet)
    BY DEF Stream
  <2>2. QED BY <2>1
<1>2. \A i \in 1 .. Len(link') : i + 1 \in 1 .. Len(link) /\ link'[i] = link[i + 1]
  BY <1>1
<1>3. Playing' = Playing /\ SenderFrame' = SenderFrame /\ SenderPart' = SenderPart
  BY DEF Playing, SenderFrame, SenderPart
<1>4. SenderOK'
  BY <1>3 DEF SenderOK
<1>5. \A i \in 1 .. Len(link') : Good(Playing, made, link'[i])
  BY <1>2 DEF Stream
<1>6. \A i \in 1 .. Len(link') - 1 :
        Leads(Playing, link'[i], FrameOf(link'[i + 1]), PartOf(link'[i + 1]), OffOf(link'[i + 1]))
  <2> SUFFICES ASSUME NEW i \in 1 .. Len(link') - 1
               PROVE  Leads(Playing, link'[i], FrameOf(link'[i + 1]),
                            PartOf(link'[i + 1]), OffOf(link'[i + 1]))
    OBVIOUS
  <2>1. i + 1 \in 1 .. Len(link) - 1 /\ i \in 1 .. Len(link') /\ i + 1 \in 1 .. Len(link')
    BY <1>1
  <2>2. link'[i] = link[i + 1] /\ link'[i + 1] = link[(i + 1) + 1]
    BY <2>1, <1>2
  <2>3. QED BY <2>1, <2>2 DEF Stream
<1>7. link' # <<>> => Leads(Playing, link'[Len(link')], SenderFrame, SenderPart, sent)
  <2> SUFFICES ASSUME link' # <<>>
               PROVE  Leads(Playing, link'[Len(link')], SenderFrame, SenderPart, sent)
    OBVIOUS
  <2>1. Len(link') \in 1 .. Len(link') /\ Len(link') + 1 = Len(link)
    BY <1>1
  <2>2. link'[Len(link')] = link[Len(link)]
    BY <2>1, <1>2
  <2>3. QED BY <2>2 DEF Stream
<1>8. Len(link') <= LinkSize
  BY <1>1, FrameSenderAssumption DEF Stream
<1>9. Stream'
  BY <1>1, <1>3, <1>5, <1>6, <1>7, <1>8 DEF Stream
<1>10. QED BY <1>4, <1>9

LEMMA ReconfigureStep ==
    ASSUME SenderOK, Stream, Reconfigure PROVE SenderOK' /\ Stream'
<1>1. /\ todo = <<>> /\ link = <<>> /\ todo' = <<>> /\ link' = <<>>
      /\ node_sel' \in Selections
      /\ UNCHANGED <<mode, frame_cntr, made, sent, hdr_node>>
  BY DEF Reconfigure
<1>2. Rest(todo', Playing')
  BY <1>1 DEF Rest, Increasing
<1>3. SenderOK'
  BY <1>1, <1>2 DEF SenderOK
<1>4. Stream'
  BY <1>1, FrameSenderAssumption DEF Stream
<1>5. QED BY <1>3, <1>4

LEMMA SenderKept ==
    ASSUME SenderOK, Stream, UNCHANGED <<senderVars, link>> PROVE SenderOK' /\ Stream'
<1> USE DEF senderVars
<1>1. Playing' = Playing /\ SenderFrame' = SenderFrame /\ SenderPart' = SenderPart
  BY DEF Playing, SenderFrame, SenderPart
<1>2. SenderOK'
  BY <1>1 DEF SenderOK
<1>3. Stream'
  BY <1>1 DEF Stream
<1>4. QED BY <1>2, <1>3

LEMMA SenderNext == SenderOK /\ Stream /\ [Next]_vars => SenderOK' /\ Stream'
<1> SUFFICES ASSUME SenderOK, Stream, [Next]_vars PROVE SenderOK' /\ Stream'
  OBVIOUS
<1>1. CASE StartFrame
  BY <1>1, StartStep
<1>2. CASE Send
  BY <1>2, SendOne, SendStep
<1>3. CASE Reconfigure
  BY <1>3, ReconfigureStep
<1>4. CASE Receive \/ LosePacket
  BY <1>4, TailStep DEF Receive, LosePacket
<1>5. CASE Create \/ TakeFrame \/ UNCHANGED vars
  BY <1>5, SenderKept DEF Create, TakeFrame, vars
<1>6. QED BY <1>1, <1>2, <1>3, <1>4, <1>5 DEF Next, Sender

LEMMA SenderAlways == Spec => [](SenderOK /\ Stream)
BY InitSender, SenderNext, PTL DEF Spec

-----------------------------------------------------------------------------
(* The frame counter.                                                      *)

\* The frames begun since the one of packet p, of m frames.
Age(m, p) == m - FrameOf(p)

\* The counter was that of p when the frame of p began.
Counts(c, m, p) == (p.frame_cntr + Age(m, p)) % 65536 = c

\* Between two packets of different frames there is at least one for each of
\* the frames that begin between them; a new frame has none yet.
Begun == IF todo # <<>> /\ todo[1] = "HK" /\ sent = 0 THEN 1 ELSE 0

NumberInv ==
    /\ mode = "FT" => \A i \in 1 .. Len(link) : Counts(frame_cntr, made, link[i])
    /\ \A i \in 1 .. Len(link) : Age(made, link[i]) <= (Len(link) - i) + Begun

LEMMA CounterWraps ==
    \A x \in Nat : (x + 1) % 65536 = ((x % 65536) + 1) % 65536
OBVIOUS

LEMMA CounterTells ==
    ASSUME NEW c \in Nat, NEW d \in Nat, NEW a \in Nat, NEW b \in Nat,
           c < 65536, d < 65536, a < 65536, b < 65536,
           (c + a) % 65536 = (d + b) % 65536
    PROVE  c = d <=> a = b
OBVIOUS

LEMMA CountsMore ==
    ASSUME NEW c, NEW m \in Nat, NEW p, p.frame_cntr \in FrameNumber, FrameOf(p) \in 1 .. m,
           Counts(c, m, p)
    PROVE  Counts((c + 1) % 65536, m + 1, p)
<1> DEFINE x == p.frame_cntr + Age(m, p)
<1>1. p.frame_cntr \in Nat
  BY FrameNumbers
<1>2. x \in Nat /\ p.frame_cntr + Age(m + 1, p) = x + 1
  BY <1>1 DEF Age
<1>3. x % 65536 = c
  BY DEF Counts
<1> HIDE DEF x
<1>4. QED BY <1>2, <1>3, CounterWraps DEF Counts

LEMMA CountsNow ==
    ASSUME NEW m \in Nat, NEW p, p.frame_cntr \in FrameNumber, FrameOf(p) = m
    PROVE  Counts(p.frame_cntr, m, p)
<1>1. p.frame_cntr \in Nat /\ p.frame_cntr < 65536
  BY FrameNumbers
<1>2. Age(m, p) = 0
  BY DEF Age
<1>3. QED BY <1>1, <1>2 DEF Counts

LEMMA NumberInit == Init => NumberInv
BY DEF Init, SenderInit, NumberInv

LEMMA NumberNext == SenderOK /\ Stream /\ NumberInv /\ [Next]_vars => NumberInv'
<1> SUFFICES ASSUME SenderOK, Stream, NumberInv, [Next]_vars PROVE NumberInv'
  OBVIOUS
<1>0. /\ link \in Seq(Packet) /\ Len(link) \in Nat /\ made \in Nat /\ Begun \in {0, 1}
      /\ \A i \in 1 .. Len(link) : /\ link[i].frame_cntr \in FrameNumber
                                   /\ FrameOf(link[i]) \in 1 .. made
  BY FrameSenderAssumption DEF SenderOK, Stream, Good, Packet, Begun
<1>1. ASSUME StartFrame PROVE NumberInv'
  <2>1. /\ todo = <<>> /\ todo' # <<>> /\ todo'[1] = "HK" /\ sent' = 0
        /\ made' = made + 1 /\ mode' = mode /\ link' = link
    BY <1>1, StartStep DEF SenderOK
  <2>2. Begun = 0 /\ Begun' = 1
    BY <2>1 DEF Begun
  <2>3. \A i \in 1 .. Len(link) : Age(made + 1, link[i]) = Age(made, link[i]) + 1
    BY <1>0 DEF Age
  <2>4. \A i \in 1 .. Len(link) : Age(made + 1, link[i]) <= (Len(link) - i) + 1
    BY <1>0, <2>2, <2>3 DEF NumberInv, Age
  <2>5. mode = "FT" => frame_cntr' = (frame_cntr + 1) % 65536
    BY <1>1 DEF StartFrame, FrameTransfer, FullFrame
  <2>6. mode = "FT" => \A i \in 1 .. Len(link) : Counts((frame_cntr + 1) % 65536, made + 1, link[i])
    BY <1>0, CountsMore DEF NumberInv
  <2>7. QED BY <2>1, <2>2, <2>4, <2>5, <2>6 DEF NumberInv
<1>2. ASSUME NEW len \in Nat, NEW e \in {0, 1}, Sends(len, e) PROVE NumberInv'
  <2> DEFINE p == Cut(todo[1], PartNode(todo[1]), e, frame_cntr, made, sent, len)
  <2>1. /\ link' = Append(link, p) /\ p.frame_cntr = frame_cntr /\ FrameOf(p) = made
        /\ p \in Packet
    BY <1>2, SentPacket DEF Good
  <2> HIDE DEF p
  <2>2. UNCHANGED <<mode, frame_cntr, made>>
    BY <1>2 DEF Sends, SendPart
  <2>3. /\ Len(link') = Len(link) + 1 /\ link'[Len(link) + 1] = p
        /\ \A i \in 1 .. Len(link) : link'[i] = link[i]
    BY <1>0, <2>1
  <2>4. Begun' = 0
    <3>1. todo # <<>> /\ todo[1] \in Parts /\ Playing \in SUBSET Parts /\ Rest(todo, Playing)
      BY <1>2, PlayingParts DEF Sends, SenderOK, Rest
    <3>2. CASE e = 0
      <4>1. sent' = sent + DATA_LEN_MAX /\ sent \in Nat /\ DATA_LEN_MAX \in Nat \ {0}
        BY <1>2, <3>2, FrameSenderAssumption DEF Sends, SenderOK
      <4>2. sent' # 0
        BY <4>1
      <4>3. QED BY <4>2 DEF Begun
    <3>3. CASE e = 1
      <4>1. todo' = Tail(todo)
        BY <1>2, <3>3 DEF Sends
      <4>2. todo' # <<>> => todo'[1] # "HK"
        BY <4>1, <3>1, RestTail, SuccIsLater
      <4>3. QED BY <4>2 DEF Begun
    <3>4. QED BY <3>2, <3>3
  <2>5. \A i \in 1 .. Len(link') : Age(made, link'[i]) <= Len(link') - i
    <3> SUFFICES ASSUME NEW i \in 1 .. Len(link') PROVE Age(made, link'[i]) <= Len(link') - i
      OBVIOUS
    <3>1. CASE i = Len(link) + 1
      BY <3>1, <1>0, <2>1, <2>3 DEF Age
    <3>2. CASE i \in 1 .. Len(link)
      <4>1. Age(made, link[i]) <= (Len(link) - i) + Begun /\ Age(made, link[i]) \in Int
        BY <3>2, <1>0 DEF NumberInv, Age
      <4>2. QED BY <4>1, <3>2, <1>0, <2>3
    <3>3. QED BY <3>1, <3>2, <1>0, <2>3
  <2>6. mode = "FT" => \A i \in 1 .. Len(link') : Counts(frame_cntr, made, link'[i])
    <3> SUFFICES ASSUME mode = "FT", NEW i \in 1 .. Len(link')
                 PROVE  Counts(frame_cntr, made, link'[i])
      OBVIOUS
    <3>1. CASE i = Len(link) + 1
      <4>1. p.frame_cntr \in FrameNumber
        BY <2>1 DEF SenderOK
      <4>2. QED BY <3>1, <4>1, <1>0, <2>1, <2>3, CountsNow
    <3>2. CASE i \in 1 .. Len(link)
      BY <3>2, <2>3 DEF NumberInv
    <3>3. QED BY <3>1, <3>2, <1>0, <2>3
  <2>7. QED BY <2>2, <2>4, <2>5, <2>6, <2>3, <1>0 DEF NumberInv
<1>3. ASSUME link # <<>>, link' = Tail(link), UNCHANGED senderVars PROVE NumberInv'
  <2>1. /\ Len(link') = Len(link) - 1
        /\ \A i \in 1 .. Len(link') : i + 1 \in 1 .. Len(link) /\ link'[i] = link[i + 1]
    BY <1>0, <1>3
  <2>2. Begun' = Begun /\ UNCHANGED <<mode, frame_cntr, made>>
    BY <1>3 DEF senderVars, Begun
  <2>3. \A i \in 1 .. Len(link') : Age(made, link'[i]) <= (Len(link') - i) + Begun
    <3> SUFFICES ASSUME NEW i \in 1 .. Len(link')
                 PROVE  Age(made, link'[i]) <= (Len(link') - i) + Begun
      OBVIOUS
    <3>1. Age(made, link[i + 1]) <= (Len(link) - (i + 1)) + Begun
      BY <2>1 DEF NumberInv
    <3>2. Len(link) - (i + 1) = Len(link') - i
      BY <2>1, <1>0
    <3>3. QED BY <3>1, <3>2, <2>1
  <2>4. QED BY <2>1, <2>2, <2>3 DEF NumberInv
<1>4. CASE Receive \/ LosePacket
  BY <1>3, <1>4 DEF Receive, LosePacket
<1>5. CASE Reconfigure
  BY <1>5 DEF Reconfigure, NumberInv
<1>6. CASE Create \/ TakeFrame \/ UNCHANGED vars
  <2>1. UNCHANGED <<mode, frame_cntr, made, todo, sent, link>>
    BY <1>6 DEF Create, TakeFrame, vars, senderVars
  <2>2. Begun' = Begun
    BY <2>1 DEF Begun
  <2>3. QED BY <2>1, <2>2 DEF NumberInv
<1>7. QED BY <1>1, <1>2, <1>4, <1>5, <1>6, SendOne DEF Next, Sender

LEMMA NumbersTell ==
    ASSUME LinkSize < 65536, SenderOK, Stream, NumberInv PROVE FramesNumbered
<1> SUFFICES ASSUME mode = "FT", NEW i \in 1 .. Len(link), NEW j \in 1 .. Len(link)
             PROVE  SameNumber(i, j) <=> SameFrame(i, j)
  BY DEF FramesNumbered, Stream
<1> DEFINE c == link[i].frame_cntr
           d == link[j].frame_cntr
           a == Age(made, link[i])
           b == Age(made, link[j])
<1>1. /\ link \in Seq(Packet) /\ Len(link) \in Nat /\ Len(link) <= LinkSize /\ made \in Nat
      /\ Begun \in {0, 1} /\ LinkSize \in Nat
  BY FrameSenderAssumption DEF SenderOK, Stream, Begun
<1>2. /\ FrameOf(link[i]) \in 1 .. made /\ FrameOf(link[j]) \in 1 .. made
      /\ c \in FrameNumber /\ d \in FrameNumber
  BY DEF Stream, Good, Packet
<1>3. c \in Nat /\ d \in Nat /\ c < 65536 /\ d < 65536
  BY <1>2, FrameNumbers
<1>4. a \in Nat /\ b \in Nat
  BY <1>1, <1>2 DEF Age
<1>5. a <= (Len(link) - i) + Begun /\ b <= (Len(link) - j) + Begun
  BY DEF NumberInv
<1>6. a < 65536 /\ b < 65536
  BY <1>1, <1>4, <1>5
<1>7. (c + a) % 65536 = (d + b) % 65536
  BY DEF NumberInv, Counts
<1>8. a = b <=> FrameOf(link[i]) = FrameOf(link[j])
  BY <1>1, <1>2 DEF Age
<1> HIDE DEF a, b, c, d
<1>9. c = d <=> a = b
  BY <1>3, <1>4, <1>6, <1>7, CounterTells
<1>10. QED BY <1>8, <1>9 DEF SameNumber, SameFrame, c, d

\* The frame counter in the header tells the frames on the link apart, also
\* where it wraps around, for every link of fewer packets than it has values.
THEOREM FramesNumberedCorrect ==
    ASSUME LinkSize < 65536 PROVE Spec => []FramesNumbered
BY InitSender, SenderNext, NumberInit, NumberNext, NumbersTell, PTL DEF Spec

-----------------------------------------------------------------------------
(* The buffers of the nodes.                                               *)

\* The nodes with a buffer before that of x.
Below(nodes, x) == Cardinality({y \in nodes : Before(y, x)})

LEMMA BeforeIsOrd == \A x, y \in Nodes : Before(x, y) <=> Ord(x) < Ord(y)
<1>1. DOMAIN NodeOrder = 1 .. 4
  BY DEF NodeOrder
<1>2. NodeOrder[1] = "E2" /\ NodeOrder[2] = "F2" /\ NodeOrder[3] = "E4" /\ NodeOrder[4] = "F4"
  BY DEF NodeOrder
<1>3. \A i \in 1 .. 4 : NodeOrder[i] \in Nodes /\ Ord(NodeOrder[i]) = i
  BY <1>2 DEF Ord, Nodes
<1>4. \A x \in Nodes : Ord(x) \in 1 .. 4 /\ NodeOrder[Ord(x)] = x
  BY <1>2 DEF Ord, Nodes
<1>5. ASSUME NEW x \in Nodes, NEW y \in Nodes PROVE Before(x, y) <=> Ord(x) < Ord(y)
  <2>1. ASSUME Before(x, y) PROVE Ord(x) < Ord(y)
    <3>1. PICK i, j \in 1 .. 4 : i < j /\ NodeOrder[i] = x /\ NodeOrder[j] = y
      BY <2>1, <1>1 DEF Before
    <3>2. QED BY <3>1, <1>3
  <2>2. ASSUME Ord(x) < Ord(y) PROVE Before(x, y)
    BY <2>2, <1>1, <1>4 DEF Before
  <2>3. QED BY <2>1, <2>2
<1>6. QED BY <1>5

LEMMA NodesFinite == IsFiniteSet(Nodes) /\ Cardinality(Nodes) = 4
<1>1. IsFiniteSet({"E2"}) /\ Cardinality({"E2"}) = 1
  BY FS_Singleton
<1>2. IsFiniteSet({"E2"} \cup {"F2"}) /\ Cardinality({"E2"} \cup {"F2"}) = 2
  BY <1>1, FS_AddElement
<1>3. IsFiniteSet({"E2"} \cup {"F2"} \cup {"E4"}) /\ Cardinality({"E2"} \cup {"F2"} \cup {"E4"}) = 3
  BY <1>2, FS_AddElement
<1>4. /\ IsFiniteSet({"E2"} \cup {"F2"} \cup {"E4"} \cup {"F4"})
      /\ Cardinality({"E2"} \cup {"F2"} \cup {"E4"} \cup {"F4"}) = 4
  BY <1>3, FS_AddElement
<1>5. Nodes = {"E2"} \cup {"F2"} \cup {"E4"} \cup {"F4"}
  BY DEF Nodes
<1>6. QED BY <1>4, <1>5

LEMMA NodesCounted ==
    ASSUME NEW nodes \in SUBSET Nodes
    PROVE  IsFiniteSet(nodes) /\ Cardinality(nodes) \in 0 .. 4
<1>1. IsFiniteSet(nodes) /\ Cardinality(nodes) <= 4
  BY NodesFinite, FS_Subset
<1>2. Cardinality(nodes) \in Nat
  BY <1>1, FS_CardinalityType
<1>3. QED BY <1>1, <1>2

LEMMA BelowBounds ==
    ASSUME NEW nodes \in SUBSET Nodes, NEW x \in nodes
    PROVE  Below(nodes, x) \in 0 .. 4 /\ Below(nodes, x) < Cardinality(nodes)
<1> DEFINE before == {y \in nodes : Before(y, x)}
<1>1. before \subseteq nodes \ {x}
  <2>1. ~Before(x, x)
    <3>1. x \in Nodes /\ ~(Ord(x) < Ord(x))
      BY DEF Ord, Nodes
    <3>2. QED BY <3>1, BeforeIsOrd
  <2>2. QED BY <2>1
<1>2. IsFiniteSet(nodes) /\ Cardinality(nodes) \in 0 .. 4
  BY NodesCounted
<1>3. IsFiniteSet(nodes \ {x}) /\ Cardinality(nodes \ {x}) = Cardinality(nodes) - 1
  BY <1>2, FS_RemoveElement
<1>4. Cardinality(before) <= Cardinality(nodes \ {x})
  BY <1>1, <1>3, FS_Subset
<1>5. Cardinality(before) \in 0 .. 4
  <2>1. before \in SUBSET Nodes
    OBVIOUS
  <2>2. QED BY <2>1, NodesCounted
<1>6. QED BY <1>2, <1>3, <1>4, <1>5 DEF Below

LEMMA BelowGrows ==
    ASSUME NEW nodes \in SUBSET Nodes, NEW x \in nodes, NEW y \in nodes, Ord(x) < Ord(y)
    PROVE  Below(nodes, x) < Below(nodes, y)
<1> DEFINE before(z) == {v \in nodes : Before(v, z)}
<1>1. \A v \in nodes : v \in Nodes /\ Ord(v) \in 0 .. 4
  BY PartsOrdered DEF Parts
<1>2. \A v \in nodes : Before(v, x) => Before(v, y)
  BY <1>1, BeforeIsOrd
<1>3. before(x) \subseteq before(y) /\ x \in before(y) /\ x \notin before(x)
  <2>1. Before(x, y) /\ ~Before(x, x)
    BY <1>1, BeforeIsOrd
  <2>2. QED BY <1>2, <2>1
<1>4. before(x) \in SUBSET Nodes /\ before(y) \in SUBSET Nodes
  OBVIOUS
<1>5. IsFiniteSet(before(y)) /\ Cardinality(before(x)) \in 0 .. 4 /\ Cardinality(before(y)) \in 0 .. 4
  BY <1>4, NodesCounted
<1>6. Cardinality(before(x)) <= Cardinality(before(y)) /\ Cardinality(before(x)) # Cardinality(before(y))
  BY <1>3, <1>5, FS_Subset
<1>7. QED BY <1>5, <1>6 DEF Below

LEMMA Multiples ==
    ASSUME NEW n \in Nat
    PROVE  \A i, j \in 0 .. 4 : n * i \in Nat /\ (i < j => n * i + n <= n * j)
<1>1. \A i \in 0 .. 4 : i = 0 \/ i = 1 \/ i = 2 \/ i = 3 \/ i = 4
  OBVIOUS
<1>2. n * 0 = 0 /\ n * 1 = n /\ n * 2 = n + n /\ n * 3 = n + n + n /\ n * 4 = n + n + n + n
  OBVIOUS
<1>3. QED BY <1>1, <1>2

\* The buffer of a node lies in the block and meets no other one.
LEMMA OffsetsApart ==
    ASSUME NEW nodes \in SUBSET Nodes, NEW x \in nodes
    PROVE  /\ Offset(nodes, x) \in Nat
           /\ N_ELEM * Cardinality(nodes) \in Nat
           /\ Offset(nodes, x) + N_ELEM <= N_ELEM * Cardinality(nodes)
           /\ \A y \in nodes \ {x} : \/ Offset(nodes, x) + N_ELEM <= Offset(nodes, y)
                                    \/ Offset(nodes, y) + N_ELEM <= Offset(nodes, x)
<1>1. \A y \in nodes : Offset(nodes, y) = N_ELEM * Below(nodes, y)
  BY DEF Offset, Below
<1>2. \A y \in nodes : Below(nodes, y) \in 0 .. 4 /\ Below(nodes, y) < Cardinality(nodes)
  BY BelowBounds
<1>3. Cardinality(nodes) \in 0 .. 4 /\ N_ELEM \in Nat
  BY NodesCounted, FrameNodesAssumption
<1>4. \A i, j \in 0 .. 4 : N_ELEM * i \in Nat /\ (i < j => N_ELEM * i + N_ELEM <= N_ELEM * j)
  BY <1>3, Multiples
<1>5. \A y \in nodes \ {x} : Below(nodes, x) < Below(nodes, y) \/ Below(nodes, y) < Below(nodes, x)
  <2>1. \A y \in nodes \ {x} : Ord(x) < Ord(y) \/ Ord(y) < Ord(x)
    BY PartsOrdered DEF Parts
  <2>2. QED BY <2>1, BelowGrows
<1>6. QED BY <1>1, <1>2, <1>3, <1>4, <1>5

-----------------------------------------------------------------------------
(* What the aggregators store.                                             *)

Data == Seq(Pixel \cup {NoPixel})

LEMMA CopiedShape ==
    ASSUME NEW buf \in Data, NEW off \in Nat, NEW d \in Seq(Pixel)
    PROVE  LET c == Copied(buf, off, d)
           IN  /\ c \in Data /\ Len(c) = Len(buf)
               /\ \A i \in 1 .. Len(buf) : i <= off \/ i > off + Len(d) => c[i] = buf[i]
               /\ \A k \in 1 .. Len(d) : off + k \in 1 .. Len(buf) => c[off + k] = d[k]
<1> DEFINE c == Copied(buf, off, d)
<1>1. /\ buf \in Seq(Pixel \cup {NoPixel}) /\ DOMAIN buf = 1 .. Len(buf) /\ Len(buf) \in Nat
      /\ DOMAIN d = 1 .. Len(d) /\ Len(d) \in Nat
  BY DEF Data
<1>2. /\ \A i \in 1 .. Len(buf) : buf[i] \in Pixel \cup {NoPixel}
      /\ \A i \in 1 .. Len(d) : d[i] \in Pixel
  BY <1>1
<1>3. c = [i \in 1 .. Len(buf) |-> IF i - off \in 1 .. Len(d) THEN d[i - off] ELSE buf[i]]
  BY <1>1 DEF Copied
<1>4. \A i \in 1 .. Len(buf) :
        (IF i - off \in 1 .. Len(d) THEN d[i - off] ELSE buf[i]) \in Pixel \cup {NoPixel}
  BY <1>2
<1>5. c \in [1 .. Len(buf) -> Pixel \cup {NoPixel}]
  BY <1>3, <1>4
<1>6. \A i \in 1 .. Len(buf) : c[i] = IF i - off \in 1 .. Len(d) THEN d[i - off] ELSE buf[i]
  BY <1>3
<1> HIDE DEF c
<1>7. c \in Data /\ Len(c) = Len(buf)
  BY <1>1, <1>5 DEF Data
<1>8. \A i \in 1 .. Len(buf) : i <= off \/ i > off + Len(d) => c[i] = buf[i]
  BY <1>1, <1>6
<1>9. \A k \in 1 .. Len(d) : off + k \in 1 .. Len(buf) => c[off + k] = d[k]
  BY <1>1, <1>6
<1>10. QED BY <1>7, <1>8, <1>9 DEF c

\* An aggregator for the nodes of a selection; nothing has been stored for
\* the other nodes.
FtShape(a, nodes) ==
    /\ a \in FtAggregator
    /\ a.nodes = nodes
    /\ a.readout \subseteq nodes
    /\ a.outside = {}
    /\ Len(a.data) = N_ELEM * Cardinality(nodes)
    /\ Len(a.hk) = HK_LEN
    /\ \A x \in Nodes \ nodes : a.n[x] = 0

\* Pixel k of the buffer of node x.
Stored(a, x, k) == a.data[Offset(a.nodes, x) + k]

\* b is a with d stored for node x.
Gained(a, b, x, d) ==
    /\ b.readout = a.readout
    /\ b.hk = a.hk
    /\ b.n[x] = a.n[x] + Len(d)
    /\ \A y \in Nodes \ {x} : b.n[y] = a.n[y]
    /\ \A y \in a.nodes \ {x} : \A k \in 1 .. N_ELEM : Stored(b, y, k) = Stored(a, y, k)
    /\ \A k \in 1 .. a.n[x] : Stored(b, x, k) = Stored(a, x, k)
    /\ \A k \in 1 .. Len(d) : Stored(b, x, a.n[x] + k) = d[k]

LEMMA AggregatorFields ==
    ASSUME NEW a \in FtAggregator
    PROVE  /\ a.readout \in SUBSET Nodes /\ a.nodes \in SUBSET Nodes
           /\ a.n \in [Nodes -> Nat] /\ a.data \in Data /\ a.hk \in Data
           /\ a.outside \in SUBSET Nat
BY DEF FtAggregator, Data

\* The places after the first n of a region of the given size.
Window(base, n, len, size, top) ==
    /\ base + n \in Nat
    /\ \A k \in 1 .. len : (base + n) + k \in 1 .. top /\ (base + n) + k = base + (n + k)
    /\ \A k \in 1 .. n : base + k \in 1 .. top /\ base + k <= base + n
    /\ \A other \in Nat : base + size <= other \/ other + size <= base =>
         \A k \in 1 .. size : other + k <= base + n \/ other + k > (base + n) + len

LEMMA WindowPlaces ==
    ASSUME NEW base \in Nat, NEW n \in Nat, NEW len \in Nat, NEW size \in Nat, NEW top \in Nat,
           n + len <= size, base + size <= top
    PROVE  Window(base, n, len, size, top)
BY DEF Window

LEMMA StoredShape ==
    ASSUME NEW nodes \in SUBSET Nodes, NEW a, FtShape(a, nodes), NEW x \in nodes,
           NEW d \in Seq(Pixel), a.n[x] + Len(d) <= N_ELEM
    PROVE  FtShape(FtStored(a, x, d), nodes) /\ Gained(a, FtStored(a, x, d), x, d)
<1> DEFINE off == Offset(nodes, x) + a.n[x]
           n == [a.n EXCEPT ![x] = @ + Len(d)]
           data == Copied(a.data, off, d)
           b == FtStored(a, x, d)
<1>1. /\ a \in FtAggregator /\ a.nodes = nodes /\ a.readout \subseteq nodes
      /\ a.outside = {} /\ Len(a.data) = N_ELEM * Cardinality(nodes) /\ Len(a.hk) = HK_LEN
      /\ a.n \in [Nodes -> Nat] /\ a.data \in Data /\ a.hk \in Data
      /\ \A y \in Nodes \ nodes : a.n[y] = 0
  BY AggregatorFields DEF FtShape
<1>2. /\ Offset(nodes, x) \in Nat /\ N_ELEM \in Nat /\ Len(a.data) \in Nat
      /\ Offset(nodes, x) + N_ELEM <= Len(a.data)
      /\ \A y \in nodes \ {x} : Offset(nodes, y) \in Nat /\ Offset(nodes, y) + N_ELEM <= Len(a.data)
      /\ \A y \in nodes \ {x} : \/ Offset(nodes, x) + N_ELEM <= Offset(nodes, y)
                               \/ Offset(nodes, y) + N_ELEM <= Offset(nodes, x)
  BY <1>1, OffsetsApart, FrameNodesAssumption
<1>3. /\ a.n[x] \in Nat /\ Len(d) \in Nat /\ off \in Nat
      /\ \A k \in 1 .. Len(d) : off + k \in 1 .. Len(a.data)
                                /\ off + k = Offset(nodes, x) + (a.n[x] + k)
      /\ \A k \in 1 .. a.n[x] : /\ Offset(nodes, x) + k \in 1 .. Len(a.data)
                                /\ Offset(nodes, x) + k <= off
      /\ \A y \in nodes \ {x} : \A k \in 1 .. N_ELEM :
           Offset(nodes, y) + k <= off \/ Offset(nodes, y) + k > off + Len(d)
  <2>1. a.n[x] \in Nat /\ Len(d) \in Nat
    BY <1>1
  <2>2. Window(Offset(nodes, x), a.n[x], Len(d), N_ELEM, Len(a.data))
    <3>1. Offset(nodes, x) \in Nat /\ N_ELEM \in Nat /\ Len(a.data) \in Nat
      BY <1>2
    <3>2. a.n[x] + Len(d) <= N_ELEM /\ Offset(nodes, x) + N_ELEM <= Len(a.data)
      BY <1>2
    <3>3. QED BY <2>1, <3>1, <3>2, WindowPlaces
  <2>3. QED BY <2>1, <2>2, <1>2 DEF Window
<1>4. /\ data \in Data /\ Len(data) = Len(a.data)
      /\ \A i \in 1 .. Len(a.data) : i <= off \/ i > off + Len(d) => data[i] = a.data[i]
      /\ \A k \in 1 .. Len(d) : off + k \in 1 .. Len(a.data) => data[off + k] = d[k]
  BY <1>1, <1>3, CopiedShape
<1>5. Spread(off, d) \ DOMAIN a.data = {}
  <2>1. DOMAIN d = 1 .. Len(d) /\ DOMAIN a.data = 1 .. Len(a.data)
    BY <1>1 DEF Data
  <2>2. \A i \in 1 .. Len(d) : off + i \in 1 .. Len(a.data)
    BY <1>3
  <2>3. QED BY <2>1, <2>2 DEF Spread
<1>6. b = [a EXCEPT !.n = n, !.data = data, !.outside = a.outside \cup (Spread(off, d) \ DOMAIN a.data)]
  BY <1>1 DEF FtStored
<1>7. b = [a EXCEPT !.n = n, !.data = data, !.outside = {}]
  BY <1>1, <1>5, <1>6
<1>8. n \in [Nodes -> Nat] /\ n[x] = a.n[x] + Len(d) /\ \A y \in Nodes \ {x} : n[y] = a.n[y]
  BY <1>1, <1>3
<1> HIDE DEF n, data, b
<1>9. /\ b.readout = a.readout /\ b.nodes = a.nodes /\ b.hk = a.hk
      /\ b.n = n /\ b.data = data /\ b.outside = {}
  BY <1>1, <1>7 DEF FtAggregator
<1>10. b \in FtAggregator
  BY <1>1, <1>4, <1>7, <1>8 DEF FtAggregator, Data
<1>11. FtShape(b, nodes)
  BY <1>1, <1>4, <1>8, <1>9, <1>10 DEF FtShape
<1>12. Gained(a, b, x, d)
  <2>1. \A y \in nodes \ {x} : \A k \in 1 .. N_ELEM : Stored(b, y, k) = Stored(a, y, k)
    <3> SUFFICES ASSUME NEW y \in nodes \ {x}, NEW k \in 1 .. N_ELEM
                 PROVE  data[Offset(nodes, y) + k] = a.data[Offset(nodes, y) + k]
      BY <1>1, <1>9 DEF Stored
    <3>1. Offset(nodes, y) + k \in 1 .. Len(a.data)
      BY <1>2
    <3>2. Offset(nodes, y) + k <= off \/ Offset(nodes, y) + k > off + Len(d)
      BY <1>3
    <3>3. QED BY <3>1, <3>2, <1>4
  <2>2. \A k \in 1 .. a.n[x] : Stored(b, x, k) = Stored(a, x, k)
    <3> SUFFICES ASSUME NEW k \in 1 .. a.n[x]
                 PROVE  data[Offset(nodes, x) + k] = a.data[Offset(nodes, x) + k]
      BY <1>1, <1>9 DEF Stored
    <3>1. Offset(nodes, x) + k \in 1 .. Len(a.data) /\ Offset(nodes, x) + k <= off
      BY <1>3
    <3>2. QED BY <3>1, <1>4
  <2>3. \A k \in 1 .. Len(d) : Stored(b, x, a.n[x] + k) = d[k]
    <3> SUFFICES ASSUME NEW k \in 1 .. Len(d)
                 PROVE  data[Offset(nodes, x) + (a.n[x] + k)] = d[k]
      BY <1>1, <1>9 DEF Stored
    <3>1. off + k \in 1 .. Len(a.data) /\ off + k = Offset(nodes, x) + (a.n[x] + k)
      BY <1>3
    <3>2. QED BY <3>1, <1>4
  <2>4. QED BY <1>1, <1>8, <1>9, <2>1, <2>2, <2>3 DEF Gained
<1>13. QED BY <1>11, <1>12 DEF b

\* What fee_ft_aggregate does with a packet that fits.
FtFits(a, p) ==
    IF p.type = "DATA" THEN Fits(a.n[p.node], Len(p.data)) ELSE Len(p.data) <= HK_LEN

FtTook(a, p) ==
    IF p.type = "DATA" THEN FtStored(a, p.node, p.data)
    ELSE [a EXCEPT !.hk = Copied(@, 0, p.data)]

LEMMA FtAggregateTakes ==
    ASSUME NEW p, p.type \in {"DATA", "HK"}, FtAggregate(p), FtFits(ft, p)
    PROVE  /\ ft # NULL
           /\ ft' = FtCompleted(FtTook(ft, p), p)
           /\ result' = FtDone(FtCompleted(FtTook(ft, p), p))
           /\ ff' = ff
BY DEF FtAggregate, FtFits, FtTook

\* The stores of a and b are the same.
SameStore(a, b) == b.n = a.n /\ b.data = a.data /\ b.nodes = a.nodes

LEMMA HkStored ==
    ASSUME NEW nodes \in SUBSET Nodes, NEW a, FtShape(a, nodes), NEW d \in Seq(Pixel)
    PROVE  LET b == [a EXCEPT !.hk = Copied(@, 0, d)]
           IN  /\ FtShape(b, nodes) /\ b.readout = a.readout /\ SameStore(a, b)
               /\ \A k \in 1 .. Len(d) : k <= HK_LEN => b.hk[k] = d[k]
<1> DEFINE hk == Copied(a.hk, 0, d)
           b == [a EXCEPT !.hk = hk]
<1>1. /\ a \in FtAggregator /\ a.hk \in Data /\ Len(a.hk) = HK_LEN /\ HK_LEN \in Nat
      /\ Len(d) \in Nat
  BY AggregatorFields, FrameNodesAssumption DEF FtShape
<1>2. /\ hk \in Data /\ Len(hk) = HK_LEN
      /\ \A k \in 1 .. Len(d) : k <= HK_LEN => hk[k] = d[k]
  <2>1. /\ hk \in Data /\ Len(hk) = Len(a.hk)
        /\ \A k \in 1 .. Len(d) : 0 + k \in 1 .. Len(a.hk) => hk[0 + k] = d[k]
    <3>1. 0 \in Nat /\ a.hk \in Data
      BY <1>1
    <3>2. QED BY <3>1, CopiedShape, Zenon
  <2> HIDE DEF hk
  <2>2. \A k \in 1 .. Len(d) : 0 + k = k /\ (k <= HK_LEN => k \in 1 .. HK_LEN)
    BY <1>1
  <2>3. QED BY <1>1, <2>1, <2>2
<1> HIDE DEF hk
<1>3. b \in FtAggregator
  BY <1>1, <1>2 DEF FtAggregator, Data
<1>4. /\ b.hk = hk /\ b.n = a.n /\ b.data = a.data /\ b.nodes = a.nodes
      /\ b.readout = a.readout /\ b.outside = a.outside
  BY <1>1 DEF FtAggregator
<1> HIDE DEF b
<1>5. FtShape(b, nodes)
  BY <1>1, <1>2, <1>3, <1>4 DEF FtShape
<1>6. QED BY <1>2, <1>4, <1>5 DEF SameStore, b, hk

LEMMA CompletedShape ==
    ASSUME NEW nodes \in SUBSET Nodes, NEW a, FtShape(a, nodes), NEW p
    PROVE  LET b == FtCompleted(a, p)
           IN  /\ FtShape(b, nodes) /\ SameStore(a, b) /\ b.hk = a.hk
               /\ b.readout = IF IsEnd(p) THEN a.readout \ {p.node} ELSE a.readout
<1>1. a \in FtAggregator /\ a.readout \in SUBSET Nodes /\ a.readout \subseteq nodes
  BY AggregatorFields DEF FtShape
<1>2. CASE IsEnd(p)
  <2> DEFINE b == [a EXCEPT !.readout = a.readout \ {p.node}]
  <2>1. FtCompleted(a, p) = b
    BY <1>2 DEF FtCompleted, IsEnd
  <2>2. /\ b.readout = a.readout \ {p.node} /\ b.n = a.n /\ b.data = a.data
        /\ b.nodes = a.nodes /\ b.hk = a.hk /\ b.outside = a.outside
    BY <1>1 DEF FtAggregator
  <2>3. b \in FtAggregator
    BY <1>1 DEF FtAggregator
  <2> HIDE DEF b
  <2>4. FtShape(b, nodes)
    BY <1>1, <2>2, <2>3 DEF FtShape
  <2>5. QED BY <1>2, <2>1, <2>2, <2>4 DEF SameStore
<1>3. CASE ~IsEnd(p)
  <2>1. FtCompleted(a, p) = a
    BY <1>3 DEF FtCompleted, IsEnd
  <2>2. QED BY <1>3, <2>1 DEF SameStore
<1>4. QED BY <1>2, <1>3

-----------------------------------------------------------------------------
(* What an aggregator for frame transfer mode holds of a frame.            *)

\* What has been received of node x up to pixel o of frame f; h are the
\* frames of which a packet is lost.
FtGot(a, h, x, f, o) ==
    /\ a.n[x] <= o
    /\ a.n[x] = o => \A k \in 1 .. o : Stored(a, x, k) = [src |-> x, frame |-> f, idx |-> k]
    /\ f \notin h => a.n[x] = o

HkGot(hk, h, f) == f \notin h /\ HK_LEN <= DATA_LEN_MAX => HkWhole(hk, f)

\* The front is at pixel o of part q of frame f.  The marker of the HK packet
\* counts for F2.
FtDuring(a, h, f, q, o) ==
    /\ \A x \in a.nodes : /\ Ord(x) < Ord(q) => FtGot(a, h, x, f, N_ELEM) /\ x \notin a.readout
                          /\ x = q => FtGot(a, h, x, f, o)
                          /\ Ord(x) > Ord(q) => a.n[x] = 0
                          /\ Ord(x) >= Ord(q) => x \in a.readout \/ x = "F2"
    /\ q # "HK" => HkGot(a.hk, h, f)

\* The frame is complete.
FtAfter(a, h, f) == (\A x \in a.nodes : FtGot(a, h, x, f, N_ELEM)) /\ HkGot(a.hk, h, f)

\* Nothing of frame f has been received, and no packet that ends a node of S
\* is lost.
Fresh(S, h, f, g, q, o) ==
    /\ g = f
    /\ \A y \in S \ {"HK"} : Ord(q) <= Ord(y)
    /\ f \notin h => q = "HK" /\ o = 0

\* The front has moved on from frame f to pixel o of part q of frame g.
FtMoved(S, a, h, f, g, q, o) ==
    IF a.readout = {} THEN FtAfter(a, h, f) /\ Fresh(S, h, f + 1, g, q, o)
    ELSE g = f /\ FtDuring(a, h, f, q, o)

LEMMA GotMore ==
    ASSUME NEW a \in FtAggregator, NEW b, NEW x \in Nodes, NEW d \in Seq(Pixel), Gained(a, b, x, d),
           NEW h, NEW f, NEW o \in Nat, FtGot(a, h, x, f, o),
           \A k \in 1 .. Len(d) : d[k] = [src |-> x, frame |-> f, idx |-> o + k]
    PROVE  FtGot(b, h, x, f, o + Len(d))
<1>1. a.n[x] \in Nat /\ Len(d) \in Nat /\ b.n[x] = a.n[x] + Len(d) /\ a.n[x] <= o
  BY AggregatorFields DEF Gained, FtGot
<1>2. ASSUME b.n[x] = o + Len(d), NEW k \in 1 .. o + Len(d)
      PROVE  Stored(b, x, k) = [src |-> x, frame |-> f, idx |-> k]
  <2>1. a.n[x] = o
    BY <1>1, <1>2
  <2>2. CASE k <= o
    <3>1. k \in 1 .. a.n[x] /\ k \in 1 .. o
      BY <2>1, <2>2, <1>1
    <3>2. Stored(b, x, k) = Stored(a, x, k)
      BY <3>1 DEF Gained
    <3>3. QED BY <2>1, <3>1, <3>2 DEF FtGot
  <2>3. CASE k > o
    <3>1. k - o \in 1 .. Len(d) /\ o + (k - o) = k
      BY <2>3, <1>1
    <3>2. Stored(b, x, a.n[x] + (k - o)) = d[k - o]
      BY <3>1 DEF Gained
    <3>3. d[k - o] = [src |-> x, frame |-> f, idx |-> o + (k - o)]
      BY <3>1
    <3>4. QED BY <2>1, <3>1, <3>2, <3>3
  <2>4. QED BY <2>2, <2>3
<1>3. b.n[x] <= o + Len(d)
  BY <1>1
<1>4. f \notin h => b.n[x] = o + Len(d)
  BY <1>1 DEF FtGot
<1>5. QED BY <1>2, <1>3, <1>4 DEF FtGot

LEMMA GotKept ==
    ASSUME NEW a \in FtAggregator, NEW b, NEW x, NEW d, Gained(a, b, x, d), b.nodes = a.nodes,
           NEW y \in a.nodes, y # x, NEW h, NEW f, NEW o \in Nat, o <= N_ELEM, FtGot(a, h, y, f, o)
    PROVE  FtGot(b, h, y, f, o)
<1>1. y \in Nodes /\ N_ELEM \in Nat
  BY AggregatorFields, FrameNodesAssumption
<1>2. b.n[y] = a.n[y]
  BY <1>1 DEF Gained
<1>3. \A k \in 1 .. o : Stored(b, y, k) = Stored(a, y, k)
  <2>1. \A k \in 1 .. o : k \in 1 .. N_ELEM
    BY <1>1
  <2>2. QED BY <2>1 DEF Gained
<1>4. QED BY <1>2, <1>3 DEF FtGot

LEMMA GotSame ==
    ASSUME NEW a, NEW b, SameStore(a, b), NEW h, NEW x, NEW f, NEW o, FtGot(a, h, x, f, o)
    PROVE  FtGot(b, h, x, f, o)
BY DEF SameStore, FtGot, Stored

LEMMA GotNothing ==
    ASSUME NEW a, NEW x, a.n[x] = 0, NEW h, NEW f
    PROVE  FtGot(a, h, x, f, 0)
BY DEF FtGot

\* The parts of a frame with these nodes.
With(nodes) == {"HK"} \cup nodes

LEMMA PacketOfNode ==
    ASSUME NEW nodes \in SUBSET Nodes, NEW top, NEW p, Good(With(nodes), top, p), PartOf(p) # "HK"
    PROVE  /\ PartOf(p) \in nodes /\ p.type = "DATA" /\ p.node = PartOf(p)
           /\ p.data \in Seq(Pixel) /\ Len(p.data) \in Nat /\ Len(p.data) >= 1
           /\ OffOf(p) \in Nat /\ OffOf(p) + Len(p.data) <= N_ELEM
           /\ IsEnd(p) <=> OffOf(p) + Len(p.data) = N_ELEM
           /\ \A k \in 1 .. Len(p.data) :
                p.data[k] = [src |-> PartOf(p), frame |-> FrameOf(p), idx |-> OffOf(p) + k]
<1>1. /\ p \in Packet /\ PartOf(p) \in nodes /\ OffOf(p) \in Nat
      /\ Len(p.data) \in 1 .. DATA_LEN_MAX /\ PartOf(p) \in Nodes
  BY DEF Good, With
<1>2. p.data \in Seq(Pixel) /\ Len(p.data) \in Nat /\ Len(p.data) >= 1
  BY <1>1, FrameSenderAssumption DEF Packet
<1>3. PartLen(PartOf(p)) = N_ELEM
  BY DEF PartLen
<1>4. p.type = "DATA" /\ p.node = PartOf(p)
  BY <1>1 DEF Good
<1>5. /\ OffOf(p) + Len(p.data) <= N_ELEM
      /\ IsEnd(p) <=> OffOf(p) + Len(p.data) = N_ELEM
      /\ \A k \in 1 .. Len(p.data) :
           p.data[k] = [src |-> PartOf(p), frame |-> FrameOf(p), idx |-> OffOf(p) + k]
  BY <1>3 DEF Good
<1>6. QED BY <1>1, <1>2, <1>4, <1>5

\* b is what a packet p of a node makes of a, and c the same with its marker.
DataTaken(nodes, a, b, c, p) ==
    /\ FtFits(a, p)
    /\ FtShape(c, nodes) /\ c.hk = a.hk
    /\ Gained(a, b, PartOf(p), p.data) /\ SameStore(b, c) /\ b.nodes = a.nodes
    /\ c.readout = IF IsEnd(p) THEN a.readout \ {PartOf(p)} ELSE a.readout

\* A packet of a node is stored behind what there is of this node.
LEMMA DataStored ==
    ASSUME NEW nodes \in SUBSET Nodes, NEW top, NEW p, Good(With(nodes), top, p), PartOf(p) # "HK",
           NEW a, FtShape(a, nodes), a.n[PartOf(p)] <= OffOf(p)
    PROVE  DataTaken(nodes, a, FtTook(a, p), FtCompleted(FtTook(a, p), p), p)
<1> DEFINE q == PartOf(p)
           b == FtTook(a, p)
           c == FtCompleted(b, p)
<1>1. /\ q \in nodes /\ p.type = "DATA" /\ p.node = q /\ p.data \in Seq(Pixel)
      /\ Len(p.data) \in Nat /\ Len(p.data) >= 1 /\ OffOf(p) \in Nat
      /\ OffOf(p) + Len(p.data) <= N_ELEM /\ N_ELEM \in Nat
  BY PacketOfNode, FrameNodesAssumption
<1>2. /\ a \in FtAggregator /\ a.n[q] \in Nat /\ a.nodes = nodes
  BY <1>1, AggregatorFields DEF FtShape
<1>3. FtFits(a, p)
  BY <1>1, <1>2 DEF FtFits, Fits
<1>4. b = FtStored(a, q, p.data)
  BY <1>1 DEF FtTook
<1>5. a.n[q] + Len(p.data) <= N_ELEM
  BY <1>1, <1>2
<1> HIDE DEF q, b
<1>6. FtShape(b, nodes) /\ Gained(a, b, q, p.data)
  BY <1>1, <1>4, <1>5, StoredShape
<1>7. /\ FtShape(c, nodes) /\ SameStore(b, c) /\ c.hk = b.hk
      /\ c.readout = IF IsEnd(p) THEN b.readout \ {p.node} ELSE b.readout
  BY <1>6, CompletedShape
<1>8. b.readout = a.readout /\ b.hk = a.hk /\ b.nodes = a.nodes
  BY <1>2, <1>6 DEF Gained, FtShape
<1> HIDE DEF c
<1>9. /\ c.hk = a.hk
      /\ c.readout = IF IsEnd(p) THEN a.readout \ {q} ELSE a.readout
  BY <1>1, <1>7, <1>8
<1>10. QED BY <1>3, <1>6, <1>7, <1>8, <1>9 DEF b, c, q, DataTaken

LEMMA DataReceived ==
    ASSUME NEW nodes \in SUBSET Nodes, ~EndsWithF2(nodes), NEW top, NEW p,
           Good(With(nodes), top, p), PartOf(p) # "HK",
           NEW a, FtShape(a, nodes), a.readout # {}, NEW h,
           FtDuring(a, h, FrameOf(p), PartOf(p), OffOf(p)),
           NEW g, NEW r, NEW s, Leads(With(nodes), p, g, r, s)
    PROVE  /\ FtFits(a, p)
           /\ FtShape(FtCompleted(FtTook(a, p), p), nodes)
           /\ FtMoved(With(nodes), FtCompleted(FtTook(a, p), p), h, FrameOf(p), g, r, s)
<1> DEFINE q == PartOf(p)
           f == FrameOf(p)
           o == OffOf(p)
           len == Len(p.data)
           b == FtTook(a, p)
           c == FtCompleted(b, p)
<1>1. /\ q \in nodes /\ p.data \in Seq(Pixel) /\ len \in Nat /\ len >= 1 /\ o \in Nat
      /\ o + len <= N_ELEM /\ N_ELEM \in Nat
      /\ IsEnd(p) <=> o + len = N_ELEM
      /\ \A k \in 1 .. len : p.data[k] = [src |-> q, frame |-> f, idx |-> o + k]
  BY PacketOfNode, FrameNodesAssumption
<1>2. a \in FtAggregator /\ a.nodes = nodes /\ a.readout \subseteq nodes
  BY DEF FtShape
<1>3. /\ FtGot(a, h, q, f, o)
      /\ \A x \in nodes : /\ Ord(x) < Ord(q) => FtGot(a, h, x, f, N_ELEM) /\ x \notin a.readout
                          /\ Ord(x) > Ord(q) => a.n[x] = 0
                          /\ Ord(x) >= Ord(q) => x \in a.readout \/ x = "F2"
      /\ HkGot(a.hk, h, f)
  BY <1>1, <1>2 DEF FtDuring
<1>4. a.n[q] <= o
  BY <1>3 DEF FtGot
<1>5. /\ FtFits(a, p) /\ FtShape(c, nodes) /\ c.hk = a.hk
      /\ Gained(a, b, q, p.data) /\ SameStore(b, c) /\ b.nodes = a.nodes
      /\ c.readout = IF IsEnd(p) THEN a.readout \ {q} ELSE a.readout
  <2>1. a.n[PartOf(p)] <= OffOf(p)
    BY <1>4
  <2>2. DataTaken(nodes, a, b, c, p)
    BY <2>1, DataStored
  <2>3. QED BY <2>2 DEF DataTaken
<1>6. \A x \in nodes : Ord(x) \in 1 .. 4 /\ Ord("HK") = 0 /\ x # "HK"
  BY DEF Ord, Nodes
<1>7. c.nodes = nodes
  BY <1>5 DEF FtShape
<1> HIDE DEF q, f, o, len, b, c
<1>8. FtGot(c, h, q, f, o + len)
  <2>1. FtGot(b, h, q, f, o + Len(p.data))
    BY <1>1, <1>2, <1>3, <1>5, GotMore DEF len
  <2>2. QED BY <2>1, <1>5, GotSame DEF len
<1>9. \A x \in nodes : Ord(x) < Ord(q) => FtGot(c, h, x, f, N_ELEM)
  <2> SUFFICES ASSUME NEW x \in nodes, Ord(x) < Ord(q) PROVE FtGot(c, h, x, f, N_ELEM)
    OBVIOUS
  <2>1. x # q /\ FtGot(a, h, x, f, N_ELEM) /\ N_ELEM <= N_ELEM
    BY <1>1, <1>3, <1>6
  <2>2. FtGot(b, h, x, f, N_ELEM)
    BY <2>1, <1>1, <1>2, <1>5, GotKept
  <2>3. QED BY <2>2, <1>5, GotSame
<1>10. \A x \in nodes : Ord(x) > Ord(q) => c.n[x] = 0
  <2>1. \A x \in nodes : x # q => b.n[x] = a.n[x]
    BY <1>5 DEF Gained
  <2>2. c.n = b.n
    BY <1>5 DEF SameStore
  <2>3. \A x \in nodes : Ord(x) > Ord(q) => x # q /\ a.n[x] = 0
    BY <1>1, <1>3, <1>6
  <2>4. QED BY <2>1, <2>2, <2>3
<1>11. CASE ~IsEnd(p)
  <2>1. g = f /\ r = q /\ s = o + len /\ c.readout = a.readout
    BY <1>5, <1>11 DEF Leads, q, f, o, len
  <2>2. FtDuring(c, h, f, q, o + len)
    BY <1>3, <1>5, <1>6, <1>7, <1>8, <1>9, <1>10, <2>1 DEF FtDuring
  <2>3. QED BY <1>5, <2>1, <2>2 DEF FtMoved, b, c, f
<1>12. CASE IsEnd(p) /\ g = f /\ Succ(With(nodes), q, r) /\ s = 0
  <2>1. /\ r \in nodes /\ Ord(q) < Ord(r)
        /\ \A y \in nodes : Ord(y) <= Ord(q) \/ Ord(r) <= Ord(y)
    BY <1>1, <1>6, <1>12 DEF Succ, With, Ord
  <2>2. c.readout = a.readout \ {q}
    BY <1>5, <1>12
  <2>3. c.readout # {}
    <3>1. CASE r = "F2"
      <4>1. PICK y \in nodes : y \in {"E4", "F4"}
        BY <2>1, <3>1 DEF EndsWithF2
      <4>2. Ord(y) > Ord(r) /\ y # "F2"
        BY <3>1, <4>1 DEF Ord
      <4>3. Ord(y) > Ord(q) /\ y # q
        BY <4>2, <2>1, <1>1, <1>6
      <4>4. y \in c.readout
        BY <4>2, <4>3, <1>1, <1>3, <1>6, <2>2
      <4>5. QED BY <4>4
    <3>2. CASE r # "F2"
      <4>1. r \in a.readout /\ r # q
        BY <3>2, <2>1, <1>1, <1>3, <1>6
      <4>2. QED BY <4>1, <2>2
    <3>3. QED BY <3>1, <3>2
  <2>4. FtDuring(c, h, f, r, 0)
    <3> SUFFICES ASSUME NEW x \in nodes
                 PROVE  /\ Ord(x) < Ord(r) => FtGot(c, h, x, f, N_ELEM) /\ x \notin c.readout
                        /\ x = r => FtGot(c, h, x, f, 0)
                        /\ Ord(x) > Ord(r) => c.n[x] = 0
                        /\ Ord(x) >= Ord(r) => x \in c.readout \/ x = "F2"
      BY <1>3, <1>5, <1>7 DEF FtDuring
    <3>1. CASE Ord(x) <= Ord(q)
      <4>1. x = q \/ Ord(x) < Ord(q)
        BY <3>1, <1>1, PartsOrdered DEF Parts
      <4>2. FtGot(c, h, x, f, N_ELEM)
        BY <4>1, <1>1, <1>8, <1>9, <1>12
      <4>3. x \notin c.readout
        BY <4>1, <1>3, <2>2
      <4>4. QED BY <3>1, <4>2, <4>3, <2>1, <1>1, <1>6
    <3>2. CASE ~(Ord(x) <= Ord(q))
      <4>1. Ord(x) > Ord(q) /\ Ord(x) >= Ord(r)
        BY <3>2, <2>1, <1>1, <1>6
      <4>2. c.n[x] = 0 /\ (x \in a.readout \/ x = "F2") /\ x # q
        BY <4>1, <1>1, <1>3, <1>6, <1>10
      <4>3. FtGot(c, h, x, f, 0)
        BY <4>2, GotNothing
      <4>4. QED BY <4>1, <4>2, <4>3, <2>1, <2>2, <1>6
    <3>3. QED BY <3>1, <3>2
  <2>5. QED BY <1>5, <1>12, <2>3, <2>4 DEF FtMoved, b, c, f
<1>13. CASE IsEnd(p) /\ g = f + 1 /\ r = "HK" /\ s = 0 /\ Final(With(nodes), q)
  <2>1. \A x \in nodes : x = q \/ Ord(x) < Ord(q)
    <3>1. \A x \in nodes : Ord(x) <= Ord(q)
      BY <1>13 DEF Final, With
    <3>2. QED BY <3>1, <1>1, PartsOrdered DEF Parts
  <2>2. c.readout = {}
    BY <2>1, <1>2, <1>3, <1>5, <1>13
  <2>3. FtAfter(c, h, f)
    BY <2>1, <1>1, <1>3, <1>5, <1>7, <1>8, <1>9, <1>13 DEF FtAfter
  <2>4. Fresh(With(nodes), h, f + 1, g, r, s)
    BY <1>6, <1>13 DEF Fresh, With
  <2>5. QED BY <1>5, <2>2, <2>3, <2>4 DEF FtMoved, b, c, f
<1>14. \/ ~IsEnd(p)
       \/ IsEnd(p) /\ g = f /\ Succ(With(nodes), q, r) /\ s = 0
       \/ IsEnd(p) /\ g = f + 1 /\ r = "HK" /\ s = 0 /\ Final(With(nodes), q)
  BY DEF Leads, f, q
<1>15. QED BY <1>11, <1>12, <1>13, <1>14

LEMMA PacketOfHk ==
    ASSUME NEW S, NEW top, NEW p, Good(S, top, p), PartOf(p) = "HK"
    PROVE  /\ p.type = "HK" /\ p.node = "F2"
           /\ p.data \in Seq(Pixel) /\ Len(p.data) \in Nat /\ Len(p.data) >= 1
           /\ OffOf(p) \in Nat /\ OffOf(p) + Len(p.data) <= HK_LEN
           /\ IsEnd(p) <=> OffOf(p) + Len(p.data) = HK_LEN
           /\ \A k \in 1 .. Len(p.data) :
                p.data[k] = [src |-> "HK", frame |-> FrameOf(p), idx |-> OffOf(p) + k]
           /\ HK_LEN <= DATA_LEN_MAX => OffOf(p) = 0
<1>1. p \in Packet /\ OffOf(p) \in Nat /\ Len(p.data) \in 1 .. DATA_LEN_MAX /\ PartOf(p) \notin Nodes
  BY DEF Good, Nodes
<1>2. p.data \in Seq(Pixel) /\ Len(p.data) \in Nat /\ Len(p.data) >= 1
  BY <1>1, FrameSenderAssumption DEF Packet
<1>3. PartLen(PartOf(p)) = HK_LEN
  BY DEF PartLen
<1>4. p.type = "HK" /\ p.node = "F2" /\ (HK_LEN <= DATA_LEN_MAX => OffOf(p) = 0)
  BY <1>1 DEF Good
<1>5. /\ OffOf(p) + Len(p.data) <= HK_LEN
      /\ IsEnd(p) <=> OffOf(p) + Len(p.data) = HK_LEN
      /\ \A k \in 1 .. Len(p.data) :
           p.data[k] = [src |-> PartOf(p), frame |-> FrameOf(p), idx |-> OffOf(p) + k]
  BY <1>3 DEF Good
<1>6. QED BY <1>1, <1>2, <1>4, <1>5

\* c is what the aggregator a makes of an HK packet p.
HkTaken(nodes, a, c, p) ==
    /\ FtFits(a, p)
    /\ FtShape(c, nodes) /\ SameStore(a, c)
    /\ c.readout = IF IsEnd(p) THEN a.readout \ {"F2"} ELSE a.readout
    /\ IsEnd(p) /\ HK_LEN <= DATA_LEN_MAX => HkWhole(c.hk, FrameOf(p))

LEMMA HkTakenIs ==
    ASSUME NEW nodes \in SUBSET Nodes, NEW S, NEW top, NEW p, Good(S, top, p), PartOf(p) = "HK",
           NEW a, FtShape(a, nodes)
    PROVE  HkTaken(nodes, a, FtCompleted(FtTook(a, p), p), p)
<1> DEFINE b == FtTook(a, p)
           c == FtCompleted(b, p)
<1>1. /\ p.type = "HK" /\ p.node = "F2"
      /\ p.data \in Seq(Pixel) /\ Len(p.data) \in Nat /\ Len(p.data) >= 1
      /\ OffOf(p) \in Nat /\ OffOf(p) + Len(p.data) <= HK_LEN
      /\ IsEnd(p) <=> OffOf(p) + Len(p.data) = HK_LEN
      /\ \A k \in 1 .. Len(p.data) :
           p.data[k] = [src |-> "HK", frame |-> FrameOf(p), idx |-> OffOf(p) + k]
      /\ HK_LEN <= DATA_LEN_MAX => OffOf(p) = 0
      /\ HK_LEN \in Nat
  BY PacketOfHk, FrameNodesAssumption
<1>2. b = [a EXCEPT !.hk = Copied(@, 0, p.data)]
  BY <1>1 DEF FtTook
<1>3. /\ FtShape(b, nodes) /\ b.readout = a.readout /\ SameStore(a, b)
      /\ \A k \in 1 .. Len(p.data) : k <= HK_LEN => b.hk[k] = p.data[k]
  <2> HIDE DEF b, c
  <2> DEFINE e == [a EXCEPT !.hk = Copied(@, 0, p.data)]
  <2>1. p.data \in Seq(Pixel)
    BY <1>1
  <2>2. /\ FtShape(e, nodes) /\ e.readout = a.readout /\ SameStore(a, e)
        /\ \A k \in 1 .. Len(p.data) : k <= HK_LEN => e.hk[k] = p.data[k]
    BY <2>1, HkStored, ZenonT(60)
  <2>3. b = e
    BY <1>2
  <2> HIDE DEF e
  <2>4. QED BY <2>2, <2>3
<1> HIDE DEF b
<1>4. /\ FtShape(c, nodes) /\ SameStore(b, c) /\ c.hk = b.hk
      /\ c.readout = IF IsEnd(p) THEN b.readout \ {p.node} ELSE b.readout
  BY <1>3, CompletedShape
<1> HIDE DEF c
<1>5. FtFits(a, p)
  BY <1>1 DEF FtFits
<1>6. SameStore(a, c)
  BY <1>3, <1>4 DEF SameStore
<1>7. c.readout = IF IsEnd(p) THEN a.readout \ {"F2"} ELSE a.readout
  BY <1>1, <1>3, <1>4
<1>8. IsEnd(p) /\ HK_LEN <= DATA_LEN_MAX => HkWhole(c.hk, FrameOf(p))
  <2> SUFFICES ASSUME IsEnd(p), HK_LEN <= DATA_LEN_MAX, NEW k \in 1 .. HK_LEN
               PROVE  c.hk[k] = [src |-> "HK", frame |-> FrameOf(p), idx |-> k]
    BY DEF HkWhole
  <2>1. OffOf(p) = 0 /\ Len(p.data) = HK_LEN
    BY <1>1
  <2>2. k \in 1 .. Len(p.data) /\ k <= HK_LEN /\ 0 + k = k
    BY <1>1, <2>1
  <2>3. c.hk[k] = p.data[k]
    BY <1>3, <1>4, <2>2
  <2>4. p.data[k] = [src |-> "HK", frame |-> FrameOf(p), idx |-> 0 + k]
    BY <1>1, <2>1, <2>2
  <2>5. QED BY <2>2, <2>3, <2>4
<1>9. QED BY <1>4, <1>5, <1>6, <1>7, <1>8 DEF HkTaken, b, c

LEMMA AfterHk ==
    ASSUME NEW T \in SUBSET (Nodes \cup {"FF"}), T # {}, NEW p, PartOf(p) = "HK", IsEnd(p),
           NEW g, NEW r, NEW s, Leads(With(T), p, g, r, s)
    PROVE  g = FrameOf(p) /\ r \in T /\ s = 0 /\ \A y \in T : Ord(r) <= Ord(y)
<1>1. Ord("HK") = 0 /\ \A x \in T : Ord(x) \in 1 .. 4 /\ x # "HK"
  BY DEF Ord, Nodes
<1>2. ~Final(With(T), "HK")
  <2>1. PICK x \in T : TRUE
    OBVIOUS
  <2>2. x \in With(T) /\ ~(Ord(x) <= Ord("HK"))
    BY <1>1 DEF With
  <2>3. QED BY <2>2 DEF Final
<1>3. g = FrameOf(p) /\ Succ(With(T), "HK", r) /\ s = 0
  BY <1>2 DEF Leads
<1>4. /\ r \in With(T) /\ Ord(r) > 0
      /\ \A y \in With(T) : Ord(y) <= 0 \/ Ord(r) <= Ord(y)
  BY <1>1, <1>3 DEF Succ
<1>5. r # "HK"
  BY <1>1, <1>4
<1>6. r \in T
  BY <1>4, <1>5 DEF With
<1>7. ASSUME NEW y \in T PROVE Ord(r) <= Ord(y)
  <2>1. Ord(y) \in 1 .. 4 /\ ~(Ord(y) <= 0)
    BY <1>1
  <2>2. y \in With(T)
    BY DEF With
  <2>3. QED BY <1>4, <2>1, <2>2
<1>8. QED BY <1>3, <1>6, <1>7

LEMMA HkReceived ==
    ASSUME NEW nodes \in SUBSET Nodes, ~EndsWithF2(nodes), NEW top, NEW p,
           Good(With(nodes), top, p), PartOf(p) = "HK",
           NEW a, FtShape(a, nodes), a.readout # {}, NEW h,
           FtDuring(a, h, FrameOf(p), PartOf(p), OffOf(p)),
           NEW g, NEW r, NEW s, Leads(With(nodes), p, g, r, s)
    PROVE  /\ FtFits(a, p)
           /\ FtShape(FtCompleted(FtTook(a, p), p), nodes)
           /\ FtMoved(With(nodes), FtCompleted(FtTook(a, p), p), h, FrameOf(p), g, r, s)
<1> DEFINE f == FrameOf(p)
           c == FtCompleted(FtTook(a, p), p)
<1>1. /\ FtFits(a, p)
      /\ FtShape(c, nodes) /\ SameStore(a, c)
      /\ c.readout = IF IsEnd(p) THEN a.readout \ {"F2"} ELSE a.readout
      /\ IsEnd(p) /\ HK_LEN <= DATA_LEN_MAX => HkWhole(c.hk, f)
  <2>1. HkTaken(nodes, a, c, p)
    BY HkTakenIs
  <2>2. QED BY <2>1 DEF HkTaken
<1>2. a.nodes = nodes /\ a.readout \subseteq nodes /\ c.nodes = nodes /\ c.n = a.n
  BY <1>1 DEF FtShape, SameStore
<1>3. Ord("HK") = 0 /\ \A x \in nodes : Ord(x) \in 1 .. 4 /\ x # "HK"
  BY DEF Ord, Nodes
<1>4. \A x \in nodes : c.n[x] = 0 /\ (x \in a.readout \/ x = "F2")
  BY <1>2, <1>3 DEF FtDuring
<1> HIDE DEF c, f
<1>5. /\ nodes # {}
      /\ IsEnd(p) => g = f /\ r \in nodes /\ s = 0 /\ \A y \in nodes : Ord(r) <= Ord(y)
  <2>1. nodes # {} /\ nodes \in SUBSET (Nodes \cup {"FF"})
    BY <1>2
  <2>2. QED BY <2>1, AfterHk DEF f
<1>6. CASE ~IsEnd(p)
  <2>1. g = f /\ r = "HK" /\ c.readout = a.readout
    BY <1>1, <1>6 DEF Leads, f
  <2>2. FtDuring(c, h, f, "HK", s)
    BY <1>2, <1>3, <1>4, <2>1 DEF FtDuring
  <2>3. QED BY <1>1, <2>1, <2>2 DEF FtMoved, c, f
<1>7. CASE IsEnd(p)
  <2>1. r \in nodes /\ \A y \in nodes : Ord(r) <= Ord(y)
    BY <1>5, <1>7
  <2>2. c.readout = a.readout \ {"F2"}
    BY <1>1, <1>7
  <2>3. c.readout # {}
    <3>1. CASE r = "F2"
      <4>1. PICK y \in nodes : y \in {"E4", "F4"}
        BY <2>1, <3>1 DEF EndsWithF2
      <4>2. y \in c.readout
        BY <4>1, <1>4, <2>2
      <4>3. QED BY <4>2
    <3>2. CASE r # "F2"
      <4>1. r \in c.readout
        BY <3>2, <2>1, <2>2, <1>4
      <4>2. QED BY <4>1
    <3>3. QED BY <3>1, <3>2
  <2>4. HkGot(c.hk, h, f)
    BY <1>1, <1>7 DEF HkGot
  <2>5. FtDuring(c, h, f, r, 0)
    <3> SUFFICES ASSUME NEW x \in nodes
                 PROVE  /\ Ord(x) < Ord(r) => FtGot(c, h, x, f, N_ELEM) /\ x \notin c.readout
                        /\ x = r => FtGot(c, h, x, f, 0)
                        /\ Ord(x) > Ord(r) => c.n[x] = 0
                        /\ Ord(x) >= Ord(r) => x \in c.readout \/ x = "F2"
      BY <1>2, <2>4 DEF FtDuring
    <3>1. FtGot(c, h, x, f, 0)
      BY <1>4, GotNothing
    <3>2. QED BY <3>1, <1>3, <1>4, <2>1, <2>2
  <2>6. QED BY <1>1, <1>5, <1>7, <2>3, <2>5 DEF FtMoved, c, f
<1>8. QED BY <1>6, <1>7

-----------------------------------------------------------------------------
(* What a lost packet and a new aggregator leave of this.                  *)

\* The packets that LosePacket may take when "last" is not in Loss.
Losable(p) == ~(p.type = "DATA" /\ IsEnd(p))

LEMMA GotLess ==
    ASSUME NEW a, NEW h, NEW e, NEW x, NEW f, NEW o, FtGot(a, h, x, f, o)
    PROVE  FtGot(a, h \cup {e}, x, f, o)
BY DEF FtGot

LEMMA AfterLess ==
    ASSUME NEW a, NEW h, NEW e, NEW f, FtAfter(a, h, f)
    PROVE  FtAfter(a, h \cup {e}, f)
BY GotLess DEF FtAfter, HkGot

LEMMA LosableEnd ==
    ASSUME NEW S, NEW top, NEW p, Good(S, top, p), Losable(p), IsEnd(p) PROVE PartOf(p) = "HK"
BY DEF Good, Losable

LEMMA FreshLost ==
    ASSUME NEW T \in SUBSET (Nodes \cup {"FF"}), T # {}, NEW top, NEW p, Good(With(T), top, p),
           Losable(p), NEW h, NEW f, Fresh(With(T), h, f, FrameOf(p), PartOf(p), OffOf(p)),
           NEW g, NEW r, NEW s, Leads(With(T), p, g, r, s)
    PROVE  Fresh(With(T), h \cup {FrameOf(p)}, f, g, r, s)
<1>1. f = FrameOf(p) /\ \A y \in With(T) \ {"HK"} : Ord(PartOf(p)) <= Ord(y)
  BY DEF Fresh
<1>2. CASE ~IsEnd(p)
  <2>1. g = f /\ r = PartOf(p)
    BY <1>1, <1>2 DEF Leads
  <2>2. QED BY <1>1, <2>1 DEF Fresh
<1>3. CASE IsEnd(p)
  <2>1. g = f /\ \A y \in T : Ord(r) <= Ord(y)
    BY <1>1, <1>3, LosableEnd, AfterHk
  <2>2. QED BY <1>1, <2>1 DEF Fresh, With
<1>4. QED BY <1>2, <1>3

LEMMA DuringLost ==
    ASSUME NEW nodes \in SUBSET Nodes, nodes # {}, NEW top, NEW p, Good(With(nodes), top, p),
           Losable(p), NEW a, FtShape(a, nodes), NEW h,
           FtDuring(a, h, FrameOf(p), PartOf(p), OffOf(p)),
           NEW g, NEW r, NEW s, Leads(With(nodes), p, g, r, s)
    PROVE  g = FrameOf(p) /\ FtDuring(a, h \cup {FrameOf(p)}, g, r, s)
<1> DEFINE f == FrameOf(p)
           q == PartOf(p)
           o == OffOf(p)
           len == Len(p.data)
           hh == h \cup {f}
<1>1. /\ a.nodes = nodes /\ a.n \in [Nodes -> Nat]
      /\ \A x \in nodes : /\ Ord(x) < Ord(q) => FtGot(a, h, x, f, N_ELEM) /\ x \notin a.readout
                          /\ x = q => FtGot(a, h, x, f, o)
                          /\ Ord(x) > Ord(q) => a.n[x] = 0
                          /\ Ord(x) >= Ord(q) => x \in a.readout \/ x = "F2"
  BY AggregatorFields DEF FtShape, FtDuring
<1>2. o \in Nat /\ len \in Nat /\ len >= 1
  BY FrameSenderAssumption DEF Good
<1>3. f \in hh /\ HkGot(a.hk, hh, f)
  BY DEF HkGot
<1>4. ASSUME NEW x, FtGot(a, h, x, f, N_ELEM) PROVE FtGot(a, hh, x, f, N_ELEM)
  BY <1>4, GotLess
<1>5. Ord("HK") = 0 /\ \A x \in nodes : Ord(x) \in 1 .. 4 /\ x # "HK"
  BY DEF Ord, Nodes
<1>6. IsEnd(p) => q = "HK"
  BY LosableEnd
<1>7. Leads(With(nodes), p, g, r, s)
  OBVIOUS
<1> HIDE DEF f, q, o, len, hh
<1>8. CASE ~IsEnd(p)
  <2>1. g = f /\ r = q /\ s = o + len
    BY <1>7, <1>8 DEF Leads, f, q, o, len
  <2>2. ASSUME NEW x \in nodes, x = q PROVE FtGot(a, hh, x, f, s)
    <3>1. a.n[x] \in Nat /\ a.n[x] <= o
      BY <1>1, <2>2 DEF FtGot
    <3>2. a.n[x] <= s /\ a.n[x] # s
      BY <3>1, <1>2, <2>1
    <3>3. QED BY <3>2, <1>3 DEF FtGot
  <2>3. FtDuring(a, hh, f, q, s)
    BY <1>1, <1>3, <1>4, <2>2 DEF FtDuring
  <2>4. QED BY <2>1, <2>3 DEF f, hh
<1>9. CASE IsEnd(p)
  <2>1. g = f /\ r \in nodes /\ s = 0 /\ \A y \in nodes : Ord(r) <= Ord(y)
    <3>1. nodes \in SUBSET (Nodes \cup {"FF"}) /\ PartOf(p) = "HK"
      BY <1>6, <1>9 DEF q
    <3>2. QED BY <3>1, <1>7, <1>9, AfterHk DEF f
  <2>2. \A x \in nodes : a.n[x] = 0 /\ (x \in a.readout \/ x = "F2")
    BY <1>1, <1>5, <1>6, <1>9
  <2>3. FtDuring(a, hh, f, r, 0)
    <3> SUFFICES ASSUME NEW x \in nodes
                 PROVE  /\ Ord(x) < Ord(r) => FtGot(a, hh, x, f, N_ELEM) /\ x \notin a.readout
                        /\ x = r => FtGot(a, hh, x, f, 0)
                        /\ Ord(x) > Ord(r) => a.n[x] = 0
                        /\ Ord(x) >= Ord(r) => x \in a.readout \/ x = "F2"
      BY <1>1, <1>3 DEF FtDuring
    <3>1. FtGot(a, hh, x, f, 0)
      BY <2>2, GotNothing
    <3>2. QED BY <3>1, <1>5, <2>1, <2>2
  <2>4. QED BY <2>1, <2>3 DEF f, hh
<1>10. QED BY <1>8, <1>9

\* fee_ft_aggregator_create leaves the buffers as malloc returns them.
LEMMA CreatedShape ==
    ASSUME NEW nodes \in SUBSET Nodes, FtCreate(nodes)
    PROVE  /\ FtShape(ft', nodes) /\ ft'.readout = nodes /\ result' = 0 /\ ff' = ff
           /\ \A x \in nodes : ft'.n[x] = 0
<1> DEFINE a == [readout |-> nodes, nodes |-> nodes, n |-> [x \in Nodes |-> 0],
                 data |-> Blank(N_ELEM * Cardinality(nodes)), hk |-> Blank(HK_LEN), outside |-> {}]
<1>1. ft' = a /\ result' = 0 /\ ff' = ff
  BY DEF FtCreate
<1>2. N_ELEM * Cardinality(nodes) \in Nat /\ HK_LEN \in Nat
  <2>1. Cardinality(nodes) \in Nat /\ N_ELEM \in Nat
    BY NodesCounted, FrameNodesAssumption
  <2>2. QED BY <2>1, FrameNodesAssumption
<1>3. \A n \in Nat : Blank(n) \in Seq(Pixel \cup {NoPixel}) /\ Len(Blank(n)) = n
  BY DEF Blank
<1>4. a \in FtAggregator
  BY <1>2, <1>3 DEF FtAggregator
<1>5. /\ a.readout = nodes /\ a.nodes = nodes /\ a.n = [x \in Nodes |-> 0] /\ a.outside = {}
      /\ Len(a.data) = N_ELEM * Cardinality(nodes) /\ Len(a.hk) = HK_LEN
  BY <1>2, <1>3
<1> HIDE DEF a
<1>6. QED BY <1>1, <1>4, <1>5 DEF FtShape

LEMMA CreatedDuring ==
    ASSUME NEW nodes \in SUBSET Nodes, NEW a, FtShape(a, nodes), a.readout = nodes,
           \A x \in nodes : a.n[x] = 0,
           NEW h, NEW f, NEW g, NEW q, NEW o \in Nat, Fresh(With(nodes), h, f, g, q, o)
    PROVE  g = f /\ FtDuring(a, h, f, q, o)
<1>1. a.nodes = nodes
  BY DEF FtShape
<1>2. g = f /\ (f \notin h => q = "HK" /\ o = 0)
  BY DEF Fresh
<1>3. \A x \in nodes : x # "HK" /\ Ord(q) <= Ord(x)
  BY DEF Fresh, With, Nodes
<1>4. q # "HK" => HkGot(a.hk, h, f)
  BY <1>2 DEF HkGot
<1>5. ASSUME NEW x \in nodes, x = q PROVE FtGot(a, h, x, f, o)
  BY <1>2, <1>3, <1>5 DEF FtGot
<1>6. \A x \in nodes : ~(Ord(x) < Ord(q))
  <2>1. \A x \in nodes : Ord(x) \in 1 .. 4
    BY DEF Ord, Nodes
  <2>2. Ord(q) \in Int
    BY DEF Ord
  <2>3. QED BY <1>3, <2>1, <2>2
<1>7. QED BY <1>1, <1>2, <1>4, <1>5, <1>6 DEF FtDuring

-----------------------------------------------------------------------------
(* A packet is received or lost.                                           *)

LEMMA AlignedReceived ==
    ASSUME NEW nodes \in SUBSET Nodes, ~EndsWithF2(nodes), NEW top, NEW p, Good(With(nodes), top, p),
           NEW a, FtShape(a, nodes), a.readout # {}, NEW h, NEW f,
           FtMoved(With(nodes), a, h, f, FrameOf(p), PartOf(p), OffOf(p)),
           NEW g, NEW r, NEW s, Leads(With(nodes), p, g, r, s)
    PROVE  /\ FtFits(a, p)
           /\ FtShape(FtCompleted(FtTook(a, p), p), nodes)
           /\ FtMoved(With(nodes), FtCompleted(FtTook(a, p), p), h, f, g, r, s)
<1>1. f = FrameOf(p) /\ FtDuring(a, h, FrameOf(p), PartOf(p), OffOf(p))
  BY DEF FtMoved
<1>2. CASE PartOf(p) = "HK"
  BY <1>1, <1>2, HkReceived
<1>3. CASE PartOf(p) # "HK"
  BY <1>1, <1>3, DataReceived
<1>4. QED BY <1>2, <1>3

LEMMA AlignedLost ==
    ASSUME NEW nodes \in SUBSET Nodes, nodes # {}, NEW top, NEW p, Good(With(nodes), top, p),
           Losable(p), NEW a, FtShape(a, nodes), NEW h, NEW f,
           FtMoved(With(nodes), a, h, f, FrameOf(p), PartOf(p), OffOf(p)),
           NEW g, NEW r, NEW s, Leads(With(nodes), p, g, r, s)
    PROVE  FtMoved(With(nodes), a, h \cup {FrameOf(p)}, f, g, r, s)
<1>1. CASE a.readout = {}
  <2>1. FtAfter(a, h, f) /\ Fresh(With(nodes), h, f + 1, FrameOf(p), PartOf(p), OffOf(p))
    BY <1>1 DEF FtMoved
  <2>2. nodes \in SUBSET (Nodes \cup {"FF"})
    OBVIOUS
  <2>3. FtAfter(a, h \cup {FrameOf(p)}, f)
    BY <2>1, AfterLess
  <2>4. Fresh(With(nodes), h \cup {FrameOf(p)}, f + 1, g, r, s)
    BY <2>1, <2>2, FreshLost
  <2>5. QED BY <1>1, <2>3, <2>4 DEF FtMoved
<1>2. CASE a.readout # {}
  <2>1. f = FrameOf(p) /\ FtDuring(a, h, FrameOf(p), PartOf(p), OffOf(p))
    BY <1>2 DEF FtMoved
  <2>2. QED BY <1>2, <2>1, DuringLost DEF FtMoved
<1>3. QED BY <1>1, <1>2

-----------------------------------------------------------------------------
(* A selection that ends with F2: the HK packet ends F2, too.              *)

\* Part q from pixel o is next.  Counts stay within the buffers although the
\* aggregator is for parts of two frames.
MisGot(a, q, o) ==
    /\ \A x \in a.nodes : x # q \/ a.readout = {} => a.n[x] <= N_ELEM
    /\ a.readout # {} =>
         \A x \in a.nodes : /\ x = q => a.n[x] <= o /\ x \in a.readout
                            /\ x # q /\ x \in a.readout => a.n[x] = 0
                            /\ Ord(x) > Ord(q) => x \in a.readout \/ x = "F2"

\* How often the aggregators have returned 1 at most: twice for each frame.
Returns(f, q) == 2 * (f - 1) + (IF q = "F2" THEN 1 ELSE 0)

LEMMA MisNodes ==
    ASSUME NEW nodes \in SUBSET Nodes, EndsWithF2(nodes)
    PROVE  "F2" \in nodes /\ \A x \in nodes : x = "E2" \/ x = "F2"
BY DEF EndsWithF2, Nodes

LEMMA MisLeads ==
    ASSUME NEW nodes \in SUBSET Nodes, EndsWithF2(nodes), NEW top, NEW p, Good(With(nodes), top, p),
           NEW g, NEW r, NEW s, Leads(With(nodes), p, g, r, s)
    PROVE  \/ ~IsEnd(p) /\ g = FrameOf(p) /\ r = PartOf(p) /\ s = OffOf(p) + Len(p.data)
           \/ IsEnd(p) /\ PartOf(p) = "HK" /\ g = FrameOf(p) /\ "E2" \in nodes /\ r = "E2" /\ s = 0
           \/ IsEnd(p) /\ PartOf(p) = "HK" /\ g = FrameOf(p) /\ "E2" \notin nodes /\ r = "F2" /\ s = 0
           \/ IsEnd(p) /\ PartOf(p) = "E2" /\ g = FrameOf(p) /\ r = "F2" /\ s = 0
           \/ IsEnd(p) /\ PartOf(p) = "F2" /\ g = FrameOf(p) + 1 /\ r = "HK" /\ s = 0
<1>1. /\ "F2" \in nodes /\ \A x \in nodes : x = "E2" \/ x = "F2"
      /\ Ord("HK") = 0 /\ Ord("E2") = 1 /\ Ord("F2") = 2
  BY MisNodes DEF Ord
<1>2. PartOf(p) \in {"HK", "E2", "F2"}
  BY <1>1 DEF Good, With
<1>3. CASE ~IsEnd(p)
  BY <1>3 DEF Leads
<1>4. CASE IsEnd(p) /\ PartOf(p) = "HK"
  <2>1. g = FrameOf(p) /\ r \in nodes /\ s = 0 /\ \A y \in nodes : Ord(r) <= Ord(y)
    <3>1. nodes \in SUBSET (Nodes \cup {"FF"}) /\ nodes # {}
      BY <1>1
    <3>2. QED BY <3>1, <1>4, AfterHk
  <2>2. QED BY <1>1, <1>4, <2>1
<1>5. CASE IsEnd(p) /\ PartOf(p) = "E2"
  <2>1. ~Final(With(nodes), "E2")
    <3>1. "F2" \in With(nodes) /\ ~(Ord("F2") <= Ord("E2"))
      BY <1>1 DEF With
    <3>2. QED BY <3>1 DEF Final
  <2>2. g = FrameOf(p) /\ Succ(With(nodes), "E2", r) /\ s = 0
    BY <1>5, <2>1 DEF Leads
  <2>3. r \in With(nodes) /\ Ord(r) > 1
    BY <1>1, <2>2 DEF Succ
  <2>4. r = "F2"
    BY <1>1, <2>3 DEF With
  <2>5. QED BY <1>5, <2>2, <2>4
<1>6. CASE IsEnd(p) /\ PartOf(p) = "F2"
  <2>1. ~Succ(With(nodes), "F2", r)
    BY <1>1 DEF With, Succ
  <2>2. QED BY <1>6, <2>1 DEF Leads
<1>7. QED BY <1>2, <1>3, <1>4, <1>5, <1>6

LEMMA MisReceived ==
    ASSUME NEW nodes \in SUBSET Nodes, EndsWithF2(nodes), NEW top, NEW p, Good(With(nodes), top, p),
           NEW a, FtShape(a, nodes), a.readout # {}, MisGot(a, PartOf(p), OffOf(p)),
           NEW g, NEW r, NEW s, Leads(With(nodes), p, g, r, s)
    PROVE  /\ FtFits(a, p)
           /\ FtShape(FtCompleted(FtTook(a, p), p), nodes)
           /\ MisGot(FtCompleted(FtTook(a, p), p), r, s)
           /\ FtCompleted(FtTook(a, p), p).readout = {} =>
                Returns(FrameOf(p), PartOf(p)) + 1 <= Returns(g, r)
<1> DEFINE q == PartOf(p)
           o == OffOf(p)
           len == Len(p.data)
           b == FtTook(a, p)
           c == FtCompleted(b, p)
<1>1. /\ "F2" \in nodes /\ \A x \in nodes : x = "E2" \/ x = "F2"
      /\ Ord("HK") = 0 /\ Ord("E2") = 1 /\ Ord("F2") = 2
  BY MisNodes DEF Ord
<1>2. /\ a.nodes = nodes /\ a.readout \subseteq nodes /\ a.n \in [Nodes -> Nat]
      /\ \A x \in nodes : x # q => a.n[x] <= N_ELEM
      /\ \A x \in nodes : /\ x = q => a.n[x] <= o /\ x \in a.readout
                          /\ x # q /\ x \in a.readout => a.n[x] = 0
                          /\ Ord(x) > Ord(q) => x \in a.readout \/ x = "F2"
  BY AggregatorFields DEF FtShape, MisGot
<1>3. /\ \/ ~IsEnd(p) /\ g = FrameOf(p) /\ r = q /\ s = o + len
         \/ IsEnd(p) /\ q = "HK" /\ g = FrameOf(p) /\ "E2" \in nodes /\ r = "E2" /\ s = 0
         \/ IsEnd(p) /\ q = "HK" /\ g = FrameOf(p) /\ "E2" \notin nodes /\ r = "F2" /\ s = 0
         \/ IsEnd(p) /\ q = "E2" /\ g = FrameOf(p) /\ r = "F2" /\ s = 0
         \/ IsEnd(p) /\ q = "F2" /\ g = FrameOf(p) + 1 /\ r = "HK" /\ s = 0
      /\ FrameOf(p) \in Int /\ o \in Nat /\ len \in Nat /\ N_ELEM \in Nat
  BY MisLeads, FrameNodesAssumption, FrameSenderAssumption DEF Good
<1>4. CASE q = "HK"
  <2>1. /\ FtFits(a, p) /\ FtShape(c, nodes) /\ SameStore(a, c)
        /\ c.readout = IF IsEnd(p) THEN a.readout \ {"F2"} ELSE a.readout
    <3>1. HkTaken(nodes, a, c, p)
      BY <1>4, HkTakenIs
    <3>2. QED BY <3>1 DEF HkTaken
  <2>2. c.n = a.n /\ c.nodes = nodes
    BY <1>2, <2>1 DEF SameStore
  <2> HIDE DEF q, o, len, c
  <2>3. \A x \in nodes : c.n[x] <= N_ELEM
    BY <1>1, <1>2, <1>4, <2>2
  <2>4. CASE ~IsEnd(p)
    <3>1. MisGot(c, r, s)
      BY <1>1, <1>2, <1>3, <1>4, <2>1, <2>2, <2>3, <2>4 DEF MisGot
    <3>2. QED BY <2>1, <2>4, <3>1 DEF c
  <2>5. CASE IsEnd(p) /\ "E2" \in nodes
    <3>1. r = "E2" /\ s = 0 /\ g = FrameOf(p) /\ "E2" \in c.readout /\ c.readout \subseteq {"E2"}
      BY <1>1, <1>2, <1>3, <1>4, <2>1, <2>5
    <3>2. c.n["E2"] = 0
      BY <1>1, <1>2, <1>4, <2>2, <2>5
    <3>3. MisGot(c, r, s)
      BY <1>1, <2>2, <2>3, <3>1, <3>2 DEF MisGot
    <3>4. QED BY <2>1, <3>1, <3>3 DEF c
  <2>6. CASE IsEnd(p) /\ "E2" \notin nodes
    <3>1. r = "F2" /\ s = 0 /\ g = FrameOf(p) /\ c.readout = {}
      BY <1>1, <1>2, <1>3, <1>4, <2>1, <2>6
    <3>2. MisGot(c, r, s)
      BY <2>2, <2>3, <3>1 DEF MisGot
    <3>3. Returns(FrameOf(p), q) + 1 <= Returns(g, r)
      BY <1>3, <1>4, <3>1 DEF Returns
    <3>4. QED BY <2>1, <3>2, <3>3 DEF c, q
  <2>7. QED BY <2>4, <2>5, <2>6
<1>5. CASE q # "HK"
  <2>1. /\ q \in nodes /\ len >= 1 /\ o + len <= N_ELEM /\ a.n[q] <= o
    BY <1>2, <1>5, PacketOfNode
  <2>2. /\ FtFits(a, p) /\ FtShape(c, nodes)
        /\ Gained(a, b, q, p.data) /\ SameStore(b, c)
        /\ c.readout = IF IsEnd(p) THEN a.readout \ {q} ELSE a.readout
    <3>1. DataTaken(nodes, a, b, c, p)
      BY <1>5, <2>1, DataStored
    <3>2. QED BY <3>1 DEF DataTaken
  <2>3. /\ c.n[q] = a.n[q] + len /\ \A x \in Nodes \ {q} : c.n[x] = a.n[x]
        /\ c.nodes = nodes
    BY <2>2 DEF SameStore, Gained, FtShape
  <2> HIDE DEF q, o, len, b, c
  <2>4. a.n[q] \in Nat /\ c.n[q] <= o + len /\ c.n[q] <= N_ELEM
    BY <1>2, <1>3, <2>1, <2>3
  <2>5. \A x \in nodes : c.n[x] <= N_ELEM
    BY <1>2, <2>3, <2>4
  <2>6. CASE ~IsEnd(p)
    <3>1. MisGot(c, r, s)
      BY <1>1, <1>2, <1>3, <2>2, <2>3, <2>4, <2>5, <2>6 DEF MisGot
    <3>2. QED BY <1>2, <2>2, <2>6, <3>1 DEF b, c
  <2>7. CASE IsEnd(p) /\ q = "E2"
    <3>1. r = "F2" /\ s = 0 /\ g = FrameOf(p) /\ c.readout \subseteq {"F2"}
      BY <1>1, <1>2, <1>3, <2>2, <2>7
    <3>2. "F2" \in c.readout => c.n["F2"] = 0
      BY <1>1, <1>2, <2>2, <2>3, <2>7
    <3>3. c.readout # {} => "F2" \in c.readout
      BY <3>1
    <3>4. \A x \in nodes : x # "F2" => x \notin c.readout /\ ~(Ord(x) > Ord("F2"))
      BY <1>1, <3>1
    <3>5. MisGot(c, r, s)
      BY <2>3, <2>5, <3>1, <3>2, <3>3, <3>4 DEF MisGot
    <3>6. Returns(FrameOf(p), q) + 1 <= Returns(g, r)
      BY <1>3, <2>7, <3>1 DEF Returns
    <3>7. QED BY <2>2, <3>5, <3>6 DEF b, c, q
  <2>8. CASE IsEnd(p) /\ q = "F2"
    <3>1. r = "HK" /\ s = 0 /\ g = FrameOf(p) + 1 /\ c.readout \subseteq {"E2"}
      BY <1>1, <1>2, <1>3, <2>2, <2>8
    <3>2. "E2" \in c.readout => c.n["E2"] = 0
      BY <1>1, <1>2, <2>2, <2>3, <2>8
    <3>3. c.readout # {} => "E2" \in c.readout
      BY <3>1
    <3>4. MisGot(c, r, s)
      BY <1>1, <2>3, <2>5, <3>1, <3>2, <3>3 DEF MisGot
    <3>5. Returns(FrameOf(p), q) + 1 <= Returns(g, r)
      BY <1>3, <2>8, <3>1 DEF Returns
    <3>6. QED BY <2>2, <3>4, <3>5 DEF b, c, q
  <2>9. QED BY <1>1, <2>1, <2>6, <2>7, <2>8
<1>6. QED BY <1>4, <1>5

LEMMA MisLost ==
    ASSUME NEW nodes \in SUBSET Nodes, EndsWithF2(nodes), NEW top, NEW p, Good(With(nodes), top, p),
           Losable(p), NEW a, FtShape(a, nodes), MisGot(a, PartOf(p), OffOf(p)),
           NEW g, NEW r, NEW s, Leads(With(nodes), p, g, r, s)
    PROVE  MisGot(a, r, s)
<1> DEFINE q == PartOf(p)
           o == OffOf(p)
           len == Len(p.data)
<1>1. /\ "F2" \in nodes /\ \A x \in nodes : x = "E2" \/ x = "F2"
      /\ Ord("HK") = 0 /\ Ord("E2") = 1 /\ Ord("F2") = 2
  BY MisNodes DEF Ord
<1>2. a.nodes = nodes /\ a.readout \subseteq nodes /\ a.n \in [Nodes -> Nat]
  BY AggregatorFields DEF FtShape
<1>3. /\ o \in Nat /\ len \in Nat /\ N_ELEM \in Nat
      /\ IsEnd(p) => q = "HK"
  BY LosableEnd, FrameNodesAssumption, FrameSenderAssumption, SMTT(60) DEF Good
<1>4. /\ \/ ~IsEnd(p) /\ r = q /\ s = o + len
         \/ IsEnd(p) /\ q = "HK" /\ "E2" \in nodes /\ r = "E2" /\ s = 0
         \/ IsEnd(p) /\ q = "HK" /\ "E2" \notin nodes /\ r = "F2" /\ s = 0
  BY <1>3, MisLeads
<1>5. MisGot(a, q, o)
  OBVIOUS
<1> HIDE DEF q, o, len
<1>6. CASE ~IsEnd(p)
  BY <1>1, <1>2, <1>3, <1>4, <1>5, <1>6 DEF MisGot
<1>7. CASE IsEnd(p) /\ "E2" \in nodes
  BY <1>1, <1>2, <1>3, <1>4, <1>5, <1>7 DEF MisGot
<1>8. CASE IsEnd(p) /\ "E2" \notin nodes
  <2>1. a.readout # {} => "F2" \in a.readout
    BY <1>1, <1>2, <1>8
  <2>2. QED BY <1>1, <1>2, <1>3, <1>4, <1>5, <1>8, <2>1 DEF MisGot
<1>9. QED BY <1>6, <1>7, <1>8

LEMMA ReturnsGrow ==
    ASSUME NEW nodes \in SUBSET Nodes, EndsWithF2(nodes), NEW top, NEW p, Good(With(nodes), top, p),
           NEW g, NEW r, NEW s, Leads(With(nodes), p, g, r, s)
    PROVE  Returns(FrameOf(p), PartOf(p)) <= Returns(g, r)
<1>1. FrameOf(p) \in Int
  BY DEF Good
<1>2. \/ g = FrameOf(p) /\ r = PartOf(p)
      \/ g = FrameOf(p) /\ PartOf(p) # "F2"
      \/ g = FrameOf(p) + 1
  BY MisLeads
<1>3. QED BY <1>1, <1>2 DEF Returns

-----------------------------------------------------------------------------
(* The aggregator for full frames.                                         *)

FullParts == With({"FF"})

FfShape(a) ==
    /\ a \in FfAggregator
    /\ a.outside = {}
    /\ Len(a.data) = N_ELEM
    /\ Len(a.hk) = HK_LEN

\* What has been received up to pixel o of frame f.
FfGot(a, h, f, o) ==
    /\ a.n <= o
    /\ a.n = o => \A k \in 1 .. o : a.data[k] = [src |-> "FF", frame |-> f, idx |-> k]
    /\ f \notin h => a.n = o

FfDuring(a, h, f, q, o) ==
    IF q = "HK" THEN a.n = 0 ELSE FfGot(a, h, f, o) /\ HkGot(a.hk, h, f)

\* "ret" is what the last call returned.
FfMoved(a, ret, h, f, g, q, o) ==
    IF ret = 1 THEN FfGot(a, h, f, N_ELEM) /\ HkGot(a.hk, h, f) /\ Fresh(FullParts, h, f + 1, g, q, o)
    ELSE g = f /\ FfDuring(a, h, f, q, o)

FfFits(a, p) == IF p.type = "DATA" THEN Fits(a.n, Len(p.data)) ELSE Len(p.data) <= HK_LEN

FfTook(a, p) ==
    IF p.type = "DATA"
    THEN [a EXCEPT !.n = @ + Len(p.data),
                   !.data = Copied(@, a.n, p.data),
                   !.outside = @ \cup (Spread(a.n, p.data) \ DOMAIN a.data)]
    ELSE [a EXCEPT !.hk = Copied(@, 0, p.data)]

FfReturned(p) == IF p.type = "DATA" /\ p.last = 1 THEN 1 ELSE 0

LEMMA FfAggregateTakes ==
    ASSUME NEW p, p.type \in {"DATA", "HK"}, FfAggregate(p), FfFits(ff, p)
    PROVE  ff # NULL /\ ff' = FfTook(ff, p) /\ result' = FfReturned(p) /\ ft' = ft
BY DEF FfAggregate, FfFits, FfTook, FfReturned

LEMMA FfFields ==
    ASSUME NEW a \in FfAggregator
    PROVE  a.n \in Nat /\ a.data \in Data /\ a.hk \in Data /\ a.outside \in SUBSET Nat
BY DEF FfAggregator, Data

\* b is a with d behind what was stored.
FfGained(a, b, d) ==
    /\ b.hk = a.hk
    /\ b.n = a.n + Len(d)
    /\ \A k \in 1 .. a.n : b.data[k] = a.data[k]
    /\ \A k \in 1 .. Len(d) : b.data[a.n + k] = d[k]

LEMMA FfDataTaken ==
    ASSUME NEW a, FfShape(a), NEW p, p.type = "DATA", p.data \in Seq(Pixel),
           a.n + Len(p.data) <= N_ELEM
    PROVE  FfShape(FfTook(a, p)) /\ FfGained(a, FfTook(a, p), p.data)
<1> DEFINE d == p.data
           n == a.n + Len(d)
           data == Copied(a.data, a.n, d)
           outside == a.outside \cup (Spread(a.n, d) \ DOMAIN a.data)
           b == [a EXCEPT !.n = n, !.data = data, !.outside = outside]
<1>1. FfTook(a, p) = b
  BY DEF FfTook
<1>2. /\ a \in FfAggregator /\ a.n \in Nat /\ a.data \in Data /\ a.hk \in Data /\ a.outside = {}
      /\ Len(a.data) = N_ELEM /\ Len(a.hk) = HK_LEN /\ N_ELEM \in Nat
      /\ DOMAIN a.data = 1 .. N_ELEM
      /\ d \in Seq(Pixel) /\ DOMAIN d = 1 .. Len(d) /\ Len(d) \in Nat /\ n \in Nat /\ n <= N_ELEM
  BY FfFields, FrameNodesAssumption DEF FfShape, Data
<1>3. outside = {}
  <2>1. \A i \in 1 .. Len(d) : a.n + i \in 1 .. N_ELEM
    BY <1>2
  <2>2. Spread(a.n, d) \subseteq DOMAIN a.data
    BY <1>2, <2>1 DEF Spread
  <2>3. QED BY <1>2, <2>2
<1>4. /\ data \in Data /\ Len(data) = N_ELEM
      /\ \A i \in 1 .. N_ELEM : i <= a.n \/ i > a.n + Len(d) => data[i] = a.data[i]
      /\ \A k \in 1 .. Len(d) : a.n + k \in 1 .. N_ELEM => data[a.n + k] = d[k]
  <2> HIDE DEF data, d
  <2>1. /\ data \in Data /\ Len(data) = Len(a.data)
        /\ \A i \in 1 .. Len(a.data) : i <= a.n \/ i > a.n + Len(d) => data[i] = a.data[i]
        /\ \A k \in 1 .. Len(d) : a.n + k \in 1 .. Len(a.data) => data[a.n + k] = d[k]
    <3>1. a.data \in Data /\ a.n \in Nat /\ d \in Seq(Pixel)
      BY <1>2
    <3>2. QED BY <3>1, CopiedShape, Zenon DEF data
  <2>2. QED BY <2>1, <1>2
<1> HIDE DEF data, outside, n
<1>5. /\ b.n = n /\ b.data = data /\ b.outside = outside /\ b.hk = a.hk
  BY <1>2 DEF FfAggregator
<1>6. b \in FfAggregator
  BY <1>2, <1>3, <1>4 DEF FfAggregator, Data
<1> HIDE DEF b, d
<1>7. FfShape(b)
  BY <1>2, <1>3, <1>4, <1>5, <1>6 DEF FfShape
<1>8. \A k \in 1 .. a.n : k \in 1 .. N_ELEM /\ k <= a.n
  BY <1>2 DEF n
<1>9. \A k \in 1 .. Len(d) : a.n + k \in 1 .. N_ELEM
  BY <1>2 DEF n
<1>10. FfGained(a, b, d)
  BY <1>4, <1>5, <1>8, <1>9 DEF FfGained, n
<1>11. QED BY <1>1, <1>7, <1>10 DEF d

LEMMA FfHkTaken ==
    ASSUME NEW a, FfShape(a), NEW p, p.type = "HK", p.data \in Seq(Pixel)
    PROVE  LET b == FfTook(a, p)
           IN  /\ FfShape(b) /\ b.n = a.n
               /\ \A k \in 1 .. Len(p.data) : k <= HK_LEN => b.hk[k] = p.data[k]
<1> DEFINE hk == Copied(a.hk, 0, p.data)
           b == [a EXCEPT !.hk = hk]
<1>1. FfTook(a, p) = b
  BY DEF FfTook
<1>2. /\ a \in FfAggregator /\ a.hk \in Data /\ Len(a.hk) = HK_LEN /\ HK_LEN \in Nat
      /\ Len(p.data) \in Nat
  BY FfFields, FrameNodesAssumption DEF FfShape
<1>3. /\ hk \in Data /\ Len(hk) = HK_LEN
      /\ \A k \in 1 .. Len(p.data) : k <= HK_LEN => hk[k] = p.data[k]
  <2>1. /\ hk \in Data /\ Len(hk) = Len(a.hk)
        /\ \A k \in 1 .. Len(p.data) : 0 + k \in 1 .. Len(a.hk) => hk[0 + k] = p.data[k]
    <3>1. 0 \in Nat /\ a.hk \in Data
      BY <1>2
    <3>2. QED BY <3>1, CopiedShape, Zenon
  <2> HIDE DEF hk
  <2>2. \A k \in 1 .. Len(p.data) : 0 + k = k /\ (k <= HK_LEN => k \in 1 .. HK_LEN)
    BY <1>2
  <2>3. QED BY <1>2, <2>1, <2>2
<1> HIDE DEF hk
<1>4. b \in FfAggregator
  BY <1>2, <1>3 DEF FfAggregator, Data
<1>5. b.hk = hk /\ b.n = a.n /\ b.data = a.data /\ b.outside = a.outside
  BY <1>2 DEF FfAggregator
<1> HIDE DEF b
<1>6. FfShape(b)
  BY <1>2, <1>3, <1>4, <1>5 DEF FfShape
<1>7. QED BY <1>1, <1>3, <1>5, <1>6

LEMMA FullLeads ==
    ASSUME NEW top, NEW p, Good(FullParts, top, p),
           NEW g, NEW r, NEW s, Leads(FullParts, p, g, r, s)
    PROVE  \/ ~IsEnd(p) /\ g = FrameOf(p) /\ r = PartOf(p) /\ s = OffOf(p) + Len(p.data)
           \/ IsEnd(p) /\ PartOf(p) = "HK" /\ g = FrameOf(p) /\ r = "FF" /\ s = 0
           \/ IsEnd(p) /\ PartOf(p) = "FF" /\ g = FrameOf(p) + 1 /\ r = "HK" /\ s = 0
<1>1. PartOf(p) \in {"HK", "FF"}
  BY DEF Good, FullParts, With
<1>2. CASE ~IsEnd(p)
  BY <1>2 DEF Leads
<1>3. CASE IsEnd(p) /\ PartOf(p) = "HK"
  <2>1. {"FF"} \in SUBSET (Nodes \cup {"FF"}) /\ {"FF"} # {} /\ Leads(With({"FF"}), p, g, r, s)
    BY DEF FullParts
  <2>2. QED BY <1>3, <2>1, AfterHk
<1>4. CASE IsEnd(p) /\ PartOf(p) = "FF"
  <2>1. ~Succ(FullParts, "FF", r)
    BY DEF FullParts, With, Succ, Ord
  <2>2. QED BY <1>4, <2>1 DEF Leads
<1>5. QED BY <1>1, <1>2, <1>3, <1>4

LEMMA FullReceived ==
    ASSUME NEW top, NEW p, Good(FullParts, top, p), NEW a, FfShape(a), NEW ret, ret # 1,
           NEW h, NEW f, FfMoved(a, ret, h, f, FrameOf(p), PartOf(p), OffOf(p)),
           NEW g, NEW r, NEW s, Leads(FullParts, p, g, r, s)
    PROVE  /\ FfFits(a, p)
           /\ FfShape(FfTook(a, p))
           /\ FfMoved(FfTook(a, p), FfReturned(p), h, f, g, r, s)
<1> DEFINE o == OffOf(p)
           len == Len(p.data)
           b == FfTook(a, p)
<1>1. f = FrameOf(p) /\ FfDuring(a, h, f, PartOf(p), o)
  BY DEF FfMoved
<1>2. a.n \in Nat /\ N_ELEM \in Nat
  BY FfFields, FrameNodesAssumption DEF FfShape
<1>3. CASE PartOf(p) = "HK"
  <2>1. /\ p.type = "HK" /\ p.data \in Seq(Pixel) /\ len \in Nat
        /\ o \in Nat /\ o + len <= HK_LEN /\ (IsEnd(p) <=> o + len = HK_LEN) /\ HK_LEN \in Nat
        /\ \A k \in 1 .. len : p.data[k] = [src |-> "HK", frame |-> FrameOf(p), idx |-> o + k]
        /\ HK_LEN <= DATA_LEN_MAX => o = 0
    BY <1>3, PacketOfHk, FrameNodesAssumption
  <2>2. /\ FfShape(b) /\ b.n = a.n
        /\ \A k \in 1 .. len : k <= HK_LEN => b.hk[k] = p.data[k]
    BY <2>1, FfHkTaken
  <2>3. FfFits(a, p) /\ FfReturned(p) = 0 /\ a.n = 0
    BY <1>1, <1>3, <2>1 DEF FfFits, FfReturned, FfDuring
  <2> HIDE DEF b, o, len
  <2>4. CASE ~IsEnd(p)
    <3>1. g = f /\ r = "HK"
      BY <1>1, <1>3, <2>4, FullLeads
    <3>2. FfMoved(b, 0, h, f, g, r, s)
      BY <2>2, <2>3, <3>1 DEF FfMoved, FfDuring
    <3>3. QED BY <2>2, <2>3, <3>2 DEF b
  <2>5. CASE IsEnd(p)
    <3>1. g = f /\ r = "FF" /\ s = 0
      BY <1>1, <1>3, <2>5, FullLeads
    <3>2. HkGot(b.hk, h, f)
      <4> SUFFICES ASSUME HK_LEN <= DATA_LEN_MAX, NEW k \in 1 .. HK_LEN
                   PROVE  b.hk[k] = [src |-> "HK", frame |-> f, idx |-> k]
        BY DEF HkGot, HkWhole
      <4>1. o = 0 /\ len = HK_LEN
        BY <2>1, <2>5
      <4>2. k \in 1 .. len /\ k <= HK_LEN /\ 0 + k = k
        BY <2>1, <4>1
      <4>3. b.hk[k] = p.data[k]
        BY <2>2, <4>2
      <4>4. p.data[k] = [src |-> "HK", frame |-> FrameOf(p), idx |-> 0 + k]
        BY <2>1, <4>1, <4>2
      <4>5. QED BY <1>1, <4>2, <4>3, <4>4
    <3>3. FfGot(b, h, f, 0)
      BY <2>2, <2>3 DEF FfGot
    <3>4. FfMoved(b, 0, h, f, g, r, s)
      BY <3>1, <3>2, <3>3 DEF FfMoved, FfDuring
    <3>5. QED BY <2>2, <2>3, <3>4 DEF b
  <2>6. QED BY <2>4, <2>5
<1>4. CASE PartOf(p) # "HK"
  <2>1. /\ PartOf(p) = "FF" /\ p.type = "DATA" /\ p.data \in Seq(Pixel) /\ len \in Nat /\ len >= 1
        /\ o \in Nat /\ o + len <= N_ELEM /\ (IsEnd(p) <=> o + len = N_ELEM)
        /\ \A k \in 1 .. len : p.data[k] = [src |-> "FF", frame |-> FrameOf(p), idx |-> o + k]
    BY <1>4, FrameSenderAssumption DEF Good, FullParts, With, PartLen, Packet
  <2>2. FfGot(a, h, f, o) /\ HkGot(a.hk, h, f) /\ a.n <= o
    BY <1>1, <1>4 DEF FfDuring, FfGot
  <2>3. a.n + len <= N_ELEM
    BY <1>2, <2>1, <2>2
  <2>4. FfShape(b) /\ FfGained(a, b, p.data)
    BY <2>1, <2>3, FfDataTaken
  <2>5. FfFits(a, p)
    BY <1>2, <2>1, <2>2 DEF FfFits, Fits
  <2> HIDE DEF b, o, len
  <2>6. b.hk = a.hk /\ b.n = a.n + len
    BY <2>4 DEF FfGained, len
  <2>7. FfGot(b, h, f, o + len)
    <3>1. ASSUME b.n = o + len, NEW k \in 1 .. o + len
          PROVE  b.data[k] = [src |-> "FF", frame |-> f, idx |-> k]
      <4>1. a.n = o
        BY <1>2, <2>1, <2>6, <3>1
      <4>2. CASE k <= o
        <5>1. k \in 1 .. a.n /\ k \in 1 .. o
          BY <2>1, <4>1, <4>2
        <5>2. b.data[k] = a.data[k]
          BY <2>4, <5>1 DEF FfGained
        <5>3. QED BY <2>2, <4>1, <5>1, <5>2 DEF FfGot
      <4>3. CASE k > o
        <5>1. k - o \in 1 .. len /\ o + (k - o) = k
          BY <2>1, <4>3
        <5>2. b.data[a.n + (k - o)] = p.data[k - o]
          BY <2>4, <5>1 DEF FfGained, len
        <5>3. p.data[k - o] = [src |-> "FF", frame |-> FrameOf(p), idx |-> o + (k - o)]
          BY <2>1, <5>1
        <5>4. QED BY <1>1, <4>1, <5>1, <5>2, <5>3
      <4>4. QED BY <2>1, <4>2, <4>3
    <3>2. b.n <= o + len /\ (f \notin h => b.n = o + len)
      BY <1>2, <2>1, <2>2, <2>6 DEF FfGot
    <3>3. QED BY <3>1, <3>2 DEF FfGot
  <2>8. CASE ~IsEnd(p)
    <3>1. g = f /\ r = "FF" /\ s = o + len /\ FfReturned(p) = 0
      BY <1>1, <2>1, <2>8, FullLeads DEF FfReturned, IsEnd, o, len
    <3>2. FfMoved(b, 0, h, f, g, r, s)
      BY <2>2, <2>6, <2>7, <3>1 DEF FfMoved, FfDuring
    <3>3. QED BY <2>4, <2>5, <3>1, <3>2 DEF b
  <2>9. CASE IsEnd(p)
    <3>1. g = f + 1 /\ r = "HK" /\ s = 0 /\ FfReturned(p) = 1
      BY <1>1, <2>1, <2>9, FullLeads DEF FfReturned, IsEnd
    <3>2. Fresh(FullParts, h, f + 1, g, r, s)
      BY <3>1 DEF Fresh, FullParts, With, Ord
    <3>3. FfGot(b, h, f, N_ELEM)
      BY <2>1, <2>7, <2>9
    <3>4. FfMoved(b, 1, h, f, g, r, s)
      BY <2>2, <2>6, <3>2, <3>3 DEF FfMoved
    <3>5. QED BY <2>4, <2>5, <3>1, <3>4 DEF b
  <2>10. QED BY <2>8, <2>9
<1>5. QED BY <1>3, <1>4

LEMMA FullLost ==
    ASSUME NEW top, NEW p, Good(FullParts, top, p), Losable(p), NEW a, FfShape(a), NEW ret,
           NEW h, NEW f, FfMoved(a, ret, h, f, FrameOf(p), PartOf(p), OffOf(p)),
           NEW g, NEW r, NEW s, Leads(FullParts, p, g, r, s)
    PROVE  FfMoved(a, ret, h \cup {FrameOf(p)}, f, g, r, s)
<1> DEFINE o == OffOf(p)
           len == Len(p.data)
           hh == h \cup {FrameOf(p)}
<1>1. a.n \in Nat /\ o \in Nat /\ len \in Nat /\ len >= 1
  BY FfFields, FrameSenderAssumption DEF FfShape, Good
<1>2. CASE ret = 1
  <2>1. /\ FfGot(a, h, f, N_ELEM) /\ HkGot(a.hk, h, f)
        /\ Fresh(FullParts, h, f + 1, FrameOf(p), PartOf(p), o)
    BY <1>2 DEF FfMoved
  <2>2. {"FF"} \in SUBSET (Nodes \cup {"FF"}) /\ {"FF"} # {}
    OBVIOUS
  <2>3. FfGot(a, hh, f, N_ELEM) /\ HkGot(a.hk, hh, f)
    BY <2>1 DEF FfGot, HkGot
  <2>4. Fresh(FullParts, hh, f + 1, g, r, s)
    BY <2>1, <2>2, FreshLost DEF FullParts
  <2>5. QED BY <1>2, <2>3, <2>4 DEF FfMoved
<1>3. CASE ret # 1
  <2>1. f = FrameOf(p) /\ FfDuring(a, h, f, PartOf(p), o)
    BY <1>3 DEF FfMoved
  <2>2. f \in hh /\ HkGot(a.hk, hh, f)
    BY <2>1 DEF HkGot
  <2>3. PartOf(p) \in {"HK", "FF"}
    BY DEF Good, FullParts, With
  <2>4. \/ ~IsEnd(p) /\ g = f /\ r = PartOf(p) /\ s = o + len
        \/ IsEnd(p) /\ PartOf(p) = "HK" /\ g = f /\ r = "FF" /\ s = 0
    BY <2>1, FullLeads, LosableEnd
  <2> HIDE DEF hh, o, len
  <2>5. g = f /\ FfDuring(a, hh, f, r, s)
    <3>1. CASE PartOf(p) = "HK"
      BY <2>1, <2>2, <2>4, <3>1 DEF FfDuring, FfGot
    <3>2. CASE PartOf(p) = "FF"
      <4>1. r = "FF" /\ s = o + len /\ g = f /\ a.n <= o
        BY <2>1, <2>4, <3>2 DEF FfDuring, FfGot
      <4>2. a.n <= s /\ a.n # s
        BY <1>1, <4>1
      <4>3. FfGot(a, hh, f, s)
        BY <2>2, <4>2 DEF FfGot
      <4>4. QED BY <2>2, <4>1, <4>3 DEF FfDuring
    <3>3. QED BY <2>3, <3>1, <3>2
  <2>6. QED BY <1>3, <2>5 DEF FfMoved, hh
<1>4. QED BY <1>2, <1>3

LEMMA FfCreated ==
    ASSUME FfCreate
    PROVE  /\ FfShape(ff') /\ result' = 0 /\ ft' = ft
           /\ \A h, f, g, q, o : Fresh(FullParts, h, f, g, q, o) /\ o \in Nat
                => FfMoved(ff', 0, h, f, g, q, o)
<1> DEFINE a == [n |-> 0, data |-> Blank(N_ELEM), hk |-> Blank(HK_LEN), outside |-> {}]
<1>1. ff' = a /\ result' = 0 /\ ft' = ft
  BY DEF FfCreate
<1>2. N_ELEM \in Nat /\ HK_LEN \in Nat
  BY FrameNodesAssumption
<1>3. \A n \in Nat : Blank(n) \in Seq(Pixel \cup {NoPixel}) /\ Len(Blank(n)) = n
  BY DEF Blank
<1>4. FfShape(a) /\ a.n = 0
  BY <1>2, <1>3 DEF FfShape, FfAggregator
<1> HIDE DEF a
<1>5. ASSUME NEW h, NEW f, NEW g, NEW q, NEW o \in Nat, Fresh(FullParts, h, f, g, q, o)
      PROVE  FfMoved(a, 0, h, f, g, q, o)
  <2>1. g = f /\ (f \notin h => q = "HK" /\ o = 0)
    BY <1>5 DEF Fresh
  <2>2. CASE q = "HK"
    BY <1>4, <2>1, <2>2 DEF FfMoved, FfDuring
  <2>3. CASE q # "HK"
    <3>1. f \in h
      BY <2>1, <2>3
    <3>2. FfGot(a, h, f, o) /\ HkGot(a.hk, h, f)
      BY <1>4, <1>5, <3>1 DEF FfGot, HkGot
    <3>3. QED BY <2>1, <2>3, <3>2 DEF FfMoved, FfDuring
  <2>4. QED BY <2>2, <2>3
<1>6. QED BY <1>1, <1>4, <1>5

-----------------------------------------------------------------------------
(* The front: what the client receives next.                               *)

FrontFrame == IF link = <<>> THEN SenderFrame ELSE FrameOf(link[1])

FrontPart == IF link = <<>> THEN SenderPart ELSE PartOf(link[1])

FrontOff == IF link = <<>> THEN sent ELSE OffOf(link[1])

Front == <<FrontFrame, FrontPart, FrontOff>>

LEMMA FrontPlace ==
    ASSUME SenderOK, Stream
    PROVE  /\ FrontPart \in Playing /\ FrontOff \in Nat /\ FrontFrame \in 1 .. made + 1
           /\ FrontFrame = made + 1 => FrontPart = "HK" /\ FrontOff = 0
           /\ FrontOff <= PartLen(FrontPart)
<1>1. "HK" \in Playing /\ made \in Nat /\ sent \in Nat /\ (todo = <<>> => sent = 0)
      /\ (todo # <<>> => made >= 1 /\ sent <= PartLen(todo[1]))
      /\ 0 <= PartLen("HK")
  BY PlayingParts, PartLenType, FrameSenderAssumption DEF SenderOK
<1>2. todo # <<>> => todo[1] \in Playing
  BY DEF SenderOK, Rest
<1>3. CASE link = <<>>
  BY <1>1, <1>2, <1>3 DEF FrontFrame, FrontPart, FrontOff, SenderFrame, SenderPart
<1>4. CASE link # <<>>
  <2>1. Good(Playing, made, link[1])
    <3>1. link \in Seq(Packet)
      BY DEF Stream
    <3>2. 1 \in 1 .. Len(link)
      BY <3>1, <1>4
    <3>3. QED BY <3>2 DEF Stream
  <2>2. /\ PartOf(link[1]) \in Playing /\ OffOf(link[1]) \in Nat
        /\ FrameOf(link[1]) \in 1 .. made /\ OffOf(link[1]) <= PartLen(PartOf(link[1]))
    BY <2>1, PartLenType, FrameSenderAssumption DEF Good
  <2>3. QED BY <1>1, <1>4, <2>2 DEF FrontFrame, FrontPart, FrontOff
<1>5. QED BY <1>3, <1>4

LEMMA FrontStart ==
    ASSUME SenderOK, Stream, StartFrame PROVE UNCHANGED Front
<1>1. /\ SenderFrame' = SenderFrame /\ SenderPart' = SenderPart /\ sent' = sent /\ link' = link
  BY StartStep
<1>2. QED BY <1>1 DEF Front, FrontFrame, FrontPart, FrontOff

LEMMA FrontSend ==
    ASSUME SenderOK, Stream, Send PROVE UNCHANGED Front
<1>1. PICK len \in Nat, e \in {0, 1} : Sends(len, e)
  BY SendOne
<1> DEFINE p == Cut(todo[1], PartNode(todo[1]), e, frame_cntr, made, sent, len)
<1>2. link' = Append(link, p) /\ PartOf(p) = todo[1] /\ FrameOf(p) = made /\ OffOf(p) = sent
  BY <1>1, SentPacket
<1> HIDE DEF p
<1>3. link \in Seq(Packet) /\ todo # <<>>
  BY <1>1 DEF Stream, Sends
<1>4. link' # <<>> /\ link'[1] = IF link = <<>> THEN p ELSE link[1]
  BY <1>2, <1>3
<1>5. QED BY <1>2, <1>3, <1>4
         DEF Front, FrontFrame, FrontPart, FrontOff, SenderFrame, SenderPart

LEMMA FrontMoves ==
    ASSUME SenderOK, Stream, link # <<>>, link' = Tail(link), UNCHANGED senderVars
    PROVE  /\ Good(Playing, made, link[1]) /\ Head(link) = link[1]
           /\ FrontFrame = FrameOf(link[1]) /\ FrontPart = PartOf(link[1])
           /\ FrontOff = OffOf(link[1])
           /\ Leads(Playing, link[1], FrontFrame', FrontPart', FrontOff')
<1>1. link \in Seq(Packet) /\ Len(link) \in Nat /\ Len(link) >= 1 /\ Head(link) = link[1]
  <2>1. link \in Seq(Packet)
    BY DEF Stream
  <2>2. QED BY <2>1
<1>2. Good(Playing, made, link[1])
  BY <1>1 DEF Stream
<1>3. FrontFrame = FrameOf(link[1]) /\ FrontPart = PartOf(link[1]) /\ FrontOff = OffOf(link[1])
  BY DEF FrontFrame, FrontPart, FrontOff
<1>4. Leads(Playing, link[1], FrontFrame', FrontPart', FrontOff')
  <2>1. CASE Len(link) = 1
    <3>1. link' = <<>>
      BY <1>1, <2>1
    <3>2. SenderFrame' = SenderFrame /\ SenderPart' = SenderPart /\ sent' = sent
      BY DEF senderVars, SenderFrame, SenderPart
    <3>3. Leads(Playing, link[1], SenderFrame, SenderPart, sent)
      BY <2>1 DEF Stream
    <3>4. QED BY <3>1, <3>2, <3>3 DEF FrontFrame, FrontPart, FrontOff
  <2>2. CASE Len(link) # 1
    <3>1. link' \in Seq(Packet) /\ Len(link') = Len(link) - 1
      BY <1>1
    <3>2. \A i \in 1 .. Len(link') : link'[i] = link[i + 1]
      BY <1>1
    <3>3. 1 \in 1 .. Len(link') /\ 1 \in 1 .. Len(link) - 1 /\ link' # <<>>
      <4>1. Len(link) >= 2 /\ Len(link') >= 1
        BY <1>1, <2>2, <3>1
      <4>2. Len(link') \in Nat /\ Len(link) \in Nat
        BY <1>1, <3>1
      <4>3. link' # <<>>
        BY <4>1, SMTT(60)
      <4>4. QED BY <4>1, <4>2, <4>3
    <3>4. link'[1] = link[1 + 1]
      BY <3>2, <3>3
    <3>5. Leads(Playing, link[1], FrameOf(link[1 + 1]), PartOf(link[1 + 1]), OffOf(link[1 + 1]))
      BY <3>3 DEF Stream
    <3>6. QED BY <3>3, <3>4, <3>5 DEF FrontFrame, FrontPart, FrontOff
  <2>3. QED BY <2>1, <2>2
<1>5. QED BY <1>1, <1>2, <1>3, <1>4

LEMMA FrontKept ==
    ASSUME UNCHANGED <<senderVars, link>> PROVE UNCHANGED Front
BY DEF Front, FrontFrame, FrontPart, FrontOff, senderVars, SenderFrame, SenderPart

-----------------------------------------------------------------------------
(* The aggregators of the client.                                          *)

\* The client has the aggregator of its mode, if any.
ModeInv ==
    /\ result \in {0, 1}
    /\ mode = "FT" => ff = NULL
    /\ mode = "FF" => ft = NULL
    /\ ft # NULL => FtShape(ft, node_sel) /\ (result = 1 <=> ft.readout = {})
    /\ ff # NULL => FfShape(ff)

\* What has been received of the frame that the client is waiting for.
AlignedInv ==
    mode = "FT" /\ ~EndsWithF2(node_sel) =>
        IF ft = NULL THEN Fresh(With(node_sel), holed, taken + 1, FrontFrame, FrontPart, FrontOff)
        ELSE FtMoved(With(node_sel), ft, holed, taken + 1, FrontFrame, FrontPart, FrontOff)

FullInv ==
    mode = "FF" =>
        IF ff = NULL THEN Fresh(FullParts, holed, taken + 1, FrontFrame, FrontPart, FrontOff)
        ELSE FfMoved(ff, result, holed, taken + 1, FrontFrame, FrontPart, FrontOff)

\* Frames that the client has used or may use now.
Pending == taken + (IF ~Idle /\ result = 1 THEN 1 ELSE 0)

MisInv ==
    mode = "FT" /\ EndsWithF2(node_sel) =>
        /\ Pending <= Returns(FrontFrame, FrontPart)
        /\ ft # NULL => MisGot(ft, FrontPart, FrontOff)

LostInv == taken \in Nat /\ holed \in SUBSET (1 .. MaxFrames)

AggInv == ModeInv /\ AlignedInv /\ FullInv /\ MisInv /\ LostInv

LEMMA PlayingWith ==
    ASSUME SenderOK
    PROVE  /\ mode = "FT" => Playing = With(node_sel)
           /\ mode = "FF" => Playing = FullParts
           /\ mode = "FT" \/ mode = "FF"
           /\ node_sel \in SUBSET Nodes
BY FrameReadoutAssumption DEF SenderOK, Playing, With, FullParts

LEMMA AggKept ==
    ASSUME AggInv, UNCHANGED <<Front, aggVars, taken, holed, mode, node_sel>> PROVE AggInv'
<1> USE DEF Front, aggVars
<1>1. ModeInv'
  BY DEF AggInv, ModeInv
<1>2. AlignedInv'
  BY DEF AggInv, AlignedInv
<1>3. FullInv'
  BY DEF AggInv, FullInv
<1>4. Pending' = Pending
  BY DEF Pending, Idle
<1>5. MisInv'
  BY <1>4 DEF AggInv, MisInv
<1>6. LostInv'
  BY DEF AggInv, LostInv
<1>7. QED BY <1>1, <1>2, <1>3, <1>5, <1>6 DEF AggInv

LEMMA AggInit0 == Init => AggInv
<1> SUFFICES ASSUME Init PROVE AggInv
  OBVIOUS
<1> USE DEF Init, SenderInit, AggInit
<1>1. FrontFrame = 1 /\ FrontPart = "HK" /\ FrontOff = 0
  BY DEF FrontFrame, FrontPart, FrontOff, SenderFrame, SenderPart
<1>2. \A S, h : Fresh(S, h, 1, FrontFrame, FrontPart, FrontOff) \/ \E y \in S : ~(0 <= Ord(y))
  BY <1>1 DEF Fresh, Ord
<1>3. \A S, h : Fresh(S, h, 1, FrontFrame, FrontPart, FrontOff)
  BY <1>2 DEF Ord
<1>4. Pending = 0 /\ Returns(FrontFrame, FrontPart) = 0
  BY <1>1 DEF Pending, Idle, Returns
<1>5. ModeInv /\ LostInv
  BY DEF ModeInv, LostInv
<1>6. AlignedInv /\ FullInv
  BY <1>3 DEF AlignedInv, FullInv
<1>7. MisInv
  BY <1>4 DEF MisInv
<1>8. QED BY <1>5, <1>6, <1>7 DEF AggInv

LEMMA AggReconfigure ==
    ASSUME SenderOK, Stream, AggInv, Reconfigure PROVE AggInv'
<1>1. /\ ft = NULL /\ ff = NULL /\ ft' = NULL /\ ff' = NULL /\ result' = result
      /\ taken' = made /\ holed' = holed /\ made' = made /\ mode' = mode
      /\ todo = <<>> /\ link = <<>> /\ todo' = <<>> /\ link' = <<>> /\ sent' = sent /\ sent = 0
      /\ made \in Nat
  BY FrameSenderAssumption DEF Reconfigure, Idle, aggVars, SenderOK
<1>2. FrontFrame' = made + 1 /\ FrontPart' = "HK" /\ FrontOff' = 0
  BY <1>1 DEF FrontFrame, FrontPart, FrontOff, SenderFrame, SenderPart
<1>3. \A T \in SUBSET (Nodes \cup {"FF"}) : \A h : Fresh(With(T), h, made + 1, made + 1, "HK", 0)
  BY DEF Fresh, With, Ord
<1>4. ModeInv' /\ LostInv'
  BY <1>1 DEF AggInv, ModeInv, LostInv
<1>5. AlignedInv'
  <2>1. node_sel' \in SUBSET (Nodes \cup {"FF"})
    BY FrameReadoutAssumption DEF Reconfigure
  <2>2. QED BY <1>1, <1>2, <1>3, <2>1 DEF AlignedInv
<1>6. FullInv'
  <2>1. Fresh(With({"FF"}), holed, made + 1, made + 1, "HK", 0)
    BY <1>3
  <2>2. QED BY <1>1, <1>2, <2>1 DEF FullInv, FullParts
<1>7. MisInv'
  <2>1. Pending' = made /\ made <= Returns(made + 1, "HK")
    BY <1>1 DEF Pending, Idle, Returns
  <2>2. QED BY <1>1, <1>2, <2>1 DEF MisInv
<1>8. QED BY <1>4, <1>5, <1>6, <1>7 DEF AggInv

LEMMA AggCreate ==
    ASSUME {} \notin Selections, SenderOK, Stream, AggInv, Create PROVE AggInv'
<1>1. /\ ft = NULL /\ ff = NULL
      /\ UNCHANGED <<mode, node_sel, taken, holed>>
      /\ UNCHANGED Front
      /\ \/ mode = "FT" /\ FtCreate(node_sel)
         \/ mode = "FF" /\ FfCreate
  BY FrontKept DEF Create, Idle, senderVars
<1>2. /\ FrontFrame' = FrontFrame /\ FrontPart' = FrontPart /\ FrontOff' = FrontOff
      /\ FrontOff \in Nat /\ taken \in Nat
  BY <1>1, FrontPlace DEF Front, AggInv, LostInv
<1>3. LostInv'
  BY <1>1 DEF AggInv, LostInv
<1>4. CASE mode = "FT" /\ FtCreate(node_sel)
  <2>1. node_sel \in SUBSET Nodes /\ node_sel # {}
    BY FrameReadoutAssumption DEF SenderOK
  <2>2. /\ FtShape(ft', node_sel) /\ ft'.readout = node_sel /\ result' = 0 /\ ff' = NULL
        /\ \A x \in node_sel : ft'.n[x] = 0
    BY <1>1, <1>4, <2>1, CreatedShape
  <2>3. ft' # NULL
    BY <2>2, FrameAggregatorAssumption DEF FtShape
  <2>4. ModeInv'
    BY <1>1, <1>4, <2>1, <2>2 DEF ModeInv
  <2>5. FullInv'
    BY <1>1, <1>4 DEF FullInv
  <2>6. AlignedInv'
    <3> SUFFICES ASSUME ~EndsWithF2(node_sel)
                 PROVE  FtMoved(With(node_sel), ft', holed, taken + 1,
                                FrontFrame, FrontPart, FrontOff)
      BY <1>1, <1>2, <2>3 DEF AlignedInv
    <3>1. Fresh(With(node_sel), holed, taken + 1, FrontFrame, FrontPart, FrontOff)
      BY <1>1, <1>4 DEF AggInv, AlignedInv
    <3>2. FrontFrame = taken + 1 /\ FtDuring(ft', holed, taken + 1, FrontPart, FrontOff)
      BY <1>2, <2>1, <2>2, <3>1, CreatedDuring
    <3>3. QED BY <2>1, <2>2, <3>2 DEF FtMoved
  <2>7. MisInv'
    <3> SUFFICES ASSUME EndsWithF2(node_sel)
                 PROVE  /\ Pending' <= Returns(FrontFrame, FrontPart)
                        /\ MisGot(ft', FrontPart, FrontOff)
      BY <1>1, <1>2, <2>3 DEF MisInv
    <3>1. Pending' = taken /\ Pending = taken
      BY <1>1, <1>2, <2>2 DEF Pending, Idle
    <3>2. Pending <= Returns(FrontFrame, FrontPart)
      BY <1>4 DEF AggInv, MisInv
    <3>3. ft'.nodes = node_sel /\ N_ELEM \in Nat
      BY <2>2, FrameNodesAssumption DEF FtShape
    <3>4. MisGot(ft', FrontPart, FrontOff)
      BY <1>2, <2>2, <3>3 DEF MisGot
    <3>5. QED BY <3>1, <3>2, <3>4
  <2>8. QED BY <1>3, <2>4, <2>5, <2>6, <2>7 DEF AggInv
<1>5. CASE mode = "FF" /\ FfCreate
  <2>1. /\ FfShape(ff') /\ result' = 0 /\ ft' = NULL
        /\ \A h, f, g, q, o : Fresh(FullParts, h, f, g, q, o) /\ o \in Nat
             => FfMoved(ff', 0, h, f, g, q, o)
    BY <1>1, <1>5, FfCreated
  <2>2. ff' # NULL
    BY <2>1, FrameAggregatorAssumption DEF FfShape
  <2>3. ModeInv'
    BY <1>1, <1>5, <2>1 DEF ModeInv
  <2>4. Fresh(FullParts, holed, taken + 1, FrontFrame, FrontPart, FrontOff)
    BY <1>1, <1>5 DEF AggInv, FullInv
  <2>5. FfMoved(ff', 0, holed, taken + 1, FrontFrame, FrontPart, FrontOff)
    BY <1>2, <2>1, <2>4
  <2>6. FullInv'
    BY <1>1, <1>2, <2>1, <2>2, <2>5 DEF FullInv
  <2>7. AlignedInv' /\ MisInv'
    BY <1>1, <1>5 DEF AlignedInv, MisInv
  <2>8. QED BY <1>3, <2>3, <2>6, <2>7 DEF AggInv
<1>6. QED BY <1>1, <1>4, <1>5

LEMMA AggTake ==
    ASSUME SenderOK, Stream, AggInv, TakeFrame PROVE AggInv'
<1>1. /\ ~Idle /\ result = 1 /\ ft' = NULL /\ ff' = NULL /\ result' = result
      /\ taken' = taken + 1 /\ taken \in Nat
      /\ UNCHANGED <<mode, node_sel, holed>>
      /\ UNCHANGED Front
  BY FrontKept DEF TakeFrame, Destroy, senderVars, AggInv, LostInv
<1>2. FrontFrame' = FrontFrame /\ FrontPart' = FrontPart /\ FrontOff' = FrontOff
  BY <1>1 DEF Front
<1>3. ModeInv' /\ LostInv'
  BY <1>1 DEF AggInv, ModeInv, LostInv
<1>4. AlignedInv'
  <2> SUFFICES ASSUME mode = "FT", ~EndsWithF2(node_sel)
               PROVE  Fresh(With(node_sel), holed, (taken + 1) + 1,
                            FrontFrame, FrontPart, FrontOff)
    BY <1>1, <1>2 DEF AlignedInv
  <2>1. ft # NULL /\ ft.readout = {}
    BY <1>1 DEF Idle, AggInv, ModeInv
  <2>2. QED BY <2>1 DEF AggInv, AlignedInv, FtMoved
<1>5. FullInv'
  <2> SUFFICES ASSUME mode = "FF"
               PROVE  Fresh(FullParts, holed, (taken + 1) + 1, FrontFrame, FrontPart, FrontOff)
    BY <1>1, <1>2 DEF FullInv
  <2>1. ff # NULL
    BY <1>1 DEF Idle, AggInv, ModeInv
  <2>2. QED BY <1>1, <2>1 DEF AggInv, FullInv, FfMoved
<1>6. MisInv'
  <2>1. Pending' = Pending
    BY <1>1 DEF Pending, Idle
  <2>2. QED BY <1>1, <1>2, <2>1 DEF AggInv, MisInv
<1>7. QED BY <1>3, <1>4, <1>5, <1>6 DEF AggInv

LEMMA AggLose ==
    ASSUME {} \notin Selections, "last" \notin Loss, SenderOK, Stream, AggInv, LosePacket
    PROVE  AggInv'
<1> DEFINE p == link[1]
           h == holed \cup {FrameOf(p)}
<1>1. /\ link # <<>> /\ link' = Tail(link) /\ UNCHANGED senderVars
      /\ UNCHANGED <<mode, node_sel, ft, ff, result, taken>>
  BY DEF LosePacket, senderVars, aggVars
<1>2. /\ Good(Playing, made, p) /\ Head(link) = p
      /\ FrontFrame = FrameOf(p) /\ FrontPart = PartOf(p) /\ FrontOff = OffOf(p)
      /\ Leads(Playing, p, FrontFrame', FrontPart', FrontOff')
  BY <1>1, FrontMoves
<1>3. holed' = h
  BY <1>2 DEF LosePacket
<1>4. Losable(p)
  <2>1. (IF p.type = "DATA" /\ p.last = 1 THEN "last" ELSE "inner") \in Loss
    BY <1>2 DEF LosePacket
  <2>2. QED BY <2>1 DEF Losable, IsEnd
<1>5. /\ mode = "FT" => Playing = With(node_sel)
      /\ mode = "FF" => Playing = FullParts
      /\ node_sel \in SUBSET Nodes /\ node_sel # {}
  BY PlayingWith DEF SenderOK
<1> HIDE DEF p
<1>6. ModeInv'
  BY <1>1 DEF AggInv, ModeInv
<1>7. LostInv'
  <2>1. FrameOf(p) \in 1 .. made /\ made \in 0 .. MaxFrames /\ MaxFrames \in Nat
    BY <1>2, FrameSenderAssumption DEF Good, SenderOK
  <2>2. FrameOf(p) \in 1 .. MaxFrames
    BY <2>1
  <2>3. QED BY <1>1, <1>3, <2>2 DEF AggInv, LostInv
<1> HIDE DEF h
<1>8. AlignedInv'
  <2> SUFFICES ASSUME mode = "FT", ~EndsWithF2(node_sel)
               PROVE  IF ft = NULL
                      THEN Fresh(With(node_sel), h, taken + 1, FrontFrame', FrontPart', FrontOff')
                      ELSE FtMoved(With(node_sel), ft, h, taken + 1,
                                   FrontFrame', FrontPart', FrontOff')
    BY <1>1, <1>3 DEF AlignedInv
  <2>1. /\ Good(With(node_sel), made, p)
        /\ Leads(With(node_sel), p, FrontFrame', FrontPart', FrontOff')
    BY <1>2, <1>5
  <2>2. CASE ft = NULL
    <3>1. Fresh(With(node_sel), holed, taken + 1, FrameOf(p), PartOf(p), OffOf(p))
      BY <1>2, <2>2 DEF AggInv, AlignedInv
    <3>2. node_sel \in SUBSET (Nodes \cup {"FF"}) /\ node_sel # {}
      BY <1>5
    <3>3. QED BY <1>4, <2>1, <2>2, <3>1, <3>2, FreshLost DEF h
  <2>3. CASE ft # NULL
    <3>1. FtMoved(With(node_sel), ft, holed, taken + 1, FrameOf(p), PartOf(p), OffOf(p))
      BY <1>2, <2>3 DEF AggInv, AlignedInv
    <3>2. FtShape(ft, node_sel)
      BY <2>3 DEF AggInv, ModeInv
    <3>3. QED BY <1>4, <1>5, <2>1, <2>3, <3>1, <3>2, AlignedLost DEF h
  <2>4. QED BY <2>2, <2>3
<1>9. FullInv'
  <2> SUFFICES ASSUME mode = "FF"
               PROVE  IF ff = NULL
                      THEN Fresh(FullParts, h, taken + 1, FrontFrame', FrontPart', FrontOff')
                      ELSE FfMoved(ff, result, h, taken + 1, FrontFrame', FrontPart', FrontOff')
    BY <1>1, <1>3 DEF FullInv
  <2>1. Good(FullParts, made, p) /\ Leads(FullParts, p, FrontFrame', FrontPart', FrontOff')
    BY <1>2, <1>5
  <2>2. CASE ff = NULL
    <3>1. Fresh(FullParts, holed, taken + 1, FrameOf(p), PartOf(p), OffOf(p))
      BY <1>2, <2>2 DEF AggInv, FullInv
    <3>2. {"FF"} \in SUBSET (Nodes \cup {"FF"}) /\ {"FF"} # {}
      OBVIOUS
    <3>3. QED BY <1>4, <2>1, <2>2, <3>1, <3>2, FreshLost DEF h, FullParts
  <2>3. CASE ff # NULL
    <3>1. FfMoved(ff, result, holed, taken + 1, FrameOf(p), PartOf(p), OffOf(p))
      BY <1>2, <2>3 DEF AggInv, FullInv
    <3>2. FfShape(ff)
      BY <2>3 DEF AggInv, ModeInv
    <3>3. QED BY <1>4, <2>1, <2>3, <3>1, <3>2, FullLost DEF h
  <2>4. QED BY <2>2, <2>3
<1>10. MisInv'
  <2> SUFFICES ASSUME mode = "FT", EndsWithF2(node_sel)
               PROVE  /\ Pending <= Returns(FrontFrame', FrontPart')
                      /\ ft # NULL => MisGot(ft, FrontPart', FrontOff')
    <3>1. Pending' = Pending
      BY <1>1 DEF Pending, Idle
    <3>2. QED BY <1>1, <3>1 DEF MisInv
  <2>1. /\ Good(With(node_sel), made, p)
        /\ Leads(With(node_sel), p, FrontFrame', FrontPart', FrontOff')
    BY <1>2, <1>5
  <2>2. /\ Pending <= Returns(FrameOf(p), PartOf(p))
        /\ ft # NULL => MisGot(ft, PartOf(p), OffOf(p)) /\ FtShape(ft, node_sel)
    BY <1>2 DEF AggInv, MisInv, ModeInv
  <2>3. Returns(FrameOf(p), PartOf(p)) <= Returns(FrontFrame', FrontPart')
    BY <1>5, <2>1, ReturnsGrow
  <2>4. ft # NULL => MisGot(ft, FrontPart', FrontOff')
    BY <1>4, <1>5, <2>1, <2>2, MisLost
  <2>5. /\ Pending \in Int /\ Returns(FrameOf(p), PartOf(p)) \in Int
        /\ Returns(FrontFrame', FrontPart') \in Int
    <3>1. FrameOf(p) \in Int
      BY <2>1 DEF Good
    <3>2. FrontFrame' = FrameOf(p) \/ FrontFrame' = FrameOf(p) + 1
      BY <2>1 DEF Leads
    <3>3. taken \in Int
      BY DEF AggInv, LostInv
    <3>4. QED BY <3>1, <3>2, <3>3 DEF Pending, Returns
  <2>6. QED BY <2>2, <2>3, <2>4, <2>5
<1>11. QED BY <1>6, <1>7, <1>8, <1>9, <1>10 DEF AggInv

LEMMA AggReceive ==
    ASSUME SenderOK, Stream, AggInv, Receive PROVE AggInv'
<1> DEFINE p == link[1]
<1>1. /\ link # <<>> /\ link' = Tail(link) /\ UNCHANGED senderVars
      /\ UNCHANGED <<mode, node_sel, taken, holed>> /\ result # 1
  BY DEF Receive, senderVars
<1>2. /\ Good(Playing, made, p) /\ Head(link) = p
      /\ FrontFrame = FrameOf(p) /\ FrontPart = PartOf(p) /\ FrontOff = OffOf(p)
      /\ Leads(Playing, p, FrontFrame', FrontPart', FrontOff')
  BY <1>1, FrontMoves
<1>3. FtAggregate(p) \/ FfAggregate(p)
  BY <1>2 DEF Receive
<1>4. /\ mode = "FT" => Playing = With(node_sel)
      /\ mode = "FF" => Playing = FullParts
      /\ mode = "FT" \/ mode = "FF"
      /\ node_sel \in SUBSET Nodes
  BY PlayingWith
<1>5. taken \in Nat /\ LostInv'
  BY <1>1 DEF AggInv, LostInv
<1>t. p.type \in {"DATA", "HK"}
  BY <1>2 DEF Good, Packet
<1> HIDE DEF p
<1>6. CASE mode = "FT"
  <2> DEFINE c == FtCompleted(FtTook(ft, p), p)
  <2>1. ff = NULL /\ FtAggregate(p) /\ ft # NULL
    BY <1>3, <1>6 DEF AggInv, ModeInv, FtAggregate, FfAggregate
  <2>2. FtShape(ft, node_sel) /\ ft.readout # {}
    BY <1>1, <2>1 DEF AggInv, ModeInv
  <2>3. /\ Good(With(node_sel), made, p)
        /\ Leads(With(node_sel), p, FrontFrame', FrontPart', FrontOff')
    BY <1>2, <1>4, <1>6
  <2>4. ~EndsWithF2(node_sel) =>
          /\ FtFits(ft, p) /\ FtShape(c, node_sel)
          /\ FtMoved(With(node_sel), c, holed, taken + 1, FrontFrame', FrontPart', FrontOff')
    <3> SUFFICES ASSUME ~EndsWithF2(node_sel)
                 PROVE  /\ FtFits(ft, p) /\ FtShape(c, node_sel)
                        /\ FtMoved(With(node_sel), c, holed, taken + 1,
                                   FrontFrame', FrontPart', FrontOff')
      OBVIOUS
    <3>1. FtMoved(With(node_sel), ft, holed, taken + 1, FrameOf(p), PartOf(p), OffOf(p))
      BY <1>2, <1>6, <2>1 DEF AggInv, AlignedInv
    <3>2. QED BY <1>4, <2>2, <2>3, <3>1, AlignedReceived
  <2>5. EndsWithF2(node_sel) =>
          /\ FtFits(ft, p) /\ FtShape(c, node_sel) /\ MisGot(c, FrontPart', FrontOff')
          /\ c.readout = {} => Returns(FrameOf(p), PartOf(p)) + 1
                                 <= Returns(FrontFrame', FrontPart')
          /\ Returns(FrameOf(p), PartOf(p)) <= Returns(FrontFrame', FrontPart')
          /\ Pending <= Returns(FrameOf(p), PartOf(p))
    <3> SUFFICES ASSUME EndsWithF2(node_sel)
                 PROVE  /\ FtFits(ft, p) /\ FtShape(c, node_sel)
                        /\ MisGot(c, FrontPart', FrontOff')
                        /\ c.readout = {} => Returns(FrameOf(p), PartOf(p)) + 1
                                               <= Returns(FrontFrame', FrontPart')
                        /\ Returns(FrameOf(p), PartOf(p)) <= Returns(FrontFrame', FrontPart')
                        /\ Pending <= Returns(FrameOf(p), PartOf(p))
      OBVIOUS
    <3>1. MisGot(ft, PartOf(p), OffOf(p)) /\ Pending <= Returns(FrameOf(p), PartOf(p))
      BY <1>2, <1>6, <2>1 DEF AggInv, MisInv
    <3>2. Returns(FrameOf(p), PartOf(p)) <= Returns(FrontFrame', FrontPart')
      BY <1>4, <2>3, ReturnsGrow
    <3>3. /\ FtFits(ft, p) /\ FtShape(c, node_sel) /\ MisGot(c, FrontPart', FrontOff')
          /\ c.readout = {} => Returns(FrameOf(p), PartOf(p)) + 1
                                 <= Returns(FrontFrame', FrontPart')
      BY <1>4, <2>2, <2>3, <3>1, MisReceived
    <3>4. QED BY <3>1, <3>2, <3>3
  <2> HIDE DEF c
  <2>6. FtFits(ft, p) /\ FtShape(c, node_sel)
    BY <2>4, <2>5
  <2>7. ft' = c /\ result' = FtDone(c) /\ ff' = NULL
    BY <1>t, <2>1, <2>6, FtAggregateTakes DEF c
  <2>8. ft' # NULL
    BY <2>6, <2>7, FrameAggregatorAssumption DEF FtShape
  <2>9. result' \in {0, 1} /\ (result' = 1 <=> c.readout = {})
    BY <2>7 DEF FtDone
  <2>10. ModeInv'
    BY <1>1, <1>6, <2>6, <2>7, <2>9 DEF ModeInv
  <2>11. AlignedInv'
    BY <1>1, <2>4, <2>7, <2>8 DEF AlignedInv
  <2>12. FullInv'
    BY <1>1, <1>6 DEF FullInv
  <2>13. MisInv'
    <3> SUFFICES ASSUME EndsWithF2(node_sel)
                 PROVE  Pending' <= Returns(FrontFrame', FrontPart')
      BY <1>1, <2>5, <2>7 DEF MisInv
    <3>1. Pending = taken /\ Pending' = taken + (IF c.readout = {} THEN 1 ELSE 0)
      BY <1>1, <1>5, <2>8, <2>9 DEF Pending, Idle
    <3>2. /\ Returns(FrameOf(p), PartOf(p)) \in Int /\ Returns(FrontFrame', FrontPart') \in Int
      <4>1. FrameOf(p) \in Int
        BY <2>3 DEF Good
      <4>2. FrontFrame' = FrameOf(p) \/ FrontFrame' = FrameOf(p) + 1
        BY <2>3 DEF Leads
      <4>3. QED BY <4>1, <4>2 DEF Returns
    <3>3. QED BY <1>5, <2>5, <3>1, <3>2
  <2>14. QED BY <1>5, <2>10, <2>11, <2>12, <2>13 DEF AggInv
<1>7. CASE mode = "FF"
  <2>1. ft = NULL /\ FfAggregate(p) /\ ff # NULL
    BY <1>3, <1>7 DEF AggInv, ModeInv, FtAggregate, FfAggregate
  <2>2. FfShape(ff)
    BY <2>1 DEF AggInv, ModeInv
  <2>3. /\ Good(FullParts, made, p)
        /\ Leads(FullParts, p, FrontFrame', FrontPart', FrontOff')
    BY <1>2, <1>4, <1>7
  <2>4. FfMoved(ff, result, holed, taken + 1, FrameOf(p), PartOf(p), OffOf(p))
    BY <1>2, <1>7, <2>1 DEF AggInv, FullInv
  <2>5. /\ FfFits(ff, p) /\ FfShape(FfTook(ff, p))
        /\ FfMoved(FfTook(ff, p), FfReturned(p), holed, taken + 1,
                   FrontFrame', FrontPart', FrontOff')
    BY <1>1, <2>2, <2>3, <2>4, FullReceived
  <2>6. ff' = FfTook(ff, p) /\ result' = FfReturned(p) /\ ft' = NULL
    BY <1>t, <2>1, <2>5, FfAggregateTakes
  <2>7. ff' # NULL /\ result' \in {0, 1}
    BY <2>5, <2>6, FrameAggregatorAssumption DEF FfShape, FfReturned
  <2>8. ModeInv'
    BY <1>1, <1>7, <2>5, <2>6, <2>7 DEF ModeInv
  <2>9. FullInv'
    BY <1>1, <2>5, <2>6, <2>7 DEF FullInv
  <2>10. AlignedInv' /\ MisInv'
    BY <1>1, <1>7 DEF AlignedInv, MisInv
  <2>11. QED BY <1>5, <2>8, <2>9, <2>10 DEF AggInv
<1>8. QED BY <1>4, <1>6, <1>7

\* The invariant, and it is one: "last" packets are not lost.
Inv == SenderOK /\ Stream /\ AggInv

LEMMA AggNext ==
    ASSUME {} \notin Selections, "last" \notin Loss PROVE Inv /\ [Next]_vars => Inv'
<1> SUFFICES ASSUME Inv, [Next]_vars PROVE Inv'
  OBVIOUS
<1>1. SenderOK /\ Stream /\ AggInv
  BY DEF Inv
<1>2. SenderOK' /\ Stream'
  BY <1>1, SenderNext
<1>3. CASE Sender /\ UNCHANGED <<aggVars, taken, holed>>
  <2>1. UNCHANGED Front
    BY <1>1, <1>3, FrontStart, FrontSend DEF Sender
  <2>2. UNCHANGED <<mode, node_sel>>
    <3>1. CASE StartFrame
      BY <3>1 DEF StartFrame
    <3>2. CASE Send
      BY <3>2 DEF Send, SendFull, SendLast, SendPart
    <3>3. QED BY <1>3, <3>1, <3>2 DEF Sender
  <2>3. QED BY <1>1, <1>2, <1>3, <2>1, <2>2, AggKept DEF Inv
<1>4. CASE Reconfigure
  BY <1>1, <1>2, <1>4, AggReconfigure DEF Inv
<1>5. CASE Create
  BY <1>1, <1>2, <1>5, AggCreate DEF Inv
<1>6. CASE Receive
  BY <1>1, <1>2, <1>6, AggReceive DEF Inv
<1>7. CASE TakeFrame
  BY <1>1, <1>2, <1>7, AggTake DEF Inv
<1>8. CASE LosePacket
  BY <1>1, <1>2, <1>8, AggLose DEF Inv
<1>9. CASE UNCHANGED vars
  BY <1>1, <1>2, <1>9, FrontKept, AggKept DEF Inv, vars, senderVars
<1>10. QED BY <1>3, <1>4, <1>5, <1>6, <1>7, <1>8, <1>9 DEF Next

LEMMA InvAlways ==
    ASSUME {} \notin Selections, "last" \notin Loss PROVE Spec => []Inv
<1>1. Init => Inv
  BY InitSender, AggInit0 DEF Inv
<1>2. QED BY <1>1, AggNext, PTL DEF Spec

\* Every variable keeps its type; a client that works like smile_fee_test6 of
\* sdpdev.c is given at most two frames for each one that is read out.
THEOREM TypeCorrect ==
    ASSUME {} \notin Selections, "last" \notin Loss PROVE Spec => []TypeOK
<1>1. Inv => TypeOK
  <2> SUFFICES ASSUME Inv PROVE TypeOK
    OBVIOUS
  <2>1. SenderOK /\ Stream /\ ModeInv /\ AlignedInv /\ FullInv /\ MisInv /\ LostInv
    BY DEF Inv, AggInv
  <2>2. todo \in Seq(Nodes \cup {"HK", "FF"})
    <3>1. todo \in Seq(Playing) /\ Playing \subseteq Parts
      BY <2>1, PlayingParts DEF SenderOK, Rest
    <3>2. \A i \in 1 .. Len(todo) : todo[i] \in Playing
      BY <3>1
    <3>3. todo \in Seq(Parts)
      BY <3>1, <3>2
    <3>4. QED BY <3>3 DEF Parts
  <2>3. sent \in 0 .. PartLen(IF todo = <<>> THEN "HK" ELSE Head(todo))
    <3>1. todo # <<>> => Head(todo) = todo[1]
      BY <2>2
    <3>2. \A q : PartLen(q) \in Nat
      BY PartLenType
    <3>3. sent \in Nat /\ (todo = <<>> => sent = 0) /\ (todo # <<>> => sent <= PartLen(todo[1]))
      BY <2>1 DEF SenderOK
    <3>4. CASE todo = <<>>
      BY <3>2, <3>3, <3>4
    <3>5. CASE todo # <<>>
      BY <3>1, <3>2, <3>3, <3>5
    <3>6. QED BY <3>4, <3>5
  <2>4. taken \in 0 .. 2 * MaxFrames
    <3>1. /\ FrontFrame \in 1 .. made + 1 /\ made \in 0 .. MaxFrames /\ MaxFrames \in Nat
          /\ FrontFrame = made + 1 => FrontPart = "HK"
          /\ taken \in Nat /\ (mode = "FT" \/ mode = "FF")
      BY <2>1, FrontPlace, FrameSenderAssumption DEF SenderOK, LostInv
    <3>2. taken <= Returns(FrontFrame, FrontPart) \/ taken + 1 <= FrontFrame
      <4>1. CASE mode = "FT" /\ EndsWithF2(node_sel)
        <5>1. Pending <= Returns(FrontFrame, FrontPart) /\ taken <= Pending
          BY <2>1, <3>1, <4>1 DEF MisInv, Pending
        <5>2. Returns(FrontFrame, FrontPart) \in Int /\ Pending \in Int
          BY <3>1 DEF Returns, Pending
        <5>3. QED BY <3>1, <5>1, <5>2
      <4>2. CASE mode = "FT" /\ ~EndsWithF2(node_sel)
        <5>1. FrontFrame = taken + 1 \/ FrontFrame = (taken + 1) + 1
          BY <2>1, <4>2 DEF AlignedInv, FtMoved, Fresh
        <5>2. QED BY <3>1, <5>1
      <4>3. CASE mode = "FF"
        <5>1. FrontFrame = taken + 1 \/ FrontFrame = (taken + 1) + 1
          BY <2>1, <4>3 DEF FullInv, FfMoved, Fresh
        <5>2. QED BY <3>1, <5>1
      <4>4. QED BY <3>1, <4>1, <4>2, <4>3
    <3>3. QED BY <3>1, <3>2 DEF Returns
  <2>5. ft \in FtAggregator \cup {NULL} /\ ff \in FfAggregator \cup {NULL} /\ result \in {-1, 0, 1}
    BY <2>1 DEF ModeInv, FtShape, FfShape
  <2>6. QED BY <2>1, <2>2, <2>3, <2>4, <2>5 DEF TypeOK, SenderOK, Stream, LostInv
<1>2. QED BY <1>1, InvAlways, PTL

\* fee_ft_aggregate_assign_data and fee_ff_aggregate compare a signed
\* difference with the size of the buffer, which accepts too much; the packets
\* of the simulator, last ones included, never make use of it.
THEOREM WithinBufferCorrect ==
    ASSUME {} \notin Selections, "last" \notin Loss PROVE Spec => []WithinBuffer
<1>1. Inv => WithinBuffer
  <2> SUFFICES ASSUME Inv PROVE WithinBuffer
    OBVIOUS
  <2>1. SenderOK /\ Stream /\ ModeInv /\ AlignedInv /\ FullInv /\ MisInv
    BY DEF Inv, AggInv
  <2>2. /\ FrontPart \in Playing /\ FrontOff \in Nat /\ FrontOff <= PartLen(FrontPart)
        /\ N_ELEM \in Nat
    BY <2>1, FrontPlace, FrameNodesAssumption
  <2>3. mode = "FT" \/ mode = "FF"
    BY <2>1 DEF SenderOK
  <2>4. ASSUME ft # NULL PROVE ft.outside = {} /\ \A x \in Nodes : ft.n[x] <= N_ELEM
    <3>1. /\ mode = "FT" /\ FtShape(ft, node_sel) /\ ft.nodes = node_sel /\ ft.outside = {}
          /\ \A x \in Nodes \ node_sel : ft.n[x] = 0
          /\ node_sel \subseteq Nodes /\ ft.n \in [Nodes -> Nat]
      BY <2>1, <2>3, <2>4, AggregatorFields, PlayingWith DEF ModeInv, FtShape
    <3>2. \A x \in node_sel : x = FrontPart => FrontOff <= N_ELEM
      <4>1. \A x \in node_sel : PartLen(x) = N_ELEM
        BY <3>1 DEF PartLen, Nodes
      <4>2. QED BY <2>2, <4>1
    <3>3. CASE EndsWithF2(node_sel)
      <4>1. MisGot(ft, FrontPart, FrontOff)
        BY <2>1, <2>4, <3>1, <3>3 DEF MisInv
      <4>2. \A x \in node_sel : ft.n[x] <= N_ELEM
        BY <2>2, <3>1, <3>2, <4>1 DEF MisGot
      <4>3. QED BY <2>2, <3>1, <4>2
    <3>4. CASE ~EndsWithF2(node_sel)
      <4>1. FtMoved(With(node_sel), ft, holed, taken + 1, FrontFrame, FrontPart, FrontOff)
        BY <2>1, <2>4, <3>1, <3>4 DEF AlignedInv
      <4>2. CASE ft.readout = {}
        BY <2>2, <3>1, <4>1, <4>2 DEF FtMoved, FtAfter, FtGot
      <4>3. CASE ft.readout # {}
        <5>1. FtDuring(ft, holed, taken + 1, FrontPart, FrontOff)
          BY <4>1, <4>3 DEF FtMoved
        <5>2. ASSUME NEW x \in node_sel PROVE ft.n[x] <= N_ELEM
          <6>1. Ord(x) < Ord(FrontPart) \/ x = FrontPart \/ Ord(x) > Ord(FrontPart)
            <7>1. x \in Nodes /\ (FrontPart = "HK" \/ FrontPart \in Nodes)
              BY <2>2, <3>1 DEF Playing
            <7>2. \A y \in Nodes : Ord(y) \in 1 .. 4
              BY DEF Ord, Nodes
            <7>3. CASE FrontPart = "HK"
              BY <7>1, <7>2, <7>3 DEF Ord
            <7>4. CASE FrontPart \in Nodes
              BY <7>1, <7>2, <7>4, PartsOrdered
            <7>5. QED BY <7>1, <7>3, <7>4
          <6>2. CASE Ord(x) < Ord(FrontPart)
            BY <3>1, <5>1, <6>2 DEF FtDuring, FtGot
          <6>3. CASE x = FrontPart
            <7>1. ft.n[x] <= FrontOff
              BY <3>1, <5>1, <6>3 DEF FtDuring, FtGot
            <7>2. ft.n[x] \in Nat /\ FrontOff <= N_ELEM
              BY <3>1, <3>2, <6>3
            <7>3. QED BY <2>2, <7>1, <7>2
          <6>4. CASE Ord(x) > Ord(FrontPart)
            BY <2>2, <3>1, <5>1, <6>4 DEF FtDuring
          <6>5. QED BY <6>1, <6>2, <6>3, <6>4
        <5>3. QED BY <2>2, <3>1, <5>2
      <4>4. QED BY <4>2, <4>3
    <3>5. QED BY <3>3, <3>4
  <2>5. ASSUME ff # NULL PROVE ff.outside = {} /\ ff.n <= N_ELEM
    <3>1. mode = "FF" /\ FfShape(ff) /\ ff.outside = {} /\ ff.n \in Nat
      BY <2>1, <2>3, <2>5, FfFields DEF ModeInv, FfShape
    <3>2. FfMoved(ff, result, holed, taken + 1, FrontFrame, FrontPart, FrontOff)
      BY <2>1, <2>5, <3>1 DEF FullInv
    <3>3. FrontPart # "HK" => FrontOff <= N_ELEM
      BY <2>2 DEF PartLen
    <3>4. QED BY <2>2, <3>1, <3>2, <3>3 DEF FfMoved, FfDuring, FfGot
  <2>6. QED BY <2>4, <2>5 DEF WithinBuffer
<1>2. QED BY <1>1, InvAlways, PTL

\* fee_ft_aggregate and fee_ff_aggregate return 1 with the next frame, complete
\* where no packet of it is lost.
THEOREM FrameWholeCorrect ==
    ASSUME {} \notin Selections, "last" \notin Loss PROVE Spec => []FrameWhole
<1>1. Inv => FrameWhole
  <2> SUFFICES ASSUME Inv, result = 1 PROVE
        /\ ft # NULL /\ ~EndsWithF2(ft.nodes) =>
             /\ \A x \in ft.nodes : ft.n[x] = N_ELEM => FtWhole(x, taken + 1)
             /\ taken + 1 \notin holed =>
                  /\ \A x \in ft.nodes : ft.n[x] = N_ELEM
                  /\ HK_LEN <= DATA_LEN_MAX => HkWhole(ft.hk, taken + 1)
        /\ ff # NULL =>
             /\ ff.n = N_ELEM => FfWhole(taken + 1)
             /\ taken + 1 \notin holed =>
                  /\ ff.n = N_ELEM
                  /\ HK_LEN <= DATA_LEN_MAX => HkWhole(ff.hk, taken + 1)
    BY DEF FrameWhole
  <2>1. SenderOK /\ ModeInv /\ AlignedInv /\ FullInv
    BY DEF Inv, AggInv
  <2>2. mode = "FT" \/ mode = "FF"
    BY <2>1 DEF SenderOK
  <2>3. ft # NULL /\ ~EndsWithF2(ft.nodes) => FtAfter(ft, holed, taken + 1)
    BY <2>1, <2>2 DEF ModeInv, AlignedInv, FtMoved, FtShape
  <2>4. ff # NULL => FfGot(ff, holed, taken + 1, N_ELEM) /\ HkGot(ff.hk, holed, taken + 1)
    BY <2>1, <2>2 DEF ModeInv, FullInv, FfMoved
  <2>5. FtAfter(ft, holed, taken + 1) =>
          /\ \A x \in ft.nodes : ft.n[x] = N_ELEM => FtWhole(x, taken + 1)
          /\ taken + 1 \notin holed =>
               /\ \A x \in ft.nodes : ft.n[x] = N_ELEM
               /\ HK_LEN <= DATA_LEN_MAX => HkWhole(ft.hk, taken + 1)
    BY DEF FtAfter, FtGot, HkGot, FtWhole, Stored
  <2>6. FfGot(ff, holed, taken + 1, N_ELEM) /\ HkGot(ff.hk, holed, taken + 1) =>
          /\ ff.n = N_ELEM => FfWhole(taken + 1)
          /\ taken + 1 \notin holed =>
               /\ ff.n = N_ELEM
               /\ HK_LEN <= DATA_LEN_MAX => HkWhole(ff.hk, taken + 1)
    BY DEF FfGot, HkGot, FfWhole
  <2>7. QED BY <2>3, <2>4, <2>5, <2>6
<1>2. QED BY <1>1, InvAlways, PTL
=============================================================================
