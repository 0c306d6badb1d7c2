----------------------------- MODULE FrameNodes -----------------------------
(***************************************************************************)
(* What the sender of science data (SIM/fee_sim.c) and the frame           *)
(* aggregators (FEE/smile_fee.c) share: the readout nodes of the two CCDs  *)
(* and the packets that carry a frame.                                     *)
(*                                                                         *)
(* A pixel is identified by where and when it was read out; packets and    *)
(* buffers hold sequences of such pixels instead of 16 bit samples.        *)
(***************************************************************************)
EXTENDS Integers, Sequences, FiniteSets

CONSTANTS
    N_ELEM,     \* pixels of one node, or of a full frame
    HK_LEN,     \* length of the housekeeping (HK) data, FEE_HK_PACKET_DATA_LEN
    NoPixel     \* what malloc left in a buffer

ASSUME FrameNodesAssumption == N_ELEM \in Nat /\ HK_LEN \in Nat

Nodes == {"E2", "F2", "E4", "F4"}

\* The order in which nodes are transferred and buffers laid out.
NodeOrder == <<"E2", "F2", "E4", "F4">>

\* The nodes of a selection in that order.
Part(x, nodes) == IF x \in nodes THEN <<x>> ELSE <<>>

InOrder(nodes) ==
    Part("E2", nodes) \o Part("F2", nodes) \o Part("E4", nodes) \o Part("F4", nodes)

Before(x, y) ==
    \E i, j \in DOMAIN NodeOrder : i < j /\ NodeOrder[i] = x /\ NodeOrder[j] = y

\* "src" is a node, "FF" in full frame mode, "HK" for housekeeping data.
Pixel == [src : Nodes \cup {"FF", "HK"}, frame : Nat, idx : Nat]

\* frame_cntr has 16 bits.
FRAME_CNTR_MAX == 65535

FrameNumber == 0 .. FRAME_CNTR_MAX

\* The header fields the aggregators read; side and CCD id name the node.
Packet == [type : {"HK", "DATA"}, node : Nodes, last : {0, 1},
           frame_cntr : FrameNumber, data : Seq(Pixel)]
=============================================================================
