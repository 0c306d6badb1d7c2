---------------------------- MODULE FrameSender ----------------------------
(***************************************************************************)
(* The science data of the FEE simulator, SIM/fee_sim.c: one frame after   *)
(* the other is cut into packets and sent.  Commands are executed by       *)
(* another thread while a frame is under way; the readout registers are    *)
(* read once, when a frame begins.                                         *)
(***************************************************************************)
EXTENDS FrameNodes

CONSTANTS
    DATA_LEN_MAX,   \* payload of a packet, in pixels (data_len_max)
    MaxFrames,      \* bound on the frames read out
    LinkSize        \* packets the link takes before the sender has to wait

ASSUME FrameSenderAssumption ==
    /\ DATA_LEN_MAX \in Nat \ {0}
    /\ MaxFrames \in Nat
    /\ LinkSize \in Nat \ {0}

VARIABLES
    mode,           \* ccd_mode_config: "FT" frame transfer, "FF" full frame
    node_sel,       \* readout_node_sel, as in the registers of the FEE
    frame_cntr,     \* frame_cntr of SIM/fee_sim.c
    made,           \* frames read out, which identifies a frame
    todo,           \* what is left of the frame, the part in progress first
    sent,           \* pixels of that part which have been sent
    hdr_node,       \* CCD side and id in the header of the payload structure
    link            \* packets sent and not received

senderVars == <<mode, node_sel, frame_cntr, made, todo, sent, hdr_node>>

SenderInit ==
    /\ mode \in {"FT", "FF"}
    /\ node_sel \in SUBSET Nodes
    /\ frame_cntr \in {0, 65535}
    /\ made = 0
    /\ todo = <<>>
    /\ sent = 0
    /\ hdr_node = "F2"
    /\ link = <<>>

\* The payload structure is cleared: side F and CCD 2 are zero.
CreatePayload ==
    /\ hdr_node' = "F2"
    /\ sent' = 0

MutTransferNumberWide ==
    /\ mode = "FT"
    /\ CreatePayload
    /\ frame_cntr' = frame_cntr + 1
    /\ todo' = <<"HK">> \o InOrder(node_sel)

MutTransferKeepsNumber ==
    /\ mode = "FT"
    /\ CreatePayload
    /\ frame_cntr' = frame_cntr
    /\ todo' = <<"HK">> \o InOrder(node_sel)

\* fee_sim_frame_transfer: HK, then the nodes that were read out.
FrameTransfer ==
    /\ mode = "FT"
    /\ CreatePayload
    /\ frame_cntr' = (frame_cntr + 1) % 65536
    /\ todo' = <<"HK">> \o InOrder(node_sel)

\* fee_sim_exec_ff_mode: one CCD, both sides interleaved; the counter is not
\* incremented.
FullFrame ==
    /\ mode = "FF"
    /\ CreatePayload
    /\ todo' = <<"HK", "FF">>
    /\ UNCHANGED frame_cntr

\* fee_sim_exec begins a frame.
StartFrame ==
    /\ made < MaxFrames
    /\ todo = <<>>
    /\ FrameTransfer \/ FullFrame
    /\ made' = made + 1
    /\ UNCHANGED <<mode, node_sel, link>>

PartLen(part) == IF part = "HK" THEN HK_LEN ELSE N_ELEM

\* The header field a part sets; HK sets none, and in full frame mode only
\* the CCD id is set: the register selects it, and nothing reads it.
PartNode(part) == IF part \in Nodes THEN part ELSE hdr_node

SendPart(len, last) ==
    LET part == Head(todo) IN
    /\ hdr_node' = PartNode(part)
    /\ link' = Append(link,
                 [type |-> IF part = "HK" THEN "HK" ELSE "DATA",
                  node |-> PartNode(part),
                  last |-> last,
                  frame_cntr |-> frame_cntr,
                  data |-> [i \in 1 .. len |->
                              [src |-> part, frame |-> made, idx |-> sent + i]]])
    /\ UNCHANGED <<mode, node_sel, frame_cntr, made>>

\* The loop of fee_sim_tx_payload_data: a full packet while more is left.
SendFull ==
    /\ todo # <<>>
    /\ Len(link) < LinkSize
    /\ PartLen(Head(todo)) - sent > DATA_LEN_MAX
    /\ SendPart(DATA_LEN_MAX, 0)
    /\ sent' = sent + DATA_LEN_MAX
    /\ UNCHANGED todo

MutSendLastUnmarked ==
    /\ todo # <<>>
    /\ Len(link) < LinkSize
    /\ PartLen(Head(todo)) - sent \in 1 .. DATA_LEN_MAX
    /\ SendPart(PartLen(Head(todo)) - sent, 0)
    /\ sent' = 0
    /\ todo' = Tail(todo)

MutSendLastNoFit ==
    /\ todo # <<>>
    /\ Len(link) < LinkSize
    /\ PartLen(Head(todo)) - sent \in 1 .. DATA_LEN_MAX - 1
    /\ SendPart(PartLen(Head(todo)) - sent, 1)
    /\ sent' = 0
    /\ todo' = Tail(todo)

\* The rest, marked as the last packet of this part.
SendLast ==
    /\ todo # <<>>
    /\ Len(link) < LinkSize
    /\ PartLen(Head(todo)) - sent \in 1 .. DATA_LEN_MAX
    /\ SendPart(PartLen(Head(todo)) - sent, 1)
    /\ sent' = 0
    /\ todo' = Tail(todo)

Send == SendFull \/ SendLast
=============================================================================
