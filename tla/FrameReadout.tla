---------------------------- MODULE FrameReadout ----------------------------
(***************************************************************************)
(* The way of a frame from the FEE simulator, over the link, through an    *)
(* aggregator to a client that works like SDPDEV/sdpdev.c: it creates an   *)
(* aggregator, feeds it what it receives until it returns 1, uses the      *)
(* frame and destroys the aggregator.                                      *)
(***************************************************************************)
EXTENDS FrameSender, FrameAggregator

CONSTANTS
    Selections, \* values of readout_node_sel
    Loss        \* packets that may get lost: "inner" and "last" ones

ASSUME FrameReadoutAssumption ==
    /\ Selections \subseteq SUBSET Nodes
    /\ Loss \subseteq {"inner", "last"}

VARIABLES
    taken,      \* history: frames the client has used
    holed       \* history: frames of which a packet is lost

vars == <<senderVars, link, aggVars, taken, holed>>

Init ==
    /\ SenderInit
    /\ node_sel \in Selections
    /\ AggInit
    /\ taken = 0
    /\ holed = {}

Idle == ft = NULL /\ ff = NULL

\* The client changes the readout nodes in mirror and FEE when nothing is
\* under way.  A selection that ends with F2 has returned 1 twice a frame.
Reconfigure ==
    /\ Idle /\ todo = <<>> /\ link = <<>>
    /\ node_sel' \in Selections
    /\ taken' = made
    /\ UNCHANGED <<mode, frame_cntr, made, todo, sent, hdr_node, link, aggVars,
                   holed>>

Create ==
    /\ Idle
    /\ \/ mode = "FT" /\ FtCreate(node_sel)
       \/ mode = "FF" /\ FfCreate
    /\ UNCHANGED <<senderVars, link, taken, holed>>

Receive ==
    /\ link # <<>>
    /\ result # 1
    /\ FtAggregate(Head(link)) \/ FfAggregate(Head(link))
    /\ link' = Tail(link)
    /\ UNCHANGED <<senderVars, taken, holed>>

TakeFrame ==
    /\ ~Idle /\ result = 1
    /\ Destroy
    /\ taken' = taken + 1
    /\ UNCHANGED <<senderVars, link, holed>>

FrameOf(p) == p.data[1].frame

\* A packet is lost; "last" are the packets that end a data part.
LosePacket ==
    /\ link # <<>>
    /\ LET p == Head(link)
       IN (IF p.type = "DATA" /\ p.last = 1 THEN "last" ELSE "inner") \in Loss
    /\ holed' = holed \cup {FrameOf(Head(link))}
    /\ link' = Tail(link)
    /\ UNCHANGED <<senderVars, aggVars, taken>>

Sender == StartFrame \/ Send

Next ==
    \/ Sender /\ UNCHANGED <<aggVars, taken, holed>>
    \/ Reconfigure
    \/ Create
    \/ Receive
    \/ TakeFrame
    \/ LosePacket

Spec == Init /\ [][Next]_vars

\* The simulator sends as long as it has a frame, and the client's loop polls.
FairSpec ==
    /\ Spec
    /\ WF_vars(Sender /\ UNCHANGED <<aggVars, taken, holed>>)
    /\ WF_vars(Create)
    /\ WF_vars(Receive)
    /\ WF_vars(TakeFrame)

-----------------------------------------------------------------------------
(* Properties.                                                             *)

\* Every variable keeps its type.
TypeOK ==
    /\ mode \in {"FT", "FF"}
    /\ node_sel \in Selections
    /\ frame_cntr \in FrameNumber
    /\ made \in 0 .. MaxFrames
    /\ todo \in Seq(Nodes \cup {"HK", "FF"})
    /\ sent \in 0 .. PartLen(IF todo = <<>> THEN "HK" ELSE Head(todo))
    /\ hdr_node \in Nodes
    /\ link \in Seq(Packet) /\ Len(link) <= LinkSize
    /\ ft \in FtAggregator \cup {NULL}
    /\ ff \in FfAggregator \cup {NULL}
    /\ result \in {-1, 0, 1}
    /\ taken \in 0 .. 2 * MaxFrames
    /\ holed \in SUBSET (1 .. MaxFrames)

\* No aggregator stores more than its buffer holds, or into the buffer of a
\* node that is not read out, as long as the link loses no packet that ends a
\* part: each part then stays within its total, and the tests for room, which
\* subtract where they should add (smile_fee.c:584), are not what keeps it so.
WithinBuffer ==
    /\ ft # NULL => ft.outside = {} /\ \A x \in Nodes : ft.n[x] <= N_ELEM
    /\ ff # NULL => ff.outside = {} /\ ff.n <= N_ELEM

\* F2 shares its side and CCD id with the cleared header of the HK packet.
EndsWithF2(nodes) == "F2" \in nodes /\ nodes \cap {"E4", "F4"} = {}

FtWhole(x, f) ==
    \A k \in 1 .. N_ELEM :
        ft.data[Offset(ft.nodes, x) + k] = [src |-> x, frame |-> f, idx |-> k]

FfWhole(f) ==
    \A k \in 1 .. N_ELEM : ff.data[k] = [src |-> "FF", frame |-> f, idx |-> k]

HkWhole(hk, f) ==
    \A k \in 1 .. HK_LEN : hk[k] = [src |-> "HK", frame |-> f, idx |-> k]

\* When an aggregator returns 1 it holds the next frame of the FEE, and no
\* other: what is counted as stored for a node is complete, in order and in
\* the buffer of that node.  Where a packet was lost the count says so.
FrameWhole ==
    result = 1 =>
        /\ ft # NULL /\ ~EndsWithF2(ft.nodes) =>
            /\ \A x \in ft.nodes : ft.n[x] = N_ELEM => FtWhole(x, taken + 1)
            /\ taken + 1 \notin holed =>
                /\ \A x \in ft.nodes : ft.n[x] = N_ELEM
                /\ HK_LEN <= DATA_LEN_MAX => HkWhole(ft.hk, taken + 1)
        /\ ff # NULL =>
            /\ ff.n = N_ELEM => FfWhole(taken + 1)
            /\ taken + 1 \notin holed =>
                /\ ff.n = N_ELEM
                /\ HK_LEN <= DATA_LEN_MAX => HkWhole(ff.hk, taken + 1)

\* The same for every selection of nodes: when an aggregator for frame
\* transfer mode returns 1 and nothing was lost, all nodes are complete.
CompleteIsComplete ==
    result = 1 /\ ft # NULL /\ holed = {} => \A x \in ft.nodes : ft.n[x] = N_ELEM

\* The frame counter in the header tells the packets of one frame from those
\* of the next, also where it wraps around.
SameNumber(i, j) == link[i].frame_cntr = link[j].frame_cntr

SameFrame(i, j) == FrameOf(link[i]) = FrameOf(link[j])

FramesNumbered ==
    mode = "FT" => \A i, j \in DOMAIN link : SameNumber(i, j) <=> SameFrame(i, j)

\* Every frame that the FEE reads out reaches the client, also if packets
\* other than the last ones of a part are lost.
FrameArrives ==
    \A f \in 1 .. MaxFrames : made >= f ~> taken >= f
=============================================================================
