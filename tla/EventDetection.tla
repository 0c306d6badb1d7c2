--------------------------- MODULE EventDetection ---------------------------
(***************************************************************************)
(* Event detection of the FEE simulator, SIM/fee_sim.c 816-1710, on one    *)
(* node's 6x6 binned frame: which pixels are events, which packets one     *)
(* call of fee_sim_detect_events sends, and the wandering mask.            *)
(*                                                                         *)
(* A frame is a function from index to sample, as the uint16_t array of    *)
(* the code; the index of row r, column c is r * COLS + c.                 *)
(***************************************************************************)
EXTENDS Integers, Sequences, FiniteSets, SequencesExt

CONSTANTS
    ROWS,       \* FEE_EDU_FRAME_6x6_ROWS
    COLS,       \* FEE_EDU_FRAME_6x6_COLS
    MaskStep    \* 5: the mask moves by so many columns, then rows

ASSUME EventDetectionAssumption ==
    /\ ROWS \in Nat /\ ROWS >= 5
    /\ COLS \in Nat /\ COLS >= 5
    /\ MaskStep \in Nat \ {0}

Sample == 0 .. 65535

Frame == [0 .. ROWS * COLS - 1 -> Sample]

Place(idx) == [row |-> idx \div COLS, col |-> idx % COLS]

\* The pixels of the two loops: a 5x5 window has to fit around them.
Window == {r * COLS + c : r \in 2 .. ROWS - 3, c \in 2 .. COLS - 3}

\* pkt->pix[]: column by column, from the right one to the left one.
Pix(frame, idx) == [k \in 0 .. 24 |-> frame[idx + ((k % 5) - 2) * COLS + 2 - (k \div 5)]]

\* qsort: at place k the value that fewer than k are below and at least k do not
\* exceed.
Sorted(s) ==
    [k \in DOMAIN s |->
       CHOOSE v \in Range(s) : /\ Cardinality({i \in DOMAIN s : s[i] < v}) < k
                               /\ Cardinality({i \in DOMAIN s : s[i] <= v}) >= k]

\* fee_sim_get_local_background: the median of eleven pixels of the edge.
MedianOf11(s) == Sorted(s)[6]

Background(pix) ==
    MedianOf11(<<pix[0], pix[1], pix[2], pix[3], pix[4], pix[5],
                 pix[9], pix[10], pix[15], pix[20], pix[21]>>)

Ring == {6, 7, 8, 11, 13, 16, 17, 18}

MutIsEvent(frame, idx, threshold) ==
    LET pix == Pix(frame, idx) IN
    /\ frame[idx] >= threshold + Background(pix)
    /\ \A k \in Ring : pix[k] <= frame[idx]

\* fee_sim_check_event_pixel
IsEvent(frame, idx, threshold) ==
    LET pix == Pix(frame, idx) IN
    /\ frame[idx] >= threshold + Background(pix)
    /\ \A k \in Ring : pix[k] < frame[idx]

-----------------------------------------------------------------------------
EvPacket(type, node, idx, last) ==
    [type |-> type, node |-> node, row |-> Place(idx).row, col |-> Place(idx).col,
     last |-> last]

\* The packet that ends a side, and at the end a frame: place 0, 0.
Marker(node) == EvPacket("EV_DET", node, 0, TRUE)

\* How many of a set of pixels the loops come to before one, and the set in
\* the order of the loops.
Rank(pixels, i) == Cardinality({k \in pixels : k < i})

InScanOrder(pixels) ==
    [k \in 1 .. Cardinality(pixels) |-> CHOOSE i \in pixels : Rank(pixels, i) = k - 1]

MutMaskSwapped(events, ev_max, wmask) ==
    [ev   |-> {i \in events : Rank(events, i) < ev_max},
     mask |-> {i \in Window \ events : /\ wmask = <<Place(i).col, Place(i).row>>
                                      /\ Rank(events, i) < ev_max}]

\* What the loops over the window send, given which of its pixels are events:
\* those until ev_max are used up, and the wandering mask where there is none.
Detected(events, ev_max, wmask) ==
    [ev   |-> {i \in events : Rank(events, i) < ev_max},
     mask |-> {i \in Window \ events : /\ wmask = <<Place(i).row, Place(i).col>>
                                      /\ Rank(events, i) < ev_max}]

\* fee_sim_detect_events: the packets sent and the events left for the CCD.
\* "enabled" is event_detection, looked at only if there are events left;
\* wmask is <<>> when edu_wandering_mask_en is off.
DetectEvents(node, events, ev_max, enabled, wmask) ==
    LET found == Detected(events, ev_max, wmask)
        order == InScanOrder(found.ev \cup found.mask)
        pkt(i) == EvPacket(IF i \in found.ev THEN "EV_DET" ELSE "WMASK", node, i, FALSE)
    IN  CASE ev_max = 0             -> [pkts |-> <<Marker(node)>>, left |-> 0]
          [] ev_max > 0 /\ ~enabled -> [pkts |-> <<>>, left |-> 0]
          [] ev_max > 0 /\ enabled  ->
               [pkts |-> [k \in DOMAIN order |-> pkt(order[k])] \o <<Marker(node)>>,
                left |-> ev_max - Cardinality(found.ev)]

MutMoveMask(wmask) ==
    LET col == wmask[2] + MaskStep
        row == wmask[1] + MaskStep
    IN  IF col <= COLS - 2 THEN <<wmask[1], col>> ELSE <<row, 2>>

\* fee_sim_move_wandering_mask; the last positions lie outside of Window when
\* the last column or row that is allowed is a multiple of the step away.
MoveMask(wmask) ==
    LET col == wmask[2] + MaskStep
        row == wmask[1] + MaskStep
    IN  IF col <= COLS - 2 THEN <<wmask[1], col>>
        ELSE IF row <= ROWS - 2 THEN <<row, 2>>
        ELSE <<2, 2>>
=============================================================================
