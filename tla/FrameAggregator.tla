-------------------------- MODULE FrameAggregator --------------------------
(***************************************************************************)
(* The frame aggregators of FEE/smile_fee.c, which put the packets of a    *)
(* frame back together: fee_ft_aggregate for frame transfer mode, with a   *)
(* buffer for each readout node, and fee_ff_aggregate for full frames.     *)
(***************************************************************************)
EXTENDS FrameNodes

CONSTANT NULL

VARIABLES
    ft,     \* the frame transfer aggregator, or NULL
    ff,     \* the full frame aggregator, or NULL
    result  \* what the last call on them returned

aggVars == <<ft, ff, result>>

Blank(n) == [i \in 1 .. n |-> NoPixel]

\* "nodes" are the nodes with a buffer, the other pointers are NULL; "outside"
\* are the places copied to where no buffer is.
FtAggregator ==
    [readout : SUBSET Nodes, nodes : SUBSET Nodes, n : [Nodes -> Nat],
     data : Seq(Pixel \cup {NoPixel}), hk : Seq(Pixel \cup {NoPixel}),
     outside : SUBSET Nat]

FfAggregator ==
    [n : Nat, data : Seq(Pixel \cup {NoPixel}), hk : Seq(Pixel \cup {NoPixel}),
     outside : SUBSET Nat]

ASSUME FrameAggregatorAssumption == NULL \notin FtAggregator \cup FfAggregator

AggInit == ft = NULL /\ ff = NULL /\ result = 0

\* fee_ft_aggregator_create, with the readout register of the mirror.
FtCreate(sel) ==
    /\ ft' = [readout |-> sel, nodes |-> sel, n |-> [x \in Nodes |-> 0],
              data |-> Blank(N_ELEM * Cardinality(sel)), hk |-> Blank(HK_LEN),
              outside |-> {}]
    /\ result' = 0
    /\ UNCHANGED ff

FfCreate ==
    /\ ff' = [n |-> 0, data |-> Blank(N_ELEM), hk |-> Blank(HK_LEN), outside |-> {}]
    /\ result' = 0
    /\ UNCHANGED ft

\* Where the buffer of a node begins in the one block that holds them all.
Offset(nodes, x) == N_ELEM * Cardinality({y \in nodes : Before(y, x)})

\* memcpy of d to the elements of buf after the first off.
Copied(buf, off, d) ==
    [i \in DOMAIN buf |-> IF i - off \in DOMAIN d THEN d[i - off] ELSE buf[i]]

Spread(off, d) == {off + i : i \in DOMAIN d}

\* The test before data is stored; both sides are signed.
Fits(n, len) == n - len < N_ELEM

\* fee_ft_aggregate_assign_data: the data go behind what the node has.
FtStored(a, x, d) ==
    IF x \notin a.nodes THEN [a EXCEPT !.n[x] = @ + Len(d), !.outside = @ \cup Spread(a.n[x], d)]
    ELSE LET off == Offset(a.nodes, x) + a.n[x]
         IN [a EXCEPT !.n[x] = @ + Len(d),
                      !.data = Copied(@, off, d),
                      !.outside = @ \cup (Spread(off, d) \ DOMAIN a.data)]

MutFtCompletedByAny(a, p) ==
    IF p.last = 1 THEN [a EXCEPT !.readout = {}] ELSE a

\* fee_ft_frame_complete: a last packet marker clears the bit of its node,
\* whatever the type of the packet.
FtCompleted(a, p) ==
    IF p.last = 1 THEN [a EXCEPT !.readout = @ \ {p.node}] ELSE a

FtDone(a) == IF a.readout = {} THEN 1 ELSE 0

\* fee_ft_aggregate: of events and of the mask nothing is kept but their last
\* packet marker; a packet of any other type is an error.
FtAggregate(p) ==
    /\ ft # NULL
    /\ LET fits == CASE p.type = "DATA" -> Fits(ft.n[p.node], Len(p.data))
                     [] p.type = "HK"   -> Len(p.data) <= HK_LEN
                     [] OTHER           -> p.type \in {"EV_DET", "WMASK"}
           stored == CASE p.type = "DATA" -> FtStored(ft, p.node, p.data)
                       [] p.type = "HK"   -> [ft EXCEPT !.hk = Copied(@, 0, p.data)]
                       [] OTHER           -> ft
       IN /\ ft' = IF fits THEN FtCompleted(stored, p) ELSE ft
          /\ result' = IF fits THEN FtDone(FtCompleted(stored, p)) ELSE -1
    /\ UNCHANGED ff

\* fee_ff_aggregate: the last packet marker counts in data packets only, and
\* packets of other types are passed over.
FfAggregate(p) ==
    /\ ff # NULL
    /\ LET fits == CASE p.type = "DATA" -> Fits(ff.n, Len(p.data))
                     [] p.type = "HK"   -> Len(p.data) <= HK_LEN
                     [] OTHER           -> TRUE
           stored == CASE p.type = "DATA" ->
                            [ff EXCEPT !.n = @ + Len(p.data),
                                       !.data = Copied(@, ff.n, p.data),
                                       !.outside = @ \cup (Spread(ff.n, p.data) \ DOMAIN ff.data)]
                       [] p.type = "HK" -> [ff EXCEPT !.hk = Copied(@, 0, p.data)]
                       [] OTHER         -> ff
       IN /\ ff' = IF fits THEN stored ELSE ff
          /\ result' = IF ~fits THEN -1 ELSE IF p.type = "DATA" /\ p.last = 1 THEN 1 ELSE 0
    /\ UNCHANGED ft

\* fee_ft_aggregator_destroy, fee_ff_aggregator_destroy.
Destroy ==
    /\ ft' = NULL
    /\ ff' = NULL
    /\ UNCHANGED result
=============================================================================
