--------------------------- MODULE MC_FeeSimLoop ---------------------------
EXTENDS FeeSimLoop

Image(bright) ==
    [idx \in 0 .. ROWS * COLS - 1 |->
       LET p == <<Place(idx).row, Place(idx).col>>
       IN  IF p \in DOMAIN bright THEN bright[p] ELSE 1]

\* Three events in the row; one where the mask comes by, with a neighbour just
\* below it and one pixel under the threshold; none, as the edge is bright;
\* two equal neighbours, of which neither is a maximum, and an event.
Three == Image(<<2, 2>> :> 9 @@ <<2, 4>> :> 8 @@ <<2, 6>> :> 9)
AtMask == Image(<<2, 7>> :> 9 @@ <<1, 8>> :> 8 @@ <<2, 10>> :> 4)
Edge == Image(<<0, 0>> :> 9 @@ <<2, 12>> :> 9 @@ <<4, 4>> :> 9)
Twins == Image(<<2, 3>> :> 9 @@ <<2, 4>> :> 9 @@ <<2, 6>> :> 5)

MCScenes == {[E2 |-> Three, F2 |-> AtMask, E4 |-> Twins, F4 |-> Edge]}

\* The code hands F2 and E4 each other's: of the pixels of 5, one is an event
\* of E4 by F2's threshold only.  E2 has a peak of exactly its threshold, 7 + 1.
Thresholds == [E2 |-> 7, F2 |-> 3, E4 |-> 5, F4 |-> 5]

Setting(limit, nodes, digitise_en, wmask_en) ==
    [limit |-> limit, nodes |-> nodes, digitise_en |-> digitise_en,
     wmask_en |-> wmask_en, threshold |-> Thresholds]

\* Limits above, among and below the number of events.
MCSettings == {
    Setting(4, {"E2", "F2"}, TRUE, TRUE),
    Setting(2, {"E2", "F2", "E4"}, FALSE, TRUE),
    Setting(0, {"F2", "F4"}, TRUE, FALSE)}

MCModes == {"FT", "EVSIM", "IMM_ON"}
=============================================================================
