---------------------------- MODULE MC_SramSync ----------------------------
EXTENDS SramSync

\* The first word, the second, one that is not aligned and one past the end.
MCAddrs == {START, START + 4, START + 2, STOP + 4}

\* A word, and all there is: two words and the first byte of a third, as the
\* real SRAM ends.
MCSizes == {4, STOP - START}

\* Chunks of a word, and of a word and a half.
MCMtus == {4, 6}
=============================================================================
