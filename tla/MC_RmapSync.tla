---------------------------- MODULE MC_RmapSync ----------------------------
EXTENDS RmapSync, TLC

\* Registers and values are only compared: they may be permuted.
Symmetry == Permutations(Regs) \cup Permutations(Vals)
=============================================================================
