-------------------------- MODULE MC_FrameReadout --------------------------
EXTENDS FrameReadout

\* Every selection of at least one node.
MCSelections == SUBSET Nodes \ {{}}

\* Selections for the runs that look for one behaviour.
MCFewSelections == {{"E2", "F2"}, {"F4"}}
=============================================================================
