--------------------------- MODULE MC_GresbBridge ---------------------------
EXTENDS GresbBridge, TLC

MCNoUser == -1
=============================================================================
