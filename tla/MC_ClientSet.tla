---- MODULE MC_ClientSet ----
EXTENDS ClientSet, TLC
====
