----------------------------- MODULE MC_FeeLink -----------------------------
EXTENDS FeeLink

\* REG_21 and a word of the SRAM.
MCExecuteOp == 84
\* glibc rounds a block up to 24 octets or to eight more than a multiple of 16.
MCRoomy == {n \in 1..64 : n <= 20 \/ n % 16 \notin 5..8}
MCRegisterEnd == 4 * 486
MCSramStart == 8388608
Sram == MCSramStart + 260
MCSramEnd == 12 * 1024 * 1024 - 3

Read(addr, n) == [op |-> "read", addr |-> addr, size |-> n, data |-> <<>>]
Write(addr, data) ==
    [op |-> "write", addr |-> addr, size |-> Len(data), data |-> data]
Sync == [op |-> "sync", addr |-> MCExecuteOp, size |-> 0, data |-> <<>>]
Loop == [op |-> "data", addr |-> MCExecuteOp, size |-> 0, data |-> <<>>]

MCInitial == <<1, 2, 3, 255, 5, 6, 7, 8>>
\* As in the procedures: read, set up and sync, trigger and sync, then take
\* the data packets.
MCProcedures ==
    {<<Read(Sram, 4), Write(80, <<240, 1, 255, 4>>), Read(80, 4), Sync,
       Write(MCExecuteOp, <<0, 0, 0, 4>>), Sync, Loop>>}

\* A transfer of two words from the SRAM.
MCReads == {<<Read(Sram, n), Sync>> : n \in {4, 8}}
=============================================================================
