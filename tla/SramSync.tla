------------------------------ MODULE SramSync ------------------------------
(***************************************************************************)
(* Transfers between the SRAM of the FEE and its mirror in the DPU:        *)
(* smile_fee_sync_mirror_to_sram and smile_fee_sync_sram_to_mirror of      *)
(* FEE/smile_fee_ctrl.c cut a range into chunks and keep the transaction   *)
(* log filled, smile_fee_write_sram and its variants fill the mirror.      *)
(*                                                                         *)
(* Of the log this module uses what RmapSync shows of it: a queue of       *)
(* copies, carried out in order (MirrorCopies), with a slot for each copy  *)
(* that is not complete and for each command that could not be sent.       *)
(***************************************************************************)
EXTENDS Integers, Sequences, FiniteSets

CONSTANTS
    START,          \* FEE_SRAM_START
    STOP,           \* FEE_SRAM_SIDE_F_STOP, the address of the last word
    TRANS_LOG_SIZE, \* slots of the transaction log
    Addrs,          \* addresses the client passes
    Sizes,          \* sizes, in bytes, the client passes: whole words
    Mtus,           \* maximum transport units
    MaxLeaks        \* bound on the commands that cannot be sent

ASSUME SramSyncAssumption ==
    /\ START \in Nat /\ START % 4 = 0
    /\ STOP \in Nat /\ STOP % 4 = 0 /\ STOP >= START
    /\ TRANS_LOG_SIZE \in Nat
    /\ Addrs \subseteq Nat
    /\ Sizes \subseteq Nat
    /\ \A n \in Sizes : n % 4 = 0
    /\ Mtus \subseteq Nat \ {0}
    /\ MaxLeaks \in Nat

FEE_SRAM_END == STOP + 1
FEE_SRAM_SIZE == FEE_SRAM_END - START

\* The bytes of the SRAM, and of the array that mirrors it.
Bytes == START .. FEE_SRAM_END - 1

Ops == {"write", "read"}

\* A byte names its own address, and the side that wrote it.
Val == Bytes \X {"dpu", "fee"}

VARIABLES
    mirror,     \* smile_fee->sram
    fee,        \* the SRAM of the FEE
    queue,      \* copies under way, oldest first
    leaked,     \* slots of commands that rmap_tx did not take
    phase,      \* the call that runs, "idle" or waiting for the log to drain
    ret,        \* what smile_fee_sync_data returned last in this call
    addr, size, mtu, \* the arguments of the call
    moved,      \* bytes handed to the log (sent, recv)
    left,       \* bytes not yet handed to the log (tx_bytes, rx_bytes)
    owed        \* history: bytes of calls that returned 0

vars == <<mirror, fee, queue, leaked, phase, ret, addr, size, mtu, moved, left,
          owed>>
callVars == <<addr, size, mtu>>
memVars == <<mirror, fee, owed>>

Phases == {"idle", "write", "read", "wait"}

Init ==
    /\ mirror = [b \in Bytes |-> <<b, "dpu">>]
    /\ fee = [b \in Bytes |-> <<b, "fee">>]
    /\ queue = <<>>
    /\ leaked = 0
    /\ phase = "idle"
    /\ ret = 0
    /\ addr = START /\ size = 0 /\ mtu = 0
    /\ moved = 0 /\ left = 0
    /\ owed = {}

Range(a, n) == a .. a + n - 1

\* A copy as the log sees it: "data" is what it carries, of the DPU until the
\* FEE has executed it.
Chunk(op, a, n) ==
    [op |-> op, addr |-> a, len |-> n, done |-> FALSE,
     data |-> IF op = "write" THEN [b \in Bytes \cap Range(a, n) |-> mirror[b]]
              ELSE <<>>]

Over(mem, data) == [b \in Bytes |-> IF b \in DOMAIN data THEN data[b] ELSE mem[b]]

pending == Len(queue) + leaked

-----------------------------------------------------------------------------
(* The FEE and the receive loop of the log.                                *)

Perform(i) ==
    /\ i \in DOMAIN queue
    /\ ~queue[i].done
    /\ \A j \in 1 .. i - 1 : queue[j].done
    /\ LET q == queue[i] IN
       /\ fee' = IF q.op = "write" THEN Over(fee, q.data) ELSE fee
       /\ queue' = [queue EXCEPT ![i].done = TRUE,
                      ![i].data = IF q.op = "read"
                                  THEN [b \in Bytes \cap Range(q.addr, q.len) |-> fee[b]]
                                  ELSE <<>>]
    /\ UNCHANGED <<mirror, leaked, phase, ret, callVars, moved, left, owed>>

\* smile_fee_process_rx: every call of the library begins with it, and the
\* client polls smile_fee_rmap_sync_status between the calls.
ProcessRx ==
    /\ queue # <<>>
    /\ Head(queue).done
    /\ mirror' = Over(mirror, Head(queue).data)
    /\ queue' = Tail(queue)
    /\ UNCHANGED <<fee, leaked, phase, ret, callVars, moved, left, owed>>

-----------------------------------------------------------------------------
(* The transfer calls.                                                     *)

MutAcceptedNoUpperTest(a, n) ==
    /\ a % 4 = 0
    /\ a >= START
    /\ n <= FEE_SRAM_SIZE

\* The tests on the arguments; with others the call returns -1 and no more.
Accepted(a, n) ==
    /\ a % 4 = 0
    /\ a >= START
    /\ a <= FEE_SRAM_END
    /\ n <= FEE_SRAM_SIZE
    /\ a + n <= FEE_SRAM_END + 1

\* The client does not mix directions while copies are under way.
Call(op, a, n, u) ==
    /\ phase = "idle"
    /\ \A i \in DOMAIN queue : queue[i].op = op
    /\ Accepted(a, n)
    /\ phase' = op
    /\ addr' = a /\ size' = n /\ mtu' = u
    /\ moved' = 0 /\ left' = n
    /\ UNCHANGED <<ret, queue, leaked, mirror, fee, owed>>

MutChunkLenWhole == mtu

\* Whole chunks first, then what remains.
ChunkLen == IF left >= mtu THEN mtu ELSE left

\* The call returns: its arguments and variables are gone.
Leave ==
    /\ phase' = "idle"
    /\ addr' = START /\ size' = 0 /\ mtu' = 0
    /\ moved' = 0 /\ left' = 0 /\ ret' = 0

InLoop == phase \in Ops /\ (left >= mtu \/ left > 0)

MutAdvanceKeepsOffset ==
    /\ moved' = moved
    /\ left' = left - ChunkLen

Advance ==
    /\ moved' = moved + ChunkLen
    /\ left' = left - ChunkLen

\* A full chunk that is read is followed by a wait; the return value is looked
\* at, and the position moved on, only after it.
Waits == phase = "read" /\ left >= mtu

\* smile_fee_sync_data returns 0.
SubmitChunk ==
    /\ InLoop
    /\ pending < TRANS_LOG_SIZE
    /\ queue' = Append(queue, Chunk(phase, addr + moved, ChunkLen))
    /\ ret' = 0
    /\ IF Waits
       THEN phase' = "wait" /\ UNCHANGED <<moved, left>>
       ELSE Advance /\ UNCHANGED phase
    /\ UNCHANGED <<leaked, callVars, memVars>>

\* It returns -1: the command could not be sent and its slot stays taken.
SubmitFails ==
    /\ InLoop
    /\ pending < TRANS_LOG_SIZE
    /\ leaked < MaxLeaks
    /\ leaked' = leaked + 1
    /\ IF Waits
       THEN phase' = "wait" /\ ret' = -1 /\ UNCHANGED <<callVars, moved, left>>
       ELSE Leave
    /\ UNCHANGED <<queue, memVars>>

\* It returns 1 as all slots are busy, the caller tries again.
Busy ==
    /\ InLoop
    /\ pending >= TRANS_LOG_SIZE
    /\ ret' = 1
    /\ phase' = IF Waits THEN "wait" ELSE phase
    /\ UNCHANGED <<queue, leaked, callVars, moved, left, memVars>>

MutDrainedEmpty == pending = 0

\* The end of "while (smile_fee_rmap_sync_status() > 3);".
Drained == pending <= 3

Wait ==
    /\ phase = "wait"
    /\ ~Drained
    /\ UNCHANGED vars

\* What follows the loop.
WaitEnd ==
    /\ phase = "wait"
    /\ Drained
    /\ \/ ret < 0 /\ Leave
       \/ /\ ret >= 0
          /\ phase' = "read"
          /\ IF ret = 0 THEN Advance ELSE UNCHANGED <<moved, left>>
          /\ UNCHANGED <<ret, callVars>>
    /\ UNCHANGED <<queue, leaked, memVars>>

Return ==
    /\ phase \in Ops
    /\ left = 0
    /\ ~InLoop
    /\ Leave
    /\ owed' = owed \cup Range(addr, size)
    /\ UNCHANGED <<mirror, fee, queue, leaked>>

-----------------------------------------------------------------------------
(* The accessors of the mirror.                                            *)

Writable(a, n) ==
    /\ a >= START
    /\ a <= FEE_SRAM_END
    /\ n <= FEE_SRAM_SIZE
    /\ a + n <= FEE_SRAM_END

\* "n" bytes are written where the test assumes "tested".
\* What comes to lie behind the array is not modelled.
Store(a, n, tested) ==
    /\ phase = "idle"
    /\ queue = <<>>
    /\ IF Writable(a, tested)
       THEN /\ mirror' = Over(mirror, [b \in Range(a, n) |-> <<b, "dpu">>])
            /\ owed' = owed \ Range(a, n)
       ELSE UNCHANGED <<mirror, owed>>
    /\ UNCHANGED <<fee, queue, leaked, phase, ret, callVars, moved, left>>

\* smile_fee_write_sram, and smile_fee_write_sram_16 of n / 2 elements.
WriteSram(a, n) == Store(a, n, n)

\* smile_fee_write_sram_32 of n / 4 elements, each taken for 2 bytes.
WriteSram32(a, n) == Store(a, n, 2 * (n \div 4))

-----------------------------------------------------------------------------

Client ==
    \E a \in Addrs, n \in Sizes :
        \/ \E op \in Ops, u \in Mtus : Call(op, a, n, u)
        \/ WriteSram(a, n)
        \/ WriteSram32(a, n)

Loop == SubmitChunk \/ Busy \/ Wait \/ WaitEnd \/ Return

Next ==
    \/ Client
    \/ Loop
    \/ SubmitFails
    \/ ProcessRx
    \/ \E i \in DOMAIN queue : Perform(i)

Spec == Init /\ [][Next]_vars

\* The calls poll in their loops, and the FEE answers.  Sending succeeds in
\* the end: each failure ends a call and MaxLeaks bounds them.
FairSpec ==
    /\ Spec
    /\ WF_vars(SubmitChunk)
    /\ WF_vars(WaitEnd)
    /\ WF_vars(Return)
    /\ WF_vars(ProcessRx)
    /\ WF_vars(\E i \in DOMAIN queue : Perform(i))

-----------------------------------------------------------------------------
(* Properties.                                                             *)

\* Every variable keeps its type, except for the bytes a copy carries.
TypeOK ==
    /\ mirror \in [Bytes -> Val]
    /\ fee \in [Bytes -> Val]
    /\ \A i \in DOMAIN queue :
          /\ queue[i].op \in Ops
          /\ queue[i].addr \in Nat /\ queue[i].len \in Nat
          /\ queue[i].done \in BOOLEAN
    /\ leaked \in 0 .. MaxLeaks
    /\ phase \in Phases
    /\ ret \in {-1, 0, 1}
    /\ addr \in Nat /\ size \in Nat /\ mtu \in Mtus \cup {0}
    /\ moved \in Nat /\ left \in Nat
    /\ owed \subseteq Bytes

\* Every chunk lies within the SRAM, for any address and MTU: the FEE is never
\* sent an address outside of it, and neither array is left. Sizes are whole
\* words, as the code's comments ask and its tests (5252-5265) do not: with
\* one that is not, the + 1 of the last test would let a byte too many through.
ChunksInside ==
    \A i \in DOMAIN queue :
        /\ queue[i].addr >= START
        /\ queue[i].addr + queue[i].len <= FEE_SRAM_END

\* When a transfer call has returned 0 and the log has drained, mirror and
\* SRAM agree on all of its range, also after retries on a full log and after
\* other calls that failed halfway.
Transferred ==
    phase = "idle" /\ queue = <<>> => \A b \in owed : mirror[b] = fee[b]

\* A transfer call returns, as long as fewer than four slots are lost to
\* commands that could not be sent and one is left.
CallReturns == phase # "idle" ~> phase = "idle"
=============================================================================
