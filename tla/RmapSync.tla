------------------------------ MODULE RmapSync ------------------------------
(***************************************************************************)
(* The transaction log of FEE/smile_fee_rmap.c: how the register mirror    *)
(* of the data processing unit (DPU) is kept in step with the registers of *)
(* the front end electronics (FEE).                                        *)
(*                                                                         *)
(* The library is single-threaded and has no locks; what runs beside it is *)
(* the FEE, which executes the queued commands and answers them, and the   *)
(* SpaceWire link.  A library call is therefore cut where the other side   *)
(* can get in: every turn of the receive loop of smile_fee_process_rx is a *)
(* step, and so is the hand-over to rmap_tx.  "phase" says where the call  *)
(* is.  A call that returns before it has changed anything (data_len not a *)
(* multiple of 4, no free slot in smile_fee_sync) is a stuttering step.    *)
(*                                                                         *)
(* A register, or a block of the SRAM, is a member of Regs: its address in *)
(* the FEE and its place in the mirror have the same name.                 *)
(***************************************************************************)
EXTENDS Integers, Sequences, FiniteSets

CONSTANTS
    Regs,           \* addresses that are mirrored
    Vals,           \* what a register may hold
    NoData,         \* payload of a packet that has none
    NULL,           \* the null pointer, and the call while none runs
    TRANS_LOG_SIZE, \* slots of the log (64 in the code)
    Faults,         \* what may go wrong, a subset of FaultKinds
    Patient,        \* the client leaves a register alone while it is transferred
    MaxInFlight     \* bound on the packets on the link: limits ResetLog only

FaultKinds == {"gen", "tx", "abort", "corrupt", "loss", "reject", "reset"}

ASSUME RmapSyncAssumption ==
    /\ TRANS_LOG_SIZE \in Nat \ {0}
    /\ NoData \notin Vals
    /\ NULL \notin Regs
    /\ NULL \notin 0 .. TRANS_LOG_SIZE - 1
    /\ Faults \subseteq FaultKinds
    /\ Patient \in BOOLEAN
    /\ MaxInFlight \in Nat

Slots == 0 .. TRANS_LOG_SIZE - 1
Ops == {"read", "write"}

VARIABLES
    mirror,     \* the DPU's copy of the registers
    fee,        \* the registers themselves
    in_use,     \* trans_log.in_use
    local_addr, \* trans_log.local_addr
    pending,    \* trans_log.pending
    phase,      \* where the running library call is, "idle" between calls
    call,       \* the transfer the running call is to submit
    cmds,       \* commands on their way to the FEE, oldest first
    replies,    \* replies on their way to the DPU, oldest first
    claim,      \* history: what the client was last told about a register
    stale       \* history: the log was reset with packets under way

vars == <<mirror, fee, in_use, local_addr, pending, phase, call,
          cmds, replies, claim, stale>>
logVars == <<in_use, local_addr, pending>>
linkVars == <<cmds, replies>>

Phases == {"idle", "drain", "grab", "rx", "tx", "poll"}
Call == [op : Ops, reg : Regs, slot : Slots \cup {NULL}]
\* "reg" of a packet is the remote address of the command; a reply does not
\* carry it, and nothing but the properties reads it there.
Packet == [tr_id : Slots, reg : Regs, op : Ops, data : Vals \cup {NoData}]
Command == {c \in Packet : c.op = "write" => c.data \in Vals}

Init ==
    /\ \E v \in Vals : mirror = [r \in Regs |-> v]
    /\ fee \in [Regs -> Vals]
    /\ in_use = [s \in Slots |-> FALSE]
    /\ local_addr = [s \in Slots |-> NULL]
    /\ pending = 0
    /\ phase = "idle"
    /\ call = NULL
    /\ cmds = <<>>
    /\ replies = <<>>
    /\ claim = [r \in Regs |-> "none"]
    /\ stale = FALSE

-----------------------------------------------------------------------------
(* The transaction log.                                                    *)

FreeSlots == {s \in Slots : ~in_use[s]}

FirstFree(s) == s \in FreeSlots /\ \A t \in FreeSlots : s <= t

MutGrabAnySlot(s, r) ==
    /\ s = 0
    /\ in_use' = [in_use EXCEPT ![s] = TRUE]
    /\ local_addr' = [local_addr EXCEPT ![s] = r]
    /\ pending' = pending + 1

GrabSlot(s, r) ==
    /\ FirstFree(s)
    /\ in_use' = [in_use EXCEPT ![s] = TRUE]
    /\ local_addr' = [local_addr EXCEPT ![s] = r]
    /\ pending' = pending + 1

MutReleaseForgetsPending(s) ==
    /\ in_use' = [in_use EXCEPT ![s] = FALSE]
    /\ UNCHANGED <<local_addr, pending>>

MutReleaseForgetsSlot(s) ==
    /\ pending' = pending - 1
    /\ UNCHANGED <<in_use, local_addr>>

ReleaseSlot(s) ==
    /\ in_use' = [in_use EXCEPT ![s] = FALSE]
    /\ pending' = IF in_use[s] THEN pending - 1 ELSE pending
    /\ UNCHANGED local_addr

\* A reset that comes with nothing under way begins anew.
Forget ==
    /\ stale' = (cmds # <<>> \/ replies # <<>>)
    /\ claim' = [r \in Regs |-> "none"]

MutResetKeepsPending ==
    /\ "reset" \in Faults
    /\ phase = "idle"
    /\ Len(cmds) + Len(replies) + TRANS_LOG_SIZE <= MaxInFlight
    /\ in_use' = [s \in Slots |-> FALSE]
    /\ Forget
    /\ UNCHANGED <<pending, mirror, fee, local_addr, phase, call, linkVars>>

\* smile_fee_rmap_reset_log.  It does not know of the packets still under way.
ResetLog ==
    /\ "reset" \in Faults
    /\ phase = "idle"
    /\ Len(cmds) + Len(replies) + TRANS_LOG_SIZE <= MaxInFlight
    /\ in_use' = [s \in Slots |-> FALSE]
    /\ pending' = 0
    /\ Forget
    /\ UNCHANGED <<mirror, fee, local_addr, phase, call, linkVars>>

-----------------------------------------------------------------------------
(* The receive loop of smile_fee_process_rx.                               *)

\* Where a call goes on when the loop is left; the count or error the loop
\* returns is ignored by each of its callers.
AfterRx == CASE phase = "drain" -> "grab"
             [] phase = "rx"    -> "tx"
             [] phase = "poll"  -> "idle"

InRx == phase \in {"drain", "rx", "poll"}

\* Nothing to receive, or nobody waits for a reply (which then stays where
\* it is), or the packet cannot be allocated or read.
RxDone ==
    /\ InRx
    /\ replies = <<>> \/ pending = 0 \/ "abort" \in Faults
    /\ phase' = AfterRx
    /\ UNCHANGED <<mirror, fee, logVars, call, linkVars, claim, stale>>

\* rmap_pkt_from_buffer cannot make sense of the packet: it is dropped.
RxUndecodable ==
    /\ "corrupt" \in Faults
    /\ InRx
    /\ replies # <<>> /\ pending > 0
    /\ replies' = Tail(replies)
    /\ UNCHANGED <<mirror, fee, logVars, phase, call, cmds, claim, stale>>

\* The reply is not in the log: dropped with a warning.
RxUnknown ==
    /\ InRx
    /\ replies # <<>> /\ pending > 0
    /\ ~in_use[Head(replies).tr_id]
    /\ replies' = Tail(replies)
    /\ UNCHANGED <<mirror, fee, logVars, phase, call, cmds, claim, stale>>

MutRxReleaseFirst ==
    /\ InRx
    /\ replies # <<>> /\ pending > 0
    /\ LET rp == Head(replies) IN
       /\ in_use[rp.tr_id]
       /\ mirror' = mirror
       /\ ReleaseSlot(rp.tr_id)
    /\ replies' = Tail(replies)
    /\ UNCHANGED <<fee, phase, call, cmds, claim, stale>>

\* The data, if any, goes to the address kept in the slot; the slot is free
\* again.  The status byte of the reply is not looked at.
RxMatch ==
    /\ InRx
    /\ replies # <<>> /\ pending > 0
    /\ LET rp == Head(replies) IN
       /\ in_use[rp.tr_id]
       /\ mirror' = IF rp.data = NoData THEN mirror
                    ELSE [mirror EXCEPT ![local_addr[rp.tr_id]] = rp.data]
       /\ ReleaseSlot(rp.tr_id)
    /\ replies' = Tail(replies)
    /\ UNCHANGED <<fee, phase, call, cmds, claim, stale>>

ProcessRx == RxDone \/ RxUndecodable \/ RxUnknown \/ RxMatch

-----------------------------------------------------------------------------
(* The calls of the client.                                                *)

UsedSlots == {s \in Slots : in_use[s]}

\* The USAGE comment of FEE/smile_fee_ctrl.c: a client waits for a transfer
\* before it touches that register again.
MayTouch(r) == Patient => \A s \in UsedSlots : local_addr[s] # r

\* Takes a slot and generates the command; when that fails the call returns
\* and the slot stays taken.
Prepare(op, r) ==
    /\ \E s \in Slots :
        /\ GrabSlot(s, r)
        /\ \/ /\ phase' = "rx"
              /\ call' = [op |-> op, reg |-> r, slot |-> s]
           \/ /\ "gen" \in Faults
              /\ phase' = "idle"
              /\ call' = NULL
    /\ UNCHANGED <<mirror, fee, linkVars, claim, stale>>

\* smile_fee_sync: every sync_<register>_to_fee and _to_dpu.
Sync(op, r) ==
    /\ phase = "idle"
    /\ MayTouch(r)
    /\ Prepare(op, r)

\* smile_fee_sync_data: the same for a block of the SRAM, receiving first.
SyncData(op, r) ==
    /\ phase = "idle"
    /\ MayTouch(r)
    /\ phase' = "drain"
    /\ call' = [op |-> op, reg |-> r, slot |-> NULL]
    /\ UNCHANGED <<mirror, fee, logVars, linkVars, claim, stale>>

SyncDataPrepare ==
    /\ phase = "grab"
    /\ Prepare(call.op, call.reg)

\* No free slot: the caller is told to retry.
SyncDataBusy ==
    /\ phase = "grab"
    /\ FreeSlots = {}
    /\ phase' = "idle"
    /\ call' = NULL
    /\ UNCHANGED <<mirror, fee, logVars, linkVars, claim, stale>>

MutTxToSlotZero ==
    /\ phase = "tx"
    /\ cmds' = Append(cmds, [tr_id |-> 0, reg |-> call.reg, op |-> call.op,
                             data |-> IF call.op = "write" THEN mirror[call.reg]
                                      ELSE NoData])
    /\ claim' = [claim EXCEPT ![call.reg] = "sent"]
    /\ phase' = "idle"
    /\ call' = NULL
    /\ UNCHANGED <<mirror, fee, logVars, replies, stale>>

\* The tail of smile_fee_submit_tx: rmap_tx takes the command, and with a
\* write the register as it is in the mirror now.
SubmitTx ==
    /\ phase = "tx"
    /\ cmds' = Append(cmds, [tr_id |-> call.slot, reg |-> call.reg, op |-> call.op,
                             data |-> IF call.op = "write" THEN mirror[call.reg]
                                      ELSE NoData])
    /\ claim' = [claim EXCEPT ![call.reg] = "sent"]
    /\ phase' = "idle"
    /\ call' = NULL
    /\ UNCHANGED <<mirror, fee, logVars, replies, stale>>

\* rmap_tx fails: the error is returned, the slot stays taken.
SubmitTxFails ==
    /\ "tx" \in Faults
    /\ phase = "tx"
    /\ phase' = "idle"
    /\ call' = NULL
    /\ UNCHANGED <<mirror, fee, logVars, linkVars, claim, stale>>

\* smile_fee_rmap_sync_status; it returns "pending" as the loop leaves it.
SyncStatus ==
    /\ phase = "idle"
    /\ phase' = "poll"
    /\ UNCHANGED <<mirror, fee, logVars, call, linkVars, claim, stale>>

\* A setter of FEE/smile_fee_ctrl.c, which touches the mirror only.
Set(r, v) ==
    /\ phase = "idle"
    /\ MayTouch(r)
    /\ mirror' = [mirror EXCEPT ![r] = v]
    /\ claim' = [claim EXCEPT ![r] = "none"]
    /\ UNCHANGED <<fee, logVars, phase, call, linkVars, stale>>

-----------------------------------------------------------------------------
(* The FEE and the link.                                                   *)

\* A command is executed and answered, in the order of arrival.
FeeExecute ==
    /\ cmds # <<>>
    /\ LET c == Head(cmds) IN
       /\ fee' = IF c.op = "write" THEN [fee EXCEPT ![c.reg] = c.data] ELSE fee
       /\ replies' = Append(replies, [c EXCEPT !.data = IF c.op = "read" THEN fee[c.reg]
                                                        ELSE NoData])
    /\ cmds' = Tail(cmds)
    /\ UNCHANGED <<mirror, logVars, phase, call, claim, stale>>

\* The FEE answers with an error status instead of executing the command.
FeeReject ==
    /\ "reject" \in Faults
    /\ cmds # <<>>
    /\ replies' = Append(replies, [Head(cmds) EXCEPT !.data = NoData])
    /\ claim' = [claim EXCEPT ![Head(cmds).reg] = "refused"]
    /\ cmds' = Tail(cmds)
    /\ UNCHANGED <<mirror, fee, logVars, phase, call, stale>>

\* The FEE changes a register by itself (housekeeping, execute_op).
FeeUpdate(r, v) ==
    /\ fee' = [fee EXCEPT ![r] = v]
    /\ claim' = [claim EXCEPT ![r] = "none"]
    /\ UNCHANGED <<mirror, logVars, phase, call, linkVars, stale>>

LoseCommand ==
    /\ "loss" \in Faults
    /\ cmds # <<>>
    /\ cmds' = Tail(cmds)
    /\ UNCHANGED <<mirror, fee, logVars, phase, call, replies, claim, stale>>

LoseReply ==
    /\ "loss" \in Faults
    /\ replies # <<>>
    /\ replies' = Tail(replies)
    /\ UNCHANGED <<mirror, fee, logVars, phase, call, cmds, claim, stale>>

-----------------------------------------------------------------------------

Client ==
    \/ \E op \in Ops, r \in Regs : Sync(op, r) \/ SyncData(op, r)
    \/ \E r \in Regs, v \in Vals : Set(r, v)
    \/ SyncStatus
    \/ ResetLog

Library ==
    \/ ProcessRx
    \/ SyncDataPrepare
    \/ SyncDataBusy
    \/ SubmitTx
    \/ SubmitTxFails

Fee ==
    \/ FeeExecute
    \/ FeeReject
    \/ \E r \in Regs, v \in Vals : FeeUpdate(r, v)

Link == LoseCommand \/ LoseReply

Next == Client \/ Library \/ Fee \/ Link

Spec == Init /\ [][Next]_vars

\* A running call goes on, the client polls smile_fee_rmap_sync_status as the
\* USAGE comment of FEE/smile_fee_ctrl.c tells it to, the FEE answers.
FairSpec ==
    /\ Spec
    /\ WF_vars(Library)
    /\ WF_vars(SyncStatus)
    /\ WF_vars(FeeExecute)

-----------------------------------------------------------------------------
(* Properties.                                                             *)

\* Every variable keeps its type; "pending" never leaves the range of the log.
TypeOK ==
    /\ mirror \in [Regs -> Vals]
    /\ fee \in [Regs -> Vals]
    /\ in_use \in [Slots -> BOOLEAN]
    /\ local_addr \in [Slots -> Regs \cup {NULL}]
    /\ pending \in 0 .. TRANS_LOG_SIZE
    /\ phase \in Phases
    /\ call \in Call \cup {NULL}
    /\ cmds \in Seq(Command)
    /\ replies \in Seq(Packet)
    /\ claim \in [Regs -> {"none", "sent", "refused"}]
    /\ stale \in BOOLEAN

\* The counter that smile_fee_rmap_sync_status returns agrees with the slots
\* in use, whatever fails and also across smile_fee_rmap_reset_log: counter
\* and table are updated by different functions and never compared.
PendingIsCount == pending = Cardinality(UsedSlots)

\* Unless the log was reset with packets under way, every packet on the link
\* belongs to a slot in use that holds the local address of the register the
\* packet is about, and no two packets share a slot: no reply can reach another
\* transfer's address.  A later reset on a quiet link puts that right again.
InFlight == replies \o cmds

Owned(p) == in_use[p.tr_id] /\ local_addr[p.tr_id] = p.reg

RepliesHaveOwners ==
    ~stale =>
        /\ \A i \in DOMAIN InFlight : Owned(InFlight[i])
        /\ \A i, j \in DOMAIN InFlight :
              InFlight[i].tr_id = InFlight[j].tr_id => i = j

\* A step of the receive loop changes no register of the mirror but the one
\* that the consumed reply was requested for, unless the log was reset with
\* packets under way and not again since on a quiet link.
StoredAt(r) == /\ replies # <<>>
               /\ Head(replies).reg = r
               /\ mirror'[r] = Head(replies).data

StoredWhereRequested ==
    [][InRx /\ ~stale =>
         \A r \in Regs : mirror'[r] # mirror[r] => StoredAt(r)]_vars

\* The same without the exception.  A reply that is still under way at a reset
\* can meet the slot it names when another transfer has taken it: its data
\* then go to the address that this one has stored there, another register's.
LateRepliesStored ==
    [][InRx => \A r \in Regs : mirror'[r] # mirror[r] => StoredAt(r)]_vars

\* "0: synchronised" of smile_fee_rmap_sync_status: with nothing pending, a
\* register whose last transfer the FEE carried out is the same on both
\* sides, if the client waits before it touches that register again and does
\* not reset the log while packets are under way.
Synchronised ==
    (phase = "idle" /\ pending = 0 /\ ~stale) =>
        \A r \in Regs : claim[r] = "sent" => mirror[r] = fee[r]

\* The same without the exception: a transfer that the FEE has refused is
\* reported as complete as well.
SyncStatusTruthful ==
    (phase = "idle" /\ pending = 0 /\ ~stale) =>
        \A r \in Regs : claim[r] # "none" => mirror[r] = fee[r]

\* "> 0: operations pending": between calls, a slot in use stands for a
\* command or reply that is under way.
PendingMeansOutstanding ==
    phase = "idle" =>
        \A s \in UsedSlots : \E i \in DOMAIN InFlight : InFlight[i].tr_id = s

\* The wait loop of the USAGE comment ends: each slot taken is freed again.
EverySlotReturns ==
    \A s \in Slots : in_use[s] ~> ~in_use[s]

\* What is on the link, replies being the copies that the FEE has carried out.
CopyQueue ==
    [i \in DOMAIN InFlight |->
        [reg |-> InFlight[i].reg, op |-> InFlight[i].op,
         data |-> InFlight[i].data, done |-> i <= Len(replies)]]

\* The log implements a queue of copies between mirror and FEE, in which a
\* copy has no number, no slot and no stored address to go astray by.
Copies == INSTANCE MirrorCopies WITH queue <- CopyQueue

ImplementsCopies == Copies!Spec
=============================================================================
