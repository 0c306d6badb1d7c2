-------------------------- MODULE RmapSync_proofs --------------------------
(***************************************************************************)
(* Theorems about the transaction log, for any number of slots, registers  *)
(* and values, and whatever of FaultKinds may happen.  The last part is    *)
(* about what the log promises as long as no packet is lost, damaged or    *)
(* refused: it implements the queue of copies of MirrorCopies, and what it *)
(* reports as pending is on its way.                                       *)
(***************************************************************************)
EXTENDS RmapSync, FiniteSetTheorems, SequenceTheorems, TLAPS

-----------------------------------------------------------------------------
(* The slots in use and their number.                                      *)

\* There are finitely many slots, hence a number of slots in use that is no
\* larger than the log.
LEMMA SlotsFinite ==
    /\ IsFiniteSet(Slots)
    /\ Cardinality(Slots) = TRANS_LOG_SIZE
<1>1. 0 \in Int /\ TRANS_LOG_SIZE - 1 \in Int
  BY RmapSyncAssumption
<1>2. QED BY <1>1, FS_Interval, RmapSyncAssumption DEF Slots

LEMMA UsedFinite ==
    ASSUME NEW U \in SUBSET Slots
    PROVE  /\ IsFiniteSet(U)
           /\ Cardinality(U) \in 0 .. TRANS_LOG_SIZE
<1>1. IsFiniteSet(U) /\ Cardinality(U) <= TRANS_LOG_SIZE
  BY SlotsFinite, FS_Subset
<1>2. Cardinality(U) \in Nat
  BY <1>1, FS_CardinalityType
<1>3. QED BY <1>1, <1>2, RmapSyncAssumption

\* trans_log_grab_slot keeps the counter in step with the table.
LEMMA GrabCounts ==
    ASSUME TypeOK, PendingIsCount, NEW s \in Slots, NEW r, GrabSlot(s, r)
    PROVE  PendingIsCount' /\ pending' \in 0 .. TRANS_LOG_SIZE
<1>1. ~in_use[s]
  BY DEF GrabSlot, FirstFree, FreeSlots
<1>2. UsedSlots' = UsedSlots \cup {s}
  BY <1>1 DEF UsedSlots, GrabSlot, TypeOK
<1>3. s \notin UsedSlots /\ IsFiniteSet(UsedSlots)
  BY <1>1, UsedFinite DEF UsedSlots
<1>4. Cardinality(UsedSlots') = Cardinality(UsedSlots) + 1
  BY <1>2, <1>3, FS_AddElement
<1>5. PendingIsCount'
  BY <1>4 DEF PendingIsCount, GrabSlot
<1>6. Cardinality(UsedSlots') \in 0 .. TRANS_LOG_SIZE
  BY UsedFinite, <1>2, UsedSlots' \in SUBSET Slots DEF UsedSlots
<1>7. QED BY <1>5, <1>6 DEF PendingIsCount

\* So does trans_log_release_slot.
LEMMA ReleaseCounts ==
    ASSUME TypeOK, PendingIsCount, NEW s \in Slots, in_use[s], ReleaseSlot(s)
    PROVE  PendingIsCount' /\ pending' \in 0 .. TRANS_LOG_SIZE
<1>1. UsedSlots' = UsedSlots \ {s}
  BY DEF UsedSlots, ReleaseSlot, TypeOK
<1>2. s \in UsedSlots /\ IsFiniteSet(UsedSlots)
  BY UsedFinite DEF UsedSlots
<1>3. Cardinality(UsedSlots') = Cardinality(UsedSlots) - 1
  BY <1>1, <1>2, FS_RemoveElement
<1>4. PendingIsCount'
  BY <1>3 DEF PendingIsCount, ReleaseSlot
<1>5. Cardinality(UsedSlots') \in 0 .. TRANS_LOG_SIZE
  BY UsedFinite, <1>1, UsedSlots' \in SUBSET Slots DEF UsedSlots
<1>6. QED BY <1>4, <1>5 DEF PendingIsCount

-----------------------------------------------------------------------------
(* Types.                                                                  *)

\* What the running call has decided is there when a later part needs it.
CallOK ==
    /\ phase \in {"drain", "grab", "rx", "tx"} => call \in Call
    /\ phase \in {"rx", "tx"} => call.slot \in Slots

TypeInv == TypeOK /\ CallOK /\ PendingIsCount

LEMMA TypeInit == Init => TypeInv
<1> SUFFICES ASSUME Init PROVE TypeInv
  OBVIOUS
<1>1. TypeOK
  BY RmapSyncAssumption DEF Init, TypeOK, Phases, Slots
<1>2. CallOK
  BY DEF Init, CallOK
<1>3. UsedSlots = {}
  BY DEF Init, UsedSlots
<1>4. PendingIsCount
  BY <1>3, FS_EmptySet DEF Init, PendingIsCount
<1>5. QED BY <1>1, <1>2, <1>4 DEF TypeInv

LEMMA TypeStep == TypeInv /\ [Next]_vars => TypeInv'
<1> SUFFICES ASSUME TypeInv, [Next]_vars PROVE TypeInv'
  OBVIOUS
<1> USE DEF TypeInv
<1>1. ASSUME UNCHANGED logVars PROVE PendingIsCount' /\ pending' \in 0 .. TRANS_LOG_SIZE
  BY <1>1 DEF PendingIsCount, UsedSlots, logVars, TypeOK
<1>2. ASSUME NEW op \in Ops, NEW r \in Regs, Prepare(op, r)
      PROVE  TypeInv'
  <2>1. PICK s \in Slots :
          /\ GrabSlot(s, r)
          /\ \/ phase' = "rx" /\ call' = [op |-> op, reg |-> r, slot |-> s]
             \/ phase' = "idle" /\ call' = NULL
    BY <1>2 DEF Prepare
  <2>2. PendingIsCount' /\ pending' \in 0 .. TRANS_LOG_SIZE
    BY <2>1, GrabCounts
  <2>3. CallOK'
    BY <2>1 DEF CallOK, Call
  <2>4. TypeOK'
    BY <1>2, <2>1, <2>2 DEF TypeOK, Prepare, GrabSlot, linkVars, Call, Phases
  <2>5. QED BY <2>2, <2>3, <2>4
<1>3. ASSUME NEW op \in Ops, NEW r \in Regs, Sync(op, r) PROVE TypeInv'
  BY <1>2, <1>3 DEF Sync
<1>4. ASSUME NEW op \in Ops, NEW r \in Regs, SyncData(op, r) PROVE TypeInv'
  BY <1>1, <1>4 DEF SyncData, TypeOK, CallOK, Call, Phases, logVars, linkVars
<1>5. ASSUME NEW r \in Regs, NEW v \in Vals, Set(r, v) PROVE TypeInv'
  BY <1>1, <1>5 DEF Set, TypeOK, CallOK, logVars, linkVars
<1>6. CASE SyncStatus
  BY <1>1, <1>6 DEF SyncStatus, TypeOK, CallOK, Phases, logVars, linkVars
<1>7. CASE ResetLog
  <2>1. UsedSlots' = {}
    BY <1>7 DEF ResetLog, UsedSlots
  <2>2. PendingIsCount'
    BY <1>7, <2>1, FS_EmptySet DEF ResetLog, PendingIsCount
  <2>3. TypeOK'
    BY <1>7, RmapSyncAssumption DEF ResetLog, Forget, TypeOK, linkVars
  <2>4. CallOK'
    BY <1>7 DEF ResetLog, CallOK
  <2>5. QED BY <2>2, <2>3, <2>4
<1>8. CASE RxDone
  <2>1. phase' \in {"grab", "tx", "idle"} /\ (phase' = "tx" => phase = "rx")
        /\ (phase' = "grab" => phase = "drain")
    BY <1>8 DEF RxDone, InRx, AfterRx
  <2>2. QED
    BY <1>1, <1>8, <2>1 DEF RxDone, TypeOK, CallOK, Phases, logVars, linkVars
<1>9. CASE RxUndecodable \/ RxUnknown
  <2>1. replies # <<>> /\ replies' = Tail(replies)
    BY <1>9 DEF RxUndecodable, RxUnknown
  <2>2. replies' \in Seq(Packet)
    BY <2>1 DEF TypeOK
  <2>3. QED
    BY <1>1, <1>9, <2>2
    DEF RxUndecodable, RxUnknown, TypeOK, CallOK, logVars, linkVars
<1>10. CASE RxMatch
  <2> DEFINE rp == Head(replies)
  <2>1. replies' \in Seq(Packet) /\ rp \in Packet
    BY <1>10 DEF RxMatch, TypeOK
  <2>2. rp.tr_id \in Slots /\ in_use[rp.tr_id] /\ ReleaseSlot(rp.tr_id)
    BY <1>10, <2>1 DEF RxMatch, Packet
  <2>3. PendingIsCount' /\ pending' \in 0 .. TRANS_LOG_SIZE
    BY <2>2, ReleaseCounts
  <2>4. mirror' \in [Regs -> Vals]
    BY <1>10, <2>1 DEF RxMatch, TypeOK, Packet
  <2>5. TypeOK'
    BY <1>10, <2>1, <2>2, <2>3, <2>4 DEF RxMatch, ReleaseSlot, TypeOK
  <2>6. QED BY <1>10, <2>3, <2>5 DEF RxMatch, CallOK
<1>11. CASE SyncDataPrepare
  <2>1. call.op \in Ops /\ call.reg \in Regs
    BY <1>11 DEF SyncDataPrepare, CallOK, Call
  <2>2. QED BY <1>2, <1>11, <2>1 DEF SyncDataPrepare
<1>12. CASE SyncDataBusy \/ SubmitTxFails
  BY <1>1, <1>12
  DEF SyncDataBusy, SubmitTxFails, TypeOK, CallOK, Phases, logVars, linkVars
<1>13. CASE SubmitTx
  <2> DEFINE c == [tr_id |-> call.slot, reg |-> call.reg, op |-> call.op,
                   data |-> IF call.op = "write" THEN mirror[call.reg] ELSE NoData]
  <2>1. c \in Command
    BY <1>13 DEF SubmitTx, CallOK, Call, TypeOK, Packet, Command
  <2>2. cmds' \in Seq(Command)
    BY <1>13, <2>1 DEF SubmitTx, TypeOK
  <2>3. claim' \in [Regs -> {"none", "sent", "refused"}]
    BY <1>13 DEF SubmitTx, TypeOK, CallOK, Call
  <2>4. QED
    BY <1>1, <1>13, <2>2, <2>3 DEF SubmitTx, TypeOK, CallOK, Phases, logVars
<1>14. CASE FeeExecute
  <2> DEFINE c == Head(cmds)
             d == IF c.op = "read" THEN fee[c.reg] ELSE NoData
  <2>1. c \in Packet /\ (c.op = "write" => c.data \in Vals) /\ cmds' \in Seq(Command)
    BY <1>14 DEF FeeExecute, TypeOK, Command
  <2>2. [c EXCEPT !.data = d] \in Packet
    BY <2>1 DEF Packet, TypeOK
  <2>3. replies' \in Seq(Packet)
    BY <1>14, <2>2 DEF FeeExecute, TypeOK
  <2>4. fee' \in [Regs -> Vals]
    BY <1>14, <2>1 DEF FeeExecute, TypeOK, Packet
  <2>5. QED
    BY <1>1, <1>14, <2>1, <2>3, <2>4 DEF FeeExecute, TypeOK, CallOK, logVars
<1>15. CASE FeeReject
  <2> DEFINE c == Head(cmds)
  <2>1. c \in Packet /\ cmds' \in Seq(Command)
    BY <1>15 DEF FeeReject, TypeOK, Command
  <2>2. [c EXCEPT !.data = NoData] \in Packet
    BY <2>1 DEF Packet
  <2>3. replies' \in Seq(Packet)
    BY <1>15, <2>2 DEF FeeReject, TypeOK
  <2>4. QED
    BY <1>1, <1>15, <2>1, <2>3 DEF FeeReject, TypeOK, CallOK, logVars
<1>16. ASSUME NEW r \in Regs, NEW v \in Vals, FeeUpdate(r, v) PROVE TypeInv'
  BY <1>1, <1>16 DEF FeeUpdate, TypeOK, CallOK, logVars, linkVars
<1>17. CASE LoseCommand
  <2>1. cmds' \in Seq(Command)
    BY <1>17 DEF LoseCommand, TypeOK
  <2>2. QED BY <1>1, <1>17, <2>1 DEF LoseCommand, TypeOK, CallOK, logVars
<1>18. CASE LoseReply
  <2>1. replies' \in Seq(Packet)
    BY <1>18 DEF LoseReply, TypeOK
  <2>2. QED BY <1>1, <1>18, <2>1 DEF LoseReply, TypeOK, CallOK, logVars
<1>19. CASE UNCHANGED vars
  BY <1>1, <1>19 DEF vars, logVars, TypeOK, CallOK
<1>20. QED
  BY <1>3, <1>4, <1>5, <1>6, <1>7, <1>8, <1>9, <1>10, <1>11, <1>12, <1>13, <1>14,
     <1>15, <1>16, <1>17, <1>18, <1>19
  DEF Next, Client, Library, ProcessRx, Fee, Link

\* The invariant that the other theorems build on.
LEMMA TypeInvariant == Spec => []TypeInv
BY TypeInit, TypeStep, PTL DEF Spec

\* Every variable keeps its type; the pending counter stays within the log.
THEOREM TypeCorrect == Spec => []TypeOK
BY TypeInvariant, PTL DEF TypeInv

\* What smile_fee_rmap_sync_status returns is the number of slots in use.
THEOREM PendingCorrect == Spec => []PendingIsCount
BY TypeInvariant, PTL DEF TypeInv

-----------------------------------------------------------------------------
(* Every reply finds the slot it belongs to.                               *)

\* No packet on the link has this number.
Unsent(s) ==
    /\ \A i \in DOMAIN cmds : cmds[i].tr_id # s
    /\ \A i \in DOMAIN replies : replies[i].tr_id # s

\* RepliesHaveOwners for commands and replies apart, with the slot that a
\* running call has taken and not yet used.
LinkOwned ==
    /\ \A i \in DOMAIN cmds : Owned(cmds[i])
    /\ \A i \in DOMAIN replies : Owned(replies[i])
    /\ \A i, j \in DOMAIN cmds : cmds[i].tr_id = cmds[j].tr_id => i = j
    /\ \A i, j \in DOMAIN replies : replies[i].tr_id = replies[j].tr_id => i = j
    /\ \A i \in DOMAIN replies, j \in DOMAIN cmds : replies[i].tr_id # cmds[j].tr_id

CallOwned ==
    phase \in {"rx", "tx"} =>
        in_use[call.slot] /\ local_addr[call.slot] = call.reg /\ Unsent(call.slot)

OwnInv == ~stale => LinkOwned /\ CallOwned

\* The fields of the packets on the link.
LEMMA PacketTypes ==
    ASSUME TypeOK
    PROVE  /\ \A i \in DOMAIN cmds :
                /\ cmds[i].tr_id \in Slots /\ cmds[i].reg \in Regs /\ cmds[i].op \in Ops
                /\ cmds[i].op = "write" => cmds[i].data \in Vals
           /\ \A i \in DOMAIN replies :
                replies[i].tr_id \in Slots /\ replies[i].reg \in Regs /\ replies[i].op \in Ops
<1>1. /\ \A i \in DOMAIN cmds : cmds[i] \in Command
      /\ \A i \in DOMAIN replies : replies[i] \in Packet
  BY DEF TypeOK
<1>2. \A p \in Packet : p.tr_id \in Slots /\ p.reg \in Regs /\ p.op \in Ops
  BY DEF Packet
<1>3. \A c \in Command : c \in Packet /\ (c.op = "write" => c.data \in Vals)
  BY DEF Command
<1>4. QED BY <1>1, <1>2, <1>3

LEMMA OwnInit == Init => OwnInv
BY DEF Init, OwnInv, LinkOwned, CallOwned

\* Neither losing the oldest reply nor leaving the log alone disturbs it.
LEMMA OwnTailReplies ==
    ASSUME TypeOK, LinkOwned, replies # <<>>, replies' = Tail(replies),
           UNCHANGED <<cmds, logVars>>
    PROVE  LinkOwned' /\ \A s \in Slots : Unsent(s) => Unsent(s)'
<1>1. /\ DOMAIN replies' = 1 .. Len(replies) - 1
      /\ \A i \in DOMAIN replies' : replies'[i] = replies[i + 1] /\ i + 1 \in DOMAIN replies
  BY DEF TypeOK
<1>2. QED BY <1>1 DEF LinkOwned, Owned, Unsent, logVars

\* The oldest command becomes the youngest reply.
LEMMA OwnAnswer ==
    ASSUME TypeOK, LinkOwned, cmds # <<>>, cmds' = Tail(cmds), NEW d,
           replies' = Append(replies, [Head(cmds) EXCEPT !.data = d]),
           UNCHANGED logVars
    PROVE  LinkOwned' /\ \A s \in Slots : Unsent(s) => Unsent(s)'
<1> DEFINE p == [Head(cmds) EXCEPT !.data = d]
<1>1. /\ DOMAIN cmds' = 1 .. Len(cmds) - 1
      /\ \A i \in DOMAIN cmds' : cmds'[i] = cmds[i + 1] /\ i + 1 \in DOMAIN cmds
      /\ \A i \in DOMAIN cmds' : i + 1 # 1
      /\ 1 \in DOMAIN cmds
  BY DEF TypeOK
<1>2. p.tr_id = cmds[1].tr_id /\ p.reg = cmds[1].reg
  <2>1. cmds[1] \in Packet
    BY <1>1 DEF TypeOK, Command
  <2>2. Head(cmds) = cmds[1]
    BY DEF TypeOK
  <2>3. QED BY <2>1, <2>2 DEF Packet
<1>3. /\ DOMAIN replies' = 1 .. Len(replies) + 1
      /\ \A i \in DOMAIN replies : replies'[i] = replies[i]
      /\ replies'[Len(replies) + 1] = p
      /\ \A i \in DOMAIN replies' : i \in DOMAIN replies \/ i = Len(replies) + 1
  BY DEF TypeOK
<1> HIDE DEF p
<1>4. QED BY <1>1, <1>2, <1>3 DEF LinkOwned, Owned, Unsent, logVars

LEMMA OwnStep == TypeInv /\ OwnInv /\ [Next]_vars => OwnInv'
<1> SUFFICES ASSUME TypeInv, OwnInv, [Next]_vars, ~stale' PROVE (LinkOwned /\ CallOwned)'
  BY DEF OwnInv
<1>7. CASE ResetLog
  <2>1. ~(cmds # <<>> \/ replies # <<>>)
    BY <1>7, Zenon DEF ResetLog, Forget
  <2>2. cmds' = <<>> /\ replies' = <<>> /\ phase' = "idle"
    BY <1>7, <2>1 DEF ResetLog, linkVars
  <2>3. QED BY <2>2 DEF LinkOwned, CallOwned
<1> SUFFICES ASSUME ~ResetLog PROVE (LinkOwned /\ CallOwned)'
  BY <1>7
<1>0. ~stale /\ LinkOwned /\ CallOwned /\ TypeOK /\ CallOK
  <2>1. stale' = stale
    BY DEF Next, Client, Library, ProcessRx, Fee, Link, vars, Sync, SyncData, Prepare, Set,
           SyncStatus, ResetLog, RxDone, RxUndecodable, RxUnknown, RxMatch,
           SyncDataPrepare, SyncDataBusy, SubmitTx, SubmitTxFails, FeeExecute,
           FeeReject, FeeUpdate, LoseCommand, LoseReply
  <2>2. QED BY <2>1 DEF OwnInv, TypeInv
<1> USE <1>0
<1>1. ASSUME UNCHANGED <<logVars, linkVars>>,
             phase' \in {"rx", "tx"} => phase \in {"rx", "tx"} /\ call' = call
      PROVE  (LinkOwned /\ CallOwned)'
  BY <1>1 DEF LinkOwned, CallOwned, Owned, Unsent, logVars, linkVars
<1>2. ASSUME NEW op \in Ops, NEW r \in Regs, Prepare(op, r)
      PROVE  (LinkOwned /\ CallOwned)'
  <2>1. PICK s \in Slots :
          /\ GrabSlot(s, r)
          /\ \/ phase' = "rx" /\ call' = [op |-> op, reg |-> r, slot |-> s]
             \/ phase' = "idle" /\ call' = NULL
    BY <1>2 DEF Prepare
  <2>2. ~in_use[s]
    BY <2>1 DEF GrabSlot, FirstFree, FreeSlots
  <2>3. Unsent(s)
    BY <2>2 DEF LinkOwned, Owned, Unsent
  <2>4. /\ in_use'[s] /\ local_addr'[s] = r
        /\ \A t \in Slots \ {s} : in_use'[t] = in_use[t] /\ local_addr'[t] = local_addr[t]
    BY <2>1 DEF GrabSlot, TypeOK
  <2>5. cmds' = cmds /\ replies' = replies
    BY <1>2 DEF Prepare, linkVars
  <2>6. /\ \A i \in DOMAIN cmds : cmds[i].tr_id \in Slots
        /\ \A i \in DOMAIN replies : replies[i].tr_id \in Slots
    BY PacketTypes
  <2>7. LinkOwned'
    BY <2>3, <2>4, <2>5, <2>6 DEF LinkOwned, Owned, Unsent
  <2>8. CallOwned'
    BY <2>1, <2>3, <2>4, <2>5 DEF CallOwned, Unsent
  <2>9. QED BY <2>7, <2>8
<1>3. ASSUME NEW op \in Ops, NEW r \in Regs, Sync(op, r) PROVE (LinkOwned /\ CallOwned)'
  BY <1>2, <1>3 DEF Sync
<1>4. ASSUME NEW op \in Ops, NEW r \in Regs, SyncData(op, r) PROVE (LinkOwned /\ CallOwned)'
  BY <1>1, <1>4 DEF SyncData
<1>5. ASSUME NEW r \in Regs, NEW v \in Vals, Set(r, v) PROVE (LinkOwned /\ CallOwned)'
  BY <1>1, <1>5 DEF Set
<1>6. CASE SyncStatus
  BY <1>1, <1>6 DEF SyncStatus
<1>8. CASE RxDone
  <2>1. phase' \in {"grab", "tx", "idle"} /\ (phase' = "tx" => phase = "rx")
    BY <1>8 DEF RxDone, InRx, AfterRx
  <2>2. QED BY <1>1, <1>8, <2>1 DEF RxDone
<1>9. CASE RxUndecodable \/ RxUnknown
  <2>1. LinkOwned' /\ \A s \in Slots : Unsent(s) => Unsent(s)'
    BY <1>9, OwnTailReplies DEF RxUndecodable, RxUnknown
  <2>2. CallOwned'
    BY <1>9, <2>1 DEF RxUndecodable, RxUnknown, CallOwned, CallOK, logVars
  <2>3. QED BY <2>1, <2>2
<1>10. CASE RxMatch
  <2> DEFINE t == Head(replies).tr_id
  <2>1. /\ DOMAIN replies' = 1 .. Len(replies) - 1
        /\ \A i \in DOMAIN replies' : replies'[i] = replies[i + 1] /\ i + 1 \in DOMAIN replies
        /\ \A i \in DOMAIN replies' : i + 1 # 1
        /\ 1 \in DOMAIN replies /\ t = replies[1].tr_id
    BY <1>10 DEF RxMatch, TypeOK
  <2>2. /\ local_addr' = local_addr
        /\ in_use' = [in_use EXCEPT ![t] = FALSE]
        /\ cmds' = cmds /\ phase' = phase /\ call' = call
    BY <1>10 DEF RxMatch, ReleaseSlot
  <2>3. /\ \A i \in DOMAIN cmds : cmds[i].tr_id # t
        /\ \A i \in DOMAIN replies' : replies'[i].tr_id # t
    BY <2>1 DEF LinkOwned
  <2>4. /\ \A i \in DOMAIN cmds : cmds[i].tr_id \in Slots
        /\ \A i \in DOMAIN replies' : replies'[i].tr_id \in Slots
    BY <2>1, PacketTypes
  <2>5. \A s \in Slots \ {t} : in_use'[s] = in_use[s]
    BY <2>2 DEF TypeOK
  <2>6. LinkOwned'
    BY <2>1, <2>2, <2>3, <2>4, <2>5 DEF LinkOwned, Owned
  <2>7. CallOwned'
    BY <2>1, <2>2, <2>5 DEF CallOwned, CallOK, Unsent
  <2>8. QED BY <2>6, <2>7
<1>11. CASE SyncDataPrepare
  BY <1>2, <1>11 DEF SyncDataPrepare, CallOK, Call
<1>12. CASE SyncDataBusy \/ SubmitTxFails
  BY <1>1, <1>12 DEF SyncDataBusy, SubmitTxFails
<1>13. CASE SubmitTx
  <2> DEFINE n == Len(cmds) + 1
  <2>1. /\ DOMAIN cmds' = 1 .. n
        /\ \A i \in DOMAIN cmds : cmds'[i] = cmds[i]
        /\ cmds'[n].tr_id = call.slot /\ cmds'[n].reg = call.reg
        /\ \A i \in DOMAIN cmds' : i \in DOMAIN cmds \/ i = n
    BY <1>13 DEF SubmitTx, TypeOK
  <2>2. in_use[call.slot] /\ local_addr[call.slot] = call.reg /\ Unsent(call.slot)
    BY <1>13 DEF SubmitTx, CallOwned
  <2>3. UNCHANGED <<logVars, replies>> /\ phase' = "idle"
    BY <1>13 DEF SubmitTx
  <2>4. LinkOwned'
    BY <2>1, <2>2, <2>3 DEF LinkOwned, Owned, Unsent, logVars
  <2>5. QED BY <2>3, <2>4 DEF CallOwned
<1>14. CASE FeeExecute \/ FeeReject
  <2>1. LinkOwned' /\ \A s \in Slots : Unsent(s) => Unsent(s)'
    BY <1>14, OwnAnswer DEF FeeExecute, FeeReject
  <2>2. CallOwned'
    BY <1>14, <2>1 DEF FeeExecute, FeeReject, CallOwned, CallOK, logVars
  <2>3. QED BY <2>1, <2>2
<1>15. ASSUME NEW r \in Regs, NEW v \in Vals, FeeUpdate(r, v) PROVE (LinkOwned /\ CallOwned)'
  BY <1>1, <1>15 DEF FeeUpdate
<1>16. CASE LoseCommand
  <2>1. /\ DOMAIN cmds' = 1 .. Len(cmds) - 1
        /\ \A i \in DOMAIN cmds' : cmds'[i] = cmds[i + 1] /\ i + 1 \in DOMAIN cmds
    BY <1>16 DEF LoseCommand, TypeOK
  <2>2. QED
    BY <1>16, <2>1 DEF LoseCommand, LinkOwned, CallOwned, Owned, Unsent, logVars
<1>17. CASE LoseReply
  <2>1. LinkOwned' /\ \A s \in Slots : Unsent(s) => Unsent(s)'
    BY <1>17, OwnTailReplies DEF LoseReply
  <2>2. CallOwned'
    BY <1>17, <2>1 DEF LoseReply, CallOwned, CallOK, logVars
  <2>3. QED BY <2>1, <2>2
<1>18. CASE UNCHANGED vars
  BY <1>1, <1>18 DEF vars, logVars, linkVars
<1>19. QED
  BY <1>3, <1>4, <1>5, <1>6, <1>7, <1>8, <1>9, <1>10, <1>11, <1>12, <1>13, <1>14,
     <1>15, <1>16, <1>17, <1>18
  DEF Next, Client, Library, ProcessRx, Fee, Link

LEMMA OwnInvariant == Spec => [](TypeInv /\ OwnInv)
BY TypeInit, TypeStep, OwnInit, OwnStep, PTL DEF Spec

\* Unless the log was reset with packets under way, every packet on the link
\* belongs to a slot in use that names its register, and to no other packet's.
THEOREM OwnersCorrect == Spec => []RepliesHaveOwners
<1>1. TypeInv /\ OwnInv => RepliesHaveOwners
  <2> SUFFICES ASSUME TypeOK, LinkOwned
               PROVE  /\ \A i \in DOMAIN InFlight : Owned(InFlight[i])
                      /\ \A i, j \in DOMAIN InFlight :
                            InFlight[i].tr_id = InFlight[j].tr_id => i = j
    BY DEF TypeInv, OwnInv, RepliesHaveOwners
  <2> DEFINE n == Len(replies)
  <2>1. /\ n \in Nat
        /\ DOMAIN InFlight = 1 .. n + Len(cmds)
        /\ \A i \in DOMAIN InFlight :
              \/ i \in DOMAIN replies /\ InFlight[i] = replies[i]
              \/ i - n \in DOMAIN cmds /\ InFlight[i] = cmds[i - n]
    BY DEF InFlight, TypeOK
  <2>2. ASSUME NEW i \in DOMAIN InFlight PROVE Owned(InFlight[i])
    BY <2>1 DEF LinkOwned
  <2>3. ASSUME NEW i \in DOMAIN InFlight, NEW j \in DOMAIN InFlight,
               InFlight[i].tr_id = InFlight[j].tr_id
        PROVE  i = j
    <3>1. i \in Int /\ j \in Int
      BY <2>1
    <3>2. i - n = j - n => i = j
      BY <2>1, <3>1
    <3>3. QED BY <2>1, <2>3, <3>2 DEF LinkOwned
  <2>4. QED BY <2>2, <2>3
<1>2. QED BY <1>1, OwnInvariant, PTL

\* Received data reach the register they were requested for and no other,
\* unless the log was reset with packets under way and not since on a quiet
\* link.
THEOREM StoreCorrect == Spec => StoredWhereRequested
<1>1. TypeInv /\ OwnInv /\ [Next]_vars =>
        [InRx /\ ~stale =>
           \A r \in Regs : mirror'[r] # mirror[r] => StoredAt(r)]_vars
  <2> SUFFICES ASSUME TypeInv, OwnInv, Next, InRx, ~stale,
                      NEW r \in Regs, mirror'[r] # mirror[r]
               PROVE  StoredAt(r)
    OBVIOUS
  <2>1. RxMatch
    BY DEF Next, Client, Library, ProcessRx, Fee, Link, Sync, SyncData, Prepare, Set,
           SyncStatus, ResetLog, RxDone, RxUndecodable, RxUnknown, InRx,
           SyncDataPrepare, SyncDataBusy, SubmitTx, SubmitTxFails, FeeExecute,
           FeeReject, FeeUpdate, LoseCommand, LoseReply
  <2>2. Head(replies) = replies[1] /\ 1 \in DOMAIN replies
    BY <2>1 DEF RxMatch, TypeInv, TypeOK
  <2>3. local_addr[Head(replies).tr_id] = Head(replies).reg
    BY <2>2 DEF OwnInv, LinkOwned, Owned
  <2>4. Head(replies).reg \in Regs
    BY <2>2, PacketTypes DEF TypeInv
  <2>5. QED BY <2>1, <2>3, <2>4 DEF RxMatch, StoredAt, TypeInv, TypeOK
<1>2. QED BY <1>1, OwnInvariant, PTL DEF Spec, StoredWhereRequested

-----------------------------------------------------------------------------
(* With nothing pending the two sides agree.                               *)

\* Whether a transfer of the register holds a slot.
Busy(r) == \E s \in UsedSlots : local_addr[s] = r

\* A client that waits has one transfer of a register at a time; what is
\* under way for a register it still claims is what the registers hold.
CopyInv ==
    /\ \A s, t \in UsedSlots : local_addr[s] = local_addr[t] => s = t
    /\ phase \in {"drain", "grab"} => ~Busy(call.reg)
    /\ \A r \in Regs : claim[r] = "sent" => Busy(r) \/ mirror[r] = fee[r]
    /\ \A i \in DOMAIN cmds :
          claim[cmds[i].reg] = "sent" /\ cmds[i].op = "write" =>
             cmds[i].data = mirror[cmds[i].reg]
    /\ \A i \in DOMAIN replies :
          claim[replies[i].reg] = "sent" =>
             IF replies[i].op = "read"
             THEN replies[i].data = fee[replies[i].reg]
             ELSE replies[i].data = NoData /\ mirror[replies[i].reg] = fee[replies[i].reg]

SyncInv == Patient /\ ~stale => CopyInv

LEMMA CopyInit == Init => SyncInv
BY DEF Init, SyncInv, CopyInv, UsedSlots, Busy

\* No two packets on the link are about the same register.
LEMMA RegsApart ==
    ASSUME TypeOK, LinkOwned, CopyInv
    PROVE  /\ \A i \in DOMAIN cmds : cmds[i].tr_id \in UsedSlots /\ Busy(cmds[i].reg)
           /\ \A i \in DOMAIN replies :
                replies[i].tr_id \in UsedSlots /\ Busy(replies[i].reg)
           /\ \A i, j \in DOMAIN cmds : cmds[i].reg = cmds[j].reg => i = j
           /\ \A i, j \in DOMAIN replies : replies[i].reg = replies[j].reg => i = j
           /\ \A i \in DOMAIN replies, j \in DOMAIN cmds : replies[i].reg # cmds[j].reg
<1>1. /\ \A i \in DOMAIN cmds : /\ cmds[i].tr_id \in UsedSlots
                                 /\ local_addr[cmds[i].tr_id] = cmds[i].reg
      /\ \A i \in DOMAIN replies : /\ replies[i].tr_id \in UsedSlots
                                   /\ local_addr[replies[i].tr_id] = replies[i].reg
  BY PacketTypes DEF LinkOwned, Owned, UsedSlots
<1>2. \A s, t \in UsedSlots : local_addr[s] = local_addr[t] => s = t
  BY DEF CopyInv
<1>3. QED BY <1>1, <1>2 DEF Busy, LinkOwned

\* Dropping the oldest packet of either queue keeps what is said of the rest.
LEMMA CopyTails ==
    ASSUME TypeOK, CopyInv, UNCHANGED <<mirror, fee, logVars, claim>>,
           \/ UNCHANGED cmds
           \/ cmds # <<>> /\ cmds' = Tail(cmds),
           \/ UNCHANGED replies
           \/ replies # <<>> /\ replies' = Tail(replies),
           phase' \in {"drain", "grab"} => call' = call /\ phase \in {"drain", "grab"}
    PROVE  CopyInv'
<1>1. \A i \in DOMAIN cmds' : \E j \in DOMAIN cmds : cmds'[i] = cmds[j]
  <2>1. CASE UNCHANGED cmds
    BY <2>1
  <2>2. CASE cmds # <<>> /\ cmds' = Tail(cmds)
    <3>1. \A i \in DOMAIN cmds' : cmds'[i] = cmds[i + 1] /\ i + 1 \in DOMAIN cmds
      BY <2>2 DEF TypeOK
    <3>2. QED BY <3>1
  <2>3. QED BY <2>1, <2>2
<1>2. \A i \in DOMAIN replies' : \E j \in DOMAIN replies : replies'[i] = replies[j]
  <2>1. CASE UNCHANGED replies
    BY <2>1
  <2>2. CASE replies # <<>> /\ replies' = Tail(replies)
    <3>1. \A i \in DOMAIN replies' : replies'[i] = replies[i + 1] /\ i + 1 \in DOMAIN replies
      BY <2>2 DEF TypeOK
    <3>2. QED BY <3>1
  <2>3. QED BY <2>1, <2>2
<1>3. QED BY <1>1, <1>2 DEF CopyInv, Busy, UsedSlots, logVars

LEMMA CopyStep == TypeInv /\ OwnInv /\ SyncInv /\ [Next]_vars => SyncInv'
<1> SUFFICES ASSUME TypeInv, OwnInv, SyncInv, [Next]_vars, Patient, ~stale'
             PROVE  CopyInv'
  BY DEF SyncInv
<1>7. CASE ResetLog
  <2>1. /\ \A r \in Regs : claim'[r] = "none"
        /\ UsedSlots' = {} /\ phase' = "idle"
    BY <1>7 DEF ResetLog, Forget, UsedSlots
  <2>2. ~(cmds # <<>> \/ replies # <<>>)
    BY <1>7, Zenon DEF ResetLog, Forget
  <2>3. cmds' = <<>> /\ replies' = <<>>
    BY <1>7, <2>2 DEF ResetLog, linkVars
  <2>4. QED BY <2>1, <2>3 DEF CopyInv, Busy
<1> SUFFICES ASSUME ~ResetLog PROVE CopyInv'
  BY <1>7
<1>0. ~stale /\ LinkOwned /\ CallOwned /\ CopyInv /\ TypeOK /\ CallOK
  <2>1. stale' = stale
    BY DEF Next, Client, Library, ProcessRx, Fee, Link, vars, Sync, SyncData, Prepare, Set,
           SyncStatus, ResetLog, RxDone, RxUndecodable, RxUnknown, RxMatch,
           SyncDataPrepare, SyncDataBusy, SubmitTx, SubmitTxFails, FeeExecute,
           FeeReject, FeeUpdate, LoseCommand, LoseReply
  <2>2. QED BY <2>1 DEF OwnInv, TypeInv, SyncInv
<1> USE <1>0
<1>1. ASSUME UNCHANGED <<mirror, fee, logVars, linkVars, claim>>,
             phase' \in {"drain", "grab"} => call' = call /\ phase \in {"drain", "grab"}
      PROVE  CopyInv'
  BY <1>1, CopyTails DEF linkVars
<1>2. ASSUME NEW op \in Ops, NEW r \in Regs, Prepare(op, r), ~Busy(r)
      PROVE  CopyInv'
  <2>1. PICK s \in Slots : GrabSlot(s, r)
    BY <1>2 DEF Prepare
  <2>2. ~in_use[s]
    BY <2>1 DEF GrabSlot, FirstFree, FreeSlots
  <2>3. UsedSlots' = UsedSlots \cup {s}
    BY <2>1, <2>2 DEF UsedSlots, GrabSlot, TypeOK
  <2>4. local_addr'[s] = r /\ \A t \in UsedSlots : local_addr'[t] = local_addr[t]
    BY <2>1, <2>2 DEF UsedSlots, GrabSlot, TypeOK
  <2>5. \A t \in UsedSlots : local_addr[t] # r
    BY <1>2 DEF Busy
  <2>6. \A t, u \in UsedSlots' : local_addr'[t] = local_addr'[u] => t = u
    BY <2>3, <2>4, <2>5 DEF CopyInv
  <2>7. \A q \in Regs : Busy(q) => Busy(q)'
    BY <2>3, <2>4 DEF Busy
  <2>8. phase' \notin {"drain", "grab"} /\ UNCHANGED <<mirror, fee, linkVars, claim>>
    BY <1>2 DEF Prepare
  <2>9. QED BY <2>6, <2>7, <2>8 DEF CopyInv, linkVars
<1>3. ASSUME NEW op \in Ops, NEW r \in Regs, Sync(op, r) PROVE CopyInv'
  BY <1>2, <1>3 DEF Sync, MayTouch, Busy
<1>4. ASSUME NEW op \in Ops, NEW r \in Regs, SyncData(op, r) PROVE CopyInv'
  <2>1. ~Busy(r) /\ call'.reg = r
    BY <1>4 DEF SyncData, MayTouch, Busy
  <2>2. ~Busy(call.reg)'
    BY <1>4, <2>1 DEF SyncData, Busy, UsedSlots, logVars
  <2>3. QED
    BY <1>4, <2>2 DEF SyncData, CopyInv, Busy, UsedSlots, logVars, linkVars
<1>5. ASSUME NEW r \in Regs, NEW v \in Vals, Set(r, v) PROVE CopyInv'
  <2>1. /\ claim'[r] = "none"
        /\ \A q \in Regs \ {r} : claim'[q] = claim[q] /\ mirror'[q] = mirror[q]
    BY <1>5 DEF Set, TypeOK
  <2>2. \A q \in Regs : claim'[q] = "sent" => claim[q] = "sent" /\ mirror'[q] = mirror[q]
    BY <2>1
  <2>3. QED
    BY <1>5, <2>2, PacketTypes
    DEF Set, CopyInv, Busy, UsedSlots, logVars, linkVars
<1>6. CASE SyncStatus
  BY <1>1, <1>6 DEF SyncStatus
<1>8. CASE RxDone
  <2>1. phase' \in {"grab", "tx", "idle"} /\ (phase' = "grab" => phase = "drain")
    BY <1>8 DEF RxDone, InRx, AfterRx
  <2>2. QED BY <1>1, <1>8, <2>1 DEF RxDone
<1>9. CASE RxUndecodable \/ RxUnknown
  BY <1>9, CopyTails DEF RxUndecodable, RxUnknown
<1>10. CASE RxMatch
  <2> DEFINE rp == Head(replies)
             t == rp.tr_id
             r == rp.reg
  <2>1. /\ DOMAIN replies' = 1 .. Len(replies) - 1
        /\ \A i \in DOMAIN replies' : replies'[i] = replies[i + 1] /\ i + 1 \in DOMAIN replies
        /\ \A i \in DOMAIN replies' : i + 1 # 1
        /\ 1 \in DOMAIN replies /\ rp = replies[1]
    BY <1>10 DEF RxMatch, TypeOK
  <2>2. t \in UsedSlots /\ local_addr[t] = r /\ r \in Regs /\ rp.op \in Ops
    BY <2>1, RegsApart, PacketTypes DEF LinkOwned, Owned
  <2>3. /\ UsedSlots' = UsedSlots \ {t} /\ local_addr' = local_addr
        /\ UNCHANGED <<cmds, fee, claim, phase, call>>
        /\ phase \notin {"drain", "grab"} => phase' \notin {"drain", "grab"}
    BY <1>10 DEF RxMatch, ReleaseSlot, UsedSlots, TypeOK
  <2>4. mirror' = IF rp.data = NoData THEN mirror ELSE [mirror EXCEPT ![r] = rp.data]
    BY <1>10, <2>2 DEF RxMatch
  <2>5. \A q \in Regs \ {r} : mirror'[q] = mirror[q]
    BY <2>4 DEF TypeOK
  <2>6. claim[r] = "sent" => mirror'[r] = fee[r]
    <3>1. claim[r] = "sent" =>
            IF rp.op = "read" THEN rp.data = fee[r] ELSE rp.data = NoData /\ mirror[r] = fee[r]
      BY <2>1 DEF CopyInv
    <3>2. fee[r] \in Vals
      BY <2>2 DEF TypeOK
    <3>3. QED BY <2>2, <2>4, <3>1, <3>2, RmapSyncAssumption DEF TypeOK
  <2>7. /\ \A q \in Regs : Busy(q)' => Busy(q)
        /\ \A q \in Regs \ {r} : Busy(q) => Busy(q)'
    BY <2>2, <2>3 DEF Busy
  <2>8. /\ \A i \in DOMAIN cmds : cmds[i].reg \in Regs \ {r}
        /\ \A i \in DOMAIN replies' : replies'[i].reg \in Regs \ {r}
    BY <2>1, RegsApart, PacketTypes
  <2> HIDE DEF r
  <2>9. \A q \in Regs : claim'[q] = "sent" => Busy(q)' \/ mirror'[q] = fee'[q]
    BY <2>3, <2>5, <2>6, <2>7 DEF CopyInv
  <2>10. phase' \in {"drain", "grab"} => ~Busy(call.reg)'
    BY <2>3, CallOK DEF CopyInv, CallOK, Call, Busy
  <2>11. QED
    BY <2>1, <2>3, <2>5, <2>8, <2>9, <2>10 DEF CopyInv
<1>11. CASE SyncDataPrepare
  BY <1>2, <1>11 DEF SyncDataPrepare, CallOK, Call, CopyInv
<1>12. CASE SyncDataBusy \/ SubmitTxFails
  BY <1>1, <1>12 DEF SyncDataBusy, SubmitTxFails
<1>13. CASE SubmitTx
  <2> DEFINE n == Len(cmds) + 1
             r == call.reg
  <2>1. /\ DOMAIN cmds' = 1 .. n
        /\ \A i \in DOMAIN cmds : cmds'[i] = cmds[i]
        /\ cmds'[n].reg = r
        /\ cmds'[n].op = "write" => cmds'[n].data = mirror[r]
        /\ \A i \in DOMAIN cmds' : i \in DOMAIN cmds \/ i = n
    BY <1>13 DEF SubmitTx, TypeOK
  <2>2. call.slot \in UsedSlots /\ local_addr[call.slot] = r /\ Unsent(call.slot)
    BY <1>13 DEF SubmitTx, CallOwned, CallOK, UsedSlots
  <2>3. /\ \A i \in DOMAIN cmds : cmds[i].reg # r
        /\ \A i \in DOMAIN replies : replies[i].reg # r
    BY <2>2, RegsApart DEF CopyInv, LinkOwned, Owned, Unsent
  <2>4. Busy(r)
    BY <2>2 DEF Busy
  <2>5. r \in Regs
    BY <1>13 DEF SubmitTx, CallOK, Call
  <2>6. /\ UNCHANGED <<mirror, fee, logVars, replies>> /\ phase' = "idle"
        /\ \A q \in Regs \ {r} : claim'[q] = claim[q]
    BY <1>13 DEF SubmitTx, TypeOK
  <2>7. \A q \in Regs : Busy(q)' <=> Busy(q)
    BY <2>6 DEF Busy, UsedSlots, logVars
  <2> HIDE DEF r
  <2>8. \A s, u \in UsedSlots' : local_addr'[s] = local_addr'[u] => s = u
    BY <2>6 DEF CopyInv, UsedSlots, logVars
  <2>9. QED
    BY <2>1, <2>3, <2>4, <2>5, <2>6, <2>7, <2>8, PacketTypes DEF CopyInv
<1>14. CASE FeeExecute \/ FeeReject
  <2> DEFINE c == Head(cmds)
             r == c.reg
             n == Len(replies) + 1
  <2>0. PICK p : cmds # <<>> /\ cmds' = Tail(cmds) /\ replies' = Append(replies, p)
    BY <1>14 DEF FeeExecute, FeeReject
  <2>1. /\ DOMAIN cmds' = 1 .. Len(cmds) - 1
        /\ \A i \in DOMAIN cmds' : cmds'[i] = cmds[i + 1] /\ i + 1 \in DOMAIN cmds
        /\ \A i \in DOMAIN cmds' : i + 1 # 1
        /\ 1 \in DOMAIN cmds /\ c = cmds[1]
    BY <2>0 DEF TypeOK
  <2>2. c \in Packet /\ r \in Regs /\ c.op \in Ops /\ Busy(r)
    <3>1. cmds[1] \in Command
      BY <2>1 DEF TypeOK
    <3>2. QED BY <2>1, <3>1, RegsApart, PacketTypes DEF Command
  <2>3. /\ \A i \in DOMAIN cmds' : cmds'[i].reg \in Regs \ {r}
        /\ \A i \in DOMAIN replies : replies[i].reg \in Regs \ {r}
    BY <2>1, RegsApart, PacketTypes
  <2>4. UNCHANGED <<mirror, logVars, phase, call>>
    BY <1>14 DEF FeeExecute, FeeReject
  <2>5. \A q \in Regs : Busy(q)' <=> Busy(q)
    BY <2>4 DEF Busy, UsedSlots, logVars
  <2>6. /\ DOMAIN replies' = 1 .. n
        /\ \A i \in DOMAIN replies : replies'[i] = replies[i]
        /\ \A i \in DOMAIN replies' : i \in DOMAIN replies \/ i = n
    BY <2>0 DEF TypeOK
  <2>7. /\ \A q \in Regs \ {r} : fee'[q] = fee[q]
        /\ \A q \in Regs : claim'[q] = "sent" => claim[q] = "sent"
    BY <1>14 DEF FeeExecute, FeeReject, TypeOK
  <2>8. /\ replies'[n].reg = r /\ replies'[n].op = c.op
        /\ claim'[r] = "sent" =>
             IF c.op = "read" THEN replies'[n].data = fee'[r]
             ELSE replies'[n].data = NoData /\ mirror[r] = fee'[r]
    <3>1. CASE FeeExecute
      <4> DEFINE d == IF c.op = "read" THEN fee[r] ELSE NoData
      <4>1. replies'[n] = [c EXCEPT !.data = d]
        BY <3>1 DEF FeeExecute, TypeOK
      <4>2. replies'[n].reg = r /\ replies'[n].op = c.op /\ replies'[n].data = d
        BY <4>1, <2>2 DEF Packet
      <4>3. claim'[r] = "sent" /\ c.op = "write" => mirror[r] = fee'[r]
        BY <3>1, <2>1, <2>2 DEF FeeExecute, CopyInv, TypeOK
      <4>4. c.op = "read" => fee'[r] = fee[r]
        BY <3>1 DEF FeeExecute
      <4>5. QED BY <4>2, <4>3, <4>4, <2>2 DEF Ops
    <3>2. CASE FeeReject
      <4>1. replies'[n] = [c EXCEPT !.data = NoData]
        BY <3>2 DEF FeeReject, TypeOK
      <4>2. claim'[r] = "refused"
        BY <3>2, <2>2 DEF FeeReject, TypeOK
      <4>3. QED BY <4>1, <4>2, <2>2 DEF Packet
    <3>3. QED BY <1>14, <3>1, <3>2
  <2> HIDE DEF r
  <2>9. \A s, u \in UsedSlots' : local_addr'[s] = local_addr'[u] => s = u
    BY <2>4 DEF CopyInv, UsedSlots, logVars
  <2>10. phase' \in {"drain", "grab"} => ~Busy(call.reg)'
    BY <2>4 DEF CopyInv, Busy, UsedSlots, logVars
  <2>11. \A q \in Regs : claim'[q] = "sent" => Busy(q)' \/ mirror'[q] = fee'[q]
    BY <2>2, <2>4, <2>5, <2>7 DEF CopyInv
  <2>12. \A i \in DOMAIN cmds' :
           claim'[cmds'[i].reg] = "sent" /\ cmds'[i].op = "write" =>
              cmds'[i].data = mirror'[cmds'[i].reg]
    BY <2>1, <2>3, <2>4, <2>7 DEF CopyInv
  <2>13. \A i \in DOMAIN replies' :
           claim'[replies'[i].reg] = "sent" =>
              IF replies'[i].op = "read"
              THEN replies'[i].data = fee'[replies'[i].reg]
              ELSE replies'[i].data = NoData /\ mirror'[replies'[i].reg] = fee'[replies'[i].reg]
    BY <2>3, <2>4, <2>6, <2>7, <2>8 DEF CopyInv
  <2>14. QED BY <2>4, <2>9, <2>10, <2>11, <2>12, <2>13 DEF CopyInv
<1>15. ASSUME NEW r \in Regs, NEW v \in Vals, FeeUpdate(r, v) PROVE CopyInv'
  <2>1. \A q \in Regs : claim'[q] = "sent" => claim[q] = "sent" /\ fee'[q] = fee[q]
    BY <1>15 DEF FeeUpdate, TypeOK
  <2>2. QED
    BY <1>15, <2>1, PacketTypes
    DEF FeeUpdate, CopyInv, Busy, UsedSlots, logVars, linkVars
<1>16. CASE LoseCommand \/ LoseReply
  BY <1>16, CopyTails DEF LoseCommand, LoseReply
<1>17. CASE UNCHANGED vars
  BY <1>1, <1>17 DEF vars, logVars, linkVars
<1>18. QED
  BY <1>3, <1>4, <1>5, <1>6, <1>7, <1>8, <1>9, <1>10, <1>11, <1>12, <1>13, <1>14,
     <1>15, <1>16, <1>17
  DEF Next, Client, Library, ProcessRx, Fee, Link

\* "0: synchronised": with nothing pending, a register whose last transfer the
\* FEE carried out is the same on both sides.
THEOREM SynchronisedCorrect == Spec => [](Patient => Synchronised)
<1>1. TypeInv /\ SyncInv => (Patient => Synchronised)
  <2> SUFFICES ASSUME TypeInv, SyncInv, Patient, pending = 0, ~stale,
                      NEW r \in Regs, claim[r] = "sent"
               PROVE  mirror[r] = fee[r]
    BY DEF Synchronised
  <2>1. IsFiniteSet(UsedSlots)
    BY UsedFinite, UsedSlots \in SUBSET Slots DEF UsedSlots
  <2>2. UsedSlots = {}
    BY <2>1, FS_EmptySet DEF TypeInv, PendingIsCount
  <2>3. QED BY <2>2 DEF SyncInv, CopyInv, Busy
<1>2. QED BY <1>1, TypeInit, TypeStep, OwnInit, OwnStep, CopyInit, CopyStep, PTL DEF Spec

-----------------------------------------------------------------------------
(* A slot in use stands for a packet under way.                            *)

\* Between calls and outside the window from taking a slot to using it.
OutInv ==
    \A s \in UsedSlots : \/ phase \in {"rx", "tx"} /\ call.slot = s
                         \/ ~Unsent(s)

LEMMA OutInit == Init => OutInv
BY DEF Init, OutInv, UsedSlots

\* Dropping the oldest reply can only be missed by the slot of that reply.
LEMMA TailUnsent ==
    ASSUME TypeOK, replies # <<>>, replies' = Tail(replies), UNCHANGED cmds,
           NEW s \in Slots, Head(replies).tr_id # s, ~Unsent(s)
    PROVE  ~Unsent(s)'
<1>1. /\ DOMAIN replies' = 1 .. Len(replies) - 1
      /\ \A i \in DOMAIN replies' : replies'[i] = replies[i + 1]
      /\ \A i \in DOMAIN replies : i = 1 \/ (i - 1 \in DOMAIN replies' /\ i - 1 + 1 = i)
      /\ Head(replies) = replies[1]
  BY DEF TypeOK
<1>2. QED BY <1>1 DEF Unsent

\* An answer takes the number of its command over.
LEMMA AnswerUnsent ==
    ASSUME TypeOK, cmds # <<>>, cmds' = Tail(cmds), NEW d,
           replies' = Append(replies, [Head(cmds) EXCEPT !.data = d]),
           NEW s \in Slots, ~Unsent(s)
    PROVE  ~Unsent(s)'
<1> DEFINE p == [Head(cmds) EXCEPT !.data = d]
<1>1. /\ \A i \in DOMAIN cmds' : cmds'[i] = cmds[i + 1]
      /\ \A i \in DOMAIN cmds : i = 1 \/ (i - 1 \in DOMAIN cmds' /\ i - 1 + 1 = i)
      /\ 1 \in DOMAIN cmds
      /\ Head(cmds) = cmds[1]
  BY DEF TypeOK
<1>2. p.tr_id = cmds[1].tr_id
  <2>1. cmds[1] \in Packet
    BY <1>1 DEF TypeOK, Command
  <2>2. QED BY <1>1, <2>1 DEF Packet
<1>3. /\ Len(replies) + 1 \in DOMAIN replies'
      /\ \A i \in DOMAIN replies : i \in DOMAIN replies' /\ replies'[i] = replies[i]
      /\ replies'[Len(replies) + 1] = p
  BY DEF TypeOK
<1> HIDE DEF p
<1>4. QED BY <1>1, <1>2, <1>3 DEF Unsent

\* The log may be reset and commands may be refused, as long as each command
\* is transmitted and answered and each reply can be read.
LEMMA OutStep ==
    ASSUME Faults \subseteq {"abort", "reject", "reset"}
    PROVE  TypeInv /\ OutInv /\ [Next]_vars => OutInv'
<1> SUFFICES ASSUME TypeInv, OutInv, [Next]_vars PROVE OutInv'
  OBVIOUS
<1> USE DEF TypeInv
<1>1. ASSUME UNCHANGED <<in_use, linkVars>>,
             phase \in {"rx", "tx"} => phase' \in {"rx", "tx"} /\ call' = call
      PROVE  OutInv'
  BY <1>1 DEF OutInv, UsedSlots, Unsent, linkVars
<1>2. ASSUME NEW op \in Ops, NEW r \in Regs, Prepare(op, r), phase \notin {"rx", "tx"}
      PROVE  OutInv'
  <2>1. PICK s \in Slots : /\ GrabSlot(s, r)
                           /\ phase' = "rx"
                           /\ call' = [op |-> op, reg |-> r, slot |-> s]
    BY <1>2 DEF Prepare
  <2>2. UsedSlots' = UsedSlots \cup {s} /\ UNCHANGED linkVars
    BY <1>2, <2>1 DEF UsedSlots, GrabSlot, TypeOK, Prepare
  <2>3. QED BY <1>2, <2>1, <2>2 DEF OutInv, Unsent, linkVars
<1>3. ASSUME NEW op \in Ops, NEW r \in Regs, Sync(op, r) PROVE OutInv'
  BY <1>2, <1>3 DEF Sync
<1>4. ASSUME NEW op \in Ops, NEW r \in Regs, SyncData(op, r) PROVE OutInv'
  BY <1>1, <1>4 DEF SyncData, logVars
<1>5. ASSUME NEW r \in Regs, NEW v \in Vals, Set(r, v) PROVE OutInv'
  BY <1>1, <1>5 DEF Set, logVars
<1>6. CASE SyncStatus
  BY <1>1, <1>6 DEF SyncStatus, logVars
<1>7. CASE ResetLog
  BY <1>7 DEF ResetLog, OutInv, UsedSlots
<1>8. CASE RxDone
  <2>1. phase = "rx" => phase' = "tx"
    BY <1>8 DEF RxDone, InRx, AfterRx
  <2>2. phase # "tx"
    BY <1>8 DEF RxDone, InRx
  <2>3. QED BY <1>1, <1>8, <2>1, <2>2 DEF RxDone, logVars
<1>9. CASE RxUnknown \/ RxMatch
  <2> DEFINE t == Head(replies).tr_id
  <2>1. /\ replies # <<>> /\ replies' = Tail(replies)
        /\ UNCHANGED <<cmds, phase, call>>
    BY <1>9 DEF RxUnknown, RxMatch
  <2>2. t \in Slots
    <3>1. Head(replies) \in Packet
      BY <2>1 DEF TypeOK
    <3>2. QED BY <3>1 DEF Packet
  <2>3. UsedSlots' \subseteq UsedSlots \ {t}
    <3>1. CASE RxUnknown
      BY <3>1, <2>2 DEF RxUnknown, UsedSlots, logVars
    <3>2. CASE RxMatch
      BY <3>2, <2>2 DEF RxMatch, ReleaseSlot, UsedSlots, TypeOK
    <3>3. QED BY <1>9, <3>1, <3>2
  <2>4. \A s \in UsedSlots' : ~Unsent(s) => ~Unsent(s)'
    BY <2>1, <2>3, TailUnsent DEF UsedSlots
  <2>5. QED BY <2>1, <2>3, <2>4 DEF OutInv
<1>10. CASE SyncDataPrepare
  BY <1>2, <1>10 DEF SyncDataPrepare, CallOK, Call
<1>11. CASE SyncDataBusy
  BY <1>1, <1>11 DEF SyncDataBusy, logVars
<1>12. CASE SubmitTx
  <2>1. /\ \A i \in DOMAIN cmds : i \in DOMAIN cmds' /\ cmds'[i] = cmds[i]
        /\ Len(cmds) + 1 \in DOMAIN cmds'
        /\ cmds'[Len(cmds) + 1].tr_id = call.slot
    BY <1>12 DEF SubmitTx, TypeOK
  <2>2. UNCHANGED <<in_use, replies>> /\ phase' = "idle"
    BY <1>12 DEF SubmitTx, logVars
  <2>3. QED BY <2>1, <2>2 DEF OutInv, UsedSlots, Unsent
<1>13. CASE FeeExecute \/ FeeReject
  <2>1. PICK d : replies' = Append(replies, [Head(cmds) EXCEPT !.data = d])
    BY <1>13 DEF FeeExecute, FeeReject
  <2>2. cmds # <<>> /\ cmds' = Tail(cmds) /\ UNCHANGED <<in_use, phase, call>>
    BY <1>13 DEF FeeExecute, FeeReject, logVars
  <2>3. \A s \in Slots : ~Unsent(s) => ~Unsent(s)'
    BY <2>1, <2>2, AnswerUnsent
  <2>4. QED BY <2>2, <2>3 DEF OutInv, UsedSlots
<1>14. ASSUME NEW r \in Regs, NEW v \in Vals, FeeUpdate(r, v) PROVE OutInv'
  BY <1>1, <1>14 DEF FeeUpdate, logVars
<1>15. CASE UNCHANGED vars
  BY <1>1, <1>15 DEF vars, linkVars
<1>16. ~RxUndecodable /\ ~SubmitTxFails /\ ~LoseCommand /\ ~LoseReply
  BY DEF RxUndecodable, SubmitTxFails, LoseCommand, LoseReply
<1>17. QED
  BY <1>3, <1>4, <1>5, <1>6, <1>7, <1>8, <1>9, <1>10, <1>11, <1>12, <1>13, <1>14,
     <1>15, <1>16
  DEF Next, Client, Library, ProcessRx, Fee, Link

\* "> 0: operations pending": between calls, a slot in use stands for a
\* command or reply that is under way.
THEOREM PendingOutstanding ==
    ASSUME Faults \subseteq {"abort", "reject", "reset"}
    PROVE  Spec => []PendingMeansOutstanding
<1>1. TypeInv /\ OutInv => PendingMeansOutstanding
  <2> SUFFICES ASSUME TypeInv, OutInv, phase = "idle", NEW s \in UsedSlots
               PROVE  \E i \in DOMAIN InFlight : InFlight[i].tr_id = s
    BY DEF PendingMeansOutstanding
  <2>1. replies \in Seq(Packet) /\ cmds \in Seq(Packet)
    BY DEF TypeInv, TypeOK, Command
  <2>2. /\ \A i \in DOMAIN replies : i \in DOMAIN InFlight /\ InFlight[i] = replies[i]
        /\ \A i \in DOMAIN cmds :
             Len(replies) + i \in DOMAIN InFlight /\ InFlight[Len(replies) + i] = cmds[i]
    BY <2>1 DEF InFlight
  <2>3. QED BY <2>2 DEF OutInv, Unsent
<1>2. QED BY <1>1, TypeInit, TypeStep, OutInit, OutStep, PTL DEF Spec

-----------------------------------------------------------------------------
(* The log implements a queue of copies.                                   *)

\* What may fail without a command or reply getting lost or refused.
Harmless == {"gen", "tx", "abort"}

\* A reply carries data if it answers a read, and only then.
ReplyInv ==
    \A i \in DOMAIN replies :
        IF replies[i].op = "read" THEN replies[i].data \in Vals
        ELSE replies[i].data = NoData

\* The log has never been reset.
CleanInv == ~stale /\ OwnInv /\ ReplyInv

\* An entry of the abstract queue, made from a packet.
Entry(p, done) == [reg |-> p.reg, op |-> p.op, data |-> p.data, done |-> done]

Entries == [reg : Regs, op : Ops, data : Vals \cup {NoData}, done : BOOLEAN]

LEMMA EntryTyped ==
    ASSUME NEW p \in Packet, NEW done \in BOOLEAN
    PROVE  Entry(p, done) \in Entries
BY DEF Packet, Entry, Entries

\* The abstract queue for given replies and commands.
QueueOf(rs, cs) ==
    [i \in DOMAIN (rs \o cs) |-> Entry((rs \o cs)[i], i <= Len(rs))]

LEMMA QueueIsQueueOf == /\ CopyQueue = QueueOf(replies, cmds)
                        /\ CopyQueue' = QueueOf(replies', cmds')
BY DEF CopyQueue, QueueOf, InFlight, Entry

\* It is the replies as done, then the commands as not done.
LEMMA QueueShape ==
    ASSUME NEW rs \in Seq(Packet), NEW cs \in Seq(Packet)
    PROVE  /\ QueueOf(rs, cs) \in Seq(Entries)
           /\ Len(QueueOf(rs, cs)) = Len(rs) + Len(cs)
           /\ \A i \in 1 .. Len(rs) : QueueOf(rs, cs)[i] = Entry(rs[i], TRUE)
           /\ \A i \in 1 .. Len(cs) :
                QueueOf(rs, cs)[Len(rs) + i] = Entry(cs[i], FALSE)
<1> DEFINE f == rs \o cs
           q == QueueOf(rs, cs)
<1>1. /\ f \in Seq(Packet)
      /\ Len(f) = Len(rs) + Len(cs)
      /\ \A i \in 1 .. Len(rs) + Len(cs) :
           f[i] = IF i <= Len(rs) THEN rs[i] ELSE cs[i - Len(rs)]
  BY ConcatProperties
<1>2. DOMAIN f = 1 .. Len(rs) + Len(cs)
  BY <1>1
<1> HIDE DEF f
<1>3. q = [i \in 1 .. Len(rs) + Len(cs) |-> Entry(f[i], i <= Len(rs))]
  BY <1>2 DEF QueueOf, f
<1> HIDE DEF q
<1>4. Len(rs) \in Nat /\ Len(cs) \in Nat
  OBVIOUS
<1>5. \A i \in 1 .. Len(rs) + Len(cs) : Entry(f[i], i <= Len(rs)) \in Entries
  <2> TAKE i \in 1 .. Len(rs) + Len(cs)
  <2>1. f[i] \in Packet
    BY <1>1, <1>2
  <2>2. \A done \in BOOLEAN : Entry(f[i], done) \in Entries
    BY <2>1, EntryTyped
  <2>3. (i <= Len(rs)) \in BOOLEAN
    BY <1>4
  <2>4. QED BY <2>2, <2>3
<1>6. q \in Seq(Entries) /\ Len(q) = Len(rs) + Len(cs)
  BY <1>3, <1>4, <1>5
<1>7. \A i \in 1 .. Len(rs) : q[i] = Entry(rs[i], TRUE)
  <2> TAKE i \in 1 .. Len(rs)
  <2>1. i \in 1 .. Len(rs) + Len(cs) /\ (i <= Len(rs)) = TRUE
    BY <1>4
  <2>2. QED BY <1>1, <1>3, <2>1
<1>8. \A i \in 1 .. Len(cs) : q[Len(rs) + i] = Entry(cs[i], FALSE)
  <2> TAKE i \in 1 .. Len(cs)
  <2>1. /\ Len(rs) + i \in 1 .. Len(rs) + Len(cs)
        /\ (Len(rs) + i <= Len(rs)) = FALSE
        /\ Len(rs) + i - Len(rs) = i
    BY <1>4
  <2>2. f[Len(rs) + i] = cs[i]
    BY <1>1, <2>1
  <2>3. q[Len(rs) + i] = Entry(f[Len(rs) + i], Len(rs) + i <= Len(rs))
    BY <1>3, <2>1
  <2>4. QED BY <2>1, <2>2, <2>3
<1>9. QED BY <1>6, <1>7, <1>8 DEF q

\* A queue with the given elements is the one made from these packets.
LEMMA QueueEqual ==
    ASSUME NEW rs \in Seq(Packet), NEW cs \in Seq(Packet),
           NEW q \in Seq(Entries), Len(q) = Len(rs) + Len(cs),
           \A i \in 1 .. Len(rs) : q[i] = Entry(rs[i], TRUE),
           \A i \in 1 .. Len(cs) : q[Len(rs) + i] = Entry(cs[i], FALSE)
    PROVE  q = QueueOf(rs, cs)
<1> DEFINE w == QueueOf(rs, cs)
           m == Len(rs)
           n == Len(cs)
<1>1. /\ w \in Seq(Entries) /\ Len(w) = m + n
      /\ \A i \in 1 .. m : w[i] = Entry(rs[i], TRUE)
      /\ \A i \in 1 .. n : w[m + i] = Entry(cs[i], FALSE)
  BY QueueShape
<1>0. m \in Nat /\ n \in Nat
  OBVIOUS
<1> HIDE DEF w
<1>2. \A i \in 1 .. Len(q) : q[i] = w[i]
  <2> TAKE i \in 1 .. Len(q)
  <2>1. CASE i \in 1 .. m
    BY <2>1, <1>1
  <2>2. CASE i \notin 1 .. m
    <3>1. i - m \in 1 .. n /\ m + (i - m) = i
      BY <2>2, <1>0
    <3>2. QED BY <3>1, <1>1
  <2>3. QED BY <2>1, <2>2
<1>3. q = w
  BY <1>1, <1>2, SeqEqual
<1>4. QED BY <1>3 DEF w

LEMMA CleanInit == Init => CleanInv
BY OwnInit DEF Init, CleanInv, ReplyInv

LEMMA CleanStep ==
    ASSUME Faults \subseteq Harmless
    PROVE  TypeInv /\ CleanInv /\ [Next]_vars => CleanInv'
<1> SUFFICES ASSUME TypeInv, CleanInv, [Next]_vars PROVE CleanInv'
  OBVIOUS
<1>1. OwnInv'
  BY OwnStep DEF CleanInv
<1>2. stale' = stale
  BY DEF Harmless, Next, Client, Library, ProcessRx, Fee, Link, vars, Sync, SyncData, Prepare,
         Set, SyncStatus, ResetLog, RxDone, RxUndecodable, RxUnknown, RxMatch,
         SyncDataPrepare, SyncDataBusy, SubmitTx, SubmitTxFails, FeeExecute,
         FeeReject, FeeUpdate, LoseCommand, LoseReply
<1>3. \/ replies' = replies
      \/ replies # <<>> /\ replies' = Tail(replies)
      \/ FeeExecute
  BY DEF Harmless, Next, Client, Library, ProcessRx, Fee, Link, vars, Sync, SyncData, Prepare,
         Set, SyncStatus, ResetLog, RxDone, RxUndecodable, RxUnknown, RxMatch,
         SyncDataPrepare, SyncDataBusy, SubmitTx, SubmitTxFails, linkVars,
         FeeReject, FeeUpdate, LoseCommand, LoseReply
<1>4. ReplyInv'
  <2>1. CASE replies' = replies
    BY <2>1 DEF CleanInv, ReplyInv
  <2>2. CASE replies # <<>> /\ replies' = Tail(replies)
    <3>1. \A i \in DOMAIN replies' : i + 1 \in DOMAIN replies /\ replies'[i] = replies[i + 1]
      BY <2>2 DEF TypeInv, TypeOK
    <3>2. QED BY <3>1 DEF CleanInv, ReplyInv
  <2>3. CASE FeeExecute
    <3> DEFINE c == Head(cmds)
               d == IF c.op = "read" THEN fee[c.reg] ELSE NoData
    <3>1. replies' = Append(replies, [c EXCEPT !.data = d])
      BY <2>3 DEF FeeExecute
    <3>2. c \in Packet
      BY <2>3 DEF FeeExecute, TypeInv, TypeOK, Command
    <3>3. [c EXCEPT !.data = d].op = c.op /\ [c EXCEPT !.data = d].data = d
      BY <3>2 DEF Packet
    <3>4. c.op = "read" => d \in Vals
      BY <3>2 DEF Packet, TypeInv, TypeOK
    <3>5. \A i \in DOMAIN replies' : \/ i \in DOMAIN replies /\ replies'[i] = replies[i]
                                     \/ replies'[i] = [c EXCEPT !.data = d]
      BY <3>1 DEF TypeInv, TypeOK
    <3> HIDE DEF c
    <3>6. QED BY <3>3, <3>4, <3>5 DEF CleanInv, ReplyInv
  <2>4. QED BY <1>3, <2>1, <2>2, <2>3
<1>5. QED BY <1>1, <1>2, <1>4 DEF CleanInv

\* Handing a command to rmap_tx asks for the copy.
LEMMA AskStep ==
    ASSUME TypeInv, TypeInv', SubmitTx
    PROVE  Copies!Ask(call.op, call.reg)
<1> DEFINE e == [reg |-> call.reg, op |-> call.op, done |-> FALSE,
                 data |-> IF call.op = "write" THEN mirror[call.reg] ELSE NoData]
           c == [tr_id |-> call.slot, reg |-> call.reg, op |-> call.op,
                 data |-> IF call.op = "write" THEN mirror[call.reg] ELSE NoData]
           q == QueueOf(replies, cmds)
           m == Len(replies)
           n == Len(cmds)
<1>1. /\ cmds' = Append(cmds, c) /\ replies' = replies
      /\ UNCHANGED <<mirror, fee>>
  BY DEF SubmitTx
<1>2. c \in Packet /\ replies \in Seq(Packet) /\ cmds \in Seq(Packet)
  <2>1. call.slot \in Slots /\ call.reg \in Regs /\ call.op \in Ops
    BY DEF SubmitTx, TypeInv, CallOK, Call
  <2>2. mirror[call.reg] \in Vals
    BY <2>1 DEF TypeInv, TypeOK
  <2>3. c \in Packet
    BY <2>1, <2>2 DEF Packet
  <2>4. QED BY <2>3 DEF TypeInv, TypeOK, Command
<1>3. Entry(c, FALSE) = e
  BY DEF Entry
<1>4. e \in Entries
  BY <1>2, <1>3, EntryTyped
<1> HIDE DEF e, c
<1>5. /\ cmds' \in Seq(Packet) /\ Len(cmds') = n + 1
      /\ \A i \in 1 .. n : cmds'[i] = cmds[i]
      /\ cmds'[n + 1] = c
      /\ m \in Nat /\ n \in Nat
  BY <1>1, <1>2
<1>6. /\ q \in Seq(Entries) /\ Len(q) = m + n
      /\ \A i \in 1 .. m : q[i] = Entry(replies[i], TRUE)
      /\ \A i \in 1 .. n : q[m + i] = Entry(cmds[i], FALSE)
  BY <1>2, QueueShape
<1> HIDE DEF q, m, n
<1> DEFINE w == Append(q, e)
<1>7. /\ w \in Seq(Entries) /\ Len(w) = m + n + 1
      /\ \A i \in 1 .. m + n : w[i] = q[i]
      /\ w[m + n + 1] = e
  BY <1>4, <1>5, <1>6
<1> HIDE DEF w
<1>8. \A i \in 1 .. n + 1 : w[m + i] = Entry(cmds'[i], FALSE)
  <2> TAKE i \in 1 .. n + 1
  <2>1. CASE i = n + 1
    <3>1. m + i = m + n + 1
      BY <2>1, <1>5
    <3>2. w[m + i] = e
      BY <3>1, <1>7
    <3>3. QED BY <2>1, <3>2, <1>3, <1>5
  <2>2. CASE i # n + 1
    <3>1. i \in 1 .. n /\ m + i \in 1 .. m + n
      BY <2>2, <1>5
    <3>2. w[m + i] = q[m + i]
      BY <3>1, <1>7
    <3>3. q[m + i] = Entry(cmds[i], FALSE)
      BY <3>1, <1>6
    <3>4. cmds'[i] = cmds[i]
      BY <3>1, <1>5
    <3>5. QED BY <3>2, <3>3, <3>4
  <2>3. QED BY <2>1, <2>2
<1>9. \A i \in 1 .. m : w[i] = Entry(replies[i], TRUE)
  <2> TAKE i \in 1 .. m
  <2>1. i \in 1 .. m + n
    BY <1>5
  <2>2. w[i] = q[i]
    BY <2>1, <1>7
  <2>3. QED BY <2>2, <1>6
<1>10. Len(w) = Len(replies) + Len(cmds')
  BY <1>5, <1>7 DEF m
<1>11. w = QueueOf(replies, cmds')
  BY <1>2, <1>5, <1>7, <1>8, <1>9, <1>10, QueueEqual DEF m
<1>12. CopyQueue' = Append(CopyQueue, e)
  BY <1>1, <1>11, QueueIsQueueOf DEF w, q
<1>13. QED BY <1>1, <1>12 DEF Copies!Ask, e

\* What the FEE does with the oldest command is what is done with the oldest
\* copy that it has not seen.
LEMMA PerformStep ==
    ASSUME TypeInv, TypeInv', FeeExecute
    PROVE  Copies!Perform(Len(replies) + 1)
<1> DEFINE c == Head(cmds)
           d == IF c.op = "read" THEN fee[c.reg] ELSE NoData
           p == [c EXCEPT !.data = d]
           q == QueueOf(replies, cmds)
           w == [q EXCEPT ![Len(replies) + 1] = Entry(p, TRUE)]
           m == Len(replies)
           n == Len(cmds)
<1>1. /\ cmds # <<>> /\ cmds' = Tail(cmds) /\ replies' = Append(replies, p)
      /\ fee' = IF c.op = "write" THEN [fee EXCEPT ![c.reg] = c.data] ELSE fee
      /\ mirror' = mirror
  BY DEF FeeExecute
<1>2. replies \in Seq(Packet) /\ cmds \in Seq(Packet)
  BY DEF TypeInv, TypeOK, Command
<1>3. replies' \in Seq(Packet) /\ cmds' \in Seq(Packet)
  BY DEF TypeInv, TypeOK, Command
<1>4. c \in Packet /\ c = cmds[1]
  BY <1>1, <1>2
<1>5. c.op \in Ops /\ d \in Vals \cup {NoData}
  BY <1>4 DEF Packet, TypeInv, TypeOK
<1>6. p = [tr_id |-> c.tr_id, reg |-> c.reg, op |-> c.op, data |-> d]
  BY <1>4 DEF Packet
<1> HIDE DEF c, d
<1>7. Entry(p, TRUE) = [reg |-> c.reg, op |-> c.op, data |-> d, done |-> TRUE]
  BY <1>6 DEF Entry
<1> HIDE DEF p
<1>8. /\ m \in Nat /\ n \in Nat \ {0}
      /\ Len(replies') = m + 1 /\ Len(cmds') = n - 1
  BY <1>1, <1>2
<1>9. /\ \A i \in 1 .. m : replies'[i] = replies[i]
      /\ replies'[m + 1] = p
  BY <1>1, <1>2
<1>10. \A i \in 1 .. n - 1 : cmds'[i] = cmds[i + 1]
  BY <1>1, <1>2
<1>11. /\ q \in Seq(Entries) /\ Len(q) = m + n
       /\ \A i \in 1 .. m : q[i] = Entry(replies[i], TRUE)
       /\ \A i \in 1 .. n : q[m + i] = Entry(cmds[i], FALSE)
  BY <1>2, QueueShape
<1> HIDE DEF q, m, n
<1>12. m + 1 \in 1 .. m + n /\ 1 \in 1 .. n
  BY <1>8
<1>13. q[m + 1] = [reg |-> c.reg, op |-> c.op, data |-> c.data, done |-> FALSE]
  BY <1>4, <1>11, <1>12 DEF Entry
<1>14. w = [q EXCEPT ![m + 1] = Entry(p, TRUE)]
  BY DEF m
<1>15. p \in Packet
  BY <1>4, <1>5, <1>6 DEF Packet
<1>16. /\ w \in Seq(Entries) /\ Len(w) = m + n
       /\ \A i \in 1 .. m + n : w[i] = IF i = m + 1 THEN Entry(p, TRUE) ELSE q[i]
  <2> DEFINE x == Entry(p, TRUE)
  <2>1. x \in Entries
    BY <1>15, EntryTyped
  <2>2. w = [q EXCEPT ![m + 1] = x]
    BY <1>14
  <2> HIDE DEF w, x
  <2>3. m + 1 \in 1 .. Len(q)
    BY <1>11, <1>12
  <2>4. /\ w \in Seq(Entries) /\ Len(w) = m + n
        /\ \A i \in 1 .. m + n : w[i] = IF i = m + 1 THEN x ELSE q[i]
    BY <1>11, <2>1, <2>2, <2>3
  <2>5. QED BY <2>4 DEF x
<1> HIDE DEF w
<1>17. \A i \in 1 .. m + 1 : w[i] = Entry(replies'[i], TRUE)
  <2> TAKE i \in 1 .. m + 1
  <2>1. i \in 1 .. m + n /\ (i # m + 1 => i \in 1 .. m)
    BY <1>8
  <2>2. CASE i = m + 1
    BY <2>1, <2>2, <1>9, <1>16
  <2>3. CASE i # m + 1
    <3>1. w[i] = q[i]
      BY <2>1, <2>3, <1>16
    <3>2. QED BY <2>1, <2>3, <3>1, <1>9, <1>11
  <2>4. QED BY <2>2, <2>3
<1>18. \A i \in 1 .. n - 1 : w[(m + 1) + i] = Entry(cmds'[i], FALSE)
  <2> TAKE i \in 1 .. n - 1
  <2>1. /\ (m + 1) + i \in 1 .. m + n /\ (m + 1) + i # m + 1
        /\ i + 1 \in 1 .. n /\ (m + 1) + i = m + (i + 1)
    BY <1>8
  <2>2. w[(m + 1) + i] = q[(m + 1) + i]
    BY <2>1, <1>16
  <2>3. q[m + (i + 1)] = Entry(cmds[i + 1], FALSE)
    BY <2>1, <1>11
  <2>4. cmds'[i] = cmds[i + 1]
    BY <1>10
  <2>5. QED BY <2>1, <2>2, <2>3, <2>4
<1>19. Len(w) = Len(replies') + Len(cmds')
  BY <1>8, <1>16
<1>20. w = QueueOf(replies', cmds')
  <2>1. \A i \in 1 .. Len(replies') : w[i] = Entry(replies'[i], TRUE)
    BY <1>8, <1>17
  <2>2. \A i \in 1 .. Len(cmds') : w[Len(replies') + i] = Entry(cmds'[i], FALSE)
    BY <1>8, <1>18
  <2>3. QED BY <1>3, <1>16, <1>19, <2>1, <2>2, QueueEqual
<1>21. CopyQueue' = w /\ CopyQueue = q
  BY <1>20, QueueIsQueueOf DEF q
<1> DEFINE k == m + 1
<1>22. /\ k \in DOMAIN CopyQueue
       /\ ~CopyQueue[k].done
       /\ \A j \in 1 .. k - 1 : CopyQueue[j].done
  <2>1. \A x : Entry(x, TRUE).done
    BY DEF Entry
  <2>2. \A j \in 1 .. m : q[j].done
    BY <1>11, <2>1
  <2>3. 1 .. k - 1 = 1 .. m
    BY <1>8
  <2>4. k \in DOMAIN q
    BY <1>11, <1>12
  <2>5. ~q[k].done
    BY <1>13
  <2> HIDE DEF k
  <2>6. QED BY <1>21, <2>2, <2>3, <2>4, <2>5
<1>23. /\ CopyQueue[k].reg = c.reg /\ CopyQueue[k].op = c.op
       /\ CopyQueue[k].data = c.data
  BY <1>13, <1>21
<1>24. CopyQueue' = [CopyQueue EXCEPT ![k] = Entry(p, TRUE)]
  BY <1>14, <1>21
<1> HIDE DEF k, w
<1>25. c.op = "write" => Copies!Perform(k)
  <2> HAVE c.op = "write"
  <2>1. fee' = [fee EXCEPT ![CopyQueue[k].reg] = CopyQueue[k].data]
    BY <1>1, <1>23
  <2>2. Copies!Answered(CopyQueue[k], NoData) = Entry(p, TRUE)
    BY <1>7, <1>23 DEF Copies!Answered, d
  <2>3. QED BY <1>1, <1>22, <1>23, <1>24, <2>1, <2>2 DEF Copies!Perform
<1>26. c.op = "read" => Copies!Perform(k)
  <2> HAVE c.op = "read"
  <2>1. fee' = fee
    BY <1>1
  <2>2. Copies!Answered(CopyQueue[k], fee[CopyQueue[k].reg]) = Entry(p, TRUE)
    BY <1>7, <1>23 DEF Copies!Answered, d
  <2>3. QED BY <1>1, <1>22, <1>23, <1>24, <2>1, <2>2 DEF Copies!Perform
<1>27. Copies!Perform(k)
  BY <1>5, <1>25, <1>26 DEF Ops
<1>28. QED BY <1>27 DEF k, m

\* A reply that is found in the log completes the oldest copy.
LEMMA CompleteStep ==
    ASSUME TypeInv, TypeInv', CleanInv, RxMatch
    PROVE  Copies!Complete
<1> DEFINE rp == Head(replies)
           q == QueueOf(replies, cmds)
           m == Len(replies)
           n == Len(cmds)
<1>1. /\ replies # <<>> /\ replies' = Tail(replies) /\ cmds' = cmds
      /\ mirror' = IF rp.data = NoData THEN mirror
                   ELSE [mirror EXCEPT ![local_addr[rp.tr_id]] = rp.data]
      /\ fee' = fee
  BY DEF RxMatch
<1>2. replies \in Seq(Packet) /\ cmds \in Seq(Packet)
  BY DEF TypeInv, TypeOK, Command
<1>3. replies' \in Seq(Packet) /\ cmds' \in Seq(Packet)
  BY DEF TypeInv, TypeOK, Command
<1>4. rp \in Packet /\ rp = replies[1] /\ 1 \in DOMAIN replies
  BY <1>1, <1>2
<1>5. local_addr[rp.tr_id] = rp.reg
  BY <1>4 DEF CleanInv, OwnInv, LinkOwned, Owned
<1>6. IF rp.op = "read" THEN rp.data \in Vals ELSE rp.data = NoData
  BY <1>4 DEF CleanInv, ReplyInv
<1> HIDE DEF rp
<1>7. mirror' = IF rp.op = "read" THEN [mirror EXCEPT ![rp.reg] = rp.data] ELSE mirror
  BY <1>1, <1>5, <1>6, RmapSyncAssumption
<1>8. /\ m \in Nat \ {0} /\ n \in Nat
      /\ Len(replies') = m - 1 /\ Len(cmds') = n
  BY <1>1, <1>2
<1>9. \A i \in 1 .. m - 1 : replies'[i] = replies[i + 1]
  BY <1>1, <1>2
<1>10. /\ q \in Seq(Entries) /\ Len(q) = m + n
       /\ \A i \in 1 .. m : q[i] = Entry(replies[i], TRUE)
       /\ \A i \in 1 .. n : q[m + i] = Entry(cmds[i], FALSE)
  BY <1>2, QueueShape
<1> HIDE DEF q, m, n
<1>11. q # <<>> /\ Head(q) = q[1] /\ 1 \in 1 .. m
  BY <1>8, <1>10
<1>12. q[1] = [reg |-> rp.reg, op |-> rp.op, data |-> rp.data, done |-> TRUE]
  BY <1>4, <1>10, <1>11 DEF Entry
<1> DEFINE w == Tail(q)
<1>13. /\ w \in Seq(Entries) /\ Len(w) = m + n - 1
       /\ \A i \in 1 .. m + n - 1 : w[i] = q[i + 1]
  BY <1>8, <1>10, <1>11
<1> HIDE DEF w
<1>14. \A i \in 1 .. m - 1 : w[i] = Entry(replies'[i], TRUE)
  <2> TAKE i \in 1 .. m - 1
  <2>1. i \in 1 .. m + n - 1 /\ i + 1 \in 1 .. m
    BY <1>8
  <2>2. w[i] = q[i + 1]
    BY <2>1, <1>13
  <2>3. q[i + 1] = Entry(replies[i + 1], TRUE)
    BY <2>1, <1>10
  <2>4. QED BY <2>2, <2>3, <1>9
<1>15. \A i \in 1 .. n : w[(m - 1) + i] = Entry(cmds'[i], FALSE)
  <2> TAKE i \in 1 .. n
  <2>1. (m - 1) + i \in 1 .. m + n - 1 /\ (m - 1) + i + 1 = m + i
    BY <1>8
  <2>2. w[(m - 1) + i] = q[m + i]
    BY <2>1, <1>13
  <2>3. q[m + i] = Entry(cmds[i], FALSE)
    BY <1>10
  <2>4. QED BY <2>2, <2>3, <1>1
<1>16. w = QueueOf(replies', cmds')
  <2>1. Len(w) = Len(replies') + Len(cmds')
    BY <1>8, <1>13
  <2>2. \A i \in 1 .. Len(replies') : w[i] = Entry(replies'[i], TRUE)
    BY <1>8, <1>14
  <2>3. \A i \in 1 .. Len(cmds') : w[Len(replies') + i] = Entry(cmds'[i], FALSE)
    BY <1>8, <1>15
  <2>4. QED BY <1>3, <1>13, <2>1, <2>2, <2>3, QueueEqual
<1>17. CopyQueue' = Tail(CopyQueue) /\ CopyQueue = q
  BY <1>16, QueueIsQueueOf DEF q, w
<1>18. Head(CopyQueue).done /\ CopyQueue # <<>>
  BY <1>11, <1>12, <1>17
<1>19. /\ Head(CopyQueue).reg = rp.reg /\ Head(CopyQueue).op = rp.op
       /\ Head(CopyQueue).data = rp.data
  BY <1>11, <1>12, <1>17
<1>20. mirror' = IF Head(CopyQueue).op = "read"
                 THEN [mirror EXCEPT ![Head(CopyQueue).reg] = Head(CopyQueue).data]
                 ELSE mirror
  BY <1>7, <1>19
<1>21. QED BY <1>1, <1>17, <1>18, <1>20 DEF Copies!Complete

\* Every step of the log is a step of the queue or leaves it alone.
LEMMA CopiesStep ==
    ASSUME Faults \subseteq Harmless
    PROVE  TypeInv /\ TypeInv' /\ CleanInv /\ [Next]_vars => [Copies!Next]_(Copies!vars)
<1> SUFFICES ASSUME TypeInv, TypeInv', CleanInv, [Next]_vars
             PROVE  Copies!Next \/ UNCHANGED Copies!vars
  OBVIOUS
<1>1. ASSUME UNCHANGED <<mirror, fee, linkVars>>
      PROVE  UNCHANGED Copies!vars
  BY <1>1, QueueIsQueueOf DEF Copies!vars, linkVars
<1>2. ASSUME NEW op \in Ops, NEW r \in Regs, Prepare(op, r) \/ SyncData(op, r)
      PROVE  UNCHANGED Copies!vars
  BY <1>1, <1>2 DEF Prepare, SyncData
<1>3. ASSUME NEW r \in Regs, NEW v \in Vals, Set(r, v)
      PROVE  Copies!Set(r, v)
  BY <1>3, QueueIsQueueOf DEF Set, Copies!Set, linkVars
<1>4. ASSUME NEW r \in Regs, NEW v \in Vals, FeeUpdate(r, v)
      PROVE  Copies!FeeUpdate(r, v)
  BY <1>4, QueueIsQueueOf DEF FeeUpdate, Copies!FeeUpdate, linkVars
<1>5. CASE SyncStatus \/ RxDone \/ SyncDataBusy \/ SubmitTxFails \/ UNCHANGED vars
  BY <1>1, <1>5 DEF SyncStatus, RxDone, SyncDataBusy, SubmitTxFails, vars, linkVars
<1>6. CASE SyncDataPrepare
  <2>1. call.op \in Ops /\ call.reg \in Regs
    BY <1>6 DEF SyncDataPrepare, TypeInv, CallOK, Call
  <2>2. QED BY <1>2, <1>6, <2>1 DEF SyncDataPrepare
<1>7. CASE SubmitTx
  <2>1. call.op \in {"read", "write"} /\ call.reg \in Regs
    BY <1>7 DEF SubmitTx, TypeInv, CallOK, Call, Ops
  <2>2. QED BY <1>7, <2>1, AskStep DEF Copies!Next
<1>8. CASE FeeExecute
  <2>1. Copies!Perform(Len(replies) + 1)
    BY <1>8, PerformStep
  <2>2. Len(replies) + 1 \in DOMAIN CopyQueue
    BY <2>1 DEF Copies!Perform
  <2>3. QED BY <2>1, <2>2 DEF Copies!Next
<1>9. CASE RxMatch
  BY <1>9, CompleteStep DEF Copies!Next
<1>10. ~RxUnknown
  <2> SUFFICES ASSUME RxUnknown PROVE FALSE
    OBVIOUS
  <2>1. replies # <<>> /\ ~in_use[Head(replies).tr_id]
    BY DEF RxUnknown
  <2>2. 1 \in DOMAIN replies /\ Head(replies) = replies[1]
    BY <2>1 DEF TypeInv, TypeOK
  <2>3. QED BY <2>1, <2>2 DEF CleanInv, OwnInv, LinkOwned, Owned
<1>11. ~RxUndecodable /\ ~ResetLog /\ ~FeeReject /\ ~LoseCommand /\ ~LoseReply
  BY DEF Harmless, RxUndecodable, ResetLog, FeeReject, LoseCommand, LoseReply
<1>12. ASSUME NEW op \in Ops, NEW r \in Regs, Sync(op, r)
       PROVE  UNCHANGED Copies!vars
  BY <1>2, <1>12 DEF Sync
<1>13. QED
  BY <1>2, <1>3, <1>4, <1>5, <1>6, <1>7, <1>8, <1>9, <1>10, <1>11, <1>12
  DEF Next, Client, Library, ProcessRx, Fee, Link, Copies!Next

\* As long as no packet is lost, damaged or refused and the log is not reset,
\* the transaction log carries out the copies asked for one after the other,
\* each one once and each one on the register it was asked for.
THEOREM CopiesImplemented ==
    ASSUME Faults \subseteq Harmless
    PROVE  Spec => ImplementsCopies
<1>1. Init => Copies!Init
  <2> SUFFICES ASSUME Init PROVE Copies!Init
    OBVIOUS
  <2>1. CopyQueue = <<>>
    BY DEF Init, CopyQueue, InFlight
  <2>2. QED BY <2>1 DEF Init, Copies!Init
<1>2. QED
  BY <1>1, TypeInit, TypeStep, CleanInit, CleanStep, CopiesStep, PTL
  DEF Spec, ImplementsCopies, Copies!Spec
=============================================================================
