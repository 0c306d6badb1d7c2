------------------------------ MODULE FeeLink ------------------------------
(***************************************************************************)
(* A client's test procedure (SDPDEV/sdpdev.c 60-440) and the simulator at *)
(* the two ends of a connection: commands up, replies and data packets     *)
(* down in one stream of octets, which two callbacks of the client share.  *)
(* Each looks at the head of the stream and leaves it alone unless it is a *)
(* packet of its own kind.  The transaction log is that of RmapSync, cut   *)
(* down to what is pending.                                                *)
(***************************************************************************)
EXTENDS RmapPacket, FiniteSets, FiniteSetsExt

CONSTANTS
    Procedures, \* sequences of steps: [op, addr, data, size]
    Slots,      \* of the transaction log
    ExecuteOp,  \* the address whose write starts the data packets
    Initial,    \* the octets at every address
    MaxData,    \* the data packets of the procedure
    MaxTries,   \* of sync_rmap(), 12 in the code
    Chunks,     \* octets that arrive together; the rest may, too
    Empties,    \* how often recv() may come up empty before octets arrive
    MaxMissed,  \* bound on the pieces for which it does
    Roomy,      \* sizes of packets for which malloc() has four octets to spare
    RegisterEnd,         \* the registers' addresses lie below,
    SramStart, SramEnd   \* FEE_SRAM_START, FEE_SRAM_END

\* Registers and SRAM lie below 2^24.
Step == [op : {"read", "write", "sync", "data"}, addr : U24, size : Nat,
         data : Seq(Octet)]

Transfers(step) == step.op \in {"read", "write"}

\* Where the simulator lets a command go.
Mapped(addr, len) ==
    addr < RegisterEnd \/ (addr >= SramStart /\ addr + len <= SramEnd)

ASSUME FeeLinkAssumption ==
    /\ Slots \subseteq 0..63 /\ IsFiniteSet(Slots)
    /\ Procedures \subseteq Seq(Step)
    /\ \A q \in Procedures : \A i \in DOMAIN q :
          /\ q[i].op = "read" => q[i].data = <<>> /\ q[i].size <= Len(Initial)
          /\ q[i].op = "write" => q[i].size = Len(q[i].data)
          /\ q[i].size + 17 \in U24          \* a package fits into a GRESB frame
          /\ Transfers(q[i]) => Mapped(q[i].addr, q[i].size)
    /\ \A q \in Procedures :              \* the log never runs full
          Cardinality({i \in DOMAIN q : Transfers(q[i])}) <= Cardinality(Slots)
    /\ Initial \in Seq(Octet)
    /\ {MaxData, MaxTries} \subseteq Nat \ {0}
    /\ Chunks \cup Empties \subseteq Nat \ {0}
    /\ {MaxMissed, RegisterEnd, SramStart, SramEnd} \subseteq Nat

ICU == 80     \* logical addresses
FEE == 81

VARIABLES
    todo,     \* the steps left of the procedure
    pc,       \* "next" step, "rmap": process_rx(), "read", "drain": a packet;
              \* "crashed" on a heap that was written out of bounds
    slot,     \* of the command that is being sent
    tries,    \* of sync_rmap()
    size,     \* pkt_size of the callback that is at work,
    block,    \* what is in its recv_buffer from the start of the block on,
    lead,     \* and how far in front of the block recv() is to write
    missed,   \* history: the pieces that were not there when asked for
    pending,  \* slots in use
    up,       \* frames on their way to the simulator
    fee,      \* the poll thread: [pc, pkt]
    mem,      \* the simulator's octets at each address
    trigger,  \* execute_op
    made,     \* data packets sent
    alive,    \* the simulator runs
    down,     \* all octets the simulator sent
    ends,     \* history: where the frames in them end, and how many of the
              \* replies and of the data packets are in front of there
    arrived,  \* how many of the octets the client's socket got
    taken,    \* and how many the client took
    replies,  \* history: the replies the simulator built
    gotReplies, gotData  \* what the callbacks handed over

stream == <<taken, block, lead, missed>>
clientVars == <<todo, pc, slot, tries, size, pending, stream, gotReplies, gotData>>
feeVars == <<fee, mem, trigger, made, alive, down, ends, replies>>
vars == <<clientVars, feeVars, up, arrived>>

Addresses == {step.addr : step \in UNION {Range(q) : q \in Procedures}}

Init ==
    /\ todo \in Procedures
    /\ pc = "next" /\ slot = -1 /\ tries = 0 /\ size = 0 /\ pending = {} /\ up = <<>>
    /\ fee = [pc |-> "rx", pkt |-> Invalid]
    /\ mem = [a \in Addresses |-> Initial] /\ trigger = FALSE /\ made = 0
    /\ alive = TRUE /\ down = <<>> /\ arrived = 0 /\ taken = 0
    /\ ends = {[at |-> 0, replies |-> 0, data |-> 0]}
    /\ block = <<>> /\ lead = 0 /\ missed = 0
    /\ replies = <<>> /\ gotReplies = <<>> /\ gotData = <<>>

-----------------------------------------------------------------------------
(***************************************************************************)
(* The network.                                                            *)
(***************************************************************************)
Arrive ==
    /\ arrived < Len(down)
    /\ arrived' \in {arrived + n : n \in Chunks} \cup {Len(down)}
    /\ arrived' <= Len(down)
    /\ UNCHANGED <<clientVars, feeVars, up>>

-----------------------------------------------------------------------------
(***************************************************************************)
(* The client's callbacks, rmap_rx() and pkt_rx().  With NULL they peek at *)
(* six octets and give the size of the next packet, or zero; with a buffer *)
(* they loop over recv() until they have the frame.  The socket does not   *)
(* block: where octets are wanted and none are there, recv() gives -1,     *)
(* which the loop takes for a count, so that it goes back by one and reads *)
(* one octet more.                                                         *)
(***************************************************************************)
\* A bug to compare with: the six octets are asked for behind the header.
MutNextSize(protocol) ==
    LET hdr == Octets(down, taken, 6)
    IN  IF arrived - taken < GRESB_HDR_SIZE + 6 \/ hdr[6] # protocol
        THEN 0 ELSE FrameSize(hdr)

NextSize(protocol) ==
    LET hdr == Octets(down, taken, 6)
    IN  IF arrived - taken < 6 \/ hdr[6] # protocol THEN 0 ELSE FrameSize(hdr)

\* A bug to compare with: the header in front of the packet is not read.
MutLeft == size - Len(block) + lead

\* recv_left.
Left == size + GRESB_HDR_SIZE - Len(block) + lead

Receiving == pc \in {"read", "drain"} /\ Left > 0

\* What is read while the place is in front of the block is lost on the heap.
RecvPart ==
    /\ Receiving /\ arrived > taken
    /\ LET n == Min({Left, arrived - taken})
           lost == Min({lead, n})
       IN  /\ taken' = taken + n
           /\ lead' = lead - lost
           /\ block' = block \o Octets(down, taken + lost, n - lost)
    /\ pc' \in IF lead > 0 THEN {pc, "crashed"} ELSE {pc}
    /\ UNCHANGED <<todo, slot, tries, size, missed, pending, gotReplies, gotData,
                   feeVars, up, arrived>>

RecvEmpty ==
    /\ Receiving /\ arrived = taken
    /\ missed < MaxMissed /\ missed' = missed + 1
    /\ \E k \in Empties :
          /\ block' = SubSeq(block, 1, Len(block) - k)
          /\ lead' = IF k > Len(block) THEN lead + k - Len(block) ELSE lead
    /\ UNCHANGED <<todo, pc, slot, tries, size, taken, pending, gotReplies, gotData,
                   feeVars, up, arrived>>

\* The frame is there.  The header's four octets are counted when the packet
\* is copied behind it, so that as many behind its end are written, too.
HandsOver(next) ==
    /\ Left = 0 /\ block' = <<>>
    /\ pc' \in IF size \in Roomy THEN {next} ELSE {next, "crashed"}
    /\ UNCHANGED <<taken, lead, missed>>

Packet == Octets(block, GRESB_HDR_SIZE, size)

-----------------------------------------------------------------------------
(***************************************************************************)
(* The client's procedure.  A command takes a slot, processes what has     *)
(* been received (smile_fee_process_rx()) and is sent.                     *)
(***************************************************************************)
Free == Slots \ pending

Op == IF todo = <<>> THEN "end" ELSE Head(todo).op

\* The command of a step in a slot: smile_fee_gen_cmd() and rmap_tx().
Command(step, id) ==
    LET cmd == IF step.op = "read" THEN READ ELSE WRITE
    IN  Frame(Package(BuildHdr([cmd_resp |-> TRUE, cmd |-> cmd, dst |-> FEE,
                                key |-> 0, src |-> ICU, tr_id |-> id,
                                addr |-> step.addr, data_len |-> step.size]),
                      cmd, step.data))

Submit ==
    /\ pc = "next" /\ todo # <<>> /\ Transfers(Head(todo))
    /\ pc' = "rmap" /\ slot' = Min(Free) /\ pending' = pending \cup {Min(Free)}
    /\ UNCHANGED <<todo, tries, size, stream, gotReplies, gotData, feeVars, up,
                   arrived>>

SyncRmap ==
    /\ pc = "next" /\ Op = "sync"
    /\ pc' = "rmap" /\ slot' = -1 /\ tries' = 0
    /\ UNCHANGED <<todo, size, pending, stream, gotReplies, gotData, feeVars, up,
                   arrived>>

\* smile_fee_process_rx() takes replies while there are any and some are due.
TakeReply ==
    /\ pc = "rmap" /\ NextSize(RMAP_PROTOCOL_ID) # 0 /\ pending # {}
    /\ size' = NextSize(RMAP_PROTOCOL_ID)
    /\ pc' = "read"
    /\ UNCHANGED <<todo, slot, tries, pending, stream, gotReplies, gotData,
                   feeVars, up, arrived>>

\* The size that rmap_rx() returns counts the header again.
ReadReply ==
    /\ pc = "read" /\ HandsOver("rmap")
    /\ LET pkt == FromBuffer(Packet, size + GRESB_HDR_SIZE)
       IN  /\ gotReplies' = Append(gotReplies, pkt)
           /\ pending' = IF pkt = Invalid THEN pending ELSE pending \ {pkt.tr_id}
    /\ UNCHANGED <<todo, slot, tries, size, gotData, feeVars, up, arrived>>

NoReply == pc = "rmap" /\ (NextSize(RMAP_PROTOCOL_ID) = 0 \/ pending = {})

Transmit ==
    /\ NoReply /\ slot \in Slots
    /\ up' = Append(up, Command(Head(todo), slot))
    /\ todo' = Tail(todo) /\ pc' = "next" /\ slot' = -1
    /\ UNCHANGED <<tries, size, pending, stream, gotReplies, gotData, feeVars,
                   arrived>>

Retry ==
    /\ NoReply /\ slot = -1 /\ pending # {} /\ tries + 1 < MaxTries
    /\ tries' = tries + 1
    /\ UNCHANGED <<todo, pc, slot, size, pending, stream, gotReplies, gotData,
                   feeVars, up, arrived>>

\* sync_rmap() is through, or gives up with operations pending.
Synced ==
    /\ NoReply /\ slot = -1 /\ (pending = {} \/ tries + 1 = MaxTries)
    /\ todo' = Tail(todo) /\ pc' = "next" /\ tries' = 0
    /\ UNCHANGED <<slot, size, pending, stream, gotReplies, gotData, feeVars, up,
                   arrived>>

\* The loop at the end of a procedure, which calls nothing but pkt_rx().
TakeData ==
    /\ pc = "next" /\ Op = "data" /\ NextSize(FEE_DATA_PROTOCOL) # 0
    /\ size' = NextSize(FEE_DATA_PROTOCOL)
    /\ pc' = "drain"
    /\ UNCHANGED <<todo, slot, tries, pending, stream, gotReplies, gotData,
                   feeVars, up, arrived>>

ReadData ==
    /\ pc = "drain" /\ HandsOver("next")
    /\ gotData' = Append(gotData, Packet)
    /\ todo' = IF Len(gotData') = MaxData THEN Tail(todo) ELSE todo
    /\ UNCHANGED <<slot, tries, size, pending, gotReplies, feeVars, up, arrived>>

-----------------------------------------------------------------------------
(***************************************************************************)
(* The simulator: sim_rx() and rmap_sim_rx() in the poll thread, the data  *)
(* packets in the main thread.  A packet it cannot convert ends it, and so *)
(* does one that leads out of the registers and the SRAM.                  *)
(***************************************************************************)
feeElse == <<clientVars, arrived>>

Execute ==
    /\ alive /\ fee.pc = "rx" /\ up # <<>>
    /\ LET frame == Head(up)
           buf == SubSeq(frame, GRESB_HDR_SIZE + 1, Len(frame))
           pkt == FromBuffer(buf, FrameSize(frame) + GRESB_HDR_SIZE)
           n == pkt.data_len
       IN  IF pkt = Invalid \/ ~Mapped(pkt.addr, n)
           THEN alive' = FALSE /\ UNCHANGED <<fee, mem, trigger>>
           ELSE /\ mem' = IF pkt.cmd = WRITE
                          THEN [mem EXCEPT ![pkt.addr] =
                                  pkt.data \o SubSeq(@, n + 1, Len(@))]
                          ELSE mem
                /\ trigger' = (trigger \/ (pkt.cmd = WRITE /\ pkt.addr = ExecuteOp))
                /\ fee' = [pc |-> "reply", pkt |-> pkt]
                /\ UNCHANGED alive
    /\ up' = Tail(up)
    /\ UNCHANGED <<feeElse, made, down, ends, replies>>

Send(pkt) ==
    /\ down' = down \o Frame(pkt)
    /\ ends' = ends \cup {[at |-> Len(down'), replies |-> Len(replies'), data |-> made']}

\* The command is turned into its reply; one to a write carries no data.
SendReply ==
    /\ alive /\ fee.pc = "reply"
    /\ LET p == fee.pkt
           data == IF p.cmd = READ THEN SubSeq(mem[p.addr], 1, p.data_len)
                                   ELSE <<>>
           reply == [p EXCEPT !.cmd_resp = FALSE, !.src = p.dst, !.dst = p.src,
                              !.addr = 0, !.data_len = Len(data), !.data = data]
       IN  /\ replies' = Append(replies, reply) /\ UNCHANGED made
           /\ Send(Package(BuildHdr(reply), p.cmd, data))
    /\ fee' = [pc |-> "rx", pkt |-> Invalid]
    /\ UNCHANGED <<feeElse, mem, trigger, alive, up>>

DataPacket(n) == <<ICU, FEE_DATA_PROTOCOL>> \o BigEndian(n, 2)

SendData ==
    /\ alive /\ trigger /\ made < MaxData
    /\ made' = made + 1 /\ UNCHANGED replies
    /\ Send(DataPacket(made'))
    /\ UNCHANGED <<feeElse, fee, mem, trigger, alive, up>>

-----------------------------------------------------------------------------
Client == \/ Submit \/ SyncRmap \/ TakeReply \/ RecvPart \/ RecvEmpty \/ ReadReply
          \/ Transmit \/ Retry \/ Synced \/ TakeData \/ ReadData

PollThread == Execute \/ SendReply

Next == Arrive \/ Client \/ PollThread \/ SendData

Spec == /\ Init /\ [][Next]_vars
        /\ WF_vars(Arrive) /\ WF_vars(Client)
        /\ WF_vars(PollThread) /\ WF_vars(SendData)

-----------------------------------------------------------------------------
\* Types; and as long as every piece of a frame is there when the client asks
\* for it, what it has in hand began at the start of a frame, however many
\* pieces the octets arrive in.
TypeOK ==
    /\ pc \in {"next", "rmap", "read", "drain", "crashed"} /\ slot \in Slots \cup {-1}
    /\ tries \in 0..MaxTries /\ pending \subseteq Slots
    /\ fee.pc \in {"rx", "reply"} /\ {trigger, alive} \subseteq BOOLEAN
    /\ \A i \in DOMAIN down : down[i] \in Octet
    /\ \A i \in DOMAIN block : block[i] \in Octet
    /\ {lead, missed, size} \subseteq Nat
    /\ arrived \in 0..Len(down) /\ taken \in 0..arrived
    /\ \A m \in ends : m.at \in 0..Len(down)
    /\ missed = 0 => \E m \in ends : taken = m.at + Len(block)

\* "rmap_rx is expected to return the number of packet bytes", of the packet
\* that came: each callback hands over the packets of its kind as they were
\* sent, in the order they were sent, and every reply decodes to what the
\* simulator built it from.
Reassembled ==
    /\ IsPrefix(gotReplies, replies)
    /\ IsPrefix(gotData, [n \in 1..made |-> DataPacket(n)])

\* They do for frames in as many pieces as may be, if no piece was late.
Delivered == missed = 0 => Reassembled

\* A command the library builds is one the RMAP library accepts: the
\* simulator goes on running.
CommandsUnderstood == alive

\* The procedure comes to its end, unless a piece was late, or it went into
\* the data loop with a reply outstanding: then that reply stays at the head
\* of the stream, where pkt_rx() leaves it, and the data packets behind it
\* are never read.
ProcedureEnds ==
    <>(todo = <<>> \/ missed > 0 \/ (Op = "data" /\ pending # {}))
=============================================================================
