# Formal model of the SMILE FEE library and its simulator

TLA+ modules, TLC runs and TLAPS proofs about the C code in `src/`: the library
with which the data processing unit (DPU) of the SMILE soft X-ray imager
configures and reads its front end electronics (FEE), a simulator of that FEE,
and the bridges and demos around them.  `PROJECT.json` is the index: components,
runs, mutants, the map from definitions to source lines, hazards, findings,
theorems.

## 1. Inventory

How the parts interact:

    demo / sdpdev client                    FEE simulator (or the hardware)
      |  get / set / sync calls               main loop: reads its own mirror,
      v                                       sends science data
    register mirror  <- smile_fee_ctrl      ^  |      poll thread: executes RMAP
      |  fn, address, length                |  |      commands on the same memory
      v                                     |  v      accept thread: new sockets
    transaction log  <- smile_fee_rmap    GRESB framing (gresb.c)
      |  rmap_tx / rmap_rx callbacks        |  |
      v                                     |  v
    RMAP packets     <- rmap, smile_fee_cmd -> TCP socket / gresb_bridge / SDP
                                               |
    frame aggregators <- smile_fee  <----------+  data packets (same link)

| component | state | operations | hard behaviour | correctness |
|---|---|---|---|---|
| **RMAP transaction log** `FEE/smile_fee_rmap.c` | `trans_log` (`in_use`, `local_addr`, `pending`), the path and MTU settings | `smile_fee_sync`, `smile_fee_sync_data`, `smile_fee_submit_tx`, `smile_fee_process_rx`, `sync_status`, `reset_log` | replies arrive while calls run; commands or replies fail, are lost or refused; the log is reset under traffic; slots run out | a reply is stored where its command said; `pending` counts the slots in use; status 0 means synchronised; each slot comes back |
| **Register mirror** `FEE/smile_fee_ctrl.c` | mirror of 26 configuration and the housekeeping (HK) registers, and of the SRAM | a getter and a setter per field, a sync per register and direction, one per field, `sync_hk_regs` | a setter is a read-modify-write of a register a reply may overwrite; fields share registers | a field's setter changes that field only; its sync transfers the register the field is in |
| **SRAM transfers** `smile_fee_sync_mirror_to_sram`, `smile_fee_sync_sram_to_mirror` (`smile_fee_ctrl.c` 5243-5380), SRAM accessors 5002-5230 | offset and remaining size, on top of the log | chunked transfers with retry | retry while the log is full; a chunk fails halfway; boundary at the end of the SRAM; MTU 0 | every byte is transferred once, inside the SRAM; the call ends |
| **Command functions** `FEE/smile_fee_cmd.c` | none | one generator per register and direction | one wrong address among 60 | a command addresses the register it is named for, with 4 bytes |
| **RMAP packets** `FEE/rmap.c` | none | build and parse headers, CRC, packet to and from buffers | lengths that differ by kind of packet, direction and the frame around it | parse undoes build; what the library builds it accepts |
| **Data packets, frame aggregators** `FEE/smile_fee.c` | an aggregator per frame: buffer pointers, fill counts, `readout` bits still to come | `fee_ft_aggregate`, `fee_ff_aggregate`, byte order of headers, `is_xray`, bad pixel tests | which packet completes a frame; buffer bounds; packets of other types in between | a frame is complete exactly when the data of every node are; the data of a node are stored in order, within its buffer |
| **FEE simulator, science data** `SIM/fee_sim.c` | frame and time counters, CCD images, the last mode | `fee_sim_exec` and its modes, frame and event transfer, event detection, wandering mask, binning | registers change while a frame is read out; execution in immediate and execute-op mode | per frame: HK, then each node's data in order, numbered consecutively; events are the pixels above threshold |
| **FEE simulator, control** `SIM/smile_fee_sim.c`, main loop of `fee_sim.c` | simulated register memory, client sockets | accept thread, poll thread, main loop, `rmap_sim_rx`, `distribute_tx` | three threads share the register memory and the descriptor set without a lock; partial sends of two threads | an RMAP write is not undone by the main loop; packets are not interleaved; a client that leaves is removed |
| **GRESB framing** `GRESB/gresb.c` | none | build a frame around a packet, size and data of a frame | the 24 bit size; frames that arrive in pieces | the receiver finds each frame's start and end |
| **GRESB bridge** `GRESB/gresb_bridge.c` | client sockets, link to the GRESB | accept thread, a poll thread for the users, two for the connections to the GRESB | two threads send to the same users; partial reads; users that leave; lost GRESB link | packets pass whole and in order |
| **SDP client** `SDPDEV/sdpdev.c`, **demo** `TEST/smile_fee_demo.c` | stream buffers | receive callbacks for RMAP and data on one stream | a data packet ahead of a reply blocks the replies | replies are reached; frames are complete |


What the components promise each other:

- `smile_fee_ctrl` promises that a register is transferred whole, from or to its
  own address; the log promises that the calls are carried out in the order in
  which they were made, and that status 0 means they all were.  The client
  promises (USAGE comment, `smile_fee_ctrl.c` 19-42) to wait for a transfer
  before it touches the register again.
- The simulator promises a stream of packets per frame, each part ending in a
  packet marked as the last; the aggregators rely on that and on the client
  creating an aggregator with the node selection the FEE works with.
- The threads of the simulator and of the bridge promise each other nothing:
  they share memory and descriptor sets without a lock.

## 2. Plan

| | modules | what for | state |
|---|---|---|---|
| A | `RmapSync`, `MirrorCopies`, `RmapSync_proofs` | the transaction log, and the queue of register copies it implements | modelled, checked, all safety properties and the refinement proved |
| B | `FrameNodes`, `FrameSender`, `FrameAggregator`, composed by `FrameReadout`; `FrameReadout_proofs` | frames from the simulator to the client | modelled, checked, all safety properties proved |
| C | `SramSync`, `SramSync_proofs` | chunked SRAM transfers, on the queue of copies that A shows the log to be | modelled, checked, all safety properties proved |
| D | `RegisterMap`, `RegisterFields`, `RegisterFields_proofs` | the fields of the registers: a setter changes its field only, a getter returns it, a field's sync and a command address its register | modelled, checked, all safety properties proved |
| E | `EventDetection`, extended by `FeeSimLoop`; `FeeSimLoop_proofs` | what becomes an event; the simulator's main loop against the poll thread that executes RMAP commands on the same registers | modelled, checked, all safety properties proved |
| F | `ClientSet`, `ClientSet_proofs` | accept thread, poll thread and senders on one descriptor set | modelled, checked, all safety properties proved |
| G | `RmapPacket`, extended by `FeeLink`; `FeeLink_proofs` | headers and frames as octets; replies and data packets on one stream, between a client's procedure and the simulator | modelled, checked, all safety properties proved |
| H | `GresbBridge`, `GresbBridge_proofs` | both directions of the bridge, packets in pieces | modelled, checked, all safety properties proved |

`FrameReadout` composes `FrameSender` and `FrameAggregator` by EXTENDS, as they
share the packets of `FrameNodes`.  `SramSync` builds on what `RmapSync` is shown
to implement instead of on its slots.  `RegisterFields` takes a register map as a
parameter, and `MC_RegisterFields` gives it the code's, `RegisterMap`.
Abstract specifications: `MirrorCopies`
for the log; for the frame readout the property `FrameWhole`, which compares the
buffers with the frame that was sent; for `SramSync` the property `Transferred`;
for `RegisterFields` the variable `store`, in which each field stands on its own.

Each safety property a passing run checks is stated by a theorem; what stays with TLC
is liveness (section 6).

## 3. Modules

### RmapSync

| model | code |
|---|---|
| `in_use`, `local_addr`, `pending` | `trans_log` (`smile_fee_rmap.c` 119-126) |
| `mirror`, `fee` | `struct smile_fee_mirror` of the library, the registers of the FEE |
| `phase`, `call` | where a call is: the library is single-threaded, so at most one runs. `drain` receiving in `smile_fee_sync_data`, `grab` before its slot is taken, `rx` receiving in `smile_fee_submit_tx`, `tx` before `rmap_tx`, `poll` receiving in `smile_fee_rmap_sync_status` |
| `cmds`, `replies` | the link, in order, as SpaceWire keeps it |
| `claim` | history: for each register what the client was last told about its transfer |
| `stale` | history: the log was reset with packets under way, and not again since on a quiet link |

Each turn of the receive loop is a step of its own (`RxDone`, `RxUndecodable`,
`RxUnknown`, `RxMatch`), so that the FEE can act between any two of them.  What a
write carries is read from the mirror when it is handed over (`SubmitTx`), after
the receive loop has run, as in the code.

`Faults` selects what may go wrong: command generation (`gen`), hand-over (`tx`),
a receive that is given up (`abort`), a packet that cannot be decoded
(`corrupt`), loss on the link (`loss`), refusal by the FEE (`reject`), and
`smile_fee_rmap_reset_log` at any time (`reset`).  `Patient` is the client's
promise above.  It is needed: a client that starts a read of a register and
writes it before the read has come back ends with status 0 and a mirror that
differs from the FEE, as the reply of the read overwrites the newer value.

A reset with packets under way (`stale`) undoes what the log promises: a late reply
finds its slot free, or taken by another transfer, and is then stored at that one's
register (`RmapSyncReset.cfg`).  `RepliesHaveOwners`, `StoredWhereRequested` and
`Synchronised` except such a reset, and no other; what the counter says holds
after one, too.

`MirrorCopies` is the abstract specification: a FIFO of copies between mirror and
FEE.  It knows no slots, no transaction numbers and no stored addresses, the
things the log can get wrong.

### FrameNodes, FrameSender, FrameAggregator, FrameReadout

A pixel is a record of where it was read out, in which frame and at which place,
so that buffers can be compared with what they ought to hold.

| model | code |
|---|---|
| `todo`, `sent`, `hdr_node` | the calls `fee_sim_frame_transfer` has still to make, the position in `fee_sim_tx_payload_data`, the side and CCD id left in the header of `struct fee_data_payload` |
| `frame_cntr` | the 16 bit counter of `fee_sim.c` |
| `link` | packets under way; the sender waits when `LinkSize` are |
| `ft`, `ff` | `struct fee_ft_data`, `struct fee_ff_data`: `readout` the nodes still to come, `n` the fill counts, `data` the one block that holds all nodes' buffers, `nodes` those whose pointer is set |
| `result` | return value of the last call to an aggregator |
| `Create`, `Receive`, `TakeFrame` | the loop of `sdpdev.c` 605-653 |

The link may lose packets (`Loss`) except those that end a part.  When one of these
is lost, two frames mix and the tests for room let data past the buffer; nothing in
the code prevents either, and `WithinBuffer` and `FrameWhole` do not speak of it.  The
mode, frame transfer or full frame, is kept for a behaviour.

`outside` is the set of places behind the block to which a copy went; what such
a copy overwrites there is not modelled.  `last` in a packet is the bit field
`last_pkt` of its header.

### SramSync

`queue` is the FIFO of `MirrorCopies`, for chunks of bytes; `leaked` counts slots
lost to commands that could not be handed over, so that `pending` is what
`smile_fee_rmap_sync_status` returns.  `SubmitChunk`, `SubmitFails` and `Busy` are
the three outcomes of `smile_fee_sync_data` in the loops of the two transfer
calls; a chunk that is read is followed by the wait for the log
(`Wait`, `WaitEnd`), after which the result is looked at.  The client calls with
whole words, as the functions' comments ask, and does not mix directions while
copies are under way.

The model keeps the code's odd constant: `FEE_SRAM_END` is one more than the
address of the last *word*, so the mirror is three bytes short of the SRAM and
its last word can be neither written nor transferred.  The transfer calls test
for one byte more than the accessors do, which is harmless for whole words
(`ChunksCorrect`), and is all that `ChunksInside` shows of it: a size that is no
multiple of four, which the functions do not refuse, is not modelled.

### RegisterMap, RegisterFields

`RegisterMap` holds the tables of `smile_fee_ctrl.c` and `smile_fee_cmd.c`: for
each field the register, the bits and the way its setter and its getter treat
them; for each command function the address; for each sync call the command and
the place in the mirror; for each field's sync call the register.  A register is
named by its position in `struct smile_fee_mirror`, in words.  The field names
are those of the setters and getters; `ccd_readout` has one pair of them for two
flags and appears as `ccd_readout_1` and `ccd_readout_2`; `spw_id` and
`cmic_corr` have no `hk_` in front, as their getters have none.

| model | code |
|---|---|
| `mem["dpu"]`, `mem["fee"]` | `struct smile_fee_mirror` of the client, and the one the simulator uses as the FEE's memory |
| a register, an argument | the set of its bits that are 1, in the CPU's byte order |
| `SetField` | a setter; on the FEE's side the simulator's, HK setters among them (`FEE_SIM`) |
| `SyncReg`, `SyncField` | `smile_fee_sync_cfg_reg_n`, `smile_fee_sync_<field>`, with the transfer they start |
| `SyncHkRegs`, `ReadHk` | `smile_fee_sync_hk_regs`, one step a register; the FEE acts in between |
| `hk_next` | which of its reads comes next |
| `store` | history: what each field would hold if it were a variable of its own |
| `calls`, `touched` | history: the bounds |

A transfer is one step, as the client waits for it (USAGE) and `RmapSync` shows
what it may then rely on.  What a layout has to meet (no two fields share a bit,
a setter's result fits its field, a field is synced with the register it is in, a
transfer goes to the place it belongs to) is `LayoutAssumption`, which TLC
evaluates on the code's tables in each run and the proofs assume.

`FieldsIntact` leaves out `hk_fpga_op_mode`, whose setter writes four of the seven
bits it clears, and `GettersAgree` also the three getters that do not look where
their setters write (`pix_offset`, `int_sync_period`, `h_start`); section 7 says
what they do.  The getter of `adc_pwrdn_en` tests the four bits from
its own upwards and is right because `ReservedBitsClear` holds.

### EventDetection, FeeSimLoop

`EventDetection` holds what one call of `fee_sim_detect_events` sends for a 6x6
binned frame: `IsEvent` with its 5x5 window and the median of its background (by
`Sorted`, which says what `qsort` leaves at each place, and not how), `Detected` with the limit and the mask packets, `DetectEvents` with the markers.
`FeeSimLoop` runs it in the main loop.

| model | code |
|---|---|
| `execute_op`, `sync_sel`, `int_sync_period`, `reg_21` | the registers the loop reads again and again; `reg_21` holds `ccd_mode_config` and `event_detection` |
| `settings`, `scene` | the other registers of a readout, and what the CCDs see: one of a set each, for a behaviour |
| `pc` | where `fee_sim_main` is: `poll`, `clear`, `exec`, `node` within a readout, `move` the mask, `sync`, `wait`, `check` and `load`, `store` for the setter of IMM_ON, `sleep`, `again` |
| `elapsed` | `elapsed_time`, in units of the loop's sleep, of which a period is `Slices` (100 in the code) |
| `todo`, `ev_cnt`, `sent` | the calls a readout has still to make, `CCD2_ev_cnt` and `CCD4_ev_cnt`, the packets of this execution |
| `WriteExecuteOp`, `WriteSync`, `WriteMode` | `rmap_sim_rx` in the poll thread |
| `called`, `touched`, `overtaken` | history, read by properties only; `overtaken` has the parts of `reg_21` the client wrote since the check of the mode (`"mode"`) or since the setter's load (`"event_detection"`) |

The two threads share the registers without a lock, so each load and each store
is a step: a getter is one load, a setter one load and one store, which is what
`gcc -O2` makes of them.  Each node's event detection is a step, as
`event_detection` is read once per node.  Nothing is assumed of the client: it
writes whenever it likes.  So the setter of IMM_ON takes writes back, and
`OnlyOvertakenLost` says which these are: those of the mode between the check that
found IMM_ON and the store, those of `event_detection` between the load and the
store, and none besides.

`ThresholdOf` hands out the thresholds as the code does, those of F2 and E4
exchanged.  `EventsReported` compares what is sent with the pixels that are brighter
than their neighbours and reach that threshold; that an equal one counts, and whose
threshold it is, are the questions of `MoreSignal` and `OwnThreshold`, which the code
answers otherwise than its comments.

What the model fixes: the binning mode is 6x6, the only one with event detection;
`wandering_mask_en` does not change within a behaviour; the 16 bits to which the
period's getter cuts it are not modelled.  Things of the code one may not
expect, and the model keeps: a sample equal to the threshold is an event; the
packet that ends a frame is a second marker of its last side; the mask wanders
one row and one column further than events are looked for, and is not reported
there; IMM_ON stays in its register when the loop is left because `sync_sel` was
cleared.

### ClientSet

| model | code |
|---|---|
| `set`, `n_fd` | `struct sim_net_cfg` |
| `conn` | which client's connection a descriptor number stands for; a number that was closed is given to the next connection |
| `acc`, `poll` | where the accept thread and the poll thread are, with what they hold: the `r_set` copy, the descriptor under work, the word of `set` that `FD_SET` or `FD_CLR` has loaded |
| `tx` | the loop of `distribute_tx`, in the main thread for data packets and in the poll thread for replies |
| `sent`, `taken` | stream positions in pieces; a request is three, of which two are the header |
| `torn` | history: a store of `set` undid the other thread's store |
| `hit`, `alive` | SIGPIPE: the second send to a client that left ends the process |

The properties name the outcomes the code leaves open, so that they say that
there are no others: `torn`; a client that leaves within a packet, after which
`sim_rx` waits for the rest for ever (318) and nobody is served; a header that
arrives in two pieces, which counts as a lost connection (300); SIGPIPE.
`send_all` never returns -1, so the branch of `distribute_tx` that closes a
descriptor (144) is dead and not in the model.  Replies go to every client, and
a packet being distributed may reach the next owner of a reused descriptor:
`ReachesAll` asks that everyone gets it, not that nobody else does.  A send is one
step here; how parts of two packets mix is shown for the same loop in
`GresbBridge`.  The descriptors of the clients block, so `recv` gives -1 only once,
after a client has reset its connection: `sim_rx` then waits for one octet more than
the packet has, for ever, as it does after a client that just left (`Receive` waits
forever in either case).

### RmapPacket, FeeLink

`RmapPacket` has the packets as octets: `BuildHdr` and `FromBuffer` with the
minimum header sizes, `Package`, and the GRESB `Frame`.  Paths are empty, as the
programs leave them, and a CRC is an octet nobody looks at.  `FeeLink` puts a
client's procedure and the simulator at the two ends of a connection.

| model | code |
|---|---|
| `todo` | the steps of a procedure of `sdpdev.c`: read, write, `sync_rmap`, the data loop |
| `pc`, `slot`, `size` | where the client is: `rmap` in `smile_fee_process_rx`, `read` and `drain` in a callback that waits for a packet of `size` octets |
| `pending` | the transaction log, cut down to slots in use |
| `up` | command frames; they arrive whole here, their pieces are `ClientSet`'s |
| `down`, `arrived`, `taken` | the octets the simulator sent, those the client's socket has, those the client took |
| `block`, `lead` | `recv_buffer` from its start up to where the next octets go; when that is in front of the start, how far |
| `missed` | history: how many pieces of a frame were not there when the client asked for them |
| `fee`, `mem`, `trigger`, `made` | the poll thread, the memory it works on, `execute_op`, data packets sent |
| `ends`, `replies`, `gotReplies`, `gotData` | history |

Each callback peeks at the protocol id behind the frame header and leaves a
packet of the other kind where it is.  A procedure that enters its data loop
with a reply outstanding (`sync_rmap` gives up after twelve tries) never gets on:
the reply stays at the head of the stream.  `ProcedureEnds` excepts that, and late
pieces.

The descriptor does not block (`sdpdev.c` 1256, `smile_fee_demo.c` 653).  In the loop
of a callback (`sdpdev.c` 158-163, 248-253) recv() therefore takes what there is
(`RecvPart`), or gives -1 when there is nothing (`RecvEmpty`), which the loop adds to
its place and takes from what is missing, as often as it asks in vain (`Empties`).
What follows is stored too early in the buffer, or in front of it, and reads into
the next frame.  `FeeLinkPieces.cfg` shows what is handed over then; the other
properties hold as long as no piece was late (`missed`), however many pieces there
are.  An octet written in front of the buffer is lost or ends the program
(`"crashed"`).  So may, by the allocator, the copy behind the loop: it counts the four octets
of the header in, and so writes four behind the end of the caller's block.  `Roomy` has
the sizes for which malloc() rounds up far enough.

The simulator's checks of the address (`smile_fee_sim.c` 526-543) are `Mapped`; a
command that fails them ends it, as does one it cannot decode.  The library's own
tests keep a client within them, so `FeeLinkAssumption` asks it of the procedures.
Not followed are the data of a reply that was garbled on the way into the mirror,
and parts of a frame on the sending side, which sends frames whole.

The log never runs full, by an assumption; `RmapSync` has that case.  `CommandsUnderstood`
holds as long as reads are of four octets at most, and fails beyond (section 7).

Details the model keeps: `rmap_rx` wants the four octets of the frame header on
top of the size it was given; the reply's status octet echoes the command key,
which nobody reads; the data CRC of a read's reply is cut off.

### GresbBridge

| model | code |
|---|---|
| `set`, `poll` | `bridge.set`; the descriptors `poll_socket` found ready and the one `usr_pkt_to_gresb` receives from |
| `sent`, `taken`, `up` | the pieces of a user's packets, those received, what was sent to the GRESB's TX port |
| `made`, `read` | for each of the two connections, pieces that arrived and pieces received |
| `buf`, `todo` | `recv_buffer` of a GRESB thread and the descriptors its loop has still to look at |
| `out` | what was sent to a user while it was there |
| `off` | how much of `buf` `send_all` has sent to the user at hand |
| `cut` | history: a packet of the GRESB was not received at once |
| `crossed` | history: users to whom one of the GRESB threads sent while the other was in the middle of a packet to them |

`usr_pkt_to_gresb` waits for the whole packet (and for ever, if the user leaves).
`gresb_pkt_to_usr` calls `recv` once (398): of a packet that has not arrived as a
whole it forwards what there is, then takes the next four bytes for a header
(`SizesAt`: whatever they may say).  Each stream stays in order all the same
(`StreamsKept`), but the pieces may mix with packets of the other connection, and an
end shorter than a header waits for the next packet (`Forwarded` excepts it).
`send_all` (60-79) is a loop of send(), each of which takes a part; a step of `Deliver`
is one send().  The other thread sends to the same descriptor without a lock, so
packets that were received whole mix as well (`GresbBridgeMixed.cfg`).  `PacketsApart` excepts
these two cases, `cut` and `crossed`, and says that besides nothing mixes and no
packet stops halfway.  The races on the descriptor set are
those of `ClientSet`, line for line, and are left out here.

## 4. Runs

| run | bounds | shows |
|---|---|---|
| `rmap_faults` | 2 registers, 2 values, 2 slots, all faults | `TypeOK`, `PendingIsCount`, `RepliesHaveOwners`, `Synchronised`, `StoredWhereRequested` |
| `rmap_live` | no faults, an impatient client | `PendingMeansOutstanding`, `ImplementsCopies` (refinement), `EverySlotReturns` |
| `rmap_rejected` | refusals only | `SyncStatusTruthful` fails |
| `frame_whole` | every selection of nodes and full frames, 3 frames of 3 pixels in packets of 2, HK of one packet, inner packets lost, counter about to wrap | `TypeOK`, `WithinBuffer`, `FrameWhole`, `FramesNumbered`, `FrameArrives` |
| `frame_early` | {E2, F2} and {F4}, no loss | `CompleteIsComplete` fails |
| `sram_transfer` | SRAM of two words and the odd byte, chunks of 4 and 6 bytes, 4 slots of which one may be lost | `TypeOK`, `ChunksInside`, `Transferred`, `CallReturns` |
| `reg_fields` | the code's register map, three calls about one register, arguments with all bits and none, a little-endian CPU | `TypeOK`, `ReservedBitsClear`, `FieldsIntact`, `GettersAgree` |
| `sim_loop` | frames of 5 by 14 pixels, three settings, three modes and two periods, three writes of the client | `TypeOK`, `EventsReported`, `FrameEnds`, `MaskReported`, `OnlyOvertakenLost`, `TriggerServed`, `ImmOnEnds` |
| `clients` | two clients with a request of three pieces each, one of them careful with headers, one data packet | `TypeOK`, `SetMatches`, `ClientsKept`, `ReachesAll`, `Answered` |
| `link` | a procedure of three transfers, a trigger, two syncs and two data packets; 4 slots; pieces of 5 octets or all there is, one of them late | `TypeOK`, `Delivered`, `ProcedureEnds` |
| `link_reads` | a read of 4 and one of 8 bytes | `CommandsUnderstood` fails |
| `bridge` | two users and both connections to the GRESB, two packets in all, wherever they come from, in pieces on either side of the bridge | `TypeOK`, `StreamsKept`, `PacketsApart`, `Forwarded` |

Five configurations more refute statements without the exceptions that the
properties above make.  They are not part of the index; run each with
`tlc -config X.cfg` on the module named.

| configuration | module | bounds | refutes |
|---|---|---|---|
| `RmapSyncReset.cfg` | `MC_RmapSync` | resets only, with up to three packets under way | `LateRepliesStored`: a late reply goes to its own register, or nowhere |
| `FeeLinkPieces.cfg` | `MC_FeeLink` | as `link`, with recv() once in vain | `Reassembled`: the callbacks hand over what was sent |
| `GresbBridgeMixed.cfg` | `MC_GresbBridge` | as `bridge` | `PacketsWhole`: packets received at once reach a user unmixed |
| `SimLoopTie.cfg` | `MC_FeeSimLoop` | as `sim_loop`, two writes | `MoreSignal`: an event has more signal than threshold and background |
| `SimLoopThresholds.cfg` | `MC_FeeSimLoop` | as `sim_loop`, two writes | `OwnThreshold`: a node's threshold is that of its own register |

Why the bounds are enough.

- RMAP: two slots and two registers let replies of different transfers overtake
  a reset, and all slots be taken; the proofs cover every other size.
  `MaxInFlight` limits only how often the log is reset while packets are under
  way.
- Frames: three pixels in packets of two make a full and a short packet per
  node; two frames would do to mix frames, the third lets an aggregator recover.
- SRAM: four slots are the fewest for which the wait for "more than 3" does
  something, and two chunks a call, several calls deep, fill them.
- Registers: three calls are enough to set two fields of a register and
  transfer it, or to set a field on one side, its neighbour on the other and
  transfer; calls about different registers share no state, which the proofs,
  without a bound on calls, confirm.
- Simulator loop: five rows leave one row of windows, and fourteen columns leave
  room for three events in it and for the mask, which with steps of five comes
  to lie inside, at and beyond the edge.  The limits are above, among and
  below the number of events.  The scene has an event where the mask
  comes by, one with equal neighbours, one just under the threshold and a
  background bright on one side.  Three writes cover a trigger, a change and a
  second trigger or an IMM_ON, each at any step.  F2 and E4 have different
  thresholds, and one peak of E2 is exactly at its own.
- Clients: two clients with two descriptors are the least for one to be accepted
  while another is removed, and for a number to be taken over; one packet of
  each kind suffices for the two senders to overlap.
- Link: the first five octets of a frame are one short of the protocol id the
  callbacks look for; later pieces end within packets and across frames.  One late
  piece is enough to lose the stream; in `link`, where it throws the place back by
  nine octets, only `TypeOK` speaks of what follows.
- Bridge: two packets on one connection show what follows a packet cut in two,
  one on each how they mix, one of each user how those stay apart, and one each way
  how the directions meet.

`CHECK_DEADLOCK FALSE` is used where the system stops because a bound is reached
(frames, calls, writes, requests, packets) or because its process has ended
(SIGPIPE in `clients` and `bridge`, the exit in `link_reads`).

Mutants: for each property of a passing run there is a changed form of one
mapped definition (`Mut...`) under which TLC finds the property violated.

## 5. Fairness

- `RmapSync`: a call that runs goes on; the client polls `sync_status` (the USAGE
  comment tells it to); the FEE executes what has arrived.  No fairness of the
  receive loop against an endless stream is needed, as replies do not outnumber
  commands.
- `FrameReadout`: the simulator's main loop sends what it has, the client's loop
  polls, an aggregator that returned 1 is used and destroyed.  Starting a frame
  is part of the sender's loop; changing the selection is never forced.
- `SramSync`: the loops of the calls run, the receive loop is polled, the FEE
  answers.  Nothing is assumed of the hand-over to `rmap_tx`, which may fail
  `MaxLeaks` times.
- `FeeSimLoop`: the main loop runs.  Nothing is assumed of the client.
- `ClientSet`, `GresbBridge`: each thread goes on when it can; a client that has
  begun a packet sends the rest of it or leaves.  Nobody has to connect, to
  begin a packet, or to leave.  That a send() ends says that users receive what they
  are sent: one that stays and does not would block both GRESB threads, and with
  them everyone else.
- `FeeLink`: the client's procedure, the simulator's poll thread and its sending
  of data packets go on; octets on the way arrive.
- `RegisterFields`: none; it states safety only.

All are weak fairness of a thread, which the scheduler of the operating system
gives; an action that waits for something is disabled until it is there.

## 6. Proofs

All theorems hold for every value of the constants that meets the modules'
assumptions; tlapm checks them to the last leaf.

`RmapSync_proofs`.  `TypeInv` adds to `TypeOK` that a running call has what its next
part needs, and carries `PendingIsCount`: the counter's range follows only from
its being the number of slots in use.  `OwnInv` adds what `RepliesHaveOwners` lacks
to be inductive: between grabbing its slot and handing over the command, a call
owns its slot too, and no packet has its number.  `SyncInv` says for each register
what its last transfer amounts to while it is under way: the packet is a read
that will overwrite the mirror, or a write that carries the mirror's value, or it
is done and both sides agree; with nothing pending only the last is left.  `OwnInv` and
`SyncInv` hold while no reset has met packets under way (`~stale`): on a quiet link a
reset leaves nothing that could name a slot, so that they hold again after one.

`PendingOutstanding` (for `Faults` within `abort`, `reject` and
`reset`) rests on `OutInv`: each slot in use belongs to the call that runs, or a
command or a reply with its number is under way.  `CopiesImplemented` (for
`Faults` within `gen`, `tx` and `abort`, which keep a copy from being asked for
and lose none that was) shows each step of `RmapSync` to be one of `MirrorCopies`,
under the mapping of `RmapSync`, or a stutter.  It needs `CleanInv`: slots have one
owner, so that a reply is stored at the register its command named, and a reply
carries data exactly if it is one to a read.  With the other faults the log
implements no queue: a lost packet is a copy that is never carried out.

`SramSync_proofs`.  `SramInv` says that the position of a call (moved + left =
size) stays in its range, which for whole words lies inside the SRAM although the
test allows a byte more.  `TransInv` adds that each copy carries what its source
holds, that all copies go one way, and that each byte handed over is *settled*:
equal on both sides, or covered by a copy that is still to change it.  With an
empty log this is `Transferred`.

`RegisterFields_proofs`.  Lemmas say which bits a setter leaves and writes
(`SetBitsElements`), that the field then holds what it was set to (`SetterOwn`)
and the others what they held (`SetterOthers`).  The invariant is `TypeOK` with
`ReservedBitsClear` and `FieldsIntact`; the copies keep it because a register and
its fields go together to the register's own place (`CopyKeeps`,
`HomeAddress`).  `GettersAgree` is no part of it: it follows, for the inverted flag
only together with `ReservedBitsClear` (`GetterHeld`).  The theorems hold for
every layout that meets `LayoutAssumption`, every set of arguments, any number of
calls and both byte orders.

`ClientSet_proofs`.  `Inv` holds what each thread may rely on at its place:
no client has two descriptors, the descriptor under work is open, what the poll
thread is about to close has gone or cut its header (`ClientsKept` follows), a
thread that sends has a packet.  `SetInv` strengthens `SetMatches` by the steps
within an update of the set: until a store is undone, neither thread has the
other's descriptor in hand.  `ReachInv` says of a distribution under way that
each client which was registered when it began, and kept to its side, has got the
packet or sits at a descriptor the loop has still to come to.

`GresbBridge_proofs`.  `BufInv`: what a thread holds is the end of what it has
received.  `UpInv`: the pieces on the way to the GRESB are, for each user, those
taken from its stream, in order.  `OutInv`: for each connection what a user was
sent is without a gap and ends where the thread stands, for as long as it stays
attached; a user yet to connect was sent nothing.  `WholeInv` adds that the
streams end at the end of a packet.  Towards a user (`UserWhole`) it needs that there
was no `cut` and that the user is not in `crossed`: then at most one thread is in
the middle of a packet to it, the stream ends with what that thread has sent, and
what the thread still holds goes on where the stream stops (`LinkWhole`).

`FeeSimLoop_proofs`.  `Types` has what each place of the main loop promises the
next, so that a wait takes no longer than two periods.  `OnlyOvertakenLostCorrect`
follows from `Old`: at the setter's load and store the register still reads IMM_ON
unless the mode is `overtaken`, and the `event_detection` that was loaded is what is
there unless that is.  Nothing is assumed of the client.  `FrameInv`
follows a readout: the nodes done and those still to come are the nodes asked for,
each once, and the packets sent end as those nodes' calls have left them.
`MaskInv` does the same for the mask and for what is left of each CCD's limit; it
uses no more of the packets than the set of places each kind of them shows.
`EventInv` says that what a node has reported are events and, once it is done and
detection stayed on, the first of them, and all unless its CCD has none left.
`TrueIsEvent` shows that the code's test, on the 25 pixels as it collects them, is
the definition in the comment above it (`TrueEvent`) or the same with a pixel exactly
at the threshold (`AtThreshold`): the places in `pix[]` are those of the
ring and of the edge (`PixAt`, `EdgeSamples`), and the median of eleven samples is
the only value with at most five below and at most five above
(`SortedMiddle`, `MiddleUnique`).

`FrameReadout_proofs`.  `Stream` says that what is on the link is one stream: each
packet *leads to* the next, pixel by pixel and part by part, and the last one to
where the sender stands.  `NumberInv` puts the counters on top: the oldest packet
is no more frames behind than there are packets behind it, so that 16 bits
tell them apart as long as the link holds fewer than 65536 (`FramesNumberedCorrect`).
The client's side is stated relative to the *front*, the first packet it has
still to receive.  For selections that do not end with F2, and for full frames,
the invariants `AlignedInv` and `FullInv` say which parts the aggregator has, how
far, and that between two frames the front is at the start of one; `FrameWhole`
follows.  With selections that end with F2 the HK packet completes a frame too
early (section 7), so `MisInv` says less: each node's buffer is filled up to its
size and no further, and the client has been given no more frames than HK and F2
parts have passed.  `TypeCorrect` and `WithinBufferCorrect` hold in both cases.
The three theorems assume two things, and fail without: `{} \notin Selections`, as
an aggregator for no node returns 1 for whatever comes and the client would be
given frames without end; and `"last" \notin Loss`, as after the loss of a last
packet the test that subtracts lets data past the buffer.  Inner packets, and HK
in several packets, may be lost.

`FeeLink_proofs`.  First what encoding and decoding do, for all octets: a number that
fits into its octets comes back (`Decoded`), from wherever in a buffer they stand
(`NumberAt`); what the library builds of a command and of a reply has its fields
where the parser looks (`CommandHeader`, `ReplyHeader`, `PackageShape`,
`FrameShape`); and parsing it gives the packet it was built from (`CommandDecoded`,
`ReplyDecoded`).  The invariant `IInv`, which TLC has checked on both configurations
of `FeeLink`, has four parts.  `StreamInv`: at each of `ends` the frame of the next
reply or of the next data packet begins and leads to another of `ends`, or nothing
follows.  `ClientInv`: the client stands at one of them, has handed over the
replies and data packets counted there and, within a callback, waits for the very
size of the frame that follows; within a frame, what is in `block` are the octets
from there on.  It holds as long as no piece was late (`missed = 0`), and asks
nothing of what a client does that has lost its place.  `ProcedureInv`: what is left to do is the rest of
one of the procedures, and there is a slot for each transfer in it.  `TypeInv` says
that what is on its way up are commands of the procedures.  `TypeCorrect` and
`DeliveredCorrect` follow, for any procedures, slots, memory and pieces.
`UnderstoodCorrect` says what no run does: the simulator accepts every command as
long as no read is of more than four octets (`SmallReads`), whatever the addresses
and however long the writes.  The premise is needed, as `link_reads` shows.
`FeeLinkAssumption` asks that the log never runs full within a procedure, that a
package and its data fit into the 24 bits of a frame's size, and that addresses
fit into three octets and lie among the registers or, with all of the data, in the
SRAM.

Constants.  The proofs made explicit what the modules had left unsaid: somebody
may connect (`Clients` and `Users` are not empty), one period is the longest, and
`NULL` is no aggregator.

Only checked by TLC is liveness (`EverySlotReturns`, `FrameArrives`, `CallReturns`,
`TriggerServed`, `ImmOnEnds`, `Answered`, `ProcedureEnds`, `Forwarded`), which is out of
the prover's reach.

## 7. Findings

With a run:

1. The status byte of a reply is ignored (`smile_fee_rmap.c` 276): `rmap_rejected`.
2. The HK packet's last packet marker counts for node F2 (`smile_fee.c` 638), so
   frames that end with F2 are reported complete too early: `frame_early`.
3. `rmap_pkt_from_buffer` (`rmap.c` 601) asks for the data of a read command,
   which carries none: a read of more than four bytes ends the simulator:
   `link_reads`.

Shown by the further configurations of section 4:

- A reply that is under way at `smile_fee_rmap_reset_log` is stored through the slot
  its number names, which another transfer may have taken (`smile_fee_rmap.c`
  261-276): its data land in another register, although "we'll know where to put
  the data" (105-107).  `RmapSyncReset.cfg`.
- `rmap_rx` and `pkt_rx` add the -1 of a recv() that found nothing to their count
  (`sdpdev.c` 160 and 250, `smile_fee_demo.c` 173 and 266), on a descriptor that was
  "set non-blocking so we can recv() easily" (`sdpdev.c` 1255): when a frame arrives
  in pieces, what is handed over is not the packet, and the stream is lost, although
  "rmap_rx is expected to return the number of packet bytes"
  (`smile_fee_rmap.c` 734).  `FeeLinkPieces.cfg`.
- Both threads of the bridge call `send_all` for the same descriptors without a lock
  (`gresb_bridge.c` 60-79, 428): when a send() takes a part, the packets mix.
  `GresbBridgeMixed.cfg`.
- A pixel equal to threshold plus background is an event (`fee_sim.c` 1596), where
  the comment asks for "more signal" (1564).  `SimLoopTie.cfg`.
- The thresholds of F2 and E4 are handed to each other's event detection
  (`fee_sim.c` 1793, 1805, 2056, 2064).  `SimLoopThresholds.cfg`.

Met while modelling, without a run of their own:

- A failing `smile_fee_submit_tx` loses its slot (`smile_fee_rmap.c` 425, 492);
  `PendingMeansOutstanding` therefore is checked without that fault.
- The bounds test of the aggregators subtracts (`smile_fee.c` 584, 594, 608, 618,
  443); `WithinBuffer` holds only as long as last packets of a part are not lost.
- Full frame mode does not count frames (`fee_sim.c` 1282), nor does a frame with
  event detection; `FramesNumbered` speaks of frame transfers.
- `smile_fee_write_sram_32` counts two bytes per element in its test and in what
  it returns (`smile_fee_ctrl.c` 5200).
- Four fields do not come back as they were set: `smile_fee_get_pix_offset`
  (`smile_fee_ctrl.c` 973) shifts before it converts the byte order and returns 0
  on a little-endian CPU; `smile_fee_get_int_sync_period` (1050) casts 20 bits to
  16; `smile_fee_get_h_start` (1354) does not convert the byte order;
  `smile_fee_set_hk_fpga_op_mode` (3230) writes four of seven bits.
- The setter of IMM_ON (`fee_sim.c` 2370) takes back what the client wrote to the
  mode register since the check two lines above: `OnlyOvertakenLost` says which writes
  are lost.
- `rmap_rx` and `pkt_rx` copy four octets more than the packet has (`sdpdev.c` 179, 257).
- 0 from `fee_sim_detect_events` (1649) means no packets left or detection off: if
  the client switches detection off within a frame, the second node of a CCD may
  send an end marker.  `FrameEnds` is about frames without such a change.
- A client of the simulator or a user of the bridge that leaves within a packet
  stops the service of all others (`smile_fee_sim.c` 318, `gresb_bridge.c` 270);
  one that leaves while packets are sent may end the process by SIGPIPE.
- The bridge loses packet boundaries when a packet of the GRESB arrives in pieces
  (`gresb_bridge.c` 398), and spins when a connection to the GRESB is lost (489:
  0 is returned for that, and -1 would clear the copy of the set only).
- `smile_fee_package` writes one octet of CRC behind the buffer it allocated for a
  read command's package (`smile_fee_rmap.c` 519-585).

## 8. Not modelled

The parts with status `partly` in `PROJECT.json` say what is left out of them:

- `fee_event_is_xray` and the bad pixel mask of `smile_fee.c` (54-57, 221-338),
  which no state depends on, remain to be modelled.
- The simulator's binning (1408-1493) and image generators (205-810) make the
  scene, which the model takes as given.
- The procedures of `sdpdev.c` and `smile_fee_demo.c` are scripts of register
  calls; `FeeLink` has their common shape.
- Raw mode of simulator and bridge has no packets to keep apart.  The loss of
  the connection to the GRESB has no way out in the code.
- Socket setup, option parsing, debug prints (`rmap_parse_pkt`,
  `smile_fee_print_mirrorval`), and the build files.

Hazards without a property: the packet size that leaves no room for payload
(`fee_sim.c` 1346), since the sender is modelled with room for a pixel; what
`smile_fee_write_sram_32` returns; the lost connection of the bridge; frames of
different modes one after the other (`fee_sim.c` 1349), as a behaviour keeps its mode;
the two meanings of 0 (1649), which show only when detection is switched within a
frame; a field synced with another register (`smile_fee_ctrl.c` 4219), which
`LayoutAssumption` excludes and TLC evaluates.
