----------------------------- MODULE FeeSimLoop -----------------------------
(***************************************************************************)
(* The main loop of the FEE simulator (SIM/fee_sim.c 1714-2395) against    *)
(* the poll thread, which executes the client's RMAP commands on the same  *)
(* register memory (SIM/smile_fee_sim.c 485-658).  There is no lock.       *)
(*                                                                         *)
(* A getter is one load of a register.  A setter is one load and one later *)
(* store, which is what the build (gcc -O2) makes of it.  execute_op is    *)
(* the only bit of its register in use, so that clearing it is the store.  *)
(***************************************************************************)
EXTENDS EventDetection

CONSTANTS
    Settings,   \* of registers the client leaves alone: [limit, nodes,
                \* digitise_en, wmask_en, threshold]
    Scenes,     \* what the CCDs see: functions from node to Frame
    ClientModes,\* modes the client asks for
    Periods,    \* values of int_sync_period
    Slices,     \* the integration period in units of the loop's sleep (100)
    MaxWrites   \* bound on the client's writes

Nodes == {"E2", "F2", "E4", "F4"}

ASSUME FeeSimLoopAssumption ==
    /\ \A s \in Settings :
          /\ s.limit \in Nat
          /\ s.nodes \subseteq Nodes
          /\ {s.digitise_en, s.wmask_en} \subseteq BOOLEAN
          /\ s.threshold \in [Nodes -> Nat]
    /\ Scenes \subseteq [Nodes -> Frame]
    /\ ClientModes \subseteq {"ON", "FTP", "FT", "FF", "EVSIM", "IMM_ON"}
    /\ Periods \subseteq Nat /\ \E p \in Periods : \A q \in Periods : q <= p
    /\ {Slices, MaxWrites} \subseteq Nat \ {0}

VARIABLES
    execute_op,         \* register 25
    sync_sel,           \* a bit of register 5
    int_sync_period,    \* register 8
    reg_21,             \* ccd_mode_config and event_detection share a register
    settings, scene,    \* chosen once
    pc,                 \* where the main loop is
    loaded,             \* the register 21 a setter has loaded
    elapsed,            \* elapsed_time of the cycle
    mode,               \* the mode that is executed
    todo,               \* nodes still to be read out
    ev_cnt,             \* CCD2_ev_cnt, CCD4_ev_cnt
    sent,               \* packets of this execution
    wmask,              \* sim_w_mask
    writes,             \* number of the client's writes
    called,             \* history: execute_op set, and no mode read since
    touched,            \* history: event_detection changed in this execution
    overtaken           \* history: what of register 21 the client wrote too late
                        \* for the setter's load and too early for its store

registers == <<execute_op, sync_sel, int_sync_period, reg_21>>
execution == <<mode, todo, ev_cnt, sent>>
vars == <<registers, settings, scene, pc, loaded, elapsed, execution, wmask,
          writes, called, touched, overtaken>>

\* The nodes of a selection in the order in which they are read out.
Part(node, nodes) == IF node \in nodes THEN <<node>> ELSE <<>>

InOrder(nodes) ==
    Part("E2", nodes) \o Part("F2", nodes) \o Part("E4", nodes) \o Part("F4", nodes)

Ccd(node) == IF node \in {"E2", "F2"} THEN "CCD2" ELSE "CCD4"

Long == Slices * (CHOOSE p \in Periods : \A q \in Periods : q <= p)

Init ==
    /\ execute_op = FALSE
    /\ sync_sel \in BOOLEAN
    /\ int_sync_period \in Periods
    /\ reg_21 \in [mode : ClientModes \ {"IMM_ON"}, event_detection : BOOLEAN]
    /\ settings \in Settings
    /\ scene \in Scenes
    /\ pc = "poll"
    /\ loaded = reg_21
    /\ elapsed = 0
    /\ mode = "ON" /\ todo = <<>> /\ sent = <<>>
    /\ ev_cnt = [c \in {"CCD2", "CCD4"} |-> 0]
    /\ wmask = <<2, 2>>
    /\ writes = 0
    /\ called = FALSE /\ touched = FALSE /\ overtaken = {}

-----------------------------------------------------------------------------
(* The poll thread, rmap_sim_rx: one write of a register each. *)

Write ==
    /\ writes < MaxWrites
    /\ writes' = writes + 1
    /\ UNCHANGED <<settings, scene, pc, loaded, elapsed, execution, wmask>>

WriteExecuteOp ==
    /\ Write
    /\ execute_op' = TRUE
    /\ called' = TRUE
    /\ UNCHANGED <<sync_sel, int_sync_period, reg_21, touched, overtaken>>

WriteSync ==
    /\ Write
    /\ \/ sync_sel' = ~sync_sel /\ UNCHANGED int_sync_period
       \/ int_sync_period' \in Periods /\ UNCHANGED sync_sel
    /\ UNCHANGED <<execute_op, reg_21, called, touched, overtaken>>

WriteMode ==
    /\ Write
    /\ reg_21' \in [mode : ClientModes, event_detection : BOOLEAN]
    /\ touched' = (touched \/ reg_21'.event_detection # reg_21.event_detection)
    /\ overtaken' = CASE pc = "load"  -> {"mode"}
                       [] pc = "store" -> {"mode", "event_detection"}
                       [] OTHER        -> overtaken
    /\ UNCHANGED <<execute_op, sync_sel, int_sync_period, called>>

Client == WriteExecuteOp \/ WriteSync \/ WriteMode

-----------------------------------------------------------------------------
(* The main loop. *)

\* fee_sim_main looks every millisecond whether there is something to do.
Poll ==
    /\ pc = "poll"
    /\ execute_op
    /\ pc' = "clear"
    /\ UNCHANGED <<registers, settings, scene, loaded, elapsed, execution,
                   wmask, writes, called, touched, overtaken>>

MutClear ==
    /\ pc = "clear"
    /\ execute_op' = FALSE
    /\ pc' = "exec"
    /\ UNCHANGED <<sync_sel, int_sync_period, reg_21, settings, scene, loaded,
                   elapsed, execution, wmask, writes, called, touched, overtaken>>

\* A cycle begins: the time is taken, "this always clears immediately".
Clear ==
    /\ pc = "clear"
    /\ execute_op' = FALSE
    /\ elapsed' = 0
    /\ pc' = "exec"
    /\ UNCHANGED <<sync_sel, int_sync_period, reg_21, settings, scene, loaded,
                   execution, wmask, writes, called, touched, overtaken>>

HkPacket == [type |-> "HK"]
FramePackets == [type |-> "DATA"]

\* fee_sim_exec reads the mode once.  FT and EVSIM go node by node; FF and FTP
\* send a frame (FrameSender has its packets); ON and IMM_ON do nothing.
Exec ==
    /\ pc = "exec"
    /\ mode' = reg_21.mode
    /\ pc' = IF reg_21.mode \in {"FT", "EVSIM"} THEN "node" ELSE "move"
    /\ todo' = IF reg_21.mode \in {"FT", "EVSIM"}
               THEN InOrder(settings.nodes) ELSE <<>>
    /\ ev_cnt' = [c \in {"CCD2", "CCD4"} |-> settings.limit]
    /\ sent' = CASE reg_21.mode = "EVSIM" -> <<HkPacket>>
                 [] reg_21.mode = "FF" \/ (reg_21.mode = "FTP" /\ settings.digitise_en)
                                          -> <<HkPacket, FramePackets>>
                 [] OTHER                 -> <<>>
    /\ called' = FALSE
    /\ touched' = FALSE
    /\ UNCHANGED <<registers, settings, scene, loaded, elapsed, wmask, writes, overtaken>>

\* The threshold registers the calls read: F2 and E4 have changed places.
ThresholdOf(setting, node) ==
    setting.threshold[CASE node = "F2" -> "E4" [] node = "E4" -> "F2" [] OTHER -> node]

\* The events of each node, a constant of settings and scene.
EventsIn ==
    [st \in Settings |-> [sc \in Scenes |-> [node \in Nodes |->
       {i \in Window : IsEvent(sc[node], i, ThresholdOf(st, node))}]]]

\* A node of fee_sim_exec_ft_mode (binning 6x6) or of fee_sim_exec_evsim_mode.
Readout ==
    /\ pc = "node"
    /\ todo # <<>>
    /\ LET node == Head(todo)
           res == DetectEvents(node, EventsIn[settings][scene][node], ev_cnt[Ccd(node)],
                               reg_21.event_detection,
                               IF settings.wmask_en THEN wmask ELSE <<>>)
       IN  /\ sent' = sent \o res.pkts
           /\ ev_cnt' = [ev_cnt EXCEPT ![Ccd(node)] = res.left]
    /\ todo' = Tail(todo)
    /\ UNCHANGED <<registers, settings, scene, pc, loaded, elapsed, mode, wmask,
                   writes, called, touched, overtaken>>

\* The empty event at the end of a frame looks like one more marker of the
\* side the header names: the last one, or zeros (F2) when there was none.
EndMarker ==
    LET nodes == InOrder(settings.nodes)
    IN  Marker(IF nodes = <<>> THEN "F2" ELSE Last(nodes))

MutFinish ==
    /\ pc = "node"
    /\ todo = <<>>
    /\ sent' = sent \o (CASE mode = "EVSIM" \/ reg_21.event_detection -> <<>>
                          [] mode = "FT" /\ ~reg_21.event_detection /\ settings.digitise_en
                               -> <<HkPacket, FramePackets>>
                          [] OTHER -> <<>>)
    /\ pc' = "move"
    /\ UNCHANGED <<registers, settings, scene, loaded, elapsed, mode, todo, ev_cnt,
                   wmask, writes, called, touched, overtaken>>

\* Its end: event_detection is read again; the frame is sent when it is off,
\* else (EVSIM: always) an empty event that ends the frame.
Finish ==
    /\ pc = "node"
    /\ todo = <<>>
    /\ sent' = sent \o (CASE mode = "EVSIM" \/ reg_21.event_detection -> <<EndMarker>>
                          [] mode = "FT" /\ ~reg_21.event_detection /\ settings.digitise_en
                               -> <<HkPacket, FramePackets>>
                          [] OTHER -> <<>>)
    /\ pc' = "move"
    /\ UNCHANGED <<registers, settings, scene, loaded, elapsed, mode, todo, ev_cnt,
                   wmask, writes, called, touched, overtaken>>

MutMove ==
    /\ pc = "move"
    /\ wmask' = MoveMask(wmask)
    /\ elapsed' \in IF mode \in {"FTP", "FT", "EVSIM", "FF"} THEN {elapsed, Long} ELSE {elapsed}
    /\ pc' = "sync"
    /\ execute_op' = FALSE
    /\ UNCHANGED <<sync_sel, int_sync_period, reg_21, settings, scene, loaded,
                   execution, writes, called, touched, overtaken>>

\* The execution is over: the mask moves, the time is taken again.  Sending
\* takes any time, the modes that send nothing none to speak of.
Move ==
    /\ pc = "move"
    /\ wmask' = MoveMask(wmask)
    /\ elapsed' \in IF mode \in {"FTP", "FT", "EVSIM", "FF"} THEN {elapsed, Long} ELSE {elapsed}
    /\ pc' = "sync"
    /\ UNCHANGED <<registers, settings, scene, loaded, execution, writes, called, touched, overtaken>>

Goto(from, to) ==
    /\ pc = from
    /\ pc' = to
    /\ UNCHANGED <<registers, settings, scene, execution, wmask, writes, called, touched, overtaken>>

\* "if (!smile_fee_get_sync_sel()) break"
Sync ==
    /\ \/ sync_sel /\ Goto("sync", "wait")
       \/ ~sync_sel /\ Goto("sync", "poll")
    /\ UNCHANGED <<loaded, elapsed>>

\* The loop that waits for the end of the integration period.
Wait ==
    /\ \/ elapsed < int_sync_period * Slices /\ Goto("wait", "check")
       \/ elapsed >= int_sync_period * Slices /\ Goto("wait", "again")
    /\ UNCHANGED <<loaded, elapsed>>

Check ==
    /\ \/ reg_21.mode = "IMM_ON" /\ Goto("check", "load")
       \/ reg_21.mode # "IMM_ON" /\ Goto("check", "sleep")
    /\ UNCHANGED <<loaded, elapsed>>

MutLoad ==
    /\ Goto("load", "store")
    /\ loaded' = [reg_21 EXCEPT !.event_detection = FALSE]
    /\ UNCHANGED elapsed

\* smile_fee_set_ccd_mode_config(FEE_MODE_ID_ON) loads the register ...
Load ==
    /\ Goto("load", "store")
    /\ loaded' = reg_21
    /\ UNCHANGED elapsed

\* ... and stores it; "goto start".
Store ==
    /\ pc = "store"
    /\ reg_21' = [loaded EXCEPT !.mode = "ON"]
    /\ overtaken' = {}
    /\ pc' = "poll"
    /\ UNCHANGED <<execute_op, sync_sel, int_sync_period, settings, scene, loaded,
                   elapsed, execution, wmask, writes, called, touched>>

\* The period is read again for the length of the sleep, one of Slices.
Sleep ==
    /\ Goto("sleep", "wait")
    /\ elapsed' = elapsed + int_sync_period
    /\ UNCHANGED loaded

\* "while (smile_fee_get_sync_sel())"
Again ==
    /\ \/ sync_sel /\ Goto("again", "clear")
       \/ ~sync_sel /\ Goto("again", "poll")
    /\ UNCHANGED <<loaded, elapsed>>

MainLoop ==
    \/ Poll \/ Clear \/ Exec \/ Readout \/ Finish \/ Move
    \/ Sync \/ Wait \/ Check \/ Load \/ Store \/ Sleep \/ Again

Next == MainLoop \/ Client

\* Fairness: the operating system schedules the main loop's thread.  The
\* client writes or does not.
Spec == Init /\ [][Next]_vars /\ WF_vars(MainLoop)

-----------------------------------------------------------------------------
(* Properties *)

TypeOK ==
    /\ execute_op \in BOOLEAN /\ sync_sel \in BOOLEAN
    /\ called \in BOOLEAN /\ touched \in BOOLEAN
    /\ overtaken \subseteq {"mode", "event_detection"}
    /\ settings \in Settings /\ scene \in Scenes
    /\ int_sync_period \in Periods
    /\ reg_21 \in [mode : ClientModes \cup {"ON"}, event_detection : BOOLEAN]
    /\ loaded \in [mode : ClientModes \cup {"ON"}, event_detection : BOOLEAN]
    /\ pc \in {"poll", "clear", "exec", "node", "move", "sync", "wait", "check",
               "load", "store", "sleep", "again"}
    /\ elapsed \in 0 .. 2 * Long
    /\ mode \in ClientModes \cup {"ON"}
    /\ ev_cnt \in [{"CCD2", "CCD4"} -> 0 .. settings.limit]
    /\ todo \in Seq(settings.nodes)
    /\ wmask \in (2 .. ROWS - 2) \X (2 .. COLS - 2)

\* The definition of an event in the comment above fee_sim_check_event_pixel,
\* on rows and columns: brighter than its eight neighbours, and more signal than
\* the threshold and the local background, the median of eleven edge pixels.
Peak(frame, r, c) ==
    \A q \in r - 1 .. r + 1, d \in c - 1 .. c + 1 :
       <<q, d>> # <<r, c>> => frame[q * COLS + d] < frame[r * COLS + c]

LocalBackground(frame, r, c) ==
    LET edge == {<<dr, 2>> : dr \in -2 .. 2} \cup {<<-2, dc>> : dc \in -2 .. 1}
                \cup {<<2, 1>>, <<-1, -2>>}
        at(e) == frame[(r + e[1]) * COLS + c + e[2]]
    IN  {b \in {at(e) : e \in edge} :
           /\ Cardinality({e \in edge : at(e) < b}) <= 5
           /\ Cardinality({e \in edge : at(e) > b}) <= 5}

TrueEvent(frame, threshold, r, c) ==
    /\ Peak(frame, r, c)
    /\ \E b \in LocalBackground(frame, r, c) : frame[r * COLS + c] > threshold + b

\* The code takes a peak with exactly that signal too.
AtThreshold(frame, threshold, r, c) ==
    /\ Peak(frame, r, c)
    /\ \E b \in LocalBackground(frame, r, c) : frame[r * COLS + c] = threshold + b

\* The pixels that reach the threshold the code compares a node's with.
Reaching ==
    [st \in Settings |-> [sc \in Scenes |-> [node \in Nodes |->
       {p \in (2 .. ROWS - 3) \X (2 .. COLS - 3) :
          LET t == ThresholdOf(st, node)
          IN  TrueEvent(sc[node], t, p[1], p[2]) \/ AtThreshold(sc[node], t, p[1], p[2])}]]]

SentOf(type, node) ==
    {<<p.row, p.col>> : p \in {q \in Range(sent) :
                                 q.type = type /\ q.node = node /\ ~q.last}}

Scanned == {"FT", "EVSIM"}
DetectionOn == reg_21.event_detection /\ ~touched
Reported(ccd) == UNION {{n} \X SentOf("EV_DET", n) : n \in {m \in settings.nodes : Ccd(m) = ccd}}

\* What is reported as an event is brighter than its neighbours and reaches the
\* threshold handed to the node's readout over the background, whatever the
\* client writes meanwhile; no CCD sends more events than its limit, which its
\* two nodes share; and with event detection on, such pixels stay unreported
\* only behind the others and only when the limit is reached.  The thresholds
\* are those the code hands out (ThresholdOf), and a pixel exactly at one is
\* reported: MoreSignal and OwnThreshold.  (fee_sim_detect_events)
EventsReported ==
    mode \in Scanned /\ pc \in {"node", "move"} =>
        \A n \in settings.nodes :
            LET reported == SentOf("EV_DET", n)
                reaching == Reaching[settings][scene][n]
            IN  /\ reported \subseteq reaching
                /\ Cardinality(Reported(Ccd(n))) <= settings.limit
                /\ DetectionOn /\ n \notin Range(todo) /\ reported # reaching =>
                      /\ Cardinality(Reported(Ccd(n))) = settings.limit
                      /\ \A m \in reaching \ reported, e \in reported :
                            e[1] < m[1] \/ (e[1] = m[1] /\ e[2] < m[2])

\* "The pixel contains more signal than 'single pixel threshold' + local signal
\* background", whichever register the threshold comes from.  (fee_sim.c 1564)
MoreSignal ==
    mode \in Scanned /\ pc \in {"node", "move"} =>
        \A n \in settings.nodes : \A p \in SentOf("EV_DET", n) :
            TrueEvent(scene[n], ThresholdOf(settings, n), p[1], p[2])

\* The threshold of a node is that of its own register: "ccd2 F single pixel
\* threshold" for CCD2 F.  (smile_fee_ctrl.c 1603, fee_sim.c 1793, 2056)
OwnThreshold ==
    mode \in Scanned /\ pc \in {"node", "move"} =>
        \A n \in settings.nodes : \A p \in SentOf("EV_DET", n) :
            \/ TrueEvent(scene[n], settings.threshold[n], p[1], p[2])
            \/ AtThreshold(scene[n], settings.threshold[n], p[1], p[2])

Ends == {k \in DOMAIN sent : sent[k].type = "EV_DET" /\ sent[k].last}

\* A frame whose event detection is on throughout ends each side it read out
\* and then itself with a marked packet, and sends no image; with it off the
\* image is sent exactly if digitise_en is set, as the last of the frame.
\* (fee_sim_exec_ft_mode, fee_sim_exec_evsim_mode)
FrameEnds ==
    pc = "move" /\ mode \in Scanned /\ ~touched =>
        IF reg_21.event_detection
        THEN /\ Cardinality(Ends) = Cardinality(settings.nodes) + 1
             /\ Len(sent) \in Ends
             /\ FramePackets \notin Range(sent)
             /\ \A n \in settings.nodes : \E k \in Ends :
                   /\ sent[k].node = n
                   /\ \A j \in k + 1 .. Len(sent) : sent[j].node = n => j \in Ends
        ELSE mode = "FT" => (FramePackets \in Range(sent)
                             <=> settings.digitise_en /\ Last(sent) = FramePackets)

\* The wandering mask, when it lies where events are looked for, shows up for
\* each node: as a mask packet, or hidden by an event of the same place or
\* by the limit; nowhere else, and not when it is off.  (line 1683)
MaskReported ==
    pc = "move" /\ mode \in Scanned =>
        \A n \in settings.nodes :
            LET masks == SentOf("WMASK", n) IN
            /\ masks \subseteq {wmask} \ SentOf("EV_DET", n)
            /\ masks # {} => settings.wmask_en
            /\ /\ DetectionOn
               /\ settings.wmask_en
               /\ wmask[1] <= ROWS - 3 /\ wmask[2] <= COLS - 3
               /\ Cardinality(Reported(Ccd(n))) < settings.limit
               => wmask \in masks \cup SentOf("EV_DET", n)

\* The main loop takes nothing back that the client wrote to the register of
\* mode and event detection but the command IMM_ON, which becomes the mode ON,
\* and what the client wrote between the check of the mode and the setter's
\* store: the mode at any time of these, event_detection only if its write fell
\* between the setter's load and its store.  (line 2370)
OnlyOvertakenLost ==
    [][writes' = writes /\ reg_21' # reg_21 =>
         /\ reg_21'.mode = "ON"
         /\ reg_21.mode = "IMM_ON" \/ "mode" \in overtaken
         /\ \/ reg_21'.event_detection = reg_21.event_detection
            \/ "event_detection" \in overtaken]_vars

\* A write of execute_op is always followed by an execution that reads the
\* mode after the write: clearing the flag never swallows it.  (line 2335)
TriggerServed == called ~> ~called

\* IMM_ON given while the loop cycles ends in the mode ON, outside of the loop,
\* if the client leaves sync_sel set and a period.  (line 2363)
ImmOnEnds ==
    pc # "poll" /\ reg_21.mode = "IMM_ON"
      ~> \/ reg_21.mode # "IMM_ON" \/ pc = "poll"
         \/ ~sync_sel \/ int_sync_period = 0
=============================================================================
