----------------------------- MODULE GresbBridge -----------------------------
(***************************************************************************)
(* The bridge between a GRESB and users on the network                     *)
(* (GRESB/gresb_bridge.c).  One thread forwards the users' packets to the  *)
(* GRESB.  Two threads, one for each of the connections to the GRESB,      *)
(* forward what they receive to every user.  What ClientSet shows of the   *)
(* same code is taken for granted here: a connection is accepted and put   *)
(* into the set in one step, and taken out and closed in one.  Raw mode,   *)
(* which has no packets to keep apart, and the loss of the GRESB are left  *)
(* out.                                                                    *)
(***************************************************************************)
EXTENDS Integers, Sequences, FiniteSets, SequencesExt

CONSTANTS
    Users,      \* descriptors
    Steady,     \* users that stay and send each header in one piece
    NoUser,
    MaxUp,      \* bound on the packets of a user
    MaxDown,    \* bound on the packets of the GRESB
    MaxPackets  \* bound on the packets of all of them

Links == {"tx", "rx"}

ASSUME GresbBridgeAssumption ==
    /\ Users \subseteq Nat /\ IsFiniteSet(Users) /\ Users # {} /\ Steady \subseteq Users
    /\ NoUser \in Int \ Users
    /\ {MaxUp, MaxDown, MaxPackets} \subseteq Nat

(***************************************************************************)
(* A packet is three pieces of a stream, two of which make the header that *)
(* gives its size.                                                         *)
(***************************************************************************)
HeaderSize == 2
PacketSize == HeaderSize + 1

PiecesOf(ends) == [from : ends, i : Nat \ {0}]

Pieces(from, i, n) == [k \in 1..n |-> [from |-> from, i |-> i + k]]

VARIABLES
    fresh,    \* users that have not connected yet
    left,     \* users that closed their side
    hit,      \* users something was sent to after they had left
    sent,     \* pieces a user has sent
    taken,    \* pieces received from a user
    set,      \* bridge.set: users whose connection is open
    poll,     \* the users' thread: those found ready, the one it receives from
    up,       \* what was sent to the GRESB
    made,     \* pieces that arrived from the GRESB
    read,     \* pieces received from it
    buf,      \* recv_buffer of the two GRESB threads
    todo,     \* users they have still to look at
    off,      \* send_all(): what was sent of buf to the least of them
    out,      \* what was sent to a user while it was there
    alive,    \* FALSE: SIGPIPE ended the process
    cut,      \* history: a packet of the GRESB was not received at once
    crossed   \* history: users to whom a thread sent while the other one was
              \* in the middle of a packet to them

userVars == <<fresh, left, sent>>
pollVars == <<taken, set, poll, up>>
gresbVars == <<made, read, buf, todo, off, cut>>
sendVars == <<hit, out, alive, crossed>>
vars == <<userVars, pollVars, gresbVars, sendVars>>

Avail(u) == sent[u] - taken[u]

\* Server mode begins with no user; client mode with the one it connects to.
Init ==
    /\ \/ set = {} /\ fresh = Users
       \/ \E u \in Users : set = {u} /\ fresh = {}
    /\ left = {} /\ hit = {}
    /\ sent = [u \in Users |-> 0] /\ taken = sent
    /\ poll = [ready |-> {}, user |-> NoUser] /\ up = <<>>
    /\ made = [t \in Links |-> 0] /\ read = made
    /\ buf = [t \in Links |-> <<>>] /\ todo = [t \in Links |-> {}]
    /\ off = [t \in Links |-> 0]
    /\ out = [u \in Users |-> <<>>]
    /\ alive = TRUE /\ cut = FALSE /\ crossed = {}

-----------------------------------------------------------------------------
(***************************************************************************)
(* The users and the GRESB.                                                *)
(***************************************************************************)
Rest(n) == PacketSize - (n % PacketSize)

\* The packets that n pieces were sent of.
Begun(n) == (n + PacketSize - 1) \div PacketSize

Down == Begun(made["tx"]) + Begun(made["rx"])

Bounded ==
    /\ Down' <= MaxDown
    /\ Down' + MapThenSumSet(LAMBDA u : Begun(sent'[u]), Users) <= MaxPackets

SendPieces(u, n) ==
    /\ alive /\ u \in set \ left
    /\ n \in 1..Rest(sent[u]) /\ sent[u] + n <= PacketSize * MaxUp
    /\ sent' = [sent EXCEPT ![u] = @ + n]
    /\ u \in Steady => sent'[u] % PacketSize \notin 1..(HeaderSize - 1)
    /\ UNCHANGED <<fresh, left, pollVars, gresbVars, sendVars>>
    /\ Bounded

Leave(u) ==
    /\ alive /\ u \in set \ (left \cup Steady)
    /\ left' = left \cup {u}
    /\ UNCHANGED <<fresh, sent, pollVars, gresbVars, sendVars>>

Arrive(t, n) ==
    /\ alive
    /\ n \in 1..Rest(made[t])
    /\ made' = [made EXCEPT ![t] = @ + n]
    /\ UNCHANGED <<userVars, pollVars, sendVars, read, buf, todo, off, cut>>
    /\ Bounded

-----------------------------------------------------------------------------
(***************************************************************************)
(* accept_connections(), and poll_socket() with usr_pkt_to_gresb().        *)
(***************************************************************************)
Accept(u) ==
    /\ alive /\ u \in fresh
    /\ fresh' = fresh \ {u} /\ set' = set \cup {u}
    /\ UNCHANGED <<left, sent, taken, poll, up, gresbVars, sendVars>>

pollElse == <<userVars, gresbVars, sendVars>>

Select ==
    LET ready == {u \in set : Avail(u) > 0 \/ u \in left}
    IN  /\ alive /\ poll.ready = {} /\ poll.user = NoUser /\ ready # {}
        /\ poll' = [poll EXCEPT !.ready = ready]
        /\ UNCHANGED <<pollElse, taken, set, up>>

\* Less than a header at hand counts as a connection that was lost.
Peek(u) ==
    /\ alive /\ poll.user = NoUser /\ u \in poll.ready
    /\ IF Avail(u) >= HeaderSize
       THEN poll' = [ready |-> poll.ready \ {u}, user |-> u] /\ set' = set
       ELSE poll' = [poll EXCEPT !.ready = @ \ {u}] /\ set' = set \ {u}
    /\ UNCHANGED <<pollElse, taken, up>>

ForwardPieces(n) ==
    /\ alive /\ poll.user # NoUser /\ Avail(poll.user) >= n
    /\ up' = up \o Pieces(poll.user, taken[poll.user], n)
    /\ taken' = [taken EXCEPT ![poll.user] = @ + n]
    /\ poll' = [poll EXCEPT !.user = NoUser]
    /\ UNCHANGED <<pollElse, set>>

\* A bug to compare with: one recv() has to do, as in gresb_pkt_to_usr().
MutForward == \E n \in HeaderSize..PacketSize : ForwardPieces(n)

\* The whole packet is waited for.  A user that leaves in the middle of one
\* is waited for forever, also when a reset makes recv() give -1 once.
Forward == ForwardPieces(PacketSize)

-----------------------------------------------------------------------------
(***************************************************************************)
(* poll_socket_gresb() with gresb_pkt_to_usr(), in thread t.               *)
(***************************************************************************)
gresbElse == <<userVars, pollVars, made>>

\* The size that the header gives; in the middle of a packet there is none,
\* and what is taken for one may give any.
SizesAt(i) == IF i % PacketSize = 0 THEN {PacketSize}
                                    ELSE HeaderSize..(2 * PacketSize)

Least(m, n) == IF m <= n THEN m ELSE n

ReceiveInto(t, size, moved) ==
    LET n == Least(size, made[t] - read[t])
    IN  /\ alive /\ buf[t] = <<>> /\ made[t] - read[t] >= HeaderSize
        /\ buf' = [buf EXCEPT ![t] = Pieces(t, read[t], n)]
        /\ read' = [read EXCEPT ![t] = @ + moved]
        /\ todo' = [todo EXCEPT ![t] = Users]
        /\ cut' = (cut \/ made[t] - read[t] < PacketSize)
        /\ UNCHANGED <<gresbElse, sendVars, off>>

\* A bug to compare with: what is forwarded does not count the header.
MutReceive(t) ==
    \E size \in SizesAt(read[t]) :
        LET n == Least(size, made[t] - read[t])
        IN  ReceiveInto(t, Least(PacketSize - HeaderSize, n), n)

\* One recv(): as much of the packet as there is.
Receive(t) ==
    \E size \in SizesAt(read[t]) :
        ReceiveInto(t, size, Least(size, made[t] - read[t]))

\* The descriptors are looked at in their order.
Turn(t, u) == u \in todo[t] /\ \A v \in todo[t] : u <= v

MidSend(t, u) == Turn(t, u) /\ off[t] > 0

\* One send() of n pieces of the packet; done: send_all() returns.  The second
\* send to a user that has left may raise SIGPIPE, which nobody handles.
SendPart(t, u, n, done) ==
    /\ off' = [off EXCEPT ![t] = IF done THEN 0 ELSE @ + n]
    /\ todo' = IF done THEN [todo EXCEPT ![t] = @ \ {u}] ELSE todo
    /\ buf' = IF todo'[t] = {} THEN [buf EXCEPT ![t] = <<>>] ELSE buf
    /\ out' = IF u \in set \ left
              THEN [out EXCEPT ![u] = @ \o SubSeq(buf[t], off[t] + 1, off[t] + n)]
              ELSE out
    /\ crossed' = crossed \cup {v \in {u} \cap set : \E s \in Links \ {t} : MidSend(s, v)}
    /\ hit' = hit \cup ({u} \cap set \cap left)
    /\ alive' \in {TRUE} \cup {FALSE : v \in {u} \cap set \cap hit}
    /\ UNCHANGED <<gresbElse, read, cut>>

\* A bug to compare with: a send() that took a part is taken for the whole.
MutDeliver(t, u) ==
    /\ alive /\ Turn(t, u)
    /\ \E n \in 1..Len(buf[t]) : SendPart(t, u, n, TRUE)

\* send_all() goes on where send() stopped, and the other thread may send to
\* the same user in between.  A descriptor that is not in the set is passed
\* over, and one that was closed meanwhile is given up.
Deliver(t, u) ==
    /\ alive /\ Turn(t, u)
    /\ \E n \in 1..(Len(buf[t]) - off[t]) :
          SendPart(t, u, n, u \notin set \/ off[t] + n = Len(buf[t]))

-----------------------------------------------------------------------------
PollThread == Select \/ Forward \/ \E u \in Users : Peek(u)

GresbThread(t) == Receive(t) \/ \E u \in Users : Deliver(t, u)

Next ==
    \/ \E u \in Users : Accept(u) \/ Leave(u)
    \/ \E u \in Users, n \in 1..PacketSize : SendPieces(u, n)
    \/ \E t \in Links, n \in 1..PacketSize : Arrive(t, n)
    \/ PollThread
    \/ \E t \in Links : GresbThread(t)

\* Whoever has begun a packet sends the rest of it, unless it leaves; users
\* receive what they are sent, so that a send() ends.
FinishPacket(u) == sent[u] % PacketSize # 0 /\ SendPieces(u, Rest(sent[u]))
FinishArrival(t) == made[t] % PacketSize # 0 /\ Arrive(t, Rest(made[t]))

Spec == /\ Init /\ [][Next]_vars
        /\ WF_vars(PollThread)
        /\ \A t \in Links : WF_vars(GresbThread(t)) /\ WF_vars(FinishArrival(t))
        /\ \A u \in Users : WF_vars(FinishPacket(u))

-----------------------------------------------------------------------------
\* Types; and the place in each user's stream is always the start of a
\* packet, whatever pieces it comes in.
TypeOK ==
    /\ {fresh, left, hit, set, crossed} \subseteq SUBSET Users
    /\ sent \in [Users -> 0..(PacketSize * MaxUp)]
    /\ taken \in [Users -> {PacketSize * n : n \in 0..MaxUp}]
    /\ \A u \in Users : Avail(u) >= 0
    /\ poll \in [ready : SUBSET set, user : set \cup {NoUser}]
    /\ up \in Seq(PiecesOf(Users))
    /\ made \in [Links -> 0..(PacketSize * MaxDown)]
    /\ read \in [Links -> Nat]
    /\ todo \in [Links -> SUBSET Users]
    /\ buf \in [Links -> Seq(PiecesOf(Links))]
    /\ \A t \in Links : read[t] <= made[t] /\ (todo[t] = {} <=> buf[t] = <<>>)
    /\ off \in [Links -> Nat]
    /\ \A t \in Links : off[t] = 0 \/ off[t] < Len(buf[t])
    /\ out \in [Users -> Seq(PiecesOf(Links))]
    /\ alive \in BOOLEAN /\ cut \in BOOLEAN

\* The places that the pieces from one end have in its stream.
Places(s, from) == {s[k].i : k \in {n \in 1..Len(s) : s[n].from = from}}

InOrder(s) ==
    \A j, k \in 1..Len(s) : j < k /\ s[j].from = s[k].from => s[j].i < s[k].i

\* Nothing is lost, doubled or overtaken in a stream between two ends that
\* both stay, also where packets come in pieces and their sizes are misread.
StreamsKept ==
    /\ InOrder(up) /\ \A u \in Users : Places(up, u) = 1..taken[u]
    /\ \A u \in Users :
          /\ InOrder(out[u])
          /\ \A t \in Links : \A i, j \in Places(out[u], t) :
                i..j \subseteq Places(out[u], t)

\* What begins as a packet of one end goes on as this packet.
Unmixed(s) ==
    \A k \in 1..(Len(s) - 1) :
        s[k].i % PacketSize # 0 => s[k + 1] = [s[k] EXCEPT !.i = @ + 1]

Ended(s) == s # <<>> => Last(s).i % PacketSize = 0

\* Packets stay whole: those of different users on the way to the GRESB
\* always.  Those of its two connections on the way to a user as long as each
\* of them was received at once and no thread sent to the user while the other
\* one had sent it the part of a packet; no packet stops in its middle but
\* while it is being sent, or when the user leaves.
PacketsApart ==
    /\ Unmixed(up) /\ Ended(up)
    /\ \/ cut
       \/ \A u \in Users \ crossed :
             /\ Unmixed(out[u])
             /\ \/ Ended(out[u])
                \/ u \notin set \ left
                \/ \E t \in Links : MidSend(t, u)

\* What send_all() is for (gresb_bridge.c 57): the user gets the packet it is
\* called with.  Nothing keeps the two threads from one descriptor, and this
\* does not hold, also when every packet is received at once.
PacketsWhole == cut \/ \A u \in Users : Unmixed(out[u])

\* A user left in the middle of a packet.
Spinning == poll.user \in left /\ Avail(poll.user) < PacketSize

\* A packet of a user that stays and cuts no header in two reaches the GRESB,
\* unless another user leaves in the middle of one.  A packet of the GRESB
\* reaches such a user to its last piece, but for an end that came late and is
\* shorter than a header: it waits for the next packet.  SIGPIPE may stop both.
Forwarded ==
    /\ \A u \in Steady, n \in 1..MaxUp :
          sent[u] >= n * PacketSize
             ~> taken[u] >= n * PacketSize \/ Spinning \/ ~alive
    /\ \A u \in Steady, t \in Links, n \in 1..MaxDown :
          LET last == n * PacketSize
              late == cut /\ read[t] < last /\ made[t] - read[t] < HeaderSize
          IN  u \in set /\ made[t] >= last /\ read[t] < last
                 ~> [from |-> t, i |-> last] \in ToSet(out[u]) \/ late \/ ~alive
=============================================================================
