------------------------------ MODULE ClientSet ------------------------------
(***************************************************************************)
(* The clients of the FEE simulator (SIM/smile_fee_sim.c 96-403): the      *)
(* thread that accepts connections, the thread that polls them for         *)
(* requests and replies to everyone, and the main thread that sends data   *)
(* packets to everyone.  The three share a set of descriptors and the      *)
(* largest of them, without a lock.                                        *)
(*                                                                         *)
(* FD_SET and FD_CLR are a load and a later store of the set: the build    *)
(* makes them plain read-modify-write instructions, and `torn' records     *)
(* that one thread's store undid what the other had stored.                *)
(***************************************************************************)
EXTENDS Integers, FiniteSets, FiniteSetsExt

CONSTANTS
    Clients,
    Careful,      \* clients that send each header in one piece
    NoClient,     \* no connection at a descriptor
    MaxRequests,  \* bound on a client's requests
    MaxData       \* bound on the main thread's data packets

ASSUME ClientSetAssumption ==
    /\ IsFiniteSet(Clients) /\ Clients # {}
    /\ Careful \subseteq Clients /\ NoClient \notin Clients
    /\ {MaxRequests, MaxData} \subseteq Nat

Fds == 1..Cardinality(Clients)
Threads == {"main", "poll"}

(***************************************************************************)
(* A request is a stream of three pieces, of which two make the four byte  *)
(* header that gives the size of the rest.                                 *)
(***************************************************************************)
HeaderSize == 2
PacketSize == HeaderSize + 1

Nothing == [kind |-> "nothing"]
Data(n) == [kind |-> "data", n |-> n]
Reply(c, n) == [kind |-> "reply", to |-> c, n |-> n]
Packets == {Data(n) : n \in 1..MaxData}
             \cup {Reply(c, n) : c \in Clients, n \in 1..MaxRequests}

VARIABLES
    fresh,    \* clients that have not connected yet
    backlog,  \* connected, not accepted yet
    left,     \* clients that closed their side
    hit,      \* clients something was sent to after they had left
    sent,     \* pieces a client has sent
    got,      \* packets that were sent to a client while it was there
    taken,    \* pieces received from a client
    conn,     \* the client at each descriptor
    set,      \* cfg->set
    n_fd,     \* cfg->n_fd
    acc,      \* the accept thread
    poll,     \* the poll thread
    tx,       \* distribute_tx() in each thread that calls it
    made,     \* data packets made
    alive,    \* FALSE: SIGPIPE ended the process
    torn      \* history: a store undid the other thread's store

clientVars == <<fresh, left, sent>>
fdVars == <<conn, set, n_fd>>
outVars == <<hit, got, alive>>
vars == <<clientVars, fdVars, outVars, backlog, taken, acc, poll, tx, made, torn>>

Avail(c) == sent[c] - taken[c]

Idle == [pkt |-> Nothing, fd |-> 1, sending |-> FALSE, for |-> {}]

Init ==
    /\ fresh = Clients /\ backlog = {} /\ left = {} /\ hit = {}
    /\ sent = [c \in Clients |-> 0] /\ taken = sent
    /\ got = [c \in Clients |-> {}]
    /\ conn = [fd \in Fds |-> NoClient]
    /\ set = {} /\ n_fd = 0
    /\ acc = [pc |-> "accept", fd |-> 1, seen |-> {}]
    /\ poll = [pc |-> "select", fd |-> 1, ready |-> {}, seen |-> {}]
    /\ tx = [t \in Threads |-> Idle]
    /\ made = 0 /\ alive = TRUE /\ torn = FALSE

-----------------------------------------------------------------------------
(***************************************************************************)
(* The clients.                                                            *)
(***************************************************************************)
Connect(c) ==
    /\ alive /\ c \in fresh
    /\ fresh' = fresh \ {c}
    /\ backlog' = backlog \cup {c}
    /\ UNCHANGED <<left, sent, fdVars, outVars, taken, acc, poll, tx, made, torn>>

Connected(c) == c \notin left /\ (c \in backlog \/ \E fd \in Fds : conn[fd] = c)

clientElse == <<fresh, fdVars, outVars, backlog, taken, acc, poll, tx, made, torn>>

\* Some of the pieces that are left of the packet the client is sending.
SendPieces(c, n) ==
    /\ alive /\ Connected(c)
    /\ n \in 1..(PacketSize - (sent[c] % PacketSize))
    /\ sent[c] + n <= PacketSize * MaxRequests
    /\ sent' = [sent EXCEPT ![c] = @ + n]
    /\ c \in Careful => sent'[c] % PacketSize \notin 1..(HeaderSize - 1)
    /\ UNCHANGED <<clientElse, left>>

Leave(c) ==
    /\ alive /\ Connected(c)
    /\ left' = left \cup {c}
    /\ UNCHANGED <<clientElse, sent>>

-----------------------------------------------------------------------------
(***************************************************************************)
(* accept_connections(): the kernel gives the lowest free descriptor.      *)
(***************************************************************************)
acceptElse == <<clientVars, outVars, taken, poll, tx, made>>

Accept(c) ==
    /\ alive /\ acc.pc = "accept" /\ c \in backlog
    /\ LET fd == Min({f \in Fds : conn[f] = NoClient})
       IN  /\ conn' = [conn EXCEPT ![fd] = c]
           /\ acc' = [acc EXCEPT !.pc = "set", !.fd = fd]
    /\ backlog' = backlog \ {c}
    /\ UNCHANGED <<acceptElse, set, n_fd, torn>>

FdSetLoad ==
    /\ alive /\ acc.pc = "set"
    /\ acc' = [acc EXCEPT !.pc = "store", !.seen = set]
    /\ UNCHANGED <<acceptElse, fdVars, backlog, torn>>

FdSetStore ==
    /\ alive /\ acc.pc = "store"
    /\ set' = acc.seen \cup {acc.fd}
    /\ torn' = (torn \/ set # acc.seen)
    /\ acc' = [acc EXCEPT !.pc = "max", !.seen = {}]
    /\ UNCHANGED <<acceptElse, conn, n_fd, backlog>>

Raise ==
    /\ alive /\ acc.pc = "max"
    /\ n_fd' = Max({n_fd, acc.fd})
    /\ acc' = [acc EXCEPT !.pc = "accept", !.fd = 1]
    /\ UNCHANGED <<acceptElse, conn, set, backlog, torn>>

-----------------------------------------------------------------------------
(***************************************************************************)
(* distribute_tx() in thread t: every descriptor is looked up in the set,  *)
(* and the packet is sent to whoever has the descriptor by then.  A first  *)
(* send to a client that has left does no harm; after it the peer's reset  *)
(* may have arrived, and then a send raises SIGPIPE, which nobody handles. *)
(* send_all() never returns -1, so nothing is closed here.                 *)
(***************************************************************************)
txElse == <<clientVars, fdVars, backlog, taken, acc, torn>>

Registered == {conn[fd] : fd \in {f \in set : f <= n_fd}} \ {NoClient}

Distributing(p) == [pkt |-> p, fd |-> 1, sending |-> FALSE, for |-> Registered]

Looking(t) == alive /\ tx[t].pkt # Nothing /\ ~tx[t].sending

LookUp(t) ==
    /\ Looking(t) /\ tx[t].fd <= n_fd
    /\ tx' = IF tx[t].fd \in set THEN [tx EXCEPT ![t].sending = TRUE]
                                 ELSE [tx EXCEPT ![t].fd = @ + 1]
    /\ UNCHANGED <<txElse, outVars, poll, made>>

SendAll(t) ==
    /\ alive /\ tx[t].sending
    /\ LET c == conn[tx[t].fd]
       IN  /\ got' = [d \in Clients |-> IF d = c /\ d \notin left
                                        THEN got[d] \cup {tx[t].pkt} ELSE got[d]]
           /\ hit' = hit \cup ({c} \cap left)
           /\ alive' \in {TRUE} \cup {FALSE : d \in {c} \cap hit}
    /\ tx' = [tx EXCEPT ![t].sending = FALSE, ![t].fd = @ + 1]
    /\ UNCHANGED <<txElse, poll, made>>

Finished(t) ==
    /\ tx' = [tx EXCEPT ![t] = Idle]
    /\ poll' = IF t = "poll" THEN [poll EXCEPT !.pc = "scan", !.fd = 1]
                             ELSE poll
    /\ UNCHANGED <<txElse, outVars, made>>

\* A bug to compare with: fdc < cfg->n_fd.
MutSent(t) == Looking(t) /\ tx[t].fd >= n_fd /\ Finished(t)

Sent(t) == Looking(t) /\ tx[t].fd > n_fd /\ Finished(t)

\* fee_send_non_rmap() in the main thread.
SendNonRmap ==
    /\ alive /\ tx["main"].pkt = Nothing /\ made < MaxData
    /\ made' = made + 1
    /\ tx' = [tx EXCEPT !["main"] = Distributing(Data(made'))]
    /\ UNCHANGED <<txElse, outVars, poll>>

-----------------------------------------------------------------------------
(***************************************************************************)
(* poll_socket() and sim_rx().  A set that holds a closed descriptor makes *)
(* select() fail for as long as it does.                                   *)
(***************************************************************************)
pollElse == <<clientVars, outVars, backlog, acc, made>>

Ready(fds) == {fd \in fds : Avail(conn[fd]) > 0 \/ conn[fd] \in left}

SelectAmong(asked, ready) ==
    /\ alive /\ poll.pc = "select"
    /\ \A fd \in asked : conn[fd] # NoClient
    /\ Ready(asked) # {}
    /\ poll' = [poll EXCEPT !.pc = "scan", !.ready = ready]
    /\ UNCHANGED <<pollElse, fdVars, taken, tx, torn>>

\* A bug to compare with: the number of descriptors is the largest one.
MutSelectFewer ==
    LET asked == {fd \in set : fd < n_fd} IN SelectAmong(asked, Ready(asked))

\* A bug to compare with: what select() reports is not looked at.
MutSelectAll ==
    LET asked == {fd \in set : fd <= n_fd} IN SelectAmong(asked, asked)

Select ==
    LET asked == {fd \in set : fd <= n_fd} IN SelectAmong(asked, Ready(asked))

Scanned ==
    /\ alive /\ poll.pc = "scan" /\ poll.ready = {}
    /\ poll' = [poll EXCEPT !.pc = "select"]
    /\ UNCHANGED <<pollElse, fdVars, taken, tx, torn>>

Peeked(fd, whole) ==
    /\ alive /\ poll.pc = "scan" /\ poll.ready # {}
    /\ poll' = [poll EXCEPT !.fd = fd, !.ready = @ \ {fd},
                            !.pc = IF whole THEN "body" ELSE "clear"]

\* A bug to compare with: the disconnected socket is closed before it is
\* taken out of the set.
MutPeek ==
    LET fd == Min(poll.ready)
        whole == Avail(conn[fd]) >= HeaderSize
    IN  /\ Peeked(fd, whole)
        /\ conn' = IF whole THEN conn ELSE [conn EXCEPT ![fd] = NoClient]
        /\ UNCHANGED <<pollElse, set, n_fd, taken, tx, torn>>

\* Less than a header at hand counts as a connection that was lost.
Peek ==
    LET fd == Min(poll.ready)
    IN  /\ Peeked(fd, Avail(conn[fd]) >= HeaderSize)
        /\ UNCHANGED <<pollElse, fdVars, taken, tx, torn>>

ReceiveBytes(size) ==
    /\ alive /\ poll.pc = "body"
    /\ LET c == conn[poll.fd]
       IN  /\ Avail(c) >= size
           /\ taken' = [taken EXCEPT ![c] = @ + size]
           /\ tx' = [tx EXCEPT !["poll"] =
                       Distributing(Reply(c, 1 + taken[c] \div PacketSize))]
    /\ poll' = [poll EXCEPT !.pc = "reply"]
    /\ UNCHANGED <<pollElse, fdVars, torn>>

\* A bug to compare with: the size does not count the header.
MutReceive == ReceiveBytes(PacketSize - HeaderSize)

\* The whole packet is waited for, then executed and answered
\* (rmap_sim_rx()).  A client that leaves in the middle of one is waited for
\* forever: recv() gives 0 from then on.  The descriptor blocks, so recv() gives
\* -1 only once, when such a client reset the connection; the loop then goes
\* one octet back, and waits forever just the same.
Receive == ReceiveBytes(PacketSize)

FdClrLoad ==
    /\ alive /\ poll.pc = "clear"
    /\ poll' = [poll EXCEPT !.pc = "store", !.seen = set]
    /\ UNCHANGED <<pollElse, fdVars, taken, tx, torn>>

FdClrStore ==
    /\ alive /\ poll.pc = "store"
    /\ set' = poll.seen \ {poll.fd}
    /\ torn' = (torn \/ set # poll.seen)
    /\ poll' = [poll EXCEPT !.pc = "close", !.seen = {}]
    /\ UNCHANGED <<pollElse, conn, n_fd, taken, tx>>

Close ==
    /\ alive /\ poll.pc = "close"
    /\ conn' = [conn EXCEPT ![poll.fd] = NoClient]
    /\ poll' = [poll EXCEPT !.pc = "scan", !.fd = 1]
    /\ UNCHANGED <<pollElse, set, n_fd, taken, tx, torn>>

-----------------------------------------------------------------------------
AcceptThread == FdSetLoad \/ FdSetStore \/ Raise \/ \E c \in Clients : Accept(c)

PollThread == \/ Select \/ Scanned \/ Peek \/ Receive
              \/ FdClrLoad \/ FdClrStore \/ Close

Distribute(t) == LookUp(t) \/ SendAll(t) \/ Sent(t)

Next ==
    \/ \E c \in Clients : Connect(c) \/ Leave(c)
    \/ \E c \in Clients, n \in 1..PacketSize : SendPieces(c, n)
    \/ AcceptThread
    \/ PollThread
    \/ SendNonRmap
    \/ \E t \in Threads : Distribute(t)

\* A client that has begun a packet sends the rest of it, unless it leaves.
Finish(c) == /\ sent[c] % PacketSize # 0
             /\ SendPieces(c, PacketSize - (sent[c] % PacketSize))

Spec == /\ Init /\ [][Next]_vars
        /\ WF_vars(AcceptThread) /\ WF_vars(PollThread)
        /\ \A t \in Threads : WF_vars(Distribute(t))
        /\ \A c \in Clients : WF_vars(Finish(c))

-----------------------------------------------------------------------------
\* Types; and the place in each client's stream is always the start of a
\* packet, which is where sim_rx() looks for a header.
TypeOK ==
    /\ {fresh, backlog, left, hit} \subseteq SUBSET Clients
    /\ sent \in [Clients -> 0..(PacketSize * MaxRequests)]
    /\ taken \in [Clients -> {PacketSize * n : n \in 0..MaxRequests}]
    /\ \A c \in Clients : Avail(c) >= 0
    /\ got \in [Clients -> SUBSET Packets]
    /\ conn \in [Fds -> Clients \cup {NoClient}]
    /\ set \subseteq Fds /\ n_fd \in {0} \cup Fds
    /\ acc \in [pc : {"accept", "set", "store", "max"}, fd : Fds, seen : SUBSET Fds]
    /\ poll \in [pc : {"select", "scan", "body", "reply", "clear", "store", "close"},
                 fd : Fds, ready : SUBSET Fds, seen : SUBSET Fds]
    /\ tx \in [Threads -> [pkt : Packets \cup {Nothing},
                           fd : 1..(Cardinality(Clients) + 1),
                           sending : BOOLEAN, for : SUBSET Clients]]
    /\ made \in 0..MaxData /\ alive \in BOOLEAN /\ torn \in BOOLEAN

\* Unless a store was undone, the set holds the open descriptors and no
\* other, except for the one each thread is at work on: select() is never
\* asked about a closed descriptor, and no client is forgotten.
SetMatches ==
    torn \/ LET open == {fd \in Fds : conn[fd] # NoClient}
                new == IF acc.pc \in {"set", "store"} THEN {acc.fd} ELSE {}
                old == IF poll.pc = "close" THEN {poll.fd} ELSE {}
            IN  set \subseteq open /\ open \ set \subseteq new \cup old

\* A client that stays, and sends each header in one piece, keeps its
\* connection, however its packets, other clients' and the descriptors
\* they reuse fall between the steps of the threads.
ClientsKept ==
    [][\A fd \in Fds :
          conn[fd] # NoClient /\ conn'[fd] # conn[fd]
             => conn[fd] \in left \cup (Clients \ Careful)]_vars

\* "push buffer to anyone connected": a packet that has been distributed
\* has been sent to every client that was registered when the sending
\* began, unless it has gone or may be cut off for a header in two pieces,
\* or a store was undone.
ReachesAll ==
    [][\A t \in Threads :
          tx[t].pkt # Nothing /\ tx'[t].pkt = Nothing =>
             \A c \in (tx[t].for \cap Careful) \ left :
                tx[t].pkt \in got[c] \/ torn]_vars

\* Every whole request of a client is answered, unless the client leaves or
\* cuts a header in two.  Three more things can stop it, and nothing else:
\* a store that was undone, a client that left in the middle of a packet,
\* and SIGPIPE.
Spinning == /\ poll.pc = "body" /\ conn[poll.fd] \in left
            /\ Avail(conn[poll.fd]) < PacketSize

Answered ==
    \A c \in Careful : \A n \in 1..MaxRequests :
       sent[c] >= n * PacketSize
          ~> \/ Reply(c, n) \in got[c]
             \/ c \in left
             \/ torn \/ Spinning \/ ~alive
=============================================================================
