-------------------------- MODULE ClientSet_proofs --------------------------
(***************************************************************************)
(* Theorems about the simulator's set of clients, for any number of        *)
(* clients, requests and data packets, whichever client cuts its headers.  *)
(***************************************************************************)
EXTENDS ClientSet, FiniteSetTheorems, WellFoundedInduction, TLAPS

-----------------------------------------------------------------------------
(* Descriptors.                                                            *)

LEMMA MaxOfTwo ==
    ASSUME NEW a \in Int, NEW b \in Int
    PROVE  Max({a, b}) = IF a >= b THEN a ELSE b
BY DEF Max

LEMMA MinOfSome ==
    ASSUME NEW S \in SUBSET Nat, S # {}
    PROVE  Min(S) \in S /\ \A n \in S : Min(S) <= n
<1>1. PICK m \in S : \A n \in S : ~(<<n, m>> \in OpToRel(<, Nat))
  BY NatLessThanWellFounded, WFMin
<1>2. \A n \in S : ~(n < m)
  BY <1>1 DEF OpToRel
<1>3. m \in S /\ \A n \in S : m <= n
  BY <1>2
<1>4. QED BY <1>3 DEF Min

LEMMA FdsNumbered ==
    /\ Cardinality(Clients) \in Nat \ {0}
    /\ Fds = 1 .. Cardinality(Clients)
    /\ Fds \in SUBSET Nat /\ 1 \in Fds
    /\ IsFiniteSet(Fds) /\ Cardinality(Fds) = Cardinality(Clients)
<1>1. Cardinality(Clients) \in Nat \ {0}
  BY ClientSetAssumption, FS_CardinalityType, FS_EmptySet
<1>2. IsFiniteSet(1 .. Cardinality(Clients))
      /\ Cardinality(1 .. Cardinality(Clients)) = Cardinality(Clients)
  BY <1>1, FS_Interval
<1>3. QED BY <1>1, <1>2 DEF Fds

-----------------------------------------------------------------------------
(* Types and connections.                                                  *)

\* The parts of TypeOK, which different steps change.
SetTypes ==
    /\ fresh \in SUBSET Clients /\ backlog \in SUBSET Clients
    /\ left \in SUBSET Clients /\ hit \in SUBSET Clients
    /\ conn \in [Fds -> Clients \cup {NoClient}]
    /\ set \subseteq Fds /\ n_fd \in {0} \cup Fds

StreamTypes ==
    /\ sent \in [Clients -> 0 .. (PacketSize * MaxRequests)]
    /\ taken \in [Clients -> {PacketSize * n : n \in 0 .. MaxRequests}]
    /\ \A c \in Clients : Avail(c) >= 0

ThreadTypes ==
    /\ acc \in [pc : {"accept", "set", "store", "max"}, fd : Fds, seen : SUBSET Fds]
    /\ poll \in [pc : {"select", "scan", "body", "reply", "clear", "store", "close"},
                 fd : Fds, ready : SUBSET Fds, seen : SUBSET Fds]

TxTypes ==
    /\ tx \in [Threads -> [pkt : Packets \cup {Nothing},
                           fd : 1 .. (Cardinality(Clients) + 1),
                           sending : BOOLEAN, for : SUBSET Clients]]
    /\ got \in [Clients -> SUBSET Packets]
    /\ made \in 0 .. MaxData

FlagTypes == alive \in BOOLEAN /\ torn \in BOOLEAN

LEMMA TypeParts ==
    TypeOK <=> SetTypes /\ StreamTypes /\ ThreadTypes /\ TxTypes /\ FlagTypes
BY DEF TypeOK, SetTypes, StreamTypes, ThreadTypes, TxTypes, FlagTypes

\* A client waits, or is connected at one descriptor.
ConnInv ==
    /\ \A c \in fresh : c \notin backlog
    /\ \A fd \in Fds : conn[fd] \notin fresh \cup backlog
    /\ \A f, g \in Fds : conn[f] = conn[g] /\ conn[f] # NoClient => f = g

\* The descriptor that the poll thread is at work on.
AtWork == {"body", "reply", "clear", "store", "close"}

\* What the poll thread is at work on is open, and so is what it will come to;
\* what it closes has gone or cut its header.
PollInv ==
    /\ poll.pc \in AtWork => conn[poll.fd] # NoClient /\ poll.fd \notin poll.ready
    /\ poll.pc = "select" => poll.ready = {}
    /\ \A fd \in poll.ready : /\ conn[fd] # NoClient
                              /\ Avail(conn[fd]) > 0 \/ conn[fd] \in left
    /\ poll.pc \in {"clear", "store", "close"} =>
          conn[poll.fd] \in left \cup (Clients \ Careful)

\* A thread that sends has a packet and a descriptor to send it to; the poll
\* thread sends its replies before it goes on.
TxInv ==
    /\ \A t \in Threads : tx[t].sending => tx[t].pkt # Nothing /\ tx[t].fd \in Fds
    /\ tx["poll"].pkt # Nothing => poll.pc = "reply"

\* A careful client never has half a header under way.
HeaderInv == \A c \in Careful : sent[c] % PacketSize \notin 1 .. (HeaderSize - 1)

Types == SetTypes /\ StreamTypes /\ ThreadTypes /\ TxTypes /\ FlagTypes

Inv == Types /\ ConnInv /\ PollInv /\ TxInv /\ HeaderInv

\* A waiting client finds a descriptor: there are as many as clients.
LEMMA FreeDescriptor ==
    ASSUME SetTypes, ConnInv, NEW c \in backlog
    PROVE  LET free == {f \in Fds : conn[f] = NoClient}
           IN  Min(free) \in Fds /\ conn[Min(free)] = NoClient
<1> DEFINE free == {f \in Fds : conn[f] = NoClient}
<1>1. c \in Clients
  BY DEF SetTypes
<1>2. free # {}
  <2> SUFFICES ASSUME free = {} PROVE FALSE
    OBVIOUS
  <2>1. conn \in Injection(Fds, Clients)
    BY DEF SetTypes, ConnInv, Injection, IsInjective
  <2>2. conn \in Surjection(Fds, Clients)
    BY <2>1, FdsNumbered, FS_Injection, ClientSetAssumption
  <2>3. \E f \in Fds : conn[f] = c
    BY <1>1, <2>2 DEF Surjection
  <2>4. QED BY <2>3 DEF ConnInv
<1>3. free \in SUBSET Nat
  BY FdsNumbered
<1>4. QED BY <1>2, <1>3, MinOfSome

LEMMA InvInit == Init => Inv
<1> SUFFICES ASSUME Init PROVE Inv
  OBVIOUS
<1>1. SetTypes
  BY DEF Init, SetTypes
<1>2. StreamTypes
  <2>1. sent = [c \in Clients |-> 0] /\ taken = [c \in Clients |-> 0]
    BY DEF Init
  <2>2. MaxRequests \in Nat
    BY ClientSetAssumption
  <2>3. sent \in [Clients -> 0 .. (PacketSize * MaxRequests)]
    BY <2>1, <2>2 DEF PacketSize, HeaderSize
  <2>4. 0 \in {PacketSize * n : n \in 0 .. MaxRequests}
    <3>1. 0 = PacketSize * 0 /\ 0 \in 0 .. MaxRequests
      BY <2>2 DEF PacketSize, HeaderSize
    <3>2. QED BY <3>1
  <2>5. QED BY <2>1, <2>3, <2>4 DEF StreamTypes, Avail
<1>3. ThreadTypes
  BY FdsNumbered DEF Init, ThreadTypes
<1>4. TxTypes
  <2>1. 1 \in 1 .. (Cardinality(Clients) + 1) /\ 0 \in 0 .. MaxData
    BY FdsNumbered, ClientSetAssumption
  <2>2. QED BY <2>1 DEF Init, TxTypes, Idle
<1>5. FlagTypes
  BY DEF Init, FlagTypes
<1>6. ConnInv /\ PollInv /\ TxInv
  BY ClientSetAssumption DEF Init, ConnInv, PollInv, TxInv, AtWork, Idle, Threads
<1>7. HeaderInv
  BY ClientSetAssumption DEF Init, HeaderInv, PacketSize, HeaderSize
<1>8. QED BY <1>1, <1>2, <1>3, <1>4, <1>5, <1>6, <1>7 DEF Inv, Types

\* What a step of the poll thread does to the descriptor it is at work on.
LEMMA AtWorkOpen ==
    ASSUME Inv, poll.pc \in AtWork
    PROVE  poll.fd \in Fds /\ conn[poll.fd] \in Clients
BY DEF Inv, Types, SetTypes, ThreadTypes, PollInv

\* A distribution starts with a packet and goes to clients.
LEMMA DistributingTyped ==
    ASSUME Inv, NEW p \in Packets
    PROVE  Distributing(p) \in [pkt : Packets \cup {Nothing},
                               fd : 1 .. (Cardinality(Clients) + 1),
                               sending : BOOLEAN, for : SUBSET Clients]
<1>1. Registered \in SUBSET Clients
  BY DEF Registered, Inv, Types, SetTypes
<1>2. 1 \in 1 .. (Cardinality(Clients) + 1)
  BY FdsNumbered
<1>3. QED BY <1>1, <1>2 DEF Distributing

\* A whole packet more keeps the place at the start of a packet.
LEMMA ReceiveTyped ==
    ASSUME Inv, Receive
    PROVE  /\ StreamTypes'
           /\ Reply(conn[poll.fd], 1 + taken[conn[poll.fd]] \div PacketSize) \in Packets
<1> DEFINE c == conn[poll.fd]
<1>1. c \in Clients /\ Avail(c) >= PacketSize /\ UNCHANGED sent
      /\ taken' = [taken EXCEPT ![c] = @ + PacketSize]
  BY AtWorkOpen DEF Receive, ReceiveBytes, AtWork, pollElse, clientVars
<1> HIDE DEF c
<1>2. PICK n \in 0 .. MaxRequests : taken[c] = PacketSize * n
  BY <1>1 DEF Inv, Types, StreamTypes
<1>3. MaxRequests \in Nat
  BY ClientSetAssumption
<1>4. sent[c] \in 0 .. (PacketSize * MaxRequests)
  BY <1>1 DEF Inv, Types, StreamTypes
<1>5. n + 1 \in 0 .. MaxRequests /\ taken[c] + PacketSize = PacketSize * (n + 1)
  BY <1>1, <1>2, <1>3, <1>4 DEF Avail, PacketSize, HeaderSize
<1>6. taken[c] + PacketSize \in {PacketSize * m : m \in 0 .. MaxRequests}
  BY <1>5
<1>7. taken' \in [Clients -> {PacketSize * m : m \in 0 .. MaxRequests}]
  BY <1>1, <1>6 DEF Inv, Types, StreamTypes
<1>8. \A d \in Clients : Avail(d)' >= 0
  <2> TAKE d \in Clients
  <2>1. CASE d = c
    BY <2>1, <1>1, <1>2, <1>4 DEF Avail, PacketSize, HeaderSize, Inv, Types, StreamTypes
  <2>2. CASE d # c
    <3>1. taken'[d] = taken[d]
      BY <2>2, <1>1 DEF Inv, Types, StreamTypes
    <3>2. QED BY <3>1, <1>1 DEF Avail, Inv, Types, StreamTypes
  <2>3. QED BY <2>1, <2>2
<1>9. 1 + taken[c] \div PacketSize = n + 1 /\ n + 1 \in 1 .. MaxRequests
  BY <1>2, <1>3, <1>5 DEF PacketSize, HeaderSize
<1>10. Reply(c, 1 + taken[c] \div PacketSize) \in Packets
  BY <1>1, <1>9 DEF Packets
<1>11. QED BY <1>1, <1>7, <1>8, <1>10 DEF StreamTypes, Inv, Types, c

\* Flags are set and cleared to truth values.
LEMMA FlagStep == FlagTypes /\ [Next]_vars => FlagTypes'
BY DEF FlagTypes, Next, vars, AcceptThread, PollThread, Distribute, Connect, Leave, SendPieces,
       Accept, FdSetLoad, FdSetStore, Raise, LookUp, SendAll, Sent, Finished, SendNonRmap,
       Select, SelectAmong, Scanned, Peek, Peeked, Receive, ReceiveBytes, FdClrLoad,
       FdClrStore, Close, clientVars, fdVars, outVars, clientElse, acceptElse, txElse, pollElse

LEMMA TypeStep == Inv /\ [Next]_vars => Types'
<1> SUFFICES ASSUME Inv, [Next]_vars PROVE Types'
  OBVIOUS
<1> USE DEF clientVars, fdVars, outVars, clientElse, acceptElse, txElse, pollElse
<1> DEFINE TxRecords == [pkt : Packets \cup {Nothing}, fd : 1 .. (Cardinality(Clients) + 1),
                        sending : BOOLEAN, for : SUBSET Clients]
<1>0. FlagTypes'
  BY FlagStep DEF Inv, Types
<1> SUFFICES (SetTypes /\ StreamTypes /\ ThreadTypes /\ TxTypes)'
  BY <1>0 DEF Types
<1>t. SetTypes /\ StreamTypes /\ ThreadTypes /\ TxTypes
  BY DEF Inv, Types
<1>a. ASSUME UNCHANGED <<fresh, backlog, left, hit, conn, set, n_fd>> PROVE SetTypes'
  BY <1>t, <1>a DEF SetTypes
<1>b. ASSUME UNCHANGED <<sent, taken>> PROVE StreamTypes'
  BY <1>t, <1>b DEF StreamTypes, Avail
<1>c. ASSUME UNCHANGED <<acc, poll>> PROVE ThreadTypes'
  BY <1>t, <1>c DEF ThreadTypes
<1>d. ASSUME UNCHANGED <<tx, got, made>> PROVE TxTypes'
  BY <1>t, <1>d DEF TxTypes
<1>1. ASSUME NEW c \in Clients, Connect(c) \/ Leave(c)
      PROVE  (SetTypes /\ StreamTypes /\ ThreadTypes /\ TxTypes)'
  <2>1. SetTypes'
    BY <1>t, <1>1 DEF Connect, Leave, SetTypes
  <2>2. QED BY <2>1, <1>1, <1>b, <1>c, <1>d DEF Connect, Leave
<1>2. ASSUME NEW c \in Clients, NEW n \in 1 .. PacketSize, SendPieces(c, n)
      PROVE  (SetTypes /\ StreamTypes /\ ThreadTypes /\ TxTypes)'
  <2>1. /\ sent' = [sent EXCEPT ![c] = @ + n] /\ taken' = taken
        /\ sent[c] + n <= PacketSize * MaxRequests
    BY <1>2 DEF SendPieces
  <2>2. n \in Nat /\ MaxRequests \in Nat
    BY ClientSetAssumption DEF PacketSize, HeaderSize
  <2>3. sent[c] \in Nat /\ taken[c] \in Nat
    BY <1>t, <2>2 DEF StreamTypes, PacketSize, HeaderSize
  <2>4. sent' \in [Clients -> 0 .. (PacketSize * MaxRequests)]
    BY <1>t, <2>1, <2>2, <2>3 DEF StreamTypes, PacketSize, HeaderSize
  <2>5. \A d \in Clients : Avail(d)' >= 0
    BY <1>t, <2>1, <2>2, <2>3 DEF StreamTypes, Avail
  <2>6. StreamTypes'
    BY <1>t, <2>1, <2>4, <2>5 DEF StreamTypes
  <2>7. QED BY <2>6, <1>2, <1>a, <1>c, <1>d DEF SendPieces
<1>3. ASSUME NEW c \in Clients, Accept(c)
      PROVE  (SetTypes /\ StreamTypes /\ ThreadTypes /\ TxTypes)'
  <2>1. PICK fd \in Fds : /\ conn' = [conn EXCEPT ![fd] = c]
                          /\ acc' = [acc EXCEPT !.pc = "set", !.fd = fd]
    BY <1>t, <1>3, FreeDescriptor DEF Accept, Inv
  <2>2. SetTypes'
    BY <1>t, <1>3, <2>1 DEF Accept, SetTypes
  <2>3. ThreadTypes'
    BY <1>t, <1>3, <2>1 DEF Accept, ThreadTypes
  <2>4. QED BY <2>2, <2>3, <1>3, <1>b, <1>d DEF Accept
<1>4. CASE FdSetLoad
  <2>1. ThreadTypes'
    BY <1>t, <1>4 DEF FdSetLoad, ThreadTypes, SetTypes
  <2>2. QED BY <2>1, <1>4, <1>a, <1>b, <1>d DEF FdSetLoad
<1>5. CASE FdSetStore
  <2>1. ThreadTypes' /\ SetTypes'
    BY <1>t, <1>5 DEF FdSetStore, ThreadTypes, SetTypes
  <2>2. QED BY <2>1, <1>5, <1>b, <1>d DEF FdSetStore
<1>6. CASE Raise
  <2>1. n_fd \in Int /\ acc.fd \in Int
    BY <1>t, FdsNumbered DEF SetTypes, ThreadTypes
  <2>2. n_fd' \in {0} \cup Fds
    BY <1>t, <1>6, <2>1, MaxOfTwo DEF Raise, SetTypes, ThreadTypes
  <2>3. ThreadTypes'
    BY <1>t, <1>6, FdsNumbered DEF Raise, ThreadTypes
  <2>4. SetTypes'
    BY <1>t, <1>6, <2>2 DEF Raise, SetTypes
  <2>5. QED BY <2>3, <2>4, <1>6, <1>b, <1>d DEF Raise
<1>7. CASE Select
  <2>1. ThreadTypes'
    BY <1>t, <1>7 DEF Select, SelectAmong, Ready, ThreadTypes, SetTypes
  <2>2. QED BY <2>1, <1>7, <1>a, <1>b, <1>d DEF Select, SelectAmong
<1>8. CASE Scanned
  <2>1. ThreadTypes'
    BY <1>t, <1>8 DEF Scanned, ThreadTypes
  <2>2. QED BY <2>1, <1>8, <1>a, <1>b, <1>d DEF Scanned
<1>9. CASE Peek
  <2>1. poll.ready \in SUBSET Nat /\ poll.ready # {}
    BY <1>t, <1>9, FdsNumbered DEF Peek, Peeked, ThreadTypes
  <2>2. Min(poll.ready) \in Fds
    BY <1>t, <2>1, MinOfSome DEF ThreadTypes
  <2>3. ThreadTypes'
    BY <1>t, <1>9, <2>2 DEF Peek, Peeked, ThreadTypes
  <2>4. QED BY <2>3, <1>9, <1>a, <1>b, <1>d DEF Peek, Peeked
<1>10. CASE Receive
  <2> DEFINE p == Reply(conn[poll.fd], 1 + taken[conn[poll.fd]] \div PacketSize)
  <2>1. Distributing(p) \in TxRecords /\ StreamTypes'
    BY <1>10, ReceiveTyped, DistributingTyped
  <2>2. tx' = [tx EXCEPT !["poll"] = Distributing(p)]
    BY <1>10 DEF Receive, ReceiveBytes
  <2>3. UNCHANGED <<fresh, backlog, left, hit, conn, set, n_fd, acc, got, made>>
        /\ poll' = [poll EXCEPT !.pc = "reply"]
    BY <1>10 DEF Receive, ReceiveBytes
  <2> HIDE DEF p
  <2>4. TxTypes'
    BY <1>t, <2>1, <2>2, <2>3 DEF TxTypes
  <2>5. ThreadTypes'
    BY <1>t, <2>3 DEF ThreadTypes
  <2>6. QED BY <2>1, <2>3, <2>4, <2>5, <1>a
<1>11. CASE FdClrLoad
  <2>1. ThreadTypes'
    BY <1>t, <1>11 DEF FdClrLoad, ThreadTypes, SetTypes
  <2>2. QED BY <2>1, <1>11, <1>a, <1>b, <1>d DEF FdClrLoad
<1>12. CASE FdClrStore
  <2>1. ThreadTypes' /\ SetTypes'
    BY <1>t, <1>12 DEF FdClrStore, ThreadTypes, SetTypes
  <2>2. QED BY <2>1, <1>12, <1>b, <1>d DEF FdClrStore
<1>13. CASE Close
  <2>1. ThreadTypes' /\ SetTypes'
    BY <1>t, <1>13, FdsNumbered DEF Close, ThreadTypes, SetTypes
  <2>2. QED BY <2>1, <1>13, <1>b, <1>d DEF Close
<1>14. CASE SendNonRmap
  <2>1. made' = made + 1 /\ made < MaxData
        /\ tx' = [tx EXCEPT !["main"] = Distributing(Data(made'))]
        /\ UNCHANGED <<fresh, backlog, left, hit, conn, set, n_fd, sent, taken, acc, poll, got>>
    BY <1>14 DEF SendNonRmap
  <2>2. made' \in 1 .. MaxData
    BY <1>t, <2>1, ClientSetAssumption DEF TxTypes
  <2>3. Data(made') \in Packets
    BY <2>2 DEF Packets
  <2>4. Distributing(Data(made')) \in TxRecords
    BY <2>3, DistributingTyped
  <2>5. made' \in 0 .. MaxData
    BY <2>2
  <2>6. TxTypes'
    BY <1>t, <2>1, <2>4, <2>5 DEF TxTypes
  <2>7. QED BY <2>1, <2>6, <1>a, <1>b, <1>c
<1>15. ASSUME NEW t \in Threads, LookUp(t)
       PROVE  (SetTypes /\ StreamTypes /\ ThreadTypes /\ TxTypes)'
  <2>1. tx[t].fd + 1 \in 1 .. (Cardinality(Clients) + 1)
    BY <1>t, <1>15, FdsNumbered DEF LookUp, TxTypes, SetTypes
  <2>2. TxTypes'
    BY <1>t, <1>15, <2>1 DEF LookUp, TxTypes
  <2>3. QED BY <2>2, <1>15, <1>a, <1>b, <1>c DEF LookUp
<1>16. ASSUME NEW t \in Threads, SendAll(t)
       PROVE  (SetTypes /\ StreamTypes /\ ThreadTypes /\ TxTypes)'
  <2>1. tx[t].sending /\ tx' = [tx EXCEPT ![t].sending = FALSE, ![t].fd = @ + 1]
    BY <1>16 DEF SendAll
  <2>2. tx[t].fd + 1 \in 1 .. (Cardinality(Clients) + 1) /\ tx[t].pkt \in Packets
    BY <1>t, <2>1, FdsNumbered DEF TxTypes, TxInv, Inv
  <2>3. tx' \in [Threads -> TxRecords]
    BY <1>t, <2>1, <2>2 DEF TxTypes
  <2>4. got' \in [Clients -> SUBSET Packets]
    BY <1>t, <1>16, <2>2 DEF SendAll, TxTypes
  <2>5. TxTypes'
    BY <1>t, <1>16, <2>3, <2>4 DEF SendAll, TxTypes
  <2>6. hit' \in SUBSET Clients
    BY <1>t, <1>16 DEF SendAll, SetTypes
  <2>7. SetTypes'
    BY <1>t, <1>16, <2>6 DEF SendAll, SetTypes
  <2>8. QED BY <2>5, <2>7, <1>16, <1>b, <1>c DEF SendAll
<1>17. ASSUME NEW t \in Threads, Sent(t)
       PROVE  (SetTypes /\ StreamTypes /\ ThreadTypes /\ TxTypes)'
  <2>1. Idle \in TxRecords
    BY FdsNumbered DEF Idle
  <2>2. TxTypes'
    BY <1>t, <1>17, <2>1 DEF Sent, Finished, TxTypes
  <2>3. ThreadTypes'
    BY <1>t, <1>17, FdsNumbered DEF Sent, Finished, ThreadTypes
  <2>4. QED BY <2>2, <2>3, <1>17, <1>a, <1>b DEF Sent, Finished
<1>18. CASE UNCHANGED vars
  BY <1>18, <1>a, <1>b, <1>c, <1>d DEF vars
<1>19. QED
  BY <1>1, <1>2, <1>3, <1>4, <1>5, <1>6, <1>7, <1>8, <1>9, <1>10, <1>11, <1>12, <1>13,
     <1>14, <1>15, <1>16, <1>17, <1>18
  DEF Next, AcceptThread, PollThread, Distribute

LEMMA ConnStep == Inv /\ [Next]_vars => ConnInv'
<1> SUFFICES ASSUME Inv, [Next]_vars PROVE ConnInv'
  OBVIOUS
<1> USE DEF clientVars, fdVars, outVars, clientElse, acceptElse, txElse, pollElse
<1>0. ConnInv /\ SetTypes
  BY DEF Inv, Types
<1>1. ASSUME UNCHANGED <<fresh, backlog, conn>> PROVE ConnInv'
  BY <1>0, <1>1 DEF ConnInv
<1>2. ASSUME NEW c \in Clients, Connect(c) PROVE ConnInv'
  BY <1>0, <1>2 DEF ConnInv, Connect
<1>3. ASSUME NEW c \in Clients, Accept(c) PROVE ConnInv'
  <2>1. PICK fd \in Fds : conn' = [conn EXCEPT ![fd] = c] /\ conn[fd] = NoClient
    BY <1>3, FreeDescriptor DEF Accept, Inv, Types
  <2>2. /\ c \in backlog /\ fresh' = fresh /\ backlog' = backlog \ {c}
        /\ c \notin fresh /\ \A f \in Fds : conn[f] # c
    BY <1>0, <1>3 DEF Accept, ConnInv
  <2>3. conn'[fd] = c /\ \A f \in Fds \ {fd} : conn'[f] = conn[f]
    BY <1>0, <2>1 DEF SetTypes
  <2>4. QED BY <1>0, <2>2, <2>3 DEF ConnInv
<1>4. CASE Close
  <2>1. /\ fresh' = fresh /\ backlog' = backlog
        /\ conn' = [conn EXCEPT ![poll.fd] = NoClient]
    BY <1>4 DEF Close
  <2>2. \A f \in Fds : conn'[f] \in {conn[f], NoClient}
    BY <1>0, <2>1 DEF SetTypes
  <2>3. NoClient \notin fresh \cup backlog
    BY <1>0, ClientSetAssumption DEF SetTypes
  <2>4. QED BY <1>0, <2>1, <2>2, <2>3 DEF ConnInv
<1>5. QED
  BY <1>1, <1>2, <1>3, <1>4
  DEF Next, AcceptThread, PollThread, Distribute, vars, Leave, SendPieces, FdSetLoad,
      FdSetStore, Raise, Select, SelectAmong, Scanned, Peek, Peeked, Receive, ReceiveBytes,
      FdClrLoad, FdClrStore, SendNonRmap, LookUp, SendAll, Sent, Finished

LEMMA TxStep == Inv /\ [Next]_vars => TxInv'
<1> SUFFICES ASSUME Inv, [Next]_vars PROVE TxInv'
  OBVIOUS
<1> USE DEF clientVars, fdVars, outVars, clientElse, acceptElse, txElse, pollElse
<1>0. TxInv /\ TxTypes /\ ThreadTypes /\ SetTypes
  BY DEF Inv, Types
<1>1. ASSUME UNCHANGED tx, poll' = poll \/ poll.pc # "reply"
      PROVE  TxInv'
  BY <1>0, <1>1 DEF TxInv
<1>2. CASE Receive
  <2>1. \A p \in Packets : Distributing(p).pkt = p /\ ~Distributing(p).sending
    BY DEF Distributing
  <2>2. PICK p \in Packets : tx' = [tx EXCEPT !["poll"] = Distributing(p)]
    BY <1>2, ReceiveTyped DEF Receive, ReceiveBytes
  <2>3. poll'.pc = "reply"
    BY <1>0, <1>2 DEF Receive, ReceiveBytes, ThreadTypes
  <2>4. QED BY <1>0, <2>1, <2>2, <2>3 DEF TxInv, TxTypes, Threads
<1>3. CASE SendNonRmap
  <2>1. PICK p : tx' = [tx EXCEPT !["main"] = Distributing(p)]
    BY <1>3 DEF SendNonRmap
  <2>2. ~Distributing(p).sending
    BY DEF Distributing
  <2>3. tx'["poll"] = tx["poll"] /\ poll' = poll
    BY <1>0, <1>3, <2>1 DEF TxTypes, Threads, SendNonRmap
  <2>4. ~tx'["main"].sending
    BY <1>0, <2>1, <2>2 DEF TxTypes, Threads
  <2>5. QED BY <1>0, <2>3, <2>4 DEF TxInv, Threads
<1>4. ASSUME NEW t \in Threads, LookUp(t) PROVE TxInv'
  <2>1. tx[t].fd \in set => tx[t].fd \in Fds
    BY <1>0 DEF SetTypes
  <2>2. tx[t].pkt # Nothing /\ ~tx[t].sending /\ poll' = poll
    BY <1>4 DEF LookUp, Looking
  <2>3. CASE tx[t].fd \in set
    <3>1. tx' = [tx EXCEPT ![t].sending = TRUE]
      BY <1>4, <2>3 DEF LookUp
    <3>2. QED BY <1>0, <2>1, <2>2, <2>3, <3>1 DEF TxInv, TxTypes, Threads
  <2>4. CASE tx[t].fd \notin set
    <3>1. tx' = [tx EXCEPT ![t].fd = @ + 1]
      BY <1>4, <2>4 DEF LookUp
    <3>2. QED BY <1>0, <2>2, <3>1 DEF TxInv, TxTypes, Threads
  <2>5. QED BY <2>3, <2>4
<1>5. ASSUME NEW t \in Threads, SendAll(t) PROVE TxInv'
  <2>1. tx' = [tx EXCEPT ![t].sending = FALSE, ![t].fd = @ + 1] /\ poll' = poll
    BY <1>5 DEF SendAll
  <2>2. QED BY <1>0, <2>1 DEF TxInv, TxTypes, Threads
<1>6. ASSUME NEW t \in Threads, Sent(t) PROVE TxInv'
  <2>1. /\ tx' = [tx EXCEPT ![t] = Idle]
        /\ t # "poll" => poll' = poll
    BY <1>6 DEF Sent, Finished
  <2>2. Idle.pkt = Nothing /\ ~Idle.sending
    BY DEF Idle
  <2>3. QED BY <1>0, <2>1, <2>2 DEF TxInv, TxTypes, Threads
<1>7. QED
  BY <1>1, <1>2, <1>3, <1>4, <1>5, <1>6
  DEF Next, AcceptThread, PollThread, Distribute, vars, Connect, Leave, SendPieces, Accept,
      FdSetLoad, FdSetStore, Raise, Select, SelectAmong, Scanned, Peek, Peeked,
      FdClrLoad, FdClrStore, Close

LEMMA HeaderStep == Inv /\ [Next]_vars => HeaderInv'
<1> SUFFICES ASSUME Inv, [Next]_vars PROVE HeaderInv'
  OBVIOUS
<1>1. ASSUME UNCHANGED sent PROVE HeaderInv'
  BY <1>1 DEF Inv, HeaderInv
<1>2. ASSUME NEW c \in Clients, NEW n \in 1 .. PacketSize, SendPieces(c, n) PROVE HeaderInv'
  <2>1. \A d \in Careful \ {c} : sent'[d] = sent[d]
    BY <1>2, ClientSetAssumption DEF SendPieces, Inv, Types, StreamTypes
  <2>2. c \in Careful => sent'[c] % PacketSize \notin 1 .. (HeaderSize - 1)
    BY <1>2 DEF SendPieces
  <2>3. QED BY <2>1, <2>2 DEF Inv, HeaderInv
<1>3. QED
  BY <1>1, <1>2
  DEF Next, AcceptThread, PollThread, Distribute, vars, Connect, Leave, Accept, FdSetLoad,
      FdSetStore, Raise, Select, SelectAmong, Scanned, Peek, Peeked, Receive, ReceiveBytes,
      FdClrLoad, FdClrStore, Close, SendNonRmap, LookUp, SendAll, Sent, Finished,
      clientVars, fdVars, outVars, clientElse, acceptElse, txElse, pollElse

\* A careful client that has less than a header at hand has nothing at hand.
LEMMA CarefulHeader ==
    ASSUME Inv, NEW c \in Careful, Avail(c) > 0
    PROVE  Avail(c) >= HeaderSize
<1>1. c \in Clients /\ MaxRequests \in Nat
  BY ClientSetAssumption
<1>2. PICK n \in 0 .. MaxRequests : taken[c] = PacketSize * n
  BY <1>1 DEF Inv, Types, StreamTypes
<1>3. sent[c] \in Nat
  BY <1>1 DEF Inv, Types, StreamTypes, PacketSize, HeaderSize
<1>4. sent[c] % 3 # 1
  BY DEF Inv, HeaderInv, PacketSize, HeaderSize
<1>5. sent[c] # 3 * n + 1
  BY <1>1, <1>3, <1>4
<1>6. QED BY <1>1, <1>2, <1>3, <1>5 DEF Avail, PacketSize, HeaderSize

LEMMA PollStep == Inv /\ [Next]_vars => PollInv'
<1> SUFFICES ASSUME Inv, [Next]_vars PROVE PollInv'
  OBVIOUS
<1> USE DEF clientVars, fdVars, outVars, clientElse, acceptElse, txElse, pollElse
<1>0. PollInv /\ ThreadTypes /\ SetTypes /\ StreamTypes
  BY DEF Inv, Types
<1>1. ASSUME UNCHANGED poll,
             \A fd \in Fds : conn[fd] # NoClient => conn'[fd] = conn[fd],
             left \subseteq left',
             \A c \in Clients : Avail(c) > 0 => Avail(c)' > 0
      PROVE  PollInv'
  BY <1>0, <1>1 DEF PollInv, ThreadTypes, SetTypes, AtWork
<1>2. ASSUME UNCHANGED <<poll, conn, left, sent, taken>> PROVE PollInv'
  BY <1>1, <1>2 DEF Avail
<1>3. ASSUME NEW c \in Clients, Connect(c) \/ Leave(c) PROVE PollInv'
  BY <1>1, <1>3 DEF Connect, Leave, Avail
<1>4. ASSUME NEW c \in Clients, NEW n \in 1 .. PacketSize, SendPieces(c, n) PROVE PollInv'
  <2>1. \A d \in Clients : Avail(d) > 0 => Avail(d)' > 0
    <3> TAKE d \in Clients
    <3>1. sent' = [sent EXCEPT ![c] = @ + n] /\ taken' = taken /\ n \in Nat
      BY <1>4 DEF SendPieces, PacketSize, HeaderSize
    <3>2. sent[d] \in Int /\ taken[d] \in Int
      BY <1>0, ClientSetAssumption DEF StreamTypes, PacketSize, HeaderSize
    <3>3. sent'[d] \in {sent[d], sent[d] + n}
      BY <1>0, <3>1 DEF StreamTypes
    <3>4. QED BY <3>1, <3>2, <3>3 DEF Avail
  <2>2. QED BY <1>1, <1>4, <2>1 DEF SendPieces
<1>5. ASSUME NEW c \in Clients, Accept(c) PROVE PollInv'
  <2>1. PICK f \in Fds : conn' = [conn EXCEPT ![f] = c] /\ conn[f] = NoClient
    BY <1>5, FreeDescriptor DEF Accept, Inv, Types
  <2>2. \A fd \in Fds : conn[fd] # NoClient => conn'[fd] = conn[fd]
    BY <1>0, <2>1 DEF SetTypes
  <2>3. QED BY <1>1, <1>5, <2>2 DEF Accept, Avail
<1>6. CASE Select
  <2>1. PICK asked \in SUBSET Fds :
          /\ \A fd \in asked : conn[fd] # NoClient
          /\ poll' = [poll EXCEPT !.pc = "scan", !.ready = Ready(asked)]
          /\ UNCHANGED <<conn, left, sent, taken>>
    BY <1>0, <1>6 DEF Select, SelectAmong, SetTypes
  <2>2. poll'.pc = "scan" /\ poll'.ready = Ready(asked)
    BY <1>0, <2>1 DEF ThreadTypes
  <2>3. QED BY <2>1, <2>2 DEF PollInv, Ready, Avail, AtWork
<1>7. CASE Scanned
  <2>1. poll'.pc = "select" /\ poll'.ready = {} /\ UNCHANGED conn
    BY <1>0, <1>7 DEF Scanned, ThreadTypes
  <2>2. QED BY <2>1 DEF PollInv, AtWork
<1>8. CASE Peek
  <2> DEFINE fd == Min(poll.ready)
             c == conn[fd]
  <2>1. fd \in poll.ready
    BY <1>0, <1>8, FdsNumbered, MinOfSome DEF Peek, Peeked, ThreadTypes
  <2>2. fd \in Fds /\ c \in Clients /\ (Avail(c) > 0 \/ c \in left)
    BY <1>0, <2>1 DEF PollInv, ThreadTypes, SetTypes
  <2>3. /\ poll'.fd = fd /\ poll'.ready = poll.ready \ {fd}
        /\ poll'.pc = IF Avail(c) >= HeaderSize THEN "body" ELSE "clear"
        /\ UNCHANGED <<conn, left, sent, taken>>
    BY <1>0, <1>8 DEF Peek, Peeked, ThreadTypes
  <2> HIDE DEF fd
  <2>4. poll'.pc = "clear" => c \in left \cup (Clients \ Careful)
    BY <2>2, <2>3, CarefulHeader
  <2>5. c # NoClient /\ poll'.pc \in {"body", "clear"}
    BY <2>2, <2>3, ClientSetAssumption
  <2>6. \A f \in poll'.ready : /\ conn[f] # NoClient
                               /\ Avail(conn[f]) > 0 \/ conn[f] \in left
    BY <1>0, <2>3 DEF PollInv
  <2>7. conn'[poll'.fd] = c /\ poll'.fd \notin poll'.ready
    BY <2>3
  <2> HIDE DEF c
  <2>8. QED BY <2>3, <2>4, <2>5, <2>6, <2>7 DEF PollInv, Avail, AtWork
<1>9. CASE Receive
  <2> DEFINE c == conn[poll.fd]
  <2>1. poll.fd \in Fds /\ c \in Clients /\ poll.fd \notin poll.ready
    BY <1>0, <1>9, AtWorkOpen DEF Receive, ReceiveBytes, AtWork, PollInv
  <2>2. /\ poll'.pc = "reply" /\ poll'.fd = poll.fd /\ poll'.ready = poll.ready
        /\ UNCHANGED <<conn, left, sent>>
        /\ taken' = [taken EXCEPT ![c] = @ + PacketSize]
    BY <1>0, <1>9 DEF Receive, ReceiveBytes, ThreadTypes
  <2>3. \A fd \in poll.ready : conn[fd] \in Clients \ {c}
    BY <1>0, <2>1 DEF PollInv, ThreadTypes, SetTypes, Inv, ConnInv
  <2>4. \A d \in Clients \ {c} : Avail(d)' = Avail(d)
    BY <1>0, <2>2 DEF Avail, StreamTypes
  <2> HIDE DEF c
  <2>5. \A fd \in poll.ready : Avail(conn[fd])' = Avail(conn[fd])
    BY <2>2, <2>3, <2>4 DEF Avail
  <2>6. \A fd \in poll.ready : Avail(conn[fd])' > 0 \/ conn[fd] \in left
    BY <1>0, <2>5 DEF PollInv
  <2>7. conn[poll.fd] # NoClient
    BY <2>1, ClientSetAssumption DEF c
  <2>8. QED BY <1>0, <2>1, <2>2, <2>6, <2>7 DEF PollInv, AtWork
<1>10. CASE FdClrLoad \/ FdClrStore
  <2>1. /\ poll'.fd = poll.fd /\ poll'.ready = poll.ready
        /\ poll.pc \in {"clear", "store"} /\ poll'.pc \in {"store", "close"}
        /\ UNCHANGED <<conn, left, sent, taken>>
    BY <1>0, <1>10 DEF FdClrLoad, FdClrStore, ThreadTypes
  <2>2. QED BY <1>0, <2>1 DEF PollInv, Avail, AtWork
<1>11. CASE Close
  <2>1. /\ poll'.pc = "scan" /\ poll'.ready = poll.ready /\ poll.pc = "close"
        /\ UNCHANGED <<left, sent, taken>>
        /\ conn' = [conn EXCEPT ![poll.fd] = NoClient]
    BY <1>0, <1>11 DEF Close, ThreadTypes
  <2>2. poll.fd \notin poll.ready
    BY <1>0, <2>1 DEF PollInv, AtWork
  <2>3. \A fd \in poll.ready : conn'[fd] = conn[fd]
    BY <1>0, <2>1, <2>2 DEF ThreadTypes, SetTypes
  <2>4. QED BY <1>0, <2>1, <2>3 DEF PollInv, Avail, AtWork
<1>12. ASSUME NEW t \in Threads, Sent(t) PROVE PollInv'
  <2>1. CASE t = "poll"
    <3>1. poll.pc = "reply"
      BY <1>12, <2>1 DEF Sent, Looking, Inv, TxInv
    <3>2. /\ poll'.pc = "scan" /\ poll'.ready = poll.ready
          /\ UNCHANGED <<conn, left, sent, taken>>
      BY <1>0, <1>12, <2>1 DEF Sent, Finished, ThreadTypes
    <3>3. QED BY <1>0, <3>2 DEF PollInv, Avail, AtWork
  <2>2. CASE t # "poll"
    BY <1>2, <1>12, <2>2 DEF Sent, Finished
  <2>3. QED BY <2>1, <2>2
<1>13. QED
  BY <1>2, <1>3, <1>4, <1>5, <1>6, <1>7, <1>8, <1>9, <1>10, <1>11, <1>12
  DEF Next, AcceptThread, PollThread, Distribute, vars, FdSetLoad, FdSetStore, Raise,
      SendNonRmap, LookUp, SendAll

LEMMA InvStep == Inv /\ [Next]_vars => Inv'
BY TypeStep, ConnStep, PollStep, TxStep, HeaderStep DEF Inv

LEMMA Invariant == Spec => []Inv
BY InvInit, InvStep, PTL DEF Spec

\* Every variable keeps its type; the place in each client's stream is always
\* the start of a packet.
THEOREM TypeCorrect == Spec => []TypeOK
<1>1. Inv => TypeOK
  BY TypeParts DEF Inv, Types
<1>2. QED BY <1>1, Invariant, PTL

\* A client that stays, and sends each header in one piece, keeps its
\* connection, whatever the threads do in between.
THEOREM ClientsKeptCorrect == Spec => ClientsKept
<1>1. Inv /\ [Next]_vars =>
        \A fd \in Fds : conn[fd] # NoClient /\ conn'[fd] # conn[fd]
                          => conn[fd] \in left \cup (Clients \ Careful)
  <2> SUFFICES ASSUME Inv, [Next]_vars, NEW fd \in Fds,
                      conn[fd] # NoClient, conn'[fd] # conn[fd]
               PROVE  conn[fd] \in left \cup (Clients \ Careful)
    OBVIOUS
  <2>1. conn \in [Fds -> Clients \cup {NoClient}]
    BY DEF Inv, Types, SetTypes
  <2>2. ASSUME NEW c \in Clients, Accept(c) PROVE FALSE
    <3>1. PICK f \in Fds : conn' = [conn EXCEPT ![f] = c] /\ conn[f] = NoClient
      BY <2>2, FreeDescriptor DEF Accept, Inv, Types
    <3>2. QED BY <2>1, <3>1
  <2>3. CASE Close
    <3>1. poll.pc = "close" /\ fd = poll.fd
      BY <2>1, <2>3 DEF Close
    <3>2. QED BY <3>1 DEF Inv, PollInv
  <2>4. QED
    BY <2>2, <2>3
    DEF Next, AcceptThread, PollThread, Distribute, vars, Connect, Leave, SendPieces,
        FdSetLoad, FdSetStore, Raise, Select, SelectAmong, Scanned, Peek, Peeked, Receive,
        ReceiveBytes, FdClrLoad, FdClrStore, SendNonRmap, LookUp, SendAll, Sent, Finished,
        clientVars, fdVars, outVars, clientElse, acceptElse, txElse, pollElse
<1>2. QED BY <1>1, Invariant, PTL DEF Spec, ClientsKept

-----------------------------------------------------------------------------
(* The set of descriptors.                                                 *)

\* A new descriptor is not in the set yet, and the poll thread cannot be at
\* work on it; what the poll thread is to close has left the set.
SetInv ==
    /\ SetMatches
    /\ ~torn /\ acc.pc \in {"set", "store"} =>
          /\ conn[acc.fd] # NoClient
          /\ acc.fd \notin set \cup poll.ready
          /\ poll.pc \in AtWork => poll.fd # acc.fd
    /\ ~torn /\ poll.pc = "close" => poll.fd \notin set

LEMMA SetInit == Init => SetInv
BY DEF Init, SetInv, SetMatches

LEMMA SetStep == Inv /\ SetInv /\ [Next]_vars => SetInv'
<1> SUFFICES ASSUME Inv, SetInv, [Next]_vars, ~torn' PROVE SetInv'
  BY DEF SetInv, SetMatches
<1> USE DEF clientVars, fdVars, outVars, clientElse, acceptElse, txElse, pollElse
<1>0. ThreadTypes /\ SetTypes /\ PollInv /\ ~torn
  <2>1. torn => torn'
    BY DEF Next, AcceptThread, PollThread, Distribute, vars, Connect, Leave, SendPieces, Accept,
           FdSetLoad, FdSetStore, Raise, Select, SelectAmong, Scanned, Peek, Peeked, Receive,
           ReceiveBytes, FdClrLoad, FdClrStore, Close, SendNonRmap, LookUp, SendAll, Sent,
           Finished
  <2>2. QED BY <2>1 DEF Inv, Types
<1> DEFINE open == {fd \in Fds : conn[fd] # NoClient}
           new == IF acc.pc \in {"set", "store"} THEN {acc.fd} ELSE {}
           old == IF poll.pc = "close" THEN {poll.fd} ELSE {}
<1>s. set \subseteq open /\ open \ set \subseteq new \cup old
  BY <1>0 DEF SetInv, SetMatches
<1>n. acc.pc \in {"set", "store"} =>
          /\ conn[acc.fd] # NoClient
          /\ acc.fd \notin set \cup poll.ready
          /\ poll.pc \in AtWork => poll.fd # acc.fd
  BY <1>0 DEF SetInv
<1>o. poll.pc = "close" => poll.fd \notin set
  BY <1>0 DEF SetInv
<1>i. ASSUME UNCHANGED <<conn, set, acc, poll>> PROVE SetInv'
  BY <1>s, <1>n, <1>o, <1>i DEF SetInv, SetMatches
<1>1. ASSUME UNCHANGED <<conn, set, acc>>, poll.pc # "close", poll'.pc # "close",
             poll'.ready \subseteq set \cup poll.ready,
             poll'.pc \in AtWork /\ acc.pc \in {"set", "store"} => poll'.fd # acc.fd
      PROVE  SetInv'
  <2>1. set' \subseteq open' /\ open' \ set' \subseteq new'
    BY <1>s, <1>1
  <2>2. acc.pc \in {"set", "store"} =>
          /\ conn[acc.fd] # NoClient
          /\ acc.fd \notin set \cup poll'.ready
          /\ poll'.pc \in AtWork => poll'.fd # acc.fd
    BY <1>n, <1>1
  <2>3. QED BY <1>1, <2>1, <2>2 DEF SetInv, SetMatches
<1>2. ASSUME NEW c \in Clients, Accept(c) PROVE SetInv'
  <2>1. PICK f \in Fds : /\ conn' = [conn EXCEPT ![f] = c] /\ conn[f] = NoClient
                         /\ acc' = [acc EXCEPT !.pc = "set", !.fd = f]
    BY <1>2, FreeDescriptor DEF Accept, Inv, Types
  <2>2. acc'.pc = "set" /\ acc'.fd = f /\ acc.pc = "accept" /\ UNCHANGED <<set, poll>>
    BY <1>0, <1>2, <2>1 DEF Accept, ThreadTypes
  <2>3. open' = open \cup {f} /\ conn'[f] # NoClient
    BY <1>0, <2>1, ClientSetAssumption DEF SetTypes
  <2>4. f \notin set /\ f \notin poll.ready /\ (poll.pc \in AtWork => poll.fd # f)
    BY <1>0, <1>s, <2>1 DEF PollInv
  <2>5. set \subseteq open' /\ open' \ set \subseteq {f} \cup old
    BY <1>s, <2>2, <2>3
  <2>6. QED BY <1>o, <2>2, <2>3, <2>4, <2>5 DEF SetInv, SetMatches
<1>3. CASE FdSetLoad
  <2>1. /\ acc'.pc = "store" /\ acc.pc = "set" /\ acc'.fd = acc.fd
        /\ UNCHANGED <<conn, set, poll>>
    BY <1>0, <1>3 DEF FdSetLoad, ThreadTypes
  <2>2. QED BY <1>s, <1>n, <1>o, <2>1 DEF SetInv, SetMatches
<1>4. CASE FdSetStore
  <2>1. /\ acc'.pc = "max" /\ acc.pc = "store" /\ UNCHANGED <<conn, poll>>
        /\ set' = set \cup {acc.fd}
    BY <1>0, <1>4 DEF FdSetStore, ThreadTypes
  <2>2. acc.fd \in open
    BY <1>0, <1>n, <2>1 DEF ThreadTypes
  <2>3. poll.pc = "close" => poll.fd \notin set'
    BY <1>n, <1>o, <2>1 DEF AtWork
  <2>4. set' \subseteq open /\ open \ set' \subseteq old
    BY <1>s, <2>1, <2>2
  <2>5. QED BY <2>1, <2>3, <2>4 DEF SetInv, SetMatches
<1>5. CASE Raise
  <2>1. acc'.pc = "accept" /\ acc.pc = "max" /\ UNCHANGED <<conn, set, poll>>
    BY <1>0, <1>5 DEF Raise, ThreadTypes
  <2>2. QED BY <1>s, <1>o, <2>1 DEF SetInv, SetMatches
<1>6. CASE Select
  <2>1. PICK asked \in SUBSET set : poll' = [poll EXCEPT !.pc = "scan", !.ready = Ready(asked)]
    BY <1>6 DEF Select, SelectAmong
  <2>2. poll'.pc = "scan" /\ poll'.ready \subseteq set
    BY <1>0, <2>1 DEF ThreadTypes, Ready
  <2>3. poll.pc = "select" /\ UNCHANGED <<conn, set, acc>>
    BY <1>6 DEF Select, SelectAmong
  <2>4. QED BY <1>1, <2>2, <2>3 DEF AtWork
<1>7. CASE Scanned
  <2>1. /\ poll'.pc = "select" /\ poll.pc = "scan" /\ poll'.ready = poll.ready
        /\ UNCHANGED <<conn, set, acc>>
    BY <1>0, <1>7 DEF Scanned, ThreadTypes
  <2>2. QED BY <1>1, <2>1 DEF AtWork
<1>8. CASE Peek
  <2>1. Min(poll.ready) \in poll.ready
    BY <1>0, <1>8, FdsNumbered, MinOfSome DEF Peek, Peeked, ThreadTypes
  <2>2. /\ poll'.fd = Min(poll.ready) /\ poll'.ready \subseteq poll.ready
        /\ poll'.pc \in {"body", "clear"} /\ poll.pc = "scan"
        /\ UNCHANGED <<conn, set, acc>>
    BY <1>0, <1>8 DEF Peek, Peeked, ThreadTypes
  <2>3. poll.pc # "close" /\ poll'.pc # "close"
    BY <2>2
  <2>4. poll'.ready \subseteq set \cup poll.ready /\ poll'.fd \in poll.ready
    BY <2>1, <2>2
  <2>5. poll'.pc \in AtWork /\ acc.pc \in {"set", "store"} => poll'.fd # acc.fd
    BY <1>n, <2>4
  <2>6. QED BY <1>1, <2>2, <2>3, <2>4, <2>5
<1>9. CASE Receive \/ FdClrLoad
  <2>1. /\ poll'.fd = poll.fd /\ poll'.ready = poll.ready
        /\ poll.pc \in {"body", "clear"} /\ poll'.pc \in {"reply", "store"}
        /\ UNCHANGED <<conn, set, acc>>
    BY <1>0, <1>9 DEF Receive, ReceiveBytes, FdClrLoad, ThreadTypes
  <2>2. poll.pc # "close" /\ poll'.pc # "close" /\ poll.pc \in AtWork
    BY <2>1 DEF AtWork
  <2>3. poll'.ready \subseteq set \cup poll.ready
    BY <2>1
  <2>4. acc.pc \in {"set", "store"} => poll'.fd # acc.fd
    BY <1>n, <2>1, <2>2
  <2>5. QED BY <1>1, <2>1, <2>2, <2>3, <2>4
<1>10. CASE FdClrStore
  <2>1. /\ poll'.fd = poll.fd /\ poll'.ready = poll.ready
        /\ poll.pc = "store" /\ poll'.pc = "close"
        /\ UNCHANGED <<conn, acc>> /\ set' = set \ {poll.fd}
    BY <1>0, <1>10 DEF FdClrStore, ThreadTypes
  <2>2. set' \subseteq open /\ open \ set' \subseteq new \cup {poll.fd}
    BY <1>s, <2>1
  <2>3. acc.pc \in {"set", "store"} =>
          /\ acc.fd \notin set' \cup poll.ready /\ poll.fd # acc.fd
          /\ conn[acc.fd] # NoClient
    BY <1>n, <2>1 DEF AtWork
  <2>4. QED BY <2>1, <2>2, <2>3 DEF SetInv, SetMatches
<1>11. CASE Close
  <2>1. /\ poll'.pc = "scan" /\ poll'.ready = poll.ready /\ poll.pc = "close"
        /\ UNCHANGED <<set, acc>>
        /\ conn' = [conn EXCEPT ![poll.fd] = NoClient]
    BY <1>0, <1>11 DEF Close, ThreadTypes
  <2>2. open' = open \ {poll.fd}
    BY <1>0, <2>1 DEF SetTypes
  <2>3. set \subseteq open' /\ open' \ set \subseteq new
    BY <1>s, <1>o, <2>1, <2>2
  <2>4. acc.pc \in {"set", "store"} =>
          /\ conn'[acc.fd] # NoClient
          /\ acc.fd \notin set \cup poll.ready
    BY <1>0, <1>n, <2>1 DEF AtWork, SetTypes, ThreadTypes
  <2>5. QED BY <2>1, <2>3, <2>4 DEF SetInv, SetMatches, AtWork
<1>12. ASSUME NEW t \in Threads, Sent(t) PROVE SetInv'
  <2>1. CASE t = "poll"
    <3>1. poll.pc = "reply"
      BY <1>12, <2>1 DEF Sent, Looking, Inv, TxInv
    <3>2. /\ poll'.pc = "scan" /\ poll'.ready = poll.ready
          /\ UNCHANGED <<conn, set, acc>>
      BY <1>0, <1>12, <2>1 DEF Sent, Finished, ThreadTypes
    <3>3. QED BY <1>1, <3>1, <3>2 DEF AtWork
  <2>2. CASE t # "poll"
    BY <1>i, <1>12, <2>2 DEF Sent, Finished
  <2>3. QED BY <2>1, <2>2
<1>13. QED
  BY <1>i, <1>2, <1>3, <1>4, <1>5, <1>6, <1>7, <1>8, <1>9, <1>10, <1>11, <1>12
  DEF Next, AcceptThread, PollThread, Distribute, vars, Connect, Leave, SendPieces,
      SendNonRmap, LookUp, SendAll

\* As long as no store is undone, the set holds the open descriptors and no
\* other, but for the one each thread is at work on.
THEOREM SetMatchesCorrect == Spec => []SetMatches
<1>1. SetInv => SetMatches
  BY DEF SetInv
<1>2. QED BY <1>1, InvInit, InvStep, SetInit, SetStep, PTL DEF Spec

-----------------------------------------------------------------------------
(* "push buffer to anyone connected"                                       *)

\* A client that a packet is meant for has it, or is still registered at a
\* descriptor the distribution has yet to come to.
Served(t, c) ==
    \/ tx[t].pkt \in got[c]
    \/ \E fd \in Fds : conn[fd] = c /\ fd \in set /\ fd \in tx[t].fd .. n_fd

ReachInv ==
    ~torn => \A t \in Threads : tx[t].pkt # Nothing =>
                \A c \in (tx[t].for \cap Careful) \ left : Served(t, c)

LEMMA ReachInit == Init => ReachInv
BY DEF Init, ReachInv, Idle

\* At the start everyone who is registered is at a descriptor to come.
LEMMA DistributingServes ==
    ASSUME Inv, NEW t \in Threads, NEW p,
           tx' = [tx EXCEPT ![t] = Distributing(p)], UNCHANGED fdVars
    PROVE  \A c \in tx'[t].for : Served(t, c)'
<1>1. tx'[t].fd = 1 /\ tx'[t].for = Registered
  BY DEF Inv, Types, TxTypes, Distributing
<1>2. \A fd \in Fds : fd <= n_fd => fd \in 1 .. n_fd
  BY FdsNumbered DEF Inv, Types, SetTypes
<1>3. ASSUME NEW c \in Registered
      PROVE  \E fd \in Fds : conn[fd] = c /\ fd \in set /\ fd \in 1 .. n_fd
  <2>1. PICK fd \in set : fd <= n_fd /\ conn[fd] = c
    BY DEF Registered
  <2>2. QED BY <2>1, <1>2 DEF Inv, Types, SetTypes
<1>4. QED BY <1>1, <1>3 DEF Served, fdVars

\* A careful client that has not left stays registered, unless a store is undone.
LEMMA RegisteredStays ==
    ASSUME Inv, [Next]_vars, ~torn', NEW fd \in Fds, fd \in set, fd <= n_fd,
           conn[fd] \in Careful \ left
    PROVE  conn'[fd] = conn[fd] /\ fd \in set' /\ fd <= n_fd'
<1> USE DEF clientVars, fdVars, outVars, clientElse, acceptElse, txElse, pollElse
<1>1. n_fd \in Int /\ acc.fd \in Int /\ fd \in Int
  BY FdsNumbered DEF Inv, Types, SetTypes, ThreadTypes
<1>2. ASSUME NEW c \in Clients, Accept(c) PROVE conn'[fd] = conn[fd]
  <2>1. PICK f \in Fds : conn' = [conn EXCEPT ![f] = c] /\ conn[f] = NoClient
    BY <1>2, FreeDescriptor DEF Accept, Inv, Types
  <2>2. conn[fd] # NoClient
    BY ClientSetAssumption
  <2>3. QED BY <2>1, <2>2 DEF Inv, Types, SetTypes
<1>3. conn'[fd] = conn[fd] /\ (FdClrStore => fd # poll.fd)
  <2>1. Close \/ FdClrStore => fd # poll.fd
    BY DEF Close, FdClrStore, Inv, PollInv
  <2>2. Close => conn'[fd] = conn[fd]
    BY <2>1 DEF Close, Inv, Types, SetTypes
  <2>3. QED
    BY <1>2, <2>1, <2>2
    DEF Next, AcceptThread, PollThread, Distribute, vars, Connect, Leave, SendPieces,
        FdSetLoad, FdSetStore, Raise, Select, SelectAmong, Scanned, Peek, Peeked, Receive,
        ReceiveBytes, FdClrLoad, FdClrStore, SendNonRmap, LookUp, SendAll, Sent, Finished
<1>4. Raise => n_fd <= n_fd'
  BY <1>1, MaxOfTwo DEF Raise
<1>5. n_fd' = n_fd \/ Raise
  BY DEF Next, AcceptThread, PollThread, Distribute, vars, Connect, Leave, SendPieces, Accept,
         FdSetLoad, FdSetStore, Select, SelectAmong, Scanned, Peek, Peeked, Receive,
         ReceiveBytes, FdClrLoad, FdClrStore, Close, SendNonRmap, LookUp, SendAll, Sent,
         Finished
<1>6. n_fd' \in Int
  BY TypeStep, FdsNumbered DEF Types, SetTypes
<1>7. fd \in set'
  BY <1>3
  DEF Next, AcceptThread, PollThread, Distribute, vars, Connect, Leave, SendPieces, Accept,
      FdSetLoad, FdSetStore, Raise, Select, SelectAmong, Scanned, Peek, Peeked, Receive,
      ReceiveBytes, FdClrLoad, FdClrStore, Close, SendNonRmap, LookUp, SendAll, Sent, Finished
<1>8. QED BY <1>1, <1>3, <1>4, <1>5, <1>6, <1>7

LEMMA ReachStep == Inv /\ ReachInv /\ [Next]_vars => ReachInv'
<1> SUFFICES ASSUME Inv, ReachInv, [Next]_vars, ~torn', NEW t \in Threads, tx'[t].pkt # Nothing,
                    NEW c \in (tx'[t].for \cap Careful) \ left'
             PROVE  Served(t, c)'
  BY DEF ReachInv
<1> USE DEF clientVars, fdVars, outVars, clientElse, acceptElse, txElse, pollElse
<1>t. TxTypes /\ c \in Clients
  BY ClientSetAssumption DEF Inv, Types
<1>0. ~torn /\ c \notin left
  <2>1. torn => torn'
    BY DEF Next, AcceptThread, PollThread, Distribute, vars, Connect, Leave, SendPieces, Accept,
           FdSetLoad, FdSetStore, Raise, Select, SelectAmong, Scanned, Peek, Peeked, Receive,
           ReceiveBytes, FdClrLoad, FdClrStore, Close, SendNonRmap, LookUp, SendAll, Sent,
           Finished
  <2>2. left \subseteq left'
    BY DEF Next, AcceptThread, PollThread, Distribute, vars, Connect, Leave, SendPieces, Accept,
           FdSetLoad, FdSetStore, Raise, Select, SelectAmong, Scanned, Peek, Peeked, Receive,
           ReceiveBytes, FdClrLoad, FdClrStore, Close, SendNonRmap, LookUp, SendAll, Sent,
           Finished
  <2>3. QED BY <2>1, <2>2
<1>g. got[c] \subseteq got'[c]
  <2>1. ASSUME NEW u \in Threads, SendAll(u) PROVE got[c] \subseteq got'[c]
    BY <1>t, <2>1 DEF SendAll
  <2>2. QED
    BY <2>1
    DEF Next, AcceptThread, PollThread, Distribute, vars, Connect, Leave, SendPieces, Accept,
        FdSetLoad, FdSetStore, Raise, Select, SelectAmong, Scanned, Peek, Peeked, Receive,
        ReceiveBytes, FdClrLoad, FdClrStore, Close, SendNonRmap, LookUp, Sent, Finished
<1>n. /\ Fds \subseteq Int /\ n_fd \in Int /\ tx[t].fd \in Int
      /\ n_fd' \in Int /\ tx'[t].fd \in Int
  <2>1. SetTypes' /\ TxTypes'
    BY TypeStep DEF Types
  <2>2. QED
    BY <1>t, <2>1, FdsNumbered DEF Inv, Types, SetTypes, TxTypes
<1>1. ASSUME tx'[t].pkt = tx[t].pkt, tx'[t].for = tx[t].for,
             \A fd \in Fds : conn[fd] = c /\ fd \in set /\ fd >= tx[t].fd /\ fd < tx'[t].fd
                               => tx[t].pkt \in got'[c]
      PROVE  Served(t, c)'
  <2>1. Served(t, c)
    BY <1>0, <1>1 DEF ReachInv
  <2>2. CASE tx[t].pkt \in got[c]
    BY <1>1, <1>g, <2>2 DEF Served
  <2>3. ASSUME NEW fd \in Fds, conn[fd] = c, fd \in set, fd \in tx[t].fd .. n_fd
        PROVE  Served(t, c)'
    <3>1. conn'[fd] = c /\ fd \in set' /\ fd <= n_fd'
      BY <1>0, <1>n, <2>3, RegisteredStays
    <3>2. CASE fd < tx'[t].fd
      BY <1>1, <1>n, <2>3, <3>2 DEF Served
    <3>3. CASE fd >= tx'[t].fd
      <4>1. fd \in tx'[t].fd .. n_fd'
        BY <1>n, <3>1, <3>3
      <4>2. QED BY <3>1, <4>1 DEF Served, Fds
    <3>4. QED BY <1>n, <3>2, <3>3
  <2>4. QED BY <2>1, <2>2, <2>3 DEF Served
<1>2. CASE tx'[t] = tx[t]
  BY <1>1, <1>2, <1>n
<1>3. CASE LookUp(t)
  <2>1. /\ tx'[t].pkt = tx[t].pkt /\ tx'[t].for = tx[t].for
        /\ tx[t].fd \in set => tx'[t].fd = tx[t].fd
        /\ tx[t].fd \notin set => tx'[t].fd = tx[t].fd + 1
    BY <1>3, <1>t DEF LookUp, TxTypes
  <2>2. ASSUME NEW fd \in Fds, fd \in set, fd >= tx[t].fd PROVE fd >= tx'[t].fd
    BY <1>n, <2>1, <2>2
  <2>3. QED BY <1>1, <1>n, <2>1, <2>2
<1>4. CASE SendAll(t)
  <2>1. /\ tx'[t].pkt = tx[t].pkt /\ tx'[t].for = tx[t].for /\ tx'[t].fd = tx[t].fd + 1
    BY <1>4, <1>t DEF SendAll, TxTypes
  <2>2. conn[tx[t].fd] = c => tx[t].pkt \in got'[c]
    BY <1>0, <1>4, <1>t DEF SendAll
  <2>3. ASSUME NEW fd \in Fds, conn[fd] = c, fd >= tx[t].fd, fd < tx'[t].fd
        PROVE  tx[t].pkt \in got'[c]
    BY <1>n, <2>1, <2>2, <2>3
  <2>4. QED BY <1>1, <2>1, <2>3
<1>5. CASE Sent(t)
  BY <1>5, <1>t DEF Sent, Finished, Idle, TxTypes
<1>6. CASE Receive /\ t = "poll"
  <2>1. PICK p : tx' = [tx EXCEPT ![t] = Distributing(p)]
    BY <1>6 DEF Receive, ReceiveBytes
  <2>2. QED BY <1>6, <2>1, DistributingServes DEF Receive, ReceiveBytes
<1>7. CASE SendNonRmap /\ t = "main"
  <2>1. PICK p : tx' = [tx EXCEPT ![t] = Distributing(p)]
    BY <1>7 DEF SendNonRmap
  <2>2. QED BY <1>7, <2>1, DistributingServes DEF SendNonRmap
<1>8. ASSUME NEW u \in Threads, u # t, Distribute(u) PROVE tx'[t] = tx[t]
  BY <1>8, <1>t DEF Distribute, LookUp, SendAll, Sent, Finished, TxTypes
<1>9. /\ Receive /\ t # "poll" => tx'[t] = tx[t]
      /\ SendNonRmap /\ t # "main" => tx'[t] = tx[t]
  BY <1>t DEF Receive, ReceiveBytes, SendNonRmap, TxTypes
<1>10. tx' = tx \/ Receive \/ SendNonRmap \/ \E u \in Threads : Distribute(u)
  BY DEF Next, AcceptThread, PollThread, vars, Connect, Leave, SendPieces, Accept,
         FdSetLoad, FdSetStore, Raise, Select, SelectAmong, Scanned, Peek, Peeked,
         FdClrLoad, FdClrStore, Close
<1>11. CASE \E u \in Threads : Distribute(u)
  BY <1>2, <1>3, <1>4, <1>5, <1>8, <1>11 DEF Distribute
<1>12. CASE tx' = tx
  BY <1>2, <1>12
<1>13. CASE Receive
  BY <1>2, <1>6, <1>9, <1>13
<1>14. CASE SendNonRmap
  BY <1>2, <1>7, <1>9, <1>14
<1>15. QED
  BY <1>10, <1>11, <1>12, <1>13, <1>14

\* Whatever has been distributed has been sent to every client that was
\* registered when it began and that kept to its side, unless a store was
\* undone.
THEOREM ReachesAllCorrect == Spec => ReachesAll
<1>1. Inv /\ ReachInv /\ [Next]_vars =>
        \A t \in Threads :
          tx[t].pkt # Nothing /\ tx'[t].pkt = Nothing =>
             \A c \in (tx[t].for \cap Careful) \ left : tx[t].pkt \in got[c] \/ torn
  <2> SUFFICES ASSUME Inv, ReachInv, [Next]_vars, NEW t \in Threads,
                      tx[t].pkt # Nothing, tx'[t].pkt = Nothing, ~torn,
                      NEW c \in (tx[t].for \cap Careful) \ left
               PROVE  tx[t].pkt \in got[c]
    OBVIOUS
  <2>t. TxTypes
    BY DEF Inv, Types
  <2>1. ASSUME NEW u \in Threads, LookUp(u) \/ SendAll(u) PROVE tx'[t].pkt = tx[t].pkt
    <3>1. CASE LookUp(u)
      <4>1. \/ tx' = [tx EXCEPT ![u].sending = TRUE]
            \/ tx' = [tx EXCEPT ![u].fd = @ + 1]
        BY <3>1 DEF LookUp
      <4>2. QED BY <4>1, <2>t DEF TxTypes
    <3>2. CASE SendAll(u)
      <4>1. tx' = [tx EXCEPT ![u] = [@ EXCEPT !.sending = FALSE, !.fd = @ + 1]]
        BY <3>2, <2>t, Zenon DEF SendAll, TxTypes
      <4>2. QED BY <4>1, <2>t DEF TxTypes
    <3>3. QED BY <2>1, <3>1, <3>2
  <2>2. ASSUME NEW p, NEW u \in Threads, tx' = [tx EXCEPT ![u] = Distributing(p)],
               p # Nothing
        PROVE  FALSE
    BY <2>2, <2>t DEF Distributing, TxTypes
  <2>3. ~Receive /\ ~SendNonRmap
    BY <2>2 DEF Receive, ReceiveBytes, SendNonRmap, Threads, Reply, Data, Nothing
  <2>4. ASSUME NEW u \in Threads, Sent(u) PROVE u = t /\ tx[t].fd > n_fd
    BY <2>4, <2>t DEF Sent, Finished, TxTypes
  <2>5. \E u \in Threads : Sent(u)
    BY <2>1, <2>3
    DEF Next, AcceptThread, PollThread, Distribute, vars, Connect, Leave, SendPieces, Accept,
        FdSetLoad, FdSetStore, Raise, Select, SelectAmong, Scanned, Peek, Peeked,
        FdClrLoad, FdClrStore, Close, clientElse, acceptElse, txElse, pollElse
  <2>6. tx[t].fd > n_fd
    BY <2>4, <2>5
  <2>7. tx[t].fd .. n_fd = {}
    BY <2>6, <2>t, FdsNumbered DEF Inv, Types, SetTypes, TxTypes
  <2>8. QED BY <2>7 DEF ReachInv, Served
<1>2. QED
  BY <1>1, InvInit, InvStep, ReachInit, ReachStep, PTL DEF Spec, ReachesAll
=============================================================================
