-------------------------- MODULE SramSync_proofs --------------------------
(***************************************************************************)
(* The chunks of the transfer calls stay within the SRAM, for every SRAM,  *)
(* log, address, size and MTU.                                             *)
(***************************************************************************)
EXTENDS SramSync, TLAPS

\* The transfer calls test for FEE_SRAM_END + 1, two beyond the last byte they
\* may touch: among whole words there is nothing in between.
LEMMA WordsInside ==
    ASSUME NEW a \in Addrs, NEW n \in Sizes, Accepted(a, n)
    PROVE  /\ a \in Nat /\ n \in Nat
           /\ START <= a /\ a + n <= FEE_SRAM_END
<1>1. /\ a \in Nat /\ n \in Nat
      /\ a % 4 = 0 /\ n % 4 = 0 /\ STOP % 4 = 0
      /\ a + n <= STOP + 2 /\ START <= a
      /\ STOP \in Nat
  BY SramSyncAssumption DEF Accepted, FEE_SRAM_END
<1>2. a + n <= STOP
  BY <1>1, SMT
<1>3. QED BY <1>1, <1>2 DEF FEE_SRAM_END

\* The position of a running call: what was handed to the log and what was not
\* make up its range, and a chunk it waits for is a whole one.
Position ==
    /\ addr \in Nat /\ size \in Nat /\ mtu \in Nat
    /\ moved \in Nat /\ left \in Nat
    /\ phase \in Phases
    /\ START <= addr /\ addr + size <= FEE_SRAM_END
    /\ moved + left = size
    /\ phase = "wait" => left >= mtu
    /\ phase = "idle" => moved = 0

\* What a copy carries are bytes of either memory.
Data == UNION {[D -> Val] : D \in SUBSET Bytes}

Copy == [op : Ops, addr : Nat, len : Nat, done : BOOLEAN, data : Data]

Inside(q) == q.addr >= START /\ q.addr + q.len <= FEE_SRAM_END

SramInv ==
    /\ TypeOK
    /\ Position
    /\ queue \in Seq(Copy)
    /\ \A i \in DOMAIN queue : Inside(queue[i])

-----------------------------------------------------------------------------

LEMMA OverType ==
    ASSUME NEW mem \in [Bytes -> Val], NEW data \in Data
    PROVE  Over(mem, data) \in [Bytes -> Val]
<1>1. PICK D \in SUBSET Bytes : data \in [D -> Val]
  BY DEF Data
<1>2. QED BY <1>1 DEF Over

\* A part of a memory is something a copy can carry.
LEMMA PartType ==
    ASSUME NEW mem \in [Bytes -> Val], NEW a, NEW n
    PROVE  [b \in Bytes \cap Range(a, n) |-> mem[b]] \in Data
<1>1. [b \in Bytes \cap Range(a, n) |-> mem[b]] \in [Bytes \cap Range(a, n) -> Val]
  OBVIOUS
<1>2. QED BY <1>1 DEF Data

LEMMA EmptyType == <<>> \in Data
<1>1. <<>> \in [{} -> Val]
  OBVIOUS
<1>2. QED BY <1>1 DEF Data

\* The chunk a loop hands over lies within the SRAM, and so does what is left.
LEMMA ChunkInside ==
    ASSUME SramInv, InLoop
    PROVE  /\ Chunk(phase, addr + moved, ChunkLen) \in Copy
           /\ Inside(Chunk(phase, addr + moved, ChunkLen))
           /\ ChunkLen \in Nat
           /\ left - ChunkLen \in Nat
<1>1. /\ phase \in Ops
      /\ addr \in Nat /\ moved \in Nat /\ left \in Nat /\ mtu \in Nat /\ size \in Nat
      /\ addr + size <= FEE_SRAM_END /\ START <= addr
      /\ moved + left = size
      /\ START \in Nat /\ FEE_SRAM_END \in Nat
  BY SramSyncAssumption DEF SramInv, Position, InLoop, FEE_SRAM_END
<1>2. ChunkLen \in Nat /\ ChunkLen <= left
  BY <1>1 DEF ChunkLen
<1>3. addr + moved \in Nat /\ left - ChunkLen \in Nat
      /\ addr + moved >= START /\ addr + moved + ChunkLen <= FEE_SRAM_END
  BY <1>1, <1>2
<1>4. Chunk(phase, addr + moved, ChunkLen).data \in Data
  BY PartType, EmptyType DEF Chunk, SramInv, TypeOK
<1>5. Chunk(phase, addr + moved, ChunkLen) \in Copy
  BY <1>1, <1>2, <1>3, <1>4 DEF Chunk, Copy
<1>6. QED BY <1>2, <1>3, <1>5 DEF Chunk, Inside

LEMMA SramInit == Init => SramInv
<1> SUFFICES ASSUME Init PROVE SramInv
  OBVIOUS
<1> USE SramSyncAssumption
<1>1. TypeOK
  BY DEF Init, TypeOK, Val, Phases
<1>2. Position
  BY DEF Init, Position, Phases, FEE_SRAM_END
<1>3. QED BY <1>1, <1>2 DEF Init, SramInv

LEMMA SramStep == SramInv /\ [Next]_vars => SramInv'
<1> SUFFICES ASSUME SramInv, [Next]_vars PROVE SramInv'
  OBVIOUS
<1> USE DEF SramInv
<1>a. ASSUME UNCHANGED queue
      PROVE  queue' \in Seq(Copy) /\ \A i \in DOMAIN queue' : Inside(queue'[i])
  BY <1>a
<1>b. ASSUME UNCHANGED <<phase, callVars, moved, left>> PROVE Position'
  BY <1>b DEF Position, callVars
<1>c. ASSUME UNCHANGED queue
      PROVE  \A i \in DOMAIN queue' :
               /\ queue'[i].op \in Ops
               /\ queue'[i].addr \in Nat /\ queue'[i].len \in Nat
               /\ queue'[i].done \in BOOLEAN
  BY <1>c DEF TypeOK
<1>d. ASSUME Leave
      PROVE  Position' /\ addr' \in Nat /\ size' \in Nat /\ mtu' \in Mtus \cup {0}
             /\ moved' \in Nat /\ left' \in Nat /\ phase' \in Phases /\ ret' \in {-1, 0, 1}
  BY <1>d, SramSyncAssumption DEF Leave, Position, Phases, FEE_SRAM_END
<1>e. ASSUME queue' \in Seq(Copy)
      PROVE  \A i \in DOMAIN queue' :
               /\ queue'[i].op \in Ops
               /\ queue'[i].addr \in Nat /\ queue'[i].len \in Nat
               /\ queue'[i].done \in BOOLEAN
  <2>1. \A i \in DOMAIN queue' : queue'[i] \in Copy
    BY <1>e
  <2>2. QED BY <2>1 DEF Copy
<1>1. ASSUME NEW op \in Ops, NEW a \in Addrs, NEW n \in Sizes, NEW u \in Mtus,
             Call(op, a, n, u)
      PROVE  SramInv'
  <2>1. /\ a \in Nat /\ n \in Nat
        /\ START <= a /\ a + n <= FEE_SRAM_END
    BY <1>1, WordsInside DEF Call
  <2>2. Position'
    BY <1>1, <2>1, SramSyncAssumption DEF Call, Position, Ops, Phases
  <2>3. TypeOK'
    BY <1>1, <1>c, <2>1 DEF Call, TypeOK, Ops, Phases
  <2>4. QED BY <1>1, <1>a, <2>2, <2>3 DEF Call
<1>2. CASE SubmitChunk
  <2> DEFINE c == Chunk(phase, addr + moved, ChunkLen)
  <2>1. /\ InLoop /\ queue' = Append(queue, c)
        /\ ret' = 0 /\ UNCHANGED <<leaked, callVars, memVars>>
        /\ \/ Waits /\ phase' = "wait" /\ UNCHANGED <<moved, left>>
           \/ Advance /\ UNCHANGED phase
    BY <1>2 DEF SubmitChunk
  <2>2. /\ c \in Copy /\ Inside(c)
        /\ ChunkLen \in Nat /\ left - ChunkLen \in Nat
    BY <2>1, ChunkInside
  <2> HIDE DEF c
  <2>3. queue' \in Seq(Copy) /\ \A i \in DOMAIN queue' : Inside(queue'[i])
    BY <2>1, <2>2
  <2>4. Position'
    BY <2>1, <2>2, SMTT(60) DEF Position, Waits, Advance, callVars, Phases, InLoop, Ops
  <2>5. TypeOK'
    <3>1. /\ phase' \in Phases /\ moved' \in Nat /\ left' \in Nat
      BY <2>4 DEF Position
    <3>2. QED BY <1>e, <2>1, <2>3, <3>1 DEF TypeOK, callVars, memVars
  <2>6. QED BY <2>3, <2>4, <2>5
<1>3. CASE Busy
  <2>1. Position'
    BY <1>3 DEF Busy, Position, Waits, callVars, Phases
  <2>2. TypeOK'
    BY <1>3, <1>c, <2>1 DEF Busy, TypeOK, Position, callVars, memVars
  <2>3. QED BY <1>3, <1>a, <2>1, <2>2 DEF Busy
<1>4. CASE Wait
  BY <1>4, <1>a, <1>b, <1>c DEF Wait, vars, callVars, TypeOK
<1>5. CASE WaitEnd
  <2>1. CASE Leave
    BY <1>5, <1>a, <1>c, <1>d, <2>1 DEF WaitEnd, memVars, TypeOK
  <2>2. CASE ~Leave
    <3>1. /\ phase = "wait" /\ phase' = "read"
          /\ \/ Advance
             \/ UNCHANGED <<moved, left>>
          /\ UNCHANGED <<ret, callVars, queue, leaked, memVars>>
      BY <1>5, <2>2 DEF WaitEnd
    <3>2. ChunkLen = mtu /\ left - ChunkLen \in Nat
      BY <3>1 DEF Position, ChunkLen
    <3>3. Position'
      BY <3>1, <3>2 DEF Position, Advance, callVars, Phases
    <3>4. TypeOK'
      BY <3>1, <3>3, <1>c DEF TypeOK, Position, callVars, memVars
    <3>5. QED BY <3>1, <3>3, <3>4, <1>a
  <2>3. QED BY <2>1, <2>2
<1>6. CASE Return
  <2>1. Range(addr, size) \subseteq Bytes
    BY SramSyncAssumption DEF Position, Range, Bytes, FEE_SRAM_END
  <2>2. owed' \subseteq Bytes
    BY <1>6, <2>1 DEF Return, TypeOK
  <2>3. QED
    BY <1>6, <1>a, <1>c, <1>d, <2>2 DEF Return, TypeOK
<1>7. CASE SubmitFails
  <2>1. leaked' \in 0 .. MaxLeaks
    BY <1>7, SramSyncAssumption DEF SubmitFails, TypeOK
  <2>2. CASE Waits
    <3>1. Position'
      BY <1>7, <2>2 DEF SubmitFails, Position, Waits, callVars, Phases
    <3>2. TypeOK'
      BY <1>7, <1>c, <2>1, <2>2, <3>1 DEF SubmitFails, TypeOK, Position, callVars, memVars
    <3>3. QED BY <1>7, <1>a, <3>1, <3>2 DEF SubmitFails
  <2>3. CASE ~Waits
    BY <1>7, <1>a, <1>c, <1>d, <2>1, <2>3 DEF SubmitFails, TypeOK, memVars
  <2>4. QED BY <2>2, <2>3
<1>8. CASE ProcessRx
  <2>1. queue # <<>> /\ mirror' = Over(mirror, Head(queue).data) /\ queue' = Tail(queue)
    BY <1>8 DEF ProcessRx
  <2>2. queue' \in Seq(Copy) /\ \A i \in DOMAIN queue' : Inside(queue'[i])
    BY <2>1
  <2>3. Head(queue).data \in Data
    <3>1. Head(queue) \in Copy
      BY <2>1
    <3>2. QED BY <3>1 DEF Copy
  <2>4. mirror' \in [Bytes -> Val]
    BY <2>1, <2>3, OverType DEF TypeOK
  <2>5. TypeOK'
    BY <1>8, <1>e, <2>2, <2>4 DEF ProcessRx, TypeOK, callVars
  <2>6. QED BY <1>8, <1>b, <2>2, <2>5 DEF ProcessRx
<1>9. ASSUME NEW i \in DOMAIN queue, Perform(i) PROVE SramInv'
  <2> DEFINE q == queue[i]
             d == IF q.op = "read"
                  THEN [b \in Bytes \cap Range(q.addr, q.len) |-> fee[b]]
                  ELSE <<>>
  <2>1. /\ queue' = [queue EXCEPT ![i] = [q EXCEPT !.done = TRUE, !.data = d]]
        /\ fee' = IF q.op = "write" THEN Over(fee, q.data) ELSE fee
        /\ UNCHANGED <<mirror, leaked, phase, ret, callVars, moved, left, owed>>
    BY <1>9 DEF Perform, Copy
  <2>2. q \in Copy /\ Inside(q)
    OBVIOUS
  <2>3. d \in Data
    BY PartType, EmptyType DEF TypeOK
  <2> HIDE DEF d
  <2> DEFINE p == [q EXCEPT !.done = TRUE, !.data = d]
  <2>4. p \in Copy /\ Inside(p)
    BY <2>2, <2>3 DEF Copy, Inside
  <2>5. queue' \in Seq(Copy) /\ \A j \in DOMAIN queue' : Inside(queue'[j])
    <3> HIDE DEF p
    <3>1. QED BY <2>1, <2>4 DEF p
  <2>6. fee' \in [Bytes -> Val]
    BY <2>1, <2>2, OverType DEF TypeOK, Copy
  <2>7. TypeOK'
    BY <1>e, <2>1, <2>5, <2>6 DEF TypeOK, callVars
  <2>8. QED BY <1>b, <2>1, <2>5, <2>7
<1>10. ASSUME NEW a \in Addrs, NEW n \in Sizes, NEW tested \in Nat, tested <= n,
              Store(a, n, tested)
       PROVE  SramInv'
  <2>1. n \in Nat /\ tested \in Nat
    BY <1>10, SramSyncAssumption
  <2>2. Over(mirror, [b \in Range(a, n) |-> <<b, "dpu">>]) \in [Bytes -> Val]
    BY DEF Over, Val, TypeOK
  <2>3. mirror' \in [Bytes -> Val] /\ owed' \subseteq Bytes
    BY <1>10, <2>1, <2>2 DEF Store, TypeOK
  <2>4. TypeOK'
    BY <1>10, <1>c, <2>3 DEF Store, TypeOK, callVars
  <2>5. QED BY <1>10, <1>a, <1>b, <2>4 DEF Store
<1>11. ASSUME NEW a \in Addrs, NEW n \in Sizes, WriteSram(a, n) \/ WriteSram32(a, n)
       PROVE  SramInv'
  <2>1. n \in Nat /\ n <= n /\ 2 * (n \div 4) \in Nat /\ 2 * (n \div 4) <= n
    BY SramSyncAssumption
  <2>2. QED BY <1>10, <1>11, <2>1 DEF WriteSram, WriteSram32
<1>12. CASE UNCHANGED vars
  BY <1>12, <1>a, <1>b, <1>c DEF vars, callVars, TypeOK
<1>13. QED
  BY <1>1, <1>2, <1>3, <1>4, <1>5, <1>6, <1>7, <1>8, <1>9, <1>11, <1>12
  DEF Next, Client, Loop

-----------------------------------------------------------------------------

THEOREM SramInvariant == Spec => []SramInv
<1>1. QED BY SramInit, SramStep, PTL DEF Spec

\* Every variable keeps its type: the loops of the transfer calls never count
\* below zero and never leave the SRAM, with any MTU (TypeOK).
THEOREM TypeCorrect == Spec => []TypeOK
<1>1. SramInv => TypeOK
  BY DEF SramInv
<1>2. QED BY SramInvariant, <1>1, PTL

\* No address outside of the SRAM is ever sent, for transfers of whole words
\* (ChunksInside).
THEOREM ChunksCorrect == Spec => []ChunksInside
<1>1. SramInv => ChunksInside
  BY DEF SramInv, ChunksInside, Inside
<1>2. QED BY SramInvariant, <1>1, PTL

-----------------------------------------------------------------------------
(* What has been transferred.                                              *)

\* A copy carries what its source holds: a write the mirror until the FEE has
\* executed it, a read the SRAM from then on.
Carries(q) ==
    /\ q.op = "write" /\ ~q.done =>
         /\ DOMAIN q.data = Bytes \cap Range(q.addr, q.len)
         /\ \A b \in DOMAIN q.data : q.data[b] = mirror[b]
    /\ q.op = "write" /\ q.done => DOMAIN q.data = {}
    /\ q.op = "read" /\ q.done =>
         /\ DOMAIN q.data = Bytes \cap Range(q.addr, q.len)
         /\ \A b \in DOMAIN q.data : q.data[b] = fee[b]

\* All copies under way go the same direction, that of the running call.
SameOp ==
    /\ \A i, j \in DOMAIN queue : queue[i].op = queue[j].op
    /\ phase \in Ops => \A i \in DOMAIN queue : queue[i].op = phase
    /\ phase = "wait" => \A i \in DOMAIN queue : queue[i].op = "read"

\* The byte is still to be changed on its way to the other side.
Covers(q, b) == b \in Range(q.addr, q.len) /\ (q.op = "write" => ~q.done)

Settled(b) == mirror[b] = fee[b] \/ \E i \in DOMAIN queue : Covers(queue[i], b)

\* What the running call has handed to the log.
Handed ==
    Range(addr, moved)
      \cup (IF phase = "wait" /\ ret = 0 THEN Range(addr + moved, mtu) ELSE {})

TransInv ==
    /\ SramInv
    /\ SameOp
    /\ \A i \in DOMAIN queue : Carries(queue[i])
    /\ \A b \in Bytes \cap (owed \cup Handed) : Settled(b)

LEMMA TransInit == Init => TransInv
  BY SramInit, SramSyncAssumption
  DEF Init, TransInv, SameOp, Handed, Range, Settled, Ops

\* A step of the FEE settles the bytes of a write and leaves the rest as it is.
LEMMA PerformTrans ==
    ASSUME TransInv, NEW i \in DOMAIN queue, Perform(i)
    PROVE  /\ SameOp'
           /\ \A j \in DOMAIN queue' : Carries(queue[j])'
           /\ \A b \in Bytes : Settled(b) => Settled(b)'
<1> DEFINE q == queue[i]
           d == IF q.op = "read"
                THEN [b \in Bytes \cap Range(q.addr, q.len) |-> fee[b]]
                ELSE <<>>
           p == [q EXCEPT !.done = TRUE, !.data = d]
<1>1. /\ q \in Copy /\ ~q.done /\ Carries(q) /\ queue \in Seq(Copy)
      /\ mirror \in [Bytes -> Val] /\ fee \in [Bytes -> Val]
  <2>1. queue \in Seq(Copy) /\ queue[i] \in Copy
    BY DEF TransInv, SramInv
  <2>2. QED BY <2>1 DEF TransInv, SramInv, TypeOK, Perform
<1>2. /\ queue' = [queue EXCEPT ![i] = p]
      /\ fee' = IF q.op = "write" THEN Over(fee, q.data) ELSE fee
      /\ mirror' = mirror /\ phase' = phase
  BY <1>1 DEF Perform, Copy
<1>3. /\ p.op = q.op /\ p.addr = q.addr /\ p.len = q.len /\ p.done /\ p.data = d
  BY <1>1 DEF Copy
<1> HIDE DEF p
<1>4. /\ DOMAIN queue' = DOMAIN queue
      /\ queue'[i] = p
      /\ \A j \in DOMAIN queue : j # i => queue'[j] = queue[j]
  BY <1>1, <1>2
<1>5. SameOp'
  BY <1>2, <1>3, <1>4 DEF SameOp, TransInv
<1>6. ASSUME NEW j \in DOMAIN queue' PROVE Carries(queue[j])'
  <2>1. CASE j = i
    <3>1. DOMAIN <<>> = {}
      OBVIOUS
    <3>2. q.op = "read" => fee' = fee
      BY <1>2
    <3>3. q.op \in Ops
      BY <1>1 DEF Copy
    <3>4. QED BY <1>3, <1>4, <2>1, <3>1, <3>2, <3>3 DEF Carries, Ops
  <2>2. CASE j # i
    <3>1. queue'[j] = queue[j] /\ Carries(queue[j]) /\ queue[j].op = q.op
      BY <1>4, <1>6, <2>2 DEF TransInv, SameOp
    <3>2. QED BY <1>2, <3>1 DEF Carries
  <2>3. QED BY <2>1, <2>2
<1>7. ASSUME NEW b \in Bytes, Settled(b) PROVE Settled(b)'
  <2>1. CASE q.op = "write" /\ b \in Range(q.addr, q.len)
    <3>1. b \in DOMAIN q.data /\ q.data[b] = mirror[b]
      BY <1>1, <2>1 DEF Carries
    <3>2. fee'[b] = mirror'[b]
      BY <1>2, <2>1, <3>1 DEF Over
    <3>3. QED BY <3>2 DEF Settled
  <2>2. CASE ~(q.op = "write" /\ b \in Range(q.addr, q.len))
    <3>1. fee'[b] = fee[b]
      BY <1>1, <1>2, <2>2 DEF Over, Carries
    <3>2. \A j \in DOMAIN queue : Covers(queue[j], b) => Covers(queue'[j], b)
      BY <1>3, <1>4, <2>2 DEF Covers
    <3>3. QED BY <1>2, <1>4, <1>7, <3>1, <3>2 DEF Settled, Covers
  <2>3. QED BY <2>1, <2>2
<1>8. QED BY <1>5, <1>6, <1>7

\* The receive loop settles the bytes of a read and leaves the rest as it is.
LEMMA RxTrans ==
    ASSUME TransInv, ProcessRx
    PROVE  /\ SameOp'
           /\ \A j \in DOMAIN queue' : Carries(queue[j])'
           /\ \A b \in Bytes : Settled(b) => Settled(b)'
<1> DEFINE q == queue[1]
<1>1. /\ queue \in Seq(Copy) /\ queue # <<>> /\ q.done
      /\ 1 \in DOMAIN queue /\ q \in Copy /\ Carries(q)
      /\ mirror' = Over(mirror, q.data) /\ queue' = Tail(queue)
      /\ fee' = fee /\ phase' = phase
      /\ mirror \in [Bytes -> Val] /\ fee \in [Bytes -> Val]
  <2>1. queue \in Seq(Copy) /\ queue # <<>> /\ Head(queue) = queue[1]
    BY DEF TransInv, SramInv, ProcessRx
  <2>2. 1 \in DOMAIN queue
    BY <2>1
  <2>3. QED BY <2>1, <2>2 DEF TransInv, SramInv, TypeOK, ProcessRx
<1>2. /\ \A j \in DOMAIN queue' : j + 1 \in DOMAIN queue /\ queue'[j] = queue[j + 1]
      /\ \A j \in DOMAIN queue : j = 1 \/ (j - 1 \in DOMAIN queue' /\ queue'[j - 1] = queue[j])
  BY <1>1
<1>3. SameOp'
  BY <1>1, <1>2 DEF SameOp, TransInv
<1>4. q.op \in Ops
  BY <1>1 DEF Copy
<1>5. q.op = "write" => mirror' = mirror
  BY <1>1 DEF Over, Carries
<1>6. ASSUME NEW j \in DOMAIN queue' PROVE Carries(queue[j])'
  <2>1. queue'[j] = queue[j + 1] /\ Carries(queue[j + 1]) /\ queue[j + 1].op = q.op
    BY <1>1, <1>2, <1>6 DEF TransInv, SameOp
  <2>2. QED BY <1>1, <1>4, <1>5, <2>1 DEF Carries, Ops
<1>7. ASSUME NEW b \in Bytes, Settled(b) PROVE Settled(b)'
  <2>1. CASE q.op = "read" /\ b \in Range(q.addr, q.len)
    <3>1. b \in DOMAIN q.data /\ q.data[b] = fee[b]
      BY <1>1, <2>1 DEF Carries
    <3>2. mirror'[b] = fee'[b]
      BY <1>1, <3>1 DEF Over
    <3>3. QED BY <3>2 DEF Settled
  <2>2. CASE ~(q.op = "read" /\ b \in Range(q.addr, q.len))
    <3>1. mirror'[b] = mirror[b]
      BY <1>1, <1>4, <2>2 DEF Over, Carries, Ops
    <3>2. ~Covers(q, b)
      BY <1>1, <1>4, <2>2 DEF Covers, Ops
    <3>3. QED BY <1>1, <1>2, <1>7, <3>1, <3>2, ZenonT(60) DEF Settled, Covers
  <2>3. QED BY <2>1, <2>2
<1>8. QED BY <1>3, <1>6, <1>7

\* A chunk that the log takes is settled, and nothing else changes.
LEMMA SubmitTrans ==
    ASSUME TransInv, SubmitChunk
    PROVE  TransInv'
<1> DEFINE c == Chunk(phase, addr + moved, ChunkLen)
           n == Len(queue) + 1
<1>1. /\ InLoop /\ queue' = Append(queue, c) /\ ret' = 0
      /\ UNCHANGED <<mirror, fee, owed, addr, size, mtu>>
      /\ \/ Waits /\ phase' = "wait" /\ UNCHANGED <<moved, left>>
         \/ Advance /\ UNCHANGED phase /\ (phase = "write" \/ left < mtu)
      /\ queue \in Seq(Copy) /\ c \in Copy
  <2>1. /\ phase \in Ops /\ left \in Nat /\ mtu \in Nat
    BY DEF SubmitChunk, InLoop, TransInv, SramInv, Position
  <2>2. c \in Copy
    BY ChunkInside DEF TransInv, SubmitChunk
  <2>3. QED
    BY <2>1, <2>2 DEF SubmitChunk, memVars, callVars, TransInv, SramInv, Waits, Ops
<1>2. /\ c.op = phase /\ c.addr = addr + moved /\ c.len = ChunkLen /\ ~c.done
      /\ c.data = IF phase = "write"
                  THEN [b \in Bytes \cap Range(c.addr, c.len) |-> mirror[b]]
                  ELSE <<>>
  BY DEF Chunk
<1> HIDE DEF c
<1>3. /\ \A j \in DOMAIN queue : j \in DOMAIN queue' /\ queue'[j] = queue[j]
      /\ n \in DOMAIN queue' /\ queue'[n] = c
      /\ \A j \in DOMAIN queue' : j = n \/ j \in DOMAIN queue
  BY <1>1
<1>4. phase \in Ops /\ \A j \in DOMAIN queue : queue[j].op = phase
  BY <1>1 DEF TransInv, SameOp, InLoop
<1>5. \A j \in DOMAIN queue' : queue'[j].op = phase
  BY <1>2, <1>3, <1>4
<1>6. SameOp'
  BY <1>1, <1>4, <1>5 DEF SameOp, Waits, Ops
<1>7. ASSUME NEW j \in DOMAIN queue' PROVE Carries(queue[j])'
  <2>1. CASE j = n
    BY <1>1, <1>2, <1>3, <1>4, <2>1 DEF Carries, Ops
  <2>2. CASE j \in DOMAIN queue
    BY <1>1, <1>3, <2>2 DEF TransInv, Carries
  <2>3. QED BY <1>3, <2>1, <2>2
<1>8. \A b \in Bytes : Settled(b) => Settled(b)'
  BY <1>1, <1>3 DEF Settled, Covers
<1>9. \A b \in Bytes \cap Range(addr + moved, ChunkLen) : Settled(b)'
  BY <1>2, <1>3 DEF Settled, Covers
<1>10. Handed' \subseteq Handed \cup Range(addr + moved, ChunkLen)
  <2>1. /\ addr \in Nat /\ moved \in Nat /\ left \in Nat /\ mtu \in Nat
    BY DEF TransInv, SramInv, Position
  <2>2. Waits => ChunkLen = mtu
    BY DEF Waits, ChunkLen
  <2>3. phase # "wait"
    BY <1>4 DEF Ops
  <2>4. ChunkLen \in Nat
    BY <2>1 DEF ChunkLen
  <2>5. Range(addr, moved + ChunkLen) \subseteq
          Range(addr, moved) \cup Range(addr + moved, ChunkLen)
    BY <2>1, <2>4 DEF Range
  <2>6. CASE Waits /\ phase' = "wait" /\ UNCHANGED <<moved, left>>
    BY <1>1, <2>2, <2>6 DEF Handed
  <2>7. CASE Advance /\ UNCHANGED phase
    BY <1>1, <2>3, <2>5, <2>7 DEF Handed, Advance
  <2>8. QED BY <1>1, <2>6, <2>7
<1>11. SramInv'
  BY SramStep DEF TransInv, Next, Loop
<1>12. ASSUME NEW b \in Bytes \cap (owed' \cup Handed') PROVE Settled(b)'
  <2>1. CASE b \in Range(addr + moved, ChunkLen)
    BY <1>9, <2>1
  <2>2. CASE b \in owed \cup Handed
    BY <1>8, <2>2 DEF TransInv
  <2>3. QED BY <1>1, <1>10, <2>1, <2>2
<1>13. QED BY <1>6, <1>7, <1>11, <1>12 DEF TransInv

\* Without a change of the copies and the memories, what is handed over or owed
\* may only become less, or change its name from handed over to owed.
LEMMA QuietTrans ==
    ASSUME TransInv, [Next]_vars, UNCHANGED <<queue, mirror, fee>>, SameOp',
           owed' \cup Handed' \subseteq owed \cup Handed
    PROVE  TransInv'
<1>1. SramInv'
  BY SramStep DEF TransInv
<1>2. \A i \in DOMAIN queue' : Carries(queue[i])'
  BY DEF TransInv, Carries
<1>3. \A b \in Bytes \cap (owed' \cup Handed') : Settled(b)'
  BY DEF TransInv, Settled, Covers
<1>4. QED BY <1>1, <1>2, <1>3 DEF TransInv

LEMMA TransStep == TransInv /\ [Next]_vars => TransInv'
<1> SUFFICES ASSUME TransInv, [Next]_vars PROVE TransInv'
  OBVIOUS
<1>1. SramInv /\ SramInv'
  BY SramStep DEF TransInv
<1>2. /\ addr \in Nat /\ size \in Nat /\ mtu \in Nat
      /\ moved \in Nat /\ left \in Nat /\ START \in Nat
      /\ moved + left = size /\ phase \in Phases
      /\ phase = "wait" => left >= mtu
  BY <1>1, SramSyncAssumption DEF SramInv, Position
<1>3. \A a \in Nat : Range(a, 0) = {}
  BY DEF Range
<1>4. Leave => Handed' = {} /\ phase' = "idle"
  BY <1>3, SramSyncAssumption DEF Leave, Handed
<1>5. ASSUME UNCHANGED queue, phase' = "idle" \/ phase' = phase
             \/ (phase' = "wait" /\ phase = "read") \/ (phase' = "read" /\ phase = "wait")
      PROVE SameOp'
  BY <1>5 DEF SameOp, TransInv, Ops
<1>6. ASSUME NEW op \in Ops, NEW a \in Addrs, NEW n \in Sizes, NEW u \in Mtus,
             Call(op, a, n, u)
      PROVE  TransInv'
  <2>1. SameOp'
    BY <1>6 DEF Call, SameOp, TransInv, Ops
  <2>2. Handed' = {}
    BY <1>3, <1>6, WordsInside DEF Call, Handed, Ops
  <2>3. QED BY <1>6, <2>1, <2>2, QuietTrans DEF Call
<1>7. CASE SubmitChunk
  BY <1>7, SubmitTrans
<1>8. CASE Busy
  <2>1. SameOp'
    BY <1>5, <1>8 DEF Busy, Waits
  <2>2. Handed' = Handed
    BY <1>8 DEF Busy, Handed, callVars, InLoop, Ops
  <2>3. QED BY <1>8, <2>1, <2>2, QuietTrans DEF Busy, memVars
<1>9. CASE Wait
  BY <1>5, <1>9, QuietTrans DEF Wait, vars, memVars, callVars, Handed
<1>10. CASE WaitEnd
  <2>1. CASE Leave
    BY <1>4, <1>5, <1>10, <2>1, QuietTrans DEF WaitEnd, memVars
  <2>2. CASE ~Leave
    <3>1. /\ phase = "wait" /\ phase' = "read"
          /\ \/ ret = 0 /\ Advance
             \/ UNCHANGED moved
          /\ UNCHANGED <<addr, queue, mirror, fee, owed, mtu, ret>>
      BY <1>10, <2>2 DEF WaitEnd, memVars, callVars
    <3>2. ChunkLen = mtu
      BY <1>2, <3>1 DEF ChunkLen
    <3>3. Range(addr, moved + mtu) \subseteq Range(addr, moved) \cup Range(addr + moved, mtu)
      BY <1>2 DEF Range
    <3>4. Handed' \subseteq Handed
      BY <3>1, <3>2, <3>3 DEF Handed, Advance
    <3>5. QED BY <1>5, <3>1, <3>4, QuietTrans
  <2>3. QED BY <2>1, <2>2
<1>11. CASE Return
  <2>1. /\ Leave /\ owed' = owed \cup Range(addr, size) /\ left = 0
        /\ UNCHANGED <<queue, mirror, fee>>
    BY <1>11 DEF Return
  <2>2. Range(addr, size) \subseteq Handed
    BY <1>2, <2>1 DEF Handed
  <2>3. QED BY <1>4, <1>5, <2>1, <2>2, QuietTrans
<1>12. CASE SubmitFails
  <2>1. CASE Leave
    BY <1>4, <1>5, <1>12, <2>1, QuietTrans DEF SubmitFails, memVars
  <2>2. CASE ~Leave
    <3>1. /\ phase = "read" /\ phase' = "wait" /\ ret' = -1
          /\ UNCHANGED <<addr, moved, queue, mirror, fee, owed>>
      BY <1>12, <2>2 DEF SubmitFails, memVars, callVars, Waits
    <3>2. QED BY <1>5, <3>1, QuietTrans DEF Handed
  <2>3. QED BY <2>1, <2>2
<1>13. CASE ProcessRx
  <2>1. UNCHANGED <<owed, Handed>>
    BY <1>13 DEF ProcessRx, callVars, Handed
  <2>2. \A b \in Bytes \cap (owed' \cup Handed') : Settled(b)'
    BY <1>13, <2>1, RxTrans DEF TransInv
  <2>3. QED BY <1>1, <1>13, <2>2, RxTrans DEF TransInv
<1>14. ASSUME NEW i \in DOMAIN queue, Perform(i) PROVE TransInv'
  <2>1. UNCHANGED <<owed, Handed>>
    BY <1>14 DEF Perform, callVars, Handed
  <2>2. \A b \in Bytes \cap (owed' \cup Handed') : Settled(b)'
    BY <1>14, <2>1, PerformTrans DEF TransInv
  <2>3. QED BY <1>1, <1>14, <2>2, PerformTrans DEF TransInv
<1>15. ASSUME NEW a \in Addrs, NEW n \in Sizes, NEW tested, Store(a, n, tested)
       PROVE  TransInv'
  <2>1. /\ phase = "idle" /\ phase' = "idle" /\ queue = <<>> /\ queue' = <<>>
        /\ fee' = fee /\ Handed' = Handed
    BY <1>15 DEF Store, callVars, Handed
  <2>2. SameOp' /\ \A i \in DOMAIN queue' : Carries(queue[i])'
    BY <2>1 DEF SameOp, Ops
  <2>3. Handed = {}
    BY <1>1, <1>2, <1>3, <2>1 DEF Handed, SramInv, Position
  <2>4. \A b \in Bytes \cap owed' : b \in owed /\ mirror'[b] = mirror[b]
    BY <1>1, <1>15 DEF Store, Over, SramInv, TypeOK
  <2>5. \A b \in Bytes \cap (owed' \cup Handed') : Settled(b)'
    BY <2>1, <2>3, <2>4 DEF TransInv, Settled
  <2>6. QED BY <1>1, <2>2, <2>5 DEF TransInv
<1>16. CASE UNCHANGED vars
  BY <1>5, <1>16, QuietTrans DEF vars, callVars, Handed
<1>17. QED
  BY <1>6, <1>7, <1>8, <1>9, <1>10, <1>11, <1>12, <1>13, <1>14, <1>15, <1>16
  DEF Next, Client, Loop, WriteSram, WriteSram32

\* For a client that does not mix directions: when a transfer call has returned
\* 0 and the log has drained, its range is the same on both sides (Transferred).
THEOREM TransferCorrect == Spec => []Transferred
<1>1. TransInv => Transferred
  <2> SUFFICES ASSUME TransInv, phase = "idle", queue = <<>>, NEW b \in owed
               PROVE  mirror[b] = fee[b]
    BY DEF Transferred
  <2>1. b \in Bytes
    BY DEF TransInv, SramInv, TypeOK
  <2>2. QED BY <2>1 DEF TransInv, Settled
<1>2. QED BY TransInit, TransStep, <1>1, PTL DEF Spec
=============================================================================
