----------------------------- MODULE RmapPacket -----------------------------
(***************************************************************************)
(* Packets as octets: the RMAP headers of FEE/rmap.c (445-647), the        *)
(* packages around them (FEE/smile_fee_rmap.c 519-585) and the GRESB       *)
(* frames around those (GRESB/gresb.c 32-145).  Paths are empty in what    *)
(* is built, as the programs leave them.  A CRC is an octet that no        *)
(* receiver looks at.                                                      *)
(***************************************************************************)
EXTENDS Integers, SequencesExt

Octet == 0..255
U24 == 0..256 * 256 * 256 - 1     \* what three octets hold

READ == 3              \* RMAP_READ_ADDR_INC
WRITE == 11            \* RMAP_WRITE_ADDR_INC_REPLY
RMAP_PROTOCOL_ID == 1
FEE_DATA_PROTOCOL == 240
Crc == 204

\* n in w octets, most significant first, and back.  No number has more than
\* four octets; Weight is from the least significant on.
Weight == <<1, 256, 256 * 256, 256 * 256 * 256>>

BigEndian(n, w) == [i \in 1..w |-> (n \div Weight[w + 1 - i]) % 256]

FromBigEndian(s) ==
    LET part(i) == IF i <= Len(s) THEN Weight[i] * s[Len(s) + 1 - i] ELSE 0
    IN  part(1) + part(2) + part(3) + part(4)

\* The len octets of a buffer from index i on, counted from zero; what lies
\* behind its end may hold anything.
Octets(buf, i, len) ==
    [j \in 1..len |-> IF i + j <= Len(buf) THEN buf[i + j] ELSE 0]

Reads(cmd) == cmd \in {2, 3, 7}
Writes(cmd) == cmd \in 8..15

\* A bug to compare with: a reply's header is as long as a command's.
MutMinHdrSize(cmd, cmd_resp) ==
    IF Reads(cmd) \/ Writes(cmd) THEN 15 ELSE -1

MinHdrSize(cmd, cmd_resp) ==
    CASE ~(Reads(cmd) \/ Writes(cmd)) -> -1
      [] cmd_resp -> 15
      [] Reads(cmd) /\ ~cmd_resp -> 11
      [] OTHER -> 7

BuildHdr(p) ==
    <<p.dst, RMAP_PROTOCOL_ID, 4 * p.cmd + (IF p.cmd_resp THEN 64 ELSE 0), p.key,
      p.src>>
    \o BigEndian(p.tr_id, 2)
    \o (IF p.cmd_resp THEN <<0>> \o BigEndian(p.addr, 4)
        ELSE IF Writes(p.cmd) THEN <<>> ELSE <<0>>)
    \o (IF ~p.cmd_resp /\ Writes(p.cmd) THEN <<>> ELSE BigEndian(p.data_len, 3))

\* smile_fee_package(): the CRC of the data is cut off where the command is
\* not one that has it.
HasDataCrc(cmd) == cmd \in {7, 8, 9} \cup 11..15

Package(hdr, cmd, data) ==
    LET n == Len(hdr) + 1 + Len(data) + (IF HasDataCrc(cmd) THEN 1 ELSE 0)
    IN  SubSeq(hdr \o <<Crc>> \o data \o <<Crc>>, 1, n)

Invalid == [cmd |-> -1]

\* rmap_pkt_from_buffer().  What it is given may be anything, and a reply
\* path is skipped where the instruction of a command says there is one.
FromBuffer(buf, len) ==
    LET octet(i) == Octets(buf, i, 1)[1]
        instruction == octet(2)
        cmd_resp == (instruction \div 64) % 2 = 1
        cmd == (instruction \div 4) % 16
        path == IF cmd_resp THEN 4 * (instruction % 4) ELSE 0
        skip == path + (IF cmd_resp THEN 4 ELSE 0)
        data_len == IF ~cmd_resp /\ Writes(cmd) THEN 0
                    ELSE FromBigEndian(Octets(buf, 8 + skip, 3))
        minimum == MinHdrSize(cmd, cmd_resp)
    IN  IF \/ len < 7 \/ Octets(buf, 1, 1) # <<RMAP_PROTOCOL_ID>>
           \/ minimum < 0 \/ len < minimum + path
           \/ data_len > 0 /\ len < 12 + skip + data_len
        THEN Invalid
        ELSE [cmd_resp |-> cmd_resp, cmd |-> cmd,
              dst |-> octet(0), key |-> octet(3), src |-> octet(4 + path),
              tr_id |-> FromBigEndian(Octets(buf, 5 + path, 2)),
              addr |-> IF cmd_resp THEN FromBigEndian(Octets(buf, 8 + path, 4)) ELSE 0,
              data_len |-> data_len, data |-> Octets(buf, 12 + skip, data_len)]

\* The four octets in front of a packet on a socket: the kind of packet
\* (host data) and its size.
GRESB_HDR_SIZE == 4

Frame(pkt) == <<0>> \o BigEndian(Len(pkt), 3) \o pkt

FrameSize(hdr) == FromBigEndian(SubSeq(hdr, 2, 4))
=============================================================================
