---------------------------- MODULE GbridgeWire ----------------------------
(***************************************************************************)
(* What the device (atmega328p/source/gbridge.c) and the bridge            *)
(* (bridge/source/gbridge.c) share: the command codes of gbridge_cmd.h,    *)
(* the checksum, the frames, the requests of gbridge_prot_ma, and the two  *)
(* directions of the serial line.                                          *)
(*                                                                         *)
(* Every byte is a number in 0..255.  A direction of the line is the       *)
(* sequence of the bytes that were written and not yet read: those in the  *)
(* transmit ring, on the wire, in the operating system and in the receive  *)
(* ring.  Serial.tla models the rings themselves.                            *)
(***************************************************************************)
EXTENDS Integers, Sequences

VARIABLES
  toPC,    \* bytes written by the device and not read by the bridge
  toDev    \* bytes written by the bridge and not read by the device

wire == <<toPC, toDev>>

Byte == 0..255
UINT_MAX == 65535   \* unsigned has 16 bits on the device

GBRIDGE_HANDSHAKE == <<153, 102, 71, 66>>
GBRIDGE_MAX_DATA_SIZE == 128
GBRIDGE_CMD_NONE == 0
GBRIDGE_CMD_DEBUG_LINE == 2
GBRIDGE_CMD_DATA == 10
GBRIDGE_CMD_STREAM == 12
GBRIDGE_CMD_DATA_PC == 74
GBRIDGE_CMD_STREAM_PC == 76
GBRIDGE_CMD_RESET == 79

\* cmd | GBRIDGE_CMD_REPLY_F: every command is below 0x80.
Reply(cmd) == cmd + 128

Be16(n) == <<(n \div 256) % 256, n % 256>>
FromBe16(hi, lo) == hi * 256 + lo

\* What checksum_data has added up after so many bytes.
ByteSum(bytes) ==
  LET sum[n \in 0..Len(bytes)] == IF n = 0 THEN 0 ELSE sum[n - 1] + bytes[n]
  IN sum

\* checksum_data: the size is held in an unsigned char, so only the first
\* (size % 256) bytes are summed, in 16 bits.
ChecksumData(bytes) == ByteSum(bytes)[Len(bytes) % 256] % 65536

DataFrame(cmd, payload) ==
  <<cmd, Len(payload)>> \o payload \o Be16(ChecksumData(payload))

StreamFrame(cmd, bytes) ==
  <<cmd>> \o Be16(Len(bytes)) \o bytes \o Be16(ChecksumData(bytes))

DebugFrame(text) == <<GBRIDGE_CMD_DEBUG_LINE, Len(text)>> \o text

\* The bytes of a stream or of a debug line: no two neighbours are equal.
Content(n) == [i \in 1..n |-> i % 256]
-----------------------------------------------------------------------------
(***************************************************************************)
(* gbridge_prot_ma: one request per socket operation.  A request is a      *)
(* record [op, conn, addr, size]; addr is the type of the address that     *)
(* OPEN, CONNECT and SEND carry, size the length that SEND and RECV carry. *)
(***************************************************************************)
OPEN == 0
CLOSE == 1
CONNECT == 2
LISTEN == 3
ACCEPT == 4
SEND == 5
RECV == 6

ADDR_NONE == 0
ADDR_IPV4 == 1
ADDR_IPV6 == 2

Op == {OPEN, CLOSE, CONNECT, LISTEN, ACCEPT, SEND, RECV}

\* address_write: type, port and host (4 or 16 bytes); NONE is one byte.
AddressWrite(type) ==
  CASE type = ADDR_IPV4 -> <<ADDR_IPV4, 0, 80, 127, 0, 0, 1>>
    [] type = ADDR_IPV6 -> <<ADDR_IPV6, 0, 80>> \o [i \in 1..16 |-> i % 2]
    [] OTHER -> <<ADDR_NONE>>

\* address_read: how many bytes the address takes, 0 when it is malformed.
AddressRead(bytes) ==
  LET size == Len(bytes) IN
  CASE size >= 1 /\ bytes[1] = ADDR_NONE -> 1
    [] size >= 7 /\ bytes[1] = ADDR_IPV4 -> 7
    [] size >= 19 /\ bytes[1] = ADDR_IPV6 -> 19
    [] OTHER -> 0

\* The bytes each mobile_impl_sock_* puts in data.buffer.
Arguments(req) ==
  CASE req.op = OPEN -> <<0, req.addr, 0, 0>>
    [] req.op \in {CONNECT, SEND} -> AddressWrite(req.addr)
    [] req.op = RECV -> Be16(req.size)
    [] OTHER -> <<>>

Payload(req) == <<req.op, req.conn>> \o Arguments(req)

\* An int stored in one (CONNECT) or two (SEND, RECV) bytes and read back
\* through (char) and (int16_t).
Unsigned(n, width) == IF n < 0 THEN n + 2^width ELSE n
Signed(n, width) == IF n >= 2^(width - 1) THEN n - 2^width ELSE n

After(bytes, n) == SubSeq(bytes, n + 1, Len(bytes))
=============================================================================
