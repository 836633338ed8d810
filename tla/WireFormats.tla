----------------------------- MODULE WireFormats -----------------------------
(***************************************************************************)
(* The three packets of the link, byte by byte, as the sending side writes *)
(* them and as the receiving side reads them.  A datagram is a sequence of *)
(* bytes.  Numbers of four bytes stay below 2^31 here, the largest that    *)
(* the model checker has.                                                  *)
(***************************************************************************)
EXTENDS Integers, Sequences, FiniteSets

\* Unsigned numbers of one, two and four bytes.
Byte == {v \in Nat : v < 256}
Word == {v \in Nat : v < 65536}
Long == {v \in Nat : v \div 65536 < 65536}

Bit(v, i) == (v \div 2^i) % 2

Be16(v) == <<(v \div 256) % 256, v % 256>>
Be32(v) == Be16(v \div 65536) \o Be16(v % 65536)
\* Offsets count from 0, as in the code.
Le16At(d, i) == d[i + 1] + 256 * d[i + 2]
Le32At(d, i) == Le16At(d, i) + 65536 * Le16At(d, i + 2)
Be16At(d, i) == 256 * d[i + 1] + d[i + 2]
Be32At(d, i) == 65536 * Be16At(d, i) + Be16At(d, i + 2)

\* The byte with these bits, bits[0] the lowest.
ByteOf(bits) ==
    bits[0] + 2 * bits[1] + 4 * bits[2] + 8 * bits[3]
        + 16 * bits[4] + 32 * bits[5] + 64 * bits[6] + 128 * bits[7]
\* Exclusive or: a bit of the result is set when it is set in an odd number of the bytes.
Xor(a, b) == ByteOf([i \in 0..7 |-> (Bit(a, i) + Bit(b, i)) % 2])
xor_checksum(d, len) ==
    ByteOf([i \in 0..7 |-> Cardinality({k \in 1..len : Bit(d[k], i) = 1}) % 2])
Sealed(d) == Append(d, xor_checksum(d, Len(d)))

-----------------------------------------------------------------------------
\* Telemetry, from frame_stats_packet_parallel to parse_frame_stats_packet.
FrameStatsPacket ==
    [frame_id : Word, status_bits : Word, timestamp_low : Long, frame_width : Word,
     frame_height : Word, active_pixel_count : Long, roi_sum : Long, bright_count : Word,
     error_code : Word]
pkt_data_256(r) ==
    Sealed(<<69, 86, 1, 1>>
        \o Be16(r.frame_id) \o Be16(r.status_bits) \o Be32(r.timestamp_low)
        \o Be16(r.frame_width) \o Be16(r.frame_height) \o Be32(r.active_pixel_count)
        \o Be32(r.roi_sum) \o Be16(r.bright_count) \o Be16(r.error_code) \o <<0, 0, 0>>)

kFrameStatsPacketSize == 32
\* A receiver that leaves the checksum to UDP.
IsFrameStatsUnsummed(d) ==
    /\ Len(d) = kFrameStatsPacketSize
    /\ d[1] = 69 /\ d[2] = 86
IsFrameStats(d) ==
    /\ Len(d) = kFrameStatsPacketSize
    /\ d[1] = 69 /\ d[2] = 86
    /\ xor_checksum(d, 31) = d[32]

parse_frame_stats_packet(d) ==
    [frame_id |-> Be16At(d, 4), status_bits |-> Be16At(d, 6), timestamp_low |-> Be32At(d, 8),
     frame_width |-> Be16At(d, 12), frame_height |-> Be16At(d, 14),
     active_pixel_count |-> Be32At(d, 16), roi_sum |-> Be32At(d, 20),
     bright_count |-> Be16At(d, 24), error_code |-> Be16At(d, 26)]

-----------------------------------------------------------------------------
\* Preview, from rgb565_udp_preview_payload_gen to parse_preview_chunk_packet.
Flags(offset, size, total) ==
    2 * (IF offset + size >= total THEN 1 ELSE 0) + (IF offset = 0 THEN 1 ELSE 0)
payload_mem(id, chunk, offset, total, data) ==
    <<74, 80, 1, 18>> \o Be16(id) \o Be16(chunk) \o Be16(Len(data))
        \o <<Flags(offset, Len(data), total), 0>> \o Be32(offset) \o data

\* The byte stream of a frame: width, height, and the bytes of each pixel.
BytesOf(pixels, Odd(_), Even(_)) ==
    [i \in 1..(2 * Len(pixels)) |->
        IF i % 2 = 1 THEN Odd(pixels[(i + 1) \div 2]) ELSE Even(pixels[i \div 2])]
LowByte(pixel)  == pixel % 256
HighByte(pixel) == pixel \div 256
\* A sender that keeps to the byte order of the other numbers.
StreamOfHighFirst(width, height, pixels) ==
    Be16(width) \o Be16(height) \o BytesOf(pixels, HighByte, LowByte)
StreamOf(width, height, pixels) ==
    Be16(width) \o Be16(height) \o BytesOf(pixels, LowByte, HighByte)

kPreviewHeaderSize == 16
kPreviewMsgTypeRgb565 == 18
IsPreviewChunk(d) ==
    /\ Len(d) >= kPreviewHeaderSize
    /\ d[1] = 74 /\ d[2] = 80
    /\ Len(d) = kPreviewHeaderSize + Be16At(d, 8)
parse_preview_chunk_packet(d) ==
    [msg_type |-> d[4], frame_id |-> Be16At(d, 4), chunk_id |-> Be16At(d, 6),
     first |-> Bit(d[11], 0) = 1, last |-> Bit(d[11], 1) = 1, chunk_offset |-> Be32At(d, 12),
     payload |-> SubSeq(d, kPreviewHeaderSize + 1, Len(d))]

-----------------------------------------------------------------------------
\* Commands, from build_command_packet to udp_cmd_packet_parser.
build_command_packet(cmd, seq, addr, data0, data1) ==
    Sealed(<<67, 77, 1, cmd>> \o Be16(seq) \o Be16(addr) \o Be32(data0) \o Be32(data1)
        \o <<0, 0, 0>>)

IsCommand(d) ==
    /\ Len(d) = 20 /\ d[1] = 67 /\ d[2] = 77 /\ d[3] = 1
    /\ xor_checksum(d, 19) = d[20]
ParseCommand(d) ==
    [cmd |-> d[4], seq |-> Be16At(d, 4), addr |-> Be16At(d, 6), data0 |-> Be32At(d, 8),
     data1 |-> Be32At(d, 12)]
==============================================================================
