---------------------------- MODULE MCStatusReply ----------------------------
\* Records and pictures whose fields, bytes and colours all differ, at both ends of their
\* ranges.
EXTENDS StatusReply, SequencesExt

Stat(f, bits, time, count, sum) ==
    [frame_id |-> f, status_bits |-> bits, timestamp_low |-> time, frame_width |-> 800,
     frame_height |-> 600, active_pixel_count |-> count, roi_sum |-> sum,
     bright_count |-> count % 65536, error_code |-> 255 * f]
MCStats == <<Stat(1, 403, 0, 480000, 2147483647),
             Stat(2, 65488, 16909060, 66051, 0),
             Stat(3, 0, 2147418112, 1, 287454020)>>
MCPictures == << <<63488, 2016, 31, 4660, 33808, 65535>>, <<0, 61904, 5376, 43690>> >>
MCCommands == {[cmd |-> 1, seq |-> 65535, addr |-> 65558, data0 |-> 16909060]}
\* The checksum is what the loop of xor_checksum computes.
ASSUME ChecksumIsLoop ==
    \A d \in Telemetry : xor_checksum(d, 31) = FoldLeft(Xor, 0, SubSeq(d, 1, 31))
==============================================================================
