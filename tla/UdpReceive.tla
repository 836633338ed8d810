------------------------------ MODULE UdpReceive ------------------------------
(***************************************************************************)
(* The Ethernet receive path of the FPGA, clock by clock (rx_clk125m):     *)
(* eth_udp_rx_gmii finds the UDP payload of the frames to this node, and   *)
(* udp_cmd_packet_parser makes a command of it.  What becomes of the       *)
(* command is in CommandExec.                                              *)
(*                                                                         *)
(* A byte is its place in a frame on the line.  A header field is right    *)
(* when its bytes come from their places in one frame; the CRC is right    *)
(* when it has summed all the bytes of one undamaged frame and no other.   *)
(* The receiver looks at the data valid signal only where a frame begins   *)
(* and where it ends: a frame that breaks off leaves it in the middle.     *)
(***************************************************************************)
EXTENDS Integers, Sequences

CONSTANTS
    MinPreamble, MaxPreamble,  \* bytes 0x55 before the SFD it accepts: 6 to 8
    EthLen, IpLen, UdpLen,     \* header bytes: 14, 20 and 8
    PortByte,                  \* last byte of the destination port: 3
    MinPayload,                \* payload of the shortest Ethernet frame: 18
    CmdLen,                    \* payload of a command: 20
    FcsLen,                    \* 4
    LengthMod, DropMod,        \* ranges of cnt_data and cnt_drp_data: 2^16, 2^5
    Lengths,                   \* payload lengths of the frames
    Preambles,                 \* bytes 0x55 of the frames
    MinGap,                    \* idle clocks between two frames: 12
    MaxFrames, MaxCuts, MaxResets  \* of a behaviour (bounds)

ASSUME FormatAssumption ==
    /\ {MinPreamble, MaxPreamble, EthLen, IpLen, UdpLen, PortByte, MinPayload, CmdLen, FcsLen,
        LengthMod, DropMod, MinGap} \subseteq Nat \ {0}
    /\ MaxPreamble >= MinPreamble /\ IpLen > 2 /\ UdpLen > PortByte + 1
    /\ LengthMod > CmdLen /\ LengthMod > MinPayload + FcsLen /\ DropMod >= MinPayload
    /\ MinGap > 6
    /\ Lengths \subseteq 0..(LengthMod - 1) /\ Preambles \subseteq Nat
ASSUME BoundsAssumption == {MaxFrames, MaxCuts, MaxResets} \subseteq Nat

VARIABLES
    line,       \* gmii_rxd, gmii_rxdv: the frame on the line, the place of its next
                \* byte, idle clocks since the last frame
    dly,        \* rx_data_dly1, rx_data_dly2 with their valid bits
    rx,         \* curr_state and the counter of that state
    hdr,        \* the headers: frame their fields come from
    crc,        \* crc_init, crc_en, crc_data, and what the CRC has summed
    out,        \* payload_valid_o, payload_dat_o, one_pkt_done, pkt_error
    buf,        \* byte_buf up to byte_cnt
    cmd,        \* cmd_valid_o, and the bytes of the command
    used,       \* frames, cuts and resets so far (bound)
    latest,     \* history: frame of the last command
    disturbed,  \* history: a frame broke off, or was empty, and the receiver has not
                \* been listening on an idle line since
    owed        \* history: the frame on the line, or just gone, must become a command

vars == <<line, dly, rx, hdr, crc, out, buf, cmd, used, latest, disturbed, owed>>

\* The header by which a frame fails, if not for "us"; good: not damaged.
Kinds ==
    [to : {"us"}, len : Lengths, good : BOOLEAN, preamble : {MaxPreamble}]
    \cup [to : {"us"}, len : {CmdLen}, good : {TRUE}, preamble : Preambles]
    \cup [to : {"mac", "ip", "port"}, len : {CmdLen}, good : {TRUE}, preamble : {MinPreamble}]
Frame(n, k) == [n |-> n, kind |-> k]
NoFrame == [n |-> 0, kind |-> [to |-> "us", len |-> 0, good |-> FALSE, preamble |-> 0]]

PayloadAt == EthLen + IpLen + UdpLen
Total(f) ==
    PayloadAt + (IF f.kind.len < MinPayload THEN MinPayload ELSE f.kind.len) + FcsLen

\* Places: -1 is the SFD, below it the preamble.
Idle == [v |-> FALSE, frame |-> NoFrame, at |-> -1 - LengthMod]
Byte(f, at) == [v |-> TRUE, frame |-> f, at |-> at]
IsPreamble(b) == b.v /\ b.at < -1
IsSfd(b) == b.v /\ b.at = -1

NoSum == [frame |-> NoFrame, next |-> -1]
Fresh == [frame |-> NoFrame, next |-> 0]

ResetRx == [state |-> "IDLE", cnt |-> 0]
ResetHdr == [eth |-> NoFrame, ip |-> NoFrame, port |-> NoFrame]
ResetCrc == [init |-> FALSE, en |-> FALSE, byte |-> Idle, sum |-> Fresh]
ResetOut == [valid |-> FALSE, byte |-> Idle, done |-> FALSE, error |-> FALSE]
NoCmd == [valid |-> FALSE, bytes |-> <<>>]

Init ==
    /\ line = [frame |-> NoFrame, at |-> 0, gap |-> 0]
    /\ dly = <<Idle, Idle>>
    /\ rx = ResetRx /\ hdr = ResetHdr /\ crc = ResetCrc /\ out = ResetOut
    /\ buf = <<>> /\ cmd = NoCmd
    /\ used = [frames |-> 0, cuts |-> 0, resets |-> 0]
    /\ latest = 0 /\ disturbed = FALSE /\ owed = FALSE

-----------------------------------------------------------------------------
\* The line.
Sending == line.frame # NoFrame
LineByte == IF Sending THEN Byte(line.frame, line.at) ELSE Idle
LastByte == line.at = Total(line.frame) - 1

StayIdle ==
    /\ ~Sending
    /\ line' = [line EXCEPT !.gap = IF @ < MinGap THEN @ + 1 ELSE @]
    /\ UNCHANGED used

StartFrame ==
    /\ ~Sending /\ line.gap = MinGap /\ used.frames < MaxFrames
    /\ used' = [used EXCEPT !.frames = @ + 1]
    /\ \E k \in Kinds :
           line' = [frame |-> Frame(used'.frames, k), at |-> -1 - k.preamble, gap |-> 0]

Continue ==
    /\ Sending /\ ~LastByte
    /\ line' = [line EXCEPT !.at = @ + 1]
    /\ UNCHANGED used

EndFrame ==
    /\ Sending /\ LastByte
    /\ line' = [frame |-> NoFrame, at |-> 0, gap |-> 0]
    /\ UNCHANGED used

CutFrame ==
    /\ Sending /\ ~LastByte /\ used.cuts < MaxCuts
    /\ line' = [frame |-> NoFrame, at |-> 0, gap |-> 0]
    /\ used' = [used EXCEPT !.cuts = @ + 1]

-----------------------------------------------------------------------------
\* eth_udp_rx_gmii.
Rise == dly[1].v /\ ~dly[2].v

\* The fields collected in h, after the byte at the end of the delay line.
Collect(h, at) ==
    IF dly[2].at = at /\ (rx.cnt = 0 \/ h = dly[2].frame) THEN dly[2].frame ELSE NoFrame

HdrNext ==
    [eth  |-> IF rx.state = "ETH" THEN Collect(hdr.eth, rx.cnt) ELSE hdr.eth,
     ip   |-> IF rx.state = "IP" THEN Collect(hdr.ip, EthLen + rx.cnt) ELSE hdr.ip,
     port |-> IF rx.state # "UDP" \/ rx.cnt # PortByte THEN hdr.port
              ELSE IF dly[2].at = EthLen + IpLen + PortByte THEN dly[2].frame ELSE NoFrame]

EthOk  == hdr.eth # NoFrame /\ hdr.eth.kind.to # "mac"
IpOk   == hdr.ip # NoFrame /\ hdr.ip.kind.to # "ip"
PortOk == hdr.port # NoFrame /\ hdr.port.kind.to # "port"

\* rx_data_length; a payload of no bytes makes the end of data wrap.
DataLength == hdr.ip.kind.len
LastDataUnwrapped == rx.cnt = DataLength - 1
LastData == rx.cnt = (DataLength - 1) % LengthMod
LastDrop == rx.cnt = MinPayload - 1 - DataLength

Go(state) == [state |-> state, cnt |-> 0]
Count(mod) == [rx EXCEPT !.cnt = (@ + 1) % mod]

PreambleNextSwapped ==
    IF rx.cnt >= MaxPreamble THEN Go("IDLE")
    ELSE IF IsSfd(dly[2]) /\ rx.cnt >= MinPreamble THEN Go("ETH")
    ELSE [rx EXCEPT !.cnt = IF IsPreamble(dly[2]) THEN @ + 1 ELSE 0]

\* A frame that is not for this node ends in IDLE, and the rest of it is not looked at.
PreambleNext ==
    IF IsSfd(dly[2]) /\ rx.cnt >= MinPreamble THEN Go("ETH")
    ELSE IF rx.cnt >= MaxPreamble THEN Go("IDLE")
    ELSE [rx EXCEPT !.cnt = IF IsPreamble(dly[2]) THEN @ + 1 ELSE 0]

RxNext ==
    CASE rx.state = "IDLE"     -> IF Rise THEN Go("PREAMBLE") ELSE rx
      [] rx.state = "PREAMBLE" -> PreambleNext
      [] rx.state = "ETH" -> IF rx.cnt = EthLen - 1 THEN Go("IP") ELSE Count(EthLen)
      [] rx.state = "IP"  -> IF rx.cnt = 2 /\ ~EthOk THEN Go("IDLE")
                             ELSE IF rx.cnt = IpLen - 1 THEN Go("UDP") ELSE Count(IpLen)
      [] rx.state = "UDP" -> IF \/ rx.cnt = 2 /\ ~IpOk
                                \/ rx.cnt = UdpLen - 1 /\ ~PortOk THEN Go("IDLE")
                             ELSE IF rx.cnt = UdpLen - 1 THEN Go("DATA") ELSE Count(UdpLen)
      [] rx.state = "DATA" -> IF ~LastData THEN Count(LengthMod)
                              ELSE Go(IF DataLength < MinPayload THEN "DROP" ELSE "CRC")
      [] rx.state = "DROP"  -> IF LastDrop THEN Go("CRC") ELSE Count(DropMod)
      [] rx.state = "CRC"   -> IF dly[2].v THEN rx ELSE Go("CHECK")
      [] rx.state = "CHECK" -> Go("IDLE")

\* crc32_d8: the sum of the bytes of a frame from its first on, NoSum when it is anything else.
Add(sum, b) ==
    IF b.v /\ b.at = sum.next /\ b.at >= 0 /\ (b.at = 0 \/ sum.frame = b.frame)
    THEN [frame |-> b.frame, next |-> b.at + 1] ELSE NoSum

CrcNext ==
    [init |-> Rise,
     en   |-> rx.state \notin {"IDLE", "PREAMBLE"} /\ dly[2].v,
     byte |-> dly[2],
     sum  |-> IF crc.init THEN Fresh ELSE IF crc.en THEN Add(crc.sum, crc.byte) ELSE crc.sum]

CrcOk ==
    LET f == crc.sum.frame IN f # NoFrame /\ f.kind.good /\ crc.sum.next = Total(f)

ErrorOnOverflowOnly == FALSE
Error == rx.state = "CHECK" /\ ~CrcOk

OutNext ==
    [valid |-> rx.state = "DATA",
     byte  |-> IF rx.state = "DATA" THEN dly[2] ELSE Idle,
     done  |-> rx.state = "CHECK",
     error |-> Error]

-----------------------------------------------------------------------------
\* udp_cmd_packet_parser.
BufNext ==
    IF out.done THEN <<>>
    ELSE IF out.valid /\ Len(buf) < CmdLen THEN Append(buf, out.byte) ELSE buf

Payload(f) == [i \in 1..CmdLen |-> Byte(f, PayloadAt + i - 1)]
IsWhole(bytes) ==
    /\ Len(bytes) = CmdLen /\ bytes[1].frame # NoFrame /\ bytes = Payload(bytes[1].frame)
    /\ LET k == bytes[1].frame.kind IN k.to = "us" /\ k.good /\ k.len = CmdLen

\* The XOR of other bytes may happen to be right.
XorRight == {x \in BOOLEAN : IsWhole(buf) => x}
Complete == out.done /\ ~out.error /\ DataLength = CmdLen

Parse ==
    \E right \in XorRight :
        /\ cmd' = IF Complete /\ right THEN [valid |-> TRUE, bytes |-> buf] ELSE NoCmd
        /\ latest' = IF cmd'.valid /\ buf # <<>> THEN buf[1].frame.n ELSE latest

-----------------------------------------------------------------------------
\* One clock of rx_clk125m.
Line == StayIdle \/ StartFrame \/ Continue \/ EndFrame \/ CutFrame

Listening == rx.state \in {"IDLE", "PREAMBLE"}
Cut == used'.cuts # used.cuts
Starts == used'.frames # used.frames
AwaitedCommand(k) ==
    /\ k.to = "us" /\ k.good /\ k.len = CmdLen
    /\ k.preamble \in MinPreamble..MaxPreamble

Observe ==
    /\ disturbed' = (\/ Cut
                     \/ Starts /\ line'.frame.kind.len = 0
                     \/ disturbed /\ ~(Listening /\ ~Sending /\ ~dly[1].v /\ ~dly[2].v))
    /\ owed' = IF Starts THEN AwaitedCommand(line'.frame.kind) /\ ~disturbed
               ELSE owed /\ ~Cut /\ ~cmd'.valid

Tick ==
    /\ Line
    /\ dly' = <<LineByte, dly[1]>>
    /\ rx' = RxNext /\ hdr' = HdrNext /\ crc' = CrcNext /\ out' = OutNext
    /\ buf' = BufNext /\ Parse
    /\ Observe

\* rst_rx_n, which the PLL or the button may pull at any time; dly has no reset, but the
\* input register has one, and the reset is long.
Reset ==
    /\ used.resets < MaxResets /\ used' = [used EXCEPT !.resets = @ + 1]
    /\ dly' = <<Idle, Idle>>
    /\ rx' = ResetRx /\ hdr' = ResetHdr /\ crc' = ResetCrc /\ out' = ResetOut
    /\ buf' = <<>> /\ cmd' = NoCmd
    /\ owed' = FALSE
    /\ UNCHANGED <<line, latest, disturbed>>

Next == Tick \/ Reset
Spec == Init /\ [][Next]_vars
FairSpec == Spec /\ WF_vars(Tick)   \* rx_clk125m keeps running

-----------------------------------------------------------------------------
RealFrames == [n : 1..MaxFrames, kind : Kinds]
AnyFrame == {NoFrame} \cup RealFrames
AnyByte == {Idle} \cup [v : {TRUE}, frame : RealFrames, at : Int]

\* Every register holds a value it can hold in the hardware.
TypeOK ==
    /\ line \in [frame : AnyFrame, at : Int, gap : 0..MinGap]
    /\ dly \in AnyByte \X AnyByte
    /\ rx \in [state : {"IDLE", "PREAMBLE", "ETH", "IP", "UDP", "DATA", "DROP", "CRC", "CHECK"},
              cnt : Nat]
    /\ hdr \in [eth : AnyFrame, ip : AnyFrame, port : AnyFrame]
    /\ crc \in [init : BOOLEAN, en : BOOLEAN, byte : AnyByte, sum : [frame : AnyFrame, next : Int]]
    /\ out \in [valid : BOOLEAN, byte : AnyByte, done : BOOLEAN, error : BOOLEAN]
    /\ buf \in Seq(AnyByte) /\ Len(buf) <= CmdLen
    /\ cmd \in [valid : BOOLEAN, bytes : Seq(AnyByte)]
    /\ used \in [frames : 0..MaxFrames, cuts : 0..MaxCuts, resets : 0..MaxResets]
    /\ latest \in 0..MaxFrames /\ {disturbed, owed} \subseteq BOOLEAN

\* A command is the payload of one undamaged frame to this node, whatever was cut off
\* or reset before it, and no frame gives two commands.
CommandIsOnePacket ==
    [][cmd'.valid => IsWhole(cmd'.bytes) /\ cmd'.bytes[1].frame.n > latest]_vars

\* An undamaged command to this node, with a preamble the receiver knows, is a command
\* before the next frame can start, unless a frame broke off, or had no payload, and the
\* receiver has not been back at an idle line since.
CommandHeard == line.gap = MinGap => ~owed

\* The receiver comes back from every frame, also from one that broke off or whose length
\* makes the end of data wrap.
ReceiverRecovers == ~Listening ~> Listening
==============================================================================
