--------------------------- MODULE UdpReceiveProofs ---------------------------
(***************************************************************************)
(* For every length of preambles, headers, payloads and frames that fits   *)
(* the counters, and any number of frames, cuts and resets: every command  *)
(* is the payload of one undamaged frame, no frame gives two, and a frame  *)
(* that nothing disturbed is not missed.                                   *)
(*                                                                         *)
(* The argument: what the CRC has summed is the beginning of one frame,    *)
(* and as long as bytes come the receiver is in step with it (InStep);     *)
(* when they stop before the end it drifts on, but then the sum is not the *)
(* frame and stays so (Drifted).                                           *)
(***************************************************************************)
EXTENDS UdpReceive, TLAPS, SequenceTheorems

Active == ~Listening

\* The sum and the buffer with the byte that is still in a register on its way there.
Summed ==
    IF crc.init THEN Fresh ELSE IF crc.en THEN Add(crc.sum, crc.byte) ELSE crc.sum
Gathered == BufNext

First(f, n) == [i \in 1..n |-> Byte(f, PayloadAt + i - 1)]
Part(f, n) == First(f, IF n < CmdLen THEN n ELSE CmdLen)

\* The receiver has taken the first k bytes of f, and no other, and expects byte k.
InStep(f, k) ==
    /\ rx.state = "ETH" => rx.cnt < EthLen /\ k = rx.cnt /\ (k > 0 => hdr.eth = f)
    /\ rx.state = "IP" =>
         /\ rx.cnt < IpLen /\ k = EthLen + rx.cnt /\ hdr.eth = f
         /\ (rx.cnt > 0 => hdr.ip = f) /\ (rx.cnt > 2 => f.kind.to # "mac")
    /\ rx.state = "UDP" =>
         /\ rx.cnt < UdpLen /\ k = EthLen + IpLen + rx.cnt /\ hdr.ip = f /\ f.kind.to # "mac"
         /\ (rx.cnt > 2 => f.kind.to # "ip") /\ (rx.cnt > PortByte => hdr.port = f)
    /\ rx.state \in {"DATA", "DROP", "CRC"} => hdr.ip = f /\ f.kind.to = "us"
    /\ rx.state = "DATA" =>
         /\ k = PayloadAt + rx.cnt /\ (f.kind.len > 0 => rx.cnt < f.kind.len)
         /\ Gathered = Part(f, rx.cnt)
    /\ rx.state = "DROP" => k = PayloadAt + f.kind.len + rx.cnt /\ rx.cnt < MinPayload - f.kind.len
    /\ rx.state \in {"DROP", "CRC"} => (f.kind.len = CmdLen => Gathered = Payload(f))

\* It has gone on without bytes after a frame that broke off, or whose length is nothing.
Drifted(f, k) ==
    /\ ~dly[2].v
    /\ k < Total(f) \/ (f.kind.len = 0 /\ hdr.ip = f /\ rx.state \in {"DATA", "DROP", "CRC"})

AtStart == rx.state = "ETH" /\ rx.cnt = 0

SumInv ==
    /\ rx.state = "ETH" => rx.cnt < EthLen
    /\ rx.state = "PREAMBLE" \/ AtStart => Summed = Fresh
    /\ Summed.next > 0 => Summed.frame \in RealFrames
    /\ Active /\ Summed.next = 0 /\ ~AtStart /\ dly[2].v => dly[2].at < 0
    /\ Active /\ rx.state # "CHECK" /\ Summed.next > 0 =>
           InStep(Summed.frame, Summed.next) \/ Drifted(Summed.frame, Summed.next)
    /\ rx.state = "CHECK" /\ CrcOk /\ DataLength = CmdLen =>
           IsWhole(Gathered) /\ Gathered[1].frame = crc.sum.frame
    /\ Complete => IsWhole(buf)
    /\ rx.state \in {"IDLE", "PREAMBLE", "ETH", "IP", "UDP"} => Gathered = <<>>

\* The bytes in the delay line and on the line.
LineInv ==
    /\ dly[1].v /\ dly[2].v => dly[1] = Byte(dly[2].frame, dly[2].at + 1)
    /\ dly[1].v /\ Sending => line.frame = dly[1].frame /\ line.at = dly[1].at + 1
    /\ Sending => line.at < Total(line.frame) /\ line.frame.n = used.frames /\ line.gap = 0
    /\ \A i \in {1, 2} : dly[i].v => /\ dly[i].at < Total(dly[i].frame)
                                     /\ dly[i].frame.n <= used.frames
    /\ dly[1].v /\ ~Sending => line.gap = 0
    /\ dly[2].v /\ ~dly[1].v => ~Sending /\ line.gap = 1
    /\ ~Sending /\ line.gap > 0 => ~dly[1].v
    /\ ~Sending /\ line.gap > 1 => ~dly[2].v
    /\ ~dly[1].v /\ Sending /\ rx.state # "IDLE" => line.at < 0
    /\ ~dly[2].v /\ dly[1].v /\ rx.state # "IDLE" => dly[1].at < 0

\* Nothing of frame n, or of an older one, is still to come.
Past(n) == (Sending => line.frame.n > n) /\ \A i \in {1, 2} : dly[i].v => dly[i].frame.n > n

Recent(n) == Past(n) /\ latest < n /\ n <= used.frames

NewInv ==
    /\ Past(latest) /\ latest <= used.frames
    /\ out.done => rx.state = "IDLE"
    /\ Summed.next > 0 =>
         LET f == Summed.frame IN
         /\ f.n <= used.frames
         /\ Sending => line.frame.n > f.n \/ (line.frame = f /\ line.at >= Summed.next)
         /\ \A i \in {1, 2} : dly[i].v =>
                dly[i].frame.n > f.n \/ (dly[i].frame = f /\ dly[i].at >= Summed.next)
         /\ Active => latest < f.n
    /\ rx.state = "CHECK" /\ CrcOk => Recent(crc.sum.frame.n)
    /\ Complete => Recent(buf[1].frame.n)

\* Without a disturbance the receiver keeps up with the frame and ends with it.
KeptUp ==
    \/ /\ dly[2].v /\ dly[2].at >= 0 /\ rx.state # "CHECK" /\ dly[2].frame.kind.len > 0
       /\ Summed = IF dly[2].at = 0 THEN Fresh ELSE [frame |-> dly[2].frame, next |-> dly[2].at]
       /\ dly[2].at = 0 => AtStart
    \/ /\ ~dly[2].v /\ ~Sending
       /\ (rx.state = "CRC" /\ line.gap = 2) \/ (rx.state = "CHECK" /\ line.gap = 3)
CalmInv ==
    /\ owed => ~disturbed
    /\ ~disturbed /\ Active => KeptUp
    /\ ~disturbed =>
         /\ Sending => line.frame.kind.len > 0
         /\ \A i \in {1, 2} : dly[i].v => dly[i].frame.kind.len > 0
         /\ ~Sending /\ dly[1].v => dly[1].at = Total(dly[1].frame) - 1
         /\ ~dly[1].v /\ dly[2].v => dly[2].at = Total(dly[2].frame) - 1
    /\ ~Sending /\ line.gap > 2 /\ rx.state = "PREAMBLE" => rx.cnt = 0

Ready == rx.state = "IDLE" \/ (rx.state = "PREAMBLE" /\ rx.cnt = 0)
Begin(f) == Byte(f, -1 - f.kind.preamble)
Done(f) == [frame |-> f, next |-> Total(f)]

Stage(f) ==
    \/ /\ Sending /\ line.frame = f /\ line.at = -1 - f.kind.preamble
       /\ ~dly[1].v /\ ~dly[2].v /\ Ready
    \/ dly[1] = Begin(f) /\ ~dly[2].v /\ Ready
    \/ /\ dly[2].v /\ dly[2].frame = f /\ dly[2].at < 0
       /\ rx.state = "PREAMBLE" /\ rx.cnt = dly[2].at + 1 + f.kind.preamble
    \/ dly[2].v /\ dly[2].frame = f /\ Active
    \/ ~dly[2].v /\ ~Sending /\ line.gap = 2 /\ rx.state = "CRC" /\ Summed = Done(f)
    \/ ~Sending /\ line.gap = 3 /\ rx.state = "CHECK" /\ crc.sum = Done(f) /\ hdr.ip = f
    \/ ~Sending /\ line.gap = 4 /\ out.done /\ ~out.error /\ hdr.ip = f
HeardInv ==
    owed => \E f \in RealFrames : AwaitedCommand(f.kind) /\ Stage(f)

-----------------------------------------------------------------------------
(***************************************************************************)
(* Types.                                                                  *)
(***************************************************************************)
States == {"IDLE", "PREAMBLE", "ETH", "IP", "UDP", "DATA", "DROP", "CRC", "CHECK"}

LEMMA Sizes ==
    /\ MinPreamble \in Nat \ {0} /\ MaxPreamble \in Nat \ {0} /\ EthLen \in Nat \ {0}
    /\ IpLen \in Nat \ {0} /\ UdpLen \in Nat \ {0} /\ PortByte \in Nat \ {0}
    /\ MinPayload \in Nat \ {0} /\ CmdLen \in Nat \ {0} /\ FcsLen \in Nat \ {0}
    /\ LengthMod \in Nat \ {0} /\ DropMod \in Nat \ {0} /\ MinGap \in Nat \ {0}
    /\ MaxPreamble >= MinPreamble /\ IpLen > 2 /\ UdpLen > PortByte + 1
    /\ LengthMod > CmdLen /\ LengthMod > MinPayload + FcsLen /\ DropMod >= MinPayload
    /\ MinGap > 6
    /\ PayloadAt \in Nat \ {0} /\ PayloadAt = EthLen + IpLen + UdpLen
<1>1. /\ MinPreamble \in Nat \ {0} /\ MaxPreamble \in Nat \ {0} /\ EthLen \in Nat \ {0}
      /\ IpLen \in Nat \ {0} /\ UdpLen \in Nat \ {0} /\ PortByte \in Nat \ {0}
      /\ MinPayload \in Nat \ {0} /\ CmdLen \in Nat \ {0} /\ FcsLen \in Nat \ {0}
      /\ LengthMod \in Nat \ {0} /\ DropMod \in Nat \ {0} /\ MinGap \in Nat \ {0}
  BY FormatAssumption
<1> QED BY <1>1, FormatAssumption DEF PayloadAt

LEMMA Bounds == MaxFrames \in Nat /\ MaxCuts \in Nat /\ MaxResets \in Nat
BY BoundsAssumption

LEMMA KindFacts ==
    \A k \in Kinds : /\ k.len \in 0..(LengthMod - 1) /\ k.preamble \in Nat
                     /\ k.to \in {"us", "mac", "ip", "port"} /\ k.good \in BOOLEAN
<1>1. \A l \in Lengths : l \in 0..(LengthMod - 1)
  BY FormatAssumption
<1>2. \A p \in Preambles : p \in Nat
  BY FormatAssumption
<1>3. CmdLen \in 0..(LengthMod - 1)
  BY Sizes
<1>4. MaxPreamble \in Nat /\ MinPreamble \in Nat
  BY Sizes
<1> QED BY <1>1, <1>2, <1>3, <1>4 DEF Kinds

LEMMA FrameFacts ==
    \A f \in RealFrames :
        /\ f # NoFrame /\ f.n \in 1..MaxFrames /\ f.kind \in Kinds
        /\ f.kind.len \in 0..(LengthMod - 1) /\ f.kind.preamble \in Nat
        /\ f.kind.to \in {"us", "mac", "ip", "port"}
        /\ Total(f) \in Nat /\ Total(f) >= PayloadAt + f.kind.len + FcsLen
        /\ Total(f) >= PayloadAt + MinPayload + FcsLen
        /\ f.kind.len < MinPayload => Total(f) = PayloadAt + MinPayload + FcsLen
<1> SUFFICES ASSUME NEW f \in RealFrames
             PROVE  /\ f # NoFrame /\ f.n \in 1..MaxFrames /\ f.kind \in Kinds
                    /\ f.kind.len \in 0..(LengthMod - 1) /\ f.kind.preamble \in Nat
                    /\ f.kind.to \in {"us", "mac", "ip", "port"}
                    /\ Total(f) \in Nat /\ Total(f) >= PayloadAt + f.kind.len + FcsLen
                    /\ Total(f) >= PayloadAt + MinPayload + FcsLen
                    /\ f.kind.len < MinPayload => Total(f) = PayloadAt + MinPayload + FcsLen
  OBVIOUS
<1>1. f.n \in 1..MaxFrames /\ f.kind \in Kinds
  BY DEF RealFrames
<1>2. f # NoFrame
  BY <1>1 DEF NoFrame
<1>3. f.kind.len \in 0..(LengthMod - 1) /\ f.kind.preamble \in Nat
      /\ f.kind.to \in {"us", "mac", "ip", "port"}
  BY <1>1, KindFacts
<1>4. f.kind.len \in Nat
  BY <1>3, Sizes
<1>5. /\ Total(f) \in Nat /\ Total(f) >= PayloadAt + f.kind.len + FcsLen
      /\ Total(f) >= PayloadAt + MinPayload + FcsLen
      /\ f.kind.len < MinPayload => Total(f) = PayloadAt + MinPayload + FcsLen
  BY <1>4, Sizes DEF Total
<1> QED BY <1>1, <1>2, <1>3, <1>5

LEMMA ByteFacts ==
    \A b \in AnyByte :
        /\ b.v \in BOOLEAN /\ b.frame \in AnyFrame /\ b.at \in Int
        /\ b.v => b.frame \in RealFrames /\ b = Byte(b.frame, b.at)
        /\ ~b.v => b = Idle
<1> SUFFICES ASSUME NEW b \in AnyByte
             PROVE  /\ b.v \in BOOLEAN /\ b.frame \in AnyFrame /\ b.at \in Int
                    /\ b.v => b.frame \in RealFrames /\ b = Byte(b.frame, b.at)
                    /\ ~b.v => b = Idle
  OBVIOUS
<1>1. CASE b = Idle
  BY <1>1, Sizes DEF Idle, AnyFrame
<1>2. CASE b \in [v : {TRUE}, frame : RealFrames, at : Int]
  BY <1>2 DEF Byte, AnyFrame
<1> QED BY <1>1, <1>2 DEF AnyByte

LEMMA MoreBytes ==
    /\ Idle \in AnyByte /\ ~Idle.v
    /\ \A f \in RealFrames, at \in Int :
           /\ Byte(f, at) \in AnyByte /\ Byte(f, at).v /\ Byte(f, at).frame = f
           /\ Byte(f, at).at = at
BY DEF Idle, Byte, AnyByte

LEMMA ModFacts ==
    \A a \in Nat, m \in Nat \ {0} : a % m \in Nat /\ a % m < m /\ (a < m => a % m = a)
OBVIOUS

\* The receiver, state by state.
LEMMA RxCases ==
    /\ rx.state = "IDLE" => RxNext = IF Rise THEN Go("PREAMBLE") ELSE rx
    /\ rx.state = "PREAMBLE" => RxNext = PreambleNext
    /\ rx.state = "ETH" => RxNext = IF rx.cnt = EthLen - 1 THEN Go("IP") ELSE Count(EthLen)
    /\ rx.state = "IP" => RxNext = IF rx.cnt = 2 /\ ~EthOk THEN Go("IDLE")
                                   ELSE IF rx.cnt = IpLen - 1 THEN Go("UDP") ELSE Count(IpLen)
    /\ rx.state = "UDP" => RxNext = IF \/ rx.cnt = 2 /\ ~IpOk
                                       \/ rx.cnt = UdpLen - 1 /\ ~PortOk THEN Go("IDLE")
                                    ELSE IF rx.cnt = UdpLen - 1 THEN Go("DATA") ELSE Count(UdpLen)
    /\ rx.state = "DATA" => RxNext = IF ~LastData THEN Count(LengthMod)
                                     ELSE Go(IF DataLength < MinPayload THEN "DROP" ELSE "CRC")
    /\ rx.state = "DROP" => RxNext = IF LastDrop THEN Go("CRC") ELSE Count(DropMod)
    /\ rx.state = "CRC" => RxNext = IF dly[2].v THEN rx ELSE Go("CHECK")
    /\ rx.state = "CHECK" => RxNext = Go("IDLE")
BY DEF RxNext

LEMMA RxFields ==
    /\ \A s : Go(s).state = s /\ Go(s).cnt = 0
    /\ rx \in [state : States, cnt : Nat] =>
           \A m : Count(m).state = rx.state /\ Count(m).cnt = (rx.cnt + 1) % m
BY DEF Go, Count, States

LEMMA RxType ==
    ASSUME rx \in [state : States, cnt : Nat]
    PROVE  RxNext \in [state : States, cnt : Nat]
<1> DEFINE T == [state : States, cnt : Nat]
<1>1. \A s \in States : Go(s) \in T
  BY DEF Go
<1>2. \A m \in Nat \ {0} : Count(m) \in T
  <2>1. \A m \in Nat \ {0} : (rx.cnt + 1) % m \in Nat
    BY ModFacts
  <2> QED BY <2>1 DEF Count
<1>3. PreambleNext \in T
  BY <1>1 DEF PreambleNext, States
<1>4. rx.state \in States
  OBVIOUS
<1>5. /\ "IDLE" \in States /\ "PREAMBLE" \in States /\ "IP" \in States /\ "UDP" \in States
      /\ "DATA" \in States /\ "DROP" \in States /\ "CRC" \in States /\ "CHECK" \in States
  BY DEF States
<1>6. /\ Count(EthLen) \in T /\ Count(IpLen) \in T /\ Count(UdpLen) \in T
      /\ Count(LengthMod) \in T /\ Count(DropMod) \in T
  BY <1>2, Sizes
<1> HIDE DEF T
<1>7. rx \in T
  BY DEF T
<1> QED BY <1>1, <1>3, <1>4, <1>5, <1>6, <1>7, RxCases DEF States, T

LEMMA LineType ==
    ASSUME TypeOK, Line
    PROVE  /\ line' \in [frame : AnyFrame, at : Int, gap : 0..MinGap]
           /\ used' \in [frames : 0..MaxFrames, cuts : 0..MaxCuts, resets : 0..MaxResets]
<1> DEFINE L == [frame : AnyFrame, at : Int, gap : 0..MinGap]
           U == [frames : 0..MaxFrames, cuts : 0..MaxCuts, resets : 0..MaxResets]
<1>1. line \in L /\ used \in U /\ NoFrame \in AnyFrame
  BY DEF TypeOK, AnyFrame
<1>2. CASE StayIdle
  BY <1>1, <1>2, Sizes DEF StayIdle
<1>3. CASE StartFrame
  <2>1. used' = [used EXCEPT !.frames = @ + 1] /\ used.frames < MaxFrames
    BY <1>3 DEF StartFrame
  <2>2. used'.frames = used.frames + 1 /\ used'.frames \in 1..MaxFrames /\ used' \in U
    BY <1>1, <2>1, Bounds
  <2>3. PICK k \in Kinds : line' = [frame |-> Frame(used'.frames, k), at |-> -1 - k.preamble,
                                    gap |-> 0]
    BY <1>3 DEF StartFrame
  <2>4. Frame(used'.frames, k) \in AnyFrame
    BY <2>2 DEF Frame, AnyFrame, RealFrames
  <2>5. -1 - k.preamble \in Int
    BY KindFacts
  <2> QED BY <2>2, <2>3, <2>4, <2>5, Sizes
<1>4. CASE Continue
  BY <1>1, <1>4 DEF Continue
<1>5. CASE EndFrame
  BY <1>1, <1>5, Sizes DEF EndFrame
<1>6. CASE CutFrame
  BY <1>1, <1>6, Sizes, Bounds DEF CutFrame
<1> QED BY <1>2, <1>3, <1>4, <1>5, <1>6 DEF Line

LEMMA LineByteType == TypeOK => LineByte \in AnyByte
<1> SUFFICES ASSUME TypeOK PROVE LineByte \in AnyByte
  OBVIOUS
<1>1. line.frame \in AnyFrame /\ line.at \in Int
  BY DEF TypeOK
<1> QED BY <1>1, MoreBytes DEF LineByte, Sending, AnyFrame

LEMMA DlyType ==
    ASSUME TypeOK
    PROVE  /\ dly[1] \in AnyByte /\ dly[2] \in AnyByte
           /\ \A i \in {1, 2} : dly[i] \in AnyByte
BY DEF TypeOK

LEMMA HdrType ==
    ASSUME TypeOK
    PROVE  HdrNext \in [eth : AnyFrame, ip : AnyFrame, port : AnyFrame]
<1>1. dly[2].frame \in AnyFrame /\ NoFrame \in AnyFrame
  BY DlyType, ByteFacts DEF AnyFrame
<1>2. \A h \in AnyFrame : \A at : Collect(h, at) \in AnyFrame
  BY <1>1 DEF Collect
<1> QED BY <1>1, <1>2 DEF HdrNext, TypeOK

Sums == [frame : AnyFrame, next : Int]

LEMMA AddType ==
    ASSUME NEW s \in Sums, NEW b \in AnyByte
    PROVE  Add(s, b) \in Sums
<1>1. b.frame \in AnyFrame /\ b.at + 1 \in Int /\ NoFrame \in AnyFrame
  BY ByteFacts DEF AnyFrame
<1> QED BY <1>1 DEF Add, NoSum, Sums

LEMMA CrcType ==
    ASSUME TypeOK
    PROVE  CrcNext \in [init : BOOLEAN, en : BOOLEAN, byte : AnyByte, sum : Sums]
<1>1. crc.sum \in Sums /\ crc.byte \in AnyByte
  BY DEF TypeOK, Sums
<1>2. Add(crc.sum, crc.byte) \in Sums /\ Fresh \in Sums
  BY <1>1, AddType DEF Fresh, Sums, AnyFrame
<1>3. Rise \in BOOLEAN /\ dly[2].v \in BOOLEAN
  BY DlyType, ByteFacts DEF Rise
<1>4. (rx.state \notin {"IDLE", "PREAMBLE"} /\ dly[2].v) \in BOOLEAN
  OBVIOUS
<1> QED BY <1>1, <1>2, <1>3, <1>4, DlyType DEF CrcNext

LEMMA BufType ==
    ASSUME TypeOK
    PROVE  BufNext \in Seq(AnyByte) /\ Len(BufNext) <= CmdLen
<1>1. buf \in Seq(AnyByte) /\ Len(buf) <= CmdLen /\ out.byte \in AnyByte
  BY DEF TypeOK
<1>2. CASE out.done
  BY <1>2, Sizes, EmptySeq DEF BufNext
<1>3. CASE ~out.done /\ out.valid /\ Len(buf) < CmdLen
  <2>1. BufNext = Append(buf, out.byte)
    BY <1>3 DEF BufNext
  <2>2. Append(buf, out.byte) \in Seq(AnyByte) /\ Len(Append(buf, out.byte)) = Len(buf) + 1
    BY <1>1, AppendProperties
  <2>3. Len(buf) \in Nat
    BY <1>1
  <2> QED BY <1>3, <2>1, <2>2, <2>3, Sizes
<1>4. CASE ~out.done /\ ~(out.valid /\ Len(buf) < CmdLen)
  BY <1>1, <1>4 DEF BufNext
<1> QED BY <1>2, <1>3, <1>4

LEMMA OutType ==
    ASSUME TypeOK
    PROVE  OutNext \in [valid : BOOLEAN, byte : AnyByte, done : BOOLEAN, error : BOOLEAN]
<1>1. Error \in BOOLEAN
  BY DEF Error
<1> QED BY <1>1, DlyType, MoreBytes DEF OutNext

LEMMA TypeNext ==
    ASSUME TypeOK, [Next]_vars
    PROVE  TypeOK'
<1>1. CASE Tick
  <2>1. /\ dly' = <<LineByte, dly[1]>>
        /\ rx' = RxNext /\ hdr' = HdrNext /\ crc' = CrcNext /\ out' = OutNext
        /\ buf' = BufNext /\ Parse /\ Observe /\ Line
    BY <1>1 DEF Tick
  <2>2. dly' \in AnyByte \X AnyByte
    BY <2>1, LineByteType, DlyType
  <2>3. rx' \in [state : States, cnt : Nat]
    BY <2>1, RxType DEF TypeOK, States
  <2>4. /\ cmd' \in [valid : BOOLEAN, bytes : Seq(AnyByte)] /\ latest' \in 0..MaxFrames
    <3>1. buf \in Seq(AnyByte) /\ latest \in 0..MaxFrames
      BY DEF TypeOK
    <3>2. <<>> \in Seq(AnyByte)
      BY EmptySeq
    <3>3. buf # <<>> => buf[1].frame \in AnyFrame
      <4>1. buf # <<>> => buf[1] \in AnyByte
        BY <3>1, EmptySeq
      <4> QED BY <4>1, ByteFacts
    <3>4. \A f \in AnyFrame : f.n \in 0..MaxFrames
      BY Bounds DEF AnyFrame, RealFrames, NoFrame
    <3> QED BY <2>1, <3>1, <3>2, <3>3, <3>4 DEF Parse, NoCmd
  <2>5. {disturbed', owed'} \subseteq BOOLEAN
    <3>1. {disturbed, owed} \subseteq BOOLEAN /\ cmd'.valid \in BOOLEAN
      BY <2>4 DEF TypeOK
    <3>2. disturbed' \in BOOLEAN
      BY <2>1, <3>1 DEF Observe
    <3>3. owed' \in BOOLEAN
      BY <2>1, <3>1 DEF Observe, AwaitedCommand
    <3> QED BY <3>2, <3>3
  <2> QED BY <2>1, <2>2, <2>3, <2>4, <2>5, LineType, HdrType, CrcType, OutType, BufType
      DEF TypeOK, Sums, States
<1>2. CASE Reset
  <2>1. /\ line' = line /\ latest' = latest /\ disturbed' = disturbed /\ owed' = FALSE
        /\ used' = [used EXCEPT !.resets = @ + 1] /\ used.resets < MaxResets
        /\ dly' = <<Idle, Idle>> /\ rx' = ResetRx /\ hdr' = ResetHdr /\ crc' = ResetCrc
        /\ out' = ResetOut /\ buf' = <<>> /\ cmd' = NoCmd
    BY <1>2 DEF Reset
  <2>2. used' \in [frames : 0..MaxFrames, cuts : 0..MaxCuts, resets : 0..MaxResets]
    <3>1. /\ used \in [frames : 0..MaxFrames, cuts : 0..MaxCuts, resets : 0..MaxResets]
          /\ used.resets \in 0..MaxResets
      BY DEF TypeOK
    <3>2. used.resets + 1 \in 0..MaxResets
      BY <2>1, <3>1, Bounds
    <3> QED BY <2>1, <3>1, <3>2
  <2>3. dly' \in AnyByte \X AnyByte /\ Idle \in AnyByte
    BY <2>1, MoreBytes
  <2>4. rx' \in [state : States, cnt : Nat] /\ hdr' \in [eth : AnyFrame, ip : AnyFrame, port : AnyFrame]
    BY <2>1 DEF ResetRx, ResetHdr, AnyFrame, States
  <2>5. crc' \in [init : BOOLEAN, en : BOOLEAN, byte : AnyByte, sum : Sums]
    BY <2>1, <2>3 DEF ResetCrc, Fresh, Sums, AnyFrame
  <2>6. out' \in [valid : BOOLEAN, byte : AnyByte, done : BOOLEAN, error : BOOLEAN]
    BY <2>1, <2>3 DEF ResetOut
  <2>7. /\ buf' \in Seq(AnyByte) /\ Len(buf') <= CmdLen
        /\ cmd' \in [valid : BOOLEAN, bytes : Seq(AnyByte)]
    BY <2>1, EmptySeq, Sizes DEF NoCmd
  <2> QED BY <2>1, <2>2, <2>3, <2>4, <2>5, <2>6, <2>7 DEF TypeOK, Sums, States
<1>3. CASE UNCHANGED vars
  BY <1>3 DEF vars, TypeOK
<1> QED BY <1>1, <1>2, <1>3 DEF Next

LEMMA InitType == Init => TypeOK
<1> SUFFICES ASSUME Init PROVE TypeOK
  OBVIOUS
<1>1. /\ Idle \in AnyByte /\ NoFrame \in AnyFrame
  BY MoreBytes DEF AnyFrame
<1>2. <<>> \in Seq(AnyByte) /\ Len(<<>>) = 0
  BY EmptySeq
<1>3. rx \in [state : States, cnt : Nat] /\ hdr \in [eth : AnyFrame, ip : AnyFrame, port : AnyFrame]
  BY <1>1 DEF Init, ResetRx, ResetHdr, States
<1>4. crc \in [init : BOOLEAN, en : BOOLEAN, byte : AnyByte, sum : Sums]
  BY <1>1 DEF Init, ResetCrc, Fresh, Sums
<1>5. out \in [valid : BOOLEAN, byte : AnyByte, done : BOOLEAN, error : BOOLEAN]
  BY <1>1 DEF Init, ResetOut
<1>6. cmd \in [valid : BOOLEAN, bytes : Seq(AnyByte)] /\ buf \in Seq(AnyByte) /\ Len(buf) <= CmdLen
  BY <1>2, Sizes DEF Init, NoCmd
<1>7. line \in [frame : AnyFrame, at : Int, gap : 0..MinGap] /\ dly \in AnyByte \X AnyByte
  BY <1>1, Sizes DEF Init
<1>8. used \in [frames : 0..MaxFrames, cuts : 0..MaxCuts, resets : 0..MaxResets]
      /\ latest \in 0..MaxFrames /\ {disturbed, owed} \subseteq BOOLEAN
  <2>1. 0 \in 0..MaxFrames /\ 0 \in 0..MaxCuts /\ 0 \in 0..MaxResets
    BY Bounds
  <2>2. used = [frames |-> 0, cuts |-> 0, resets |-> 0] /\ latest = 0
        /\ disturbed = FALSE /\ owed = FALSE
    BY DEF Init
  <2> QED BY <2>1, <2>2
<1> QED BY <1>3, <1>4, <1>5, <1>6, <1>7, <1>8 DEF TypeOK, Sums, States

\* The registers of the receive path keep their types.
THEOREM TypeCorrect == Spec => []TypeOK
BY InitType, TypeNext, PTL DEF Spec

-----------------------------------------------------------------------------
(***************************************************************************)
(* The line and the delay line.                                            *)
(***************************************************************************)
LEMMA LineMoves ==
    ASSUME TypeOK, Line
    PROVE  /\ Sending => /\ ~Starts /\ used'.frames = used.frames
                         /\ Sending' => /\ line'.frame = line.frame /\ line'.at = line.at + 1
                                        /\ line'.gap = line.gap /\ ~Cut
                                        /\ line.at # Total(line.frame) - 1
                         /\ ~Sending' => /\ line'.gap = 0
                                         /\ ~Cut => line.at = Total(line.frame) - 1
           /\ ~Sending =>
                /\ ~Cut
                /\ Sending' => /\ Starts /\ used'.frames = used.frames + 1
                               /\ line.gap = MinGap /\ line'.gap = 0
                               /\ line'.frame \in RealFrames /\ line'.frame.n = used'.frames
                               /\ line'.at = -1 - line'.frame.kind.preamble
                /\ ~Sending' => /\ ~Starts /\ used'.frames = used.frames
                                /\ line'.gap = IF line.gap < MinGap THEN line.gap + 1 ELSE line.gap
<1>1. used \in [frames : 0..MaxFrames, cuts : 0..MaxCuts, resets : 0..MaxResets]
      /\ line \in [frame : AnyFrame, at : Int, gap : 0..MinGap]
  BY DEF TypeOK
<1>2. CASE StayIdle
  BY <1>1, <1>2 DEF StayIdle, Sending, Starts, Cut
<1>3. CASE StartFrame
  <2>1. used' = [used EXCEPT !.frames = @ + 1] /\ used.frames < MaxFrames
        /\ ~Sending /\ line.gap = MinGap
    BY <1>3 DEF StartFrame
  <2>2. /\ used'.frames = used.frames + 1 /\ used'.frames \in 1..MaxFrames
        /\ used'.cuts = used.cuts
    BY <1>1, <2>1, Bounds
  <2>3. PICK k \in Kinds : line' = [frame |-> Frame(used'.frames, k), at |-> -1 - k.preamble,
                                    gap |-> 0]
    BY <1>3 DEF StartFrame
  <2>4. /\ line'.frame = [n |-> used'.frames, kind |-> k] /\ line'.at = -1 - k.preamble
        /\ line'.gap = 0
    BY <2>3 DEF Frame
  <2>5. line'.frame \in RealFrames /\ line'.frame.n = used'.frames /\ line'.frame.kind = k
    BY <2>2, <2>4 DEF RealFrames
  <2>6. Sending' /\ Starts /\ ~Cut
    BY <1>1, <2>2, <2>5, FrameFacts DEF Sending, Starts, Cut
  <2> QED BY <2>1, <2>2, <2>4, <2>5, <2>6
<1>4. CASE Continue
  BY <1>1, <1>4 DEF Continue, Sending, Starts, Cut, LastByte
<1>5. CASE EndFrame
  BY <1>1, <1>5 DEF EndFrame, Sending, Starts, Cut, LastByte
<1>6. CASE CutFrame
  BY <1>1, <1>6 DEF CutFrame, Sending, Starts, Cut, LastByte
<1> QED BY <1>2, <1>3, <1>4, <1>5, <1>6 DEF Line

\* A clock of the receiver, in terms of the byte at the end of the delay line.
LEMMA ClockMoves ==
    ASSUME TypeOK, Tick
    PROVE  /\ Line /\ rx' = RxNext /\ hdr' = HdrNext /\ buf' = Gathered /\ Parse /\ Observe
           /\ dly'[1] = LineByte /\ dly'[2] = dly[1]
           /\ LineByte.v <=> Sending
           /\ Sending => LineByte = Byte(line.frame, line.at) /\ line.frame \in RealFrames
           /\ crc'.sum = Summed
           /\ out'.done <=> rx.state = "CHECK"
           /\ out'.error <=> rx.state = "CHECK" /\ ~CrcOk
           /\ Rise <=> dly[1].v /\ ~dly[2].v
           /\ rx.state \in States /\ rx.cnt \in Nat
<1>1. /\ dly' = <<LineByte, dly[1]>> /\ crc' = CrcNext /\ out' = OutNext
      /\ Line /\ rx' = RxNext /\ hdr' = HdrNext /\ buf' = BufNext /\ Parse /\ Observe
  BY DEF Tick
<1>2. LineByte.v <=> Sending
  BY MoreBytes DEF LineByte, Byte
<1>3. Sending => LineByte = Byte(line.frame, line.at) /\ line.frame \in RealFrames
  BY DEF LineByte, Sending, TypeOK, AnyFrame
<1>4. crc'.sum = Summed
  BY <1>1 DEF CrcNext, Summed
<1>5. out'.done <=> rx.state = "CHECK"
  BY <1>1 DEF OutNext
<1>6. out'.error <=> rx.state = "CHECK" /\ ~CrcOk
  BY <1>1 DEF OutNext, Error
<1>7. rx.state \in States /\ rx.cnt \in Nat
  BY DEF TypeOK, States
<1> QED BY <1>1, <1>2, <1>3, <1>4, <1>5, <1>6, <1>7 DEF Gathered, Rise

LEMMA SumMoves ==
    ASSUME TypeOK, Tick
    PROVE  Summed' = IF Rise THEN Fresh
                     ELSE IF Active /\ dly[2].v THEN Add(Summed, dly[2]) ELSE Summed
<1>1. crc' = CrcNext
  BY DEF Tick
<1>2. /\ crc'.init = Rise /\ crc'.byte = dly[2] /\ crc'.sum = Summed
      /\ crc'.en = (Active /\ dly[2].v)
  BY <1>1 DEF CrcNext, Summed, Active, Listening
<1> QED BY <1>2 DEF Summed, Add

LEMMA BufMoves ==
    ASSUME TypeOK, Tick
    PROVE  /\ rx.state = "CHECK" => Gathered' = <<>>
           /\ rx.state = "DATA" =>
                  Gathered' = IF Len(Gathered) < CmdLen THEN Append(Gathered, dly[2]) ELSE Gathered
           /\ rx.state \notin {"DATA", "CHECK"} => Gathered' = Gathered
<1>1. out' = OutNext /\ buf' = Gathered
  BY DEF Tick, Gathered
<1>2. /\ out'.done <=> rx.state = "CHECK"
      /\ out'.valid <=> rx.state = "DATA"
      /\ rx.state = "DATA" => out'.byte = dly[2]
  BY <1>1 DEF OutNext
<1> QED BY <1>1, <1>2 DEF Gathered, BufNext

LEMMA SumType == TypeOK => Summed \in Sums
<1> SUFFICES ASSUME TypeOK PROVE Summed \in Sums
  OBVIOUS
<1>1. crc.sum \in Sums /\ crc.byte \in AnyByte
  BY DEF TypeOK, Sums
<1> QED BY <1>1, AddType DEF Summed, Fresh, Sums, AnyFrame

LEMMA AddFacts ==
    ASSUME NEW s \in Sums, NEW b \in AnyByte, b.v
    PROVE  /\ Add(s, b).next # -1 =>
                  /\ b.at = s.next /\ b.at >= 0 /\ (b.at = 0 \/ s.frame = b.frame)
                  /\ Add(s, b) = [frame |-> b.frame, next |-> b.at + 1]
           /\ Add(s, b).next = -1 \/ Add(s, b).next > 0
           /\ b.at = s.next /\ b.at >= 0 /\ (b.at = 0 \/ s.frame = b.frame) =>
                  Add(s, b) = [frame |-> b.frame, next |-> b.at + 1]
           /\ Add(s, b).next > 0 => Add(s, b).frame \in RealFrames
<1>1. b.at \in Int /\ s.next \in Int /\ b.frame \in RealFrames
  BY ByteFacts DEF Sums
<1> QED BY <1>1 DEF Add, NoSum

LEMMA LineNext ==
    ASSUME TypeOK, LineInv, Tick
    PROVE  LineInv'
<1> USE ClockMoves, LineMoves
<1>1. /\ dly[1] \in AnyByte /\ dly[2] \in AnyByte /\ line.at \in Int /\ line.gap \in 0..MinGap
      /\ used.frames \in Nat
  BY DlyType, Bounds DEF TypeOK
<1>2. Sending => /\ LineByte.frame = line.frame /\ LineByte.at = line.at
                 /\ Total(line.frame) \in Nat
  BY <1>1, MoreBytes, FrameFacts
<1>3. dly[1].v => /\ dly[1].frame \in RealFrames /\ dly[1].at \in Int
                  /\ dly[1] = Byte(dly[1].frame, dly[1].at)
  BY <1>1, ByteFacts
<1>4. (dly[1].v /\ dly[2].v => dly[1] = Byte(dly[2].frame, dly[2].at + 1))'
  BY <1>2, <1>3 DEF LineInv
<1>5. (dly[1].v /\ Sending => line.frame = dly[1].frame /\ line.at = dly[1].at + 1)'
  BY <1>2
<1>6. (Sending => line.at < Total(line.frame) /\ line.frame.n = used.frames /\ line.gap = 0)'
  <2>1. CASE Sending /\ Sending'
    BY <1>1, <1>2, <2>1 DEF LineInv
  <2>2. CASE ~Sending /\ Sending'
    <3>1. line'.frame \in RealFrames /\ line'.at = -1 - line'.frame.kind.preamble
          /\ line'.frame.n = used'.frames /\ line'.gap = 0
      BY <2>2
    <3>2. line'.frame.kind.preamble \in Nat /\ Total(line'.frame) \in Nat
      BY <3>1, FrameFacts
    <3> QED BY <3>1, <3>2
  <2> QED BY <2>1, <2>2
<1>7. used'.frames >= used.frames
  BY <1>1
<1>8. (dly[1].v => dly[1].at < Total(dly[1].frame) /\ dly[1].frame.n <= used.frames)'
  BY <1>1, <1>2, <1>7 DEF LineInv
<1>9. (dly[2].v => dly[2].at < Total(dly[2].frame) /\ dly[2].frame.n <= used.frames)'
  <2>1. dly[1].v => dly[1].at < Total(dly[1].frame) /\ dly[1].frame.n <= used.frames
    BY DEF LineInv
  <2>2. dly[1].v => dly[1].frame.n \in Nat
    BY <1>3, FrameFacts, Bounds
  <2> QED BY <1>1, <1>7, <2>1, <2>2
<1>10. (dly[1].v /\ ~Sending => line.gap = 0)'
  OBVIOUS
<1>11. (dly[2].v /\ ~dly[1].v => ~Sending /\ line.gap = 1)'
  <2> SUFFICES ASSUME dly[1].v, ~Sending PROVE ~Sending' /\ line'.gap = 1
    OBVIOUS
  <2>1. line.gap = 0
    BY DEF LineInv
  <2> QED BY <2>1, Sizes
<1>12. (~Sending /\ line.gap > 0 => ~dly[1].v)'
  OBVIOUS
<1>13. (~Sending /\ line.gap > 1 => ~dly[2].v)'
  <2> SUFFICES ASSUME ~Sending', line'.gap > 1 PROVE ~dly[1].v
    OBVIOUS
  <2>1. ~Sending
    OBVIOUS
  <2>2. line.gap > 0
    BY <1>1, <2>1, Sizes
  <2> QED BY <2>1, <2>2 DEF LineInv
<1>14. (~dly[1].v /\ Sending /\ rx.state # "IDLE" => line.at < 0)'
  <2> SUFFICES ASSUME ~Sending, Sending' PROVE line'.at < 0
    OBVIOUS
  <2>1. line'.frame \in RealFrames /\ line'.at = -1 - line'.frame.kind.preamble
    OBVIOUS
  <2>2. line'.frame.kind.preamble \in Nat
    BY <2>1, FrameFacts
  <2> QED BY <2>1, <2>2
<1>15. (~dly[2].v /\ dly[1].v /\ rx.state # "IDLE" => dly[1].at < 0)'
  <2> SUFFICES ASSUME ~dly[1].v, Sending, rx'.state # "IDLE" PROVE line.at < 0
    BY <1>2
  <2>1. rx.state # "IDLE"
    BY RxCases
  <2> QED BY <2>1 DEF LineInv
<1>16. (\A i \in {1, 2} : dly[i].v => /\ dly[i].at < Total(dly[i].frame)
                                      /\ dly[i].frame.n <= used.frames)'
  BY <1>8, <1>9
<1> QED BY <1>4, <1>5, <1>6, <1>10, <1>11, <1>12, <1>13, <1>14, <1>15, <1>16 DEF LineInv

-----------------------------------------------------------------------------
(***************************************************************************)
(* The receiver in step with a frame.                                      *)
(***************************************************************************)
LEMMA FirstFacts ==
    ASSUME NEW f \in RealFrames, NEW n \in Nat
    PROVE  /\ First(f, n) \in Seq(AnyByte) /\ Len(First(f, n)) = n
           /\ First(f, n + 1) = Append(First(f, n), Byte(f, PayloadAt + n))
           /\ First(f, 0) = << >>
<1>1. \A m \in Nat : First(f, m) \in Seq(AnyByte) /\ Len(First(f, m)) = m
  <2>1. \A i \in Nat : Byte(f, PayloadAt + i - 1) \in AnyByte
    BY MoreBytes, Sizes
  <2> QED BY <2>1 DEF First
<1>2. First(f, n + 1) = Append(First(f, n), Byte(f, PayloadAt + n))
  <2> DEFINE a == Append(First(f, n), Byte(f, PayloadAt + n))
  <2>1. Byte(f, PayloadAt + n) \in AnyByte
    BY MoreBytes, Sizes
  <2>2. /\ a \in Seq(AnyByte) /\ Len(a) = n + 1
        /\ \A i \in 1..n : a[i] = First(f, n)[i]
        /\ a[n + 1] = Byte(f, PayloadAt + n)
    BY <1>1, <2>1, AppendProperties
  <2>3. \A i \in 1..(n + 1) : a[i] = First(f, n + 1)[i]
    <3> SUFFICES ASSUME NEW i \in 1..(n + 1) PROVE a[i] = First(f, n + 1)[i]
      OBVIOUS
    <3>1. First(f, n + 1)[i] = Byte(f, PayloadAt + i - 1)
      BY DEF First
    <3>2. CASE i \in 1..n
      BY <2>2, <3>1, <3>2 DEF First
    <3>3. CASE i = n + 1
      <4>1. PayloadAt + i - 1 = PayloadAt + n
        BY <3>3, Sizes
      <4> QED BY <2>2, <3>1, <3>3, <4>1
    <3>4. i \in 1..n \/ i = n + 1
      OBVIOUS
    <3> QED BY <3>2, <3>3, <3>4
  <2>4. First(f, n + 1) \in Seq(AnyByte) /\ Len(First(f, n + 1)) = n + 1
    BY <1>1
  <2> HIDE DEF a
  <2>5. a = First(f, n + 1)
    BY <2>2, <2>3, <2>4, SeqEqual
  <2> QED BY <2>5 DEF a
<1>3. First(f, 0) = << >>
  <2>1. First(f, 0) \in Seq(AnyByte) /\ Len(First(f, 0)) = 0
    BY <1>1
  <2> QED BY <2>1, EmptySeq
<1> QED BY <1>1, <1>2, <1>3

LEMMA PartFacts ==
    ASSUME NEW f \in RealFrames, NEW n \in Nat
    PROVE  /\ Part(f, n + 1) = IF Len(Part(f, n)) < CmdLen
                               THEN Append(Part(f, n), Byte(f, PayloadAt + n)) ELSE Part(f, n)
           /\ Part(f, 0) = << >>
           /\ Part(f, CmdLen) = Payload(f)
<1>1. CmdLen \in Nat \ {0}
  BY Sizes
<1>2. Part(f, 0) = << >>
  BY <1>1, FirstFacts DEF Part
<1>3. Part(f, CmdLen) = Payload(f)
  BY <1>1 DEF Part, First, Payload
<1>4. CASE n < CmdLen
  <2>1. Part(f, n) = First(f, n) /\ Len(First(f, n)) = n
    BY <1>4, FirstFacts DEF Part
  <2>2. Part(f, n + 1) = First(f, n + 1)
    <3>1. CASE n + 1 < CmdLen
      BY <3>1 DEF Part
    <3>2. CASE n + 1 = CmdLen
      BY <3>2 DEF Part
    <3> QED BY <1>1, <1>4, <3>1, <3>2
  <2> QED BY <1>2, <1>3, <1>4, <2>1, <2>2, FirstFacts
<1>5. CASE ~(n < CmdLen)
  <2>1. Part(f, n) = First(f, CmdLen) /\ Part(f, n + 1) = First(f, CmdLen)
    BY <1>1, <1>5 DEF Part
  <2>2. Len(First(f, CmdLen)) = CmdLen
    BY <1>1, FirstFacts
  <2> QED BY <1>1, <1>2, <1>3, <2>1, <2>2
<1> QED BY <1>4, <1>5

LEMMA InStepNext ==
    ASSUME TypeOK, SumInv, Tick, NEW f \in RealFrames, NEW k \in Nat,
           Active, rx.state # "CHECK", InStep(f, k), dly[2] = Byte(f, k), k < Total(f)
    PROVE  \/ rx'.state = "IDLE" /\ f.kind.to # "us"
           \/ Active' /\ rx'.state # "CHECK" /\ InStep(f, k + 1)' /\ ~AtStart'
<1>1. /\ dly[2].v /\ dly[2].frame = f /\ dly[2].at = k
      /\ rx' = RxNext /\ hdr' = HdrNext /\ rx.state \in States /\ rx.cnt \in Nat
      /\ rx \in [state : States, cnt : Nat]
  BY ClockMoves, MoreBytes DEF TypeOK, States
<1>2. /\ \A s : Go(s).state = s /\ Go(s).cnt = 0
      /\ \A m : Count(m).state = rx.state /\ Count(m).cnt = (rx.cnt + 1) % m
  BY <1>1, RxFields
<1>3. /\ EthLen \in Nat \ {0} /\ IpLen \in Nat \ {0} /\ UdpLen \in Nat \ {0} /\ PortByte \in Nat \ {0}
      /\ IpLen > 2 /\ UdpLen > PortByte + 1 /\ PayloadAt = EthLen + IpLen + UdpLen
  BY Sizes
<1>4. f # NoFrame /\ f.kind.to \in {"us", "mac", "ip", "port"}
  BY FrameFacts
<1>5. \A m \in Nat \ {0} : rx.cnt + 1 < m => (rx.cnt + 1) % m = rx.cnt + 1
  BY <1>1, ModFacts
<1>6. /\ rx'.state = "IDLE" => ~Active' 
      /\ rx'.state \in States \ {"IDLE", "PREAMBLE"} => Active'
  BY DEF Active, Listening, States
<1>7. CASE rx.state = "ETH"
  <2>1. rx.cnt < EthLen /\ k = rx.cnt /\ (k > 0 => hdr.eth = f)
    BY <1>7 DEF InStep
  <2>2. hdr'.eth = f
    BY <1>1, <1>7, <2>1 DEF HdrNext, Collect
  <2>3. CASE rx.cnt = EthLen - 1
    <3>1. rx'.state = "IP" /\ rx'.cnt = 0
      BY <1>1, <1>2, <1>7, <2>3, RxCases
    <3>2. InStep(f, k + 1)'
      BY <1>3, <2>1, <2>2, <2>3, <3>1 DEF InStep
    <3> QED BY <1>6, <3>1, <3>2 DEF AtStart, States
  <2>4. CASE rx.cnt # EthLen - 1
    <3>1. rx'.state = "ETH" /\ rx'.cnt = rx.cnt + 1
      BY <1>1, <1>2, <1>3, <1>5, <1>7, <2>1, <2>4, RxCases
    <3>2. InStep(f, k + 1)'
      BY <1>1, <1>3, <2>1, <2>2, <2>4, <3>1 DEF InStep
    <3> QED BY <1>1, <1>6, <3>1, <3>2 DEF AtStart, States
  <2> QED BY <2>3, <2>4
<1>8. CASE rx.state = "IP"
  <2>1. /\ rx.cnt < IpLen /\ k = EthLen + rx.cnt /\ hdr.eth = f
        /\ (rx.cnt > 0 => hdr.ip = f) /\ (rx.cnt > 2 => f.kind.to # "mac")
    BY <1>8 DEF InStep
  <2>2. hdr'.eth = f /\ hdr'.ip = f
    BY <1>1, <1>8, <2>1 DEF HdrNext, Collect
  <2>3. EthOk <=> f.kind.to # "mac"
    BY <1>4, <2>1 DEF EthOk
  <2>4. CASE rx.cnt = 2 /\ ~EthOk
    <3>1. rx'.state = "IDLE"
      BY <1>1, <1>2, <1>8, <2>4, RxCases
    <3> QED BY <2>3, <2>4, <3>1
  <2>5. CASE ~(rx.cnt = 2 /\ ~EthOk) /\ rx.cnt = IpLen - 1
    <3>1. rx'.state = "UDP" /\ rx'.cnt = 0
      BY <1>1, <1>2, <1>8, <2>5, RxCases
    <3>2. f.kind.to # "mac"
      BY <1>1, <1>3, <2>1, <2>3, <2>5
    <3>3. InStep(f, k + 1)'
      BY <1>3, <2>1, <2>2, <2>5, <3>1, <3>2 DEF InStep
    <3> QED BY <1>6, <3>1, <3>3 DEF AtStart, States
  <2>6. CASE ~(rx.cnt = 2 /\ ~EthOk) /\ rx.cnt # IpLen - 1
    <3>1. rx'.state = "IP" /\ rx'.cnt = rx.cnt + 1
      BY <1>1, <1>2, <1>3, <1>5, <1>8, <2>1, <2>6, RxCases
    <3>2. rx'.cnt > 2 => f.kind.to # "mac"
      BY <1>1, <2>1, <2>3, <2>6, <3>1
    <3>3. InStep(f, k + 1)'
      BY <1>1, <1>3, <2>1, <2>2, <2>6, <3>1, <3>2 DEF InStep
    <3> QED BY <1>6, <3>1, <3>3 DEF AtStart, States
  <2> QED BY <2>4, <2>5, <2>6
<1>9. CASE rx.state = "UDP"
  <2>1. /\ rx.cnt < UdpLen /\ k = EthLen + IpLen + rx.cnt /\ hdr.ip = f /\ f.kind.to # "mac"
        /\ (rx.cnt > 2 => f.kind.to # "ip") /\ (rx.cnt > PortByte => hdr.port = f)
    BY <1>9 DEF InStep
  <2>2. hdr'.ip = f
    BY <1>1, <1>9, <2>1 DEF HdrNext
  <2>3. rx.cnt >= PortByte => hdr'.port = f
    <3>1. hdr'.port = IF rx.cnt # PortByte THEN hdr.port
                      ELSE IF k = EthLen + IpLen + PortByte THEN f ELSE NoFrame
      BY <1>1, <1>9 DEF HdrNext
    <3> QED BY <1>1, <1>3, <2>1, <3>1
  <2>4. /\ IpOk <=> f.kind.to # "ip"
        /\ rx.cnt = UdpLen - 1 => (PortOk <=> f.kind.to # "port")
    BY <1>1, <1>3, <1>4, <2>1 DEF IpOk, PortOk
  <2>5. CASE (rx.cnt = 2 /\ ~IpOk) \/ (rx.cnt = UdpLen - 1 /\ ~PortOk)
    <3>1. rx'.state = "IDLE"
      BY <1>1, <1>2, <1>9, <2>5, RxCases
    <3> QED BY <2>4, <2>5, <3>1
  <2>6. CASE ~((rx.cnt = 2 /\ ~IpOk) \/ (rx.cnt = UdpLen - 1 /\ ~PortOk)) /\ rx.cnt = UdpLen - 1
    <3>1. rx'.state = "DATA" /\ rx'.cnt = 0
      BY <1>1, <1>2, <1>9, <2>6, RxCases
    <3>2. f.kind.to = "us"
      BY <1>1, <1>3, <1>4, <2>1, <2>4, <2>6
    <3>3. Gathered' = Part(f, 0)
      <4>1. Gathered = << >>
        BY <1>9 DEF SumInv
      <4> QED BY <1>9, <4>1, BufMoves, PartFacts
    <3>4. k + 1 = PayloadAt
      BY <1>3, <2>1, <2>6
    <3>5. InStep(f, k + 1)'
      BY <1>3, <2>2, <3>1, <3>2, <3>3, <3>4 DEF InStep
    <3> QED BY <1>6, <3>1, <3>5 DEF AtStart, States
  <2>7. CASE ~((rx.cnt = 2 /\ ~IpOk) \/ (rx.cnt = UdpLen - 1 /\ ~PortOk)) /\ rx.cnt # UdpLen - 1
    <3>1. rx'.state = "UDP" /\ rx'.cnt = rx.cnt + 1
      <4>1. (rx.cnt + 1) % UdpLen = rx.cnt + 1
        BY <1>1, <1>3, <1>5, <2>1, <2>7
      <4>2. rx' = Count(UdpLen)
        BY <1>1, <1>9, <2>7, RxCases
      <4> QED BY <1>2, <1>9, <4>1, <4>2
    <3>2. rx'.cnt > 2 => f.kind.to # "ip"
      BY <1>1, <2>1, <2>4, <2>7, <3>1
    <3>3. InStep(f, k + 1)'
      BY <1>1, <1>3, <2>1, <2>2, <2>3, <2>7, <3>1, <3>2 DEF InStep
    <3> QED BY <1>6, <3>1, <3>3 DEF AtStart, States
  <2> QED BY <2>5, <2>6, <2>7
<1>10. CASE rx.state \in {"DATA", "DROP", "CRC"}
  <2>1. hdr.ip = f /\ f.kind.to = "us" /\ hdr'.ip = f
    BY <1>1, <1>10 DEF InStep, HdrNext
  <2>2. DataLength = f.kind.len
    BY <2>1 DEF DataLength
  <2>3. /\ f.kind.len \in 0..(LengthMod - 1) /\ Total(f) \in Nat
        /\ f.kind.len < MinPayload => Total(f) = PayloadAt + MinPayload + FcsLen
    BY FrameFacts
  <2>4. /\ CmdLen \in Nat \ {0} /\ MinPayload \in Nat \ {0} /\ FcsLen \in Nat \ {0}
        /\ LengthMod \in Nat \ {0} /\ DropMod \in Nat \ {0} /\ PayloadAt \in Nat \ {0}
        /\ LengthMod > MinPayload + FcsLen /\ DropMod >= MinPayload
    BY Sizes
  <2>5. CASE rx.state = "DATA"
    <3>1. /\ k = PayloadAt + rx.cnt /\ (f.kind.len > 0 => rx.cnt < f.kind.len)
          /\ Gathered = Part(f, rx.cnt)
      BY <2>5 DEF InStep
    <3>2. Gathered' = Part(f, rx.cnt + 1)
      <4>1. dly[2] = Byte(f, PayloadAt + rx.cnt) /\ rx.cnt \in Nat
        BY <1>1, <3>1
      <4>2. Part(f, rx.cnt + 1) = IF Len(Part(f, rx.cnt)) < CmdLen
                                  THEN Append(Part(f, rx.cnt), Byte(f, PayloadAt + rx.cnt))
                                  ELSE Part(f, rx.cnt)
        BY <4>1, PartFacts
      <4>3. Gathered' = IF Len(Gathered) < CmdLen THEN Append(Gathered, dly[2]) ELSE Gathered
        BY <2>5, BufMoves
      <4>4. Gathered = Part(f, rx.cnt)
        BY <3>1
      <4> HIDE DEF Gathered, Part
      <4> QED BY ONLY <4>1, <4>2, <4>3, <4>4
    <3>3. LastData <=> f.kind.len > 0 /\ rx.cnt = f.kind.len - 1
      <4>1. CASE f.kind.len > 0
        <5>1. f.kind.len - 1 \in Nat /\ f.kind.len - 1 < LengthMod
          BY <2>3, <2>4, <4>1
        <5>2. (f.kind.len - 1) % LengthMod = f.kind.len - 1
          BY <2>4, <5>1, ModFacts
        <5> QED BY <2>2, <4>1, <5>2 DEF LastData
      <4>2. CASE f.kind.len = 0
        <5>1. (-1) % LengthMod = LengthMod - 1
          BY <2>4
        <5>2. rx.cnt < MinPayload + FcsLen
          BY <1>1, <2>3, <2>4, <3>1, <4>2
        <5>3. rx.cnt # (f.kind.len - 1) % LengthMod
          <6>1. f.kind.len - 1 = -1
            BY <4>2
          <6>2. rx.cnt # LengthMod - 1
            BY <1>1, <2>4, <5>2
          <6> QED BY <5>1, <6>1, <6>2
        <5> QED BY <2>2, <4>2, <5>3 DEF LastData
      <4> QED BY <2>3, <4>1, <4>2
    <3>4. CASE ~LastData
      <4>1. rx.cnt + 1 < LengthMod
        BY <1>1, <2>3, <2>4, <3>1, <3>3, <3>4
      <4>2. rx'.state = "DATA" /\ rx'.cnt = rx.cnt + 1
        BY <1>1, <1>2, <1>5, <2>4, <2>5, <3>4, <4>1, RxCases
      <4>3. /\ k + 1 = PayloadAt + rx'.cnt
            /\ f.kind.len > 0 => rx'.cnt < f.kind.len
        BY <1>1, <2>3, <2>4, <3>1, <3>3, <3>4, <4>2
      <4>4. InStep(f, k + 1)'
        BY <2>1, <3>2, <4>2, <4>3 DEF InStep
      <4> QED BY <1>6, <4>2, <4>4 DEF AtStart, States
    <3>5. CASE LastData
      <4>1. rx'.state = (IF f.kind.len < MinPayload THEN "DROP" ELSE "CRC") /\ rx'.cnt = 0
        BY <1>1, <1>2, <2>2, <2>5, <3>5, RxCases
      <4>2. f.kind.len = CmdLen => Gathered' = Payload(f)
        <5>1. rx.cnt + 1 = f.kind.len
          BY <1>1, <2>3, <3>3, <3>5
        <5> QED BY <3>2, <5>1, PartFacts
      <4>3. k + 1 = PayloadAt + f.kind.len + 0 /\ (f.kind.len < MinPayload => 0 < MinPayload - f.kind.len)
        BY <1>1, <2>3, <2>4, <3>1, <3>3, <3>5
      <4>4. InStep(f, k + 1)'
        BY <2>1, <4>1, <4>2, <4>3 DEF InStep
      <4> QED BY <1>6, <4>1, <4>4 DEF AtStart, States
    <3> QED BY <3>4, <3>5
  <2>6. CASE rx.state = "DROP"
    <3>1. /\ k = PayloadAt + f.kind.len + rx.cnt /\ rx.cnt < MinPayload - f.kind.len
          /\ f.kind.len = CmdLen => Gathered = Payload(f)
      BY <2>6 DEF InStep
    <3>2. Gathered' = Gathered
      BY <2>6, BufMoves
    <3>3. CASE LastDrop
      <4>1. rx'.state = "CRC" /\ rx'.cnt = 0
        BY <1>1, <1>2, <2>6, <3>3, RxCases
      <4>2. InStep(f, k + 1)'
        BY <2>1, <3>1, <3>2, <4>1 DEF InStep
      <4> QED BY <1>6, <4>1, <4>2 DEF AtStart, States
    <3>4. CASE ~LastDrop
      <4>1. rx.cnt # MinPayload - 1 - f.kind.len
        BY <2>2, <3>4 DEF LastDrop
      <4>2. rx.cnt + 1 < DropMod /\ rx.cnt + 1 < MinPayload - f.kind.len
        BY <1>1, <2>3, <2>4, <3>1, <4>1
      <4>3. rx'.state = "DROP" /\ rx'.cnt = rx.cnt + 1
        BY <1>1, <1>2, <1>5, <2>4, <2>6, <3>4, <4>2, RxCases
      <4>4. k + 1 = PayloadAt + f.kind.len + rx'.cnt
        BY <1>1, <2>3, <2>4, <3>1, <4>3
      <4>5. InStep(f, k + 1)'
        BY <2>1, <3>1, <3>2, <4>2, <4>3, <4>4 DEF InStep
      <4> QED BY <1>6, <4>3, <4>5 DEF AtStart, States
    <3> QED BY <3>3, <3>4
  <2>7. CASE rx.state = "CRC"
    <3>1. rx' = rx /\ Gathered' = Gathered
      BY <1>1, <2>7, RxCases, BufMoves
    <3>2. InStep(f, k + 1)'
      BY <2>1, <2>7, <3>1 DEF InStep
    <3> QED BY <1>6, <2>7, <3>1, <3>2 DEF AtStart, States
  <2> QED BY <1>10, <2>5, <2>6, <2>7
<1>11. rx.state \in {"ETH", "IP", "UDP", "DATA", "DROP", "CRC"}
  BY <1>1 DEF Active, Listening, States
<1> QED BY <1>7, <1>8, <1>9, <1>10, <1>11

LEMMA RxSteps ==
    ASSUME TypeOK, Tick
    PROVE  /\ rx.state = "IDLE" => rx'.state = IF Rise THEN "PREAMBLE" ELSE "IDLE"
           /\ rx.state = "PREAMBLE" => /\ rx'.state \in {"IDLE", "PREAMBLE", "ETH"}
                                       /\ rx'.state = "ETH" => rx'.cnt = 0
           /\ rx.state = "ETH" => rx'.state \in {"ETH", "IP"}
           /\ rx.state = "IP" => rx'.state \in {"IDLE", "IP", "UDP"}
           /\ rx.state = "UDP" => rx'.state \in {"IDLE", "UDP", "DATA"}
           /\ rx.state = "DATA" => rx'.state \in {"DATA", "DROP", "CRC"}
           /\ rx.state = "DROP" => rx'.state \in {"DROP", "CRC"}
           /\ rx.state = "CRC" => rx'.state = IF dly[2].v THEN "CRC" ELSE "CHECK"
           /\ rx.state = "CHECK" => rx'.state = "IDLE"
<1>1. rx' = RxNext /\ rx \in [state : States, cnt : Nat]
  BY ClockMoves DEF TypeOK, States
<1>2. /\ \A s : Go(s).state = s /\ Go(s).cnt = 0
      /\ \A m : Count(m).state = rx.state
  BY <1>1, RxFields
<1>3. rx.state = "PREAMBLE" => /\ PreambleNext.state \in {"IDLE", "PREAMBLE", "ETH"}
                               /\ PreambleNext.state = "ETH" => PreambleNext.cnt = 0
  BY <1>1, <1>2 DEF PreambleNext
<1>4. rx.state = "DATA" => rx'.state \in {"DATA", "DROP", "CRC"}
  BY <1>1, <1>2, RxCases
<1>5. rx.state = "CRC" => rx'.state = IF dly[2].v THEN "CRC" ELSE "CHECK"
  BY <1>1, <1>2, RxCases
<1>6. rx.state = "UDP" => rx'.state \in {"IDLE", "UDP", "DATA"}
  BY <1>1, <1>2, RxCases
<1>7. rx.state = "IP" => rx'.state \in {"IDLE", "IP", "UDP"}
  BY <1>1, <1>2, RxCases
<1>8. rx.state = "PREAMBLE" => /\ rx'.state \in {"IDLE", "PREAMBLE", "ETH"}
                               /\ rx'.state = "ETH" => rx'.cnt = 0
  BY <1>1, <1>3, RxCases
<1>9. /\ rx.state = "IDLE" => rx'.state = IF Rise THEN "PREAMBLE" ELSE "IDLE"
      /\ rx.state = "ETH" => rx'.state \in {"ETH", "IP"}
      /\ rx.state = "DROP" => rx'.state \in {"DROP", "CRC"}
      /\ rx.state = "CHECK" => rx'.state = "IDLE"
  BY <1>1, <1>2, RxCases
<1> QED BY <1>4, <1>5, <1>6, <1>7, <1>8, <1>9

LEMMA BeforeTheEnd ==
    ASSUME TypeOK, NEW f \in RealFrames, NEW k \in Nat, InStep(f, k),
           Active, rx.state \notin {"CRC", "CHECK"}, rx.state # "DATA" \/ f.kind.len > 0
    PROVE  k + 1 < Total(f)
<1>1. /\ EthLen \in Nat /\ IpLen \in Nat /\ UdpLen \in Nat /\ FcsLen \in Nat \ {0}
      /\ MinPayload \in Nat /\ PayloadAt = EthLen + IpLen + UdpLen
  BY Sizes
<1>2. /\ f.kind.len \in Nat /\ Total(f) \in Nat
      /\ Total(f) >= PayloadAt + f.kind.len + FcsLen
      /\ Total(f) >= PayloadAt + MinPayload + FcsLen
  BY FrameFacts, Sizes
<1>3. rx.cnt \in Nat /\ rx.state \in States
  BY DEF TypeOK, States
<1>4. CASE rx.state = "ETH"
  <2>1. k < EthLen
    BY <1>4 DEF InStep
  <2> QED BY <1>1, <1>2, <2>1
<1>5. CASE rx.state = "IP"
  <2>1. rx.cnt < IpLen /\ k = EthLen + rx.cnt
    BY <1>5 DEF InStep
  <2> QED BY <1>1, <1>2, <1>3, <2>1
<1>6. CASE rx.state = "UDP"
  <2>1. rx.cnt < UdpLen /\ k = EthLen + IpLen + rx.cnt
    BY <1>6 DEF InStep
  <2> QED BY <1>1, <1>2, <1>3, <2>1
<1>7. CASE rx.state = "DATA"
  <2>1. k = PayloadAt + rx.cnt /\ rx.cnt < f.kind.len
    BY <1>7 DEF InStep
  <2> QED BY <1>1, <1>2, <1>3, <2>1
<1>8. CASE rx.state = "DROP"
  <2>1. k = PayloadAt + f.kind.len + rx.cnt /\ rx.cnt < MinPayload - f.kind.len
    BY <1>8 DEF InStep
  <2> QED BY <1>1, <1>2, <1>3, <2>1
<1> QED BY <1>3, <1>4, <1>5, <1>6, <1>7, <1>8 DEF Active, Listening, States

\* What the CRC has summed is what the receiver has taken.
LEMMA SumKept ==
    ASSUME TypeOK, LineInv, SumInv, Tick, Active', rx'.state # "CHECK", Summed'.next > 0,
           NEW f, NEW k, f = Summed'.frame, k = Summed'.next
    PROVE  InStep(f, k)' \/ Drifted(f, k)'
<1>1. /\ dly[1] \in AnyByte /\ dly[2] \in AnyByte /\ Summed \in Sums /\ Summed.next \in Int
      /\ rx.state \in States /\ rx.cnt \in Nat
  BY DlyType, SumType, ClockMoves DEF Sums
<1>2. ~Rise /\ Fresh.next = 0
  BY SumMoves DEF Fresh
<1>3. Active /\ rx.state # "CHECK"
  <2>1. rx.state # "PREAMBLE"
    BY <1>2, SumMoves DEF SumInv, Active, Listening
  <2>2. rx.state # "IDLE" /\ rx.state # "CHECK"
    BY <1>2, RxSteps DEF Active, Listening
  <2> QED BY <2>1, <2>2 DEF Active, Listening
<1>4. CASE dly[2].v
  <2>1. Summed' = Add(Summed, dly[2])
    BY <1>2, <1>3, <1>4, SumMoves
  <2>2. /\ dly[2].at = Summed.next /\ dly[2].at >= 0
        /\ dly[2].at = 0 \/ Summed.frame = dly[2].frame
        /\ f = dly[2].frame /\ k = dly[2].at + 1
    BY <1>1, <1>4, <2>1, AddFacts
  <2>3. PICK j \in Nat : j = dly[2].at
    BY <1>1, <2>2
  <2>4. f \in RealFrames /\ dly[2] = Byte(f, j) /\ j < Total(f)
    BY <1>1, <1>4, <2>2, <2>3, ByteFacts DEF LineInv
  <2>5. InStep(f, j)
    <3>1. CASE j = 0
      <4>1. AtStart
        BY <1>3, <1>4, <2>2, <2>3, <3>1 DEF SumInv
      <4> QED BY <3>1, <4>1, Sizes DEF AtStart, InStep
    <3>2. CASE j > 0
      BY <1>3, <1>4, <2>2, <2>3, <3>2 DEF SumInv, Drifted
    <3> QED BY <3>1, <3>2
  <2>6. InStep(f, j + 1)'
    <3>1. rx'.state # "IDLE"
      BY DEF Active, Listening
    <3> QED BY <1>3, <2>4, <2>5, <3>1, InStepNext
  <2>7. k = j + 1
    BY <2>2, <2>3
  <2> QED BY <2>6, <2>7
<1>5. CASE ~dly[2].v
  <2>1. Summed' = Summed /\ f = Summed.frame /\ k = Summed.next /\ k > 0 /\ k \in Nat
    BY <1>1, <1>2, <1>5, SumMoves
  <2>2. ~dly'[2].v
    BY <1>2, <1>5, ClockMoves
  <2>3. f \in RealFrames
    BY <2>1 DEF SumInv
  <2>4. rx.state # "CRC"
    BY <1>5, RxSteps
  <2>5. hdr.ip = f /\ rx.state \in {"DATA", "DROP"} => hdr'.ip = f /\ rx'.state \in {"DATA", "DROP", "CRC"}
    BY RxSteps, ClockMoves DEF HdrNext
  <2>6. CASE InStep(f, k)
    <3>1. CASE rx.state = "DATA" /\ ~(f.kind.len > 0)
      <4>1. hdr.ip = f /\ f.kind.len = 0
        BY <2>3, <2>6, <3>1, FrameFacts, Sizes DEF InStep
      <4> QED BY <2>2, <2>5, <3>1, <4>1 DEF Drifted
    <3>2. CASE rx.state # "DATA" \/ f.kind.len > 0
      <4>1. k + 1 < Total(f) /\ Total(f) \in Nat
        BY <1>3, <2>1, <2>3, <2>4, <2>6, <3>2, BeforeTheEnd, FrameFacts
      <4> QED BY <2>1, <2>2, <4>1 DEF Drifted
    <3> QED BY <3>1, <3>2
  <2>7. CASE Drifted(f, k)
    <3>1. k < Total(f) \/ (f.kind.len = 0 /\ hdr.ip = f /\ rx.state \in {"DATA", "DROP"})
      BY <2>4, <2>7 DEF Drifted
    <3> QED BY <2>2, <2>5, <3>1 DEF Drifted
  <2> QED BY <1>3, <2>1, <2>6, <2>7 DEF SumInv
<1> QED BY <1>4, <1>5

LEMMA WholePayload ==
    ASSUME NEW f \in RealFrames, f.kind.to = "us", f.kind.good, f.kind.len = CmdLen
    PROVE  IsWhole(Payload(f)) /\ Payload(f)[1].frame = f
<1>1. Payload(f) = First(f, CmdLen)
  BY DEF Payload, First
<1>2. Len(Payload(f)) = CmdLen /\ CmdLen \in Nat \ {0}
  BY <1>1, FirstFacts, Sizes
<1>3. Payload(f)[1] = Byte(f, PayloadAt + 1 - 1)
  BY <1>2 DEF Payload
<1>4. Payload(f)[1].frame = f
  BY <1>3 DEF Byte
<1> QED BY <1>2, <1>4, FrameFacts DEF IsWhole

LEMMA SumNext ==
    ASSUME TypeOK, LineInv, SumInv, Tick
    PROVE  SumInv'
<1>1. /\ dly[1] \in AnyByte /\ dly[2] \in AnyByte /\ Summed \in Sums /\ Summed.next \in Int
      /\ rx.state \in States /\ rx.cnt \in Nat /\ Fresh.next = 0
  BY DlyType, SumType, ClockMoves DEF Sums, Fresh
<1>2. (rx.state = "ETH" => rx.cnt < EthLen)' /\ (AtStart' => rx.state = "PREAMBLE")
  <2> SUFFICES ASSUME rx'.state = "ETH"
               PROVE  rx'.cnt < EthLen /\ (rx'.cnt = 0 => rx.state = "PREAMBLE")
    BY DEF AtStart
  <2>1. rx.state \in {"PREAMBLE", "ETH"}
    BY <1>1, RxSteps DEF States
  <2>2. CASE rx.state = "PREAMBLE"
    <3>1. rx'.cnt = 0
      BY <2>2, RxSteps
    <3> QED BY <2>2, <3>1, Sizes
  <2>3. CASE rx.state = "ETH"
    <3>1. rx.cnt < EthLen /\ EthLen \in Nat \ {0}
      BY <2>3, Sizes DEF SumInv
    <3>2. rx.cnt # EthLen - 1 /\ rx' = Count(EthLen)
      <4>1. rx' = RxNext
        BY ClockMoves
      <4>2. Go("IP").state = "IP"
        BY DEF Go
      <4> QED BY <2>3, <4>1, <4>2, RxCases
    <3>3. rx'.cnt = (rx.cnt + 1) % EthLen
      BY <3>2, RxFields DEF TypeOK, States
    <3>4. rx'.cnt = rx.cnt + 1
      BY <1>1, <3>1, <3>2, <3>3, ModFacts
    <3> QED BY <1>1, <3>1, <3>2, <3>4
  <2> QED BY <2>1, <2>2, <2>3
<1>3. (rx.state = "PREAMBLE" \/ AtStart => Summed = Fresh)'
  <2> SUFFICES ASSUME rx'.state = "PREAMBLE" \/ AtStart' PROVE Summed' = Fresh
    OBVIOUS
  <2>1. rx.state = "PREAMBLE" \/ Rise
    BY <1>1, <1>2, RxSteps DEF States
  <2> QED BY <2>1, SumMoves DEF SumInv, Active, Listening
<1>4. (Summed.next > 0 => Summed.frame \in RealFrames)'
  BY <1>1, SumMoves, AddFacts DEF SumInv
<1>5. (Active /\ Summed.next = 0 /\ ~AtStart /\ dly[2].v => dly[2].at < 0)'
  <2> SUFFICES ASSUME Active', Summed'.next = 0, ~AtStart', dly[1].v PROVE dly[1].at < 0
    BY ClockMoves
  <2>1. rx.state # "IDLE" /\ rx.state # "PREAMBLE"
    BY RxSteps DEF Active, Listening, AtStart
  <2>2. CASE ~dly[2].v
    BY <2>1, <2>2 DEF LineInv
  <2>3. CASE dly[2].v
    <3>1. Summed' = Add(Summed, dly[2])
      BY <2>1, <2>3, SumMoves DEF Rise, Active, Listening
    <3> QED BY <1>1, <2>3, <3>1, AddFacts
  <2> QED BY <2>2, <2>3
<1>6. (Active /\ rx.state # "CHECK" /\ Summed.next > 0 =>
           InStep(Summed.frame, Summed.next) \/ Drifted(Summed.frame, Summed.next))'
  <2> SUFFICES ASSUME Active', rx'.state # "CHECK", Summed'.next > 0
               PROVE  (InStep(Summed.frame, Summed.next) \/ Drifted(Summed.frame, Summed.next))'
    OBVIOUS
  <2>1. PICK f, k : f = Summed'.frame /\ k = Summed'.next
    OBVIOUS
  <2>2. InStep(f, k)' \/ Drifted(f, k)'
    BY <2>1, SumKept
  <2> QED BY <2>1, <2>2 DEF InStep, Drifted
<1>7. (rx.state = "CHECK" /\ CrcOk /\ DataLength = CmdLen =>
           IsWhole(Gathered) /\ Gathered[1].frame = crc.sum.frame)'
  <2> SUFFICES ASSUME rx'.state = "CHECK", CrcOk', DataLength' = CmdLen
               PROVE  IsWhole(Gathered') /\ Gathered'[1].frame = crc'.sum.frame
    BY DEF IsWhole, Payload
  <2>1. rx.state = "CRC" /\ ~dly[2].v
    BY <1>1, RxSteps DEF States
  <2>2. PICK f : f = Summed.frame
    OBVIOUS
  <2>3. crc'.sum = Summed /\ f # NoFrame /\ f.kind.good /\ Summed.next = Total(f)
    <3>1. crc'.sum = Summed
      BY ClockMoves
    <3> QED BY <2>2, <3>1 DEF CrcOk
  <2>4. f \in RealFrames
    BY <1>1, <2>2, <2>3, SumType DEF Sums, AnyFrame
  <2>5. Total(f) > 0 /\ Active
    BY <2>1, <2>4, FrameFacts, Sizes DEF Active, Listening
  <2>6. hdr'.ip = hdr.ip /\ Gathered' = Gathered
    BY <2>1, ClockMoves, BufMoves DEF HdrNext
  <2>7. InStep(f, Total(f)) \/ Drifted(f, Total(f))
    BY <2>1, <2>2, <2>3, <2>5 DEF SumInv
  <2>8. ~Drifted(f, Total(f))
    <3>1. Total(f) \in Nat /\ CmdLen # 0
      BY <2>4, FrameFacts, Sizes
    <3> QED BY <2>6, <3>1 DEF Drifted, DataLength
  <2>9. InStep(f, Total(f))
    BY <2>7, <2>8
  <2>10. hdr.ip = f /\ f.kind.to = "us" /\ f.kind.len = CmdLen /\ Gathered = Payload(f)
    BY <2>1, <2>6, <2>9 DEF InStep, DataLength
  <2> QED BY <2>2, <2>3, <2>4, <2>6, <2>10, WholePayload
<1>8. (Complete => IsWhole(buf))'
  <2> SUFFICES ASSUME Complete' PROVE IsWhole(buf')
    BY DEF IsWhole, Payload
  <2>1. rx.state = "CHECK" /\ CrcOk /\ DataLength' = CmdLen
    BY ClockMoves DEF Complete
  <2>2. hdr'.ip = hdr.ip /\ buf' = Gathered
    BY <2>1, ClockMoves DEF HdrNext
  <2> QED BY <2>1, <2>2 DEF SumInv, DataLength
<1>9. (rx.state \in {"IDLE", "PREAMBLE", "ETH", "IP", "UDP"} => Gathered = <<>>)'
  BY <1>1, RxSteps, BufMoves DEF SumInv, States
<1> QED BY <1>2, <1>3, <1>4, <1>5, <1>6, <1>7, <1>8, <1>9 DEF SumInv

-----------------------------------------------------------------------------
(***************************************************************************)
(* Every command is of a frame newer than the last command's.              *)
(***************************************************************************)
LEMMA PastNext ==
    ASSUME TypeOK, Tick, NEW n \in Nat, n <= used.frames, Past(n)
    PROVE  Past(n)' /\ n <= used'.frames
<1>1. used.frames \in Nat /\ used'.frames \in Nat /\ used'.frames >= used.frames
  <2>1. used.frames \in Nat
    BY Bounds DEF TypeOK
  <2> QED BY <2>1, ClockMoves, LineMoves
<1>2. Sending' => line'.frame.n > n
  BY <1>1, ClockMoves, LineMoves DEF Past
<1>3. dly'[1].v => dly'[1].frame.n > n
  BY ClockMoves, MoreBytes DEF Past, Byte
<1>4. dly'[2].v => dly'[2].frame.n > n
  BY ClockMoves DEF Past
<1> QED BY <1>1, <1>2, <1>3, <1>4 DEF Past

LEMMA CompleteFrame ==
    ASSUME TypeOK, SumInv, Complete
    PROVE  IsWhole(buf) /\ buf # <<>> /\ buf[1].frame \in RealFrames /\ buf[1].frame.n \in Nat
<1>1. IsWhole(buf)
  BY DEF SumInv
<1>2. buf \in Seq(AnyByte) /\ CmdLen \in Nat \ {0}
  BY Sizes DEF TypeOK
<1>3. Len(buf) = CmdLen /\ buf[1].frame # NoFrame
  BY <1>1 DEF IsWhole
<1>4. buf[1] \in AnyByte /\ buf # <<>>
  BY <1>2, <1>3, EmptySeq
<1>5. buf[1].frame \in RealFrames
  BY <1>3, <1>4, ByteFacts DEF AnyFrame
<1> QED BY <1>1, <1>4, <1>5, FrameFacts, Bounds

LEMMA LatestMoves ==
    ASSUME TypeOK, SumInv, Tick
    PROVE  /\ latest' = latest \/ (Complete /\ latest' = buf[1].frame.n)
           /\ cmd'.valid => Complete /\ cmd'.bytes = buf /\ latest' = buf[1].frame.n
<1>1. PICK right \in XorRight :
          /\ cmd' = IF Complete /\ right THEN [valid |-> TRUE, bytes |-> buf] ELSE NoCmd
          /\ latest' = IF cmd'.valid /\ buf # <<>> THEN buf[1].frame.n ELSE latest
  BY DEF Tick, Parse
<1>2. cmd'.valid => Complete /\ cmd'.bytes = buf
  BY <1>1 DEF NoCmd
<1> QED BY <1>1, <1>2, CompleteFrame

LEMMA SumIsNew ==
    ASSUME TypeOK, LineInv, SumInv, NewInv, Tick, Summed'.next > 0,
           NEW f, NEW k, f = Summed'.frame, k = Summed'.next
    PROVE  /\ f.n <= used'.frames
           /\ Sending' => line'.frame.n > f.n \/ (line'.frame = f /\ line'.at >= k)
           /\ \A i \in {1, 2} : dly'[i].v =>
                  dly'[i].frame.n > f.n \/ (dly'[i].frame = f /\ dly'[i].at >= k)
           /\ Active' => latest' < f.n
<1>1. /\ dly[1] \in AnyByte /\ dly[2] \in AnyByte /\ Summed \in Sums /\ Summed.next \in Int
      /\ rx.state \in States /\ used.frames \in Nat /\ line.at \in Int /\ latest \in Nat
  BY DlyType, SumType, ClockMoves, Bounds DEF Sums, TypeOK
<1>2. ~Rise /\ Fresh.next = 0
  BY SumMoves DEF Fresh
<1>3. used'.frames >= used.frames /\ used'.frames \in Nat
  BY <1>1, ClockMoves, LineMoves
<1>4. Active' => Active /\ latest' = latest
  <2> SUFFICES ASSUME Active' PROVE Active /\ latest' = latest
    OBVIOUS
  <2>1. rx.state # "PREAMBLE"
    BY <1>2, SumMoves DEF SumInv, Active, Listening
  <2>2. rx.state # "IDLE"
    BY <1>2, RxSteps DEF Active, Listening
  <2>3. ~out.done
    BY <2>2 DEF NewInv
  <2> QED BY <2>1, <2>2, <2>3, LatestMoves DEF Active, Listening, Complete
<1>5. /\ dly'[1] = LineByte /\ dly'[2] = dly[1]
      /\ LineByte.v <=> Sending
      /\ Sending => LineByte.frame = line.frame /\ LineByte.at = line.at
  BY ClockMoves, MoreBytes, <1>1
<1>6. /\ Sending /\ Sending' => line'.frame = line.frame /\ line'.at = line.at + 1
      /\ ~Sending /\ Sending' => line'.frame.n = used.frames + 1
  BY ClockMoves, LineMoves
<1>7. CASE Active /\ dly[2].v
  <2>1. Summed' = Add(Summed, dly[2])
    BY <1>2, <1>7, SumMoves
  <2>2. f = dly[2].frame /\ k = dly[2].at + 1 /\ f \in RealFrames
    BY <1>1, <1>7, <2>1, AddFacts, ByteFacts
  <2>3. f.n <= used.frames /\ latest < f.n
    BY <1>7, <2>2 DEF LineInv, NewInv, Past
  <2>4. f.n \in Nat /\ dly[2].at \in Int
    BY <1>1, <2>2, FrameFacts, ByteFacts, Bounds
  <2>5. dly[1].v => dly[1].frame = f /\ dly[1].at = k
    BY <1>7, <2>2, <2>4, MoreBytes DEF LineInv
  <2>6. Sending => line.frame = f /\ line.at >= k
    BY <1>1, <1>7, <2>2, <2>4, <2>5 DEF LineInv
  <2>7. Sending' => line'.frame.n > f.n \/ (line'.frame = f /\ line'.at >= k)
    BY <1>1, <1>6, <2>2, <2>3, <2>4, <2>6
  <2>8. dly'[1].v => dly'[1].frame.n > f.n \/ (dly'[1].frame = f /\ dly'[1].at >= k)
    BY <1>5, <2>6
  <2>9. dly'[2].v => dly'[2].frame.n > f.n \/ (dly'[2].frame = f /\ dly'[2].at >= k)
    BY <1>5, <2>2, <2>4, <2>5
  <2> QED BY <1>1, <1>3, <1>4, <2>3, <2>4, <2>7, <2>8, <2>9
<1>8. CASE ~(Active /\ dly[2].v)
  <2>1. Summed' = Summed /\ f = Summed.frame /\ k = Summed.next /\ k > 0 /\ k \in Int
    BY <1>1, <1>2, <1>8, SumMoves
  <2>2. f \in RealFrames /\ f.n \in Nat
    BY <2>1, FrameFacts, Bounds DEF SumInv
  <2>3. /\ f.n <= used.frames
        /\ Sending => line.frame.n > f.n \/ (line.frame = f /\ line.at >= k)
        /\ dly[1].v => dly[1].frame.n > f.n \/ (dly[1].frame = f /\ dly[1].at >= k)
        /\ Active => latest < f.n
    BY <2>1 DEF NewInv
  <2>4. Sending' => line'.frame.n > f.n \/ (line'.frame = f /\ line'.at >= k)
    BY <1>1, <1>6, <2>1, <2>2, <2>3
  <2> QED BY <1>1, <1>3, <1>4, <1>5, <2>2, <2>3, <2>4
<1> QED BY <1>7, <1>8

LEMMA NewNext ==
    ASSUME TypeOK, LineInv, SumInv, NewInv, Tick
    PROVE  NewInv'
<1>1. latest \in Nat /\ rx.state \in States /\ used.frames \in Nat
  BY ClockMoves, Bounds DEF TypeOK
<1>2. Past(latest)' /\ latest' <= used'.frames
  <2>1. PICK n : n = latest'
    OBVIOUS
  <2>2. n \in Nat /\ n <= used.frames /\ Past(n)
    BY <1>1, <2>1, LatestMoves, CompleteFrame DEF NewInv, Recent
  <2>3. Past(n)' /\ n <= used'.frames
    BY <2>2, PastNext
  <2> QED BY <2>1, <2>3 DEF Past
<1>3. (out.done => rx.state = "IDLE")'
  BY ClockMoves, RxSteps
<1>4. (Summed.next > 0 =>
         LET f == Summed.frame IN
         /\ f.n <= used.frames
         /\ Sending => line.frame.n > f.n \/ (line.frame = f /\ line.at >= Summed.next)
         /\ \A i \in {1, 2} : dly[i].v =>
                dly[i].frame.n > f.n \/ (dly[i].frame = f /\ dly[i].at >= Summed.next)
         /\ Active => latest < f.n)'
  BY SumIsNew
<1>5. (rx.state = "CHECK" /\ CrcOk => Recent(crc.sum.frame.n))'
  <2> SUFFICES ASSUME rx'.state = "CHECK", CrcOk' PROVE Recent(crc.sum.frame.n)'
    OBVIOUS
  <2>1. rx.state = "CRC" /\ Active
    BY <1>1, RxSteps DEF States, Active, Listening
  <2>2. PICK f : f = Summed.frame
    OBVIOUS
  <2>3. crc'.sum = Summed
    BY ClockMoves
  <2>4. f # NoFrame /\ Summed.next = Total(f)
    BY <2>2, <2>3 DEF CrcOk
  <2>5. f \in RealFrames
    BY <2>2, <2>4, SumType DEF Sums, AnyFrame
  <2>6. f.n \in Nat /\ Total(f) \in Nat /\ Total(f) > 0
    BY <2>5, FrameFacts, Sizes, Bounds
  <2>7. /\ f.n <= used.frames /\ latest < f.n
        /\ Sending => line.frame.n > f.n \/ (line.frame = f /\ line.at >= Total(f))
        /\ \A i \in {1, 2} : dly[i].v =>
               dly[i].frame.n > f.n \/ (dly[i].frame = f /\ dly[i].at >= Total(f))
    BY <2>1, <2>2, <2>4, <2>6 DEF NewInv
  <2>8. Past(f.n)
    <3>1. Sending => line.at < Total(line.frame) /\ line.at \in Int
      BY DEF LineInv, TypeOK
    <3>2. \A i \in {1, 2} : dly[i].v => dly[i].at < Total(dly[i].frame) /\ dly[i].at \in Int
      BY DlyType, ByteFacts DEF LineInv
    <3> QED BY <2>6, <2>7, <3>1, <3>2 DEF Past
  <2>9. latest' = latest
    <3>1. ~out.done
      BY <2>1 DEF NewInv
    <3> QED BY <3>1, LatestMoves DEF Complete
  <2>10. PICK n : n = f.n
    OBVIOUS
  <2>11. Past(n)' /\ n <= used'.frames
    BY <2>6, <2>7, <2>8, <2>10, PastNext
  <2> QED BY <2>2, <2>3, <2>7, <2>9, <2>10, <2>11 DEF Recent, Past
<1>6. (Complete => Recent(buf[1].frame.n))'
  <2> SUFFICES ASSUME Complete' PROVE Recent(buf[1].frame.n)'
    OBVIOUS
  <2>1. rx.state = "CHECK" /\ CrcOk /\ DataLength' = CmdLen
    BY ClockMoves DEF Complete
  <2>2. hdr'.ip = hdr.ip /\ buf' = Gathered
    BY <2>1, ClockMoves DEF HdrNext
  <2>3. buf'[1].frame = crc.sum.frame
    BY <2>1, <2>2 DEF SumInv, DataLength
  <2>4. PICK n : n = crc.sum.frame.n
    OBVIOUS
  <2>5. Recent(n)
    BY <2>1, <2>4 DEF NewInv
  <2>6. n \in Nat
    <3>1. crc.sum.frame \in AnyFrame /\ crc.sum.frame # NoFrame
      BY <2>1 DEF TypeOK, CrcOk
    <3> QED BY <2>4, <3>1, FrameFacts, Bounds DEF AnyFrame
  <2>7. latest' = latest
    <3>1. ~out.done
      BY <2>1 DEF NewInv
    <3> QED BY <3>1, LatestMoves DEF Complete
  <2>8. Past(n)' /\ n <= used'.frames
    BY <2>5, <2>6, PastNext DEF Recent
  <2> QED BY <2>3, <2>4, <2>5, <2>7, <2>8 DEF Recent, Past
<1> QED BY <1>2, <1>3, <1>4, <1>5, <1>6 DEF NewInv

-----------------------------------------------------------------------------
(***************************************************************************)
(* Without a disturbance the receiver keeps up with the line.              *)
(***************************************************************************)
LEMMA InStepHere ==
    ASSUME TypeOK, SumInv, Active, dly[2].v, KeptUp,
           NEW f, f = dly[2].frame
    PROVE  /\ f \in RealFrames /\ dly[2].at \in Nat /\ rx.state # "CHECK"
           /\ f.kind.len > 0
           /\ InStep(f, dly[2].at)
           /\ dly[2].at = Summed.next
           /\ dly[2].at = 0 \/ Summed.frame = f
<1>1. /\ dly[2].at >= 0 /\ rx.state # "CHECK" /\ f.kind.len > 0
      /\ Summed = IF dly[2].at = 0 THEN Fresh ELSE [frame |-> dly[2].frame, next |-> dly[2].at]
      /\ dly[2].at = 0 => AtStart
  BY DEF KeptUp
<1>2. f \in RealFrames /\ dly[2].at \in Nat
  BY <1>1, DlyType, ByteFacts
<1>3. CASE dly[2].at = 0
  BY <1>1, <1>2, <1>3, Sizes DEF AtStart, InStep, Fresh
<1>4. CASE dly[2].at # 0
  <2>1. Summed.next = dly[2].at /\ Summed.frame = f /\ Summed.next > 0
    BY <1>1, <1>2, <1>4
  <2>2. InStep(f, dly[2].at)
    BY <1>1, <2>1 DEF SumInv, Drifted
  <2> QED BY <1>1, <1>2, <2>1, <2>2
<1> QED BY <1>3, <1>4

LEMMA KeptUpNext ==
    ASSUME TypeOK, LineInv, SumInv, CalmInv, Tick, ~disturbed, Active, dly[2].v,
           NEW f, f = dly[2].frame
    PROVE  /\ f \in RealFrames /\ rx'.state # "CHECK"
           /\ f.kind.to = "us" => Active'
           /\ dly[1].v => dly[1] = Byte(f, Summed'.next) /\ Summed' = [frame |-> f, next |-> dly[2].at + 1]
           /\ ~dly[1].v => /\ ~Sending /\ line.gap = 1 /\ dly[2].at = Total(f) - 1
                           /\ rx'.state = "CRC" /\ Summed' = Done(f)
<1>1. /\ f \in RealFrames /\ dly[2].at \in Nat /\ rx.state # "CHECK" /\ f.kind.len > 0
      /\ InStep(f, dly[2].at) /\ dly[2].at = Summed.next
      /\ dly[2].at = 0 \/ Summed.frame = f
  <2>1. KeptUp
    BY DEF CalmInv
  <2> QED BY <2>1, InStepHere
<1>2. Summed' = [frame |-> f, next |-> dly[2].at + 1]
  <2>1. Summed' = Add(Summed, dly[2])
    BY SumMoves, ClockMoves
  <2> QED BY <1>1, <2>1, DlyType, SumType, AddFacts
<1>3. rx'.state # "CHECK"
  BY <1>1, RxSteps, ClockMoves DEF Active, Listening, States
<1>4. PICK k \in Nat : k = dly[2].at
  BY <1>1
<1>5. dly[2] = Byte(f, k) /\ k < Total(f)
  BY <1>4, DlyType, ByteFacts DEF LineInv
<1>6. f.kind.to = "us" => Active'
  <2>1. \/ rx'.state = "IDLE" /\ f.kind.to # "us"
        \/ Active' /\ rx'.state # "CHECK" /\ InStep(f, k + 1)' /\ ~AtStart'
    BY <1>1, <1>4, <1>5, InStepNext
  <2> QED BY <2>1
<1>7. dly[1].v => dly[1] = Byte(f, Summed'.next)
  BY <1>2 DEF LineInv
<1>8. CASE dly[1].v
  BY <1>1, <1>2, <1>3, <1>6, <1>7, <1>8
<1>9. CASE ~dly[1].v
  <2>1. ~Sending /\ line.gap = 1 /\ k = Total(f) - 1
    BY <1>4, <1>9 DEF LineInv, CalmInv
  <2>2. Total(f) \in Nat
    BY <1>1, FrameFacts
  <2>3. rx.state = "CRC"
    <3>1. ~(k + 1 < Total(f))
      BY <2>1, <2>2
    <3> QED BY <1>1, <1>4, <3>1, BeforeTheEnd
  <2>4. rx'.state = "CRC"
    BY <2>3, RxSteps
  <2>5. Summed' = Done(f)
    BY <1>2, <1>4, <2>1, <2>2 DEF Done
  <2> QED BY <1>1, <1>3, <1>4, <1>6, <1>9, <2>1, <2>4, <2>5
<1> QED BY <1>8, <1>9

LEMMA PreambleSteps ==
    ASSUME TypeOK, Tick, rx.state = "PREAMBLE"
    PROVE  /\ ~dly[2].v => Ready'
           /\ rx'.state = "ETH" => IsSfd(dly[2])
           /\ dly[2].v /\ dly[2].at < -1 /\ rx.cnt < MaxPreamble =>
                  rx'.state = "PREAMBLE" /\ rx'.cnt = rx.cnt + 1
           /\ IsSfd(dly[2]) /\ rx.cnt >= MinPreamble => rx'.state = "ETH" /\ rx'.cnt = 0
<1>1. rx' = PreambleNext /\ rx \in [state : States, cnt : Nat] /\ dly[2].at \in Int
      /\ MaxPreamble \in Nat
  BY ClockMoves, RxCases, DlyType, ByteFacts, Sizes DEF TypeOK, States
<1>2. \A s : Go(s).state = s /\ Go(s).cnt = 0
  BY <1>1, RxFields
<1> QED BY <1>1, <1>2 DEF PreambleNext, IsSfd, IsPreamble, Ready

LEMMA Calmness ==
    ASSUME TypeOK, Tick
    PROVE  /\ ~disturbed' => /\ ~Cut
                             /\ Starts => line'.frame.kind.len # 0
                             /\ disturbed => Listening /\ ~Sending /\ ~dly[1].v /\ ~dly[2].v
           /\ owed' => \/ Starts /\ AwaitedCommand(line'.frame.kind) /\ ~disturbed
                       \/ ~Starts /\ owed /\ ~Cut /\ ~cmd'.valid
           /\ ~disturbed /\ ~Cut /\ (Starts => line'.frame.kind.len # 0) => ~disturbed'
BY ClockMoves DEF Observe

LEMMA CalmNext ==
    ASSUME TypeOK, LineInv, SumInv, CalmInv, Tick
    PROVE  CalmInv'
<1>1. /\ dly[1] \in AnyByte /\ dly[2] \in AnyByte /\ line.gap \in 0..MinGap /\ line.at \in Int
      /\ rx.state \in States /\ MinGap \in Nat /\ MinGap > 6
  BY DlyType, ClockMoves, Sizes DEF TypeOK
<1>2. /\ dly'[1] = LineByte /\ dly'[2] = dly[1]
      /\ LineByte.v <=> Sending
      /\ Sending => LineByte.frame = line.frame /\ LineByte.at = line.at
  BY ClockMoves, MoreBytes, <1>1
<1>3. (owed => ~disturbed)'
  <2> SUFFICES ASSUME owed' PROVE ~disturbed'
    OBVIOUS
  <2>1. CASE Starts /\ AwaitedCommand(line'.frame.kind) /\ ~disturbed
    <3>1. line'.frame.kind.len # 0
      BY <2>1, Sizes DEF AwaitedCommand
    <3>2. ~Cut
      BY <2>1, ClockMoves, LineMoves
    <3> QED BY <2>1, <3>1, <3>2, Calmness
  <2>2. CASE ~Starts /\ owed /\ ~Cut /\ ~cmd'.valid
    BY <2>2, Calmness DEF CalmInv
  <2> QED BY <2>1, <2>2, Calmness
<1>4. (~disturbed /\ Active => KeptUp)'
  <2> SUFFICES ASSUME ~disturbed', Active' PROVE KeptUp'
    OBVIOUS
  <2>1. rx.state # "IDLE" /\ rx.state # "CHECK"
    BY RxSteps DEF Active, Listening
  <2>2. ~disturbed
    <3> SUFFICES ASSUME disturbed PROVE FALSE
      OBVIOUS
    <3>1. rx.state = "PREAMBLE" /\ ~dly[2].v
      BY <2>1, Calmness DEF Listening
    <3> QED BY <3>1, PreambleSteps DEF Ready, Active, Listening
  <2>3. CASE Active /\ dly[2].v
    <3>1. PICK f : f = dly[2].frame
      OBVIOUS
    <3>2. dly[2].at \in Nat /\ f.kind.len > 0
      <4>1. KeptUp
        BY <2>2, <2>3 DEF CalmInv
      <4> QED BY <2>3, <3>1, <4>1, InStepHere
    <3>3. CASE dly[1].v
      <4>1. /\ dly'[2] = Byte(f, dly[2].at + 1) /\ rx'.state # "CHECK" /\ f \in RealFrames
            /\ Summed' = [frame |-> f, next |-> dly[2].at + 1]
        BY <1>2, <2>2, <2>3, <3>1, <3>3, KeptUpNext
      <4>2. dly'[2].v /\ dly'[2].frame = f /\ dly'[2].at = dly[2].at + 1
        BY <4>1 DEF Byte
      <4> QED BY <3>2, <4>1, <4>2 DEF KeptUp
    <3>4. CASE ~dly[1].v
      <4>1. ~Sending /\ line.gap = 1 /\ rx'.state = "CRC"
        BY <2>2, <2>3, <3>1, <3>4, KeptUpNext
      <4>2. ~Sending' /\ line'.gap = 2
        BY <1>1, <4>1, ClockMoves, LineMoves
      <4> QED BY <1>2, <3>4, <4>1, <4>2 DEF KeptUp
    <3> QED BY <3>3, <3>4
  <2>4. CASE Active /\ ~dly[2].v
    <3>1. ~Sending /\ rx.state = "CRC" /\ line.gap = 2
      BY <2>1, <2>2, <2>4 DEF CalmInv, KeptUp
    <3>2. rx'.state = "CHECK"
      BY <2>4, <3>1, RxSteps
    <3>3. ~Sending' /\ line'.gap = 3 /\ ~dly[1].v
      BY <1>1, <3>1, ClockMoves, LineMoves DEF LineInv
    <3> QED BY <1>2, <3>2, <3>3 DEF KeptUp
  <2>5. CASE ~Active
    <3>1. rx.state = "PREAMBLE"
      BY <2>1, <2>5 DEF Active, Listening
    <3>2. rx'.state = "ETH" /\ rx'.cnt = 0 /\ IsSfd(dly[2])
      BY <3>1, RxSteps, PreambleSteps DEF Active, Listening
    <3>3. dly[2].v /\ dly[2].at = -1 /\ dly[2].frame \in RealFrames
      BY <1>1, <3>2, ByteFacts DEF IsSfd
    <3>4. dly[1].v
      <4> SUFFICES ASSUME ~dly[1].v PROVE FALSE
        OBVIOUS
      <4>1. Total(dly[2].frame) \in Nat /\ Total(dly[2].frame) > 0
        BY <3>3, FrameFacts, Sizes
      <4>2. dly[2].at = Total(dly[2].frame) - 1
        BY <2>2, <3>3 DEF CalmInv
      <4> QED BY <3>3, <4>1, <4>2
    <3>5. dly'[2].v /\ dly'[2].at = 0 /\ dly'[2].frame.kind.len > 0
      <4>1. dly[1] = Byte(dly[2].frame, dly[2].at + 1)
        BY <3>3, <3>4 DEF LineInv
      <4>2. dly[1].at = 0
        BY <3>3, <4>1 DEF Byte
      <4> QED BY <1>2, <2>2, <3>4, <4>2 DEF CalmInv
    <3>6. Summed' = Fresh
      BY <2>5, <3>1, <3>3, SumMoves DEF SumInv, Rise
    <3> QED BY <3>2, <3>5, <3>6 DEF KeptUp, AtStart
  <2> QED BY <2>3, <2>4, <2>5
<1>5. (~disturbed =>
         /\ Sending => line.frame.kind.len > 0
         /\ \A i \in {1, 2} : dly[i].v => dly[i].frame.kind.len > 0
         /\ ~Sending /\ dly[1].v => dly[1].at = Total(dly[1].frame) - 1
         /\ ~dly[1].v /\ dly[2].v => dly[2].at = Total(dly[2].frame) - 1)'
  <2> SUFFICES ASSUME ~disturbed'
               PROVE  /\ Sending' => line'.frame.kind.len > 0
                      /\ dly'[1].v => dly'[1].frame.kind.len > 0
                      /\ dly'[2].v => dly'[2].frame.kind.len > 0
                      /\ ~Sending' /\ dly'[1].v => dly'[1].at = Total(dly'[1].frame) - 1
                      /\ ~dly'[1].v /\ dly'[2].v => dly'[2].at = Total(dly'[2].frame) - 1
    OBVIOUS
  <2>1. ~Sending /\ Sending' => line'.frame.kind.len > 0
    <3> SUFFICES ASSUME ~Sending, Sending' PROVE line'.frame.kind.len > 0
      OBVIOUS
    <3>1. Starts /\ line'.frame \in RealFrames
      BY ClockMoves, LineMoves
    <3>2. line'.frame.kind.len # 0
      BY <3>1, Calmness
    <3> QED BY <3>1, <3>2, FrameFacts, Sizes
  <2>2. CASE disturbed
    <3>1. ~Sending /\ ~dly[1].v
      BY <2>2, Calmness
    <3> QED BY <1>2, <2>1, <3>1
  <2>3. CASE ~disturbed
    <3>1. Sending /\ Sending' => line'.frame.kind.len > 0
      BY <2>3, ClockMoves, LineMoves DEF CalmInv
    <3>2. Sending /\ ~Sending' => line.at = Total(line.frame) - 1
      BY ClockMoves, LineMoves, Calmness
    <3> QED BY <1>2, <2>1, <2>3, <3>1, <3>2 DEF CalmInv
  <2> QED BY <2>2, <2>3
<1>6. (~Sending /\ line.gap > 2 /\ rx.state = "PREAMBLE" => rx.cnt = 0)'
  <2> SUFFICES ASSUME ~Sending', line'.gap > 2, rx'.state = "PREAMBLE" PROVE rx'.cnt = 0
    OBVIOUS
  <2>1. ~Sending /\ line.gap > 1
    BY <1>1, ClockMoves, LineMoves
  <2>2. ~dly[1].v /\ ~dly[2].v
    BY <1>1, <2>1 DEF LineInv
  <2>3. rx.state = "PREAMBLE"
    BY <1>1, <2>2, RxSteps DEF Rise, States
  <2> QED BY <2>2, <2>3, PreambleSteps DEF Ready
<1> QED BY <1>3, <1>4, <1>5, <1>6 DEF CalmInv

-----------------------------------------------------------------------------
(***************************************************************************)
(* The way of a command that is owed, clock by clock.                      *)
(***************************************************************************)
LEMMA StageNext ==
    ASSUME TypeOK, LineInv, SumInv, CalmInv, Tick, NEW f \in RealFrames,
           AwaitedCommand(f.kind), Stage(f), owed, ~Cut, ~Starts, ~cmd'.valid
    PROVE  Stage(f)'
<1>1. /\ dly[1] \in AnyByte /\ dly[2] \in AnyByte /\ line.gap \in 0..MinGap
      /\ rx.state \in States /\ rx.cnt \in Nat /\ MinGap \in Nat /\ MinGap > 6
  BY DlyType, ClockMoves, Sizes DEF TypeOK
<1>2. /\ dly'[1] = LineByte /\ dly'[2] = dly[1]
      /\ LineByte.v <=> Sending
      /\ Sending => LineByte = Byte(line.frame, line.at)
      /\ Rise <=> dly[1].v /\ ~dly[2].v
  BY ClockMoves
<1>3. /\ f.kind.to = "us" /\ f.kind.good /\ f.kind.len = CmdLen /\ CmdLen > 0
      /\ f.kind.preamble \in Nat /\ f.kind.preamble >= MinPreamble
      /\ f.kind.preamble <= MaxPreamble /\ Total(f) \in Nat /\ Total(f) > 0 /\ f # NoFrame
      /\ MinPreamble \in Nat /\ MaxPreamble \in Nat
  BY FrameFacts, Sizes DEF AwaitedCommand
<1>4. ~disturbed
  BY DEF CalmInv
<1>5. ~dly[2].v /\ ~dly[1].v /\ Ready => Ready'
  BY <1>2, RxSteps, PreambleSteps DEF Ready
<1>6. CASE /\ Sending /\ line.frame = f /\ line.at = -1 - f.kind.preamble
           /\ ~dly[1].v /\ ~dly[2].v /\ Ready
  <2>1. dly'[1] = Begin(f)
    BY <1>2, <1>6 DEF Begin
  <2> QED BY <1>2, <1>5, <1>6, <2>1 DEF Stage
<1>7. CASE dly[1] = Begin(f) /\ ~dly[2].v /\ Ready
  <2>1. dly[1].v /\ dly[1].frame = f /\ dly[1].at = -1 - f.kind.preamble
    BY <1>3, <1>7, MoreBytes DEF Begin
  <2>2. rx'.state = "PREAMBLE" /\ rx'.cnt = 0
    <3>1. CASE rx.state = "IDLE"
      BY <1>2, <1>7, <2>1, <3>1, ClockMoves, RxCases, RxFields
    <3>2. CASE rx.state = "PREAMBLE" /\ rx.cnt = 0
      <4>1. rx' = PreambleNext /\ MaxPreamble > 0
        BY <3>2, ClockMoves, RxCases, Sizes
      <4>2. rx \in [state : States, cnt : Nat]
        BY DEF TypeOK, States
      <4> QED BY <1>3, <1>7, <3>2, <4>1, <4>2 DEF PreambleNext, IsSfd, IsPreamble
    <3> QED BY <1>7, <3>1, <3>2 DEF Ready
  <2>3. dly'[2].at < 0 /\ rx'.cnt = dly'[2].at + 1 + f.kind.preamble
    BY <1>2, <1>3, <2>1, <2>2
  <2> QED BY <1>2, <2>1, <2>2, <2>3 DEF Stage
<1>8. CASE /\ dly[2].v /\ dly[2].frame = f /\ dly[2].at < 0
           /\ rx.state = "PREAMBLE" /\ rx.cnt = dly[2].at + 1 + f.kind.preamble
  <2>1. dly[2].at \in Int
    BY <1>1, ByteFacts
  <2>2. dly[1].v
    <3> SUFFICES ASSUME ~dly[1].v PROVE FALSE
      OBVIOUS
    <3>1. dly[2].at = Total(dly[2].frame) - 1
      BY <1>4, <1>8 DEF CalmInv
    <3> QED BY <1>3, <1>8, <2>1, <3>1
  <2>3. dly[1].frame = f /\ dly[1].at = dly[2].at + 1
    BY <1>8, <2>1, <2>2, MoreBytes DEF LineInv
  <2>4. CASE dly[2].at = -1
    <3>1. rx'.state = "ETH"
      BY <1>3, <1>8, <2>4, PreambleSteps DEF IsSfd
    <3> QED BY <1>2, <2>2, <2>3, <3>1 DEF Stage, Active, Listening
  <2>5. CASE dly[2].at < -1
    <3>1. rx.cnt < MaxPreamble
      BY <1>3, <1>8, <2>1, <2>5
    <3>2. rx'.state = "PREAMBLE" /\ rx'.cnt = rx.cnt + 1
      BY <1>8, <2>5, <3>1, PreambleSteps
    <3>3. dly'[2].at < 0 /\ rx'.cnt = dly'[2].at + 1 + f.kind.preamble
      BY <1>2, <1>3, <1>8, <2>1, <2>3, <2>5, <3>2
    <3> QED BY <1>2, <2>2, <2>3, <3>2, <3>3 DEF Stage
  <2> QED BY <1>8, <2>1, <2>4, <2>5
<1>9. CASE dly[2].v /\ dly[2].frame = f /\ Active
  <2>1. Active'
    BY <1>3, <1>4, <1>9, KeptUpNext
  <2>2. CASE dly[1].v
    <3>1. dly[1].frame = f
      <4>1. dly[2].at + 1 \in Int
        BY <1>1, ByteFacts
      <4> QED BY <1>9, <2>2, <4>1, MoreBytes DEF LineInv
    <3> QED BY <1>2, <2>1, <2>2, <3>1 DEF Stage
  <2>3. CASE ~dly[1].v
    <3>1. ~Sending /\ line.gap = 1 /\ rx'.state = "CRC" /\ Summed' = Done(f)
      BY <1>4, <1>9, <2>3, KeptUpNext
    <3>2. ~Sending' /\ line'.gap = 2
      BY <1>1, <3>1, ClockMoves, LineMoves
    <3> QED BY <1>2, <2>3, <3>1, <3>2 DEF Stage, Done
  <2> QED BY <2>2, <2>3
<1>10. CASE ~dly[2].v /\ ~Sending /\ line.gap = 2 /\ rx.state = "CRC" /\ Summed = Done(f)
  <2>1. rx'.state = "CHECK" /\ crc'.sum = Done(f)
    BY <1>10, RxSteps, ClockMoves
  <2>2. ~Sending' /\ line'.gap = 3
    BY <1>1, <1>10, ClockMoves, LineMoves
  <2>3. Summed.frame = f /\ Summed.next = Total(f) /\ Total(f) > 0
    BY <1>10, FrameFacts, Sizes DEF Done
  <2>4. InStep(f, Total(f)) \/ Drifted(f, Total(f))
    BY <1>10, <2>3 DEF SumInv, Active, Listening
  <2>5. hdr.ip = f
    BY <1>3, <1>10, <2>4 DEF InStep, Drifted
  <2>6. hdr'.ip = f
    BY <1>10, <2>5, ClockMoves DEF HdrNext
  <2> QED BY <2>1, <2>2, <2>6 DEF Stage, Done
<1>11. CASE ~Sending /\ line.gap = 3 /\ rx.state = "CHECK" /\ crc.sum = Done(f) /\ hdr.ip = f
  <2>1. CrcOk
    <3>1. crc.sum.frame = f /\ crc.sum.next = Total(f)
      BY <1>11 DEF Done
    <3> QED BY <1>3, <3>1 DEF CrcOk
  <2>2. out'.done /\ ~out'.error
    BY <1>11, <2>1, ClockMoves
  <2>3. ~Sending' /\ line'.gap = 4
    BY <1>1, <1>11, ClockMoves, LineMoves
  <2>4. hdr'.ip = f
    BY <1>11, ClockMoves DEF HdrNext
  <2> QED BY <2>2, <2>3, <2>4 DEF Stage
<1>12. CASE ~Sending /\ line.gap = 4 /\ out.done /\ ~out.error /\ hdr.ip = f
  <2>1. Complete
    BY <1>3, <1>12 DEF Complete, DataLength
  <2>2. PICK right \in XorRight :
            cmd' = IF Complete /\ right THEN [valid |-> TRUE, bytes |-> buf] ELSE NoCmd
    BY DEF Tick, Parse
  <2>3. right
    BY <2>1, CompleteFrame DEF XorRight
  <2> QED BY <2>1, <2>2, <2>3
<1> QED BY <1>6, <1>7, <1>8, <1>9, <1>10, <1>11, <1>12 DEF Stage

LEMMA HeardNext ==
    ASSUME TypeOK, LineInv, SumInv, CalmInv, HeardInv, Tick
    PROVE  HeardInv'
<1> SUFFICES ASSUME owed'
             PROVE  \E f \in RealFrames : AwaitedCommand(f.kind) /\ Stage(f)'
  BY DEF HeardInv
<1>1. /\ dly[1] \in AnyByte /\ dly[2] \in AnyByte /\ line.gap \in 0..MinGap
      /\ rx.state \in States /\ MinGap \in Nat /\ MinGap > 6
  BY DlyType, ClockMoves, Sizes DEF TypeOK
<1>2. CASE Starts /\ AwaitedCommand(line'.frame.kind) /\ ~disturbed
  <2>1. ~Sending /\ Sending'
    BY <1>2, ClockMoves, LineMoves
  <2>2. /\ line.gap = MinGap /\ line'.frame \in RealFrames
        /\ line'.at = -1 - line'.frame.kind.preamble
    BY <2>1, ClockMoves, LineMoves
  <2>3. ~dly[1].v /\ ~dly[2].v
    BY <1>1, <2>1, <2>2 DEF LineInv
  <2>4. Ready'
    <3>1. ~Active
      BY <1>1, <1>2, <2>2, <2>3 DEF CalmInv, KeptUp
    <3>2. CASE rx.state = "IDLE"
      BY <2>3, <3>2, RxSteps, ClockMoves DEF Ready
    <3>3. CASE rx.state = "PREAMBLE"
      BY <2>3, <3>3, PreambleSteps
    <3> QED BY <3>1, <3>2, <3>3 DEF Active, Listening
  <2>5. ~dly'[1].v /\ ~dly'[2].v
    BY <2>1, <2>3, ClockMoves
  <2>6. PICK f \in RealFrames : f = line'.frame
    BY <2>2
  <2>7. Stage(f)'
    BY <2>1, <2>2, <2>4, <2>5, <2>6 DEF Stage
  <2> QED BY <1>2, <2>6, <2>7
<1>3. CASE ~Starts /\ owed /\ ~Cut /\ ~cmd'.valid
  <2>1. PICK f \in RealFrames : AwaitedCommand(f.kind) /\ Stage(f)
    BY <1>3 DEF HeardInv
  <2>2. Stage(f)'
    BY <1>3, <2>1, StageNext
  <2> QED BY <2>1, <2>2
<1> QED BY <1>2, <1>3, Calmness

-----------------------------------------------------------------------------
(***************************************************************************)
(* The theorems.                                                           *)
(***************************************************************************)
RxInv == LineInv /\ SumInv /\ NewInv /\ CalmInv /\ HeardInv

LEMMA RxInit == Init => RxInv
<1> SUFFICES ASSUME Init PROVE RxInv
  OBVIOUS
<1>1. /\ line.frame = NoFrame /\ line.gap = 0 /\ ~dly[1].v /\ ~dly[2].v
      /\ rx.state = "IDLE" /\ ~out.done /\ buf = <<>> /\ ~out.valid
      /\ used.frames = 0 /\ latest = 0 /\ ~disturbed /\ ~owed
      /\ Summed.next = 0 /\ Summed = Fresh
  BY MoreBytes DEF Init, ResetRx, ResetCrc, ResetOut, Summed, Fresh
<1>2. ~Sending /\ ~Active /\ ~AtStart /\ ~Complete /\ Gathered = <<>>
  BY <1>1 DEF Sending, Active, Listening, AtStart, Complete, Gathered, BufNext
<1>3. LineInv
  BY <1>1, <1>2 DEF LineInv
<1>4. SumInv
  BY <1>1, <1>2 DEF SumInv
<1>5. NewInv
  BY <1>1, <1>2 DEF NewInv, Past
<1>6. CalmInv /\ HeardInv
  BY <1>1, <1>2 DEF CalmInv, HeardInv
<1> QED BY <1>3, <1>4, <1>5, <1>6 DEF RxInv

\* A reset empties every register; the line goes on.
LEMMA RxReset ==
    ASSUME TypeOK, RxInv, Reset
    PROVE  RxInv'
<1>1. /\ line' = line /\ latest' = latest /\ disturbed' = disturbed /\ owed' = FALSE
      /\ dly' = <<Idle, Idle>> /\ rx' = ResetRx /\ crc' = ResetCrc /\ out' = ResetOut
      /\ buf' = <<>>
  BY DEF Reset
<1>2. used'.frames = used.frames
  BY DEF Reset, TypeOK
<1>3. /\ ~dly'[1].v /\ ~dly'[2].v /\ rx'.state = "IDLE" /\ ~out'.done /\ ~out'.valid
      /\ ~crc'.init /\ ~crc'.en /\ crc'.sum = Fresh
  BY <1>1, MoreBytes DEF ResetRx, ResetCrc, ResetOut
<1>4. /\ Sending' <=> Sending
      /\ ~Active' /\ ~AtStart' /\ ~Complete' /\ Gathered' = <<>>
      /\ Summed' = Fresh /\ Summed'.next = 0
  BY <1>1, <1>3 DEF Sending, Active, Listening, AtStart, Complete, Gathered, BufNext, Summed, Fresh
<1>5. LineInv'
  BY <1>1, <1>2, <1>3, <1>4 DEF RxInv, LineInv
<1>6. SumInv'
  BY <1>3, <1>4 DEF SumInv
<1>7. NewInv'
  BY <1>1, <1>2, <1>3, <1>4 DEF RxInv, NewInv, Past
<1>8. CalmInv' /\ HeardInv'
  BY <1>1, <1>3, <1>4 DEF RxInv, CalmInv, HeardInv
<1> QED BY <1>5, <1>6, <1>7, <1>8 DEF RxInv

LEMMA RxNextInv ==
    ASSUME TypeOK, RxInv, [Next]_vars
    PROVE  RxInv'
<1>1. CASE Tick
  BY <1>1, LineNext, SumNext, NewNext, CalmNext, HeardNext DEF RxInv
<1>2. CASE Reset
  BY <1>2, RxReset
<1>3. CASE UNCHANGED vars
  <2>1. LineInv'
    BY <1>3 DEF RxInv, LineInv, Sending, vars
  <2>2. SumInv'
    <3>1. /\ Summed' = Summed /\ Gathered' = Gathered /\ DataLength' = DataLength
          /\ rx' = rx /\ dly' = dly /\ hdr' = hdr /\ crc' = crc /\ buf' = buf
          /\ Active' <=> Active
          /\ AtStart' <=> AtStart
          /\ CrcOk' <=> CrcOk
          /\ Complete' <=> Complete
      BY <1>3 DEF Active, Listening, AtStart, Summed, Gathered, BufNext, CrcOk, DataLength,
                  Complete, vars
    <3>2. (InStep(Summed.frame, Summed.next) \/ Drifted(Summed.frame, Summed.next))' <=>
              InStep(Summed.frame, Summed.next) \/ Drifted(Summed.frame, Summed.next)
      BY <3>1 DEF InStep, Drifted
    <3>3. SumInv
      BY DEF RxInv
    <3> HIDE DEF Summed, Gathered, DataLength, Active, AtStart, CrcOk, Complete
    <3> QED BY <3>1, <3>2, <3>3, SMTT(30) DEF SumInv, IsWhole, Payload
  <2>3. NewInv'
    BY <1>3 DEF RxInv, NewInv, Past, Recent, Active, Listening, Sending, Summed, CrcOk,
                DataLength, Complete, vars
  <2>4. CalmInv'
    BY <1>3 DEF RxInv, CalmInv, KeptUp, Active, Listening, Sending, AtStart, Summed, vars
  <2>5. HeardInv'
    BY <1>3 DEF RxInv, HeardInv, Stage, Ready, Active, Listening, Sending, Summed, vars
  <2> QED BY <2>1, <2>2, <2>3, <2>4, <2>5 DEF RxInv
<1> QED BY <1>1, <1>2, <1>3 DEF Next

LEMMA CommandStep ==
    ASSUME TypeOK, RxInv, [Next]_vars
    PROVE  [cmd'.valid => IsWhole(cmd'.bytes) /\ cmd'.bytes[1].frame.n > latest]_vars
<1>1. CASE Tick
  <2> SUFFICES ASSUME cmd'.valid
               PROVE  IsWhole(cmd'.bytes) /\ cmd'.bytes[1].frame.n > latest
    OBVIOUS
  <2>1. Complete /\ cmd'.bytes = buf
    BY <1>1, LatestMoves DEF RxInv
  <2>2. IsWhole(buf) /\ buf[1].frame.n \in Nat /\ latest \in Nat
    BY <2>1, CompleteFrame, Bounds DEF RxInv, TypeOK
  <2>3. latest < buf[1].frame.n
    BY <2>1 DEF RxInv, NewInv, Recent
  <2> QED BY <2>1, <2>2, <2>3
<1>2. CASE Reset
  BY <1>2 DEF Reset, NoCmd
<1>3. CASE UNCHANGED vars
  BY <1>3
<1> QED BY <1>1, <1>2, <1>3 DEF Next

LEMMA HeardHolds == TypeOK /\ RxInv => CommandHeard
<1> SUFFICES ASSUME TypeOK, RxInv, line.gap = MinGap, owed PROVE FALSE
  BY DEF CommandHeard
<1>1. LineInv /\ MinGap \in Nat /\ MinGap > 6
  BY Sizes DEF RxInv
<1>2. ~Sending /\ ~dly[1].v /\ ~dly[2].v
  BY <1>1 DEF LineInv
<1>3. PICK f \in RealFrames : Stage(f)
  BY DEF RxInv, HeardInv
<1>4. Begin(f).v
  BY DEF Begin, Byte
<1> QED BY <1>1, <1>2, <1>3, <1>4 DEF Stage

\* Every command is the payload of one undamaged frame to this node, and of a newer frame
\* than the command before, whatever was cut off or reset in between.
THEOREM EveryCommandIsOnePacket == Spec => CommandIsOnePacket
<1>1. TypeOK /\ RxInv /\ [Next]_vars => TypeOK' /\ RxInv'
  BY TypeNext, RxNextInv
<1>2. TypeOK /\ RxInv /\ [Next]_vars =>
          [cmd'.valid => IsWhole(cmd'.bytes) /\ cmd'.bytes[1].frame.n > latest]_vars
  BY CommandStep
<1> QED BY <1>1, <1>2, InitType, RxInit, PTL DEF Spec, CommandIsOnePacket

\* An undamaged command reaches the command FIFO's side before the next frame can start,
\* unless the receiver was still disturbed by an earlier frame when it came.
THEOREM EveryCommandIsHeard == Spec => []CommandHeard
<1>1. TypeOK /\ RxInv /\ [Next]_vars => TypeOK' /\ RxInv'
  BY TypeNext, RxNextInv
<1> QED BY <1>1, HeardHolds, InitType, RxInit, PTL DEF Spec
==============================================================================
