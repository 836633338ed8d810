--------------------------- MODULE TxArbiterProofs ---------------------------
(***************************************************************************)
(* For every FIFO depth, packet length and number of frames: the registers *)
(* keep their types, a packet has the transmitter to itself, and its bytes *)
(* are those of the packet that was launched; every record is sent once    *)
(* and in order or counted as lost, and the preview chunks leave in order. *)
(***************************************************************************)
EXTENDS TxArbiter, TLAPS, SequenceTheorems

PPType  == [valid : BOOLEAN, rec : Frames, rdEn : BOOLEAN]
SCType  == [sending : BOOLEAN, start : BOOLEAN]
V32Type == [active : BOOLEAN, rec : Frames, idx : 0..TelemLen,
            dat : 0..(TelemLen - 1), accept : BOOLEAN]
PVType  == [state : {"IDLE", "RESTART", "PREPARE", "FILL", "LAUNCH", "WAIT_TX"},
            pending : BOOLEAN, frame : Nat, chunk : Chunks,
            sendIdx : 0..(ChunkLen - 1), txEn : BOOLEAN]
TXType  == [state : {"IDLE", "HEADER", "DATA", "CRC"}, cnt : Nat,
            len : {0, TelemLen, ChunkLen}, done : BOOLEAN]

LEMMA PPTypeNext ==
    ASSUME pp \in PPType, fifo \in Seq(Frames)
    PROVE  PacketParallelNext \in PPType
<1>1. fifo # <<>> => Head(fifo) \in Frames
  BY HeadTailProperties
<1> QED BY <1>1 DEF PacketParallelNext, PPType, PopRecord

LEMMA V32TypeNext ==
    ASSUME pp \in PPType, v32 \in V32Type
    PROVE  V32Next \in V32Type
BY SizesAssumption DEF V32Next, V32Type, PPType, TakePacket, NextByte

LEMMA PVTypeNext ==
    ASSUME pv \in PVType, NEW ready \in BOOLEAN, NEW filled \in BOOLEAN
    PROVE  PreviewNext(ready, filled) \in PVType
BY SizesAssumption DEF PreviewNext, PVType, LastChunk, Chunks, FrameStart, LaunchChunk,
   ChunkDone, ChunkByte

LEMMA TXTypeNext ==
    ASSUME tx \in TXType
    PROVE  TxNext \in TXType
BY SizesAssumption DEF TxNext, TXType, PhaseEnd, DataLength

LEMMA TypeInductive == TypeOK /\ [Next]_vars => TypeOK'
<1> SUFFICES ASSUME TypeOK, [Next]_vars PROVE TypeOK'
  OBVIOUS
<1> USE DEF TypeOK
<1>0. /\ pp \in PPType /\ sc \in SCType /\ v32 \in V32Type /\ pv \in PVType /\ tx \in TXType
      /\ fifo \in Seq(Frames)
  BY DEF PPType, SCType, V32Type, PVType, TXType
<1>1. ASSUME NEW ready \in BOOLEAN, NEW filled \in BOOLEAN, Tick(ready, filled)
      PROVE  TypeOK'
  <2>1. cam' \in [frames : Frames, ready : BOOLEAN]
    BY <1>1 DEF Tick
  <2>2. fifo' \in Seq(Frames) /\ Len(fifo') <= FifoDepth
    <3>1. CASE pp.rdEn /\ fifo # <<>>
      BY <3>1, <1>1, HeadTailProperties, SizesAssumption DEF Tick
    <3>2. CASE ~(pp.rdEn /\ fifo # <<>>)
      BY <3>2, <1>1 DEF Tick
    <3> QED BY <3>1, <3>2
  <2>3. pp' \in PPType
    BY <1>0, <1>1, PPTypeNext DEF Tick
  <2>4. sc' \in SCType
    BY <1>1 DEF Tick, StatusCtrlNext, SCType, AskTelem, TxDone
  <2>5. v32' \in V32Type
    BY <1>0, <1>1, V32TypeNext DEF Tick
  <2>6. pv' \in PVType
    BY <1>0, <1>1, PVTypeNext DEF Tick
  <2>7. mux' \in [busy : BOOLEAN, src : {TELEM, PREVIEW}]
    BY <1>1 DEF Tick, MuxNext
  <2>8. tx' \in TXType
    BY <1>0, <1>1, TXTypeNext DEF Tick
  <2>9. resets' \in 0..MaxResets /\ lost' \in Nat
    BY <1>1 DEF Tick
  <2> QED
    BY <2>1, <2>2, <2>3, <2>4, <2>5, <2>6, <2>7, <2>8, <2>9
    DEF PPType, SCType, V32Type, PVType, TXType
<1>2. CASE StatsWrite
  <2>1. cam' \in [frames : Frames, ready : BOOLEAN] /\ cam.frames + 1 \in Frames
    <3>1. /\ cam.frames < MaxFrames /\ cam.frames \in 0..MaxFrames
          /\ cam' = [frames |-> cam.frames + 1, ready |-> TRUE]
      BY <1>2 DEF StatsWrite, Frames
    <3>2. cam.frames + 1 \in 0..MaxFrames
      BY <3>1, CountsAssumption
    <3> QED BY <3>1, <3>2 DEF Frames
  <2>2. CASE Len(fifo) < FifoDepth
    <3>1. fifo' = Append(fifo, cam.frames + 1) /\ lost' = lost
      BY <1>2, <2>2 DEF StatsWrite
    <3>2. fifo' \in Seq(Frames) /\ Len(fifo') = Len(fifo) + 1
      BY <2>1, <3>1, AppendProperties
    <3> QED BY <1>2, <2>1, <2>2, <3>1, <3>2, SizesAssumption DEF StatsWrite, regs
  <2>3. CASE ~(Len(fifo) < FifoDepth)
    BY <1>2, <2>1, <2>3 DEF StatsWrite, regs
  <2> QED BY <2>2, <2>3
<1>3. CASE LockLost
  <2>1. 0 \in Frames /\ 0 \in Chunks
    BY SizesAssumption, CountsAssumption DEF Frames, Chunks
  <2>2. pp' \in PPType /\ sc' \in SCType
    BY <1>3, <2>1 DEF LockLost, ResetPP, ResetSC, PPType, SCType
  <2>3. v32' \in V32Type
    BY <1>3, <2>1, SizesAssumption DEF LockLost, ResetV32, V32Type
  <2>4. pv' \in PVType
    BY <1>3, <2>1, SizesAssumption DEF LockLost, ResetPV, PVType
  <2>5. tx' \in TXType
    BY <1>3 DEF LockLost, ResetTX, TXType
  <2>6. resets' \in 0..MaxResets /\ lost' \in Nat
    BY <1>3, CountsAssumption DEF LockLost
  <2>7. UNCHANGED <<cam, fifo, mux>>
    BY <1>3 DEF LockLost
  <2> QED
    BY <2>2, <2>3, <2>4, <2>5, <2>6, <2>7 DEF PPType, SCType, V32Type, PVType, TXType
<1>4. CASE UNCHANGED vars
  BY <1>4 DEF vars
<1> QED BY <1>1, <1>2, <1>3, <1>4 DEF Next

LEMMA InitType == Init => TypeOK
BY SizesAssumption, CountsAssumption
DEF Init, TypeOK, Frames, Chunks, ResetPP, ResetSC, ResetV32, ResetPV, ResetTX

\* The registers, counters and the FIFO keep the ranges the hardware gives them.
THEOREM TypeCorrect == Spec => []TypeOK
BY InitType, TypeInductive, PTL DEF Spec

LEMMA TickInv ==
    ASSUME TypeOK, ArbiterInv,
           NEW ready \in BOOLEAN, NEW filled \in BOOLEAN, Tick(ready, filled)
    PROVE  ArbiterInv'
<1>0. /\ tx.state \in {"IDLE", "HEADER", "DATA", "CRC"} /\ tx.cnt \in Nat /\ tx.len \in Nat
      /\ mux.src \in {TELEM, PREVIEW}
      /\ v32.idx \in Nat /\ v32.dat \in Nat /\ pv.sendIdx \in 0..(ChunkLen - 1)
      /\ TelemLen \in Nat \ {0} /\ ChunkLen \in Nat \ {0}
      /\ HeaderCycles \in Nat /\ CrcCycles \in Nat
  BY SizesAssumption DEF TypeOK
<1>1. /\ pp' = PacketParallelNext /\ sc' = StatusCtrlNext /\ v32' = V32Next
      /\ pv' = PreviewNext(ready, filled) /\ mux' = MuxNext /\ tx' = TxNext
  BY DEF Tick
<1>2. onwire' = IF tx.state = "IDLE" /\ LaunchTelem THEN TelemPacket(pp.rec)
                ELSE IF tx.state = "IDLE" /\ LaunchPreview
                     THEN PreviewPacket(pv.frame, pv.chunk)
                     ELSE IF tx'.done THEN NoPacket ELSE onwire
  BY DEF Tick
<1>3. TxEnPulse => tx.state = "IDLE" /\ ~mux.busy /\ ~tx.done
  BY <1>0 DEF ArbiterInv, TxEnPulse, LaunchTelem, LaunchPreview
<1>4. (tx.state # "IDLE" => mux.busy /\ onwire # NoPacket /\ onwire[1] = mux.src)'
  BY <1>0, <1>1, <1>2, <1>3 DEF ArbiterInv, TxNext, MuxNext, TxEnPulse, LaunchTelem,
     LaunchPreview, TelemPacket, PreviewPacket, NoPacket, PhaseEnd, TELEM, PREVIEW
<1>5. (tx.done => mux.busy /\ tx.state = "IDLE")'
  BY <1>0, <1>1, <1>3 DEF ArbiterInv, TxNext, MuxNext, PhaseEnd, TxEnPulse
<1>6. (tx.state = "DATA" => tx.cnt < tx.len)'
  <2>1. tx.state = "HEADER" => tx.len # 0
    BY <1>0 DEF ArbiterInv, TelemInStep, PreviewInStep
  <2>2. tx.state # "IDLE" => tx'.len = tx.len
    BY <1>1, <1>3 DEF TxNext
  <2>3. tx'.state = "DATA" =>
           \/ tx.state = "HEADER" /\ tx'.cnt = 0
           \/ tx.state = "DATA" /\ tx.cnt # tx.len - 1 /\ tx'.cnt = tx.cnt + 1
    BY <1>0, <1>1 DEF TxNext, PhaseEnd
  <2>4. tx.state = "DATA" => tx.cnt < tx.len
    BY DEF ArbiterInv
  <2> QED BY <1>0, <2>1, <2>2, <2>3, <2>4
<1>7. TelemInStep'
  <2>1. (sc.start => sc.sending /\ pp.valid /\ ~v32.active)'
    BY <1>1 DEF ArbiterInv, TelemInStep, StatusCtrlNext, AskTelem, PacketParallelNext,
       PopRecord, V32Next, TakePacket, LaunchTelem
  <2>2. (v32.accept => v32.active)'
    BY <1>1 DEF V32Next
  <2>3. CASE TxEnPulse
    <3>1. tx.state = "IDLE" /\ ~v32.active /\ ~mux.busy
      BY <1>3, <2>3 DEF ArbiterInv, TelemInStep
    <3>2. CASE LaunchTelem
      <4>1. TakePacket
        BY <3>1, <3>2 DEF TakePacket, ArbiterInv, TelemInStep, LaunchTelem
      <4>2. /\ v32'.active /\ v32'.rec = pp.rec /\ v32'.idx = 1 /\ v32'.dat = 0
        BY <1>1, <4>1 DEF V32Next
      <4>3. mux'.busy /\ mux'.src = TELEM
        BY <1>1, <3>2 DEF MuxNext
      <4>4. tx'.state = "HEADER" /\ tx'.len = TelemLen
        BY <1>1, <2>3, <3>1, <3>2 DEF TxNext, DataLength, SrcNow
      <4>5. onwire' = TelemPacket(pp.rec)
        BY <1>2, <3>1, <3>2
      <4> QED BY <2>1, <2>2, <4>2, <4>3, <4>4, <4>5 DEF TelemInStep
    <3>3. CASE ~LaunchTelem
      <4>1. LaunchPreview /\ ~TakePacket /\ ~NextByte
        BY <2>3, <3>1, <3>3 DEF TxEnPulse, TakePacket, NextByte
      <4>2. ~v32'.active
        BY <1>1, <3>1, <4>1 DEF V32Next
      <4>3. mux'.src # TELEM
        BY <1>1, <3>3, <4>1 DEF MuxNext, TELEM, PREVIEW
      <4> QED BY <2>1, <2>2, <4>2, <4>3 DEF TelemInStep
    <3> QED BY <3>2, <3>3
  <2>4. CASE ~TxEnPulse
    <3>1. ~LaunchTelem /\ ~LaunchPreview /\ ~TakePacket
      BY <2>4 DEF TxEnPulse, TakePacket
    <3>2. tx'.len = tx.len /\ mux'.src = mux.src
      BY <1>1, <2>4, <3>1 DEF TxNext, MuxNext
    <3>3. CASE v32.active /\ tx.state = "HEADER"
      <4>1. ~NextByte
        BY <3>3 DEF NextByte, PayloadReq
      <4>2. /\ v32'.active /\ v32'.rec = v32.rec
            /\ v32'.idx = v32.idx /\ v32'.dat = v32.dat
        BY <1>1, <3>1, <3>3, <4>1 DEF V32Next
      <4>3. /\ mux'.busy /\ mux'.src = TELEM
            /\ tx'.state = "HEADER" \/ (tx'.state = "DATA" /\ tx'.cnt = 0)
            /\ onwire' = onwire
        BY <1>0, <1>1, <1>2, <1>3, <3>1, <3>3
        DEF ArbiterInv, TelemInStep, MuxNext, TxNext, PhaseEnd, TxEnPulse
      <4> QED BY <2>1, <2>2, <3>2, <3>3, <4>2, <4>3 DEF ArbiterInv, TelemInStep
    <3>4. CASE v32.active /\ tx.state = "DATA"
      <4>0. /\ mux.busy /\ mux.src = TELEM /\ tx.len = TelemLen
            /\ v32.dat = tx.cnt /\ v32.idx = tx.cnt + 1 /\ onwire = TelemPacket(v32.rec)
        BY <3>4 DEF ArbiterInv, TelemInStep
      <4>1. NextByte
        BY <3>4, <4>0 DEF NextByte, PayloadReq
      <4>2. mux'.busy /\ mux'.src = TELEM /\ onwire' = onwire /\ v32'.rec = v32.rec
        BY <1>0, <1>1, <1>2, <3>1, <3>4, <4>0
        DEF ArbiterInv, MuxNext, TxNext, V32Next
      <4>3. CASE tx.cnt = TelemLen - 1
        <5>1. v32.idx = TelemLen /\ tx.cnt = tx.len - 1
          BY <1>0, <4>0, <4>3
        <5>2. ~v32'.active
          BY <1>1, <3>1, <3>4, <4>1, <5>1 DEF V32Next
        <5>3. tx'.state = "CRC"
          BY <1>1, <3>4, <5>1 DEF TxNext, PhaseEnd
        <5> QED BY <2>1, <2>2, <5>2, <5>3 DEF TelemInStep
      <4>4. CASE tx.cnt # TelemLen - 1
        <5>1. v32.idx # TelemLen /\ tx.cnt # tx.len - 1
          BY <1>0, <4>0, <4>4
        <5>2. v32'.active /\ v32'.dat = tx.cnt + 1 /\ v32'.idx = v32.idx + 1
          BY <1>1, <3>1, <3>4, <4>0, <4>1, <5>1 DEF V32Next
        <5>3. tx'.state = "DATA" /\ tx'.cnt = tx.cnt + 1
          BY <1>1, <3>4, <5>1 DEF TxNext, PhaseEnd
        <5> QED BY <1>0, <2>1, <2>2, <3>2, <4>0, <4>2, <5>2, <5>3 DEF TelemInStep
      <4> QED BY <4>3, <4>4
    <3>5. CASE ~v32.active
      <4>1. tx.state \notin {"HEADER", "DATA"} \/ mux.src # TELEM
        BY <3>5 DEF ArbiterInv, TelemInStep
      <4>2. ~v32'.active
        BY <1>1, <3>1, <3>5 DEF V32Next
      <4> QED BY <1>0, <1>1, <2>1, <2>2, <2>4, <3>2, <4>1, <4>2 DEF TelemInStep, TxNext
    <3> QED BY <3>3, <3>4, <3>5 DEF ArbiterInv, TelemInStep
  <2> QED BY <2>3, <2>4
<1>8. PreviewInStep'
  <2>1. (pv.txEn => pv.state = "WAIT_TX" /\ pv.sendIdx = 0)'
    <3>1. CASE LaunchChunk
      <4>1. pv'.sendIdx = 0
        BY <1>1, <3>1 DEF PreviewNext
      <4>2. pv'.state = "WAIT_TX"
        BY <1>1, <3>1 DEF PreviewNext, LaunchChunk, FrameStart, ChunkDone
      <4> QED BY <4>1, <4>2
    <3>2. CASE ~LaunchChunk
      BY <1>1, <3>2 DEF PreviewNext, LaunchChunk
    <3> QED BY <3>1, <3>2
  <2>2. SUFFICES ASSUME tx'.state \in {"HEADER", "DATA"}, mux'.src = PREVIEW
                 PROVE  /\ pv'.state = "WAIT_TX"
                        /\ tx'.len = ChunkLen
                        /\ onwire' = PreviewPacket(pv'.frame, pv'.chunk)
                        /\ pv'.sendIdx = (IF tx'.state = "DATA" THEN tx'.cnt ELSE 0)
    BY <2>1 DEF PreviewInStep
  <2>3. CASE TxEnPulse
    <3>1. LaunchPreview /\ ~LaunchTelem /\ tx.state = "IDLE" /\ ~mux.busy /\ pv.txEn
      BY <1>1, <1>3, <2>2, <2>3 DEF TxEnPulse, MuxNext, LaunchPreview, TELEM, PREVIEW
    <3>2. pv.state = "WAIT_TX" /\ pv.sendIdx = 0
      BY <3>1 DEF ArbiterInv, PreviewInStep
    <3>3. /\ pv'.state = "WAIT_TX" /\ pv'.sendIdx = 0
          /\ pv'.frame = pv.frame /\ pv'.chunk = pv.chunk
      BY <1>1, <3>1, <3>2
      DEF PreviewNext, FrameStart, LaunchChunk, ChunkDone, ChunkByte, TxDone, PayloadReq
    <3>4. tx'.state = "HEADER" /\ tx'.len = ChunkLen
      BY <1>1, <2>3, <3>1 DEF TxNext, DataLength, SrcNow, TELEM, PREVIEW
    <3>5. onwire' = PreviewPacket(pv.frame, pv.chunk)
      BY <1>2, <3>1 DEF LaunchTelem, LaunchPreview
    <3> QED BY <3>3, <3>4, <3>5
  <2>4. CASE ~TxEnPulse
    <3>1. ~LaunchTelem /\ ~LaunchPreview /\ tx.state \in {"HEADER", "DATA"}
      BY <1>0, <1>1, <2>2, <2>4 DEF TxEnPulse, TxNext
    <3>2. mux.src = PREVIEW /\ mux.busy /\ ~tx.done
      BY <1>1, <2>2, <3>1 DEF MuxNext, ArbiterInv
    <3>3. /\ pv.state = "WAIT_TX" /\ tx.len = ChunkLen
          /\ onwire = PreviewPacket(pv.frame, pv.chunk)
          /\ pv.sendIdx = (IF tx.state = "DATA" THEN tx.cnt ELSE 0)
      BY <3>1, <3>2 DEF ArbiterInv, PreviewInStep
    <3>4. /\ pv'.state = "WAIT_TX" /\ pv'.frame = pv.frame /\ pv'.chunk = pv.chunk
          /\ pv'.sendIdx = IF tx.state = "DATA" /\ pv.sendIdx < ChunkLen - 1
                           THEN pv.sendIdx + 1 ELSE pv.sendIdx
      BY <1>1, <3>2, <3>3
      DEF PreviewNext, FrameStart, LaunchChunk, ChunkDone, ChunkByte, TxDone, PayloadReq
    <3>5. tx'.len = ChunkLen /\ onwire' = onwire
      BY <1>1, <1>2, <2>2, <2>4, <3>1, <3>3 DEF TxNext, PhaseEnd
    <3>6. pv'.sendIdx = IF tx'.state = "DATA" THEN tx'.cnt ELSE 0
      BY <1>0, <1>1, <2>2, <3>1, <3>3, <3>4 DEF TxNext, PhaseEnd
    <3> QED BY <3>3, <3>4, <3>5, <3>6
  <2> QED BY <2>3, <2>4
<1> QED BY <1>4, <1>5, <1>6, <1>7, <1>8 DEF ArbiterInv

LEMMA InvInductive == TypeOK /\ ArbiterInv /\ [Next]_vars => ArbiterInv'
<1> SUFFICES ASSUME TypeOK, ArbiterInv, [Next]_vars PROVE ArbiterInv'
  OBVIOUS
<1>1. ASSUME NEW ready \in BOOLEAN, NEW filled \in BOOLEAN, Tick(ready, filled)
      PROVE  ArbiterInv'
  BY <1>1, TickInv
<1>2. CASE StatsWrite
  BY <1>2 DEF StatsWrite, regs, ArbiterInv, TelemInStep, PreviewInStep
<1>3. CASE LockLost
  BY <1>3 DEF LockLost, ArbiterInv, TelemInStep, PreviewInStep, ResetPP, ResetSC, ResetV32,
     ResetPV, ResetTX
<1>4. CASE UNCHANGED vars
  BY <1>4 DEF vars, ArbiterInv, TelemInStep, PreviewInStep
<1> QED BY <1>1, <1>2, <1>3, <1>4 DEF Next

LEMMA InitInv == Init => ArbiterInv
BY DEF Init, ArbiterInv, TelemInStep, PreviewInStep, ResetPP, ResetSC, ResetV32, ResetPV,
   ResetTX

\* The invariant the other two theorems rest on.
THEOREM InStep == Spec => []ArbiterInv
BY InitInv, InvInductive, TypeCorrect, PTL DEF Spec

\* A packet has the transmitter to itself from launch to tx_done, even across a
\* loss of the clock lock (top level, "UDP TX" source selection).
THEOREM OneOwner == Spec => []SoleOwner
<1>1. ArbiterInv => SoleOwner
  BY DEF ArbiterInv, SoleOwner, TxEnPulse, LaunchTelem, LaunchPreview
<1> QED BY <1>1, InStep, PTL

\* Data cycle n of a packet carries byte n of the packet that was launched.
THEOREM BytesOfTheOwner == Spec => []WireBytes
<1>1. TypeOK /\ ArbiterInv => WireBytes
  <2> SUFFICES ASSUME TypeOK, ArbiterInv, tx.state = "DATA"
               PROVE  PayloadByte = [pkt |-> onwire, i |-> tx.cnt]
    BY DEF WireBytes
  <2>1. mux.busy /\ SrcNow = mux.src /\ mux.src \in {TELEM, PREVIEW}
    BY DEF ArbiterInv, SrcNow, TypeOK
  <2>2. CASE mux.src = TELEM
    BY <2>1, <2>2 DEF ArbiterInv, TelemInStep, PayloadByte
  <2>3. CASE mux.src = PREVIEW
    BY <2>1, <2>3 DEF ArbiterInv, PreviewInStep, PayloadByte, TELEM, PREVIEW
  <2> QED BY <2>1, <2>2, <2>3
<1> QED BY <1>1, InStep, TypeCorrect, PTL

-----------------------------------------------------------------------------
(***************************************************************************)
(* Sequences of numbers that rise.                                         *)
(***************************************************************************)
Rising(s) == \A i, j \in 1..Len(s) : i < j => s[i] < s[j]

\* The numbers rise and none is greater than n.
RisesTo(s, n) == Rising(s) /\ \A i \in 1..Len(s) : s[i] <= n

LEMMA ConcatRises ==
    ASSUME NEW s \in Seq(Nat), NEW t \in Seq(Nat), NEW n \in Nat
    PROVE  RisesTo(s \o t, n) <=>
               /\ RisesTo(s, n) /\ RisesTo(t, n)
               /\ \A i \in 1..Len(s), j \in 1..Len(t) : s[i] < t[j]
<1>1. PICK a \in Nat, b \in Nat : a = Len(s) /\ b = Len(t)
  OBVIOUS
<1>2. /\ Len(s \o t) = a + b
      /\ \A i \in 1..a : (s \o t)[i] = s[i]
      /\ \A j \in 1..b : a + j \in 1..(a + b) /\ (s \o t)[a + j] = t[j]
  <2>1. /\ Len(s \o t) = a + b
        /\ \A i \in 1..(a + b) : (s \o t)[i] = IF i <= a THEN s[i] ELSE t[i - a]
    BY <1>1, ConcatProperties
  <2>2. ASSUME NEW i \in 1..a PROVE (s \o t)[i] = s[i]
    <3>1. i \in 1..(a + b) /\ i <= a
      OBVIOUS
    <3> QED BY <2>1, <3>1
  <2>3. ASSUME NEW j \in 1..b PROVE a + j \in 1..(a + b) /\ (s \o t)[a + j] = t[j]
    <3>1. a + j \in 1..(a + b) /\ ~(a + j <= a) /\ (a + j) - a = j
      OBVIOUS
    <3> QED BY <2>1, <3>1
  <2> QED BY <2>1, <2>2, <2>3
<1>3. \A k \in 1..(a + b) : k \in 1..a \/ \E j \in 1..b : k = a + j
  <2>1. ASSUME NEW k \in 1..(a + b), k \notin 1..a PROVE \E j \in 1..b : k = a + j
    <3>1. k - a \in 1..b /\ k = a + (k - a)
      BY <2>1
    <3> QED BY <3>1
  <2> QED BY <2>1
<1>4. ASSUME RisesTo(s \o t, n)
      PROVE  /\ RisesTo(s, n) /\ RisesTo(t, n)
             /\ \A i \in 1..a, j \in 1..b : s[i] < t[j]
  <2>1. /\ \A i, j \in 1..(a + b) : i < j => (s \o t)[i] < (s \o t)[j]
        /\ \A i \in 1..(a + b) : (s \o t)[i] <= n
    BY <1>2, <1>4 DEF RisesTo, Rising
  <2>2. \A i \in 1..a : i \in 1..(a + b)
    OBVIOUS
  <2>3. RisesTo(s, n)
    BY <1>1, <1>2, <2>1, <2>2 DEF RisesTo, Rising
  <2>4. RisesTo(t, n)
    <3>1. \A i, j \in 1..b : i < j => a + i < a + j
      OBVIOUS
    <3> QED BY <1>1, <1>2, <2>1, <3>1 DEF RisesTo, Rising
  <2>5. ASSUME NEW i \in 1..a, NEW j \in 1..b PROVE s[i] < t[j]
    <3>1. i < a + j /\ i \in 1..(a + b) /\ a + j \in 1..(a + b)
      OBVIOUS
    <3> QED BY <1>2, <2>1, <3>1
  <2> QED BY <2>3, <2>4, <2>5
<1>5. ASSUME RisesTo(s, n), RisesTo(t, n), \A i \in 1..a, j \in 1..b : s[i] < t[j]
      PROVE  RisesTo(s \o t, n)
  <2>1. ASSUME NEW k \in 1..(a + b), NEW m \in 1..(a + b), k < m
        PROVE  (s \o t)[k] < (s \o t)[m]
    <3>1. CASE m \in 1..a
      <4>1. k \in 1..a
        BY <2>1, <3>1
      <4> QED BY <1>1, <1>2, <1>5, <2>1, <3>1, <4>1 DEF RisesTo, Rising
    <3>2. ASSUME NEW j \in 1..b, m = a + j PROVE (s \o t)[k] < (s \o t)[m]
      <4>1. CASE k \in 1..a
        BY <1>2, <1>5, <3>2, <4>1
      <4>2. ASSUME NEW i \in 1..b, k = a + i PROVE (s \o t)[k] < (s \o t)[m]
        <5>1. i < j
          BY <2>1, <3>2, <4>2
        <5>2. t[i] < t[j]
          BY <1>1, <1>5, <5>1 DEF RisesTo, Rising
        <5> QED BY <1>2, <3>2, <4>2, <5>2
      <4> QED BY <1>3, <4>1, <4>2
    <3> QED BY <1>3, <3>1, <3>2
  <2>2. ASSUME NEW k \in 1..(a + b) PROVE (s \o t)[k] <= n
    <3>1. CASE k \in 1..a
      BY <1>1, <1>2, <1>5, <3>1 DEF RisesTo
    <3>2. ASSUME NEW j \in 1..b, k = a + j PROVE (s \o t)[k] <= n
      BY <1>1, <1>2, <1>5, <3>2 DEF RisesTo
    <3> QED BY <1>3, <3>1, <3>2
  <2> QED BY <1>2, <2>1, <2>2 DEF RisesTo, Rising
<1> QED BY <1>1, <1>4, <1>5

\* What rises still rises when a part in its middle is taken away.
LEMMA DropMiddle ==
    ASSUME NEW s \in Seq(Nat), NEW m \in Seq(Nat), NEW t \in Seq(Nat), NEW n \in Nat,
           RisesTo((s \o m) \o t, n)
    PROVE  RisesTo(s \o t, n)
<1>1. s \o m \in Seq(Nat)
  BY ConcatProperties
<1>2. /\ RisesTo(s \o m, n) /\ RisesTo(t, n)
      /\ \A i \in 1..Len(s \o m), j \in 1..Len(t) : (s \o m)[i] < t[j]
  BY <1>1, ConcatRises
<1>3. RisesTo(s, n)
  BY <1>2, ConcatRises
<1>4. ASSUME NEW i \in 1..Len(s), NEW j \in 1..Len(t) PROVE s[i] < t[j]
  <2>1. Len(s) \in Nat /\ Len(m) \in Nat
    OBVIOUS
  <2>2. Len(s \o m) = Len(s) + Len(m)
        /\ \A k \in 1..(Len(s) + Len(m)) : (s \o m)[k] = IF k <= Len(s) THEN s[k]
                                                         ELSE m[k - Len(s)]
    BY ConcatProperties
  <2>3. i \in 1..(Len(s) + Len(m)) /\ i <= Len(s)
    BY <2>1
  <2>4. (s \o m)[i] = s[i] /\ i \in 1..Len(s \o m)
    BY <2>2, <2>3
  <2> QED BY <1>2, <2>4
<1> QED BY <1>2, <1>3, <1>4, ConcatRises

\* A number greater than all of them goes to the end.
LEMMA AppendRises ==
    ASSUME NEW s \in Seq(Nat), NEW n \in Nat, RisesTo(s, n)
    PROVE  RisesTo(s \o <<n + 1>>, n + 1)
<1>1. /\ <<n + 1>> \in Seq(Nat) /\ Len(<<n + 1>>) = 1 /\ <<n + 1>>[1] = n + 1
      /\ n + 1 \in Nat
  OBVIOUS
<1>2. \A i \in 1..Len(s) : s[i] \in Nat /\ s[i] <= n
  BY DEF RisesTo
<1>3. RisesTo(s, n + 1)
  <2>1. \A i \in 1..Len(s) : s[i] <= n + 1
    BY <1>2
  <2> QED BY <2>1 DEF RisesTo
<1>4. RisesTo(<<n + 1>>, n + 1)
  <2> DEFINE t == <<n + 1>>
  <2>1. Len(t) = 1 /\ t[1] = n + 1
    BY <1>1
  <2> HIDE DEF t
  <2>2. \A i \in 1..Len(t) : i = 1
    BY <2>1
  <2>3. \A i, j \in 1..Len(t) : ~(i < j)
    BY <2>2
  <2>4. \A i \in 1..Len(t) : t[i] <= n + 1
    BY <2>1, <2>2
  <2>5. RisesTo(t, n + 1)
    BY <2>3, <2>4 DEF RisesTo, Rising
  <2> QED BY <2>5 DEF t
<1>5. \A i \in 1..Len(s), j \in 1..1 : s[i] < <<n + 1>>[j]
  <2>1. \A j \in 1..1 : j = 1
    OBVIOUS
  <2>2. \A i \in 1..Len(s) : s[i] < n + 1
    BY <1>2
  <2> QED BY <1>1, <2>1, <2>2
<1> QED BY <1>1, <1>3, <1>4, <1>5, ConcatRises

-----------------------------------------------------------------------------
(***************************************************************************)
(* Where the records are.                                                  *)
(***************************************************************************)
Telems == {TelemPacket(r) : r \in Frames}
Previews == {PreviewPacket(f, c) : f \in Nat, c \in Chunks}

\* The history variables hold packets.
HistoryOK ==
    /\ onwire \in {NoPacket} \cup Telems \cup Previews
    /\ DOMAIN sent = {TELEM, PREVIEW}
    /\ sent[TELEM] \in Seq(Telems) /\ sent[PREVIEW] \in Seq(Previews)

\* A record leaves the FIFO a clock after the packer has taken it, and is asked to be sent
\* only then; a packet is on the wire only while the transmitter works.
PlaceInv ==
    /\ tx.state = "IDLE" => onwire = NoPacket
    /\ pp.rdEn => /\ pp.valid /\ fifo # <<>> /\ Head(fifo) = pp.rec
                  /\ ~sc.start /\ ~v32.accept
    /\ sc.start => ~v32.accept

LEMMA PacketFacts ==
    /\ \A p \in Telems : p # NoPacket /\ p[1] = TELEM /\ p[2] \in Frames
                         /\ p = TelemPacket(p[2])
    /\ \A p \in Previews : p # NoPacket /\ p[1] = PREVIEW
    /\ \A r \in Frames : TelemPacket(r) \in Telems /\ TelemPacket(r)[2] = r
    /\ \A f \in Nat, c \in Chunks : PreviewPacket(f, c) \in Previews
    /\ TELEM # PREVIEW
<1>1. ASSUME NEW p \in Telems
      PROVE  p # NoPacket /\ p[1] = TELEM /\ p[2] \in Frames /\ p = TelemPacket(p[2])
  <2>1. PICK r \in Frames : p = <<TELEM, r>>
    BY DEF Telems, TelemPacket
  <2>2. p[1] = TELEM /\ p[2] = r
    BY <2>1
  <2>3. p # NoPacket
    BY <2>1 DEF NoPacket
  <2> QED BY <2>1, <2>2, <2>3 DEF TelemPacket
<1>2. ASSUME NEW p \in Previews PROVE p # NoPacket /\ p[1] = PREVIEW
  <2>1. PICK f \in Nat, c \in Chunks : p = <<PREVIEW, f, c>>
    BY DEF Previews, PreviewPacket
  <2> QED BY <2>1 DEF NoPacket
<1>3. \A r \in Frames : TelemPacket(r) \in Telems /\ TelemPacket(r)[2] = r
  BY DEF Telems, TelemPacket
<1>4. \A f \in Nat, c \in Chunks : PreviewPacket(f, c) \in Previews
  BY DEF Previews
<1>5. TELEM # PREVIEW
  BY DEF TELEM, PREVIEW
<1> QED BY <1>1, <1>2, <1>3, <1>4, <1>5

\* In the clock in which a packet is launched none is completed.
LEMMA LaunchFacts ==
    ASSUME TypeOK, ArbiterInv, NEW ready \in BOOLEAN, NEW filled \in BOOLEAN,
           Tick(ready, filled)
    PROVE  /\ TxEnPulse => tx.state = "IDLE" /\ ~mux.busy /\ ~tx.done /\ ~tx'.done
           /\ tx'.done => tx.state = "CRC" /\ ~TxEnPulse
           /\ LaunchTelem => TakePacket /\ TxEnPulse
           /\ LaunchPreview => TxEnPulse
           /\ TakePacket => LaunchTelem
<1>1. tx' = TxNext
  BY DEF Tick
<1>2. tx'.done <=> tx.state = "CRC" /\ PhaseEnd
  BY <1>1 DEF TxNext
<1>3. TxEnPulse => ~mux.busy
  BY DEF TxEnPulse, LaunchTelem, LaunchPreview
<1>4. ~mux.busy => tx.state = "IDLE" /\ ~tx.done
  BY DEF ArbiterInv
<1>5. LaunchTelem => TakePacket
  BY DEF ArbiterInv, TelemInStep, LaunchTelem, TakePacket
<1>6. (LaunchTelem => TxEnPulse) /\ (LaunchPreview => TxEnPulse) /\ (TakePacket => LaunchTelem)
  BY DEF TxEnPulse, TakePacket
<1> QED BY <1>2, <1>3, <1>4, <1>5, <1>6

LEMMA TickPlace ==
    ASSUME TypeOK, ArbiterInv, HistoryOK, PlaceInv,
           NEW ready \in BOOLEAN, NEW filled \in BOOLEAN, Tick(ready, filled)
    PROVE  PlaceInv'
<1>1. /\ pp' = PacketParallelNext /\ sc' = StatusCtrlNext /\ v32' = V32Next /\ tx' = TxNext
      /\ fifo' = IF pp.rdEn /\ fifo # <<>> THEN Tail(fifo) ELSE fifo
      /\ onwire' = IF tx.state = "IDLE" /\ LaunchTelem THEN TelemPacket(pp.rec)
                   ELSE IF tx.state = "IDLE" /\ LaunchPreview
                        THEN PreviewPacket(pv.frame, pv.chunk)
                        ELSE IF tx'.done THEN NoPacket ELSE onwire
  BY DEF Tick
<1>2. /\ pp'.rdEn = PopRecord /\ sc'.start = AskTelem /\ v32'.accept = TakePacket
      /\ pp'.rec = (IF PopRecord THEN Head(fifo) ELSE pp.rec)
      /\ (pp'.valid <=> PopRecord \/ (pp.valid /\ ~v32.accept))
  BY <1>1 DEF PacketParallelNext, StatusCtrlNext, V32Next
<1>3. PopRecord => /\ ~AskTelem /\ ~TakePacket /\ ~pp.rdEn /\ fifo # <<>>
  BY DEF PopRecord, AskTelem, TakePacket, PlaceInv
<1>4. (pp.rdEn => /\ pp.valid /\ fifo # <<>> /\ Head(fifo) = pp.rec
                  /\ ~sc.start /\ ~v32.accept)'
  BY <1>1, <1>2, <1>3
<1>5. (sc.start => ~v32.accept)'
  <2>1. AskTelem => ~TakePacket
    BY DEF AskTelem, TakePacket, LaunchTelem, ArbiterInv, TelemInStep
  <2> QED BY <1>2, <2>1
<1>6. (tx.state = "IDLE" => onwire = NoPacket)'
  <2> SUFFICES ASSUME tx'.state = "IDLE" PROVE onwire' = NoPacket
    OBVIOUS
  <2>1. CASE tx.state = "IDLE"
    <3>1. ~TxEnPulse
      BY <1>1, <2>1 DEF TxNext, PhaseEnd
    <3>2. ~LaunchTelem /\ ~LaunchPreview
      BY <3>1 DEF TxEnPulse
    <3> QED BY <1>1, <2>1, <3>2 DEF PlaceInv
  <2>2. CASE tx.state # "IDLE"
    <3>1. tx'.done
      <4>1. tx.state \in {"HEADER", "DATA", "CRC"}
        BY <2>2 DEF TypeOK
      <4> QED BY <1>1, <2>2, <4>1 DEF TxNext
    <3> QED BY <1>1, <2>2, <3>1
  <2> QED BY <2>1, <2>2
<1> QED BY <1>4, <1>5, <1>6 DEF PlaceInv

LEMMA TickHistory ==
    ASSUME TypeOK, ArbiterInv, HistoryOK,
           NEW ready \in BOOLEAN, NEW filled \in BOOLEAN, Tick(ready, filled)
    PROVE  /\ HistoryOK'
           /\ tx'.done => /\ onwire # NoPacket /\ onwire[1] \in {TELEM, PREVIEW}
                          /\ onwire[1] = mux.src
                          /\ sent' = [sent EXCEPT ![onwire[1]] = Append(@, onwire)]
                          /\ onwire' = NoPacket
           /\ ~tx'.done => sent' = sent
<1>1. /\ onwire' = IF tx.state = "IDLE" /\ LaunchTelem THEN TelemPacket(pp.rec)
                   ELSE IF tx.state = "IDLE" /\ LaunchPreview
                        THEN PreviewPacket(pv.frame, pv.chunk)
                        ELSE IF tx'.done THEN NoPacket ELSE onwire
      /\ sent' = IF tx'.done THEN [sent EXCEPT ![onwire[1]] = Append(@, onwire)] ELSE sent
  BY DEF Tick
<1>2. pp.rec \in Frames /\ pv.frame \in Nat /\ pv.chunk \in Chunks
  BY DEF TypeOK
<1>3. onwire' \in {NoPacket} \cup Telems \cup Previews
  BY <1>1, <1>2, PacketFacts DEF HistoryOK
<1>4. CASE ~tx'.done
  BY <1>1, <1>3, <1>4 DEF HistoryOK
<1>5. CASE tx'.done
  <2>1. tx.state = "CRC"
    BY <1>5, LaunchFacts
  <2>2. onwire # NoPacket /\ onwire[1] = mux.src /\ onwire' = NoPacket
    BY <1>1, <1>5, <2>1 DEF ArbiterInv
  <2>3. \/ onwire \in Telems /\ onwire[1] = TELEM
        \/ onwire \in Previews /\ onwire[1] = PREVIEW
    BY <2>2, PacketFacts DEF HistoryOK
  <2>4. sent' = [sent EXCEPT ![onwire[1]] = Append(@, onwire)]
    BY <1>1, <1>5
  <2>5. CASE onwire \in Telems /\ onwire[1] = TELEM
    <3>1. Append(sent[TELEM], onwire) \in Seq(Telems)
      BY <2>5, AppendProperties DEF HistoryOK
    <3>2. /\ DOMAIN sent' = {TELEM, PREVIEW} /\ sent'[TELEM] = Append(sent[TELEM], onwire)
          /\ sent'[PREVIEW] = sent[PREVIEW]
      BY <2>4, <2>5, PacketFacts DEF HistoryOK
    <3> QED BY <1>3, <1>5, <2>2, <2>3, <2>4, <3>1, <3>2 DEF HistoryOK
  <2>6. CASE onwire \in Previews /\ onwire[1] = PREVIEW
    <3>1. Append(sent[PREVIEW], onwire) \in Seq(Previews)
      BY <2>6, AppendProperties DEF HistoryOK
    <3>2. /\ DOMAIN sent' = {TELEM, PREVIEW} /\ sent'[PREVIEW] = Append(sent[PREVIEW], onwire)
          /\ sent'[TELEM] = sent[TELEM]
      BY <2>4, <2>6, PacketFacts DEF HistoryOK
    <3> QED BY <1>3, <1>5, <2>2, <2>3, <2>4, <3>1, <3>2 DEF HistoryOK
  <2> QED BY <2>3, <2>5, <2>6
<1> QED BY <1>4, <1>5

\* The records of telemetry packets, and four parts put together.
LEMMA RecordsOf ==
    ASSUME NEW s \in Seq(Telems)
    PROVE  [i \in 1..Len(s) |-> s[i][2]] \in Seq(Nat)
<1>1. \A r \in Frames : r \in Nat
  BY CountsAssumption DEF Frames
<1>2. \A i \in 1..Len(s) : s[i][2] \in Nat
  BY <1>1, PacketFacts
<1> QED BY <1>2, IsASeq

LEMMA AnyParts == \A S : \A a, h, f \in Seq(S) : (a \o h) \o f = a \o (h \o f)
BY ConcatAssociative

LEMMA ThreeParts == \A a, h, f \in Seq(Nat) : (a \o h) \o f = a \o (h \o f)
BY AnyParts, SMTT(30)

LEMMA TwoParts == \A a, h \in Seq(Nat) : a \o h \in Seq(Nat)
BY ConcatProperties

LEMMA LenConcat == \A a, h \in Seq(Nat) : Len(a \o h) = Len(a) + Len(h)
BY ConcatProperties

LEMMA FourParts ==
    \A s, w, h, f \in Seq(Nat) :
        /\ s \o w \o h \o f = (s \o w) \o (h \o f)
        /\ s \o w \o h \o f \in Seq(Nat)
<1> SUFFICES ASSUME NEW s \in Seq(Nat), NEW w \in Seq(Nat), NEW h \in Seq(Nat),
                    NEW f \in Seq(Nat)
             PROVE  /\ s \o w \o h \o f = (s \o w) \o (h \o f)
                    /\ s \o w \o h \o f \in Seq(Nat)
  OBVIOUS
<1>1. s \o w \in Seq(Nat)
  BY TwoParts
<1>2. (s \o w) \o h \in Seq(Nat)
  BY <1>1, TwoParts
<1>3. ((s \o w) \o h) \o f = (s \o w) \o (h \o f)
  BY <1>1, ThreeParts, Zenon
<1>4. ((s \o w) \o h) \o f \in Seq(Nat)
  BY <1>2, TwoParts
<1> QED BY <1>3, <1>4

LEMMA PartTypes ==
    ASSUME TypeOK, HistoryOK
    PROVE  /\ SentRecords \in Seq(Nat) /\ WireRecord \in Seq(Nat)
           /\ HeldRecord \in Seq(Nat) /\ fifo \in Seq(Nat)
           /\ Records = (SentRecords \o WireRecord) \o (HeldRecord \o fifo)
           /\ Records \in Seq(Nat)
<1>1. \A r \in Frames : r \in Nat
  BY CountsAssumption DEF Frames
<1>2. SentRecords \in Seq(Nat)
  BY RecordsOf DEF HistoryOK, SentTelem, SentRecords
<1>3. WireRecord \in Seq(Nat)
  <2>1. SendingTelem => onwire[2] \in Nat
    BY <1>1, PacketFacts DEF SendingTelem, HistoryOK
  <2> QED BY <2>1 DEF WireRecord
<1>4. HeldRecord \in Seq(Nat)
  <2>1. pp.rec \in Nat
    BY <1>1 DEF TypeOK
  <2> QED BY <2>1 DEF HeldRecord
<1>5. fifo \in Seq(Nat)
  BY <1>1, SeqMonotonic DEF TypeOK
<1>6. /\ Records = (SentRecords \o WireRecord) \o (HeldRecord \o fifo)
      /\ Records \in Seq(Nat)
  BY <1>2, <1>3, <1>4, <1>5, FourParts, Zenon DEF Records
<1> QED BY <1>2, <1>3, <1>4, <1>5, <1>6

LEMMA NextPartTypes ==
    ASSUME TypeOK', HistoryOK'
    PROVE  Records' = (SentRecords' \o WireRecord') \o (HeldRecord' \o fifo')
<1>1. \A r \in Frames : r \in Nat
  BY CountsAssumption DEF Frames
<1>2. SentRecords' \in Seq(Nat)
  BY RecordsOf DEF HistoryOK, SentTelem, SentRecords
<1>3. WireRecord' \in Seq(Nat)
  <2>1. SendingTelem' => onwire'[2] \in Nat
    BY <1>1, PacketFacts DEF SendingTelem, HistoryOK
  <2> QED BY <2>1 DEF WireRecord
<1>4. HeldRecord' \in Seq(Nat)
  <2>1. pp'.rec \in Nat
    BY <1>1 DEF TypeOK
  <2> QED BY <2>1 DEF HeldRecord
<1>5. fifo' \in Seq(Nat)
  BY <1>1, SeqMonotonic DEF TypeOK
<1>6. SentRecords' \o WireRecord' \in Seq(Nat)
  BY <1>2, <1>3, TwoParts, Zenon
<1> DEFINE a == SentRecords' \o WireRecord'
           h == HeldRecord'
           f == fifo'
<1>7. Records' = (a \o h) \o f
  BY DEF Records
<1>8. a \in Seq(Nat) /\ h \in Seq(Nat) /\ f \in Seq(Nat)
  BY <1>4, <1>5, <1>6
<1> HIDE DEF a, h, f
<1>9. (a \o h) \o f = a \o (h \o f)
  BY <1>8, ThreeParts, Zenon
<1>10. Records' = a \o (h \o f)
  BY <1>7, <1>9
<1> QED BY <1>10 DEF a, h, f

\* The record of a packet that is launched goes from the packer onto the wire.
LEMMA LaunchMoves ==
    ASSUME TypeOK, ArbiterInv, HistoryOK, PlaceInv,
           NEW ready \in BOOLEAN, NEW filled \in BOOLEAN, Tick(ready, filled), LaunchTelem
    PROVE  Records' = Records
<1>1. /\ pp' = PacketParallelNext /\ v32' = V32Next
      /\ fifo' = IF pp.rdEn /\ fifo # <<>> THEN Tail(fifo) ELSE fifo
      /\ onwire' = IF tx.state = "IDLE" /\ LaunchTelem THEN TelemPacket(pp.rec)
                   ELSE IF tx.state = "IDLE" /\ LaunchPreview
                        THEN PreviewPacket(pv.frame, pv.chunk)
                        ELSE IF tx'.done THEN NoPacket ELSE onwire
  BY DEF Tick
<1>2. tx.state = "IDLE" /\ ~tx'.done /\ TakePacket /\ sc.start
  BY LaunchFacts DEF LaunchTelem
<1>3. ~pp.rdEn /\ ~v32.accept /\ pp.valid /\ onwire = NoPacket
  BY <1>2 DEF PlaceInv, TakePacket
<1>4. fifo' = fifo /\ onwire' = TelemPacket(pp.rec) /\ v32'.accept
  BY <1>1, <1>2, <1>3 DEF V32Next
<1>5. SentRecords' = SentRecords
  BY <1>2, TickHistory DEF SentRecords, SentTelem
<1>6. pp.rec \in Frames
  BY DEF TypeOK
<1>7. WireRecord = <<>> /\ WireRecord' = <<pp.rec>>
  <2>1. TelemPacket(pp.rec) # NoPacket /\ TelemPacket(pp.rec)[1] = TELEM
        /\ TelemPacket(pp.rec)[2] = pp.rec
    BY <1>6, PacketFacts
  <2>2. ~SendingTelem /\ SendingTelem'
    BY <1>3, <1>4, <2>1 DEF SendingTelem
  <2> QED BY <1>4, <2>1, <2>2 DEF WireRecord
<1>8. HeldRecord = <<pp.rec>> /\ HeldRecord' = <<>>
  BY <1>3, <1>4 DEF HeldRecord, HeldByPacker
<1>9. SentRecords \in Seq(Nat) /\ HeldRecord \in Seq(Nat)
  BY PartTypes
<1>10. (SentRecords \o <<>>) \o HeldRecord = (SentRecords \o HeldRecord) \o <<>>
  <2>1. SentRecords \o HeldRecord \in Seq(Nat)
    BY <1>9, ConcatProperties
  <2> QED BY <1>9, <2>1, ConcatEmptySeq
<1> QED BY <1>4, <1>5, <1>7, <1>8, <1>10 DEF Records

\* In every other clock the record of a packet that completes becomes a record sent, and
\* the packer takes one from the FIFO.
LEMMA OtherMoves ==
    ASSUME TypeOK, ArbiterInv, HistoryOK, PlaceInv,
           NEW ready \in BOOLEAN, NEW filled \in BOOLEAN, Tick(ready, filled), ~LaunchTelem,
           TypeOK'
    PROVE  Records' = Records
<1>1. /\ pp' = PacketParallelNext /\ v32' = V32Next
      /\ fifo' = IF pp.rdEn /\ fifo # <<>> THEN Tail(fifo) ELSE fifo
      /\ onwire' = IF tx.state = "IDLE" /\ LaunchTelem THEN TelemPacket(pp.rec)
                   ELSE IF tx.state = "IDLE" /\ LaunchPreview
                        THEN PreviewPacket(pv.frame, pv.chunk)
                        ELSE IF tx'.done THEN NoPacket ELSE onwire
  BY DEF Tick
<1>2. /\ pp'.rdEn = PopRecord /\ v32'.accept = TakePacket /\ ~TakePacket
      /\ pp'.rec = (IF PopRecord THEN Head(fifo) ELSE pp.rec)
      /\ (pp'.valid <=> PopRecord \/ (pp.valid /\ ~v32.accept))
  BY <1>1 DEF PacketParallelNext, V32Next, TakePacket
<1>3. HeldRecord' \o fifo' = HeldRecord \o fifo
  <2>1. CASE pp.rdEn
    <3>1. /\ pp.valid /\ fifo # <<>> /\ Head(fifo) = pp.rec /\ ~v32.accept /\ ~PopRecord
          /\ fifo \in Seq(Frames)
      BY <2>1 DEF PlaceInv, PopRecord, TypeOK
    <3>2. HeldRecord = <<>> /\ HeldRecord' = <<Head(fifo)>> /\ fifo' = Tail(fifo)
      BY <1>1, <1>2, <2>1, <3>1 DEF HeldRecord, HeldByPacker
    <3>3. <<Head(fifo)>> \o Tail(fifo) = fifo
      <4>1. Head(fifo) \in Frames /\ Tail(fifo) \in Seq(Frames)
            /\ Len(Tail(fifo)) = Len(fifo) - 1 /\ Len(fifo) \in Nat \ {0}
            /\ Head(fifo) = fifo[1]
            /\ \A i \in 1..(Len(fifo) - 1) : Tail(fifo)[i] = fifo[i + 1]
        BY <3>1, HeadTailProperties, EmptySeq
      <4>2. <<Head(fifo)>> \in Seq(Frames) /\ Len(<<Head(fifo)>>) = 1
            /\ <<Head(fifo)>>[1] = Head(fifo)
        BY <4>1
      <4> DEFINE h == <<Head(fifo)>>
      <4> HIDE DEF h
      <4>4. h \in Seq(Frames) /\ Len(h) = 1 /\ h[1] = fifo[1]
        BY <4>1, <4>2 DEF h
      <4>5. /\ h \o Tail(fifo) \in Seq(Frames) /\ Len(h \o Tail(fifo)) = Len(fifo)
            /\ \A i \in 1..Len(fifo) : (h \o Tail(fifo))[i] = IF i <= 1 THEN h[i]
                                                              ELSE Tail(fifo)[i - 1]
        <5>1. /\ h \o Tail(fifo) \in Seq(Frames)
              /\ Len(h \o Tail(fifo)) = Len(h) + Len(Tail(fifo))
              /\ \A i \in 1..(Len(h) + Len(Tail(fifo))) :
                     (h \o Tail(fifo))[i] = IF i <= Len(h) THEN h[i] ELSE Tail(fifo)[i - Len(h)]
          BY <4>1, <4>4, ConcatProperties
        <5>2. Len(h) + Len(Tail(fifo)) = Len(fifo) /\ Len(h) = 1
          BY <4>1, <4>4
        <5> QED BY <5>1, <5>2
      <4>6. ASSUME NEW i \in 1..Len(fifo) PROVE (h \o Tail(fifo))[i] = fifo[i]
        <5>1. CASE i = 1
          BY <4>4, <4>5, <5>1
        <5>2. CASE i # 1
          <6>1. ~(i <= 1) /\ i - 1 \in 1..(Len(fifo) - 1) /\ (i - 1) + 1 = i
            BY <4>1, <5>2
          <6>2. Tail(fifo)[i - 1] = fifo[(i - 1) + 1]
            BY <4>1, <6>1
          <6> QED BY <4>5, <6>1, <6>2
        <5> QED BY <5>1, <5>2
      <4>7. h \o Tail(fifo) = fifo
        BY <3>1, <4>5, <4>6, SeqEqual
      <4> QED BY <4>7 DEF h
    <3>4. <<>> \o fifo = fifo
      BY <3>1, ConcatEmptySeq
    <3> QED BY <3>2, <3>3, <3>4
  <2>2. CASE ~pp.rdEn
    <3>1. fifo' = fifo
      BY <1>1, <2>2
    <3>2. CASE pp.valid /\ ~v32.accept
      <4>1. ~PopRecord
        BY <3>2 DEF PopRecord
      <4> QED BY <1>2, <2>2, <3>1, <3>2, <4>1 DEF HeldRecord, HeldByPacker
    <3>3. CASE ~(pp.valid /\ ~v32.accept)
      BY <1>2, <3>1, <3>3 DEF HeldRecord, HeldByPacker
    <3> QED BY <3>2, <3>3
  <2> QED BY <2>1, <2>2
<1>4. SentRecords' \o WireRecord' = SentRecords \o WireRecord
  <2>1. CASE ~tx'.done
    <3>1. SentRecords' = SentRecords
      BY <2>1, TickHistory DEF SentRecords, SentTelem
    <3>2. CASE LaunchPreview
      <4>1. onwire = NoPacket /\ onwire' = PreviewPacket(pv.frame, pv.chunk)
        BY <1>1, <3>2, LaunchFacts DEF PlaceInv
      <4>2. ~SendingTelem /\ ~SendingTelem'
        <5>1. pv.frame \in Nat /\ pv.chunk \in Chunks
          BY DEF TypeOK
        <5> QED BY <4>1, <5>1, PacketFacts DEF SendingTelem
      <4> QED BY <3>1, <4>2 DEF WireRecord
    <3>3. CASE ~LaunchPreview
      <4>1. onwire' = onwire
        BY <1>1, <2>1, <3>3
      <4> QED BY <3>1, <4>1 DEF WireRecord, SendingTelem
    <3> QED BY <3>2, <3>3
  <2>2. CASE tx'.done
    <3>1. /\ onwire # NoPacket /\ onwire' = NoPacket
          /\ sent' = [sent EXCEPT ![onwire[1]] = Append(@, onwire)]
          /\ sent[TELEM] \in Seq(Telems) /\ DOMAIN sent = {TELEM, PREVIEW}
      BY <2>2, TickHistory DEF HistoryOK
    <3>2. WireRecord' = <<>>
      BY <3>1 DEF WireRecord, SendingTelem
    <3>3. CASE onwire[1] # TELEM
      <4>1. sent'[TELEM] = sent[TELEM]
        BY <3>1, <3>3
      <4>2. SentRecords' = SentRecords /\ WireRecord = <<>>
        BY <3>3, <4>1 DEF SentRecords, SentTelem, WireRecord, SendingTelem
      <4> QED BY <3>2, <4>2
    <3>4. CASE onwire[1] = TELEM
      <4>1. onwire \in Telems /\ WireRecord = <<onwire[2]>> /\ onwire[2] \in Nat
        <5>1. onwire \in Telems
          BY <3>1, <3>4, PacketFacts DEF HistoryOK
        <5>2. WireRecord = <<onwire[2]>>
          BY <3>1, <3>4 DEF WireRecord, SendingTelem
        <5>3. onwire[2] \in Frames
          BY <5>1, PacketFacts
        <5> QED BY <5>1, <5>2, <5>3, CountsAssumption DEF Frames
      <4>2. sent'[TELEM] = Append(sent[TELEM], onwire)
        BY <3>1, <3>4
      <4>3. PICK l \in Nat : l = Len(sent[TELEM])
        BY <3>1
      <4>4. /\ Len(sent'[TELEM]) = l + 1 /\ sent'[TELEM][l + 1] = onwire
            /\ \A i \in 1..l : sent'[TELEM][i] = sent[TELEM][i]
        BY <3>1, <4>1, <4>2, <4>3, AppendProperties
      <4>5. /\ SentRecords = [i \in 1..l |-> sent[TELEM][i][2]]
            /\ SentRecords' = [i \in 1..(l + 1) |-> sent'[TELEM][i][2]]
        BY <4>3, <4>4 DEF SentRecords, SentTelem
      <4>6. SentRecords \in Seq(Nat) /\ Len(SentRecords) = l
        BY <4>3, <4>5, PartTypes, LenProperties
      <4>7. SentRecords' = Append(SentRecords, onwire[2])
        <5>1. /\ Append(SentRecords, onwire[2]) \in Seq(Nat)
              /\ Len(Append(SentRecords, onwire[2])) = l + 1
              /\ Append(SentRecords, onwire[2])[l + 1] = onwire[2]
              /\ \A i \in 1..l : Append(SentRecords, onwire[2])[i] = SentRecords[i]
          BY <4>1, <4>6, AppendProperties
        <5>2. \A i \in 1..(l + 1) : sent'[TELEM][i][2] = Append(SentRecords, onwire[2])[i]
          <6>1. ASSUME NEW i \in 1..(l + 1)
                PROVE  sent'[TELEM][i][2] = Append(SentRecords, onwire[2])[i]
            <7>1. i \in 1..l \/ i = l + 1
              OBVIOUS
            <7>2. CASE i \in 1..l
              BY <4>4, <4>5, <5>1, <7>2
            <7>3. CASE i = l + 1
              BY <4>4, <5>1, <7>3
            <7> QED BY <7>1, <7>2, <7>3
          <6> QED BY <6>1
        <5>3. \A i \in 1..(l + 1) : Append(SentRecords, onwire[2])[i] \in Nat
          BY <5>1
        <5>4. SentRecords' \in Seq(Nat) /\ Len(SentRecords') = l + 1
          <6>1. \A i \in 1..(l + 1) : sent'[TELEM][i][2] \in Nat
            BY <5>2, <5>3
          <6>2. l + 1 \in Nat
            OBVIOUS
          <6>3. SentRecords' \in Seq(Nat)
            BY <4>5, <6>1, <6>2, IsASeq
          <6>4. DOMAIN SentRecords' = 1..(l + 1)
            BY <4>5
          <6> QED BY <6>2, <6>3, <6>4, LenProperties
        <5>5. \A i \in 1..(l + 1) : SentRecords'[i] = Append(SentRecords, onwire[2])[i]
          BY <4>5, <5>2
        <5> QED BY <5>1, <5>4, <5>5, SeqEqual
      <4>8. SentRecords' = SentRecords \o <<onwire[2]>>
        BY <4>1, <4>6, <4>7, AppendIsConcat
      <4>9. SentRecords' \o <<>> = SentRecords'
        <5>1. SentRecords' \in Seq(Nat)
          BY <4>1, <4>6, <4>7, AppendProperties
        <5> QED BY <5>1, ConcatEmptySeq
      <4> QED BY <3>2, <4>1, <4>8, <4>9
    <3> QED BY <3>3, <3>4
  <2> QED BY <2>1, <2>2
<1>5. HistoryOK'
  BY TickHistory
<1> QED BY <1>3, <1>4, <1>5, PartTypes, NextPartTypes

\* Every record that the camera domain produced is in one place or lost, and they rise.
Account ==
    /\ Len(Records) + lost = cam.frames
    /\ RisesTo(Records, cam.frames)
TelemetryInv == HistoryOK /\ PlaceInv /\ Account

LEMMA TickAccount ==
    ASSUME TypeOK, ArbiterInv, TelemetryInv, TypeOK',
           NEW ready \in BOOLEAN, NEW filled \in BOOLEAN, Tick(ready, filled)
    PROVE  TelemetryInv'
<1>1. HistoryOK'
  BY TickHistory DEF TelemetryInv
<1>2. PlaceInv'
  BY TickPlace DEF TelemetryInv
<1>3. Records' = Records
  BY LaunchMoves, OtherMoves DEF TelemetryInv
<1>4. lost' = lost /\ cam'.frames = cam.frames
  BY DEF Tick, TypeOK
<1>5. Account'
  BY <1>3, <1>4 DEF TelemetryInv, Account
<1> QED BY <1>1, <1>2, <1>5 DEF TelemetryInv

LEMMA WriteAccount ==
    ASSUME TypeOK, TelemetryInv, StatsWrite
    PROVE  TelemetryInv'
<1>1. /\ cam' = [frames |-> cam.frames + 1, ready |-> TRUE]
      /\ UNCHANGED <<pp, sc, v32, pv, mux, tx, onwire, sent>>
      /\ \/ fifo' = Append(fifo, cam.frames + 1) /\ lost' = lost
         \/ fifo' = fifo /\ lost' = lost + 1
  BY DEF StatsWrite, regs
<1>2. HistoryOK'
  BY <1>1 DEF TelemetryInv, HistoryOK
<1>3. PICK n \in Nat : n = cam.frames
  BY CountsAssumption DEF TypeOK, Frames
<1>4. cam'.frames = n + 1 /\ lost \in Nat
  BY <1>1, <1>3 DEF TypeOK
<1>5. /\ Len(Records) + lost = n /\ RisesTo(Records, n) /\ Records \in Seq(Nat)
      /\ Len(Records) \in Nat
  BY <1>3, PartTypes DEF TelemetryInv, Account
<1>6. /\ SentRecords' = SentRecords /\ WireRecord' = WireRecord /\ HeldRecord' = HeldRecord
  BY <1>1 DEF SentRecords, SentTelem, WireRecord, SendingTelem, HeldRecord, HeldByPacker
<1>7. PlaceInv'
  <2>1. fifo # <<>> => fifo' # <<>> /\ Head(fifo') = Head(fifo)
    <3>1. fifo \in Seq(Nat)
      BY PartTypes DEF TelemetryInv
    <3>2. fifo # <<>> => /\ Append(fifo, n + 1) # <<>>
                         /\ Head(Append(fifo, n + 1)) = Head(fifo)
      BY <3>1, AppendProperties, HeadTailAppend
    <3> QED BY <1>1, <1>3, <3>2
  <2> QED BY <1>1, <2>1 DEF TelemetryInv, PlaceInv
<1>8. CASE fifo' = Append(fifo, cam.frames + 1) /\ lost' = lost
  <2> DEFINE a == (SentRecords \o WireRecord) \o HeldRecord
             one == <<n + 1>>
  <2>1. a \in Seq(Nat) /\ fifo \in Seq(Nat) /\ one \in Seq(Nat) /\ n + 1 \in Nat
    <3>1. /\ SentRecords \in Seq(Nat) /\ WireRecord \in Seq(Nat)
          /\ HeldRecord \in Seq(Nat) /\ fifo \in Seq(Nat)
      BY PartTypes DEF TelemetryInv
    <3>2. SentRecords \o WireRecord \in Seq(Nat)
      BY <3>1, TwoParts, Zenon
    <3>3. a \in Seq(Nat)
      BY <3>1, <3>2, TwoParts, Zenon
    <3> QED BY <3>1, <3>3
  <2>2. fifo' = fifo \o one
    BY <1>3, <1>8, <2>1, AppendIsConcat
  <2>3. Records = a \o fifo /\ Records' = a \o fifo'
    BY <1>6 DEF Records
  <2>4. Len(one) = 1
    OBVIOUS
  <2>5. RisesTo(Records \o one, n + 1)
    BY <1>5, AppendRises
  <2> HIDE DEF a, one
  <2>6. (a \o fifo) \o one = a \o (fifo \o one)
    BY <2>1, ThreeParts, Zenon
  <2>7. Records' = Records \o one
    BY <2>2, <2>3, <2>6
  <2>8. Len(Records \o one) = Len(Records) + Len(one)
    BY <1>5, <2>1, LenConcat, Zenon
  <2>9. Len(Records') + lost' = n + 1
    <3>1. Len(Records) \in Nat /\ lost \in Nat /\ Len(Records) + lost = n
      BY <1>4, <1>5
    <3>2. lost' = lost
      BY <1>8
    <3>3. Len(Records') = Len(Records) + 1
      BY <2>4, <2>7, <2>8
    <3> QED BY <3>1, <3>2, <3>3
  <2>10. Account'
    BY <1>4, <2>5, <2>7, <2>9 DEF Account
  <2> QED BY <1>2, <1>7, <2>10 DEF TelemetryInv
<1>9. CASE fifo' = fifo /\ lost' = lost + 1
  <2>1. Records' = Records
    BY <1>6, <1>9 DEF Records
  <2>2. RisesTo(Records, n + 1)
    <3>1. \A i \in 1..Len(Records) : Records[i] \in Nat
      BY <1>5
    <3>2. \A i \in 1..Len(Records) : Records[i] <= n + 1
      BY <1>5, <3>1 DEF RisesTo
    <3> QED BY <1>5, <3>2 DEF RisesTo
  <2>3. Len(Records) + (lost + 1) = n + 1
    BY <1>4, <1>5
  <2>4. Account'
    BY <1>4, <1>9, <2>1, <2>2, <2>3 DEF Account
  <2> QED BY <1>2, <1>7, <2>4 DEF TelemetryInv
<1> QED BY <1>1, <1>8, <1>9

\* A loss of the lock loses the record on the wire and the one in the packer.
LEMMA LossAccount ==
    ASSUME TypeOK, TelemetryInv, LockLost
    PROVE  TelemetryInv'
<1>1. /\ pp' = ResetPP /\ sc' = ResetSC /\ v32' = ResetV32 /\ tx' = ResetTX
      /\ onwire' = NoPacket
      /\ lost' = lost + (IF HeldByPacker THEN 1 ELSE 0) + (IF SendingTelem THEN 1 ELSE 0)
      /\ UNCHANGED <<cam, fifo, sent>>
  BY DEF LockLost
<1>2. HistoryOK'
  BY <1>1 DEF TelemetryInv, HistoryOK
<1>3. PlaceInv'
  BY <1>1 DEF PlaceInv, ResetPP, ResetSC, ResetV32, ResetTX
<1>4. PICK n \in Nat : n = cam.frames
  BY CountsAssumption DEF TypeOK, Frames
<1> DEFINE s == SentRecords
           w == WireRecord
           h == HeldRecord
<1>5. /\ s \in Seq(Nat) /\ w \in Seq(Nat) /\ h \in Seq(Nat) /\ fifo \in Seq(Nat)
      /\ Records = (s \o w) \o (h \o fifo) /\ RisesTo(Records, n) /\ Len(Records) + lost = n
      /\ lost \in Nat
  BY <1>4, PartTypes DEF TelemetryInv, Account, TypeOK
<1>6. /\ Len(w) = IF SendingTelem THEN 1 ELSE 0
      /\ Len(h) = IF HeldByPacker THEN 1 ELSE 0
  BY DEF WireRecord, HeldRecord
<1>7. SentRecords' = s /\ WireRecord' = <<>> /\ HeldRecord' = <<>>
  BY <1>1 DEF SentRecords, SentTelem, WireRecord, SendingTelem, HeldRecord, HeldByPacker,
     ResetPP
<1>8. Records' = ((s \o <<>>) \o <<>>) \o fifo
  BY <1>1, <1>7 DEF Records
<1> HIDE DEF s, w, h
<1>9. Records' = s \o fifo
  BY <1>5, <1>8, ConcatEmptySeq
<1>10. h \o fifo \in Seq(Nat) /\ s \o w \in Seq(Nat) /\ s \o h \in Seq(Nat)
  BY <1>5, TwoParts, Zenon
<1>11. RisesTo(s \o fifo, n)
  <2>1. RisesTo(s \o (h \o fifo), n)
    BY <1>5, <1>10, DropMiddle
  <2>2. (s \o h) \o fifo = s \o (h \o fifo)
    BY <1>5, ThreeParts, ZenonT(40)
  <2> QED BY <1>5, <2>1, <2>2, DropMiddle
<1>12. Len(Records) = Len(s) + Len(w) + (Len(h) + Len(fifo))
  <2>1. Len(s \o w) = Len(s) + Len(w)
    BY <1>5, ConcatProperties
  <2>2. Len(h \o fifo) = Len(h) + Len(fifo)
    BY <1>5, ConcatProperties
  <2>3. Len((s \o w) \o (h \o fifo)) = Len(s \o w) + Len(h \o fifo)
    BY <1>10, ConcatProperties
  <2> QED BY <1>5, <2>1, <2>2, <2>3
<1>13. Len(s \o fifo) = Len(s) + Len(fifo)
  BY <1>5, ConcatProperties
<1>14. Len(s) \in Nat /\ Len(fifo) \in Nat
  BY <1>5
<1>15. Len(Records') + lost' = n
  <2>1. lost' = lost + Len(h) + Len(w) /\ Len(h) \in Nat /\ Len(w) \in Nat
    BY <1>1, <1>6
  <2>2. Len(Records') = Len(s) + Len(fifo)
    BY <1>9, <1>13
  <2>3. Len(s) + Len(w) + (Len(h) + Len(fifo)) + lost = n /\ lost \in Nat
    BY <1>5, <1>12
  <2> QED BY <1>14, <2>1, <2>2, <2>3
<1>16. Account'
  BY <1>1, <1>4, <1>9, <1>11, <1>15 DEF Account
<1> QED BY <1>2, <1>3, <1>16 DEF TelemetryInv

LEMMA InitAccount ==
    ASSUME Init
    PROVE  TelemetryInv
<1>1. /\ cam = [frames |-> 0, ready |-> FALSE] /\ fifo = <<>> /\ pp = ResetPP /\ sc = ResetSC
      /\ onwire = NoPacket /\ lost = 0
      /\ sent = [source \in {TELEM, PREVIEW} |-> <<>>]
  BY DEF Init
<1>2. HistoryOK
  BY <1>1 DEF HistoryOK
<1>3. PlaceInv
  BY <1>1 DEF PlaceInv, ResetPP, ResetSC
<1>4. Records = <<>>
  <2>1. SentTelem = <<>>
    BY <1>1 DEF SentTelem
  <2>2. SentRecords = <<>>
    <3>1. Len(SentTelem) = 0
      BY <2>1, EmptySeq
    <3>2. SentRecords = [i \in 1..0 |-> SentTelem[i][2]]
      BY <3>1 DEF SentRecords
    <3>3. SentRecords \in Seq(Nat)
      BY <3>2, IsASeq
    <3>4. DOMAIN SentRecords = 1..0
      BY <3>2
    <3>5. Len(SentRecords) = 0
      BY <3>3, <3>4, LenProperties
    <3> QED BY <3>3, <3>5, EmptySeq
  <2>3. WireRecord = <<>> /\ HeldRecord = <<>>
    BY <1>1 DEF WireRecord, SendingTelem, HeldRecord, HeldByPacker, ResetPP
  <2>4. <<>> \o <<>> = <<>>
    BY ConcatEmptySeq
  <2> QED BY <1>1, <2>2, <2>3, <2>4 DEF Records
<1>5. Account
  <2>1. Len(Records) = 0
    BY <1>4, EmptySeq
  <2> QED BY <1>1, <2>1 DEF Account, RisesTo, Rising
<1> QED BY <1>2, <1>3, <1>5 DEF TelemetryInv

LEMMA RecordsKept == Spec => []TelemetryInv
<1>1. TypeOK /\ ArbiterInv /\ TelemetryInv /\ TypeOK' /\ [Next]_vars => TelemetryInv'
  <2> SUFFICES ASSUME TypeOK, ArbiterInv, TelemetryInv, TypeOK', [Next]_vars
               PROVE  TelemetryInv'
    OBVIOUS
  <2>1. ASSUME NEW ready \in BOOLEAN, NEW filled \in BOOLEAN, Tick(ready, filled)
        PROVE  TelemetryInv'
    BY <2>1, TickAccount
  <2>2. CASE UNCHANGED vars
    BY <2>2 DEF vars, TelemetryInv, HistoryOK, PlaceInv, Account, Records, SentRecords,
       SentTelem, WireRecord, SendingTelem, HeldRecord, HeldByPacker
  <2> QED BY <2>1, <2>2, WriteAccount, LossAccount DEF Next
<1> QED BY InitAccount, InStep, TypeCorrect, <1>1, PTL DEF Spec

\* Every record of the camera domain is sent once and in order, or counted as lost, for
\* every depth of the FIFO and wherever a loss of the clock lock falls: a record leaves the
\* FIFO a clock after the packer took it, and is launched only after that.
THEOREM TelemetryKept == Spec => []TelemetryExactlyOnce
<1>1. TelemetryInv => TelemetryExactlyOnce
  BY DEF TelemetryInv, Account, RisesTo, Rising, TelemetryExactlyOnce
<1> QED BY <1>1, RecordsKept, PTL

-----------------------------------------------------------------------------
(***************************************************************************)
(* The preview chunks leave in stream order.                               *)
(***************************************************************************)
LastSent == SentPreview[Len(SentPreview)]

\* The chunk the preview generator works on is the next one to leave.
ChunkIsNext ==
    /\ pv.chunk > 0 => SentPreview # <<>> /\ LastSent = PreviewPacket(pv.frame, pv.chunk - 1)
    /\ pv.chunk = 0 /\ resets = 0 =>
           SentPreview = <<>> \/ LastSent = PreviewPacket(pv.frame - 1, ChunksPerFrame - 1)

\* From the launch of its chunk to the end of it the generator waits and its counters
\* name the chunk on the wire; in the clock of tx_done they name the chunk that has just
\* left, and at any other time the next one to leave.
ChunkInv ==
    /\ tx.state # "IDLE" /\ mux.src = PREVIEW =>
           pv.state = "WAIT_TX" /\ onwire = PreviewPacket(pv.frame, pv.chunk)
    /\ tx.done /\ mux.src = PREVIEW =>
           /\ pv.state = "WAIT_TX" /\ SentPreview # <<>>
           /\ LastSent = PreviewPacket(pv.frame, pv.chunk)
    /\ pv.state = "IDLE" /\ resets = 0 =>
           SentPreview = <<>> \/ LastSent = PreviewPacket(pv.frame, ChunksPerFrame - 1)
    /\ pv.state # "IDLE" /\ ~(tx.done /\ mux.src = PREVIEW) => ChunkIsNext
    /\ PreviewInOrder

PreviewState == <<pv, tx, mux, onwire, sent, resets>>

LEMMA PreviewParts ==
    \A f, c : PreviewPacket(f, c)[2] = f /\ PreviewPacket(f, c)[3] = c
BY DEF PreviewPacket

\* PreviewInOrder and ChunkIsNext, of any sequence of chunks and any number of resets.
InStream(s, r) ==
    \A i \in 1..Len(s) :
        IF s[i][3] > 0
        THEN i > 1 /\ s[i - 1] = PreviewPacket(s[i][2], s[i][3] - 1)
        ELSE i > 1 /\ r = 0 => s[i - 1] = PreviewPacket(s[i][2] - 1, ChunksPerFrame - 1)

ComesNext(f, c, s, r) ==
    /\ c > 0 => s # <<>> /\ s[Len(s)] = PreviewPacket(f, c - 1)
    /\ c = 0 /\ r = 0 => s = <<>> \/ s[Len(s)] = PreviewPacket(f - 1, ChunksPerFrame - 1)

\* A chunk that is next may be put behind the chunks that have left.
LEMMA OneMore ==
    \A s \in Seq(Previews), f \in Nat, c \in Chunks, r \in Nat :
        InStream(s, r) /\ ComesNext(f, c, s, r) => InStream(Append(s, PreviewPacket(f, c)), r)
<1> SUFFICES ASSUME NEW s \in Seq(Previews), NEW f \in Nat, NEW c \in Chunks, NEW r \in Nat,
                    InStream(s, r), ComesNext(f, c, s, r),
                    NEW t, t = Append(s, PreviewPacket(f, c))
             PROVE  InStream(t, r)
  OBVIOUS
<1>1. PICK k \in Nat : k = Len(s)
  BY LenProperties
<1>2. /\ Len(t) = k + 1 /\ t[k + 1] = PreviewPacket(f, c)
      /\ \A i \in 1..k : t[i] = s[i]
  BY <1>1, AppendProperties
<1>3. s # <<>> => k > 0
  BY <1>1, EmptySeq
<1>4. s = <<>> => k = 0
  BY <1>1
<1>5. c \in Nat
  BY SizesAssumption DEF Chunks
<1> SUFFICES ASSUME NEW i \in 1..Len(t)
             PROVE  IF t[i][3] > 0
                    THEN i > 1 /\ t[i - 1] = PreviewPacket(t[i][2], t[i][3] - 1)
                    ELSE i > 1 /\ r = 0 =>
                             t[i - 1] = PreviewPacket(t[i][2] - 1, ChunksPerFrame - 1)
  BY DEF InStream
<1>6. CASE i \in 1..k
  <2>1. t[i] = s[i] /\ (i > 1 => i - 1 \in 1..k /\ t[i - 1] = s[i - 1])
    BY <1>1, <1>2, <1>6
  <2> QED BY <1>1, <1>6, <2>1 DEF InStream
<1>7. CASE i = k + 1
  <2>1. t[i][2] = f /\ t[i][3] = c
    BY <1>2, <1>7, PreviewParts
  <2>2. k > 0 => i - 1 = k /\ t[i - 1] = s[Len(s)]
    BY <1>1, <1>2, <1>7
  <2>3. c > 0 => i > 1 /\ t[i - 1] = PreviewPacket(f, c - 1)
    BY <1>1, <1>3, <1>7, <2>2 DEF ComesNext
  <2>4. c = 0 /\ r = 0 /\ i > 1 => t[i - 1] = PreviewPacket(f - 1, ChunksPerFrame - 1)
    BY <1>1, <1>4, <1>7, <2>2 DEF ComesNext
  <2> QED BY <1>5, <2>1, <2>3, <2>4
<1> QED BY <1>1, <1>2, <1>6, <1>7

\* What a clock does to the counters of the preview generator.
LEMMA PreviewMoves ==
    ASSUME TypeOK, NEW ready \in BOOLEAN, NEW filled \in BOOLEAN, Tick(ready, filled)
    PROVE  /\ FrameStart => /\ pv'.state = "RESTART" /\ pv'.frame = pv.frame + 1
                            /\ pv'.chunk = 0
           /\ ~FrameStart => pv'.frame = pv.frame
           /\ ChunkDone /\ LastChunk => pv'.state = "IDLE" /\ pv'.chunk = pv.chunk
           /\ ChunkDone /\ ~LastChunk => pv'.state = "PREPARE" /\ pv'.chunk = pv.chunk + 1
           /\ ~FrameStart /\ ~ChunkDone => /\ pv'.chunk = pv.chunk
                                           /\ pv'.state = "IDLE" <=> pv.state = "IDLE"
           /\ pv.state = "WAIT_TX" /\ ~ChunkDone => pv'.state = "WAIT_TX"
<1>1. /\ pv' = PreviewNext(ready, filled)
      /\ pv.state \in {"IDLE", "RESTART", "PREPARE", "FILL", "LAUNCH", "WAIT_TX"}
  BY DEF Tick, TypeOK
<1> QED BY <1>1 DEF PreviewNext, FrameStart, ChunkDone, LaunchChunk

LEMMA TickChunk ==
    ASSUME TypeOK, ArbiterInv, HistoryOK, ChunkInv,
           NEW ready \in BOOLEAN, NEW filled \in BOOLEAN, Tick(ready, filled)
    PROVE  ChunkInv'
<1>1. /\ mux' = MuxNext /\ tx' = TxNext /\ resets' = resets
      /\ onwire' = IF tx.state = "IDLE" /\ LaunchTelem THEN TelemPacket(pp.rec)
                   ELSE IF tx.state = "IDLE" /\ LaunchPreview
                        THEN PreviewPacket(pv.frame, pv.chunk)
                        ELSE IF tx'.done THEN NoPacket ELSE onwire
  BY DEF Tick
<1>2. ~TxEnPulse => /\ mux'.src = mux.src
                    /\ tx.state = "IDLE" => tx'.state = "IDLE" /\ ~tx'.done
  BY <1>1 DEF TxEnPulse, MuxNext, TxNext, PhaseEnd
<1>3. tx.done => mux.busy /\ tx.state = "IDLE"
  BY DEF ArbiterInv
<1>4. ChunkDone <=> tx.done /\ mux.src = PREVIEW
  BY <1>3 DEF ChunkDone, TxDone, ChunkInv
<1>5. ChunkDone => ~FrameStart
  BY DEF ChunkDone, FrameStart
<1>6. PICK f \in Nat : f = pv.frame
  BY DEF TypeOK
<1>7. PICK c \in Nat : c = pv.chunk /\ c \in Chunks
  BY SizesAssumption DEF TypeOK, Chunks
<1>8. CASE tx'.done /\ mux.src = PREVIEW
  <2>1. tx.state = "CRC" /\ ~TxEnPulse /\ ~tx.done /\ mux'.src = PREVIEW
    BY <1>2, <1>3, <1>8, LaunchFacts
  <2>2. pv.state = "WAIT_TX" /\ onwire = PreviewPacket(f, c) /\ ChunkIsNext /\ PreviewInOrder
    BY <1>6, <1>7, <1>8, <2>1 DEF ChunkInv
  <2>3. pv'.state = "WAIT_TX" /\ pv'.frame = f /\ pv'.chunk = c
    BY <1>4, <1>6, <1>7, <2>1, <2>2, PreviewMoves DEF FrameStart
  <2>4. tx'.state = "IDLE"
    BY <1>1, <1>8, <2>1 DEF TxNext
  <2>5. sent[PREVIEW] \in Seq(Previews)
    BY DEF HistoryOK
  <2>6. SentPreview' = Append(SentPreview, PreviewPacket(f, c))
    <3>1. sent' = [sent EXCEPT ![PREVIEW] = Append(@, PreviewPacket(f, c))]
      BY <1>8, <2>2, TickHistory
    <3> QED BY <3>1 DEF HistoryOK, SentPreview
  <2>7. PreviewInOrder'
    <3>1. SentPreview \in Seq(Previews) /\ resets \in Nat
      BY <2>5, CountsAssumption DEF SentPreview, TypeOK
    <3>2. InStream(SentPreview, resets)
      BY <2>2 DEF PreviewInOrder, InStream
    <3>3. ComesNext(f, c, SentPreview, resets)
      BY <1>6, <1>7, <2>2 DEF ChunkIsNext, LastSent, ComesNext
    <3>4. InStream(SentPreview', resets)
      BY <1>7, <2>6, <3>1, <3>2, <3>3, OneMore, Zenon
    <3> QED BY <1>1, <3>4 DEF PreviewInOrder, InStream
  <2>8. SentPreview' # <<>> /\ LastSent' = PreviewPacket(f, c)
    <3>1. PreviewPacket(f, c) \in Previews
      BY <1>7, PacketFacts
    <3> QED BY <2>5, <2>6, <3>1, AppendProperties DEF SentPreview, LastSent
  <2> QED BY <1>8, <2>1, <2>3, <2>4, <2>7, <2>8 DEF ChunkInv
<1>9. CASE ~(tx'.done /\ mux.src = PREVIEW)
  <2>1. SentPreview' = SentPreview
    <3>1. CASE ~tx'.done
      BY <3>1, TickHistory DEF SentPreview
    <3>2. CASE tx'.done
      <4>1. onwire[1] = TELEM /\ sent' = [sent EXCEPT ![onwire[1]] = Append(@, onwire)]
        BY <1>9, <3>2, TickHistory
      <4> QED BY <4>1, PacketFacts DEF SentPreview, HistoryOK
    <3> QED BY <3>1, <3>2
  <2>2. LastSent' = LastSent /\ PreviewInOrder'
    BY <1>1, <2>1 DEF LastSent, PreviewInOrder, ChunkInv
  <2>3. ~(tx'.done /\ mux'.src = PREVIEW)
    BY <1>2, <1>9, LaunchFacts
  <2>4. ASSUME tx'.state # "IDLE", mux'.src = PREVIEW
        PROVE  pv'.state = "WAIT_TX" /\ onwire' = PreviewPacket(pv'.frame, pv'.chunk)
    <3>1. CASE TxEnPulse
      <4>1. ~LaunchTelem /\ LaunchPreview /\ tx.state = "IDLE" /\ ~tx.done
        BY <2>4, <1>1, <3>1, LaunchFacts DEF TxEnPulse, MuxNext, TELEM, PREVIEW
      <4>2. pv.state = "WAIT_TX" /\ ~ChunkDone /\ ~FrameStart
        BY <1>4, <4>1 DEF LaunchPreview, ArbiterInv, PreviewInStep, FrameStart
      <4> QED BY <1>1, <4>1, <4>2, PreviewMoves
    <3>2. CASE ~TxEnPulse
      <4>1. tx.state # "IDLE" /\ mux.src = PREVIEW /\ ~tx.done /\ ~tx'.done
        BY <1>2, <1>3, <1>9, <2>4, <3>2
      <4>2. pv.state = "WAIT_TX" /\ onwire = PreviewPacket(pv.frame, pv.chunk)
            /\ ~ChunkDone /\ ~FrameStart
        BY <1>4, <4>1 DEF ChunkInv, FrameStart
      <4> QED BY <1>1, <4>1, <4>2, PreviewMoves
    <3> QED BY <3>1, <3>2
  <2>5. ASSUME pv'.state = "IDLE", resets = 0
        PROVE  \/ SentPreview = <<>>
               \/ LastSent = PreviewPacket(pv'.frame, ChunksPerFrame - 1)
    <3>1. CASE ChunkDone
      BY <1>4, <1>5, <2>5, <3>1, PreviewMoves DEF ChunkInv, LastChunk
    <3>2. CASE ~ChunkDone
      BY <2>5, <3>2, PreviewMoves DEF ChunkInv
    <3> QED BY <3>1, <3>2
  <2>6. ASSUME pv'.state # "IDLE" PROVE ChunkIsNext'
    <3>1. CASE FrameStart
      <4>1. pv'.chunk = 0 /\ pv'.frame - 1 = f
        BY <1>6, <3>1, PreviewMoves
      <4>2. resets = 0 => SentPreview = <<>> \/ LastSent = PreviewPacket(f, ChunksPerFrame - 1)
        BY <1>6, <3>1 DEF ChunkInv, FrameStart
      <4> QED BY <1>1, <2>1, <2>2, <4>1, <4>2 DEF ChunkIsNext
    <3>2. CASE ChunkDone
      <4>1. pv'.chunk = c + 1 /\ pv'.frame = f
        BY <1>5, <1>6, <1>7, <2>6, <3>2, PreviewMoves
      <4>2. SentPreview # <<>> /\ LastSent = PreviewPacket(f, c)
        BY <1>4, <1>6, <1>7, <3>2 DEF ChunkInv
      <4> QED BY <1>7, <2>1, <2>2, <4>1, <4>2 DEF ChunkIsNext
    <3>3. CASE ~FrameStart /\ ~ChunkDone
      <4>1. pv'.chunk = pv.chunk /\ pv'.frame = pv.frame /\ ChunkIsNext
        BY <1>4, <2>6, <3>3, PreviewMoves DEF ChunkInv
      <4> QED BY <1>1, <2>1, <2>2, <4>1 DEF ChunkIsNext
    <3> QED BY <3>1, <3>2, <3>3
  <2> QED BY <1>1, <2>1, <2>2, <2>3, <2>4, <2>5, <2>6 DEF ChunkInv
<1> QED BY <1>8, <1>9

LEMMA OtherChunk ==
    ASSUME TypeOK, ChunkInv, StatsWrite \/ LockLost \/ UNCHANGED vars
    PROVE  ChunkInv'
<1>1. CASE StatsWrite \/ UNCHANGED vars
  <2>1. UNCHANGED PreviewState
    BY <1>1 DEF StatsWrite, vars, regs, PreviewState
  <2> QED BY <2>1 DEF PreviewState, ChunkInv, ChunkIsNext, LastSent, PreviewInOrder,
             SentPreview
<1>2. CASE LockLost
  <2>1. /\ pv' = ResetPV /\ tx' = ResetTX /\ sent' = sent /\ resets' = resets + 1
        /\ resets \in Nat
    BY <1>2, CountsAssumption DEF LockLost, TypeOK
  <2>2. pv'.state = "IDLE" /\ tx'.state = "IDLE" /\ ~tx'.done /\ resets' # 0
    BY <2>1 DEF ResetPV, ResetTX
  <2>3. PreviewInOrder'
    BY <2>1, <2>2 DEF ChunkInv, PreviewInOrder, SentPreview
  <2> QED BY <2>2, <2>3 DEF ChunkInv
<1> QED BY <1>1, <1>2

\* At reset no chunk has left.
LEMMA InitChunk == Init => ChunkInv
<1> SUFFICES ASSUME Init PROVE ChunkInv
  OBVIOUS
<1>1. pv.state = "IDLE" /\ tx.state = "IDLE" /\ ~tx.done /\ sent[PREVIEW] = <<>>
  BY DEF Init, ResetPV, ResetTX
<1>2. PreviewInOrder
  BY <1>1 DEF PreviewInOrder, SentPreview
<1> QED BY <1>1, <1>2 DEF ChunkInv, SentPreview

\* The preview chunks leave in stream order, however the two sources compete for the
\* transmitter.
THEOREM ChunksInOrder == Spec => []PreviewInOrder
<1>1. TypeOK /\ ArbiterInv /\ TelemetryInv /\ ChunkInv /\ [Next]_vars => ChunkInv'
  <2> SUFFICES ASSUME TypeOK, ArbiterInv, HistoryOK, ChunkInv, [Next]_vars PROVE ChunkInv'
    BY DEF TelemetryInv
  <2> QED BY TickChunk, OtherChunk DEF Next
<1>2. ChunkInv => PreviewInOrder
  BY DEF ChunkInv
<1> QED BY InitChunk, InStep, TypeCorrect, RecordsKept, <1>1, <1>2, PTL DEF Spec
==============================================================================
