------------------------------ MODULE TxArbiter ------------------------------
(***************************************************************************)
(* The Ethernet transmit path of the FPGA (clock eth_clk125m).             *)
(*                                                                         *)
(* Two payload sources share one UDP transmitter, eth_udp_tx_gmii:         *)
(*   - telemetry: stats_async_fifo -> frame_stats_packet_parallel (pp)     *)
(*     -> vision32_payload_gen (v32), started by vision_udp_status_ctrl    *)
(*     (sc);                                                               *)
(*   - preview: rgb565_udp_preview_payload_gen (pv), one UDP packet per    *)
(*     chunk of the frame read back from DDR3.                             *)
(* The multiplexer in the top level (mux) remembers which source owns the  *)
(* transmitter (tx).                                                       *)
(*                                                                         *)
(* All the blocks are clocked together, so a step of the model is a clock  *)
(* edge: every block computes its next registers from the registers of all *)
(* the blocks before the edge.  The camera writes records into the         *)
(* asynchronous FIFO between edges, and a lost clock lock resets all       *)
(* blocks but the multiplexer.                                             *)
(***************************************************************************)
EXTENDS Integers, Sequences

CONSTANTS
    MaxFrames,       \* camera frames of a behaviour (bound)
    MaxResets,       \* losses of the clock lock (bound)
    FifoDepth,       \* stats_async_fifo depth: 16 in the code
    ChunksPerFrame,  \* preview packets of a frame: 686 in the code
    HeaderCycles,    \* preamble, Ethernet, IP and UDP headers: 50 cycles
    CrcCycles,       \* 4 in the code
    TelemLen,        \* payload bytes of a telemetry packet: 32
    ChunkLen         \* payload bytes of a preview packet: 1416

ASSUME CountsAssumption == MaxFrames \in Nat /\ MaxResets \in Nat
ASSUME SizesAssumption ==
    /\ FifoDepth \in Nat \ {0}
    /\ ChunksPerFrame \in Nat \ {0}
    /\ HeaderCycles \in Nat \ {0}
    /\ CrcCycles \in Nat \ {0}
    /\ TelemLen \in Nat \ {0}
    /\ ChunkLen \in Nat \ {0}

VARIABLES
    cam,     \* the camera side: records offered, and a frame_ready still to come
    fifo,    \* stats_async_fifo: numbers of the frames whose record waits
    pp,      \* frame_stats_packet_parallel: pkt_valid, its record, stats_rd_en
    sc,      \* vision_udp_status_ctrl: sending, send_start
    v32,     \* vision32_payload_gen: active_send, pkt_buf, byte_idx, payload_data
    pv,      \* rgb565_udp_preview_payload_gen
    mux,     \* udp_tx_busy_mux, udp_tx_src_sel
    tx,      \* eth_udp_tx_gmii: state, its counter, data_length_reg, tx_done
    resets,  \* resets so far (bound)
    onwire,  \* history: the packet the transmitter is sending
    sent,    \* history: packets completed, oldest first, by source
    lost     \* history: records dropped by a full FIFO or wiped by a reset

regs == <<pp, sc, v32, pv, mux, tx>>
vars == <<cam, fifo, pp, sc, v32, pv, mux, tx, resets, onwire, sent, lost>>

TELEM   == "telem"
PREVIEW == "preview"

TelemPacket(rec)        == <<TELEM, rec>>
PreviewPacket(frame, c) == <<PREVIEW, frame, c>>
NoPacket                == <<>>

Frames == 0..MaxFrames
Chunks == 0..(ChunksPerFrame - 1)
Packets == {TelemPacket(r) : r \in Frames}
           \cup {PreviewPacket(f, c) : f \in Frames, c \in Chunks}

(***************************************************************************)
(* Registers after reset.                                                  *)
(***************************************************************************)
ResetPP  == [valid |-> FALSE, rec |-> 0, rdEn |-> FALSE]
ResetSC  == [sending |-> FALSE, start |-> FALSE]
ResetV32 == [active |-> FALSE, rec |-> 0, idx |-> 0, dat |-> 0, accept |-> FALSE]
ResetPV  == [state |-> "IDLE", pending |-> FALSE, frame |-> 0, chunk |-> 0,
             sendIdx |-> 0, txEn |-> FALSE]
ResetTX  == [state |-> "IDLE", cnt |-> 0, len |-> 0, done |-> FALSE]

Init ==
    /\ cam = [frames |-> 0, ready |-> FALSE]
    /\ fifo = <<>>
    /\ pp = ResetPP /\ sc = ResetSC /\ v32 = ResetV32 /\ pv = ResetPV
    /\ mux = [busy |-> FALSE, src |-> PREVIEW]
    /\ tx = ResetTX
    /\ resets = 0 /\ onwire = NoPacket /\ lost = 0
    /\ sent = [source \in {TELEM, PREVIEW} |-> <<>>]

(***************************************************************************)
(* The combinational wires of the top level.                               *)
(***************************************************************************)
\* udp_launch_telem without its ~udp_tx_busy_mux.
LaunchTelemAnytime == sc.start
LaunchTelem == sc.start /\ ~mux.busy

LaunchPreview == pv.txEn /\ ~mux.busy /\ ~LaunchTelem

\* udp_src_sel_now without the source latched for the packet in flight.
SrcNowUnlatched == IF LaunchTelem THEN TELEM ELSE PREVIEW
SrcNow == IF mux.busy THEN mux.src ELSE IF LaunchTelem THEN TELEM ELSE PREVIEW
DataLength == IF SrcNow = TELEM THEN TelemLen ELSE ChunkLen
TxEnPulse == LaunchTelem \/ LaunchPreview

PayloadReq(src) == tx.state = "DATA" /\ mux.busy /\ mux.src = src

\* The preview generator is not told when its packet is done.
TxDoneTelemOnly(src) == tx.done /\ mux.busy /\ mux.src = TELEM /\ src = TELEM
TxDone(src) == tx.done /\ mux.busy /\ mux.src = src

\* What udp_payload_dat carries: which byte of which packet.
PayloadByte ==
    IF SrcNow = TELEM THEN [pkt |-> TelemPacket(v32.rec), i |-> v32.dat]
                      ELSE [pkt |-> PreviewPacket(pv.frame, pv.chunk), i |-> pv.sendIdx]

(***************************************************************************)
(* frame_stats_packet_parallel: pops a record, shows it as a packet until  *)
(* it is accepted.                                                         *)
(***************************************************************************)
PopRecord == ~pp.valid /\ fifo # <<>>

\* A packer that forgets to raise stats_rd_en, so the record stays in the FIFO.
PacketParallelNoPop ==
    [valid |-> PopRecord \/ (pp.valid /\ ~v32.accept),
     rec   |-> IF PopRecord THEN Head(fifo) ELSE pp.rec,
     rdEn  |-> FALSE]
PacketParallelNext ==
    [valid |-> PopRecord \/ (pp.valid /\ ~v32.accept),
     rec   |-> IF PopRecord THEN Head(fifo) ELSE pp.rec,
     rdEn  |-> PopRecord]

(***************************************************************************)
(* vision_udp_status_ctrl: asks for a transmission when a packet is valid  *)
(* and the path looks idle, then waits for its tx_done.                    *)
(***************************************************************************)
AskTelem == ~sc.sending /\ pp.valid /\ ~(v32.active \/ mux.busy)

\* A controller that never sees its tx_done.
StatusCtrlForgetsDone ==
    [start |-> AskTelem, sending |-> AskTelem \/ sc.sending]
StatusCtrlNext ==
    [start |-> AskTelem, sending |-> AskTelem \/ (sc.sending /\ ~TxDone(TELEM))]

(***************************************************************************)
(* vision32_payload_gen: copies the packet and answers payload_req with    *)
(* the next byte.  busy always equals active_send and is folded into it.   *)
(***************************************************************************)
TakePacket == ~v32.active /\ LaunchTelem /\ pp.valid
NextByte   == v32.active /\ PayloadReq(TELEM)

V32Next ==
    [active |-> TakePacket \/ (v32.active /\ ~(NextByte /\ v32.idx = TelemLen)),
     rec    |-> IF TakePacket THEN pp.rec ELSE v32.rec,
     idx    |-> IF TakePacket THEN 1
                ELSE IF ~NextByte THEN v32.idx
                ELSE IF v32.idx # TelemLen THEN v32.idx + 1 ELSE 0,
     dat    |-> IF TakePacket THEN 0
                ELSE IF NextByte /\ v32.idx # TelemLen THEN v32.idx ELSE v32.dat,
     accept |-> TakePacket]

(***************************************************************************)
(* rgb565_udp_preview_payload_gen.  Filling payload_mem is abstracted to   *)
(* "filled", the cycle in which the last byte has been written: it depends *)
(* on the DDR3 read FIFO.  ready is the frame_ready pulse; one that comes  *)
(* in the very cycle a frame starts is absorbed by that start.             *)
(***************************************************************************)
LastChunk    == pv.chunk = ChunksPerFrame - 1
FrameStart   == pv.state = "IDLE" /\ pv.pending
LaunchChunk  == pv.state = "LAUNCH" /\ ~(mux.busy \/ sc.start)

ChunkByte    == pv.state = "WAIT_TX" /\ PayloadReq(PREVIEW) /\ pv.sendIdx < ChunkLen - 1

\* The generator takes the end of any packet for the end of its own.
ChunkDoneAny == pv.state = "WAIT_TX" /\ tx.done
ChunkDone    == pv.state = "WAIT_TX" /\ TxDone(PREVIEW)

PreviewNext(ready, filled) ==
    [state |-> CASE FrameStart -> "RESTART"
                 [] pv.state = "RESTART" -> "PREPARE"
                 [] pv.state = "PREPARE" -> "FILL"
                 [] pv.state = "FILL" /\ filled -> "LAUNCH"
                 [] LaunchChunk -> "WAIT_TX"
                 [] ChunkDone -> IF LastChunk THEN "IDLE" ELSE "PREPARE"
                 [] OTHER -> pv.state,
     pending |-> ~FrameStart /\ (pv.pending \/ ready),
     frame   |-> IF FrameStart THEN pv.frame + 1 ELSE pv.frame,
     chunk   |-> CASE FrameStart -> 0
                   [] ChunkDone /\ ~LastChunk -> pv.chunk + 1
                   [] OTHER -> pv.chunk,
     sendIdx |-> IF pv.state = "PREPARE" \/ LaunchChunk THEN 0
                 ELSE IF ChunkByte THEN pv.sendIdx + 1 ELSE pv.sendIdx,
     txEn    |-> LaunchChunk]

(***************************************************************************)
(* The multiplexer and the transmitter.                                    *)
(***************************************************************************)
\* A multiplexer that looks for tx_done one cycle too early.
MuxNextEarlyDone ==
    [busy |-> LaunchTelem \/ LaunchPreview \/ (mux.busy /\ ~(tx.done /\ tx.state = "CRC")),
     src  |-> IF LaunchTelem THEN TELEM ELSE IF LaunchPreview THEN PREVIEW ELSE mux.src]
MuxNext ==
    [busy |-> LaunchTelem \/ LaunchPreview \/ (mux.busy /\ ~tx.done),
     src  |-> IF LaunchTelem THEN TELEM ELSE IF LaunchPreview THEN PREVIEW ELSE mux.src]

\* The four header states of eth_udp_tx_gmii are one state of HeaderCycles
\* cycles.  TX_FILL_DATA is unreachable: no payload is shorter than 18 bytes.
PhaseEnd ==
    \/ tx.state = "HEADER" /\ tx.cnt = HeaderCycles - 1
    \/ tx.state = "DATA" /\ tx.cnt = tx.len - 1
    \/ tx.state = "CRC" /\ tx.cnt = CrcCycles - 1
TxNext ==
    [state |-> CASE tx.state = "IDLE" /\ TxEnPulse -> "HEADER"
                 [] tx.state = "HEADER" /\ PhaseEnd -> "DATA"
                 [] tx.state = "DATA" /\ PhaseEnd -> "CRC"
                 [] tx.state = "CRC" /\ PhaseEnd -> "IDLE"
                 [] OTHER -> tx.state,
     cnt   |-> IF tx.state = "IDLE" \/ PhaseEnd THEN 0 ELSE tx.cnt + 1,
     len   |-> IF TxEnPulse THEN DataLength ELSE tx.len,
     done  |-> tx.state = "CRC" /\ PhaseEnd]

(***************************************************************************)
(* A clock edge.  The history variables follow the transmitter.            *)
(***************************************************************************)
Tick(ready, filled) ==
    /\ ready => cam.ready
    /\ cam' = IF ready THEN [cam EXCEPT !.ready = FALSE] ELSE cam
    /\ pp' = PacketParallelNext
    /\ sc' = StatusCtrlNext
    /\ v32' = V32Next
    /\ pv' = PreviewNext(ready, filled)
    /\ mux' = MuxNext
    /\ tx' = TxNext
    /\ fifo' = IF pp.rdEn /\ fifo # <<>> THEN Tail(fifo) ELSE fifo
    /\ onwire' = IF tx.state = "IDLE" /\ LaunchTelem THEN TelemPacket(pp.rec)
                 ELSE IF tx.state = "IDLE" /\ LaunchPreview
                      THEN PreviewPacket(pv.frame, pv.chunk)
                      ELSE IF tx'.done THEN NoPacket ELSE onwire
    /\ sent' = IF tx'.done THEN [sent EXCEPT ![onwire[1]] = Append(@, onwire)] ELSE sent
    /\ UNCHANGED <<resets, lost>>

(***************************************************************************)
(* The camera domain: at the end of a frame vision_preprocess_core writes  *)
(* a record unless the FIFO is full; the frame store signals frame_ready   *)
(* for the same frame at most once before the next record.                 *)
(***************************************************************************)
StatsWrite ==
    /\ cam.frames < MaxFrames
    /\ cam' = [frames |-> cam.frames + 1, ready |-> TRUE]
    /\ IF Len(fifo) < FifoDepth
       THEN fifo' = Append(fifo, cam.frames + 1) /\ UNCHANGED lost
       ELSE lost' = lost + 1 /\ UNCHANGED fifo
    /\ UNCHANGED <<regs, resets, onwire, sent>>

\* A record that left the FIFO and has not been copied into pkt_buf yet.
HeldByPacker == pp.valid /\ ~pp.rdEn /\ ~v32.accept
SendingTelem == onwire # NoPacket /\ onwire[1] = TELEM

(***************************************************************************)
(* eth_clk_locked drops: the asynchronous reset of every block of the path *)
(* (manual_rst_n & eth_clk_locked & ddr3_init_done_eth) but the            *)
(* multiplexer, which only manual_rst_n resets.                            *)
(***************************************************************************)
LockLost ==
    /\ resets < MaxResets
    /\ resets' = resets + 1
    /\ pp' = ResetPP /\ sc' = ResetSC /\ v32' = ResetV32 /\ pv' = ResetPV /\ tx' = ResetTX
    /\ onwire' = NoPacket
    /\ lost' = lost + (IF HeldByPacker THEN 1 ELSE 0) + (IF SendingTelem THEN 1 ELSE 0)
    /\ UNCHANGED <<cam, fifo, mux, sent>>

Next ==
    \/ \E ready, filled \in BOOLEAN : Tick(ready, filled)
    \/ StatsWrite
    \/ LockLost

Spec == Init /\ [][Next]_vars

\* The clock keeps running, and the DDR3 read FIFO is refilled sooner or later.
Clock == \E ready \in BOOLEAN : Tick(ready, TRUE)
FairSpec == Spec /\ WF_vars(Clock)

-----------------------------------------------------------------------------
(***************************************************************************)
(* Properties.                                                             *)
(***************************************************************************)

\* Every register holds a value it can hold in the hardware.
TypeOK ==
    /\ cam \in [frames : Frames, ready : BOOLEAN]
    /\ fifo \in Seq(Frames) /\ Len(fifo) <= FifoDepth
    /\ pp \in [valid : BOOLEAN, rec : Frames, rdEn : BOOLEAN]
    /\ sc \in [sending : BOOLEAN, start : BOOLEAN]
    /\ v32 \in [active : BOOLEAN, rec : Frames, idx : 0..TelemLen,
                dat : 0..(TelemLen - 1), accept : BOOLEAN]
    /\ pv \in [state : {"IDLE", "RESTART", "PREPARE", "FILL", "LAUNCH", "WAIT_TX"},
               pending : BOOLEAN, frame : Nat, chunk : Chunks,
               sendIdx : 0..(ChunkLen - 1), txEn : BOOLEAN]
    /\ mux \in [busy : BOOLEAN, src : {TELEM, PREVIEW}]
    /\ tx \in [state : {"IDLE", "HEADER", "DATA", "CRC"}, cnt : Nat,
               len : {0, TelemLen, ChunkLen}, done : BOOLEAN]
    /\ resets \in 0..MaxResets /\ lost \in Nat

\* A packet is launched only into an idle transmitter, so the address, port and
\* length registers of eth_udp_tx_gmii never change under a packet being sent,
\* and the multiplexer names the source of that packet until it is done.
SoleOwner ==
    /\ TxEnPulse => tx.state = "IDLE" /\ ~tx.done
    /\ tx.state # "IDLE" => mux.busy /\ onwire # NoPacket /\ onwire[1] = mux.src

\* In the n-th data cycle of a packet the byte on udp_payload_dat is byte n of
\* the packet that was launched: the pull interface of each source runs in step
\* with the transmitter and is never advanced for a packet of the other source.
WireBytes ==
    tx.state = "DATA" => PayloadByte = [pkt |-> onwire, i |-> tx.cnt]

\* The inductive form of the two: how the registers of each source stand to the
\* transmitter while it sends.  Nothing is said of an idle transmitter, because
\* after a lock loss the multiplexer may still name an owner.
TelemInStep ==
    /\ sc.start => sc.sending /\ pp.valid /\ ~v32.active
    /\ v32.accept => v32.active
    /\ v32.active => mux.busy /\ mux.src = TELEM /\ tx.state \in {"HEADER", "DATA"}
    /\ tx.state \in {"HEADER", "DATA"} /\ mux.src = TELEM =>
         /\ v32.active
         /\ tx.len = TelemLen
         /\ onwire = TelemPacket(v32.rec)
         /\ v32.dat = (IF tx.state = "DATA" THEN tx.cnt ELSE 0)
         /\ v32.idx = v32.dat + 1
PreviewInStep ==
    /\ pv.txEn => pv.state = "WAIT_TX" /\ pv.sendIdx = 0
    /\ tx.state \in {"HEADER", "DATA"} /\ mux.src = PREVIEW =>
         /\ pv.state = "WAIT_TX"
         /\ tx.len = ChunkLen
         /\ onwire = PreviewPacket(pv.frame, pv.chunk)
         /\ pv.sendIdx = (IF tx.state = "DATA" THEN tx.cnt ELSE 0)
ArbiterInv ==
    /\ tx.state # "IDLE" => mux.busy /\ onwire # NoPacket /\ onwire[1] = mux.src
    /\ tx.done => mux.busy /\ tx.state = "IDLE"
    /\ tx.state = "DATA" => tx.cnt < tx.len
    /\ TelemInStep
    /\ PreviewInStep

SentTelem == sent[TELEM]
SentPreview == sent[PREVIEW]

\* Where the records are, in the order they were written by the camera domain.
SentRecords == [i \in 1..Len(SentTelem) |-> SentTelem[i][2]]
WireRecord == IF SendingTelem THEN <<onwire[2]>> ELSE <<>>
HeldRecord == IF HeldByPacker THEN <<pp.rec>> ELSE <<>>
Records == SentRecords \o WireRecord \o HeldRecord \o fifo

\* Every record the camera domain produced is in exactly one place, sent, on the
\* wire, held by the packer or in the FIFO, in the order of the frames, unless a
\* full FIFO or a reset dropped it: none is sent twice and none overtakes another.
TelemetryExactlyOnce ==
    /\ Len(Records) + lost = cam.frames
    /\ \A i, j \in 1..Len(Records) : i < j => Records[i] < Records[j]

\* The preview chunks leave in stream order: a chunk follows its predecessor of
\* the same frame, and (without a reset) a frame starts only when the previous
\* one has left completely.
PreviewInOrder ==
    \A i \in 1..Len(SentPreview) :
        LET p == SentPreview[i] IN
        IF p[3] > 0
        THEN i > 1 /\ SentPreview[i - 1] = PreviewPacket(p[2], p[3] - 1)
        ELSE i > 1 /\ resets = 0 =>
                 SentPreview[i - 1] = PreviewPacket(p[2] - 1, ChunksPerFrame - 1)

\* The owner of the transmitter is released: each packet on the wire completes, unless
\* the clock lock is lost.
TransmitterReleased == mux.busy /\ resets = 0 ~> ~mux.busy \/ resets > 0

\* It is released whatever happens to the clock lock.
TransmitterAlwaysReleased == mux.busy ~> ~mux.busy

\* A preview chunk that was launched is completed and the preview moves on.
PreviewProgress == pv.state = "WAIT_TX" ~> pv.state # "WAIT_TX"

\* A telemetry packet that is ready is taken by the payload generator.
TelemetryProgress == pp.valid ~> ~pp.valid
==============================================================================
