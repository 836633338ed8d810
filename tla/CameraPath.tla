----------------------------- MODULE CameraPath -----------------------------
(***************************************************************************)
(* The camera side of the FPGA, clock by clock (camera_pclk):              *)
(* ov2640_capture_if turns VSYNC, HREF and the data bytes of the OV2640    *)
(* into frame, line and byte events; frame_sync_counter,                   *)
(* ov2640_rgb565_packer and the statistics of vision_preprocess_core       *)
(* listen to them.  A step is a clock edge: every register is computed     *)
(* from the registers before the edge.                                     *)
(*                                                                         *)
(* A byte is its place in the picture and whether it reaches               *)
(* bright_threshold, alike for a whole line.  The alarm, clear_error and a *)
(* full statistics FIFO are in AlarmPath.                                  *)
(***************************************************************************)
EXTENDS Integers

CONSTANTS
    LineCounts,   \* lines a frame may have: {600}, fewer when lines are missing
    LineWidths,   \* bytes the lines of a frame may have: {1600}, fewer after a glitch
    HGap,         \* clocks between two lines
    VSyncLen,     \* clocks of the VSYNC pulse
    Porch,        \* clocks between VSYNC and the lines, on either side
    Polarities,   \* polarities of VSYNC, TRUE for a high pulse
    RoiX, RoiW,   \* roi_x, roi_w; roi_y and roi_h cover all lines
    CountMod,     \* range of bright_cnt_cur: 2^16
    Levels,       \* brightness of the bytes of a line: a subset of BOOLEAN
    MaxPictures,    \* frames of a behaviour (bound)
    MaxToggles    \* changes of capture_enable of a behaviour (bound)

ASSUME GeometryAssumption ==
    /\ LineCounts \subseteq Nat \ {0} /\ LineCounts # {}
    /\ LineWidths \subseteq Nat \ {0} /\ LineWidths # {}
    /\ {HGap, VSyncLen, Porch} \subseteq Nat /\ HGap > 1 /\ VSyncLen > 1 /\ Porch > 1
    /\ Polarities \subseteq BOOLEAN /\ Polarities # {} /\ Levels \subseteq BOOLEAN /\ Levels # {}
ASSUME RegistersAssumption ==
    RoiX \in Nat /\ RoiW \in Nat \ {0} /\ CountMod \in Nat \ {0}
ASSUME CameraBoundsAssumption == MaxPictures \in Nat /\ MaxToggles \in Nat

VARIABLES
    sensor,   \* the OV2640: polarity of VSYNC, number of the frame, its lines and
              \* their width, clocks since its start
    cap,      \* ov2640_capture_if: vsync_d0/d1, href_d0/d1, the polarity, frame_seen
    ev,       \* ov2640_capture_if: the registered events and coordinates
    sync,     \* frame_sync_counter
    packer,   \* ov2640_rgb565_packer
    core,     \* vision_preprocess_core: counters, stats_wr_en and stats_din
    enable,   \* capture_enable
    toggles,  \* changes of capture_enable so far (bound)
    first,    \* history: the line in which the reset ended, <<frame, line>>
    tally,    \* history: what core was given of the frame it saw last
    pixels,   \* history: the pixels packed of the frame seen last
    reported  \* history: the frame of the last record

cameraVars == <<sensor, cap, ev, sync, packer, core, enable, toggles, first, tally, pixels, reported>>

(***************************************************************************)
(* The sensor: VSYNC, a porch, the lines with gaps, a porch.               *)
(***************************************************************************)
LineTime == sensor.width + HGap
FrameTime(lines, width) == VSyncLen + 2 * Porch + lines * (width + HGap)
\* Clocks since the first line began; the line and the column at that time.
Since  == sensor.t - VSyncLen - Porch
Line   == Since \div LineTime
Column == Since % LineTime

Vsync == (sensor.t < VSyncLen) = sensor.high
Href  == Since >= 0 /\ Line < sensor.lines /\ Column < sensor.width
Byte(level) == [frame |-> sensor.frame, lines |-> sensor.lines, width |-> sensor.width,
                line |-> Line, col |-> Column, bright |-> level]
NoByte == [frame |-> 0, lines |-> 1, width |-> 1, line |-> 0, col |-> 0, bright |-> FALSE]

\* The brightness of the byte that comes now.
LevelsNow == IF Href /\ Column = 0 THEN Levels ELSE {ev.byte.bright}

SensorNext(lines, width) ==
    IF sensor.t + 1 < FrameTime(sensor.lines, sensor.width) THEN [sensor EXCEPT !.t = @ + 1]
    ELSE [sensor EXCEPT !.frame = @ + 1, !.lines = lines, !.width = width, !.t = 0]

\* The reset ends at any time of a frame.
CameraInit ==
    /\ \E high \in Polarities, lines \in LineCounts, width \in LineWidths :
           \E t \in 0..(FrameTime(lines, width) - 1) :
               sensor = [high |-> high, frame |-> 1, lines |-> lines, width |-> width, t |-> t]
    /\ cap = [v0 |-> FALSE, v1 |-> FALSE, h0 |-> FALSE, h1 |-> FALSE,
              locked |-> FALSE, onRise |-> FALSE, edge |-> FALSE, wasRise |-> FALSE,
              seen |-> FALSE]
    /\ ev = [fs |-> FALSE, fe |-> FALSE, ls |-> FALSE, le |-> FALSE, pv |-> FALSE,
             byte |-> NoByte, x |-> 0, y |-> 0]
    /\ sync = [lines |-> 0, bytes |-> 0, locked |-> FALSE, last |-> <<0, 0>>, before |-> <<0, 0>>]
    /\ packer = [phase |-> FALSE, byte |-> NoByte, fs |-> FALSE, fe |-> FALSE,
                 valid |-> FALSE, pixel |-> <<NoByte, NoByte>>, fs16 |-> FALSE, fe16 |-> FALSE]
    /\ core = [bytes |-> 0, bright |-> 0, lineBytes |-> 0, width |-> 0, id |-> 0,
               wr |-> FALSE, rec |-> [id |-> 0, active |-> 0, bright |-> 0]]
    /\ enable = TRUE /\ toggles = 0
    /\ first = <<1, IF Href THEN Line ELSE -1>>
    /\ tally = [frame |-> 0, total |-> 0, bytes |-> 0, inner |-> 0, outer |-> 0,
                lines |-> 1, width |-> 1]
    /\ pixels = [frame |-> 0, n |-> 0, lines |-> 1, width |-> 1]
    /\ reported = 0

(***************************************************************************)
(* ov2640_capture_if.                                                      *)
(***************************************************************************)
VsyncRise == cap.v0 /\ ~cap.v1
VsyncFall == ~cap.v0 /\ cap.v1
HrefRise  == cap.h0 /\ ~cap.h1
HrefFall  == ~cap.h0 /\ cap.h1
VsyncEdge == VsyncRise \/ VsyncFall

\* A capture that takes either edge of VSYNC for the frame boundary.
BoundaryEitherEdge == cap.locked /\ VsyncEdge
Boundary == cap.locked /\ (IF cap.onRise THEN VsyncRise ELSE VsyncFall)

LockPolarity == ~cap.locked /\ HrefRise /\ (VsyncEdge \/ cap.edge)

\* A capture that sees the frame end at the first boundary already.
CaptureSeenEarly ==
    [v0 |-> Vsync, v1 |-> cap.v0, h0 |-> Href, h1 |-> cap.h0,
     locked |-> cap.locked \/ LockPolarity,
     onRise |-> IF LockPolarity THEN (IF VsyncEdge THEN VsyncRise ELSE cap.wasRise)
                ELSE cap.onRise,
     edge |-> cap.edge \/ VsyncEdge,
     wasRise |-> IF VsyncEdge THEN VsyncRise ELSE cap.wasRise,
     seen |-> cap.seen \/ LockPolarity]

CaptureNext ==
    [v0 |-> Vsync, v1 |-> cap.v0, h0 |-> Href, h1 |-> cap.h0,
     locked |-> cap.locked \/ LockPolarity,
     onRise |-> IF LockPolarity THEN (IF VsyncEdge THEN VsyncRise ELSE cap.wasRise)
                ELSE cap.onRise,
     edge |-> cap.edge \/ VsyncEdge,
     wasRise |-> IF VsyncEdge THEN VsyncRise ELSE cap.wasRise,
     seen |-> cap.seen \/ Boundary]

\* Events whose x_cnt is not cleared at the end of a line.
EventsKeepX(level) ==
    [fs |-> Boundary, fe |-> Boundary /\ cap.seen, ls |-> HrefRise, le |-> HrefFall,
     pv |-> Href, byte |-> IF Href THEN Byte(level) ELSE ev.byte,
     x |-> IF Href THEN ev.x + 1 ELSE IF Boundary THEN 0 ELSE ev.x,
     y |-> IF HrefFall THEN ev.y + 1 ELSE IF Boundary THEN 0 ELSE ev.y]

EventsNext(level) ==
    [fs |-> Boundary, fe |-> Boundary /\ cap.seen, ls |-> HrefRise, le |-> HrefFall,
     pv |-> Href, byte |-> IF Href THEN Byte(level) ELSE ev.byte,
     x |-> IF HrefFall THEN 0 ELSE IF Href THEN ev.x + 1
           ELSE IF HrefRise \/ Boundary THEN 0 ELSE ev.x,
     y |-> IF HrefFall THEN ev.y + 1 ELSE IF Boundary THEN 0 ELSE ev.y]

(***************************************************************************)
(* frame_sync_counter.  last and before are line_cnt_last, pixel_cnt_last  *)
(* of the last two frames.                                                 *)
(***************************************************************************)
SyncNext ==
    [lines |-> IF ev.ls THEN sync.lines + 1 ELSE IF ev.fs THEN 0 ELSE sync.lines,
     bytes |-> IF ev.pv THEN sync.bytes + 1 ELSE IF ev.fs THEN 0 ELSE sync.bytes,
     locked |-> IF ev.fe THEN sync.bytes # 0 /\ sync.lines # 0 ELSE sync.locked,
     last |-> IF ev.fe THEN <<sync.lines, sync.bytes>> ELSE sync.last,
     before |-> IF ev.fe THEN sync.last ELSE sync.before]

(***************************************************************************)
(* ov2640_rgb565_packer.                                                   *)
(***************************************************************************)
Pair == ev.pv /\ packer.phase

\* A packer that carries half a pixel into the next line.
PhaseKept == IF ev.pv THEN ~packer.phase ELSE packer.phase
PhaseNext == IF ev.pv THEN ~packer.phase ELSE packer.phase /\ ~ev.le

PackerNext ==
    [phase |-> PhaseNext,
     byte |-> IF ev.pv /\ ~packer.phase THEN ev.byte ELSE packer.byte,
     fs |-> ~Pair /\ (packer.fs \/ ev.fs), fe |-> ~Pair /\ (packer.fe \/ ev.fe),
     valid |-> Pair,
     pixel |-> IF Pair THEN <<packer.byte, ev.byte>> ELSE packer.pixel,
     fs16 |-> Pair /\ packer.fs, fe16 |-> Pair /\ packer.fe]

(***************************************************************************)
(* vision_preprocess_core: the counters, cleared by frame_start, and the   *)
(* record, written at frame_end.                                           *)
(***************************************************************************)
\* An ROI that leaves out its first byte.
InRoiOpen == RoiX < ev.x /\ ev.x < RoiX + RoiW
InRoi == RoiX <= ev.x /\ ev.x < RoiX + RoiW
Counted == enable /\ ev.pv

\* A core that does not clear its counters for the next frame.
ClearNever == FALSE
ClearCounts == ev.fs

CoreNext ==
    [bytes |-> IF Counted THEN core.bytes + 1 ELSE IF ClearCounts THEN 0 ELSE core.bytes,
     bright |-> IF Counted /\ InRoi /\ ev.byte.bright THEN (core.bright + 1) % CountMod
                ELSE IF ClearCounts THEN 0 ELSE core.bright,
     lineBytes |-> IF Counted THEN core.lineBytes + 1
                   ELSE IF ev.ls \/ ev.fs THEN 0 ELSE core.lineBytes,
     width |-> IF ev.le /\ enable THEN core.lineBytes \div 2 ELSE IF ev.fs THEN 0 ELSE core.width,
     id |-> IF ev.fe /\ enable THEN core.id + 1 ELSE core.id,
     wr |-> ev.fe /\ enable,
     rec |-> IF ev.fe /\ enable
             THEN [id |-> core.id + 1, active |-> core.bytes \div 2, bright |-> core.bright]
             ELSE core.rec]

(***************************************************************************)
(* A clock edge.  The histories know the place of each byte.               *)
(***************************************************************************)
\* The ROI [roi_x, roi_x + roi_w) when the bytes of a line are numbered from 0, as they
\* are meant to be, and also from 1, as x_cnt does; or by one of the two at least.
InnerRoi(byte) == RoiX <= byte.col /\ byte.col < RoiX + RoiW - 1
OuterRoi(byte) == RoiX - 1 <= byte.col /\ byte.col < RoiX + RoiW

TallyNext ==
    IF ~ev.pv THEN tally
    ELSE LET new == ev.byte.frame # tally.frame
             of(n) == IF new THEN 0 ELSE n
         IN [frame |-> ev.byte.frame, lines |-> ev.byte.lines, width |-> ev.byte.width,
             total |-> of(tally.total) + 1,
             bytes |-> of(tally.bytes) + (IF enable THEN 1 ELSE 0),
             inner |-> of(tally.inner)
                       + (IF enable /\ ev.byte.bright /\ InnerRoi(ev.byte) THEN 1 ELSE 0),
             outer |-> of(tally.outer)
                       + (IF enable /\ ev.byte.bright /\ OuterRoi(ev.byte) THEN 1 ELSE 0)]

PixelsNext ==
    IF ~packer.valid THEN pixels
    ELSE LET p == packer.pixel[2] IN
         [frame |-> p.frame, lines |-> p.lines, width |-> p.width,
          n |-> IF p.frame = pixels.frame THEN pixels.n + 1 ELSE 1]

Edge(level, lines, width) ==
    /\ sensor.frame <= MaxPictures
    /\ sensor' = SensorNext(lines, width)
    /\ cap' = CaptureNext
    /\ ev' = EventsNext(level)
    /\ sync' = SyncNext
    /\ packer' = PackerNext
    /\ core' = CoreNext
    /\ tally' = TallyNext
    /\ pixels' = PixelsNext
    /\ reported' = IF core.wr THEN tally.frame ELSE reported
    /\ UNCHANGED <<enable, toggles, first>>

\* capture_enable_cam_ff1 changes.
Toggle ==
    /\ toggles < MaxToggles /\ toggles' = toggles + 1
    /\ enable' = ~enable
    /\ UNCHANGED <<sensor, cap, ev, sync, packer, core, first, tally, pixels, reported>>

CameraNext ==
    \/ \E level \in LevelsNow, lines \in LineCounts, width \in LineWidths :
           Edge(level, lines, width)
    \/ Toggle

CameraSpec == CameraInit /\ [][CameraNext]_cameraVars

-----------------------------------------------------------------------------
AnyByte == [frame : Nat, lines : Nat, width : Nat, line : Nat, col : Nat, bright : BOOLEAN]

CameraTypeOK ==
    /\ sensor \in [high : Polarities, frame : Nat \ {0}, lines : LineCounts, width : LineWidths,
                   t : Nat]
    /\ sensor.t < FrameTime(sensor.lines, sensor.width)
    /\ cap \in [v0 : BOOLEAN, v1 : BOOLEAN, h0 : BOOLEAN, h1 : BOOLEAN, locked : BOOLEAN,
                onRise : BOOLEAN, edge : BOOLEAN, wasRise : BOOLEAN, seen : BOOLEAN]
    /\ ev \in [fs : BOOLEAN, fe : BOOLEAN, ls : BOOLEAN, le : BOOLEAN, pv : BOOLEAN,
               byte : AnyByte, x : Nat, y : Nat]
    /\ sync \in [lines : Nat, bytes : Nat, locked : BOOLEAN, last : Nat \X Nat,
                 before : Nat \X Nat]
    /\ packer \in [phase : BOOLEAN, byte : AnyByte, fs : BOOLEAN, fe : BOOLEAN, valid : BOOLEAN,
                   pixel : AnyByte \X AnyByte, fs16 : BOOLEAN, fe16 : BOOLEAN]
    /\ core \in [bytes : Nat, bright : 0..(CountMod - 1), lineBytes : Nat, width : Nat, id : Nat,
                 wr : BOOLEAN, rec : [id : Nat, active : Nat, bright : Nat]]
    /\ enable \in BOOLEAN /\ toggles \in 0..MaxToggles /\ first \in Nat \X Int
    /\ tally \in [frame : Nat, total : Nat, bytes : Nat, inner : Nat, outer : Nat, lines : Nat,
                 width : Nat]
    /\ pixels \in [frame : Nat, n : Nat, lines : Nat, width : Nat]
    /\ reported \in Nat

\* A record (stats_din) counts the bytes of exactly one frame, all of them unless
\* capture was disabled meanwhile: the frame boundary is found with either polarity
\* of VSYNC, the first, partial frame after a reset is never reported, and nothing
\* of a frame leaks into the next.  bright_count counts the bright bytes of the ROI
\* (vision_preprocess_core.v:8) but for those at its two edges, where x_cnt disagrees
\* with line 68 by a byte (RoiExact), and as long as the 16 bits can hold them
\* (CountExact).
RecordIsOneFrame ==
    core.wr =>
        /\ tally.total = tally.lines * tally.width
        /\ core.rec.active = tally.bytes \div 2
        /\ tally.outer < CountMod => core.rec.bright \in tally.inner .. tally.outer

\* The records follow the frames: none is reported twice, and while capture stays
\* enabled none is left out.
NoFrameSkipped ==
    core.wr => /\ tally.frame > reported
               /\ reported > 0 /\ toggles = 0 => tally.frame = reported + 1

\* A 16-bit pixel consists of neighbouring bytes 2k and 2k + 1 of a line, also when
\* lines have an odd number of bytes; only the line in which the reset ended may be
\* paired wrongly.
PixelsAligned ==
    packer.valid =>
        LET a == packer.pixel[1]  b == packer.pixel[2] IN
        /\ a.frame = b.frame /\ a.line = b.line /\ b.col = a.col + 1
        /\ <<a.frame, a.line>> # first => a.col % 2 = 0

\* Once frames are marked, frame_start_16 comes with the first pixel of every frame
\* and with no other; frame_end_16 comes with it too, when all pixels of the frame
\* before have been packed.
FramesMarked ==
    packer.valid /\ cap.seen =>
        LET a == packer.pixel[1] IN
        /\ packer.fs16 <=> a.line = 0 /\ a.col = 0
        /\ packer.fe16 => /\ packer.fs16
                          /\ pixels.frame = a.frame - 1
                          /\ pixels.n = pixels.lines * (pixels.width \div 2)

\* What vision_preprocess_core.v:68 says: the ROI covers the bytes [roi_x, roi_x + roi_w)
\* of every line but the one in which the reset ended.  It does not hold: x_cnt is 1 for
\* the first byte of a line.
RoiExact ==
    ev.pv /\ <<ev.byte.frame, ev.byte.line>> # first =>
        (InRoi <=> RoiX <= ev.byte.col /\ ev.byte.col < RoiX + RoiW)

\* The ROI chosen on the preview, in pixels, is the ROI of the statistics: the bytes of
\* the pixels inside it count, the pixels at its edges left aside.
RoiOfPreview ==
    LET pixel == ev.byte.col \div 2 IN
    ev.pv /\ <<ev.byte.frame, ev.byte.line>> # first =>
        (RoiX < pixel /\ pixel < RoiX + RoiW - 1 => InRoi)

\* bright_count has room for every picture.  It does not hold when 2^16 bytes are bright.
CountExact == core.wr => core.rec.bright \in tally.inner .. tally.outer
==============================================================================
