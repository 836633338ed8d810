---------------------------- MODULE VisionProofs ----------------------------
(***************************************************************************)
(* From the bytes of the sensor to the event table.  First the camera      *)
(* clock by clock (CameraPath), for every geometry of the frames, ROI and  *)
(* range of the counters: records are whole frames, none is left out, and  *)
(* pixels and marks are aligned.  Then the way of an alarm (AlarmPath),    *)
(* for every number of frames, commands, losses, clears and restarts:      *)
(* events are alarms, and without a backlog the bit of a packet is the     *)
(* decision on its record.  Last the initialisation of the camera, clock   *)
(* by clock (SccbInit), for every table, width of bytes and divider: done  *)
(* without an error means that every entry has been written, and delays    *)
(* are kept.                                                               *)
(***************************************************************************)
EXTENDS CameraPath, AlarmPath, SccbInit, TLAPS, SequenceTheorems, FiniteSetTheorems, WellFoundedInduction

-----------------------------------------------------------------------------
(***************************************************************************)
(* The camera.  What the sensor sends is a function of its time, and what  *)
(* the capture, the packer and the counters hold is what it sent one or    *)
(* two clocks ago: the parts of the inductive invariant say so, each of    *)
(* one component, or that the reset has just ended.                        *)
(***************************************************************************)
\* The time of the first byte of a frame; for frames of l lines of w bytes:
\* line and column at time u, whether a byte is sent, and the bytes and whole pixels sent before.
Lead == VSyncLen + Porch
RowAt(u, w) == (u - Lead) \div (w + HGap)
ColumnAt(u, w) == (u - Lead) % (w + HGap)
LitAt(u, l, w) == u >= Lead /\ RowAt(u, w) < l /\ ColumnAt(u, w) < w
InLine(u, w) == IF ColumnAt(u, w) < w THEN ColumnAt(u, w) ELSE w
BytesAt(u, l, w) ==
    IF u < Lead THEN 0
    ELSE IF RowAt(u, w) < l THEN w * RowAt(u, w) + InLine(u, w) ELSE w * l
PairsAt(u, l, w) ==
    IF u < Lead THEN 0
    ELSE IF RowAt(u, w) < l THEN (w \div 2) * RowAt(u, w) + (InLine(u, w) \div 2)
    ELSE (w \div 2) * l
VsyncAt(u, high) == (0 <= u /\ u < VSyncLen) = high

\* What was sent one clock ago, and two clocks ago.
Lit1 == LitAt(sensor.t - 1, sensor.lines, sensor.width)
Lit2 == LitAt(sensor.t - 2, sensor.lines, sensor.width)
Row1 == RowAt(sensor.t - 1, sensor.width)
Row2 == RowAt(sensor.t - 2, sensor.width)
Col1 == ColumnAt(sensor.t - 1, sensor.width)
Col2 == ColumnAt(sensor.t - 2, sensor.width)
Bytes1 == BytesAt(sensor.t - 1, sensor.lines, sensor.width)
Pairs2 == PairsAt(sensor.t - 2, sensor.lines, sensor.width)
Vsync1 == VsyncAt(sensor.t - 1, sensor.high)
Vsync2 == VsyncAt(sensor.t - 2, sensor.high)

\* The time at which the edge of VSYNC chosen as the boundary is seen.
Turn == IF cap.onRise = sensor.high THEN 1 ELSE VSyncLen + 1

Unlocked == ~cap.v1 /\ ~cap.h1 /\ ~cap.locked /\ ~cap.edge /\ ~cap.seen

\* The reset has just ended; or the samples are those of the sensor, one clock and two clocks
\* old, except that the older ones may still be those of the reset.
Fresh ==
    /\ sensor.frame = 1 /\ ~cap.v0 /\ ~cap.h0 /\ Unlocked /\ ~ev.pv /\ ev.x = 0 /\ ~packer.phase
    /\ first = <<1, IF Href THEN Line ELSE -1>>
Sampled ==
    /\ (cap.v0 <=> Vsync1) /\ (cap.h0 <=> Lit1) /\ (ev.pv <=> Lit1)
    /\ ((cap.v1 <=> Vsync2) /\ (cap.h1 <=> Lit2)) \/ Unlocked
Here(byte, row, col) ==
    /\ byte.frame = sensor.frame /\ byte.lines = sensor.lines /\ byte.width = sensor.width
    /\ byte.line = row /\ byte.col = col

\* The capture: which byte ev holds, when the polarity and frame_seen are known, and that
\* frame_start comes one clock after the boundary.
CaptureInv ==
    /\ Fresh \/ Sampled
    /\ ev.pv => Here(ev.byte, Row1, Col1)
    /\ first[1] = 1
    /\ cap.locked => (sensor.frame > 1 \/ sensor.t > Lead)
    /\ cap.seen => cap.locked /\ (sensor.frame > 2 \/ (sensor.frame = 2 /\ sensor.t > Turn))
    /\ ev.fs <=> cap.seen /\ sensor.t = Turn + 1
    /\ ev.fe => ev.fs /\ sensor.frame > 2

\* x_cnt counts the bytes of a line from its first one, but for the line the reset ended in.
NotFirst(row) == <<sensor.frame, row>> # first
PlaceInv ==
    /\ ev.pv => (NotFirst(Row1) => ev.x = Col1 + 1)
    /\ ~ev.pv => ev.x = 0 \/ HrefFall

\* The packer holds the byte before, at the odd columns, and its pixel is two clocks old.
PairInv ==
    /\ ev.pv => /\ packer.phase => Col1 > 0 /\ Here(packer.byte, Row1, Col1 - 1)
                /\ NotFirst(Row1) => (packer.phase <=> Col1 % 2 = 1)
    /\ ~ev.pv => (packer.phase => HrefFall \/ ev.le)
    /\ packer.valid => /\ Lit2
                       /\ Here(packer.pixel[1], Row2, Col2 - 1) /\ Here(packer.pixel[2], Row2, Col2)
                       /\ NotFirst(Row2) => Col2 % 2 = 1
    /\ sensor.frame > 1 /\ Lit2 /\ Col2 % 2 = 1 => packer.valid

\* The frame marks wait in the packer from the boundary to the first pixel.
MarkInv ==
    /\ packer.fs <=> cap.seen /\ Turn + 2 <= sensor.t /\ sensor.t <= Lead + 2
    /\ packer.fe => packer.fs /\ sensor.frame > 2
    /\ packer.valid => (packer.fs16 <=> cap.seen /\ sensor.t = Lead + 3)
    /\ packer.fe16 => packer.fs16 /\ sensor.frame > 2

\* The pixels packed are those of the frame before until the first pixel comes, and from then on
\* those sent up to two clocks ago.
PixelInv ==
    /\ pixels.frame <= sensor.frame
    /\ sensor.frame > 1 /\ sensor.t <= Lead + 3 => pixels.frame < sensor.frame
    /\ sensor.frame > 2 /\ sensor.t <= Lead + 3 =>
           pixels.frame = sensor.frame - 1 /\ pixels.n = pixels.lines * (pixels.width \div 2)
    /\ sensor.frame > 1 /\ sensor.t > Lead + 3 =>
           /\ pixels.frame = sensor.frame /\ pixels.n = Pairs2
           /\ pixels.lines = sensor.lines /\ pixels.width = sensor.width

\* The bytes the core was given, likewise, one clock old.
TallyInv ==
    /\ tally.frame <= sensor.frame
    /\ sensor.frame > 1 /\ sensor.t <= Lead + 1 => tally.frame < sensor.frame
    /\ sensor.frame > 2 /\ sensor.t <= Lead + 1 =>
           tally.frame = sensor.frame - 1 /\ tally.total = tally.lines * tally.width
    /\ sensor.frame > 1 /\ sensor.t > Lead + 1 =>
           /\ tally.frame = sensor.frame /\ tally.total = Bytes1
           /\ tally.lines = sensor.lines /\ tally.width = sensor.width

\* The counters agree with the tally except between frame_start and the first byte, when they
\* are cleared; the record is written one clock after frame_end, before that byte.
Bounded(n, inner, outer) == outer < CountMod => inner <= n /\ n <= outer
Same(bytes, bright) == bytes = tally.bytes /\ Bounded(bright, tally.inner, tally.outer)
CountInv ==
    /\ cap.seen /\ (sensor.t <= Turn \/ sensor.t > Lead + 1 \/ ev.fe) =>
           Same(core.bytes, core.bright)
    /\ cap.seen /\ sensor.t >= Turn + 2 /\ sensor.t <= Lead + 1 => core.bytes = 0 /\ core.bright = 0
    /\ core.wr => /\ cap.seen /\ sensor.t = Turn + 2 /\ sensor.frame > 2
                  /\ core.rec.active = tally.bytes \div 2
                  /\ Bounded(core.rec.bright, tally.inner, tally.outer)

\* The frame of the last record, when none was left out.
Reported == IF sensor.t <= Turn + 2 THEN sensor.frame - 2 ELSE sensor.frame - 1
ReportInv ==
    /\ toggles = 0 => enable
    /\ reported > 0 =>
           /\ cap.seen /\ reported <= Reported
           /\ sensor.t = Turn + 1 => ev.fe
           /\ toggles = 0 => /\ reported = Reported
                             /\ sensor.t = Turn + 2 => core.wr

\* Division with remainder, and that there is only one.
LEMMA Euclid ==
    ASSUME NEW a \in Nat, NEW m \in Nat \ {0}
    PROVE  /\ a \div m \in Nat /\ a % m \in 0..(m - 1)
           /\ a = m * (a \div m) + (a % m)
OBVIOUS

LEMMA Smaller ==
    ASSUME NEW m \in Nat \ {0}, NEW p \in Int, NEW q \in Int, p < q
    PROVE  m * p + m <= m * q
<1>1. PICK d \in Nat \ {0} : q = p + d
  <2>1. q - p \in Nat \ {0} /\ q = p + (q - p)
    OBVIOUS
  <2> QED BY <2>1
<1>2. m * q = m * p + m * d
  BY <1>1
<1>3. m * d >= m
  OBVIOUS
<1>4. m * p \in Int /\ m * q \in Int /\ m * d \in Int
  OBVIOUS
<1> QED BY <1>2, <1>3, <1>4

LEMMA Unique ==
    ASSUME NEW m \in Nat \ {0}, NEW p \in Int, NEW q \in Int,
           NEW r \in 0..(m - 1), NEW s \in 0..(m - 1),
           m * p + r = m * q + s
    PROVE  p = q /\ r = s
<1>1. m * p \in Int /\ m * q \in Int
  OBVIOUS
<1>2. ~(p < q)
  BY <1>1, Smaller
<1>3. ~(q < p)
  BY <1>1, Smaller
<1>4. p = q
  BY <1>2, <1>3
<1> QED BY <1>4, <1>1

LEMMA Product == ASSUME NEW m \in Int, NEW q \in Int PROVE m * q \in Int /\ m * (q + 1) = m * q + m
OBVIOUS

\* One unit later: the next place in the same row, or the first of the next row.
LEMMA NextPlace ==
    ASSUME NEW a \in Nat, NEW m \in Nat \ {0}
    PROVE  IF (a % m) + 1 = m THEN (a + 1) \div m = (a \div m) + 1 /\ (a + 1) % m = 0
           ELSE (a + 1) \div m = a \div m /\ (a + 1) % m = (a % m) + 1
<1>1. PICK q \in Nat, r \in 0..(m - 1) : q = a \div m /\ r = a % m /\ a = m * q + r
  BY Euclid
<1>2. a + 1 \in Nat
  OBVIOUS
<1>3. PICK p \in Nat, s \in 0..(m - 1) :
          p = (a + 1) \div m /\ s = (a + 1) % m /\ a + 1 = m * p + s
  BY <1>2, Euclid
<1>4. m * q \in Int /\ m * p \in Int /\ m * (q + 1) = m * q + m
  BY Product
<1>5. CASE r + 1 = m
  <2>1. m * (q + 1) + 0 = m * p + s
    BY <1>1, <1>3, <1>4, <1>5
  <2>2. q + 1 \in Int /\ p \in Int /\ 0 \in 0..(m - 1)
    OBVIOUS
  <2>3. q + 1 = p /\ 0 = s
    BY <2>1, <2>2, Unique
  <2> QED BY <1>1, <1>3, <1>5, <2>3
<1>6. CASE r + 1 # m
  <2>1. m * q + (r + 1) = m * p + s
    BY <1>1, <1>3, <1>4
  <2>2. q \in Int /\ p \in Int /\ r + 1 \in 0..(m - 1)
    BY <1>6
  <2>3. q = p /\ r + 1 = s
    BY <2>1, <2>2, Unique
  <2> QED BY <1>1, <1>3, <1>6, <2>3
<1> QED BY <1>5, <1>6

\* The rows below l are the first m * l places.
LEMMA Below ==
    ASSUME NEW a \in Nat, NEW m \in Nat \ {0}, NEW l \in Nat
    PROVE  a \div m < l <=> a < m * l
<1>1. PICK q \in Nat, r \in 0..(m - 1) : q = a \div m /\ r = a % m /\ a = m * q + r
  BY Euclid
<1>2. m * q \in Int /\ m * l \in Int
  BY Product
<1>3. q < l => m * q + m <= m * l
  BY Smaller
<1>4. l < q => m * l + m <= m * q
  BY Smaller
<1>5. q = l => m * l = m * q
  OBVIOUS
<1>6. q < l <=> a < m * l
  BY <1>1, <1>2, <1>3, <1>4, <1>5
<1> QED BY <1>1, <1>6

LEMMA Sizes ==
    /\ HGap \in Nat /\ HGap > 1 /\ VSyncLen \in Nat /\ VSyncLen > 1 /\ Porch \in Nat /\ Porch > 1
    /\ Lead \in Nat /\ Lead = VSyncLen + Porch
    /\ LineCounts \subseteq Nat \ {0} /\ LineWidths \subseteq Nat \ {0}
    /\ Polarities \subseteq BOOLEAN
    /\ RoiX \in Nat /\ RoiW \in Nat /\ CountMod \in Nat \ {0}
BY GeometryAssumption, RegistersAssumption DEF Lead

\* Where a byte is.
LEMMA Places ==
    ASSUME NEW u \in Int, NEW w \in Nat \ {0}, u >= Lead
    PROVE  /\ RowAt(u, w) \in Nat /\ ColumnAt(u, w) \in 0..(w + HGap - 1)
           /\ IF ColumnAt(u, w) + 1 = w + HGap
              THEN RowAt(u + 1, w) = RowAt(u, w) + 1 /\ ColumnAt(u + 1, w) = 0
              ELSE RowAt(u + 1, w) = RowAt(u, w) /\ ColumnAt(u + 1, w) = ColumnAt(u, w) + 1
<1>1. PICK a \in Nat, m \in Nat \ {0} : a = u - Lead /\ m = w + HGap /\ (u + 1) - Lead = a + 1
  BY Sizes
<1>2. a \div m \in Nat /\ a % m \in 0..(m - 1)
  BY Euclid
<1>3. IF (a % m) + 1 = m THEN (a + 1) \div m = (a \div m) + 1 /\ (a + 1) % m = 0
      ELSE (a + 1) \div m = a \div m /\ (a + 1) % m = (a % m) + 1
  BY NextPlace
<1>4. /\ RowAt(u, w) = a \div m /\ ColumnAt(u, w) = a % m
      /\ RowAt(u + 1, w) = (a + 1) \div m /\ ColumnAt(u + 1, w) = (a + 1) % m
  BY <1>1 DEF RowAt, ColumnAt
<1>5. RowAt(u, w) \in Nat /\ ColumnAt(u, w) \in 0..(w + HGap - 1)
  BY <1>1, <1>2, <1>4, Sizes
<1>6. (ColumnAt(u, w) + 1 = w + HGap) <=> ((a % m) + 1 = m)
  BY <1>1, <1>4
<1> QED BY <1>3, <1>4, <1>5, <1>6

LEMMA FirstPlace ==
    ASSUME NEW w \in Nat \ {0}
    PROVE  /\ RowAt(Lead, w) = 0 /\ ColumnAt(Lead, w) = 0
           /\ RowAt(Lead + 1, w) = 0 /\ ColumnAt(Lead + 1, w) = 1
<1>1. PICK m \in Nat \ {0} : m = w + HGap
  BY Sizes
<1>2. 0 \div m = 0 /\ 0 % m = 0
  <2>1. PICK q \in Nat, r \in 0..(m - 1) : q = 0 \div m /\ r = 0 % m /\ 0 = m * q + r
    <3>1. 0 \in Nat
      OBVIOUS
    <3> QED BY <3>1, Euclid
  <2>2. m * 0 + 0 = m * q + r /\ 0 \in 0..(m - 1) /\ 0 \in Int /\ q \in Int
    BY <2>1
  <2>3. 0 = q /\ 0 = r
    BY <2>2, Unique
  <2> QED BY <2>1, <2>3
<1>3. RowAt(Lead, w) = 0 /\ ColumnAt(Lead, w) = 0
  <2>1. Lead - Lead = 0
    BY Sizes
  <2> QED BY <1>1, <1>2, <2>1 DEF RowAt, ColumnAt
<1>4. 0 + 1 # w + HGap
  BY Sizes
<1>5. RowAt(Lead + 1, w) = 0 /\ ColumnAt(Lead + 1, w) = 0 + 1
  <2>1. Lead \in Int /\ Lead >= Lead
    BY Sizes
  <2>2. IF ColumnAt(Lead, w) + 1 = w + HGap
        THEN RowAt(Lead + 1, w) = RowAt(Lead, w) + 1 /\ ColumnAt(Lead + 1, w) = 0
        ELSE RowAt(Lead + 1, w) = RowAt(Lead, w) /\ ColumnAt(Lead + 1, w) = ColumnAt(Lead, w) + 1
    BY <2>1, Places
  <2> QED BY <1>3, <1>4, <2>2
<1> QED BY <1>3, <1>5

\* After the last line nothing is sent.
LEMMA AfterLines ==
    ASSUME NEW u \in Int, NEW l \in Nat \ {0}, NEW w \in Nat \ {0}, u + 3 >= FrameTime(l, w)
    PROVE  /\ u >= Lead /\ u + 1 >= Lead /\ ~LitAt(u, l, w)
           /\ RowAt(u + 1, w) >= l
<1> DEFINE m == w + HGap
<1>1. m \in Nat \ {0} /\ m >= 3 /\ l * m \in Int /\ l * m = m * l
  BY Sizes
<1>2. m * l >= m
  BY <1>1, Product
<1>3. u + 3 >= Lead + Porch + m * l
  BY <1>1, Sizes DEF FrameTime
<1>4. u >= Lead /\ (u + 1) - Lead >= m * l /\ (u + 1) - Lead \in Nat
  BY <1>1, <1>2, <1>3, Sizes
<1>5. ~(((u + 1) - Lead) \div m < l)
  BY <1>1, <1>4, Below
<1>6. RowAt(u + 1, w) \in Nat
  <2>1. u + 1 \in Int /\ u + 1 >= Lead
    BY <1>4, Sizes
  <2> QED BY <2>1, Places
<1>7. RowAt(u + 1, w) >= l
  BY <1>5, <1>6 DEF RowAt
<1>8. ~LitAt(u, l, w)
  <2>1. RowAt(u, w) \in Nat /\ ColumnAt(u, w) \in Nat
        /\ (ColumnAt(u, w) < w => RowAt(u + 1, w) = RowAt(u, w))
    <3>1. /\ RowAt(u, w) \in Nat /\ ColumnAt(u, w) \in 0..(w + HGap - 1)
          /\ IF ColumnAt(u, w) + 1 = w + HGap
             THEN RowAt(u + 1, w) = RowAt(u, w) + 1 /\ ColumnAt(u + 1, w) = 0
             ELSE RowAt(u + 1, w) = RowAt(u, w) /\ ColumnAt(u + 1, w) = ColumnAt(u, w) + 1
      BY <1>4, Places
    <3> QED BY <3>1, Sizes
  <2> QED BY <1>7, <2>1 DEF LitAt
<1> QED BY <1>4, <1>7, <1>8, Sizes

\* A line starts with its first byte, goes on byte after byte, and is followed by a gap.
LEMMA LitStep ==
    ASSUME NEW u \in Int, NEW l \in Nat \ {0}, NEW w \in Nat \ {0}
    PROVE  /\ LitAt(u, l, w) => RowAt(u, w) \in Nat /\ ColumnAt(u, w) \in Nat
           /\ LitAt(u + 1, l, w) /\ ~LitAt(u, l, w) => ColumnAt(u + 1, w) = 0
           /\ LitAt(u + 1, l, w) /\ LitAt(u, l, w) =>
                  RowAt(u + 1, w) = RowAt(u, w) /\ ColumnAt(u + 1, w) = ColumnAt(u, w) + 1
           /\ LitAt(u, l, w) /\ ~LitAt(u + 1, l, w) => ~LitAt(u + 2, l, w)
<1>1. CASE u < Lead
  <2>1. ~LitAt(u, l, w)
    BY <1>1, Sizes DEF LitAt
  <2>2. u + 1 >= Lead => u + 1 = Lead
    BY <1>1, Sizes
  <2> QED BY <2>1, <2>2, FirstPlace DEF LitAt
<1>2. CASE u >= Lead
  <2>1. PICK r \in Nat, c \in Nat : r = RowAt(u, w) /\ c = ColumnAt(u, w)
                                    /\ c \in 0..(w + HGap - 1)
    <3>1. RowAt(u, w) \in Nat /\ ColumnAt(u, w) \in 0..(w + HGap - 1)
      BY <1>2, Places
    <3> QED BY <3>1, Sizes
  <2>2. u + 1 \in Int /\ u + 1 >= Lead /\ (u + 1) + 1 = u + 2 /\ u + 2 >= Lead
    BY <1>2, Sizes
  <2>3. IF c + 1 = w + HGap THEN RowAt(u + 1, w) = r + 1 /\ ColumnAt(u + 1, w) = 0
        ELSE RowAt(u + 1, w) = r /\ ColumnAt(u + 1, w) = c + 1
    BY <1>2, <2>1, Places
  <2>4. IF ColumnAt(u + 1, w) + 1 = w + HGap
        THEN RowAt(u + 2, w) = RowAt(u + 1, w) + 1 /\ ColumnAt(u + 2, w) = 0
        ELSE RowAt(u + 2, w) = RowAt(u + 1, w) /\ ColumnAt(u + 2, w) = ColumnAt(u + 1, w) + 1
    BY <2>2, Places
  <2>5. LitAt(u, l, w) <=> r < l /\ c < w
    BY <1>2, <2>1 DEF LitAt
  <2>6. LitAt(u + 1, l, w) <=> RowAt(u + 1, w) < l /\ ColumnAt(u + 1, w) < w
    BY <2>2 DEF LitAt
  <2>7. LitAt(u + 2, l, w) <=> RowAt(u + 2, w) < l /\ ColumnAt(u + 2, w) < w
    BY <2>2 DEF LitAt
  <2>8. LitAt(u + 1, l, w) /\ ~LitAt(u, l, w) => ColumnAt(u + 1, w) = 0
    BY <2>1, <2>3, <2>5, <2>6, Sizes
  <2>9. LitAt(u + 1, l, w) /\ LitAt(u, l, w) =>
            RowAt(u + 1, w) = r /\ ColumnAt(u + 1, w) = c + 1
    BY <2>1, <2>3, <2>5, <2>6, Sizes
  <2>10. LitAt(u, l, w) /\ ~LitAt(u + 1, l, w) => ~LitAt(u + 2, l, w)
    <3> SUFFICES ASSUME LitAt(u, l, w), ~LitAt(u + 1, l, w) PROVE ~LitAt(u + 2, l, w)
      OBVIOUS
    <3>1. ColumnAt(u + 1, w) = w /\ RowAt(u + 1, w) = r
      BY <2>1, <2>3, <2>5, <2>6, Sizes
    <3>2. ColumnAt(u + 2, w) = w + 1
      BY <2>4, <3>1, Sizes
    <3> QED BY <2>7, <3>2
  <2> QED BY <2>1, <2>8, <2>9, <2>10
<1> QED BY <1>1, <1>2, Sizes

\* Each byte sent counts, and every second one completes a pixel.
LEMMA CountStep ==
    ASSUME NEW u \in Int, NEW l \in Nat \ {0}, NEW w \in Nat \ {0}
    PROVE  /\ BytesAt(u, l, w) \in Nat /\ PairsAt(u, l, w) \in Nat
           /\ u <= Lead => BytesAt(u, l, w) = 0 /\ PairsAt(u, l, w) = 0
           /\ BytesAt(u + 1, l, w) = BytesAt(u, l, w) + (IF LitAt(u, l, w) THEN 1 ELSE 0)
           /\ PairsAt(u + 1, l, w) =
                  PairsAt(u, l, w) + (IF LitAt(u, l, w) /\ ColumnAt(u, w) % 2 = 1 THEN 1 ELSE 0)
           /\ RowAt(u, w) >= l /\ u >= Lead =>
                  BytesAt(u, l, w) = l * w /\ PairsAt(u, l, w) = l * (w \div 2)
<1>1. CASE u < Lead
  <2>1. BytesAt(u, l, w) = 0 /\ PairsAt(u, l, w) = 0 /\ ~LitAt(u, l, w)
    BY <1>1, Sizes DEF BytesAt, PairsAt, LitAt
  <2>2. BytesAt(u + 1, l, w) = 0 /\ PairsAt(u + 1, l, w) = 0
    <3>1. CASE u + 1 < Lead
      BY <3>1 DEF BytesAt, PairsAt
    <3>2. CASE u + 1 = Lead
      <4>1. RowAt(u + 1, w) = 0 /\ InLine(u + 1, w) = 0
        BY <3>2, FirstPlace DEF InLine
      <4>2. w * 0 + 0 = 0 /\ (w \div 2) * 0 + (0 \div 2) = 0 /\ 0 < l /\ ~(u + 1 < Lead)
        BY <3>2, Sizes
      <4> QED BY <4>1, <4>2 DEF BytesAt, PairsAt
    <3> QED BY <1>1, <3>1, <3>2, Sizes
  <2> QED BY <1>1, <2>1, <2>2, Sizes
<1>2. CASE u >= Lead
  <2>1. PICK r \in Nat, c \in 0..(w + HGap - 1) : r = RowAt(u, w) /\ c = ColumnAt(u, w)
    BY <1>2, Places
  <2>2. IF c + 1 = w + HGap THEN RowAt(u + 1, w) = r + 1 /\ ColumnAt(u + 1, w) = 0
        ELSE RowAt(u + 1, w) = r /\ ColumnAt(u + 1, w) = c + 1
    BY <1>2, <2>1, Places
  <2>3. PICK h \in Nat : h = w \div 2
    OBVIOUS
  <2>4. ~(u < Lead) /\ ~(u + 1 < Lead)
    BY <1>2, Sizes
  <2> DEFINE In(c1) == IF c1 < w THEN c1 ELSE w
             BytesBy(r1, c1) == IF r1 < l THEN w * r1 + In(c1) ELSE w * l
             Pairs(r1, c1) == IF r1 < l THEN h * r1 + (In(c1) \div 2) ELSE h * l
  <2>5. /\ BytesAt(u, l, w) = BytesBy(r, c) /\ PairsAt(u, l, w) = Pairs(r, c)
        /\ BytesAt(u + 1, l, w) = BytesBy(RowAt(u + 1, w), ColumnAt(u + 1, w))
        /\ PairsAt(u + 1, l, w) = Pairs(RowAt(u + 1, w), ColumnAt(u + 1, w))
    BY <2>1, <2>3, <2>4 DEF BytesAt, PairsAt, InLine
  <2>6. LitAt(u, l, w) <=> r < l /\ c < w
    BY <1>2, <2>1 DEF LitAt
  <2>7. /\ w * r \in Nat /\ h * r \in Nat /\ w * l \in Nat /\ h * l \in Nat
        /\ w * (r + 1) = w * r + w /\ h * (r + 1) = h * r + h
        /\ w * 0 = 0 /\ h * 0 = 0
    OBVIOUS
  <2>8. /\ In(c) \in Nat /\ In(0) = 0 /\ In(0) \div 2 = 0 /\ (In(c) \div 2) \in Nat
        /\ c + 1 = w + HGap => In(c) = w
        /\ c + 1 # w + HGap => In(c + 1) = In(c) + (IF c < w THEN 1 ELSE 0)
        /\ c + 1 # w + HGap =>
               In(c + 1) \div 2 = (In(c) \div 2) + (IF c < w /\ c % 2 = 1 THEN 1 ELSE 0)
    <3>1. /\ In(c) \in Nat /\ In(0) = 0
          /\ c + 1 = w + HGap => In(c) = w
          /\ c + 1 # w + HGap => In(c + 1) = In(c) + (IF c < w THEN 1 ELSE 0)
      BY Sizes
    <3>2. \A n \in Nat : /\ (n \div 2) \in Nat
                         /\ (n + 1) \div 2 = (n \div 2) + (IF n % 2 = 1 THEN 1 ELSE 0)
      OBVIOUS
    <3>3. In(0) \div 2 = 0
      BY <3>1
    <3>4. c < w => In(c) = c /\ c \in Nat
      OBVIOUS
    <3> HIDE DEF In
    <3> QED BY <3>1, <3>2, <3>3, <3>4
  <2>9. r + 1 < l \/ r + 1 = l \/ l < r + 1
    OBVIOUS
  <2> HIDE DEF In
  <2>10. /\ BytesAt(u, l, w) \in Nat /\ PairsAt(u, l, w) \in Nat
         /\ u = Lead => BytesAt(u, l, w) = 0 /\ PairsAt(u, l, w) = 0
    <3>1. u = Lead => r = 0 /\ c = 0
      BY <2>1, FirstPlace
    <3> QED BY <2>5, <2>7, <2>8, <3>1
  <2>11. BytesAt(u + 1, l, w) = BytesAt(u, l, w) + (IF LitAt(u, l, w) THEN 1 ELSE 0)
    <3>1. CASE c + 1 = w + HGap
      <4>1. BytesAt(u + 1, l, w) = BytesBy(r + 1, 0) /\ ~(c < w)
        BY <2>2, <2>5, <3>1, Sizes
      <4>2. BytesBy(r + 1, 0) = BytesBy(r, c)
        BY <2>7, <2>8, <2>9, <3>1
      <4> QED BY <2>5, <2>6, <2>10, <4>1, <4>2
    <3>2. CASE c + 1 # w + HGap
      <4>1. BytesAt(u + 1, l, w) = BytesBy(r, c + 1)
        BY <2>2, <2>5, <3>2
      <4>2. BytesBy(r, c + 1) = BytesBy(r, c) + (IF r < l /\ c < w THEN 1 ELSE 0)
        BY <2>7, <2>8, <3>2
      <4> QED BY <2>5, <2>6, <4>1, <4>2
    <3> QED BY <3>1, <3>2
  <2>12. PairsAt(u + 1, l, w) =
             PairsAt(u, l, w) + (IF LitAt(u, l, w) /\ ColumnAt(u, w) % 2 = 1 THEN 1 ELSE 0)
    <3>1. CASE c + 1 = w + HGap
      <4>1. PairsAt(u + 1, l, w) = Pairs(r + 1, 0) /\ ~(c < w)
        BY <2>2, <2>5, <3>1, Sizes
      <4>2. Pairs(r + 1, 0) = Pairs(r, c)
        BY <2>3, <2>7, <2>8, <2>9, <3>1
      <4> QED BY <2>5, <2>6, <2>10, <4>1, <4>2
    <3>2. CASE c + 1 # w + HGap
      <4>1. PairsAt(u + 1, l, w) = Pairs(r, c + 1)
        BY <2>2, <2>5, <3>2
      <4>2. Pairs(r, c + 1) = Pairs(r, c) + (IF r < l /\ (c < w /\ c % 2 = 1) THEN 1 ELSE 0)
        BY <2>7, <2>8, <3>2
      <4> QED BY <2>1, <2>5, <2>6, <4>1, <4>2
    <3> QED BY <3>1, <3>2
  <2>13. RowAt(u, w) >= l => BytesAt(u, l, w) = l * w /\ PairsAt(u, l, w) = l * (w \div 2)
    <3>1. RowAt(u, w) >= l => BytesAt(u, l, w) = w * l /\ PairsAt(u, l, w) = h * l
      BY <2>1, <2>5
    <3>2. w * l = l * w /\ h * l = l * h
      OBVIOUS
    <3> QED BY <2>3, <3>1, <3>2
  <2> QED BY <1>2, <2>10, <2>11, <2>12, <2>13, Sizes
<1> QED BY <1>1, <1>2, Sizes

(***************************************************************************)
(* Types.                                                                  *)
(***************************************************************************)
\* The lines and columns of a sent byte are numbers, and a byte is typed.
LEMMA LitPlace ==
    ASSUME CameraTypeOK, Href
    PROVE  Line \in Nat /\ Column \in Nat
<1>1. PICK a \in Nat, m \in Nat \ {0} : a = Since /\ m = LineTime
  <2>1. sensor.t \in Nat /\ sensor.width \in Nat \ {0}
    BY Sizes DEF CameraTypeOK
  <2>2. Since \in Int /\ Since >= 0
    BY <2>1, Sizes DEF Href, Since
  <2>3. LineTime \in Nat \ {0}
    BY <2>1, Sizes DEF LineTime
  <2> QED BY <2>2, <2>3
<1> QED BY <1>1, Euclid DEF Line, Column

LEMMA CameraTypeInit == ASSUME CameraInit PROVE CameraTypeOK
<1>1. PICK high \in Polarities, lines \in LineCounts, width \in LineWidths :
          \E t \in 0..(FrameTime(lines, width) - 1) :
              sensor = [high |-> high, frame |-> 1, lines |-> lines, width |-> width, t |-> t]
  BY DEF CameraInit
<1>2. PICK t \in 0..(FrameTime(lines, width) - 1) :
          sensor = [high |-> high, frame |-> 1, lines |-> lines, width |-> width, t |-> t]
  BY <1>1
<1>3. FrameTime(lines, width) \in Nat
  BY Sizes DEF FrameTime
<1>4. /\ sensor \in [high : Polarities, frame : Nat \ {0}, lines : LineCounts, width : LineWidths,
                     t : Nat]
      /\ sensor.t < FrameTime(sensor.lines, sensor.width)
  BY <1>2, <1>3
<1>5. NoByte \in AnyByte
  BY DEF NoByte, AnyByte
<1>6. /\ ev \in [fs : BOOLEAN, fe : BOOLEAN, ls : BOOLEAN, le : BOOLEAN, pv : BOOLEAN,
                 byte : AnyByte, x : Nat, y : Nat]
      /\ packer \in [phase : BOOLEAN, byte : AnyByte, fs : BOOLEAN, fe : BOOLEAN, valid : BOOLEAN,
                     pixel : AnyByte \X AnyByte, fs16 : BOOLEAN, fe16 : BOOLEAN]
  BY <1>5 DEF CameraInit
<1>7. first \in Nat \X Int
  <2>1. Href => Line \in Int
    <3> SUFFICES ASSUME Href PROVE Line \in Int
      OBVIOUS
    <3>1. sensor.t \in Nat /\ sensor.width \in Nat \ {0}
      BY <1>4, Sizes
    <3>2. Since \in Int /\ Since >= 0
      BY <3>1, Sizes DEF Href, Since
    <3>3. PICK a \in Nat, m \in Nat \ {0} : a = Since /\ m = LineTime
      BY <3>1, <3>2, Sizes DEF LineTime
    <3> QED BY <3>3, Euclid DEF Line
  <2> QED BY <2>1 DEF CameraInit
<1>8. /\ cap \in [v0 : BOOLEAN, v1 : BOOLEAN, h0 : BOOLEAN, h1 : BOOLEAN, locked : BOOLEAN,
                  onRise : BOOLEAN, edge : BOOLEAN, wasRise : BOOLEAN, seen : BOOLEAN]
      /\ sync \in [lines : Nat, bytes : Nat, locked : BOOLEAN, last : Nat \X Nat,
                   before : Nat \X Nat]
      /\ enable \in BOOLEAN /\ toggles \in 0..MaxToggles /\ reported \in Nat
      /\ tally \in [frame : Nat, total : Nat, bytes : Nat, inner : Nat, outer : Nat, lines : Nat,
                   width : Nat]
      /\ pixels \in [frame : Nat, n : Nat, lines : Nat, width : Nat]
  BY CameraBoundsAssumption DEF CameraInit
<1>9. core \in [bytes : Nat, bright : 0..(CountMod - 1), lineBytes : Nat, width : Nat, id : Nat,
                wr : BOOLEAN, rec : [id : Nat, active : Nat, bright : Nat]]
  BY Sizes DEF CameraInit
<1> QED BY <1>4, <1>6, <1>7, <1>8, <1>9 DEF CameraTypeOK

LEMMA Halves ==
    \A n \in Nat : (n \div 2) \in Nat /\ (n + 1) \div 2 = (n \div 2) + (IF n % 2 = 1 THEN 1 ELSE 0)
OBVIOUS

LEMMA CameraTypeNext ==
    ASSUME CameraTypeOK,
           NEW level \in LevelsNow, NEW lines \in LineCounts, NEW width \in LineWidths,
           Edge(level, lines, width)
    PROVE  CameraTypeOK'
<1>1. /\ sensor' \in [high : Polarities, frame : Nat \ {0}, lines : LineCounts,
                      width : LineWidths, t : Nat]
      /\ sensor'.t < FrameTime(sensor'.lines, sensor'.width)
  <2>1. CASE sensor.t + 1 < FrameTime(sensor.lines, sensor.width)
    <3>1. sensor' = [sensor EXCEPT !.t = @ + 1]
      BY <2>1 DEF Edge, SensorNext
    <3> QED BY <2>1, <3>1 DEF CameraTypeOK
  <2>2. CASE ~(sensor.t + 1 < FrameTime(sensor.lines, sensor.width))
    <3>1. sensor' = [sensor EXCEPT !.frame = @ + 1, !.lines = lines, !.width = width, !.t = 0]
      BY <2>2 DEF Edge, SensorNext
    <3>2. lines * (width + HGap) \in Nat
      BY Sizes
    <3>3. 0 < FrameTime(lines, width)
      BY <3>2, Sizes DEF FrameTime
    <3>4. sensor.high \in Polarities /\ sensor.frame + 1 \in Nat \ {0}
      BY DEF CameraTypeOK
    <3>5. sensor' = [high |-> sensor.high, frame |-> sensor.frame + 1, lines |-> lines,
                     width |-> width, t |-> 0]
      BY <3>1 DEF CameraTypeOK
    <3> QED BY <3>3, <3>4, <3>5
  <2> QED BY <2>1, <2>2
<1>2. cap' \in [v0 : BOOLEAN, v1 : BOOLEAN, h0 : BOOLEAN, h1 : BOOLEAN, locked : BOOLEAN,
                onRise : BOOLEAN, edge : BOOLEAN, wasRise : BOOLEAN, seen : BOOLEAN]
  <2>1. /\ Vsync \in BOOLEAN /\ Href \in BOOLEAN /\ VsyncEdge \in BOOLEAN /\ VsyncRise \in BOOLEAN
        /\ LockPolarity \in BOOLEAN /\ Boundary \in BOOLEAN
    BY DEF CameraTypeOK, Vsync, Href, VsyncEdge, VsyncRise, VsyncFall, LockPolarity, HrefRise, Boundary
  <2> QED BY <2>1 DEF Edge, CaptureNext, CameraTypeOK
<1>3. ev' \in [fs : BOOLEAN, fe : BOOLEAN, ls : BOOLEAN, le : BOOLEAN, pv : BOOLEAN,
               byte : AnyByte, x : Nat, y : Nat]
  <2>1. /\ Href \in BOOLEAN /\ Boundary \in BOOLEAN /\ (Boundary /\ cap.seen) \in BOOLEAN
        /\ HrefRise \in BOOLEAN /\ HrefFall \in BOOLEAN
    BY DEF CameraTypeOK, Href, VsyncRise, VsyncFall, HrefRise, HrefFall, Boundary
  <2>2. level \in BOOLEAN
    BY GeometryAssumption DEF LevelsNow, CameraTypeOK, AnyByte
  <2>3. Href => Byte(level) \in AnyByte
    BY <2>2, LitPlace, Sizes DEF Byte, AnyByte, CameraTypeOK
  <2>4. (IF Href THEN Byte(level) ELSE ev.byte) \in AnyByte
    BY <2>3 DEF CameraTypeOK
  <2>5. ev.x + 1 \in Nat /\ ev.y + 1 \in Nat /\ ev.x \in Nat /\ ev.y \in Nat
    BY DEF CameraTypeOK
  <2>6. /\ EventsNext(level).x \in Nat /\ EventsNext(level).y \in Nat
        /\ EventsNext(level).byte \in AnyByte
    BY <2>4, <2>5 DEF EventsNext
  <2> QED BY <2>1, <2>6 DEF Edge, EventsNext
<1>4. sync' \in [lines : Nat, bytes : Nat, locked : BOOLEAN, last : Nat \X Nat,
                 before : Nat \X Nat]
  <2>1. /\ sync.lines \in Nat /\ sync.bytes \in Nat /\ sync.locked \in BOOLEAN
        /\ sync.last \in Nat \X Nat /\ sync.before \in Nat \X Nat
    BY DEF CameraTypeOK
  <2>2. /\ (IF ev.ls THEN sync.lines + 1 ELSE IF ev.fs THEN 0 ELSE sync.lines) \in Nat
        /\ (IF ev.pv THEN sync.bytes + 1 ELSE IF ev.fs THEN 0 ELSE sync.bytes) \in Nat
    BY <2>1
  <2>3. (IF ev.fe THEN sync.bytes # 0 /\ sync.lines # 0 ELSE sync.locked) \in BOOLEAN
    BY <2>1
  <2>4. /\ (IF ev.fe THEN <<sync.lines, sync.bytes>> ELSE sync.last) \in Nat \X Nat
        /\ (IF ev.fe THEN sync.last ELSE sync.before) \in Nat \X Nat
    BY <2>1
  <2> QED BY <2>2, <2>3, <2>4 DEF Edge, SyncNext
<1>5. packer' \in [phase : BOOLEAN, byte : AnyByte, fs : BOOLEAN, fe : BOOLEAN, valid : BOOLEAN,
                   pixel : AnyByte \X AnyByte, fs16 : BOOLEAN, fe16 : BOOLEAN]
  <2>1. PhaseNext \in BOOLEAN /\ Pair \in BOOLEAN
    BY DEF CameraTypeOK, PhaseNext, Pair
  <2>2. PackerNext.byte \in AnyByte /\ PackerNext.pixel \in AnyByte \X AnyByte
    BY DEF CameraTypeOK, PackerNext
  <2> QED BY <2>1, <2>2 DEF Edge, PackerNext, CameraTypeOK
<1>6. core' \in [bytes : Nat, bright : 0..(CountMod - 1), lineBytes : Nat, width : Nat, id : Nat,
                 wr : BOOLEAN, rec : [id : Nat, active : Nat, bright : Nat]]
  <2>1. /\ core.bytes \in Nat /\ core.bright \in 0..(CountMod - 1) /\ core.lineBytes \in Nat
        /\ core.width \in Nat /\ core.id \in Nat /\ core.bright \in Nat
        /\ core.rec \in [id : Nat, active : Nat, bright : Nat]
    BY DEF CameraTypeOK
  <2>2. (core.bright + 1) % CountMod \in 0..(CountMod - 1) /\ 0 \in 0..(CountMod - 1)
    <3>1. core.bright + 1 \in Nat /\ CountMod \in Nat \ {0}
      BY <2>1, Sizes
    <3> QED BY <3>1, Euclid
  <2>3. core.bytes \div 2 \in Nat /\ core.lineBytes \div 2 \in Nat
    BY <2>1, Halves
  <2>4. /\ CoreNext.bytes \in Nat /\ CoreNext.bright \in 0..(CountMod - 1)
        /\ CoreNext.lineBytes \in Nat
    BY <2>1, <2>2 DEF CoreNext
  <2>5. CoreNext.width \in Nat /\ CoreNext.id \in Nat
    BY <2>1, <2>3 DEF CoreNext
  <2>6. CoreNext.rec \in [id : Nat, active : Nat, bright : Nat] /\ CoreNext.wr \in BOOLEAN
    BY <2>1, <2>3 DEF CoreNext, CameraTypeOK
  <2> QED BY <2>4, <2>5, <2>6 DEF Edge, CoreNext
<1>7. enable' \in BOOLEAN /\ toggles' \in 0..MaxToggles /\ first' \in Nat \X Int
  BY DEF Edge, CameraTypeOK
<1>8. tally' \in [frame : Nat, total : Nat, bytes : Nat, inner : Nat, outer : Nat, lines : Nat,
                  width : Nat]
  BY DEF Edge, CameraTypeOK, TallyNext, AnyByte
<1>9. pixels' \in [frame : Nat, n : Nat, lines : Nat, width : Nat]
  <2>1. packer.pixel[2] \in AnyByte
    BY DEF CameraTypeOK
  <2> QED BY <2>1 DEF Edge, CameraTypeOK, PixelsNext, AnyByte
<1>10. reported' \in Nat
  BY DEF Edge, CameraTypeOK
<1> QED BY <1>1, <1>2, <1>3, <1>4, <1>5, <1>6, <1>7, <1>8, <1>9, <1>10 DEF CameraTypeOK

LEMMA ToggleFacts ==
    ASSUME CameraTypeOK, Toggle
    PROVE  /\ UNCHANGED <<sensor, cap, ev, sync, packer, core, first, tally, pixels, reported>>
           /\ enable' \in BOOLEAN /\ toggles' \in 0..MaxToggles /\ toggles' # 0
BY CameraBoundsAssumption DEF Toggle, CameraTypeOK

\* Every variable from the sensor to the counters keeps its type.
THEOREM CameraTypeCorrect == CameraSpec => []CameraTypeOK
<1>1. CameraTypeOK /\ [CameraNext]_cameraVars => CameraTypeOK'
  <2> SUFFICES ASSUME CameraTypeOK, [CameraNext]_cameraVars PROVE CameraTypeOK'
    OBVIOUS
  <2>1. CASE Toggle
    BY <2>1, ToggleFacts DEF CameraTypeOK
  <2>2. CASE UNCHANGED cameraVars
    BY <2>2 DEF cameraVars, CameraTypeOK
  <2> QED BY <2>1, <2>2, CameraTypeNext DEF CameraNext
<1> QED BY <1>1, CameraTypeInit, PTL DEF CameraSpec

(***************************************************************************)
(* A clock of the sensor.                                                  *)
(***************************************************************************)
LEMMA SensorFields ==
    ASSUME CameraTypeOK
    PROVE  /\ sensor.t \in Nat /\ sensor.frame \in Nat /\ sensor.frame > 0
           /\ sensor.lines \in Nat \ {0} /\ sensor.width \in Nat \ {0} /\ sensor.high \in BOOLEAN
           /\ sensor.t < FrameTime(sensor.lines, sensor.width)
<1>1. /\ sensor.t \in Nat /\ sensor.frame \in Nat \ {0} /\ sensor.lines \in LineCounts
      /\ sensor.width \in LineWidths /\ sensor.high \in Polarities
      /\ sensor.t < FrameTime(sensor.lines, sensor.width)
  BY DEF CameraTypeOK
<1>2. LineCounts \subseteq Nat \ {0} /\ LineWidths \subseteq Nat \ {0} /\ Polarities \subseteq BOOLEAN
  BY Sizes
<1>3. sensor.frame > 0
  BY <1>1
<1> QED BY <1>1, <1>2, <1>3

LEMMA Now ==
    ASSUME CameraTypeOK
    PROVE  /\ (Href <=> LitAt(sensor.t, sensor.lines, sensor.width))
           /\ Href => /\ Line = RowAt(sensor.t, sensor.width)
                      /\ Column = ColumnAt(sensor.t, sensor.width)
           /\ (Vsync <=> VsyncAt(sensor.t, sensor.high))
<1>1. Since = sensor.t - Lead /\ (Since >= 0 <=> sensor.t >= Lead)
  BY SensorFields, Sizes DEF Since
<1>2. Line = RowAt(sensor.t, sensor.width) /\ Column = ColumnAt(sensor.t, sensor.width)
  BY <1>1 DEF Line, Column, LineTime, RowAt, ColumnAt
<1>3. Vsync <=> VsyncAt(sensor.t, sensor.high)
  BY SensorFields DEF Vsync, VsyncAt
<1> QED BY <1>1, <1>2, <1>3 DEF Href, LitAt

\* Within a frame the sensor goes on; at its end the next one begins.
Goes == /\ sensor'.t = sensor.t + 1 /\ sensor'.frame = sensor.frame /\ sensor'.high = sensor.high
        /\ sensor'.lines = sensor.lines /\ sensor'.width = sensor.width
Turns == /\ sensor'.t = 0 /\ sensor'.frame = sensor.frame + 1 /\ sensor'.high = sensor.high
         /\ sensor.t + 1 = FrameTime(sensor.lines, sensor.width)

LEMMA Clock ==
    ASSUME CameraTypeOK, NEW lines \in LineCounts, NEW width \in LineWidths,
           sensor' = SensorNext(lines, width)
    PROVE  Goes \/ Turns
<1>1. FrameTime(sensor.lines, sensor.width) \in Int
  BY SensorFields, Sizes DEF FrameTime
<1>2. CASE sensor.t + 1 < FrameTime(sensor.lines, sensor.width)
  BY <1>2 DEF SensorNext, CameraTypeOK, Goes
<1>3. CASE ~(sensor.t + 1 < FrameTime(sensor.lines, sensor.width))
  BY <1>1, <1>3, SensorFields DEF SensorNext, CameraTypeOK, Turns
<1> QED BY <1>2, <1>3

\* A frame lasts longer than its lead and three clocks; then nothing is sent any more.
LEMMA EndOfFrame ==
    ASSUME CameraTypeOK, Turns
    PROVE  /\ sensor.t > Lead + 3
           /\ ~Href /\ ~Lit1 /\ ~Lit2
           /\ Bytes1 = sensor.lines * sensor.width
           /\ Pairs2 = sensor.lines * (sensor.width \div 2)
<1> DEFINE t == sensor.t  l == sensor.lines  w == sensor.width
<1>1. t \in Nat /\ l \in Nat \ {0} /\ w \in Nat \ {0} /\ t + 1 = FrameTime(l, w)
  BY SensorFields DEF Turns
<1> HIDE DEF t, l, w
<1>2. /\ t - 2 \in Int /\ (t - 2) + 3 >= FrameTime(l, w) /\ (t - 2) + 1 = t - 1
      /\ t - 1 \in Int /\ (t - 1) + 3 >= FrameTime(l, w) /\ (t - 1) + 1 = t
      /\ t \in Int /\ t + 3 >= FrameTime(l, w)
  BY <1>1
<1>3. t - 2 >= Lead /\ t - 1 >= Lead /\ ~LitAt(t - 2, l, w) /\ RowAt(t - 1, w) >= l
  BY <1>1, <1>2, AfterLines
<1>4. ~LitAt(t - 1, l, w)
  BY <1>1, <1>2, AfterLines
<1>5. ~LitAt(t, l, w)
  BY <1>1, <1>2, AfterLines
<1>6. BytesAt(t - 1, l, w) = l * w /\ PairsAt(t - 1, l, w) = l * (w \div 2)
  BY <1>1, <1>2, <1>3, CountStep
<1>7. PairsAt(t - 2, l, w) \in Nat /\ PairsAt(t - 1, l, w) = PairsAt(t - 2, l, w) + 0
  BY <1>1, <1>2, <1>3, CountStep
<1>8. t > Lead + 3
  <2>1. l * (w + HGap) >= w + HGap
    BY <1>1, Sizes
  <2>2. l * (w + HGap) \in Int /\ w + HGap >= 3
    BY <1>1, Sizes
  <2> QED BY <1>1, <2>1, <2>2, Sizes DEF FrameTime
<1> QED
  BY <1>3, <1>4, <1>5, <1>6, <1>7, <1>8, Now DEF t, l, w, Lit1, Lit2, Bytes1, Pairs2

\* What was sent now was sent one clock ago, and so on.
LEMMA Shift ==
    ASSUME CameraTypeOK, CameraTypeOK', Goes \/ Turns
    PROVE  /\ (Lit1' <=> Href) /\ (Lit2' <=> Lit1)
           /\ (Vsync1' <=> Vsync) /\ (Vsync2' <=> Vsync1)
           /\ Href => Goes /\ Row1' = Line /\ Col1' = Column /\ Line \in Nat /\ Column \in Nat
           /\ Lit1 => Goes /\ Row2' = Row1 /\ Col2' = Col1 /\ Row1 \in Nat /\ Col1 \in Nat
           /\ Lit2 => Goes
<1> DEFINE t == sensor.t  l == sensor.lines  w == sensor.width
<1>1. /\ t \in Nat /\ l \in Nat \ {0} /\ w \in Nat \ {0} /\ (t - 1) + 1 = t
      /\ t \in Int /\ t - 1 \in Int
  BY SensorFields
<1>2. /\ (Href <=> LitAt(t, l, w)) /\ (Vsync <=> VsyncAt(t, sensor.high))
      /\ Href => Line = RowAt(t, w) /\ Column = ColumnAt(t, w)
  BY Now
<1>3. /\ LitAt(t, l, w) => RowAt(t, w) \in Nat /\ ColumnAt(t, w) \in Nat
      /\ LitAt(t - 1, l, w) => RowAt(t - 1, w) \in Nat /\ ColumnAt(t - 1, w) \in Nat
  BY <1>1, LitStep
<1>4. CASE Goes
  <2>1. sensor'.t - 1 = t /\ sensor'.t - 2 = t - 1
    BY <1>1, <1>4 DEF Goes
  <2>2. /\ Lit1' = LitAt(t, l, w) /\ Lit2' = LitAt(t - 1, l, w)
        /\ Row1' = RowAt(t, w) /\ Col1' = ColumnAt(t, w)
        /\ Row2' = RowAt(t - 1, w) /\ Col2' = ColumnAt(t - 1, w)
        /\ Vsync1' = VsyncAt(t, sensor.high) /\ Vsync2' = VsyncAt(t - 1, sensor.high)
    BY <1>4, <2>1 DEF Goes, Lit1, Lit2, Row1, Row2, Col1, Col2, Vsync1, Vsync2
  <2>3. /\ Lit1 = LitAt(t - 1, l, w) /\ Row1 = RowAt(t - 1, w) /\ Col1 = ColumnAt(t - 1, w)
        /\ Vsync1 = VsyncAt(t - 1, sensor.high)
    BY DEF Lit1, Row1, Col1, Vsync1
  <2> HIDE DEF t, l, w
  <2>4. (Lit1' <=> Href) /\ (Lit2' <=> Lit1)
    BY <1>2, <2>2, <2>3
  <2>5. (Vsync1' <=> Vsync) /\ (Vsync2' <=> Vsync1)
    BY <1>2, <2>2, <2>3
  <2>6. Href => Row1' = Line /\ Col1' = Column /\ Line \in Nat /\ Column \in Nat
    BY <1>2, <1>3, <2>2, <2>3
  <2>7. Lit1 => Row2' = Row1 /\ Col2' = Col1 /\ Row1 \in Nat /\ Col1 \in Nat
    BY <1>3, <2>2, <2>3
  <2> QED BY <1>4, <2>4, <2>5, <2>6, <2>7
<1>5. CASE Turns
  <2>1. ~Href /\ ~Lit1 /\ ~Lit2 /\ t > Lead + 3
    BY <1>5, EndOfFrame
  <2>2. sensor'.t - 1 = -1 /\ sensor'.t - 2 = -2 /\ sensor'.high = sensor.high
    BY <1>5 DEF Turns
  <2>3. ~Lit1' /\ ~Lit2'
    BY <2>2, Sizes DEF Lit1, Lit2, LitAt
  <2>4. (Vsync1' <=> Vsync) /\ (Vsync2' <=> Vsync1)
    <3>1. ~(t < VSyncLen) /\ ~(t - 1 < VSyncLen)
      BY <1>1, <2>1, Sizes
    <3> QED BY <1>2, <2>2, <3>1 DEF Vsync1, Vsync2, VsyncAt
  <2> QED BY <2>1, <2>3, <2>4
<1> QED BY <1>4, <1>5

\* Where the byte that is sent now stands, seen from the one before.
LEMMA Neighbours ==
    ASSUME CameraTypeOK
    PROVE  /\ Href /\ ~Lit1 => Column = 0
           /\ Href /\ Lit1 => Line = Row1 /\ Column = Col1 + 1
           /\ Lit2 /\ ~Lit1 => ~Href
<1> DEFINE t == sensor.t  l == sensor.lines  w == sensor.width
<1>1. t \in Nat /\ l \in Nat \ {0} /\ w \in Nat \ {0}
  BY SensorFields
<1>2. /\ (Href <=> LitAt(t, l, w))
      /\ Href => Line = RowAt(t, w) /\ Column = ColumnAt(t, w)
  BY Now
<1> HIDE DEF t, l, w
<1>3. t - 1 \in Int /\ t - 2 \in Int /\ (t - 1) + 1 = t /\ (t - 2) + 1 = t - 1 /\ (t - 2) + 2 = t
  BY <1>1
<1>4. /\ LitAt(t, l, w) /\ ~LitAt(t - 1, l, w) => ColumnAt(t, w) = 0
      /\ LitAt(t, l, w) /\ LitAt(t - 1, l, w) =>
             RowAt(t, w) = RowAt(t - 1, w) /\ ColumnAt(t, w) = ColumnAt(t - 1, w) + 1
  <2> DEFINE u == t - 1
  <2>1. u \in Int /\ u + 1 = t
    BY <1>3
  <2> HIDE DEF u
  <2>2. /\ LitAt(u + 1, l, w) /\ ~LitAt(u, l, w) => ColumnAt(u + 1, w) = 0
        /\ LitAt(u + 1, l, w) /\ LitAt(u, l, w) =>
               RowAt(u + 1, w) = RowAt(u, w) /\ ColumnAt(u + 1, w) = ColumnAt(u, w) + 1
    BY <1>1, <2>1, LitStep
  <2> QED BY <2>1, <2>2 DEF u
<1>5. LitAt(t - 2, l, w) /\ ~LitAt(t - 1, l, w) => ~LitAt(t, l, w)
  <2> DEFINE u == t - 2
  <2>1. u \in Int /\ u + 1 = t - 1 /\ u + 2 = t
    BY <1>3
  <2> HIDE DEF u
  <2>2. LitAt(u, l, w) /\ ~LitAt(u + 1, l, w) => ~LitAt(u + 2, l, w)
    BY <1>1, <2>1, LitStep
  <2> QED BY <2>1, <2>2 DEF u
<1> QED BY <1>2, <1>4, <1>5 DEF t, l, w, Lit1, Lit2, Row1, Col1

\* The registers after a clock, one by one.
CapStep ==
    /\ (cap'.v0 <=> Vsync) /\ (cap'.v1 <=> cap.v0) /\ (cap'.h0 <=> Href) /\ (cap'.h1 <=> cap.h0)
    /\ (cap'.locked <=> cap.locked \/ LockPolarity) /\ (cap'.edge <=> cap.edge \/ VsyncEdge)
    /\ (cap'.seen <=> cap.seen \/ Boundary) /\ (cap.locked => cap'.onRise = cap.onRise)
EvStep(level) ==
    /\ (ev'.fs <=> Boundary) /\ (ev'.fe <=> Boundary /\ cap.seen)
    /\ (ev'.le <=> HrefFall) /\ (ev'.pv <=> Href)
    /\ Href => ev'.byte = Byte(level)
    /\ ev'.x = (IF HrefFall THEN 0 ELSE IF Href THEN ev.x + 1
                ELSE IF HrefRise \/ Boundary THEN 0 ELSE ev.x)
LEMMA EdgeSteps ==
    ASSUME CameraTypeOK, NEW level, NEW lines, NEW width, Edge(level, lines, width)
    PROVE  CapStep /\ EvStep(level) /\ first' = first /\ sensor' = SensorNext(lines, width)
<1>1. CapStep
  BY DEF Edge, CaptureNext, CapStep, LockPolarity, CameraTypeOK
<1>2. EvStep(level)
  BY DEF Edge, EventsNext, EvStep
<1> QED BY <1>1, <1>2 DEF Edge

\* Once the polarity is known, a boundary is the clock in which its edge is seen.
LEMMA BoundaryTime ==
    ASSUME CameraTypeOK, cap.locked, cap.v0 <=> Vsync1, cap.v1 <=> Vsync2
    PROVE  Boundary <=> sensor.t = Turn
<1>1. /\ sensor.t \in Nat /\ sensor.high \in BOOLEAN /\ cap.onRise \in BOOLEAN
      /\ cap.v0 \in BOOLEAN /\ cap.v1 \in BOOLEAN
  BY SensorFields DEF CameraTypeOK
<1>2. Vsync1 <=> ((1 <= sensor.t /\ sensor.t <= VSyncLen) <=> sensor.high)
  BY <1>1, Sizes DEF Vsync1, VsyncAt
<1>3. Vsync2 <=> ((2 <= sensor.t /\ sensor.t <= VSyncLen + 1) <=> sensor.high)
  BY <1>1, Sizes DEF Vsync2, VsyncAt
<1>4. cap.onRise = sensor.high <=> (cap.onRise <=> sensor.high)
  BY <1>1
<1>5. VsyncRise <=> sensor.t = (IF sensor.high THEN 1 ELSE VSyncLen + 1)
  BY <1>1, <1>2, <1>3, Sizes DEF VsyncRise
<1>6. VsyncFall <=> sensor.t = (IF sensor.high THEN VSyncLen + 1 ELSE 1)
  BY <1>1, <1>2, <1>3, Sizes DEF VsyncFall
<1>7. CASE cap.onRise
  BY <1>4, <1>5, <1>7 DEF Boundary, Turn
<1>8. CASE ~cap.onRise
  BY <1>4, <1>6, <1>8 DEF Boundary, Turn
<1> QED BY <1>7, <1>8

LEMMA TurnFacts ==
    ASSUME CameraTypeOK
    PROVE  /\ Turn \in Nat /\ Turn >= 1 /\ Turn + 1 <= Lead
           /\ Turn + 2 <= Lead + 1
BY Sizes DEF Turn

LEMMA EdgesSeen ==
    ASSUME CameraTypeOK, CaptureInv
    PROVE  /\ cap.locked => (Boundary <=> sensor.t = Turn)
           /\ Boundary => cap.locked /\ sensor.t = Turn /\ sensor.frame > 1
           /\ HrefFall => Lit2 /\ ~Lit1 /\ ~Href
<1>1. cap.locked => (cap.v0 <=> Vsync1) /\ (cap.v1 <=> Vsync2)
  BY DEF CaptureInv, Fresh, Sampled, Unlocked
<1>2. cap.locked => (Boundary <=> sensor.t = Turn)
  BY <1>1, BoundaryTime
<1>3. Boundary => cap.locked
  BY DEF Boundary
<1>4. cap.locked /\ sensor.t = Turn => sensor.frame > 1
  BY TurnFacts, SensorFields, Sizes DEF CaptureInv
<1>5. HrefFall => Lit2 /\ ~Lit1
  BY DEF HrefFall, CaptureInv, Fresh, Sampled, Unlocked
<1>6. Lit2 /\ ~Lit1 => ~Href
  BY Neighbours
<1> QED BY <1>2, <1>3, <1>4, <1>5, <1>6

LEMMA CaptureStep ==
    ASSUME CameraTypeOK, CameraTypeOK', CaptureInv,
           NEW level \in LevelsNow, NEW lines \in LineCounts, NEW width \in LineWidths,
           Edge(level, lines, width)
    PROVE  CaptureInv' /\ Sampled' /\ (cap.locked => Turn' = Turn) /\ (Goes \/ Turns)
<1>1. CapStep /\ EvStep(level) /\ first' = first /\ (Goes \/ Turns)
  BY EdgeSteps, Clock
<1>2. /\ (Lit1' <=> Href) /\ (Lit2' <=> Lit1) /\ (Vsync1' <=> Vsync) /\ (Vsync2' <=> Vsync1)
      /\ Href => Goes /\ Row1' = Line /\ Col1' = Column
  BY <1>1, Shift
<1>3. cap.locked => Turn' = Turn
  BY <1>1 DEF CapStep, Goes, Turns, Turn
<1>4. sensor.t \in Nat /\ sensor.frame \in Nat /\ sensor.frame > 0
  BY SensorFields
<1>5. Sampled'
  <2>1. (cap'.v0 <=> Vsync1') /\ (cap'.h0 <=> Lit1') /\ (ev'.pv <=> Lit1')
    BY <1>1, <1>2 DEF CapStep, EvStep
  <2>2. CASE Fresh
    <3>1. ~HrefRise /\ ~VsyncEdge /\ ~Boundary
      BY <2>2 DEF Fresh, Unlocked, HrefRise, VsyncEdge, VsyncRise, VsyncFall, Boundary
    <3>2. Unlocked'
      BY <1>1, <2>2, <3>1 DEF CapStep, Fresh, Unlocked, LockPolarity
    <3> QED BY <2>1, <3>2 DEF Sampled
  <2>3. CASE Sampled
    <3>1. (cap'.v1 <=> Vsync2') /\ (cap'.h1 <=> Lit2')
      BY <1>1, <1>2, <2>3 DEF CapStep, Sampled
    <3> QED BY <2>1, <3>1 DEF Sampled
  <2> QED BY <2>2, <2>3 DEF CaptureInv
<1>6. ev'.pv => Here(ev.byte, Row1, Col1)'
  BY <1>1, <1>2 DEF EvStep, Here, Byte, Goes
<1>7. first'[1] = 1
  BY <1>1 DEF CaptureInv
<1>8. cap'.locked => (sensor'.frame > 1 \/ sensor'.t > Lead)
  <2>1. CASE cap.locked
    BY <1>1, <1>4, <2>1, Sizes DEF CaptureInv, Goes, Turns
  <2>2. CASE LockPolarity
    <3>1. Lit1
      BY <2>2 DEF LockPolarity, HrefRise, CaptureInv, Fresh, Sampled
    <3>2. sensor.t > Lead /\ Goes
      BY <1>1, <1>4, <3>1, Sizes, Shift DEF Lit1, LitAt
    <3> QED BY <1>4, <3>2, Sizes DEF Goes
  <2> QED BY <1>1, <2>1, <2>2 DEF CapStep
<1>9. cap'.seen => cap'.locked /\ (sensor'.frame > 2 \/ (sensor'.frame = 2 /\ sensor'.t > Turn'))
  <2>1. CASE cap.seen
    <3>1. cap.locked /\ cap'.locked /\ Turn' = Turn
      BY <1>1, <1>3, <2>1 DEF CaptureInv, CapStep
    <3> QED BY <1>1, <1>4, <2>1, <3>1, TurnFacts DEF CaptureInv, Goes, Turns
  <2>2. CASE Boundary
    <3>1. cap.locked /\ cap'.locked /\ Turn' = Turn /\ sensor.t = Turn /\ sensor.frame > 1
      BY <1>1, <1>3, <2>2, EdgesSeen DEF CapStep
    <3>2. Goes
      BY <1>1, <1>4, <3>1, TurnFacts, EndOfFrame, Sizes
    <3> QED BY <1>4, <3>1, <3>2 DEF Goes
  <2> QED BY <1>1, <2>1, <2>2 DEF CapStep
<1>10. ev'.fs <=> cap'.seen /\ sensor'.t = Turn' + 1
  <2>1. ASSUME Boundary PROVE cap'.seen /\ sensor'.t = Turn' + 1
    <3>1. cap.locked /\ Turn' = Turn /\ sensor.t = Turn
      BY <1>3, <2>1, EdgesSeen
    <3>2. Goes
      BY <1>1, <1>4, <3>1, TurnFacts, EndOfFrame, Sizes
    <3> QED BY <1>1, <1>4, <2>1, <3>1, <3>2 DEF Goes, CapStep
  <2>2. ASSUME cap'.seen, sensor'.t = Turn' + 1, ~Boundary PROVE FALSE
    <3>1. cap.seen /\ cap.locked /\ Turn' = Turn
      BY <1>1, <1>3, <2>2 DEF CapStep, CaptureInv
    <3>2. sensor.t = Turn
      BY <1>1, <1>4, <2>2, <3>1, TurnFacts DEF Goes, Turns
    <3> QED BY <2>2, <3>1, <3>2, EdgesSeen
  <2> QED BY <1>1, <2>1, <2>2 DEF EvStep
<1>11. ev'.fe => ev'.fs /\ sensor'.frame > 2
  <2> SUFFICES ASSUME Boundary, cap.seen PROVE sensor'.frame > 2
    BY <1>1 DEF EvStep
  <2>1. sensor.t = Turn
    BY EdgesSeen
  <2>2. sensor.frame > 2
    BY <1>4, <2>1, TurnFacts DEF CaptureInv
  <2> QED BY <1>1, <1>4, <2>2 DEF Goes, Turns
<1> QED BY <1>1, <1>3, <1>5, <1>6, <1>7, <1>8, <1>9, <1>10, <1>11 DEF CaptureInv

\* What the steps below know of a clock.
Moved(level) ==
    /\ CapStep /\ EvStep(level) /\ first' = first /\ (Goes \/ Turns) /\ Sampled'
    /\ (Lit1' <=> Href) /\ (Lit2' <=> Lit1)
    /\ Href => Goes /\ Row1' = Line /\ Col1' = Column /\ Line \in Nat /\ Column \in Nat
    /\ Lit1 => Goes /\ Row2' = Row1 /\ Col2' = Col1 /\ Row1 \in Nat /\ Col1 \in Nat
LEMMA Moves ==
    ASSUME CameraTypeOK, CameraTypeOK', CaptureInv,
           NEW level \in LevelsNow, NEW lines \in LineCounts, NEW width \in LineWidths,
           Edge(level, lines, width)
    PROVE  Moved(level)
<1>1. CapStep /\ EvStep(level) /\ first' = first /\ (Goes \/ Turns)
  BY EdgeSteps, Clock
<1> QED BY <1>1, Shift, CaptureStep DEF Moved

LEMMA PlaceStep ==
    ASSUME CameraTypeOK, CameraTypeOK', CaptureInv, PlaceInv,
           NEW level \in LevelsNow, NEW lines \in LineCounts, NEW width \in LineWidths,
           Edge(level, lines, width)
    PROVE  PlaceInv'
<1>1. Moved(level)
  BY Moves
<1>2. CASE Href
  <2>1. ~HrefFall /\ ev'.pv /\ ev'.x = ev.x + 1
    BY <1>1, <1>2, EdgesSeen DEF Moved, EvStep
  <2>2. SUFFICES ASSUME NotFirst(Row1)' PROVE ev'.x = Col1' + 1
    BY <2>1 DEF PlaceInv
  <2>3. Line # first[2] \/ sensor.frame # 1
    BY <1>1, <1>2, <2>2 DEF Moved, Goes, NotFirst, CaptureInv, CameraTypeOK
  <2>4. CASE Lit1
    <3>1. Line = Row1 /\ Column = Col1 + 1 /\ NotFirst(Row1)
      BY <1>1, <1>2, <2>2, <2>4, Neighbours DEF Moved, Goes, NotFirst
    <3>2. ~Fresh
      BY <1>2, <2>2, <1>1, <2>3 DEF Fresh
    <3>3. ev.pv /\ ev.x = Col1 + 1
      BY <2>4, <3>1, <3>2 DEF CaptureInv, Sampled, PlaceInv
    <3> QED BY <1>1, <1>2, <2>1, <3>1, <3>3 DEF Moved
  <2>5. CASE ~Lit1
    <3>1. Column = 0
      BY <1>2, <2>5, Neighbours
    <3>2. ev.x = 0
      BY <2>1, <2>5 DEF CaptureInv, Fresh, Sampled, PlaceInv
    <3> QED BY <1>1, <1>2, <2>1, <3>1, <3>2 DEF Moved
  <2> QED BY <2>4, <2>5
<1>3. CASE ~Href
  <2>1. ~ev'.pv
    BY <1>1, <1>3 DEF Moved, EvStep
  <2>2. CASE ev.pv
    <3>1. cap.h0
      BY <2>2 DEF CaptureInv, Fresh, Sampled
    <3>2. HrefFall'
      BY <1>1, <1>3, <3>1 DEF Moved, CapStep, HrefFall
    <3> QED BY <2>1, <3>2 DEF PlaceInv
  <2>3. CASE ~ev.pv
    <3>1. ev.x = 0 \/ HrefFall
      BY <2>3 DEF PlaceInv
    <3>2. ev'.x = 0
      BY <1>1, <1>3, <3>1 DEF Moved, EvStep
    <3> QED BY <2>1, <3>2 DEF PlaceInv
  <2> QED BY <2>2, <2>3
<1> QED BY <1>2, <1>3

\* The packer after a clock.
PackStep ==
    /\ (packer'.phase <=> PhaseNext) /\ (packer'.valid <=> Pair)
    /\ ev.pv /\ ~packer.phase => packer'.byte = ev.byte
    /\ ~(ev.pv /\ ~packer.phase) => packer'.byte = packer.byte
    /\ Pair => packer'.pixel[1] = packer.byte /\ packer'.pixel[2] = ev.byte
    /\ (packer'.fs <=> ~Pair /\ (packer.fs \/ ev.fs))
    /\ (packer'.fe <=> ~Pair /\ (packer.fe \/ ev.fe))
    /\ (packer'.fs16 <=> Pair /\ packer.fs) /\ (packer'.fe16 <=> Pair /\ packer.fe)
LEMMA PackSteps ==
    ASSUME CameraTypeOK, NEW level, NEW lines, NEW width, Edge(level, lines, width)
    PROVE  PackStep
BY DEF Edge, PackerNext, PackStep, CameraTypeOK

LEMMA PairStep ==
    ASSUME CameraTypeOK, CameraTypeOK', CaptureInv, PairInv,
           NEW level \in LevelsNow, NEW lines \in LineCounts, NEW width \in LineWidths,
           Edge(level, lines, width)
    PROVE  PairInv'
<1>1. Moved(level) /\ PackStep
  BY Moves, PackSteps
<1>2. ev'.pv => /\ packer'.phase => Col1' > 0 /\ Here(packer.byte, Row1, Col1 - 1)'
                /\ NotFirst(Row1)' => (packer'.phase <=> Col1' % 2 = 1)
  <2> SUFFICES ASSUME Href
               PROVE  /\ packer'.phase => Col1' > 0 /\ Here(packer.byte, Row1, Col1 - 1)'
                      /\ NotFirst(Row1)' => (packer'.phase <=> Col1' % 2 = 1)
    BY <1>1 DEF Moved, EvStep
  <2>1. Goes /\ Row1' = Line /\ Col1' = Column /\ Line \in Nat /\ Column \in Nat
    BY <1>1 DEF Moved
  <2>2. CASE ev.pv
    <3>1. Lit1 /\ Here(ev.byte, Row1, Col1) /\ ~Fresh
      BY <2>2 DEF CaptureInv, Fresh, Sampled
    <3>2. Line = Row1 /\ Column = Col1 + 1 /\ Col1 \in Nat
      BY <1>1, <3>1, Neighbours DEF Moved
    <3>3. packer'.phase <=> ~packer.phase
      BY <1>1, <2>2 DEF PackStep, PhaseNext
    <3>4. ~packer.phase => packer'.byte = ev.byte
      BY <1>1, <2>2 DEF PackStep
    <3>5. packer'.phase => Col1' > 0 /\ Here(packer.byte, Row1, Col1 - 1)'
      BY <2>1, <3>1, <3>2, <3>3, <3>4 DEF Here, Goes
    <3>6. NotFirst(Row1)' => (packer'.phase <=> Col1' % 2 = 1)
      <4>1. NotFirst(Row1)' => NotFirst(Row1)
        BY <1>1, <2>1, <3>2 DEF NotFirst, Moved, Goes
      <4>2. NotFirst(Row1) => (packer.phase <=> Col1 % 2 = 1)
        BY <2>2 DEF PairInv
      <4>3. (Col1 + 1) % 2 = 1 <=> ~(Col1 % 2 = 1)
        BY <3>2
      <4> QED BY <2>1, <3>2, <3>3, <4>1, <4>2, <4>3
    <3> QED BY <3>5, <3>6
  <2>3. CASE ~ev.pv
    <3>1. ~packer'.phase
      <4>1. ~HrefFall
        BY EdgesSeen
      <4> QED BY <1>1, <2>3, <4>1 DEF PairInv, PackStep, PhaseNext
    <3>2. NotFirst(Row1)' => Col1' = 0
      <4>1. CASE Fresh
        <5>1. first = <<1, Line>> /\ sensor.frame = 1
          BY <4>1 DEF Fresh
        <5> QED BY <1>1, <2>1, <5>1 DEF NotFirst, Moved, Goes
      <4>2. CASE ~Fresh
        <5>1. ~Lit1
          BY <2>3, <4>2 DEF CaptureInv, Sampled
        <5> QED BY <2>1, <5>1, Neighbours
      <4> QED BY <4>1, <4>2
    <3> QED BY <3>1, <3>2
  <2> QED BY <2>2, <2>3
<1>3. ~ev'.pv => (packer'.phase => HrefFall' \/ ev'.le)
  <2> SUFFICES ASSUME ~Href, packer'.phase PROVE HrefFall' \/ ev'.le
    BY <1>1 DEF Moved, EvStep
  <2>1. CASE ev.pv
    <3>1. cap.h0
      BY <2>1 DEF CaptureInv, Fresh, Sampled
    <3> QED BY <1>1, <3>1 DEF Moved, CapStep, HrefFall
  <2>2. CASE ~ev.pv
    <3>1. packer.phase /\ ~ev.le
      BY <1>1, <2>2 DEF PackStep, PhaseNext
    <3> QED BY <1>1, <2>2, <3>1 DEF PairInv, Moved, EvStep
  <2> QED BY <2>1, <2>2
<1>4. packer'.valid => /\ Lit2'
                       /\ Here(packer.pixel[1], Row2, Col2 - 1)' /\ Here(packer.pixel[2], Row2, Col2)'
                       /\ NotFirst(Row2)' => Col2' % 2 = 1
  <2> SUFFICES ASSUME ev.pv, packer.phase
               PROVE  /\ Lit2'
                      /\ Here(packer.pixel[1], Row2, Col2 - 1)' /\ Here(packer.pixel[2], Row2, Col2)'
                      /\ NotFirst(Row2)' => Col2' % 2 = 1
    BY <1>1 DEF PackStep, Pair
  <2>1. Lit1 /\ Here(ev.byte, Row1, Col1) /\ Here(packer.byte, Row1, Col1 - 1)
    BY DEF CaptureInv, Fresh, Sampled, PairInv
  <2>2. Goes /\ Row2' = Row1 /\ Col2' = Col1 /\ Lit2'
    BY <1>1, <2>1 DEF Moved
  <2>3. packer'.pixel[1] = packer.byte /\ packer'.pixel[2] = ev.byte
    BY <1>1 DEF PackStep, Pair
  <2>4. NotFirst(Row2)' => Col2' % 2 = 1
    <3>1. NotFirst(Row2)' => NotFirst(Row1)
      BY <1>1, <2>2 DEF NotFirst, Moved, Goes
    <3> QED BY <2>2, <3>1 DEF PairInv
  <2> QED BY <2>1, <2>2, <2>3, <2>4 DEF Here, Goes
<1>5. sensor'.frame > 1 /\ Lit2' /\ Col2' % 2 = 1 => packer'.valid
  <2> SUFFICES ASSUME sensor'.frame > 1, Lit1, Col2' % 2 = 1 PROVE ev.pv /\ packer.phase
    BY <1>1 DEF Moved, PackStep, Pair
  <2>1. Goes /\ Col2' = Col1 /\ sensor.frame > 1
    BY <1>1 DEF Moved, Goes
  <2>2. ev.pv /\ NotFirst(Row1)
    BY <2>1, SensorFields DEF CaptureInv, Fresh, Sampled, NotFirst
  <2> QED BY <2>1, <2>2 DEF PairInv
<1> QED BY <1>2, <1>3, <1>4, <1>5 DEF PairInv

\* Bytes and pixels arrive only once the first line has begun.
LEMMA FirstBytes ==
    ASSUME CameraTypeOK, CaptureInv
    PROVE  /\ ev.pv => Lit1 /\ sensor.t >= Lead + 1
           /\ sensor.frame > 1 => (ev.pv <=> Lit1)
           /\ sensor.t = Lead + 1 => Lit1 /\ Row1 = 0 /\ Col1 = 0
           /\ Lit2 => sensor.t >= Lead + 2
           /\ sensor.t = Lead + 2 => Col2 = 0
           /\ sensor.t = Lead + 2 /\ sensor.width > 1 => Lit1 /\ Row1 = 0 /\ Col1 = 1
           /\ sensor.t = Lead + 3 /\ sensor.width > 1 => Lit2 /\ Row2 = 0 /\ Col2 = 1
<1>1. /\ sensor.t \in Nat /\ sensor.lines \in Nat \ {0} /\ sensor.width \in Nat \ {0}
      /\ Lead \in Nat
  BY SensorFields, Sizes
<1>2. ev.pv => Lit1
  BY DEF CaptureInv, Fresh, Sampled
<1>3. sensor.frame > 1 => (ev.pv <=> Lit1)
  BY SensorFields DEF CaptureInv, Fresh, Sampled
<1>4. Lit1 => sensor.t >= Lead + 1
  BY <1>1 DEF Lit1, LitAt
<1>5. Lit2 => sensor.t >= Lead + 2
  BY <1>1 DEF Lit2, LitAt
<1>6. /\ RowAt(Lead, sensor.width) = 0 /\ ColumnAt(Lead, sensor.width) = 0
      /\ RowAt(Lead + 1, sensor.width) = 0 /\ ColumnAt(Lead + 1, sensor.width) = 1
  BY <1>1, FirstPlace
<1>7. LitAt(Lead, sensor.lines, sensor.width)
  BY <1>1, <1>6 DEF LitAt
<1>8. sensor.width > 1 => LitAt(Lead + 1, sensor.lines, sensor.width)
  BY <1>1, <1>6 DEF LitAt
<1>9. sensor.t = Lead + 1 => Lit1 /\ Row1 = 0 /\ Col1 = 0
  <2>1. sensor.t = Lead + 1 => sensor.t - 1 = Lead
    BY <1>1
  <2> QED BY <1>6, <1>7, <2>1 DEF Lit1, Row1, Col1
<1>10. /\ sensor.t = Lead + 2 => Col2 = 0
       /\ sensor.t = Lead + 2 /\ sensor.width > 1 => Lit1 /\ Row1 = 0 /\ Col1 = 1
  <2>1. sensor.t = Lead + 2 => sensor.t - 2 = Lead /\ sensor.t - 1 = Lead + 1
    BY <1>1
  <2> QED BY <1>6, <1>8, <2>1 DEF Lit1, Row1, Col1, Col2
<1>11. sensor.t = Lead + 3 /\ sensor.width > 1 => Lit2 /\ Row2 = 0 /\ Col2 = 1
  <2>1. sensor.t = Lead + 3 => sensor.t - 2 = Lead + 1
    BY <1>1
  <2> QED BY <1>6, <1>8, <2>1 DEF Lit2, Row2, Col2
<1> QED BY <1>2, <1>3, <1>4, <1>5, <1>9, <1>10, <1>11

\* frame_seen changes with a boundary only, and that is before the lines.
LEMMA SeenStep ==
    ASSUME CameraTypeOK, CameraTypeOK', CaptureInv,
           NEW level \in LevelsNow, NEW lines \in LineCounts, NEW width \in LineWidths,
           Edge(level, lines, width)
    PROVE  /\ cap.seen => cap'.seen /\ Turn' = Turn /\ sensor.frame > 1 /\ cap.locked
           /\ cap'.seen /\ ~cap.seen => sensor.t = Turn /\ Turn' = Turn
           /\ cap.seen => (Boundary <=> sensor.t = Turn)
<1>1. Moved(level) /\ (cap.locked => Turn' = Turn)
  BY Moves, CaptureStep
<1>2. cap.seen => cap.locked /\ sensor.frame > 1
  BY SensorFields DEF CaptureInv
<1>3. Boundary => cap.locked /\ sensor.t = Turn
  BY EdgesSeen
<1> QED BY <1>1, <1>2, <1>3, EdgesSeen DEF Moved, CapStep

LEMMA FirstPair ==
    ASSUME CameraTypeOK, CaptureInv, PairInv, cap.seen, sensor.t <= Lead + 2, sensor.width > 1
    PROVE  Pair <=> sensor.t = Lead + 2
<1>1. sensor.frame > 1 /\ \A row : NotFirst(row)
  BY SensorFields DEF CaptureInv, NotFirst
<1>2. ev.pv => (packer.phase <=> Col1 % 2 = 1)
  BY <1>1 DEF PairInv
<1>3. sensor.t = Lead + 2 => Pair
  BY <1>1, <1>2, FirstBytes DEF Pair
<1>4. ev.pv /\ sensor.t # Lead + 2 => sensor.t = Lead + 1
  BY SensorFields, Sizes, FirstBytes
<1>5. ev.pv /\ sensor.t # Lead + 2 => ~packer.phase
  BY <1>2, <1>4, FirstBytes
<1> QED BY <1>3, <1>5 DEF Pair

LEMMA MarkStep ==
    ASSUME CameraTypeOK, CameraTypeOK', CaptureInv, PairInv, MarkInv, sensor.width > 1,
           NEW level \in LevelsNow, NEW lines \in LineCounts, NEW width \in LineWidths,
           Edge(level, lines, width)
    PROVE  MarkInv'
<1>1. Moved(level) /\ PackStep
  BY Moves, PackSteps
<1>2. /\ sensor.t \in Nat /\ sensor.frame \in Nat /\ Lead \in Nat /\ Turn \in Nat /\ Turn >= 1
      /\ Turn + 1 <= Lead /\ Turn' \in Nat /\ Turn' >= 1
  <2>1. Turn' \in Nat /\ Turn' >= 1
    BY Sizes DEF Turn
  <2> QED BY <2>1, SensorFields, Sizes, TurnFacts
<1>3. (packer.fs \/ ev.fs) <=> cap.seen /\ Turn + 1 <= sensor.t /\ sensor.t <= Lead + 2
  BY <1>2 DEF MarkInv, CaptureInv
<1>4. packer'.fs <=> cap.seen /\ Turn + 1 <= sensor.t /\ sensor.t <= Lead + 1
  BY <1>1, <1>2, <1>3, FirstPair DEF PackStep
<1>5. packer'.fs <=> cap'.seen /\ Turn' + 2 <= sensor'.t /\ sensor'.t <= Lead + 2
  <2>1. CASE Goes
    <3>1. sensor'.t = sensor.t + 1
      BY <2>1 DEF Goes
    <3>2. CASE cap.seen
      <4>1. cap'.seen /\ Turn' = Turn
        BY <3>2, SeenStep
      <4> QED BY <1>2, <1>4, <3>1, <3>2, <4>1
    <3>3. CASE ~cap.seen
      <4>1. cap'.seen => sensor.t = Turn /\ Turn' = Turn
        BY <3>3, SeenStep
      <4> QED BY <1>2, <1>4, <3>1, <3>3, <4>1
    <3> QED BY <3>2, <3>3
  <2>2. CASE Turns
    <3>1. sensor.t > Lead + 3 /\ sensor'.t = 0
      BY <2>2, EndOfFrame DEF Turns
    <3>2. ~packer'.fs
      BY <1>2, <1>4, <3>1
    <3>3. ~(Turn' + 2 <= sensor'.t)
      <4>1. PICK n \in Nat : n = Turn'
        BY <1>2
      <4>2. sensor'.t = 0
        BY <3>1
      <4>3. ~(n + 2 <= 0)
        OBVIOUS
      <4> QED BY <4>1, <4>2, <4>3
    <3> QED BY <3>2, <3>3
  <2> QED BY <1>1, <2>1, <2>2 DEF Moved
<1>6. sensor.frame > 2 => sensor'.frame > 2
  BY <1>1, <1>2 DEF Moved, Goes, Turns
<1>7. packer'.fe => packer'.fs /\ sensor'.frame > 2
  BY <1>1, <1>6 DEF PackStep, MarkInv, CaptureInv
<1>8. packer'.fe16 => packer'.fs16 /\ sensor'.frame > 2
  BY <1>1, <1>6 DEF PackStep, MarkInv
<1>9. packer'.valid => (packer'.fs16 <=> cap'.seen /\ sensor'.t = Lead + 3)
  <2> SUFFICES ASSUME Pair PROVE packer.fs <=> cap'.seen /\ sensor'.t = Lead + 3
    BY <1>1 DEF PackStep
  <2>1. sensor'.t = sensor.t + 1
    BY <1>1, FirstBytes DEF Moved, Pair, Goes
  <2>2. packer.fs => sensor.t = Lead + 2 /\ cap'.seen
    BY FirstPair, SeenStep DEF MarkInv
  <2>3. sensor.t = Lead + 2 /\ cap'.seen => cap.seen
    BY <1>2, SeenStep
  <2> QED BY <1>2, <2>1, <2>2, <2>3 DEF MarkInv
<1> QED BY <1>5, <1>7, <1>8, <1>9 DEF MarkInv

\* The numbers of bytes and pixels sent go on clock by clock.
LEMMA NumbersStep ==
    ASSUME CameraTypeOK, Goes
    PROVE  /\ Bytes1 \in Nat /\ Pairs2 \in Nat
           /\ Bytes1' = Bytes1 + (IF Lit1 THEN 1 ELSE 0)
           /\ Pairs2' = Pairs2 + (IF Lit2 /\ Col2 % 2 = 1 THEN 1 ELSE 0)
           /\ sensor.t <= Lead + 1 => Bytes1 = 0
           /\ sensor.t <= Lead + 3 => Pairs2 = 0
<1>1. PICK t \in Nat, l \in Nat \ {0}, w \in Nat \ {0} :
          t = sensor.t /\ l = sensor.lines /\ w = sensor.width
  BY SensorFields
<1>2. PICK a \in Int, b \in Int, c \in Int :
          a = t - 1 /\ b = t - 2 /\ a + 1 = t /\ b + 1 = a /\ c = Lead + 1 /\ Lead \in Int
  BY Sizes
<1>3. sensor'.t - 1 = t /\ sensor'.t - 2 = a /\ sensor'.lines = l /\ sensor'.width = w
  BY <1>1, <1>2 DEF Goes
<1>4. /\ Bytes1 = BytesAt(a, l, w) /\ Pairs2 = PairsAt(b, l, w)
      /\ Bytes1' = BytesAt(t, l, w) /\ Pairs2' = PairsAt(a, l, w)
      /\ (Lit1 <=> LitAt(a, l, w)) /\ (Lit2 <=> LitAt(b, l, w)) /\ Col2 = ColumnAt(b, w)
  BY <1>1, <1>2, <1>3 DEF Bytes1, Pairs2, Lit1, Lit2, Col2
<1>5. /\ BytesAt(a, l, w) \in Nat
      /\ BytesAt(a + 1, l, w) = BytesAt(a, l, w) + (IF LitAt(a, l, w) THEN 1 ELSE 0)
      /\ a <= Lead => BytesAt(a, l, w) = 0
  BY CountStep
<1>6. /\ PairsAt(b, l, w) \in Nat
      /\ PairsAt(b + 1, l, w) =
             PairsAt(b, l, w) + (IF LitAt(b, l, w) /\ ColumnAt(b, w) % 2 = 1 THEN 1 ELSE 0)
      /\ b <= Lead => PairsAt(b, l, w) = 0
  BY CountStep
<1>7. PairsAt(Lead + 1, l, w) = 0
  <2>1. PairsAt(Lead, l, w) = 0 /\ ColumnAt(Lead, w) = 0
    BY <1>2, CountStep, FirstPlace
  <2>2. PairsAt(Lead + 1, l, w) =
            PairsAt(Lead, l, w) + (IF LitAt(Lead, l, w) /\ ColumnAt(Lead, w) % 2 = 1 THEN 1 ELSE 0)
    BY <1>2, CountStep
  <2>3. ~(ColumnAt(Lead, w) % 2 = 1)
    BY <2>1
  <2> QED BY <2>1, <2>2, <2>3
<1>8. t <= Lead + 3 => b <= Lead \/ b = Lead + 1
  BY <1>2
<1>9. sensor.t <= Lead + 3 => Pairs2 = 0
  BY <1>1, <1>4, <1>6, <1>7, <1>8
<1>10. sensor.t <= Lead + 1 => Bytes1 = 0
  BY <1>1, <1>2, <1>4, <1>5
<1> QED BY <1>2, <1>4, <1>5, <1>6, <1>9, <1>10

LEMMA PixelStep ==
    ASSUME CameraTypeOK, CameraTypeOK', CaptureInv, PairInv, PixelInv, sensor.width > 1,
           NEW level \in LevelsNow, NEW lines \in LineCounts, NEW width \in LineWidths,
           Edge(level, lines, width)
    PROVE  PixelInv'
<1>1. Moved(level) /\ (Goes \/ Turns)
  BY Moves DEF Moved
<1>2. /\ sensor.t \in Nat /\ sensor.frame \in Nat /\ sensor.frame > 0 /\ Lead \in Nat
      /\ pixels.frame \in Nat /\ pixels.n \in Nat
  BY SensorFields, Sizes DEF CameraTypeOK
<1>3. ~packer.valid => pixels' = pixels
  BY DEF Edge, PixelsNext
<1>4. packer.valid =>
          /\ Lit2 /\ pixels'.frame = sensor.frame
          /\ pixels'.lines = sensor.lines /\ pixels'.width = sensor.width
          /\ pixels'.n = IF sensor.frame = pixels.frame THEN pixels.n + 1 ELSE 1
  BY DEF Edge, PixelsNext, PairInv, Here
<1>5. sensor.frame > 1 => (packer.valid <=> Lit2 /\ Col2 % 2 = 1)
  BY DEF PairInv, NotFirst, CaptureInv
<1>6. CASE Goes
  <2>1. sensor'.t = sensor.t + 1 /\ sensor'.frame = sensor.frame
        /\ sensor'.lines = sensor.lines /\ sensor'.width = sensor.width
    BY <1>6 DEF Goes
  <2>2. /\ Pairs2 \in Nat
        /\ Pairs2' = Pairs2 + (IF Lit2 /\ Col2 % 2 = 1 THEN 1 ELSE 0)
        /\ sensor.t <= Lead + 3 => Pairs2 = 0
    BY <1>6, NumbersStep
  <2>3. pixels'.frame <= sensor'.frame
    BY <1>2, <1>3, <1>4, <2>1 DEF PixelInv
  <2>4. CASE sensor.t <= Lead + 2
    <3>1. sensor.frame > 1 => ~packer.valid
      <4>1. Lit2 => Col2 = 0
        BY <1>2, <2>4, FirstBytes
      <4>2. ~(0 % 2 = 1)
        OBVIOUS
      <4> QED BY <1>5, <4>1, <4>2
    <3> QED BY <1>2, <1>3, <2>1, <2>3, <2>4, <3>1 DEF PixelInv
  <2>5. CASE sensor.t = Lead + 3
    <3>1. sensor.frame > 1 => packer.valid /\ Pairs2' = 1
      <4>1. Lit2 /\ Col2 = 1 /\ 1 % 2 = 1
        BY <2>5, FirstBytes
      <4>2. Pairs2 = 0
        BY <1>2, <2>2, <2>5
      <4> QED BY <1>5, <2>2, <4>1, <4>2
    <3>2. sensor.frame > 1 => pixels.frame < sensor.frame
      BY <1>2, <2>5 DEF PixelInv
    <3> QED BY <1>2, <1>4, <2>1, <2>3, <2>5, <3>1, <3>2 DEF PixelInv
  <2>6. CASE sensor.t > Lead + 3
    <3>1. sensor.frame > 1 =>
              /\ pixels.frame = sensor.frame /\ pixels.n = Pairs2
              /\ pixels.lines = sensor.lines /\ pixels.width = sensor.width
      BY <2>6 DEF PixelInv
    <3>2. sensor.frame > 1 =>
              /\ pixels'.frame = sensor.frame /\ pixels'.n = Pairs2'
              /\ pixels'.lines = sensor.lines /\ pixels'.width = sensor.width
      <4>1. CASE packer.valid
        BY <1>4, <1>5, <2>2, <3>1, <4>1
      <4>2. CASE ~packer.valid
        BY <1>3, <1>5, <2>2, <3>1, <4>2
      <4> QED BY <4>1, <4>2
    <3> QED BY <1>2, <2>1, <2>3, <2>6, <3>2 DEF PixelInv
  <2> QED BY <1>2, <2>4, <2>5, <2>6
<1>7. CASE Turns
  <2>1. /\ sensor.t > Lead + 3 /\ ~Lit2
        /\ Pairs2 = sensor.lines * (sensor.width \div 2)
        /\ sensor'.t = 0 /\ sensor'.frame = sensor.frame + 1
    BY <1>7, EndOfFrame DEF Turns
  <2>2. pixels' = pixels
    BY <1>3, <1>4, <2>1
  <2>3. sensor.frame > 1 =>
            /\ pixels.frame = sensor.frame
            /\ pixels.n = pixels.lines * (pixels.width \div 2)
    BY <2>1 DEF PixelInv
  <2>4. pixels.frame <= sensor.frame
    BY DEF PixelInv
  <2> QED BY <1>2, <2>1, <2>2, <2>3, <2>4 DEF PixelInv
<1> QED BY <1>1, <1>6, <1>7

LEMMA TallyStep ==
    ASSUME CameraTypeOK, CameraTypeOK', CaptureInv, TallyInv,
           NEW level \in LevelsNow, NEW lines \in LineCounts, NEW width \in LineWidths,
           Edge(level, lines, width)
    PROVE  TallyInv'
<1>1. Goes \/ Turns
  BY Moves DEF Moved
<1>2. /\ sensor.t \in Nat /\ sensor.frame \in Nat /\ sensor.frame > 0 /\ Lead \in Nat
      /\ tally.frame \in Nat /\ tally.total \in Nat
  BY SensorFields, Sizes DEF CameraTypeOK
<1>3. ~ev.pv => tally' = tally
  BY DEF Edge, TallyNext
<1>4. ev.pv =>
          /\ Lit1 /\ tally'.frame = sensor.frame
          /\ tally'.lines = sensor.lines /\ tally'.width = sensor.width
          /\ tally'.total = IF sensor.frame = tally.frame THEN tally.total + 1 ELSE 1
  <2> SUFFICES ASSUME ev.pv
               PROVE  /\ Lit1 /\ tally'.frame = sensor.frame
                      /\ tally'.lines = sensor.lines /\ tally'.width = sensor.width
                      /\ tally'.total = IF sensor.frame = tally.frame THEN tally.total + 1 ELSE 1
    OBVIOUS
  <2>1. Here(ev.byte, Row1, Col1) /\ Lit1
    BY FirstBytes DEF CaptureInv
  <2> QED BY <1>2, <2>1 DEF Edge, TallyNext, Here
<1>5. sensor.frame > 1 => (ev.pv <=> Lit1)
  BY FirstBytes
<1>6. CASE Goes
  <2>1. sensor'.t = sensor.t + 1 /\ sensor'.frame = sensor.frame
        /\ sensor'.lines = sensor.lines /\ sensor'.width = sensor.width
    BY <1>6 DEF Goes
  <2>2. /\ Bytes1 \in Nat /\ Bytes1' = Bytes1 + (IF Lit1 THEN 1 ELSE 0)
        /\ sensor.t <= Lead + 1 => Bytes1 = 0
    BY <1>6, NumbersStep
  <2>3. tally'.frame <= sensor'.frame
    BY <1>2, <1>3, <1>4, <2>1 DEF TallyInv
  <2>4. CASE sensor.t <= Lead
    <3>1. ~ev.pv
      BY <1>2, <2>4, FirstBytes
    <3> QED BY <1>2, <1>3, <2>1, <2>3, <2>4, <3>1 DEF TallyInv
  <2>5. CASE sensor.t = Lead + 1
    <3>1. sensor.frame > 1 => ev.pv /\ Bytes1' = 1
      BY <1>2, <1>5, <2>2, <2>5, FirstBytes
    <3>2. sensor.frame > 1 => tally.frame < sensor.frame
      BY <1>2, <2>5 DEF TallyInv
    <3> QED BY <1>2, <1>4, <2>1, <2>3, <2>5, <3>1, <3>2 DEF TallyInv
  <2>6. CASE sensor.t > Lead + 1
    <3>1. sensor.frame > 1 =>
              /\ tally.frame = sensor.frame /\ tally.total = Bytes1
              /\ tally.lines = sensor.lines /\ tally.width = sensor.width
      BY <2>6 DEF TallyInv
    <3>2. sensor.frame > 1 =>
              /\ tally'.frame = sensor.frame /\ tally'.total = Bytes1'
              /\ tally'.lines = sensor.lines /\ tally'.width = sensor.width
      <4>1. CASE ev.pv
        BY <1>4, <1>5, <2>2, <3>1, <4>1
      <4>2. CASE ~ev.pv
        BY <1>3, <1>5, <2>2, <3>1, <4>2
      <4> QED BY <4>1, <4>2
    <3> QED BY <1>2, <2>1, <2>3, <2>6, <3>2 DEF TallyInv
  <2> QED BY <1>2, <2>4, <2>5, <2>6
<1>7. CASE Turns
  <2>1. /\ sensor.t > Lead + 3 /\ ~Lit1 /\ Bytes1 = sensor.lines * sensor.width
        /\ sensor'.t = 0 /\ sensor'.frame = sensor.frame + 1
    BY <1>7, EndOfFrame DEF Turns
  <2>2. tally' = tally
    BY <1>3, <1>4, <2>1
  <2>3. sensor.frame > 1 =>
            tally.frame = sensor.frame /\ tally.total = tally.lines * tally.width
    BY <1>2, <2>1 DEF TallyInv
  <2>4. tally.frame <= sensor.frame
    BY DEF TallyInv
  <2> QED BY <1>2, <2>1, <2>2, <2>3, <2>4 DEF TallyInv
<1> QED BY <1>1, <1>6, <1>7

\* A counter modulo m counts like the number it stands for while that is below m.
LEMMA SmallMod ==
    ASSUME NEW m \in Nat \ {0}, NEW n \in 0..(m - 1)
    PROVE  n % m = n
<1>1. PICK q \in Nat, s \in 0..(m - 1) : s = n % m /\ n = m * q + s
  <2>1. n \in Nat
    OBVIOUS
  <2> QED BY <2>1, Euclid
<1>2. m * 0 + n = m * q + s /\ 0 \in Int /\ q \in Int
  BY <1>1
<1>3. n = s
  BY <1>2, Unique
<1> QED BY <1>1, <1>3

\* The counters and the record after a clock; what the tally counts of a byte.
One(condition) == IF condition THEN 1 ELSE 0
CoreStep ==
    /\ core'.bytes = (IF enable /\ ev.pv THEN core.bytes + 1 ELSE IF ev.fs THEN 0 ELSE core.bytes)
    /\ core'.bright = (IF enable /\ ev.pv /\ InRoi /\ ev.byte.bright
                       THEN (core.bright + 1) % CountMod
                       ELSE IF ev.fs THEN 0 ELSE core.bright)
    /\ (core'.wr <=> ev.fe /\ enable)
    /\ ev.fe /\ enable => core'.rec.active = core.bytes \div 2 /\ core'.rec.bright = core.bright
    /\ reported' = (IF core.wr THEN tally.frame ELSE reported)
    /\ enable' = enable /\ toggles' = toggles
TallyStepOf ==
    /\ ~ev.pv => tally' = tally
    /\ ev.pv => LET of(n) == IF ev.byte.frame # tally.frame THEN 0 ELSE n
                IN /\ tally'.bytes = of(tally.bytes) + One(enable)
                   /\ tally'.inner = of(tally.inner)
                                     + One(enable /\ ev.byte.bright /\ InnerRoi(ev.byte))
                   /\ tally'.outer = of(tally.outer)
                                     + One(enable /\ ev.byte.bright /\ OuterRoi(ev.byte))
LEMMA CoreSteps ==
    ASSUME CameraTypeOK, NEW level, NEW lines, NEW width, Edge(level, lines, width)
    PROVE  CoreStep /\ TallyStepOf
<1>1. CoreStep
  BY DEF Edge, CoreNext, CoreStep, Counted, ClearCounts, CameraTypeOK
<1>2. TallyStepOf
  BY DEF Edge, TallyNext, TallyStepOf, One
<1> QED BY <1>1, <1>2

LEMMA RoiFound ==
    ASSUME CameraTypeOK, CaptureInv, PlaceInv, ev.pv, sensor.frame > 1
    PROVE  (InnerRoi(ev.byte) => InRoi) /\ (InRoi => OuterRoi(ev.byte))
<1>1. NotFirst(Row1) /\ Here(ev.byte, Row1, Col1)
  BY DEF NotFirst, CaptureInv
<1>2. ev.x = ev.byte.col + 1
  BY <1>1 DEF PlaceInv, Here
<1>3. ev.byte.col \in Nat
  BY DEF CameraTypeOK, AnyByte
<1> QED BY <1>2, <1>3, Sizes DEF InRoi, InnerRoi, OuterRoi

\* A byte is counted on both sides or on neither, but for those at the edges of the ROI.
LEMMA BothCount ==
    ASSUME CameraTypeOK, CaptureInv, PlaceInv, CoreStep, TallyStepOf, sensor.frame > 1, ~ev.fs,
           NEW bytes \in Nat, NEW inner \in Nat, NEW outer \in Nat,
           ev.pv => /\ bytes = (IF ev.byte.frame # tally.frame THEN 0 ELSE tally.bytes)
                    /\ inner = (IF ev.byte.frame # tally.frame THEN 0 ELSE tally.inner)
                    /\ outer = (IF ev.byte.frame # tally.frame THEN 0 ELSE tally.outer),
           ~ev.pv => bytes = tally.bytes /\ inner = tally.inner /\ outer = tally.outer,
           core.bytes = bytes, Bounded(core.bright, inner, outer)
    PROVE  core'.bytes = tally'.bytes /\ Bounded(core'.bright, tally'.inner, tally'.outer)
<1>0. core.bright \in Nat /\ CountMod \in Nat \ {0}
  BY Sizes DEF CameraTypeOK
<1>1. CASE ~ev.pv
  BY <1>1 DEF CoreStep, TallyStepOf
<1>2. CASE ev.pv
  <2>1. (InnerRoi(ev.byte) => InRoi) /\ (InRoi => OuterRoi(ev.byte))
    BY <1>2, RoiFound
  <2>2. /\ tally'.bytes = bytes + One(enable)
        /\ tally'.inner = inner + One(enable /\ ev.byte.bright /\ InnerRoi(ev.byte))
        /\ tally'.outer = outer + One(enable /\ ev.byte.bright /\ OuterRoi(ev.byte))
    BY <1>2 DEF TallyStepOf, One
  <2>3. core'.bytes = bytes + One(enable)
    BY <1>2 DEF CoreStep, One
  <2>4. CASE enable /\ ev.byte.bright /\ InRoi
    <3>1. core'.bright = (core.bright + 1) % CountMod /\ tally'.outer = outer + 1
          /\ (tally'.inner = inner \/ tally'.inner = inner + 1)
      BY <1>2, <2>1, <2>2, <2>4 DEF CoreStep, One
    <3>2. ASSUME outer + 1 < CountMod
          PROVE  inner <= core.bright /\ core.bright <= outer
                 /\ (core.bright + 1) % CountMod = core.bright + 1
      <4>1. inner <= core.bright /\ core.bright <= outer
        BY <1>0, <3>2 DEF Bounded
      <4>2. core.bright + 1 \in 0..(CountMod - 1)
        BY <1>0, <3>2, <4>1
      <4> QED BY <1>0, <4>1, <4>2, SmallMod
    <3>3. Bounded(core'.bright, tally'.inner, tally'.outer)
      BY <1>0, <3>1, <3>2 DEF Bounded
    <3> QED BY <2>2, <2>3, <3>3
  <2>5. CASE ~(enable /\ ev.byte.bright /\ InRoi)
    <3>1. core'.bright = core.bright /\ tally'.inner = inner
          /\ (tally'.outer = outer \/ tally'.outer = outer + 1)
      BY <1>2, <2>1, <2>2, <2>5 DEF CoreStep, One
    <3>2. Bounded(core'.bright, tally'.inner, tally'.outer)
      BY <1>0, <3>1 DEF Bounded
    <3> QED BY <2>2, <2>3, <3>2
  <2> QED BY <2>4, <2>5
<1> QED BY <1>1, <1>2

LEMMA SumStep ==
    ASSUME CameraTypeOK, CameraTypeOK', CaptureInv, PlaceInv, TallyInv, CountInv,
           NEW level \in LevelsNow, NEW lines \in LineCounts, NEW width \in LineWidths,
           Edge(level, lines, width)
    PROVE  CountInv'
<1>1. Moved(level) /\ (Goes \/ Turns) /\ CoreStep /\ TallyStepOf
  BY Moves, CoreSteps DEF Moved
<1>2. /\ sensor.t \in Nat /\ sensor.frame \in Nat /\ Lead \in Nat /\ Turn \in Nat /\ Turn >= 1
      /\ Turn + 1 <= Lead /\ CountMod \in Nat \ {0}
      /\ tally.bytes \in Nat /\ tally.inner \in Nat /\ tally.outer \in Nat /\ tally.frame \in Nat
  BY SensorFields, Sizes, TurnFacts DEF CameraTypeOK
<1>3. /\ ev.pv => sensor.t >= Lead + 1 /\ Lit1
      /\ ev.fs <=> cap.seen /\ sensor.t = Turn + 1
      /\ ev.fe => ev.fs /\ sensor.frame > 2
  BY FirstBytes DEF CaptureInv
<1>4. (ev'.fe <=> Boundary /\ cap.seen) /\ (cap'.seen <=> cap.seen \/ Boundary)
  BY <1>1 DEF Moved, EvStep, CapStep
<1>5. core'.wr =>
          /\ cap'.seen /\ sensor'.t = Turn' + 2 /\ sensor'.frame > 2
          /\ core'.rec.active = tally'.bytes \div 2
          /\ Bounded(core'.rec.bright, tally'.inner, tally'.outer)
  <2> SUFFICES ASSUME ev.fe, enable
               PROVE  /\ cap'.seen /\ sensor'.t = Turn' + 2 /\ sensor'.frame > 2
                      /\ core'.rec.active = tally'.bytes \div 2
                      /\ Bounded(core'.rec.bright, tally'.inner, tally'.outer)
    BY <1>1 DEF CoreStep
  <2>1. cap.seen /\ sensor.t = Turn + 1 /\ ~ev.pv /\ sensor.frame > 2
    BY <1>2, <1>3
  <2>2. Goes /\ Turn' = Turn
    BY <1>1, <1>2, <2>1, EndOfFrame, SeenStep
  <2>3. Same(core.bytes, core.bright)
    BY <2>1 DEF CountInv
  <2>4. tally' = tally /\ core'.rec.active = core.bytes \div 2 /\ core'.rec.bright = core.bright
    BY <1>1, <2>1 DEF CoreStep, TallyStepOf
  <2> QED BY <1>2, <1>4, <2>1, <2>2, <2>3, <2>4 DEF Same, Goes
<1>6. CASE ~cap.seen
  <2> SUFFICES ASSUME cap'.seen
               PROVE  ~(sensor'.t <= Turn' \/ sensor'.t > Lead + 1 \/ ev'.fe)
                      /\ ~(sensor'.t >= Turn' + 2)
    BY <1>5 DEF CountInv
  <2>1. sensor.t = Turn /\ Turn' = Turn
    BY <1>6, SeenStep
  <2>2. Goes
    BY <1>1, <1>2, <2>1, EndOfFrame
  <2> QED BY <1>2, <1>4, <1>6, <2>1, <2>2 DEF Goes
<1>7. CASE cap.seen
  <2>1. cap'.seen /\ Turn' = Turn /\ sensor.frame > 1 /\ (Boundary <=> sensor.t = Turn)
    BY <1>7, SeenStep
  <2>2. CASE Turns
    <3>1. sensor'.t = 0 /\ sensor.t > Lead + 3 /\ ~Lit1
      BY <2>2, EndOfFrame DEF Turns
    <3>2. ~ev.pv /\ ~ev.fs
      BY <1>2, <1>3, <3>1
    <3>3. core'.bytes = core.bytes /\ core'.bright = core.bright /\ tally' = tally
      BY <1>1, <3>2 DEF CoreStep, TallyStepOf
    <3>4. Same(core.bytes, core.bright)
      BY <1>2, <1>7, <3>1 DEF CountInv
    <3> QED BY <1>2, <1>5, <2>1, <3>1, <3>3, <3>4 DEF CountInv, Same
  <2>3. CASE Goes
    <3>1. sensor'.t = sensor.t + 1
      BY <2>3 DEF Goes
    <3>2. CASE sensor.t <= Turn
      <4>1. ~ev.pv /\ ~ev.fs
        BY <1>2, <1>3, <3>2
      <4>2. core'.bytes = core.bytes /\ core'.bright = core.bright /\ tally' = tally
        BY <1>1, <4>1 DEF CoreStep, TallyStepOf
      <4>3. Same(core.bytes, core.bright)
        BY <1>7, <3>2 DEF CountInv
      <4> QED BY <1>2, <1>5, <2>1, <3>1, <3>2, <4>2, <4>3 DEF CountInv, Same
    <3>3. CASE sensor.t = Turn + 1
      <4>1. ~ev.pv /\ ev.fs /\ ~ev'.fe
        BY <1>2, <1>3, <1>4, <1>7, <2>1, <3>3
      <4>2. core'.bytes = 0 /\ core'.bright = 0
        BY <1>1, <4>1 DEF CoreStep
      <4> QED BY <1>2, <1>5, <2>1, <3>1, <3>3, <4>1, <4>2 DEF CountInv
    <3>4. CASE sensor.t >= Turn + 2 /\ sensor.t <= Lead
      <4>1. ~ev.pv /\ ~ev.fs /\ ~ev'.fe
        BY <1>2, <1>3, <1>4, <2>1, <3>4
      <4>2. core'.bytes = core.bytes /\ core'.bright = core.bright
        BY <1>1, <4>1 DEF CoreStep
      <4>3. core.bytes = 0 /\ core.bright = 0
        BY <1>2, <1>7, <3>4 DEF CountInv
      <4> QED BY <1>2, <1>5, <2>1, <3>1, <3>4, <4>1, <4>2, <4>3 DEF CountInv
    <3>5. CASE sensor.t = Lead + 1
      <4>1. ev.pv /\ ~ev.fs /\ ev.byte.frame # tally.frame
        <5>1. ev.pv /\ Here(ev.byte, Row1, Col1)
          BY <2>1, <3>5, FirstBytes DEF CaptureInv
        <5>2. tally.frame < sensor.frame
          BY <1>2, <2>1, <3>5 DEF TallyInv
        <5> QED BY <1>2, <1>3, <3>5, <5>1, <5>2 DEF Here
      <4>2. core.bytes = 0 /\ core.bright = 0
        BY <1>2, <1>7, <3>5 DEF CountInv
      <4>3. core'.bytes = tally'.bytes /\ Bounded(core'.bright, tally'.inner, tally'.outer)
        <5>1. 0 \in Nat /\ Bounded(0, 0, 0)
          BY DEF Bounded
        <5> QED BY <1>1, <2>1, <4>1, <4>2, <5>1, BothCount
      <4> QED BY <1>2, <1>5, <2>1, <3>1, <3>5, <4>3 DEF CountInv, Same
    <3>6. CASE sensor.t > Lead + 1
      <4>1. Same(core.bytes, core.bright)
        BY <1>7, <3>6 DEF CountInv
      <4>2. ev.pv => ev.byte.frame = tally.frame
        BY <2>1, <3>6 DEF CaptureInv, Here, TallyInv
      <4>3. ~ev.fs
        BY <1>2, <1>3, <3>6
      <4>4. core'.bytes = tally'.bytes /\ Bounded(core'.bright, tally'.inner, tally'.outer)
        BY <1>1, <1>2, <2>1, <4>1, <4>2, <4>3, BothCount DEF Same
      <4> QED BY <1>2, <1>5, <2>1, <3>1, <3>6, <4>4 DEF CountInv, Same
    <3> QED BY <1>2, <3>2, <3>3, <3>4, <3>5, <3>6
  <2> QED BY <1>1, <2>2, <2>3
<1> QED BY <1>6, <1>7

\* reported follows the frames.
LEMMA ReportStep ==
    ASSUME CameraTypeOK, CameraTypeOK', CaptureInv, TallyInv, CountInv, ReportInv,
           NEW level \in LevelsNow, NEW lines \in LineCounts, NEW width \in LineWidths,
           Edge(level, lines, width)
    PROVE  ReportInv'
<1>1. Moved(level) /\ (Goes \/ Turns) /\ CoreStep
  BY Moves, CoreSteps DEF Moved
<1>2. /\ sensor.t \in Nat /\ sensor.frame \in Nat /\ Lead \in Nat /\ Turn \in Nat /\ Turn >= 1
      /\ Turn + 1 <= Lead /\ reported \in Nat /\ reported' \in Nat
  BY SensorFields, Sizes, TurnFacts DEF CameraTypeOK
<1>3. /\ enable' = enable /\ toggles' = toggles /\ (core'.wr <=> ev.fe /\ enable)
      /\ reported' = IF core.wr THEN tally.frame ELSE reported
  BY <1>1 DEF CoreStep
<1>4. (toggles' = 0 => enable') /\ (toggles = 0 => enable)
  BY <1>3 DEF ReportInv
<1>5. CASE core.wr
  <2>1. cap.seen /\ sensor.t = Turn + 2 /\ sensor.frame > 2
    BY <1>5 DEF CountInv
  <2>2. tally.frame = sensor.frame - 1
    BY <1>2, <2>1 DEF TallyInv
  <2>3. Goes /\ Turn' = Turn /\ cap'.seen
    BY <1>1, <1>2, <2>1, EndOfFrame, SeenStep
  <2>4. sensor'.t = Turn + 3 /\ sensor'.frame = sensor.frame
    BY <1>2, <2>1, <2>3 DEF Goes
  <2>5. reported' = sensor.frame - 1 /\ Reported' = sensor.frame - 1
    BY <1>2, <1>3, <1>5, <2>2, <2>3, <2>4 DEF Reported
  <2> QED BY <1>2, <1>4, <2>3, <2>4, <2>5 DEF ReportInv
<1>6. CASE ~core.wr
  <2> SUFFICES ASSUME reported > 0
               PROVE  /\ cap'.seen /\ reported <= Reported'
                      /\ sensor'.t = Turn' + 1 => ev'.fe
                      /\ toggles = 0 => /\ reported = Reported'
                                        /\ sensor'.t = Turn' + 2 => core'.wr
    BY <1>3, <1>4, <1>6 DEF ReportInv
  <2>1. /\ cap.seen /\ reported <= Reported
        /\ sensor.t = Turn + 1 => ev.fe
        /\ toggles = 0 => reported = Reported /\ sensor.t # Turn + 2
    BY <1>6 DEF ReportInv
  <2>2. cap'.seen /\ Turn' = Turn /\ (Boundary <=> sensor.t = Turn)
    BY <2>1, SeenStep
  <2>3. ev'.fe <=> sensor.t = Turn
    BY <1>1, <2>1, <2>2 DEF Moved, EvStep
  <2>4. CASE Goes
    <3>1. sensor'.t = sensor.t + 1 /\ sensor'.frame = sensor.frame
      BY <2>4 DEF Goes
    <3>2. reported <= Reported' /\ (toggles = 0 => reported = Reported')
      BY <1>2, <2>1, <2>2, <3>1 DEF Reported
    <3>3. sensor'.t = Turn' + 1 => ev'.fe
      BY <1>2, <2>2, <2>3, <3>1
    <3>4. toggles = 0 /\ sensor'.t = Turn' + 2 => core'.wr
      BY <1>2, <1>3, <1>4, <2>1, <2>2, <3>1
    <3> QED BY <2>2, <3>2, <3>3, <3>4
  <2>5. CASE Turns
    <3>1. sensor'.t = 0 /\ sensor'.frame = sensor.frame + 1 /\ sensor.t > Lead + 3
      BY <2>5, EndOfFrame DEF Turns
    <3>2. reported <= Reported' /\ (toggles = 0 => reported = Reported')
      BY <1>2, <2>1, <2>2, <3>1 DEF Reported
    <3>3. ~(sensor'.t = Turn' + 1) /\ ~(sensor'.t = Turn' + 2)
      BY <1>2, <2>2, <3>1
    <3> QED BY <2>2, <3>2, <3>3
  <2> QED BY <1>1, <2>4, <2>5
<1> QED BY <1>5, <1>6

(***************************************************************************)
(* The whole invariant, and what it says.  MarksInv needs lines that have  *)
(* a pixel: a frame of one-byte lines has none, and its marks would wait   *)
(* for the next frame.                                                     *)
(***************************************************************************)
CameraInv == CaptureInv /\ PlaceInv /\ PairInv /\ TallyInv /\ CountInv /\ ReportInv
MarksInv == MarkInv /\ PixelInv

LEMMA CameraStart == ASSUME CameraInit PROVE CameraInv /\ MarksInv
<1>1. /\ sensor.frame = 1 /\ ~cap.v0 /\ ~cap.v1 /\ ~cap.h0 /\ ~cap.h1 /\ ~cap.locked /\ ~cap.edge
      /\ ~cap.seen /\ ~ev.fs /\ ~ev.fe /\ ~ev.pv /\ ev.x = 0 /\ ~packer.phase /\ ~packer.valid
      /\ ~packer.fs /\ ~packer.fe /\ ~packer.fe16 /\ ~core.wr
      /\ first = <<1, IF Href THEN Line ELSE -1>>
      /\ tally.frame = 0 /\ pixels.frame = 0 /\ reported = 0 /\ enable
  BY DEF CameraInit
<1>2. CaptureInv
  BY <1>1 DEF CaptureInv, Fresh, Unlocked
<1>3. PlaceInv /\ PairInv /\ MarkInv
  BY <1>1 DEF PlaceInv, PairInv, MarkInv
<1>4. PixelInv /\ TallyInv
  BY <1>1 DEF PixelInv, TallyInv
<1>5. CountInv /\ ReportInv
  BY <1>1 DEF CountInv, ReportInv
<1> QED BY <1>2, <1>3, <1>4, <1>5 DEF CameraInv, MarksInv

\* Without a clock only capture_enable can change.
LEMMA NoClock ==
    ASSUME CameraTypeOK, Toggle \/ UNCHANGED cameraVars
    PROVE  (CameraInv => CameraInv') /\ (MarksInv => MarksInv')
<1>1. /\ UNCHANGED <<sensor, cap, ev, sync, packer, core, first, tally, pixels, reported>>
      /\ (enable' = enable /\ toggles' = toggles) \/ toggles' # 0
  BY ToggleFacts DEF cameraVars
<1>2. /\ (Href' <=> Href) /\ (HrefFall' <=> HrefFall) /\ Line' = Line
      /\ (Lit1' <=> Lit1) /\ (Lit2' <=> Lit2) /\ Row1' = Row1 /\ Row2' = Row2
      /\ Col1' = Col1 /\ Col2' = Col2 /\ Bytes1' = Bytes1 /\ Pairs2' = Pairs2
      /\ (Vsync1' <=> Vsync1) /\ (Vsync2' <=> Vsync2) /\ Turn' = Turn
  BY <1>1 DEF Href, Line, Column, Since, LineTime, HrefFall, Lit1, Lit2, Row1, Row2, Col1, Col2,
              Bytes1, Pairs2, Vsync1, Vsync2, Turn
<1>3. CaptureInv => CaptureInv'
  BY <1>1, <1>2 DEF CaptureInv, Fresh, Unlocked, Sampled, Here
<1>4. (PlaceInv => PlaceInv') /\ (PairInv => PairInv')
  BY <1>1, <1>2 DEF PlaceInv, PairInv, Here, NotFirst
<1>5. (TallyInv => TallyInv') /\ (PixelInv => PixelInv')
  BY <1>1, <1>2 DEF TallyInv, PixelInv
<1>6. (CountInv => CountInv') /\ (MarkInv => MarkInv')
  BY <1>1, <1>2 DEF CountInv, MarkInv, Same
<1>7. ReportInv => ReportInv'
  BY <1>1, <1>2 DEF ReportInv, Reported
<1> QED BY <1>3, <1>4, <1>5, <1>6, <1>7 DEF CameraInv, MarksInv

LEMMA CameraStep ==
    ASSUME CameraTypeOK, CameraTypeOK', CameraInv, [CameraNext]_cameraVars
    PROVE  CameraInv'
<1>1. ASSUME NEW level \in LevelsNow, NEW lines \in LineCounts, NEW width \in LineWidths,
             Edge(level, lines, width)
      PROVE  CameraInv'
  <2> USE DEF CameraInv
  <2>1. CaptureInv'
    BY <1>1, CaptureStep
  <2>2. PlaceInv' /\ PairInv'
    BY <1>1, PlaceStep, PairStep
  <2>3. TallyInv' /\ CountInv'
    BY <1>1, TallyStep, SumStep
  <2>4. ReportInv'
    BY <1>1, ReportStep
  <2> QED BY <2>1, <2>2, <2>3, <2>4
<1> QED BY <1>1, NoClock DEF CameraNext

LEMMA MarksStep ==
    ASSUME \A w \in LineWidths : w > 1, CameraTypeOK, CameraTypeOK', CameraInv, MarksInv,
           [CameraNext]_cameraVars
    PROVE  MarksInv'
<1>1. ASSUME NEW level \in LevelsNow, NEW lines \in LineCounts, NEW width \in LineWidths,
             Edge(level, lines, width)
      PROVE  MarksInv'
  <2>1. sensor.width > 1
    BY DEF CameraTypeOK
  <2> QED BY <1>1, <2>1, MarkStep, PixelStep DEF CameraInv, MarksInv
<1> QED BY <1>1, NoClock DEF CameraNext

LEMMA CameraAlways == CameraSpec => [](CameraTypeOK /\ CameraInv)
<1>1. CameraInit => CameraTypeOK /\ CameraInv
  BY CameraTypeInit, CameraStart
<1>2. CameraTypeOK /\ CameraTypeOK' /\ CameraInv /\ [CameraNext]_cameraVars => CameraInv'
  BY CameraStep
<1> QED BY <1>1, <1>2, CameraTypeCorrect, PTL DEF CameraSpec

\* A record counts all bytes of exactly one frame, and the bright ones of the ROI but for
\* its two edges while the counter can hold them: neither a partial first frame nor a byte
\* of the next one gets in.
THEOREM CameraRecordIsOneFrame == CameraSpec => []RecordIsOneFrame
<1>1. CameraTypeOK /\ CameraInv => RecordIsOneFrame
  <2> SUFFICES ASSUME CameraTypeOK, CameraInv, core.wr PROVE RecordIsOneFrame
    BY DEF RecordIsOneFrame
  <2>1. /\ sensor.t = Turn + 2 /\ sensor.frame > 2
        /\ core.rec.active = tally.bytes \div 2
        /\ Bounded(core.rec.bright, tally.inner, tally.outer)
    BY DEF CameraInv, CountInv
  <2>2. tally.total = tally.lines * tally.width
    BY <2>1, TurnFacts DEF CameraInv, TallyInv
  <2>3. core.rec.bright \in Nat /\ tally.inner \in Nat /\ tally.outer \in Nat
    BY DEF CameraTypeOK
  <2>4. tally.outer < CountMod => core.rec.bright \in tally.inner .. tally.outer
    BY <2>1, <2>3 DEF Bounded
  <2> QED BY <2>1, <2>2, <2>4 DEF RecordIsOneFrame
<1> QED BY <1>1, CameraAlways, PTL

\* No frame is reported twice, and none is left out while capture stays enabled.
THEOREM CameraNoFrameSkipped == CameraSpec => []NoFrameSkipped
<1>1. CameraTypeOK /\ CameraInv => NoFrameSkipped
  <2> SUFFICES ASSUME CameraTypeOK, CameraInv, core.wr PROVE NoFrameSkipped
    BY DEF NoFrameSkipped
  <2>1. sensor.t = Turn + 2 /\ sensor.frame > 2
    BY DEF CameraInv, CountInv
  <2>2. tally.frame = sensor.frame - 1
    BY <2>1, TurnFacts DEF CameraInv, TallyInv
  <2>3. reported > 0 => /\ reported <= sensor.frame - 2
                        /\ toggles = 0 => reported = sensor.frame - 2
    <3>1. Reported = sensor.frame - 2
      BY <2>1, TurnFacts DEF Reported
    <3> QED BY <3>1 DEF CameraInv, ReportInv
  <2>4. reported \in Nat /\ sensor.frame \in Nat
    BY SensorFields DEF CameraTypeOK
  <2> QED BY <2>1, <2>2, <2>3, <2>4 DEF NoFrameSkipped
<1> QED BY <1>1, CameraAlways, PTL

\* Where the bytes of a pixel stand.
LEMMA PixelPlace ==
    ASSUME CameraTypeOK, CameraInv, packer.valid
    PROVE  /\ Col2 \in Nat /\ Lit2
           /\ Here(packer.pixel[1], Row2, Col2 - 1) /\ Here(packer.pixel[2], Row2, Col2)
           /\ NotFirst(Row2) => Col2 % 2 = 1
<1>1. /\ Lit2 /\ Here(packer.pixel[1], Row2, Col2 - 1) /\ Here(packer.pixel[2], Row2, Col2)
      /\ NotFirst(Row2) => Col2 % 2 = 1
  BY DEF CameraInv, PairInv
<1>2. packer.pixel[2] \in AnyByte
  BY DEF CameraTypeOK
<1> QED BY <1>1, <1>2 DEF Here, AnyByte

\* A pixel consists of the bytes 2k and 2k + 1 of a line, whatever the length of the lines, but
\* for the line the reset ended in.
THEOREM CameraPixelsAligned == CameraSpec => []PixelsAligned
<1>1. CameraTypeOK /\ CameraInv => PixelsAligned
  <2> SUFFICES ASSUME CameraTypeOK, CameraInv, packer.valid PROVE PixelsAligned
    BY DEF PixelsAligned
  <2>1. /\ Col2 \in Nat
        /\ Here(packer.pixel[1], Row2, Col2 - 1) /\ Here(packer.pixel[2], Row2, Col2)
        /\ NotFirst(Row2) => Col2 % 2 = 1
    BY PixelPlace
  <2>2. Col2 % 2 = 1 => (Col2 - 1) % 2 = 0
    BY <2>1
  <2> QED BY <2>1, <2>2 DEF PixelsAligned, Here, NotFirst
<1> QED BY <1>1, CameraAlways, PTL

\* When every line has a pixel, frame_start_16 comes with the first pixel of a frame and no other,
\* and frame_end_16 only after all pixels of the frame before.
THEOREM CameraFramesMarked == (\A w \in LineWidths : w > 1) => (CameraSpec => []FramesMarked)
<1> SUFFICES ASSUME \A w \in LineWidths : w > 1 PROVE CameraSpec => []FramesMarked
  OBVIOUS
<1>1. CameraInit => MarksInv
  BY CameraStart
<1>2. CameraTypeOK /\ CameraTypeOK' /\ CameraInv /\ MarksInv /\ [CameraNext]_cameraVars => MarksInv'
  BY MarksStep
<1>3. CameraTypeOK /\ CameraInv /\ MarksInv => FramesMarked
  <2> SUFFICES ASSUME CameraTypeOK, CameraInv, MarksInv, packer.valid, cap.seen PROVE FramesMarked
    BY DEF FramesMarked
  <2>1. /\ Col2 \in Nat /\ Lit2 /\ Here(packer.pixel[1], Row2, Col2 - 1)
        /\ sensor.t \in Nat /\ sensor.width \in Nat \ {0} /\ sensor.width > 1 /\ Lead \in Nat
    <3>1. sensor.width > 1
      BY DEF CameraTypeOK
    <3> QED BY <3>1, PixelPlace, SensorFields, Sizes
  <2>2. packer.fs16 <=> sensor.t = Lead + 3
    BY DEF MarksInv, MarkInv
  <2>3. Row2 = 0 /\ Col2 = 1 => sensor.t = Lead + 3
    <3>1. PICK a \in Nat, m \in Nat \ {0} : a = (sensor.t - 2) - Lead /\ m = sensor.width + HGap
      <4>1. sensor.t >= Lead + 2
        BY <2>1, FirstBytes DEF CameraInv
      <4> QED BY <2>1, <4>1, Sizes
    <3>2. Row2 = a \div m /\ Col2 = a % m
      BY <3>1 DEF Row2, Col2, RowAt, ColumnAt
    <3>3. a = m * (a \div m) + (a % m)
      BY Euclid
    <3>4. Row2 = 0 /\ Col2 = 1 => a = 1
      BY <3>2, <3>3
    <3> QED BY <2>1, <3>1, <3>4
  <2>4. sensor.t = Lead + 3 => Row2 = 0 /\ Col2 = 1
    BY <2>1, FirstBytes DEF CameraInv
  <2>5. packer.fs16 <=> packer.pixel[1].line = 0 /\ packer.pixel[1].col = 0
    BY <2>1, <2>2, <2>3, <2>4 DEF Here
  <2>6. packer.fe16 => /\ packer.fs16
                       /\ pixels.frame = packer.pixel[1].frame - 1
                       /\ pixels.n = pixels.lines * (pixels.width \div 2)
    <3>1. packer.fe16 => packer.fs16 /\ sensor.frame > 2 /\ sensor.t <= Lead + 3
      BY <2>1, <2>2 DEF MarksInv, MarkInv
    <3> QED BY <2>1, <3>1 DEF MarksInv, PixelInv, Here
  <2> QED BY <2>5, <2>6 DEF FramesMarked
<1> QED BY <1>1, <1>2, <1>3, CameraAlways, PTL DEF CameraSpec

-----------------------------------------------------------------------------
(***************************************************************************)
(* The alarm path.                                                         *)
(***************************************************************************)
\* A set of natural numbers has a least element: the least threshold exists.
LEMMA Least ==
    ASSUME NEW T, T \subseteq Nat, T # {}
    PROVE  \E x \in T : \A y \in T : x <= y
<1> DEFINE Segments == {0..x : x \in T}
<1>1. Segments \subseteq FiniteSubsetsOf(Nat) /\ Segments # {}
  <2>1. ASSUME NEW x \in T PROVE 0..x \in FiniteSubsetsOf(Nat)
    <3>1. x \in Int /\ 0..x \in SUBSET Nat
      OBVIOUS
    <3> QED BY <3>1, FS_Interval DEF FiniteSubsetsOf
  <2> QED BY <2>1
<1>2. PICK B \in Segments : \A C \in Segments : ~ (<<C, B>> \in StrictSubsetOrdering(Nat))
  <2> HIDE DEF Segments
  <2> QED BY <1>1, FS_StrictSubsetOrderingWellFounded, WFMin, Zenon
<1>3. PICK x \in T : B = 0..x
  OBVIOUS
<1>4. ASSUME NEW y \in T, y < x PROVE FALSE
  <2>1. x \in Nat /\ y \in Nat
    OBVIOUS
  <2>2. 0..y \subseteq 0..x /\ x \in 0..x /\ x \notin 0..y
    BY <1>4, <2>1
  <2>3. 0..y \in SUBSET Nat /\ 0..x \in SUBSET Nat
    BY <2>1
  <2>4. <<0..y, 0..x>> \in StrictSubsetOrdering(Nat)
    BY <2>2, <2>3 DEF StrictSubsetOrdering
  <2> QED BY <1>2, <1>3, <2>4
<1> QED BY <1>4

LEMMA DefaultIsThreshold == Default \in Thresholds /\ Default \in Nat \ {0}
<1>1. \E t \in Thresholds : \A u \in Thresholds : t <= u
  BY CountsAssumption, Least
<1> QED BY <1>1, CountsAssumption, Zenon DEF Default

Happenings == {"frames", "commands", "clears", "writes", "downs", "losses", "restarts"}

\* What a bound counts, and that nothing else moves.
LEMMA OnceCounts ==
    ASSUME TypeOK, NEW what \in Happenings, NEW bound, Once(what, bound)
    PROVE  /\ used' \in [Happenings -> Nat]
           /\ used'[what] = used[what] + 1
           /\ \A h \in Happenings \ {what} : used'[h] = used[h]
<1>1. used \in [Happenings -> Nat]
  BY DEF TypeOK, Happenings
<1> QED BY <1>1 DEF Once

LEMMA MishapCounts ==
    ASSUME TypeOK, NEW what \in Happenings, Mishap(what)
    PROVE  /\ used' \in [Happenings -> Nat]
           /\ used'[what] = used[what] + 1
           /\ \A h \in Happenings \ {what} : used'[h] = used[h]
<1>1. used \in [Happenings -> Nat]
  BY DEF TypeOK, Happenings
<1> QED BY <1>1 DEF Mishap

LEMMA QueueFacts ==
    ASSUME TypeOK
    PROVE  /\ Len(fifo) \in Nat /\ Len(pkt) \in 0..1 /\ Len(net) \in Nat /\ Len(write) \in 0..1
           /\ \A i \in 1..Len(fifo) : fifo[i] \in Records
           /\ \A i \in 1..Len(pkt) : pkt[i] \in Packets
           /\ \A i \in 1..Len(net) : net[i] \in Packets
           /\ DOMAIN fifo = 1..Len(fifo) /\ DOMAIN pkt = 1..Len(pkt) /\ DOMAIN net = 1..Len(net)
           /\ fifo = <<>> <=> Len(fifo) = 0
           /\ pkt = <<>> <=> Len(pkt) = 0
           /\ net = <<>> <=> Len(net) = 0
           /\ write = <<>> <=> Len(write) = 0
<1>1. fifo \in Seq(Records) /\ pkt \in Seq(Packets) /\ net \in Seq(Packets) /\ write \in Seq(Thresholds)
      /\ Len(pkt) <= 1 /\ Len(write) <= 1
  BY DEF TypeOK
<1>2. ASSUME NEW S, NEW q \in Seq(S)
      PROVE  /\ Len(q) \in Nat /\ DOMAIN q = 1..Len(q) /\ (q = <<>> <=> Len(q) = 0)
             /\ \A i \in 1..Len(q) : q[i] \in S
  BY LenProperties, EmptySeq
<1>3. /\ Len(fifo) \in Nat /\ DOMAIN fifo = 1..Len(fifo) /\ (fifo = <<>> <=> Len(fifo) = 0)
      /\ \A i \in 1..Len(fifo) : fifo[i] \in Records
  BY <1>1, <1>2, Zenon
<1>4. /\ Len(pkt) \in Nat /\ DOMAIN pkt = 1..Len(pkt) /\ (pkt = <<>> <=> Len(pkt) = 0)
      /\ \A i \in 1..Len(pkt) : pkt[i] \in Packets
  BY <1>1, <1>2, Zenon
<1>5. /\ Len(net) \in Nat /\ DOMAIN net = 1..Len(net) /\ (net = <<>> <=> Len(net) = 0)
      /\ \A i \in 1..Len(net) : net[i] \in Packets
  BY <1>1, <1>2, Zenon
<1>6. Len(write) \in Nat /\ (write = <<>> <=> Len(write) = 0)
  BY <1>1, <1>2, Zenon
<1>7. Len(pkt) \in 0..1 /\ Len(write) \in 0..1
  <2>1. Len(pkt) \in Nat /\ Len(write) \in Nat /\ Len(pkt) <= 1 /\ Len(write) <= 1
    BY <1>1, <1>4, <1>6, Zenon
  <2>2. \A n \in Nat : n <= 1 => n \in 0..1
    OBVIOUS
  <2> QED BY <2>1, <2>2, Zenon
<1> QED BY <1>3, <1>4, <1>5, <1>6, <1>7, Zenon

\* A record written, taken, sent or received.
LEMMA HeadFacts ==
    ASSUME NEW S, NEW q \in Seq(S), q # <<>>
    PROVE  /\ Len(q) \in Nat \ {0} /\ Head(q) = q[1] /\ Head(q) \in S
           /\ Tail(q) \in Seq(S) /\ Len(Tail(q)) = Len(q) - 1
           /\ \A i \in 1..Len(Tail(q)) : Tail(q)[i] = q[i + 1]
BY HeadTailProperties, LenProperties, EmptySeq

LEMMA AppendFacts ==
    ASSUME NEW S, NEW q \in Seq(S), NEW x \in S
    PROVE  /\ Append(q, x) \in Seq(S) /\ Len(Append(q, x)) = Len(q) + 1
           /\ Append(q, x)[Len(q) + 1] = x
           /\ \A i \in 1..Len(q) : Append(q, x)[i] = q[i]
BY AppendProperties

LEMMA OneFacts ==
    ASSUME NEW S, NEW x \in S
    PROVE  <<x>> \in Seq(S) /\ Len(<<x>>) = 1 /\ <<x>>[1] = x /\ Head(<<x>>) = x
OBVIOUS

LEMMA InitType == Init => TypeOK
<1> SUFFICES ASSUME Init PROVE TypeOK
  OBVIOUS
<1>1. Default \in Thresholds
  BY DefaultIsThreshold
<1>2. reg \in Registers /\ cam \in Registers
  BY <1>1 DEF Init, Registers
<1>3. latest \in [count : Nat, threshold : Nat]
  BY DEF Init, NoEvent
<1>4. used \in [{"frames", "commands", "clears", "writes", "downs", "losses", "restarts"} -> Nat]
  BY DEF Init
<1>5. /\ fifo \in Seq(Records) /\ pkt \in Seq(Packets) /\ net \in Seq(Packets)
      /\ write \in Seq(Thresholds) /\ Len(fifo) = 0 /\ Len(pkt) = 0 /\ Len(write) = 0
  BY DEF Init
<1>6. /\ alarm \in BOOLEAN /\ overflow \in BOOLEAN /\ alarmEth \in BOOLEAN /\ up \in BOOLEAN
      /\ last \in BOOLEAN
  BY Zenon DEF Init
<1>7. /\ beep \in 0..BeepFrames /\ silent \in 0..(BeepFrames + 1) /\ visible \in 0..Len(fifo)
      /\ Len(fifo) <= FifoDepth /\ Len(pkt) <= 1 /\ Len(write) <= 1
      /\ http = 0 /\ params \in Thresholds /\ events \in Nat /\ rises \in Nat
  BY <1>1, <1>5, SizesAssumption DEF Init
<1> QED BY <1>2, <1>3, <1>4, <1>5, <1>6, <1>7 DEF TypeOK

LEMMA FrameEndType ==
    ASSUME TypeOK, NEW count \in Counts, FrameEnd(count)
    PROVE  TypeOK'
<1>1. used' \in [Happenings -> Nat]
  BY OnceCounts DEF FrameEnd, Happenings
<1>2. Meets(count) \in BOOLEAN
  BY DEF Meets
<1>3. alarm' \in BOOLEAN /\ overflow' \in BOOLEAN
  BY <1>2, Zenon DEF FrameEnd, TypeOK
<1>4. rises' \in Nat
  <2>1. rises \in Nat /\ (rises' = rises \/ rises' = rises + 1)
    BY Zenon DEF FrameEnd, TypeOK
  <2> QED BY <2>1
<1>5. silent' \in 0..(BeepFrames + 1)
  BY SizesAssumption DEF FrameEnd, TypeOK, Silence
<1>6. beep' \in 0..BeepFrames
  BY SizesAssumption DEF FrameEnd, TypeOK, BeepAfter
<1>7. /\ fifo' \in Seq(Records) /\ Len(fifo') \in Nat /\ Len(fifo') <= FifoDepth
      /\ Len(fifo) <= Len(fifo')
  <2> DEFINE rec == [count |-> count, due |-> Meets(count), cleared |-> FALSE]
  <2>1. rec \in Records
    BY <1>2 DEF Records
  <2>2. /\ fifo \in Seq(Records) /\ Len(fifo) \in Nat /\ Len(fifo) <= FifoDepth
    BY QueueFacts DEF TypeOK
  <2>3. CASE fifo' = fifo
    BY <2>2, <2>3
  <2>4. CASE fifo' = Append(fifo, rec) /\ Len(fifo) < FifoDepth
    <3> HIDE DEF rec
    <3>1. fifo' \in Seq(Records) /\ Len(fifo') = Len(fifo) + 1
      BY <2>1, <2>2, <2>4, AppendFacts
    <3> QED BY <2>2, <2>4, <3>1, SizesAssumption
  <2> QED BY <2>3, <2>4, Zenon DEF FrameEnd, HasRoom
<1>8. visible' \in 0..Len(fifo')
  <2>1. visible' = visible /\ visible \in 0..Len(fifo) /\ Len(fifo) \in Nat
    BY QueueFacts DEF FrameEnd, TypeOK, path
  <2> QED BY <1>7, <2>1
<1>9. UNCHANGED <<reg, cam, alarmEth, up, pkt, net, write, service>>
  BY DEF FrameEnd
<1> QED BY <1>1, <1>3, <1>4, <1>5, <1>6, <1>7, <1>8, <1>9 DEF TypeOK, service, Happenings

LEMMA ClearErrorType == TypeOK /\ ClearError => TypeOK'
<1> SUFFICES ASSUME TypeOK, ClearError PROVE TypeOK'
  OBVIOUS
<1>1. used' \in [Happenings -> Nat]
  BY MishapCounts DEF ClearError, Happenings
<1>2. fifo' \in Seq(Records) /\ Len(fifo') = Len(fifo)
  <2>1. /\ Len(fifo) \in Nat /\ \A i \in 1..Len(fifo) : fifo[i] \in Records
        /\ DOMAIN fifo = 1..Len(fifo)
    BY QueueFacts
  <2>2. fifo' = [i \in 1..Len(fifo) |-> [fifo[i] EXCEPT !.cleared = TRUE]]
    BY <2>1 DEF ClearError
  <2>3. \A i \in 1..Len(fifo) : [fifo[i] EXCEPT !.cleared = TRUE] \in Records
    BY <2>1 DEF Records
  <2> QED BY <2>1, <2>2, <2>3, IsASeq, LenProperties
<1>3. alarm' = FALSE /\ overflow' = FALSE /\ beep' = 0
  BY DEF ClearError, ClearedAlarm
<1>4. UNCHANGED <<reg, cam, rises, silent, visible, alarmEth, up, pkt, net, write, service>>
  BY DEF ClearError
<1>5. alarm' \in BOOLEAN /\ overflow' \in BOOLEAN
  BY <1>3, Zenon
<1>6. Len(fifo') <= FifoDepth /\ visible' \in 0..Len(fifo') /\ beep' \in 0..BeepFrames
  BY <1>2, <1>3, <1>4, SizesAssumption DEF TypeOK
<1> QED BY <1>1, <1>2, <1>4, <1>5, <1>6 DEF TypeOK, service, Happenings

LEMMA RegisterType == TypeOK /\ (SyncRegister \/ Command \/ ThresholdArrives) => TypeOK'
<1> SUFFICES ASSUME TypeOK, SyncRegister \/ Command \/ ThresholdArrives PROVE TypeOK'
  OBVIOUS
<1>0. reg \in Registers /\ cam \in Registers
  BY DEF TypeOK
<1>1. CASE SyncRegister
  <2>1. cam' \in Registers
    BY <1>0, <1>1 DEF SyncRegister, Registers
  <2>2. beep' \in 0..BeepFrames
    BY <1>1, SizesAssumption DEF SyncRegister, TypeOK
  <2>3. UNCHANGED <<reg, alarm, overflow, rises, silent, path, net, write, service, used>>
    BY <1>1 DEF SyncRegister
  <2> QED BY <2>1, <2>2, <2>3 DEF TypeOK, path, service
<1>2. CASE Command
  <2>1. reg' \in Registers
    BY <1>0, <1>2 DEF Command, Registers
  <2>2. used' \in [Happenings -> Nat]
    BY <1>2, OnceCounts DEF Command, Happenings
  <2>3. UNCHANGED <<camera, path, net, write, service>>
    BY <1>2 DEF Command
  <2> QED BY <2>1, <2>2, <2>3 DEF TypeOK, camera, path, service, Happenings
<1>3. CASE ThresholdArrives
  <2>1. write \in Seq(Thresholds) /\ write # <<>> /\ Head(write) \in Thresholds
    BY <1>3, HeadFacts DEF ThresholdArrives, TypeOK
  <2>2. reg' \in Registers
    BY <1>0, <1>3, <2>1 DEF ThresholdArrives, Registers
  <2>3. write' = <<>> /\ UNCHANGED <<camera, path, net, service, used>>
    BY <1>3 DEF ThresholdArrives
  <2>4. write' \in Seq(Thresholds) /\ Len(write') <= 1
    BY <2>3
  <2> QED BY <2>2, <2>3, <2>4 DEF TypeOK, camera, path, service
<1> QED BY <1>1, <1>2, <1>3

LEMMA PathType ==
    ASSUME TypeOK, Cross \/ PathUp \/ PathDown \/ TakeRecord \/ SendPacket \/ LosePacket
    PROVE  TypeOK'
<1>0. /\ fifo \in Seq(Records) /\ pkt \in Seq(Packets) /\ net \in Seq(Packets)
      /\ Len(fifo) \in Nat /\ Len(fifo) <= FifoDepth /\ visible \in 0..Len(fifo)
      /\ alarm \in BOOLEAN /\ alarmEth \in BOOLEAN /\ FifoDepth \in Nat
  BY QueueFacts, SizesAssumption DEF TypeOK
<1>1. CASE Cross
  BY <1>0, <1>1 DEF Cross, AlarmBit, TypeOK, camera, service
<1>2. CASE PathUp
  BY <1>2 DEF PathUp, TypeOK, camera, service
<1>3. CASE PathDown
  <2>1. used' \in [Happenings -> Nat]
    BY <1>3, MishapCounts DEF PathDown, Happenings
  <2>2. pkt' \in Seq(Packets) /\ Len(pkt') <= 1
    BY <1>3 DEF PathDown
  <2> QED BY <1>3, <2>1, <2>2 DEF PathDown, TypeOK, camera, service, Happenings
<1>4. CASE TakeRecord
  <2>1. fifo # <<>> /\ visible > 0
    BY <1>0, <1>4 DEF TakeRecord
  <2>2. Head(fifo) \in Records /\ fifo' \in Seq(Records) /\ Len(fifo') = Len(fifo) - 1
    BY <1>0, <1>4, <2>1, HeadFacts DEF TakeRecord
  <2>3. [rec |-> Head(fifo), bit |-> alarmEth] \in Packets
    BY <1>0, <2>2 DEF Packets
  <2>4. pkt' \in Seq(Packets) /\ Len(pkt') <= 1
    BY <1>4, <2>3, OneFacts DEF TakeRecord
  <2>5. visible' \in 0..Len(fifo') /\ Len(fifo') <= FifoDepth
    BY <1>0, <1>4, <2>1, <2>2 DEF TakeRecord
  <2> QED BY <1>4, <2>2, <2>4, <2>5 DEF TakeRecord, TypeOK, camera, service
<1>5. CASE SendPacket
  <2>1. Head(pkt) \in Packets
    BY <1>0, <1>5, HeadFacts DEF SendPacket
  <2>2. net' \in Seq(Packets)
    BY <1>0, <1>5, <2>1, AppendFacts DEF SendPacket
  <2>3. pkt' \in Seq(Packets) /\ Len(pkt') <= 1
    BY <1>5 DEF SendPacket
  <2> QED BY <1>5, <2>2, <2>3 DEF SendPacket, TypeOK, camera, service
<1>6. CASE LosePacket
  <2>1. used' \in [Happenings -> Nat]
    BY <1>6, MishapCounts DEF LosePacket, Happenings
  <2>2. net' \in Seq(Packets)
    BY <1>0, <1>6, HeadFacts DEF LosePacket
  <2> QED BY <1>6, <2>1, <2>2 DEF LosePacket, TypeOK, camera, path, service, Happenings
<1> QED BY <1>1, <1>2, <1>3, <1>4, <1>5, <1>6

LEMMA ServiceType ==
    ASSUME TypeOK, ReceivePacket \/ SendThreshold \/ StoreParams \/ Restart
    PROVE  TypeOK'
<1>0. /\ net \in Seq(Packets) /\ params \in Thresholds /\ events \in Nat
      /\ latest \in [count : Nat, threshold : Nat] /\ Thresholds \subseteq Nat
  BY CountsAssumption DEF TypeOK
<1>1. CASE ReceivePacket
  <2>1. Head(net) \in Packets /\ net' \in Seq(Packets)
    BY <1>0, <1>1, HeadFacts DEF ReceivePacket
  <2>2. Head(net).rec.count \in Nat /\ Head(net).bit \in BOOLEAN
    BY <2>1, CountsAssumption DEF Packets, Records
  <2>3. latest' \in [count : Nat, threshold : Nat] /\ events' \in Nat
    BY <1>0, <1>1, <2>2 DEF ReceivePacket
  <2>4. last' \in BOOLEAN
    BY <1>1, <2>2, Zenon DEF ReceivePacket
  <2> QED BY <1>1, <2>1, <2>3, <2>4 DEF ReceivePacket, TypeOK, camera, path
<1>2. CASE SendThreshold
  <2>1. used' \in [Happenings -> Nat]
    BY <1>2, OnceCounts DEF SendThreshold, Happenings
  <2>2. PICK t \in Thresholds : write' = <<t>> /\ http' = t
    BY <1>2 DEF SendThreshold
  <2>3. write' \in Seq(Thresholds) /\ Len(write') <= 1
    BY <2>2, OneFacts
  <2> QED BY <1>2, <2>1, <2>2, <2>3 DEF SendThreshold, TypeOK, camera, path, Happenings
<1>3. CASE StoreParams
  BY <1>3 DEF StoreParams, TypeOK, camera, path
<1>4. CASE Restart
  <2>1. used' \in [Happenings -> Nat]
    BY <1>4, MishapCounts DEF Restart, Happenings
  <2>2. params' \in Thresholds /\ latest' \in [count : Nat, threshold : Nat] /\ last' = FALSE
    BY <1>4, DefaultIsThreshold DEF Restart, NoEvent
  <2> QED BY <1>4, <2>1, <2>2 DEF Restart, TypeOK, camera, path, Happenings
<1> QED BY <1>1, <1>2, <1>3, <1>4

LEMMA TypeStep == TypeOK /\ [Next]_vars => TypeOK'
<1> SUFFICES ASSUME TypeOK, [Next]_vars PROVE TypeOK'
  OBVIOUS
<1>1. CASE UNCHANGED vars
  BY <1>1 DEF vars, camera, path, service, TypeOK
<1> QED BY <1>1, FrameEndType, ClearErrorType, RegisterType, PathType, ServiceType DEF Next

\* Every variable keeps its type, whatever happens on the way.
THEOREM TypeCorrect == Spec => []TypeOK
BY InitType, TypeStep, PTL DEF Spec

-----------------------------------------------------------------------------
(***************************************************************************)
(* The bit of a packet and the record it travels with.                     *)
(***************************************************************************)
\* A bit is the decision on the frame of a record, but for a clear in between.
Decides(bit, rec) == bit = rec.due \/ (rec.cleared /\ ~bit)

\* Without a backlog at most one record is between the camera and the network, the alarm
\* is the decision on it, and a record that has crossed has its bit before it.
PacedInv ==
    paced =>
        /\ Len(fifo) + Len(pkt) <= 1
        /\ \A i \in 1..Len(fifo) : Decides(alarm, fifo[i])
        /\ visible > 0 => Decides(alarmEth, fifo[1])
        /\ \A i \in 1..Len(pkt) : Decides(pkt[i].bit, pkt[i].rec)
        /\ \A i \in 1..Len(net) : Decides(net[i].bit, net[i].rec)

LEMMA PacedStep == TypeOK /\ PacedInv /\ [Next]_vars => PacedInv'
<1> SUFFICES ASSUME TypeOK, PacedInv, [Next]_vars, paced' PROVE PacedInv'
  BY DEF PacedInv
<1> USE DEF PacedInv
<1>t. TypeOK'
  BY TypeStep
<1>0. /\ fifo \in Seq(Records) /\ pkt \in Seq(Packets) /\ net \in Seq(Packets)
      /\ Len(fifo) \in Nat /\ Len(pkt) \in Nat /\ Len(net) \in Nat /\ visible \in 0..Len(fifo)
      /\ (fifo = <<>> <=> Len(fifo) = 0) /\ (pkt = <<>> <=> Len(pkt) = 0)
  BY QueueFacts DEF TypeOK
<1>1. ASSUME NEW count \in Counts, FrameEnd(count) PROVE PacedInv'
  <2>1. paced /\ fifo = <<>> /\ pkt = <<>>
    BY <1>1, Zenon DEF FrameEnd
  <2>2. UNCHANGED <<visible, pkt, net>>
    BY <1>1 DEF FrameEnd
  <2>3. visible' = 0
    BY <1>0, <2>1, <2>2
  <2>4. CASE fifo' = fifo
    BY <1>0, <2>1, <2>2, <2>3, <2>4
  <2>5. CASE /\ fifo' = Append(fifo, [count |-> count, due |-> Meets(count), cleared |-> FALSE])
             /\ alarm' = Meets(count)
    <3> DEFINE rec == [count |-> count, due |-> Meets(count), cleared |-> FALSE]
    <3>1. rec.due = Meets(count)
      BY Zenon
    <3> HIDE DEF rec
    <3>2. Len(fifo') = 1 /\ fifo'[1] = rec
      BY <2>1, <2>5 DEF rec
    <3>3. Decides(alarm', fifo'[1])
      BY <2>5, <3>1, <3>2, Zenon DEF Decides
    <3> QED BY <1>0, <2>1, <2>2, <2>3, <3>2, <3>3
  <2> QED BY <1>1, <2>4, <2>5, Zenon DEF FrameEnd
<1>2. CASE ClearError
  <2>1. alarm' = FALSE /\ UNCHANGED <<paced, visible, alarmEth, pkt, net>>
    BY <1>2 DEF ClearError, ClearedAlarm
  <2>2. /\ DOMAIN fifo = 1..Len(fifo)
        /\ fifo' = [i \in DOMAIN fifo |-> [fifo[i] EXCEPT !.cleared = TRUE]]
        /\ \A i \in 1..Len(fifo) : fifo[i] \in Records
    BY <1>2, QueueFacts DEF ClearError
  <2>3. \A i \in 1..Len(fifo) : fifo'[i].cleared = TRUE /\ fifo'[i].due = fifo[i].due
    BY <2>2 DEF Records
  <2>4. Len(fifo') = Len(fifo)
    BY <1>0, <2>2, LenProperties
  <2>5. \A i \in 1..Len(fifo') : Decides(alarm', fifo'[i])
    BY <2>1, <2>3, <2>4, Zenon DEF Decides
  <2>6. visible' > 0 => Decides(alarmEth', fifo'[1])
    <3>1. visible' > 0 => Decides(alarmEth, fifo[1]) /\ 1 \in 1..Len(fifo)
      BY <1>0, <2>1
    <3>2. alarmEth \in BOOLEAN
      BY DEF TypeOK
    <3> QED BY <2>1, <2>3, <3>1, <3>2, Zenon DEF Decides
  <2> QED BY <2>1, <2>4, <2>5, <2>6
<1>3. CASE SyncRegister \/ Command \/ ThresholdArrives \/ PathUp \/ SendThreshold \/ StoreParams
           \/ Restart \/ UNCHANGED vars
  <2>1. UNCHANGED <<alarm, paced, fifo, visible, alarmEth, pkt, net>>
    BY <1>3 DEF SyncRegister, Command, ThresholdArrives, PathUp, SendThreshold, StoreParams,
                Restart, vars, camera, path
  <2> QED BY <2>1
<1>4. CASE Cross
  <2>1. /\ alarmEth' = alarm /\ visible' = Len(fifo)
        /\ UNCHANGED <<alarm, paced, fifo, pkt, net>>
    BY <1>4 DEF Cross, AlarmBit, camera
  <2> QED BY <1>0, <2>1
<1>5. CASE PathDown
  <2>1. pkt' = <<>> /\ Len(pkt') = 0 /\ UNCHANGED <<alarm, paced, fifo, visible, alarmEth, net>>
    BY <1>5 DEF PathDown, camera
  <2> QED BY <1>0, <2>1
<1>6. CASE TakeRecord
  <2>1. /\ pkt = <<>> /\ visible > 0 /\ fifo' = Tail(fifo)
        /\ pkt' = <<[rec |-> Head(fifo), bit |-> alarmEth]>> /\ visible' = visible - 1
        /\ UNCHANGED <<alarm, paced, alarmEth, net>>
    BY <1>6 DEF TakeRecord, camera
  <2>2. fifo # <<>> /\ Len(fifo) = 1
    BY <1>0, <2>1
  <2>3. Head(fifo) = fifo[1] /\ Len(fifo') = 0
    BY <1>0, <2>1, <2>2, HeadFacts
  <2>4. Len(pkt') = 1 /\ pkt'[1].rec = fifo[1] /\ pkt'[1].bit = alarmEth
    BY <2>1, <2>3
  <2> QED BY <1>0, <2>1, <2>2, <2>3, <2>4
<1>7. CASE SendPacket
  <2>1. /\ pkt # <<>> /\ net' = Append(net, Head(pkt)) /\ pkt' = <<>> /\ Len(pkt') = 0
        /\ UNCHANGED <<alarm, paced, fifo, visible, alarmEth>>
    BY <1>7 DEF SendPacket, camera
  <2>2. Head(pkt) = pkt[1] /\ Head(pkt) \in Packets /\ 1 \in 1..Len(pkt)
    BY <1>0, <2>1, HeadFacts
  <2>3. /\ Len(net') = Len(net) + 1 /\ net'[Len(net) + 1] = pkt[1]
        /\ \A i \in 1..Len(net) : net'[i] = net[i]
    BY <1>0, <2>1, <2>2, AppendFacts
  <2>4. \A i \in 1..Len(net') : Decides(net'[i].bit, net'[i].rec)
    BY <1>0, <2>1, <2>2, <2>3
  <2> QED BY <1>0, <2>1, <2>4
<1>8. CASE LosePacket \/ ReceivePacket
  <2>1. /\ net # <<>> /\ net' = Tail(net)
        /\ UNCHANGED <<alarm, paced, fifo, visible, alarmEth, pkt>>
    BY <1>8 DEF LosePacket, ReceivePacket, camera, path
  <2>2. Len(net') = Len(net) - 1 /\ \A i \in 1..Len(net') : net'[i] = net[i + 1]
    BY <1>0, <2>1, HeadFacts
  <2> QED BY <1>0, <2>1, <2>2
<1> QED BY <1>1, <1>2, <1>3, <1>4, <1>5, <1>6, <1>7, <1>8 DEF Next

\* Without a backlog the bit of every packet is the decision on its record, unless
\* clear_error came in between.
THEOREM BitsAreDecisions == Spec => []BitIsDecision
<1>1. Init => PacedInv
  BY DEF Init, PacedInv
<1>2. TypeOK /\ PacedInv => BitIsDecision
  <2> SUFFICES ASSUME TypeOK, PacedInv PROVE BitIsDecision
    OBVIOUS
  <2>1. DOMAIN pkt = 1..Len(pkt) /\ DOMAIN net = 1..Len(net)
    BY QueueFacts
  <2> QED BY <2>1, Zenon DEF PacedInv, BitIsDecision, Decides
<1> QED BY <1>1, <1>2, TypeCorrect, PacedStep, PTL DEF Spec

-----------------------------------------------------------------------------
(***************************************************************************)
(* The threshold an event shows.                                           *)
(***************************************************************************)
\* What a record says of its frame, as long as the threshold has its initial value.
Reason(rec) == rec.due => rec.count >= Default

\* As long as nobody sends a threshold, all copies of it have the initial value.
ThresholdInv ==
    used.writes = 0 =>
        /\ write = <<>> /\ http = 0 /\ params = Default
        /\ reg.threshold = Default /\ cam.threshold = Default
        /\ \A i \in 1..Len(fifo) : Reason(fifo[i])
        /\ \A i \in 1..Len(pkt) : Reason(pkt[i].rec)
        /\ \A i \in 1..Len(net) : Reason(net[i].rec)
        /\ paced => latest.count >= latest.threshold

LEMMA ThresholdInit == Init => ThresholdInv
<1> SUFFICES ASSUME Init PROVE ThresholdInv
  OBVIOUS
<1>1. /\ reg.threshold = Default /\ cam.threshold = Default
      /\ latest.count = 0 /\ latest.threshold = 0
      /\ Len(fifo) = 0 /\ Len(pkt) = 0 /\ Len(net) = 0
  BY DEF Init, NoEvent
<1> QED BY <1>1 DEF Init, ThresholdInv

LEMMA ThresholdStep == TypeOK /\ PacedInv /\ ThresholdInv /\ [Next]_vars => ThresholdInv'
<1> SUFFICES ASSUME TypeOK, PacedInv, ThresholdInv, [Next]_vars, used'.writes = 0
             PROVE  ThresholdInv'
  BY DEF ThresholdInv
<1> USE DEF ThresholdInv
<1>0. /\ fifo \in Seq(Records) /\ pkt \in Seq(Packets) /\ net \in Seq(Packets)
      /\ Len(fifo) \in Nat /\ Len(pkt) \in Nat /\ Len(net) \in Nat
      /\ (fifo = <<>> <=> Len(fifo) = 0)
      /\ used.writes \in Nat /\ Default \in Nat
  BY QueueFacts, DefaultIsThreshold DEF TypeOK
<1>1. ASSUME NEW count \in Counts, FrameEnd(count) PROVE ThresholdInv'
  <2>1. used.writes = 0
    BY <1>1, OnceCounts DEF FrameEnd, Happenings
  <2>2. UNCHANGED <<reg, cam, pkt, net, write, service>> /\ (paced' => paced)
    BY <1>1, Zenon DEF FrameEnd
  <2>3. CASE fifo' = fifo
    BY <2>1, <2>2, <2>3 DEF service
  <2>4. CASE fifo' = Append(fifo, [count |-> count, due |-> Meets(count), cleared |-> FALSE])
    <3> DEFINE rec == [count |-> count, due |-> Meets(count), cleared |-> FALSE]
    <3>1. rec.due = Meets(count) /\ rec.count = count
      BY Zenon
    <3>2. Meets(count) \in BOOLEAN
      BY Zenon DEF Meets
    <3>3. rec \in Records
      BY <3>2 DEF Records
    <3> HIDE DEF rec
    <3>4. Meets(count) => count >= Default
      BY <2>1 DEF Meets
    <3>5. Reason(rec)
      BY <3>1, <3>4, Zenon DEF Reason
    <3>6. fifo' = Append(fifo, rec)
      BY <2>4 DEF rec
    <3>7. /\ Len(fifo') = Len(fifo) + 1 /\ fifo'[Len(fifo) + 1] = rec
          /\ \A i \in 1..Len(fifo) : fifo'[i] = fifo[i]
      BY <1>0, <3>3, <3>6, AppendFacts
    <3>8. \A i \in 1..Len(fifo') : Reason(fifo'[i])
      BY <1>0, <2>1, <3>5, <3>7
    <3> QED BY <2>1, <2>2, <3>8 DEF service
  <2> QED BY <1>1, <2>3, <2>4, Zenon DEF FrameEnd
<1>2. CASE ClearError
  <2>1. used.writes = 0
    BY <1>2, MishapCounts DEF ClearError, Happenings
  <2>2. UNCHANGED <<reg, cam, paced, pkt, net, write, service>>
    BY <1>2 DEF ClearError
  <2>3. /\ DOMAIN fifo = 1..Len(fifo)
        /\ fifo' = [i \in DOMAIN fifo |-> [fifo[i] EXCEPT !.cleared = TRUE]]
        /\ \A i \in 1..Len(fifo) : fifo[i] \in Records
    BY <1>2, QueueFacts DEF ClearError
  <2>4. \A i \in 1..Len(fifo) : fifo'[i].count = fifo[i].count /\ fifo'[i].due = fifo[i].due
    BY <2>3 DEF Records
  <2>5. Len(fifo') = Len(fifo)
    BY <1>0, <2>3, LenProperties
  <2>6. \A i \in 1..Len(fifo') : Reason(fifo'[i])
    BY <2>1, <2>4, <2>5, Zenon DEF Reason
  <2> QED BY <2>1, <2>2, <2>6 DEF service
<1>3. CASE SyncRegister \/ Command
  <2>1. used.writes = 0
    BY <1>3, OnceCounts DEF SyncRegister, Command, Happenings
  <2>2. reg'.threshold = reg.threshold /\ cam'.threshold \in {cam.threshold, reg.threshold}
    BY <1>3 DEF SyncRegister, Command, TypeOK, Registers, camera
  <2>3. UNCHANGED <<paced, fifo, pkt, net, write, service>>
    BY <1>3 DEF SyncRegister, Command, path, camera
  <2> QED BY <2>1, <2>2, <2>3 DEF service
<1>4. CASE ThresholdArrives \/ SendThreshold \/ StoreParams
  <2>1. CASE SendThreshold
    BY <1>0, <2>1, OnceCounts DEF SendThreshold, Happenings
  <2> QED BY <1>4, <2>1 DEF ThresholdArrives, StoreParams
<1>5. CASE Cross \/ PathUp \/ PathDown
  <2>1. used.writes = 0
    BY <1>5, MishapCounts DEF Cross, PathUp, PathDown, Happenings
  <2>2. UNCHANGED <<reg, cam, paced, fifo, net, write, service>> /\ (pkt' = pkt \/ pkt' = <<>>)
    BY <1>5 DEF Cross, PathUp, PathDown, camera
  <2> QED BY <2>1, <2>2 DEF service
<1>6. CASE TakeRecord
  <2>1. used.writes = 0 /\ UNCHANGED <<reg, cam, paced, net, write, service>>
    BY <1>6 DEF TakeRecord, camera
  <2>2. /\ fifo' = Tail(fifo) /\ visible > 0
        /\ pkt' = <<[rec |-> Head(fifo), bit |-> alarmEth]>>
    BY <1>6 DEF TakeRecord
  <2>3. fifo # <<>>
    BY <1>0, <2>2 DEF TypeOK
  <2>4. /\ Head(fifo) = fifo[1] /\ 1 \in 1..Len(fifo) /\ Len(fifo') = Len(fifo) - 1
        /\ \A i \in 1..Len(fifo') : fifo'[i] = fifo[i + 1]
    BY <1>0, <2>2, <2>3, HeadFacts
  <2>5. Len(pkt') = 1 /\ pkt'[1].rec = fifo[1]
    BY <2>2, <2>4
  <2>6. \A i \in 1..Len(fifo') : Reason(fifo'[i])
    BY <1>0, <2>1, <2>4, SMTT(40)
  <2>7. \A i \in 1..Len(pkt') : Reason(pkt'[i].rec)
    BY <2>1, <2>4, <2>5
  <2> QED BY <2>1, <2>6, <2>7 DEF service
<1>7. CASE SendPacket
  <2>1. used.writes = 0 /\ UNCHANGED <<reg, cam, paced, fifo, write, service>>
    BY <1>7 DEF SendPacket, camera
  <2>2. /\ pkt # <<>> /\ net' = Append(net, Head(pkt)) /\ pkt' = <<>> /\ Len(pkt') = 0
    BY <1>7 DEF SendPacket
  <2>3. Head(pkt) = pkt[1] /\ Head(pkt) \in Packets /\ 1 \in 1..Len(pkt)
    BY <1>0, <2>2, HeadFacts
  <2>4. /\ Len(net') = Len(net) + 1 /\ net'[Len(net) + 1] = pkt[1]
        /\ \A i \in 1..Len(net) : net'[i] = net[i]
    BY <1>0, <2>2, <2>3, AppendFacts
  <2>5. \A i \in 1..Len(net') : Reason(net'[i].rec)
    BY <1>0, <2>1, <2>3, <2>4
  <2> QED BY <2>1, <2>2, <2>5 DEF service
<1>8. CASE LosePacket \/ ReceivePacket
  <2>1. used.writes = 0
    BY <1>8, MishapCounts DEF LosePacket, ReceivePacket, Happenings
  <2>2. /\ net # <<>> /\ net' = Tail(net)
        /\ UNCHANGED <<reg, cam, paced, fifo, pkt, write, http, params>>
    BY <1>8 DEF LosePacket, ReceivePacket, camera, path, service
  <2>3. /\ Len(net') = Len(net) - 1 /\ \A i \in 1..Len(net') : net'[i] = net[i + 1]
        /\ 1 \in 1..Len(net) /\ Head(net) = net[1] /\ net[1] \in Packets
    BY <1>0, <2>2, HeadFacts
  <2>4. ASSUME NEW i \in 1..Len(net') PROVE Reason(net'[i].rec)
    <3>1. net'[i] = net[i + 1] /\ i + 1 \in 1..Len(net)
      BY <1>0, <2>3
    <3> QED BY <2>1, <3>1
  <2>5. paced => latest'.count >= latest'.threshold
    <3>1. CASE UNCHANGED latest
      BY <2>1, <3>1
    <3>2. CASE NewEvent(Head(net).bit)
               /\ latest' = [count |-> Head(net).rec.count, threshold |-> params]
      <4>1. Head(net).bit /\ Reason(net[1].rec) /\ (paced => Decides(net[1].bit, net[1].rec))
        BY <2>1, <2>3, <3>2 DEF NewEvent, PacedInv
      <4>2. paced => net[1].rec.count >= Default
        BY <2>3, <4>1, Zenon DEF Decides, Reason
      <4>3. latest'.count = net[1].rec.count /\ latest'.threshold = Default
        BY <2>1, <2>3, <3>2
      <4> QED BY <4>2, <4>3
    <3> QED BY <1>8, <3>1, <3>2 DEF LosePacket, ReceivePacket, service
  <2> QED BY <2>1, <2>2, <2>4, <2>5
<1>9. CASE Restart
  <2>1. used.writes = 0
    BY <1>9, MishapCounts DEF Restart, Happenings
  <2>2. latest'.count = 0 /\ latest'.threshold = 0 /\ http' = 0 /\ params' = Default
    BY <1>9 DEF Restart, NoEvent
  <2>3. UNCHANGED <<reg, cam, paced, fifo, pkt, net, write>>
    BY <1>9 DEF Restart, camera, path
  <2> QED BY <2>1, <2>2, <2>3
<1>10. CASE UNCHANGED vars
  BY <1>10 DEF vars, camera, path, service
<1> QED BY <1>1, <1>2, <1>3, <1>4, <1>5, <1>6, <1>7, <1>8, <1>9, <1>10 DEF Next

\* Without a backlog and a change of the threshold, an event shows a count that reaches
\* the threshold it shows.
THEOREM EventsShowTheirReason == Spec => []EventMeetsThreshold
<1>1. Init => PacedInv
  BY DEF Init, PacedInv
<1>2. ThresholdInv => EventMeetsThreshold
  BY DEF ThresholdInv, EventMeetsThreshold
<1> QED BY <1>1, <1>2, TypeCorrect, PacedStep, ThresholdInit, ThresholdStep, PTL DEF Spec

-----------------------------------------------------------------------------
(***************************************************************************)
(* Counting alarms.  Every sample of the alarm on its way, from the last   *)
(* one the service has seen to the one of the camera, gets the number of   *)
(* an alarm; where the bit rises from a sample to a later one, so does the *)
(* number.  Nobody keeps these numbers: the invariant is that they exist.  *)
(***************************************************************************)
\* Sample i of those the network holds, 0 the last one received.
Bit(i) == IF i = 0 THEN last ELSE net[i].bit

\* The oldest packet leaves the network, and is received or not.
LEMMA TailBits ==
    ASSUME net \in Seq(Packets), net # <<>>, net' = Tail(net)
    PROVE  /\ Len(net) \in Nat \ {0} /\ Len(net') = Len(net) - 1 /\ Head(net) = net[1]
           /\ \A i \in 1..Len(net') : Bit(i)' = Bit(i + 1)
           /\ last' = Head(net).bit => \A i \in 0..Len(net') : Bit(i)' = Bit(i + 1)
<1>1. /\ Len(net) \in Nat \ {0} /\ Len(net') = Len(net) - 1 /\ Head(net) = net[1]
      /\ \A i \in 1..Len(net') : net'[i] = net[i + 1]
  BY HeadFacts
<1>2. ASSUME NEW i \in 1..Len(net') PROVE Bit(i)' = Bit(i + 1)
  <2>1. i # 0 /\ i + 1 # 0 /\ net'[i] = net[i + 1]
    BY <1>1
  <2> QED BY <2>1 DEF Bit
<1>3. ASSUME last' = Head(net).bit PROVE \A i \in 0..Len(net') : Bit(i)' = Bit(i + 1)
  <2>1. Bit(0)' = Bit(0 + 1)
    BY <1>1, <1>3 DEF Bit
  <2>2. \A i \in 0..Len(net') : i = 0 \/ i \in 1..Len(net')
    BY <1>1
  <2> QED BY <1>2, <2>1, <2>2
<1> QED BY <1>1, <1>2, <1>3

\* A sample (d, n) may follow a sample (c, m).
Follows(c, m, d, n) == m <= n /\ (d /\ ~c => m < n)

Ordered(s, p, e) ==
    /\ events <= s[0] + used.restarts
    /\ \A i, j \in 0..Len(net) : i < j => Follows(Bit(i), s[i], Bit(j), s[j])
    /\ \A i \in 0..Len(net) : Follows(Bit(i), s[i], alarmEth, e)
    /\ pkt # <<>> => /\ \A i \in 0..Len(net) : Follows(Bit(i), s[i], pkt[1].bit, p)
                     /\ Follows(pkt[1].bit, p, alarmEth, e)
    /\ Follows(alarmEth, e, alarm, rises)

OrderInv == \E s \in [Nat -> Int], p, e \in Int : Ordered(s, p, e)

LEMMA OrderInit == Init => OrderInv
<1> SUFFICES ASSUME Init PROVE OrderInv
  OBVIOUS
<1> DEFINE s == [i \in Nat |-> 0]
<1>1. s \in [Nat -> Int] /\ s[0] = 0 /\ Len(net) = 0 /\ pkt = <<>>
  BY DEF Init
<1>2. events = 0 /\ used.restarts = 0 /\ rises = 0 /\ ~last /\ ~alarmEth /\ ~alarm
  BY DEF Init
<1> HIDE DEF s
<1>3. Ordered(s, 0, 0)
  BY <1>1, <1>2 DEF Ordered, Follows, Bit
<1> QED BY <1>1, <1>3 DEF OrderInv

LEMMA OrderStep == TypeOK /\ OrderInv /\ [Next]_vars => OrderInv'
<1> SUFFICES ASSUME TypeOK, OrderInv, [Next]_vars PROVE OrderInv'
  OBVIOUS
<1>0. /\ fifo \in Seq(Records) /\ pkt \in Seq(Packets) /\ net \in Seq(Packets)
      /\ Len(fifo) \in Nat /\ Len(pkt) \in 0..1 /\ Len(net) \in Nat
      /\ (pkt = <<>> <=> Len(pkt) = 0) /\ (net = <<>> <=> Len(net) = 0)
      /\ events \in Nat /\ rises \in Nat /\ used.restarts \in Nat
  BY QueueFacts DEF TypeOK
<1>1. PICK s \in [Nat -> Int], p \in Int, e \in Int : Ordered(s, p, e)
  BY DEF OrderInv
<1>2. \A i \in Nat : s[i] \in Int
  OBVIOUS
<1>3. ASSUME NEW count \in Counts, FrameEnd(count) PROVE OrderInv'
  <2>1. UNCHANGED <<last, events, alarmEth, pkt, net>> /\ used'.restarts = used.restarts
    BY <1>3, OnceCounts DEF FrameEnd, service, Happenings
  <2>2. \/ alarm' = alarm /\ rises' = rises
        \/ rises' = IF ~alarm /\ alarm' THEN rises + 1 ELSE rises
    BY <1>3, Zenon DEF FrameEnd
  <2>3. Follows(alarmEth', e, alarm', rises')
    <3>1. e <= rises /\ rises \in Nat /\ (alarm /\ ~alarmEth => e < rises)
      BY <1>0, <1>1 DEF Ordered, Follows
    <3> QED BY <2>1, <2>2, <3>1 DEF Follows
  <2>4. Ordered(s, p, e)'
    BY <1>1, <2>1, <2>3 DEF Ordered, Bit
  <2> QED BY <2>4 DEF OrderInv
<1>4. CASE ClearError
  <2>1. /\ UNCHANGED <<last, events, alarmEth, pkt, net, rises>> /\ used'.restarts = used.restarts
        /\ alarm' = FALSE
    BY <1>4, MishapCounts DEF ClearError, ClearedAlarm, service, Happenings
  <2>2. Ordered(s, p, e)'
    BY <1>1, <2>1 DEF Ordered, Bit, Follows
  <2> QED BY <2>2 DEF OrderInv
<1>5. CASE \/ SyncRegister \/ Command \/ ThresholdArrives \/ PathUp \/ SendThreshold \/ StoreParams
           \/ UNCHANGED vars
  <2>1. UNCHANGED <<last, events, alarmEth, alarm, pkt, net, rises>>
    BY <1>5 DEF SyncRegister, Command, ThresholdArrives, PathUp, SendThreshold, StoreParams,
                vars, camera, path, service
  <2>2. used'.restarts = used.restarts
    <3>1. CASE Command
      BY <3>1, OnceCounts DEF Command, Happenings
    <3>2. CASE SendThreshold
      BY <3>2, OnceCounts DEF SendThreshold, Happenings
    <3> QED BY <1>5, <3>1, <3>2 DEF SyncRegister, ThresholdArrives, PathUp, StoreParams, vars
  <2>3. Ordered(s, p, e)'
    BY <1>1, <2>1, <2>2 DEF Ordered, Bit
  <2> QED BY <2>3 DEF OrderInv
<1>6. CASE Cross
  <2>1. UNCHANGED <<last, events, alarm, pkt, net, rises, used>> /\ alarmEth' = alarm
    BY <1>6 DEF Cross, AlarmBit, camera, service
  <2>2. PICK r \in Int : r = rises
    BY <1>0
  <2>3. ASSUME NEW i \in 0..Len(net) PROVE Follows(Bit(i), s[i], alarm, r)
    <3>1. Follows(Bit(i), s[i], alarmEth, e) /\ Follows(alarmEth, e, alarm, r)
      BY <1>1, <2>2 DEF Ordered
    <3>2. s[i] \in Int
      BY <1>0, <1>2
    <3> QED BY <3>1, <3>2 DEF Follows
  <2>4. pkt # <<>> => Follows(pkt[1].bit, p, alarm, r)
    BY <1>0, <1>1, <2>2 DEF Ordered, Follows
  <2>5. Ordered(s, p, r)'
    BY <1>1, <2>1, <2>2, <2>3, <2>4 DEF Ordered, Bit, Follows
  <2> QED BY <2>5 DEF OrderInv
<1>7. CASE PathDown
  <2>1. /\ UNCHANGED <<last, events, alarmEth, alarm, net, rises>>
        /\ used'.restarts = used.restarts /\ pkt' = <<>>
    BY <1>7, MishapCounts DEF PathDown, camera, service, Happenings
  <2>2. Ordered(s, p, e)'
    BY <1>1, <2>1 DEF Ordered, Bit
  <2> QED BY <2>2 DEF OrderInv
<1>8. CASE TakeRecord
  <2>1. /\ UNCHANGED <<last, events, alarmEth, alarm, net, rises, used>>
        /\ pkt' = <<[rec |-> Head(fifo), bit |-> alarmEth]>>
    BY <1>8 DEF TakeRecord, camera, service
  <2>2. pkt'[1].bit = alarmEth
    BY <2>1
  <2>3. Ordered(s, e, e)'
    BY <1>0, <1>1, <1>2, <2>1, <2>2 DEF Ordered, Bit, Follows
  <2> QED BY <2>3 DEF OrderInv
<1>9. CASE SendPacket
  <2>1. /\ UNCHANGED <<last, events, alarmEth, alarm, rises, used>>
        /\ pkt # <<>> /\ pkt' = <<>> /\ net' = Append(net, Head(pkt))
    BY <1>9 DEF SendPacket, camera, service
  <2>2. Head(pkt) = pkt[1] /\ Head(pkt) \in Packets
    BY <1>0, <2>1, HeadFacts
  <2>3. /\ Len(net') = Len(net) + 1 /\ net'[Len(net) + 1] = pkt[1]
        /\ \A i \in 1..Len(net) : net'[i] = net[i]
    BY <1>0, <2>1, <2>2, AppendFacts
  <2>4. PICK n \in Nat : n = Len(net) + 1
    BY <1>0
  <2> DEFINE t == [s EXCEPT ![n] = p]
  <2>5. t \in [Nat -> Int] /\ t[n] = p /\ \A i \in 0..(n - 1) : t[i] = s[i]
    OBVIOUS
  <2> HIDE DEF t
  <2>6. Bit(n)' = pkt[1].bit /\ \A i \in 0..(n - 1) : Bit(i)' = Bit(i)
    BY <1>0, <2>1, <2>3, <2>4 DEF Bit
  <2>7. ASSUME NEW i \in 0..n, NEW j \in 0..n, i < j
        PROVE  Follows(Bit(i)', t[i], Bit(j)', t[j])
    <3>1. i \in 0..Len(net) /\ i \in 0..(n - 1)
      BY <1>0, <2>4, <2>7
    <3>2. CASE j \in 0..(n - 1)
      <4>1. j \in 0..Len(net)
        BY <1>0, <2>4, <3>2
      <4>2. Follows(Bit(i), s[i], Bit(j), s[j])
        BY <1>1, <2>7, <3>1, <4>1 DEF Ordered
      <4> QED BY <2>5, <2>6, <3>1, <3>2, <4>2
    <3>3. CASE j = n
      BY <1>1, <2>1, <2>5, <2>6, <3>1, <3>3 DEF Ordered
    <3> QED BY <3>2, <3>3
  <2>8. ASSUME NEW i \in 0..n
        PROVE  Follows(Bit(i)', t[i], alarmEth, e)
    <3>1. CASE i \in 0..(n - 1)
      <4>1. i \in 0..Len(net)
        BY <1>0, <2>4, <3>1
      <4> QED BY <1>1, <2>5, <2>6, <3>1, <4>1 DEF Ordered
    <3>2. CASE i = n
      BY <1>1, <2>1, <2>5, <2>6, <3>2 DEF Ordered
    <3> QED BY <3>1, <3>2
  <2>9. events <= t[0] + used.restarts
    <3>1. t[0] = s[0]
      BY <1>0, <2>4, <2>5
    <3> QED BY <1>1, <3>1 DEF Ordered
  <2>10. Ordered(t, p, e)'
    <3>1. Len(net') = n
      BY <1>0, <2>3, <2>4
    <3> QED BY <1>1, <2>1, <2>7, <2>8, <2>9, <3>1 DEF Ordered
  <2> QED BY <2>5, <2>10 DEF OrderInv
<1>10. CASE LosePacket
  <2>1. /\ UNCHANGED <<last, events, alarmEth, alarm, pkt, rises>>
        /\ used'.restarts = used.restarts /\ net # <<>> /\ net' = Tail(net)
    BY <1>10, MishapCounts DEF LosePacket, camera, path, service, Happenings
  <2>2. Len(net') = Len(net) - 1 /\ \A i \in 1..Len(net') : Bit(i)' = Bit(i + 1)
    BY <1>0, <2>1, TailBits
  <2> DEFINE t == [i \in Nat |-> IF i = 0 THEN s[0] ELSE s[i + 1]]
             at(i) == IF i = 0 THEN 0 ELSE i + 1
  <2>3. t \in [Nat -> Int] /\ \A i \in Nat : t[i] = s[at(i)] /\ at(i) \in Nat
    BY <1>2
  <2>4. ASSUME NEW i \in 0..Len(net')
        PROVE  at(i) \in 0..Len(net) /\ Bit(i)' = Bit(at(i)) /\ i \in Nat
    <3>1. CASE i = 0
      BY <1>0, <2>1, <3>1 DEF Bit
    <3>2. CASE i \in 1..Len(net')
      <4>1. i + 1 \in 1..Len(net) /\ i + 1 \in 0..Len(net) /\ i # 0 /\ i \in Nat
        BY <1>0, <2>2, <3>2
      <4>2. at(i) = i + 1
        BY <4>1
      <4>3. Bit(i)' = Bit(i + 1)
        BY <2>2, <3>2
      <4> QED BY <4>1, <4>2, <4>3
    <3> QED BY <1>0, <2>2, <3>1, <3>2
  <2>5. ASSUME NEW i \in Nat, NEW j \in Nat, i < j PROVE at(i) < at(j)
    BY <2>5
  <2>6. t[0] = s[0]
    OBVIOUS
  <2> HIDE DEF t, at
  <2>7. Ordered(t, p, e)'
    BY <1>1, <2>1, <2>3, <2>4, <2>5, <2>6 DEF Ordered
  <2> QED BY <2>3, <2>7 DEF OrderInv
<1>11. CASE ReceivePacket
  <2>1. /\ UNCHANGED <<alarmEth, alarm, pkt, rises, used>> /\ net # <<>> /\ net' = Tail(net)
        /\ last' = Head(net).bit
        /\ events' = IF Head(net).bit /\ ~last THEN events + 1 ELSE events
    BY <1>11 DEF ReceivePacket, NewEvent, camera, path
  <2>2. /\ Len(net') = Len(net) - 1 /\ \A i \in 0..Len(net') : Bit(i)' = Bit(i + 1)
        /\ Head(net) = net[1] /\ 1 \in 0..Len(net) /\ 0 \in 0..Len(net)
    BY <1>0, <2>1, TailBits
  <2> DEFINE t == [i \in Nat |-> s[i + 1]]
  <2>3. t \in [Nat -> Int] /\ \A i \in Nat : t[i] = s[i + 1]
    BY <1>2
  <2>4. \A i \in 0..Len(net') : i + 1 \in 0..Len(net) /\ i \in Nat
    BY <1>0, <2>2
  <2>5. t[0] = s[1]
    BY <2>3
  <2>6. Follows(last, s[0], net[1].bit, s[1])
    BY <1>1, <2>2 DEF Ordered, Bit
  <2>7. events' <= t[0] + used'.restarts
    <3>1. events <= s[0] + used.restarts
      BY <1>1 DEF Ordered
    <3>2. s[0] \in Int /\ s[1] \in Int /\ events \in Nat /\ used.restarts \in Nat
      BY <1>0, <1>2
    <3>3. CASE net[1].bit /\ ~last
      <4>1. events' = events + 1 /\ s[0] < s[1]
        BY <2>1, <2>2, <2>6, <3>3 DEF Follows
      <4> QED BY <2>1, <2>5, <3>1, <3>2, <4>1
    <3>4. CASE ~(net[1].bit /\ ~last)
      <4>1. events' = events /\ s[0] <= s[1]
        BY <2>1, <2>2, <2>6, <3>4 DEF Follows
      <4> QED BY <2>1, <2>5, <3>1, <3>2, <4>1
    <3> QED BY <3>3, <3>4
  <2>8. \A i, j \in 0..Len(net') : i < j => i + 1 < j + 1
    BY <1>0, <2>2
  <2> HIDE DEF t
  <2>9. Ordered(t, p, e)'
    BY <1>1, <2>1, <2>2, <2>3, <2>4, <2>7, <2>8 DEF Ordered
  <2> QED BY <2>3, <2>9 DEF OrderInv
<1>12. CASE Restart
  <2>1. /\ UNCHANGED <<events, alarmEth, alarm, pkt, net, rises>>
        /\ used'.restarts = used.restarts + 1 /\ last' = FALSE
    BY <1>12, MishapCounts DEF Restart, camera, path, Happenings
  <2> DEFINE t == [s EXCEPT ![0] = s[0] - 1]
  <2>2. t \in [Nat -> Int] /\ t[0] = s[0] - 1 /\ \A i \in 1..Len(net) : t[i] = s[i]
    BY <1>0, <1>2
  <2> HIDE DEF t
  <2>3. ~Bit(0)' /\ \A i \in 1..Len(net) : Bit(i)' = Bit(i)
    BY <2>1 DEF Bit
  <2>4. ASSUME NEW d, NEW n \in Int, Follows(Bit(0), s[0], d, n)
        PROVE  Follows(Bit(0)', t[0], d, n)
    BY <1>2, <2>2, <2>3, <2>4 DEF Follows
  <2>5. ASSUME NEW i \in 0..Len(net), NEW d, NEW n \in Int, Follows(Bit(i), s[i], d, n)
        PROVE  Follows(Bit(i)', t[i], d, n)
    <3>1. CASE i = 0
      BY <2>4, <2>5, <3>1
    <3>2. CASE i \in 1..Len(net)
      BY <2>2, <2>3, <2>5, <3>2
    <3> QED BY <1>0, <3>1, <3>2
  <2>6. ASSUME NEW i \in 0..Len(net), NEW j \in 0..Len(net), i < j
        PROVE  Follows(Bit(i)', t[i], Bit(j)', t[j])
    <3>1. j \in 1..Len(net) /\ s[j] \in Int
      BY <1>0, <1>2, <2>6
    <3> QED BY <1>1, <2>2, <2>3, <2>5, <2>6, <3>1 DEF Ordered
  <2>7. events' <= t[0] + used'.restarts
    <3>1. /\ s[0] \in Int /\ events <= s[0] + used.restarts
          /\ events \in Nat /\ used.restarts \in Nat
      BY <1>0, <1>1, <1>2 DEF Ordered
    <3>2. events <= (s[0] - 1) + (used.restarts + 1)
      BY <3>1
    <3> QED BY <2>1, <2>2, <3>2
  <2>8. Ordered(t, p, e)'
    BY <1>0, <1>1, <2>1, <2>5, <2>6, <2>7 DEF Ordered
  <2> QED BY <2>2, <2>8 DEF OrderInv
<1> QED BY <1>3, <1>4, <1>5, <1>6, <1>7, <1>8, <1>9, <1>10, <1>11, <1>12 DEF Next

\* There are never more events than alarms, but for restarts of the service: losses and
\* resets anywhere merge alarms and never split one.
THEOREM EventsNeverOutnumberAlarms == Spec => []EventsAreAlarms
<1>1. TypeOK /\ OrderInv => EventsAreAlarms
  <2> SUFFICES ASSUME TypeOK, OrderInv PROVE EventsAreAlarms
    OBVIOUS
  <2>1. PICK s \in [Nat -> Int], p \in Int, e \in Int : Ordered(s, p, e)
    BY DEF OrderInv
  <2>2. 0 \in 0..Len(net) /\ rises \in Nat /\ events \in Nat /\ used.restarts \in Nat
    BY QueueFacts DEF TypeOK
  <2>3. events <= s[0] + used.restarts /\ s[0] <= e /\ e <= rises /\ s[0] \in Int
    BY <2>1, <2>2 DEF Ordered, Follows
  <2> QED BY <2>2, <2>3 DEF EventsAreAlarms
<1> QED BY <1>1, TypeCorrect, OrderInit, OrderStep, PTL DEF Spec

-----------------------------------------------------------------------------
(***************************************************************************)
(* The other direction: where nothing is lost, the numbers are exact.      *)
(***************************************************************************)
Unharmed == used.downs = 0 /\ used.losses = 0 /\ used.clears = 0 /\ used.restarts = 0

Rise(c, d) == IF d /\ ~c THEN 1 ELSE 0

\* Sample i has number s[i]; the record on its way, if there is one, brings the rest.
Exact(s) ==
    /\ s[0] = events
    /\ \A i \in 0..(Len(net) - 1) : s[i + 1] = s[i] + Rise(Bit(i), Bit(i + 1))
    /\ IF fifo = <<>> /\ pkt = <<>>
       THEN rises = s[Len(net)] /\ Bit(Len(net)) = alarm
       ELSE rises = s[Len(net)] + Rise(Bit(Len(net)), alarm)
    /\ pkt # <<>> => pkt[1].bit = alarm
    /\ visible > 0 => alarmEth = alarm

ExactInv == paced /\ Unharmed => \E s \in [Nat -> Int] : Exact(s)

LEMMA ExactInit == Init => ExactInv
<1> SUFFICES ASSUME Init PROVE ExactInv
  OBVIOUS
<1> DEFINE s == [i \in Nat |-> 0]
<1>1. s \in [Nat -> Int] /\ s[0] = 0 /\ Len(net) = 0 /\ pkt = <<>> /\ fifo = <<>>
  BY DEF Init
<1>2. events = 0 /\ rises = 0 /\ last = FALSE /\ alarm = FALSE /\ visible = 0
  BY DEF Init
<1> HIDE DEF s
<1>3. Bit(Len(net)) = alarm
  BY <1>1, <1>2, Zenon DEF Bit
<1>4. \A i \in 0..(Len(net) - 1) : FALSE
  BY <1>1
<1>5. Exact(s)
  BY <1>1, <1>2, <1>3, <1>4 DEF Exact
<1> QED BY <1>1, <1>5 DEF ExactInv

\* What was harmed stays harmed, and the harming steps harm.
LEMMA HarmStays ==
    ASSUME TypeOK, [Next]_vars, Unharmed'
    PROVE  Unharmed /\ ~ClearError /\ ~PathDown /\ ~LosePacket /\ ~Restart
<1>1. \A h \in Happenings : used[h] \in Nat
  BY DEF TypeOK, Happenings
<1>2. ASSUME NEW what \in {"clears", "downs", "losses", "restarts"}, Mishap(what) PROVE FALSE
  <2>1. what \in Happenings /\ used'[what] = 0
    BY DEF Unharmed, Happenings
  <2>2. used'[what] = used[what] + 1 /\ used[what] \in Nat
    BY <1>1, <1>2, <2>1, MishapCounts
  <2> QED BY <2>1, <2>2
<1>5. ~ClearError /\ ~PathDown /\ ~LosePacket /\ ~Restart
  BY <1>2, Zenon DEF ClearError, PathDown, LosePacket, Restart
<1>3. UNCHANGED used => Unharmed
  BY DEF Unharmed
<1>4. ASSUME NEW what \in {"frames", "commands", "writes"}, NEW bound, Once(what, bound)
      PROVE  Unharmed
  BY <1>4, OnceCounts DEF Unharmed, Happenings
<1>6. ASSUME NEW count \in Counts, FrameEnd(count) PROVE Unharmed
  BY <1>4, <1>6, Zenon DEF FrameEnd
<1>7. Command \/ SendThreshold => Unharmed
  BY <1>4, Zenon DEF Command, SendThreshold
<1>8. \/ SyncRegister \/ ThresholdArrives \/ Cross \/ PathUp \/ TakeRecord \/ SendPacket
      \/ ReceivePacket \/ StoreParams \/ UNCHANGED vars
      => Unharmed
  BY <1>3 DEF SyncRegister, ThresholdArrives, Cross, PathUp, TakeRecord, SendPacket,
              ReceivePacket, StoreParams, vars
<1> QED BY <1>5, <1>6, <1>7, <1>8 DEF Next

LEMMA ExactStep == TypeOK /\ PacedInv /\ ExactInv /\ [Next]_vars => ExactInv'
<1> SUFFICES ASSUME TypeOK, PacedInv, ExactInv, [Next]_vars, paced', Unharmed'
             PROVE  \E s \in [Nat -> Int] : Exact(s)'
  BY DEF ExactInv
<1>0. /\ fifo \in Seq(Records) /\ pkt \in Seq(Packets) /\ net \in Seq(Packets)
      /\ Len(fifo) \in Nat /\ Len(pkt) \in 0..1 /\ Len(net) \in Nat /\ visible \in 0..Len(fifo)
      /\ (fifo = <<>> <=> Len(fifo) = 0)
      /\ (pkt = <<>> <=> Len(pkt) = 0) /\ (net = <<>> <=> Len(net) = 0)
      /\ events \in Nat /\ rises \in Nat
  BY QueueFacts DEF TypeOK
<1>1. Unharmed /\ ~ClearError /\ ~PathDown /\ ~LosePacket /\ ~Restart
  BY HarmStays
<1>2. paced
  BY <1>1, Zenon DEF Next, vars, camera, FrameEnd, SyncRegister, Command, ThresholdArrives, Cross,
     PathUp, TakeRecord, SendPacket, ReceivePacket, SendThreshold, StoreParams
<1>3. PICK s \in [Nat -> Int] : Exact(s)
  BY <1>1, <1>2 DEF ExactInv
<1>4. \A i \in Nat : s[i] \in Int
  OBVIOUS
<1>5. Len(fifo) + Len(pkt) <= 1
  BY <1>2 DEF PacedInv
<1>6. ASSUME NEW count \in Counts, FrameEnd(count) PROVE Exact(s)'
  <2>1. fifo = <<>> /\ pkt = <<>>
    BY <1>6, Zenon DEF FrameEnd
  <2>2. UNCHANGED <<last, events, visible, alarmEth, pkt, net>>
    BY <1>6 DEF FrameEnd, service
  <2>3. visible' = 0
    BY <1>0, <2>1, <2>2
  <2>4. CASE UNCHANGED <<alarm, rises, fifo>>
    BY <1>3, <2>1, <2>2, <2>3, <2>4 DEF Exact, Bit
  <2>5. CASE /\ rises' = rises + Rise(alarm, alarm')
             /\ fifo' # <<>>
    <3>1. rises = s[Len(net)] /\ Bit(Len(net)) = alarm
      BY <1>3, <2>1 DEF Exact
    <3>2. rises' = s[Len(net)] + Rise(Bit(Len(net)), alarm')
      BY <2>5, <3>1
    <3> QED BY <1>3, <2>1, <2>2, <2>3, <2>5, <3>2 DEF Exact, Bit
  <2>6. CASE cam.capture
    <3>1. HasRoom
      BY <2>1, SizesAssumption DEF HasRoom
    <3>2. /\ rises' = IF ~alarm /\ alarm' THEN rises + 1 ELSE rises
          /\ fifo' = Append(fifo, [count |-> count, due |-> Meets(count), cleared |-> FALSE])
      BY <1>6, <2>6, <3>1, Zenon DEF FrameEnd
    <3>3. fifo' # <<>>
      BY <2>1, <3>2
    <3>4. rises' = rises + Rise(alarm, alarm')
      BY <1>0, <3>2 DEF Rise
    <3> QED BY <2>5, <3>3, <3>4
  <2> QED BY <1>6, <2>4, <2>6, Zenon DEF FrameEnd
<1>7. CASE \/ SyncRegister \/ Command \/ ThresholdArrives \/ PathUp \/ SendThreshold \/ StoreParams
           \/ UNCHANGED vars
  <2>1. UNCHANGED <<last, events, visible, alarmEth, alarm, pkt, net, fifo, rises>>
    BY <1>7 DEF SyncRegister, Command, ThresholdArrives, PathUp, SendThreshold, StoreParams,
                vars, camera, path, service
  <2>2. Exact(s)'
    BY <1>3, <2>1 DEF Exact, Bit
  <2> QED BY <2>2
<1>8. CASE Cross
  <2>1. UNCHANGED <<last, events, alarm, pkt, net, fifo, rises>> /\ alarmEth' = alarm
    BY <1>8 DEF Cross, AlarmBit, camera, service
  <2>2. Exact(s)'
    BY <1>3, <2>1 DEF Exact, Bit
  <2> QED BY <2>2
<1>9. CASE TakeRecord
  <2>1. /\ UNCHANGED <<last, events, alarmEth, alarm, net, rises>> /\ visible > 0
        /\ pkt = <<>> /\ pkt' = <<[rec |-> Head(fifo), bit |-> alarmEth]>>
        /\ visible' = visible - 1
    BY <1>9 DEF TakeRecord, camera, service
  <2>2. fifo # <<>> /\ visible' = 0
    BY <1>0, <1>5, <2>1
  <2>3. pkt' # <<>> /\ pkt'[1].bit = alarm'
    BY <1>3, <2>1 DEF Exact
  <2>4. Exact(s)'
    BY <1>3, <2>1, <2>2, <2>3 DEF Exact, Bit
  <2> QED BY <2>4
<1>10. CASE SendPacket
  <2>1. /\ UNCHANGED <<last, events, alarm, alarmEth, visible, fifo, rises>>
        /\ pkt # <<>> /\ pkt' = <<>> /\ net' = Append(net, Head(pkt))
    BY <1>10 DEF SendPacket, camera, service
  <2>2. Head(pkt) = pkt[1] /\ Head(pkt) \in Packets
    BY <1>0, <2>1, HeadFacts
  <2>3. /\ Len(net') = Len(net) + 1 /\ net'[Len(net) + 1] = pkt[1]
        /\ \A i \in 1..Len(net) : net'[i] = net[i]
    BY <1>0, <2>1, <2>2, AppendFacts
  <2>4. PICK n \in Nat : n = Len(net)
    BY <1>0
  <2>5. PICK r \in Int : r = rises
    BY <1>0
  <2> DEFINE t == [s EXCEPT ![n + 1] = r]
  <2>6. t \in [Nat -> Int] /\ t[n + 1] = r /\ \A i \in 0..n : t[i] = s[i]
    OBVIOUS
  <2> HIDE DEF t
  <2>7. Bit(n + 1)' = alarm /\ \A i \in 0..n : Bit(i)' = Bit(i)
    <3>1. pkt[1].bit = alarm
      BY <1>3, <2>1 DEF Exact
    <3>2. n + 1 # 0 /\ net'[n + 1].bit = alarm
      BY <2>3, <2>4, <3>1
    <3>3. ASSUME NEW i \in 0..n PROVE i = 0 \/ net'[i] = net[i]
      BY <2>3, <2>4
    <3> QED BY <2>1, <3>2, <3>3 DEF Bit
  <2>8. t[n + 1] = t[n] + Rise(Bit(n)', Bit(n + 1)')
    <3>1. rises = s[n] + Rise(Bit(n), alarm)
      BY <1>3, <2>1, <2>4 DEF Exact
    <3> QED BY <2>5, <2>6, <2>7, <3>1
  <2>9. ASSUME NEW i \in 0..(n - 1)
        PROVE  t[i + 1] = t[i] + Rise(Bit(i)', Bit(i + 1)')
    <3>1. i \in 0..(Len(net) - 1) /\ i \in 0..n /\ i + 1 \in 0..n
      BY <2>4
    <3> QED BY <1>3, <2>6, <2>7, <3>1 DEF Exact
  <2>10. \A i \in 0..(Len(net') - 1) : t[i + 1] = t[i] + Rise(Bit(i)', Bit(i + 1)')
    <3>1. \A i \in 0..(Len(net') - 1) : i = n \/ i \in 0..(n - 1)
      BY <2>3, <2>4
    <3> QED BY <2>8, <2>9, <3>1
  <2>11. fifo' = <<>> /\ visible' = 0
    BY <1>0, <1>5, <2>1
  <2>12. Len(net') = n + 1 /\ t[0] = events
    BY <1>3, <2>3, <2>4, <2>6 DEF Exact
  <2>13. Exact(t)'
    BY <2>1, <2>5, <2>6, <2>7, <2>10, <2>11, <2>12 DEF Exact
  <2> QED BY <2>6, <2>13
<1>11. CASE ReceivePacket
  <2>1. /\ UNCHANGED <<alarm, alarmEth, visible, fifo, pkt, rises>> /\ net # <<>> /\ net' = Tail(net)
        /\ last' = Head(net).bit
        /\ events' = IF Head(net).bit /\ ~last THEN events + 1 ELSE events
    BY <1>11 DEF ReceivePacket, NewEvent, camera, path
  <2>2. /\ Len(net') = Len(net) - 1 /\ \A i \in 0..Len(net') : Bit(i)' = Bit(i + 1)
        /\ Head(net) = net[1] /\ 0 \in 0..(Len(net) - 1)
    BY <1>0, <2>1, TailBits
  <2> DEFINE t == [i \in Nat |-> s[i + 1]]
  <2>3. t \in [Nat -> Int] /\ \A i \in Nat : t[i] = s[i + 1]
    BY <1>4
  <2>4. \A i \in 0..Len(net') : Bit(i)' = Bit(i + 1) /\ i \in Nat
    BY <1>0, <2>2
  <2>5. events' = s[1]
    <3>1. s[1] = s[0] + Rise(last, net[1].bit) /\ s[0] = events
      BY <1>3, <2>2 DEF Exact, Bit
    <3> QED BY <1>0, <2>1, <2>2, <3>1 DEF Rise
  <2> HIDE DEF t
  <2>6. ASSUME NEW i \in 0..(Len(net') - 1)
        PROVE  t[i + 1] = t[i] + Rise(Bit(i)', Bit(i + 1)')
    <3>1. i \in Nat /\ i + 1 \in 0..(Len(net) - 1) /\ i \in 0..Len(net') /\ i + 1 \in 0..Len(net')
      BY <1>0, <2>2
    <3> QED BY <1>3, <2>3, <2>4, <3>1 DEF Exact
  <2>7. PICK k \in Nat : k = Len(net')
    <3>1. Len(net) \in Nat \ {0}
      BY <1>0, <2>1
    <3>2. Len(net') \in Nat
      BY <2>2, <3>1
    <3> QED BY <3>2
  <2>8. k \in 0..Len(net') /\ k + 1 = Len(net)
    BY <1>0, <2>2, <2>7
  <2>9. t[k] = s[Len(net)] /\ Bit(k)' = Bit(Len(net))
    BY <2>3, <2>4, <2>8
  <2>10. t[0] = events'
    BY <2>3, <2>5
  <2>11. Exact(t)'
    BY <1>3, <2>1, <2>6, <2>7, <2>9, <2>10 DEF Exact
  <2> QED BY <2>3, <2>11
<1> QED BY <1>1, <1>6, <1>7, <1>8, <1>9, <1>10, <1>11 DEF Next

\* Without a backlog, losses, clears and restarts every alarm has its event as soon as all
\* that was sent has arrived.
THEOREM NoAlarmIsMissed == Spec => []EachAlarmHasItsEvent
<1>1. Init => PacedInv
  BY DEF Init, PacedInv
<1>2. TypeOK /\ ExactInv => EachAlarmHasItsEvent
  <2> SUFFICES ASSUME ExactInv, paced, Unharmed, fifo = <<>>, pkt = <<>>, net = <<>>
               PROVE  events = rises
    BY DEF EachAlarmHasItsEvent, Unharmed
  <2>1. Len(net) = 0
    OBVIOUS
  <2> QED BY <2>1 DEF ExactInv, Exact
<1> QED BY <1>1, <1>2, TypeCorrect, PacedStep, ExactInit, ExactStep, PTL DEF Spec

-----------------------------------------------------------------------------
(***************************************************************************)
(* The buzzer.                                                             *)
(***************************************************************************)
\* While the alarm stands and is enabled, the buzzer sounds.
BuzzerInv == alarm /\ cam.alarm => beep > 0

LEMMA BuzzerStep == TypeOK /\ BuzzerInv /\ [Next]_vars => BuzzerInv'
<1> SUFFICES ASSUME TypeOK, BuzzerInv, [Next]_vars PROVE BuzzerInv'
  OBVIOUS
<1>1. ASSUME NEW count \in Counts, FrameEnd(count) PROVE BuzzerInv'
  BY <1>1, SizesAssumption DEF FrameEnd, BeepAfter, BuzzerInv
<1>2. CASE ClearError
  BY <1>2 DEF ClearError, ClearedAlarm, BuzzerInv
<1>3. CASE SyncRegister
  BY <1>3, SizesAssumption DEF SyncRegister, BuzzerInv
<1>4. UNCHANGED camera => BuzzerInv'
  BY DEF camera, BuzzerInv
<1> QED BY <1>1, <1>2, <1>3, <1>4 DEF Next, vars, Command, ThresholdArrives, Cross, PathUp, PathDown,
           TakeRecord, SendPacket, LosePacket, ReceivePacket, SendThreshold, StoreParams, Restart

\* The buzzer starts with a captured frame that meets the condition of an alarm, or when it
\* is enabled while the alarm of such a frame stands.
THEOREM BuzzerNeedsAnAlarm == Spec => BuzzerStartsWithAnAlarm
<1>1. Init => BuzzerInv
  BY DEF Init, BuzzerInv
<1> DEFINE Justified == beep = 0 /\ beep' > 0 =>
                            /\ alarm'
                            /\ \/ cam.capture /\ silent' = 0
                               \/ alarm /\ ~cam.alarm /\ cam'.alarm
<1>2. TypeOK /\ BuzzerInv /\ [Next]_vars => Justified
  <2> SUFFICES ASSUME TypeOK, BuzzerInv, [Next]_vars, beep = 0, beep' > 0
               PROVE  alarm' /\ ((cam.capture /\ silent' = 0) \/ (alarm /\ ~cam.alarm /\ cam'.alarm))
    OBVIOUS
  <2>1. ASSUME NEW count \in Counts, FrameEnd(count)
        PROVE  alarm' /\ cam.capture /\ silent' = 0
    <3>1. cam.alarm /\ alarm'
      BY <2>1, SizesAssumption DEF FrameEnd, BeepAfter
    <3>2. ~alarm
      BY <3>1 DEF BuzzerInv
    <3>3. cam.capture /\ Meets(count)
      BY <2>1, <3>1, <3>2, Zenon DEF FrameEnd
    <3> QED BY <2>1, <3>1, <3>3 DEF FrameEnd, Meets, Silence
  <2>2. CASE SyncRegister
    <3>1. alarm /\ cam'.alarm /\ alarm' = alarm
      BY <2>2 DEF SyncRegister
    <3>2. ~cam.alarm
      BY <3>1 DEF BuzzerInv
    <3> QED BY <3>1, <3>2
  <2>3. ~ClearError /\ ~UNCHANGED camera
    BY DEF ClearError, camera
  <2> QED BY <2>1, <2>2, <2>3 DEF Next, vars, Command, ThresholdArrives, Cross, PathUp, PathDown,
             TakeRecord, SendPacket, LosePacket, ReceivePacket, SendThreshold, StoreParams, Restart
<1> QED BY <1>1, <1>2, TypeCorrect, BuzzerStep, PTL DEF Spec, BuzzerStartsWithAnAlarm

-----------------------------------------------------------------------------
(***************************************************************************)
(* The initialisation of the camera.  The registers of the master and of   *)
(* the initialisation are followed clock by clock (what a clock does in    *)
(* every state and phase), then the two wires are tied to what the camera  *)
(* has taken from them (BusInv), and that to the entries of the table      *)
(* (WrittenInv).                                                           *)
(***************************************************************************)
\* Types of the master; what a clock does to its place, its wires, state and phase.
WrTypes ==
    wr \in [state : {"IDLE", "START", "SEND", "ACK", "STOP", "DONE"}, phase : 0..3,
               byte : 0..2, bit : 0..(Width - 1), cur : Bytes, pending : BOOLEAN,
               done : BOOLEAN, ackError : BOOLEAN, scl : BOOLEAN, sda : BOOLEAN]
SamePlace == wr'.byte = wr.byte /\ wr'.bit = wr.bit /\ wr'.cur = wr.cur
Pulls(scl, sda) == wr'.scl = scl /\ wr'.sda = sda
GoesAt(state, phase) == wr'.state = state /\ wr'.phase = phase

\* A clock of the master without a tick, and with one in each of its states.
LEMMA WrWaits ==
    ASSUME WrTypes, wr' = WrNext, ~div.tick
    PROVE  /\ GoesAt(wr.state, wr.phase) /\ SamePlace /\ Pulls(wr.scl, wr.sda)
              /\ wr'.ackError = wr.ackError
           /\ wr'.pending = Pending /\ wr'.done = FALSE
BY DEF WrTypes, WrNext, GoesAt, SamePlace, Pulls

LEMMA IdleTick ==
    ASSUME WrTypes, wr' = WrNext, div.tick, wr.state = "IDLE"
    PROVE  /\ Pulls(FALSE, FALSE) /\ wr'.ackError = FALSE /\ wr'.done = FALSE
           /\ ~wr.pending => GoesAt("IDLE", 0) /\ SamePlace /\ wr'.pending = Pending
           /\ wr.pending => /\ GoesAt("START", 0) /\ wr'.pending = FALSE
                            /\ wr'.byte = 0 /\ wr'.bit = Width - 1 /\ wr'.cur = Device
BY DEF WrTypes, WrNext, Idle, GoesAt, SamePlace, Pulls

LEMMA StartTick ==
    ASSUME WrTypes, wr' = WrNext, div.tick, wr.state = "START"
    PROVE  /\ SamePlace /\ wr'.ackError = wr.ackError /\ wr'.pending = Pending /\ wr'.done = FALSE
           /\ wr.phase = 0 => GoesAt("START", 1) /\ Pulls(FALSE, FALSE)
           /\ wr.phase = 1 => GoesAt("START", 2) /\ Pulls(FALSE, TRUE)
           /\ wr.phase = 2 => GoesAt("START", 3) /\ Pulls(TRUE, TRUE)
           /\ wr.phase = 3 => GoesAt("SEND", 0) /\ Pulls(wr.scl, wr.sda)
<1>0. CASE wr.phase = 0
  BY <1>0 DEF WrTypes, WrNext, Start, Quarter, GoesAt, SamePlace, Pulls
<1>1. CASE wr.phase = 1
  BY <1>1 DEF WrTypes, WrNext, Start, Quarter, GoesAt, SamePlace, Pulls
<1>2. CASE wr.phase = 2
  BY <1>2 DEF WrTypes, WrNext, Start, Quarter, GoesAt, SamePlace, Pulls
<1>3. CASE wr.phase = 3
  BY <1>3 DEF WrTypes, WrNext, Start, Quarter, GoesAt, SamePlace, Pulls
<1>4. wr.phase = 0 \/ wr.phase = 1 \/ wr.phase = 2 \/ wr.phase = 3
  BY DEF WrTypes
<1> QED  BY <1>0, <1>1, <1>2, <1>3, <1>4

LEMMA SendTick ==
    ASSUME WrTypes, wr' = WrNext, div.tick, wr.state = "SEND"
    PROVE  /\ wr'.byte = wr.byte /\ wr'.cur = wr.cur /\ wr'.ackError = wr.ackError
              /\ wr'.pending = Pending /\ wr'.done = FALSE
           /\ wr.phase = 0 => GoesAt("SEND", 1) /\ wr'.bit = wr.bit
              /\ Pulls(TRUE, ~BitOf(wr.cur, wr.bit))
           /\ wr.phase = 1 => GoesAt("SEND", 2) /\ wr'.bit = wr.bit /\ Pulls(FALSE, wr.sda)
           /\ wr.phase = 2 => GoesAt("SEND", 3) /\ wr'.bit = wr.bit /\ Pulls(FALSE, wr.sda)
           /\ wr.phase = 3 /\ wr.bit = 0 => GoesAt("ACK", 0) /\ wr'.bit = 0 /\ Pulls(TRUE, wr.sda)
           /\ wr.phase = 3 /\ wr.bit > 0 => GoesAt("SEND", 0) /\ wr'.bit = wr.bit - 1
              /\ Pulls(TRUE, wr.sda)
<1>0. CASE wr.phase = 0
  BY <1>0 DEF WrTypes, WrNext, Send, Quarter, GoesAt, SamePlace, Pulls
<1>1. CASE wr.phase = 1
  BY <1>1 DEF WrTypes, WrNext, Send, Quarter, GoesAt, SamePlace, Pulls
<1>2. CASE wr.phase = 2
  BY <1>2 DEF WrTypes, WrNext, Send, Quarter, GoesAt, SamePlace, Pulls
<1>3. CASE wr.phase = 3
  BY <1>3 DEF WrTypes, WrNext, Send, Quarter, GoesAt, SamePlace, Pulls
<1>4. wr.phase = 0 \/ wr.phase = 1 \/ wr.phase = 2 \/ wr.phase = 3
  BY DEF WrTypes
<1> QED  BY <1>0, <1>1, <1>2, <1>3, <1>4

LEMMA AckTick ==
    ASSUME WrTypes, wr' = WrNext, div.tick, wr.state = "ACK"
    PROVE  /\ wr'.pending = Pending /\ wr'.done = FALSE
           /\ wr.phase = 0 => GoesAt("ACK", 1) /\ SamePlace /\ wr'.ackError = wr.ackError
              /\ Pulls(TRUE, FALSE)
           /\ wr.phase = 1 => GoesAt("ACK", 2) /\ SamePlace /\ wr'.ackError = wr.ackError
              /\ Pulls(FALSE, wr.sda)
           /\ wr.phase = 2 => /\ GoesAt("ACK", 3) /\ SamePlace /\ Pulls(wr.scl, wr.sda)
                              /\ wr'.ackError = (wr.ackError \/ ~(wr.sda \/ slave.sda))
           /\ wr.phase = 3 => Pulls(TRUE, FALSE) /\ wr'.ackError = wr.ackError
           /\ wr.phase = 3 /\ wr.byte = 2 => GoesAt("STOP", 0) /\ SamePlace
           /\ wr.phase = 3 /\ wr.byte # 2 => /\ GoesAt("SEND", 0) /\ wr'.byte = wr.byte + 1
                                                /\ wr'.bit = Width - 1
                                             /\ wr'.cur = SelectByte(wr.byte + 1)
<1>0. CASE wr.phase = 0
  BY <1>0 DEF WrTypes, WrNext, Ack, Quarter, GoesAt, SamePlace, Pulls
<1>1. CASE wr.phase = 1
  BY <1>1 DEF WrTypes, WrNext, Ack, Quarter, GoesAt, SamePlace, Pulls
<1>2. CASE wr.phase = 2
  BY <1>2 DEF WrTypes, WrNext, Ack, Quarter, GoesAt, SamePlace, Pulls
<1>3. CASE wr.phase = 3
  BY <1>3 DEF WrTypes, WrNext, Ack, Quarter, GoesAt, SamePlace, Pulls, BitOfNextByte
<1>4. wr.phase = 0 \/ wr.phase = 1 \/ wr.phase = 2 \/ wr.phase = 3
  BY DEF WrTypes
<1> QED  BY <1>0, <1>1, <1>2, <1>3, <1>4

LEMMA StopTick ==
    ASSUME WrTypes, wr' = WrNext, div.tick, wr.state = "STOP"
    PROVE  /\ SamePlace /\ wr'.ackError = wr.ackError /\ wr'.pending = Pending /\ wr'.done = FALSE
           /\ wr.phase = 0 => GoesAt("STOP", 1) /\ Pulls(TRUE, TRUE)
           /\ wr.phase = 1 => GoesAt("STOP", 2) /\ Pulls(FALSE, TRUE)
           /\ wr.phase = 2 => GoesAt("STOP", 3) /\ Pulls(FALSE, FALSE)
           /\ wr.phase = 3 => GoesAt("DONE", 0) /\ Pulls(wr.scl, wr.sda)
<1>0. CASE wr.phase = 0
  BY <1>0 DEF WrTypes, WrNext, Stop, Quarter, GoesAt, SamePlace, Pulls
<1>1. CASE wr.phase = 1
  BY <1>1 DEF WrTypes, WrNext, Stop, Quarter, GoesAt, SamePlace, Pulls
<1>2. CASE wr.phase = 2
  BY <1>2 DEF WrTypes, WrNext, Stop, Quarter, GoesAt, SamePlace, Pulls
<1>3. CASE wr.phase = 3
  BY <1>3 DEF WrTypes, WrNext, Stop, Quarter, GoesAt, SamePlace, Pulls
<1>4. wr.phase = 0 \/ wr.phase = 1 \/ wr.phase = 2 \/ wr.phase = 3
  BY DEF WrTypes
<1> QED  BY <1>0, <1>1, <1>2, <1>3, <1>4

LEMMA DoneTick ==
    ASSUME WrTypes, wr' = WrNext, div.tick, wr.state = "DONE"
    PROVE  /\ GoesAt("IDLE", wr.phase) /\ SamePlace /\ Pulls(FALSE, FALSE)
              /\ wr'.ackError = wr.ackError
           /\ wr'.pending = Pending /\ wr'.done = TRUE
BY DEF WrTypes, WrNext, Done, GoesAt, SamePlace, Pulls

\* Types of the initialisation, and what a clock does in each of its states.
InitTypes ==
    init \in [state : {"IDLE", "LOAD", "WRITE", "WAIT_WR", "DELAY", "NEXT", "DONE"},
                 idx : 1..(Len(Table) + 1), start : BOOLEAN, delay : 0..LongestDelay,
                 done : BOOLEAN, error : BOOLEAN]
GoesTo(state) == init'.state = state

LEMMA InitSteps ==
    ASSUME InitTypes, init' = InitNext
    PROVE  /\ init.state = "IDLE" =>
                  /\ top.start => GoesTo("LOAD")
                  /\ ~top.start => GoesTo("IDLE")
                  /\ init'.idx = 1 /\ init'.start = FALSE /\ init'.delay = 0
                     /\ init'.done = FALSE /\ init'.error = FALSE
           /\ init.state = "LOAD" =>
                  /\ TableEnd => GoesTo("DONE") /\ init'.delay = init.delay
                  /\ ~TableEnd /\ Entry.delay > 0 => GoesTo("DELAY") /\ init'.delay = 0
                  /\ ~TableEnd /\ ~(Entry.delay > 0) => GoesTo("WRITE")
                     /\ init'.delay = init.delay
                  /\ init'.idx = init.idx /\ init'.start = FALSE /\ init'.done = FALSE
                     /\ init'.error = init.error
           /\ init.state = "WRITE" =>
                  /\ GoesTo("WAIT_WR") /\ init'.delay = init.delay
                  /\ init'.idx = init.idx /\ init'.start = TRUE /\ init'.done = FALSE
                     /\ init'.error = init.error
           /\ init.state = "WAIT_WR" =>
                  /\ wr.done => GoesTo("NEXT") /\ init'.error = (init.error \/ wr.ackError)
                  /\ ~wr.done => GoesTo("WAIT_WR") /\ init'.error = init.error
                  /\ init'.idx = init.idx /\ init'.start = FALSE /\ init'.done = FALSE
                     /\ init'.delay = init.delay
           /\ init.state = "DELAY" =>
                  /\ Delayed => GoesTo("NEXT") /\ init'.delay = init.delay
                  /\ ~Delayed => GoesTo("DELAY") /\ init'.delay = init.delay + 1
                  /\ init'.idx = init.idx /\ init'.start = FALSE /\ init'.done = FALSE
                     /\ init'.error = init.error
           /\ init.state = "NEXT" =>
                  /\ GoesTo("LOAD") /\ init'.delay = init.delay
                  /\ init'.idx = init.idx + 1 /\ init'.start = FALSE /\ init'.done = FALSE
                     /\ init'.error = init.error
           /\ init.state = "DONE" =>
                  /\ GoesTo("IDLE") /\ init'.delay = init.delay
                  /\ init'.idx = init.idx /\ init'.start = FALSE /\ init'.done = TRUE
                     /\ init'.error = init.error
<1>1. CASE init.state = "IDLE"
  BY <1>1 DEF InitTypes, InitNext, ResetInit, GoesTo
<1>2. CASE init.state = "LOAD"
  BY <1>2 DEF InitTypes, InitNext, InitGo, GoesTo
<1>3. CASE init.state = "WRITE"
  BY <1>3 DEF InitTypes, InitNext, InitGo, GoesTo
<1>4. CASE init.state = "WAIT_WR"
  BY <1>4 DEF InitTypes, InitNext, InitGo, GoesTo
<1>5. CASE init.state = "DELAY"
  BY <1>5 DEF InitTypes, InitNext, InitGo, GoesTo
<1>6. CASE init.state = "NEXT"
  BY <1>6 DEF InitTypes, InitNext, InitGo, GoesTo
<1>7. CASE init.state = "DONE"
  BY <1>7 DEF InitTypes, InitNext, InitGo, GoesTo
<1> QED  BY <1>1, <1>2, <1>3, <1>4, <1>5, <1>6, <1>7 DEF InitTypes

\* Types of the camera, and what it makes of a clock of the wires.
SlaveTypes ==
    /\ slave \in [doing : {"idle", "receive", "answer"}, value : Seq(BOOLEAN), place : 0..3,
                  reg : Bytes, sda : BOOLEAN]
    /\ Len(slave.value) <= Width

ByteFull == slave.doing = "receive" /\ Len(slave.value) = Width

LEMMA SlaveSteps ==
    ASSUME WrTypes, WrTypes', SlaveTypes, NEW answers \in BOOLEAN,
           slave' = SlaveAfter(slave, Wires(wr, slave), Wires(wr', slave), answers)
    PROVE  /\ (wr.scl /\ wr'.scl) => slave' = slave
           /\ (~wr.scl /\ ~wr'.scl /\ (slave.sda \/ wr.sda = wr'.sda)) => slave' = slave
           /\ (~wr.scl /\ ~wr'.scl /\ ~slave.sda /\ ~wr.sda /\ wr'.sda) =>
                  slave' = [IdleSlave EXCEPT !.doing = "receive"]
           /\ (~wr.scl /\ ~wr'.scl /\ ~slave.sda /\ wr.sda /\ ~wr'.sda) => slave' = IdleSlave
           /\ (wr.scl /\ ~wr'.scl) =>
                  /\ (slave.doing = "receive" /\ Len(slave.value) < Width) =>
                         slave' =
                             [slave EXCEPT !.value = Append(slave.value, ~(wr'.sda \/ slave.sda))]
                  /\ ~(slave.doing = "receive" /\ Len(slave.value) < Width) => slave' = slave
           /\ (~wr.scl /\ wr'.scl) =>
                  /\ (ByteFull /\ answers /\ Known(slave)) =>
                         slave' = [slave EXCEPT !.doing = "answer", !.sda = TRUE,
                                       !.reg = IF slave.place = 1 THEN slave.value ELSE slave.reg]
                  /\ (ByteFull /\ ~(answers /\ Known(slave))) => slave' = IdleSlave
                  /\ slave.doing = "answer" =>
                         slave' =
                             [slave EXCEPT !.doing = "receive", !.sda = FALSE, !.value = <<>>,
                                  !.place = IF slave.place < 3 THEN slave.place + 1 ELSE slave.place]
                  /\ ~(ByteFull \/ slave.doing = "answer") => slave' = slave
<1> DEFINE from == Wires(wr, slave)  to == Wires(wr', slave)
<1>1. /\ StartSeen(from, to) <=> (~wr.scl /\ ~wr'.scl /\ ~slave.sda /\ ~wr.sda /\ wr'.sda)
      /\ StopSeen(from, to) <=> (~wr.scl /\ ~wr'.scl /\ ~slave.sda /\ wr.sda /\ ~wr'.sda)
      /\ Rises(from, to) <=> (wr.scl /\ ~wr'.scl)
      /\ Falls(from, to) <=> (~wr.scl /\ wr'.scl)
      /\ ByteEnds(slave, from, to) <=> (~wr.scl /\ wr'.scl /\ ByteFull)
  BY DEF WrTypes, SlaveTypes, Wires, StartSeen, StopSeen, Rises, Falls, ByteEnds, ByteFull
<1>2. to.sda = ~(wr'.sda \/ slave.sda)
  BY DEF Wires
<1>3. wr.scl \in BOOLEAN /\ wr'.scl \in BOOLEAN /\ wr.sda \in BOOLEAN /\ wr'.sda \in BOOLEAN
      /\ slave.sda \in BOOLEAN
  BY DEF WrTypes, SlaveTypes
<1> HIDE DEF from, to
<1>4. slave' = SlaveAfter(slave, from, to, answers)
  BY DEF from, to
<1>5. (wr.scl /\ wr'.scl) => slave' = slave
  BY ONLY <1>1, <1>3, <1>4 DEF SlaveAfter
<1>6. (~wr.scl /\ ~wr'.scl /\ (slave.sda \/ wr.sda = wr'.sda)) => slave' = slave
  BY ONLY <1>1, <1>3, <1>4 DEF SlaveAfter
<1>7. (~wr.scl /\ ~wr'.scl /\ ~slave.sda /\ ~wr.sda /\ wr'.sda) =>
                  slave' = [IdleSlave EXCEPT !.doing = "receive"]
  BY ONLY <1>1, <1>3, <1>4 DEF SlaveAfter
<1>8. (~wr.scl /\ ~wr'.scl /\ ~slave.sda /\ wr.sda /\ ~wr'.sda) => slave' = IdleSlave
  BY ONLY <1>1, <1>3, <1>4 DEF SlaveAfter
<1>9. (wr.scl /\ ~wr'.scl) =>
                  /\ (slave.doing = "receive" /\ Len(slave.value) < Width) =>
                         slave' =
                             [slave EXCEPT !.value = Append(slave.value, ~(wr'.sda \/ slave.sda))]
                  /\ ~(slave.doing = "receive" /\ Len(slave.value) < Width) => slave' = slave
  BY ONLY <1>1, <1>2, <1>3, <1>4 DEF SlaveAfter
<1>10. (~wr.scl /\ wr'.scl) =>
                  /\ (ByteFull /\ answers /\ Known(slave)) =>
                         slave' = [slave EXCEPT !.doing = "answer", !.sda = TRUE,
                                       !.reg = IF slave.place = 1 THEN slave.value ELSE slave.reg]
                  /\ (ByteFull /\ ~(answers /\ Known(slave))) => slave' = IdleSlave
                  /\ slave.doing = "answer" =>
                         slave' =
                             [slave EXCEPT !.doing = "receive", !.sda = FALSE, !.value = <<>>,
                                  !.place = IF slave.place < 3 THEN slave.place + 1 ELSE slave.place]
                  /\ ~(ByteFull \/ slave.doing = "answer") => slave' = slave
  BY ONLY <1>1, <1>3, <1>4 DEF SlaveAfter, ByteFull
<1> QED  BY <1>5, <1>6, <1>7, <1>8, <1>9, <1>10

\* The entries of the table.
LEMMA EntryTypes ==
    ASSUME NEW i \in 1..Len(Table)
    PROVE  /\ Table[i].delay \in 0..LongestDelay
           /\ Table[i].delay = 0 => Table[i].reg \in Bytes /\ Table[i].data \in Bytes
           /\ Len(Table) \in Nat
<1>1. Table[i] \in [delay : 1..LongestDelay] \cup [delay : {0}, reg : Bytes, data : Bytes]
  BY TableAssumption
<1>2. CASE Table[i] \in [delay : 1..LongestDelay]
  BY <1>2, TableAssumption, SccbAssumption
<1>3. CASE Table[i] \in [delay : {0}, reg : Bytes, data : Bytes]
  BY <1>3, TableAssumption, SccbAssumption
<1> QED  BY <1>1, <1>2, <1>3

\* The clock of the divider: a tick is never followed by another one.
TickInv == div.tick => div.cnt = 0

\* One write at a time, and only while its answer is awaited.
AtRest == wr.state = "IDLE" /\ ~wr.pending /\ ~wr.done
InitInv ==
    /\ init.start => init.state = "WAIT_WR"
    /\ init.state \in {"WRITE", "WAIT_WR", "DELAY", "NEXT"} => init.idx <= Len(Table)
    /\ init.state \in {"WRITE", "WAIT_WR"} => Entry.delay = 0
    /\ init.state = "DELAY" => init.delay < Entry.delay
    /\ init.state = "DONE" => TableEnd
    /\ init.done => init.state = "IDLE"
HandInv ==
    /\ init.state # "WAIT_WR" \/ init.start => AtRest
    /\ init.state = "WAIT_WR" /\ ~init.start =>
           \/ wr.state = "IDLE" /\ (wr.pending <=> ~wr.done)
           \/ wr.state # "IDLE" /\ ~wr.pending /\ ~wr.done
    /\ wr.done => ~div.tick

\* Types of the divider and of the top level.
DivTypes == div \in [cnt : 0..(Divider - 1), tick : BOOLEAN]
TopTypes ==
    top \in [wait : 0..(WaitCycles - 1), start : BOOLEAN, started : BOOLEAN, done : BOOLEAN,
                error : BOOLEAN]

LEMMA SccbTypeParts ==
    SccbTypeOK <=> /\ TopTypes /\ InitTypes /\ DivTypes /\ WrTypes /\ SlaveTypes
                   /\ written \in Seq(Bytes \X Bytes) /\ held \in BOOLEAN
                   /\ quiet \in 0..LongestDelay /\ resets \in 0..MaxResets
BY DEF SccbTypeOK, TopTypes, InitTypes, DivTypes, WrTypes, SlaveTypes

LEMMA DivStep ==
    ASSUME DivTypes, div' = DivNext
    PROVE  DivTypes' /\ TickInv' /\ ((TickInv /\ div.tick) => ~div'.tick)
<1>1. div.cnt \in 0..(Divider - 1) /\ div.tick \in BOOLEAN /\ Divider \in Nat /\ Divider >= 2
  BY SccbAssumption DEF DivTypes
<1>2. /\ div'.tick = (div.cnt = Divider - 1)
      /\ div'.cnt = IF div.cnt = Divider - 1 THEN 0 ELSE div.cnt + 1
      /\ DivTypes' <=> div'.cnt \in 0..(Divider - 1) /\ div'.tick \in BOOLEAN
  BY DEF DivNext, DivTypes
<1>3. div'.cnt \in 0..(Divider - 1) /\ div'.tick \in BOOLEAN
  BY ONLY <1>1, <1>2
<1>4. TickInv'
  BY ONLY <1>1, <1>2 DEF TickInv
<1>5. ASSUME TickInv, div.tick PROVE ~div'.tick
  <2>1. div.cnt = 0
    BY <1>5 DEF TickInv
  <2>2. div.cnt # Divider - 1
    BY ONLY <1>1, <2>1
  <2>3. div'.tick = FALSE
    BY ONLY <1>2, <2>2
  <2> QED  BY ONLY <2>3
<1> QED  BY <1>2, <1>3, <1>4, <1>5

LEMMA TopStep ==
    ASSUME TopTypes, InitTypes, top' = TopNext
    PROVE  TopTypes'
BY SccbAssumption DEF TopTypes, InitTypes, TopNext

\* The handshake of a clock of the master.
LEMMA WrMoves ==
    ASSUME WrTypes, wr' = WrNext
    PROVE  /\ wr'.done = (div.tick /\ wr.state = "DONE")
           /\ wr.state = "IDLE" =>
                  IF div.tick /\ wr.pending THEN wr'.state = "START" /\ wr'.pending = FALSE
                  ELSE wr'.state = "IDLE" /\ wr'.pending = Pending
           /\ wr.state # "IDLE" => wr'.pending = Pending
           /\ (wr.state # "IDLE" /\ (~div.tick \/ wr.state # "DONE")) => wr'.state # "IDLE"
           /\ (wr.state = "DONE" /\ div.tick) => wr'.state = "IDLE"
<1>1. CASE ~div.tick
  BY <1>1, WrWaits DEF GoesAt, WrTypes
<1>2. CASE div.tick /\ wr.state = "IDLE"
  BY <1>2, IdleTick DEF GoesAt
<1>3. CASE div.tick /\ wr.state = "START"
  <2>1. wr.phase = 0 \/ wr.phase = 1 \/ wr.phase = 2 \/ wr.phase = 3
    BY DEF WrTypes
  <2> QED  BY <1>3, <2>1, StartTick DEF GoesAt
<1>4. CASE div.tick /\ wr.state = "SEND"
  <2>1. wr.phase = 0 \/ wr.phase = 1 \/ wr.phase = 2
        \/ (wr.phase = 3 /\ (wr.bit = 0 \/ wr.bit > 0))
    BY SccbAssumption DEF WrTypes
  <2> QED  BY <1>4, <2>1, SendTick DEF GoesAt
<1>5. CASE div.tick /\ wr.state = "ACK"
  <2>1. wr.phase = 0 \/ wr.phase = 1 \/ wr.phase = 2
        \/ (wr.phase = 3 /\ (wr.byte = 2 \/ wr.byte # 2))
    BY DEF WrTypes
  <2> QED  BY <1>5, <2>1, AckTick DEF GoesAt
<1>6. CASE div.tick /\ wr.state = "STOP"
  <2>1. wr.phase = 0 \/ wr.phase = 1 \/ wr.phase = 2 \/ wr.phase = 3
    BY DEF WrTypes
  <2> QED  BY <1>6, <2>1, StopTick DEF GoesAt
<1>7. CASE div.tick /\ wr.state = "DONE"
  BY <1>7, DoneTick DEF GoesAt
<1> QED  BY <1>1, <1>2, <1>3, <1>4, <1>5, <1>6, <1>7 DEF WrTypes

\* The initialisation waits while the master is at work.
LEMMA InitWaits ==
    ASSUME InitTypes, HandInv, init' = InitNext, wr.state # "IDLE"
    PROVE  /\ init.state = "WAIT_WR" /\ ~init.start /\ ~wr.done /\ ~wr.pending
           /\ init'.state = "WAIT_WR" /\ init'.idx = init.idx /\ init'.error = init.error
BY InitSteps DEF HandInv, AtRest, GoesTo

\* The handshake between the initialisation and the master is kept.
LEMMA HandStep ==
    ASSUME InitTypes, WrTypes, DivTypes, TickInv, InitInv, HandInv,
           init' = InitNext, wr' = WrNext, div' = DivNext
    PROVE  HandInv'
<1>1. wr.done \in BOOLEAN /\ wr.pending \in BOOLEAN /\ init.start \in BOOLEAN
      /\ div.tick \in BOOLEAN
  BY DEF WrTypes, InitTypes, DivTypes
<1>2. wr'.done => ~div'.tick
  BY WrMoves, DivStep
<1>3. CASE init.state = "WAIT_WR" /\ init.start
  <2>1. init'.state = "WAIT_WR" /\ ~init'.start
    BY <1>3, InitSteps DEF HandInv, AtRest, GoesTo
  <2>2. wr'.state = "IDLE" /\ wr'.pending /\ ~wr'.done
    BY <1>1, <1>3, WrMoves DEF HandInv, AtRest, Pending
  <2> QED  BY <1>2, <2>1, <2>2 DEF HandInv, AtRest
<1>4. CASE init.state = "WAIT_WR" /\ ~init.start /\ wr.state = "IDLE" /\ wr.done
  <2>1. init'.state = "NEXT" /\ ~init'.start
    BY <1>4, InitSteps DEF GoesTo
  <2>2. wr'.state = "IDLE" /\ ~wr'.pending /\ ~wr'.done
    BY <1>1, <1>4, WrMoves DEF HandInv, AtRest, Pending
  <2> QED  BY <1>2, <2>1, <2>2 DEF HandInv, AtRest
<1>5. CASE init.state = "WAIT_WR" /\ ~init.start /\ wr.state = "IDLE" /\ ~wr.done
  <2>1. init'.state = "WAIT_WR" /\ ~init'.start
    BY <1>5, InitSteps DEF GoesTo
  <2>2. wr.pending /\ ~wr'.done
    BY <1>1, <1>5, WrMoves DEF HandInv
  <2>3. (wr'.state = "IDLE" /\ wr'.pending) \/ (wr'.state = "START" /\ ~wr'.pending)
    BY <1>1, <1>5, <2>2, WrMoves DEF Pending
  <2> QED  BY <1>2, <2>1, <2>2, <2>3 DEF HandInv, AtRest
<1>6. CASE init.state = "WAIT_WR" /\ ~init.start /\ wr.state # "IDLE"
  <2>1. init'.state = "WAIT_WR" /\ ~init'.start /\ ~wr.pending
    BY <1>6, InitSteps, InitWaits DEF GoesTo
  <2>2. ~wr'.pending
    BY <1>1, <1>6, <2>1, WrMoves DEF Pending
  <2>3. (wr'.state = "IDLE" /\ wr'.done) \/ (wr'.state # "IDLE" /\ ~wr'.done)
    BY <1>1, <1>6, WrMoves
  <2> QED  BY <1>2, <2>1, <2>2, <2>3 DEF HandInv, AtRest
<1>7. CASE init.state # "WAIT_WR"
  <2>1. ~init.start /\ AtRest
    BY <1>7 DEF HandInv, InitInv
  <2>2. wr'.state = "IDLE" /\ ~wr'.pending /\ ~wr'.done
    BY <1>1, <2>1, WrMoves DEF AtRest, Pending
  <2>3. init'.state # "WAIT_WR" \/ init'.start
    BY <1>7, InitSteps DEF GoesTo, InitTypes
  <2> QED  BY <1>2, <2>2, <2>3 DEF HandInv, AtRest
<1> QED  BY <1>3, <1>4, <1>5, <1>6, <1>7

\* The initialisation keeps its types and its part of the invariant.
LEMMA InitTyped ==
    ASSUME InitTypes, init' = InitNext,
           init'.state \in {"IDLE", "LOAD", "WRITE", "WAIT_WR", "DELAY", "NEXT", "DONE"},
           init'.idx \in 1..(Len(Table) + 1), init'.delay \in 0..LongestDelay,
           init'.start \in BOOLEAN, init'.done \in BOOLEAN, init'.error \in BOOLEAN
    PROVE  InitTypes'
BY DEF InitTypes, InitNext, InitGo, ResetInit

LEMMA InitStep ==
    ASSUME InitTypes, WrTypes, InitInv, init' = InitNext
    PROVE  InitTypes' /\ InitInv'
<1>0. /\ init.idx \in 1..(Len(Table) + 1) /\ Len(Table) \in Nat /\ init.delay \in 0..LongestDelay
      /\ LongestDelay \in Nat /\ 0 \in 0..LongestDelay /\ 1 \in 1..(Len(Table) + 1)
  BY TableAssumption, SccbAssumption DEF InitTypes
<1>a. /\ TRUE \in BOOLEAN /\ FALSE \in BOOLEAN /\ init.error \in BOOLEAN
         /\ wr.ackError \in BOOLEAN
      /\ (init.error \/ wr.ackError) \in BOOLEAN
  BY DEF InitTypes, WrTypes
<1>1. CASE init.state = "IDLE"
  <2>1. /\ init'.state = "LOAD" \/ init'.state = "IDLE"
        /\ init'.idx = 1 /\ init'.start = FALSE /\ init'.delay = 0 /\ init'.done = FALSE
        /\ init'.error = FALSE
    BY <1>1, InitSteps DEF GoesTo
  <2>2. InitTypes'
    BY <1>0, <1>a, <2>1, InitTyped
  <2>3. InitInv'
    BY ONLY <2>1 DEF InitInv
  <2> QED  BY <2>2, <2>3
<1>2. CASE init.state = "LOAD" /\ TableEnd
  <2>1. /\ init'.state = "DONE" /\ init'.idx = init.idx /\ init'.start = FALSE
        /\ init'.delay = init.delay /\ init'.done = FALSE /\ init'.error = init.error
    BY <1>2, InitSteps DEF GoesTo
  <2>2. InitTypes'
    BY <1>0, <1>a, <2>1, InitTyped
  <2>3. TableEnd'
    BY <1>2, <2>1 DEF TableEnd
  <2>4. InitInv'
    BY ONLY <2>1, <2>3 DEF InitInv
  <2> QED  BY <2>2, <2>4
<1>3. CASE init.state = "LOAD" /\ ~TableEnd
  <2>1. init.idx \in 1..Len(Table) /\ Entry.delay \in 0..LongestDelay
    BY <1>0, <1>3, EntryTypes DEF TableEnd, Entry
  <2>2. /\ init'.idx = init.idx /\ init'.start = FALSE /\ init'.done = FALSE
           /\ init'.error = init.error
        /\ \/ init'.state = "DELAY" /\ Entry.delay > 0 /\ init'.delay = 0
           \/ init'.state = "WRITE" /\ ~(Entry.delay > 0) /\ init'.delay = init.delay
    BY <1>3, InitSteps DEF GoesTo
  <2>3. InitTypes'
    BY <1>0, <1>a, <2>1, <2>2, InitTyped
  <2>4. Entry' = Entry
    BY <2>2 DEF Entry
  <2>5. InitInv'
    <3>1. init'.idx <= Len(Table)
      BY ONLY <2>1, <2>2, <1>0
    <3>2. init'.state = "DELAY" => init'.delay < Entry.delay
      BY ONLY <2>2
    <3>3. init'.state = "WRITE" => Entry.delay = 0
      BY ONLY <1>0, <2>1, <2>2
    <3> QED  BY ONLY <2>2, <2>4, <3>1, <3>2, <3>3 DEF InitInv
  <2> QED  BY <2>3, <2>5
<1>4. CASE init.state \in {"WRITE", "WAIT_WR"}
  <2>1. /\ init'.idx = init.idx /\ init'.delay = init.delay /\ init'.done = FALSE
        /\ init'.state \in {"WAIT_WR", "NEXT"} /\ init'.start \in BOOLEAN
        /\ init'.start => init'.state = "WAIT_WR"
    BY <1>4, <1>a, InitSteps DEF GoesTo
  <2>2. init'.error \in BOOLEAN
    BY <1>4, <1>a, InitSteps
  <2>3. InitTypes'
    BY <1>0, <2>1, <2>2, InitTyped
  <2>4. Entry' = Entry /\ init.idx <= Len(Table) /\ Entry.delay = 0
    BY <1>4, <2>1 DEF Entry, InitInv
  <2>5. InitInv'
    BY ONLY <2>1, <2>4 DEF InitInv
  <2> QED  BY <2>3, <2>5
<1>5. CASE init.state = "DELAY"
  <2>1. init.idx \in 1..Len(Table) /\ Entry.delay \in 0..LongestDelay /\ init.delay < Entry.delay
    BY <1>0, <1>5, EntryTypes DEF Entry, InitInv
  <2>2. /\ init'.idx = init.idx /\ init'.start = FALSE /\ init'.done = FALSE
           /\ init'.error = init.error
        /\ \/ init'.state = "NEXT" /\ init'.delay = init.delay
           \/ init'.state = "DELAY" /\ ~(init.delay >= Entry.delay - 1)
              /\ init'.delay = init.delay + 1
    BY <1>5, InitSteps DEF GoesTo, Delayed
  <2>3. init'.delay \in 0..LongestDelay /\ (init'.state = "DELAY" => init'.delay < Entry.delay)
    BY ONLY <1>0, <2>1, <2>2
  <2>4. InitTypes'
    BY <1>0, <1>a, <2>2, <2>3, InitTyped
  <2>5. Entry' = Entry /\ init'.idx <= Len(Table)
    BY <1>0, <2>1, <2>2 DEF Entry
  <2>6. InitInv'
    BY ONLY <2>2, <2>3, <2>5 DEF InitInv
  <2> QED  BY <2>4, <2>6
<1>6. CASE init.state = "NEXT"
  <2>1. /\ init'.state = "LOAD" /\ init'.idx = init.idx + 1 /\ init'.start = FALSE
        /\ init'.delay = init.delay /\ init'.done = FALSE /\ init'.error = init.error
    BY <1>6, InitSteps DEF GoesTo
  <2>2. init'.idx \in 1..(Len(Table) + 1)
    BY <1>0, <1>6, <2>1 DEF InitInv
  <2>3. InitTypes'
    BY <1>0, <1>a, <2>1, <2>2, InitTyped
  <2>4. InitInv'
    BY ONLY <2>1 DEF InitInv
  <2> QED  BY <2>3, <2>4
<1>7. CASE init.state = "DONE"
  <2>1. /\ init'.state = "IDLE" /\ init'.idx = init.idx /\ init'.start = FALSE
        /\ init'.delay = init.delay /\ init'.done = TRUE /\ init'.error = init.error
    BY <1>7, InitSteps DEF GoesTo
  <2>2. InitTypes'
    BY <1>0, <1>a, <2>1, InitTyped
  <2>3. InitInv'
    BY ONLY <2>1 DEF InitInv
  <2> QED  BY <2>2, <2>3
<1> QED  BY <1>1, <1>2, <1>3, <1>4, <1>5, <1>6, <1>7 DEF InitTypes

\* The three bytes of the entry being written.
LEMMA Selected ==
    ASSUME InitTypes, InitInv, init.state = "WAIT_WR"
    PROVE  /\ init.idx \in 1..Len(Table) /\ Entry.delay = 0
           /\ Entry.reg \in Bytes /\ Entry.data \in Bytes
           /\ SelectByte(0) = Device /\ SelectByte(1) = Entry.reg /\ SelectByte(2) = Entry.data
<1>1. init.idx \in 1..Len(Table) /\ Entry.delay = 0
  BY TableAssumption DEF InitTypes, InitInv
<1>2. Entry.reg \in Bytes /\ Entry.data \in Bytes
  BY <1>1, EntryTypes DEF Entry
<1> QED  BY <1>1, <1>2 DEF SelectByte

\* The master keeps its types.
LEMMA WrTyped ==
    ASSUME WrTypes, wr' = WrNext,
           wr'.state \in {"IDLE", "START", "SEND", "ACK", "STOP", "DONE"}, wr'.phase \in 0..3,
           wr'.byte \in 0..2, wr'.bit \in 0..(Width - 1), wr'.cur \in Bytes,
           wr'.pending \in BOOLEAN,
           wr'.done \in BOOLEAN, wr'.ackError \in BOOLEAN, wr'.scl \in BOOLEAN,
           wr'.sda \in BOOLEAN
    PROVE  WrTypes'
<1>1. CASE ~div.tick
  BY <1>1 DEF WrTypes, WrNext
<1>2. CASE div.tick /\ wr.state = "IDLE"
  BY <1>2 DEF WrTypes, WrNext, Idle
<1>3. CASE div.tick /\ wr.state = "START"
  <2>0. CASE wr.phase = 0
    BY <1>3, <2>0 DEF WrTypes, WrNext, Start, Quarter
  <2>1. CASE wr.phase = 1
    BY <1>3, <2>1 DEF WrTypes, WrNext, Start, Quarter
  <2>2. CASE wr.phase = 2
    BY <1>3, <2>2 DEF WrTypes, WrNext, Start, Quarter
  <2>3. CASE wr.phase = 3
    BY <1>3, <2>3 DEF WrTypes, WrNext, Start, Quarter
  <2> QED  BY <2>0, <2>1, <2>2, <2>3 DEF WrTypes
<1>4. CASE div.tick /\ wr.state = "SEND"
  <2>0. CASE wr.phase = 0
    BY <1>4, <2>0 DEF WrTypes, WrNext, Send, Quarter
  <2>1. CASE wr.phase = 1
    BY <1>4, <2>1 DEF WrTypes, WrNext, Send, Quarter
  <2>2. CASE wr.phase = 2
    BY <1>4, <2>2 DEF WrTypes, WrNext, Send, Quarter
  <2>3. CASE wr.phase = 3
    BY <1>4, <2>3 DEF WrTypes, WrNext, Send, Quarter
  <2> QED  BY <2>0, <2>1, <2>2, <2>3 DEF WrTypes
<1>5. CASE div.tick /\ wr.state = "ACK"
  <2>0. CASE wr.phase = 0
    BY <1>5, <2>0 DEF WrTypes, WrNext, Ack, Quarter
  <2>1. CASE wr.phase = 1
    BY <1>5, <2>1 DEF WrTypes, WrNext, Ack, Quarter
  <2>2. CASE wr.phase = 2
    BY <1>5, <2>2 DEF WrTypes, WrNext, Ack, Quarter
  <2>3. CASE wr.phase = 3
    BY <1>5, <2>3 DEF WrTypes, WrNext, Ack, Quarter
  <2> QED  BY <2>0, <2>1, <2>2, <2>3 DEF WrTypes
<1>6. CASE div.tick /\ wr.state = "STOP"
  <2>0. CASE wr.phase = 0
    BY <1>6, <2>0 DEF WrTypes, WrNext, Stop, Quarter
  <2>1. CASE wr.phase = 1
    BY <1>6, <2>1 DEF WrTypes, WrNext, Stop, Quarter
  <2>2. CASE wr.phase = 2
    BY <1>6, <2>2 DEF WrTypes, WrNext, Stop, Quarter
  <2>3. CASE wr.phase = 3
    BY <1>6, <2>3 DEF WrTypes, WrNext, Stop, Quarter
  <2> QED  BY <2>0, <2>1, <2>2, <2>3 DEF WrTypes
<1>7. CASE div.tick /\ wr.state = "DONE"
  BY <1>7 DEF WrTypes, WrNext, Done
<1> QED  BY <1>1, <1>2, <1>3, <1>4, <1>5, <1>6, <1>7 DEF WrTypes

\* What the step of the master leaves between its pulls.
LEMMA WrStep ==
    ASSUME InitTypes, InitInv, HandInv, WrTypes, SlaveTypes, wr' = WrNext
    PROVE  WrTypes'
<1>0. /\ wr.phase \in 0..3 /\ wr.byte \in 0..2 /\ wr.bit \in 0..(Width - 1) /\ wr.cur \in Bytes
      /\ wr.scl \in BOOLEAN /\ wr.sda \in BOOLEAN /\ wr.ackError \in BOOLEAN
         /\ wr.done \in BOOLEAN
      /\ Pending \in BOOLEAN /\ (wr.ackError \/ ~(wr.sda \/ slave.sda)) \in BOOLEAN
      /\ wr.state \in {"IDLE", "START", "SEND", "ACK", "STOP", "DONE"}
      /\ Width \in Nat \ {0} /\ Device \in Bytes /\ TRUE \in BOOLEAN /\ FALSE \in BOOLEAN
      /\ (~BitOf(wr.cur, wr.bit)) \in BOOLEAN
  BY SccbAssumption DEF WrTypes, InitTypes, Pending
<1>p. wr.phase = 0 \/ wr.phase = 1 \/ wr.phase = 2 \/ wr.phase = 3
  BY <1>0
<1>f. (wr'.phase = 0 \/ wr'.phase = 1 \/ wr'.phase = 2 \/ wr'.phase = 3) => wr'.phase \in 0..3
  OBVIOUS
<1>1. CASE ~div.tick
  BY <1>0, <1>1, WrWaits, WrTyped DEF GoesAt, SamePlace, Pulls
<1>2. CASE div.tick /\ wr.state = "IDLE"
  <2>1. Width - 1 \in 0..(Width - 1) /\ 0 \in 0..2 /\ 0 \in 0..3
    BY <1>0
  <2> QED  BY <1>0, <1>2, <2>1, IdleTick, WrTyped DEF GoesAt, SamePlace, Pulls
<1>3. CASE div.tick /\ wr.state = "START"
  <2>1. SamePlace /\ wr'.ackError = wr.ackError /\ wr'.pending = Pending /\ wr'.done = FALSE
    BY <1>3, StartTick
  <2>2. \/ GoesAt("START", 1) /\ Pulls(FALSE, FALSE)
        \/ GoesAt("START", 2) /\ Pulls(FALSE, TRUE)
        \/ GoesAt("START", 3) /\ Pulls(TRUE, TRUE)
        \/ GoesAt("SEND", 0) /\ Pulls(wr.scl, wr.sda)
    BY <1>p, <1>3, StartTick
  <2>a. wr'.state \in {"START", "SEND"}
    BY ONLY <2>2 DEF GoesAt
  <2>b. wr'.phase = 0 \/ wr'.phase = 1 \/ wr'.phase = 2 \/ wr'.phase = 3
    BY ONLY <2>2 DEF GoesAt
  <2>c. wr'.scl \in BOOLEAN /\ wr'.sda \in BOOLEAN
    BY ONLY <1>0, <2>2 DEF Pulls
  <2> QED  BY <1>0, <1>f, <2>1, <2>a, <2>b, <2>c, WrTyped DEF SamePlace
<1>4. CASE div.tick /\ wr.state = "SEND"
  <2>1. /\ wr'.byte = wr.byte /\ wr'.cur = wr.cur
        /\ wr'.ackError = wr.ackError /\ wr'.pending = Pending /\ wr'.done = FALSE
    BY <1>4, SendTick
  <2>2. wr.bit = 0 \/ wr.bit > 0
    BY <1>0
  <2>3. \/ GoesAt("SEND", 1) /\ wr'.bit = wr.bit /\ Pulls(TRUE, ~BitOf(wr.cur, wr.bit))
        \/ GoesAt("SEND", 2) /\ wr'.bit = wr.bit /\ Pulls(FALSE, wr.sda)
        \/ GoesAt("SEND", 3) /\ wr'.bit = wr.bit /\ Pulls(FALSE, wr.sda)
        \/ GoesAt("ACK", 0) /\ wr'.bit = 0 /\ Pulls(TRUE, wr.sda)
        \/ wr.bit > 0 /\ GoesAt("SEND", 0) /\ wr'.bit = wr.bit - 1 /\ Pulls(TRUE, wr.sda)
    BY <1>p, <1>4, <2>2, SendTick
  <2>4. wr'.state \in {"SEND", "ACK"}
    BY ONLY <2>3 DEF GoesAt
  <2>6. wr'.bit \in 0..(Width - 1)
    <3>1. wr'.bit = wr.bit \/ wr'.bit = 0 \/ (wr.bit > 0 /\ wr'.bit = wr.bit - 1)
      BY ONLY <2>3
    <3> QED  BY ONLY <1>0, <3>1
  <2>7. wr'.phase = 0 \/ wr'.phase = 1 \/ wr'.phase = 2 \/ wr'.phase = 3
    BY ONLY <2>3 DEF GoesAt
  <2>5. wr'.scl \in BOOLEAN /\ wr'.sda \in BOOLEAN
    BY ONLY <1>0, <2>3 DEF Pulls
  <2> QED  BY <1>0, <1>f, <2>1, <2>4, <2>5, <2>6, <2>7, WrTyped
<1>5. CASE div.tick /\ wr.state = "ACK"
  <2>0. init.state = "WAIT_WR"
    BY <1>5 DEF HandInv, AtRest
  <2>a. wr'.pending = Pending /\ wr'.done = FALSE
    BY <1>5, AckTick
  <2>b. \/ GoesAt("ACK", 1) /\ SamePlace /\ wr'.ackError = wr.ackError /\ Pulls(TRUE, FALSE)
        \/ GoesAt("ACK", 2) /\ SamePlace /\ wr'.ackError = wr.ackError /\ Pulls(FALSE, wr.sda)
        \/ /\ GoesAt("ACK", 3) /\ SamePlace /\ Pulls(wr.scl, wr.sda)
           /\ wr'.ackError = (wr.ackError \/ ~(wr.sda \/ slave.sda))
        \/ /\ Pulls(TRUE, FALSE) /\ wr'.ackError = wr.ackError
           /\ \/ GoesAt("STOP", 0) /\ SamePlace
              \/ /\ GoesAt("SEND", 0) /\ wr.byte # 2 /\ wr'.byte = wr.byte + 1
                 /\ wr'.bit = Width - 1 /\ wr'.cur = SelectByte(wr.byte + 1)
    BY <1>p, <1>5, AckTick
  <2>c. wr'.state \in {"SEND", "ACK", "STOP"}
    BY ONLY <2>b DEF GoesAt
  <2>d. wr'.phase = 0 \/ wr'.phase = 1 \/ wr'.phase = 2 \/ wr'.phase = 3
    BY ONLY <2>b DEF GoesAt
  <2>1. /\ SamePlace \/ (wr.byte # 2 /\ wr'.byte = wr.byte + 1 /\ wr'.bit = Width - 1
                          /\ wr'.cur = SelectByte(wr.byte + 1))
    BY ONLY <2>b DEF GoesAt
  <2>2. wr'.scl \in BOOLEAN /\ wr'.sda \in BOOLEAN /\ wr'.ackError \in BOOLEAN
    BY ONLY <1>0, <2>b DEF Pulls
  <2>3. wr'.byte \in 0..2 /\ wr'.bit \in 0..(Width - 1)
    BY <1>0, <2>1 DEF SamePlace
  <2>4. wr'.cur \in Bytes
    <3>1. CASE SamePlace
      BY <1>0, <3>1 DEF SamePlace
    <3>2. CASE wr.byte # 2 /\ wr'.cur = SelectByte(wr.byte + 1)
      <4>1. wr.byte + 1 = 1 \/ wr.byte + 1 = 2
        BY <1>0, <3>2
      <4> QED  BY <2>0, <3>2, <4>1, Selected
    <3> QED  BY <2>1, <3>1, <3>2
  <2> QED  BY <1>0, <1>f, <2>a, <2>c, <2>d, <2>2, <2>3, <2>4, WrTyped
<1>6. CASE div.tick /\ wr.state = "STOP"
  <2>1. SamePlace /\ wr'.ackError = wr.ackError /\ wr'.pending = Pending /\ wr'.done = FALSE
    BY <1>6, StopTick
  <2>2. \/ GoesAt("STOP", 1) /\ Pulls(TRUE, TRUE)
        \/ GoesAt("STOP", 2) /\ Pulls(FALSE, TRUE)
        \/ GoesAt("STOP", 3) /\ Pulls(FALSE, FALSE)
        \/ GoesAt("DONE", 0) /\ Pulls(wr.scl, wr.sda)
    BY <1>p, <1>6, StopTick
  <2>a. wr'.state \in {"STOP", "DONE"}
    BY ONLY <2>2 DEF GoesAt
  <2>b. wr'.phase = 0 \/ wr'.phase = 1 \/ wr'.phase = 2 \/ wr'.phase = 3
    BY ONLY <2>2 DEF GoesAt
  <2>c. wr'.scl \in BOOLEAN /\ wr'.sda \in BOOLEAN
    BY ONLY <1>0, <2>2 DEF Pulls
  <2> QED  BY <1>0, <1>f, <2>1, <2>a, <2>b, <2>c, WrTyped DEF SamePlace
<1>7. CASE div.tick /\ wr.state = "DONE"
  BY <1>0, <1>7, DoneTick, WrTyped DEF GoesAt, SamePlace, Pulls
<1> QED  BY <1>0, <1>1, <1>2, <1>3, <1>4, <1>5, <1>6, <1>7

\* A whole byte that was received is a byte.
LEMMA WholeByte ==
    ASSUME NEW v \in Seq(BOOLEAN), Len(v) = Width
    PROVE  v \in Bytes
BY SccbAssumption DEF Bytes

\* The camera pulls SDA low to answer, and never otherwise.
SlaveInv == slave.sda <=> slave.doing = "answer"

\* Types of a state s of the camera, with SlaveInv.
Fits(s) ==
    /\ s \in [doing : {"idle", "receive", "answer"}, value : Seq(BOOLEAN), place : 0..3,
              reg : Bytes, sda : BOOLEAN]
    /\ Len(s.value) <= Width
    /\ s.sda <=> s.doing = "answer"

\* Whatever the camera does of its list, it keeps its types.
LEMMA SlaveTyped ==
    ASSUME NEW s, NEW t, Fits(s), NEW bit \in BOOLEAN, NEW byte \in Bytes,
           \/ t = s \/ t = [IdleSlave EXCEPT !.doing = "receive"] \/ t = IdleSlave
           \/ t = [s EXCEPT !.value = Append(s.value, bit)] /\ Len(s.value) < Width
           \/ t = [s EXCEPT !.doing = "answer", !.sda = TRUE, !.reg = byte]
           \/ t = [s EXCEPT !.doing = "receive", !.sda = FALSE, !.value = <<>>,
                            !.place = IF s.place < 3 THEN s.place + 1 ELSE s.place]
    PROVE  Fits(t)
<1>0. /\ IdleSlave.value = <<>> /\ Len(<<>>) = 0 /\ Width \in Nat \ {0} /\ <<>> \in Seq(BOOLEAN)
      /\ ZeroByte \in Bytes
  BY SccbAssumption DEF IdleSlave, ZeroByte, Bytes
<1>1. CASE t = s
  BY <1>1 DEF Fits
<1>2. CASE t = [IdleSlave EXCEPT !.doing = "receive"] \/ t = IdleSlave
  <2>1. PICK doing \in {"idle", "receive"} :
            t = [doing |-> doing, value |-> <<>>, place |-> 0, reg |-> ZeroByte, sda |-> FALSE]
    BY <1>2 DEF IdleSlave
  <2>2. t.value = <<>> /\ t.sda = FALSE /\ t.doing # "answer" /\ Len(t.value) <= Width
    BY <1>0, <2>1
  <2>3. t \in [doing : {"idle", "receive", "answer"}, value : Seq(BOOLEAN), place : 0..3,
              reg : Bytes, sda : BOOLEAN]
    BY <1>0, <2>1
  <2> QED  BY <2>2, <2>3 DEF Fits
<1>3. CASE t = [s EXCEPT !.value = Append(s.value, bit)] /\ Len(s.value) < Width
  <2>1. Append(s.value, bit) \in Seq(BOOLEAN) /\ Len(Append(s.value, bit)) = Len(s.value) + 1
    BY DEF Fits
  <2>2. Len(s.value) \in Nat
    BY DEF Fits
  <2>3. Len(s.value) + 1 <= Width
    BY <1>0, <1>3, <2>2
  <2>4. t.value = Append(s.value, bit)
    BY <1>3 DEF Fits
  <2> QED  BY <1>3, <2>1, <2>3, <2>4 DEF Fits
<1>4. CASE t = [s EXCEPT !.doing = "answer", !.sda = TRUE, !.reg = byte]
  BY <1>4 DEF Fits
<1>5. CASE t = [s EXCEPT !.doing = "receive", !.sda = FALSE, !.value = <<>>,
                         !.place = IF s.place < 3 THEN s.place + 1 ELSE s.place]
  <2>1. PICK place \in 0..3 : place = IF s.place < 3 THEN s.place + 1 ELSE s.place
    BY DEF Fits
  <2>2. t = [s EXCEPT !.doing = "receive", !.sda = FALSE, !.value = <<>>, !.place = place]
    BY <1>5, <2>1
  <2>3. t \in [doing : {"idle", "receive", "answer"}, value : Seq(BOOLEAN), place : 0..3,
              reg : Bytes, sda : BOOLEAN]
    BY <1>0, <2>2 DEF Fits
  <2>4. t.value = <<>> /\ t.sda = FALSE /\ t.doing = "receive" /\ Len(t.value) <= Width
    BY <1>0, <2>2 DEF Fits
  <2> QED  BY <2>3, <2>4 DEF Fits
<1> QED  BY <1>1, <1>2, <1>3, <1>4, <1>5

LEMMA SlaveStep ==
    ASSUME WrTypes, WrTypes', SlaveTypes, SlaveInv, NEW answers \in BOOLEAN,
           slave' = SlaveAfter(slave, Wires(wr, slave), Wires(wr', slave), answers)
    PROVE  SlaveTypes' /\ SlaveInv'
<1>f. Fits(slave) /\ (Fits(slave') => SlaveTypes' /\ SlaveInv')
  BY DEF Fits, SlaveTypes, SlaveInv
<1>b. FALSE \in BOOLEAN /\ Device \in Bytes
  BY SccbAssumption
<1>0. /\ wr.scl \in BOOLEAN /\ wr'.scl \in BOOLEAN /\ wr.sda \in BOOLEAN /\ wr'.sda \in BOOLEAN
      /\ slave.sda \in BOOLEAN /\ (~(wr'.sda \/ slave.sda)) \in BOOLEAN
  BY DEF WrTypes, SlaveTypes
<1>1. CASE wr.scl /\ wr'.scl
  BY <1>1, SlaveSteps, <1>f, <1>b, SlaveTyped
<1>2. CASE ~wr.scl /\ ~wr'.scl
  <2>1. \/ slave' = slave \/ slave' = [IdleSlave EXCEPT !.doing = "receive"] \/ slave' = IdleSlave
    BY <1>0, <1>2, SlaveSteps
  <2> QED  BY <2>1, <1>f, <1>b, SlaveTyped
<1>3. CASE wr.scl /\ ~wr'.scl
  <2>1. PICK bit \in BOOLEAN : bit = ~(wr'.sda \/ slave.sda)
    BY <1>0
  <2>2. \/ slave' = slave
        \/ slave' = [slave EXCEPT !.value = Append(slave.value, bit)] /\ Len(slave.value) < Width
    BY <1>3, <2>1, SlaveSteps
  <2> QED  BY <2>2, <1>f, <1>b, SlaveTyped
<1>4. CASE ~wr.scl /\ wr'.scl
  <2>1. CASE ByteFull /\ answers /\ Known(slave)
    <3>1. PICK byte \in Bytes : byte = IF slave.place = 1 THEN slave.value ELSE slave.reg
      BY <2>1, WholeByte DEF ByteFull, SlaveTypes
    <3>2. slave' = [slave EXCEPT !.doing = "answer", !.sda = TRUE, !.reg = byte]
      BY <1>4, <2>1, <3>1, SlaveSteps
    <3> QED  BY <3>2, <1>f, <1>b, SlaveTyped
  <2>2. CASE ByteFull /\ ~(answers /\ Known(slave))
    BY <1>4, <2>2, SlaveSteps, <1>f, <1>b, SlaveTyped
  <2>3. CASE slave.doing = "answer"
    <3>1. slave' =
                             [slave EXCEPT !.doing = "receive", !.sda = FALSE, !.value = <<>>,
                                  !.place = IF slave.place < 3 THEN slave.place + 1 ELSE slave.place]
      BY <1>4, <2>3, SlaveSteps
    <3> QED  BY <3>1, <1>f, <1>b, SlaveTyped
  <2>4. CASE ~(ByteFull \/ slave.doing = "answer")
    BY <1>4, <2>4, SlaveSteps, <1>f, <1>b, SlaveTyped
  <2> QED  BY <2>1, <2>2, <2>3, <2>4
<1> QED  BY <1>0, <1>1, <1>2, <1>3, <1>4

\* When the camera writes a register, and when it sees a STOP.
LEMMA WritesWhen ==
    ASSUME WrTypes, WrTypes', SlaveTypes, NEW answers \in BOOLEAN
    PROVE  Writes(slave, Wires(wr, slave), Wires(wr', slave), answers)
             <=> ~wr.scl /\ wr'.scl /\ ByteFull /\ answers /\ slave.place = 2
BY DEF WrTypes, SlaveTypes, Wires, Falls, ByteEnds, ByteFull, Writes

LEMMA StopWhen ==
    ASSUME WrTypes, WrTypes', SlaveTypes
    PROVE  StopSeen(Wires(wr, slave), Wires(wr', slave))
             <=> ~wr.scl /\ ~wr'.scl /\ ~slave.sda /\ wr.sda /\ ~wr'.sda
BY DEF WrTypes, SlaveTypes, Wires, StopSeen

\* Without a START and without SCL falling the camera goes on pulling what it pulled.
LEMMA NoFall ==
    \A s, from, to :
        /\ Fits(s) /\ to.sda \in BOOLEAN /\ ~StartSeen(from, to) /\ ~Falls(from, to)
        /\ StopSeen(from, to) => ~s.sda
        => /\ Fits(SlaveAfter(s, from, to, TRUE))
           /\ SlaveAfter(s, from, to, TRUE).sda <=> s.sda
<1> SUFFICES ASSUME NEW s, NEW from, NEW to,
                    Fits(s), to.sda \in BOOLEAN, ~StartSeen(from, to), ~Falls(from, to),
                    StopSeen(from, to) => ~s.sda
             PROVE  /\ Fits(SlaveAfter(s, from, to, TRUE))
                    /\ SlaveAfter(s, from, to, TRUE).sda <=> s.sda
  OBVIOUS
<1>1. PICK t : t = SlaveAfter(s, from, to, TRUE)
  OBVIOUS
<1>2. FALSE \in BOOLEAN /\ Device \in Bytes
  BY SccbAssumption
<1>3. CASE StopSeen(from, to)
  <2>1. t = IdleSlave
    BY <1>1, <1>3 DEF SlaveAfter
  <2>2. t.sda = FALSE
    BY <2>1 DEF IdleSlave
  <2> QED  BY <1>1, <1>2, <1>3, <2>1, <2>2, SlaveTyped
<1>4. CASE ~StopSeen(from, to)
  <2>1. t = s \/ (t = [s EXCEPT !.value = Append(s.value, to.sda)] /\ Len(s.value) < Width)
    BY <1>1, <1>4 DEF SlaveAfter, ByteEnds
  <2>2. t.sda = s.sda
    BY <2>1 DEF Fits
  <2> QED  BY <1>1, <1>2, <2>1, <2>2, SlaveTyped
<1> QED  BY <1>3, <1>4

\* The step of the camera when the reset lets go of the wires.
LEMMA SlaveReset ==
    ASSUME WrTypes, SlaveTypes, SlaveInv, NEW sclFirst \in BOOLEAN,
           slave' = LET from == Wires(wr, slave)
                        to == Wires(ResetWr, slave)
                        mid == IF sclFirst THEN [from EXCEPT !.scl = to.scl]
                               ELSE [from EXCEPT !.sda = to.sda]
                    IN SlaveAfter(SlaveAfter(slave, from, mid, TRUE), mid, to, TRUE)
    PROVE  SlaveTypes' /\ SlaveInv' /\ (slave'.sda <=> slave.sda)
<1> DEFINE from == Wires(wr, slave)  to == Wires(ResetWr, slave)
           mid == IF sclFirst THEN [from EXCEPT !.scl = to.scl] ELSE [from EXCEPT !.sda = to.sda]
           half == SlaveAfter(slave, from, mid, TRUE)
<1>0. /\ wr.scl \in BOOLEAN /\ wr.sda \in BOOLEAN /\ slave.sda \in BOOLEAN /\ Fits(slave)
      /\ Fits(slave') => SlaveTypes' /\ SlaveInv'
  BY DEF WrTypes, SlaveTypes, SlaveInv, Fits
<1>1. /\ to.scl = TRUE /\ to.sda = ~slave.sda
      /\ from.scl = ~wr.scl /\ from.sda = ~(wr.sda \/ slave.sda)
      /\ mid.scl = (IF sclFirst THEN TRUE ELSE ~wr.scl)
      /\ mid.sda = (IF sclFirst THEN ~(wr.sda \/ slave.sda) ELSE ~slave.sda)
  BY DEF Wires, ResetWr
<1> HIDE DEF from, to, mid, half
<1>2. /\ ~Falls(from, mid) /\ ~Falls(mid, to) /\ ~StartSeen(from, mid) /\ ~StartSeen(mid, to)
      /\ StopSeen(from, mid) => ~slave.sda
      /\ StopSeen(mid, to) => ~slave.sda
      /\ mid.sda \in BOOLEAN /\ to.sda \in BOOLEAN
  BY ONLY <1>0, <1>1 DEF Falls, StartSeen, StopSeen
<1>3. Fits(half) /\ (half.sda <=> slave.sda)
  BY ONLY <1>0, <1>2, NoFall DEF half
<1>4. slave' = SlaveAfter(half, mid, to, TRUE)
  BY DEF half, from, to, mid
<1>5. Fits(slave') /\ (slave'.sda <=> half.sda)
  BY ONLY <1>0, <1>2, <1>3, <1>4, NoFall
<1> QED  BY <1>0, <1>3, <1>5

\* The part of the invariant that holds whatever the camera was doing at the reset.
SccbCoreInv == SccbTypeOK /\ TickInv /\ InitInv /\ HandInv /\ SlaveInv

LEMMA SccbCoreStart == SccbBegin => SccbCoreInv
<1> SUFFICES ASSUME SccbBegin PROVE SccbCoreInv
  OBVIOUS
<1>0. /\ Width \in Nat \ {0} /\ ZeroByte \in Bytes /\ Len(<<>>) = 0 /\ <<>> \in Seq(BOOLEAN)
      /\ Divider \in Nat \ {0, 1} /\ WaitCycles \in Nat \ {0} /\ LongestDelay \in Nat \ {0}
      /\ MaxResets \in Nat /\ Len(Table) \in Nat /\ LongestDelay \in 0..LongestDelay
         /\ 0 \in 0..MaxResets
  BY SccbAssumption, TableAssumption DEF ZeroByte, Bytes
<1>1. TopTypes
  BY <1>0 DEF SccbBegin, TopTypes, ResetTop
<1>2. InitTypes
  BY <1>0 DEF SccbBegin, InitTypes, ResetInit
<1>3. DivTypes /\ TickInv
  BY <1>0 DEF SccbBegin, DivTypes, ResetDiv, TickInv
<1>4. WrTypes
  BY <1>0 DEF SccbBegin, WrTypes, ResetWr
<1>5. SlaveTypes /\ SlaveInv
  <2>1. slave = [doing |-> "idle", value |-> <<>>, place |-> 0, reg |-> ZeroByte, sda |-> FALSE]
    BY DEF SccbBegin, IdleSlave
  <2>2. Len(slave.value) <= Width
    BY <1>0, <2>1
  <2> QED  BY <1>0, <2>1, <2>2 DEF SlaveTypes, SlaveInv
<1>6. InitInv /\ HandInv
  BY DEF SccbBegin, ResetInit, ResetWr, ResetDiv, InitInv, HandInv, AtRest
<1>7. written \in Seq(Bytes \X Bytes) /\ held \in BOOLEAN /\ quiet \in 0..LongestDelay
      /\ resets \in 0..MaxResets
  <2>1. written = <<>> /\ held = FALSE /\ quiet = LongestDelay /\ resets = 0
    BY DEF SccbBegin
  <2>2. written \in Seq(Bytes \X Bytes)
    BY <2>1
  <2>3. held \in BOOLEAN /\ quiet \in 0..LongestDelay
    BY ONLY <1>0, <2>1
  <2>4. resets \in 0..MaxResets
    BY ONLY <1>0, <2>1
  <2> QED  BY <2>2, <2>3, <2>4
<1> QED  BY <1>1, <1>2, <1>3, <1>4, <1>5, <1>6, <1>7, SccbTypeParts DEF SccbCoreInv

LEMMA CoreClk ==
    ASSUME SccbCoreInv, Clk
    PROVE  SccbCoreInv' /\ held' = held
<1>1. /\ TopTypes /\ InitTypes /\ DivTypes /\ WrTypes /\ SlaveTypes
      /\ written \in Seq(Bytes \X Bytes) /\ held \in BOOLEAN
      /\ quiet \in 0..LongestDelay /\ resets \in 0..MaxResets
      /\ TickInv /\ InitInv /\ HandInv /\ SlaveInv
  BY SccbTypeParts DEF SccbCoreInv
<1>2. /\ top' = TopNext /\ init' = InitNext /\ div' = DivNext /\ wr' = WrNext
      /\ held' = held /\ resets' = resets
  BY DEF Clk
<1>3. PICK answers \in BOOLEAN :
          /\ slave' = SlaveAfter(slave, Wires(wr, slave), Wires(wr', slave), answers)
          /\ written' = IF Writes(slave, Wires(wr, slave), Wires(wr', slave), answers)
                        THEN Append(written, <<slave.reg, slave.value>>) ELSE written
          /\ quiet' = IF StopSeen(Wires(wr, slave), Wires(wr', slave)) THEN 0
                      ELSE IF quiet < LongestDelay THEN quiet + 1 ELSE quiet
  BY DEF Clk
<1>4. TopTypes'
  BY <1>1, <1>2, TopStep
<1>5. InitTypes' /\ InitInv'
  BY <1>1, <1>2, InitStep
<1>6. DivTypes' /\ TickInv'
  BY <1>1, <1>2, DivStep
<1>7. WrTypes'
  BY <1>1, <1>2, WrStep
<1>8. SlaveTypes' /\ SlaveInv'
  BY <1>1, <1>3, <1>7, SlaveStep
<1>9. HandInv'
  BY <1>1, <1>2, HandStep
<1>10. written' \in Seq(Bytes \X Bytes)
  <2>1. CASE ByteFull
    <3>1. <<slave.reg, slave.value>> \in Bytes \X Bytes
      BY <1>1, <2>1, WholeByte DEF SlaveTypes, ByteFull
    <3> QED  BY <1>1, <1>3, <3>1
  <2>2. CASE ~ByteFull
    BY <1>1, <1>3, <1>7, <2>2, WritesWhen
  <2> QED  BY <2>1, <2>2
<1>11. quiet' \in 0..LongestDelay
  BY <1>1, <1>3, SccbAssumption
<1> QED
  <2>1. resets' \in 0..MaxResets /\ held' \in BOOLEAN
    BY <1>1, <1>2
  <2>2. (/\ TopTypes /\ InitTypes /\ DivTypes /\ WrTypes /\ SlaveTypes
         /\ written \in Seq(Bytes \X Bytes) /\ held \in BOOLEAN
         /\ quiet \in 0..LongestDelay /\ resets \in 0..MaxResets)' => SccbTypeOK'
    BY DEF SccbTypeOK, TopTypes, InitTypes, DivTypes, WrTypes, SlaveTypes
  <2> QED  BY <1>2, <1>4, <1>5, <1>6, <1>7, <1>8, <1>9, <1>10, <1>11, <2>1, <2>2 DEF SccbCoreInv

LEMMA CoreReset ==
    ASSUME SccbCoreInv, Reset
    PROVE  SccbCoreInv' /\ (slave'.sda <=> slave.sda)
<1>0. /\ Width \in Nat \ {0} /\ ZeroByte \in Bytes
      /\ Divider \in Nat \ {0, 1} /\ WaitCycles \in Nat \ {0} /\ LongestDelay \in Nat \ {0}
      /\ MaxResets \in Nat /\ Len(Table) \in Nat
  BY SccbAssumption, TableAssumption DEF ZeroByte, Bytes
<1>1. WrTypes /\ SlaveTypes /\ SlaveInv /\ resets \in 0..MaxResets
  BY SccbTypeParts DEF SccbCoreInv
<1>2. PICK sclFirst \in BOOLEAN :
          slave' = LET from == Wires(wr, slave)
                       to == Wires(ResetWr, slave)
                       mid == IF sclFirst THEN [from EXCEPT !.scl = to.scl]
                              ELSE [from EXCEPT !.sda = to.sda]
                   IN SlaveAfter(SlaveAfter(slave, from, mid, TRUE), mid, to, TRUE)
  BY DEF Reset
<1>3. SlaveTypes' /\ SlaveInv' /\ (slave'.sda <=> slave.sda)
  BY <1>1, <1>2, SlaveReset
<1>4. TopTypes'
  BY <1>0 DEF Reset, TopTypes, ResetTop
<1>5. InitTypes'
  BY <1>0 DEF Reset, InitTypes, ResetInit
<1>6. DivTypes' /\ TickInv'
  BY <1>0 DEF Reset, DivTypes, ResetDiv, TickInv
<1>7. WrTypes'
  BY <1>0 DEF Reset, WrTypes, ResetWr
<1>8. InitInv' /\ HandInv'
  BY DEF Reset, ResetInit, ResetWr, ResetDiv, InitInv, HandInv, AtRest
<1>9. /\ written' \in Seq(Bytes \X Bytes) /\ held' \in BOOLEAN /\ quiet' \in 0..LongestDelay
      /\ resets' \in 0..MaxResets
  BY <1>0, <1>1 DEF Reset, SlaveTypes
<1>10. (/\ TopTypes /\ InitTypes /\ DivTypes /\ WrTypes /\ SlaveTypes
        /\ written \in Seq(Bytes \X Bytes) /\ held \in BOOLEAN
        /\ quiet \in 0..LongestDelay /\ resets \in 0..MaxResets)' => SccbTypeOK'
  BY DEF SccbTypeOK, TopTypes, InitTypes, DivTypes, WrTypes, SlaveTypes
<1> QED  BY <1>3, <1>4, <1>5, <1>6, <1>7, <1>8, <1>9, <1>10 DEF SccbCoreInv

LEMMA SccbCoreStep == SccbCoreInv /\ [SccbNext]_sccbVars => SccbCoreInv'
<1> SUFFICES ASSUME SccbCoreInv, [SccbNext]_sccbVars PROVE SccbCoreInv'
  OBVIOUS
<1>1. CASE Clk
  BY <1>1, CoreClk
<1>2. CASE Reset
  BY <1>2, CoreReset
<1>3. CASE UNCHANGED sccbVars
  BY <1>3 DEF sccbVars, SccbCoreInv, SccbTypeOK, TickInv, InitInv, HandInv, SlaveInv, AtRest,
       Entry, TableEnd
<1> QED  BY <1>1, <1>2, <1>3 DEF SccbNext

\* The registers of the initialisation, of the master, and the camera keep their types.
THEOREM SccbTypeCorrect == SccbSpec => []SccbTypeOK
<1>1. SccbCoreInv => SccbTypeOK
  BY DEF SccbCoreInv
<1> QED  BY <1>1, SccbCoreStart, SccbCoreStep, PTL DEF SccbSpec

\* What the master pulls low, in every phase.
PullsInv ==
    /\ wr.state \in {"IDLE", "DONE"} => wr.phase = 0 /\ ~wr.scl /\ ~wr.sda
    /\ wr.state = "START" => /\ wr.scl <=> wr.phase = 3
                             /\ wr.sda <=> wr.phase \in {2, 3}
                             /\ wr.byte = 0 /\ wr.bit = Width - 1 /\ ~wr.ackError
    /\ wr.state = "SEND" => /\ wr.scl <=> wr.phase \in {0, 1}
                            /\ wr.phase > 0 => (wr.sda <=> ~BitOf(wr.cur, wr.bit))
    /\ wr.state = "ACK" => /\ wr.scl <=> wr.phase \in {0, 1}
                           /\ wr.phase > 0 => ~wr.sda
                           /\ wr.bit = 0
    /\ wr.state = "STOP" => /\ wr.scl <=> wr.phase \in {0, 1}
                            /\ wr.sda <=> wr.phase \in {1, 2}
                            /\ wr.byte = 2

\* One step per state; in it one case per phase.
LEMMA PullsStep ==
    ASSUME WrTypes, PullsInv, wr' = WrNext
    PROVE  PullsInv'
<1>p. wr.phase = 0 \/ wr.phase = 1 \/ wr.phase = 2 \/ wr.phase = 3
  BY DEF WrTypes
<1>b. wr.scl \in BOOLEAN /\ wr.sda \in BOOLEAN /\ wr.bit \in Nat
  BY SccbAssumption DEF WrTypes
<1>1. CASE ~div.tick
  BY <1>1, WrWaits DEF GoesAt, SamePlace, Pulls, PullsInv
<1>2. CASE div.tick /\ wr.state = "IDLE"
  <2>1. /\ GoesAt("IDLE", 0) \/ (GoesAt("START", 0) /\ wr'.byte = 0 /\ wr'.bit = Width - 1)
        /\ Pulls(FALSE, FALSE) /\ wr'.ackError = FALSE
    BY <1>2, IdleTick
  <2> QED  BY ONLY <2>1 DEF GoesAt, Pulls, PullsInv
<1>3. CASE div.tick /\ wr.state = "START"
  <2>1. SamePlace /\ wr'.ackError = wr.ackError /\ wr.byte = 0 /\ wr.bit = Width - 1
        /\ ~wr.ackError
    BY <1>3, StartTick DEF PullsInv
  <2>2. \/ GoesAt("START", 1) /\ Pulls(FALSE, FALSE)
        \/ GoesAt("START", 2) /\ Pulls(FALSE, TRUE)
        \/ GoesAt("START", 3) /\ Pulls(TRUE, TRUE)
        \/ GoesAt("SEND", 0) /\ Pulls(TRUE, TRUE)
    BY <1>p, <1>b, <1>3, StartTick DEF PullsInv, Pulls
  <2> QED  BY ONLY <2>1, <2>2 DEF GoesAt, Pulls, PullsInv, SamePlace
<1>4. CASE div.tick /\ wr.state = "SEND"
  <2>0. wr'.cur = wr.cur /\ (wr.bit = 0 \/ wr.bit > 0)
    BY <1>b, <1>4, SendTick
  <2>1. wr.phase > 0 => (wr.sda <=> ~BitOf(wr.cur, wr.bit))
    BY <1>4 DEF PullsInv
  <2>v. PICK v \in BOOLEAN : v = ~BitOf(wr.cur, wr.bit)
    OBVIOUS
  <2>2. \/ GoesAt("SEND", 1) /\ wr'.bit = wr.bit /\ Pulls(TRUE, v)
        \/ GoesAt("SEND", 2) /\ wr'.bit = wr.bit /\ Pulls(FALSE, wr.sda) /\ wr.phase = 1
        \/ GoesAt("SEND", 3) /\ wr'.bit = wr.bit /\ Pulls(FALSE, wr.sda) /\ wr.phase = 2
        \/ GoesAt("ACK", 0) /\ wr'.bit = 0 /\ Pulls(TRUE, wr.sda)
        \/ GoesAt("SEND", 0) /\ Pulls(TRUE, wr.sda)
    BY <1>p, <1>4, <2>0, <2>v, SendTick
  <2>3. CASE wr'.bit = wr.bit /\ wr'.state = "SEND" /\ wr'.phase > 0
    <3>1. BitOf(wr'.cur, wr'.bit) = BitOf(wr.cur, wr.bit)
      BY <2>0, <2>3
    <3>2. wr'.sda <=> ~BitOf(wr.cur, wr.bit)
      <4>1. wr'.sda = v \/ (wr.phase > 0 /\ wr'.sda = wr.sda)
        BY ONLY <2>2, <2>3 DEF GoesAt, Pulls
      <4> QED  BY ONLY <2>1, <2>v, <4>1
    <3>3. wr'.scl <=> wr'.phase \in {0, 1}
      BY ONLY <2>2, <2>3 DEF GoesAt, Pulls
    <3> QED  BY ONLY <2>3, <3>1, <3>2, <3>3 DEF PullsInv
  <2>4. CASE ~(wr'.bit = wr.bit /\ wr'.state = "SEND" /\ wr'.phase > 0)
    <3>1. /\ (wr'.state = "ACK" /\ wr'.bit = 0) \/ wr'.state = "SEND"
          /\ wr'.phase = 0 /\ wr'.scl = TRUE
      BY ONLY <2>2, <2>4 DEF GoesAt, Pulls
    <3> QED  BY ONLY <3>1 DEF PullsInv
  <2> QED  BY <2>3, <2>4
<1>5. CASE div.tick /\ wr.state = "ACK"
  <2>0. wr.bit = 0 /\ (wr.phase > 0 => wr.sda = FALSE) /\ (wr.phase = 2 => wr.scl = FALSE)
    BY <1>b, <1>5 DEF PullsInv
  <2>1. \/ GoesAt("ACK", 1) /\ SamePlace /\ Pulls(TRUE, FALSE)
        \/ GoesAt("ACK", 2) /\ SamePlace /\ Pulls(FALSE, FALSE)
        \/ GoesAt("ACK", 3) /\ SamePlace /\ Pulls(FALSE, FALSE)
        \/ GoesAt("STOP", 0) /\ Pulls(TRUE, FALSE) /\ wr'.byte = 2
        \/ GoesAt("SEND", 0) /\ Pulls(TRUE, FALSE)
    <3>1. CASE wr.phase = 0
      BY <1>5, <3>1, AckTick
    <3>2. CASE wr.phase = 1
      <4>1. wr.sda = FALSE
        BY <2>0, <3>2
      <4> QED  BY <1>5, <3>2, <4>1, AckTick
    <3>3. CASE wr.phase = 2
      BY <1>5, <3>3, <2>0, AckTick DEF Pulls
    <3>4. CASE wr.phase = 3
      <4>1. wr'.byte = 2 \/ wr.byte # 2
        BY <1>5, <3>4, AckTick DEF SamePlace
      <4> QED  BY <1>5, <3>4, <4>1, AckTick
    <3> QED  BY <1>p, <3>1, <3>2, <3>3, <3>4
  <2> QED  BY ONLY <2>0, <2>1 DEF GoesAt, Pulls, PullsInv, SamePlace
<1>6. CASE div.tick /\ wr.state = "STOP"
  <2>1. SamePlace /\ wr.byte = 2 /\ (wr.phase = 3 => ~wr.scl /\ ~wr.sda)
    BY <1>6, StopTick DEF PullsInv
  <2>2. \/ GoesAt("STOP", 1) /\ Pulls(TRUE, TRUE)
        \/ GoesAt("STOP", 2) /\ Pulls(FALSE, TRUE)
        \/ GoesAt("STOP", 3) /\ Pulls(FALSE, FALSE)
        \/ GoesAt("DONE", 0) /\ Pulls(FALSE, FALSE)
    BY <1>p, <1>b, <1>6, <2>1, StopTick DEF Pulls
  <2> QED  BY ONLY <2>1, <2>2 DEF GoesAt, Pulls, PullsInv, SamePlace
<1>7. CASE div.tick /\ wr.state = "DONE"
  BY <1>7, DoneTick DEF GoesAt, Pulls, PullsInv
<1> QED  BY <1>1, <1>2, <1>3, <1>4, <1>5, <1>6, <1>7 DEF WrTypes

\* The byte being sent is the one its number names.
ByteInv == wr.state \in {"START", "SEND", "ACK"} => wr.cur = SelectByte(wr.byte)

LEMMA ByteStep ==
    ASSUME InitTypes, InitInv, HandInv, WrTypes, PullsInv, ByteInv, init' = InitNext, wr' = WrNext
    PROVE  ByteInv'
<1>p. wr.phase = 0 \/ wr.phase = 1 \/ wr.phase = 2 \/ wr.phase = 3
  BY DEF WrTypes
<1>b. wr.bit = 0 \/ wr.bit > 0
  BY SccbAssumption DEF WrTypes
<1>2. CASE wr.state = "IDLE"
  <2>1. wr'.state = "IDLE" \/ (wr'.state = "START" /\ wr'.byte = 0 /\ wr'.cur = Device)
    BY <1>2, IdleTick, WrWaits DEF GoesAt
  <2> QED  BY <2>1 DEF ByteInv, SelectByte
<1>3. CASE wr.state # "IDLE"
  <2>1. Entry' = Entry
    BY <1>3, InitWaits DEF Entry
  <2>2. \/ wr'.state \notin {"START", "SEND", "ACK"}
        \/ wr'.byte = wr.byte /\ wr'.cur = wr.cur /\ wr.state \in {"START", "SEND", "ACK"}
        \/ wr'.byte = wr.byte + 1 /\ wr'.cur = SelectByte(wr.byte + 1)
    <3>1. CASE ~div.tick
      BY <3>1, WrWaits DEF GoesAt, SamePlace
    <3>2. CASE div.tick /\ wr.state = "START"
      BY <3>2, StartTick DEF SamePlace
    <3>3. CASE div.tick /\ wr.state = "SEND"
      BY <3>3, SendTick
    <3>4. CASE div.tick /\ wr.state = "ACK"
      BY <1>p, <3>4, AckTick DEF GoesAt, SamePlace
    <3>5. CASE div.tick /\ wr.state = "STOP"
      BY <1>p, <3>5, StopTick DEF GoesAt
    <3>6. CASE div.tick /\ wr.state = "DONE"
      BY <3>6, DoneTick DEF GoesAt
    <3> QED  BY <1>3, <3>1, <3>2, <3>3, <3>4, <3>5, <3>6 DEF WrTypes
  <2> QED  BY <2>1, <2>2 DEF ByteInv, SelectByte
<1> QED  BY <1>2, <1>3

\* The camera has the first n bits of the byte being sent, and in the last byte the register.
Receives(n) ==
    /\ slave.doing = "receive" /\ slave.place = wr.byte /\ Len(slave.value) = n
    /\ \A i \in 1..n : slave.value[i] = wr.cur[i]
    /\ wr.byte = 2 => slave.reg = Entry.reg
\* The camera answers the byte; from the second one on it has the register.
Answers ==
    /\ slave.doing = "answer" /\ slave.place = wr.byte
    /\ wr.byte \in {1, 2} => slave.reg = Entry.reg
\* It has not answered, and waits for a START.
GaveUp == slave.doing = "idle"
\* Bits of the byte the camera has seen; the times at which no transfer is on the bus.
BitsSent == (Width - 1 - wr.bit) + (IF wr.phase \in {2, 3} THEN 1 ELSE 0)
Released == wr.state \in {"IDLE", "DONE"} \/ (wr.state = "START" /\ wr.phase \in {0, 1})
\* What the camera is doing, in every phase of a transfer that it was not caught in.
BusInv ==
    /\ Released => ~slave.sda
    /\ wr.state = "START" /\ wr.phase \in {2, 3} => Receives(0)
    /\ wr.state = "SEND" => (~wr.ackError /\ Receives(BitsSent)) \/ (wr.ackError /\ GaveUp)
    /\ wr.state = "ACK" =>
           (~wr.ackError /\ Answers) \/ ((wr.ackError \/ wr.phase # 3) /\ GaveUp)
    /\ wr.state = "STOP" =>
           \/ /\ ~wr.ackError /\ slave.doing = "receive" /\ slave.place = 3 /\ wr.phase <= 2
              /\ Len(slave.value) = (IF wr.phase = 2 THEN 1 ELSE 0)
           \/ (wr.ackError \/ wr.phase = 3) /\ GaveUp

\* Two bytes with the same bits.
LEMMA SameByte ==
    ASSUME NEW v \in Seq(BOOLEAN), NEW b \in Bytes, Len(v) = Width,
           \A i \in 1..Width : v[i] = b[i]
    PROVE  v = b
<1>1. v \in [1..Width -> BOOLEAN]
  BY SccbAssumption
<1> QED  BY <1>1 DEF Bytes

\* The camera's share of a clock: the bus from one phase to the next.
Takes(answers) ==
    /\ slave' = SlaveAfter(slave, Wires(wr, slave), Wires(wr', slave), answers)
    /\ written' = IF Writes(slave, Wires(wr, slave), Wires(wr', slave), answers)
                  THEN Append(written, <<slave.reg, slave.value>>) ELSE written
\* What the lemmas on the bus need to be known before and after a clock.
BusOk ==
    /\ WrTypes /\ WrTypes' /\ SlaveTypes /\ SlaveInv
    /\ PullsInv /\ PullsInv' /\ ByteInv /\ BusInv

\* The bus from one phase to the next, for every state of the master.
LEMMA BusWait ==
    ASSUME BusOk, wr' = WrNext, NEW answers \in BOOLEAN, Takes(answers), ~div.tick,
           wr.state # "IDLE" => Entry' = Entry
    PROVE  BusInv' /\ written' = written /\ slave' = slave
<1>1. GoesAt(wr.state, wr.phase) /\ SamePlace /\ Pulls(wr.scl, wr.sda)
      /\ wr'.ackError = wr.ackError
  BY WrWaits DEF BusOk
<1>2. slave' = slave
  BY <1>1, SlaveSteps DEF BusOk, Takes, Pulls, WrTypes
<1>3. written' = written
  BY <1>1, WritesWhen DEF BusOk, Takes, Pulls
<1>4. wr'.state = wr.state /\ wr'.phase = wr.phase /\ wr'.byte = wr.byte /\ wr'.bit = wr.bit
      /\ wr'.cur = wr.cur
  BY <1>1 DEF GoesAt, SamePlace
<1>5. BusInv
  BY DEF BusOk
<1>6. BusInv'
  BY ONLY <1>1, <1>2, <1>4, <1>5, wr.state # "IDLE" => Entry' = Entry
     DEF BusInv, Released, Receives, Answers, GaveUp, BitsSent
<1> QED  BY <1>2, <1>3, <1>6

LEMMA BusIdle ==
    ASSUME BusOk, wr' = WrNext, NEW answers \in BOOLEAN, Takes(answers), div.tick,
           wr.state \in {"IDLE", "DONE"}
    PROVE  BusInv' /\ written' = written
<1>1. ~wr.scl /\ wr.scl = FALSE /\ wr.sda = FALSE /\ ~wr.sda /\ ~slave.sda
  BY DEF BusOk, PullsInv, BusInv, Released, WrTypes
<1>2. Pulls(FALSE, FALSE) /\ (GoesAt("IDLE", 0) \/ GoesAt("START", 0))
  BY IdleTick, DoneTick DEF BusOk, PullsInv, GoesAt
<1>3. slave' = slave
  BY <1>1, <1>2, SlaveSteps DEF BusOk, Takes, Pulls
<1>4. written' = written
  BY <1>1, <1>2, WritesWhen DEF BusOk, Takes, Pulls
<1>5. BusInv'
  BY ONLY <1>1, <1>2, <1>3 DEF GoesAt, BusInv, Released
<1> QED  BY <1>4, <1>5

LEMMA BusStart ==
    ASSUME BusOk, wr' = WrNext, NEW answers \in BOOLEAN, Takes(answers), div.tick,
           wr.state = "START", Entry' = Entry
    PROVE  BusInv' /\ written' = written
<1>0. /\ wr.byte = 0 /\ wr.bit = Width - 1 /\ ~wr.ackError /\ SamePlace
         /\ wr'.ackError = wr.ackError
      /\ wr'.byte = 0 /\ wr'.bit = Width - 1 /\ ~wr'.ackError
      /\ wr.phase = 0 \/ wr.phase = 1 \/ wr.phase = 2 \/ wr.phase = 3
  <2>1. wr.byte = 0 /\ wr.bit = Width - 1 /\ ~wr.ackError
    BY DEF BusOk, PullsInv
  <2>2. SamePlace /\ wr'.ackError = wr.ackError
    BY StartTick DEF BusOk
  <2>3. wr.phase = 0 \/ wr.phase = 1 \/ wr.phase = 2 \/ wr.phase = 3
    BY DEF BusOk, WrTypes
  <2> QED  BY <2>1, <2>2, <2>3 DEF SamePlace
<1>1. CASE wr.phase = 0
  <2>1. /\ ~wr.scl /\ ~wr.sda /\ wr.sda = FALSE /\ ~slave.sda
        /\ GoesAt("START", 1) /\ wr'.scl = FALSE /\ wr'.sda = FALSE
    BY <1>1, StartTick DEF BusOk, PullsInv, BusInv, Released, Pulls, WrTypes
  <2>2. slave' = slave /\ written' = written
    BY <2>1, SlaveSteps, WritesWhen DEF BusOk, Takes
  <2> QED  BY ONLY <2>1, <2>2 DEF GoesAt, BusInv, Released
<1>2. CASE wr.phase = 1
  <2>1. /\ ~wr.scl /\ ~wr.sda /\ ~slave.sda
        /\ GoesAt("START", 2) /\ wr'.scl = FALSE /\ wr'.sda = TRUE
    BY <1>2, StartTick DEF BusOk, PullsInv, BusInv, Released, Pulls
  <2>2. slave' = [IdleSlave EXCEPT !.doing = "receive"] /\ written' = written
    BY <2>1, SlaveSteps, WritesWhen DEF BusOk, Takes
  <2>3. slave'.doing = "receive" /\ slave'.place = 0 /\ Len(slave'.value) = 0
    BY <2>2 DEF IdleSlave
  <2> QED  BY ONLY <1>0, <2>1, <2>2, <2>3 DEF GoesAt, BusInv, Released, Receives
<1>3. CASE wr.phase = 2
  <2>a. ~wr.scl
    BY <1>3 DEF BusOk, PullsInv
  <2>b. Receives(0)
    BY <1>3 DEF BusOk, BusInv
  <2>1. ~wr.scl /\ Receives(0) /\ GoesAt("START", 3) /\ wr'.scl = TRUE
    BY <1>3, <2>a, <2>b, StartTick DEF BusOk, Pulls
  <2>2. ~ByteFull /\ slave.doing # "answer"
    BY <2>1, SccbAssumption DEF ByteFull, Receives
  <2>3. slave' = slave /\ written' = written
    BY <2>1, <2>2, SlaveSteps, WritesWhen DEF BusOk, Takes
  <2> QED  BY ONLY <1>0, <2>1, <2>3 DEF GoesAt, BusInv, Released, Receives
<1>4. CASE wr.phase = 3
  <2>1. /\ wr.scl /\ Receives(0)
        /\ GoesAt("SEND", 0) /\ wr'.scl = TRUE
    BY <1>4, StartTick DEF BusOk, PullsInv, BusInv, Pulls, WrTypes
  <2>3. slave' = slave /\ written' = written
    BY <2>1, SlaveSteps, WritesWhen DEF BusOk, Takes
  <2>4. BitsSent' = 0
    BY <1>0, <2>1, SccbAssumption DEF GoesAt, BitsSent
  <2> QED  BY ONLY <1>0, <2>1, <2>3, <2>4 DEF GoesAt, BusInv, Released, Receives
<1> QED  BY <1>0, <1>1, <1>2, <1>3, <1>4

\* A camera that gave up waits for the next START.
LEMMA IdleStays ==
    ASSUME BusOk, NEW answers \in BOOLEAN, Takes(answers), slave.doing = "idle",
           wr.scl \/ wr'.scl \/ wr.sda = wr'.sda
    PROVE  slave' = slave /\ written' = written
<1>1. /\ wr.scl \in BOOLEAN /\ wr'.scl \in BOOLEAN
      /\ ~ByteFull /\ slave.doing # "answer" /\ slave.doing # "receive"
  BY DEF BusOk, WrTypes, ByteFull
<1> QED  BY <1>1, SlaveSteps, WritesWhen DEF BusOk, Takes

\* The end of a byte: the camera has all its bits, and answers or gives up.
LEMMA ByteReceived ==
    ASSUME BusOk, NEW answers \in BOOLEAN, Takes(answers), Receives(Width), wr.state = "SEND",
           InitTypes, InitInv, init.state = "WAIT_WR",
           ~wr.scl, wr'.scl, wr'.byte = wr.byte, Entry' = Entry
    PROVE  /\ answers => Answers'
           /\ ~answers => GaveUp'
           /\ answers /\ wr.byte = 2 => written' = Append(written, <<Entry.reg, Entry.data>>)
           /\ ~answers \/ wr.byte # 2 => written' = written
<1>1. ByteFull /\ slave.place = wr.byte /\ slave.value \in Seq(BOOLEAN) /\ wr.cur \in Bytes
      /\ wr.byte \in 0..2
  BY DEF Receives, ByteFull, BusOk, SlaveTypes, WrTypes
<1>2. slave.value = wr.cur
  BY <1>1, SameByte DEF Receives
<1>3. wr.cur = SelectByte(wr.byte)
  BY DEF BusOk, ByteInv
<1>4. /\ wr.byte = 0 => slave.value = Device
      /\ wr.byte = 1 => slave.value = Entry.reg
      /\ wr.byte = 2 => slave.value = Entry.data /\ slave.reg = Entry.reg
  BY <1>2, <1>3, Selected DEF Receives
<1>5. Known(slave)
  BY <1>1, <1>4 DEF Known
<1>6. CASE answers
  <2>1. slave' = [slave EXCEPT !.doing = "answer", !.sda = TRUE,
                              !.reg = IF slave.place = 1 THEN slave.value ELSE slave.reg]
    BY <1>1, <1>5, <1>6, SlaveSteps DEF BusOk, Takes
  <2>2. /\ slave'.doing = "answer" /\ slave'.place = wr.byte
        /\ slave'.reg = IF slave.place = 1 THEN slave.value ELSE slave.reg
    BY <1>1, <2>1 DEF BusOk, SlaveTypes
  <2>3. wr.byte \in {1, 2} => slave'.reg = Entry.reg
    BY <1>1, <1>4, <2>2
  <2>4. Answers'
    BY <2>2, <2>3 DEF Answers
  <2>5. written' = IF wr.byte = 2 THEN Append(written, <<slave.reg, slave.value>>) ELSE written
    BY <1>1, <1>6, WritesWhen DEF BusOk, Takes
  <2> QED  BY <1>4, <1>6, <2>4, <2>5
<1>7. CASE ~answers
  <2>1. slave' = IdleSlave /\ written' = written
    BY <1>1, <1>7, SlaveSteps, WritesWhen DEF BusOk, Takes
  <2> QED  BY <1>7, <2>1 DEF GaveUp, IdleSlave
<1> QED  BY <1>6, <1>7

\* The clock at the end of the third byte, in which the register is written or is not.
LastAck == wr.state = "SEND" /\ wr'.state = "ACK" /\ wr.byte = 2

LEMMA BusSend ==
    ASSUME BusOk, wr' = WrNext, NEW answers \in BOOLEAN, Takes(answers), div.tick,
           wr.state = "SEND", Entry' = Entry,
           InitTypes, InitInv, init.state = "WAIT_WR"
    PROVE  /\ BusInv'
           /\ ~LastAck => written' = written
           /\ LastAck => \/ GaveUp' /\ written' = written
                         \/ ~GaveUp' /\ written' = Append(written, <<Entry.reg, Entry.data>>)
<1>0. /\ wr'.byte = wr.byte /\ wr'.cur = wr.cur /\ wr'.ackError = wr.ackError
  BY SendTick DEF BusOk
<1>p. wr.phase = 0 \/ wr.phase = 1 \/ wr.phase = 2 \/ wr.phase = 3
  BY DEF BusOk, WrTypes
<1>b. wr.bit \in 0..(Width - 1) /\ (wr.bit = 0 \/ wr.bit > 0) /\ Width \in Nat \ {0}
  BY SccbAssumption DEF BusOk, WrTypes
<1>1. CASE wr.ackError /\ GaveUp
  <2>1. /\ wr'.state = "SEND" \/ wr'.state = "ACK"
        /\ wr.scl \/ wr'.scl \/ wr.sda = wr'.sda
    <3>1. CASE wr.phase = 0 \/ wr.phase = 3
      BY <1>b, <3>1, SendTick DEF BusOk, GoesAt, Pulls
    <3>2. CASE wr.phase = 1 \/ wr.phase = 2
      BY <3>2, SendTick DEF BusOk, GoesAt, Pulls
    <3> QED  BY <1>p, <3>1, <3>2
  <2>2. slave' = slave /\ written' = written
    BY <1>1, <2>1, IdleStays DEF GaveUp
  <2>3. GaveUp' /\ wr'.ackError
    BY <1>0, <1>1, <2>2 DEF GaveUp
  <2>4. BusInv'
    BY ONLY <2>1, <2>3 DEF BusInv, Released
  <2> QED  BY <2>2, <2>3, <2>4
<1>2. CASE ~wr.ackError /\ Receives(BitsSent)
  <2>0. slave.doing = "receive" /\ ~slave.sda /\ Len(slave.value) = BitsSent
    BY <1>2 DEF Receives, BusOk, SlaveInv
  <2>1. CASE wr.phase = 0
    <3>0. wr.scl
      BY <2>1 DEF BusOk, PullsInv
    <3>1. wr.scl /\ GoesAt("SEND", 1) /\ wr'.bit = wr.bit /\ wr'.scl = TRUE
      BY <2>1, <3>0, SendTick DEF BusOk, Pulls
    <3>2. slave' = slave /\ written' = written
      BY <3>1, SlaveSteps, WritesWhen DEF BusOk, Takes
    <3>3. BitsSent' = BitsSent
      BY <2>1, <3>1 DEF BitsSent, GoesAt
    <3>4. Receives(BitsSent)'
      BY <1>0, <1>2, <3>2, <3>3 DEF Receives
    <3> QED  BY <1>0, <1>2, <3>1, <3>2, <3>4 DEF GoesAt, BusInv, Released, LastAck
  <2>2. CASE wr.phase = 1
    <3>0. wr.scl
      BY <2>2 DEF BusOk, PullsInv
    <3>1. /\ wr.scl /\ GoesAt("SEND", 2) /\ wr'.bit = wr.bit /\ wr'.scl = FALSE
             /\ wr'.sda = wr.sda
      BY <2>2, <3>0, SendTick DEF BusOk, Pulls
    <3>2. PICK n \in Nat : n = BitsSent /\ n + 1 = BitsSent' /\ n = Width - 1 - wr.bit
      BY <1>b, <2>2, <3>1 DEF BitsSent, GoesAt
    <3>3. wr.sda <=> ~wr.cur[n + 1]
      <4>1. wr.sda <=> ~BitOf(wr.cur, wr.bit)
        BY <2>2 DEF BusOk, PullsInv
      <4>2. Width - wr.bit = n + 1
        BY <1>b, <3>2
      <4> QED  BY <4>1, <4>2 DEF BitOf
    <3>4. wr.cur[n + 1] \in BOOLEAN
      BY <1>b, <3>2 DEF BusOk, WrTypes, Bytes
    <3>5. PICK bit \in BOOLEAN : bit = ~(wr'.sda \/ slave.sda)
      OBVIOUS
    <3>6. bit = wr.cur[n + 1]
      BY <2>0, <3>1, <3>3, <3>4, <3>5
    <3>7. slave' = [slave EXCEPT !.value = Append(slave.value, bit)] /\ written' = written
      BY <1>b, <2>0, <3>1, <3>2, <3>5, SlaveSteps, WritesWhen DEF BusOk, Takes
    <3>8. /\ slave'.doing = "receive" /\ slave'.place = slave.place /\ slave'.reg = slave.reg
          /\ slave'.value = Append(slave.value, bit) /\ slave.value \in Seq(BOOLEAN)
      BY <2>0, <3>7 DEF BusOk, SlaveTypes
    <3>9. /\ Len(slave'.value) = n + 1
          /\ \A i \in 1..(n + 1) : slave'.value[i] = wr.cur[i]
      BY <1>2, <2>0, <3>2, <3>6, <3>8 DEF Receives
    <3>10. Receives(BitsSent)'
      BY <1>0, <1>2, <3>2, <3>8, <3>9 DEF Receives
    <3> QED  BY <1>0, <1>2, <3>1, <3>7, <3>10 DEF GoesAt, BusInv, Released, LastAck
  <2>3. CASE wr.phase = 2
    <3>0. ~wr.scl
      BY <2>3 DEF BusOk, PullsInv
    <3>1. /\ ~wr.scl /\ GoesAt("SEND", 3) /\ wr'.bit = wr.bit /\ wr'.scl = FALSE
             /\ wr'.sda = wr.sda
      BY <2>3, <3>0, SendTick DEF BusOk, Pulls
    <3>2. slave' = slave /\ written' = written
      BY <3>1, SlaveSteps, WritesWhen DEF BusOk, Takes
    <3>3. BitsSent' = BitsSent
      BY <2>3, <3>1 DEF BitsSent, GoesAt
    <3>4. Receives(BitsSent)'
      BY <1>0, <1>2, <3>2, <3>3 DEF Receives
    <3> QED  BY <1>0, <1>2, <3>1, <3>2, <3>4 DEF GoesAt, BusInv, Released, LastAck
  <2>4. CASE wr.phase = 3 /\ wr.bit > 0
    <3>0. ~wr.scl
      BY <2>4 DEF BusOk, PullsInv
    <3>1. /\ ~wr.scl /\ GoesAt("SEND", 0) /\ wr'.bit = wr.bit - 1 /\ wr'.scl = TRUE
      BY <2>4, <3>0, SendTick DEF BusOk, Pulls
    <3>a. BitsSent = Width - wr.bit /\ BitsSent' = Width - 1 - (wr.bit - 1)
      BY <1>b, <2>4, <3>1 DEF BitsSent, GoesAt
    <3>2. BitsSent # Width /\ BitsSent' = BitsSent
      BY <1>b, <2>4, <3>a
    <3>3. slave' = slave /\ written' = written
      BY <2>0, <3>1, <3>2, SlaveSteps, WritesWhen DEF BusOk, Takes, ByteFull
    <3>4. Receives(BitsSent)'
      BY <1>0, <1>2, <3>2, <3>3 DEF Receives
    <3> QED  BY <1>0, <1>2, <3>1, <3>3, <3>4 DEF GoesAt, BusInv, Released, LastAck
  <2>5. CASE wr.phase = 3 /\ wr.bit = 0
    <3>0. ~wr.scl
      BY <2>5 DEF BusOk, PullsInv
    <3>1. /\ ~wr.scl /\ GoesAt("ACK", 0) /\ wr'.scl = TRUE
      BY <2>5, <3>0, SendTick DEF BusOk, Pulls
    <3>2. BitsSent = Width
      BY <1>b, <2>5 DEF BitsSent
    <3>3. Receives(Width)
      BY <1>2, <3>2
    <3>4. /\ answers => Answers'
          /\ ~answers => GaveUp'
          /\ answers /\ wr.byte = 2 => written' = Append(written, <<Entry.reg, Entry.data>>)
          /\ ~answers \/ wr.byte # 2 => written' = written
      BY <1>0, <3>1, <3>3, ByteReceived
    <3>5. BusInv'
      BY <1>0, <1>2, <3>1, <3>4 DEF GoesAt, BusInv, Released
    <3>6. Answers' => ~GaveUp'
      BY DEF Answers, GaveUp
    <3> QED  BY <3>1, <3>4, <3>5, <3>6 DEF GoesAt, LastAck
  <2> QED  BY <1>b, <1>p, <2>1, <2>2, <2>3, <2>4, <2>5
<1> QED  BY <1>1, <1>2 DEF BusOk, BusInv

LEMMA BusAck ==
    ASSUME BusOk, wr' = WrNext, NEW answers \in BOOLEAN, Takes(answers), div.tick,
           wr.state = "ACK", Entry' = Entry
    PROVE  BusInv' /\ written' = written
<1>p. wr.phase = 0 \/ wr.phase = 1 \/ wr.phase = 2 \/ wr.phase = 3
  BY DEF BusOk, WrTypes
<1>b. wr.scl \in BOOLEAN /\ wr.sda \in BOOLEAN /\ wr.byte \in 0..2 /\ wr.ackError \in BOOLEAN
  BY DEF BusOk, WrTypes
<1>s. /\ wr.scl <=> (wr.phase = 0 \/ wr.phase = 1)
      /\ (wr.phase = 1 \/ wr.phase = 2 \/ wr.phase = 3) => wr.sda = FALSE
  BY <1>b DEF BusOk, PullsInv
<1>1. CASE ~wr.ackError /\ Answers
  <2>0. slave.doing = "answer" /\ slave.sda /\ ~ByteFull
    BY <1>1 DEF Answers, BusOk, SlaveInv, ByteFull
  <2>1. CASE wr.phase = 0 \/ wr.phase = 1 \/ wr.phase = 2
    <3>1. /\ wr'.state = "ACK" /\ SamePlace
          /\ (wr.scl /\ wr'.scl) \/ (wr.scl /\ ~wr'.scl) \/ (~wr.scl /\ ~wr'.scl)
      <4>1. CASE wr.phase = 0
        BY <1>s, <4>1, AckTick DEF BusOk, GoesAt, Pulls
      <4>2. CASE wr.phase = 1
        BY <1>s, <4>2, AckTick DEF BusOk, GoesAt, Pulls
      <4>3. CASE wr.phase = 2
        BY <1>s, <4>3, AckTick DEF BusOk, GoesAt, Pulls
      <4> QED  BY <2>1, <4>1, <4>2, <4>3
    <3>2. ~wr'.ackError
      BY <1>1, <2>0, <2>1, AckTick DEF BusOk
    <3>3. slave' = slave /\ written' = written
      BY <2>0, <3>1, SlaveSteps, WritesWhen DEF BusOk, Takes
    <3>4. Answers'
      BY <1>1, <3>1, <3>3 DEF Answers, SamePlace
    <3> QED  BY <3>1, <3>2, <3>3, <3>4 DEF BusInv, Released
  <2>2. CASE wr.phase = 3
    <3>1. /\ ~wr.scl /\ wr'.scl = TRUE /\ wr'.ackError = wr.ackError /\ wr'.phase = 0
          /\ \/ wr.byte = 2 /\ wr'.state = "STOP"
             \/ /\ wr.byte # 2 /\ wr'.state = "SEND" /\ wr'.byte = wr.byte + 1
                   /\ wr'.bit = Width - 1
      BY <1>s, <2>2, AckTick DEF BusOk, GoesAt, Pulls
    <3>2. /\ slave' = [slave EXCEPT !.doing = "receive", !.sda = FALSE, !.value = <<>>,
                                    !.place = IF slave.place < 3 THEN slave.place + 1 ELSE slave.place]
          /\ written' = written
      BY <2>0, <3>1, SlaveSteps, WritesWhen DEF BusOk, Takes
    <3>3. slave.place = wr.byte /\ (wr.byte \in {1, 2} => slave.reg = Entry.reg)
      BY <1>1 DEF Answers
    <3>4. /\ slave'.doing = "receive" /\ slave'.value = <<>> /\ slave'.place = wr.byte + 1
          /\ slave'.reg = slave.reg /\ Len(slave'.value) = 0
      BY <1>b, <3>2, <3>3 DEF BusOk, SlaveTypes
    <3>5. CASE wr.byte = 2
      BY <1>1, <3>1, <3>2, <3>4, <3>5 DEF BusInv, Released
    <3>6. CASE wr.byte # 2
      <4>1. BitsSent' = 0
        BY <3>1, <3>6, SccbAssumption DEF BitsSent
      <4>2. wr'.byte = 2 => slave'.reg = Entry.reg
        BY <1>b, <3>1, <3>3, <3>4, <3>6
      <4>3. Receives(BitsSent)'
        BY <3>1, <3>4, <3>6, <4>1, <4>2 DEF Receives
      <4> QED  BY <1>1, <3>1, <3>2, <3>6, <4>3 DEF BusInv, Released
    <3> QED  BY <3>5, <3>6
  <2> QED  BY <1>p, <2>1, <2>2
<1>2. CASE (wr.ackError \/ wr.phase # 3) /\ GaveUp
  <2>0. slave.doing = "idle" /\ ~slave.sda
    BY <1>2 DEF GaveUp, BusOk, SlaveInv
  <2>1. wr.scl \/ wr'.scl \/ wr.sda = wr'.sda
    BY <1>p, <1>s, AckTick DEF BusOk, Pulls
  <2>2. slave' = slave /\ written' = written /\ GaveUp'
    BY <2>0, <2>1, IdleStays DEF GaveUp
  <2>3. CASE wr.phase = 0 \/ wr.phase = 1
    <3>1. wr'.state = "ACK" /\ wr'.phase # 3
      <4>1. CASE wr.phase = 0
        BY <4>1, AckTick DEF BusOk, GoesAt
      <4>2. CASE wr.phase = 1
        BY <4>2, AckTick DEF BusOk, GoesAt
      <4> QED  BY <2>3, <4>1, <4>2
    <3> QED  BY <2>2, <3>1 DEF BusInv, Released
  <2>4. CASE wr.phase = 2
    <3>1. wr'.state = "ACK" /\ wr'.ackError = (wr.ackError \/ ~(wr.sda \/ slave.sda))
          /\ wr.sda = FALSE
      BY <1>s, <2>4, AckTick DEF BusOk, GoesAt
    <3>2. wr'.ackError
      BY <2>0, <3>1
    <3> QED  BY <2>2, <3>1, <3>2 DEF BusInv, Released
  <2>5. CASE wr.phase = 3
    <3>1. wr'.ackError /\ (wr'.state = "STOP" \/ wr'.state = "SEND")
      BY <1>2, <2>5, AckTick DEF BusOk, GoesAt
    <3> QED  BY <2>2, <3>1 DEF BusInv, Released
  <2> QED  BY <1>p, <2>3, <2>4, <2>5
<1> QED  BY <1>1, <1>2 DEF BusOk, BusInv

LEMMA BusStop ==
    ASSUME BusOk, wr' = WrNext, NEW answers \in BOOLEAN, Takes(answers), div.tick,
           wr.state = "STOP"
    PROVE  BusInv' /\ written' = written
<1>p. wr.phase = 0 \/ wr.phase = 1 \/ wr.phase = 2 \/ wr.phase = 3
  BY DEF BusOk, WrTypes
<1>b. wr.scl \in BOOLEAN /\ wr.sda \in BOOLEAN /\ wr.ackError \in BOOLEAN /\ Width \in Nat \ {0}
  BY SccbAssumption DEF BusOk, WrTypes
<1>s. /\ wr.scl <=> (wr.phase = 0 \/ wr.phase = 1)
      /\ wr.sda <=> (wr.phase = 1 \/ wr.phase = 2)
  BY <1>b DEF BusOk, PullsInv
<1>e. wr'.ackError = wr.ackError
  BY StopTick DEF BusOk
<1>i. \/ /\ ~wr.ackError /\ slave.doing = "receive" /\ slave.place = 3 /\ wr.phase <= 2
         /\ Len(slave.value) = (IF wr.phase = 2 THEN 1 ELSE 0)
      \/ (wr.ackError \/ wr.phase = 3) /\ GaveUp
  BY DEF BusOk, BusInv
<1>d. ~slave.sda /\ slave.doing # "answer"
  BY <1>i DEF BusOk, SlaveInv, GaveUp
<1>1. CASE wr.phase = 0
  <2>1. wr.scl /\ wr'.scl = TRUE /\ wr'.state = "STOP" /\ wr'.phase = 1
    BY <1>1, <1>s, StopTick DEF BusOk, GoesAt, Pulls
  <2>2. slave' = slave /\ written' = written
    BY <2>1, SlaveSteps, WritesWhen DEF BusOk, Takes
  <2> QED  BY <1>1, <1>e, <1>i, <2>1, <2>2 DEF BusInv, Released, GaveUp
<1>2. CASE wr.phase = 1
  <2>1. wr.scl /\ wr'.scl = FALSE /\ wr'.state = "STOP" /\ wr'.phase = 2
    BY <1>2, <1>s, StopTick DEF BusOk, GoesAt, Pulls
  <2>2. written' = written
    BY <2>1, WritesWhen DEF BusOk, Takes
  <2>3. CASE wr.ackError /\ GaveUp
    <3>1. slave' = slave
      BY <2>1, <2>3, IdleStays DEF GaveUp
    <3> QED  BY <1>e, <2>1, <2>2, <2>3, <3>1 DEF BusInv, Released, GaveUp
  <2>4. CASE ~wr.ackError /\ slave.doing = "receive" /\ slave.place = 3 /\ Len(slave.value) = 0
    <3>0. PICK bit \in BOOLEAN : bit = ~(wr'.sda \/ slave.sda)
      OBVIOUS
    <3>1. slave' = [slave EXCEPT !.value = Append(slave.value, bit)]
      BY <1>b, <2>1, <2>4, <3>0, SlaveSteps DEF BusOk, Takes
    <3>2. /\ slave'.doing = "receive" /\ slave'.place = 3 /\ Len(slave'.value) = 1
      BY <2>4, <3>1 DEF BusOk, SlaveTypes
    <3> QED  BY <1>e, <2>1, <2>2, <2>4, <3>2 DEF BusInv, Released
  <2> QED  BY <1>2, <1>i, <2>3, <2>4
<1>3. CASE wr.phase = 2
  <2>1. ~wr.scl /\ wr.sda /\ wr'.scl = FALSE /\ wr'.sda = FALSE /\ wr'.state = "STOP"
        /\ wr'.phase = 3
    BY <1>3, <1>s, StopTick DEF BusOk, GoesAt, Pulls
  <2>2. slave' = IdleSlave /\ written' = written
    BY <1>d, <2>1, SlaveSteps, WritesWhen DEF BusOk, Takes
  <2>3. GaveUp'
    BY <2>2 DEF GaveUp, IdleSlave
  <2> QED  BY <2>1, <2>2, <2>3 DEF BusInv, Released
<1>4. CASE wr.phase = 3
  <2>1. ~wr.scl /\ ~wr.sda /\ wr'.scl = wr.scl /\ wr'.sda = wr.sda /\ wr'.state = "DONE"
    BY <1>4, <1>s, StopTick DEF BusOk, GoesAt, Pulls
  <2>2. slave' = slave /\ written' = written
    BY <1>d, <2>1, SlaveSteps, WritesWhen DEF BusOk, Takes
  <2>3. ~slave'.sda
    BY <1>d, <2>2
  <2> QED  BY <2>1, <2>2, <2>3 DEF BusInv, Released
<1> QED  BY <1>p, <1>1, <1>2, <1>3, <1>4

\* A clock on the bus.
LEMMA BusStep ==
    ASSUME BusOk, wr' = WrNext, init' = InitNext, InitTypes, InitInv, HandInv,
           NEW answers \in BOOLEAN, Takes(answers)
    PROVE  /\ BusInv'
           /\ ~LastAck => written' = written
           /\ LastAck => \/ GaveUp' /\ written' = written
                         \/ ~GaveUp' /\ written' = Append(written, <<Entry.reg, Entry.data>>)
<1>0. wr.state # "IDLE" => Entry' = Entry /\ init.state = "WAIT_WR"
  BY InitWaits DEF Entry
<1>1. CASE ~div.tick
  <2>1. BusInv' /\ written' = written
    BY <1>0, <1>1, BusWait
  <2>2. ~LastAck
    BY <1>1, WrWaits DEF BusOk, GoesAt, LastAck
  <2> QED  BY <2>1, <2>2
<1>2. CASE div.tick /\ wr.state \in {"IDLE", "DONE"}
  BY <1>2, BusIdle DEF LastAck
<1>3. CASE div.tick /\ wr.state = "START"
  BY <1>0, <1>3, BusStart DEF LastAck
<1>4. CASE div.tick /\ wr.state = "SEND"
  BY <1>0, <1>4, BusSend
<1>5. CASE div.tick /\ wr.state = "ACK"
  BY <1>0, <1>5, BusAck DEF LastAck
<1>6. CASE div.tick /\ wr.state = "STOP"
  BY <1>6, BusStop DEF LastAck
<1> QED  BY <1>1, <1>2, <1>3, <1>4, <1>5, <1>6 DEF BusOk, WrTypes

\* The entry on its way has had its last byte answered, or not.
Sent ==
    \/ wr.done \/ wr.state \in {"STOP", "DONE"}
    \/ wr.state = "ACK" /\ wr.byte = 2
Lost == wr.ackError \/ (wr.state = "ACK" /\ GaveUp)

\* The last byte is sent once, and what was lost stays lost until the answer is taken.
LEMMA SentStep ==
    ASSUME BusOk, wr' = WrNext, init' = InitNext, InitTypes, InitInv, HandInv,
           NEW answers \in BOOLEAN, Takes(answers)
    PROVE  /\ (Sent' /\ ~Sent) => LastAck
           /\ LastAck => ~Sent /\ Sent'
           /\ (Sent /\ ~wr.done) => Sent'
           /\ (Sent /\ ~wr.done /\ Lost) => Lost'
<1>0. wr.state # "IDLE" => ~wr.done /\ init.state = "WAIT_WR"
  BY InitWaits
<1>p. wr.phase = 0 \/ wr.phase = 1 \/ wr.phase = 2 \/ wr.phase = 3
  BY DEF BusOk, WrTypes
<1>d. wr'.done = (div.tick /\ wr.state = "DONE")
  BY WrMoves DEF BusOk
<1>1. CASE ~div.tick
  <2>1. GoesAt(wr.state, wr.phase) /\ SamePlace /\ wr'.ackError = wr.ackError
        /\ Pulls(wr.scl, wr.sda)
    BY <1>1, WrWaits DEF BusOk
  <2>2. slave' = slave
    BY <2>1, SlaveSteps DEF BusOk, Takes, Pulls, WrTypes
  <2> QED  BY <1>0, <1>1, <1>d, <2>1, <2>2 DEF GoesAt, SamePlace, Sent, Lost, GaveUp, LastAck
<1>2. CASE div.tick /\ wr.state = "IDLE"
  <2>1. ~wr.done /\ (wr'.state = "IDLE" \/ wr'.state = "START")
    BY <1>2, IdleTick DEF BusOk, GoesAt, HandInv
  <2> QED  BY <1>2, <1>d, <2>1 DEF Sent, LastAck
<1>3. CASE div.tick /\ wr.state = "START"
  <2>1. wr'.state = "START" \/ wr'.state = "SEND"
    BY <1>p, <1>3, StartTick DEF BusOk, GoesAt
  <2> QED  BY <1>3, <1>0, <1>d, <2>1 DEF Sent, LastAck
<1>4. CASE div.tick /\ wr.state = "SEND"
  <2>1. (wr'.state = "SEND" \/ wr'.state = "ACK") /\ wr'.byte = wr.byte
    <3>1. wr.bit = 0 \/ wr.bit > 0
      BY SccbAssumption DEF BusOk, WrTypes
    <3> QED  BY <1>p, <1>4, <3>1, SendTick DEF BusOk, GoesAt
  <2> QED  BY <1>4, <1>0, <1>d, <2>1 DEF Sent, LastAck
<1>5. CASE div.tick /\ wr.state = "ACK"
  <2>a. wr.phase = 3 => (GaveUp => wr.ackError)
    BY <1>5 DEF BusOk, BusInv, Answers, GaveUp
  <2>1. /\ (wr'.state = "ACK" /\ SamePlace) \/ (wr'.state = "STOP" /\ wr.byte = 2 /\ wr.phase = 3)
           \/ (wr'.state = "SEND" /\ wr.byte # 2 /\ wr.phase = 3)
        /\ wr.ackError => wr'.ackError
        /\ wr.scl \/ wr'.scl \/ wr.sda = wr'.sda
    <3>s. /\ wr.scl <=> (wr.phase = 0 \/ wr.phase = 1)
          /\ (wr.phase = 1 \/ wr.phase = 2 \/ wr.phase = 3) => wr.sda = FALSE
      BY <1>5 DEF BusOk, PullsInv, WrTypes
    <3>1. CASE wr.phase = 0
      BY <1>5, <3>s, <3>1, AckTick DEF BusOk, GoesAt, Pulls
    <3>2. CASE wr.phase = 1
      BY <1>5, <3>s, <3>2, AckTick DEF BusOk, GoesAt, Pulls
    <3>3. CASE wr.phase = 2
      BY <1>5, <3>s, <3>3, AckTick DEF BusOk, GoesAt, Pulls
    <3>4. CASE wr.phase = 3
      BY <1>5, <3>s, <3>4, AckTick DEF BusOk, GoesAt, Pulls
    <3> QED  BY <1>p, <3>1, <3>2, <3>3, <3>4
  <2>2. GaveUp => GaveUp'
    BY <2>1, IdleStays DEF GaveUp
  <2>3. Lost => Lost'
    <3>1. CASE wr.ackError
      BY <2>1, <3>1 DEF Lost
    <3>2. CASE ~wr.ackError /\ GaveUp
      <4>1. wr'.state = "ACK"
        BY <2>a, <2>1, <3>2
      <4> QED  BY <2>2, <3>2, <4>1 DEF Lost
    <3> QED  BY <3>1, <3>2 DEF Lost
  <2> QED  BY <1>5, <1>0, <1>d, <2>1, <2>3 DEF SamePlace, Sent, LastAck
<1>6. CASE div.tick /\ wr.state = "STOP"
  <2>1. (wr'.state = "STOP" \/ wr'.state = "DONE") /\ wr'.ackError = wr.ackError
    BY <1>p, <1>6, StopTick DEF BusOk, GoesAt
  <2> QED  BY <1>6, <2>1 DEF Sent, Lost, LastAck
<1>7. CASE div.tick /\ wr.state = "DONE"
  <2>1. wr'.state = "IDLE" /\ wr'.ackError = wr.ackError /\ wr'.done
    BY <1>7, DoneTick DEF BusOk, GoesAt
  <2> QED  BY <1>7, <2>1 DEF Sent, Lost, LastAck
<1> QED  BY <1>1, <1>2, <1>3, <1>4, <1>5, <1>6, <1>7 DEF BusOk, WrTypes

\* How the writes of the table are counted.
LEMMA WritesCount ==
    /\ WritesIn(0) = 0
    /\ \A n \in 1..Len(Table) :
           WritesIn(n) = WritesIn(n - 1) + (IF Table[n].delay = 0 THEN 1 ELSE 0)
    /\ \A n \in 0..Len(Table) : WritesIn(n) \in Nat
    /\ \A m, n \in 0..Len(Table) : m <= n => WritesIn(m) <= WritesIn(n)
<1> DEFINE Set(n) == {i \in 1..n : Table[i].delay = 0}
<1>0. Len(Table) \in Nat /\ \A n : WritesIn(n) = Cardinality(Set(n))
  BY TableAssumption DEF WritesIn
<1>1. \A n \in 0..Len(Table) : IsFiniteSet(Set(n)) /\ Cardinality(Set(n)) \in Nat
  <2>1. TAKE n \in 0..Len(Table)
  <2>2. IsFiniteSet(1..n)
    BY <1>0, FS_Interval
  <2>3. IsFiniteSet(Set(n))
    BY <2>2, FS_Subset
  <2> QED  BY <2>3, FS_CardinalityType
<1>2. WritesIn(0) = 0
  <2>1. Set(0) = {}
    OBVIOUS
  <2> QED  BY <1>0, <2>1, FS_EmptySet
<1>3. ASSUME NEW n \in 1..Len(Table)
      PROVE  WritesIn(n) = WritesIn(n - 1) + (IF Table[n].delay = 0 THEN 1 ELSE 0)
  <2>1. n - 1 \in 0..Len(Table) /\ n \notin Set(n - 1)
    BY <1>0
  <2>2. CASE Table[n].delay = 0
    <3>1. Set(n) = Set(n - 1) \cup {n}
      BY <1>0, <2>2
    <3>2. Cardinality(Set(n)) = Cardinality(Set(n - 1)) + 1
      <4>1. IsFiniteSet(Set(n - 1)) /\ n \notin Set(n - 1)
        BY <1>1, <2>1
      <4> HIDE DEF Set
      <4> QED  BY <3>1, <4>1, FS_AddElement
    <3> QED  BY <1>0, <2>2, <3>2
  <2>3. CASE Table[n].delay # 0
    <3>1. Set(n) = Set(n - 1)
      BY <1>0, <2>3
    <3>2. Cardinality(Set(n - 1)) \in Nat
      BY <1>1, <2>1
    <3> HIDE DEF Set
    <3> QED  BY <1>0, <2>3, <3>1, <3>2
  <2> QED  BY <2>2, <2>3
<1>4. ASSUME NEW m \in 0..Len(Table), NEW n \in 0..Len(Table), m <= n
      PROVE  WritesIn(m) <= WritesIn(n)
  <2>1. Set(m) \subseteq Set(n) /\ IsFiniteSet(Set(n))
    BY <1>0, <1>1, <1>4
  <2> HIDE DEF Set
  <2> QED  BY <1>0, <2>1, FS_Subset
<1> HIDE DEF Set
<1> QED  BY <1>0, <1>1, <1>2, <1>3, <1>4

\* A delay writes nothing; an entry that is written comes after those before it.
LEMMA DelayWritten ==
    ASSUME NEW n \in 1..Len(Table), Table[n].delay # 0, AllWritten(n - 1)
    PROVE  AllWritten(n)
<1>1. WritesIn(n) = WritesIn(n - 1) /\ WritesIn(n - 1) \in Nat /\ Len(Table) \in Nat
  BY WritesCount, TableAssumption
<1>2. \A i \in 1..n : Table[i].delay = 0 => i \in 1..(n - 1)
  BY <1>1
<1> QED  BY <1>1, <1>2 DEF AllWritten

LEMMA EntryWritten ==
    ASSUME NEW n \in 1..Len(Table), Table[n].delay = 0, AllWritten(n - 1),
           written \in Seq(Bytes \X Bytes), Table[n].reg \in Bytes, Table[n].data \in Bytes,
           written' = Append(written, <<Table[n].reg, Table[n].data>>)
    PROVE  AllWritten(n)'
<1>0. PICK pair \in Bytes \X Bytes : pair = <<Table[n].reg, Table[n].data>>
  OBVIOUS
<1>1. /\ Len(Table) \in Nat /\ n \in Nat /\ n - 1 \in 0..Len(Table)
      /\ WritesIn(n) = WritesIn(n - 1) + 1 /\ WritesIn(n - 1) \in Nat
      /\ Len(written) = WritesIn(n - 1)
  BY WritesCount, TableAssumption DEF AllWritten
<1>2. Len(written') = WritesIn(n) /\ written'[WritesIn(n)] = pair
  BY <1>0, <1>1
<1>3. ASSUME NEW i \in 1..(n - 1), Table[i].delay = 0
      PROVE  written'[WritesIn(i)] = <<Table[i].reg, Table[i].data>>
  <2>1. written[WritesIn(i)] = <<Table[i].reg, Table[i].data>>
    BY <1>3 DEF AllWritten
  <2>2. /\ i \in 1..Len(Table) /\ i \in 0..Len(Table) /\ i - 1 \in 0..Len(Table) /\ i <= n - 1
    BY <1>1
  <2>3. WritesIn(i) = WritesIn(i - 1) + 1 /\ WritesIn(i - 1) \in Nat
        /\ WritesIn(i) <= WritesIn(n - 1)
    BY <1>1, <1>3, <2>2, WritesCount
  <2>4. WritesIn(i) \in 1..Len(written)
    BY <1>1, <2>3
  <2>5. written'[WritesIn(i)] = written[WritesIn(i)]
    BY <1>0, <2>4
  <2> QED  BY <2>1, <2>5
<1>4. ASSUME NEW i \in 1..n, Table[i].delay = 0
      PROVE  written'[WritesIn(i)] = <<Table[i].reg, Table[i].data>>
  <2>1. i = n \/ i \in 1..(n - 1)
    BY <1>1
  <2> QED  BY <1>0, <1>2, <1>3, <1>4, <2>1
<1> QED  BY <1>2, <1>4 DEF AllWritten, WritesIn

LEMMA NoneWritten ==
    ASSUME written \in Seq(Bytes \X Bytes)
    PROVE  written = <<>> <=> AllWritten(0)
<1>1. Len(written) = 0 <=> written = <<>>
  OBVIOUS
<1> QED  BY <1>1, WritesCount DEF AllWritten

\* The initialisation runs once, and what came of it is kept.
OnceInv ==
    /\ top.start => top.started
    /\ ~top.started \/ top.start => init.state = "IDLE" /\ ~init.done /\ ~top.done
    /\ top.done => init.state = "IDLE" /\ ~init.error

\* The top level keeps it.
LEMMA OnceStep ==
    ASSUME TopTypes, InitTypes, InitInv, OnceInv, top' = TopNext, init' = InitNext
    PROVE  OnceInv'
<1>1. /\ top'.start = (~top.started /\ top.wait = WaitCycles - 1)
      /\ top'.started = (top.started \/ top.wait = WaitCycles - 1)
      /\ top'.done = (top.done \/ init.done)
  BY DEF TopNext
<1>2. /\ top.start \in BOOLEAN /\ top.started \in BOOLEAN /\ top.done \in BOOLEAN
         /\ init.done \in BOOLEAN
      /\ init.done => init.state = "IDLE"
  BY DEF TopTypes, InitTypes, InitInv
<1>3. init.state = "IDLE" /\ ~top.start => init'.state = "IDLE" /\ ~init'.done /\ ~init'.error
  BY InitSteps DEF GoesTo
<1>4. top'.start => top'.started
  BY <1>1
<1>5. CASE ~top.started
  BY <1>1, <1>2, <1>3, <1>4, <1>5 DEF OnceInv
<1>6. CASE top.started
  <2>1. ~top'.start /\ top'.started
    BY <1>1, <1>6
  <2>2. ASSUME top'.done PROVE init'.state = "IDLE" /\ ~init'.error
    BY <1>1, <1>2, <1>3, <2>2 DEF OnceInv
  <2> QED  BY <2>1, <2>2 DEF OnceInv
<1> QED  BY <1>5, <1>6

\* Nothing has gone wrong, or it has not been told yet.
NoErrorYet == ~held /\ ~top.error /\ ~init.error
\* What has been written at every place of the initialisation.
WrittenInv ==
    NoErrorYet =>
    /\ init.state = "IDLE" /\ ~init.done /\ ~top.done => AllWritten(0)
    /\ init.state \in {"LOAD", "DELAY", "WRITE"} \/ (init.state = "WAIT_WR" /\ ~Sent) =>
           AllWritten(init.idx - 1)
    /\ init.state = "NEXT" \/ (init.state = "WAIT_WR" /\ Sent /\ ~Lost) => AllWritten(init.idx)
    /\ init.state = "DONE" \/ init.done \/ top.done => AllWritten(Len(Table))

\* One case per state of the initialisation.
LEMMA WrittenStep ==
    ASSUME BusOk, InitTypes, InitTypes', TopTypes, OnceInv, OnceInv', InitInv, InitInv',
           HandInv, HandInv', WrittenInv,
           written \in Seq(Bytes \X Bytes),
           top' = TopNext, init' = InitNext, wr' = WrNext, held' = held,
           NEW answers \in BOOLEAN, Takes(answers)
    PROVE  WrittenInv'
<1> SUFFICES ASSUME NoErrorYet' PROVE WrittenInv'
  BY DEF WrittenInv
<1>g. NoErrorYet /\ (wr.done /\ init.state = "WAIT_WR" => ~wr.ackError)
  <2>1. top'.error = (top.error \/ init.error)
    BY DEF TopNext
  <2>2. wr.done /\ init.state = "WAIT_WR" => init'.error = (init.error \/ wr.ackError)
    BY InitSteps
  <2> QED  BY <2>1, <2>2 DEF NoErrorYet
<1>t. /\ init.idx \in 1..(Len(Table) + 1) /\ Len(Table) \in Nat
      /\ init.done \in BOOLEAN /\ top.done \in BOOLEAN /\ top.start \in BOOLEAN
      /\ init.done => init.state = "IDLE"
      /\ top'.done = (top.done \/ init.done)
  BY TableAssumption DEF InitTypes, TopTypes, InitInv, TopNext
<1>k. ASSUME NEW n \in Nat, AllWritten(n), ~LastAck PROVE AllWritten(n)'
  <2>1. written' = written
    BY <1>k, BusStep
  <2> QED  BY <1>k, <2>1 DEF AllWritten, WritesIn
<1>r. /\ init.state # "WAIT_WR" => ~LastAck
      /\ wr.done => ~LastAck
  BY DEF HandInv, AtRest, LastAck
<1>n. /\ init'.state # "WAIT_WR" \/ init.state = "WRITE" => ~wr'.done /\ wr'.state = "IDLE"
  <2>1. init.state = "WRITE" => init'.start
    BY InitSteps
  <2> QED  BY <2>1 DEF HandInv, AtRest
<1>1. CASE init.state = "IDLE" /\ (init.done \/ top.done)
  <2>1. ~top.start /\ init'.state = "IDLE" /\ ~init'.done /\ top'.done
    BY <1>1, <1>t, InitSteps DEF OnceInv, GoesTo
  <2>2. AllWritten(Len(Table))'
    BY <1>1, <1>g, <1>t, <1>k, <1>r DEF WrittenInv
  <2> QED  BY <2>1, <2>2 DEF WrittenInv
<1>2. CASE init.state = "IDLE" /\ ~init.done /\ ~top.done
  <2>1. (init'.state = "IDLE" \/ init'.state = "LOAD") /\ init'.idx = 1 /\ ~init'.done
        /\ ~top'.done
    BY <1>2, <1>t, InitSteps DEF GoesTo
  <2>2. AllWritten(0)'
    BY <1>2, <1>g, <1>k, <1>r DEF WrittenInv
  <2>3. AllWritten(init.idx - 1)'
    BY <2>1, <2>2 DEF AllWritten
  <2> QED  BY <2>1, <2>2, <2>3 DEF WrittenInv
<1>3. CASE init.state = "LOAD"
  <2>1. init'.idx = init.idx /\ ~init'.done /\ ~top'.done
        /\ init'.state \in {"DELAY", "WRITE", "DONE"}
        /\ (init'.state = "DONE" => init.idx > Len(Table))
    BY <1>3, <1>t, InitSteps DEF GoesTo, OnceInv, TableEnd
  <2>2. PICK n \in Nat : n = init.idx - 1 /\ n = init'.idx - 1
    BY <1>t, <2>1
  <2>3. AllWritten(n)
    BY <1>3, <1>g, <2>2 DEF WrittenInv
  <2>4. AllWritten(n)'
    BY <1>3, <1>k, <1>r, <2>3
  <2>5. AllWritten(init.idx - 1)'
    BY <2>2, <2>4 DEF AllWritten
  <2>6. init'.state = "DONE" => AllWritten(Len(Table))'
    <3>1. init'.state = "DONE" => n = Len(Table)
      BY <1>t, <2>1, <2>2
    <3> QED  BY <2>4, <3>1
  <2> QED  BY <2>1, <2>5, <2>6 DEF WrittenInv
<1>4. CASE init.state = "DELAY" \/ init.state = "WRITE"
  <2>1. init'.idx = init.idx /\ ~init'.done /\ ~top'.done
        /\ \/ init'.state = "DELAY"
           \/ init'.state = "WAIT_WR" /\ ~Sent'
           \/ init'.state = "NEXT" /\ Entry.delay # 0 /\ init.idx \in 1..Len(Table)
    <3>1. CASE init.state = "WRITE"
      BY <1>t, <1>n, <3>1, InitSteps DEF GoesTo, OnceInv, Sent
    <3>2. CASE init.state = "DELAY"
      <4>1. init.idx \in 1..Len(Table) /\ Entry.delay # 0
        BY <1>t, <3>2, EntryTypes DEF InitInv, InitTypes, Entry
      <4> QED  BY <1>t, <3>2, <4>1, InitSteps DEF GoesTo, OnceInv
    <3> QED  BY <1>4, <3>1, <3>2
  <2>2. PICK n \in Nat : n = init.idx - 1 /\ n = init'.idx - 1
    BY <1>t, <2>1
  <2>3. AllWritten(n)
    BY <1>4, <1>g, <2>2 DEF WrittenInv
  <2>4. AllWritten(n)'
    BY <1>4, <1>k, <1>r, <2>3
  <2>5. AllWritten(init.idx - 1)'
    BY <2>2, <2>4 DEF AllWritten
  <2>6. CASE init'.state = "NEXT"
    <3>1. PICK m \in 1..Len(Table) : m = init.idx /\ m = init'.idx /\ Table[m].delay # 0
      BY <2>1, <2>6 DEF Entry
    <3>2. m - 1 = n /\ m \in Nat
      BY <2>2, <3>1
    <3>3. AllWritten(m)
      BY <2>3, <3>1, <3>2, DelayWritten
    <3>4. AllWritten(m)'
      BY <1>4, <1>k, <1>r, <3>2, <3>3
    <3>5. AllWritten(init.idx)'
      BY <3>1, <3>4 DEF AllWritten
    <3> QED  BY <2>1, <2>5, <2>6, <3>5 DEF WrittenInv
  <2>7. CASE init'.state # "NEXT"
    BY <2>1, <2>5, <2>7 DEF WrittenInv
  <2> QED  BY <2>6, <2>7
<1>5. CASE init.state = "WAIT_WR" /\ wr.done
  <2>1. /\ init'.idx = init.idx /\ ~init'.done /\ ~top'.done /\ init'.state = "NEXT"
        /\ Sent /\ ~Lost
    <3>0. wr.state = "IDLE"
      BY <1>5 DEF HandInv, AtRest
    <3>1. ~wr.ackError /\ wr.state = "IDLE"
      BY <1>5, <1>g, <3>0
    <3>2. Sent /\ ~Lost
      BY <1>5, <3>1 DEF Sent, Lost
    <3> QED  BY <1>5, <1>t, <3>2, InitSteps DEF GoesTo, OnceInv
  <2>2. PICK n \in Nat : n = init.idx /\ n = init'.idx
    BY <1>t, <2>1
  <2>3. AllWritten(n)'
    BY <1>5, <1>g, <1>k, <1>r, <2>1, <2>2 DEF WrittenInv
  <2>4. AllWritten(init.idx)'
    BY <2>2, <2>3 DEF AllWritten
  <2> QED  BY <2>1, <2>4 DEF WrittenInv
<1>6. CASE init.state = "WAIT_WR" /\ ~wr.done
  <2>1. init'.idx = init.idx /\ ~init'.done /\ ~top'.done /\ init'.state = "WAIT_WR"
    BY <1>6, <1>t, InitSteps DEF GoesTo, OnceInv
  <2>2. init.idx \in 1..Len(Table) /\ Entry.delay = 0
    BY <1>6, <1>t DEF InitInv
  <2>3. PICK m \in 1..Len(Table) : m = init.idx /\ m = init'.idx /\ Table[m].delay = 0
    BY <2>1, <2>2 DEF Entry
  <2>4. m \in Nat /\ m - 1 \in Nat
    OBVIOUS
  <2>5. ~Sent => AllWritten(m - 1)
    BY <1>6, <1>g, <2>3 DEF WrittenInv
  <2>6. (Sent /\ ~Lost) => AllWritten(m)
    BY <1>6, <1>g, <2>3 DEF WrittenInv
  <2>7. ~Sent' => AllWritten(m - 1)'
    <3>1. ~Sent' => ~Sent /\ ~LastAck
      BY <1>6, SentStep
    <3> QED  BY <1>k, <2>4, <2>5, <3>1
  <2>8. (Sent' /\ ~Lost') => AllWritten(m)'
    <3>1. CASE LastAck /\ Sent' /\ ~Lost'
      <4>1. ~Sent /\ ~GaveUp'
        BY <3>1, SentStep DEF Lost, LastAck
      <4>2. written' = Append(written, <<Entry.reg, Entry.data>>)
        BY <3>1, <4>1, BusStep
      <4>3. written' = Append(written, <<Table[m].reg, Table[m].data>>)
        BY <2>3, <4>2 DEF Entry
      <4>4. Table[m].reg \in Bytes /\ Table[m].data \in Bytes
        BY <2>3, EntryTypes
      <4> QED  BY <2>3, <2>5, <4>1, <4>3, <4>4, EntryWritten
    <3>2. CASE ~LastAck /\ Sent' /\ ~Lost'
      <4>1. Sent /\ ~Lost
        BY <1>6, <3>2, SentStep
      <4> QED  BY <1>k, <2>4, <2>6, <3>2, <4>1
    <3> QED  BY <3>1, <3>2
  <2>9. ~Sent' => AllWritten(init.idx - 1)'
    BY <2>3, <2>7 DEF AllWritten
  <2>10. (Sent' /\ ~Lost') => AllWritten(init.idx)'
    BY <2>3, <2>8 DEF AllWritten
  <2> QED  BY <2>1, <2>9, <2>10 DEF WrittenInv
<1>7. CASE init.state = "NEXT"
  <2>1. init'.idx = init.idx + 1 /\ ~init'.done /\ ~top'.done /\ init'.state = "LOAD"
    BY <1>7, <1>t, InitSteps DEF GoesTo, OnceInv
  <2>2. PICK n \in Nat : n = init.idx /\ n = init'.idx - 1
    BY <1>t, <2>1
  <2>3. AllWritten(n)'
    BY <1>7, <1>g, <1>k, <1>r, <2>1, <2>2 DEF WrittenInv
  <2>4. AllWritten(init.idx - 1)'
    BY <2>2, <2>3 DEF AllWritten
  <2> QED  BY <2>1, <2>4 DEF WrittenInv
<1>8. CASE init.state = "DONE"
  <2>1. ~top'.done /\ init'.done /\ init'.state = "IDLE"
    BY <1>8, <1>t, InitSteps DEF GoesTo, OnceInv
  <2>2. AllWritten(Len(Table))'
    BY <1>8, <1>g, <1>k, <1>r, <1>t DEF WrittenInv
  <2> QED  BY <2>1, <2>2 DEF WrittenInv
<1> QED  BY <1>1, <1>2, <1>3, <1>4, <1>5, <1>6, <1>7, <1>8 DEF InitTypes

\* The inductive invariant.
SccbInv ==
    /\ SccbCoreInv /\ PullsInv /\ ByteInv /\ OnceInv /\ WrittenInv
    /\ ~held => BusInv

\* It holds from the start and is kept by a clock and by a reset.
LEMMA SccbInvStart == SccbBegin => SccbInv
<1> SUFFICES ASSUME SccbBegin PROVE SccbInv
  OBVIOUS
<1>1. SccbCoreInv
  BY SccbCoreStart
<1>2. PullsInv /\ ByteInv
  BY DEF SccbBegin, ResetWr, PullsInv, ByteInv
<1>3. OnceInv
  BY DEF SccbBegin, ResetTop, ResetInit, OnceInv
<1>4. WrittenInv
  <2>1. AllWritten(0)
    BY <1>1, SccbTypeParts, NoneWritten DEF SccbCoreInv, SccbBegin
  <2>2. init.state = "IDLE" /\ ~init.done /\ ~top.done
    BY DEF SccbBegin, ResetTop, ResetInit
  <2> QED  BY <2>1, <2>2 DEF WrittenInv
<1>5. BusInv
  BY DEF SccbBegin, ResetWr, IdleSlave, BusInv, Released
<1> QED  BY <1>1, <1>2, <1>3, <1>4, <1>5 DEF SccbInv

LEMMA SccbInvClk ==
    ASSUME SccbInv, Clk
    PROVE  SccbInv'
<1>1. SccbCoreInv' /\ held' = held
  BY CoreClk DEF SccbInv
<1>2. /\ TopTypes /\ InitTypes /\ WrTypes /\ SlaveTypes /\ written \in Seq(Bytes \X Bytes)
      /\ InitInv /\ HandInv /\ SlaveInv /\ PullsInv /\ ByteInv /\ OnceInv /\ WrittenInv
  BY SccbTypeParts DEF SccbInv, SccbCoreInv
<1>3. InitTypes' /\ WrTypes' /\ InitInv' /\ HandInv'
  BY <1>1 DEF SccbCoreInv, SccbTypeOK, InitTypes, WrTypes
<1>4. top' = TopNext /\ init' = InitNext /\ wr' = WrNext
  BY DEF Clk
<1>5. PICK answers \in BOOLEAN : Takes(answers)
  BY DEF Clk, Takes
<1>6. PullsInv' /\ ByteInv' /\ OnceInv'
  BY <1>2, <1>4, PullsStep, ByteStep, OnceStep
<1>7. CASE held
  <2>1. WrittenInv'
    BY <1>1, <1>7 DEF WrittenInv, NoErrorYet
  <2> QED  BY <1>1, <1>6, <1>7, <2>1 DEF SccbInv
<1>8. CASE ~held
  <2>1. BusOk
    BY <1>2, <1>3, <1>6, <1>8 DEF SccbInv, BusOk
  <2>2. BusInv'
    BY <1>2, <1>4, <1>5, <2>1, BusStep
  <2>3. WrittenInv'
    BY <1>1, <1>2, <1>3, <1>4, <1>5, <1>6, <2>1, WrittenStep
  <2> QED  BY <1>1, <1>6, <2>2, <2>3 DEF SccbInv
<1> QED  BY <1>7, <1>8

LEMMA SccbInvReset ==
    ASSUME SccbInv, Reset
    PROVE  SccbInv'
<1>1. SccbCoreInv' /\ (slave'.sda <=> slave.sda)
  BY CoreReset DEF SccbInv
<1>2. PullsInv' /\ ByteInv'
  BY DEF Reset, ResetWr, PullsInv, ByteInv
<1>3. OnceInv'
  BY DEF Reset, ResetTop, ResetInit, OnceInv
<1>4. WrittenInv'
  <2>1. AllWritten(0)'
    BY WritesCount DEF Reset, AllWritten
  <2>2. init'.state = "IDLE" /\ ~init'.done /\ ~top'.done
    BY DEF Reset, ResetTop, ResetInit
  <2> QED  BY <2>1, <2>2 DEF WrittenInv
<1>5. ~held' => BusInv'
  <2>1. held' = slave.sda /\ wr'.state = "IDLE"
    BY DEF Reset, ResetWr
  <2> QED  BY <1>1, <2>1 DEF BusInv, Released
<1> QED  BY <1>1, <1>2, <1>3, <1>4, <1>5 DEF SccbInv

LEMMA SccbInvStep == SccbInv /\ [SccbNext]_sccbVars => SccbInv'
<1> SUFFICES ASSUME SccbInv, [SccbNext]_sccbVars PROVE SccbInv'
  OBVIOUS
<1>1. CASE Clk
  BY <1>1, SccbInvClk
<1>2. CASE Reset
  BY <1>2, SccbInvReset
<1>3. CASE UNCHANGED sccbVars
  BY <1>3, SccbCoreStep
     DEF sccbVars, SccbInv, PullsInv, ByteInv, OnceInv, WrittenInv, BusInv, NoErrorYet, Sent,
          Lost, GaveUp,
         AllWritten, Released, Receives, Answers, BitsSent, BitOf, SelectByte, Entry
<1> QED  BY <1>1, <1>2, <1>3 DEF SccbNext

\* When the initialisation is reported as done without an error, every entry of the table has
\* been written to the camera, in order: ov2640_sccb_init and sccb_master_write, bit by bit,
\* for every table, divider, number of resets and byte the camera does not answer.
THEOREM SccbDoneMeansWritten == SccbSpec => []DoneMeansWritten
<1>1. SccbInv => DoneMeansWritten
  BY DEF SccbInv, OnceInv, WrittenInv, NoErrorYet, DoneMeansWritten
<1> QED  BY <1>1, SccbInvStart, SccbInvStep, PTL DEF SccbSpec

\* The clocks since the last STOP cover the delay that has been counted.
Before == IF init.idx = 1 THEN 0 ELSE Table[init.idx - 1].delay
\* No START has been sent for the entry.
BeforeStart == wr.state = "IDLE" \/ (wr.state = "START" /\ wr.phase \in {0, 1})
QuietInv ==
    /\ init.state = "DELAY" => quiet >= init.delay
    /\ init.state = "NEXT" => quiet >= Entry.delay
    /\ init.state \in {"LOAD", "WRITE"} \/ (init.state = "WAIT_WR" /\ ~wr.done /\ BeforeStart) =>
           quiet >= Before

\* A write is started from IDLE only.
LEMMA StayBusy ==
    ASSUME WrTypes, wr' = WrNext, div.tick, wr.state \notin {"IDLE", "START"}
    PROVE  wr'.state # "START"
<1>p. wr.phase = 0 \/ wr.phase = 1 \/ wr.phase = 2 \/ wr.phase = 3
  BY DEF WrTypes
<1>1. CASE wr.state = "SEND"
  <2>1. wr.bit = 0 \/ wr.bit > 0
    BY SccbAssumption DEF WrTypes
  <2> QED  BY <1>p, <1>1, <2>1, SendTick DEF GoesAt
<1>2. CASE wr.state = "ACK"
  BY <1>p, <1>2, AckTick DEF GoesAt
<1>3. CASE wr.state = "STOP"
  BY <1>p, <1>3, StopTick DEF GoesAt
<1>4. CASE wr.state = "DONE"
  BY <1>4, DoneTick DEF GoesAt
<1> QED  BY <1>1, <1>2, <1>3, <1>4 DEF WrTypes

\* One case per state of the initialisation.
LEMMA QuietClk ==
    ASSUME SccbCoreInv, SccbCoreInv', PullsInv, QuietInv, Clk
    PROVE  QuietInv'
<1>1. /\ InitTypes /\ WrTypes /\ SlaveTypes /\ InitInv /\ HandInv /\ quiet \in 0..LongestDelay
      /\ LongestDelay \in Nat
  BY SccbTypeParts, SccbAssumption DEF SccbCoreInv
<1>2. InitTypes' /\ WrTypes' /\ InitInv' /\ quiet' \in 0..LongestDelay /\ HandInv'
  BY DEF SccbCoreInv, SccbTypeOK, InitTypes, WrTypes
<1>3. init' = InitNext /\ wr' = WrNext
  BY DEF Clk
<1>4. ~wr.sda => quiet' >= quiet /\ (quiet' >= quiet + 1 \/ quiet' = LongestDelay)
  <2>1. ~wr.sda => quiet' = IF quiet < LongestDelay THEN quiet + 1 ELSE quiet
    BY <1>1, <1>2, StopWhen DEF Clk
  <2> QED  BY ONLY <1>1, <2>1
<1>5. wr.state = "IDLE" \/ BeforeStart => ~wr.sda
  BY DEF PullsInv, BeforeStart
<1>t. /\ init.idx \in 1..(Len(Table) + 1) /\ Len(Table) \in Nat /\ init.delay \in Nat
      /\ init.idx <= Len(Table) => Entry.delay \in 0..LongestDelay
  BY <1>1, TableAssumption, EntryTypes DEF InitTypes, Entry
<1>6. CASE init.state = "IDLE"
  <2>1. init'.idx = 1 /\ (init'.state = "IDLE" \/ init'.state = "LOAD")
    BY <1>1, <1>3, <1>6, InitSteps DEF GoesTo
  <2> QED  BY <1>2, <2>1 DEF QuietInv, Before
<1>7. CASE init.state = "LOAD"
  <2>1. /\ init'.idx = init.idx /\ Before' = Before
        /\ \/ init'.state = "DELAY" /\ init'.delay = 0
           \/ init'.state = "WRITE"
           \/ init'.state = "DONE"
    BY <1>1, <1>3, <1>7, InitSteps DEF GoesTo, Before
  <2>2. quiet >= Before /\ quiet' >= quiet
    BY <1>1, <1>4, <1>5, <1>7 DEF QuietInv, HandInv, AtRest
  <2>3. Before \in Nat
    <3>1. init.idx # 1 => init.idx - 1 \in 1..Len(Table)
      BY <1>t
    <3> QED  BY <3>1, EntryTypes DEF Before
  <2>4. quiet' >= Before'
    BY ONLY <1>1, <1>2, <2>1, <2>2, <2>3
  <2> QED  BY <1>2, <2>1, <2>4 DEF QuietInv
<1>8. CASE init.state = "DELAY"
  <2>1. /\ init'.idx = init.idx /\ Entry' = Entry /\ init.delay < Entry.delay
        /\ \/ init'.state = "DELAY" /\ init'.delay = init.delay + 1
           \/ init'.state = "NEXT" /\ init.delay >= Entry.delay - 1
    BY <1>1, <1>3, <1>8, InitSteps DEF GoesTo, Delayed, Entry, InitInv
  <2>2. quiet >= init.delay /\ (quiet' >= quiet + 1 \/ quiet' = LongestDelay)
    BY <1>1, <1>4, <1>5, <1>8 DEF QuietInv, HandInv, AtRest
  <2>3. Entry.delay \in 0..LongestDelay
    BY <1>1, <1>8, <1>t DEF InitInv
  <2>4. /\ init'.state = "DELAY" => quiet' >= init'.delay
        /\ init'.state = "NEXT" => quiet' >= Entry.delay
    BY ONLY <1>1, <1>2, <1>t, <2>1, <2>2, <2>3
  <2> QED  BY <2>1, <2>4 DEF QuietInv
<1>9. CASE init.state = "NEXT"
  <2>1. /\ init'.idx = init.idx + 1 /\ init'.state = "LOAD"
    BY <1>1, <1>3, <1>9, InitSteps DEF GoesTo
  <2>2. Before' = Entry.delay
    BY <1>t, <2>1 DEF Before, Entry
  <2>3. quiet >= Entry.delay /\ quiet' >= quiet
    BY <1>1, <1>4, <1>5, <1>9 DEF QuietInv, HandInv, AtRest
  <2>4. Entry.delay \in 0..LongestDelay
    BY <1>1, <1>9, <1>t DEF InitInv
  <2>5. quiet' >= Before'
    BY ONLY <1>1, <1>2, <2>2, <2>3, <2>4
  <2> QED  BY <2>1, <2>5 DEF QuietInv
<1>10. CASE init.state = "WRITE"
  <2>1. /\ init'.idx = init.idx /\ Before' = Before /\ init'.state = "WAIT_WR"
    BY <1>1, <1>3, <1>10, InitSteps DEF GoesTo, Before
  <2>2. quiet >= Before /\ quiet' >= quiet
    BY <1>1, <1>4, <1>5, <1>10 DEF QuietInv, HandInv, AtRest
  <2>3. Before \in Nat
    <3>1. init.idx # 1 => init.idx - 1 \in 1..Len(Table)
      BY <1>t
    <3> QED  BY <3>1, EntryTypes DEF Before
  <2>4. quiet' >= Before'
    BY ONLY <1>1, <1>2, <2>1, <2>2, <2>3
  <2> QED  BY <2>1, <2>4 DEF QuietInv
<1>11. CASE init.state = "WAIT_WR" /\ wr.done
  <2>1. /\ init'.idx = init.idx /\ Entry' = Entry /\ init'.state = "NEXT" /\ Entry.delay = 0
    BY <1>1, <1>3, <1>11, InitSteps DEF GoesTo, Entry, InitInv
  <2> QED  BY <1>2, <2>1 DEF QuietInv
<1>12. CASE init.state = "WAIT_WR" /\ ~wr.done
  <2>1. /\ init'.idx = init.idx /\ Before' = Before /\ init'.state = "WAIT_WR"
    BY <1>1, <1>3, <1>12, InitSteps DEF GoesTo, Before
  <2>2. ~wr'.done /\ BeforeStart' => BeforeStart
    <3>1. CASE ~div.tick
      BY <1>1, <1>3, <3>1, WrWaits DEF BeforeStart, GoesAt
    <3>2. CASE div.tick /\ wr.state = "START"
      <4>1. wr.phase = 0 \/ wr.phase = 1 \/ wr.phase = 2 \/ wr.phase = 3
        BY <1>1 DEF WrTypes
      <4>2. CASE wr.phase = 0 \/ wr.phase = 1
        BY <3>2, <4>2 DEF BeforeStart
      <4>3. CASE wr.phase = 2
        BY <1>1, <1>3, <3>2, <4>3, StartTick DEF BeforeStart, GoesAt
      <4>4. CASE wr.phase = 3
        BY <1>1, <1>3, <3>2, <4>4, StartTick DEF BeforeStart, GoesAt
      <4> QED  BY <4>1, <4>2, <4>3, <4>4
    <3>3. CASE div.tick /\ wr.state # "START" /\ wr.state # "IDLE"
      <4>1. wr'.state = "START" => wr'.done
        BY <1>1, <1>3, <3>3, StayBusy
      <4>2. wr'.state = "IDLE" => wr'.done
        BY <1>1, <1>3, <3>3, WrMoves
      <4> QED  BY <4>1, <4>2 DEF BeforeStart
    <3>4. CASE wr.state = "IDLE"
      BY <3>4 DEF BeforeStart
    <3> QED  BY <3>1, <3>2, <3>3, <3>4
  <2>3. BeforeStart => quiet >= Before /\ quiet' >= quiet
    BY <1>1, <1>4, <1>5, <1>12 DEF QuietInv
  <2>4. Before \in Nat
    <3>1. init.idx # 1 => init.idx - 1 \in 1..Len(Table)
      BY <1>t
    <3> QED  BY <3>1, EntryTypes DEF Before
  <2>5. BeforeStart => quiet' >= Before'
    BY ONLY <1>1, <1>2, <2>1, <2>3, <2>4
  <2> QED  BY <2>1, <2>2, <2>5 DEF QuietInv
<1>13. CASE init.state = "DONE"
  <2>1. init'.state = "IDLE"
    BY <1>1, <1>3, <1>13, InitSteps DEF GoesTo
  <2> QED  BY <2>1 DEF QuietInv
<1> QED  BY <1>1, <1>6, <1>7, <1>8, <1>9, <1>10, <1>11, <1>12, <1>13 DEF InitTypes

\* It holds from the start and after a reset.
LEMMA QuietStart == SccbBegin => QuietInv
BY DEF SccbBegin, ResetInit, QuietInv

LEMMA QuietReset ==
    ASSUME Reset PROVE QuietInv'
BY DEF Reset, ResetInit, QuietInv

\* No write begins before the delay, nor with the reset.
LEMMA DelayClk ==
    ASSUME SccbCoreInv, SccbCoreInv', PullsInv, QuietInv, Clk,
           StartSeen(Wires(wr, slave), Wires(wr', slave')), init.idx > 1
    PROVE  quiet >= Table[init.idx - 1].delay
<1>1. /\ InitTypes /\ WrTypes /\ WrTypes' /\ SlaveTypes /\ InitInv /\ HandInv /\ wr' = WrNext
         /\ init' = InitNext
  BY SccbTypeParts DEF SccbCoreInv, Clk, SccbTypeOK, WrTypes
<1>2. ~wr.scl /\ ~wr'.scl /\ ~wr.sda /\ ~slave.sda /\ (wr'.sda \/ slave'.sda)
  BY <1>1 DEF StartSeen, Wires, WrTypes, SlaveTypes
<1>3. wr'.sda
  <2>1. PICK answers \in BOOLEAN :
            slave' = SlaveAfter(slave, Wires(wr, slave), Wires(wr', slave), answers)
    BY DEF Clk
  <2>2. ~slave'.sda
    <3>0. wr.sda \in BOOLEAN /\ wr'.sda \in BOOLEAN
      BY <1>1 DEF WrTypes
    <3>1. slave' = slave \/ slave' = [IdleSlave EXCEPT !.doing = "receive"] \/ slave' = IdleSlave
      BY <1>1, <1>2, <2>1, <3>0, SlaveSteps
    <3> QED  BY <1>2, <3>1 DEF IdleSlave
  <2> QED  BY <1>2, <2>2
<1>4. wr.state = "START" /\ wr.phase = 1
  <2>p. wr.phase = 0 \/ wr.phase = 1 \/ wr.phase = 2 \/ wr.phase = 3
    BY <1>1 DEF WrTypes
  <2>1. div.tick
    BY <1>1, <1>2, <1>3, WrWaits DEF Pulls
  <2>2. wr.state # "IDLE" /\ wr.state # "DONE"
    BY <1>1, <1>3, <2>1, IdleTick, DoneTick DEF Pulls
  <2>3. wr.state # "SEND"
    <3>1. ASSUME wr.state = "SEND" PROVE FALSE
      <4>1. wr.phase = 2 \/ wr.phase = 3
        BY <1>2, <2>p, <3>1 DEF PullsInv
      <4>2. wr'.sda = wr.sda
        <5>1. wr.bit = 0 \/ wr.bit > 0
          BY <1>1, SccbAssumption DEF WrTypes
        <5>2. CASE wr.phase = 2
          BY <1>1, <2>1, <3>1, <5>2, SendTick DEF Pulls
        <5>3. CASE wr.phase = 3
          BY <1>1, <2>1, <3>1, <5>1, <5>3, SendTick DEF Pulls
        <5> QED  BY <4>1, <5>2, <5>3
      <4> QED  BY <1>2, <1>3, <4>2
    <3> QED  BY <3>1
  <2>4. wr.state # "ACK"
    <3>1. ASSUME wr.state = "ACK" PROVE FALSE
      <4>1. wr.phase = 2 \/ wr.phase = 3
        BY <1>2, <2>p, <3>1 DEF PullsInv
      <4>2. CASE wr.phase = 2
        BY <1>1, <1>2, <1>3, <2>1, <3>1, <4>2, AckTick DEF Pulls
      <4>3. CASE wr.phase = 3
        BY <1>1, <1>2, <1>3, <2>1, <3>1, <4>3, AckTick DEF Pulls
      <4> QED  BY <4>1, <4>2, <4>3
    <3> QED  BY <3>1
  <2>5. wr.state # "STOP"
    <3>1. ASSUME wr.state = "STOP" PROVE FALSE
      <4>1. wr.phase = 3
        BY <1>2, <2>p, <3>1 DEF PullsInv
      <4> QED  BY <1>1, <1>2, <1>3, <2>1, <3>1, <4>1, StopTick DEF Pulls
    <3> QED  BY <3>1
  <2>6. wr.state = "START"
    BY <1>1, <2>2, <2>3, <2>4, <2>5 DEF WrTypes
  <2>7. wr.phase # 0 /\ wr.phase # 3 /\ wr.phase # 2
    BY <1>1, <1>2, <1>3, <2>1, <2>6, StartTick DEF Pulls, PullsInv
  <2> QED  BY <2>p, <2>6, <2>7
<1>5. init.state = "WAIT_WR" /\ ~wr.done
  BY <1>1, <1>4, InitWaits
<1> QED  BY <1>4, <1>5 DEF QuietInv, BeforeStart, Before

LEMMA DelayReset ==
    ASSUME SccbCoreInv, Reset
    PROVE  ~StartSeen(Wires(wr, slave), Wires(wr', slave'))
<1>1. slave'.sda <=> slave.sda
  BY CoreReset
<1>2. wr'.sda = FALSE
  BY DEF Reset, ResetWr
<1>3. WrTypes /\ SlaveTypes
  BY SccbTypeParts DEF SccbCoreInv
<1> QED  BY <1>1, <1>2, <1>3 DEF StartSeen, Wires, WrTypes, SlaveTypes

\* Between the STOP before a delay of the table and the START after it, at least the clocks of
\* the delay have passed, whatever the resets.
THEOREM SccbDelayKept == SccbSpec => DelayKept
<1> DEFINE Inv == SccbCoreInv /\ PullsInv /\ QuietInv
<1>1. SccbBegin => Inv
  BY SccbInvStart, QuietStart DEF SccbInv
<1>2. Inv /\ [SccbNext]_sccbVars => Inv'
  <2> SUFFICES ASSUME Inv, [SccbNext]_sccbVars PROVE Inv'
    OBVIOUS
  <2>1. SccbCoreInv'
    BY SccbCoreStep
  <2>2. CASE Clk
    <3>1. WrTypes /\ wr' = WrNext
      BY <2>2, SccbTypeParts DEF SccbCoreInv, Clk
    <3>2. PullsInv'
      BY <3>1, PullsStep
    <3> QED  BY <2>1, <2>2, <3>2, QuietClk
  <2>3. CASE Reset
    <3>1. PullsInv'
      BY <2>3 DEF Reset, ResetWr, PullsInv
    <3> QED  BY <2>1, <2>3, <3>1, QuietReset
  <2>4. CASE UNCHANGED sccbVars
    BY <2>1, <2>4 DEF sccbVars, PullsInv, BitOf, QuietInv, BeforeStart, Before, Entry
  <2> QED  BY <2>2, <2>3, <2>4 DEF SccbNext
<1>3. Inv /\ Inv' /\ [SccbNext]_sccbVars =>
          [StartSeen(Wires(wr, slave), Wires(wr', slave')) /\ init.idx > 1 =>
               quiet >= Table[init.idx - 1].delay]_sccbVars
  <2> SUFFICES ASSUME Inv, Inv', [SccbNext]_sccbVars,
                      StartSeen(Wires(wr, slave), Wires(wr', slave')), init.idx > 1,
                      sccbVars' # sccbVars
               PROVE  quiet >= Table[init.idx - 1].delay
    OBVIOUS
  <2>1. CASE Clk
    BY <2>1, DelayClk
  <2>2. CASE Reset
    BY <2>2, DelayReset
  <2> QED  BY <2>1, <2>2 DEF SccbNext
<1> QED  BY <1>1, <1>2, <1>3, PTL DEF SccbSpec, DelayKept
==============================================================================
