----------------------------- MODULE FrameBuffer -----------------------------
(***************************************************************************)
(* The double buffer of edge_ddr3_framebuffer.  The camera (camera_pclk)   *)
(* writes frames into one DDR3 bank; the preview generator (eth_clk125m)   *)
(* reads the bank of the last complete frame.  Four registers cross the    *)
(* clock domains through two flip-flops and are seen late on the other     *)
(* side.                                                                   *)
(*                                                                         *)
(* A frame is Blocks blocks of pixels.  A block takes hundreds of clocks,  *)
(* so no block is moved while a register or a pulse is still crossing; the *)
(* end of a frame and the start of a read take one clock and may meet      *)
(* stale copies.  The bursts between the FIFOs and the DDR3 memory         *)
(* (edge_fifo2mig_axi) are taken as prompt.                                *)
(*                                                                         *)
(* A loss of eth_clk_locked resets the preview generator and one side of   *)
(* the synchroniser of the end of a frame, but nothing of the buffer.      *)
(***************************************************************************)
EXTENDS Integers, FiniteSets

CONSTANTS
    Blocks,        \* blocks of a frame
    ReadTime,      \* blocks the camera writes while a preview is read and sent, at most
    ShortFrames,   \* the camera may deliver a frame with missing lines
    MaxFrames,     \* frames of a behaviour (bound)
    MaxRelocks     \* losses of eth_clk_locked of a behaviour (bound)

ASSUME BlocksAssumption == Blocks \in Nat \ {0}
ASSUME ReadTimeAssumption == ReadTime \in Nat \ {0}
ASSUME SwitchesAssumption == ShortFrames \in BOOLEAN
ASSUME BoundsAssumption == MaxFrames \in Nat /\ MaxRelocks \in Nat

VARIABLES
    frame,     \* number of the frame the camera delivers
    wr,        \* camera_pclk: wr_bank_cam, latest_completed_bank_cam, wr_pixel_cnt
    rd,        \* rd_clk: rd_bank_sel_rd, rd_busy_rd, rd_pixel_cnt
    cdc,       \* latest_completed_bank_rd, rd_busy_cam, rd_bank_cam, and the pulse
               \* synchroniser of wr_frame_done_dbg: src_toggle and its flip-flops
    preview,   \* eth_clk_locked and the preview generator: reading, frame_pending, and
               \* the blocks the camera wrote since the read started
    mem,       \* mem[b][i]: frame whose block i bank b holds
    whole,     \* history: the last complete frame
    seen,      \* history: the frames the read in progress has met
    torn,      \* history: reads that met more than one frame
    relocks    \* losses of the lock so far (bound)

vars == <<frame, wr, rd, cdc, preview, mem, whole, seen, torn, relocks>>

Banks == {0, 1}
Other(b) == 1 - b

Init ==
    /\ frame = 1
    /\ wr = [bank |-> 0, latest |-> 0, cnt |-> 0]
    \* rdfifo_clr is high when the reset ends, which marks the reader busy.
    /\ rd = [bank |-> 0, busy |-> TRUE, cnt |-> 0]
    /\ cdc = [latest |-> 0, busy |-> FALSE, bank |-> 0, toggle |-> FALSE, sync |-> FALSE]
    /\ preview = [locked |-> TRUE, reading |-> FALSE, pending |-> FALSE, age |-> 0]
    /\ mem = [b \in Banks |-> [i \in 1..Blocks |-> 0]]
    /\ whole = 0 /\ seen = {} /\ torn = 0 /\ relocks = 0

(***************************************************************************)
(* Clock domain crossings.                                                 *)
(***************************************************************************)
SyncLatest ==
    /\ cdc.latest # wr.latest
    /\ cdc' = [cdc EXCEPT !.latest = wr.latest]
    /\ UNCHANGED <<frame, wr, rd, preview, mem, whole, seen, torn, relocks>>

SyncBusy ==
    /\ cdc.busy # rd.busy
    /\ cdc' = [cdc EXCEPT !.busy = rd.busy]
    /\ UNCHANGED <<frame, wr, rd, preview, mem, whole, seen, torn, relocks>>

SyncBank ==
    /\ cdc.bank # rd.bank
    /\ cdc' = [cdc EXCEPT !.bank = rd.bank]
    /\ UNCHANGED <<frame, wr, rd, preview, mem, whole, seen, torn, relocks>>

\* A change of the toggle is a pulse on the other side.
Done == cdc.toggle # cdc.sync

\* The toggle changes a clock after latest_completed_bank_cam and passes one flip-flop
\* more.  Without the lock the flip-flops are held in reset.
FrameReady ==
    /\ preview.locked /\ Done /\ cdc.latest = wr.latest
    /\ cdc' = [cdc EXCEPT !.sync = cdc.toggle]
    /\ preview' = [preview EXCEPT !.pending = TRUE]
    /\ UNCHANGED <<frame, wr, rd, mem, whole, seen, torn, relocks>>

\* Nothing is crossing and the generator has left S_IDLE if it had a reason to: the
\* time between two blocks.
Settled ==
    /\ cdc.busy = rd.busy /\ cdc.bank = rd.bank
    /\ preview.locked => cdc.latest = wr.latest /\ ~Done
    /\ preview.pending => preview.reading

(***************************************************************************)
(* The camera.                                                             *)
(***************************************************************************)
MoreToWrite == wr.cnt < Blocks

\* The preview being sent is over within ReadTime blocks of the camera.
InTime == preview.reading => preview.age < ReadTime

WriteBlock ==
    /\ Settled /\ MoreToWrite /\ InTime
    /\ wr' = [wr EXCEPT !.cnt = @ + 1]
    /\ mem' = [mem EXCEPT ![wr.bank][wr.cnt + 1] = frame]
    /\ preview' = [preview EXCEPT !.age = IF preview.reading THEN @ + 1 ELSE 0]
    /\ UNCHANGED <<frame, rd, cdc, whole, seen, torn, relocks>>

\* A writer that changes banks without looking at the reader.
NextBankAlways == Other(wr.bank)
\* A writer that mistakes its own bank for the other one.
NextBankSwapped ==
    IF cdc.busy /\ wr.bank = cdc.bank THEN wr.bank ELSE Other(wr.bank)
NextBank ==
    IF cdc.busy /\ Other(wr.bank) = cdc.bank THEN wr.bank ELSE Other(wr.bank)

\* The first pixel of the next frame carries frame_end_16 and frame_start_16.
FrameEnd ==
    /\ frame < MaxFrames /\ wr.cnt = Blocks /\ InTime
    /\ wr' = [bank |-> NextBank, latest |-> wr.bank, cnt |-> 0]
    /\ cdc' = [cdc EXCEPT !.toggle = ~@]
    /\ frame' = frame + 1 /\ whole' = frame
    /\ UNCHANGED <<rd, preview, mem, seen, torn, relocks>>

\* Too few pixels: the frame is not announced and the next one overwrites it.
ShortFrameEnd ==
    /\ ShortFrames /\ frame < MaxFrames /\ wr.cnt < Blocks
    /\ wr' = [wr EXCEPT !.cnt = 0]
    /\ frame' = frame + 1
    /\ UNCHANGED <<rd, cdc, preview, mem, whole, seen, torn, relocks>>

(***************************************************************************)
(* The preview generator and the read side.                                *)
(***************************************************************************)
\* A reader that takes the bank the camera is writing.
ReadBankNewest == Other(cdc.latest)
ReadBank == cdc.latest

\* S_IDLE to S_PREPARE: rd_frame_restart raises rdfifo_clr, which selects the bank.
StartRead ==
    /\ preview.pending /\ ~preview.reading
    /\ preview' = [preview EXCEPT !.reading = TRUE, !.pending = FALSE, !.age = 0]
    /\ rd' = [bank |-> ReadBank, busy |-> TRUE, cnt |-> 0]
    /\ seen' = {}
    /\ UNCHANGED <<frame, wr, cdc, mem, whole, torn, relocks>>

\* S_FILL of one or more chunks; the last pixel ends rd_busy_rd.
ReadBlock ==
    /\ Settled /\ preview.reading /\ rd.cnt < Blocks
    /\ rd' = [rd EXCEPT !.cnt = @ + 1, !.busy = (rd.cnt + 1 < Blocks)]
    /\ seen' = seen \cup {mem[rd.bank][rd.cnt + 1]}
    /\ torn' = IF rd.cnt + 1 = Blocks /\ Cardinality(seen') > 1 THEN torn + 1 ELSE torn
    /\ UNCHANGED <<frame, wr, cdc, preview, mem, whole, relocks>>

\* tx_done of the last chunk.
EndRead ==
    /\ Settled /\ preview.reading /\ rd.cnt = Blocks
    /\ preview' = [preview EXCEPT !.reading = FALSE, !.age = 0]
    /\ UNCHANGED <<frame, wr, rd, cdc, mem, whole, seen, torn, relocks>>

\* eth_clk_locked drops: the generator and the flip-flops of the pulse synchroniser are
\* reset; its toggle and the frame buffer are not.
LockLost ==
    /\ preview.locked /\ relocks < MaxRelocks /\ relocks' = relocks + 1
    /\ preview' = [locked |-> FALSE, reading |-> FALSE, pending |-> FALSE, age |-> 0]
    /\ cdc' = [cdc EXCEPT !.sync = FALSE]
    /\ UNCHANGED <<frame, wr, rd, mem, whole, seen, torn>>

\* A toggle that is set then looks like the end of a frame.
LockBack ==
    /\ ~preview.locked
    /\ preview' = [preview EXCEPT !.locked = TRUE]
    /\ UNCHANGED <<frame, wr, rd, cdc, mem, whole, seen, torn, relocks>>

Camera == WriteBlock \/ FrameEnd \/ ShortFrameEnd
Crossing == SyncLatest \/ SyncBusy \/ SyncBank \/ FrameReady
Reader == StartRead \/ ReadBlock \/ EndRead

Lock == LockLost \/ LockBack

Next == Camera \/ Crossing \/ Reader \/ Lock

Spec == Init /\ [][Next]_vars
-----------------------------------------------------------------------------
TypeOK ==
    /\ frame \in Nat \ {0} /\ torn \in Nat /\ relocks \in 0..MaxRelocks
    /\ wr \in [bank : Banks, latest : Banks, cnt : 0..Blocks]
    /\ rd \in [bank : Banks, busy : BOOLEAN, cnt : 0..Blocks]
    /\ cdc \in [latest : Banks, busy : BOOLEAN, bank : Banks, toggle : BOOLEAN, sync : BOOLEAN]
    /\ preview \in [locked : BOOLEAN, reading : BOOLEAN, pending : BOOLEAN, age : 0..ReadTime]
    /\ mem \in [Banks -> [1..Blocks -> 0..frame]] /\ seen \subseteq 0..frame

\* No preview mixes two camera frames ("the network does not read a bank that the
\* camera overwrites").
NoTearing == torn = 0

\* Previews sent within half a frame tear at most two pictures for each loss of the lock,
\* whatever it does to the reader's mark and to the toggle: a mark left behind holds the
\* writer in its bank for a frame, a toggle that is set starts a read in mid-frame which
\* may meet its end, and both are over when the next read is.
TwoTornPerRelock == torn <= 2 * relocks

\* Such a preview shows the last complete frame, never the empty memory, an older frame or
\* a frame with missing lines, until the lock is lost.
ShowsLastWholeFrame ==
    relocks = 0 /\ preview.reading => seen \subseteq {whole} \ {0}

\* The camera never moves into the bank of a marked reader once a block has been read from
\* it or written since, also when the mark was left behind by a reset ("stop switching so
\* that the frame being sent is not overwritten"): only the clocks in which the mark of a
\* new read crosses are open.
KeepsOffBusyBank ==
    [][wr'.bank # wr.bank /\ wr'.bank = rd.bank /\ rd.busy
       => rd.cnt = 0 /\ preview.age = 0]_vars

\* The same without that exception.
NeverEntersReadBank ==
    [][wr'.bank # wr.bank /\ rd.busy => wr'.bank # rd.bank]_vars

\* Why the bank is kept off: the copies are then those of the reader.
MarkInv ==
    /\ rd.cnt < Blocks => rd.busy
    /\ rd.busy /\ (rd.cnt > 0 \/ preview.age > 0) => cdc.busy /\ cdc.bank = rd.bank

\* Why a loss of the lock tears no more than two: what it can still cost (Owed) is one
\* preview for a mark that holds the writer (Left) in the bank it announces (Stays), and
\* one for a read that may not be over when the frame ends (not Fits) or has met its end
\* (Crossed).
Stays == whole > 0 /\ wr.bank = wr.latest
Waiting == preview.pending \/ Done
Unread == preview.reading /\ rd.cnt < Blocks
Left ==
    /\ ~preview.reading /\ ~Waiting
    /\ rd.busy \/ cdc.busy
    /\ rd.bank = Other(wr.bank) \/ cdc.bank = Other(wr.bank)
Crossed == (preview.reading /\ Waiting) \/ (preview.pending /\ Done)
Ahead ==
    (IF preview.reading THEN ReadTime - preview.age ELSE 0)
    + (IF preview.pending THEN ReadTime ELSE 0) + (IF Done THEN ReadTime ELSE 0)
Fits == wr.cnt + Ahead <= Blocks
OneIf(b) == IF b THEN 1 ELSE 0
Owed ==
    IF ~preview.locked THEN 2
    ELSE IF Crossed THEN OneIf(Unread \/ (preview.pending /\ Done)) + OneIf(Stays)
    ELSE IF Fits THEN OneIf(Left \/ (Stays /\ (Waiting \/ Unread)))
    ELSE 1 + OneIf(Waiting \/ Unread)

\* Each bank holds what was written last; the announced one is whole unless the writer stays.
WrittenInv ==
    /\ whole \in Nat
    /\ \A i \in 1..wr.cnt : mem[wr.bank][i] = frame
    /\ whole > 0 /\ ~Stays => \A i \in 1..Blocks : mem[wr.latest][i] = whole

\* A read that has not met the end of a frame reads the announced bank.
ReadInv ==
    /\ cdc.toggle \/ cdc.sync \/ preview.reading \/ preview.pending => whole > 0
    /\ ~preview.locked => ~preview.reading /\ ~preview.pending
    /\ preview.locked /\ Done /\ (preview.reading \/ preview.pending) => wr.cnt = 0
    /\ ~(preview.reading /\ preview.pending /\ Done)
    /\ preview.pending /\ ~Done => cdc.latest = wr.latest
    /\ preview.reading /\ ~Waiting => rd.bank = wr.latest
    /\ preview.reading /\ ~Waiting /\ ~Stays => seen \subseteq {whole}
    /\ preview.reading /\ rd.cnt = Blocks => ~rd.busy
    /\ relocks = 0 /\ preview.reading => ~Stays /\ ~Waiting
    /\ Crossed => Fits

OwedInv == torn + Owed <= 2 * relocks

RelockInv == TypeOK /\ WrittenInv /\ ReadInv /\ OwedInv
==============================================================================
