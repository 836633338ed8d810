----------------------------- MODULE MCTxArbiter -----------------------------
(***************************************************************************)
(* TxArbiter with two kinds of behaviour: any timing of the camera, and    *)
(* (calm) the pacing of the real camera, where a frame lasts longer than   *)
(* its transmission and filling a chunk takes longer than a telemetry      *)
(* packet.  In a calm behaviour a record arrives when the transmit path is *)
(* idle, frame_ready when that record is already on its way, and the clock *)
(* lock holds.                                                             *)
(***************************************************************************)
EXTENDS TxArbiter

VARIABLE calm    \* the camera keeps the pacing of the board
boardVars == <<vars, calm>>

PathIdle ==
    /\ pv.state = "IDLE" /\ ~pv.pending /\ ~cam.ready
    /\ fifo = <<>> /\ ~pp.valid /\ ~mux.busy

AnyTick(ready, filled) == ~calm /\ Tick(ready, filled) /\ UNCHANGED calm
AnyStatsWrite == ~calm /\ StatsWrite /\ UNCHANGED calm
AnyLockLost   == ~calm /\ LockLost /\ UNCHANGED calm

PacedTick(ready, filled) ==
    /\ calm /\ (ready => fifo = <<>> /\ ~pp.valid)
    /\ Tick(ready, filled) /\ UNCHANGED calm
PacedStatsWrite == calm /\ PathIdle /\ StatsWrite /\ UNCHANGED calm

BoardInit == Init /\ calm \in BOOLEAN
BoardNext ==
    \/ \E ready, filled \in BOOLEAN : AnyTick(ready, filled)
    \/ AnyStatsWrite
    \/ AnyLockLost
    \/ \E ready, filled \in BOOLEAN : PacedTick(ready, filled)
    \/ PacedStatsWrite

\* The clock keeps running and the DDR3 read FIFO is refilled sooner or later; in a
\* calm behaviour the frame store delivers its frame_ready pulse in the end.
AnyClock   == \E ready \in BOOLEAN : AnyTick(ready, TRUE)
PacedClock == \E ready \in BOOLEAN : PacedTick(ready, TRUE)
PacedReady == PacedTick(TRUE, TRUE)

BoardSpec ==
    /\ BoardInit /\ [][BoardNext]_boardVars
    /\ WF_boardVars(AnyClock) /\ WF_boardVars(PacedClock) /\ WF_boardVars(PacedReady)

\* With the pacing of the board every frame the camera produced is sent as a telemetry
\* record and as all its preview chunks: neither source waits for a done that the other
\* one took.
EveryFrameArrives ==
    \A f \in 1..MaxFrames :
        calm /\ cam.frames = f ~>
            /\ \E i \in 1..Len(SentTelem) : SentTelem[i] = TelemPacket(f)
            /\ \E i \in 1..Len(SentPreview) :
                   SentPreview[i] = PreviewPacket(f, ChunksPerFrame - 1)
==============================================================================
