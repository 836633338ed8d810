-------------------------- MODULE PreviewReassembly --------------------------
(***************************************************************************)
(* The preview stream over UDP.  rgb565_udp_preview_payload_gen cuts a     *)
(* frame into numbered chunks; rx_loop of the edge service puts the chunks *)
(* together and publishes the frame for the HTTP thread.  In between the   *)
(* network loses, duplicates and reorders packets.                         *)
(*                                                                         *)
(* A chunk carries the 16-bit frame id (frame_id), its number in the frame *)
(* (chunk_id, which chunk_offset follows) and the first/last flags.  The   *)
(* data of a chunk is the identity of the piece of the picture it holds;   *)
(* msg_type is that of RGB565, the only type the FPGA sends.               *)
(*                                                                         *)
(* Frame ids wrap, so two assumptions on the environment are built in:     *)
(*   - a packet does not live in the network for a whole cycle of ids      *)
(*     (65536 frames): StartFrame drops those that would;                  *)
(*   - while an assembly is open the link is not silent for a whole cycle  *)
(*     of ids: the guard LinkNotSilent of StartFrame.                      *)
(***************************************************************************)
EXTENDS Integers, Sequences, FiniteSets

CONSTANTS
    ChunksPerFrame,  \* 686 in the code
    IdMod,           \* number of frame ids: 2^16 in the code
    MaxFrames,       \* frames sent in a behaviour (bound)
    MaxInFlight,     \* packets in the network (bound)
    MaxResets,       \* resets of the FPGA (bound)
    MaxRestarts      \* restarts of the service (bound)

ASSUME ProtocolAssumption ==
    ChunksPerFrame \in Nat \ {0} /\ IdMod \in Nat \ {0}
ASSUME BoundsAssumption ==
    MaxFrames \in Nat /\ MaxInFlight \in Nat /\ MaxResets \in Nat /\ MaxRestarts \in Nat

VARIABLES
    frame,     \* the frame being sent; frames are numbered 1, 2, ... for ever
    base,      \* frame when the FPGA last came out of reset
    chunk,     \* chunks of that frame sent so far; ChunksPerFrame: S_IDLE
    net,       \* packets in the network
    asm,       \* preview_assembly_
    preview,   \* preview_
    resets,    \* resets so far (bound)
    restarts,  \* restarts so far (bound)
    complete,  \* history: frames sent to their last chunk
    heard,     \* history: frame of the packet rx_loop received last
    streak,    \* history: a frame received chunk by chunk from its first, so far
    newest,    \* history: the frame published last
    late       \* history: frames a packet of which was overtaken in the network

sender   == <<frame, base, chunk, complete>>
receiver == <<asm, preview, heard, streak, newest, late>>
vars == <<frame, base, chunk, net, asm, preview, resets, restarts,
          complete, heard, streak, newest, late>>

Frames == 0..MaxFrames
Ids    == 0..(IdMod - 1)
Chunk  == 0..(ChunksPerFrame - 1)
Packet == [src : Frames, id : Ids, chunk : Chunk]

First(p) == p.chunk = 0
Last(p)  == p.chunk = ChunksPerFrame - 1
Piece(p) == [src |-> p.src, chunk |-> p.chunk]
\* The first n pieces of frame f.
Pieces(f, n) == [i \in 1..n |-> [src |-> f, chunk |-> i - 1]]
Whole(f) == Pieces(f, ChunksPerFrame)

\* preview_frame_id: reset to 0, incremented before each frame, 16 bits wide.
FrameId == (frame - base) % IdMod

NoAssembly == [active |-> FALSE, id |-> 0, next |-> 0, buf |-> <<>>]
NoPreview  == [available |-> FALSE, id |-> 0, image |-> <<>>]

Init ==
    /\ frame = 0 /\ base = 0 /\ chunk = ChunksPerFrame
    /\ net = {}
    /\ asm = NoAssembly /\ preview = NoPreview
    /\ resets = 0 /\ restarts = 0
    /\ complete = {} /\ heard = 0 /\ streak = [src |-> 0, len |-> 0] /\ newest = 0
    /\ late = {}

(***************************************************************************)
(* The FPGA.                                                               *)
(***************************************************************************)
LinkNotSilent == asm.active => frame + 1 - heard < IdMod

StartFrame ==
    /\ chunk = ChunksPerFrame /\ frame < MaxFrames
    /\ LinkNotSilent
    /\ frame' = frame + 1 /\ chunk' = 0
    /\ net' = {p \in net : frame + 1 - p.src < IdMod}
    /\ UNCHANGED <<base, resets, restarts, complete, receiver>>

SendChunk ==
    /\ chunk < ChunksPerFrame
    /\ Cardinality(net) < MaxInFlight
    /\ net' = net \cup {[src |-> frame, id |-> FrameId, chunk |-> chunk]}
    /\ chunk' = chunk + 1
    /\ complete' = IF chunk = ChunksPerFrame - 1 THEN complete \cup {frame} ELSE complete
    /\ UNCHANGED <<frame, base, resets, restarts, receiver>>

\* manual_rst_n or a lost clock lock: the frame in progress is abandoned and the
\* frame ids start again.
FpgaReset ==
    /\ resets < MaxResets /\ resets' = resets + 1
    /\ base' = frame /\ chunk' = ChunksPerFrame
    /\ UNCHANGED <<frame, net, restarts, complete, receiver>>

(***************************************************************************)
(* rx_loop: one preview packet, under preview_mutex_.                      *)
(***************************************************************************)
\* A receiver that keeps the assembly it has when a new frame begins.
BeginKeepsOld(p) ==
    IF First(p) /\ ~asm.active
    THEN [active |-> TRUE, id |-> p.id, next |-> 0, buf |-> <<>>]
    ELSE asm
Begin(p) ==
    IF First(p) THEN [active |-> TRUE, id |-> p.id, next |-> 0, buf |-> <<>>] ELSE asm

\* A receiver that does not compare frame ids.
FitsAnyFrame(p) == Begin(p).active /\ p.chunk = Begin(p).next
Fits(p) == Begin(p).active /\ p.id = Begin(p).id /\ p.chunk = Begin(p).next

Extend(p) ==
    [active |-> ~Last(p), id |-> Begin(p).id, next |-> Begin(p).next + 1,
     buf |-> Append(Begin(p).buf, Piece(p))]

\* A receiver that ignores a chunk out of sequence and waits for the right one.
GiveUpNever(p) == Begin(p)
GiveUp(p) ==
    IF First(p) THEN Begin(p)
    ELSE [active |-> FALSE, id |-> asm.id, next |-> asm.next, buf |-> <<>>]

Assemble(p) == IF Fits(p) THEN Extend(p) ELSE GiveUp(p)

\* The size check on the width and height in the stream: all pieces are there.
Completes(p) == Fits(p) /\ Last(p) /\ Len(Extend(p).buf) = ChunksPerFrame

StreakAfter(p) ==
    IF First(p) THEN [src |-> p.src, len |-> 1]
    ELSE IF streak.len > 0 /\ p.src = streak.src /\ p.chunk = streak.len
         THEN [src |-> p.src, len |-> streak.len + 1]
         ELSE [src |-> p.src, len |-> 0]

Receive(p) ==
    /\ asm' = Assemble(p)
    /\ preview' = IF Completes(p)
                  THEN [available |-> TRUE, id |-> p.id, image |-> Extend(p).buf]
                  ELSE preview
    /\ newest' = IF Completes(p) THEN p.src ELSE newest
    /\ heard' = p.src
    /\ streak' = StreakAfter(p)

\* systemd restarts the service: the assembly and the preview are gone.
ServiceRestart ==
    /\ restarts < MaxRestarts /\ restarts' = restarts + 1
    /\ asm' = NoAssembly /\ preview' = NoPreview
    /\ streak' = [src |-> 0, len |-> 0]
    /\ UNCHANGED <<sender, net, resets, heard, newest, late>>

(***************************************************************************)
(* The network.  A delivered packet may stay behind as a duplicate, and    *)
(* may overtake others, which late remembers.                              *)
(***************************************************************************)
Before(p, q) == p.src < q.src \/ (p.src = q.src /\ p.chunk < q.chunk)
Overtaken(p) == {q.src : q \in {r \in net : Before(r, p)}}

Deliver(p) ==
    /\ Receive(p)
    /\ late' = late \cup Overtaken(p)
    /\ net' \in {net, net \ {p}}
    /\ UNCHANGED <<sender, resets, restarts>>

Lose(p) == net' = net \ {p} /\ UNCHANGED <<sender, receiver, resets, restarts>>

Next ==
    \/ StartFrame
    \/ SendChunk
    \/ FpgaReset
    \/ ServiceRestart
    \/ \E p \in net : Deliver(p) \/ Lose(p)

Spec == Init /\ [][Next]_vars

-----------------------------------------------------------------------------
(***************************************************************************)
(* Properties.                                                             *)
(***************************************************************************)

\* Each variable holds a value of its type; the buffer holds at most one frame.
TypeOK ==
    /\ frame \in Frames /\ base \in 0..frame /\ chunk \in 0..ChunksPerFrame
    /\ net \subseteq [src : 0..frame, id : Ids, chunk : Chunk]
    /\ asm \in [active : BOOLEAN, id : Ids, next : 0..ChunksPerFrame,
               buf : Seq([src : Frames, chunk : Chunk])]
    /\ Len(asm.buf) <= asm.next
    /\ preview \in [available : BOOLEAN, id : Ids,
                   image : Seq([src : Frames, chunk : Chunk])]
    /\ resets \in 0..MaxResets /\ restarts \in 0..MaxRestarts
    /\ complete \subseteq 0..frame /\ heard \in 0..frame /\ newest \in 0..frame
    /\ late \subseteq 0..frame
    /\ streak \in [src : 0..frame, len : 0..ChunksPerFrame]

\* The published picture is one frame of the camera, whole and in order: no chunks of
\* two frames are joined.
PictureWhole == preview.available => \E f \in complete : preview.image = Whole(f)

\* That holds until the FPGA is reset, though frame ids repeat and rx_loop accepts a
\* chunk by frame_id, chunk_id and chunk_offset alone.
WholeFrame == resets = 0 => PictureWhole

\* A frame whose chunks arrive one after the other is published, whatever was
\* received before it and whatever assembly was open.
IntactFramePublished ==
    streak.len = ChunksPerFrame => preview.image = Whole(streak.src)

\* The preview implements its promise: whole frames only, and a frame that was
\* published is not followed by an earlier one unless packets of that were overtaken.
Screen == INSTANCE PreviewScreen WITH screen <- preview.image, reset <- resets > 0
ShowsWholeFrames == Screen!Spec

\* What makes PictureWhole inductive: the packets in the network are of frames whose
\* ids have not come round again, and the open assembly is the beginning of the
\* frame heard last.
PacketsFresh ==
    \A p \in net :
        /\ p.id = p.src % IdMod
        /\ p.src > 0 /\ frame - p.src < IdMod
        /\ p.src = frame => p.chunk < chunk
        /\ p.src = frame \/ p.src \in complete
AssemblyOfHeard ==
    asm.active =>
        /\ asm.id = heard % IdMod /\ heard > 0 /\ frame - heard < IdMod
        /\ asm.next < ChunksPerFrame
        /\ asm.buf = Pieces(heard, asm.next)
WholeInv ==
    /\ base = 0
    /\ chunk < ChunksPerFrame => frame > 0
    /\ chunk = ChunksPerFrame /\ frame > 0 => frame \in complete
    /\ PacketsFresh
    /\ AssemblyOfHeard
    /\ PictureWhole

\* What makes IntactFramePublished inductive: the chunks received in a row are in
\* the open assembly, and the packets still to come of their frame carry its id.
SameFrameSameId ==
    /\ \A p, q \in net : p.src = q.src => p.id = q.id
    /\ \A p \in net : p.src = frame /\ chunk < ChunksPerFrame => p.id = FrameId
StreakInAssembly ==
    streak.len \in 1..(ChunksPerFrame - 1) =>
        /\ asm.active /\ asm.next = streak.len
        /\ asm.buf = Pieces(streak.src, streak.len)
        /\ \A p \in net : p.src = streak.src => p.id = asm.id
        /\ streak.src = frame /\ chunk < ChunksPerFrame => asm.id = FrameId

\* A packet of a frame before the one published last has been overtaken.
KeepsOrder == \A p \in net : p.src >= newest \/ p.src \in late

ReassemblyInv ==
    /\ resets = 0 => WholeInv
    /\ SameFrameSameId /\ StreakInAssembly /\ IntactFramePublished
    /\ KeepsOrder
==============================================================================
