------------------------------ MODULE FrameStore ------------------------------
(***************************************************************************)
(* The way of the pixels through the DDR3 memory: edge_fifo2mig_axi moves  *)
(* bursts from the write FIFO to the memory and from the memory to the     *)
(* read FIFO.  A step of the engine is a clock of ui_clk in which          *)
(* something happens; the MIG answers when it likes.  An address counts    *)
(* bursts, a word is eight pixels: the i-th of a frame is <<frame, i>>.    *)
(*                                                                         *)
(* The FIFOs are IP cores, here as DDR3_UDP_PREVIEW_GUIDE.md asks for      *)
(* them: a standard FIFO, whose output follows the read by a clock.        *)
(* wrfifo_clr comes a clock after the first pixel of a frame and clears it *)
(* from the FIFO, with those that come while the reset lasts.  Clearing a  *)
(* FIFO, its address and the change of banks are one step.  The banks      *)
(* alternate, as FrameBuffer shows of them while previews are read in half *)
(* a frame and the Ethernet clock keeps its lock.                          *)
(***************************************************************************)
EXTENDS Integers, Sequences

CONSTANTS
    BurstWords,    \* AXI_LEN + 1
    FrameBursts,   \* FRAME_BYTES / BURST_BYTES
    LostWords,     \* words that the reset of the write FIFO costs a frame
    WrDepth,       \* words of the write FIFO
    RdDepth,       \* words of the read FIFO
    MaxFrames,     \* frames of a behaviour (bound)
    MaxErrors      \* error responses of the MIG in a behaviour (bound)

ASSUME BurstAssumption == BurstWords \in Nat \ {0} /\ FrameBursts \in Nat \ {0, 1}
ASSUME LostAssumption == LostWords \in 1..BurstWords
\* A read burst always fits: without that the engine waits for the reader in S_RD_RESP, and
\* the camera for the engine.
ASSUME DepthAssumption ==
    /\ WrDepth \in Nat /\ WrDepth >= BurstWords
    /\ RdDepth \in Nat /\ RdDepth >= 2 * BurstWords
ASSUME BoundsAssumption == MaxFrames \in Nat /\ MaxErrors \in Nat

VARIABLES
    cam,      \* the camera: frame, words of it so far, wr_bank_cam
    wrfifo,   \* u_wr_ddr3_fifo: its words, and its output
    eng,      \* edge_fifo2mig_axi: state, wr_rd_poll, awaddr, araddr, the address of
              \* the burst, its beats so far, wvalid
    mem,      \* the DDR3 memory, burst by burst
    rdfifo,   \* u_rd_ddr3_fifo
    rd,       \* the preview: asked for, reading, of which frame, the words it got
    spoilt,   \* history: frames and previews that met an error response
    starved,  \* history: a beat was sent without a word
    errors    \* error responses so far (bound)

vars == <<cam, wrfifo, eng, mem, rdfifo, rd, spoilt, starved, errors>>

FrameWords == BurstWords * FrameBursts
Blank == <<0, 0>>
Bank(frame) == (frame + 1) % 2
Begin(bank) == bank * FrameBursts
End(bank) == Begin(bank) + FrameBursts - 1    \* wr_addr_end, rd_addr_end

Init ==
    /\ cam = [frame |-> 1, pos |-> LostWords]
    /\ wrfifo = [words |-> <<>>, dout |-> Blank]
    /\ eng = [at |-> "idle", poll |-> FALSE, awaddr |-> Begin(0), araddr |-> Begin(0),
              base |-> 0, beats |-> 0, wvalid |-> FALSE]
    /\ mem = [a \in 0..(2 * FrameBursts - 1) |-> [i \in 1..BurstWords |-> Blank]]
    /\ rdfifo = <<>>
    /\ rd = [wanted |-> FALSE, on |-> FALSE, frame |-> 1, got |-> <<>>]
    /\ spoilt = {} /\ starved = FALSE /\ errors = 0

-----------------------------------------------------------------------------
(***************************************************************************)
(* edge_fifo2mig_axi.                                                      *)
(***************************************************************************)
\* A threshold that is one too low.
WrReqEarly == Len(wrfifo.words) >= BurstWords - 1
WrReq == Len(wrfifo.words) >= BurstWords
RdReq == Len(rdfifo) <= BurstWords

\* An arbiter that gives the turn away only when it was used.
ArbWaiting ==
    /\ eng.at = "arb" /\ IF eng.poll THEN RdReq ELSE WrReq
    /\ eng' = [eng EXCEPT !.poll = ~@, !.beats = 0,
                          !.at = IF eng.poll THEN "rd_addr" ELSE "wr_addr"]
    /\ UNCHANGED <<cam, wrfifo, mem, rdfifo, rd, spoilt, starved, errors>>
Arb ==
    /\ eng.at = "arb"
    /\ eng' = [eng EXCEPT !.poll = ~@, !.beats = 0,
                          !.at = IF WrReq /\ ~eng.poll THEN "wr_addr"
                                 ELSE IF RdReq /\ eng.poll THEN "rd_addr" ELSE "arb"]
    /\ UNCHANGED <<cam, wrfifo, mem, rdfifo, rd, spoilt, starved, errors>>

Ready ==
    /\ eng.at = "idle"
    /\ eng' = [eng EXCEPT !.at = "arb"]
    /\ UNCHANGED <<cam, wrfifo, mem, rdfifo, rd, spoilt, starved, errors>>

\* An address that reaches the last burst starts over, a clock later.
Advanced(addr, bank) == IF addr + 1 >= End(bank) THEN Begin(bank) ELSE addr + 1

WrAddr ==
    /\ eng.at = "wr_addr"
    /\ eng' = [eng EXCEPT !.at = "wr_data", !.base = eng.awaddr, !.wvalid = FALSE]
    /\ UNCHANGED <<cam, wrfifo, mem, rdfifo, rd, spoilt, starved, errors>>

\* wvalid is a clock behind the FIFO.
WrValid ==
    /\ eng.at = "wr_data" /\ ~eng.wvalid
    /\ eng' = [eng EXCEPT !.wvalid = wrfifo.words # <<>>]
    /\ UNCHANGED <<cam, wrfifo, mem, rdfifo, rd, spoilt, starved, errors>>
WrBeat ==
    LET last == eng.beats = BurstWords - 1
    IN  /\ eng.at = "wr_data" /\ eng.wvalid
        /\ mem' = [mem EXCEPT ![eng.base][eng.beats + 1] = wrfifo.dout]
        /\ wrfifo' = IF wrfifo.words = <<>> THEN wrfifo
                     ELSE [words |-> Tail(wrfifo.words), dout |-> Head(wrfifo.words)]
        /\ starved' = (starved \/ wrfifo.words = <<>>)
        /\ eng' = [eng EXCEPT !.at = IF last THEN "wr_resp" ELSE @, !.beats = @ + 1,
                              !.wvalid = ~last /\ wrfifo.words # <<>>]
        /\ UNCHANGED <<cam, rdfifo, rd, spoilt, errors>>

WrResp ==
    /\ eng.at = "wr_resp"
    /\ eng' = [eng EXCEPT !.at = "arb", !.awaddr = Advanced(@, Bank(cam.frame))]
    /\ UNCHANGED <<cam, wrfifo, mem, rdfifo, rd, spoilt, starved, errors>>

Fails == errors < MaxErrors /\ errors' = errors + 1
WrError ==
    /\ eng.at = "wr_resp" /\ Fails
    /\ eng' = [eng EXCEPT !.at = "idle"]
    /\ spoilt' = spoilt \cup {<<"frame", cam.frame>>}
    /\ UNCHANGED <<cam, wrfifo, mem, rdfifo, rd, starved>>

RdAddr ==
    /\ eng.at = "rd_addr"
    /\ eng' = [eng EXCEPT !.at = "rd_resp", !.base = eng.araddr]
    /\ UNCHANGED <<cam, wrfifo, mem, rdfifo, rd, spoilt, starved, errors>>

\* A beat needs room in the FIFO; its word is kept whatever the response.
RdTake ==
    /\ eng.at = "rd_resp" /\ Len(rdfifo) < RdDepth
    /\ rdfifo' = Append(rdfifo, mem[eng.base][eng.beats + 1])
    /\ UNCHANGED <<cam, wrfifo, mem, rd, starved>>
RdBeat ==
    /\ RdTake
    /\ eng' = IF eng.beats = BurstWords - 1
              THEN [eng EXCEPT !.at = "arb", !.araddr = Advanced(@, Bank(rd.frame))]
              ELSE [eng EXCEPT !.beats = @ + 1]
    /\ UNCHANGED <<spoilt, errors>>
RdError ==
    /\ RdTake /\ eng.beats = BurstWords - 1 /\ Fails
    /\ eng' = [eng EXCEPT !.at = "idle"]
    /\ spoilt' = spoilt \cup {<<"preview", rd.frame>>}

Engine ==
    \/ Arb \/ Ready \/ WrAddr \/ WrValid \/ WrBeat \/ WrResp \/ WrError
    \/ RdAddr \/ RdBeat \/ RdError

-----------------------------------------------------------------------------
(***************************************************************************)
(* The camera and the preview generator.  A word of the camera takes as    *)
(* long as a burst; after a frame, and after the last packet of a preview, *)
(* there is time for the bursts that are due.                              *)
(***************************************************************************)
CameraWord ==
    /\ cam.pos < FrameWords /\ Len(wrfifo.words) < WrDepth
    /\ cam' = [cam EXCEPT !.pos = @ + 1]
    /\ wrfifo' = [wrfifo EXCEPT !.words = Append(@, <<cam.frame, cam.pos + 1>>)]
    /\ UNCHANGED <<eng, mem, rdfifo, rd, spoilt, starved, errors>>

Written == ~WrReq /\ eng.at \notin {"wr_addr", "wr_data", "wr_resp"}
Fetched == ~RdReq /\ eng.at \notin {"rd_addr", "rd_resp"}

\* The next frame: wrfifo_clr, wr_addr_clr, the other bank; the last one is complete.
NextFrame ==
    /\ cam.pos = FrameWords /\ cam.frame < MaxFrames /\ Written
    /\ ~rd.on /\ ~rd.wanted
    /\ cam' = [frame |-> cam.frame + 1, pos |-> LostWords]
    /\ wrfifo' = [words |-> <<>>, dout |-> Blank]
    /\ eng' = [eng EXCEPT !.awaddr = Begin(Bank(cam.frame + 1))]
    /\ rd' = [rd EXCEPT !.wanted = TRUE]
    /\ UNCHANGED <<mem, rdfifo, spoilt, starved, errors>>

\* A restart that forgets rdfifo_clr.
RestartUncleared ==
    /\ rd.wanted /\ ~rd.on /\ Fetched
    /\ rd' = [wanted |-> FALSE, on |-> TRUE, frame |-> cam.frame - 1, got |-> <<>>]
    /\ eng' = [eng EXCEPT !.araddr = Begin(Bank(cam.frame - 1))]
    /\ UNCHANGED <<cam, wrfifo, mem, rdfifo, spoilt, starved, errors>>
\* rd_frame_restart: rdfifo_clr, rd_addr_clr, the bank of the last complete frame.
Restart ==
    /\ rd.wanted /\ ~rd.on /\ Fetched
    /\ rd' = [wanted |-> FALSE, on |-> TRUE, frame |-> cam.frame - 1, got |-> <<>>]
    /\ rdfifo' = <<>>
    /\ eng' = [eng EXCEPT !.araddr = Begin(Bank(cam.frame - 1))]
    /\ UNCHANGED <<cam, wrfifo, mem, spoilt, starved, errors>>

ReadWord ==
    /\ rd.on /\ rdfifo # <<>>
    /\ rdfifo' = Tail(rdfifo)
    /\ rd' = [rd EXCEPT !.got = Append(@, Head(rdfifo)), !.on = Len(rd.got) + 1 < FrameWords]
    /\ UNCHANGED <<cam, wrfifo, eng, mem, spoilt, starved, errors>>

Next == Engine \/ CameraWord \/ NextFrame \/ Restart \/ ReadWord

Fairness ==
    /\ WF_vars(Engine) /\ WF_vars(CameraWord) /\ WF_vars(NextFrame)
    /\ WF_vars(Restart) /\ WF_vars(ReadWord)
Spec == Init /\ [][Next]_vars /\ Fairness

-----------------------------------------------------------------------------
(***************************************************************************)
(* Properties.                                                             *)
(***************************************************************************)
\* No beat is written to the memory without a word from the camera, though wvalid is a
\* clock behind the FIFO: a burst starts when all its words are there.
NoEmptyBeat == ~starved

\* The i-th word that the memory gets of a frame: the output of the FIFO is one word late.
Stored(frame, i) == IF i = 1 THEN Blank ELSE <<frame, LostWords + i - 1>>
PictureDone == ~rd.on /\ Len(rd.got) = FrameWords
Intact ==
    <<"frame", rd.frame>> \notin spoilt /\ <<"preview", rd.frame>> \notin spoilt

\* A preview is of one frame, the last complete one, and in order up to its last burst:
\* every word before that stands in its place, and those of the last burst are words of
\* this frame too, whatever the order of bursts and after any error.  That the last burst
\* is the right one is not said, because it is not: see WholeFrameRead.
PictureOfOneFrame ==
    PictureDone /\ Intact =>
        /\ \A i \in 1..(FrameWords - BurstWords) : rd.got[i] = Stored(rd.frame, i)
        /\ \A i \in 1..FrameWords : \E j \in 1..FrameWords : rd.got[i] = Stored(rd.frame, j)
\* What edge_ddr3_framebuffer.v:246 says: "a whole frame is read from the bank that was
\* completed last", the last burst too.  The code does not do it: both addresses start over
\* a burst too soon, and the first burst is read again in the place of the last.
WholeFrameRead ==
    PictureDone /\ Intact => \A i \in 1..FrameWords : rd.got[i] = Stored(rd.frame, i)

\* Neither side starves the other: a burst that is due is written, and a preview gets all
\* its words.
BothSidesServed ==
    /\ WrReq ~> ~WrReq
    /\ rd.wanted ~> rd.on
    /\ rd.on ~> ~rd.on
==============================================================================
