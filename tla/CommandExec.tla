----------------------------- MODULE CommandExec -----------------------------
(***************************************************************************)
(* The FPGA side of a command: a UDP command that the parser accepted is   *)
(* written to cmd_async_fifo by the receive clock, executed by             *)
(* vision_reg_bank on eth_clk125m, and CLEAR_ERROR goes on as a pulse      *)
(* through pulse_sync_toggle to the camera clock.                          *)
(*                                                                         *)
(* The FIFO shows its first command while it is not empty (FWFT), and      *)
(* cmd_valid is just "not empty"; the read enable is the same signal one   *)
(* edge later.  A lost lock of the receive clock empties the FIFO, one of  *)
(* eth_clk125m the registers too, the button S0 everything.                *)
(***************************************************************************)
EXTENDS PulseSync, Sequences

CONSTANTS
    FifoDepth,    \* 16 in the code
    RoiRange,     \* values that roi_w can have: 2^11 in the code
    MaxCommands,  \* commands received in a behaviour (bound)
    MaxResets     \* resets of a behaviour (bound)

ASSUME FifoAssumption == FifoDepth \in Nat \ {0} /\ RoiRange \in Nat \ {0, 1}
ASSUME CommandsAssumption == MaxCommands \in Nat /\ MaxResets \in Nat

VARIABLES
    fifo,        \* cmd_async_fifo
    rdEn,        \* cmd_fifo_rd_en
    regs,        \* vision_reg_bank: the configuration registers
    clearPulse,  \* clear_error_pulse
    received,    \* commands received so far (bound); it numbers them
    resets       \* resets so far (bound)

execVars == <<fifo, rdEn, regs, clearPulse, received, resets>>
vars == <<syncVars, execVars>>

\* WRITE_REG of the control register (0x0000), of roi_w (0x0012: the registers
\* roi_x, roi_y, roi_h, the thresholds and tx_mode behave alike) and of an address
\* that does not exist; then the commands without data.
Commands ==
    [code : {"WRITE_CTRL"}, data : 0..3]
    \cup [code : {"WRITE_ROI_W"}, data : {0, RoiRange - 1, RoiRange + 2}]
    \cup [code : {"WRITE_BAD", "START_CAPTURE", "STOP_CAPTURE", "QUERY_STATUS",
                  "CLEAR_ERROR", "BUZZER_ON", "BUZZER_OFF"}, data : {0}]

ResetRegs == [capture |-> TRUE, alarm |-> TRUE, roiW |-> 1, cmdError |-> FALSE, seq |-> 0]

Init ==
    /\ SyncInit
    /\ fifo = <<>> /\ rdEn = FALSE /\ regs = ResetRegs /\ clearPulse = FALSE
    /\ received = 0 /\ resets = 0

(***************************************************************************)
(* vision_reg_bank: what one execution of a command does.                  *)
(***************************************************************************)
\* A bank that takes a width of 0.
RoiWMayBeZero(data) == data % RoiRange
RoiW(data) == IF data % RoiRange = 0 THEN 1 ELSE data % RoiRange

Execute(r, c) ==
    [capture  |-> IF c.code = "WRITE_CTRL" THEN c.data % 2 = 1
                  ELSE IF c.code \in {"START_CAPTURE", "STOP_CAPTURE"}
                  THEN c.code = "START_CAPTURE" ELSE r.capture,
     alarm    |-> IF c.code = "WRITE_CTRL" THEN c.data \div 2 = 1
                  ELSE IF c.code \in {"BUZZER_ON", "BUZZER_OFF"}
                  THEN c.code = "BUZZER_ON" ELSE r.alarm,
     roiW     |-> IF c.code = "WRITE_ROI_W" THEN RoiW(c.data) ELSE r.roiW,
     cmdError |-> c.code = "WRITE_BAD",
     seq      |-> c.seq]

(***************************************************************************)
(* The clock domains.                                                      *)
(***************************************************************************)
\* Receive clock: a checked packet is written unless the FIFO is full.
Receive(c) ==
    /\ received < MaxCommands
    /\ received' = received + 1
    /\ fifo' = IF Len(fifo) < FifoDepth
               THEN Append(fifo, [code |-> c.code, data |-> c.data, seq |-> received'])
               ELSE fifo
    /\ UNCHANGED <<syncVars, rdEn, regs, clearPulse, resets>>

\* A valid that is masked while the previous command is being read.
CmdValidMasked == fifo # <<>> /\ ~rdEn
CmdValid == fifo # <<>>

\* eth_clk125m.
EthEdge ==
    /\ rdEn' = (fifo # <<>>)
    /\ fifo' = IF rdEn /\ fifo # <<>> THEN Tail(fifo) ELSE fifo
    /\ regs' = IF CmdValid THEN Execute(regs, Head(fifo)) ELSE regs
    /\ clearPulse' = (CmdValid /\ Head(fifo).code = "CLEAR_ERROR")
    /\ SrcEdge(clearPulse)
    /\ UNCHANGED <<received, resets>>

\* camera_pclk.
CamEdge == DstEdge /\ UNCHANGED execVars

(***************************************************************************)
(* Resets, from the loss of a lock or the pressing of S0 to its end.       *)
(***************************************************************************)
FifoReset ==
    /\ resets < MaxResets /\ resets' = resets + 1
    /\ fifo' = <<>>
    /\ UNCHANGED <<received, since, gap, pulsed, arrived>>

\* The receive clock has no lock: ~rx_phase_locked.
RxLost == FifoReset /\ UNCHANGED <<rdEn, regs, clearPulse, toggle, ff>>

\* ~eth_clk_locked: cmd_fifo_rd_en is not reset.
EthLost ==
    /\ FifoReset
    /\ regs' = ResetRegs /\ clearPulse' = FALSE /\ toggle' = FALSE
    /\ UNCHANGED <<rdEn, ff>>

\* ~manual_rst_n.
Button ==
    /\ FifoReset
    /\ regs' = ResetRegs /\ clearPulse' = FALSE /\ toggle' = FALSE
    /\ rdEn' = FALSE /\ ff' = [i \in 0..2 |-> FALSE]

Next ==
    \/ \E c \in Commands : Receive(c)
    \/ EthEdge
    \/ CamEdge
    \/ RxLost \/ EthLost \/ Button

Spec == Init /\ [][Next]_vars
\* Both clocks keep running.
FairSpec == Spec /\ WF_vars(EthEdge) /\ WF_vars(CamEdge)

-----------------------------------------------------------------------------
Numbered == [code : {c.code : c \in Commands}, data : Nat, seq : Nat \ {0}]

Regs == [capture : BOOLEAN, alarm : BOOLEAN, roiW : 1..(RoiRange - 1),
         cmdError : BOOLEAN, seq : Nat]
Typed ==
    /\ fifo \in Seq(Numbered) /\ Len(fifo) <= FifoDepth
    /\ received \in Nat /\ resets \in Nat /\ regs \in Regs
    /\ rdEn \in BOOLEAN
ClearTyped == SyncTypeOK /\ clearPulse \in BOOLEAN
TypeOK == Typed /\ ClearTyped

\* The first command has been executed and waits for its read enable.
Running == fifo # <<>> /\ Head(fifo).seq = regs.seq

\* Clears on their way: in the flip-flops, or the pulse that flips the toggle next.
Crossing == InFlight + (IF clearPulse THEN 1 ELSE 0)

\* The FPGA is the register file of RegisterFile: every command that entered the FIFO
\* is executed, in the order of arrival, before the late read enable removes it; a reset
\* between any two clocks leaves no half of a command.  A command that finds rdEn down
\* is executed twice, which the registers do not show, and the clears that reach the
\* camera are those of the executions, less pairs that cancel each other in
\* pulse_sync_toggle: less than the comments at top 314-315 and 828 say.
File == INSTANCE RegisterFile WITH
            waiting <- IF Running THEN Tail(fifo) ELSE fifo,
            running <- IF Running THEN <<Head(fifo)>> ELSE <<>>,
            crossing <- Crossing, cleared <- arrived, Room <- FifoDepth - 1
ExecutesCommands == File!Spec

\* Why it holds.  Numbers rise along the FIFO and none of them is older than the command
\* that was executed last; the read enable of an executed command is on its way.
Ascending == \A i, j \in 1..Len(fifo) : i < j => fifo[i].seq < fifo[j].seq
Again == Running => rdEn /\ regs = Execute(regs, Head(fifo))
ExecInv ==
    /\ Typed /\ Ascending /\ Again /\ ClearTyped
    /\ \A i \in 1..Len(fifo) : regs.seq <= fifo[i].seq /\ fifo[i].seq <= received
    /\ regs.seq <= received

\* One command, one execution: the comment of the command FIFO in the top level (828)
\* says it reads one command per cycle.
ExecutedOnce == CmdValid => ~Running

\* A CLEAR_ERROR command that is executed reaches the camera clock domain.
ClearErrorArrives == clearPulse ~> arrived > 0
==============================================================================
