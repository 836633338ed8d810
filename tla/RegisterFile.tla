----------------------------- MODULE RegisterFile -----------------------------
(***************************************************************************)
(* What the command path promises to the host: a register file that takes  *)
(* commands in their order, runs each one as a whole, and refuses one only *)
(* while Room others are waiting.  A register that a command does not name *)
(* keeps its value.  Only a reset may forget what is waiting, all of it at *)
(* once.                                                                   *)
(*                                                                         *)
(* A command may be run a second time before the next one.  The registers  *)
(* do not show it.  The camera does: each run of a CLEAR_ERROR sends it a  *)
(* clear, and two clears close to each other may cancel each other.  The   *)
(* comments of the top level promise more, one command per clock (828) and *)
(* no pulse lost (314-315), which is not what it does.                     *)
(***************************************************************************)
EXTENDS Integers, Sequences

CONSTANTS
    Commands,   \* the commands there are
    ResetRegs,  \* the registers after a reset
    RoiRange,   \* values that roi_w can have
    Room        \* commands that surely may wait

VARIABLES
    regs,      \* the registers
    waiting,   \* commands taken and not yet run
    running,   \* <<c>>: c has run and is to be run once more
    crossing,  \* clears on their way to the camera
    cleared,   \* clears the camera has seen
    received,  \* commands received so far
    resets     \* resets so far

vars == <<regs, waiting, running, crossing, cleared, received, resets>>

Init ==
    /\ regs = ResetRegs /\ waiting = <<>> /\ running = <<>>
    /\ crossing = 0 /\ cleared = 0 /\ received = 0 /\ resets = 0

Take(c) ==
    /\ received' = received + 1
    /\ waiting' = Append(waiting, [code |-> c.code, data |-> c.data, seq |-> received'])
    /\ UNCHANGED <<regs, running, crossing, cleared, resets>>

Refuse ==
    /\ Len(waiting) >= Room
    /\ received' = received + 1
    /\ UNCHANGED <<regs, waiting, running, crossing, cleared, resets>>

\* The registers a command is about.
Names(c) ==
    (IF c.code \in {"WRITE_CTRL", "START_CAPTURE", "STOP_CAPTURE"} THEN {"capture"} ELSE {})
    \cup (IF c.code \in {"WRITE_CTRL", "BUZZER_ON", "BUZZER_OFF"} THEN {"alarm"} ELSE {})
    \cup (IF c.code = "WRITE_ROI_W" THEN {"roiW"} ELSE {})

\* The registers when c has run: a width of a command is a width of the register, and
\* any command leaves one of at least 1.
Ran(c) ==
    /\ \A x \in {"capture", "alarm", "roiW"} \ Names(c) : regs'[x] = regs[x]
    /\ c.code = "WRITE_CTRL" =>
           regs'.capture = (c.data % 2 = 1) /\ regs'.alarm = (c.data \div 2 = 1)
    /\ c.code \in {"START_CAPTURE", "STOP_CAPTURE"} =>
           regs'.capture = (c.code = "START_CAPTURE")
    /\ c.code \in {"BUZZER_ON", "BUZZER_OFF"} => regs'.alarm = (c.code = "BUZZER_ON")
    /\ c.code = "WRITE_ROI_W" /\ c.data \in 1..(RoiRange - 1) => regs'.roiW = c.data
    /\ regs'.roiW \in 1..(RoiRange - 1)
    /\ regs'.cmdError = (c.code = "WRITE_BAD") /\ regs'.seq = c.seq

\* Clears that a run of c sends, and clears on their way after n more are sent.
Clears(c) == IF c.code = "CLEAR_ERROR" THEN 1 ELSE 0
Cross(n)  == crossing' \in {crossing + n, crossing + n - 2} /\ crossing' >= 0

RunNext ==
    /\ running = <<>>
    /\ waiting # <<>> /\ waiting' = Tail(waiting)
    /\ Ran(Head(waiting)) /\ Cross(Clears(Head(waiting)))
    /\ running' \in {<<>>, <<Head(waiting)>>}
    /\ UNCHANGED <<cleared, received, resets>>

RunAgain ==
    /\ running # <<>> /\ running' = <<>>
    /\ Cross(Clears(Head(running)))
    /\ UNCHANGED <<regs, waiting, cleared, received, resets>>

Cancel == Cross(0) /\ UNCHANGED <<regs, waiting, running, cleared, received, resets>>

Arrive ==
    /\ crossing > 0 /\ crossing' = crossing - 1
    /\ cleared' = cleared + 1
    /\ UNCHANGED <<regs, waiting, running, received, resets>>

\* A reset may swallow the clears on their way, and may look like one to the camera.
Reset ==
    /\ resets' = resets + 1 /\ waiting' = <<>> /\ running' = <<>>
    /\ regs' \in {regs, ResetRegs}
    /\ crossing' \in 0..(crossing + 1)
    /\ UNCHANGED <<cleared, received>>

Next ==
    \/ \E c \in Commands : Take(c)
    \/ Refuse \/ RunNext \/ RunAgain \/ Cancel \/ Arrive \/ Reset
Spec == Init /\ [][Next]_vars
==============================================================================
