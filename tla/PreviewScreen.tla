---------------------------- MODULE PreviewScreen ----------------------------
(***************************************************************************)
(* What the preview path promises to the page that shows it: the picture   *)
(* on the screen is one frame of the camera, whole, that the FPGA has sent *)
(* completely; it is replaced by an older one only if packets of that were *)
(* overtaken in the network.  A reset of the FPGA starts the frame ids     *)
(* over and ends the promise.                                              *)
(***************************************************************************)
EXTENDS Integers

CONSTANTS
    Frames,          \* the frames there can be
    ChunksPerFrame   \* preview packets of a frame

VARIABLES
    complete,  \* numbers of the frames the FPGA has sent completely
    screen,    \* the picture: which piece of which frame is at each position
    newest,    \* the frame shown last
    late,      \* frames a packet of which was overtaken in the network
    reset      \* the FPGA has been reset

vars == <<complete, screen, newest, late, reset>>

Blank    == <<>>
Whole(f) == [i \in 1..ChunksPerFrame |-> [src |-> f, chunk |-> i - 1]]

Init == complete = {} /\ screen = Blank /\ newest = 0 /\ late = {} /\ reset = FALSE

\* Any packets may be overtaken while something else happens.
Overtaking == \E fs \in SUBSET Frames : late' = late \cup fs

FrameSent ==
    \E f \in Frames :
        complete' = complete \cup {f} /\ UNCHANGED <<screen, newest, late, reset>>

Show(f) ==
    /\ f \in complete
    /\ f >= newest \/ f \in late
    /\ screen' = Whole(f)
    /\ newest' = f
    /\ Overtaking
    /\ UNCHANGED <<complete, reset>>

\* Packets that do not complete a frame.
ShowNothing == Overtaking /\ UNCHANGED <<complete, screen, newest, reset>>

\* The service restarts with no picture.
Restart == screen' = Blank /\ UNCHANGED <<complete, newest, late, reset>>

FpgaReset == reset' = TRUE /\ UNCHANGED <<complete, screen, newest, late>>
ShowAnything == reset /\ UNCHANGED <<complete, reset>>

Next ==
    \/ FrameSent \/ ShowNothing \/ Restart \/ FpgaReset \/ ShowAnything
    \/ \E f \in complete : Show(f)
Spec == Init /\ [][Next]_vars
==============================================================================
