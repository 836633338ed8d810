------------------------------ MODULE PulseSync ------------------------------
(***************************************************************************)
(* pulse_sync_toggle: a one-cycle pulse crosses from the source clock to   *)
(* the destination clock as a change of level.                             *)
(*                                                                         *)
(* The two clocks are related only by how many source edges can fall       *)
(* between two destination edges, at most MaxPeriod.  The source raises a  *)
(* pulse at most every MinGap + 1 edges: one per camera frame for the      *)
(* frame_ready and restart pulses, back to back (MinGap = 0) for           *)
(* clear_error.                                                            *)
(***************************************************************************)
EXTENDS Integers

CONSTANTS
    MaxPeriod,  \* source edges between two destination edges, at most
    MinGap,     \* source edges without a pulse after a pulse, at least
    MaxPulses   \* pulses of a behaviour (bound)

ASSUME TimingAssumption == MaxPeriod \in Nat \ {0} /\ MinGap \in Nat
ASSUME PulsesAssumption == MaxPulses \in Nat

VARIABLES
    toggle,   \* src_toggle
    ff,       \* dst_ff0, dst_ff1, dst_ff2
    since,    \* source edges since the last destination edge
    gap,      \* source edges since the last pulse, up to MinGap
    pulsed,   \* history: pulses raised by the source
    arrived   \* history: pulses seen by the destination

syncVars == <<toggle, ff, since, gap, pulsed, arrived>>

SyncInit ==
    /\ toggle = FALSE
    /\ ff = [i \in 0..2 |-> FALSE]
    /\ since = 0 /\ gap = MinGap
    /\ pulsed = 0 /\ arrived = 0

\* dst_pulse, as the logic clocked by the destination samples it.
DstPulse == ff[1] # ff[2]

\* A synchroniser that samples a level instead of a change of level.
ToggleLevel(pulse) == pulse
ToggleNext(pulse) == IF pulse THEN ~toggle ELSE toggle

SrcEdge(pulse) ==
    /\ since < MaxPeriod
    /\ pulse => gap >= MinGap
    /\ toggle' = ToggleNext(pulse)
    /\ since' = since + 1
    /\ gap' = IF pulse THEN 0 ELSE IF gap < MinGap THEN gap + 1 ELSE gap
    /\ pulsed' = IF pulse THEN pulsed + 1 ELSE pulsed
    /\ UNCHANGED <<ff, arrived>>

DstEdge ==
    /\ ff' = [ff EXCEPT ![0] = toggle, ![1] = ff[0], ![2] = ff[1]]
    /\ since' = 0
    /\ arrived' = IF DstPulse THEN arrived + 1 ELSE arrived
    /\ UNCHANGED <<toggle, gap, pulsed>>

SyncNext ==
    \/ SrcEdge(FALSE)
    \/ pulsed < MaxPulses /\ SrcEdge(TRUE)
    \/ DstEdge

SyncSpec == SyncInit /\ [][SyncNext]_syncVars
FairSync == SyncSpec /\ WF_syncVars(SrcEdge(FALSE)) /\ WF_syncVars(DstEdge)

-----------------------------------------------------------------------------
SyncTypeOK ==
    /\ toggle \in BOOLEAN
    /\ ff \in [0..2 -> BOOLEAN]
    /\ since \in 0..MaxPeriod /\ gap \in 0..MinGap
    /\ pulsed \in Nat /\ arrived \in Nat

\* Changes of level still on their way through the flip-flops.
InFlight ==
    (IF toggle # ff[0] THEN 1 ELSE 0) + (IF ff[0] # ff[1] THEN 1 ELSE 0)
    + (IF ff[1] # ff[2] THEN 1 ELSE 0)

\* Every pulse of the source is seen exactly once by the destination or is still in
\* the flip-flops: none is lost, none doubled.
NoPulseLost == pulsed = arrived + InFlight

\* Its inductive form: a change the destination has not sampled is more recent than
\* its last edge.
SyncInv ==
    /\ NoPulseLost
    /\ toggle # ff[0] => gap < since

\* Each pulse arrives.
PulseArrives == \A n \in 1..MaxPulses : pulsed = n ~> arrived >= n
==============================================================================
