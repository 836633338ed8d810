----------------------------- MODULE AlarmPath -----------------------------
(***************************************************************************)
(* An alarm from the pixel counters to the event table: the decision of    *)
(* vision_preprocess_core at the end of a frame, the buzzer, the           *)
(* statistics FIFO, the packet that samples status_bits when it takes a    *)
(* record, the network, and rx_loop of the service, which turns a rising   *)
(* alarm bit into an event.                                                *)
(*                                                                         *)
(* A step is a frame, a crossing of a clock domain, or a packet.  How the  *)
(* transmitter serialises a packet is in TxArbiter, how commands reach the *)
(* registers in CommandExec and CommandIssue.                              *)
(***************************************************************************)
EXTENDS Integers, Sequences

CONSTANTS
    Counts,       \* values of bright_count of a frame
    Thresholds,   \* values of alarm_count_threshold
    FifoDepth,    \* records the statistics FIFO holds: 16
    BeepFrames,   \* frames that fit into BEEP_HOLD_CYCLES
    MaxFrames, MaxCommands, MaxWrites,  \* of a behaviour (bounds)
    MaxMishaps    \* clears, losses of the path or of a packet, restarts (bound)

ASSUME CountsAssumption ==
    /\ Counts \subseteq Nat /\ Counts # {}
    /\ Thresholds \subseteq Nat \ {0} /\ Thresholds # {}
ASSUME SizesAssumption == FifoDepth \in Nat \ {0} /\ BeepFrames \in Nat \ {0}
ASSUME BoundsAssumption ==
    {MaxFrames, MaxCommands, MaxWrites, MaxMishaps} \subseteq Nat

VARIABLES
    reg,       \* vision_reg_bank: capture_enable, alarm_enable, alarm_count_threshold
    cam,       \* the same in the camera domain (*_cam_ff1)
    alarm,     \* alarm_active
    overflow,  \* fifo_overflow_flag
    beep,      \* beep_hold_cnt, in frames
    fifo,      \* stats_async_fifo
    visible,   \* records of fifo the reading domain sees
    alarmEth,  \* alarm_active_eth
    up,        \* reset of the telemetry path is released
    pkt,       \* pkt_data_256 while pkt_valid: a sequence of at most one packet
    net,       \* packets on the network
    write,     \* register write on its way: a sequence of at most one threshold
    http,      \* threshold sent but not yet stored in current_params_, or 0
    params,    \* current_params_.alarm_count_threshold
    last,      \* alarm_state_.last_alarm_active
    events,    \* events recorded, by all runs of the service together
    latest,    \* alarm_state_: the last event
    used,      \* how often each bounded thing happened
    rises,     \* history: how often alarm_active rose at the end of a frame
    silent,    \* history: frames since one last met the condition of an alarm
    paced      \* history: every frame ended after the record before it had been sent

camera  == <<cam, alarm, overflow, beep, rises, silent, paced>>
path    == <<fifo, visible, alarmEth, up, pkt>>
service == <<http, params, last, events, latest>>
vars    == <<reg, camera, path, net, write, service, used>>

Once(what, bound) == used[what] < bound /\ used' = [used EXCEPT ![what] = @ + 1]
Mishap(what) ==
    /\ used.clears + used.downs + used.losses + used.restarts < MaxMishaps
    /\ used' = [used EXCEPT ![what] = @ + 1]

NoEvent == [count |-> 0, threshold |-> 0]
Default == CHOOSE t \in Thresholds : \A u \in Thresholds : t <= u

Init ==
    /\ reg = [capture |-> TRUE, alarm |-> TRUE, threshold |-> Default]
    /\ cam = reg
    /\ alarm = FALSE /\ overflow = FALSE /\ beep = 0
    /\ fifo = <<>> /\ visible = 0 /\ alarmEth = FALSE
    /\ up = FALSE /\ pkt = <<>> /\ net = <<>>
    /\ write = <<>> /\ http = 0 /\ params = Default
    /\ last = FALSE /\ events = 0 /\ latest = NoEvent
    /\ used = [frames |-> 0, commands |-> 0, clears |-> 0, writes |-> 0,
               downs |-> 0, losses |-> 0, restarts |-> 0]
    /\ rises = 0 /\ silent = BeepFrames /\ paced = TRUE

(***************************************************************************)
(* The camera domain.                                                      *)
(***************************************************************************)
Meets(count) == cam.alarm /\ count >= cam.threshold

\* The buzzer after the frame that ends now, while the alarm is on or not.
BeepAfter(on) ==
    IF ~cam.alarm THEN 0
    ELSE IF on THEN BeepFrames
    ELSE IF beep > 0 THEN beep - 1 ELSE 0

Silence(count) == IF count >= cam.threshold THEN 0
                  ELSE IF silent < BeepFrames + 1 THEN silent + 1 ELSE silent

\* A FIFO that says too late that it is full.
HasRoomLate == Len(fifo) <= FifoDepth
HasRoom == Len(fifo) < FifoDepth

\* frame_end: decide the alarm and write the record, unless the FIFO is full.  due is
\* the decision; cleared tells that clear_error came after it.
FrameEnd(count) ==
    /\ Once("frames", MaxFrames)
    /\ paced' = (paced /\ up /\ fifo = <<>> /\ pkt = <<>>)
    /\ silent' = Silence(IF cam.capture THEN count ELSE 0)
    /\ IF cam.capture
       THEN /\ alarm' = Meets(count)
            /\ rises' = IF ~alarm /\ Meets(count) THEN rises + 1 ELSE rises
            /\ IF HasRoom
               THEN /\ fifo' = Append(fifo, [count |-> count, due |-> Meets(count),
                                             cleared |-> FALSE])
                    /\ UNCHANGED overflow
               ELSE overflow' = TRUE /\ UNCHANGED fifo
       ELSE UNCHANGED <<alarm, rises, fifo, overflow>>
    /\ beep' = BeepAfter(alarm')
    /\ UNCHANGED <<reg, cam, visible, alarmEth, up, pkt, net, write, service>>

\* A clear that silences the buzzer but leaves the alarm alone.
ClearedAlarmKept == alarm
ClearedAlarm == FALSE

\* clear_error_cam_pulse.
ClearError ==
    /\ Mishap("clears")
    /\ alarm' = ClearedAlarm /\ overflow' = FALSE /\ beep' = 0
    /\ fifo' = [i \in DOMAIN fifo |-> [fifo[i] EXCEPT !.cleared = TRUE]]
    /\ UNCHANGED <<reg, cam, rises, silent, paced, visible, alarmEth, up, pkt, net, write, service>>

\* A register value reaches the camera domain; the buzzer follows alarm_enable at once,
\* also when it comes back during an alarm.
SyncRegister ==
    /\ \E f \in DOMAIN cam : cam[f] # reg[f] /\ cam' = [cam EXCEPT ![f] = reg[f]]
    /\ beep' = IF ~cam'.alarm THEN 0 ELSE IF alarm THEN BeepFrames ELSE beep
    /\ UNCHANGED <<reg, alarm, overflow, rises, silent, paced, path, net, write, service, used>>

(***************************************************************************)
(* The Ethernet domain.                                                    *)
(***************************************************************************)
\* START_CAPTURE, STOP_CAPTURE, BUZZER_ON, BUZZER_OFF.
Command ==
    /\ Once("commands", MaxCommands)
    /\ \E f \in {"capture", "alarm"}, on \in BOOLEAN : reg' = [reg EXCEPT ![f] = on]
    /\ UNCHANGED <<camera, path, net, write, service>>

ThresholdArrives ==
    /\ write # <<>> /\ write' = <<>>
    /\ reg' = [reg EXCEPT !.threshold = Head(write)]
    /\ UNCHANGED <<camera, path, net, service, used>>

\* A crossing in which records overtake the alarm bit.
AlarmBitLate == IF visible < Len(fifo) THEN alarmEth ELSE alarm
AlarmBit == alarm

\* The alarm bit and the write pointer of the FIFO cross the domains; the bit is set a
\* clock before the record is written and takes no longer.
Cross ==
    /\ alarmEth # alarm \/ visible < Len(fifo)
    /\ alarmEth' = AlarmBit /\ visible' = Len(fifo)
    /\ UNCHANGED <<reg, camera, fifo, up, pkt, net, write, service, used>>

PathUp ==
    /\ ~up /\ up' = TRUE
    /\ UNCHANGED <<reg, camera, fifo, visible, alarmEth, pkt, net, write, service, used>>

\* The clock lock or DDR3 is lost: the packet is gone, the FIFO is not reset.
PathDown ==
    /\ up /\ up' = FALSE /\ pkt' = <<>>
    /\ Mishap("downs")
    /\ UNCHANGED <<reg, camera, fifo, visible, alarmEth, net, write, service>>

\* frame_stats_packet_parallel takes a record and samples status_bits.
TakeRecord ==
    /\ up /\ pkt = <<>> /\ visible > 0
    /\ pkt' = <<[rec |-> Head(fifo), bit |-> alarmEth]>>
    /\ fifo' = Tail(fifo) /\ visible' = visible - 1
    /\ UNCHANGED <<reg, camera, alarmEth, up, net, write, service, used>>

SendPacket ==
    /\ up /\ pkt # <<>>
    /\ net' = Append(net, Head(pkt)) /\ pkt' = <<>>
    /\ UNCHANGED <<reg, camera, fifo, visible, alarmEth, up, write, service, used>>

LosePacket ==
    /\ net # <<>> /\ net' = Tail(net)
    /\ Mishap("losses")
    /\ UNCHANGED <<reg, camera, path, write, service>>

(***************************************************************************)
(* The service.                                                            *)
(***************************************************************************)
\* An event for every packet with the alarm bit.
NewEventAlways(bit) == bit
NewEvent(bit) == bit /\ ~last

\* rx_loop: the event gets the threshold of current_params_.
ReceivePacket ==
    /\ net # <<>> /\ net' = Tail(net)
    /\ last' = Head(net).bit
    /\ IF NewEvent(Head(net).bit)
       THEN /\ events' = events + 1
            /\ latest' = [count |-> Head(net).rec.count, threshold |-> params]
       ELSE UNCHANGED <<events, latest>>
    /\ UNCHANGED <<reg, camera, path, write, http, params, used>>

\* /api/apply_params: the write is sent, current_params_ changes afterwards.
SendThreshold ==
    /\ http = 0 /\ write = <<>>
    /\ Once("writes", MaxWrites)
    /\ \E t \in Thresholds : write' = <<t>> /\ http' = t
    /\ UNCHANGED <<reg, camera, path, net, params, last, events, latest>>

StoreParams ==
    /\ http # 0 /\ params' = http /\ http' = 0
    /\ UNCHANGED <<reg, camera, path, net, write, last, events, latest, used>>

\* systemd restarts the service; its tables and current_params_ start over.
Restart ==
    /\ Mishap("restarts")
    /\ http' = 0 /\ params' = Default /\ last' = FALSE /\ latest' = NoEvent
    /\ UNCHANGED <<reg, camera, path, net, write, events>>

Next ==
    \/ \E count \in Counts : FrameEnd(count)
    \/ ClearError \/ SyncRegister
    \/ Command \/ ThresholdArrives
    \/ Cross \/ PathUp \/ PathDown \/ TakeRecord \/ SendPacket \/ LosePacket
    \/ ReceivePacket \/ SendThreshold \/ StoreParams \/ Restart

Spec == Init /\ [][Next]_vars

-----------------------------------------------------------------------------
Records == [count : Counts, due : BOOLEAN, cleared : BOOLEAN]
Packets == [rec : Records, bit : BOOLEAN]
Registers == [capture : BOOLEAN, alarm : BOOLEAN, threshold : Thresholds]

TypeOK ==
    /\ reg \in Registers /\ cam \in Registers
    /\ alarm \in BOOLEAN /\ overflow \in BOOLEAN /\ alarmEth \in BOOLEAN /\ up \in BOOLEAN
    /\ beep \in 0..BeepFrames /\ silent \in 0..(BeepFrames + 1)
    /\ fifo \in Seq(Records) /\ Len(fifo) <= FifoDepth /\ visible \in 0..Len(fifo)
    /\ pkt \in Seq(Packets) /\ Len(pkt) <= 1 /\ net \in Seq(Packets)
    /\ write \in Seq(Thresholds) /\ Len(write) <= 1
    /\ http \in Thresholds \cup {0} /\ params \in Thresholds
    /\ last \in BOOLEAN /\ events \in Nat /\ rises \in Nat
    /\ latest \in [count : Nat, threshold : Nat]
    /\ used \in [{"frames", "commands", "clears", "writes", "downs", "losses", "restarts"} -> Nat]

\* There are never more events than alarms: the bits the service sees are samples of
\* alarm_active in order, so that lost packets, resets of the path and a full FIFO merge
\* alarms and never split one.  Only a restart of the service reports an alarm again.
EventsAreAlarms == events <= rises + used.restarts

\* The alarm bit of a packet is the decision on the frame of its record, if the path has
\* sent each record before the next frame ends; clear_error alone may come in between.
BitIsDecision ==
    paced =>
        \A p \in {pkt[i] : i \in DOMAIN pkt} \cup {net[i] : i \in DOMAIN net} :
            p.bit = p.rec.due \/ (p.rec.cleared /\ ~p.bit)

\* No alarm is missed: when everything sent has arrived, each has its event, unless
\* packets were lost or clear_error let two alarms follow each other without a gap.
EachAlarmHasItsEvent ==
    /\ paced /\ fifo = <<>> /\ pkt = <<>> /\ net = <<>>
    /\ used.downs = 0 /\ used.losses = 0 /\ used.clears = 0 /\ used.restarts = 0
    => events = rises

\* An event shows a count that reaches its threshold, if the path keeps up with the
\* frames and the threshold is not changed meanwhile.
EventMeetsThreshold ==
    paced /\ used.writes = 0 => latest.count >= latest.threshold

\* Every event shows such a count.
EventShowsItsReason == latest.count >= latest.threshold

\* The buzzer starts with the end of a captured frame that meets the condition of an
\* alarm, or when alarm_enable comes back and the alarm of such a frame still stands:
\* never after clear_error until a frame raises the alarm again.
BuzzerStartsWithAnAlarm ==
    [][beep = 0 /\ beep' > 0 =>
           /\ alarm'
           /\ (cam.capture /\ silent' = 0) \/ (alarm /\ ~cam.alarm /\ cam'.alarm)]_vars

\* The buzzer sounds for BEEP_HOLD_CYCLES after the alarm condition was met last.
BuzzerStops == beep > 0 => silent < BeepFrames
=============================================================================
