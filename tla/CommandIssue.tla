----------------------------- MODULE CommandIssue ----------------------------
(***************************************************************************)
(* The Linux side of the run parameters.  Two threads of the edge service  *)
(* send WRITE_REG commands over UDP: start() on the main thread writes the *)
(* defaults and starts the capture after it has launched http_loop, and    *)
(* http_loop serves apply_params, apply_defaults, write_reg and the simple *)
(* commands.  send_mutex_ covers one packet, not a parameter set; after    *)
(* the last register of a set the thread copies the set to                 *)
(* current_params_, which /api/status shows as current_*.                  *)
(*                                                                         *)
(* The FPGA executes what it receives in order (CommandExec); here a       *)
(* delivered write takes effect at once.  A register takes the low bits of *)
(* what is sent, some of them a 1 for a 0, and nobody is told; a reset of  *)
(* the FPGA undoes what was written.                                       *)
(***************************************************************************)
EXTENDS Integers, Sequences, SequencesExt

CONSTANTS
    NRegs,            \* registers of a parameter set: 7 in the code
    Values,           \* values of a parameter: 0..2^32 - 1 in the code
    RegRange,         \* values of a register: 2^2 to 2^16 in the code, alike here
    OneAtLeast,       \* registers that take a 1 for a 0: roi_w, roi_h, the alarm count
    ResetValue,       \* the value of a register after a reset
    NotYet,           \* no value: the register has not been written
    Default,          \* the value of every parameter in the configuration file
    HttpDuringStart,  \* requests may arrive while start() still writes
    WriteReg,         \* /api/write_reg is used
    Lossy,            \* the network may lose packets
    MaxRequests,      \* HTTP requests of a behaviour (bound)
    MaxFpgaResets,    \* resets of the FPGA in a behaviour (bound)
    MaxFails,         \* sendto() failures of a behaviour (bound)
    MaxCrashes        \* restarts by systemd of a behaviour (bound)

ASSUME RegsAssumption == NRegs \in Nat \ {0} /\ Default \in Values /\ NotYet \notin Values
ASSUME WidthAssumption ==
    /\ Values \subseteq Nat /\ RegRange \in Nat \ {0, 1} /\ OneAtLeast \subseteq 1..NRegs
    /\ ResetValue \in 1..(RegRange - 1)
ASSUME SwitchesAssumption ==
    {HttpDuringStart, WriteReg, Lossy} \subseteq BOOLEAN
ASSUME BoundsAssumption ==
    {MaxRequests, MaxFpgaResets, MaxFails, MaxCrashes} \subseteq Nat

VARIABLES
    job,       \* job[t]: what thread t is sending
    starting,  \* what start() has still to do
    mirror,    \* current_params_
    net,       \* commands in the network, oldest first
    registers, \* the registers of the FPGA
    bounds,    \* requests, FPGA resets, failures and crashes so far (bound)
    issued,    \* history: value of the last write of each register that was sent
    lost,      \* history: registers whose last write the network lost or an FPGA
               \* reset undid, or that have not been written yet
    alone,     \* history: threads whose set no other thread has disturbed so far
    agreed     \* history: nothing has been sent since an undisturbed set was complete

history == <<issued, lost, alone, agreed>>
issueVars == <<job, starting, mirror, net, registers, bounds, history>>

Params  == 1..NRegs
Threads == {"main", "http"}

\* Writing a parameter set: registers next..NRegs, then current_params_ (and a set
\* that begins a register too early).
ApplyFromZero(set) == [op |-> "apply", set |-> set, next |-> 0]
Apply(set) == [op |-> "apply", set |-> set, next |-> 1]
\* One packet that writes a register without touching current_params_.
Poke(r, v) == [op |-> "poke", reg |-> r, val |-> v]
Simple     == [op |-> "simple"]
NoJob      == [op |-> "none"]

Uniform(v) == [r \in Params |-> v]

\* Parameter sets a request can carry.
Sets == [Params -> Values]

IssueInit ==
    /\ job = [t \in Threads |-> NoJob]
    /\ starting = <<"apply_defaults", "start_capture">>
    /\ mirror = Uniform(Default)
    /\ net = <<>> /\ registers = Uniform(ResetValue)
    /\ bounds = [requests |-> 0, resets |-> 0, fails |-> 0, crashes |-> 0]
    /\ issued = Uniform(NotYet) /\ lost = Params /\ alone = {} /\ agreed = FALSE

(***************************************************************************)
(* Beginning a job.                                                        *)
(***************************************************************************)
\* start(), after the threads are running.
StartStep ==
    /\ starting # <<>> /\ job["main"] = NoJob
    /\ job' = [job EXCEPT !["main"] =
                   IF Head(starting) = "apply_defaults" THEN Apply(Uniform(Default)) ELSE Simple]
    /\ starting' = Tail(starting)
    /\ alone' = IF Head(starting) = "apply_defaults" THEN alone \cup {"main"} ELSE alone
    /\ UNCHANGED <<mirror, net, registers, bounds, issued, lost, agreed>>

StartDone == starting = <<>> /\ job["main"] = NoJob

\* http_loop serves one request at a time.
HttpRequest(j) ==
    /\ bounds.requests < MaxRequests
    /\ bounds' = [bounds EXCEPT !.requests = @ + 1]
    /\ job["http"] = NoJob /\ (HttpDuringStart \/ StartDone)
    /\ job' = [job EXCEPT !["http"] = j]
    /\ alone' = IF j.op = "apply" THEN alone \cup {"http"} ELSE alone
    /\ UNCHANGED <<starting, mirror, net, registers, issued, lost, agreed>>

Requests ==
    {Apply(s) : s \in Sets} \cup {Apply(Uniform(Default)), Simple}
    \cup (IF WriteReg THEN {Poke(r, v) : r \in Params, v \in Values} ELSE {})

(***************************************************************************)
(* send_command_packet, under send_mutex_, and what follows it.            *)
(***************************************************************************)
Write(t) ==
    IF job[t].op = "poke" THEN <<job[t].reg, job[t].val>>
    ELSE <<job[t].next, job[t].set[job[t].next]>>

\* A thread that leaves out the last register of a set.
MoreToSendShort(t) == job[t].op = "apply" /\ job[t].next < NRegs
MoreToSend(t) == job[t].op = "apply" /\ job[t].next <= NRegs

Advance(t) ==
    IF job[t].op = "apply" THEN [job[t] EXCEPT !.next = @ + 1] ELSE NoJob

SendRegister(t) ==
    /\ MoreToSend(t) \/ job[t].op = "poke"
    /\ net' = Append(net, Write(t))
    /\ issued' = [issued EXCEPT ![Write(t)[1]] = Write(t)[2]]
    /\ lost' = lost \ {Write(t)[1]}
    /\ job' = [job EXCEPT ![t] = Advance(t)]
    /\ alone' = alone \cap {t} /\ agreed' = FALSE
    /\ UNCHANGED <<starting, mirror, registers, bounds>>

\* A command without a register: StartCapture and the like.  It leaves these
\* registers alone.
SendSimple(t) ==
    /\ job[t].op = "simple"
    /\ job' = [job EXCEPT ![t] = NoJob]
    /\ UNCHANGED <<starting, mirror, net, registers, bounds, history>>

\* sendto() fails or fpga_ip is invalid: the rest of the set is given up.
SendFails(t) ==
    /\ MoreToSend(t) \/ job[t].op \in {"poke", "simple"}
    /\ bounds.fails < MaxFails
    /\ bounds' = [bounds EXCEPT !.fails = @ + 1]
    /\ job' = [job EXCEPT ![t] = NoJob]
    /\ alone' = alone \ {t}
    /\ UNCHANGED <<starting, mirror, net, registers, issued, lost, agreed>>

\* A thread that forgets current_params_.
MirrorAfterForgotten(t) == mirror
MirrorAfter(t) == job[t].set

\* params_mutex_: the set has been sent.
UpdateMirror(t) ==
    /\ job[t].op = "apply" /\ ~MoreToSend(t)
    /\ mirror' = MirrorAfter(t)
    /\ job' = [job EXCEPT ![t] = NoJob]
    /\ alone' = {} /\ agreed' = (t \in alone)
    /\ UNCHANGED <<starting, net, registers, bounds, issued, lost>>

\* systemd restarts the service; the constructor fills current_params_ from the
\* configuration.
Crash ==
    /\ bounds.crashes < MaxCrashes
    /\ bounds' = [bounds EXCEPT !.crashes = @ + 1]
    /\ job' = [t \in Threads |-> NoJob]
    /\ starting' = <<"apply_defaults", "start_capture">>
    /\ mirror' = Uniform(Default)
    /\ alone' = {} /\ agreed' = FALSE
    /\ UNCHANGED <<net, registers, issued, lost>>

(***************************************************************************)
(* The network and the FPGA.                                               *)
(***************************************************************************)
\* A bank that takes a 0 for a width or a count.
WrittenUnchecked(w) == w[2] % RegRange
Written(w) ==
    IF w[1] \in OneAtLeast /\ w[2] % RegRange = 0 THEN 1 ELSE w[2] % RegRange

NoneFrom(r, i) == \A j \in i..Len(net) : net[j][1] # r

\* In order: a board and a host on one switch.
Deliver ==
    /\ net # <<>>
    /\ registers' = [registers EXCEPT ![Head(net)[1]] = Written(Head(net))]
    /\ net' = Tail(net)
    /\ UNCHANGED <<job, starting, mirror, bounds, history>>

Lose(i) ==
    /\ Lossy
    /\ net' = RemoveAt(net, i)
    /\ lost' = IF \E j \in (i + 1)..Len(net) : net[j][1] = net[i][1]
                 THEN lost ELSE lost \cup {net[i][1]}
    /\ UNCHANGED <<job, starting, mirror, registers, bounds, issued, alone, agreed>>

\* manual_rst_n or a lost lock: the registers fall back; nobody tells the service.
FpgaReset ==
    /\ bounds.resets < MaxFpgaResets
    /\ bounds' = [bounds EXCEPT !.resets = @ + 1]
    /\ registers' = Uniform(ResetValue)
    /\ lost' = lost \cup {r \in Params : NoneFrom(r, 1)}
    /\ UNCHANGED <<job, starting, mirror, net, issued, alone, agreed>>

ThreadStep(t) == SendRegister(t) \/ SendSimple(t) \/ SendFails(t) \/ UpdateMirror(t)

IssueNext ==
    \/ StartStep
    \/ \E j \in Requests : HttpRequest(j)
    \/ \E t \in Threads : ThreadStep(t)
    \/ Crash
    \/ Deliver \/ FpgaReset
    \/ \E i \in 1..Len(net) : Lose(i)

IssueSpec == IssueInit /\ [][IssueNext]_issueVars

-----------------------------------------------------------------------------
Idle == StartDone /\ job["http"] = NoJob

Jobs ==
    [op : {"apply"}, set : Sets, next : 1..(NRegs + 1)]
    \cup [op : {"poke"}, reg : Params, val : Values] \cup {Simple, NoJob}

IssueTypeOK ==
    /\ job \in [Threads -> Jobs] /\ mirror \in Sets
    /\ net \in Seq(Params \X Values)
    /\ registers \in [Params -> 0..(RegRange - 1)]
    /\ issued \in [Params -> Values \cup {NotYet}]
    /\ lost \subseteq Params /\ alone \subseteq Threads /\ agreed \in BOOLEAN

\* current_* is what was sent last for each register as soon as one set has been sent
\* without a failure, a restart or another thread's packet in between, whatever went
\* wrong before it, and until the next packet (apply_default_registers,
\* apply_runtime_params).
UndisturbedSetIsMirrored == agreed => issued = mirror

\* Values that a register can hold.
Fits(r) == (IF r \in OneAtLeast THEN 1 ELSE 0)..(RegRange - 1)
Holds(r) == issued[r] \in Fits(r) => registers[r] = issued[r]

\* Once everything sent has arrived, each register of the FPGA that was not reset since
\* holds the value that was sent last, whichever thread sent it and whatever failed or
\* restarted between, unless that is a value the register cannot hold: a width or count
\* of 0 or one with too many bits, which /api/apply_params and /api/write_reg send as it
\* is.  Then, too, no width and no count is ever 0 (vision_reg_bank.v:72-79).
RegistersFollow ==
    /\ \A r \in Params : registers[r] \in Fits(r)
    /\ net = <<>> => \A r \in Params \ lost : Holds(r)

\* When nothing is being sent, current_* is what was sent last for each register.
MirrorIsLastIssued ==
    Idle => \A r \in Params : issued[r] \in {mirror[r], NotYet}

\* When the service is idle and nothing is under way, the FPGA runs with the
\* parameters that current_* shows, as the reply "runtime params applied" says.
AppliedTakesEffect == Idle /\ net = <<>> => registers = mirror

\* Why these two hold.  The last write of a register is still in the network, with nothing
\* for the register behind it, or it was the last one that the register took.
Follows(r) ==
    \/ Holds(r) /\ NoneFrom(r, 1)
    \/ \E i \in 1..Len(net) : net[i] = <<r, issued[r]>> /\ NoneFrom(r, i + 1)
FollowInv ==
    /\ IssueTypeOK
    /\ \A r \in Params : registers[r] \in Fits(r)
    /\ \A r \in Params \ lost : Follows(r)

\* A thread that was alone so far has issued the part of its set that it has sent.
OwnPart(t) ==
    /\ job[t].op = "apply"
    /\ \A r \in 1..(job[t].next - 1) : issued[r] = job[t].set[r]
MirrorInv == IssueTypeOK /\ (\A t \in alone : OwnPart(t)) /\ (agreed => issued = mirror)
==============================================================================
