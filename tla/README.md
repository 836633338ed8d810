# Edge vision inspection node: models, checks and proofs

This directory holds TLA+ models of the inspection node: the FPGA design in
`src/edge_vision_node_fpga` (camera capture, DDR3 frame buffer, statistics and alarm,
UDP preview and telemetry, UDP commands) and the Linux service in
`src/edge_node_service` (packet reception, preview reassembly, events, parameters, HTTP API).
TLC checks each model on a small instance; for eleven of them TLAPS proves the central
properties for every size. Below, `rtl/` stands for `src/edge_vision_node_fpga/rtl/`, `top` for
`rtl/top/top_ov2640_ddr3_udp_preview.v` and `service.cpp` for `src/edge_node_service/src/service.cpp`.

To check a run: `tlc -config FrameBuffer.cfg FrameBuffer`. To check proofs:
`tlapm FrameBufferProofs.tla`.

## 1. Inventory

Data flows along four paths.

    OV2640 -> capture_if -> packer -> DDR3 double buffer -> preview generator --+
                  |                                                             +-> mux -> UDP -> rx_loop
                  +-> preprocess_core -> stats FIFO -> packet_parallel ---------+            |   |
                            ^   (alarm_active -> status bits)                          preview   events
                            |                                                                |   |
      reg bank <- cmd FIFO <- parser <- UDP receiver <------- send_command <- http_loop / start()

Clock domains of the FPGA: `camera_pclk` (capture, statistics, DDR3 writes), `eth_clk125m` (reads,
transmit path, register bank) and the receive clock of the PHY. Threads of the service: main
(`start`, `stop`), `rx_loop`, `http_loop`, the watchdog.

| Part | State it keeps | Operations | What is hard | What makes it correct |
|---|---|---|---|---|
| Transmit path (`top` 990-1037, `rtl/net/*`) | states of both generators, latched source, transmitter phase | record taken, chunk filled, launch, byte, done | two sources decide in the same clock, on a busy flag that is a clock old; loss of the clock lock in the middle of a packet | one owner, bytes of one packet, nothing lost or doubled, progress of both sources |
| Preview reassembly (`service.cpp` 734-850) | `preview_assembly_`, `preview_` | chunk begins, extends, completes or ends an assembly | loss, duplication, reordering, 16-bit ids that wrap, restarts on both ends | a published picture is one frame, an intact frame is published |
| Pulse synchroniser (`pulse_sync_toggle.v`) | toggle, three flip-flops | source edge, destination edge | two pulses in one destination period cancel out | none lost or doubled |
| Command execution (`top` 790-860, `vision_reg_bank.v`) | FIFO, registered read enable, registers | receive, execute, clear pulse | one clock of delay between seeing a command and removing it; FIFO full; resets that clear different parts | every command runs, in order and as a whole |
| Command issuing (`service.cpp` 421-477, 1004-1170, 1400-1510) | `current_params_`, two threads in a set | send register, fail, mirror | `send_mutex_` covers a packet, not a set; `start()` and `http_loop` overlap; losses, restarts on both ends; values that a register cannot hold | the mirror is what was sent, registers hold the last write they can hold |
| DDR3 double buffer (`edge_ddr3_framebuffer.v`, `top` 543-551) | banks, counters and copies across domains | write pixel, frame end, read start/pixel/end | bank choice on copies that are two clocks old; a lost lock in the middle of a read, which also resets one side of a synchroniser; short frames | a preview is one frame, the newest whole one |
| Camera capture, packer, statistics | learnt VSYNC polarity, coordinates, counters | frame, line and byte events, record | reset ends inside a frame, polarity learnt on the fly, counters cleared while they count, odd lines | a record counts exactly one frame |
| Alarm path (`vision_preprocess_core.v` 100-175, `frame_stats_packet_parallel.v`, `service.cpp` 632-690) | `alarm_active`, hold counter, FIFO, packet, `alarm_state_` | frame end, clear, packet, event | bit and record take different ways and meet in the packet; parameters are those of the service at reception | an event is an alarm; every alarm has its event |
| Status reply (`service.cpp` 40-418, 580-890, 1178-1330; `protocol.hpp`) | `state_`, `alarm_state_`, `preview_`, image files | datagram parsed, alarm recorded, picture stored and converted, snapshot written, reply collected | a reply is read part by part while `rx_loop` writes; the disk refuses a write; byte order and offsets shared with RTL | a reply does not contradict itself, links lead to whole pictures, both ends read the same fields |
| Service lifecycle (`service.cpp` 421-1002, `main.cpp`, `config.cpp`) | threads, sockets, online flag, `config_` | start, stop, watchdog, reload, restart | sockets closed under running threads, blocking `send`, a file that changes between two looks at it, exceptions that end the process | stop ends, online flag follows packets, the configuration follows the file, the service comes back |
| DDR3 controller (`edge_fifo2mig_axi.v`) | address counters, arbiter state | write and read bursts, beats, error responses | flags that are a clock old, wrap of addresses against the change of bank, two sides on one memory | every beat has its word, a preview is words of one frame in order, neither side starves |
| UDP receiver (`eth_udp_rx_gmii.v`, `udp_cmd_packet_parser.v`) | receive state, byte counters | byte, end of frame | cut-off frames, short lengths | a command is a whole valid packet |
| Sensor initialisation (`ov2640_sccb_init.v`) | table index, error flags | write, acknowledge | errors noticed and skipped | all registers written or an error |
| Building blocks (CRC, checksum, RGMII, clocks), status bits and LEDs, unused modules, configuration parser, logger, web page | | | | see section 7 |

## 2. Modules and what they translate

Every definition that models code has its file and lines in `PROJECT.json` under `map`. Operators
whose names end in a description of a slip (`LaunchTelemAnytime`, `ApplyFromZero`, `HasRoomLate`,
...) are variants with one plausible mistake; they are used by no specification here and exist so
that each property can be shown to fail when the definition after it is replaced by the variant.

**TxArbiter** - `eth_clk125m` clock by clock. `Tick(ready, filled)` is a clock edge:
`PacketParallelNext`, `StatusCtrlNext`, the payload sources (`v32`, `PreviewNext`), `MuxNext` and
`TxNext` compute their next registers from the registers before the edge, as non-blocking assignments
do. `StatsWrite` is the camera writing a record between edges, `LockLost` the loss of the clock
lock: it resets every block but the multiplexer, which hangs on another reset (`top` 1022). A byte
is a pair (packet, position); `WireBytes` compares the byte on the wire with the one the launched
packet should have there.

**MCTxArbiter** - the same with two kinds of behaviour: any timing, and (`calm`) the pacing of the real
camera (section 4).

**PreviewReassembly**, **PreviewScreen** - the chunk sender of the FPGA, the network as a set of
packets that may be lost, delivered twice and overtaken by later ones, and the preview branch of `rx_loop` as
`Deliver`: `Begin`, `Fits`, `Extend`, `GiveUp` are its branches in their order. Data of a chunk is the
identity of its piece of the picture. `PreviewScreen` is the promise to the viewer: only whole frames that were sent
completely, and an older one after a newer one only if packets of it were overtaken (the history `late`), until the FPGA is reset.

**PulseSync** - `pulse_sync_toggle` with two clocks that are related only by `MaxPeriod`.

**CommandExec** - composes PulseSync with the command FIFO, the register bank and the clear pulse.
`EthEdge` executes what the FIFO shows and pops one clock later. Bits of `roi_w` keep their width
(`% RoiRange`), zero becomes one. `RxLost`, `EthLost` and `Button` are the three resets, which clear different parts.
**RegisterFile** is the promise to the host: every command runs in order, as a whole, and touches only the registers it
names; one is refused only while `Room` others wait; only a reset forgets, all that waits at once. A command may run a
second time before the next one (`RunAgain`), as the first of a burst does; the registers do not show it, but each run of a
CLEAR_ERROR sends a clear (`Clears`), and two clears may cancel on their way (`Cross`, `Cancel`). Section 6 has the comments that promise more.

**CommandIssue** - two threads, each with what it is sending (`job`). `SendRegister` is one
`send_command_packet`, `SendFails` a failing `sendto`, `UpdateMirror` the copy to `current_params_`
after the last register, `Crash` a restart by systemd. `Written` is what a register makes of a value: its low bits, and a 1 instead of a 0
for a width or a count. `FpgaReset` puts the registers back without anybody being told.

**FrameBuffer** - the bank decisions at both clock domains and the copies (`cdc`) between them, each
a step of its own. A frame is `Blocks` blocks. `WriteBlock`, `FrameEnd`, `ShortFrameEnd` are the camera
side; `StartRead`, `ReadBlock`, `EndRead` the reader. The end of a frame crosses as a toggle (`Done` is the pulse it makes).
`LockLost` is the loss of `eth_clk_locked`: it resets the generator and the flip-flops of that synchroniser, but neither its toggle nor
the buffer, so a pulse on its way is dropped; with `LockBack` a toggle that is set looks like the end of a frame.

**FrameStore** - beneath FrameBuffer, the way of the pixels through the memory: write FIFO, `edge_fifo2mig_axi`
(`Arb` with its turns, `WrAddr` and `RdAddr`, one action per beat and response, the address counters
in `Advanced`), memory, read FIFO. An address counts bursts, a word is a place in a frame.

**CameraPath** - `camera_pclk` clock by clock: the sensor (environment), `ov2640_capture_if`
(`CaptureNext`, `EventsNext`), `frame_sync_counter`, the packer and the counters of
`vision_preprocess_core`. A byte is its place in the picture and whether it is bright. The histories count the bright bytes of
the ROI without and with its two edge bytes, which is where `x_cnt` and the ROI disagree (section 6).

**AlarmPath** - the alarm frame by frame from the decision to the event table. `FrameEnd` is the
`frame_end` branch of `vision_preprocess_core`, `Cross` one round of the crossings, `TakeRecord` the moment
at which `frame_stats_packet_parallel` joins a record with the status bits, `ReceivePacket` the
telemetry branch of `rx_loop`.

**UdpReceive** - the receive clock, cycle by cycle: a line that carries frames of every kind, `eth_udp_rx_gmii`
(`RxNext` its state machine, `HdrNext`, `CrcNext`, `OutNext` its registers) and `udp_cmd_packet_parser`
(`BufNext`, `Parse`). `Tick` computes all registers from those before the edge. A byte is its place in a frame: a header
field is right when it was collected from one frame's header, the CRC when it summed exactly one undamaged
frame. `CutFrame` drops the valid signal in the middle of a frame, `Reset` is `rst_rx_n`.

**SccbInit**, **MCSccbInit** - `sys_clk`, cycle by cycle: the start by the top level (`TopNext`), the table
walk (`InitNext`), the bit engine (`WrNext` with one operator per state) and the camera as a slave that
watches the two wires, samples on the rising and answers on the falling edge of SCL, or does not answer. A
`Reset` of the FPGA leaves the camera where it is. A byte is the sequence of its bits, the first one sent first.

**StatusReply**, **WireFormats**, **PreviewImage**, **MCStatusReply** - what the browser is told. StatusReply
has `rx_loop`, the watchdog's event and `http_loop`, one mutex section a step, over the bytes of the datagrams:
WireFormats has the three packets as the RTL and the service write and read them, PreviewImage the conversion
of RGB565 and YUV frames to BMP files. The files on disk, with writes and renames that fail, are part of the state; a write fails
unnoticed (`WriteUnnoticed`) when the image is still in the buffer of the stream as `good()` is asked.
MCStatusReply has the records, pictures and commands.

**ServiceLife** - main, `rx_loop`, `watchdog_loop` and `http_loop` as threads with a place in their code, the
two mutexes one of which is taken while the other is held, sockets that `stop()` closes under the threads, the online mark
with the age of the last packet. The configuration file has contents, a modification time and a state: somebody
replaces it (`Replace`), rewrites it in place (`Truncate`, `WriteRest`), moves it away or puts in a number that
`std::stoi` refuses. What then throws ends the process from any thread (`Terminate`), and systemd starts it again
(`Boot`). `UrlThrows` is the exception of `url_decode` in `http_loop`, `PipeBreaks` a SIGPIPE of its `send`. Sections under one mutex are one step.

**TxArbiterProofs, PreviewReassemblyProofs, CommandProofs, FrameBufferProofs, FrameStoreProofs, StatusReplyProofs,
VisionProofs, UdpReceiveProofs** - section 5. CommandProofs has the whole way of a command (PulseSync, CommandExec,
CommandIssue), VisionProofs that from the sensor to the event table (CameraPath, AlarmPath) and the initialisation of the sensor (SccbInit); the names of CommandIssue begin
with `Issue`, those of CameraPath with `Camera`, where the other module has the same, so that one module can extend both.

## 3. Runs

Twelve runs, all of which pass.

| Run | Configuration | Distinct states | Shows |
|---|---|---|---|
| arbiter | TxArbiter.cfg on MCTxArbiter | 29 055 | one owner (`SoleOwner`), its bytes (`WireBytes`), no record lost or doubled (`TelemetryExactlyOnce`), chunks in order (`PreviewInOrder`), the owner releases while the lock holds (`TransmitterReleased`); losses of the lock in any clock. With camera pacing every frame is sent as record and preview (`EveryFrameArrives`) |
| reassembly | PreviewReassembly.cfg | 3 227 021 | `WholeFrame`, `IntactFramePublished` and the refinement `ShowsWholeFrames`: also that an older frame follows a newer one only if its packets were overtaken |
| exec | CommandExec.cfg | 1 673 813 | the path implements RegisterFile: each command in order and whole, possibly a second time before the next one, whatever is reset between two clocks; the clears that arrive are those of the executions less cancelling pairs (`ExecutesCommands`) |
| issue | CommandIssue.cfg | 3 650 526 | a set nobody disturbed is what `current_*` shows (`UndisturbedSetIsMirrored`); a register that lost nothing and was not reset holds what was sent last if it can hold it, and no width or count is ever 0 (`RegistersFollow`) |
| buffer | FrameBuffer.cfg | 478 042 | before a loss of the lock previews show the last whole frame (`ShowsLastWholeFrame`), each loss tears at most two (`TwoTornPerRelock`), the camera keeps off the bank of a marked reader (`KeepsOffBusyBank`) |
| camera | CameraPath.cfg | 407 146 | a record is of one whole frame and counts its bytes, and the bright ones of the ROI but for its two edge bytes, as long as the counter has room (`RecordIsOneFrame`); none is skipped (`NoFrameSkipped`), pixels and frame marks are aligned (`PixelsAligned`, `FramesMarked`) |
| alarm | AlarmPath.cfg | 2 521 573 | never more events than alarms; without a backlog the bit is the decision on its frame and every alarm has its event |
| udp_receive | UdpReceive.cfg | 377 374 | a command is one whole packet (`CommandIsOnePacket`), a good one is heard (`CommandHeard`), the receiver always listens again (`ReceiverRecovers`) |
| sccb_init | SccbInit.cfg | 23 124 | the initialisation ends (`InitEnds`), done without error means the whole table is in the camera (`DoneMeansWritten`) |
| service_life | ServiceLife.cfg | 67 113 | `stop()` ends (`StopEnds`), the configuration follows the file (`ConfigFollowsFile`), a silent node goes offline (`SilenceNoticed`), a service that ended, by an exception of any thread or otherwise, has its threads again (`ComesBack`) |
| status | StatusReply.cfg on MCStatusReply | 494 646 | a reply does not contradict itself (`ReplyIsCausal`), links lead to whole pictures (`LinksWork`), both ends read the same fields (`BothEndsAgree`), the picture shown is the camera's (`PreviewShown`) |
| store | FrameStore.cfg | 59 601 | every beat has its word (`NoEmptyBeat`), a preview is of one frame and in order up to its last burst, of which only the frame is stated (`PictureOfOneFrame`), neither side starves (`BothSidesServed`) |

PulseSync.cfg checks `NoPulseLost` and `PulseArrives` of PulseSync (674 states); the first is proved, and `exec`
runs the synchroniser inside CommandExec. Properties that hold under the configurations of the table and are not
repeated in them, because a stronger property of the same run or a theorem covers them: `TypeOK` of every module,
`ReassemblyInv`, `ExecInv` of CommandExec, `DelayKept` of SccbInit (a `PROPERTY`, proved). Add `INVARIANT` and the name to check them.

### Bounds, and why they are enough

Every bound is a constant that appears in a guard: `Max...` for events, the rest for sizes.

- TxArbiter: three frames of two chunks, two lock losses, a FIFO of two, two telemetry bytes and three
  preview bytes. Different lengths make a byte of the wrong source visible; two bytes in the FIFO, one in
  the packet and one in transmission fill the path. The proofs remove the bounds for owner and bytes.
- PreviewReassembly: three chunks (first, middle, last), three ids with four frames, so that ids wrap,
  three packets in flight, one FPGA reset and one restart. Proved for all sizes.
- PulseSync: up to five source edges per destination edge with a gap of four. Proved for all sizes.
- CommandExec: four commands and a FIFO of two: the FIFO fills, a command is refused, and one follows; two resets, so
  that the second finds what the first left. `RoiRange = 4` lets a value exceed its register.
- CommandIssue: two registers suffice to mix two sets, one takes a 1 for a 0; of the values 1 and 4 a register of range 4 holds
  the first and cuts the second to 0; two requests, a failure, a restart and a reset of the FPGA.
- FrameBuffer: four blocks, of which a preview takes two (`ReadTime`), so that its read can begin and end anywhere in a frame;
  seven frames, two losses of the lock, so that a second one meets what the first left behind.
- CameraPath: two lines of two or three bytes (even and odd), both polarities, either brightness per
  line, a reset that ends in every clock of a frame, four frames, `capture_enable` changing twice in any clock.
  Counters wrap at four.
- AlarmPath: counts on both sides of two thresholds, a FIFO of two that overflows with three frames, two
  commands (the alarm is switched off and on again), one write, one mishap of any kind.
- UdpReceive: three frames, so that a broken one can be followed by one that it swallows and one that must be
  heard; one break, one reset. Header lengths 2, 3 and 4, payloads of 0, 1, 3 and 4 bytes (a command has 3, the shortest
  frame 2), preambles too short, at both limits and too long, and a 16-valued length counter keep the
  comparisons of the code apart; the gap of 7 is as long as the pipeline needs.
- SccbInit: bytes of three bits, a divider of two, five entries with two delays, one between writes, two resets.
  Every bit position and phase occurs; the delays are longer than a write's tail, so that one cut short is seen.
- ServiceLife: sets of one packet (more repeat the same lock steps), an offline limit of one clock step. The file starts
  whole, missing or with a bad number; one write of any kind (whole, in place in two steps, bad) and one removal, each
  between any two steps of a reload, a start or a restart: the two steps of a write in place are two modification times.
  A second write multiplies the states by four and repeats the pattern. Clients, packets, signals, exceptions and restarts are not bounded.
- StatusReply: three records whose fields, bytes and ends of range all differ, two pictures of two pixels a row (one row
  of padding, pairs of YUV), damage by one bit at either end of a byte, one event kept, so that the table overflows
  with the second alarm, one failed write or rename; the smaller picture fits into the buffer of the stream, the other does not.
- FrameStore: bursts of two words, frames of three bursts (first, middle, last), FIFOs of two bursts, the least that
  the engine needs, four frames, so that each bank is written and read twice, one error response.

`CHECK_DEADLOCK FALSE` stands in PreviewReassembly, CommandIssue, FrameBuffer, CameraPath and AlarmPath
because their environment (frames, packets, requests) is bounded and a behaviour may simply be over.
In TxArbiter, PulseSync, CommandExec, UdpReceive and SccbInit a clock edge is always possible, in ServiceLife and
StatusReply the environment can always act, and in FrameStore the engine polls (`Arb`) when it has nothing to do; there
deadlock is checked.

## 4. Fairness and assumptions about the environment

- `BoardSpec` of MCTxArbiter, `FairSpec` of TxArbiter and CommandExec, `FairSync` of PulseSync: clock edges keep coming on every
  clock, and (TxArbiter) a chunk that is being filled is filled, because the DDR3 read FIFO is refilled by hardware.
  Nothing else is fair; in particular the camera, pulses, commands and resets may stop.
- `Spec` of FrameStore: the engine's clock runs and the MIG answers, the camera delivers its frame and the preview
  generator reads its one (their clocks run), and the next ones come.
- `FairSpec` of UdpReceive and `SccbFairSpec` of SccbInit: the clock keeps running. Frames, breaks, resets and the camera's answers are free.
- `FairSpec` of ServiceLife: each thread runs when it can; a thread that finds a mutex free again and again
  gets it some time (strong fairness: no holder keeps one, but the operating system promises no order);
  time passes, so the reload period ends again and again, and a file that is read again and again opens some
  time; the ports can be bound some time; systemd restarts as `edge-node.service` says (a start every two seconds stays below its
  default limit of five in ten seconds); clients read their replies. Signals, requests, packets, writes of the
  file and the ends of the process by `UrlThrows` and `PipeBreaks` need never come. systemd starts a service with SIGPIPE ignored
  (`IgnoreSIGPIPE`, which the unit leaves at its default) and `send` then only fails; `PipeBreaks` is the other case, a start by hand. `FairSpecAnyClient` drops the assumption on clients: ServiceLife_client.cfg.
- ServiceLife: each write of the file has a new modification time; `SameMtime = TRUE` shows the other case, in which
  the second of two writes is missed. A write between the first load (`main.cpp` 30) and `last_write_time` in `open_sockets`
  (`service.cpp` 560) is excluded by `missed`; ServiceLife_start.cfg shows why. A half-written file reads as the defaults: which
  fields it has already is left out. A signal before `std::signal` (`main.cpp` 44) kills the process like `StartFails`.
- StatusReply: what cannot be seen in a reply is left out (counters, times, peer, `last_error`, the online mark, reads of parameters
  and configuration), other event texts are alike, a preview frame has one chunk, names of snapshots are unique per frame,
  numbers stay below 2^31. The disk refuses at most `MaxFaults` operations. Damage of telemetry is one changed byte or a
  byte cut off, which the checksum must find; `/api/preview.jpg` is not served by any path and the JPEG payloads
  are never sent by this FPGA.
- FrameStore: the FIFO IP is a standard one (output a clock after the read), as
  `src/edge_vision_node_fpga/doc/DDR3_UDP_PREVIEW_GUIDE.md` 79 and 93 ask for; its reset costs a frame its first words (`LostWords`). Clearing a FIFO, its address and the change of
  bank are one step. A preview starts, and a frame ends, when the bursts it owes are done. `DepthAssumption`: the read FIFO
  holds two bursts; with less the engine waits for the reader in `S_RD_RESP` and the camera for the engine. Banks alternate,
  which FrameBuffer shows for previews sent within half a frame while the lock holds.
- SccbInit: the camera sees the wires as the master drives them; a reset releases both in either order. `held`
  excludes a reset that finds the camera pulling SDA low: SccbInit_held.cfg shows why.
- UdpReceive: frames are at least the inter-frame gap apart. `CommandHeard` is owed only by a frame that starts
  after the receiver has seen an idle line since the last break or empty payload (`disturbed`).
- Calm behaviours of `BoardSpec` have the pacing of the board. 686 chunks of 1416 bytes take 8 to 10 ms of a gigabit line; no
  camera setting of the repository delivers SVGA frames that fast (at 30 frames/s a frame lasts 33 ms). So a
  frame ends when the previous one has been sent, and `frame_ready` arrives after its record has been
  taken. It also assumes that the pulse arrives at all (`PacedReady`). Neither is enforced by the code:
  TxArbiter_preview_stuck.cfg shows what happens otherwise.
- PreviewReassembly: a packet does not survive in the network for a cycle of 65536 frame ids, and an open
  assembly does not wait through a silent cycle (`LinkNotSilent`). Without them ids are ambiguous by
  design.
- FrameBuffer: `Settled` - a block is hundreds of clocks, so copies of two flip-flops settle within one;
  the end of a frame and the start of a read are single clocks and do meet stale copies. `InTime` - a preview is read and
  sent while the camera writes `ReadTime` blocks; the run and the proofs that need it have `2 * ReadTime <= Blocks`, half a frame (8 to 10
  of at least 33 ms, the ratio above). FrameBuffer_race.cfg has slower ones. The frame that was being written when the lock is lost goes on; the
  mark of a reader, the toggle and the choice of banks are as the code leaves them.
- CommandExec: packets reach the FPGA in order on the direct link; CommandIssue lets them be lost. Commands are numbered as they
  arrive, which `cmd_seq` does as long as the service does not restart. The FIFO's full flag is exact: that of the IP is late by a few
  clocks, packets are at least 84 apart. A reset lasts no time: what arrives during it is lost like what waits.
- CommandIssue: all registers have one width; the code's have 2 to 16 bits and are cut in the same way. `lost` names the registers whose last write the
  network dropped or a reset of the FPGA undid, and those not written since the start.
- AlarmPath: history `paced` is true as long as records do not wait in the FIFO; properties about the
  pairing of bit and record hold then. The old_bit configuration shows what happens otherwise.

## 5. Proofs

| Module | Theorem | Says |
|---|---|---|
| TxArbiterProofs | TypeCorrect, InStep, OneOwner, BytesOfTheOwner, TelemetryKept, ChunksInOrder | `Spec => []TypeOK`, `[]ArbiterInv`, `[]SoleOwner`, `[]WireBytes`, `[]TelemetryExactlyOnce`, `[]PreviewInOrder` |
| PreviewReassemblyProofs | TypeCorrect, PublishesWholeFrames, IntactFramesArePublished, Refinement | `[]TypeOK`, `[]WholeFrame`, `[]IntactFramePublished`, `Spec => ShowsWholeFrames` |
| FrameBufferProofs | TypeCorrect, BusyBankIsAvoided, LastWholeFrameIsShown, NothingTorn, EachRelockTearsAtMostTwo | `[]TypeOK` and `KeepsOffBusyBank`; if `2 * ReadTime <= Blocks`, `[]ShowsLastWholeFrame`, no torn preview before the lock is lost, and however often it is lost `[]TwoTornPerRelock` |
| FrameStoreProofs | TypeCorrect, EveryBeatHasAWord, PreviewIsOfOneFrame | `[]TypeOK`, `[]NoEmptyBeat`, `[]PictureOfOneFrame` |
| CommandProofs | EveryPulseCounts | PulseSync: `[]NoPulseLost` if `MinGap + 1 >= MaxPeriod` |
| | CommandsRunInOrder | CommandExec: `Spec => ExecutesCommands` |
| | IssueTypeCorrect, RegistersFollowTheLastWrite, UndisturbedSetsAreMirrored | CommandIssue: `IssueSpec` implies `[]IssueTypeOK`, `[]RegistersFollow`, `[]UndisturbedSetIsMirrored` |
| StatusReplyProofs | RepliesAreCausal, SnapshotsAreWhole, EndsAgree, PicturesAreShown | `[]ReplyIsCausal`, `[]LinksWork`, `[]BothEndsAgree`, `[]PreviewShown` |
| | ImageShown | what the conversion makes of any picture below 4 GiB, without the machine |
| VisionProofs | CameraTypeCorrect, CameraRecordIsOneFrame, CameraNoFrameSkipped, CameraPixelsAligned, CameraFramesMarked | CameraPath: `CameraSpec` implies `[]CameraTypeOK`, `[]RecordIsOneFrame`, `[]NoFrameSkipped`, `[]PixelsAligned` and, if every line has a pixel, `[]FramesMarked` |
| | TypeCorrect, EventsNeverOutnumberAlarms, BitsAreDecisions, NoAlarmIsMissed, EventsShowTheirReason, BuzzerNeedsAnAlarm | AlarmPath: `[]TypeOK`, `[]EventsAreAlarms`, `[]BitIsDecision`, `[]EachAlarmHasItsEvent`, `[]EventMeetsThreshold`, `BuzzerStartsWithAnAlarm` |
| | SccbTypeCorrect, SccbDoneMeansWritten, SccbDelayKept | SccbInit: `SccbSpec` implies `[]SccbTypeOK`, `[]DoneMeansWritten`, `DelayKept` |
| UdpReceiveProofs | TypeCorrect, EveryCommandIsOnePacket, EveryCommandIsHeard | `[]TypeOK`, `[]CommandIsOnePacket`, `[]CommandHeard` |

All hold for every value of the constants within the `ASSUME`s of the modules, which only say
what kind of number or set a constant is; in StatusReply that fields of records and commands fit into their bytes, that records are numbered and
fewer than ids, and that a picture has whole rows of an even width (800 in the FPGA) and an image below 4 GiB, which the 32 bits of its size hold; in UdpReceive also that the fields of a frame fit into the counters that
measure them, as the RTL's widths do, and in CameraPath that VSYNC, porches and gaps take more than one clock (the OV2640's
take hundreds). EveryPulseCounts and three theorems of FrameBuffer have the timing
assumption shown, which belongs to the environment; `FramesMarked` needs lines of at least two bytes, because the marks of a
frame without a pixel would wait for the next one.

*Transmit path.* `SoleOwner` and `WireBytes` are not inductive: whether the next byte is right depends on how
far the source has fetched. `ArbiterInv` adds `TelemInStep` and `PreviewInStep`, which tie the index of each
source to phase and counter of the transmitter, and who may have asked for a launch. `TickInv` proves it
for one clock edge with a step per phase; `LockLost` is separate because it leaves the multiplexer alone.
`TelemetryInv` says where a record can be (FIFO, packer, request, wire, sent) and when two places hold the same one,
so that all places in a row, `Records`, rise and make up every frame but the lost ones: a clock edge moves a record
to the next place and leaves the row as it is. `ChunkInv` ties the counters of the preview generator to the last
chunk sent: it works on the next one, except in the clock of `tx_done`, in which it still names the one that left.

*Reassembly.* `WholeInv` says that packets are pieces of frames not older than a cycle of ids, that the
assembly holds the first pieces of one frame (the one heard last), and that published pictures are whole.
The arithmetic of wrapping ids is one lemma, `SameId`: two frames less than a cycle apart with the same id
are the same. `StreakInv` follows a frame delivered chunk by chunk and needs no assumption about resets.
The refinement adds `KeepsOrder` (every packet in the network is of a frame not older than the picture shown, or of one in `late`), maps `Deliver` to `Show` or `ShowNothing`, `SendChunk` of a last chunk to
`FrameSent`, and both restarts to their abstract counterparts.

*Pulse synchroniser.* `SyncInv` relates edges since the last destination edge, edges since the last pulse and
the flip-flop in which the pulse is; a second pulse in one period contradicts it.

*Double buffer.* `MarkInv`: once a marked reader has read a block or the camera has written one since the read began, the copies at the
camera are those of the reader; with it the choice of the next bank is safe at any pace. `WrittenInv` says what the two banks hold: the bank of the
camera its frame so far, the announced bank the last whole frame unless the writer stays in it (`Stays`). `ReadInv` says which bank is read
while announcements are on their way (`Waiting`). After a loss of the lock a read may start anywhere in a frame, and the mark left in
the buffer may hold the writer in the bank it announces. What this can still cost is an account, `Owed`: one preview for such a mark (`Left`) or for a read of
that bank, one for a read that may meet the end of the frame (not `Fits`, or it has: `Crossed`); a loss pays in two, and
`OwedInv` says that what was torn and what is owed never exceed what was paid. That two is enough needs reads of half a frame: a read that starts
in mid-frame and the one after it are over before the second end of a frame (`Fits` counts the blocks of all reads on their way, `Ahead`).

*Frame store.* `IInv` says that a write burst is started only with its words in the FIFO and that beats, words still
there and the pending read of the FIFO add up in every state of the engine. For the picture, `WriterInv`: the bank of the
camera holds the bursts written so far, each at its place, and the other bank the frame before, but for its last burst, which is another one of the same frame (`FrameStore_last_burst`); `ReaderInv`: what was fetched, what waits in the read FIFO and what the
engine is reading follow each other in the order of `Shown`, and while a preview is read the camera stays in the other bank.

*Command execution.* `ExecInv`: numbers rise along the FIFO and none is below that of the command executed last, so
"executed already" can be read off the registers (`Running`) and only the first in the FIFO can be; then its read enable is set and
executing it again changes no register (`Again`, with `ExecuteTwice`). The commands that wait in RegisterFile are the FIFO
without that one, which is `running` there; its second execution is `RunAgain`. Clears are counted from the pulse and the flip-flops
(`Crossing`): an execution adds one, a toggle that changes twice between two samples takes two away.

*Command issuing.* `FollowInv`: for a register that has lost nothing, the last write is the youngest of its packets in the network, or
the network has none for it and the register holds it if it can (`Holds`); what a register holds is always one of its values (`Fits`). `MirrorInv`: a thread that was alone so far has issued the part of its
set that it has sent.

*Status reply.* `CausalInv`: the alarm table holds the last alarms in order, texts written or still to be written tell of no
alarm that is not in it, and each part of a reply is read after the part that refers to it. The order of the three reads in
`status_json` and of the two writes in `rx_loop` is all it needs.

*Packets.* A number written high byte first is read back (`BytesOf32` and its companions, by division with remainder), so the record, the command and
their fields come out as they went in. That a damaged record is found is one lemma about the
checksum: flipping bits of one byte changes the parity of some bit, and `ByteOf` loses no bit. For this the checksum is
the parity of each bit; MCStatusReply has TLC compare it with the loop of `xor_checksum` for every datagram of the run (`ChecksumIsLoop`). `AgreeInv` follows the record from the
packet through `state_` to the reply. For the links, `RxInv` says what `rx_loop` holds at each place in its code,
and `LinkInv` that while the picture of a frame is written no link to it exists yet (`Linkable`): the file gets its name only when it is whole, so neither
a failed write nor one that may have failed unreported (`unsure`, the exceptions of section 6) is ever behind another link.

*Images.* A BMP file is a header, read back with the lemmas above (`HeaderRead`), and bytes counted from the last row up: dividing the number of a byte by
the padded length of a row gives row, pixel and colour (`Quotient`, `PixelInside`), so the viewer finds at each place the colour that the conversion computed for that
place (`PlacesShown`). `ColoursExpected` compares these colours, computed from the bytes of the payload, with those of the camera's pixels. `ImageShown` puts both together for
each mode, and `ShownInv` follows the payload from the datagram to `preview_` and the reply. In the machine a picture is one datagram, whose length field
limits it to 64 KiB; PreviewReassembly proves that chunks are joined to whole frames, and `ImageShown` has no such limit.

*Camera.* What the sensor sends is a function of its clock `sensor.t`: `LitAt`, `RowAt`, `ColumnAt` and the numbers of bytes and
pixels sent so far, `BytesAt` and `PairsAt`, follow from division with remainder (`NextPlace`, `LitStep`, `CountStep`). The
invariant says which of these, one or two clocks old, each register holds (`Sampled`, `CaptureInv`, `PlaceInv`, `PairInv`), or that the
reset has just ended (`Fresh`). Once `frame_seen` is set, the boundary comes at the time `Turn`; mark, clear and record follow at fixed
clocks after it and before the first byte at `Lead`, so `MarkInv`, `TallyInv`, `CountInv` and `ReportInv` tell by the clock alone
what the packer still has to mark, which frame the counters are about and which was reported last. The bright count is between the two counts of the
histories, `inner` and `outer`, as long as the larger has not reached the range of the counter.

*Alarm path.* That events are alarms cannot be read off the state: nobody numbers them. `OrderInv` says that numbers of alarms exist
for all samples of the bit on their way (service, network, packet, crossing, camera), that never fall, and
rise wherever the bit rises from a sample to any later one; dropping a sample keeps that. `ExactInv`: without losses there
is at most one record on its way and the numbers are exact. `PacedInv` pairs bit and record: the bit crosses no
later than the record. `BuzzerInv`: the buzzer sounds while the alarm stands and is enabled; proving it showed
that `vision_preprocess_core` starts the buzzer again when `alarm_enable` comes back during an alarm, which the model had left out.

*Sensor initialisation.* What a clock does to the master, the initialisation and the camera is a lemma per state and phase (`StartTick`,
`SendTick`, ..., `InitSteps`, `SlaveSteps`). `SccbCoreInv` holds whatever a reset found: one write at a time, its
answer expected (`HandInv`), and the camera pulls SDA only while it answers. `PullsInv` gives the two wires, `ByteInv` the byte, of each phase. `BusInv` says
what the camera is doing in each phase of a transfer: the bits it has are the first ones of the byte, or it answers,
or it has given up and the error is set or about to be; it needs `~held`, a reset that did not find the camera answering, because a
released bus otherwise looks idle to the master only. `WrittenInv` then ties the writes to the table: the entries before the one
on its way, and that one too once its last byte is answered (`Sent`, not `Lost`). `OnceInv` keeps it until it is told. `QuietInv`
for the delays needs none of the bus.

*UDP receiver.* The registers hold what went by at different clocks, so everything is said of the sum and the buffer together with
the byte still on its way to them (`Summed`, `Gathered`). A working receiver is `InStep` with one frame, or, when the bytes
stopped early, has `Drifted`: then the sum is not a whole frame and stays so (`SumInv`). `LineInv` orders the bytes on the line and in the two
delay registers. `NewInv`: when a command is given out nothing of its frame, or of an older one, is still to come, so
it is given out once and in order. `CalmInv`: without a disturbance the receiver ends with the frame, and
`HeardInv` names the stages a good frame goes through, from its first preamble byte to the command.

Not proved, only checked: liveness (`TransmitterReleased`, `EveryFrameArrives`, `BothSidesServed`, the properties of ServiceLife, the
progress properties), which is out of the prover's reach. Every safety property that a run checks is proved.

## 6. Where code and words differ

No run of section 3 ends in a violation, and none states a disagreement as if it were meant: where the code does less than its words, the
properties of the runs leave the point open (a second execution, the edge bytes of the ROI, the place of the last burst), and their
comments say so. The following configurations reproduce these disagreements, or the edge of an assumption. Each ends in a violation of the one
property it names, which states what the words say.

| Configuration | Property | Code | Statement |
|---|---|---|---|
| TxArbiter_preview_stuck | PreviewProgress | `rgb565_udp_preview_payload_gen.v:246`: asks for the transmitter when it looks idle and waits for `tx_done` without looking whether it was granted; if telemetry starts in that clock it waits until the next reset. `TelemetryProgress` fails likewise under the same constants (`vision_udp_status_ctrl.v:27`) | `src/docs/ARCHITECTURE.md:34` |
| TxArbiter_lock_stuck | TransmitterAlwaysReleased | `top:1022`: a lost lock leaves the multiplexer busy | comments at `top` 1008 and 1021 |
| PreviewReassembly_mixed | PictureWhole | `service.cpp:772`: ids start over after an FPGA reset, half a frame is continued by another | `src/edge_node_service/README.md:8` |
| CommandExec_twice | ExecutedOnce | `top:833`: a command is executed in two consecutive clocks, until the registered read enable removes it | comment at `top` 828 |
| CommandExec_clear_lost | ClearErrorArrives | `top:316`: the doubled pulse cancels itself in the synchroniser | comment at `top` 315 |
| CommandIssue_race | MirrorIsLastIssued | `service.cpp:455`: `start()` launches the HTTP thread before it writes the defaults; `current_*` ends with one set, the registers with a mix | same as the next |
| CommandIssue_partial | MirrorIsLastIssued | `service.cpp:1143`: a failed set; `:1448`, a single register write, does the same with `WriteReg = TRUE` | `src/edge_node_service/README.md:103` |
| CommandIssue_lost; with `Lossy = FALSE` and `MaxFpgaResets = 1`, or `Values = {1, 4}` | AppliedTakesEffect | `service.cpp:1508`: success is reported, and `current_*` shows the value as it was sent, when the packet has left; it may be lost, undone by a reset of the FPGA, or cut by `vision_reg_bank.v:72-79` | same |
| FrameBuffer_relock_torn | NoTearing | `top:549`: a lost lock resets one side of the synchroniser and leaves the mark of `edge_ddr3_framebuffer.v:271` | comments of `edge_ddr3_framebuffer.v` at 8 and 215 |
| FrameBuffer_race | NeverEntersReadBank | `edge_ddr3_framebuffer.v:237` with reads slower than a frame: the camera changes banks in the clocks in which the mark of the next read crosses; `NoTearing` fails likewise | comment at 215 |
| CameraPath_roi; with `RoiX = 0`, `RoiW = 3`, `LineWidths = {6}` | RoiExact; RoiOfPreview | `ov2640_capture_if.v:133`, `vision_preprocess_core.v:81`: the ROI is shifted by one and counts bytes. `CountExact` in place of the two: `bright_count` wraps (`:136`) | `vision_preprocess_core.v:8` and `:68`, `src/README.md:51` |
| AlarmPath_old_bit | EventShowsItsReason | `frame_stats_packet_parallel.v:67`, and `service.cpp:659` with two values of `Thresholds` and one write: bit and parameters are those of another moment | `src/README.md:23` |
| SccbInit_held | DoneMeansWrittenAlways | `ov2640_sccb_init.v:87`: a reset that finds the camera answering; the first entry is lost, done is raised without an error | comment at `top` 135 |
| ServiceLife_client | StopEnds | `service.cpp:26`: `send` to a client that does not read keeps `stop()` waiting | comment at 479 |
| ServiceLife_start | ConfigFollowsFileAlways | `service.cpp:559`: a save after the first load is taken for loaded | comment at 965 |
| StatusReply_copy_failed | LinksAlwaysWork | `service.cpp:84`: when the rename fails the copy's error is not looked at, and a link may lead to half a picture; with `Buffered = 12` also `:74`, `good()` asked before the stream is closed | `src/edge_node_service/README.md:8` |
| FrameStore_last_burst | WholeFrameRead | `edge_fifo2mig_axi.v:166`: the address returns to the start one burst early, so the last 256 pixels of a preview are its first 256 | `edge_ddr3_framebuffer.v:246` |
| AlarmPath_old_bit | BuzzerStops in place of the other | `vision_preprocess_core.v:149`: capture stopped during an alarm freezes it | `src/README.md:54` |

## 7. What is not modelled

- In modelled parts: header bytes, checksum and CRC (TxArbiter has the cycles they take), the wording of events
  and JSON, `timestamp_cnt`, `roi_sum`, the vertical ROI and debug outputs. A register that
  crosses bit by bit (`top` 294-348) is crossed as a whole. What the bytes of a payload are is left out of
  UdpReceive, also that one may look like a preamble or an SFD.
- The MIG and its generated code, RGMII primitives and clock managers: vendor blocks.
- CRC-32, IP checksum, bytes of the Ethernet, IP and UDP headers: combinational functions of the bytes, for which a test is enough.
- Status LEDs, debug UART, modules that no top level instantiates.
- Which field of the configuration gets which value, logger and web page: text processing without shared state. ServiceLife has the
  results of reading the file: its contents, a part of them, an error, an exception.

## 8. Plan

Order of work: the two paths to the user first (preview, telemetry), then commands, then
the sources of the data.

1. Done: TxArbiter with proofs; PreviewReassembly with its abstract specification and refinement; PulseSync
   with proof; CommandExec over it, with its abstract specification RegisterFile and the refinement proved; CommandIssue with proofs; FrameBuffer with proofs, FrameStore with proofs beneath it;
   CameraPath, AlarmPath, UdpReceive and SccbInit with proofs; ServiceLife with its faults; StatusReply over WireFormats and PreviewImage, with proofs.
2. RegisterFile implemented by UdpReceive and CommandExec together, and its place beneath `Deliver` and `FpgaReset` of CommandIssue.
3. The crossing of registers bit by bit (`top` 294-348), with what a frame may then be counted with.
