----------------------------- MODULE StatusReply -----------------------------
(***************************************************************************)
(* What the service tells the browser.  rx_loop turns datagrams into the   *)
(* node's state, the alarm table, the picture and the files on disk, each  *)
(* under its own mutex; http_loop collects a reply from them, one mutex    *)
(* after the other; the watchdog adds events.  A section under one mutex   *)
(* is one step.                                                            *)
(*                                                                         *)
(* Telemetry and commands are their bytes.  A preview frame has one chunk  *)
(* here (PreviewReassembly joins chunks) and is a picture as every RGB565  *)
(* frame of the FPGA is.  latest_image is rgb565_to_bmp of latest_payload, *)
(* so the payload stands for both, also in the files.                      *)
(***************************************************************************)
EXTENDS PreviewImage

CONSTANTS
    Stats,         \* Stats[f]: the record of frame f without its alarm bit; fewer than ids
    Pictures,      \* Pictures[p]: the pixels of the p-th preview frame
    PreviewWidth,  \* pixels of a row; Pictures[p] has whole rows, and an image below 4 GiB
    Commands,      \* the register writes asked for over HTTP: cmd, seq, addr, data0
    Flips,         \* what damage does to a byte: the bits it flips
    EventsKept,    \* 20: events kept in either list
    Buffered,      \* payload of the largest image that the file stream holds in its buffer
    MaxFaults      \* writes and renames that fail (bound)

ASSUME KeptAssumption == EventsKept \in Nat \ {0}
ASSUME InputsAssumption ==
    /\ Stats \in Seq(FrameStatsPacket) /\ Len(Stats) < 65536
    /\ \A f \in 1..Len(Stats) : Stats[f].frame_id = f /\ Bit(Stats[f].status_bits, 5) = 0
    /\ \A c \in Commands :
           c.cmd \in Byte /\ c.seq \in Word /\ c.addr \in Nat /\ c.data0 \in Long
    /\ Flips \subseteq 1..255
ASSUME PicturesAssumption ==
    /\ PreviewWidth \in Word \ {0} /\ PreviewWidth % 2 = 0
    /\ Pictures \in Seq(Seq(Word)) /\ Len(Pictures) < 65536
    /\ \A p \in 1..Len(Pictures) :
           LET height == Len(Pictures[p]) \div PreviewWidth
           IN  /\ Len(Pictures[p]) = PreviewWidth * height /\ height \in Word \ {0}
               /\ 54 + row_stride(PreviewWidth) * height \in Long
ASSUME BoundsAssumption == Buffered \in Nat /\ MaxFaults \in Nat

VARIABLES
    fpga,     \* the last frame and the last preview frame that arrived
    state,    \* state_
    alarm,    \* alarm_state_
    preview,  \* preview_
    files,    \* files[n]: what static_dir has under the name n, and whether all of it
    rx,       \* rx_loop: where it is, and its local variables
    http,     \* http_loop: where it is, and the reply it is collecting
    reply,    \* the reply sent in the last step
    faults,   \* failed writes and renames so far (bound)
    temp,     \* the temporary file has all that was written to it
    unsure    \* history: names that met an error write_binary_file may not report

vars == <<fpga, state, alarm, preview, files, rx, http, reply, faults, temp, unsure>>

Frames == 1..Len(Stats)
Latest == 0    \* latest_preview.bmp; a snapshot has the name of its frame
NoUrl  == 0    \* a snapshot is never the latest picture

Record(f, active) ==
    [Stats[f] EXCEPT !.status_bits = @ + (IF active THEN 32 ELSE 0)]
PayloadOf(p) ==
    StreamOf(PreviewWidth, Len(Pictures[p]) \div PreviewWidth, Pictures[p])
PreviewDatagram(p) == payload_mem(p, 0, 0, Len(PayloadOf(p)), PayloadOf(p))

\* Telemetry with one byte damaged, or cut short; and what of it the parser takes (the rest
\* counts as an error and changes nothing else).
Telemetry == {pkt_data_256(Record(f, a)) : f \in Frames, a \in BOOLEAN}
Damaged ==
    {[d EXCEPT ![i] = Xor(@, x)] : d \in Telemetry, i \in 1..32, x \in Flips}
        \cup {SubSeq(d, 1, 31) : d \in Telemetry}
DamagedTaken == {d \in Damaged : IsFrameStats(d)}

NoPacket == [frame_id |-> 0, status_bits |-> 0, timestamp_low |-> 0, frame_width |-> 0,
             frame_height |-> 0, active_pixel_count |-> 0, roi_sum |-> 0,
             bright_count |-> 0, error_code |-> 0]
Idle    == [at |-> "recv", packet |-> NoPacket, payload |-> <<>>, id |-> 0, name |-> Latest,
            url |-> NoUrl, nth |-> 0, todo |-> <<>>, then |-> "recv"]
NoState == [has |-> FALSE, telemetry |-> FALSE, packet |-> NoPacket,
            events |-> <<>>]
NoAlarm == [active |-> FALSE, count |-> 0, events |-> <<>>]
NoPreview == [id |-> 0, completed |-> 0, payload |-> <<>>, snapshot |-> FALSE]
NoReply == [kind |-> "none"]
Accept  == [at |-> "accept", state |-> NoState, alarm |-> NoAlarm]
NoFile  == [payload |-> <<>>, whole |-> FALSE]

Init ==
    /\ fpga = [frame |-> 0, picture |-> 0]
    /\ state = NoState /\ alarm = NoAlarm /\ preview = NoPreview
    /\ files = [n \in Frames \cup {Latest} |-> NoFile]
    /\ rx = Idle /\ http = Accept /\ reply = NoReply
    /\ faults = 0 /\ temp = TRUE /\ unsure = {}

\* The newest first, the oldest dropped.
Kept(events, e) ==
    [i \in 1..(IF Len(events) < EventsKept THEN Len(events) + 1 ELSE EventsKept) |->
        IF i = 1 THEN e ELSE events[i - 1]]
Recorded(s, e) == [s EXCEPT !.events = Kept(@, e)]
\* A text of recent_events: that of the n-th alarm is n, all others are alike.
Other == 0

-----------------------------------------------------------------------------
(***************************************************************************)
(* rx_loop, telemetry.                                                     *)
(***************************************************************************)
RxTelemetry(d) ==
    /\ rx.at = "recv" /\ IsFrameStats(d)
    /\ rx' = [Idle EXCEPT !.at = "state", !.packet = parse_frame_stats_packet(d)]
    /\ UNCHANGED <<state, alarm, preview, files, http, faults, temp, unsure>>

OnlineText == IF state.has THEN <<>> ELSE <<Other>>

StoreTelemetry ==
    /\ rx.at = "state"
    /\ state' = [state EXCEPT !.has = TRUE, !.telemetry = TRUE, !.packet = rx.packet]
    /\ rx' = [rx EXCEPT !.at = "edge", !.todo = OnlineText]
    /\ UNCHANGED <<fpga, alarm, preview, files, http, faults, temp, unsure>>

ToText(todo, then) == IF todo = <<>> THEN then ELSE "text"
\* A service that records the text before it has made the event.
AlarmEdgeTextFirst ==
    LET active == Bit(rx.packet.status_bits, 5) = 1
    IN  /\ rx.at = "edge"
        /\ alarm' = [alarm EXCEPT !.active = active]
        /\ rx' = IF active /\ ~alarm.active
                 THEN [rx EXCEPT !.at = "text", !.todo = Append(@, alarm.count + 1),
                                 !.then = "picture"]
                 ELSE [rx EXCEPT !.at = ToText(rx.todo, "recv")]
        /\ UNCHANGED <<fpga, state, preview, files, http, faults, temp, unsure>>
AlarmEdge ==
    LET active == Bit(rx.packet.status_bits, 5) = 1
    IN  /\ rx.at = "edge"
        /\ alarm' = [alarm EXCEPT !.active = active]
        /\ rx' = [rx EXCEPT !.at = IF active /\ ~alarm.active THEN "picture"
                                   ELSE ToText(rx.todo, "recv")]
        /\ UNCHANGED <<fpga, state, preview, files, http, faults, temp, unsure>>

TakePicture ==
    /\ rx.at = "picture"
    /\ rx' = [rx EXCEPT !.at = IF preview.payload = <<>> THEN "push" ELSE "write",
                        !.payload = preview.payload, !.nth = preview.completed,
                        !.name = rx.packet.frame_id]
    /\ UNCHANGED <<fpga, state, alarm, preview, files, http, faults, temp, unsure>>

\* The event goes into the table, then its text into the list of events.  no, shot
\* and nth are history: its number, its picture and the number of the picture.
PushEvent ==
    /\ rx.at = "push"
    /\ alarm' = [alarm EXCEPT !.count = @ + 1,
                              !.events = Kept(@, [no |-> alarm.count + 1, url |-> rx.url,
                                                  frame |-> rx.packet.frame_id,
                                                  shot |-> rx.payload, nth |-> rx.nth])]
    /\ rx' = [rx EXCEPT !.at = "text", !.todo = Append(@, alarm.count + 1)]
    /\ UNCHANGED <<fpga, state, preview, files, http, faults, temp, unsure>>

\* record_event.
RecordText ==
    /\ rx.at = "text"
    /\ state' = Recorded(state, Head(rx.todo))
    /\ rx' = [rx EXCEPT !.at = ToText(Tail(rx.todo), rx.then), !.todo = Tail(@)]
    /\ UNCHANGED <<fpga, alarm, preview, files, http, faults, temp, unsure>>

-----------------------------------------------------------------------------
(***************************************************************************)
(* write_binary_file: a temporary file, renamed; when that fails, unsure.  *)
(* The error of the copy is lost in that of the removal that follows.      *)
(***************************************************************************)
Written(ok) ==
    IF rx.name = Latest THEN Idle
    ELSE [rx EXCEPT !.at = "push", !.url = IF ok THEN rx.name ELSE NoUrl]

WriteStep(from) ==
    /\ rx.at = from
    /\ UNCHANGED <<fpga, state, alarm, preview, http>>
DiskFails == faults < MaxFaults /\ faults' = faults + 1
\* A service that writes over the file itself.
WriteInPlace ==
    /\ WriteStep("write")
    /\ files' = [files EXCEPT ![rx.name] = [payload |-> rx.payload, whole |-> FALSE]]
    /\ rx' = [rx EXCEPT !.at = "rename"] /\ temp' = TRUE /\ UNCHANGED <<faults, unsure>>
WriteTemporary ==
    /\ WriteStep("write")
    /\ rx' = [rx EXCEPT !.at = "rename"] /\ temp' = TRUE /\ UNCHANGED <<files, faults, unsure>>
\* good() is asked before the stream is closed: of an image that is still in its buffer it
\* does not tell whether the disk takes it.
WriteUnnoticed ==
    /\ WriteStep("write") /\ Len(rx.payload) <= Buffered /\ DiskFails
    /\ rx' = [rx EXCEPT !.at = "rename"] /\ temp' = FALSE
    /\ unsure' = unsure \cup {rx.name} /\ UNCHANGED files
WriteFails ==
    /\ WriteStep("write") /\ DiskFails
    /\ rx' = Written(FALSE) /\ UNCHANGED <<files, temp, unsure>>
RenameFile ==
    /\ WriteStep("rename")
    /\ files' = [files EXCEPT ![rx.name] = [payload |-> rx.payload, whole |-> temp]]
    /\ rx' = Written(TRUE) /\ UNCHANGED <<faults, temp, unsure>>
RenameFails ==
    /\ WriteStep("rename") /\ DiskFails
    /\ \E begun \in BOOLEAN :
        files' = IF begun THEN [files EXCEPT ![rx.name] = [payload |-> rx.payload, whole |-> FALSE]]
                 ELSE files
    /\ unsure' = unsure \cup {rx.name}
    /\ rx' = [rx EXCEPT !.at = "copy"] /\ UNCHANGED temp
CopyFile ==
    /\ WriteStep("copy")
    /\ \/ files' = [files EXCEPT ![rx.name] = [payload |-> rx.payload, whole |-> temp]]
       \/ files' = files
    /\ \E removed \in BOOLEAN : rx' = Written(removed)
    /\ UNCHANGED <<faults, temp, unsure>>

-----------------------------------------------------------------------------
(***************************************************************************)
(* rx_loop, preview.                                                       *)
(***************************************************************************)
RxPreview(d) ==
    /\ rx.at = "recv" /\ ~IsFrameStats(d) /\ IsPreviewChunk(d)
    /\ rx' = LET p == parse_preview_chunk_packet(d)
             IN  [Idle EXCEPT !.at = "chunk", !.id = p.frame_id, !.payload = p.payload]
    /\ UNCHANGED <<state, alarm, preview, files, http, faults, temp, unsure>>

StoreChunk ==
    /\ rx.at = "chunk"
    /\ state' = [state EXCEPT !.has = TRUE]
    /\ rx' = [rx EXCEPT !.at = "assemble", !.todo = OnlineText]
    /\ UNCHANGED <<fpga, alarm, preview, files, http, faults, temp, unsure>>

Assemble ==
    LET complete == IsPicture(rx.payload)
        then == IF complete THEN "due" ELSE "recv"
    IN  /\ rx.at = "assemble"
        /\ preview' = IF complete
                      THEN [preview EXCEPT !.id = rx.id, !.completed = @ + 1, !.payload = rx.payload]
                      ELSE preview
        /\ rx' = [rx EXCEPT !.at = ToText(rx.todo, then), !.then = then]
        /\ UNCHANGED <<fpga, state, alarm, files, http, faults, temp, unsure>>

\* The picture goes to disk at most once a second: the first one, and whenever a second
\* has passed.
SnapshotDue ==
    /\ rx.at = "due"
    /\ \E due \in {TRUE, ~preview.snapshot} :
        /\ preview' = [preview EXCEPT !.snapshot = TRUE]
        /\ rx' = IF due THEN [rx EXCEPT !.at = "write", !.name = Latest] ELSE Idle
    /\ UNCHANGED <<fpga, state, alarm, files, http, faults, temp, unsure>>

RxStep ==
    \/ StoreTelemetry \/ AlarmEdge \/ TakePicture \/ PushEvent \/ RecordText
    \/ WriteTemporary \/ WriteUnnoticed \/ WriteFails
    \/ RenameFile \/ RenameFails \/ CopyFile
    \/ StoreChunk \/ Assemble \/ SnapshotDue

-----------------------------------------------------------------------------
(***************************************************************************)
(* The FPGA.  A datagram that is lost is one that did not arrive.           *)
(***************************************************************************)
TelemetryArrives ==
    LET f == fpga.frame + 1
    IN  /\ rx.at = "recv" /\ f \in Frames /\ fpga' = [fpga EXCEPT !.frame = f]
        /\ \E active \in BOOLEAN :
               \E d \in {pkt_data_256(Record(f, active))} \cup DamagedTaken : RxTelemetry(d)
PreviewArrives ==
    LET p == fpga.picture + 1
    IN  /\ rx.at = "recv" /\ p \in DOMAIN Pictures /\ fpga' = [fpga EXCEPT !.picture = p]
        /\ RxPreview(PreviewDatagram(p))

-----------------------------------------------------------------------------
(***************************************************************************)
(* The watchdog and http_loop.                                             *)
(***************************************************************************)
\* The text of mark_offline_if_needed; the mark itself is in ServiceLife.
MarkOffline ==
    /\ state.has
    /\ state' = Recorded(state, Other)
    /\ UNCHANGED <<fpga, alarm, preview, files, rx, http, faults, temp, unsure>>

HttpStep == UNCHANGED <<fpga, alarm, preview, files, rx, faults, temp, unsure>>

\* status_json: the state, then the alarm table, then the picture.
ReadState ==
    /\ HttpStep /\ http.at = "accept"
    /\ http' = [Accept EXCEPT !.at = "alarm", !.state = state]
    /\ UNCHANGED state
ReadAlarm ==
    /\ HttpStep /\ http.at = "alarm"
    /\ http' = [http EXCEPT !.at = "preview", !.alarm = alarm]
    /\ UNCHANGED state
ReadPreview ==
    /\ HttpStep /\ http.at = "preview"
    /\ reply' = [kind |-> "status", state |-> http.state, alarm |-> http.alarm,
                 preview |-> preview]
    /\ http' = Accept /\ UNCHANGED state

\* /api/preview: the picture, decoded in another way when the query asks for it.  The
\* reply stands for the images in all modes.  It is one section under preview_mutex_, which
\* finds the picture at which rx_loop will next wait for a datagram.
ServedImage(payload, mode) ==
    IF mode = "" \/ build_preview_debug_image(payload, mode) = <<>>
    THEN rgb565_to_bmp(payload, WidthOf(payload), HeightOf(payload))
    ELSE build_preview_debug_image(payload, mode)
ServePreview ==
    /\ HttpStep /\ http.at = "accept" /\ rx.at = "recv"
    /\ preview.payload # <<>>
    /\ reply' = [kind |-> "image", payload |-> preview.payload, of |-> preview.id]
    /\ UNCHANGED <<http, state>>

\* A command: a register write with its address cut to 16 bits.
SendCommand(c) ==
    /\ HttpStep /\ http.at = "accept"
    /\ reply' = [kind |-> "command", meant |-> c,
                 bytes |-> build_command_packet(c.cmd, c.seq, c.addr % 65536, c.data0, 0)]
    /\ state' = Recorded(state, Other)
    /\ UNCHANGED http

Quiet ==
    RxStep \/ TelemetryArrives \/ PreviewArrives \/ MarkOffline \/ ReadState \/ ReadAlarm
Replies == ReadPreview \/ ServePreview \/ \E c \in Commands : SendCommand(c)
Next == (Quiet /\ reply' = NoReply) \/ Replies
Spec == Init /\ [][Next]_vars

-----------------------------------------------------------------------------
(***************************************************************************)
(* Properties.                                                             *)
(***************************************************************************)
\* The alarms told in texts are in the table of a, but for those that newer ones pushed out.
InTable(texts, a) ==
    \A i \in 1..Len(texts) :
        texts[i] # Other =>
            /\ texts[i] <= a.count
            /\ a.count - texts[i] < EventsKept =>
                   \E j \in 1..Len(a.events) : a.events[j].no = texts[i]

\* In a status reply every alarm that is told among the recent events is in the alarm
\* table of the same reply, and the picture of every event there counts as completed,
\* although the three are read at different times while alarms arrive.
ReplyIsCausal ==
    reply.kind = "status" =>
        /\ InTable(reply.state.events, reply.alarm)
        /\ \A i \in 1..Len(reply.alarm.events) :
               reply.alarm.events[i].nth <= reply.preview.completed

\* What makes it inductive: the table holds the last alarms, their texts, written or still
\* to be written, tell of no others, and each thing is read after what refers to it.
UpTo(texts, n) == texts \in Seq(Nat) /\ \A i \in 1..Len(texts) : texts[i] <= n
Table(a, n) ==
    /\ a.count \in Nat
    /\ Len(a.events) = IF a.count < EventsKept THEN a.count ELSE EventsKept
    /\ \A i \in 1..Len(a.events) :
           a.events[i].no = a.count - i + 1 /\ a.events[i].nth \in 0..n
Pending == rx.then # "text" /\ (rx.at = "text" => rx.todo # <<>>)
CausalInv ==
    /\ preview.completed \in Nat /\ rx.nth \in 0..preview.completed
    /\ Table(alarm, preview.completed)
    /\ UpTo(state.events, alarm.count) /\ UpTo(rx.todo, alarm.count)
    /\ Pending
    /\ http.at = "alarm" => UpTo(http.state.events, alarm.count)
    /\ http.at = "preview" =>
           UpTo(http.state.events, http.alarm.count) /\ Table(http.alarm, preview.completed)
    /\ ReplyIsCausal

\* A link in the alarm table, or in a reply, leads to the whole picture that its event
\* was given, and latest_preview.bmp is never half a picture, when the disk may refuse any
\* write, unless it was a rename, or the write of an image that fits into a buffer.
LinkWorks(e) ==
    e.url = NoUrl \/ e.url \in unsure \/ files[e.url] = [payload |-> e.shot, whole |-> TRUE]
LinksWork ==
    /\ \A i \in 1..Len(alarm.events) : LinkWorks(alarm.events[i])
    /\ reply.kind = "status" =>
           \A i \in 1..Len(reply.alarm.events) : LinkWorks(reply.alarm.events[i])
    /\ Latest \in unsure \/ files[Latest] = NoFile \/ files[Latest].whole
\* The same for any disk, which neither the fallback of write_binary_file keeps nor its
\* test of the stream before it is closed.
LinksAlwaysWork ==
    \A i \in 1..Len(alarm.events) :
        LET e == alarm.events[i]
        IN  e.url = NoUrl \/ files[e.url] = [payload |-> e.shot, whole |-> TRUE]

\* Both ends of the link mean the same: the telemetry in a reply is, field by field, the
\* record of a frame the FPGA sent, though one byte of any datagram may be damaged; and
\* the command parser of the FPGA reads what was asked for, the address cut to 16 bits as
\* the service cuts it before it sends.
BothEndsAgree ==
    /\ reply.kind = "status" /\ reply.state.telemetry =>
           \E f \in 1..fpga.frame, a \in BOOLEAN : reply.state.packet = Record(f, a)
    /\ reply.kind = "command" =>
           /\ IsCommand(reply.bytes)
           /\ ParseCommand(reply.bytes) =
                  [cmd |-> reply.meant.cmd, seq |-> reply.meant.seq,
                   addr |-> reply.meant.addr % 65536, data0 |-> reply.meant.data0, data1 |-> 0]

\* What a viewer of BMP files shows at (x, y), and what should be there: the pixel of the
\* camera as RGB565, with its bytes swapped, or half of a pair of YUV pixels.
Shown(bmp, x, y) ==
    LET w == Le32At(bmp, 18)
        h == Le32At(bmp, 22)
        stride == 4 * ((3 * w + 3) \div 4)
        at == Le32At(bmp, 10) + (h - 1 - y) * stride + 3 * x
    IN  <<bmp[at + 3], bmp[at + 2], bmp[at + 1]>>
Level(n, largest) == (255 * n) \div largest
Expected(pixels, mode, x, y) ==
    LET v == pixels[y * PreviewWidth + x + 1]
        first == pixels[y * PreviewWidth + x - (x % 2) + 1]
        second == pixels[y * PreviewWidth + x - (x % 2) + 2]
        word == IF mode = "rgb565_swap" THEN 256 * (v % 256) + v \div 256 ELSE v
    IN  CASE mode = "yuyv" -> yuv_to_rgb(v % 256, first \div 256, second \div 256)
          [] mode = "uyvy" -> yuv_to_rgb(v \div 256, first % 256, second % 256)
          [] OTHER -> <<Level(word \div 2048, 31), Level((word \div 32) % 64, 63), Level(word % 32, 31)>>

\* The image of /api/preview shows, pixel by pixel, the frame with the id in the status,
\* the right way up and with its colours, in every decode mode.
Modes == {"", "rgb565_swap", "yuyv", "uyvy", "other"}
PreviewShown ==
    reply.kind = "image" =>
        LET pixels == Pictures[reply.of]
        IN  \A mode \in Modes :
                LET bmp == ServedImage(reply.payload, mode)
                IN  /\ Le32At(bmp, 18) = PreviewWidth /\ Le32At(bmp, 2) = Len(bmp)
                    /\ \A x \in 0..(PreviewWidth - 1) :
                        \A y \in 0..((Len(pixels) \div PreviewWidth) - 1) :
                            Shown(bmp, x, y) = Expected(pixels, mode, x, y)
==============================================================================
