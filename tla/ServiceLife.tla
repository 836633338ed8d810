------------------------------ MODULE ServiceLife ------------------------------
(***************************************************************************)
(* The threads of the edge service from start to exit: main, rx_loop,      *)
(* watchdog_loop and http_loop, the mutexes they share, the sockets that   *)
(* stop() closes under them, the offline mark and the hot reload of the    *)
(* configuration file, which somebody replaces, rewrites in place, moves   *)
(* away or fills with a number that does not fit; and systemd, which       *)
(* starts the service again when it has ended.  What the packets and       *)
(* commands carry is in the other modules.                                 *)
(*                                                                         *)
(* A thread waits for config_mutex_ holding send_mutex_.  Nothing is waited *)
(* for under state_mutex_ and the other mutexes, so a section under one of *)
(* them, and one under config_mutex_ that does not send, is one step.  So   *)
(* is a section together with what its thread alone can see of the code    *)
(* before it, as the test of a loop's condition.                           *)
(***************************************************************************)
EXTENDS Integers

CONSTANTS
    OfflineAfter,  \* offline_timeout_ms, in clock steps
    SetLength,     \* packets that start() or a request sends at most: 8 and 7
    SameMtime,     \* two writes of the file may get the same modification time
    MaxWrites      \* writes of the file (bound)

ASSUME TimesAssumption == OfflineAfter \in Nat
ASSUME SwitchAssumption == SameMtime \in BOOLEAN
ASSUME BoundsAssumption == SetLength \in Nat \ {0} /\ MaxWrites \in Nat

VARIABLES
    main, rx, wd, http,  \* where each thread is
    left,     \* left[t]: packets that thread t has still to send
    owner,    \* owner[l]: the thread that holds lock l
    open,     \* the sockets are open
    stop,     \* stop_requested_
    node,     \* has_packet, online and the age of last_rx_steady
    inHand,   \* rx_steady of the packet rx_loop is handling, as an age (0: no packet)
    file,     \* the configuration file: the write it shows, its modification time, its state
    config,   \* config_: the write it was loaded from
    seen,     \* last_config_mtime_, NoMtime: last_config_seen_ is false
    found,    \* current_mtime and reloaded in reload_config_if_needed (while it runs)
    halt,     \* systemd was asked to stop the service and keeps it stopped
    missed    \* history: the file was written between its first load and open_sockets

process == <<main, rx, wd, http, left, owner, open, stop, node, inHand, config, seen, found>>
vars == <<process, file, halt, missed>>

Locks == {"send", "config"}
Free(l) == owner[l] = "none"
Senders == {"main", "http"}
NodeOld == OfflineAfter + 1
NoMtime == -1
\* The defaults in ServiceConfig, over them what a file that is half written says.
Defaults == -1
NotFound == [write |-> Defaults, mtime |-> NoMtime]
\* A file of which std::stoi can read every number, or not yet written to its end.
FileStates == {"whole", "part", "bad", "gone"}

Init ==
    /\ main = "load" /\ rx = "no" /\ wd = "no" /\ http = "no"
    /\ left = [t \in Senders |-> 0] /\ owner = [l \in Locks |-> "none"]
    /\ open = FALSE /\ stop = FALSE
    /\ node = [has |-> FALSE, online |-> FALSE, age |-> NodeOld] /\ inHand = 0
    /\ file \in [write : {0}, mtime : {0}, state : FileStates \ {"part"}]
    /\ config = Defaults /\ seen = NoMtime
    /\ found = NotFound /\ halt = FALSE /\ missed = FALSE

\* The process ends: all it had is gone with it.  "gone": main returned 0; "failed": it
\* returned 1 or an exception that nobody catches called std::terminate.
Down == {"gone", "failed"}
Exit(how) ==
    /\ main' = how /\ rx' = "no" /\ wd' = "no" /\ http' = "no"
    /\ left' = [t \in Senders |-> 0] /\ owner' = [l \in Locks |-> "none"]
    /\ open' = FALSE /\ stop' = FALSE
    /\ node' = [has |-> FALSE, online |-> FALSE, age |-> NodeOld] /\ inHand' = 0
    /\ config' = Defaults /\ seen' = NoMtime /\ found' = NotFound /\ missed' = FALSE
    /\ UNCHANGED <<file, halt>>
Terminate == Exit("failed")

-----------------------------------------------------------------------------
\* send_command_packet, by main in start() and by http_loop.
TakeSend(t) ==
    /\ left[t] > 0 /\ owner["send"] # t /\ Free("send")
    /\ owner' = [owner EXCEPT !["send"] = t]
    /\ UNCHANGED left
TakeConfig(t) ==
    /\ owner["send"] = t /\ owner["config"] # t /\ Free("config")
    /\ owner' = [owner EXCEPT !["config"] = t]
    /\ UNCHANGED left
\* A packet that was sent counts and leaves an event; sendto may fail, and then the rest of
\* the set is not sent.
Sent(t) ==
    /\ owner["config"] = t /\ owner["send"] = t
    /\ left' = [left EXCEPT ![t] = @ - 1]
    /\ owner' = [owner EXCEPT !["send"] = "none", !["config"] = "none"]
NotSent(t) ==
    /\ owner["config"] = t /\ owner["send"] = t
    /\ left' = [left EXCEPT ![t] = 0]
    /\ owner' = [owner EXCEPT !["send"] = "none", !["config"] = "none"]

SendStep(t) ==
    /\ TakeSend(t) \/ TakeConfig(t) \/ Sent(t) \/ NotSent(t)
    /\ UNCHANGED <<main, rx, wd, http, open, stop, node, inHand, file, config, seen,
                   found, halt, missed>>

-----------------------------------------------------------------------------
\* main: load_config_file, start, the wait for a signal, stop.
\* What a reader of the file gets: of a file that is being written, a part.
Contents == IF file.state = "part" THEN Defaults ELSE file.write
Readable == file.state \in {"whole", "part"}

Load ==
    /\ main = "load" /\ Readable
    /\ config' = Contents /\ main' = "open"
    /\ UNCHANGED <<rx, wd, http, left, owner, open, stop, node, inHand, file, seen,
                   found, halt, missed>>
\* It cannot be opened, or std::stoi throws.
LoadFails == main = "load" /\ ~Readable /\ Terminate

\* open_sockets; when a socket cannot be had the program exits.  The file may go between
\* exists and last_write_time, which then throws.
OpenSockets ==
    /\ main = "open"
    /\ open' = TRUE
    /\ main' = IF file.state = "gone" THEN "threads" ELSE "stamp"
    /\ UNCHANGED <<rx, wd, http, left, owner, stop, node, inHand, file, config, seen,
                   found, halt, missed>>
StartFails == main = "open" /\ Terminate

\* The threads, and the registers that start() is to write.  A thread that has not looked at
\* stop_requested_ yet is like one that waits on its socket: both end at any time after stop.
StartThreads ==
    /\ main' = "send" /\ left' = [left EXCEPT !["main"] = SetLength]
    /\ rx' = "receive" /\ wd' = "check" /\ http' = "accept"
    /\ UNCHANGED <<owner, open, stop, node, inHand, file, config, found, halt>>
StartUnseen == main = "threads" /\ StartThreads /\ UNCHANGED <<seen, missed>>
StartSeen ==
    /\ main = "stamp" /\ file.state # "gone"
    /\ seen' = file.mtime
    /\ missed' = (file.state = "whole" /\ config # file.write)
    /\ StartThreads
StampFails == main = "stamp" /\ file.state = "gone" /\ Terminate

MainTo(from, to) ==
    /\ main = from /\ main' = to
    /\ UNCHANGED <<rx, wd, http, left, owner, node, inHand, file, config, seen, found, missed>>
Started == left["main"] = 0 /\ MainTo("send", "run") /\ UNCHANGED <<open, stop, halt>>
\* SIGTERM, of systemctl stop or somebody else: when the service has ended, Boot or StayDown
\* tells which.
Signal  == MainTo("run", "close") /\ stop' = TRUE /\ UNCHANGED <<open, halt>>
CloseSockets == MainTo("close", "join") /\ open' = FALSE /\ UNCHANGED <<stop, halt>>
JoinThreads == main = "join" /\ {rx, wd, http} = {"ended"} /\ Exit("gone")

MainStep ==
    \/ Load \/ LoadFails \/ OpenSockets \/ StartFails
    \/ StartUnseen \/ StartSeen \/ StampFails \/ Started \/ CloseSockets \/ JoinThreads
    \/ main = "send" /\ SendStep("main")

\* systemd: Restart=always with RestartSec=2, which stays below its limit of five starts in
\* ten seconds.
RestartOfFailure == {"failed"}
Restart == Down
Boot ==
    /\ main \in Restart /\ ~halt
    /\ main' = "load"
    /\ UNCHANGED <<rx, wd, http, left, owner, open, stop, node, inHand, file, config, seen,
                   found, halt, missed>>
\* systemctl stop, of a running service or of one that waits for its restart.
StayDown == main \in Down /\ halt' = TRUE /\ UNCHANGED <<process, file, missed>>

-----------------------------------------------------------------------------
\* rx_loop.  A socket that is closed while a thread waits on it does not wake the thread,
\* its receive timeout does; a wait on a closed socket ends at once, here like a timeout.
TimeoutsOfRxOnly == {"rx"}
Timeouts == {"rx", "http"}

RxTo(from, to) ==
    /\ rx = from /\ rx' = to
    /\ UNCHANGED <<main, wd, http, left, owner, open, stop, file, config, seen, found, halt, missed>>
RxRound == IF stop THEN "ended" ELSE "receive"
RxNothing ==
    /\ "rx" \in Timeouts
    /\ RxTo("receive", RxRound) /\ UNCHANGED <<node, inHand>>
RxPacket == open /\ RxTo("receive", "packet") /\ UNCHANGED <<node, inHand>>

\* A packet of the node; the first one leaves an event.
Heard == [has |-> TRUE, online |-> TRUE, age |-> inHand]
RxStore == RxTo("packet", RxRound) /\ node' = Heard /\ inHand' = 0

\* A datagram that is neither telemetry nor preview counts as an error.
GarbageKeepsAlive == [node EXCEPT !.age = 0]
AfterGarbage == node
RxGarbage == open /\ RxTo("receive", RxRound) /\ node' = AfterGarbage /\ UNCHANGED inHand

RxStep == RxNothing \/ RxPacket \/ RxStore \/ RxGarbage

-----------------------------------------------------------------------------
\* watchdog_loop: mark_offline_if_needed, then reload_config_if_needed when it is due.
WdTo(from, to) ==
    /\ wd = from /\ wd' = to
    /\ UNCHANGED <<main, rx, http, left, owner, open, stop, inHand, file, halt, missed>>
WdRound == IF stop THEN "ended" ELSE "offline"
WdCheck ==
    /\ WdTo("check", WdRound)
    /\ UNCHANGED <<node, config, seen, found>>

Silent == node.has /\ node.age > OfflineAfter
MarkOffline ==
    /\ Free("config") /\ WdTo("offline", "period")
    /\ node' = [node EXCEPT !.online = @ /\ ~Silent]
    /\ UNCHANGED <<config, seen, found>>
NotDue ==
    /\ Free("config") /\ WdTo("period", WdRound)
    /\ UNCHANGED <<node, config, seen, found>>

\* The modification time is read before the contents: a write in between is loaded again.
\* A file that is gone is no reason to stop, unless it goes after exists; nor is one that
\* cannot be opened.  A number that std::stoi refuses ends the process.
Due ==
    /\ Free("config")
    /\ WdTo("period", IF file.state = "gone" THEN WdRound ELSE "mtime")
    /\ UNCHANGED <<node, config, seen, found>>
Unchanged == seen = file.mtime
ReloadMtime ==
    /\ file.state # "gone"
    /\ WdTo("mtime", IF Unchanged THEN WdRound ELSE "load")
    /\ found' = IF Unchanged THEN found ELSE [found EXCEPT !.mtime = file.mtime]
    /\ UNCHANGED <<node, config, seen>>
MtimeThrows == wd = "mtime" /\ file.state = "gone" /\ Terminate
ReloadFile ==
    /\ Readable
    /\ WdTo("load", "store")
    /\ found' = [found EXCEPT !.write = Contents]
    /\ UNCHANGED <<node, config, seen>>
ReloadFails ==
    /\ WdTo("load", WdRound)
    /\ found' = NotFound
    /\ UNCHANGED <<node, config, seen>>
ReloadThrows == wd = "load" /\ file.state = "bad" /\ Terminate
MtimeReread == file.mtime
MtimeToKeep == found.mtime
ReloadStore ==
    /\ Free("config") /\ WdTo("store", WdRound)
    /\ config' = found.write /\ seen' = MtimeToKeep
    /\ found' = NotFound
    /\ UNCHANGED node

WdStep ==
    \/ WdCheck \/ MarkOffline \/ NotDue \/ Due
    \/ ReloadMtime \/ MtimeThrows
    \/ ReloadFile \/ ReloadFails \/ ReloadThrows \/ ReloadStore

-----------------------------------------------------------------------------
\* http_loop: one client at a time.  The socket of a client has the timeout of the listening
\* socket for what it receives, and none for what it sends.
HttpTo(from, to) ==
    /\ http = from /\ http' = to
    /\ UNCHANGED <<main, rx, wd, owner, open, stop, node, inHand, file, config, seen,
                   found, halt, missed>>
HttpRound == IF stop THEN "ended" ELSE "accept"
HttpNothing ==
    /\ "http" \in Timeouts
    /\ HttpTo("accept", HttpRound) \/ HttpTo("request", HttpRound)
    /\ UNCHANGED left
HttpAccept == open /\ HttpTo("accept", "request") /\ UNCHANGED left
\* /api/status, the pages and the files: config_mutex_ is taken last.
HttpStatus == Free("config") /\ HttpTo("request", "reply") /\ UNCHANGED left
HttpCommand ==
    /\ HttpTo("request", "send")
    /\ \E n \in {1, SetLength} : left' = [left EXCEPT !["http"] = n]
HttpSent == left["http"] = 0 /\ HttpTo("send", "reply") /\ UNCHANGED left
HttpReply == HttpTo("reply", HttpRound) /\ UNCHANGED left
\* std::stoi of url_decode throws when no number follows a '%', and nobody catches it.
UrlThrows == http = "request" /\ Terminate
\* SIGPIPE of a send to a client that has gone: nobody handles it, but systemd starts the
\* service with the signal ignored, unless the unit says otherwise, and then the send fails.
PipeBreaks == http = "reply" /\ Terminate

HttpStep ==
    \/ HttpNothing \/ HttpAccept \/ HttpStatus \/ HttpCommand \/ HttpSent
    \/ http = "send" /\ SendStep("http")

-----------------------------------------------------------------------------
\* The file is replaced whole by another one, with numbers that fit or not; or emptied and
\* written again in place, which readers see; or moved away.
Touch(write, state) ==
    /\ \E later \in {1} \cup (IF SameMtime THEN {0} ELSE {}) :
           file' = [write |-> write, mtime |-> file.mtime + later, state |-> state]
    /\ missed' = FALSE
    /\ UNCHANGED <<process, halt>>
Replace ==
    /\ file.write < MaxWrites /\ file.state # "part"
    /\ \E state \in {"whole", "bad"} : Touch(file.write + 1, state)
Truncate ==
    /\ file.write < MaxWrites /\ file.state # "part"
    /\ Touch(file.write + 1, "part")
WriteRest == file.state = "part" /\ Touch(file.write, "whole")
MoveAway ==
    /\ file.state \in {"whole", "bad"} /\ file.write < MaxWrites
    /\ file' = [file EXCEPT !.state = "gone"] /\ missed' = FALSE
    /\ UNCHANGED <<process, halt>>
WriteFile == Replace \/ Truncate \/ WriteRest \/ MoveAway

Older(age, limit) == IF age < limit THEN age + 1 ELSE age
Time ==
    /\ main \notin Down
    /\ node' = [node EXCEPT !.age = Older(@, NodeOld)]
    /\ inHand' = IF rx = "packet" THEN Older(inHand, NodeOld) ELSE inHand
    /\ UNCHANGED <<main, rx, wd, http, left, owner, open, stop, file, config, seen, found,
                   halt, missed>>

Next ==
    \/ MainStep \/ Signal \/ RxStep \/ WdStep \/ HttpStep \/ HttpReply \/ UrlThrows \/ PipeBreaks
    \/ Boot \/ StayDown \/ WriteFile \/ Time
Spec == Init /\ [][Next]_vars

\* Each thread runs, and gets a mutex it waits for some time; time passes, so the reload
\* is due some time, and then the file can be read some time; the sockets can be had some
\* time, and systemd does what it is told.
Running ==
    /\ SF_vars(MainStep) /\ WF_vars(RxStep) /\ SF_vars(WdStep) /\ SF_vars(HttpStep)
    /\ WF_vars(Time) /\ SF_vars(Due) /\ SF_vars(ReloadFile)
    /\ SF_vars(OpenSockets) /\ WF_vars(Boot)
\* Clients read their replies.
FairSpec == Spec /\ Running /\ WF_vars(HttpReply)
FairSpecAnyClient == Spec /\ Running

-----------------------------------------------------------------------------
\* Types, and who holds a lock is where the code takes it.
TypeOK ==
    /\ node.age \in 0..NodeOld /\ inHand \in 0..NodeOld /\ seen \in NoMtime..file.mtime
    /\ file.state \in FileStates /\ {config, found.write} \subseteq Defaults..file.write
    /\ left \in [Senders -> 0..SetLength]
    /\ {owner["send"], owner["config"]} \subseteq Senders \cup {"none"}
    /\ \A t \in Senders : owner["config"] = t => owner["send"] = t
    /\ main \in Down => ~open /\ ~stop /\ {rx, wd, http} = {"no"}

\* Once a signal has come the service exits: no thread waits for ever on a socket that was
\* closed under it, on a mutex or on another thread.
StopEnds == stop ~> main \in Down

\* The service comes to use the configuration in the file, however the writes of the file
\* fall between the steps of a reload or a restart, also when it read half a file before or
\* was ended by one it could not read; unless the file is not whole, systemd was told to
\* stop, or the file was last written between the first load and open_sockets.
OutOfDate == file.state = "whole" /\ config # file.write
ConfigFollowsFile == OutOfDate ~> (~OutOfDate \/ halt \/ missed)
\* The same for a file written at any time, which start() does not keep.
ConfigFollowsFileAlways == OutOfDate ~> (~OutOfDate \/ halt)

\* A node that is shown online is marked offline unless it sends another packet, whatever
\* else arrives.
SilenceNoticed == node.online ~> (~node.online \/ rx = "packet" \/ stop)

\* A service that ended in whatever way - a signal, an exception in any thread, ports that
\* are taken - has its threads again, unless systemd was told to stop or the file is missing
\* or holds a number that ends every start.
ComesBack == main \in Down ~> (main \in {"send", "run"} \/ halt \/ ~Readable)
==============================================================================
