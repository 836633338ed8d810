------------------------------- MODULE SccbInit -------------------------------
(***************************************************************************)
(* The camera is configured over SCCB after every reset of the FPGA, clock *)
(* by clock (sys_clk): the top level starts ov2640_sccb_init once, which   *)
(* goes through its table and has sccb_master_write send each entry bit by *)
(* bit.  The camera is a slave on the two wires; it has no reset pin, so a *)
(* reset of the FPGA finds it, and leaves it, in the middle of a byte.     *)
(*                                                                         *)
(* A byte is the sequence of its Width bits, the first one sent first.  The *)
(* wires are open drain: low when anyone pulls.                            *)
(***************************************************************************)
EXTENDS Integers, Sequences, FiniteSets

CONSTANTS
    Width,       \* bits of a byte: 8
    Device,      \* OV2640_DEV_ADDR_W
    Table,       \* ov2640_init_table: entries [delay |-> clocks] with delay > 0, or
                 \* [delay |-> 0, reg |-> byte, data |-> byte]
    Divider,     \* DIVIDER, clocks of a quarter bit: 125
    WaitCycles,  \* INIT_WAIT_CYCLES
    LongestDelay,  \* bound of the clocks counted in "quiet"
    MaxResets    \* resets of the FPGA (bound)

Bytes == [1..Width -> BOOLEAN]
ZeroByte == [i \in 1..Width |-> FALSE]

ASSUME SccbAssumption ==
    /\ Width \in Nat \ {0} /\ Device \in Bytes /\ Divider \in Nat \ {0, 1}
    /\ WaitCycles \in Nat \ {0} /\ LongestDelay \in Nat \ {0} /\ MaxResets \in Nat
ASSUME TableAssumption ==
    Table \in Seq([delay : 1..LongestDelay] \cup [delay : {0}, reg : Bytes, data : Bytes])

VARIABLES
    top,      \* init_wait_cnt, init_start_pulse, init_started, the two sticky bits
    init,     \* ov2640_sccb_init: state, table_idx, wr_start, delay_cnt, done, error
    div,      \* div_cnt and tick
    wr,       \* sccb_master_write: state, phase, byte_idx, bit_idx, cur_byte,
              \* start_pending, done, ack_error, and what it pulls low
    slave,    \* the camera: what it is doing, the bits of the byte so far, the byte's
              \* place in the transfer, the register named, whether it pulls SDA low
    written,  \* history: registers written since the reset
    held,     \* history: the reset came while the camera was pulling SDA low
    quiet,    \* history: clocks since the last STOP, up to LongestDelay
    resets    \* so far (bound)

sccbVars == <<top, init, div, wr, slave, written, held, quiet, resets>>

ResetTop == [wait |-> 0, start |-> FALSE, started |-> FALSE, done |-> FALSE, error |-> FALSE]
ResetInit ==
    [state |-> "IDLE", idx |-> 1, start |-> FALSE, delay |-> 0, done |-> FALSE, error |-> FALSE]
ResetDiv == [cnt |-> 0, tick |-> FALSE]
ResetWr ==
    [state |-> "IDLE", phase |-> 0, byte |-> 0, bit |-> Width - 1, cur |-> ZeroByte,
     pending |-> FALSE, done |-> FALSE, ackError |-> FALSE, scl |-> FALSE, sda |-> FALSE]
IdleSlave == [doing |-> "idle", value |-> <<>>, place |-> 0, reg |-> ZeroByte, sda |-> FALSE]

SccbBegin ==
    /\ top = ResetTop /\ init = ResetInit /\ div = ResetDiv /\ wr = ResetWr
    /\ slave = IdleSlave /\ written = <<>> /\ held = FALSE
    /\ quiet = LongestDelay /\ resets = 0

-----------------------------------------------------------------------------
\* The top level starts the initialisation once and keeps what comes of it.
TopNext ==
    LET due == top.wait = WaitCycles - 1 IN
    [wait    |-> IF top.started \/ due THEN top.wait ELSE top.wait + 1,
     start   |-> ~top.started /\ due,
     started |-> top.started \/ due,
     done    |-> top.done \/ init.done,
     error   |-> top.error \/ init.error]

\* ov2640_sccb_init.
Entry == Table[init.idx]
TableEnd == init.idx > Len(Table)
Delayed == init.delay >= Entry.delay - 1

InitGo(state) == [init EXCEPT !.state = state, !.start = FALSE, !.done = FALSE]

InitNext ==
    CASE init.state = "IDLE" ->
            [ResetInit EXCEPT !.state = IF top.start THEN "LOAD" ELSE "IDLE"]
      [] init.state = "LOAD" ->
            IF TableEnd THEN InitGo("DONE")
            ELSE IF Entry.delay > 0 THEN [InitGo("DELAY") EXCEPT !.delay = 0]
            ELSE InitGo("WRITE")
      [] init.state = "WRITE" -> [InitGo("WAIT_WR") EXCEPT !.start = TRUE]
      [] init.state = "WAIT_WR" ->
            IF wr.done THEN [InitGo("NEXT") EXCEPT !.error = @ \/ wr.ackError]
            ELSE InitGo("WAIT_WR")
      [] init.state = "DELAY" ->
            IF Delayed THEN InitGo("NEXT") ELSE [InitGo("DELAY") EXCEPT !.delay = @ + 1]
      [] init.state = "NEXT" -> [InitGo("LOAD") EXCEPT !.idx = @ + 1]
      [] init.state = "DONE" -> [InitGo("IDLE") EXCEPT !.done = TRUE]

-----------------------------------------------------------------------------
\* sccb_master_write.
DivNext ==
    LET last == div.cnt = Divider - 1 IN
    [cnt |-> IF last THEN 0 ELSE div.cnt + 1, tick |-> last]

SelectByteDoubled(i) == <<Device, Entry.reg, Entry.reg>>[i + 1]
SelectByte(i) == <<Device, Entry.reg, Entry.data>>[i + 1]
BitOf(byte, i) == byte[Width - i]

BitOfNextByte == Width - 1

\* The next phase of w, with SCL and SDA pulled low or not.
Quarter(w, scl, sda) == [w EXCEPT !.phase = (@ + 1) % 4, !.scl = scl, !.sda = sda]

Idle(w) ==
    LET idle == [w EXCEPT !.scl = FALSE, !.sda = FALSE, !.ackError = FALSE, !.phase = 0] IN
    IF ~wr.pending THEN idle
    ELSE [idle EXCEPT !.pending = FALSE, !.byte = 0, !.cur = Device, !.bit = Width - 1,
                      !.state = "START"]

Start(w) ==
    CASE w.phase = 0 -> Quarter(w, FALSE, FALSE)
      [] w.phase = 1 -> Quarter(w, FALSE, TRUE)
      [] w.phase = 2 -> Quarter(w, TRUE, TRUE)
      [] w.phase = 3 -> [Quarter(w, w.scl, w.sda) EXCEPT !.state = "SEND"]

Send(w) ==
    CASE w.phase = 0 -> Quarter(w, TRUE, ~BitOf(w.cur, w.bit))
      [] w.phase \in {1, 2} -> Quarter(w, FALSE, w.sda)
      [] w.phase = 3 ->
            IF w.bit = 0 THEN [Quarter(w, TRUE, w.sda) EXCEPT !.state = "ACK"]
            ELSE [Quarter(w, TRUE, w.sda) EXCEPT !.bit = @ - 1]

Ack(w) ==
    CASE w.phase = 0 -> Quarter(w, TRUE, FALSE)
      [] w.phase = 1 -> Quarter(w, FALSE, w.sda)
      [] w.phase = 2 ->
            [Quarter(w, w.scl, w.sda) EXCEPT !.ackError = @ \/ ~(w.sda \/ slave.sda)]
      [] w.phase = 3 ->
            IF w.byte = 2 THEN [Quarter(w, TRUE, FALSE) EXCEPT !.state = "STOP"]
            ELSE [Quarter(w, TRUE, FALSE) EXCEPT
                     !.byte = @ + 1, !.cur = SelectByte(w.byte + 1), !.bit = BitOfNextByte,
                     !.state = "SEND"]

Stop(w) ==
    CASE w.phase = 0 -> Quarter(w, TRUE, TRUE)
      [] w.phase = 1 -> Quarter(w, FALSE, TRUE)
      [] w.phase = 2 -> Quarter(w, FALSE, FALSE)
      [] w.phase = 3 -> [Quarter(w, w.scl, w.sda) EXCEPT !.state = "DONE"]

DoneForgets(w) ==
    [w EXCEPT !.scl = FALSE, !.sda = FALSE, !.done = TRUE, !.state = "IDLE", !.ackError = FALSE]
\* ack_error stays for the clock after done, until the next tick.
Done(w) == [w EXCEPT !.scl = FALSE, !.sda = FALSE, !.done = TRUE, !.state = "IDLE"]

PendingAtTickOnly == IF div.tick THEN init.start ELSE wr.pending
\* A start is remembered until a tick finds the master idle.
Pending == wr.pending \/ init.start

WrNext ==
    LET w == [wr EXCEPT !.done = FALSE, !.pending = Pending] IN
    IF ~div.tick THEN w
    ELSE CASE wr.state = "IDLE"  -> Idle(w)
           [] wr.state = "START" -> Start(w)
           [] wr.state = "SEND"  -> Send(w)
           [] wr.state = "ACK"   -> Ack(w)
           [] wr.state = "STOP"  -> Stop(w)
           [] wr.state = "DONE"  -> Done(w)

-----------------------------------------------------------------------------
\* The camera.  It samples a bit when SCL rises and answers a byte when SCL falls; it may
\* fail to answer, and then waits for the next START.
Wires(w, s) == [scl |-> ~w.scl, sda |-> ~(w.sda \/ s.sda)]

StartSeen(from, to) == from.scl /\ to.scl /\ from.sda /\ ~to.sda
StopSeen(from, to)  == from.scl /\ to.scl /\ ~from.sda /\ to.sda
Rises(from, to)     == ~from.scl /\ to.scl
Falls(from, to)     == from.scl /\ ~to.scl

ByteEnds(s, from, to) == Falls(from, to) /\ s.doing = "receive" /\ Len(s.value) = Width
Known(s) == s.place > 0 \/ s.value = Device

SlaveAfter(s, from, to, answers) ==
    IF StartSeen(from, to) THEN [IdleSlave EXCEPT !.doing = "receive"]
    ELSE IF StopSeen(from, to) THEN IdleSlave
    ELSE IF Rises(from, to) /\ s.doing = "receive" /\ Len(s.value) < Width THEN
        [s EXCEPT !.value = Append(@, to.sda)]
    ELSE IF ByteEnds(s, from, to) THEN
        IF answers /\ Known(s)
        THEN [s EXCEPT !.doing = "answer", !.sda = TRUE,
                       !.reg = IF s.place = 1 THEN s.value ELSE @]
        ELSE IdleSlave
    ELSE IF Falls(from, to) /\ s.doing = "answer" THEN
        [s EXCEPT !.doing = "receive", !.sda = FALSE, !.value = <<>>,
                  !.place = IF @ < 3 THEN @ + 1 ELSE @]
    ELSE s

Writes(s, from, to, answers) == ByteEnds(s, from, to) /\ answers /\ s.place = 2

-----------------------------------------------------------------------------
Clk ==
    /\ top' = TopNext /\ init' = InitNext /\ div' = DivNext /\ wr' = WrNext
    /\ \E answers \in BOOLEAN :
           LET from == Wires(wr, slave)
               to == Wires(wr', slave)
           IN /\ ByteEnds(slave, from, to) \/ answers
              /\ slave' = SlaveAfter(slave, from, to, answers)
              /\ written' = IF Writes(slave, from, to, answers)
                            THEN Append(written, <<slave.reg, slave.value>>) ELSE written
              /\ quiet' = IF StopSeen(from, to) THEN 0
                          ELSE IF quiet < LongestDelay THEN quiet + 1 ELSE quiet
    /\ UNCHANGED <<held, resets>>

\* rst_n_sys: the master lets go of both wires, in either order as the camera sees it.
Reset ==
    /\ resets < MaxResets /\ resets' = resets + 1
    /\ top' = ResetTop /\ init' = ResetInit /\ div' = ResetDiv /\ wr' = ResetWr
    /\ \E sclFirst \in BOOLEAN :
           LET from == Wires(wr, slave)
               to == Wires(ResetWr, slave)
               mid == IF sclFirst THEN [from EXCEPT !.scl = to.scl]
                      ELSE [from EXCEPT !.sda = to.sda]
           IN slave' = SlaveAfter(SlaveAfter(slave, from, mid, TRUE), mid, to, TRUE)
    /\ held' = slave.sda
    /\ written' = <<>>
    /\ quiet' = LongestDelay

SccbNext == Clk \/ Reset
SccbSpec == SccbBegin /\ [][SccbNext]_sccbVars
SccbFairSpec == SccbSpec /\ WF_sccbVars(Clk)   \* sys_clk keeps running

-----------------------------------------------------------------------------
\* The writes among the first n entries of the table, and that they have been made in order.
WritesIn(n) == Cardinality({i \in 1..n : Table[i].delay = 0})
AllWritten(n) ==
    /\ Len(written) = WritesIn(n)
    /\ \A i \in 1..n :
           Table[i].delay = 0 => written[WritesIn(i)] = <<Table[i].reg, Table[i].data>>

\* Types of the registers, the camera and the histories.
SccbTypeOK ==
    /\ top \in [wait : 0..(WaitCycles - 1), start : BOOLEAN, started : BOOLEAN, done : BOOLEAN,
                error : BOOLEAN]
    /\ init \in [state : {"IDLE", "LOAD", "WRITE", "WAIT_WR", "DELAY", "NEXT", "DONE"},
                 idx : 1..(Len(Table) + 1), start : BOOLEAN, delay : 0..LongestDelay,
                 done : BOOLEAN, error : BOOLEAN]
    /\ div \in [cnt : 0..(Divider - 1), tick : BOOLEAN]
    /\ wr \in [state : {"IDLE", "START", "SEND", "ACK", "STOP", "DONE"}, phase : 0..3,
               byte : 0..2, bit : 0..(Width - 1), cur : Bytes, pending : BOOLEAN,
               done : BOOLEAN, ackError : BOOLEAN, scl : BOOLEAN, sda : BOOLEAN]
    /\ slave \in [doing : {"idle", "receive", "answer"}, value : Seq(BOOLEAN), place : 0..3,
                  reg : Bytes, sda : BOOLEAN]
    /\ Len(slave.value) <= Width
    /\ written \in Seq(Bytes \X Bytes) /\ held \in BOOLEAN
    /\ quiet \in 0..LongestDelay /\ resets \in 0..MaxResets

\* When the initialisation is reported as done without an error, the camera has been given
\* every entry of the table, in order and nothing else, whichever bytes it did not answer and
\* whenever the FPGA was reset, unless the reset came while the camera was answering.
DoneMeansWritten == top.done /\ ~top.error /\ ~held => AllWritten(Len(Table))
\* The same for every reset, which the code does not keep: no entry is sent again.
DoneMeansWrittenAlways == top.done /\ ~top.error => AllWritten(Len(Table))

\* A write that follows a delay of the table does not begin before the delay is over.
DelayKept ==
    [][StartSeen(Wires(wr, slave), Wires(wr', slave')) /\ init.idx > 1 =>
           quiet >= Table[init.idx - 1].delay]_sccbVars

\* The initialisation comes to its end after every reset, answered or not.
InitEnds == ~top.done ~> top.done
==============================================================================
