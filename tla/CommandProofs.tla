---------------------------- MODULE CommandProofs ----------------------------
(***************************************************************************)
(* A command from the request to the registers, for every size of its      *)
(* parts.  First the synchroniser and the FIFO that executes commands      *)
(* (PulseSync, CommandExec): the command path implements RegisterFile for  *)
(* every depth of the FIFO, width of the registers and any number of       *)
(* commands and resets.  Then the threads that send parameter sets         *)
(* (CommandIssue), for every number of registers, requests, failures and   *)
(* restarts.                                                               *)
(***************************************************************************)
EXTENDS CommandExec, CommandIssue, SequenceTheorems, TLAPS

-----------------------------------------------------------------------------
(***************************************************************************)
(* The synchroniser: a toggle loses no pulse when the source leaves at     *)
(* least one destination period between two pulses.                        *)
(***************************************************************************)
LEMMA InitSync == SyncInit => SyncTypeOK /\ SyncInv
<1> SUFFICES ASSUME SyncInit PROVE SyncTypeOK /\ SyncInv
  OBVIOUS
<1>1. 0 \in 0..2 /\ 1 \in 0..2 /\ 2 \in 0..2
  OBVIOUS
<1>2. toggle = FALSE /\ ff[0] = FALSE /\ ff[1] = FALSE /\ ff[2] = FALSE
  BY <1>1, Zenon DEF SyncInit
<1>3. toggle = ff[0] /\ ff[0] = ff[1] /\ ff[1] = ff[2]
  BY <1>2, Zenon
<1>4. SyncTypeOK
  <2>1. ff \in [0..2 -> BOOLEAN] /\ toggle \in BOOLEAN
    BY Zenon DEF SyncInit
  <2> QED BY <2>1, TimingAssumption DEF SyncInit, SyncTypeOK
<1>5. SyncInv
  <2>1. InFlight = 0
    BY <1>3 DEF InFlight
  <2> QED BY <1>3, <2>1 DEF SyncInit, SyncInv, NoPulseLost
<1> QED BY <1>4, <1>5

LEMMA SourceType ==
    ASSUME SyncTypeOK, NEW pulse \in BOOLEAN, SrcEdge(pulse)
    PROVE  SyncTypeOK'
<1> USE DEF SyncTypeOK
<1>1. toggle' \in BOOLEAN
  BY DEF SrcEdge, ToggleNext
<1>2. since' \in 0..MaxPeriod
  BY TimingAssumption DEF SrcEdge
<1>3. gap' \in 0..MinGap
  BY TimingAssumption DEF SrcEdge
<1> QED BY <1>1, <1>2, <1>3 DEF SrcEdge

LEMMA DestinationType == SyncTypeOK /\ DstEdge => SyncTypeOK'
BY TimingAssumption DEF SyncTypeOK, DstEdge

LEMMA SyncTypeStep == SyncTypeOK /\ [SyncNext]_syncVars => SyncTypeOK'
<1> SUFFICES ASSUME SyncTypeOK, [SyncNext]_syncVars PROVE SyncTypeOK'
  OBVIOUS
<1>1. ASSUME NEW pulse \in BOOLEAN, SrcEdge(pulse) PROVE SyncTypeOK'
  BY <1>1, SourceType
<1>2. CASE DstEdge
  BY <1>2, DestinationType
<1>3. CASE UNCHANGED syncVars
  BY <1>3 DEF syncVars, SyncTypeOK
<1> QED BY <1>1, <1>2, <1>3 DEF SyncNext

LEMMA SyncInvStep ==
    ASSUME MinGap + 1 >= MaxPeriod, SyncTypeOK, SyncInv, [SyncNext]_syncVars
    PROVE  SyncInv'
<1>0. /\ toggle \in BOOLEAN /\ ff[0] \in BOOLEAN /\ ff[1] \in BOOLEAN /\ ff[2] \in BOOLEAN
      /\ since \in 0..MaxPeriod /\ gap \in 0..MinGap /\ pulsed \in Nat /\ arrived \in Nat
      /\ MaxPeriod \in Nat \ {0} /\ MinGap \in Nat
  BY TimingAssumption DEF SyncTypeOK
<1>1. CASE SrcEdge(FALSE)
  <2>1. /\ toggle' = toggle /\ ff' = ff /\ arrived' = arrived /\ pulsed' = pulsed
        /\ since' = since + 1 /\ gap' <= gap + 1 /\ gap' \in Nat
    BY <1>0, <1>1 DEF SrcEdge, ToggleNext
  <2> QED BY <1>0, <2>1 DEF SyncInv, NoPulseLost, InFlight
<1>2. CASE SrcEdge(TRUE)
  <2>1. /\ toggle' = ~toggle /\ ff' = ff /\ arrived' = arrived /\ pulsed' = pulsed + 1
        /\ since' = since + 1 /\ gap' = 0 /\ since < MaxPeriod /\ gap >= MinGap
    BY <1>2 DEF SrcEdge, ToggleNext
  <2>2. toggle = ff[0]
    BY <1>0, <2>1 DEF SyncInv
  <2>3. InFlight' = InFlight + 1
    BY <1>0, <2>1, <2>2 DEF InFlight
  <2>4. NoPulseLost'
    BY <1>0, <2>1, <2>3 DEF SyncInv, NoPulseLost, InFlight
  <2> QED BY <1>0, <2>1, <2>4 DEF SyncInv
<1>3. CASE DstEdge
  <2>1. /\ ff'[0] = toggle /\ ff'[1] = ff[0] /\ ff'[2] = ff[1] /\ toggle' = toggle
        /\ pulsed' = pulsed /\ arrived' = IF ff[1] # ff[2] THEN arrived + 1 ELSE arrived
    BY <1>3 DEF DstEdge, DstPulse, SyncTypeOK
  <2>2. NoPulseLost'
    BY <1>0, <2>1 DEF SyncInv, NoPulseLost, InFlight
  <2> QED BY <2>1, <2>2 DEF SyncInv
<1>4. CASE UNCHANGED syncVars
  BY <1>4 DEF syncVars, SyncInv, NoPulseLost, InFlight
<1> QED BY <1>1, <1>2, <1>3, <1>4 DEF SyncNext

\* Every pulse reaches the destination exactly once, for every pair of clocks and
\* every spacing of pulses no shorter than a destination period.
THEOREM EveryPulseCounts ==
    ASSUME MinGap + 1 >= MaxPeriod
    PROVE  SyncSpec => []NoPulseLost
<1>1. SyncSpec => []SyncTypeOK
  BY InitSync, SyncTypeStep, PTL DEF SyncSpec
<1>2. SyncTypeOK /\ SyncInv /\ [SyncNext]_syncVars => SyncInv'
  BY SyncInvStep
<1>3. SyncInv => NoPulseLost
  BY DEF SyncInv
<1> QED BY <1>1, <1>2, <1>3, InitSync, PTL DEF SyncSpec

-----------------------------------------------------------------------------
(***************************************************************************)
(* One execution.                                                          *)
(***************************************************************************)
LEMMA RoiWidths == \A d \in Nat : RoiW(d) \in 1..(RoiRange - 1)
BY FifoAssumption DEF RoiW

LEMMA RoiKept == \A d \in 1..(RoiRange - 1) : RoiW(d) = d
BY FifoAssumption DEF RoiW

LEMMA ExecuteType ==
    ASSUME NEW r \in Regs, NEW c \in Numbered
    PROVE  Execute(r, c) \in Regs /\ Execute(r, c).seq = c.seq
<1>1. RoiW(c.data) \in 1..(RoiRange - 1)
  BY RoiWidths DEF Numbered
<1> QED BY <1>1 DEF Execute, Regs, Numbered

\* The second execution of a command changes nothing.
LEMMA ExecuteTwice ==
    ASSUME NEW r \in Regs, NEW c \in Numbered
    PROVE  Execute(Execute(r, c), c) = Execute(r, c)
BY DEF Execute

\* One execution does what the register file promises of a command.
LEMMA ExecuteRan ==
    ASSUME NEW c \in Numbered, regs \in Regs, regs' = Execute(regs, c)
    PROVE  File!Ran(c)
<1>1. RoiW(c.data) \in 1..(RoiRange - 1)
  BY RoiWidths DEF Numbered
<1>2. c.data \in 1..(RoiRange - 1) => RoiW(c.data) = c.data
  BY RoiKept
<1> QED BY <1>1, <1>2 DEF Execute, Regs, Numbered, File!Ran, File!Names

-----------------------------------------------------------------------------
(***************************************************************************)
(* The FIFO.                                                               *)
(***************************************************************************)
LEMMA FifoFacts ==
    ASSUME Typed
    PROVE  /\ Len(fifo) \in Nat
           /\ fifo = <<>> <=> Len(fifo) = 0
           /\ \A i \in 1..Len(fifo) : fifo[i] \in Numbered /\ fifo[i].seq \in Nat \ {0}
           /\ regs.seq \in Nat
           /\ fifo # <<>> => /\ Head(fifo) = fifo[1] /\ Head(fifo) \in Numbered
                             /\ Tail(fifo) \in Seq(Numbered)
                             /\ Len(Tail(fifo)) = Len(fifo) - 1
                             /\ \A i \in 1..Len(Tail(fifo)) : Tail(fifo)[i] = fifo[i + 1]
<1>1. fifo \in Seq(Numbered)
  BY DEF Typed
<1>2. Len(fifo) \in Nat /\ (fifo = <<>> <=> Len(fifo) = 0)
  BY <1>1, EmptySeq, LenProperties
<1>3. \A i \in 1..Len(fifo) : fifo[i] \in Numbered
  BY <1>1, LenProperties
<1>4. fifo # <<>> => /\ Head(fifo) = fifo[1] /\ Head(fifo) \in Numbered
                     /\ Tail(fifo) \in Seq(Numbered)
                     /\ Len(Tail(fifo)) = Len(fifo) - 1
                     /\ \A i \in 1..Len(Tail(fifo)) : Tail(fifo)[i] = fifo[i + 1]
  BY <1>1, HeadTailProperties
<1> QED BY <1>2, <1>3, <1>4 DEF Typed, Regs, Numbered

\* The FIFO after a read.
LEMMA TailKeepsOrder ==
    ASSUME Typed, fifo # <<>>, Ascending, fifo' = Tail(fifo)
    PROVE  /\ Len(fifo') = Len(fifo) - 1
           /\ fifo' # <<>> => Head(fifo') = fifo[2] /\ Len(fifo) >= 2
           /\ \A i \in 1..Len(fifo') : fifo'[i] = fifo[i + 1]
           /\ Ascending'
<1>1. Len(fifo) \in Nat \ {0} /\ Tail(fifo) \in Seq(Numbered)
  BY FifoFacts
<1>2. Len(fifo') = Len(fifo) - 1 /\ \A i \in 1..Len(fifo') : fifo'[i] = fifo[i + 1]
  BY FifoFacts
<1>3. ASSUME fifo' # <<>> PROVE Head(fifo') = fifo[2] /\ Len(fifo) >= 2
  <2>1. fifo' \in Seq(Numbered)
    BY <1>1
  <2>2. Head(fifo') = fifo'[1] /\ Len(fifo') \in Nat \ {0}
    BY <1>3, <2>1, HeadTailProperties, EmptySeq
  <2> QED BY <1>1, <1>2, <2>2
<1>4. Ascending'
  <2> SUFFICES ASSUME NEW i \in 1..Len(fifo'), NEW j \in 1..Len(fifo'), i < j
               PROVE  fifo'[i].seq < fifo'[j].seq
    BY DEF Ascending
  <2>1. i + 1 \in 1..Len(fifo) /\ j + 1 \in 1..Len(fifo) /\ i + 1 < j + 1
    BY <1>1, <1>2
  <2>2. fifo[i + 1].seq < fifo[j + 1].seq
    BY <2>1 DEF Ascending
  <2> QED BY <1>2, <2>2
<1> QED BY <1>2, <1>3, <1>4

-----------------------------------------------------------------------------
(***************************************************************************)
(* Clears on their way to the camera.                                      *)
(***************************************************************************)
\* An edge of eth_clk125m: the pulse flips the toggle, which is one more change of level
\* or takes back the last one; an executed CLEAR_ERROR is the next pulse.
LEMMA ClearsCross ==
    ASSUME ClearTyped, SrcEdge(clearPulse), NEW n \in {0, 1},
           clearPulse' \in BOOLEAN, clearPulse' <=> (n = 1)
    PROVE  ClearTyped' /\ File!Cross(n) /\ arrived' = arrived
<1>1. ClearTyped'
  BY SourceType DEF ClearTyped
<1>2. /\ toggle \in BOOLEAN /\ clearPulse \in BOOLEAN
      /\ ff[0] \in BOOLEAN /\ ff[1] \in BOOLEAN /\ ff[2] \in BOOLEAN
      /\ Crossing \in Nat /\ Crossing' \in Nat
  <2>1. 0 \in 0..2 /\ 1 \in 0..2 /\ 2 \in 0..2
    OBVIOUS
  <2>2. /\ toggle \in BOOLEAN /\ clearPulse \in BOOLEAN
        /\ ff[0] \in BOOLEAN /\ ff[1] \in BOOLEAN /\ ff[2] \in BOOLEAN
    BY <2>1, Zenon DEF ClearTyped, SyncTypeOK
  <2>3. Crossing \in Nat /\ Crossing' \in Nat
    BY DEF Crossing, InFlight
  <2> QED BY <2>2, <2>3
<1>3. ff' = ff /\ arrived' = arrived /\ toggle' = IF clearPulse THEN ~toggle ELSE toggle
  BY DEF SrcEdge, ToggleNext
<1> DEFINE rest == (IF ff[0] # ff[1] THEN 1 ELSE 0) + (IF ff[1] # ff[2] THEN 1 ELSE 0)
           last == IF toggle # ff[0] THEN 1 ELSE 0
<1>4. rest \in Nat /\ last \in {0, 1}
  OBVIOUS
<1>5. Crossing = last + rest + (IF clearPulse THEN 1 ELSE 0)
  BY <1>4 DEF Crossing, InFlight
<1>6. Crossing' = (IF toggle' # ff[0] THEN 1 ELSE 0) + rest + n
  <2>1. Crossing' = (IF toggle' # ff'[0] THEN 1 ELSE 0) + (IF ff'[0] # ff'[1] THEN 1 ELSE 0)
                      + (IF ff'[1] # ff'[2] THEN 1 ELSE 0) + (IF clearPulse' THEN 1 ELSE 0)
    BY DEF Crossing, InFlight
  <2>2. (IF clearPulse' THEN 1 ELSE 0) = n
    OBVIOUS
  <2> QED BY <1>3, <2>1, <2>2
<1>7. CASE ~clearPulse
  <2>1. toggle' = toggle
    BY <1>3, <1>7
  <2>2. Crossing' = last + rest + n
    BY <1>6, <2>1
  <2> HIDE DEF rest, last
  <2> QED BY <1>1, <1>2, <1>3, <1>4, <1>5, <1>7, <2>2 DEF File!Cross
<1>8. CASE clearPulse
  <2>1. (IF toggle' # ff[0] THEN 1 ELSE 0) = 1 - last
    <3>1. toggle' = ~toggle
      BY <1>3, <1>8
    <3>2. CASE toggle = ff[0]
      <4>1. toggle' # ff[0]
        BY <1>2, <3>1, <3>2, Zenon
      <4> QED BY <3>2, <4>1
    <3>3. CASE toggle # ff[0]
      <4>1. toggle' = ff[0]
        BY <1>2, <3>1, <3>3, Zenon
      <4> QED BY <3>3, <4>1
    <3> QED BY <3>2, <3>3
  <2>2. Crossing' = 1 - last + rest + n /\ Crossing = last + rest + 1
    BY <1>5, <1>6, <1>8, <2>1
  <2> HIDE DEF rest, last
  <2>3. last = 0 => Crossing' = Crossing + n
    BY <1>4, <2>2
  <2>4. last = 1 => Crossing' = Crossing + n - 2
    BY <1>4, <2>2
  <2> QED BY <1>1, <1>2, <1>3, <1>4, <2>3, <2>4 DEF File!Cross
<1> QED BY <1>2, <1>7, <1>8

\* An edge of the camera clock: the oldest change of level is seen.
LEMMA ClearsArrive ==
    ASSUME ClearTyped, DstEdge, clearPulse' = clearPulse
    PROVE  /\ ClearTyped'
           /\ \/ Crossing' = Crossing /\ arrived' = arrived
              \/ Crossing > 0 /\ Crossing' = Crossing - 1 /\ arrived' = arrived + 1
<1>1. ClearTyped'
  BY DestinationType DEF ClearTyped
<1>2. 0 \in 0..2 /\ 1 \in 0..2 /\ 2 \in 0..2 /\ ff \in [0..2 -> BOOLEAN]
  BY DEF ClearTyped, SyncTypeOK
<1>3. ff'[0] = toggle /\ ff'[1] = ff[0] /\ ff'[2] = ff[1] /\ toggle' = toggle
  <2>1. ff' = [ff EXCEPT ![0] = toggle, ![1] = ff[0], ![2] = ff[1]]
    BY DEF DstEdge
  <2> QED BY <1>2, <2>1 DEF DstEdge
<1> DEFINE a == IF toggle # ff[0] THEN 1 ELSE 0
           b == IF ff[0] # ff[1] THEN 1 ELSE 0
           c == IF ff[1] # ff[2] THEN 1 ELSE 0
           d == IF clearPulse THEN 1 ELSE 0
<1>4. a \in {0, 1} /\ b \in {0, 1} /\ c \in {0, 1} /\ d \in {0, 1}
  OBVIOUS
<1>5. Crossing = a + b + c + d
  BY DEF Crossing, InFlight
<1>6. Crossing' = 0 + a + b + d
  <2>1. Crossing' = (IF toggle' # ff'[0] THEN 1 ELSE 0) + (IF ff'[0] # ff'[1] THEN 1 ELSE 0)
                      + (IF ff'[1] # ff'[2] THEN 1 ELSE 0) + (IF clearPulse' THEN 1 ELSE 0)
    BY DEF Crossing, InFlight
  <2>2. (IF toggle' # ff'[0] THEN 1 ELSE 0) = 0
    BY <1>3
  <2> QED BY <1>3, <2>1, <2>2
<1>7. arrived' = IF c = 1 THEN arrived + 1 ELSE arrived
  BY DEF DstEdge, DstPulse
<1> HIDE DEF a, b, c, d
<1> QED BY <1>1, <1>4, <1>5, <1>6, <1>7

\* A reset swallows clears on their way; where the toggle alone falls back, the
\* camera may see one more.
LEMMA ClearsReset ==
    ASSUME ClearTyped, RxLost \/ EthLost \/ Button
    PROVE  ClearTyped' /\ Crossing' \in 0..(Crossing + 1) /\ arrived' = arrived
<1>1. ClearTyped'
  <2>1. toggle' \in BOOLEAN /\ clearPulse' \in BOOLEAN /\ ff' \in [0..2 -> BOOLEAN]
    <3>1. CASE RxLost
      BY <3>1, Zenon DEF RxLost, ClearTyped, SyncTypeOK
    <3>2. CASE EthLost
      BY <3>2, Zenon DEF EthLost, ClearTyped, SyncTypeOK
    <3>3. CASE Button
      BY <3>3, Zenon DEF Button, ClearTyped, SyncTypeOK
    <3> QED BY <3>1, <3>2, <3>3
  <2>2. UNCHANGED <<since, gap, pulsed, arrived>>
    BY DEF RxLost, EthLost, Button, FifoReset
  <2> QED BY <2>1, <2>2 DEF ClearTyped, SyncTypeOK
<1>2. Crossing \in Nat /\ Crossing' \in Nat
  BY DEF Crossing, InFlight
<1>3. arrived' = arrived
  BY DEF RxLost, EthLost, Button, FifoReset
<1>4. CASE RxLost
  <2>1. Crossing' = Crossing
    BY <1>4 DEF RxLost, Crossing, InFlight
  <2> QED BY <1>1, <1>2, <1>3, <2>1
<1>5. CASE EthLost
  <2>1. ff' = ff /\ clearPulse' = FALSE
    BY <1>5 DEF EthLost
  <2> DEFINE rest == (IF ff[0] # ff[1] THEN 1 ELSE 0) + (IF ff[1] # ff[2] THEN 1 ELSE 0)
             last == IF toggle # ff[0] THEN 1 ELSE 0
             next == IF toggle' # ff[0] THEN 1 ELSE 0
             d == IF clearPulse THEN 1 ELSE 0
  <2>2. rest \in Nat /\ last \in {0, 1} /\ next \in {0, 1} /\ d \in {0, 1}
    OBVIOUS
  <2>3. Crossing = last + rest + d
    BY DEF Crossing, InFlight
  <2>4. Crossing' = next + rest
    <3>1. Crossing' = (IF toggle' # ff'[0] THEN 1 ELSE 0) + (IF ff'[0] # ff'[1] THEN 1 ELSE 0)
                        + (IF ff'[1] # ff'[2] THEN 1 ELSE 0) + (IF clearPulse' THEN 1 ELSE 0)
      BY DEF Crossing, InFlight
    <3>2. (IF clearPulse' THEN 1 ELSE 0) = 0
      BY <2>1
    <3> QED BY <2>1, <3>1, <3>2
  <2> HIDE DEF rest, last, next, d
  <2> QED BY <1>1, <1>2, <1>3, <2>2, <2>3, <2>4
<1>6. CASE Button
  <2>1. toggle' = FALSE /\ clearPulse' = FALSE /\ ff' = [i \in 0..2 |-> FALSE]
    BY <1>6 DEF Button
  <2>2. ff'[0] = FALSE /\ ff'[1] = FALSE /\ ff'[2] = FALSE
    BY <2>1
  <2>3. ~(toggle' # ff'[0]) /\ ~(ff'[0] # ff'[1]) /\ ~(ff'[1] # ff'[2]) /\ ~clearPulse'
    BY <2>1, <2>2, Zenon
  <2>4. Crossing' = 0
    BY <2>3 DEF Crossing, InFlight
  <2> QED BY <1>1, <1>2, <1>3, <2>4
<1> QED BY <1>4, <1>5, <1>6

-----------------------------------------------------------------------------
(***************************************************************************)
(* The invariant.                                                          *)
(***************************************************************************)
LEMMA InitInv == Init => ExecInv
<1> SUFFICES ASSUME Init PROVE ExecInv
  OBVIOUS
<1>1. fifo \in Seq(Numbered) /\ Len(fifo) = 0
  BY EmptySeq DEF Init
<1>2. regs \in Regs /\ regs.seq = 0
  BY FifoAssumption DEF Init, ResetRegs, Regs
<1>3. Typed
  <2>1. rdEn \in BOOLEAN
    BY Zenon DEF Init
  <2>2. Len(fifo) <= FifoDepth /\ received \in Nat /\ resets \in Nat
    BY <1>1, FifoAssumption DEF Init
  <2> QED BY <1>1, <1>2, <2>1, <2>2 DEF Typed
<1>4. fifo = <<>> /\ received = 0
  BY DEF Init
<1>5. ClearTyped
  <2>1. SyncTypeOK
    BY InitSync DEF Init
  <2>2. clearPulse \in BOOLEAN
    BY Zenon DEF Init
  <2> QED BY <2>1, <2>2 DEF ClearTyped
<1> QED BY <1>1, <1>2, <1>3, <1>4, <1>5 DEF ExecInv, Ascending, Again, Running

LEMMA ReceiveInv ==
    ASSUME ExecInv, NEW c \in Commands, Receive(c)
    PROVE  ExecInv'
<1> DEFINE cmd == [code |-> c.code, data |-> c.data, seq |-> received']
<1>1. received' = received + 1 /\ regs' = regs /\ rdEn' = rdEn /\ resets' = resets
  BY DEF Receive
<1>2. cmd \in Numbered /\ cmd.seq = received + 1
  BY <1>1, FifoAssumption DEF Commands, Numbered, ExecInv, Typed
<1>6. ClearTyped'
  BY DEF Receive, syncVars, ExecInv, ClearTyped, SyncTypeOK
<1>3. CASE Len(fifo) < FifoDepth
  <2>1. fifo' = Append(fifo, cmd)
    BY <1>3 DEF Receive
  <2> HIDE DEF cmd
  <2>2. /\ fifo' \in Seq(Numbered) /\ fifo' # <<>> /\ Len(fifo') = Len(fifo) + 1
        /\ \A i \in 1..Len(fifo) : fifo'[i] = fifo[i]
        /\ fifo'[Len(fifo) + 1] = cmd
    BY <1>2, <2>1, AppendProperties DEF ExecInv, Typed
  <2>3. Head(fifo') = IF fifo = <<>> THEN cmd ELSE Head(fifo)
    BY <2>1, HeadTailAppend DEF ExecInv, Typed
  <2>4. Len(fifo) \in Nat /\ \A i \in 1..Len(fifo) : fifo[i].seq \in Nat
    BY FifoFacts DEF ExecInv
  <2>5. Typed'
    BY <1>1, <1>3, <2>2, <2>4, FifoAssumption DEF ExecInv, Typed
  <2>6. /\ \A i \in 1..Len(fifo') : regs.seq <= fifo'[i].seq /\ fifo'[i].seq <= received'
        /\ regs'.seq <= received'
    BY <1>1, <1>2, <2>2, <2>4, FifoFacts DEF ExecInv, Typed
  <2>7. Ascending'
    <3> SUFFICES ASSUME NEW i \in 1..Len(fifo'), NEW j \in 1..Len(fifo'), i < j
                 PROVE  fifo'[i].seq < fifo'[j].seq
      BY DEF Ascending
    <3>1. i \in 1..Len(fifo) /\ fifo'[i] = fifo[i]
      BY <2>2, <2>4
    <3>2. CASE j \in 1..Len(fifo)
      BY <2>2, <3>1, <3>2 DEF ExecInv, Ascending
    <3>3. CASE j = Len(fifo) + 1
      <4>1. fifo[i].seq <= received /\ fifo[i].seq \in Nat /\ received \in Nat
        BY <2>4, <3>1 DEF ExecInv, Typed
      <4> QED BY <1>2, <2>2, <3>1, <3>3, <4>1
    <3> QED BY <2>2, <2>4, <3>2, <3>3
  <2>8. Again'
    <3>1. fifo = <<>> => ~Running'
      BY <1>1, <1>2, <2>3, FifoFacts DEF ExecInv, Typed, Running
    <3> QED BY <1>1, <2>3, <3>1 DEF ExecInv, Again, Running
  <2> QED BY <1>1, <1>6, <2>5, <2>6, <2>7, <2>8 DEF ExecInv
<1>4. CASE ~(Len(fifo) < FifoDepth)
  <2>1. fifo' = fifo
    BY <1>4 DEF Receive
  <2> QED BY <1>1, <1>6, <2>1, FifoFacts DEF ExecInv, Typed, Ascending, Again, Running
<1> QED BY <1>3, <1>4

LEMMA EthEdgeInv ==
    ASSUME ExecInv, EthEdge
    PROVE  ExecInv'
<1>1. received' = received /\ resets' = resets /\ rdEn' = (fifo # <<>>)
  BY DEF EthEdge
<1>4. ClearTyped'
  <2>1. clearPulse' \in BOOLEAN /\ clearPulse \in BOOLEAN /\ SrcEdge(clearPulse)
    BY DEF EthEdge, ExecInv, ClearTyped
  <2> QED BY <2>1, SourceType DEF ExecInv, ClearTyped
<1>2. CASE fifo = <<>>
  BY <1>1, <1>2, <1>4 DEF EthEdge, CmdValid, ExecInv, Typed, Ascending, Again, Running
<1>3. CASE fifo # <<>>
  <2> DEFINE c == Head(fifo)
  <2>1. /\ c \in Numbered /\ c = fifo[1] /\ Len(fifo) \in Nat \ {0} /\ regs \in Regs
        /\ \A i \in 1..Len(fifo) : fifo[i].seq \in Nat
        /\ Tail(fifo) \in Seq(Numbered)
    BY <1>3, FifoFacts DEF ExecInv, Typed
  <2>2. regs' = Execute(regs, c) /\ rdEn' = TRUE
    BY <1>1, <1>3 DEF EthEdge, CmdValid
  <2> HIDE DEF c
  <2>3. regs' \in Regs /\ regs'.seq = c.seq
    BY <2>1, <2>2, ExecuteType
  <2>4. c.seq <= received /\ c.seq \in Nat
    BY <2>1 DEF ExecInv
  <2>5. \A i \in 2..Len(fifo) : c.seq < fifo[i].seq /\ fifo[i].seq <= received
    BY <2>1 DEF ExecInv, Ascending
  <2>6. CASE rdEn
    <3>1. fifo' = Tail(fifo)
      BY <1>3, <2>6 DEF EthEdge
    <3>2. /\ Len(fifo') = Len(fifo) - 1 /\ Ascending'
          /\ fifo' # <<>> => Head(fifo') = fifo[2] /\ Len(fifo) >= 2
          /\ \A i \in 1..Len(fifo') : fifo'[i] = fifo[i + 1]
      BY <1>3, <3>1, TailKeepsOrder DEF ExecInv
    <3>3. Typed'
      BY <1>1, <2>1, <2>2, <2>3, <3>1, <3>2, FifoAssumption DEF ExecInv, Typed
    <3>4. ~Running'
      BY <2>1, <2>3, <2>4, <2>5, <3>2 DEF Running
    <3>5. ASSUME NEW i \in 1..Len(fifo')
          PROVE  regs'.seq <= fifo'[i].seq /\ fifo'[i].seq <= received'
      <4>1. i + 1 \in 2..Len(fifo) /\ i + 1 \in 1..Len(fifo)
        BY <2>1, <3>2
      <4>2. c.seq < fifo[i + 1].seq /\ fifo[i + 1].seq <= received
        BY <2>5, <4>1
      <4>3. fifo'[i] = fifo[i + 1] /\ fifo[i + 1].seq \in Nat
        BY <2>1, <3>2, <4>1
      <4> QED BY <1>1, <2>3, <2>4, <4>2, <4>3
    <3> QED BY <1>1, <1>4, <2>3, <2>4, <3>2, <3>3, <3>4, <3>5 DEF ExecInv, Again
  <2>7. CASE ~rdEn
    <3>1. fifo' = fifo
      BY <2>7 DEF EthEdge
    <3>2. Typed' /\ Ascending'
      BY <1>1, <2>2, <2>3, <3>1 DEF ExecInv, Typed, Ascending
    <3>3. Execute(regs', c) = regs'
      BY <2>1, <2>2, ExecuteTwice
    <3>4. Again'
      BY <2>2, <3>1, <3>3 DEF Again, c
    <3>5. \A i \in 1..Len(fifo) : c.seq <= fifo[i].seq
      BY <2>1, <2>4, <2>5
    <3> QED BY <1>1, <1>4, <2>3, <2>4, <3>1, <3>2, <3>4, <3>5 DEF ExecInv
  <2> QED BY <2>1, <2>6, <2>7 DEF ExecInv, Typed
<1> QED BY <1>2, <1>3

LEMMA ResetInv ==
    ASSUME ExecInv, RxLost \/ EthLost \/ Button
    PROVE  ExecInv'
<1>1. /\ fifo' = <<>> /\ received' = received /\ resets' = resets + 1
      /\ rdEn' \in {rdEn, FALSE} /\ regs' \in {regs, ResetRegs}
  BY DEF RxLost, EthLost, Button, FifoReset
<1>2. ResetRegs \in Regs /\ ResetRegs.seq = 0
  BY FifoAssumption DEF ResetRegs, Regs
<1>3. fifo' \in Seq(Numbered) /\ Len(fifo') = 0
  BY <1>1, EmptySeq
<1>4. Typed'
  <2>1. rdEn' \in BOOLEAN
    BY <1>1, Zenon DEF ExecInv, Typed
  <2>2. Len(fifo') <= FifoDepth /\ received' \in Nat /\ resets' \in Nat
    BY <1>1, <1>3, FifoAssumption DEF ExecInv, Typed
  <2>3. regs' \in Regs
    BY <1>1, <1>2 DEF ExecInv, Typed
  <2> QED BY <1>3, <2>1, <2>2, <2>3 DEF Typed
<1>5. regs'.seq <= received'
  BY <1>1, <1>2 DEF ExecInv, Typed
<1>6. ClearTyped'
  BY ClearsReset DEF ExecInv
<1> QED BY <1>1, <1>3, <1>4, <1>5, <1>6 DEF ExecInv, Ascending, Again, Running

LEMMA NextInv == ExecInv /\ [Next]_vars => ExecInv'
<1> SUFFICES ASSUME ExecInv, [Next]_vars PROVE ExecInv'
  OBVIOUS
<1>1. ASSUME UNCHANGED execVars, ClearTyped' PROVE ExecInv'
  BY <1>1 DEF execVars, ExecInv, Typed, Ascending, Again, Running
<1>2. CASE CamEdge
  <2>1. ClearTyped'
    BY <1>2, DestinationType DEF CamEdge, execVars, ExecInv, ClearTyped
  <2> QED BY <1>1, <1>2, <2>1 DEF CamEdge
<1>3. CASE UNCHANGED vars
  <2>1. ClearTyped'
    BY <1>3 DEF vars, syncVars, execVars, ExecInv, ClearTyped, SyncTypeOK
  <2> QED BY <1>1, <1>3, <2>1 DEF vars
<1> QED BY <1>2, <1>3, ReceiveInv, EthEdgeInv, ResetInv DEF Next

-----------------------------------------------------------------------------
(***************************************************************************)
(* The refinement.                                                         *)
(***************************************************************************)
Waiting == IF Running THEN Tail(fifo) ELSE fifo
OnceMore == IF Running THEN <<Head(fifo)>> ELSE <<>>

LEMMA InitRefines == Init => File!Init
<1> SUFFICES ASSUME Init PROVE File!Init
  OBVIOUS
<1>1. 0 \in 0..2 /\ 1 \in 0..2 /\ 2 \in 0..2
  OBVIOUS
<1>2. ~(toggle # ff[0]) /\ ~(ff[0] # ff[1]) /\ ~(ff[1] # ff[2]) /\ ~clearPulse
  BY <1>1, Zenon DEF Init, SyncInit
<1>3. Crossing = 0
  BY <1>2 DEF Crossing, InFlight
<1> QED BY <1>3 DEF Init, SyncInit, File!Init, Running

LEMMA ReceiveRefines ==
    ASSUME ExecInv, NEW c \in Commands, Receive(c)
    PROVE  File!Next
<1> DEFINE cmd == [code |-> c.code, data |-> c.data, seq |-> received']
<1>1. received' = received + 1 /\ UNCHANGED <<regs, resets, arrived>>
  BY DEF Receive, syncVars
<1>6. Crossing' = Crossing
  BY DEF Receive, syncVars, Crossing, InFlight
<1>2. cmd.seq = received + 1
  BY <1>1
<1>3. Len(fifo) \in Nat /\ regs.seq \in Nat /\ regs.seq <= received /\ received \in Nat
  BY FifoFacts DEF ExecInv, Typed
<1>4. CASE Len(fifo) < FifoDepth
  <2>1. fifo' = Append(fifo, cmd) /\ fifo \in Seq(Numbered)
    BY <1>4 DEF Receive, ExecInv, Typed
  <2> HIDE DEF cmd
  <2>2. /\ Head(fifo') = IF fifo = <<>> THEN cmd ELSE Head(fifo)
        /\ Tail(fifo') = IF fifo = <<>> THEN <<>> ELSE Append(Tail(fifo), cmd)
        /\ fifo' # <<>>
    <3>1. cmd \in Numbered
      BY <1>1, <1>3, FifoAssumption DEF Commands, Numbered, cmd
    <3> QED BY <2>1, <3>1, HeadTailAppend, AppendProperties
  <2>3. Running' <=> Running
    BY <1>1, <1>2, <1>3, <2>2 DEF Running
  <2>4. Waiting' = Append(Waiting, cmd)
    BY <2>1, <2>2, <2>3 DEF Waiting, Running
  <2>6. OnceMore' = OnceMore
    <3>1. fifo # <<>> => Head(fifo') = Head(fifo)
      BY <2>2
    <3>2. Running => fifo # <<>>
      BY DEF Running
    <3> QED BY <2>3, <3>1, <3>2 DEF OnceMore
  <2>5. File!Take(c)
    BY <1>1, <1>6, <2>4, <2>6 DEF File!Take, Waiting, OnceMore, cmd
  <2> QED BY <2>5 DEF File!Next
<1>5. CASE ~(Len(fifo) < FifoDepth)
  <2>1. fifo' = fifo
    BY <1>5 DEF Receive
  <2>2. Len(Waiting) >= FifoDepth - 1 /\ Waiting' = Waiting
    BY <1>1, <1>3, <1>5, <2>1, FifoFacts, FifoAssumption DEF Waiting, Running, ExecInv
  <2>4. OnceMore' = OnceMore
    BY <1>1, <2>1 DEF OnceMore, Running
  <2>3. File!Refuse
    BY <1>1, <1>6, <2>2, <2>4 DEF File!Refuse, Waiting, OnceMore
  <2> QED BY <2>3 DEF File!Next
<1> QED BY <1>4, <1>5

LEMMA EthEdgeRefines ==
    ASSUME ExecInv, EthEdge
    PROVE  File!Next \/ UNCHANGED File!vars
<1>1. received' = received /\ resets' = resets /\ SrcEdge(clearPulse) /\ ClearTyped
  BY DEF EthEdge, ExecInv
<1>2. CASE fifo = <<>>
  <2>1. fifo' = fifo /\ regs' = regs /\ clearPulse' = FALSE
    BY <1>2 DEF EthEdge, CmdValid
  <2>2. File!Cross(0) /\ arrived' = arrived
    <3>1. ASSUME NEW k \in {0, 1}, k = 0 PROVE clearPulse' <=> (k = 1)
      BY <2>1, <3>1
    <3> QED BY <1>1, <2>1, <3>1, ClearsCross
  <2>3. File!Cancel
    BY <1>1, <2>1, <2>2 DEF File!Cancel, Running
  <2> QED BY <2>3 DEF File!Next
<1>3. CASE fifo # <<>>
  <2> DEFINE c == Head(fifo)
             n == IF c.code = "CLEAR_ERROR" THEN 1 ELSE 0
  <2>1. /\ c \in Numbered /\ c = fifo[1] /\ Len(fifo) \in Nat \ {0} /\ regs \in Regs
        /\ \A i \in 1..Len(fifo) : fifo[i].seq \in Nat
    BY <1>3, FifoFacts DEF ExecInv, Typed
  <2>2. regs' = Execute(regs, c)
    BY <1>3 DEF EthEdge, CmdValid
  <2>3. regs'.seq = c.seq
    BY <2>1, <2>2, ExecuteType
  <2>7. File!Cross(File!Clears(c)) /\ arrived' = arrived
    <3>1. clearPulse' \in BOOLEAN /\ (clearPulse' <=> (n = 1)) /\ n \in {0, 1}
      <4>1. clearPulse' = (c.code = "CLEAR_ERROR")
        BY <1>3, Zenon DEF EthEdge, CmdValid
      <4> HIDE DEF c
      <4>2. clearPulse' \in BOOLEAN
        BY <4>1, Zenon
      <4>3. c.code = "CLEAR_ERROR" => clearPulse' /\ n = 1
        BY <4>1, Zenon
      <4>4. c.code # "CLEAR_ERROR" => ~clearPulse' /\ n = 0
        BY <4>1, Zenon
      <4> HIDE DEF n
      <4>5. n = 0 => n # 1
        OBVIOUS
      <4> QED BY <4>2, <4>3, <4>4, <4>5, Zenon
    <3>2. File!Clears(c) = n
      BY DEF File!Clears
    <3> HIDE DEF n
    <3> QED BY <1>1, <3>1, <3>2, ClearsCross
  <2>4. Waiting' = Tail(fifo) /\ OnceMore' \in {<<>>, <<c>>} /\ (rdEn => OnceMore' = <<>>)
    <3>1. CASE rdEn
      <4>1. fifo' = Tail(fifo)
        BY <1>3, <3>1 DEF EthEdge
      <4>2. fifo' # <<>> => Head(fifo').seq # c.seq
        BY <1>3, <2>1, <4>1, TailKeepsOrder DEF ExecInv, Ascending
      <4> QED BY <2>3, <4>1, <4>2 DEF Waiting, OnceMore, Running
    <3>2. CASE ~rdEn
      <4>1. fifo' = fifo
        BY <3>2 DEF EthEdge
      <4> QED BY <1>3, <2>3, <3>2, <4>1 DEF Waiting, OnceMore, Running
    <3> QED BY <3>1, <3>2 DEF ExecInv, Typed
  <2>5. CASE Running
    <3>1. regs' = regs /\ Waiting = Tail(fifo) /\ rdEn
      BY <2>2, <2>5 DEF ExecInv, Again, Waiting
    <3>2. OnceMore = <<c>> /\ OnceMore' = <<>> /\ OnceMore # <<>> /\ Head(OnceMore) = c
      BY <2>4, <2>5, <3>1 DEF OnceMore
    <3> HIDE DEF c
    <3>3. File!RunAgain
      BY <1>1, <2>4, <2>7, <3>1, <3>2 DEF File!RunAgain, Waiting, OnceMore
    <3> QED BY <3>3 DEF File!Next
  <2>6. CASE ~Running
    <3>1. Waiting = fifo /\ OnceMore = <<>>
      BY <2>6 DEF Waiting, OnceMore
    <3>2. File!Ran(c)
      <4> HIDE DEF c
      <4> QED BY <2>1, <2>2, ExecuteRan
    <3>3. File!RunNext
      BY <1>1, <1>3, <2>4, <2>7, <3>1, <3>2 DEF File!RunNext, Waiting, OnceMore
    <3> QED BY <3>3 DEF File!Next
  <2> QED BY <2>5, <2>6
<1> QED BY <1>2, <1>3

LEMMA CamEdgeRefines ==
    ASSUME ExecInv, CamEdge
    PROVE  File!Next \/ UNCHANGED File!vars
<1>1. UNCHANGED <<fifo, regs, received, resets, clearPulse>> /\ DstEdge /\ ClearTyped
  BY DEF CamEdge, execVars, ExecInv
<1>2. CASE Crossing' = Crossing /\ arrived' = arrived
  BY <1>1, <1>2 DEF File!vars, Running
<1>3. CASE Crossing > 0 /\ Crossing' = Crossing - 1 /\ arrived' = arrived + 1
  <2>1. File!Arrive
    BY <1>1, <1>3 DEF File!Arrive, Running
  <2> QED BY <2>1 DEF File!Next
<1> QED BY <1>1, <1>2, <1>3, ClearsArrive

LEMMA ResetRefines ==
    ASSUME ExecInv, RxLost \/ EthLost \/ Button
    PROVE  File!Next
<1>1. /\ fifo' = <<>> /\ received' = received /\ resets' = resets + 1
      /\ regs' \in {regs, ResetRegs}
  BY DEF RxLost, EthLost, Button, FifoReset
<1>3. Crossing' \in 0..(Crossing + 1) /\ arrived' = arrived
  BY ClearsReset DEF ExecInv
<1>2. File!Reset
  BY <1>1, <1>3 DEF File!Reset, Running
<1> QED BY <1>2 DEF File!Next

\* The FPGA runs every command it took, in order and as a whole, between any resets; the
\* registers are as if each had run once.  The camera sees a clear for each execution of a
\* CLEAR_ERROR, of which there may be two, less pairs that cancel each other
\* (cmd_async_fifo, cmd_fifo_rd_en, vision_reg_bank, pulse_sync_toggle).
THEOREM CommandsRunInOrder == Spec => ExecutesCommands
<1>1. Init => ExecInv
  BY InitInv
<1>2. ExecInv /\ [Next]_vars => ExecInv'
  BY NextInv
<1>3. ExecInv /\ [Next]_vars => [File!Next]_(File!vars)
  <2> SUFFICES ASSUME ExecInv, [Next]_vars PROVE File!Next \/ UNCHANGED File!vars
    OBVIOUS
  <2>1. CASE UNCHANGED vars
    BY <2>1 DEF vars, syncVars, execVars, File!vars, Running, Crossing, InFlight
  <2> QED BY <2>1, CamEdgeRefines, ReceiveRefines, EthEdgeRefines, ResetRefines DEF Next
<1>4. Init => File!Init
  BY InitRefines
<1> QED BY <1>1, <1>2, <1>3, <1>4, PTL DEF Spec, ExecutesCommands, File!Spec

-----------------------------------------------------------------------------
(***************************************************************************)
(* The threads that send parameter sets.                                   *)
(***************************************************************************)
USE RegsAssumption, WidthAssumption

LEMMA RemoveAtProperties ==
    ASSUME NEW S, NEW s \in Seq(S), NEW i \in 1..Len(s)
    PROVE  /\ RemoveAt(s, i) \in Seq(S)
           /\ Len(RemoveAt(s, i)) = Len(s) - 1
           /\ \A j \in 1..(Len(s) - 1) :
                  RemoveAt(s, i)[j] = IF j < i THEN s[j] ELSE s[j + 1]
<1> DEFINE a == SubSeq(s, 1, i - 1)
           b == SubSeq(s, i + 1, Len(s))
<1>0. Len(s) \in Nat /\ i \in Nat /\ \A k \in 1..Len(s) : s[k] \in S
  OBVIOUS
<1>1. a \in Seq(S) /\ Len(a) = i - 1 /\ \A k \in 1..(i - 1) : a[k] = s[k]
  <2>1. \A k \in 1..(i - 1) : s[k] \in S
    BY <1>0
  <2>2. /\ a \in Seq(S)
        /\ Len(a) = IF 1 <= i - 1 THEN (i - 1) - 1 + 1 ELSE 0
        /\ \A k \in 1..((i - 1) - 1 + 1) : a[k] = s[1 + k - 1]
    BY <1>0, <2>1, SubSeqProperties
  <2> HIDE DEF a
  <2> QED
    BY <1>0, <2>2
<1>2. b \in Seq(S) /\ Len(b) = Len(s) - i /\ \A k \in 1..(Len(s) - i) : b[k] = s[i + k]
  <2>1. \A k \in (i + 1)..Len(s) : s[k] \in S
    BY <1>0
  <2>2. /\ b \in Seq(S)
        /\ Len(b) = IF i + 1 <= Len(s) THEN Len(s) - (i + 1) + 1 ELSE 0
        /\ \A k \in 1..(Len(s) - (i + 1) + 1) : b[k] = s[(i + 1) + k - 1]
    BY <1>0, <2>1, SubSeqProperties
  <2> HIDE DEF b
  <2> QED
    BY <1>0, <2>2
<1> HIDE DEF a, b
<1>3. /\ a \o b \in Seq(S)
      /\ Len(a \o b) = Len(a) + Len(b)
      /\ \A j \in 1..(Len(a) + Len(b)) :
             (a \o b)[j] = IF j <= Len(a) THEN a[j] ELSE b[j - Len(a)]
  BY <1>1, <1>2, ConcatProperties
<1>4. RemoveAt(s, i) = a \o b
  BY DEF RemoveAt, a, b
<1>5. \A j \in 1..(Len(s) - 1) : (a \o b)[j] = IF j < i THEN s[j] ELSE s[j + 1]
  <2> SUFFICES ASSUME NEW j \in 1..(Len(s) - 1)
               PROVE  (a \o b)[j] = IF j < i THEN s[j] ELSE s[j + 1]
    OBVIOUS
  <2>1. CASE j < i
    BY <1>0, <1>1, <1>2, <1>3, <2>1
  <2>2. CASE ~(j < i)
    <3>1. j - (i - 1) \in 1..(Len(s) - i) /\ i + (j - (i - 1)) = j + 1
      BY <1>0, <2>2
    <3>2. b[j - (i - 1)] = s[j + 1]
      BY <1>2, <3>1
    <3> QED
      BY <1>0, <1>1, <1>2, <1>3, <2>2, <3>2
  <2> QED
    BY <2>1, <2>2
<1>6. Len(a) + Len(b) = Len(s) - 1
  BY <1>0, <1>1, <1>2
<1> QED
  BY <1>3, <1>4, <1>5, <1>6

-----------------------------------------------------------------------------
LEMMA JobKinds ==
    ASSUME IssueTypeOK, NEW t \in Threads
    PROVE  /\ job[t] \in Jobs
           /\ job[t].op = "apply" => /\ job[t].set \in Sets /\ job[t].next \in 1..(NRegs + 1)
                                     /\ job[t] = [op |-> "apply", set |-> job[t].set,
                                                  next |-> job[t].next]
           /\ job[t].op = "poke" => job[t].reg \in Params /\ job[t].val \in Values
BY DEF IssueTypeOK, Jobs, Simple, NoJob

\* What send_command_packet writes is a register and a value for it.
LEMMA WriteType ==
    ASSUME IssueTypeOK, NEW t \in Threads, MoreToSend(t) \/ job[t].op = "poke"
    PROVE  Write(t) \in Params \X Values
<1>1. CASE job[t].op = "poke"
  BY <1>1, JobKinds DEF Write
<1>2. CASE MoreToSend(t)
  <2>0. job[t].op = "apply" /\ job[t].next <= NRegs
    BY <1>2 DEF MoreToSend
  <2>1. job[t].next \in 1..(NRegs + 1) /\ job[t].set \in Sets
    BY <2>0, JobKinds
  <2>2. job[t].next \in Params /\ job[t].op # "poke"
    BY <2>0, <2>1, NRegs \in Nat DEF Params
  <2>3. job[t].set[job[t].next] \in Values
    BY <2>1, <2>2 DEF Sets
  <2> QED
    BY <2>2, <2>3 DEF Write
<1> QED
  BY <1>1, <1>2

LEMMA AdvanceType ==
    ASSUME IssueTypeOK, NEW t \in Threads, MoreToSend(t) \/ job[t].op = "poke"
    PROVE  Advance(t) \in Jobs
<1>1. CASE job[t].op = "apply"
  <2>0. job[t].next <= NRegs
    BY <1>1 DEF MoreToSend
  <2>1. job[t].next \in 1..(NRegs + 1) /\ job[t].set \in Sets
    BY <1>1, JobKinds
  <2>3. job[t].next + 1 \in 1..(NRegs + 1)
    BY <2>0, <2>1, NRegs \in Nat
  <2>2. Advance(t) = [op |-> "apply", set |-> job[t].set, next |-> job[t].next + 1]
    <3>1. job[t] = [op |-> "apply", set |-> job[t].set, next |-> job[t].next]
      BY <1>1, JobKinds
    <3>2. Advance(t) = [job[t] EXCEPT !.next = job[t].next + 1]
      BY <1>1 DEF Advance
    <3> QED
      BY <3>1, <3>2
  <2> QED
    BY <2>1, <2>2, <2>3 DEF Jobs
<1>2. CASE job[t].op # "apply"
  BY <1>2 DEF Advance, Jobs
<1> QED
  BY <1>1, <1>2

-----------------------------------------------------------------------------
LEMMA InitType == IssueInit => IssueTypeOK
<1> SUFFICES ASSUME IssueInit PROVE IssueTypeOK
  OBVIOUS
<1>1. NoJob \in Jobs /\ <<>> \in Seq(Params \X Values)
  BY DEF Jobs
<1>2. Uniform(Default) \in Sets /\ Uniform(NotYet) \in [Params -> Values \cup {NotYet}]
      /\ Uniform(ResetValue) \in [Params -> 0..(RegRange - 1)]
  BY DEF Uniform, Sets
<1> QED
  BY <1>1, <1>2 DEF IssueInit, IssueTypeOK

LEMMA NextType == IssueTypeOK /\ IssueNext => IssueTypeOK'
<1> SUFFICES ASSUME IssueTypeOK, IssueNext PROVE IssueTypeOK'
  OBVIOUS
<1>0. NoJob \in Jobs /\ Simple \in Jobs /\ Uniform(Default) \in Sets
  BY DEF Jobs, Uniform, Sets
<1>1. \A x \in Sets : Apply(x) \in Jobs
  BY DEF Apply, Jobs
<1>2. CASE StartStep
  BY <1>0, <1>1, <1>2 DEF StartStep, IssueTypeOK, Threads
<1>3. ASSUME NEW j \in Requests, HttpRequest(j) PROVE IssueTypeOK'
  <2>1. j \in Jobs
    BY <1>0, <1>1 DEF Requests, Poke, Jobs
  <2> QED
    BY <1>3, <2>1 DEF HttpRequest, IssueTypeOK, Threads
<1>4. ASSUME NEW t \in Threads, SendRegister(t) PROVE IssueTypeOK'
  <2>1. Write(t) \in Params \X Values /\ Advance(t) \in Jobs
    BY <1>4, WriteType, AdvanceType DEF SendRegister
  <2>2. Write(t)[1] \in Params /\ Write(t)[2] \in Values
    BY <2>1
  <2>3. net' \in Seq(Params \X Values)
    BY <1>4, <2>1, AppendProperties DEF SendRegister, IssueTypeOK
  <2> QED
    BY <1>4, <2>1, <2>2, <2>3 DEF SendRegister, IssueTypeOK
<1>5. ASSUME NEW t \in Threads, SendSimple(t) PROVE IssueTypeOK'
  BY <1>0, <1>5 DEF SendSimple, IssueTypeOK, history
<1>6. ASSUME NEW t \in Threads, SendFails(t) PROVE IssueTypeOK'
  BY <1>0, <1>6 DEF SendFails, IssueTypeOK
<1>7. ASSUME NEW t \in Threads, UpdateMirror(t) PROVE IssueTypeOK'
  <2>1. job[t].set \in Sets
    BY <1>7, JobKinds DEF UpdateMirror
  <2> QED
    BY <1>0, <1>7, <2>1 DEF UpdateMirror, MirrorAfter, IssueTypeOK
<1>8. CASE Crash
  BY <1>0, <1>8 DEF Crash, IssueTypeOK
<1>9. CASE Deliver
  <2>1. Head(net) \in Params \X Values /\ Tail(net) \in Seq(Params \X Values)
    BY <1>9, HeadTailProperties DEF Deliver, IssueTypeOK
  <2>2. Written(Head(net)) \in 0..(RegRange - 1)
    <3>1. Head(net)[2] \in Nat
      BY <2>1
    <3> QED BY <3>1 DEF Written
  <2> QED
    BY <1>9, <2>1, <2>2 DEF Deliver, IssueTypeOK, history
<1>10. ASSUME NEW i \in 1..Len(net), Lose(i) PROVE IssueTypeOK'
  <2>1. net' \in Seq(Params \X Values)
    BY <1>10, RemoveAtProperties DEF Lose, IssueTypeOK
  <2>2. net[i][1] \in Params
    BY <1>10 DEF IssueTypeOK
  <2>3. lost' \subseteq Params
    BY <1>10, <2>2 DEF Lose, IssueTypeOK
  <2> QED
    BY <1>10, <2>1, <2>3 DEF Lose, IssueTypeOK
<1>11. CASE FpgaReset
  <2>1. Uniform(ResetValue) \in [Params -> 0..(RegRange - 1)]
    BY DEF Uniform
  <2> QED BY <1>11, <2>1 DEF FpgaReset, IssueTypeOK
<1> QED
  BY <1>2, <1>3, <1>4, <1>5, <1>6, <1>7, <1>8, <1>9, <1>10, <1>11 DEF IssueNext, ThreadStep

\* The types are right, whatever fails, is lost or restarts.
THEOREM IssueTypeCorrect == IssueSpec => []IssueTypeOK
<1>1. IssueTypeOK /\ [IssueNext]_issueVars => IssueTypeOK'
  <2> SUFFICES ASSUME IssueTypeOK, UNCHANGED issueVars PROVE IssueTypeOK'
    BY NextType
  <2> QED
    BY DEF issueVars, history, IssueTypeOK
<1> QED
  BY InitType, <1>1, PTL DEF IssueSpec

-----------------------------------------------------------------------------
LEMMA PairParts ==
    ASSUME NEW S, NEW T, NEW w \in S \X T
    PROVE  w = <<w[1], w[2]>> /\ w[1] \in S /\ w[2] \in T
OBVIOUS

\* A register holds a value it can hold, the one sent if that is one.
LEMMA WrittenFits ==
    ASSUME NEW r \in Params, NEW v \in Nat
    PROVE  /\ Written(<<r, v>>) \in Fits(r)
           /\ v \in Fits(r) => Written(<<r, v>>) = v
<1>1. v % RegRange \in 0..(RegRange - 1) /\ (v < RegRange => v % RegRange = v)
  OBVIOUS
<1> DEFINE q == v % RegRange
<1>2. Written(<<r, v>>) = IF r \in OneAtLeast /\ q = 0 THEN 1 ELSE q
  BY DEF Written
<1> HIDE DEF q
<1>3. q \in 0..(RegRange - 1) /\ (v < RegRange => q = v)
  BY <1>1 DEF q
<1> QED BY <1>2, <1>3 DEF Fits

LEMMA FollowSend ==
    ASSUME FollowInv, NEW t \in Threads, SendRegister(t), NEW r \in Params \ lost'
    PROVE  Follows(r)'
<1> DEFINE w == Write(t)
<1>1. w \in Params \X Values /\ net \in Seq(Params \X Values) /\ Len(net) \in Nat
  BY WriteType DEF FollowInv, IssueTypeOK, SendRegister
<1>2. /\ net' = Append(net, w) /\ registers' = registers
      /\ issued' = [issued EXCEPT ![w[1]] = w[2]]
      /\ lost' = lost \ {w[1]}
  BY DEF SendRegister
<1>3. issued \in [Params -> Values \cup {NotYet}]
  BY DEF FollowInv, IssueTypeOK
<1> HIDE DEF w
<1>4. /\ Len(net') = Len(net) + 1 /\ net'[Len(net) + 1] = w
      /\ \A i \in 1..Len(net) : net'[i] = net[i]
  BY <1>1, <1>2, AppendProperties
<1>5. CASE r = w[1]
  <2>1. w = <<r, issued'[r]>>
    BY <1>1, <1>2, <1>3, <1>5
  <2>2. PICK n \in Nat : n = Len(net) + 1
    BY <1>1
  <2>3. n \in 1..Len(net') /\ (n + 1)..Len(net') = {} /\ net'[n] = <<r, issued'[r]>>
    BY <1>1, <1>4, <2>1, <2>2
  <2>4. NoneFrom(r, n + 1)'
    BY <2>3 DEF NoneFrom
  <2> QED
    BY <2>3, <2>4 DEF Follows
<1>6. CASE r # w[1]
  <2>1. r \in Params \ lost /\ issued'[r] = issued[r] /\ Follows(r)
    BY <1>2, <1>3, <1>6 DEF FollowInv
  <2>2. ASSUME NEW k \in 1..(Len(net) + 1), NoneFrom(r, k) PROVE NoneFrom(r, k)'
    <3> SUFFICES ASSUME NEW j \in k..Len(net') PROVE net'[j][1] # r
      BY DEF NoneFrom
    <3>1. CASE j = Len(net) + 1
      BY <1>4, <1>6, <3>1
    <3>2. CASE j # Len(net) + 1
      <4>1. j \in k..Len(net) /\ j \in 1..Len(net)
        BY <1>1, <1>4, <3>2
      <4> QED
        BY <1>4, <2>2, <4>1 DEF NoneFrom
    <3> QED
      BY <3>1, <3>2
  <2>3. CASE Holds(r) /\ NoneFrom(r, 1)
    <3>1. 1 \in 1..(Len(net) + 1)
      BY <1>1
    <3> QED
      BY <1>2, <2>1, <2>2, <2>3, <3>1 DEF Follows, Holds, Fits
  <2>4. ASSUME NEW i \in 1..Len(net), net[i] = <<r, issued[r]>>, NoneFrom(r, i + 1)
        PROVE  Follows(r)'
    <3>1. i + 1 \in 1..(Len(net) + 1) /\ i \in 1..Len(net')
      BY <1>1, <1>4
    <3>2. NoneFrom(r, i + 1)' /\ net'[i] = <<r, issued'[r]>>
      BY <1>4, <2>1, <2>2, <2>4, <3>1
    <3> QED
      BY <3>1, <3>2 DEF Follows
  <2> QED
    BY <2>1, <2>3, <2>4 DEF Follows
<1> QED
  BY <1>5, <1>6

LEMMA FollowDeliver ==
    ASSUME FollowInv, Deliver, NEW r \in Params \ lost
    PROVE  Follows(r)'
<1> DEFINE w == Head(net)
<1>1. /\ net \in Seq(Params \X Values) /\ net # <<>> /\ Len(net) \in Nat /\ 1 \in 1..Len(net)
      /\ w = net[1] /\ w \in Params \X Values
  BY HeadTailProperties DEF Deliver, FollowInv, IssueTypeOK
<1>2. /\ net' = Tail(net) /\ issued' = issued
      /\ registers' = [registers EXCEPT ![w[1]] = Written(w)]
  BY DEF Deliver, history
<1> HIDE DEF w
<1>3. Len(net') = Len(net) - 1 /\ \A i \in 1..Len(net') : net'[i] = net[i + 1]
  BY <1>1, <1>2, HeadTailProperties
<1>4. registers \in [Params -> 0..(RegRange - 1)]
  BY DEF FollowInv, IssueTypeOK
<1>5. ASSUME NEW k \in 1..(Len(net) + 1), k > 1, NoneFrom(r, k) PROVE NoneFrom(r, k - 1)'
  <2> SUFFICES ASSUME NEW j \in (k - 1)..Len(net') PROVE net'[j][1] # r
    BY DEF NoneFrom
  <2>1. j \in 1..Len(net') /\ j + 1 \in k..Len(net)
    BY <1>1, <1>3, <1>5
  <2> QED
    BY <1>3, <1>5, <2>1 DEF NoneFrom
<1>6. CASE Holds(r) /\ NoneFrom(r, 1)
  <2>1. w[1] # r
    BY <1>1, <1>6 DEF NoneFrom
  <2>2. Holds(r)'
    <3>1. registers'[r] = registers[r]
      BY <1>2, <1>4, <2>1
    <3> QED BY <1>2, <1>6, <3>1 DEF Holds, Fits
  <2>3. NoneFrom(r, 2)
    <3>1. \A j \in 2..Len(net) : j \in 1..Len(net)
      BY <1>1
    <3> QED
      BY <1>6, <3>1 DEF NoneFrom
  <2>4. NoneFrom(r, 1)'
    <3>1. 2 \in 1..(Len(net) + 1) /\ 2 > 1 /\ 2 - 1 = 1
      BY <1>1
    <3>2. NoneFrom(r, 2 - 1)'
      BY <1>5, <2>3, <3>1
    <3> QED
      BY <3>1, <3>2
  <2> QED
    BY <2>2, <2>4 DEF Follows
<1>7. ASSUME NEW i \in 1..Len(net), net[i] = <<r, issued[r]>>, NoneFrom(r, i + 1)
      PROVE  Follows(r)'
  <2>1. i + 1 \in 1..(Len(net) + 1) /\ i + 1 > 1 /\ (i + 1) - 1 = i
    BY <1>1
  <2>2. NoneFrom(r, (i + 1) - 1)'
    BY <1>5, <1>7, <2>1
  <2>3. CASE i = 1
    <3>1. w[1] = r /\ w[2] = issued[r]
      BY <1>1, <1>7, <2>3
    <3>2. Holds(r)'
      <4>1. w = <<r, issued[r]>> /\ issued[r] \in Nat
        <5>1. w = <<w[1], w[2]>> /\ w[2] \in Values
          BY <1>1, PairParts, Zenon
        <5> QED BY <3>1, <5>1
      <4>2. registers'[r] = Written(w)
        BY <1>2, <1>4, <3>1
      <4>3. issued[r] \in Fits(r) => registers'[r] = issued[r]
        BY <4>1, <4>2, WrittenFits
      <4> QED BY <1>2, <4>3 DEF Holds, Fits
    <3> QED
      BY <2>1, <2>2, <2>3, <3>2 DEF Follows
  <2>4. CASE i # 1
    <3>1. i - 1 \in 1..Len(net') /\ (i - 1) + 1 = i
      BY <1>1, <1>3, <2>4
    <3>2. net'[i - 1] = <<r, issued'[r]>>
      BY <1>2, <1>3, <1>7, <3>1
    <3>3. NoneFrom(r, (i - 1) + 1)'
      BY <2>1, <2>2, <3>1
    <3> QED
      BY <3>1, <3>2, <3>3 DEF Follows
  <2> QED
    BY <2>3, <2>4
<1> QED
  BY <1>6, <1>7 DEF FollowInv, Follows

\* A loss of the last write of a register is a loss of the register.
LEMMA FollowLose ==
    ASSUME FollowInv, NEW k \in 1..Len(net), Lose(k), NEW r \in Params \ lost'
    PROVE  Follows(r)'
<1>1. net \in Seq(Params \X Values) /\ Len(net) \in Nat
  BY DEF FollowInv, IssueTypeOK
<1>2. net' = RemoveAt(net, k) /\ registers' = registers /\ issued' = issued
  BY DEF Lose
<1>3. /\ Len(net') = Len(net) - 1
      /\ \A j \in 1..Len(net') : net'[j] = IF j < k THEN net[j] ELSE net[j + 1]
  BY <1>1, <1>2, RemoveAtProperties
<1>4. r \notin lost /\ (net[k][1] = r => \E j \in (k + 1)..Len(net) : net[j][1] = r)
  BY DEF Lose
<1>5. \A j \in 1..Len(net') : j \in 1..Len(net) /\ j + 1 \in 1..Len(net)
  BY <1>1, <1>3
<1>6. CASE Holds(r) /\ NoneFrom(r, 1)
  <2>1. \A j \in 1..Len(net') : net'[j][1] # r
    BY <1>3, <1>5, <1>6 DEF NoneFrom
  <2> QED
    BY <1>2, <1>6, <2>1 DEF Follows, NoneFrom, Holds, Fits
<1>7. ASSUME NEW i \in 1..Len(net), net[i] = <<r, issued[r]>>, NoneFrom(r, i + 1)
      PROVE  Follows(r)'
  <2>1. i # k
    <3>1. net[i][1] = r
      BY <1>7
    <3> QED
      BY <1>4, <1>7, <3>1 DEF NoneFrom
  <2>2. CASE i < k
    <3>1. i \in 1..Len(net') /\ net'[i] = net[i]
      BY <1>1, <1>3, <2>2
    <3>2. NoneFrom(r, i + 1)'
      <4> SUFFICES ASSUME NEW j \in (i + 1)..Len(net') PROVE net'[j][1] # r
        BY DEF NoneFrom
      <4>1. j \in 1..Len(net') /\ j \in (i + 1)..Len(net) /\ j + 1 \in (i + 1)..Len(net)
        BY <1>1, <1>3
      <4> QED
        BY <1>3, <1>7, <4>1 DEF NoneFrom
    <3> QED
      BY <1>2, <1>7, <3>1, <3>2 DEF Follows
  <2>3. CASE i > k
    <3>1. i - 1 \in 1..Len(net') /\ ~(i - 1 < k) /\ (i - 1) + 1 = i
      BY <1>1, <1>3, <2>3
    <3>2. net'[i - 1] = <<r, issued'[r]>>
      BY <1>2, <1>3, <1>7, <3>1
    <3>3. NoneFrom(r, (i - 1) + 1)'
      <4> SUFFICES ASSUME NEW j \in ((i - 1) + 1)..Len(net') PROVE net'[j][1] # r
        BY DEF NoneFrom
      <4>1. j \in 1..Len(net') /\ ~(j < k) /\ j + 1 \in (i + 1)..Len(net)
        BY <1>1, <1>3, <2>3
      <4> QED
        BY <1>3, <1>7, <4>1 DEF NoneFrom
    <3> QED
      BY <3>1, <3>2, <3>3 DEF Follows
  <2> QED
    BY <1>1, <2>1, <2>2, <2>3
<1> QED
  BY <1>4, <1>6, <1>7 DEF FollowInv, Follows

\* A reset undoes the writes that nothing in the network will repeat.
LEMMA FollowReset ==
    ASSUME FollowInv, FpgaReset, NEW r \in Params \ lost'
    PROVE  Follows(r)'
<1>1. r \notin lost /\ ~NoneFrom(r, 1)
  BY DEF FpgaReset
<1>2. net' = net /\ issued' = issued
  BY DEF FpgaReset
<1>3. PICK i \in 1..Len(net) : net[i] = <<r, issued[r]>> /\ NoneFrom(r, i + 1)
  BY <1>1 DEF FollowInv, Follows
<1>4. NoneFrom(r, i + 1)'
  BY <1>2, <1>3 DEF NoneFrom
<1> QED BY <1>2, <1>3, <1>4 DEF Follows

\* Every register holds a value it can hold.
LEMMA RegistersFit ==
    ASSUME FollowInv, [IssueNext]_issueVars
    PROVE  \A r \in Params : registers'[r] \in Fits(r)
<1>1. CASE registers' = registers
  BY <1>1 DEF FollowInv
<1>2. CASE FpgaReset
  <2>1. \A r \in Params : registers'[r] = ResetValue
    BY <1>2 DEF FpgaReset, Uniform
  <2> QED BY <2>1 DEF Fits
<1>3. CASE Deliver
  <2> DEFINE w == Head(net)
  <2>1. w \in Params \X Values
    BY <1>3, HeadTailProperties DEF Deliver, FollowInv, IssueTypeOK
  <2>2. registers' = [registers EXCEPT ![w[1]] = Written(w)]
    BY <1>3 DEF Deliver
  <2> HIDE DEF w
  <2>3. w = <<w[1], w[2]>> /\ w[1] \in Params /\ w[2] \in Nat
    <3>1. w = <<w[1], w[2]>> /\ w[1] \in Params /\ w[2] \in Values
      BY <2>1, PairParts, Zenon
    <3> QED BY <3>1
  <2>4. Written(w) \in Fits(w[1])
    BY <2>3, WrittenFits
  <2> QED BY <2>2, <2>3, <2>4 DEF FollowInv, IssueTypeOK
<1> QED BY <1>1, <1>2, <1>3
    DEF IssueNext, ThreadStep, StartStep, HttpRequest, SendRegister, SendSimple, SendFails,
        UpdateMirror, Crash, Lose, issueVars

LEMMA FollowStep == FollowInv /\ [IssueNext]_issueVars => FollowInv'
<1> SUFFICES ASSUME FollowInv, [IssueNext]_issueVars PROVE FollowInv'
  OBVIOUS
<1>1. IssueTypeOK'
  BY NextType DEF FollowInv, IssueTypeOK, issueVars, history
<1>8. \A r \in Params : registers'[r] \in Fits(r)'
  BY RegistersFit DEF Fits
<1>2. ASSUME UNCHANGED <<net, registers, issued, lost>> PROVE FollowInv'
  <2>1. \A r \in Params \ lost : Follows(r)
    BY DEF FollowInv
  <2>2. net' = net /\ registers' = registers /\ issued' = issued /\ lost' = lost
    BY <1>2
  <2>3. \A r \in Params : Follows(r) => Follows(r)'
    <3> SUFFICES ASSUME NEW r \in Params PROVE Follows(r) => Follows(r)'
      OBVIOUS
    <3>1. \A i : NoneFrom(r, i)' <=> NoneFrom(r, i)
      BY <2>2 DEF NoneFrom
    <3> QED BY <2>2, <3>1 DEF Follows, Holds, Fits
  <2> QED BY <1>1, <1>8, <2>1, <2>2, <2>3 DEF FollowInv
<1>3. ASSUME NEW t \in Threads, ThreadStep(t) PROVE FollowInv'
  <2>1. CASE SendRegister(t)
    BY <1>1, <1>8, <2>1, FollowSend DEF FollowInv
  <2>2. CASE ~SendRegister(t)
    BY <1>2, <1>3, <2>2 DEF ThreadStep, SendSimple, SendFails, UpdateMirror, history
  <2> QED
    BY <2>1, <2>2
<1>4. CASE Deliver
  <2>1. lost' = lost
    BY <1>4 DEF Deliver, history
  <2> QED
    BY <1>1, <1>8, <1>4, <2>1, FollowDeliver DEF FollowInv
<1>5. ASSUME NEW i \in 1..Len(net), Lose(i) PROVE FollowInv'
  BY <1>1, <1>8, <1>5, FollowLose DEF FollowInv
<1>6. CASE StartStep \/ (\E j \in Requests : HttpRequest(j)) \/ Crash \/ UNCHANGED issueVars
  BY <1>2, <1>6 DEF StartStep, HttpRequest, Crash, issueVars, history
<1>7. CASE FpgaReset
  BY <1>1, <1>8, <1>7, FollowReset DEF FollowInv
<1> QED
  BY <1>3, <1>4, <1>5, <1>6, <1>7 DEF IssueNext

\* Once everything sent has arrived, each register of the FPGA that was not reset since
\* holds the value sent last, unless that one was lost or does not fit the register; and no
\* register ever holds a value it must not: for any number of registers, any widths, values,
\* requests, failures, resets and restarts.
THEOREM RegistersFollowTheLastWrite == IssueSpec => []RegistersFollow
<1>1. IssueInit => FollowInv
  <2> SUFFICES ASSUME IssueInit PROVE FollowInv
    OBVIOUS
  <2>1. Params \ lost = {} /\ \A r \in Params : registers[r] = ResetValue
    BY DEF IssueInit, Uniform
  <2> QED
    BY <2>1, InitType DEF FollowInv, Fits
<1>2. FollowInv => RegistersFollow
  <2> SUFFICES ASSUME FollowInv, net = <<>>, NEW r \in Params \ lost PROVE Holds(r)
    BY DEF RegistersFollow, FollowInv
  <2>1. 1..Len(net) = {}
    OBVIOUS
  <2> QED
    BY <2>1 DEF FollowInv, Follows
<1> QED
  BY <1>1, <1>2, FollowStep, PTL DEF IssueSpec

-----------------------------------------------------------------------------
LEMMA MirrorSend ==
    ASSUME MirrorInv, IssueTypeOK', NEW t \in Threads, SendRegister(t)
    PROVE  MirrorInv'
<1>1. /\ job \in [Threads -> Jobs] /\ issued \in [Params -> Values \cup {NotYet}]
      /\ job' = [job EXCEPT ![t] = Advance(t)]
      /\ issued' = [issued EXCEPT ![Write(t)[1]] = Write(t)[2]]
      /\ alone' = alone \cap {t} /\ ~agreed'
  BY DEF MirrorInv, IssueTypeOK, SendRegister
<1>2. ASSUME t \in alone PROVE OwnPart(t)'
  <2>1. OwnPart(t) /\ job[t].op = "apply"
    BY <1>2 DEF MirrorInv, OwnPart
  <2>2. job[t].set \in Sets /\ job[t].next \in 1..(NRegs + 1) /\ job[t].next <= NRegs
    BY <2>1, JobKinds DEF MirrorInv, SendRegister, MoreToSend
  <2>3. job[t] = [op |-> "apply", set |-> job[t].set, next |-> job[t].next]
    BY <2>1, JobKinds DEF MirrorInv
  <2>4. job'[t] = [op |-> "apply", set |-> job[t].set, next |-> job[t].next + 1]
    <3>1. job'[t] = [job[t] EXCEPT !.next = job[t].next + 1]
      BY <1>1, <2>1 DEF Advance
    <3> QED
      BY <2>3, <3>1
  <2>5. Write(t) = <<job[t].next, job[t].set[job[t].next]>>
    BY <2>1 DEF Write
  <2>6. job[t].next \in Params
    BY <2>2, NRegs \in Nat DEF Params
  <2>7. ASSUME NEW r \in 1..(job'[t].next - 1) PROVE issued'[r] = job'[t].set[r]
    <3>1. r \in Params /\ (r = job[t].next \/ r \in 1..(job[t].next - 1))
      BY <2>2, <2>4, NRegs \in Nat DEF Params
    <3>2. CASE r = job[t].next
      BY <1>1, <2>4, <2>5, <2>6, <3>2
    <3>3. CASE r # job[t].next
      <4>1. issued'[r] = issued[r]
        BY <1>1, <2>5, <3>1, <3>3
      <4> QED
        BY <2>1, <2>4, <3>1, <3>3, <4>1 DEF OwnPart
    <3> QED
      BY <3>2, <3>3
  <2> QED
    BY <2>4, <2>7 DEF OwnPart
<1> QED
  BY <1>1, <1>2 DEF MirrorInv

\* The last register has been sent: what was issued is the whole set.
LEMMA MirrorUpdate ==
    ASSUME MirrorInv, IssueTypeOK', NEW t \in Threads, UpdateMirror(t)
    PROVE  MirrorInv'
<1>1. mirror' = job[t].set /\ issued' = issued /\ alone' = {} /\ agreed' = (t \in alone)
  BY DEF UpdateMirror, MirrorAfter
<1>2. ASSUME t \in alone PROVE issued = job[t].set
  <2>1. OwnPart(t) /\ ~(job[t].next <= NRegs)
    BY <1>2 DEF MirrorInv, UpdateMirror, MoreToSend
  <2>2. job[t].set \in Sets /\ job[t].next \in 1..(NRegs + 1)
    BY <2>1, JobKinds DEF MirrorInv, OwnPart
  <2>3. 1..(job[t].next - 1) = Params
    BY <2>1, <2>2, NRegs \in Nat DEF Params
  <2>4. \A r \in Params : issued[r] = job[t].set[r]
    BY <2>1, <2>3 DEF OwnPart
  <2>5. job[t].set \in [Params -> Values] /\ issued \in [Params -> Values \cup {NotYet}]
    BY <2>2 DEF Sets, MirrorInv, IssueTypeOK
  <2> QED
    BY <2>4, <2>5
<1> QED
  BY <1>1, <1>2 DEF MirrorInv

LEMMA MirrorStep == MirrorInv /\ [IssueNext]_issueVars => MirrorInv'
<1> SUFFICES ASSUME MirrorInv, [IssueNext]_issueVars PROVE MirrorInv'
  OBVIOUS
<1>0. IssueTypeOK' /\ IssueTypeOK /\ job \in [Threads -> Jobs]
  BY NextType DEF MirrorInv, IssueTypeOK, issueVars, history
\* A thread whose job stays, or begins with a set of its own, keeps its part.
<1>1. ASSUME UNCHANGED <<issued, mirror>>, agreed' => agreed,
             \A t \in alone' : /\ job'[t].op = "apply"
                               /\ (t \in alone /\ job'[t] = job[t]) \/ job'[t].next = 1
      PROVE  MirrorInv'
  <2> SUFFICES ASSUME NEW t \in alone' PROVE OwnPart(t)'
    BY <1>0, <1>1 DEF MirrorInv
  <2>1. CASE t \in alone /\ job'[t] = job[t]
    BY <1>1, <2>1 DEF MirrorInv, OwnPart
  <2>2. CASE job'[t].next = 1
    <3>1. 1..(job'[t].next - 1) = {}
      BY <2>2
    <3> QED
      BY <1>1, <3>1 DEF OwnPart
  <2> QED
    BY <1>1, <2>1, <2>2
<1>2. \A t \in alone : t \in Threads /\ job[t].op = "apply" /\ job[t] # NoJob
  BY <1>0 DEF MirrorInv, OwnPart, NoJob, IssueTypeOK
<1>3. CASE StartStep
  <2>1. "main" \in Threads /\ "main" \notin alone /\ issued' = issued /\ mirror' = mirror
        /\ agreed' = agreed
    BY <1>2, <1>3 DEF StartStep, Threads
  <2>2. \A t \in alone : t # "main" /\ job'[t] = job[t] /\ job[t].op = "apply"
    BY <1>0, <1>2, <1>3, <2>1 DEF StartStep
  <2>3. "main" \in alone' => job'["main"] = Apply(Uniform(Default))
    BY <1>0, <1>3, <2>1 DEF StartStep
  <2>4. \A t \in alone' : t \in alone \/ t = "main"
    BY <1>3 DEF StartStep
  <2>5. ASSUME NEW t \in alone'
        PROVE  /\ job'[t].op = "apply"
               /\ (t \in alone /\ job'[t] = job[t]) \/ job'[t].next = 1
    BY <2>2, <2>3, <2>4 DEF Apply
  <2> QED
    BY <1>1, <2>1, <2>5
<1>4. ASSUME NEW j \in Requests, HttpRequest(j) PROVE MirrorInv'
  <2>1. "http" \in Threads /\ "http" \notin alone /\ issued' = issued /\ mirror' = mirror
        /\ agreed' = agreed
    BY <1>2, <1>4 DEF HttpRequest, Threads
  <2>2. \A t \in alone : t # "http" /\ job'[t] = job[t] /\ job[t].op = "apply"
    BY <1>0, <1>2, <1>4, <2>1 DEF HttpRequest
  <2>3. "http" \in alone' => job'["http"] = j /\ j.op = "apply"
    BY <1>0, <1>4, <2>1 DEF HttpRequest
  <2>4. \A t \in alone' : t \in alone \/ t = "http"
    BY <1>4 DEF HttpRequest
  <2>5. j.op = "apply" => j.next = 1
    BY DEF Requests, Apply, Simple, Poke
  <2>6. ASSUME NEW t \in alone'
        PROVE  /\ job'[t].op = "apply"
               /\ (t \in alone /\ job'[t] = job[t]) \/ job'[t].next = 1
    BY <2>2, <2>3, <2>4, <2>5
  <2> QED
    BY <1>1, <2>1, <2>6
<1>5. ASSUME NEW t \in Threads, SendSimple(t) \/ SendFails(t) PROVE MirrorInv'
  <2>1. /\ job' = [job EXCEPT ![t] = NoJob] /\ UNCHANGED <<issued, mirror, agreed>>
        /\ alone' \subseteq alone
    BY <1>5 DEF SendSimple, SendFails, history
  <2>2. t \notin alone'
    <3>1. CASE SendSimple(t)
      BY <1>2, <2>1, <3>1 DEF SendSimple
    <3>2. CASE SendFails(t)
      BY <3>2 DEF SendFails
    <3> QED
      BY <1>5, <3>1, <3>2
  <2>3. \A u \in alone' : u \in alone /\ job'[u] = job[u] /\ job'[u].op = "apply"
    BY <1>0, <1>2, <2>1, <2>2
  <2> QED
    BY <1>1, <2>1, <2>3
<1>6. CASE Crash
  BY <1>0, <1>6 DEF Crash, MirrorInv
<1>7. CASE Deliver \/ FpgaReset \/ (\E i \in 1..Len(net) : Lose(i)) \/ UNCHANGED issueVars
  <2>1. UNCHANGED <<job, issued, mirror, alone, agreed>>
    BY <1>7 DEF Deliver, FpgaReset, Lose, issueVars, history
  <2> QED
    BY <1>1, <1>2, <2>1
<1> QED
  BY <1>0, <1>3, <1>4, <1>5, <1>6, <1>7, MirrorSend, MirrorUpdate DEF IssueNext, ThreadStep

\* A set that went out without a failure, a restart or another thread's packet in between is
\* what current_* shows, until the next packet: whatever went wrong before it.
THEOREM UndisturbedSetsAreMirrored == IssueSpec => []UndisturbedSetIsMirrored
<1>1. IssueInit => MirrorInv
  BY InitType DEF IssueInit, MirrorInv
<1>2. MirrorInv => UndisturbedSetIsMirrored
  BY DEF MirrorInv, UndisturbedSetIsMirrored
<1> QED
  BY <1>1, <1>2, MirrorStep, PTL DEF IssueSpec
==============================================================================
