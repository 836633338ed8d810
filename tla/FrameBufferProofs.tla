-------------------------- MODULE FrameBufferProofs --------------------------
(***************************************************************************)
(* Proofs about FrameBuffer for every size of a frame.  Banks is kept as   *)
(* an explicit two-element set; a step is proved one action at a time.     *)
(***************************************************************************)
EXTENDS FrameBuffer, FiniteSetTheorems, TLAPS

USE BlocksAssumption, ReadTimeAssumption, SwitchesAssumption, BoundsAssumption

LEMMA InitType == Init => TypeOK
  BY DEF Init, TypeOK, Banks

LEMMA CrossingType == TypeOK /\ Crossing => TypeOK'
<1> SUFFICES ASSUME TypeOK, Crossing PROVE TypeOK'
  OBVIOUS
<1> USE DEF TypeOK, Banks
<1>1. CASE SyncLatest
  BY <1>1 DEF SyncLatest
<1>2. CASE SyncBusy
  BY <1>2 DEF SyncBusy
<1>3. CASE SyncBank
  BY <1>3 DEF SyncBank
<1>4. CASE FrameReady
  BY <1>4 DEF FrameReady
<1> QED
  BY <1>1, <1>2, <1>3, <1>4 DEF Crossing

LEMMA CameraType == TypeOK /\ Camera => TypeOK'
<1> SUFFICES ASSUME TypeOK, Camera PROVE TypeOK'
  OBVIOUS
<1>1. CASE WriteBlock
  <2>0. wr.cnt + 1 \in 0..Blocks
    BY <1>1 DEF WriteBlock, MoreToWrite, TypeOK
  <2>1. wr' \in [bank : Banks, latest : Banks, cnt : 0..Blocks]
    BY <1>1, <2>0 DEF WriteBlock, TypeOK
  <2>2. frame \in 0..frame
    BY DEF TypeOK
  <2>3. mem' \in [Banks -> [1..Blocks -> 0..frame]]
    BY <1>1, <2>2 DEF WriteBlock, TypeOK
  <2>4. preview.age < ReadTime \/ ~preview.reading
    BY <1>1 DEF WriteBlock, InTime
  <2>5. (IF preview.reading THEN preview.age + 1 ELSE 0) \in 0..ReadTime
    BY <2>4 DEF TypeOK
  <2>6. preview' \in [locked : BOOLEAN, reading : BOOLEAN, pending : BOOLEAN, age : 0..ReadTime]
    BY <1>1, <2>5 DEF WriteBlock, TypeOK
  <2> QED
    BY <1>1, <2>1, <2>3, <2>6 DEF WriteBlock, TypeOK
<1>2. ASSUME frame' = frame + 1, UNCHANGED <<mem, seen>>
      PROVE mem' \in [Banks -> [1..Blocks -> 0..frame']] /\ seen' \subseteq 0..frame'
            /\ frame' \in Nat \ {0}
  <2>1. 0..frame \subseteq 0..frame' /\ frame' \in Nat \ {0}
    BY <1>2 DEF TypeOK
  <2>2. \A b \in Banks : mem[b] \in [1..Blocks -> 0..frame]
    BY DEF TypeOK
  <2>3. \A b \in Banks : mem[b] \in [1..Blocks -> 0..frame']
    BY <2>1, <2>2
  <2> QED
    BY <1>2, <2>1, <2>3 DEF TypeOK
<1>3. CASE FrameEnd
  <2>1. NextBank \in Banks
    BY DEF NextBank, Other, TypeOK, Banks
  <2>2. wr' \in [bank : Banks, latest : Banks, cnt : 0..Blocks]
    BY <1>3, <2>1 DEF FrameEnd, TypeOK
  <2>3. cdc' \in [latest : Banks, busy : BOOLEAN, bank : Banks, toggle : BOOLEAN, sync : BOOLEAN]
    BY <1>3 DEF FrameEnd, TypeOK
  <2> QED
    BY <1>2, <1>3, <2>2, <2>3 DEF FrameEnd, TypeOK
<1>4. CASE ShortFrameEnd
  <2>1. wr' \in [bank : Banks, latest : Banks, cnt : 0..Blocks]
    BY <1>4, 0 \in 0..Blocks DEF ShortFrameEnd, TypeOK
  <2> QED
    BY <1>2, <1>4, <2>1 DEF ShortFrameEnd, TypeOK
<1> QED
  BY <1>1, <1>3, <1>4 DEF Camera

LEMMA ReaderType == TypeOK /\ (Reader \/ Lock) => TypeOK'
<1> SUFFICES ASSUME TypeOK, Reader \/ Lock PROVE TypeOK'
  OBVIOUS
<1>0. 0 \in 0..ReadTime
  OBVIOUS
<1>1. CASE StartRead
  <2>1. rd' \in [bank : Banks, busy : BOOLEAN, cnt : 0..Blocks]
    BY <1>1 DEF StartRead, ReadBank, TypeOK, Banks
  <2> QED
    BY <1>0, <1>1, <2>1 DEF StartRead, TypeOK
<1>2. CASE ReadBlock
  <2>0. rd.bank \in Banks /\ rd.cnt + 1 \in 1..Blocks /\ rd.cnt + 1 \in 0..Blocks
    BY <1>2 DEF ReadBlock, TypeOK
  <2>1. rd' \in [bank : Banks, busy : BOOLEAN, cnt : 0..Blocks]
    <3>1. rd' = [bank |-> rd.bank, busy |-> (rd.cnt + 1 < Blocks), cnt |-> rd.cnt + 1]
      BY <1>2 DEF ReadBlock, TypeOK
    <3> QED
      BY <2>0, <3>1
  <2>2. mem[rd.bank][rd.cnt + 1] \in 0..frame
    <3>1. mem[rd.bank] \in [1..Blocks -> 0..frame]
      BY <2>0 DEF TypeOK
    <3> QED
      BY <2>0, <3>1
  <2>3. torn' \in Nat
    BY <1>2 DEF ReadBlock, TypeOK
  <2> QED
    BY <1>2, <2>1, <2>2, <2>3 DEF ReadBlock, TypeOK
<1>3. CASE EndRead
  BY <1>0, <1>3 DEF EndRead, TypeOK
<1>4. CASE LockLost
  <2>1. relocks' \in 0..MaxRelocks
    BY <1>4 DEF LockLost, TypeOK
  <2> QED
    BY <1>0, <1>4, <2>1 DEF LockLost, TypeOK
<1>5. CASE LockBack
  BY <1>5 DEF LockBack, TypeOK
<1> QED
  BY <1>1, <1>2, <1>3, <1>4, <1>5 DEF Reader, Lock

\* Types hold for every size of a frame, whatever the camera and the network do.
THEOREM TypeCorrect == Spec => []TypeOK
<1>1. TypeOK /\ [Next]_vars => TypeOK'
  <2> SUFFICES ASSUME TypeOK, [Next]_vars PROVE TypeOK'
    OBVIOUS
  <2>1. CASE Next
    BY <2>1, CrossingType, CameraType, ReaderType DEF Next
  <2>2. CASE UNCHANGED vars
    BY <2>2 DEF vars, TypeOK
  <2> QED
    BY <2>1, <2>2
<1> QED
  BY InitType, <1>1, PTL DEF Spec

-----------------------------------------------------------------------------
(***************************************************************************)
(* What memory holds.                                                      *)
(***************************************************************************)
LEMMA WrittenInit == Init => WrittenInv
<1> SUFFICES ASSUME Init PROVE WrittenInv
  OBVIOUS
<1>1. 1..wr.cnt = {} /\ whole = 0
  BY DEF Init
<1> QED
  BY <1>1 DEF WrittenInv

LEMMA WrittenWriteBlock == TypeOK /\ WrittenInv /\ WriteBlock => WrittenInv'
<1> SUFFICES ASSUME TypeOK, WrittenInv, WriteBlock PROVE WrittenInv'
  OBVIOUS
<1>1. /\ wr'.bank = wr.bank /\ wr'.latest = wr.latest /\ wr'.cnt = wr.cnt + 1
      /\ wr.cnt \in Nat /\ wr.bank \in Banks /\ wr.latest \in Banks
      /\ wr.cnt + 1 \in 1..Blocks
  BY DEF WriteBlock, MoreToWrite, TypeOK
<1>2. /\ mem' = [mem EXCEPT ![wr.bank][wr.cnt + 1] = frame] /\ frame' = frame
      /\ whole' = whole
  BY DEF WriteBlock
<1>3. mem \in [Banks -> [1..Blocks -> 0..frame]]
  BY DEF TypeOK
<1>4. \A i \in 1..wr'.cnt : mem'[wr'.bank][i] = frame'
  <2> SUFFICES ASSUME NEW i \in 1..wr'.cnt PROVE mem'[wr'.bank][i] = frame'
    OBVIOUS
  <2>1. i \in 1..Blocks /\ (i = wr.cnt + 1 \/ i \in 1..wr.cnt)
    BY <1>1
  <2>2. i # wr.cnt + 1 => mem[wr.bank][i] = frame
    BY <2>1 DEF WrittenInv
  <2> QED
    BY <1>1, <1>2, <1>3, <2>1, <2>2
<1>5. \A b \in Banks : b # wr.bank => mem'[b] = mem[b]
  BY <1>1, <1>2, <1>3
<1>6. whole' > 0 /\ ~Stays' => \A i \in 1..Blocks : mem'[wr'.latest][i] = whole'
  BY <1>1, <1>2, <1>5 DEF WrittenInv, Stays
<1> QED
  BY <1>2, <1>4, <1>6 DEF WrittenInv

LEMMA WrittenFrameEnd == TypeOK /\ WrittenInv /\ FrameEnd => WrittenInv'
<1> SUFFICES ASSUME TypeOK, WrittenInv, FrameEnd PROVE WrittenInv'
  OBVIOUS
<1>1. wr'.latest = wr.bank /\ wr'.cnt = 0 /\ wr.cnt = Blocks
  BY DEF FrameEnd
<1>2. whole' = frame /\ frame \in Nat /\ mem' = mem
  BY DEF FrameEnd, TypeOK
<1>3. 1..wr'.cnt = {}
  BY <1>1
<1> QED
  BY <1>1, <1>2, <1>3 DEF WrittenInv

LEMMA WrittenShortFrameEnd == TypeOK /\ WrittenInv /\ ShortFrameEnd => WrittenInv'
<1> SUFFICES ASSUME TypeOK, WrittenInv, ShortFrameEnd PROVE WrittenInv'
  OBVIOUS
<1>1. wr'.bank = wr.bank /\ wr'.latest = wr.latest /\ wr'.cnt = 0
  BY DEF ShortFrameEnd, TypeOK
<1>2. 1..wr'.cnt = {}
  BY <1>1
<1> QED
  BY <1>1, <1>2 DEF ShortFrameEnd, WrittenInv, Stays

LEMMA WrittenOther == WrittenInv /\ (Crossing \/ Reader \/ Lock) => WrittenInv'
<1> SUFFICES ASSUME WrittenInv, Crossing \/ Reader \/ Lock PROVE WrittenInv'
  OBVIOUS
<1>1. UNCHANGED <<frame, wr, mem, whole>>
  BY DEF Crossing, SyncLatest, SyncBusy, SyncBank, FrameReady, Reader, StartRead, ReadBlock,
     EndRead, Lock, LockLost, LockBack
<1> QED
  BY <1>1 DEF WrittenInv, Stays

-----------------------------------------------------------------------------
(***************************************************************************)
(* The bank that is kept off.                                              *)
(***************************************************************************)
LEMMA MarkInductive == TypeOK /\ MarkInv /\ [Next]_vars => MarkInv'
<1> SUFFICES ASSUME TypeOK, MarkInv, [Next]_vars PROVE MarkInv'
  OBVIOUS
<1>1. CASE Crossing
  <2>0. rd' = rd /\ preview'.age = preview.age /\ rd.busy \in BOOLEAN
    BY <1>1 DEF Crossing, SyncLatest, SyncBusy, SyncBank, FrameReady, TypeOK
  <2>1. /\ cdc'.busy = cdc.busy \/ cdc'.busy = rd.busy
        /\ cdc'.bank = cdc.bank \/ cdc'.bank = rd.bank
    BY <1>1 DEF Crossing, SyncLatest, SyncBusy, SyncBank, FrameReady, TypeOK
  <2> QED
    BY <2>0, <2>1 DEF MarkInv
<1>2. CASE WriteBlock
  <2>1. cdc.busy = rd.busy /\ cdc.bank = rd.bank /\ UNCHANGED <<rd, cdc>>
    BY <1>2 DEF WriteBlock, Settled
  <2> QED
    BY <2>1 DEF MarkInv
<1>3. CASE FrameEnd \/ ShortFrameEnd
  BY <1>3 DEF FrameEnd, ShortFrameEnd, MarkInv, TypeOK
<1>4. CASE StartRead
  <2>1. rd'.cnt = 0 /\ preview'.age = 0 /\ rd'.busy
    BY <1>4 DEF StartRead, TypeOK
  <2>2. ~(0 > 0)
    OBVIOUS
  <2> QED
    BY <2>1, <2>2 DEF MarkInv
<1>5. CASE ReadBlock
  <2>1. cdc.busy = rd.busy /\ cdc.bank = rd.bank /\ rd'.bank = rd.bank /\ cdc' = cdc
    BY <1>5 DEF ReadBlock, Settled, TypeOK
  <2>2. rd.busy
    BY <1>5 DEF ReadBlock, MarkInv
  <2>3. rd'.cnt < Blocks => rd'.busy
    BY <1>5 DEF ReadBlock, TypeOK
  <2>4. cdc'.busy /\ cdc'.bank = rd'.bank
    BY <2>1, <2>2
  <2> QED
    BY <2>3, <2>4 DEF MarkInv
<1>6. CASE EndRead
  <2>1. cdc.busy = rd.busy /\ cdc.bank = rd.bank /\ UNCHANGED <<rd, cdc>>
    BY <1>6 DEF EndRead, Settled
  <2> QED
    BY <2>1 DEF MarkInv
<1>7. CASE Lock
  <2>1. /\ rd' = rd /\ cdc'.busy = cdc.busy /\ cdc'.bank = cdc.bank
        /\ preview'.age = 0 \/ preview'.age = preview.age
    BY <1>7 DEF Lock, LockLost, LockBack, TypeOK
  <2>2. ~(0 > 0)
    OBVIOUS
  <2> QED
    BY <2>1, <2>2 DEF MarkInv
<1>8. CASE UNCHANGED vars
  BY <1>8 DEF vars, MarkInv
<1> QED
  BY <1>1, <1>2, <1>3, <1>4, <1>5, <1>6, <1>7, <1>8 DEF Next, Camera, Reader

\* However long a preview takes, the camera never moves into the bank of a marked reader
\* once a block has been read from it or written since, also when a reset left the mark.
THEOREM BusyBankIsAvoided == Spec => KeepsOffBusyBank
<1>1. TypeOK /\ MarkInv /\ [Next]_vars
      => [wr'.bank # wr.bank /\ wr'.bank = rd.bank /\ rd.busy
          => rd.cnt = 0 /\ preview.age = 0]_vars
  <2> SUFFICES ASSUME TypeOK, MarkInv, Next, wr'.bank # wr.bank, wr'.bank = rd.bank, rd.busy
               PROVE  rd.cnt = 0 /\ preview.age = 0
    OBVIOUS
  <2>1. CASE FrameEnd
    <3>1. wr'.bank = NextBank
      BY <2>1 DEF FrameEnd
    <3>2. rd.bank = Other(wr.bank) /\ ~(cdc.busy /\ cdc.bank = rd.bank)
      BY <3>1 DEF NextBank
    <3>3. ~(rd.cnt > 0) /\ ~(preview.age > 0)
      BY <3>2 DEF MarkInv
    <3> QED
      BY <3>3 DEF TypeOK
  <2>2. CASE ~FrameEnd
    BY <2>2 DEF Next, Camera, Crossing, Reader, Lock, WriteBlock, ShortFrameEnd, SyncLatest,
       SyncBusy, SyncBank, FrameReady, StartRead, ReadBlock, EndRead, LockLost, LockBack, TypeOK
  <2> QED
    BY <2>1, <2>2
<1>2. Init => MarkInv
  BY DEF Init, MarkInv
<1> QED
  BY <1>1, <1>2, MarkInductive, TypeCorrect, PTL DEF Spec, KeepsOffBusyBank

-----------------------------------------------------------------------------
(***************************************************************************)
(* What a loss of the lock can cost.                                       *)
(***************************************************************************)
\* A preview is read and sent within half a frame.
Quick == 2 * ReadTime <= Blocks

LEMMA Budget ==
  ASSUME NEW t \in Nat, NEW o \in Nat, NEW n \in Nat, NEW o1 \in Nat,
         t + o <= 2 * n, o1 <= o
  PROVE  t + o1 <= 2 * n
  OBVIOUS

LEMMA BudgetSpent ==
  ASSUME NEW t \in Nat, NEW o \in Nat, NEW n \in Nat, NEW o1 \in Nat,
         t + o <= 2 * n, o1 + 1 <= o
  PROVE  (t + 1) + o1 <= 2 * n
  OBVIOUS

LEMMA BudgetMore ==
  ASSUME NEW t \in Nat, NEW o \in Nat, NEW n \in Nat, NEW o1 \in Nat,
         t + o <= 2 * n, o1 <= 2
  PROVE  t + o1 <= 2 * (n + 1)
  OBVIOUS

LEMMA OwedLess ==
  ASSUME TypeOK, OwedInv, UNCHANGED <<torn, relocks>>,
         Owed' <= Owed, Owed' \in Nat, Owed \in Nat
  PROVE  OwedInv'
<1>1. torn \in Nat /\ relocks \in Nat /\ torn' = torn /\ relocks' = relocks
  BY DEF TypeOK
<1>2. torn + Owed <= 2 * relocks
  BY DEF OwedInv
<1>3. torn + Owed' <= 2 * relocks
  BY <1>1, <1>2, Budget
<1> QED
  BY <1>1, <1>3 DEF OwedInv

LEMMA OwedInit == Init => ReadInv /\ OwedInv
<1> SUFFICES ASSUME Init PROVE ReadInv /\ OwedInv
  OBVIOUS
<1>1. /\ preview.locked /\ ~preview.reading /\ ~preview.pending /\ ~cdc.toggle /\ ~cdc.sync
      /\ wr.bank = 0 /\ rd.bank = 0 /\ cdc.bank = 0 /\ rd.cnt = 0 /\ wr.cnt = 0 /\ whole = 0
      /\ torn = 0 /\ relocks = 0
  BY DEF Init
<1>2. ~Done /\ ~Waiting /\ ~Unread /\ ~Crossed /\ ~Left /\ ~Stays
  <2>1. cdc.toggle = cdc.sync
    BY DEF Init
  <2>2. ~Left
    BY <1>1, Other(0) = 1, 1 # 0 DEF Left, Other
  <2>3. ~Stays
    BY <1>1 DEF Stays
  <2> QED
    BY <1>1, <2>1, <2>2, <2>3 DEF Done, Waiting, Unread, Crossed
<1>3. Ahead = 0 /\ Fits
  BY <1>1, <1>2 DEF Ahead, Fits
<1>4. Owed = 0
  BY <1>1, <1>2, <1>3 DEF Owed, OneIf
<1> QED
  BY <1>1, <1>2, <1>4 DEF ReadInv, OwedInv

\* What is owed does not grow when nothing it depends on changes but the copies.
LEMMA OwedSync ==
  TypeOK /\ ReadInv /\ OwedInv /\ (SyncLatest \/ SyncBusy \/ SyncBank) => ReadInv' /\ OwedInv'
<1> SUFFICES ASSUME TypeOK, ReadInv, OwedInv, SyncLatest \/ SyncBusy \/ SyncBank
             PROVE  ReadInv' /\ OwedInv'
  OBVIOUS
<1>1. UNCHANGED <<frame, wr, rd, preview, mem, whole, seen, torn, relocks>>
  BY DEF SyncLatest, SyncBusy, SyncBank
<1>2. /\ cdc'.toggle = cdc.toggle /\ cdc'.sync = cdc.sync
      /\ cdc'.latest = cdc.latest \/ cdc'.latest = wr.latest
      /\ cdc'.busy = cdc.busy \/ cdc'.busy = rd.busy
      /\ cdc'.bank = cdc.bank \/ cdc'.bank = rd.bank
  BY DEF SyncLatest, SyncBusy, SyncBank, TypeOK
<1>3. /\ (Done' <=> Done) /\ (Waiting' <=> Waiting) /\ (Unread' <=> Unread)
      /\ (Crossed' <=> Crossed) /\ (Stays' <=> Stays) /\ (Left' => Left)
  BY <1>1, <1>2 DEF Done, Waiting, Unread, Crossed, Stays, Left
<1>4. Ahead' = Ahead /\ (Fits' <=> Fits)
  BY <1>1, <1>3 DEF Ahead, Fits
<1>5. Owed' <= Owed /\ Owed' \in Nat /\ Owed \in Nat
  BY <1>1, <1>3, <1>4 DEF Owed, OneIf
<1>6. ReadInv'
  BY <1>1, <1>2, <1>3, <1>4 DEF ReadInv
<1> QED
  BY <1>1, <1>5, <1>6, OwedLess

LEMMA OwedFrameReady == Quick /\ TypeOK /\ ReadInv /\ OwedInv /\ FrameReady => ReadInv' /\ OwedInv'
<1> SUFFICES ASSUME Quick, TypeOK, ReadInv, OwedInv, FrameReady PROVE ReadInv' /\ OwedInv'
  OBVIOUS
<1>1. UNCHANGED <<frame, wr, rd, mem, whole, seen, torn, relocks>>
  BY DEF FrameReady
<1>2. /\ preview'.locked /\ preview.locked /\ preview'.reading = preview.reading
      /\ preview'.pending /\ preview'.age = preview.age
      /\ cdc'.toggle = cdc.toggle /\ cdc'.sync = cdc.toggle /\ Done
      /\ cdc'.latest = wr.latest
  BY DEF FrameReady, TypeOK
<1>3. ~Done' /\ Waiting /\ Waiting'
  BY <1>2 DEF Done, Waiting
<1>4. /\ (Unread' <=> Unread) /\ (Stays' <=> Stays) /\ ~Left /\ ~Left'
      /\ (Crossed' <=> preview.reading) /\ (Crossed <=> preview.reading \/ preview.pending)
  BY <1>1, <1>2, <1>3 DEF Unread, Stays, Left, Crossed, Waiting
<1>5. /\ wr.cnt \in Nat /\ ReadTime \in Nat /\ preview.age \in Nat /\ preview.age <= ReadTime
      /\ Blocks \in Nat /\ 2 * ReadTime <= Blocks
  BY DEF TypeOK, Quick
<1>6. Ahead' = (IF preview.reading THEN ReadTime - preview.age ELSE 0) + ReadTime
  BY <1>1, <1>2, <1>3, <1>5 DEF Ahead
<1>7. ~preview.pending => Ahead' = Ahead /\ (Fits' <=> Fits)
  BY <1>1, <1>2, <1>5, <1>6 DEF Ahead, Fits
<1>8. preview.pending => ~preview.reading /\ Fits' /\ Crossed
  <2> SUFFICES ASSUME preview.pending PROVE ~preview.reading /\ Fits' /\ Crossed
    OBVIOUS
  <2>1. wr.cnt = 0 /\ ~preview.reading
    BY <1>2 DEF ReadInv
  <2> QED
    BY <1>1, <1>4, <1>5, <1>6, <2>1 DEF Fits
<1>9. Owed' <= Owed /\ Owed' \in Nat /\ Owed \in Nat
  BY <1>2, <1>3, <1>4, <1>7, <1>8 DEF Owed, OneIf
<1>10. whole > 0
  BY <1>2 DEF ReadInv, Done, TypeOK
<1>11. Crossed' => Fits'
  BY <1>4, <1>7, <1>8 DEF ReadInv
<1>12. ReadInv'
  BY <1>1, <1>2, <1>3, <1>4, <1>10, <1>11 DEF ReadInv
<1> QED
  BY <1>1, <1>9, <1>12, OwedLess

LEMMA OwedWriteBlock == TypeOK /\ ReadInv /\ OwedInv /\ WriteBlock => ReadInv' /\ OwedInv'
<1> SUFFICES ASSUME TypeOK, ReadInv, OwedInv, WriteBlock PROVE ReadInv' /\ OwedInv'
  OBVIOUS
<1>1. UNCHANGED <<frame, rd, cdc, whole, seen, torn, relocks>>
  BY DEF WriteBlock
<1>2. /\ wr'.bank = wr.bank /\ wr'.latest = wr.latest /\ wr'.cnt = wr.cnt + 1
      /\ wr.cnt \in Nat /\ wr.cnt + 1 <= Blocks /\ Blocks \in Nat /\ ReadTime \in Nat
      /\ preview.age \in Nat /\ preview.age <= ReadTime
  BY DEF WriteBlock, MoreToWrite, TypeOK
<1>3. /\ preview'.locked = preview.locked /\ preview'.reading = preview.reading
      /\ preview'.pending = preview.pending
      /\ preview.reading => preview'.age = preview.age + 1
  BY DEF WriteBlock, TypeOK
<1>4. (preview.locked => ~Done) /\ (preview.pending => preview.reading)
  BY DEF WriteBlock, Settled
<1>5. /\ (Done' <=> Done) /\ (Waiting' <=> Waiting) /\ (Unread' <=> Unread)
      /\ (Crossed' <=> Crossed) /\ (Stays' <=> Stays) /\ (Left' <=> Left)
  BY <1>1, <1>2, <1>3 DEF Done, Waiting, Unread, Crossed, Stays, Left
<1>6. preview.locked /\ preview.reading => Ahead' = Ahead - 1 /\ Ahead \in Int
  BY <1>2, <1>3, <1>4, <1>5 DEF Ahead
<1>7. preview.locked /\ ~preview.reading => Ahead' = 0 /\ Ahead = 0
  BY <1>3, <1>4, <1>5 DEF Ahead
<1>8. preview.locked => (Fits' <=> Fits)
  BY <1>2, <1>6, <1>7 DEF Fits
<1>9. Crossed => preview.locked
  BY DEF Crossed, ReadInv
<1>10. Owed' = Owed
  BY <1>3, <1>5, <1>8 DEF Owed, OneIf
<1>11. ReadInv'
  BY <1>1, <1>2, <1>3, <1>4, <1>5, <1>8, <1>9 DEF ReadInv
<1> QED
  BY <1>1, <1>10, <1>11 DEF OwedInv

LEMMA OwedShortFrameEnd ==
  TypeOK /\ ReadInv /\ OwedInv /\ ShortFrameEnd => ReadInv' /\ OwedInv'
<1> SUFFICES ASSUME TypeOK, ReadInv, OwedInv, ShortFrameEnd PROVE ReadInv' /\ OwedInv'
  OBVIOUS
<1>1. UNCHANGED <<rd, cdc, preview, whole, seen, torn, relocks>>
  BY DEF ShortFrameEnd
<1>2. /\ wr'.bank = wr.bank /\ wr'.latest = wr.latest /\ wr'.cnt = 0
      /\ wr.cnt \in Nat /\ wr.cnt <= Blocks /\ Blocks \in Nat /\ ReadTime \in Nat
      /\ preview.age \in Nat /\ preview.age <= ReadTime
  BY DEF ShortFrameEnd, TypeOK
<1>3. /\ (Done' <=> Done) /\ (Waiting' <=> Waiting) /\ (Unread' <=> Unread)
      /\ (Crossed' <=> Crossed) /\ (Stays' <=> Stays) /\ (Left' <=> Left)
  BY <1>1, <1>2 DEF Done, Waiting, Unread, Crossed, Stays, Left
<1>4. Ahead' = Ahead /\ Ahead \in Nat
  BY <1>1, <1>2, <1>3 DEF Ahead
<1>5. Fits => Fits'
  BY <1>2, <1>4 DEF Fits
<1>6. ~Fits => ~Left
  <2> SUFFICES ASSUME Left PROVE Fits
    OBVIOUS
  <2>1. ~preview.reading /\ ~preview.pending /\ ~Done
    BY DEF Left, Waiting
  <2> QED
    BY <1>2, <2>1 DEF Fits, Ahead
<1>7. Owed' <= Owed /\ Owed' \in Nat /\ Owed \in Nat
  BY <1>1, <1>3, <1>5, <1>6 DEF Owed, OneIf
<1>8. ReadInv'
  BY <1>1, <1>2, <1>3, <1>5 DEF ReadInv
<1> QED
  BY <1>1, <1>7, <1>8, OwedLess

\* A frame that ends while a read fits leaves the writer in its bank only if a mark was left;
\* the end of a frame met by a read is paid for by the read that did not fit.
LEMMA OwedFrameEnd == Quick /\ TypeOK /\ ReadInv /\ OwedInv /\ FrameEnd => ReadInv' /\ OwedInv'
<1> SUFFICES ASSUME Quick, TypeOK, ReadInv, OwedInv, FrameEnd PROVE ReadInv' /\ OwedInv'
  OBVIOUS
<1>1. UNCHANGED <<rd, preview, mem, seen, torn, relocks>>
  BY DEF FrameEnd
<1>2. /\ wr'.latest = wr.bank /\ wr'.cnt = 0 /\ wr.cnt = Blocks /\ wr'.bank = NextBank
      /\ Blocks \in Nat /\ Blocks > 0 /\ ReadTime \in Nat /\ ReadTime > 0
      /\ 2 * ReadTime <= Blocks /\ preview.age \in Nat /\ preview.age <= ReadTime
      /\ wr.bank \in Banks
  BY DEF FrameEnd, TypeOK, Quick
<1>3. /\ cdc'.latest = cdc.latest /\ cdc'.busy = cdc.busy /\ cdc'.bank = cdc.bank
      /\ (cdc'.toggle <=> ~cdc.toggle) /\ cdc'.sync = cdc.sync
      /\ cdc.toggle \in BOOLEAN /\ cdc.sync \in BOOLEAN
  BY DEF FrameEnd, TypeOK
<1>4. whole' > 0
  <2>1. whole' = frame /\ frame \in Nat \ {0}
    BY DEF FrameEnd, TypeOK
  <2> QED
    BY <2>1
<1>5. (Done' <=> ~Done) /\ (Unread' <=> Unread)
  <2>1. cdc.toggle \in BOOLEAN /\ cdc.sync \in BOOLEAN
    BY DEF TypeOK
  <2>2. cdc'.toggle = ~cdc.toggle /\ cdc'.sync = cdc.sync
    BY DEF FrameEnd, TypeOK
  <2>3. Done' <=> ~Done
    BY ONLY <2>1, <2>2 DEF Done
  <2> QED
    BY <1>1, <2>3 DEF Unread
<1>6. preview.reading => preview.age < ReadTime
  BY DEF FrameEnd, InTime
<1>7. Stays' => cdc.busy /\ cdc.bank = Other(wr.bank)
  <2>1. Other(wr.bank) # wr.bank
    BY <1>2 DEF Other, Banks
  <2> QED
    BY <1>2, <2>1 DEF Stays, NextBank
<1>8. preview.reading \/ preview.pending => ~Fits
  <2>1. preview.reading => Ahead > 0 /\ Ahead \in Nat
    BY <1>2, <1>6 DEF Ahead
  <2>2. preview.pending => Ahead > 0 /\ Ahead \in Nat
    BY <1>2 DEF Ahead
  <2> QED
    BY <1>2, <2>1, <2>2 DEF Fits
<1>9. ~Crossed
  BY <1>8 DEF Crossed, ReadInv
<1>10. ~(preview.reading /\ preview.pending)
  BY <1>9 DEF Crossed, Waiting
<1>11. preview.locked /\ Done => ~preview.reading /\ ~preview.pending
  BY <1>2 DEF ReadInv
<1>12. Fits'
  <2>1. CASE preview.reading
    BY <1>1, <1>2, <1>10, <2>1 DEF Fits, Ahead
  <2>2. CASE ~preview.reading
    BY <1>1, <1>2, <2>2 DEF Fits, Ahead
  <2> QED
    BY <2>1, <2>2
<1>13. ReadInv'
  <2>1. relocks' = 0 /\ preview'.reading => ~Stays' /\ ~Waiting'
    <3> SUFFICES ASSUME relocks = 0, preview.reading PROVE FALSE
      BY <1>1
    <3>1. ~Fits /\ ~Crossed
      BY <1>8, <1>9
    <3>2. Owed >= 1
      BY <3>1 DEF Owed, OneIf
    <3>3. torn \in Nat /\ torn + Owed <= 2 * relocks /\ Owed \in Nat
      BY <3>1 DEF OwedInv, TypeOK, Owed, OneIf
    <3> QED
      BY <3>2, <3>3
  <2>2. preview'.reading => Waiting' \/ ~preview.locked
    BY <1>1, <1>5, <1>11 DEF Waiting
  <2>3. preview.locked \/ (~preview.reading /\ ~preview.pending)
    BY DEF ReadInv
  <2>4. preview'.pending => Done'
    BY <1>1, <1>5, <1>11, <2>3
  <2>5. preview'.reading /\ rd'.cnt = Blocks => ~rd'.busy
    BY <1>1 DEF ReadInv
  <2> QED
    BY <1>1, <1>2, <1>4, <1>10, <1>12, <2>1, <2>2, <2>3, <2>4, <2>5 DEF ReadInv
<1>14. CASE ~preview.locked
  BY <1>1, <1>13, <1>14, OwedLess DEF Owed
<1>15. CASE preview.locked /\ Done
  <2>1. ~preview.reading /\ ~preview.pending /\ ~Done' /\ ~Waiting' /\ ~Crossed' /\ ~Unread'
    BY <1>1, <1>5, <1>11, <1>15 DEF Waiting, Crossed, Unread
  <2>2. ~Fits
    BY <1>2, <1>15, <2>1 DEF Fits, Ahead
  <2>3. Owed' <= Owed /\ Owed' \in Nat /\ Owed \in Nat
    BY <1>1, <1>9, <1>12, <1>15, <2>1, <2>2 DEF Owed, OneIf, Waiting
  <2> QED
    BY <1>1, <1>13, <2>3, OwedLess
<1>16. CASE preview.locked /\ ~Done /\ ~preview.reading /\ ~preview.pending
  <2>1. Done' /\ Waiting' /\ ~Crossed' /\ ~Unread' /\ ~Left' /\ ~Waiting /\ ~Unread
    BY <1>1, <1>5, <1>16 DEF Waiting, Crossed, Unread, Left
  <2>2. Ahead = 0 /\ Fits
    BY <1>2, <1>16 DEF Fits, Ahead
  <2>3. Stays' => Left
    BY <1>7, <1>16, <2>1 DEF Left
  <2>4. Owed' <= Owed /\ Owed' \in Nat /\ Owed \in Nat
    BY <1>1, <1>9, <1>12, <1>16, <2>1, <2>2, <2>3 DEF Owed, OneIf
  <2> QED
    BY <1>1, <1>13, <2>4, OwedLess
<1>17. CASE preview.locked /\ ~Done /\ (preview.reading \/ preview.pending)
  <2>1. Done' /\ Waiting' /\ Crossed' /\ ~Fits
    BY <1>1, <1>5, <1>8, <1>17 DEF Waiting, Crossed
  <2>2. preview'.locked /\ (preview'.pending <=> preview.pending)
        /\ (Unread' \/ (preview'.pending /\ Done') => Waiting \/ Unread)
    BY <1>1, <1>5, <1>17 DEF Waiting
  <2>3. Owed' <= Owed /\ Owed' \in Nat /\ Owed \in Nat
    BY <1>9, <1>17, <2>1, <2>2 DEF Owed, OneIf
  <2> QED
    BY <1>1, <1>13, <2>3, OwedLess
<1> QED
  BY <1>14, <1>15, <1>16, <1>17

LEMMA OwedStartRead == TypeOK /\ ReadInv /\ OwedInv /\ StartRead => ReadInv' /\ OwedInv'
<1> SUFFICES ASSUME TypeOK, ReadInv, OwedInv, StartRead PROVE ReadInv' /\ OwedInv'
  OBVIOUS
<1>1. UNCHANGED <<frame, wr, cdc, mem, whole, torn, relocks>> /\ seen' = {}
  BY DEF StartRead
<1>2. /\ preview.pending /\ ~preview.reading /\ preview'.reading /\ ~preview'.pending
      /\ preview'.locked = preview.locked /\ preview'.age = 0
      /\ rd'.bank = cdc.latest /\ rd'.cnt = 0 /\ Blocks \in Nat /\ Blocks > 0
      /\ ReadTime \in Nat
  BY DEF StartRead, ReadBank, TypeOK
<1>3. /\ (Done' <=> Done) /\ Waiting /\ (Waiting' <=> Done) /\ Unread'
      /\ (Crossed' <=> Done) /\ (Crossed <=> Done) /\ (Stays' <=> Stays) /\ ~Left /\ ~Left'
  BY <1>1, <1>2 DEF Done, Waiting, Unread, Crossed, Stays, Left
<1>4. Ahead' = Ahead /\ (Fits' <=> Fits)
  BY <1>1, <1>2, <1>3 DEF Ahead, Fits
<1>5. Owed' <= Owed /\ Owed' \in Nat /\ Owed \in Nat
  BY <1>2, <1>3, <1>4 DEF Owed, OneIf
<1>6. relocks = 0 => ~Stays /\ ~Done
  <2> SUFFICES ASSUME relocks = 0, Stays \/ Done PROVE FALSE
    OBVIOUS
  <2>1. Owed >= 1 /\ Owed \in Nat
    BY <1>2, <1>3 DEF Owed, OneIf
  <2>2. torn \in Nat /\ torn + Owed <= 2 * relocks
    BY DEF OwedInv, TypeOK
  <2> QED
    BY <2>1, <2>2
<1>7. rd'.cnt # Blocks
  BY <1>2
<1>8. ReadInv'
  BY <1>1, <1>2, <1>3, <1>4, <1>6, <1>7 DEF ReadInv
<1> QED
  BY <1>1, <1>5, <1>8, OwedLess

\* Only a read that is owed can be torn, and its end pays for it.
LEMMA OwedReadBlock ==
  TypeOK /\ WrittenInv /\ ReadInv /\ OwedInv /\ ReadBlock => ReadInv' /\ OwedInv'
<1> SUFFICES ASSUME TypeOK, WrittenInv, ReadInv, OwedInv, ReadBlock PROVE ReadInv' /\ OwedInv'
  OBVIOUS
<1>1. UNCHANGED <<frame, wr, cdc, preview, mem, whole, relocks>>
  BY DEF ReadBlock
<1>2. /\ rd'.bank = rd.bank /\ rd'.cnt = rd.cnt + 1 /\ rd.cnt < Blocks /\ preview.reading
      /\ rd.cnt + 1 \in 1..Blocks /\ rd.cnt \in Nat /\ Blocks \in Nat
      /\ rd'.busy = (rd.cnt + 1 < Blocks)
  BY DEF ReadBlock, TypeOK
<1>3. preview.locked /\ ~Done
  BY <1>2 DEF ReadInv, ReadBlock, Settled
<1>4. /\ ~Done' /\ (Waiting' <=> Waiting) /\ Unread /\ (Unread' <=> rd.cnt + 1 < Blocks)
      /\ (Crossed' <=> Crossed) /\ (Crossed <=> Waiting)
      /\ (Stays' <=> Stays) /\ ~Left /\ ~Left' /\ preview'.locked
  BY <1>1, <1>2, <1>3 DEF Done, Waiting, Unread, Crossed, Stays, Left
<1>5. Ahead' = Ahead /\ (Fits' <=> Fits)
  BY <1>1, <1>3, <1>4 DEF Ahead, Fits
<1>6. ~Waiting /\ ~Stays => seen' \subseteq {whole} /\ torn' = torn
  <2> SUFFICES ASSUME ~Waiting, ~Stays PROVE seen' \subseteq {whole} /\ torn' = torn
    OBVIOUS
  <2>1. mem[rd.bank][rd.cnt + 1] = whole
    BY <1>2 DEF ReadInv, WrittenInv
  <2>2. seen' \subseteq {whole}
    BY <1>2, <2>1 DEF ReadBlock, ReadInv
  <2>3. Cardinality(seen') <= 1 /\ Cardinality(seen') \in Nat
    <3>1. IsFiniteSet({whole}) /\ Cardinality({whole}) = 1
      BY FS_Singleton
    <3>2. IsFiniteSet(seen') /\ Cardinality(seen') <= Cardinality({whole})
      BY <2>2, <3>1, FS_Subset
    <3> QED
      BY <3>1, <3>2, FS_CardinalityType
  <2> QED
    BY <2>2, <2>3 DEF ReadBlock
<1>7. ReadInv'
  <2>1. rd'.cnt = Blocks => ~rd'.busy
    <3> SUFFICES ASSUME rd'.cnt = Blocks PROVE ~rd'.busy
      OBVIOUS
    <3>1. ~(rd.cnt + 1 < Blocks)
      BY <1>2
    <3> QED
      BY <1>2, <3>1, Zenon
  <2>2. preview'.reading /\ ~Waiting' => rd'.bank = wr'.latest
    BY <1>1, <1>2, <1>4 DEF ReadInv
  <2>3. preview'.reading /\ ~Waiting' /\ ~Stays' => seen' \subseteq {whole'}
    BY <1>1, <1>4, <1>6
  <2> QED
    BY <1>1, <1>2, <1>3, <1>4, <1>5, <2>1, <2>2, <2>3 DEF ReadInv
<1>8. torn' = torn \/ (torn' = torn + 1 /\ rd.cnt + 1 = Blocks)
  BY DEF ReadBlock
<1>9. /\ Owed' <= Owed /\ Owed' \in Nat /\ Owed \in Nat
      /\ rd.cnt + 1 = Blocks /\ (Waiting \/ Stays) => Owed' + 1 <= Owed
  <2>1. CASE rd.cnt + 1 = Blocks
    <3>1. ~Unread'
      BY <1>2, <1>4, <2>1
    <3> QED
      BY <1>3, <1>4, <1>5, <3>1 DEF Owed, OneIf
  <2>2. CASE rd.cnt + 1 # Blocks
    <3>1. Unread'
      BY <1>2, <1>4, <2>2
    <3> QED
      BY <1>3, <1>4, <1>5, <2>2, <3>1 DEF Owed, OneIf
  <2> QED
    BY <2>1, <2>2
<1>10. torn' + Owed' <= 2 * relocks
  <2>1. torn + Owed <= 2 * relocks /\ torn \in Nat /\ relocks \in Nat
    BY DEF OwedInv, TypeOK
  <2>2. CASE torn' = torn
    <3>1. torn + Owed' <= 2 * relocks
      BY <1>9, <2>1, Budget
    <3> QED
      BY <2>2, <3>1
  <2>3. CASE torn' # torn
    <3>1. torn' = torn + 1 /\ Owed' + 1 <= Owed
      BY <1>6, <1>8, <1>9, <2>3
    <3>2. (torn + 1) + Owed' <= 2 * relocks
      BY <1>9, <2>1, <3>1, BudgetSpent
    <3> QED
      BY <3>1, <3>2
  <2> QED
    BY <2>2, <2>3
<1> QED
  BY <1>1, <1>7, <1>10 DEF OwedInv

LEMMA OwedEndRead == TypeOK /\ ReadInv /\ OwedInv /\ EndRead => ReadInv' /\ OwedInv'
<1> SUFFICES ASSUME TypeOK, ReadInv, OwedInv, EndRead PROVE ReadInv' /\ OwedInv'
  OBVIOUS
<1>1. UNCHANGED <<frame, wr, rd, cdc, mem, whole, seen, torn, relocks>>
  BY DEF EndRead
<1>2. /\ preview.reading /\ ~preview'.reading /\ preview'.pending = preview.pending
      /\ preview'.locked = preview.locked /\ rd.cnt = Blocks /\ Blocks \in Nat
  BY DEF EndRead, TypeOK
<1>3. preview.locked /\ ~Done /\ cdc.busy = rd.busy /\ ~rd.busy
  BY <1>2 DEF ReadInv, EndRead, Settled
<1>4. /\ ~Done' /\ (Waiting' <=> preview.pending) /\ (Waiting <=> preview.pending) /\ ~Unread /\ ~Unread'
      /\ ~Crossed' /\ (Crossed <=> preview.pending)
      /\ (Stays' <=> Stays) /\ ~Left /\ ~Left' /\ preview'.locked
  BY <1>1, <1>2, <1>3 DEF Done, Waiting, Unread, Crossed, Stays, Left
<1>5. /\ wr.cnt \in Nat /\ wr.cnt <= Blocks /\ ReadTime \in Nat
      /\ preview.age \in Nat /\ preview.age <= ReadTime
  BY DEF TypeOK
<1>6. preview.pending => Fits /\ Fits'
  <2>1. preview.pending => Fits
    BY <1>4 DEF ReadInv
  <2>2. Ahead' <= Ahead /\ Ahead' \in Nat /\ Ahead \in Nat
    BY <1>1, <1>2, <1>4, <1>3, <1>5 DEF Ahead
  <2> QED
    BY <1>1, <1>5, <2>1, <2>2 DEF Fits
<1>7. ~preview.pending => Fits'
  BY <1>1, <1>2, <1>4, <1>5 DEF Fits, Ahead
<1>8. Owed' <= Owed /\ Owed' \in Nat /\ Owed \in Nat
  BY <1>2, <1>3, <1>4, <1>6, <1>7 DEF Owed, OneIf
<1>9. ReadInv'
  BY <1>1, <1>2, <1>3, <1>4 DEF ReadInv
<1> QED
  BY <1>1, <1>8, <1>9, OwedLess

\* A loss of the lock may cost two, whatever it leaves behind.
LEMMA OwedLock == TypeOK /\ ReadInv /\ OwedInv /\ Lock => ReadInv' /\ OwedInv'
<1> SUFFICES ASSUME TypeOK, ReadInv, OwedInv, Lock PROVE ReadInv' /\ OwedInv'
  OBVIOUS
<1>1. UNCHANGED <<frame, wr, rd, mem, whole, seen, torn>>
  BY DEF Lock, LockLost, LockBack
<1>2. Owed \in Nat /\ Owed' \in Nat /\ Owed' <= 2
  BY DEF Owed, OneIf
<1>3. torn \in Nat /\ relocks \in Nat /\ torn + Owed <= 2 * relocks
  BY DEF OwedInv, TypeOK
<1>4. CASE LockLost
  <2>1. /\ ~preview'.locked /\ ~preview'.reading /\ ~preview'.pending /\ ~cdc'.sync
        /\ cdc'.toggle = cdc.toggle /\ cdc'.latest = cdc.latest /\ relocks' = relocks + 1
    BY <1>4 DEF LockLost, TypeOK
  <2>2. torn' + Owed' <= 2 * relocks'
    <3>1. torn + Owed' <= 2 * (relocks + 1)
      BY <1>2, <1>3, BudgetMore
    <3> QED
      BY <1>1, <2>1, <3>1
  <2>3. ReadInv'
    BY <1>1, <2>1 DEF ReadInv, Crossed
  <2> QED
    BY <2>2, <2>3 DEF OwedInv
<1>5. CASE LockBack
  <2>1. /\ ~preview.locked /\ ~preview.reading /\ ~preview.pending
        /\ ~preview'.reading /\ ~preview'.pending /\ cdc' = cdc /\ relocks' = relocks
    BY <1>5 DEF LockBack, ReadInv, TypeOK
  <2>2. Owed = 2
    BY <2>1 DEF Owed
  <2>3. torn' + Owed' <= 2 * relocks'
    <3>1. torn + Owed' <= 2 * relocks
      BY <1>2, <1>3, <2>2, Budget
    <3> QED
      BY <1>1, <2>1, <3>1
  <2>4. ReadInv'
    BY <1>1, <2>1 DEF ReadInv, Crossed
  <2> QED
    BY <2>3, <2>4 DEF OwedInv
<1> QED
  BY <1>4, <1>5 DEF Lock

LEMMA RelockInductive ==
  ASSUME Quick
  PROVE  Spec => []RelockInv
<1>1. RelockInv /\ [Next]_vars => RelockInv'
  <2> SUFFICES ASSUME RelockInv, [Next]_vars PROVE RelockInv'
    OBVIOUS
  <2>0. TypeOK /\ WrittenInv /\ ReadInv /\ OwedInv
    BY DEF RelockInv
  <2>1. CASE Next
    <3>1. TypeOK'
      BY <2>0, <2>1, CrossingType, CameraType, ReaderType DEF Next
    <3>2. WrittenInv'
      BY <2>0, <2>1, WrittenWriteBlock, WrittenFrameEnd, WrittenShortFrameEnd, WrittenOther
         DEF Next, Camera
    <3>3. ReadInv' /\ OwedInv'
      BY <2>0, <2>1, OwedSync, OwedFrameReady, OwedWriteBlock, OwedFrameEnd, OwedShortFrameEnd,
         OwedStartRead, OwedReadBlock, OwedEndRead, OwedLock
         DEF Next, Camera, Crossing, Reader
    <3> QED
      BY <3>1, <3>2, <3>3 DEF RelockInv
  <2>2. CASE UNCHANGED vars
    <3>1. TypeOK'
      BY <2>0, <2>2 DEF vars, TypeOK
    <3>2. /\ (Done' <=> Done) /\ (Waiting' <=> Waiting) /\ (Unread' <=> Unread)
          /\ (Crossed' <=> Crossed) /\ (Stays' <=> Stays) /\ (Left' <=> Left)
      BY <2>2 DEF vars, Done, Waiting, Unread, Crossed, Stays, Left
    <3>3. Ahead' = Ahead /\ (Fits' <=> Fits)
      BY <2>2, <3>2 DEF vars, Ahead, Fits
    <3>4. Owed' = Owed
      BY <2>2, <3>2, <3>3 DEF vars, Owed, OneIf
    <3>5. WrittenInv'
      BY <2>0, <2>2, <3>2 DEF vars, WrittenInv
    <3>6. ReadInv'
      BY <2>0, <2>2, <3>2, <3>3 DEF vars, ReadInv
    <3>7. OwedInv'
      BY <2>0, <2>2, <3>4 DEF vars, OwedInv
    <3> QED
      BY <3>1, <3>5, <3>6, <3>7 DEF RelockInv
  <2> QED
    BY <2>1, <2>2
<1>2. Init => RelockInv
  BY InitType, WrittenInit, OwedInit DEF RelockInv
<1> QED
  BY <1>1, <1>2, PTL DEF Spec

\* If a preview is read and sent within half a frame, it shows the last complete frame until
\* the lock is lost, whatever the size of a frame is.
THEOREM LastWholeFrameIsShown ==
  ASSUME Quick
  PROVE  Spec => []ShowsLastWholeFrame
<1>1. RelockInv => ShowsLastWholeFrame
  <2> SUFFICES ASSUME RelockInv, relocks = 0, preview.reading
               PROVE  seen \subseteq {whole} \ {0}
    BY DEF ShowsLastWholeFrame
  <2>1. whole > 0 /\ ~Stays /\ ~Waiting
    BY DEF RelockInv, ReadInv
  <2>3. seen \subseteq {whole}
    BY <2>1 DEF RelockInv, ReadInv
  <2> QED
    BY <2>1, <2>3
<1> QED
  BY <1>1, RelockInductive, PTL

\* Under the same assumption no preview mixes two frames before the lock is lost.
THEOREM NothingTorn ==
  ASSUME Quick
  PROVE  Spec => [](relocks = 0 => NoTearing)
<1>1. RelockInv => (relocks = 0 => NoTearing)
  <2> SUFFICES ASSUME RelockInv, relocks = 0 PROVE torn = 0
    BY DEF NoTearing
  <2>1. Owed \in Nat
    BY DEF Owed, OneIf
  <2> QED
    BY <2>1 DEF RelockInv, OwedInv, TypeOK
<1> QED
  BY <1>1, RelockInductive, PTL

\* However often the lock is lost, and in whatever state, each loss tears at most two previews
\* under the same assumption.
THEOREM EachRelockTearsAtMostTwo ==
  ASSUME Quick
  PROVE  Spec => []TwoTornPerRelock
<1>1. RelockInv => TwoTornPerRelock
  <2> SUFFICES ASSUME RelockInv PROVE torn <= 2 * relocks
    BY DEF TwoTornPerRelock
  <2>1. Owed \in Nat
    BY DEF Owed, OneIf
  <2>2. torn \in Nat /\ relocks \in Nat /\ torn + Owed <= 2 * relocks
    BY DEF RelockInv, OwedInv, TypeOK
  <2> QED
    BY <2>1, <2>2
<1> QED
  BY <1>1, RelockInductive, PTL
==============================================================================
