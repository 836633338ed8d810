-------------------------- MODULE StatusReplyProofs --------------------------
(***************************************************************************)
(* For every number of events kept, whatever the datagrams hold: a status  *)
(* reply is causal, though its parts are read one after the other.  For    *)
(* every set of records, commands, pictures and flipped bits: what one end *)
(* writes the other reads, the links of events lead to whole pictures, and *)
(* the images shown are those of the camera.                               *)
(***************************************************************************)
EXTENDS StatusReply, TLAPS, SequenceTheorems, FiniteSetTheorems

LEMMA FunctionIsSeq ==
    ASSUME NEW k \in Nat, NEW S, NEW f \in [1..k -> S]
    PROVE  f \in Seq(S) /\ Len(f) = k
OBVIOUS

LEMMA UpToMore ==
    ASSUME NEW texts, NEW n \in Nat, NEW m \in Nat, UpTo(texts, n), n <= m
    PROVE  UpTo(texts, m)
<1>1. \A i \in 1..Len(texts) : texts[i] \in Nat
  BY DEF UpTo
<1> QED BY <1>1 DEF UpTo

LEMMA KeptUpTo ==
    ASSUME NEW texts, NEW n \in Nat, NEW t \in 0..n, UpTo(texts, n)
    PROVE  UpTo(Kept(texts, t), n)
<1> DEFINE k == IF Len(texts) < EventsKept THEN Len(texts) + 1 ELSE EventsKept
<1>1. k \in Nat /\ \A i \in 1..k : i # 1 => i - 1 \in 1..Len(texts)
  BY KeptAssumption DEF UpTo
<1>2. \A i \in 1..k : (IF i = 1 THEN t ELSE texts[i - 1]) \in 0..n
  BY <1>1 DEF UpTo
<1>3. Kept(texts, t) \in [1..k -> 0..n]
  BY <1>2 DEF Kept
<1>4. Kept(texts, t) \in Seq(0..n) /\ Len(Kept(texts, t)) = k
  BY <1>1, <1>3
<1> QED BY <1>3, <1>4 DEF UpTo

LEMMA MoreTexts ==
    ASSUME NEW texts, NEW n \in Nat, NEW t \in 0..n, UpTo(texts, n)
    PROVE  UpTo(Append(texts, t), n)
BY AppendProperties DEF UpTo

LEMMA FewerTexts ==
    ASSUME NEW texts, NEW n \in Nat, UpTo(texts, n), texts # <<>>
    PROVE  UpTo(Tail(texts), n) /\ Head(texts) \in 0..n
<1>1. Tail(texts) \in Seq(Nat) /\ Len(Tail(texts)) = Len(texts) - 1
      /\ \A i \in 1..Len(Tail(texts)) : Tail(texts)[i] = texts[i + 1]
  BY HeadTailProperties DEF UpTo
<1>2. Len(texts) \in Nat /\ Len(texts) >= 1 /\ Head(texts) = texts[1] /\ texts[1] \in Nat
  BY HeadTailProperties, EmptySeq DEF UpTo
<1>3. \A i \in 1..Len(Tail(texts)) : i + 1 \in 1..Len(texts)
  BY <1>1, <1>2
<1> QED BY <1>1, <1>2, <1>3 DEF UpTo

LEMMA TableLater ==
    ASSUME NEW a, NEW n \in Nat, NEW m \in Nat, Table(a, n), n <= m
    PROVE  Table(a, m)
<1>1. \A i \in 1..Len(a.events) : a.events[i].nth \in 0..m
  BY DEF Table
<1> QED BY <1>1 DEF Table

\* A new event moves the table on by one.
LEMMA KeptTable ==
    ASSUME NEW a, NEW b, NEW e, NEW n \in Nat, Table(a, n),
           b.count = a.count + 1, b.events = Kept(a.events, e),
           e.no = a.count + 1, e.nth \in 0..n
    PROVE  Table(b, n)
<1> DEFINE len == Len(a.events)
           k == IF len < EventsKept THEN len + 1 ELSE EventsKept
           item(i) == IF i = 1 THEN e ELSE a.events[i - 1]
<1>1. len \in Nat /\ k \in Nat /\ a.count \in Nat
  BY KeptAssumption DEF Table
<1>2. b.events \in [1..k -> {item(i) : i \in 1..k}]
  BY DEF Kept
<1>3. b.events \in Seq({item(i) : i \in 1..k}) /\ Len(b.events) = k
  <2> HIDE DEF k, item
  <2> QED BY <1>1, <1>2, FunctionIsSeq
<1>4. k = IF b.count < EventsKept THEN b.count ELSE EventsKept
  BY <1>1, KeptAssumption DEF Table
<1>5. ASSUME NEW i \in 1..k
      PROVE  b.events[i].no = b.count - i + 1 /\ b.events[i].nth \in 0..n
  <2>1. b.events[i] = item(i)
    BY DEF Kept
  <2>2. CASE i = 1
    <3>1. b.events[i] = e /\ b.count - i + 1 = a.count + 1
      BY <1>1, <2>1, <2>2
    <3> QED BY <3>1
  <2>3. CASE i # 1
    <3>1. i - 1 \in 1..len
      BY <1>1, <2>3
    <3>2. a.events[i - 1].no = a.count - (i - 1) + 1 /\ a.events[i - 1].nth \in 0..n
      BY <3>1 DEF Table
    <3>3. b.events[i] = a.events[i - 1]
      BY <2>1, <2>3
    <3>4. a.count - (i - 1) + 1 = b.count - i + 1
      BY <1>1
    <3> QED BY <3>2, <3>3, <3>4
  <2> QED BY <2>2, <2>3
<1> QED BY <1>1, <1>3, <1>4, <1>5 DEF Table

\* Texts of alarms up to the last one are in the table.
LEMMA TextsInTable ==
    ASSUME NEW texts, NEW a, NEW n \in Nat, Table(a, n), UpTo(texts, a.count)
    PROVE  InTable(texts, a)
<1> SUFFICES ASSUME NEW i \in 1..Len(texts), texts[i] # Other, a.count - texts[i] < EventsKept
             PROVE  \E j \in 1..Len(a.events) : a.events[j].no = texts[i]
  BY DEF InTable, UpTo
<1>1. texts[i] \in Nat /\ texts[i] # 0 /\ texts[i] <= a.count /\ a.count \in Nat
  BY DEF UpTo, Table, Other
<1> DEFINE j == a.count - texts[i] + 1
<1>2. j \in 1..Len(a.events)
  BY <1>1, KeptAssumption DEF Table
<1>3. a.events[j].no = a.count - j + 1
  BY <1>2 DEF Table
<1>4. a.events[j].no = texts[i]
  BY <1>1, <1>3
<1> HIDE DEF j
<1> QED BY <1>2, <1>4

\* The records have their fields.
Fields ==
    /\ {"at", "nth", "then", "todo"} \subseteq DOMAIN rx
    /\ {"events"} \subseteq DOMAIN state
    /\ {"count", "events"} \subseteq DOMAIN alarm
    /\ {"completed"} \subseteq DOMAIN preview
    /\ {"at", "state", "alarm"} \subseteq DOMAIN http
IInv == Fields /\ CausalInv

LEMMA InitInv == Init => IInv
<1> SUFFICES ASSUME Init PROVE IInv
  OBVIOUS
<1>1. Fields
  BY DEF Init, Fields, Idle, NoState, NoAlarm, NoPreview, Accept
<1>2. UpTo(<<>>, 0)
  BY DEF UpTo
<1>3. preview.completed = 0 /\ rx.nth = 0 /\ rx.todo = <<>>
  BY DEF Init, Idle, NoPreview
<1>0. Pending
  BY DEF Init, Idle, Pending
<1>4. alarm.count = 0 /\ alarm.events = <<>> /\ state.events = <<>>
  BY DEF Init, NoState, NoAlarm
<1>5. Table(alarm, 0)
  BY <1>4, KeptAssumption DEF Table
<1>6. http.at = "accept" /\ ReplyIsCausal
  BY DEF Init, Accept, NoReply, ReplyIsCausal
<1> QED BY <1>0, <1>1, <1>2, <1>3, <1>4, <1>5, <1>6 DEF IInv, CausalInv

\* rx_loop between two sections, or in one that adds nothing to the lists.
LEMMA RxOnly ==
    ASSUME IInv, UNCHANGED <<alarm, http>>, reply' = NoReply,
           {"events"} \subseteq DOMAIN state', state'.events = state.events,
           {"completed"} \subseteq DOMAIN preview', preview'.completed = preview.completed,
           {"at", "nth", "then", "todo"} \subseteq DOMAIN rx',
           rx'.nth \in 0..preview.completed, UpTo(rx'.todo, alarm.count),
           Pending'
    PROVE  IInv'
<1>1. Fields'
  BY DEF IInv, Fields
<1>2. ReplyIsCausal'
  BY DEF ReplyIsCausal, NoReply
<1> QED BY <1>1, <1>2 DEF IInv, CausalInv, Table, UpTo

LEMMA Texts ==
    ASSUME IInv
    PROVE  alarm.count \in Nat /\ preview.completed \in Nat
           /\ UpTo(<<>>, alarm.count) /\ UpTo(OnlineText, alarm.count)
<1>1. alarm.count \in Nat /\ preview.completed \in Nat
  BY DEF IInv, CausalInv, Table
<1> QED BY <1>1 DEF UpTo, OnlineText, Other

\* A datagram comes: the local variables start anew.
LEMMA Received ==
    ASSUME IInv, TelemetryArrives \/ PreviewArrives, reply' = NoReply
    PROVE  IInv'
<1>1. UNCHANGED <<state, alarm, preview, http>>
  BY DEF TelemetryArrives, PreviewArrives, RxTelemetry, RxPreview
<1>2. rx'.nth = 0 /\ rx'.todo = <<>> /\ {"at", "nth", "then", "todo"} \subseteq DOMAIN rx'
  BY DEF TelemetryArrives, PreviewArrives, RxTelemetry, RxPreview, Idle
<1>3. rx'.nth \in 0..preview.completed /\ UpTo(rx'.todo, alarm.count)
  BY <1>2, Texts
<1>4. Pending'
  BY DEF TelemetryArrives, PreviewArrives, RxTelemetry, RxPreview, Idle, Pending
<1> QED BY <1>1, <1>2, <1>3, <1>4, RxOnly DEF IInv, Fields

\* The sections of rx_loop that leave the lists and the number of pictures as they are.
LEMMA Prepared ==
    ASSUME IInv, StoreTelemetry \/ TakePicture \/ StoreChunk \/ SnapshotDue, reply' = NoReply
    PROVE  IInv'
<1>1. Fields /\ rx.nth \in 0..preview.completed /\ UpTo(rx.todo, alarm.count) /\ Pending
  BY DEF IInv, CausalInv
<1>0. Pending'
  <2>1. CASE StoreTelemetry
    BY <1>1, <2>1 DEF StoreTelemetry, Fields, Pending
  <2>2. CASE TakePicture
    BY <1>1, <2>2 DEF TakePicture, Fields, Pending
  <2>3. CASE StoreChunk
    BY <1>1, <2>3 DEF StoreChunk, Fields, Pending
  <2>4. CASE SnapshotDue
    <3>1. rx' = [rx EXCEPT !.at = "write", !.name = Latest] \/ rx' = Idle
      BY <2>4 DEF SnapshotDue
    <3>2. CASE rx' = Idle
      BY <3>2 DEF Idle, Pending
    <3>3. CASE rx' = [rx EXCEPT !.at = "write", !.name = Latest]
      BY <1>1, <3>3 DEF Fields, Pending
    <3> QED BY <3>1, <3>2, <3>3
  <2> QED BY <2>1, <2>2, <2>3, <2>4
<1>2. CASE StoreTelemetry
  BY <1>0, <1>1, <1>2, Texts, RxOnly DEF StoreTelemetry, Fields
<1>3. CASE TakePicture
  BY <1>0, <1>1, <1>3, Texts, RxOnly DEF TakePicture, Fields
<1>4. CASE StoreChunk
  BY <1>0, <1>1, <1>4, Texts, RxOnly DEF StoreChunk, Fields
<1>5. CASE SnapshotDue
  <2>1. rx'.nth \in {rx.nth, 0} /\ rx'.todo \in {rx.todo, <<>>}
        /\ {"at", "nth", "then", "todo"} \subseteq DOMAIN rx'
    BY <1>1, <1>5 DEF SnapshotDue, Fields, Idle
  <2>2. preview'.completed = preview.completed /\ {"completed"} \subseteq DOMAIN preview'
        /\ UNCHANGED <<state, alarm, http>>
    BY <1>1, <1>5 DEF SnapshotDue, Fields
  <2> QED BY <1>0, <1>1, <2>1, <2>2, Texts, RxOnly DEF Fields
<1> QED BY <1>2, <1>3, <1>4, <1>5

\* The files.
LEMMA WrittenOut ==
    ASSUME IInv, reply' = NoReply,
           WriteTemporary \/ WriteUnnoticed \/ WriteFails \/ RenameFile \/ RenameFails \/ CopyFile
    PROVE  IInv'
<1>1. UNCHANGED <<state, alarm, preview, http>>
  BY DEF WriteTemporary, WriteUnnoticed, WriteFails, RenameFile, RenameFails, CopyFile, WriteStep
<1>2. (\E at \in {"rename", "copy"} : rx' = [rx EXCEPT !.at = at]) \/ \E ok \in BOOLEAN : rx' = Written(ok)
  BY DEF WriteTemporary, WriteUnnoticed, WriteFails, RenameFile, RenameFails, CopyFile
<1>3. Fields /\ rx.nth \in 0..preview.completed /\ UpTo(rx.todo, alarm.count) /\ Pending
  BY DEF IInv, CausalInv
<1>5. Pending'
  <2>1. rx'.then \in {rx.then, "recv"} /\ rx'.at # "text"
    <3>1. \A ok \in BOOLEAN : rx' = Written(ok) => (rx'.then \in {rx.then, "recv"} /\ rx'.at # "text")
      BY <1>3 DEF Written, Fields, Idle
    <3>2. ASSUME NEW at \in {"rename", "copy"}, rx' = [rx EXCEPT !.at = at]
          PROVE  rx'.then \in {rx.then, "recv"} /\ rx'.at # "text"
      BY <1>3, <3>2 DEF Fields
    <3> QED BY <1>2, <3>1, <3>2
  <2> QED BY <1>3, <2>1 DEF Pending
<1>4. rx'.nth \in {rx.nth, 0} /\ rx'.todo \in {rx.todo, <<>>}
      /\ {"at", "nth", "then", "todo"} \subseteq DOMAIN rx'
  <2>1. CASE \E at \in {"rename", "copy"} : rx' = [rx EXCEPT !.at = at]
    BY <1>3, <2>1 DEF Fields
  <2>2. ASSUME NEW ok \in BOOLEAN, rx' = Written(ok)
        PROVE  rx'.nth \in {rx.nth, 0} /\ rx'.todo \in {rx.todo, <<>>}
               /\ {"at", "nth", "then", "todo"} \subseteq DOMAIN rx'
    BY <1>3, <2>2 DEF Written, Fields, Idle
  <2> QED BY <1>2, <2>1, <2>2
<1> QED BY <1>1, <1>3, <1>4, <1>5, Texts, RxOnly DEF Fields

\* The edge of an alarm, and the end of a picture.
LEMMA AlarmNoted ==
    ASSUME IInv, AlarmEdge, reply' = NoReply
    PROVE  IInv'
<1>1. Fields /\ CausalInv
  BY DEF IInv
<1>2. alarm'.count = alarm.count /\ alarm'.events = alarm.events
      /\ {"count", "events"} \subseteq DOMAIN alarm'
  BY <1>1 DEF AlarmEdge, Fields
<1>3. rx'.nth = rx.nth /\ rx'.todo = rx.todo /\ {"at", "nth", "then", "todo"} \subseteq DOMAIN rx'
  BY <1>1 DEF AlarmEdge, Fields
<1>0. Pending'
  BY <1>1 DEF AlarmEdge, ToText, Fields, CausalInv, Pending
<1>4. UNCHANGED <<state, preview, http>>
  BY DEF AlarmEdge
<1>5. Fields'
  BY <1>1, <1>2, <1>3, <1>4 DEF Fields
<1>6. ReplyIsCausal'
  BY DEF ReplyIsCausal, NoReply
<1> QED BY <1>0, <1>1, <1>2, <1>3, <1>4, <1>5, <1>6 DEF IInv, CausalInv, Table, UpTo

LEMMA Assembled ==
    ASSUME IInv, Assemble, reply' = NoReply
    PROVE  IInv'
<1>1. Fields /\ CausalInv
  BY DEF IInv
<1>2. preview.completed \in Nat /\ preview'.completed \in Nat
      /\ preview.completed <= preview'.completed /\ {"completed"} \subseteq DOMAIN preview'
  BY <1>1 DEF Assemble, Fields, CausalInv
<1>3. rx'.nth = rx.nth /\ rx'.todo = rx.todo /\ {"at", "nth", "then", "todo"} \subseteq DOMAIN rx'
  BY <1>1 DEF Assemble, Fields
<1>0. Pending'
  BY <1>1 DEF Assemble, ToText, Fields, Pending
<1>4. UNCHANGED <<state, alarm, http>>
  BY DEF Assemble
<1>5. Fields'
  BY <1>1, <1>2, <1>3, <1>4 DEF Fields
<1>6. Table(alarm, preview'.completed)
  BY <1>1, <1>2, TableLater DEF CausalInv
<1>7. http.at = "preview" => Table(http.alarm, preview'.completed)
  BY <1>1, <1>2, TableLater DEF CausalInv
<1>8. ReplyIsCausal'
  BY DEF ReplyIsCausal, NoReply
<1>9. rx'.nth \in 0..preview'.completed
  BY <1>1, <1>2, <1>3 DEF CausalInv
<1> QED BY <1>0, <1>1, <1>2, <1>3, <1>4, <1>5, <1>6, <1>7, <1>8, <1>9 DEF IInv, CausalInv

\* A new event: all texts so far tell of earlier ones.
LEMMA EventPushed ==
    ASSUME IInv, PushEvent, reply' = NoReply
    PROVE  IInv'
<1>1. Fields /\ CausalInv /\ alarm.count \in Nat /\ preview.completed \in Nat
  BY Texts DEF IInv
<1>2. UNCHANGED <<state, preview, http>>
  BY DEF PushEvent
<1>3. alarm'.count = alarm.count + 1 /\ {"count", "events"} \subseteq DOMAIN alarm'
  BY <1>1 DEF PushEvent, Fields
<1>4. Table(alarm', preview.completed)
  <2> DEFINE e == [no |-> alarm.count + 1, url |-> rx.url, frame |-> rx.packet.frame_id,
                   shot |-> rx.payload, nth |-> rx.nth]
  <2>1. alarm'.events = Kept(alarm.events, e)
    BY <1>1 DEF PushEvent, Fields
  <2>2. e.no = alarm.count + 1 /\ e.nth \in 0..preview.completed
    BY <1>1 DEF CausalInv
  <2>3. Table(alarm, preview.completed)
    BY <1>1 DEF CausalInv
  <2> HIDE DEF e
  <2> QED BY <1>1, <1>3, <2>1, <2>2, <2>3, KeptTable
<1>5. UpTo(state.events, alarm'.count) /\ UpTo(rx.todo, alarm'.count)
  BY <1>1, <1>3, UpToMore DEF CausalInv
<1>6. http.at = "alarm" => UpTo(http.state.events, alarm'.count)
  BY <1>1, <1>3, UpToMore DEF CausalInv
<1>7. rx'.nth = rx.nth /\ rx'.todo = Append(rx.todo, alarm'.count)
      /\ {"at", "nth", "then", "todo"} \subseteq DOMAIN rx'
  BY <1>1, <1>3 DEF PushEvent, Fields
<1>8. UpTo(rx'.todo, alarm'.count)
  BY <1>1, <1>3, <1>5, <1>7, MoreTexts
<1>0. Pending'
  <2>1. rx.then # "text" /\ rx'.then = rx.then
    BY <1>1 DEF PushEvent, Fields, CausalInv, Pending
  <2>2. Len(Append(rx.todo, alarm'.count)) = Len(rx.todo) + 1 /\ Len(rx.todo) \in Nat
    BY <1>1, <1>3, <1>5, AppendProperties DEF UpTo
  <2> DEFINE longer == Append(rx.todo, alarm'.count)
  <2>3. Len(<<>>) = 0 /\ Len(longer) # 0
    BY <2>2
  <2>4. longer # <<>>
    <3> HIDE DEF longer
    <3> QED BY <2>3
  <2> QED BY <1>7, <2>1, <2>4 DEF Pending
<1>9. Fields' /\ ReplyIsCausal'
  BY <1>1, <1>2, <1>3, <1>7 DEF Fields, ReplyIsCausal, NoReply
<1> QED BY <1>0, <1>1, <1>2, <1>4, <1>5, <1>6, <1>7, <1>8, <1>9 DEF IInv, CausalInv

\* A text joins the recent events: one of rx_loop's, or one of no alarm.
LEMMA Told ==
    ASSUME IInv, NEW t \in 0..alarm.count, state' = Recorded(state, t),
           UNCHANGED <<alarm, preview, http>>,
           {"at", "nth", "then", "todo"} \subseteq DOMAIN rx', rx'.nth = rx.nth,
           UpTo(rx'.todo, alarm.count), Pending',
           reply'.kind # "status"
    PROVE  IInv'
<1>1. Fields /\ CausalInv /\ alarm.count \in Nat
  BY Texts DEF IInv
<1>2. {"events"} \subseteq DOMAIN state' /\ state'.events = Kept(state.events, t)
  BY <1>1 DEF Recorded, Fields
<1>3. UpTo(state'.events, alarm.count)
  BY <1>1, <1>2, KeptUpTo DEF CausalInv
<1>4. Fields' /\ ReplyIsCausal'
  BY <1>1, <1>2 DEF Fields, ReplyIsCausal
<1> QED BY <1>1, <1>3, <1>4 DEF IInv, CausalInv

LEMMA TextRecorded ==
    ASSUME IInv, RecordText, reply' = NoReply
    PROVE  IInv'
<1>1. Fields /\ CausalInv /\ alarm.count \in Nat
  BY Texts DEF IInv
<1>2. UpTo(Tail(rx.todo), alarm.count) /\ Head(rx.todo) \in 0..alarm.count
  BY <1>1, FewerTexts DEF CausalInv, Pending, RecordText
<1>3. state' = Recorded(state, Head(rx.todo)) /\ UNCHANGED <<alarm, preview, http>>
  BY DEF RecordText
<1>4. rx'.nth = rx.nth /\ rx'.todo = Tail(rx.todo) /\ {"at", "nth", "then", "todo"} \subseteq DOMAIN rx'
  BY <1>1 DEF RecordText, Fields
<1>5. reply'.kind # "status"
  BY DEF NoReply
<1>6. Pending'
  BY <1>1 DEF RecordText, ToText, Fields, CausalInv, Pending
<1> QED BY <1>2, <1>3, <1>4, <1>5, <1>6, Told

\* A text of no alarm: the node went offline, or a command was sent.
LEMMA OtherTold ==
    ASSUME IInv, MarkOffline \/ \E c \in Commands : SendCommand(c),
           reply'.kind # "status"
    PROVE  IInv'
<1>1. state' = Recorded(state, Other) /\ UNCHANGED <<alarm, preview, rx, http>>
  BY DEF MarkOffline, SendCommand, HttpStep
<1>3. Other \in 0..alarm.count
  BY Texts DEF Other
<1>4. {"at", "nth", "then", "todo"} \subseteq DOMAIN rx /\ UpTo(rx.todo, alarm.count) /\ Pending
  BY DEF IInv, Fields, CausalInv
<1> QED BY <1>1, <1>3, <1>4, Told DEF Pending

\* The reply: what is read later has all that what was read earlier refers to.
LEMMA PartRead ==
    ASSUME IInv, ReadState \/ ReadAlarm, reply' = NoReply
    PROVE  IInv'
<1>1. Fields /\ CausalInv /\ UNCHANGED <<state, alarm, preview, rx>>
  BY DEF IInv, ReadState, ReadAlarm, HttpStep
<1>2. ReplyIsCausal' /\ Fields'
  BY <1>1 DEF ReplyIsCausal, NoReply, Fields, ReadState, ReadAlarm, Accept
<1>3. CASE ReadState
  <2>1. http'.at = "alarm" /\ http'.state = state
    BY <1>3 DEF ReadState, Accept
  <2> QED BY <1>1, <1>2, <2>1 DEF IInv, CausalInv, Pending
<1>4. CASE ReadAlarm
  <2>1. http.at = "alarm" /\ http'.at = "preview" /\ http'.alarm = alarm
        /\ http'.state = http.state
    BY <1>1, <1>4 DEF ReadAlarm, Fields
  <2> QED BY <1>1, <1>2, <2>1 DEF IInv, CausalInv, Pending
<1> QED BY <1>3, <1>4

LEMMA Replied ==
    ASSUME IInv, ReadPreview
    PROVE  IInv'
<1>1. Fields /\ CausalInv /\ UNCHANGED <<state, alarm, preview, rx>>
  BY DEF IInv, ReadPreview, HttpStep
<1>2. http.at = "preview" /\ http' = Accept
      /\ reply' = [kind |-> "status", state |-> http.state, alarm |-> http.alarm,
                   preview |-> preview]
  BY DEF ReadPreview
<1>3. UpTo(http.state.events, http.alarm.count) /\ Table(http.alarm, preview.completed)
      /\ preview.completed \in Nat
  BY <1>1, <1>2 DEF CausalInv
<1>4. InTable(http.state.events, http.alarm)
  BY <1>3, TextsInTable
<1>5. \A i \in 1..Len(http.alarm.events) :
          http.alarm.events[i].nth <= preview.completed
  BY <1>3 DEF Table
<1>6. ReplyIsCausal'
  BY <1>2, <1>4, <1>5 DEF ReplyIsCausal
<1>7. http'.at = "accept" /\ Fields'
  BY <1>1, <1>2 DEF Accept, Fields
<1> QED BY <1>1, <1>6, <1>7 DEF IInv, CausalInv, Pending

LEMMA ImageServed ==
    ASSUME IInv, ServePreview
    PROVE  IInv'
<1>1. Fields /\ CausalInv /\ UNCHANGED <<state, alarm, preview, rx, http>>
      /\ reply'.kind # "status"
  BY DEF IInv, ServePreview, HttpStep
<1> QED BY <1>1 DEF IInv, Fields, CausalInv, Pending, ReplyIsCausal

LEMMA NothingHappens ==
    ASSUME IInv, UNCHANGED vars
    PROVE  IInv'
BY DEF vars, IInv, Fields, CausalInv, Pending, ReplyIsCausal

LEMMA NextInv ==
    ASSUME IInv, [Next]_vars
    PROVE  IInv'
<1>1. CASE UNCHANGED vars
  BY <1>1, NothingHappens
<1>2. CASE RxStep /\ reply' = NoReply
  BY <1>2, Prepared, WrittenOut, AlarmNoted, Assembled, EventPushed, TextRecorded DEF RxStep
<1>3. CASE (TelemetryArrives \/ PreviewArrives) /\ reply' = NoReply
  BY <1>3, Received
<1>4. CASE MarkOffline /\ reply' = NoReply
  BY <1>4, OtherTold DEF NoReply
<1>5. CASE (ReadState \/ ReadAlarm) /\ reply' = NoReply
  BY <1>5, PartRead
<1>6. CASE ReadPreview
  BY <1>6, Replied
<1>7. CASE ServePreview
  BY <1>7, ImageServed
<1>8. ASSUME NEW c \in Commands, SendCommand(c)
      PROVE  IInv'
  <2>1. reply'.kind # "status"
    BY <1>8 DEF SendCommand
  <2> QED BY <1>8, <2>1, OtherTold
<1> QED BY <1>1, <1>2, <1>3, <1>4, <1>5, <1>6, <1>7, <1>8 DEF Next, Quiet, Replies

\* A browser that asks for the status while alarms arrive gets a reply that agrees with
\* itself, whatever the datagrams hold and however many events are kept: what an earlier
\* part of it refers to is in the parts that status_json reads later.
THEOREM RepliesAreCausal == Spec => []ReplyIsCausal
<1>1. IInv /\ [Next]_vars => IInv'
  BY NextInv
<1>2. IInv => ReplyIsCausal
  BY DEF IInv, CausalInv
<1> QED BY InitInv, <1>1, <1>2, PTL DEF Spec

-----------------------------------------------------------------------------
(***************************************************************************)
(* The packets: what is written is read back, and damage is seen.          *)
(***************************************************************************)
LEMMA Places ==
    \A i \in 0..7 :
        \/ (i = 0 /\ 2^i = 1) \/ (i = 1 /\ 2^i = 2) \/ (i = 2 /\ 2^i = 4) \/ (i = 3 /\ 2^i = 8)
        \/ (i = 4 /\ 2^i = 16) \/ (i = 5 /\ 2^i = 32) \/ (i = 6 /\ 2^i = 64)
        \/ (i = 7 /\ 2^i = 128)
<1>1. 2^0 = 1 /\ 2^1 = 2 /\ 2^2 = 4 /\ 2^3 = 8
  OBVIOUS
<1>2. 2^4 = 16 /\ 2^5 = 32 /\ 2^6 = 64 /\ 2^7 = 128
  OBVIOUS
<1>3. \A i \in 0..7 : i = 0 \/ i = 1 \/ i = 2 \/ i = 3 \/ i = 4 \/ i = 5 \/ i = 6 \/ i = 7
  OBVIOUS
<1> TAKE i \in 0..7
<1>4. CASE i = 0
  BY ONLY <1>1, <1>4, Zenon
<1>5. CASE i = 1
  BY ONLY <1>1, <1>5, Zenon
<1>6. CASE i = 2
  BY ONLY <1>1, <1>6, Zenon
<1>7. CASE i = 3
  BY ONLY <1>1, <1>7, Zenon
<1>8. CASE i = 4
  BY ONLY <1>2, <1>8, Zenon
<1>9. CASE i = 5
  BY ONLY <1>2, <1>9, Zenon
<1>10. CASE i = 6
  BY ONLY <1>2, <1>10, Zenon
<1>11. CASE i = 7
  BY ONLY <1>2, <1>11, Zenon
<1> QED BY <1>3, <1>4, <1>5, <1>6, <1>7, <1>8, <1>9, <1>10, <1>11

LEMMA BitsKept ==
    ASSUME NEW bits \in [0..7 -> 0..1]
    PROVE  ByteOf(bits) \in Byte /\ \A i \in 0..7 : Bit(ByteOf(bits), i) = bits[i]
<1>1. PICK a \in 0..1, b \in 0..1, c \in 0..1, d \in 0..1 :
          a = bits[0] /\ b = bits[1] /\ c = bits[2] /\ d = bits[3]
  OBVIOUS
<1>2. PICK e \in 0..1, f \in 0..1, g \in 0..1, h \in 0..1 :
          e = bits[4] /\ f = bits[5] /\ g = bits[6] /\ h = bits[7]
  OBVIOUS
<1>3. PICK u \in 0..15 : u = a + 2 * b + 4 * c + 8 * d
  OBVIOUS
<1>4. PICK w \in 0..15 : w = e + 2 * f + 4 * g + 8 * h
  OBVIOUS
<1>5. PICK v \in Int : v = u + 16 * w
  OBVIOUS
<1>6. v = ByteOf(bits)
  BY <1>1, <1>2, <1>3, <1>4, <1>5 DEF ByteOf
<1>7. u % 2 = a /\ (u \div 2) % 2 = b /\ (u \div 4) % 2 = c /\ (u \div 8) % 2 = d
  BY ONLY <1>3
<1>8. w % 2 = e /\ (w \div 2) % 2 = f /\ (w \div 4) % 2 = g /\ (w \div 8) % 2 = h
  BY ONLY <1>4
<1>9. v \in 0..255
  BY ONLY <1>5
<1>10. v % 2 = u % 2 /\ (v \div 2) % 2 = (u \div 2) % 2 /\ (v \div 4) % 2 = (u \div 4) % 2
       /\ (v \div 8) % 2 = (u \div 8) % 2
  BY ONLY <1>5
<1>11. v \div 16 = w /\ v \div 32 = w \div 2 /\ v \div 64 = w \div 4 /\ v \div 128 = w \div 8
  BY ONLY <1>5
<1>12. v \div 1 = v
  OBVIOUS
<1>13. \A i \in 0..7 : Bit(v, i) = bits[i]
  <2> TAKE i \in 0..7
  <2>1. Bit(v, i) = (v \div 2^i) % 2
    BY DEF Bit
  <2>2. \/ (i = 0 /\ 2^i = 1) \/ (i = 1 /\ 2^i = 2) \/ (i = 2 /\ 2^i = 4) \/ (i = 3 /\ 2^i = 8)
        \/ (i = 4 /\ 2^i = 16) \/ (i = 5 /\ 2^i = 32) \/ (i = 6 /\ 2^i = 64)
        \/ (i = 7 /\ 2^i = 128)
    BY Places
  <2> QED BY ONLY <1>1, <1>2, <1>7, <1>8, <1>10, <1>11, <1>12, <2>1, <2>2
<1> QED BY <1>6, <1>9, <1>13 DEF Byte

LEMMA BitTypes == \A v \in Byte : \A i \in 0..7 : Bit(v, i) \in 0..1
BY Places DEF Bit, Byte

\* A byte that is not zero has a bit.
LEMMA HasBit == \A v \in Byte : v # 0 => \E i \in 0..7 : Bit(v, i) = 1
<1> SUFFICES ASSUME NEW v \in Byte, \A i \in 0..7 : Bit(v, i) # 1
             PROVE  v = 0
  OBVIOUS
<1>1. \A i \in 0..7 : Bit(v, i) = 0
  BY BitTypes
<1>2. (v \div 1) % 2 = 0 /\ (v \div 2) % 2 = 0 /\ (v \div 4) % 2 = 0 /\ (v \div 8) % 2 = 0
      /\ (v \div 16) % 2 = 0 /\ (v \div 32) % 2 = 0 /\ (v \div 64) % 2 = 0 /\ (v \div 128) % 2 = 0
  <2>1. 0 \in 0..7 /\ 1 \in 0..7 /\ 2 \in 0..7 /\ 3 \in 0..7 /\ 4 \in 0..7 /\ 5 \in 0..7 /\ 6 \in 0..7 /\ 7 \in 0..7
    OBVIOUS
  <2>2. 2^0 = 1 /\ 2^1 = 2 /\ 2^2 = 4 /\ 2^3 = 8 /\ 2^4 = 16 /\ 2^5 = 32 /\ 2^6 = 64 /\ 2^7 = 128
    OBVIOUS
  <2> QED BY <1>1, <2>1, <2>2 DEF Bit
<1> QED BY <1>2 DEF Byte

LEMMA XorBits ==
    ASSUME NEW a \in Byte, NEW b \in Byte
    PROVE  Xor(a, b) \in Byte
           /\ \A i \in 0..7 : Bit(Xor(a, b), i) = (Bit(a, i) + Bit(b, i)) % 2
<1> DEFINE bits == [i \in 0..7 |-> (Bit(a, i) + Bit(b, i)) % 2]
<1>1. \A i \in 0..7 : Bit(a, i) \in 0..1 /\ Bit(b, i) \in 0..1
  BY BitTypes
<1>2. \A i \in 0..7 : (Bit(a, i) + Bit(b, i)) % 2 \in 0..1
  BY <1>1
<1>3. bits \in [0..7 -> 0..1]
  BY <1>2
<1> HIDE DEF bits
<1>4. ByteOf(bits) \in Byte /\ \A i \in 0..7 : Bit(ByteOf(bits), i) = bits[i]
  BY <1>3, BitsKept
<1> QED BY <1>4 DEF Xor, bits

\* Damage to a byte changes one of its bits.
LEMMA XorDiffers ==
    ASSUME NEW a \in Byte, NEW x \in 1..255
    PROVE  \E i \in 0..7 : Bit(Xor(a, x), i) = 1 - Bit(a, i)
<1>1. x \in Byte /\ x # 0
  BY DEF Byte
<1>2. PICK i \in 0..7 : Bit(x, i) = 1
  BY <1>1, HasBit
<1>3. Bit(a, i) \in 0..1 /\ Bit(Xor(a, x), i) = (Bit(a, i) + 1) % 2
  BY <1>1, <1>2, XorBits, BitTypes
<1>4. Bit(Xor(a, x), i) = 1 - Bit(a, i)
  BY <1>3
<1> QED BY <1>4

\* The bytes that have a bit, and what the checksum makes of them.
Having(d, len, i) == {k \in 1..len : Bit(d[k], i) = 1}

LEMMA SumBits ==
    ASSUME NEW d, NEW len \in Nat
    PROVE  /\ \A i \in 0..7 : IsFiniteSet(Having(d, len, i)) /\ Cardinality(Having(d, len, i)) \in Nat
           /\ xor_checksum(d, len) \in Byte
           /\ \A i \in 0..7 :
                  Bit(xor_checksum(d, len), i) = Cardinality(Having(d, len, i)) % 2
<1>1. ASSUME NEW i \in 0..7
      PROVE  IsFiniteSet(Having(d, len, i)) /\ Cardinality(Having(d, len, i)) \in Nat
  <2>1. IsFiniteSet(1..len)
    BY FS_Interval
  <2>2. IsFiniteSet(Having(d, len, i))
    BY <2>1, FS_Subset DEF Having
  <2> QED BY <2>2, FS_CardinalityType
<1> DEFINE bits == [i \in 0..7 |-> Cardinality(Having(d, len, i)) % 2]
<1>2. \A i \in 0..7 : Cardinality(Having(d, len, i)) % 2 \in 0..1
  BY <1>1
<1>3. bits \in [0..7 -> 0..1]
  BY <1>2
<1>4. xor_checksum(d, len) = ByteOf(bits)
  BY DEF xor_checksum, Having
<1> HIDE DEF bits
<1>5. ByteOf(bits) \in Byte /\ \A i \in 0..7 : Bit(ByteOf(bits), i) = bits[i]
  BY <1>3, BitsKept
<1> QED BY <1>1, <1>4, <1>5 DEF bits

\* It is that of the bytes it sums.
LEMMA SumSame ==
    ASSUME NEW d, NEW e, NEW len \in Nat, \A k \in 1..len : d[k] = e[k]
    PROVE  xor_checksum(d, len) = xor_checksum(e, len)
<1>1. \A i \in 0..7 : {k \in 1..len : Bit(d[k], i) = 1} = {k \in 1..len : Bit(e[k], i) = 1}
  OBVIOUS
<1> QED BY <1>1 DEF xor_checksum

\* When one byte changes, so does the checksum, in every bit in which the byte does.
LEMMA SumDamaged ==
    ASSUME NEW d, NEW e, NEW len \in Nat, NEW n \in 1..len, NEW i \in 0..7,
           \A k \in 1..len : k # n => d[k] = e[k],
           Bit(d[n], i) \in 0..1, Bit(e[n], i) = 1 - Bit(d[n], i)
    PROVE  xor_checksum(d, len) # xor_checksum(e, len)
<1> DEFINE S == Having(d, len, i)
           T == Having(e, len, i)
<1>1. IsFiniteSet(S) /\ Cardinality(S) \in Nat /\ IsFiniteSet(T) /\ Cardinality(T) \in Nat
  BY SumBits
<1>2. \A k \in 1..len : k # n => (Bit(d[k], i) = 1 <=> Bit(e[k], i) = 1)
  OBVIOUS
<1>3. CASE Bit(d[n], i) = 1
  <2>1. Bit(e[n], i) = 0
    BY <1>3
  <2>2. S = T \cup {n} /\ n \notin T
    BY <1>2, <1>3, <2>1 DEF Having
  <2> HIDE DEF S, T
  <2>3. Cardinality(S) = Cardinality(T) + 1
    BY <1>1, <2>2, FS_AddElement
  <2>4. Cardinality(S) % 2 # Cardinality(T) % 2
    BY <1>1, <2>3
  <2> QED BY <2>4, SumBits DEF S, T
<1>4. CASE Bit(d[n], i) = 0
  <2>1. Bit(e[n], i) = 1
    BY <1>4
  <2>2. T = S \cup {n} /\ n \notin S
    BY <1>2, <1>4, <2>1 DEF Having
  <2> HIDE DEF S, T
  <2>3. Cardinality(T) = Cardinality(S) + 1
    BY <1>1, <2>2, FS_AddElement
  <2>4. Cardinality(S) % 2 # Cardinality(T) % 2
    BY <1>1, <2>3
  <2> QED BY <2>4, SumBits DEF S, T
<1> QED BY <1>3, <1>4

\* Bytes and numbers.
LEMMA HighLow ==
    ASSUME NEW v \in Word
    PROVE  /\ (v \div 256) % 256 \in Byte /\ v % 256 \in Byte
           /\ 256 * ((v \div 256) % 256) + (v % 256) = v
<1>1. v \div 256 \in Nat /\ v \div 256 < 256
  BY SMT DEF Word
<1>2. (v \div 256) % 256 = v \div 256
  BY <1>1, SMT
<1>3. v \in Nat /\ v % 256 \in Nat /\ v % 256 < 256 /\ 256 * (v \div 256) + (v % 256) = v
  BY SMT DEF Word
<1> QED BY <1>1, <1>2, <1>3, SMT DEF Byte

LEMMA Pair ==
    ASSUME NEW S, NEW a \in S, NEW b \in S
    PROVE  <<a, b>> \in Seq(S) /\ Len(<<a, b>>) = 2 /\ <<a, b>>[1] = a /\ <<a, b>>[2] = b
OBVIOUS

LEMMA BytesOf16 ==
    ASSUME NEW v \in Word
    PROVE  /\ Be16(v) \in Seq(Byte) /\ Len(Be16(v)) = 2
           /\ 256 * Be16(v)[1] + Be16(v)[2] = v
<1> DEFINE a == (v \div 256) % 256
           b == v % 256
<1>1. a \in Byte /\ b \in Byte /\ 256 * a + b = v
  BY HighLow
<1>2. Be16(v) = <<a, b>>
  BY DEF Be16
<1> HIDE DEF a, b
<1>3. <<a, b>> \in Seq(Byte) /\ Len(<<a, b>>) = 2 /\ <<a, b>>[1] = a /\ <<a, b>>[2] = b
  BY <1>1, Pair
<1> QED BY <1>1, <1>2, <1>3

LEMMA Halves ==
    ASSUME NEW v \in Long
    PROVE  /\ v \div 65536 \in Word /\ v % 65536 \in Word
           /\ 65536 * (v \div 65536) + (v % 65536) = v
<1>1. v \in Nat /\ v \div 65536 < 65536
  BY SMT DEF Long
<1>2. v \div 65536 \in Nat /\ v % 65536 \in Nat /\ v % 65536 < 65536
  BY <1>1, SMT
<1>3. 65536 * (v \div 65536) + (v % 65536) = v
  BY <1>1, SMT
<1> QED BY <1>1, <1>2, <1>3, SMT DEF Word

LEMMA Joined ==
    ASSUME NEW s \in Seq(Byte), NEW t \in Seq(Byte)
    PROVE  /\ s \o t \in Seq(Byte) /\ Len(s \o t) = Len(s) + Len(t)
           /\ \A k \in 1..Len(s) : (s \o t)[k] = s[k]
           /\ \A k \in 1..Len(t) : (s \o t)[Len(s) + k] = t[k]
<1>1. Len(s) \in Nat /\ Len(t) \in Nat
  OBVIOUS
<1>2. s \o t \in Seq(Byte) /\ Len(s \o t) = Len(s) + Len(t)
      /\ \A k \in 1..(Len(s) + Len(t)) : (s \o t)[k] = IF k <= Len(s) THEN s[k] ELSE t[k - Len(s)]
  BY ConcatProperties
<1>3. \A k \in 1..Len(t) : Len(s) + k \in 1..(Len(s) + Len(t)) /\ ~(Len(s) + k <= Len(s))
                           /\ (Len(s) + k) - Len(s) = k
  BY <1>1
<1>4. \A k \in 1..Len(s) : k \in 1..(Len(s) + Len(t)) /\ k <= Len(s)
  BY <1>1
<1> QED BY <1>2, <1>3, <1>4

LEMMA BytesOf32 ==
    ASSUME NEW v \in Long
    PROVE  /\ Be32(v) \in Seq(Byte) /\ Len(Be32(v)) = 4
           /\ 65536 * (256 * Be32(v)[1] + Be32(v)[2]) + (256 * Be32(v)[3] + Be32(v)[4]) = v
<1> DEFINE hi == Be16(v \div 65536)
           lo == Be16(v % 65536)
<1>1. v \div 65536 \in Word /\ v % 65536 \in Word
      /\ 65536 * (v \div 65536) + (v % 65536) = v
  BY Halves, SMT
<1>2. hi \in Seq(Byte) /\ Len(hi) = 2 /\ 256 * hi[1] + hi[2] = v \div 65536
  BY <1>1, BytesOf16, SMT
<1>3. lo \in Seq(Byte) /\ Len(lo) = 2 /\ 256 * lo[1] + lo[2] = v % 65536
  BY <1>1, BytesOf16, SMT
<1>8. hi \in Seq(Byte) /\ lo \in Seq(Byte)
  BY <1>2, <1>3, SMT
<1>7. Be32(v) = hi \o lo
  BY SMT DEF Be32
<1> HIDE DEF hi, lo
<1>4. /\ hi \o lo \in Seq(Byte) /\ Len(hi \o lo) = Len(hi) + Len(lo)
      /\ \A k \in 1..Len(hi) : (hi \o lo)[k] = hi[k]
      /\ \A k \in 1..Len(lo) : (hi \o lo)[Len(hi) + k] = lo[k]
  BY <1>8, Joined, Zenon
<1>5. (hi \o lo)[1] = hi[1] /\ (hi \o lo)[2] = hi[2] /\ (hi \o lo)[2 + 1] = lo[1]
      /\ (hi \o lo)[2 + 2] = lo[2] /\ Len(hi \o lo) = 4
  BY <1>2, <1>3, <1>4
<1>6. (hi \o lo)[3] = lo[1] /\ (hi \o lo)[4] = lo[2]
  BY <1>5
<1> QED BY <1>1, <1>2, <1>3, <1>4, <1>5, <1>6, <1>7, SMT

Size(s) == Len(s)
With16(s, v) == s \o Be16(v)
With32(s, v) == s \o Be32(v)

\* The fields of a datagram that begins with s, read where they were written.
Begins(s, d) == Len(s) <= Len(d) /\ \A k \in 1..Len(s) : d[k] = s[k]

LEMMA FieldOfBytes ==
    ASSUME NEW s \in Seq(Byte), NEW t \in Seq(Byte), NEW d \in Seq(Byte), Begins(s \o t, d)
    PROVE  /\ s \o t \in Seq(Byte) /\ Len(s \o t) = Len(s) + Len(t)
           /\ Begins(s, d) /\ \A k \in 1..Len(t) : d[Len(s) + k] = t[k]
<1>1. /\ s \o t \in Seq(Byte) /\ Len(s \o t) = Len(s) + Len(t)
      /\ \A k \in 1..Len(s) : (s \o t)[k] = s[k]
      /\ \A k \in 1..Len(t) : (s \o t)[Len(s) + k] = t[k]
  BY Joined
<1>2. Len(s) \in Nat /\ Len(t) \in Nat /\ Len(d) \in Nat
  OBVIOUS
<1>3. \A k \in 1..Len(t) : Len(s) + k \in 1..Len(s \o t)
  BY <1>1, <1>2
<1>4. \A k \in 1..Len(s) : k \in 1..Len(s \o t)
  BY <1>1, <1>2
<1> DEFINE u == s \o t
<1>5. Len(u) <= Len(d) /\ \A k \in 1..Len(u) : d[k] = u[k]
  BY DEF Begins
<1>6. Len(u) = Len(s) + Len(t) /\ \A k \in 1..Len(s) : k \in 1..Len(u) /\ u[k] = s[k]
  BY <1>1, <1>4
<1>7. \A k \in 1..Len(t) : Len(s) + k \in 1..Len(u) /\ u[Len(s) + k] = t[k]
  BY <1>1, <1>3
<1> HIDE DEF u
<1>8. Begins(s, d) /\ \A k \in 1..Len(t) : d[Len(s) + k] = t[k]
  BY <1>2, <1>5, <1>6, <1>7 DEF Begins
<1> QED BY <1>1, <1>8

LEMMA Field16 ==
    ASSUME NEW s \in Seq(Byte), NEW v \in Word, NEW d \in Seq(Byte), Begins(With16(s, v), d)
    PROVE  Begins(s, d) /\ Be16At(d, Size(s)) = v
<1> DEFINE t == Be16(v)
<1>1. t \in Seq(Byte) /\ Len(t) = 2 /\ 256 * t[1] + t[2] = v
  BY BytesOf16
<1>6. t \in Seq(Byte)
  BY <1>1
<1> HIDE DEF t
<1>2. /\ s \o t \in Seq(Byte) /\ Len(s \o t) = Len(s) + Len(t)
      /\ Begins(s, d) /\ \A k \in 1..Len(t) : d[Len(s) + k] = t[k]
  BY <1>6, FieldOfBytes, ZenonT(40) DEF t, With16
<1>3. d[Len(s) + 1] = t[1] /\ d[Len(s) + 2] = t[2]
  BY <1>1, <1>2
<1> QED BY <1>1, <1>2, <1>3 DEF Be16At, t, Size

LEMMA Field32 ==
    ASSUME NEW s \in Seq(Byte), NEW v \in Long, NEW d \in Seq(Byte), Begins(With32(s, v), d)
    PROVE  Begins(s, d) /\ Be32At(d, Size(s)) = v
<1> DEFINE t == Be32(v)
<1>1. t \in Seq(Byte) /\ Len(t) = 4
      /\ 65536 * (256 * t[1] + t[2]) + (256 * t[3] + t[4]) = v
  BY BytesOf32
<1>6. t \in Seq(Byte)
  BY <1>1, SMT
<1> HIDE DEF t
<1>2. /\ s \o t \in Seq(Byte) /\ Len(s \o t) = Len(s) + Len(t)
      /\ Begins(s, d) /\ \A k \in 1..Len(t) : d[Len(s) + k] = t[k]
  BY <1>6, FieldOfBytes, ZenonT(40) DEF t, With32
<1>3. d[Len(s) + 1] = t[1] /\ d[Len(s) + 2] = t[2] /\ d[Len(s) + 3] = t[3] /\ d[Len(s) + 4] = t[4]
  BY <1>1, <1>2
<1>4. Len(s) \in Nat /\ (Len(s) + 2) + 1 = Len(s) + 3 /\ (Len(s) + 2) + 2 = Len(s) + 4
  OBVIOUS
<1>5. Be32At(d, Len(s)) = 65536 * (256 * d[Len(s) + 1] + d[Len(s) + 2])
                            + (256 * d[Len(s) + 3] + d[Len(s) + 4])
  BY <1>4 DEF Be16At, Be32At
<1> QED BY <1>1, <1>2, <1>3, <1>5 DEF t, Size

\* A datagram with its checksum at the end.
LEMMA SealedBytes ==
    ASSUME NEW s \in Seq(Byte)
    PROVE  /\ Sealed(s) \in Seq(Byte) /\ Len(Sealed(s)) = Len(s) + 1 /\ Begins(s, Sealed(s))
           /\ xor_checksum(Sealed(s), Len(s)) = Sealed(s)[Len(s) + 1]
<1> DEFINE c == xor_checksum(s, Len(s))
           d == Append(s, c)
<1>1. Len(s) \in Nat /\ c \in Byte
  BY SumBits
<1> HIDE DEF c
<1>2. /\ d \in Seq(Byte) /\ Len(d) = Len(s) + 1 /\ d[Len(s) + 1] = c
      /\ \A k \in 1..Len(s) : d[k] = s[k]
  BY <1>1, AppendProperties
<1> HIDE DEF d
<1>3. Begins(s, d)
  BY <1>1, <1>2 DEF Begins
<1>4. xor_checksum(d, Len(s)) = xor_checksum(s, Len(s))
  BY <1>1, <1>2, SumSame
<1>5. Sealed(s) = d
  BY DEF Sealed, d, c
<1> QED BY <1>2, <1>3, <1>4, <1>5 DEF c

\* A number at the end.
LEMMA Longer16 ==
    ASSUME NEW s \in Seq(Byte), NEW v \in Word
    PROVE  With16(s, v) \in Seq(Byte) /\ Size(With16(s, v)) = Size(s) + 2
<1>1. Be16(v) \in Seq(Byte) /\ Len(Be16(v)) = 2
  BY BytesOf16
<1> DEFINE t == Be16(v)
<1> HIDE DEF t
<1>2. s \o t \in Seq(Byte) /\ Len(s \o t) = Len(s) + Len(t)
  BY <1>1, Joined, ZenonT(40) DEF t
<1> QED BY <1>1, <1>2 DEF t, With16, Size

LEMMA Longer32 ==
    ASSUME NEW s \in Seq(Byte), NEW v \in Long
    PROVE  With32(s, v) \in Seq(Byte) /\ Size(With32(s, v)) = Size(s) + 4
<1>1. Be32(v) \in Seq(Byte) /\ Len(Be32(v)) = 4
  BY BytesOf32, SMT
<1> DEFINE t == Be32(v)
<1> HIDE DEF t
<1>2. s \o t \in Seq(Byte) /\ Len(s \o t) = Len(s) + Len(t)
  BY <1>1, Joined, ZenonT(40) DEF t
<1> QED BY <1>1, <1>2 DEF t, With32, Size

\* The service reads the record that the FPGA has packed.
LEMMA StatsRead ==
    ASSUME NEW r \in FrameStatsPacket
    PROVE  /\ pkt_data_256(r) \in Seq(Byte) /\ Size(pkt_data_256(r)) = 32
           /\ pkt_data_256(r)[1] = 69 /\ pkt_data_256(r)[2] = 86
           /\ xor_checksum(pkt_data_256(r), 31) = pkt_data_256(r)[32]
           /\ parse_frame_stats_packet(pkt_data_256(r)) = r
<1> DEFINE s0 == <<69, 86, 1, 1>>
           s1 == With16(s0, r.frame_id)
           s2 == With16(s1, r.status_bits)
           s3 == With32(s2, r.timestamp_low)
           s4 == With16(s3, r.frame_width)
           s5 == With16(s4, r.frame_height)
           s6 == With32(s5, r.active_pixel_count)
           s7 == With32(s6, r.roi_sum)
           s8 == With16(s7, r.bright_count)
           s9 == With16(s8, r.error_code)
           s10 == s9 \o <<0, 0, 0>>
           d == Sealed(s10)
<1>0. pkt_data_256(r) = d
  BY DEF pkt_data_256, With16, With32
<1>f. /\ r.frame_id \in Word /\ r.status_bits \in Word /\ r.timestamp_low \in Long
      /\ r.frame_width \in Word /\ r.frame_height \in Word /\ r.active_pixel_count \in Long
      /\ r.roi_sum \in Long /\ r.bright_count \in Word /\ r.error_code \in Word
  BY DEF FrameStatsPacket
<1>a0. s0 \in Seq(Byte) /\ Size(s0) = 4 /\ s0[1] = 69 /\ s0[2] = 86
  BY DEF Byte, Size
<1> HIDE DEF s0
<1>a1. s1 \in Seq(Byte) /\ Size(s1) = 6
  <2>1. s1 \in Seq(Byte) /\ Size(s1) = Size(s0) + 2
    BY <1>f, <1>a0, Longer16, ZenonT(40)
  <2> QED BY <1>a0, <2>1
<1> HIDE DEF s1
<1>a2. s2 \in Seq(Byte) /\ Size(s2) = 8
  <2>1. s2 \in Seq(Byte) /\ Size(s2) = Size(s1) + 2
    BY <1>f, <1>a1, Longer16, ZenonT(40)
  <2> QED BY <1>a1, <2>1
<1> HIDE DEF s2
<1>a3. s3 \in Seq(Byte) /\ Size(s3) = 12
  <2>1. s3 \in Seq(Byte) /\ Size(s3) = Size(s2) + 4
    BY <1>f, <1>a2, Longer32, ZenonT(40)
  <2> QED BY <1>a2, <2>1
<1> HIDE DEF s3
<1>a4. s4 \in Seq(Byte) /\ Size(s4) = 14
  <2>1. s4 \in Seq(Byte) /\ Size(s4) = Size(s3) + 2
    BY <1>f, <1>a3, Longer16, ZenonT(40)
  <2> QED BY <1>a3, <2>1
<1> HIDE DEF s4
<1>a5. s5 \in Seq(Byte) /\ Size(s5) = 16
  <2>1. s5 \in Seq(Byte) /\ Size(s5) = Size(s4) + 2
    BY <1>f, <1>a4, Longer16, ZenonT(40)
  <2> QED BY <1>a4, <2>1
<1> HIDE DEF s5
<1>a6. s6 \in Seq(Byte) /\ Size(s6) = 20
  <2>1. s6 \in Seq(Byte) /\ Size(s6) = Size(s5) + 4
    BY <1>f, <1>a5, Longer32, ZenonT(40)
  <2> QED BY <1>a5, <2>1
<1> HIDE DEF s6
<1>a7. s7 \in Seq(Byte) /\ Size(s7) = 24
  <2>1. s7 \in Seq(Byte) /\ Size(s7) = Size(s6) + 4
    BY <1>f, <1>a6, Longer32, ZenonT(40)
  <2> QED BY <1>a6, <2>1
<1> HIDE DEF s7
<1>a8. s8 \in Seq(Byte) /\ Size(s8) = 26
  <2>1. s8 \in Seq(Byte) /\ Size(s8) = Size(s7) + 2
    BY <1>f, <1>a7, Longer16, ZenonT(40)
  <2> QED BY <1>a7, <2>1
<1> HIDE DEF s8
<1>a9. s9 \in Seq(Byte) /\ Size(s9) = 28
  <2>1. s9 \in Seq(Byte) /\ Size(s9) = Size(s8) + 2
    BY <1>f, <1>a8, Longer16, ZenonT(40)
  <2> QED BY <1>a8, <2>1
<1> HIDE DEF s9
<1>a10. <<0, 0, 0>> \in Seq(Byte) /\ Len(<<0, 0, 0>>) = 3
  BY DEF Byte
<1>a11. s10 \in Seq(Byte) /\ Len(s10) = Len(s9) + Len(<<0, 0, 0>>)
  BY <1>a9, <1>a10, Joined, Zenon
<1>a12. Size(s10) = 31
  BY <1>a9, <1>a10, <1>a11 DEF Size
<1> HIDE DEF s10
<1>b. /\ d \in Seq(Byte) /\ Size(d) = 32 /\ Begins(s10, d) /\ xor_checksum(d, 31) = d[32]
  <2>1. /\ d \in Seq(Byte) /\ Size(d) = Size(s10) + 1 /\ Begins(s10, d)
        /\ xor_checksum(d, Size(s10)) = d[Size(s10) + 1]
    BY <1>a11, SealedBytes, Zenon DEF Size
  <2> HIDE DEF d
  <2> QED BY <1>a12, <2>1
<1> HIDE DEF d
<1>b9. Begins(s9, d)
  BY <1>a9, <1>a10, <1>b, FieldOfBytes DEF s10
<1>b8. Begins(s8, d) /\ Be16At(d, 26) = r.error_code
  BY <1>f, <1>b, <1>a8, <1>b9, Field16 DEF s9
<1>b7. Begins(s7, d) /\ Be16At(d, 24) = r.bright_count
  BY <1>f, <1>b, <1>a7, <1>b8, Field16 DEF s8
<1>b6. Begins(s6, d) /\ Be32At(d, 20) = r.roi_sum
  BY <1>f, <1>b, <1>a6, <1>b7, Field32 DEF s7
<1>b5. Begins(s5, d) /\ Be32At(d, 16) = r.active_pixel_count
  BY <1>f, <1>b, <1>a5, <1>b6, Field32 DEF s6
<1>b4. Begins(s4, d) /\ Be16At(d, 14) = r.frame_height
  BY <1>f, <1>b, <1>a4, <1>b5, Field16 DEF s5
<1>b3. Begins(s3, d) /\ Be16At(d, 12) = r.frame_width
  BY <1>f, <1>b, <1>a3, <1>b4, Field16 DEF s4
<1>b2. Begins(s2, d) /\ Be32At(d, 8) = r.timestamp_low
  BY <1>f, <1>b, <1>a2, <1>b3, Field32 DEF s3
<1>b1. Begins(s1, d) /\ Be16At(d, 6) = r.status_bits
  BY <1>f, <1>b, <1>a1, <1>b2, Field16 DEF s2
<1>b0. Begins(s0, d) /\ Be16At(d, 4) = r.frame_id
  BY <1>f, <1>b, <1>a0, <1>b1, Field16 DEF s1
<1>c. d[1] = 69 /\ d[2] = 86
  BY <1>a0, <1>b0 DEF Begins, Size
<1>d. parse_frame_stats_packet(d) = r
  BY <1>b0, <1>b1, <1>b2, <1>b3, <1>b4, <1>b5, <1>b6, <1>b7, <1>b8 DEF parse_frame_stats_packet, FrameStatsPacket
<1> QED BY <1>0, <1>b, <1>c, <1>d

\* The FPGA reads the command that the service has packed.
LEMMA CommandRead ==
    ASSUME NEW cmd \in Byte, NEW seq \in Word, NEW addr \in Word,
           NEW data0 \in Long, NEW data1 \in Long,
           NEW p, p = build_command_packet(cmd, seq, addr, data0, data1)
    PROVE  /\ IsCommand(p)
           /\ ParseCommand(p) = [cmd |-> cmd, seq |-> seq, addr |-> addr, data0 |-> data0,
                                 data1 |-> data1]
<1> DEFINE s0 == <<67, 77, 1, cmd>>
           s1 == With16(s0, seq)
           s2 == With16(s1, addr)
           s3 == With32(s2, data0)
           s4 == With32(s3, data1)
           s5 == s4 \o <<0, 0, 0>>
           d == Sealed(s5)
<1>0. p = d
  BY DEF build_command_packet, With16, With32
<1>a0. s0 \in Seq(Byte) /\ Size(s0) = 4
       /\ s0[1] = 67 /\ s0[2] = 77 /\ s0[3] = 1 /\ s0[4] = cmd
  BY DEF Byte, Size
<1> HIDE DEF s0
<1>a1. s1 \in Seq(Byte) /\ Size(s1) = 6
  <2>1. s1 \in Seq(Byte) /\ Size(s1) = Size(s0) + 2
    BY <1>a0, Longer16, ZenonT(40)
  <2> QED BY <1>a0, <2>1
<1> HIDE DEF s1
<1>a2. s2 \in Seq(Byte) /\ Size(s2) = 8
  <2>1. s2 \in Seq(Byte) /\ Size(s2) = Size(s1) + 2
    BY <1>a1, Longer16, ZenonT(40)
  <2> QED BY <1>a1, <2>1
<1> HIDE DEF s2
<1>a3. s3 \in Seq(Byte) /\ Size(s3) = 12
  <2>1. s3 \in Seq(Byte) /\ Size(s3) = Size(s2) + 4
    BY <1>a2, Longer32, ZenonT(40)
  <2> QED BY <1>a2, <2>1
<1> HIDE DEF s3
<1>a4. s4 \in Seq(Byte) /\ Size(s4) = 16
  <2>1. s4 \in Seq(Byte) /\ Size(s4) = Size(s3) + 4
    BY <1>a3, Longer32, ZenonT(40)
  <2> QED BY <1>a3, <2>1
<1> HIDE DEF s4
<1>a5. <<0, 0, 0>> \in Seq(Byte) /\ Len(<<0, 0, 0>>) = 3
  BY DEF Byte
<1>a6. s5 \in Seq(Byte) /\ Len(s5) = Len(s4) + Len(<<0, 0, 0>>)
  BY <1>a4, <1>a5, Joined, Zenon
<1>a7. Size(s5) = 19
  BY <1>a4, <1>a5, <1>a6 DEF Size
<1> HIDE DEF s5
<1>b. /\ d \in Seq(Byte) /\ Size(d) = 20 /\ Begins(s5, d) /\ xor_checksum(d, 19) = d[20]
  <2>1. /\ d \in Seq(Byte) /\ Size(d) = Size(s5) + 1 /\ Begins(s5, d)
        /\ xor_checksum(d, Size(s5)) = d[Size(s5) + 1]
    BY <1>a6, SealedBytes, Zenon DEF Size
  <2> HIDE DEF d
  <2> QED BY <1>a7, <2>1
<1> HIDE DEF d
<1>b4. Begins(s4, d)
  BY <1>a4, <1>a5, <1>b, FieldOfBytes DEF s5
<1>b3. Begins(s3, d) /\ Be32At(d, 12) = data1
  BY <1>b, <1>a3, <1>b4, Field32 DEF s4
<1>b2. Begins(s2, d) /\ Be32At(d, 8) = data0
  BY <1>b, <1>a2, <1>b3, Field32 DEF s3
<1>b1. Begins(s1, d) /\ Be16At(d, 6) = addr
  BY <1>b, <1>a1, <1>b2, Field16 DEF s2
<1>b0. Begins(s0, d) /\ Be16At(d, 4) = seq
  BY <1>b, <1>a0, <1>b1, Field16 DEF s1
<1>c. d[1] = 67 /\ d[2] = 77 /\ d[3] = 1 /\ d[4] = cmd
  BY <1>a0, <1>b0 DEF Begins, Size
<1>d. IsCommand(d)
  BY <1>b, <1>c DEF IsCommand, Size
<1> QED BY <1>0, <1>b0, <1>b1, <1>b2, <1>b3, <1>c, <1>d DEF ParseCommand

\* No datagram with a damaged byte passes for telemetry, nor does one cut short.
LEMMA DamageSummed ==
    ASSUME NEW n \in Nat, NEW t \in Seq(Byte), Size(t) = n + 1, xor_checksum(t, n) = t[n + 1],
           NEW i \in 1..(n + 1), NEW x \in 1..255,
           NEW d, d = [t EXCEPT ![i] = Xor(@, x)]
    PROVE  xor_checksum(d, n) # d[n + 1]
<1>1. Len(t) = n + 1
  BY DEF Size
<1>2. t[i] \in Byte
  BY <1>1
<1>3. d[i] = Xor(t[i], x) /\ \A k \in 1..(n + 1) : k # i => d[k] = t[k]
  BY <1>1
<1>4. PICK j \in 0..7 : Bit(d[i], j) = 1 - Bit(t[i], j)
  BY <1>2, <1>3, XorDiffers, ZenonT(40)
<1>5. Bit(t[i], j) \in 0..1
  BY <1>2, BitTypes
<1>6. \A k \in 1..n : k \in 1..(n + 1)
  OBVIOUS
<1>7. CASE i = n + 1
  <2>1. \A k \in 1..n : d[k] = t[k]
    BY <1>3, <1>6, <1>7
  <2>2. xor_checksum(d, n) = xor_checksum(t, n)
    BY ONLY n \in Nat, <2>1, SumSame, Zenon
  <2>3. d[n + 1] # t[n + 1]
    BY <1>4, <1>5, <1>7
  <2> QED BY <2>2, <2>3
<1>8. CASE i # n + 1
  <2>1. i \in 1..n /\ d[n + 1] = t[n + 1]
    BY <1>3, <1>8
  <2>2. \A k \in 1..n : k # i => t[k] = d[k]
    BY <1>3, <1>6
  <2>3. xor_checksum(t, n) # xor_checksum(d, n)
    BY ONLY n \in Nat, <1>4, <1>5, <2>1, <2>2, SumDamaged, Zenon
  <2> QED BY <2>1, <2>3
<1> QED BY <1>7, <1>8

LEMMA DamageSeen ==
    ASSUME NEW t \in Seq(Byte), Size(t) = 32, xor_checksum(t, 31) = t[32],
           NEW i \in 1..32, NEW x \in 1..255,
           NEW d, d = [t EXCEPT ![i] = Xor(@, x)]
    PROVE  ~IsFrameStats(d)
<1> DEFINE n == 31
<1>1. n \in Nat /\ n + 1 = 32
  OBVIOUS
<1>2. xor_checksum(t, n) = t[n + 1] /\ Size(t) = n + 1 /\ i \in 1..(n + 1)
  OBVIOUS
<1> HIDE DEF n
<1>3. xor_checksum(d, n) # d[n + 1]
  BY <1>1, <1>2, DamageSummed, ZenonT(40)
<1>4. xor_checksum(d, 31) # d[32]
  BY <1>1, <1>3 DEF n
<1> QED BY <1>4 DEF IsFrameStats

LEMMA ShortSeen ==
    ASSUME NEW t \in Seq(Byte), Size(t) = 32
    PROVE  ~IsFrameStats(SubSeq(t, 1, 31))
<1>1. Len(SubSeq(t, 1, 31)) = 31
  BY SubSeqProperties DEF Size
<1> QED BY <1>1 DEF IsFrameStats, kFrameStatsPacketSize

-----------------------------------------------------------------------------
(***************************************************************************)
(* Both ends agree.                                                        *)
(***************************************************************************)
\* The records the FPGA has sent so far.
Sent(r, n) == \E f \in 1..n, a \in BOOLEAN : r = Record(f, a)
AgreeInv ==
    /\ {"at", "packet"} \subseteq DOMAIN rx
    /\ {"telemetry", "packet"} \subseteq DOMAIN state
    /\ {"at", "state"} \subseteq DOMAIN http
    /\ {"frame"} \subseteq DOMAIN fpga /\ fpga.frame \in 0..Len(Stats)
    /\ rx.at = "state" => Sent(rx.packet, fpga.frame)
    /\ state.telemetry => Sent(state.packet, fpga.frame)
    /\ http.at \in {"alarm", "preview"} =>
           (http.state.telemetry => Sent(http.state.packet, fpga.frame))
    /\ BothEndsAgree

(***************************************************************************)
(* Links.                                                                  *)
(***************************************************************************)
\* A link of e leads to the picture of e, of a frame up to n.
Links(e, n, fs, bad) ==
    \/ e.url = NoUrl
    \/ e.url \in 1..n /\ (e.url \in bad \/ fs[e.url] = [payload |-> e.shot, whole |-> TRUE])
AllLink(events, n, fs, bad) == \A i \in 1..Len(events) : Links(events[i], n, fs, bad)

\* While the event of a frame is being made, the table has links of earlier frames only.
Making == {"state", "edge", "picture", "write", "rename", "copy", "push"}
Linkable ==
    IF rx.packet.frame_id # 0 /\ rx.at \in Making THEN fpga.frame - 1 ELSE fpga.frame
\* What rx_loop holds at each place.
RxInv ==
    /\ {"at", "packet", "name", "url", "then", "payload"} \subseteq DOMAIN rx
    /\ {"frame"} \subseteq DOMAIN fpga /\ fpga.frame \in 0..Len(Stats)
    /\ rx.at \in {"recv", "chunk", "assemble", "due", "text"} \cup Making
    /\ rx.then \in {"recv", "due"}
    /\ rx.packet.frame_id \in {0, fpga.frame}
    /\ rx.at \in {"state", "edge", "picture", "push"} => rx.packet.frame_id # 0
    /\ rx.at \in {"chunk", "assemble", "due"} \/ rx.then = "due" => rx.packet.frame_id = 0
    /\ rx.at \in {"state", "edge", "picture"} => rx.url = NoUrl
    /\ rx.at \in {"write", "rename", "copy"} => rx.name = rx.packet.frame_id
    /\ rx.at = "rename" => temp = TRUE \/ rx.name \in unsure
    /\ rx.at = "copy" => rx.name \in unsure
    /\ rx.at = "push" /\ rx.url # NoUrl =>
           /\ rx.url = rx.packet.frame_id
           /\ rx.url \in unsure \/ files[rx.url] = [payload |-> rx.payload, whole |-> TRUE]
FilesInv ==
    /\ DOMAIN files = Frames \cup {Latest}
    /\ Latest \in unsure \/ files[Latest] = NoFile \/ files[Latest].whole
LinkInv ==
    /\ RxInv /\ FilesInv
    /\ AllLink(alarm.events, Linkable, files, unsure)
    /\ http.at = "preview" => AllLink(http.alarm.events, Linkable, files, unsure)
    /\ reply.kind = "status" => AllLink(reply.alarm.events, Linkable, files, unsure)

LEMMA AlarmBitFits ==
    ASSUME NEW v \in Word, Bit(v, 5) = 0
    PROVE  v + 32 \in Word
<1>1. 2^5 = 32
  OBVIOUS
<1>2. (v \div 32) % 2 = 0
  BY <1>1, SMT DEF Bit
<1>3. v \in Nat /\ v < 65536
  BY SMT DEF Word
<1>4. PICK q \in Nat : q = v \div 32
  BY <1>3, SMT
<1>5. q <= 2047 /\ q % 2 = 0 /\ v < 32 * q + 32
  BY <1>2, <1>3, <1>4, SMT
<1>6. q <= 2046
  BY <1>5, SMT
<1>7. v + 32 < 65536
  BY <1>3, <1>5, <1>6, SMT
<1> QED BY <1>3, <1>7, SMT DEF Word

LEMMA Inputs ==
    /\ Stats \in Seq(FrameStatsPacket)
    /\ \A g \in Frames : Stats[g] \in FrameStatsPacket
    /\ \A g \in Frames : Stats[g].frame_id = g /\ Bit(Stats[g].status_bits, 5) = 0
    /\ \A c \in Commands :
           c.cmd \in Byte /\ c.seq \in Word /\ c.addr \in Nat /\ c.data0 \in Long
    /\ \A x \in Flips : x \in 1..255
<1>1. Stats \in Seq(FrameStatsPacket)
  BY InputsAssumption, SMT
<1>2. \A g \in Frames : Stats[g] \in FrameStatsPacket
  BY <1>1, ElementOfSeq, Zenon DEF Frames
<1> QED BY <1>1, <1>2, InputsAssumption, SMT DEF Frames

LEMMA RecordType ==
    ASSUME NEW f \in Frames, NEW a \in BOOLEAN
    PROVE  Record(f, a) \in FrameStatsPacket /\ Record(f, a).frame_id = f
<1>2. Stats[f].frame_id = f /\ Bit(Stats[f].status_bits, 5) = 0
  BY Inputs, Zenon
<1>3. Stats[f] \in FrameStatsPacket
  BY Inputs, Zenon
<1> DEFINE r == Stats[f]
           b == r.status_bits + (IF a THEN 32 ELSE 0)
<1>4. r \in FrameStatsPacket /\ r.frame_id = f /\ Bit(r.status_bits, 5) = 0
  BY <1>2, <1>3, Zenon
<1>5. Record(f, a) = [r EXCEPT !.status_bits = b]
  BY Zenon DEF Record
<1>6. r.status_bits \in Word
  BY <1>4, Zenon DEF FrameStatsPacket
<1> HIDE DEF r
<1>7. b \in Word
  <2>1. r.status_bits + 32 \in Word
    BY <1>4, <1>6, AlarmBitFits, Zenon
  <2>2. r.status_bits + 0 = r.status_bits
    BY <1>6, SMT DEF Word
  <2>3. b = r.status_bits + 32 \/ b = r.status_bits + 0
    BY Zenon
  <2> HIDE DEF b
  <2> QED BY <1>6, <2>1, <2>2, <2>3, Zenon
<1> HIDE DEF b
<1>8. [r EXCEPT !.status_bits = b] \in FrameStatsPacket
      /\ [r EXCEPT !.status_bits = b].frame_id = f
  BY ONLY <1>4, <1>7, SMT DEF FrameStatsPacket
<1> QED BY <1>5, <1>8

\* Of the datagrams that may arrive the parser takes the record of the frame, and no other.
LEMMA NothingDamagedTaken == DamagedTaken = {}
<1> SUFFICES ASSUME NEW d \in Damaged, IsFrameStats(d)
             PROVE  FALSE
  BY DEF DamagedTaken
<1>1. ASSUME NEW t \in Telemetry
      PROVE  t \in Seq(Byte) /\ Size(t) = 32 /\ xor_checksum(t, 31) = t[32]
  <2>1. PICK f \in Frames, a \in BOOLEAN : t = pkt_data_256(Record(f, a))
    BY DEF Telemetry
  <2>2. Record(f, a) \in FrameStatsPacket
    BY RecordType, Zenon
  <2> QED BY <2>1, <2>2, StatsRead, Zenon
<1>2. CASE \E t \in Telemetry : d = SubSeq(t, 1, 31)
  BY <1>1, <1>2, ShortSeen, Zenon
<1>3. CASE \E t \in Telemetry, i \in 1..32, x \in Flips : d = [t EXCEPT ![i] = Xor(@, x)]
  <2>1. PICK t \in Telemetry, i \in 1..32, x \in Flips : d = [t EXCEPT ![i] = Xor(@, x)]
    BY <1>3, Zenon
  <2>2. x \in 1..255
    BY Inputs, Zenon
  <2>3. t \in Seq(Byte) /\ Size(t) = 32 /\ xor_checksum(t, 31) = t[32]
    BY <1>1, Zenon
  <2> QED BY <2>1, <2>2, <2>3, DamageSeen, Zenon
<1>4. (\E t \in Telemetry : d = SubSeq(t, 1, 31))
      \/ \E t \in Telemetry, i \in 1..32, x \in Flips : d = [t EXCEPT ![i] = Xor(@, x)]
  BY DEF Damaged
<1> QED BY <1>2, <1>3, <1>4

LEMMA TelemetryTaken ==
    ASSUME TelemetryArrives, {"frame"} \subseteq DOMAIN fpga, fpga.frame \in 0..Len(Stats)
    PROVE  /\ {"frame"} \subseteq DOMAIN fpga' /\ fpga'.frame = fpga.frame + 1
           /\ fpga'.frame \in Frames
           /\ \E a \in BOOLEAN :
                  rx' = [Idle EXCEPT !.at = "state", !.packet = Record(fpga'.frame, a)]
           /\ UNCHANGED <<state, alarm, preview, files, http, faults, unsure>>
<1>1. fpga' = [fpga EXCEPT !.frame = fpga.frame + 1] /\ fpga.frame + 1 \in Frames
  BY DEF TelemetryArrives
<1>2. {"frame"} \subseteq DOMAIN fpga' /\ fpga'.frame = fpga.frame + 1
  BY <1>1
<1>3. PICK a \in BOOLEAN : RxTelemetry(pkt_data_256(Record(fpga.frame + 1, a)))
  BY NothingDamagedTaken, Zenon DEF TelemetryArrives
<1>4. Record(fpga.frame + 1, a) \in FrameStatsPacket
  BY <1>1, RecordType, Zenon
<1>5. parse_frame_stats_packet(pkt_data_256(Record(fpga.frame + 1, a))) = Record(fpga.frame + 1, a)
  BY <1>4, StatsRead, Zenon
<1>6. rx' = [Idle EXCEPT !.at = "state", !.packet = Record(fpga'.frame, a)]
      /\ UNCHANGED <<state, alarm, preview, files, http, faults, unsure>>
  BY <1>2, <1>3, <1>5, Zenon DEF RxTelemetry
<1> QED BY <1>1, <1>2, <1>6, Zenon

LEMMA LinksLater ==
    ASSUME NEW events, NEW n \in Int, NEW m \in Int, n <= m, NEW fs, NEW gs, NEW bad, NEW worse,
           bad \subseteq worse, \A u \in 1..n : gs[u] = fs[u] \/ u \in worse,
           AllLink(events, n, fs, bad)
    PROVE  AllLink(events, m, gs, worse)
<1> SUFFICES ASSUME NEW i \in 1..Len(events)
             PROVE  Links(events[i], m, gs, worse)
  BY DEF AllLink
<1>1. Links(events[i], n, fs, bad)
  BY DEF AllLink
<1>2. events[i].url \in 1..n => events[i].url \in 1..m
  OBVIOUS
<1> QED BY <1>1, <1>2 DEF Links

LEMMA LinksKept ==
    ASSUME NEW events, NEW n, NEW fs, NEW bad, NEW e, Len(events) \in Nat,
           AllLink(events, n, fs, bad), Links(e, n, fs, bad)
    PROVE  AllLink(Kept(events, e), n, fs, bad)
<1> DEFINE k == IF Len(events) < EventsKept THEN Len(events) + 1 ELSE EventsKept
           item(i) == IF i = 1 THEN e ELSE events[i - 1]
<1>1. k \in Nat /\ \A i \in 1..k : i # 1 => i - 1 \in 1..Len(events)
  BY KeptAssumption
<1>2. Kept(events, e) = [i \in 1..k |-> item(i)]
  BY DEF Kept
<1>3. \A i \in 1..k : Links(item(i), n, fs, bad)
  BY <1>1 DEF AllLink
<1> HIDE DEF k, item
<1>4. Kept(events, e) \in [1..k -> {item(i) : i \in 1..k}]
  BY <1>2
<1>5. Len(Kept(events, e)) = k
  BY <1>1, <1>4, FunctionIsSeq
<1> QED BY <1>2, <1>3, <1>5 DEF AllLink

LEMMA LinkableType ==
    ASSUME RxInv
    PROVE  Linkable \in Int /\ Linkable <= fpga.frame /\ fpga.frame \in 0..Len(Stats)
           /\ (rx.at \notin Making => Linkable = fpga.frame)
           /\ (rx.packet.frame_id = 0 => Linkable = fpga.frame)
           /\ (rx.at \in Making /\ rx.packet.frame_id # 0 => Linkable = fpga.frame - 1)
<1>1. fpga.frame \in 0..Len(Stats) /\ Len(Stats) \in Nat
  BY Inputs, LenProperties DEF RxInv
<1> QED BY <1>1 DEF Linkable

\* A step that adds no event: the links so far still work when it writes no file they lead to.
LEMMA LinkStep ==
    ASSUME LinkInv, RxInv', FilesInv', Linkable <= Linkable', unsure \subseteq unsure',
           \A u \in 1..Linkable : files'[u] = files[u] \/ u \in unsure',
           alarm'.events = alarm.events,
           http'.at = "preview" => (UNCHANGED http \/ http'.alarm = alarm),
           reply'.kind = "status" => (http.at = "preview" /\ reply'.alarm = http.alarm)
    PROVE  LinkInv'
<1>1. Linkable \in Int /\ Linkable' \in Int
  <2>1. Linkable \in Int
    BY LinkableType DEF LinkInv
  <2>2. fpga'.frame \in 0..Len(Stats) /\ Len(Stats) \in Nat
    BY Inputs, LenProperties DEF RxInv
  <2> QED BY <2>1, <2>2 DEF Linkable
<1> DEFINE n == Linkable
           m == Linkable'
<1>2. \A events : AllLink(events, n, files, unsure) => AllLink(events, m, files', unsure')
  <2> TAKE events
  <2> HAVE AllLink(events, n, files, unsure)
  <2>1. n \in Int /\ m \in Int /\ n <= m /\ \A u \in 1..n : files'[u] = files[u] \/ u \in unsure'
    BY <1>1
  <2> HIDE DEF n, m
  <2> QED BY <2>1, LinksLater
<1> HIDE DEF n, m
<1>3. AllLink(alarm'.events, m, files', unsure')
  BY <1>2 DEF LinkInv, n
<1>4. http'.at = "preview" => AllLink(http'.alarm.events, m, files', unsure')
  BY <1>2 DEF LinkInv, n
<1>5. reply'.kind = "status" => AllLink(reply'.alarm.events, m, files', unsure')
  BY <1>2 DEF LinkInv, n
<1> QED BY <1>3, <1>4, <1>5 DEF LinkInv, m

LEMMA InitLinks == Init => LinkInv
<1> SUFFICES ASSUME Init PROVE LinkInv
  OBVIOUS
<1>1. fpga.frame = 0 /\ {"frame"} \subseteq DOMAIN fpga /\ Len(Stats) \in Nat
  BY Inputs, LenProperties DEF Init
<1>2. RxInv
  BY <1>1 DEF Init, RxInv, Idle, NoPacket, Latest, NoUrl, Making
<1>3. FilesInv
  BY DEF Init, FilesInv
<1>4. alarm.events = <<>> /\ http.at = "accept" /\ reply.kind = "none"
  BY DEF Init, NoAlarm, Accept, NoReply
<1>5. \A n : AllLink(<<>>, n, files, unsure)
  BY DEF AllLink
<1> QED BY <1>2, <1>3, <1>4, <1>5 DEF LinkInv

LEMMA RecordArrives ==
    ASSUME LinkInv, TelemetryArrives, reply' = NoReply
    PROVE  LinkInv'
<1>1. RxInv /\ FilesInv /\ fpga.frame \in 0..Len(Stats) /\ Len(Stats) \in Nat
  BY Inputs, LenProperties DEF LinkInv, RxInv
<1>2. /\ {"frame"} \subseteq DOMAIN fpga' /\ fpga'.frame = fpga.frame + 1
      /\ fpga'.frame \in Frames
      /\ \E a \in BOOLEAN :
             rx' = [Idle EXCEPT !.at = "state", !.packet = Record(fpga'.frame, a)]
      /\ UNCHANGED <<state, alarm, preview, files, http, faults, unsure>>
  BY <1>1, TelemetryTaken DEF RxInv
<1>3. PICK a \in BOOLEAN : rx' = [Idle EXCEPT !.at = "state", !.packet = Record(fpga'.frame, a)]
  BY <1>2
<1>4. Record(fpga'.frame, a).frame_id = fpga'.frame
  BY <1>2, RecordType
<1>5. /\ rx'.at = "state" /\ rx'.packet.frame_id = fpga.frame + 1 /\ rx'.then = "recv"
      /\ rx'.url = NoUrl /\ {"at", "packet", "name", "url", "then", "payload"} \subseteq DOMAIN rx'
  BY <1>2, <1>3, <1>4 DEF Idle
<1>6. RxInv'
  BY <1>1, <1>2, <1>5 DEF RxInv, Making, Frames
<1>7. Linkable = fpga.frame /\ Linkable' = fpga.frame
  <2>1. rx.at \notin Making
    BY DEF TelemetryArrives, Making
  <2>2. Linkable' = (fpga.frame + 1) - 1
    BY <1>1, <1>2, <1>5 DEF Linkable, Making
  <2> QED BY <1>1, <2>1, <2>2, LinkableType
<1>8. FilesInv'
  BY <1>1, <1>2 DEF FilesInv
<1> QED BY <1>1, <1>2, <1>6, <1>7, <1>8, LinkStep DEF NoReply

LEMMA PictureArrives ==
    ASSUME LinkInv, PreviewArrives, reply' = NoReply
    PROVE  LinkInv'
<1>1. RxInv /\ FilesInv /\ fpga.frame \in 0..Len(Stats) /\ Len(Stats) \in Nat
  BY Inputs, LenProperties DEF LinkInv, RxInv
<1>2. UNCHANGED <<alarm, files, http, unsure>> /\ rx.at = "recv"
      /\ {"frame"} \subseteq DOMAIN fpga' /\ fpga'.frame = fpga.frame
  BY <1>1 DEF PreviewArrives, RxPreview, RxInv
<1>3. /\ rx'.at = "chunk" /\ rx'.packet.frame_id = 0 /\ rx'.then = "recv"
      /\ {"at", "packet", "name", "url", "then", "payload"} \subseteq DOMAIN rx'
  BY DEF PreviewArrives, RxPreview, Idle, NoPacket
<1>4. RxInv'
  BY <1>1, <1>2, <1>3 DEF RxInv, Making
<1>5. Linkable = fpga.frame /\ Linkable' = fpga.frame
  BY <1>1, <1>2, <1>3 DEF Linkable, Making
<1>6. FilesInv'
  BY <1>1, <1>2 DEF FilesInv
<1> QED BY <1>1, <1>2, <1>4, <1>5, <1>6, LinkStep DEF NoReply

\* A step of rx_loop that writes no file.
LEMMA RxStays ==
    ASSUME LinkInv, reply' = NoReply, UNCHANGED <<fpga, files, http, unsure>>,
           alarm'.events = alarm.events, RxInv', rx'.packet = rx.packet \/ rx' = Idle,
           rx'.at \in Making => rx.at \in Making \/ rx.packet.frame_id = 0
    PROVE  LinkInv'
<1>1. RxInv /\ FilesInv /\ fpga.frame \in 0..Len(Stats) /\ Len(Stats) \in Nat
  BY Inputs, LenProperties DEF LinkInv, RxInv
<1>2. FilesInv'
  BY <1>1 DEF FilesInv
<1>3. Idle.at \notin Making
  BY DEF Idle, Making
<1>4. Linkable <= Linkable'
  BY <1>1, <1>3 DEF Linkable
<1> QED BY <1>1, <1>2, <1>4, LinkStep DEF NoReply

\* The end of write_binary_file: back to the start, or on to the event with its link.
LEMMA WrittenInv ==
    ASSUME RxInv, fpga' = fpga, rx.at \in {"write", "rename", "copy"},
           NEW ok \in BOOLEAN, rx' = Written(ok),
           ok => (rx.name \in unsure' \/ files'[rx.name] = [payload |-> rx.payload, whole |-> TRUE])
    PROVE  RxInv' /\ (rx'.packet = rx.packet \/ rx' = Idle) /\ rx.at \in Making
<1>1. rx.at \in Making
  BY DEF Making
<1>2. CASE rx.name = Latest
  <2>1. rx' = Idle
    BY <1>2 DEF Written
  <2>2. RxInv'
    BY <2>1 DEF RxInv, Making, Idle, NoPacket
  <2> QED BY <1>1, <2>1, <2>2
<1>3. CASE rx.name # Latest
  <2>1. rx' = [rx EXCEPT !.at = "push", !.url = IF ok THEN rx.name ELSE NoUrl]
    BY <1>3 DEF Written
  <2>2. /\ rx'.at = "push" /\ rx'.url = (IF ok THEN rx.name ELSE NoUrl)
        /\ rx'.packet = rx.packet /\ rx'.then = rx.then /\ rx'.payload = rx.payload
        /\ {"at", "packet", "name", "url", "then", "payload"} \subseteq DOMAIN rx'
    BY <2>1 DEF RxInv
  <2>3. rx.name = rx.packet.frame_id /\ rx.packet.frame_id # 0
    BY <1>3 DEF RxInv, Latest
  <2>4. RxInv'
    BY <2>2, <2>3 DEF RxInv, Making
  <2> QED BY <1>1, <2>2, <2>4
<1> QED BY <1>2, <1>3

LEMMA RxWorks ==
    ASSUME LinkInv, reply' = NoReply,
           StoreTelemetry \/ AlarmEdge \/ TakePicture \/ RecordText \/ StoreChunk \/ Assemble
           \/ SnapshotDue \/ WriteTemporary \/ WriteFails
    PROVE  LinkInv'
<1>1. RxInv
  BY DEF LinkInv
<1>2. CASE StoreTelemetry
  <2>1. RxInv'
    BY <1>1, <1>2 DEF StoreTelemetry, RxInv, Making
  <2>2. rx'.packet = rx.packet /\ rx.at \in Making
    BY <1>1, <1>2 DEF StoreTelemetry, RxInv, Making
  <2> QED BY <1>2, <2>1, <2>2, RxStays DEF StoreTelemetry
<1>3. CASE AlarmEdge
  <2>1. rx' = [rx EXCEPT !.at = "picture"] \/ rx' = [rx EXCEPT !.at = "recv"]
        \/ rx' = [rx EXCEPT !.at = "text"]
    BY <1>3 DEF AlarmEdge, ToText
  <2>2. RxInv'
    BY <1>1, <1>3, <2>1 DEF AlarmEdge, RxInv, Making
  <2>3. rx'.packet = rx.packet /\ rx.at \in Making
    BY <1>1, <1>3, <2>1 DEF AlarmEdge, RxInv, Making
  <2>4. alarm'.events = alarm.events
    BY <1>3 DEF AlarmEdge
  <2> QED BY <1>3, <2>2, <2>3, <2>4, RxStays DEF AlarmEdge
<1>4. CASE TakePicture
  <2>1. rx'.at \in {"push", "write"} /\ rx'.packet = rx.packet /\ rx'.url = rx.url
        /\ rx'.name = rx.packet.frame_id /\ rx'.then = rx.then /\ rx.at = "picture"
        /\ {"at", "packet", "name", "url", "then", "payload"} \subseteq DOMAIN rx'
    BY <1>1, <1>4 DEF TakePicture, RxInv
  <2>2. RxInv'
    BY <1>1, <1>4, <2>1 DEF TakePicture, RxInv, Making
  <2>3. rx.at \in Making
    BY <2>1 DEF Making
  <2> QED BY <1>4, <2>1, <2>2, <2>3, RxStays DEF TakePicture
<1>5. CASE RecordText
  <2>1. rx'.at \in {"recv", "due", "text"} /\ (rx'.at = "due" => rx.then = "due")
        /\ rx'.packet = rx.packet /\ rx'.then = rx.then
        /\ {"at", "packet", "name", "url", "then", "payload"} \subseteq DOMAIN rx'
    BY <1>1, <1>5 DEF RecordText, ToText, RxInv
  <2>2. RxInv' /\ rx'.at \notin Making
    BY <1>1, <1>5, <2>1 DEF RecordText, RxInv, Making
  <2> QED BY <1>5, <2>1, <2>2, RxStays DEF RecordText
<1>6. CASE StoreChunk
  <2>1. rx'.at = "assemble" /\ rx'.packet = rx.packet /\ rx'.then = rx.then /\ rx.at = "chunk"
        /\ {"at", "packet", "name", "url", "then", "payload"} \subseteq DOMAIN rx'
    BY <1>1, <1>6 DEF StoreChunk, RxInv
  <2>2. RxInv' /\ rx'.at \notin Making
    BY <1>1, <1>6, <2>1 DEF StoreChunk, RxInv, Making
  <2> QED BY <1>6, <2>1, <2>2, RxStays DEF StoreChunk
<1>7. CASE Assemble
  <2>1. rx'.at \in {"recv", "due", "text"} /\ rx'.then \in {"recv", "due"}
        /\ rx'.packet = rx.packet /\ rx.at = "assemble"
        /\ {"at", "packet", "name", "url", "then", "payload"} \subseteq DOMAIN rx'
    BY <1>1, <1>7 DEF Assemble, ToText, RxInv
  <2>2. RxInv' /\ rx'.at \notin Making
    BY <1>1, <1>7, <2>1 DEF Assemble, RxInv, Making
  <2> QED BY <1>7, <2>1, <2>2, RxStays DEF Assemble
<1>8. CASE SnapshotDue
  <2>1. rx.at = "due" /\ rx.packet.frame_id = 0
    BY <1>1, <1>8 DEF SnapshotDue, RxInv
  <2>2. rx' = [rx EXCEPT !.at = "write", !.name = Latest] \/ rx' = Idle
    BY <1>8 DEF SnapshotDue
  <2>3. RxInv'
    BY <1>1, <1>8, <2>1, <2>2 DEF SnapshotDue, RxInv, Making, Idle, NoPacket, Latest
  <2>4. rx'.packet = rx.packet \/ rx' = Idle
    BY <1>1, <2>2 DEF RxInv
  <2> QED BY <1>8, <2>1, <2>3, <2>4, RxStays DEF SnapshotDue
<1>9. CASE WriteTemporary
  <2>1. rx'.packet = rx.packet /\ rx.at \in Making
    BY <1>1, <1>9 DEF WriteTemporary, WriteStep, RxInv, Making
  <2>2. RxInv'
    BY <1>1, <1>9 DEF WriteTemporary, WriteStep, RxInv, Making
  <2> QED BY <1>9, <2>1, <2>2, RxStays DEF WriteTemporary, WriteStep
<1>10. CASE WriteFails
  <2>1. rx.at = "write" /\ UNCHANGED <<fpga, alarm, http, files, unsure>> /\ rx' = Written(FALSE)
    BY <1>10 DEF WriteFails, WriteStep
  <2>2. RxInv' /\ (rx'.packet = rx.packet \/ rx' = Idle) /\ rx.at \in Making
    BY <1>1, <2>1, WrittenInv
  <2> QED BY <2>1, <2>2, RxStays
<1> QED BY <1>2, <1>3, <1>4, <1>5, <1>6, <1>7, <1>8, <1>9, <1>10

\* The name being written is not one that a link leads to.
LEMMA FreshName ==
    ASSUME LinkInv, rx.at \in {"write", "rename", "copy"}
    PROVE  rx.name \in DOMAIN files /\ rx.name \notin 1..Linkable
           /\ \A u \in 1..Linkable : u \in DOMAIN files
<1>1. RxInv /\ FilesInv /\ fpga.frame \in 0..Len(Stats) /\ Len(Stats) \in Nat
  BY Inputs, LenProperties DEF LinkInv, RxInv
<1>2. rx.name = rx.packet.frame_id /\ rx.packet.frame_id \in {0, fpga.frame} /\ rx.at \in Making
  BY <1>1 DEF RxInv, Making
<1>3. DOMAIN files = 1..Len(Stats) \cup {0}
  BY <1>1 DEF FilesInv, Frames, Latest
<1>4. Linkable <= fpga.frame /\ Linkable \in Int
  BY <1>1, LinkableType
<1>5. rx.name \notin 1..Linkable
  BY <1>1, <1>2, <1>4 DEF Linkable
<1> QED BY <1>1, <1>2, <1>3, <1>4, <1>5

\* A step that writes the file under the name being written, and no other.
LEMMA WriteOut ==
    ASSUME LinkInv, reply' = NoReply, UNCHANGED <<fpga, alarm, http>>,
           rx.at \in {"write", "rename", "copy"}, RxInv', rx'.packet = rx.packet \/ rx' = Idle,
           unsure \subseteq unsure', NEW w,
           files' = files \/ files' = [files EXCEPT ![rx.name] = [payload |-> rx.payload, whole |-> w]],
           w = TRUE \/ rx.name \in unsure' \/ files' = files
    PROVE  LinkInv'
<1>1. RxInv /\ FilesInv /\ fpga.frame \in 0..Len(Stats) /\ Len(Stats) \in Nat
  BY Inputs, LenProperties DEF LinkInv, RxInv
<1>2. rx.name \in DOMAIN files /\ rx.name \notin 1..Linkable
      /\ \A u \in 1..Linkable : u \in DOMAIN files
  BY FreshName
<1>3. \A u \in 1..Linkable : files'[u] = files[u]
  BY <1>2
<1>4. FilesInv'
  <2>1. DOMAIN files' = Frames \cup {Latest}
    BY <1>1 DEF FilesInv
  <2>2. files'[Latest] = files[Latest]
        \/ (rx.name = Latest /\ files'[Latest] = [payload |-> rx.payload, whole |-> w]
            /\ (w = TRUE \/ rx.name \in unsure'))
    BY <1>1, <1>2 DEF FilesInv
  <2> QED BY <1>1, <2>1, <2>2 DEF FilesInv
<1>5. Idle.at \notin Making /\ rx.at \in Making
  BY DEF Idle, Making
<1>6. Linkable <= Linkable'
  BY <1>1, <1>5 DEF Linkable
<1> QED BY <1>1, <1>3, <1>4, <1>6, LinkStep DEF NoReply

LEMMA RxWrites ==
    ASSUME LinkInv, reply' = NoReply, WriteUnnoticed \/ RenameFile \/ RenameFails \/ CopyFile
    PROVE  LinkInv'
<1>1. RxInv /\ UNCHANGED <<fpga, alarm, http>>
  BY DEF LinkInv, WriteUnnoticed, RenameFile, RenameFails, CopyFile, WriteStep
<1>5. CASE WriteUnnoticed
  <2>1. /\ rx.at = "write" /\ unsure' = unsure \cup {rx.name} /\ files' = files
        /\ rx' = [rx EXCEPT !.at = "rename"]
    BY <1>5 DEF WriteUnnoticed, WriteStep
  <2>2. RxInv' /\ rx'.packet = rx.packet
    BY <1>1, <2>1 DEF RxInv, Making
  <2> QED BY <1>1, <2>1, <2>2, WriteOut
<1>2. CASE RenameFile
  <2>1. rx.at = "rename" /\ unsure' = unsure /\ rx' = Written(TRUE)
        /\ files' = [files EXCEPT ![rx.name] = [payload |-> rx.payload, whole |-> temp]]
        /\ (temp = TRUE \/ rx.name \in unsure)
    BY <1>1, <1>2 DEF RenameFile, WriteStep, RxInv
  <2>2. rx.name \in unsure' \/ files'[rx.name] = [payload |-> rx.payload, whole |-> TRUE]
    BY <2>1, FreshName
  <2>3. RxInv' /\ (rx'.packet = rx.packet \/ rx' = Idle)
    BY <1>1, <2>1, <2>2, WrittenInv
  <2>4. PICK w : w = temp
    OBVIOUS
  <2>5. files' = [files EXCEPT ![rx.name] = [payload |-> rx.payload, whole |-> w]]
        /\ (w = TRUE \/ rx.name \in unsure') /\ unsure \subseteq unsure'
    BY <2>1, <2>4
  <2> QED BY <1>1, <2>1, <2>3, <2>5, WriteOut
<1>3. CASE RenameFails
  <2>1. rx.at = "rename" /\ unsure' = unsure \cup {rx.name} /\ rx' = [rx EXCEPT !.at = "copy"]
    BY <1>3 DEF RenameFails, WriteStep
  <2>2. files' = files
        \/ files' = [files EXCEPT ![rx.name] = [payload |-> rx.payload, whole |-> FALSE]]
    BY <1>3 DEF RenameFails
  <2>3. RxInv' /\ rx'.packet = rx.packet
    BY <1>1, <2>1 DEF RxInv, Making
  <2> QED BY <1>1, <2>1, <2>2, <2>3, WriteOut
<1>4. CASE CopyFile
  <2>1. rx.at = "copy" /\ unsure' = unsure /\ rx.name \in unsure
    BY <1>1, <1>4 DEF CopyFile, WriteStep, RxInv
  <2>2. files' = files
        \/ files' = [files EXCEPT ![rx.name] = [payload |-> rx.payload, whole |-> temp]]
    BY <1>4 DEF CopyFile
  <2>3. PICK ok \in BOOLEAN : rx' = Written(ok)
    BY <1>4 DEF CopyFile
  <2>4. RxInv' /\ (rx'.packet = rx.packet \/ rx' = Idle)
    BY <1>1, <2>1, <2>3, WrittenInv
  <2>5. PICK w : w = temp
    OBVIOUS
  <2>6. files' = files
        \/ files' = [files EXCEPT ![rx.name] = [payload |-> rx.payload, whole |-> w]]
    BY <2>2, <2>5
  <2> QED BY <1>1, <2>1, <2>4, <2>6, WriteOut
<1> QED BY <1>2, <1>3, <1>4, <1>5

\* A new event: its link is one that nothing before it had.
LEMMA LinkPushed ==
    ASSUME IInv, LinkInv, PushEvent, reply' = NoReply
    PROVE  LinkInv'
<1>1. RxInv /\ FilesInv /\ fpga.frame \in 0..Len(Stats) /\ Len(Stats) \in Nat
  BY Inputs, LenProperties DEF LinkInv, RxInv
<1>2. rx.at = "push" /\ UNCHANGED <<fpga, state, preview, files, http, faults, unsure>>
  BY DEF PushEvent
<1> DEFINE e == [no |-> alarm.count + 1, url |-> rx.url, frame |-> rx.packet.frame_id,
                 shot |-> rx.payload, nth |-> rx.nth]
<1>3. alarm'.events = Kept(alarm.events, e)
  BY DEF PushEvent, IInv, Fields
<1>4. /\ rx'.at = "text" /\ rx'.packet = rx.packet /\ rx'.then = rx.then
      /\ {"at", "packet", "name", "url", "then", "payload"} \subseteq DOMAIN rx'
  BY <1>1 DEF PushEvent, RxInv
<1>5. RxInv'
  BY <1>1, <1>2, <1>4 DEF RxInv, Making
<1>6. rx.packet.frame_id = fpga.frame /\ fpga.frame # 0
  BY <1>1, <1>2 DEF RxInv
<1>7. Linkable = fpga.frame - 1 /\ Linkable' = fpga.frame
  BY <1>1, <1>2, <1>4, <1>6 DEF Linkable, Making
<1>8. Links(e, fpga.frame, files, unsure)
  <2>1. e.url = rx.url /\ e.shot = rx.payload
    OBVIOUS
  <2>2. rx.url = NoUrl
        \/ (rx.url = fpga.frame
            /\ (rx.url \in unsure \/ files[rx.url] = [payload |-> rx.payload, whole |-> TRUE]))
    BY <1>1, <1>2, <1>6 DEF RxInv
  <2> HIDE DEF e
  <2> QED BY <1>1, <1>6, <2>1, <2>2 DEF Links
<1>9. \A events : AllLink(events, fpga.frame - 1, files, unsure)
                  => AllLink(events, fpga.frame, files, unsure)
  BY <1>1, LinksLater
<1>10. AllLink(alarm.events, fpga.frame, files, unsure)
  BY <1>7, <1>9 DEF LinkInv
<1>11. Len(alarm.events) \in Nat
  BY KeptAssumption DEF IInv, CausalInv, Table
<1>12. AllLink(alarm'.events, fpga.frame, files, unsure)
  <2> HIDE DEF e
  <2> QED BY <1>3, <1>8, <1>10, <1>11, LinksKept
<1>13. http.at = "preview" => AllLink(http.alarm.events, fpga.frame, files, unsure)
  BY <1>7, <1>9 DEF LinkInv
<1>14. FilesInv' /\ reply'.kind # "status"
  BY <1>1, <1>2 DEF FilesInv, NoReply
<1> QED BY <1>2, <1>5, <1>7, <1>12, <1>13, <1>14 DEF LinkInv

\* The watchdog and http_loop only read what the links are about.
LEMMA LinkRead ==
    ASSUME LinkInv, UNCHANGED <<fpga, alarm, files, rx, temp, unsure>>,
           http'.at = "preview" => (UNCHANGED http \/ http'.alarm = alarm),
           reply'.kind = "status" => (http.at = "preview" /\ reply'.alarm = http.alarm)
    PROVE  LinkInv'
<1>1. RxInv' /\ FilesInv' /\ Linkable' = Linkable
  BY DEF LinkInv, RxInv, FilesInv, Linkable
<1>2. Linkable \in Int
  BY LinkableType DEF LinkInv
<1>3. Linkable <= Linkable'
  BY <1>1, <1>2
<1> QED BY <1>1, <1>3, LinkStep

LEMMA OthersKeepLinks ==
    ASSUME IInv, LinkInv,
           ((MarkOffline \/ ReadState \/ ReadAlarm) /\ reply' = NoReply)
           \/ ReadPreview \/ ServePreview \/ \E c \in Commands : SendCommand(c)
    PROVE  LinkInv'
<1>1. UNCHANGED <<fpga, alarm, files, rx, temp, unsure>>
  BY DEF MarkOffline, ReadState, ReadAlarm, ReadPreview, ServePreview, SendCommand, HttpStep
<1>2. CASE MarkOffline /\ reply' = NoReply
  BY <1>1, <1>2, LinkRead DEF MarkOffline, NoReply
<1>3. CASE ReadState /\ reply' = NoReply
  <2>1. http'.at = "alarm"
    BY <1>3 DEF ReadState, Accept
  <2> QED BY <1>1, <1>3, <2>1, LinkRead DEF NoReply
<1>4. CASE ReadAlarm /\ reply' = NoReply
  <2>1. http'.alarm = alarm
    BY <1>4 DEF ReadAlarm, IInv, Fields
  <2> QED BY <1>1, <1>4, <2>1, LinkRead DEF NoReply
<1>5. CASE ReadPreview
  <2>1. http.at = "preview" /\ http'.at = "accept" /\ reply'.alarm = http.alarm
    BY <1>5 DEF ReadPreview, Accept
  <2> QED BY <1>1, <2>1, LinkRead
<1>6. CASE ServePreview
  <2>1. UNCHANGED http /\ reply'.kind = "image"
    BY <1>6 DEF ServePreview
  <2> QED BY <1>1, <2>1, LinkRead
<1>7. ASSUME NEW c \in Commands, SendCommand(c)
      PROVE  LinkInv'
  <2>1. UNCHANGED http /\ reply'.kind = "command"
    BY <1>7 DEF SendCommand
  <2> QED BY <1>1, <2>1, LinkRead
<1> QED BY <1>2, <1>3, <1>4, <1>5, <1>6, <1>7

LEMMA NextLinks ==
    ASSUME IInv, LinkInv, [Next]_vars
    PROVE  LinkInv'
<1>1. CASE UNCHANGED vars
  <2>1. UNCHANGED <<fpga, alarm, files, rx, temp, unsure, http, reply>>
    BY <1>1 DEF vars
  <2>2. RxInv' /\ FilesInv' /\ Linkable' = Linkable
    BY <2>1 DEF LinkInv, RxInv, FilesInv, Linkable
  <2> QED BY <2>1, <2>2 DEF LinkInv
<1>2. CASE RxStep /\ reply' = NoReply
  BY <1>2, RxWorks, RxWrites, LinkPushed DEF RxStep
<1>3. CASE (TelemetryArrives \/ PreviewArrives) /\ reply' = NoReply
  BY <1>3, RecordArrives, PictureArrives
<1>4. CASE (MarkOffline \/ ReadState \/ ReadAlarm) /\ reply' = NoReply
  BY <1>4, OthersKeepLinks
<1>5. CASE Replies
  BY <1>5, OthersKeepLinks DEF Replies
<1> QED BY <1>1, <1>2, <1>3, <1>4, <1>5 DEF Next, Quiet

\* Every link in the alarm table, and in a status reply, leads to the whole picture that
\* its event was given, whatever the disk refuses, but for names whose rename failed or
\* whose image was still in the buffer of its stream; and so with latest_preview.bmp.
THEOREM SnapshotsAreWhole == Spec => []LinksWork
<1>1. IInv /\ LinkInv /\ [Next]_vars => (IInv /\ LinkInv)'
  BY NextInv, NextLinks
<1>2. LinkInv => LinksWork
  BY DEF LinkInv, AllLink, Links, LinksWork, LinkWorks, FilesInv
<1> QED BY InitInv, InitLinks, <1>1, <1>2, PTL DEF Spec

-----------------------------------------------------------------------------
LEMMA InitAgree == Init => AgreeInv
<1> SUFFICES ASSUME Init PROVE AgreeInv
  OBVIOUS
<1>1. fpga.frame = 0 /\ {"frame"} \subseteq DOMAIN fpga /\ 0 \in 0..Len(Stats)
  BY Inputs, LenProperties DEF Init
<1>2. BothEndsAgree
  BY DEF Init, NoReply, BothEndsAgree
<1> QED BY <1>1, <1>2 DEF Init, AgreeInv, Idle, NoState, Accept

LEMMA SentLater ==
    ASSUME NEW n \in Int, NEW m \in Int, n <= m
    PROVE  \A r : Sent(r, n) => Sent(r, m)
<1>1. \A f \in 1..n : f \in 1..m
  OBVIOUS
<1> QED BY <1>1 DEF Sent

\* A step that brings no telemetry.
LEMMA AgreeStep ==
    ASSUME AgreeInv, UNCHANGED http, {"frame"} \subseteq DOMAIN fpga', fpga'.frame = fpga.frame,
           {"at", "packet"} \subseteq DOMAIN rx', rx'.at = "state" => UNCHANGED rx,
           {"telemetry", "packet"} \subseteq DOMAIN state',
           (state'.telemetry = state.telemetry /\ state'.packet = state.packet)
           \/ Sent(state'.packet, fpga.frame),
           BothEndsAgree'
    PROVE  AgreeInv'
BY DEF AgreeInv

LEMMA RxAgrees ==
    ASSUME LinkInv, AgreeInv, RxStep \/ PreviewArrives, reply' = NoReply
    PROVE  AgreeInv'
<1>1. RxInv /\ {"at", "packet"} \subseteq DOMAIN rx /\ {"telemetry", "packet"} \subseteq DOMAIN state
      /\ {"frame"} \subseteq DOMAIN fpga
  BY DEF LinkInv, AgreeInv
<1>2. BothEndsAgree'
  BY DEF BothEndsAgree, NoReply
<1>3. CASE StoreTelemetry
  <2>1. UNCHANGED <<fpga, http>> /\ rx'.at = "edge" /\ {"at", "packet"} \subseteq DOMAIN rx'
    BY <1>1, <1>3 DEF StoreTelemetry
  <2>2. {"telemetry", "packet"} \subseteq DOMAIN state' /\ state'.packet = rx.packet
    BY <1>1, <1>3 DEF StoreTelemetry
  <2>3. Sent(rx.packet, fpga.frame)
    BY <1>3 DEF StoreTelemetry, AgreeInv
  <2> QED BY <1>1, <1>2, <2>1, <2>2, <2>3, AgreeStep
<1>4. ASSUME UNCHANGED http, fpga'.frame = fpga.frame, {"frame"} \subseteq DOMAIN fpga',
             {"at", "packet"} \subseteq DOMAIN rx', rx'.at # "state",
             {"telemetry", "packet"} \subseteq DOMAIN state',
             state'.telemetry = state.telemetry, state'.packet = state.packet
      PROVE  AgreeInv'
  BY <1>2, <1>4, AgreeStep
<1>5. CASE AlarmEdge
  <2>1. {"at", "packet"} \subseteq DOMAIN rx' /\ rx'.at # "state"
    BY <1>1, <1>5 DEF AlarmEdge, ToText
  <2> QED BY <1>1, <1>4, <1>5, <2>1 DEF AlarmEdge
<1>6. CASE TakePicture
  <2>1. {"at", "packet"} \subseteq DOMAIN rx' /\ rx'.at # "state"
    BY <1>1, <1>6 DEF TakePicture
  <2> QED BY <1>1, <1>4, <1>6, <2>1 DEF TakePicture
<1>7. CASE PushEvent
  <2>1. {"at", "packet"} \subseteq DOMAIN rx' /\ rx'.at # "state"
    BY <1>1, <1>7 DEF PushEvent
  <2> QED BY <1>1, <1>4, <1>7, <2>1 DEF PushEvent
<1>8. CASE RecordText
  <2>1. {"at", "packet"} \subseteq DOMAIN rx' /\ rx'.at # "state"
    BY <1>1, <1>8 DEF RecordText, ToText, RxInv
  <2>2. {"telemetry", "packet"} \subseteq DOMAIN state' /\ state'.telemetry = state.telemetry
        /\ state'.packet = state.packet
    BY <1>1, <1>8 DEF RecordText, Recorded
  <2> QED BY <1>1, <1>4, <1>8, <2>1, <2>2 DEF RecordText
<1>9. CASE StoreChunk
  <2>1. {"at", "packet"} \subseteq DOMAIN rx' /\ rx'.at # "state"
    BY <1>1, <1>9 DEF StoreChunk
  <2>2. {"telemetry", "packet"} \subseteq DOMAIN state' /\ state'.telemetry = state.telemetry
        /\ state'.packet = state.packet
    BY <1>1, <1>9 DEF StoreChunk
  <2> QED BY <1>1, <1>4, <1>9, <2>1, <2>2 DEF StoreChunk
<1>10. CASE Assemble
  <2>1. {"at", "packet"} \subseteq DOMAIN rx' /\ rx'.at # "state"
    BY <1>1, <1>10 DEF Assemble, ToText
  <2> QED BY <1>1, <1>4, <1>10, <2>1 DEF Assemble
<1>11. CASE SnapshotDue
  <2>1. rx' = [rx EXCEPT !.at = "write", !.name = Latest] \/ rx' = Idle
    BY <1>11 DEF SnapshotDue
  <2>2. {"at", "packet"} \subseteq DOMAIN rx' /\ rx'.at # "state"
    <3>1. CASE rx' = Idle
      BY <3>1 DEF Idle
    <3>2. CASE rx' = [rx EXCEPT !.at = "write", !.name = Latest]
      BY <1>1, <3>2
    <3> QED BY <2>1, <3>1, <3>2
  <2> QED BY <1>1, <1>4, <1>11, <2>2 DEF SnapshotDue
<1>12. CASE WriteTemporary \/ WriteUnnoticed \/ WriteFails \/ RenameFile \/ RenameFails \/ CopyFile
  <2>1. UNCHANGED <<fpga, state, http>>
    BY <1>12 DEF WriteTemporary, WriteUnnoticed, WriteFails, RenameFile, RenameFails, CopyFile, WriteStep
  <2>2. rx' = [rx EXCEPT !.at = "rename"] \/ rx' = [rx EXCEPT !.at = "copy"]
        \/ \E ok \in BOOLEAN : rx' = Written(ok)
    BY <1>12 DEF WriteTemporary, WriteUnnoticed, WriteFails, RenameFile, RenameFails, CopyFile
  <2>3. ASSUME NEW ok \in BOOLEAN, rx' = Written(ok)
        PROVE  {"at", "packet"} \subseteq DOMAIN rx' /\ rx'.at # "state"
    <3>1. CASE rx.name = Latest
      BY <2>3, <3>1 DEF Written, Idle
    <3>2. CASE rx.name # Latest
      BY <1>1, <2>3, <3>2 DEF Written
    <3> QED BY <3>1, <3>2
  <2>4. {"at", "packet"} \subseteq DOMAIN rx' /\ rx'.at # "state"
    <3>1. CASE rx' = [rx EXCEPT !.at = "rename"]
      BY <1>1, <3>1
    <3>2. CASE rx' = [rx EXCEPT !.at = "copy"]
      BY <1>1, <3>2
    <3> QED BY <2>2, <2>3, <3>1, <3>2
  <2> QED BY <1>1, <1>4, <2>1, <2>4
<1>13. CASE PreviewArrives
  <2>1. {"at", "packet"} \subseteq DOMAIN rx' /\ rx'.at = "chunk"
    BY <1>13 DEF PreviewArrives, RxPreview, Idle
  <2>2. {"frame"} \subseteq DOMAIN fpga' /\ fpga'.frame = fpga.frame /\ UNCHANGED <<state, http>>
    BY <1>1, <1>13 DEF PreviewArrives, RxPreview
  <2> QED BY <1>1, <1>4, <2>1, <2>2
<1> QED BY <1>3, <1>5, <1>6, <1>7, <1>8, <1>9, <1>10, <1>11, <1>12, <1>13 DEF RxStep

LEMMA RecordAgrees ==
    ASSUME AgreeInv, TelemetryArrives, reply' = NoReply
    PROVE  AgreeInv'
<1>1. /\ {"frame"} \subseteq DOMAIN fpga' /\ fpga'.frame = fpga.frame + 1
      /\ fpga'.frame \in Frames
      /\ \E a \in BOOLEAN :
             rx' = [Idle EXCEPT !.at = "state", !.packet = Record(fpga'.frame, a)]
      /\ UNCHANGED <<state, alarm, preview, files, http, faults, unsure>>
  BY TelemetryTaken DEF AgreeInv
<1>2. PICK a \in BOOLEAN : rx' = [Idle EXCEPT !.at = "state", !.packet = Record(fpga'.frame, a)]
  BY <1>1
<1>3. {"at", "packet"} \subseteq DOMAIN rx' /\ rx'.packet = Record(fpga'.frame, a)
  BY <1>2 DEF Idle
<1>4. fpga'.frame \in 0..Len(Stats) /\ fpga.frame \in Int /\ fpga'.frame \in Int
      /\ fpga.frame <= fpga'.frame /\ fpga'.frame \in 1..fpga'.frame
  BY <1>1 DEF AgreeInv, Frames
<1>5. Sent(rx'.packet, fpga'.frame)
  BY <1>3, <1>4 DEF Sent
<1> DEFINE n == fpga.frame
           m == fpga'.frame
<1>6. \A r : Sent(r, n) => Sent(r, m)
  <2>1. n \in Int /\ m \in Int /\ n <= m
    BY <1>4
  <2> HIDE DEF n, m
  <2> QED BY <2>1, SentLater
<1>7. BothEndsAgree'
  BY DEF BothEndsAgree, NoReply
<1> QED BY <1>1, <1>3, <1>4, <1>5, <1>6, <1>7 DEF AgreeInv

LEMMA OthersAgree ==
    ASSUME IInv, AgreeInv,
           ((MarkOffline \/ ReadState \/ ReadAlarm) /\ reply' = NoReply)
           \/ ReadPreview \/ ServePreview
    PROVE  AgreeInv'
<1>1. UNCHANGED <<fpga, rx>>
  BY DEF MarkOffline, ReadState, ReadAlarm, ReadPreview, ServePreview, HttpStep
<1>2. CASE MarkOffline /\ reply' = NoReply
  <2>1. {"telemetry", "packet"} \subseteq DOMAIN state' /\ state'.telemetry = state.telemetry
        /\ state'.packet = state.packet
    BY <1>2 DEF MarkOffline, Recorded, AgreeInv
  <2> QED BY <1>1, <1>2, <2>1 DEF MarkOffline, AgreeInv, BothEndsAgree, NoReply
<1>3. CASE ReadState /\ reply' = NoReply
  <2>1. {"at", "state"} \subseteq DOMAIN http' /\ http'.state = state /\ UNCHANGED state
    BY <1>3 DEF ReadState, Accept
  <2> QED BY <1>1, <1>3, <2>1 DEF AgreeInv, BothEndsAgree, NoReply
<1>4. CASE ReadAlarm /\ reply' = NoReply
  <2>1. {"at", "state"} \subseteq DOMAIN http' /\ http'.state = http.state /\ UNCHANGED state
        /\ http.at = "alarm"
    BY <1>4 DEF ReadAlarm, AgreeInv
  <2> QED BY <1>1, <1>4, <2>1 DEF AgreeInv, BothEndsAgree, NoReply
<1>5. CASE ReadPreview
  <2>1. /\ http.at = "preview" /\ UNCHANGED state /\ http' = Accept
        /\ reply' = [kind |-> "status", state |-> http.state, alarm |-> http.alarm,
                     preview |-> preview]
    BY <1>5 DEF ReadPreview
  <2>2. http.state.telemetry => Sent(http.state.packet, fpga.frame)
    BY <2>1 DEF AgreeInv
  <2>3. BothEndsAgree'
    BY <1>1, <2>1, <2>2 DEF BothEndsAgree, Sent
  <2> QED BY <1>1, <2>1, <2>3 DEF AgreeInv, Accept
<1>6. CASE ServePreview
  <2>1. UNCHANGED <<state, http>> /\ reply'.kind = "image"
    BY <1>6 DEF ServePreview
  <2> QED BY <1>1, <2>1 DEF AgreeInv, BothEndsAgree
<1> QED BY <1>2, <1>3, <1>4, <1>5, <1>6

LEMMA CommandAgrees ==
    ASSUME AgreeInv, NEW c \in Commands, SendCommand(c)
    PROVE  AgreeInv'
<1> DEFINE low == c.addr % 65536
           p == build_command_packet(c.cmd, c.seq, low, c.data0, 0)
<1>1. UNCHANGED <<fpga, rx, http>> /\ state' = Recorded(state, Other)
      /\ reply' = [kind |-> "command", meant |-> c, bytes |-> p]
  BY SMT DEF SendCommand, HttpStep
<1>2. c.cmd \in Byte /\ c.seq \in Word /\ c.addr \in Nat /\ c.data0 \in Long
  BY Inputs
<1>3. low \in Word
  BY <1>2, SMT DEF Word
<1>4. 0 \in Long
  BY SMT DEF Long
<1>9. low = c.addr % 65536
  OBVIOUS
<1> HIDE DEF low
<1>5. IsCommand(p) /\ ParseCommand(p) = [cmd |-> c.cmd, seq |-> c.seq, addr |-> low,
                                         data0 |-> c.data0, data1 |-> 0]
  BY <1>2, <1>3, <1>4, CommandRead
<1> HIDE DEF p
<1>6. reply'.kind = "command" /\ reply'.meant = c /\ reply'.bytes = p
  BY <1>1
<1>7. BothEndsAgree'
  <2>1. reply'.meant.cmd = c.cmd /\ reply'.meant.seq = c.seq /\ reply'.meant.data0 = c.data0
        /\ reply'.meant.addr % 65536 = low
    BY <1>6, <1>9, SMT
  <2> QED BY <1>5, <1>6, <2>1, SMT DEF BothEndsAgree
<1>8. {"telemetry", "packet"} \subseteq DOMAIN state' /\ state'.telemetry = state.telemetry
      /\ state'.packet = state.packet
  BY <1>1 DEF Recorded, AgreeInv
<1> QED BY <1>1, <1>7, <1>8, AgreeStep DEF AgreeInv

LEMMA NextAgrees ==
    ASSUME IInv, LinkInv, AgreeInv, [Next]_vars
    PROVE  AgreeInv'
<1>1. CASE UNCHANGED vars
  BY <1>1 DEF vars, AgreeInv, BothEndsAgree
<1>2. CASE (RxStep \/ PreviewArrives) /\ reply' = NoReply
  BY <1>2, RxAgrees
<1>3. CASE TelemetryArrives /\ reply' = NoReply
  BY <1>3, RecordAgrees
<1>4. CASE ((MarkOffline \/ ReadState \/ ReadAlarm) /\ reply' = NoReply)
           \/ ReadPreview \/ ServePreview
  BY <1>4, OthersAgree
<1>5. CASE \E c \in Commands : SendCommand(c)
  BY <1>5, CommandAgrees
<1> QED BY <1>1, <1>2, <1>3, <1>4, <1>5 DEF Next, Quiet, Replies

\* The telemetry of a status reply is, field by field, the record of a frame the FPGA
\* sent, whatever byte of whatever datagram is damaged; and the FPGA reads of a command
\* what was asked for.
THEOREM EndsAgree == Spec => []BothEndsAgree
<1>1. IInv /\ LinkInv /\ AgreeInv /\ [Next]_vars => (IInv /\ LinkInv /\ AgreeInv)'
  BY NextInv, NextLinks, NextAgrees
<1>2. AgreeInv => BothEndsAgree
  BY DEF AgreeInv
<1> QED BY InitInv, InitLinks, InitAgree, <1>1, <1>2, PTL DEF Spec

-----------------------------------------------------------------------------
(***************************************************************************)
(* Images.                                                                 *)
(***************************************************************************)
LEMMA WordIsLong == \A v \in Word : v \in Long
BY SMT DEF Word, Long

LEMMA LittleOf16 ==
    ASSUME NEW v \in Word
    PROVE  /\ Le16(v) \in Seq(Byte) /\ Len(Le16(v)) = 2
           /\ Le16(v)[1] + 256 * Le16(v)[2] = v
<1> DEFINE a == v % 256
           b == (v \div 256) % 256
<1>1. a \in Byte /\ b \in Byte /\ a + 256 * b = v
  <2>1. a \in Byte /\ b \in Byte /\ 256 * b + a = v
    BY HighLow
  <2> HIDE DEF a, b
  <2> QED BY <2>1, SMT DEF Byte
<1>2. Le16(v) = <<a, b>>
  BY DEF Le16
<1> HIDE DEF a, b
<1>3. <<a, b>> \in Seq(Byte) /\ Len(<<a, b>>) = 2 /\ <<a, b>>[1] = a /\ <<a, b>>[2] = b
  BY <1>1, Pair
<1> QED BY <1>1, <1>2, <1>3

LEMMA LittleOf32 ==
    ASSUME NEW v \in Long
    PROVE  /\ Le32(v) \in Seq(Byte) /\ Len(Le32(v)) = 4
           /\ (Le32(v)[1] + 256 * Le32(v)[2]) + 65536 * (Le32(v)[3] + 256 * Le32(v)[4]) = v
<1> DEFINE lo == Le16(v % 65536)
           hi == Le16(v \div 65536)
<1>1. v \div 65536 \in Word /\ v % 65536 \in Word
      /\ 65536 * (v \div 65536) + (v % 65536) = v
  BY Halves, SMT
<1>2. hi \in Seq(Byte) /\ Len(hi) = 2 /\ hi[1] + 256 * hi[2] = v \div 65536
  BY <1>1, LittleOf16, SMT
<1>3. lo \in Seq(Byte) /\ Len(lo) = 2 /\ lo[1] + 256 * lo[2] = v % 65536
  BY <1>1, LittleOf16, SMT
<1>8. hi \in Seq(Byte) /\ lo \in Seq(Byte)
  BY <1>2, <1>3, SMT
<1>7. Le32(v) = lo \o hi
  BY SMT DEF Le32
<1> HIDE DEF hi, lo
<1>4. /\ lo \o hi \in Seq(Byte) /\ Len(lo \o hi) = Len(lo) + Len(hi)
      /\ \A k \in 1..Len(lo) : (lo \o hi)[k] = lo[k]
      /\ \A k \in 1..Len(hi) : (lo \o hi)[Len(lo) + k] = hi[k]
  BY <1>8, Joined, Zenon
<1>5. (lo \o hi)[1] = lo[1] /\ (lo \o hi)[2] = lo[2] /\ (lo \o hi)[2 + 1] = hi[1]
      /\ (lo \o hi)[2 + 2] = hi[2] /\ Len(lo \o hi) = 4
  BY <1>2, <1>3, <1>4
<1>6. (lo \o hi)[3] = hi[1] /\ (lo \o hi)[4] = hi[2]
  BY <1>5
<1>9. (v \div 65536) \in Int /\ (v % 65536) + 65536 * (v \div 65536) = v
  BY <1>1, SMT DEF Word
<1> QED BY <1>2, <1>3, <1>4, <1>5, <1>6, <1>7, <1>9, SMT

LEMMA ZerosBytes ==
    ASSUME NEW n \in Nat
    PROVE  Zeros(n) \in Seq(Byte) /\ Len(Zeros(n)) = n
<1>1. 0 \in Byte
  BY DEF Byte
<1>2. Zeros(n) \in [1..n -> Byte]
  BY <1>1 DEF Zeros
<1> QED BY <1>2, FunctionIsSeq

Then(s, t) == s \o t

LEMMA LongerBy ==
    ASSUME NEW s \in Seq(Byte), NEW t \in Seq(Byte)
    PROVE  Then(s, t) \in Seq(Byte) /\ Size(Then(s, t)) = Size(s) + Size(t)
BY Joined, ZenonT(40) DEF Then, Size

LEMMA BeginsEarlier ==
    ASSUME NEW s \in Seq(Byte), NEW t \in Seq(Byte), NEW d \in Seq(Byte), Begins(Then(s, t), d)
    PROVE  Begins(s, d)
BY FieldOfBytes, ZenonT(40) DEF Then

LEMMA FieldLittle ==
    ASSUME NEW s \in Seq(Byte), NEW v \in Long, NEW d \in Seq(Byte), Begins(Then(s, Le32(v)), d)
    PROVE  Le32At(d, Size(s)) = v
<1> DEFINE t == Le32(v)
<1>1. t \in Seq(Byte) /\ Len(t) = 4
      /\ (t[1] + 256 * t[2]) + 65536 * (t[3] + 256 * t[4]) = v
  BY LittleOf32
<1>6. t \in Seq(Byte)
  BY <1>1, SMT
<1> HIDE DEF t
<1>2. \A k \in 1..Len(t) : d[Len(s) + k] = t[k]
  BY <1>6, FieldOfBytes, ZenonT(40) DEF t, Then
<1>3. d[Len(s) + 1] = t[1] /\ d[Len(s) + 2] = t[2] /\ d[Len(s) + 3] = t[3] /\ d[Len(s) + 4] = t[4]
  BY <1>1, <1>2
<1>4. Len(s) \in Nat /\ (Len(s) + 2) + 1 = Len(s) + 3 /\ (Len(s) + 2) + 2 = Len(s) + 4
  OBVIOUS
<1>5. Le32At(d, Len(s)) = (d[Len(s) + 1] + 256 * d[Len(s) + 2])
                            + 65536 * (d[Len(s) + 3] + 256 * d[Len(s) + 4])
  BY <1>4 DEF Le16At, Le32At
<1> QED BY <1>1, <1>3, <1>5 DEF t, Size

\* A viewer reads in the header what rgb565_to_bmp and yuv422_to_bmp wrote there.
LEMMA HeaderRead ==
    ASSUME NEW w \in Word, NEW h \in Word, NEW n \in Long, n = row_stride(w) * h, 54 + n \in Long
    PROVE  /\ BmpHeader(w, h) \in Seq(Byte) /\ Size(BmpHeader(w, h)) = 54
           /\ Le32At(BmpHeader(w, h), 2) = 54 + n /\ Le32At(BmpHeader(w, h), 10) = 54
           /\ Le32At(BmpHeader(w, h), 18) = w /\ Le32At(BmpHeader(w, h), 22) = h
<1> DEFINE s0 == <<66, 77>>
           s1 == Then(s0, Le32(54 + n))
           s2 == Then(s1, Zeros(4))
           s3 == Then(s2, Le32(54))
           s4 == Then(s3, Le32(40))
           s5 == Then(s4, Le32(w))
           s6 == Then(s5, Le32(h))
           s7 == Then(s6, Le16(1))
           s8 == Then(s7, Le16(24))
           s9 == Then(s8, Zeros(4))
           s10 == Then(s9, Le32(n))
           s11 == Then(s10, Zeros(16))
<1>0. BmpHeader(w, h) = s11
  BY DEF BmpHeader, Then
<1>f. w \in Long /\ h \in Long /\ 54 \in Long /\ 40 \in Long /\ 1 \in Word /\ 24 \in Word
  BY WordIsLong, SMT DEF Word, Long
<1>g. /\ Le32(54 + n) \in Seq(Byte) /\ Size(Le32(54 + n)) = 4
      /\ Le32(54) \in Seq(Byte) /\ Size(Le32(54)) = 4
      /\ Le32(40) \in Seq(Byte) /\ Size(Le32(40)) = 4
      /\ Le32(w) \in Seq(Byte) /\ Size(Le32(w)) = 4
      /\ Le32(h) \in Seq(Byte) /\ Size(Le32(h)) = 4
      /\ Le32(n) \in Seq(Byte) /\ Size(Le32(n)) = 4
  <2>1. \A v \in Long : Le32(v) \in Seq(Byte) /\ Size(Le32(v)) = 4
    BY LittleOf32, SMT DEF Size
  <2> QED BY <1>f, <2>1
<1>h. /\ Le16(1) \in Seq(Byte) /\ Size(Le16(1)) = 2 /\ Le16(24) \in Seq(Byte) /\ Size(Le16(24)) = 2
      /\ Zeros(4) \in Seq(Byte) /\ Size(Zeros(4)) = 4 /\ Zeros(16) \in Seq(Byte) /\ Size(Zeros(16)) = 16
  <2>1. \A v \in Word : Le16(v) \in Seq(Byte) /\ Size(Le16(v)) = 2
    BY LittleOf16, SMT DEF Size
  <2>2. \A v \in Nat : Zeros(v) \in Seq(Byte) /\ Size(Zeros(v)) = v
    BY ZerosBytes DEF Size
  <2> QED BY <1>f, <2>1, <2>2
<1>a0. s0 \in Seq(Byte) /\ Size(s0) = 2
  BY DEF Byte, Size
<1> HIDE DEF s0
<1>a1. s1 \in Seq(Byte) /\ Size(s1) = 6
  <2>1. s1 \in Seq(Byte) /\ Size(s1) = Size(s0) + Size(Le32(54 + n))
    BY <1>g, <1>a0, LongerBy, ZenonT(40)
  <2> QED BY <1>g, <1>a0, <2>1
<1> HIDE DEF s1
<1>a2. s2 \in Seq(Byte) /\ Size(s2) = 10
  <2>1. s2 \in Seq(Byte) /\ Size(s2) = Size(s1) + Size(Zeros(4))
    BY <1>h, <1>a1, LongerBy, ZenonT(40)
  <2> QED BY <1>h, <1>a1, <2>1
<1> HIDE DEF s2
<1>a3. s3 \in Seq(Byte) /\ Size(s3) = 14
  <2>1. s3 \in Seq(Byte) /\ Size(s3) = Size(s2) + Size(Le32(54))
    BY <1>g, <1>a2, LongerBy, ZenonT(40)
  <2> QED BY <1>g, <1>a2, <2>1
<1> HIDE DEF s3
<1>a4. s4 \in Seq(Byte) /\ Size(s4) = 18
  <2>1. s4 \in Seq(Byte) /\ Size(s4) = Size(s3) + Size(Le32(40))
    BY <1>g, <1>a3, LongerBy, ZenonT(40)
  <2> QED BY <1>g, <1>a3, <2>1
<1> HIDE DEF s4
<1>a5. s5 \in Seq(Byte) /\ Size(s5) = 22
  <2>1. s5 \in Seq(Byte) /\ Size(s5) = Size(s4) + Size(Le32(w))
    BY <1>g, <1>a4, LongerBy, ZenonT(40)
  <2> QED BY <1>g, <1>a4, <2>1
<1> HIDE DEF s5
<1>a6. s6 \in Seq(Byte) /\ Size(s6) = 26
  <2>1. s6 \in Seq(Byte) /\ Size(s6) = Size(s5) + Size(Le32(h))
    BY <1>g, <1>a5, LongerBy, ZenonT(40)
  <2> QED BY <1>g, <1>a5, <2>1
<1> HIDE DEF s6
<1>a7. s7 \in Seq(Byte) /\ Size(s7) = 28
  <2>1. s7 \in Seq(Byte) /\ Size(s7) = Size(s6) + Size(Le16(1))
    BY <1>h, <1>a6, LongerBy, ZenonT(40)
  <2> QED BY <1>h, <1>a6, <2>1
<1> HIDE DEF s7
<1>a8. s8 \in Seq(Byte) /\ Size(s8) = 30
  <2>1. s8 \in Seq(Byte) /\ Size(s8) = Size(s7) + Size(Le16(24))
    BY <1>h, <1>a7, LongerBy, ZenonT(40)
  <2> QED BY <1>h, <1>a7, <2>1
<1> HIDE DEF s8
<1>a9. s9 \in Seq(Byte) /\ Size(s9) = 34
  <2>1. s9 \in Seq(Byte) /\ Size(s9) = Size(s8) + Size(Zeros(4))
    BY <1>h, <1>a8, LongerBy, ZenonT(40)
  <2> QED BY <1>h, <1>a8, <2>1
<1> HIDE DEF s9
<1>a10. s10 \in Seq(Byte) /\ Size(s10) = 38
  <2>1. s10 \in Seq(Byte) /\ Size(s10) = Size(s9) + Size(Le32(n))
    BY <1>g, <1>a9, LongerBy, ZenonT(40)
  <2> QED BY <1>g, <1>a9, <2>1
<1> HIDE DEF s10
<1>a11. s11 \in Seq(Byte) /\ Size(s11) = 54
  <2>1. s11 \in Seq(Byte) /\ Size(s11) = Size(s10) + Size(Zeros(16))
    BY <1>h, <1>a10, LongerBy, ZenonT(40)
  <2> QED BY <1>h, <1>a10, <2>1
<1> HIDE DEF s11
<1>b11. Begins(s11, s11)
  BY <1>a11 DEF Begins
<1>b10. Begins(s10, s11)
  BY <1>h, <1>a10, <1>a11, <1>b11, BeginsEarlier, ZenonT(40) DEF s11
<1>b9. Begins(s9, s11)
  BY <1>g, <1>a9, <1>a11, <1>b10, BeginsEarlier, ZenonT(40) DEF s10
<1>b8. Begins(s8, s11)
  BY <1>h, <1>a8, <1>a11, <1>b9, BeginsEarlier, ZenonT(40) DEF s9
<1>b7. Begins(s7, s11)
  BY <1>h, <1>a7, <1>a11, <1>b8, BeginsEarlier, ZenonT(40) DEF s8
<1>b6. Begins(s6, s11)
  BY <1>h, <1>a6, <1>a11, <1>b7, BeginsEarlier, ZenonT(40) DEF s7
<1>b5. Begins(s5, s11)
  BY <1>g, <1>a5, <1>a11, <1>b6, BeginsEarlier, ZenonT(40) DEF s6
<1>b4. Begins(s4, s11)
  BY <1>g, <1>a4, <1>a11, <1>b5, BeginsEarlier, ZenonT(40) DEF s5
<1>b3. Begins(s3, s11)
  BY <1>g, <1>a3, <1>a11, <1>b4, BeginsEarlier, ZenonT(40) DEF s4
<1>b2. Begins(s2, s11)
  BY <1>g, <1>a2, <1>a11, <1>b3, BeginsEarlier, ZenonT(40) DEF s3
<1>b1. Begins(s1, s11)
  BY <1>h, <1>a1, <1>a11, <1>b2, BeginsEarlier, ZenonT(40) DEF s2
<1>b0. Begins(s0, s11)
  BY <1>g, <1>a0, <1>a11, <1>b1, BeginsEarlier, ZenonT(40) DEF s1
<1>c0. Le32At(s11, 2) = 54 + n
  <2>1. Le32At(s11, Size(s0)) = 54 + n
    BY <1>f, <1>a0, <1>a11, <1>b1, FieldLittle, ZenonT(40) DEF s1
  <2> QED BY <1>a0, <2>1
<1>c2. Le32At(s11, 10) = 54
  <2>1. Le32At(s11, Size(s2)) = 54
    BY <1>f, <1>a2, <1>a11, <1>b3, FieldLittle, ZenonT(40) DEF s3
  <2> QED BY <1>a2, <2>1
<1>c4. Le32At(s11, 18) = w
  <2>1. Le32At(s11, Size(s4)) = w
    BY <1>f, <1>a4, <1>a11, <1>b5, FieldLittle, ZenonT(40) DEF s5
  <2> QED BY <1>a4, <2>1
<1>c5. Le32At(s11, 22) = h
  <2>1. Le32At(s11, Size(s5)) = h
    BY <1>f, <1>a5, <1>a11, <1>b6, FieldLittle, ZenonT(40) DEF s6
  <2> QED BY <1>a5, <2>1
<1> QED BY <1>0, <1>a11, <1>c0, <1>c2, <1>c4, <1>c5

LEMMA Quotient ==
    ASSUME NEW s \in Nat \ {0}, NEW q \in Nat, NEW r \in 0..(s - 1)
    PROVE  (q * s + r) \div s = q /\ (q * s + r) % s = r
<1> DEFINE m == q * s + r
           d == m \div s
           e == m % s
<1>1. q * s \in Nat /\ m \in Nat
  OBVIOUS
<1>2. d \in Int /\ e \in 0..(s - 1) /\ m = s * d + e
  BY <1>1
<1>3. m = q * s + r
  OBVIOUS
<1> HIDE DEF m, d, e
<1>4. s * (d - q) = r - e
  BY <1>2, <1>3
<1>5. ~(d - q >= 1)
  <2> SUFFICES ASSUME d - q >= 1 PROVE FALSE
    OBVIOUS
  <2>1. s * (d - q) >= s
    BY <1>2
  <2> QED BY <1>2, <1>4, <2>1
<1>6. ~(d - q <= -1)
  <2> SUFFICES ASSUME d - q <= -1 PROVE FALSE
    OBVIOUS
  <2>1. s * (d - q) <= -s
    BY <1>2
  <2> QED BY <1>2, <1>4, <2>1
<1>7. d = q
  BY <1>2, <1>5, <1>6
<1>8. e = r
  BY <1>2, <1>3, <1>7
<1> QED BY <1>7, <1>8 DEF d, e, m

LEMMA StrideWide ==
    ASSUME NEW w \in Nat
    PROVE  row_stride(w) \in Nat /\ row_stride(w) >= 3 * w
BY DEF row_stride

\* Where the bytes of the pixel at (x, y) are, and the row and column of the i-th byte.
PixelAt(w, h, x, y) == (h - 1 - y) * row_stride(w) + 3 * x
RowAt(w, h, i) == h - 1 - ((i - 1) \div row_stride(w))
ColumnAt(w, i) == (i - 1) % row_stride(w)
\* The i-th byte is that of colour j at (x, y).
ByteAt(w, h, x, y, j, i) ==
    i \in 1..(row_stride(w) * h) /\ RowAt(w, h, i) = y /\ ColumnAt(w, i) = 3 * x + j

LEMMA PixelInside ==
    ASSUME NEW w \in Nat \ {0}, NEW h \in Nat \ {0}, NEW x \in 0..(w - 1), NEW y \in 0..(h - 1),
           NEW j \in 0..2, NEW i, i = PixelAt(w, h, x, y) + j + 1
    PROVE  ByteAt(w, h, x, y, j, i)
<1> DEFINE s == row_stride(w)
           q == h - 1 - y
           r == 3 * x + j
<1>1. s \in Nat /\ s >= 3 * w
  BY StrideWide
<1>2. q \in Nat /\ r \in 0..(3 * w - 1) /\ q + 1 <= h
  OBVIOUS
<1>3. i - 1 = q * s + r
  <2>1. q * s \in Int
    BY <1>1, <1>2
  <2>2. i = q * s + 3 * x + j + 1
    BY DEF PixelAt
  <2> QED BY <2>1, <2>2
<1>5. h - 1 - q = y
  OBVIOUS
<1>6. r = 3 * x + j
  OBVIOUS
<1> HIDE DEF s, q, r
<1>7. s \in Nat \ {0} /\ r \in 0..(s - 1)
  BY <1>1, <1>2
<1>8. (i - 1) \div s = q /\ (i - 1) % s = r
  <2>1. (q * s + r) \div s = q /\ (q * s + r) % s = r
    BY <1>2, <1>7, Quotient, ZenonT(40)
  <2> QED BY <1>3, <2>1
<1>9. i \in 1..(s * h)
  <2>1. s * (q + 1) <= s * h
    BY <1>1, <1>2
  <2>2. s * (q + 1) = q * s + s /\ q * s \in Nat
    BY <1>1, <1>2
  <2>3. i = q * s + r + 1
    <3>1. PixelAt(w, h, x, y) \in Int
      BY <1>1 DEF PixelAt, s
    <3> QED BY <1>3, <2>2, <3>1, <1>2
  <2> QED BY <1>1, <1>7, <2>1, <2>2, <2>3
<1>10. RowAt(w, h, i) = y /\ ColumnAt(w, i) = 3 * x + j
  BY <1>5, <1>6, <1>8 DEF s, RowAt, ColumnAt
<1>11. i \in 1..(row_stride(w) * h)
  BY <1>9 DEF s
<1> HIDE DEF q, r
<1> QED BY ONLY <1>10, <1>11 DEF ByteAt

\* A file with its header right, and what a viewer shows of the bytes after it.
FileOf(w, h, bmp) == Le32At(bmp, 18) = w /\ Le32At(bmp, 2) = Len(bmp) /\ bmp # <<>>
ShowsBytes(w, h, bmp, body) ==
    \A x \in 0..(w - 1), y \in 0..(h - 1) :
        Shown(bmp, x, y) = <<body[PixelAt(w, h, x, y) + 2 + 1],
                             body[PixelAt(w, h, x, y) + 1 + 1],
                             body[PixelAt(w, h, x, y) + 0 + 1]>>
LEMMA ShownOf ==
    ASSUME NEW w \in Word \ {0}, NEW h \in Word \ {0}, NEW n \in Long, n = row_stride(w) * h,
           54 + n \in Long, NEW T, NEW body \in [1..n -> T],
           NEW bmp, bmp = BmpHeader(w, h) \o body
    PROVE  FileOf(w, h, bmp) /\ ShowsBytes(w, h, bmp, body)
<1> DEFINE hd == BmpHeader(w, h)
           S == Byte \cup T
<1>1. /\ hd \in Seq(Byte) /\ Size(hd) = 54 /\ Le32At(hd, 2) = 54 + n /\ Le32At(hd, 10) = 54
      /\ Le32At(hd, 18) = w /\ Le32At(hd, 22) = h
  <2>1. w \in Word /\ h \in Word
    OBVIOUS
  <2> QED BY <2>1, HeaderRead, SMTT(30)
<1>2. n \in Nat
  BY SMT DEF Long
<1>3. body \in Seq(T) /\ Len(body) = n
  BY <1>2, FunctionIsSeq
<1>4. hd \in Seq(S) /\ body \in Seq(S)
  BY <1>1, <1>3
<1>5. Len(hd) = 54
  BY <1>1 DEF Size
<1> HIDE DEF hd, S
<1>6. /\ bmp \in Seq(S) /\ Len(bmp) = Len(hd) + Len(body)
      /\ \A k \in 1..(Len(hd) + Len(body)) : bmp[k] = IF k <= Len(hd) THEN hd[k] ELSE body[k - Len(hd)]
  BY <1>4, ConcatProperties, ZenonT(40) DEF hd
<1>7. Len(bmp) = 54 + n /\ \A k \in 1..n : bmp[54 + k] = body[k]
  BY <1>2, <1>3, <1>5, <1>6
<1>8. \A k \in Nat : 1 <= k /\ k <= 54 => bmp[k] = hd[k]
  BY <1>2, <1>3, <1>5, <1>6
<1>9. \A k \in Nat : k <= 50 => Le32At(bmp, k) = Le32At(hd, k)
  <2> SUFFICES ASSUME NEW k \in Nat, k <= 50
               PROVE  Le32At(bmp, k) = Le32At(hd, k)
    OBVIOUS
  <2>1. bmp[k + 1] = hd[k + 1] /\ bmp[k + 2] = hd[k + 2]
        /\ bmp[(k + 2) + 1] = hd[(k + 2) + 1] /\ bmp[(k + 2) + 2] = hd[(k + 2) + 2]
    <3>1. \A j \in {k + 1, k + 2, (k + 2) + 1, (k + 2) + 2} : j \in Nat /\ 1 <= j /\ j <= 54
      OBVIOUS
    <3> QED BY <1>8, <3>1
  <2> QED BY <2>1, SMT DEF Le32At, Le16At
<1>10. Le32At(bmp, 2) = 54 + n /\ Le32At(bmp, 10) = 54 /\ Le32At(bmp, 18) = w /\ Le32At(bmp, 22) = h
  BY <1>1, <1>9
<1>11. bmp # <<>>
  BY <1>2, <1>7
<1>12. w \in Nat \ {0} /\ h \in Nat \ {0}
  BY SMT DEF Word
<1>13. ASSUME NEW x \in 0..(w - 1), NEW y \in 0..(h - 1)
       PROVE  Shown(bmp, x, y) = <<body[PixelAt(w, h, x, y) + 2 + 1],
                                   body[PixelAt(w, h, x, y) + 1 + 1],
                                   body[PixelAt(w, h, x, y) + 0 + 1]>>
  <2> DEFINE at == PixelAt(w, h, x, y)
  <2>1. \A j \in 0..2 : at + j + 1 \in 1..n
    BY <1>12, PixelInside DEF ByteAt
  <2>2. row_stride(w) \in Nat /\ at \in Int
    <3>1. row_stride(w) \in Nat
      BY <1>12, StrideWide
    <3> QED BY <1>12, <3>1 DEF PixelAt
  <2>3. Shown(bmp, x, y) = <<bmp[(54 + at) + 3], bmp[(54 + at) + 2], bmp[(54 + at) + 1]>>
    <3>1. 4 * ((3 * w + 3) \div 4) = row_stride(w)
      BY <1>12 DEF row_stride
    <3>2. (54 + (h - 1 - y) * row_stride(w)) + 3 * x = 54 + at
      BY <1>12, <2>2 DEF PixelAt
    <3> QED BY <1>10, <3>1, <3>2 DEF Shown
  <2> HIDE DEF at
  <2>4. (54 + at) + 3 = 54 + (at + 2 + 1) /\ (54 + at) + 2 = 54 + (at + 1 + 1)
        /\ (54 + at) + 1 = 54 + (at + 0 + 1)
    BY <2>2
  <2>5. /\ bmp[54 + (at + 2 + 1)] = body[at + 2 + 1] /\ bmp[54 + (at + 1 + 1)] = body[at + 1 + 1]
        /\ bmp[54 + (at + 0 + 1)] = body[at + 0 + 1]
    <3>1. at + 2 + 1 \in 1..n /\ at + 1 + 1 \in 1..n /\ at + 0 + 1 \in 1..n
      BY <2>1
    <3> QED BY ONLY <1>7, <3>1
  <2>6. Shown(bmp, x, y) = <<body[at + 2 + 1], body[at + 1 + 1], body[at + 0 + 1]>>
    BY ONLY <2>3, <2>4, <2>5
  <2> QED BY <2>6 DEF at
<1> QED BY <1>7, <1>10, <1>11, <1>13 DEF FileOf, ShowsBytes

\* The file that Bmp makes of the colours C.
BmpOf(w, h, C) ==
    BmpHeader(w, h) \o
        [i \in 1..(row_stride(w) * h) |->
            IF ColumnAt(w, i) < 3 * w
            THEN C[ColumnAt(w, i) \div 3][RowAt(w, h, i)][3 - (ColumnAt(w, i) % 3)]
            ELSE 0]

Triple(c) == <<c[1], c[2], c[3]>>
ShowsColours(w, h, bmp, C) ==
    \A x \in 0..(w - 1), y \in 0..(h - 1) : Shown(bmp, x, y) = Triple(C[x][y])

\* The picture of a colour for every place shows that colour there.
LEMMA PlacesShown ==
    ASSUME NEW w \in Word \ {0}, NEW h \in Word \ {0}, 54 + row_stride(w) * h \in Long, NEW C,
           NEW bmp,
           bmp = BmpOf(w, h, C)
    PROVE  FileOf(w, h, bmp) /\ ShowsColours(w, h, bmp, C)
<1> DEFINE n == row_stride(w) * h
           Item(i) == IF ColumnAt(w, i) < 3 * w
                      THEN C[ColumnAt(w, i) \div 3][RowAt(w, h, i)][3 - (ColumnAt(w, i) % 3)]
                      ELSE 0
           body == [i \in 1..n |-> Item(i)]
<1>1. w \in Nat \ {0} /\ h \in Nat \ {0}
  BY SMT DEF Word
<1>2. row_stride(w) \in Nat
  BY <1>1, StrideWide
<1>3. n \in Nat
  BY <1>1, <1>2
<1>4. n \in Long
  BY <1>3, SMT DEF Long
<1>5. bmp = BmpHeader(w, h) \o body
  BY DEF BmpOf
<1>6. PICK T : body \in [1..n -> T]
  <2>1. body \in [1..n -> {Item(i) : i \in 1..n}]
    <3> HIDE DEF n, Item
    <3> QED OBVIOUS
  <2> QED BY <2>1
<1>7. ASSUME NEW x \in 0..(w - 1), NEW y \in 0..(h - 1), NEW j \in 0..2
      PROVE  body[PixelAt(w, h, x, y) + j + 1] = C[x][y][3 - j]
  <2> DEFINE i == PixelAt(w, h, x, y) + j + 1
  <2>1. i = PixelAt(w, h, x, y) + j + 1
    OBVIOUS
  <2> HIDE DEF i
  <2>2. i \in 1..(row_stride(w) * h) /\ RowAt(w, h, i) = y /\ ColumnAt(w, i) = 3 * x + j
    <3>1. ByteAt(w, h, x, y, j, i)
      BY <1>1, <2>1, PixelInside, ZenonT(40)
    <3> QED BY <3>1 DEF ByteAt
  <2>3. Item(i) = C[x][y][3 - j]
    <3>1. 3 * x + j < 3 * w /\ (3 * x + j) \div 3 = x /\ 3 - ((3 * x + j) % 3) = 3 - j
      BY <1>1
    <3> QED BY ONLY <2>2, <3>1
  <2>4. body[i] = Item(i)
    <3> HIDE DEF Item
    <3> QED BY <2>2
  <2> QED BY <2>1, <2>3, <2>4
<1>8. n = row_stride(w) * h /\ 54 + n \in Long
  OBVIOUS
<1> HIDE DEF body, n, Item
<1>9. FileOf(w, h, bmp) /\ ShowsBytes(w, h, bmp, body)
  BY <1>4, <1>5, <1>6, <1>8, ShownOf, ZenonT(40)
<1>10. 0 \in 0..2 /\ 1 \in 0..2 /\ 2 \in 0..2 /\ 3 - 0 = 3 /\ 3 - 1 = 2 /\ 3 - 2 = 1
  OBVIOUS
<1>11. \A x \in 0..(w - 1), y \in 0..(h - 1) :
           /\ body[PixelAt(w, h, x, y) + 2 + 1] = C[x][y][1]
           /\ body[PixelAt(w, h, x, y) + 1 + 1] = C[x][y][2]
           /\ body[PixelAt(w, h, x, y) + 0 + 1] = C[x][y][3]
  BY <1>7, <1>10
<1> QED BY <1>9, <1>11 DEF ShowsBytes, ShowsColours, Triple

LEMMA EvenOdd ==
    ASSUME NEW i \in Nat
    PROVE  /\ (2 * i + 1) % 2 = 1 /\ ((2 * i + 1) + 1) \div 2 = i + 1
           /\ (2 * i + 2) % 2 = 0 /\ (2 * i + 2) \div 2 = i + 1
OBVIOUS

\* What the FPGA streams of a frame.
LEMMA PixelBytes ==
    ASSUME NEW px \in Seq(Word), NEW b, b = BytesOf(px, LowByte, HighByte)
    PROVE  /\ b \in Seq(Byte) /\ Len(b) = 2 * Len(px)
           /\ \A i \in 0..(Len(px) - 1) :
                  b[2 * i + 1] = px[i + 1] % 256 /\ b[2 * i + 2] = px[i + 1] \div 256
<1> DEFINE n == Len(px)
           Item(i) == IF i % 2 = 1 THEN LowByte(px[(i + 1) \div 2]) ELSE HighByte(px[i \div 2])
<1>1. n \in Nat
  OBVIOUS
<1>2. b = [i \in 1..(2 * n) |-> Item(i)]
  BY DEF BytesOf
<1>3. \A v \in Word : LowByte(v) \in Byte /\ HighByte(v) \in Byte
                      /\ LowByte(v) = v % 256 /\ HighByte(v) = v \div 256
  <2> SUFFICES ASSUME NEW v \in Word
               PROVE  v % 256 \in Byte /\ v \div 256 \in Byte
    BY DEF LowByte, HighByte
  <2>1. v \in Nat /\ v < 65536
    BY SMT DEF Word
  <2>2. v % 256 \in Nat /\ v % 256 < 256 /\ v \div 256 \in Nat /\ v \div 256 < 256
    BY <2>1, SMT
  <2> QED BY <2>2, SMT DEF Byte
<1>4. \A i \in 1..n : px[i] \in Word
  OBVIOUS
<1>5. \A i \in 1..(2 * n) : Item(i) \in Byte
  <2> SUFFICES ASSUME NEW i \in 1..(2 * n)
               PROVE  Item(i) \in Byte
    OBVIOUS
  <2>1. (i % 2 = 1 => (i + 1) \div 2 \in 1..n) /\ (i % 2 # 1 => i \div 2 \in 1..n)
    BY <1>1
  <2> QED BY <1>3, <1>4, <2>1
<1>6. ASSUME NEW i \in 0..(n - 1)
      PROVE  b[2 * i + 1] = px[i + 1] % 256 /\ b[2 * i + 2] = px[i + 1] \div 256
  <2>1. 2 * i + 1 \in 1..(2 * n) /\ 2 * i + 2 \in 1..(2 * n) /\ i + 1 \in 1..n
    BY <1>1
  <2>2. b[2 * i + 1] = Item(2 * i + 1) /\ b[2 * i + 2] = Item(2 * i + 2)
    <3> HIDE DEF Item, n
    <3> QED BY <1>2, <2>1
  <2>3. Item(2 * i + 1) = LowByte(px[i + 1]) /\ Item(2 * i + 2) = HighByte(px[i + 1])
    <3>1. i \in Nat
      OBVIOUS
    <3> QED BY <3>1, EvenOdd
  <2> QED BY <1>3, <1>4, <2>1, <2>2, <2>3
<1>7. b \in [1..(2 * n) -> Byte] /\ 2 * n \in Nat
  <2> HIDE DEF Item, n
  <2> QED BY <1>1, <1>2, <1>5
<1>8. b \in Seq(Byte) /\ Len(b) = 2 * n
  <2> HIDE DEF Item, n
  <2> QED BY <1>7, FunctionIsSeq
<1> QED BY <1>6, <1>8

\* s is the payload of a picture.
PayloadIs(s, w, h, px) ==
    /\ s \in Seq(Byte) /\ Len(s) = 4 + 2 * Len(px)
    /\ WidthOf(s) = w /\ HeightOf(s) = h
    /\ \A i \in 0..(Len(px) - 1) :
           s[4 + 2 * i + 1] = px[i + 1] % 256 /\ s[4 + 2 * i + 2] = px[i + 1] \div 256

LEMMA StreamRead ==
    ASSUME NEW w \in Word, NEW h \in Word, NEW px \in Seq(Word),
           NEW s, s = StreamOf(w, h, px)
    PROVE  PayloadIs(s, w, h, px)
<1> DEFINE b == BytesOf(px, LowByte, HighByte)
<1>1. /\ b \in Seq(Byte) /\ Len(b) = 2 * Len(px)
      /\ \A i \in 0..(Len(px) - 1) :
             b[2 * i + 1] = px[i + 1] % 256 /\ b[2 * i + 2] = px[i + 1] \div 256
  BY PixelBytes
<1>2. s = With16(Be16(w), h) \o b
  BY DEF StreamOf, With16
<1> HIDE DEF b
<1>3. Be16(w) \in Seq(Byte) /\ Len(Be16(w)) = 2 /\ 256 * Be16(w)[1] + Be16(w)[2] = w
  BY BytesOf16
<1>4. With16(Be16(w), h) \in Seq(Byte) /\ Size(With16(Be16(w), h)) = Size(Be16(w)) + 2
  BY <1>3, Longer16, ZenonT(40)
<1> DEFINE hd == With16(Be16(w), h)
<1>5. hd \in Seq(Byte) /\ Len(hd) = 4
  BY <1>3, <1>4 DEF Size
<1>6. Begins(hd, hd)
  BY <1>5 DEF Begins
<1>7. Begins(Be16(w), hd) /\ Be16At(hd, Size(Be16(w))) = h
  BY <1>3, <1>5, <1>6, Field16, ZenonT(40)
<1>8. hd[1] = Be16(w)[1] /\ hd[2] = Be16(w)[2]
  BY <1>3, <1>7 DEF Begins
<1>9. Be16At(hd, 0) = w /\ Be16At(hd, 2) = h
  <2>1. Be16At(hd, 0) = 256 * hd[0 + 1] + hd[0 + 2] /\ 0 + 1 = 1 /\ 0 + 2 = 2
    BY DEF Be16At
  <2>2. Size(Be16(w)) = 2
    BY <1>3 DEF Size
  <2> QED BY <1>3, <1>7, <1>8, <2>1, <2>2
<1>14. s = hd \o b
  BY <1>2
<1> HIDE DEF hd
<1>15. hd \in Seq(Byte) /\ b \in Seq(Byte)
  BY <1>1, <1>5
<1>10. /\ s \in Seq(Byte) /\ Len(s) = Len(hd) + Len(b)
       /\ \A k \in 1..Len(hd) : s[k] = hd[k]
       /\ \A k \in 1..Len(b) : s[Len(hd) + k] = b[k]
  <2>1. /\ hd \o b \in Seq(Byte) /\ Len(hd \o b) = Len(hd) + Len(b)
        /\ \A k \in 1..Len(hd) : (hd \o b)[k] = hd[k]
        /\ \A k \in 1..Len(b) : (hd \o b)[Len(hd) + k] = b[k]
    BY <1>15, Joined, ZenonT(40)
  <2> QED BY <1>14, <2>1, ZenonT(40)
<1>11. s[1] = hd[1] /\ s[2] = hd[2] /\ s[3] = hd[3] /\ s[4] = hd[4]
  BY <1>5, <1>10
<1>12. WidthOf(s) = w /\ HeightOf(s) = h
  BY <1>9, <1>11 DEF WidthOf, HeightOf, Be16At
<1>13. ASSUME NEW i \in 0..(Len(px) - 1)
       PROVE  s[4 + 2 * i + 1] = px[i + 1] % 256 /\ s[4 + 2 * i + 2] = px[i + 1] \div 256
  <2>1. 2 * i + 1 \in 1..Len(b) /\ 2 * i + 2 \in 1..Len(b)
    BY <1>1
  <2>2. 4 + 2 * i + 1 = 4 + (2 * i + 1) /\ 4 + 2 * i + 2 = 4 + (2 * i + 2)
    OBVIOUS
  <2> QED BY <1>1, <1>5, <1>10, <2>1, <2>2
<1> QED BY <1>1, <1>5, <1>10, <1>12, <1>13 DEF PayloadIs

ColoursOf565(s, w) == [x \in Int |-> [y \in Int |-> Rgb565(Le16At(s, At(s, w, x, y)))]]
ColoursOfSwapped(s, w) == [x \in Int |-> [y \in Int |-> Rgb565(Be16At(s, At(s, w, x, y)))]]
ColoursOfPairs(s, w, luma) ==
    [x \in Int |-> [y \in Int |->
        yuv_to_rgb(s[At(s, w, x - (x % 2), y) + 2 * (x % 2) + luma + 1],
                   s[At(s, w, x - (x % 2), y) + 2 - luma], s[At(s, w, x - (x % 2), y) + 4 - luma])]]

LEMMA PlaceType ==
    ASSUME NEW w \in Nat \ {0}, NEW h \in Nat, NEW i \in Nat
    PROVE  ColumnAt(w, i) \in Int /\ ColumnAt(w, i) \div 3 \in Int /\ RowAt(w, h, i) \in Int
<1>1. row_stride(w) \in Nat \ {0}
  BY StrideWide
<1> QED BY <1>1 DEF ColumnAt, RowAt

LEMMA FilesAre ==
    ASSUME NEW w \in Nat \ {0}, NEW h \in Nat, NEW s
    PROVE  /\ rgb565_to_bmp(s, w, h) = BmpOf(w, h, ColoursOf565(s, w))
           /\ rgb565_swapped_to_bmp(s, w, h) = BmpOf(w, h, ColoursOfSwapped(s, w))
           /\ yuv422_to_bmp(s, w, h, FALSE) = BmpOf(w, h, ColoursOfPairs(s, w, 0))
           /\ yuv422_to_bmp(s, w, h, TRUE) = BmpOf(w, h, ColoursOfPairs(s, w, 1))
<1> DEFINE n == row_stride(w) * h
<1>1. n \in Nat
  BY StrideWide
<1>2. \A i \in 1..n : ColumnAt(w, i) \div 3 \in Int /\ RowAt(w, h, i) \in Int
  BY <1>1, PlaceType
<1>3. rgb565_to_bmp(s, w, h) = BmpOf(w, h, ColoursOf565(s, w))
  <2>1. \A i \in 1..n : ColoursOf565(s, w)[ColumnAt(w, i) \div 3][RowAt(w, h, i)]
                          = Rgb565(Le16At(s, At(s, w, ColumnAt(w, i) \div 3, RowAt(w, h, i))))
    BY <1>2 DEF ColoursOf565
  <2> QED BY <2>1, Zenon DEF rgb565_to_bmp, Bmp, BmpOf, ColumnAt, RowAt
<1>4. rgb565_swapped_to_bmp(s, w, h) = BmpOf(w, h, ColoursOfSwapped(s, w))
  <2>1. \A i \in 1..n : ColoursOfSwapped(s, w)[ColumnAt(w, i) \div 3][RowAt(w, h, i)]
                          = Rgb565(Be16At(s, At(s, w, ColumnAt(w, i) \div 3, RowAt(w, h, i))))
    BY <1>2 DEF ColoursOfSwapped
  <2> QED BY <2>1, Zenon DEF rgb565_swapped_to_bmp, Bmp, BmpOf, ColumnAt, RowAt
<1>5. yuv422_to_bmp(s, w, h, FALSE) = BmpOf(w, h, ColoursOfPairs(s, w, 0))
  <2>1. \A i \in 1..n : ColoursOfPairs(s, w, 0)[ColumnAt(w, i) \div 3][RowAt(w, h, i)]
          = LET x == ColumnAt(w, i) \div 3
                pair == At(s, w, x - (x % 2), RowAt(w, h, i))
            IN  yuv_to_rgb(s[pair + 2 * (x % 2) + 0 + 1], s[pair + 2 - 0], s[pair + 4 - 0])
    BY <1>2 DEF ColoursOfPairs
  <2> QED BY <2>1, Zenon DEF yuv422_to_bmp, Bmp, BmpOf, ColumnAt, RowAt
<1>6. yuv422_to_bmp(s, w, h, TRUE) = BmpOf(w, h, ColoursOfPairs(s, w, 1))
  <2>1. \A i \in 1..n : ColoursOfPairs(s, w, 1)[ColumnAt(w, i) \div 3][RowAt(w, h, i)]
          = LET x == ColumnAt(w, i) \div 3
                pair == At(s, w, x - (x % 2), RowAt(w, h, i))
            IN  yuv_to_rgb(s[pair + 2 * (x % 2) + 1 + 1], s[pair + 2 - 1], s[pair + 4 - 1])
    BY <1>2 DEF ColoursOfPairs
  <2> QED BY <2>1, Zenon DEF yuv422_to_bmp, Bmp, BmpOf, ColumnAt, RowAt
<1> QED BY <1>3, <1>4, <1>5, <1>6

\* The pixel at (x, y) and the pair of pixels it belongs to are in the picture.
Placed(w, h, x, y) ==
    /\ y * w \in Nat /\ y * w + x \in 0..(w * h - 1)
    /\ x % 2 \in {0, 1} /\ x - (x % 2) \in 0..x /\ x - (x % 2) + 1 \in 0..(w - 1)
    /\ y * w + (x - (x % 2)) \in 0..(w * h - 1) /\ y * w + (x - (x % 2)) + 1 \in 0..(w * h - 1)
LEMMA PlaceOf ==
    ASSUME NEW w \in Nat \ {0}, w % 2 = 0, NEW h \in Nat, NEW x \in 0..(w - 1), NEW y \in 0..(h - 1)
    PROVE  Placed(w, h, x, y)
<1>1. x % 2 \in {0, 1} /\ x - (x % 2) \in 0..x /\ x - (x % 2) + 1 \in 0..(w - 1)
  OBVIOUS
<1> DEFINE a == y * w
           b == w * h
           c == x - (x % 2)
<1>2. a \in Nat /\ b \in Nat /\ a + w <= b
  <2>1. (y + 1) * w <= h * w
    OBVIOUS
  <2>2. (y + 1) * w = a + w /\ h * w = b /\ a \in Nat /\ b \in Nat
    OBVIOUS
  <2> QED BY <2>1, <2>2
<1>3. c \in 0..x /\ c + 1 \in 0..(w - 1)
  BY <1>1
<1> HIDE DEF a, b, c
<1>4. a + x \in 0..(b - 1) /\ a + c \in 0..(b - 1) /\ a + c + 1 \in 0..(b - 1)
  BY <1>2, <1>3
<1> QED BY <1>1, <1>2, <1>4 DEF Placed, a, b, c

LEMMA WordBytes ==
    ASSUME NEW v \in Word
    PROVE  /\ v \in Nat /\ v % 256 \in Nat /\ v \div 256 \in Nat
           /\ (v % 256) + 256 * (v \div 256) = v
BY SMT DEF Word

\* The bytes of the pixel at (x, y) in a payload s.
ReadAt(w, px, s, x, y) ==
    LET v == px[y * w + x + 1]
        first == px[y * w + x - (x % 2) + 1]
        second == px[y * w + x - (x % 2) + 2]
        at == At(s, w, x, y)
        pair == At(s, w, x - (x % 2), y)
    IN  /\ v \in Word /\ first \in Word /\ second \in Word
        /\ s[at + 1] = v % 256 /\ s[at + 2] = v \div 256
        /\ s[pair + 2 * (x % 2) + 0 + 1] = v % 256 /\ s[pair + 2 - 0] = first \div 256
        /\ s[pair + 4 - 0] = second \div 256
        /\ s[pair + 2 * (x % 2) + 1 + 1] = v \div 256 /\ s[pair + 2 - 1] = first % 256
        /\ s[pair + 4 - 1] = second % 256

LEMMA PixelRead ==
    ASSUME NEW w \in Nat \ {0}, w % 2 = 0, NEW h \in Nat, NEW px \in Seq(Word), Len(px) = w * h,
           NEW s, \A i \in 0..(Len(px) - 1) :
                      s[4 + 2 * i + 1] = px[i + 1] % 256 /\ s[4 + 2 * i + 2] = px[i + 1] \div 256,
           NEW x \in 0..(w - 1), NEW y \in 0..(h - 1)
    PROVE  ReadAt(w, px, s, x, y)
<1> DEFINE n == Len(px)
           i == y * w + x
           k == y * w + (x - (x % 2))
<1>1. /\ y * w \in Nat /\ x % 2 \in {0, 1}
      /\ i \in 0..(n - 1) /\ k \in 0..(n - 1) /\ k + 1 \in 0..(n - 1)
  <2>1. /\ y * w \in Nat /\ x % 2 \in {0, 1}
        /\ i \in 0..(w * h - 1) /\ k \in 0..(w * h - 1) /\ k + 1 \in 0..(w * h - 1)
    <3>1. Placed(w, h, x, y)
      BY PlaceOf
    <3> QED BY ONLY <3>1 DEF Placed
  <2>2. n = w * h
    OBVIOUS
  <2> HIDE DEF n, i, k
  <2> QED BY ONLY <2>1, <2>2
<1>2. /\ i + 1 = y * w + x + 1 /\ k + 1 = y * w + x - (x % 2) + 1
      /\ (k + 1) + 1 = y * w + x - (x % 2) + 2 /\ k + (x % 2) = i
  BY <1>1
<1>3. At(s, w, x, y) = 4 + 2 * i /\ At(s, w, x - (x % 2), y) = 4 + 2 * k
  BY DEF At
<1> HIDE DEF i, k
<1>4. ASSUME NEW j \in 0..(n - 1)
      PROVE  /\ px[j + 1] \in Word /\ j \in Int
             /\ s[4 + 2 * j + 1] = px[j + 1] % 256 /\ s[4 + 2 * j + 2] = px[j + 1] \div 256
  <2>1. j + 1 \in 1..n /\ j \in Int
    OBVIOUS
  <2> QED BY <2>1
<1> HIDE DEF n
<1>5. /\ px[i + 1] \in Word /\ px[k + 1] \in Word /\ px[(k + 1) + 1] \in Word
      /\ s[4 + 2 * i + 1] = px[i + 1] % 256 /\ s[4 + 2 * i + 2] = px[i + 1] \div 256
      /\ s[4 + 2 * k + 1] = px[k + 1] % 256 /\ s[4 + 2 * k + 2] = px[k + 1] \div 256
      /\ s[4 + 2 * (k + 1) + 1] = px[(k + 1) + 1] % 256
      /\ s[4 + 2 * (k + 1) + 2] = px[(k + 1) + 1] \div 256
      /\ i \in Int /\ k \in Int
  BY <1>1, <1>4
<1>6. LET b == x % 2
      IN  /\ (4 + 2 * k) + 2 * b + 0 + 1 = 4 + 2 * i + 1 /\ (4 + 2 * k) + 2 - 0 = 4 + 2 * k + 2
          /\ (4 + 2 * k) + 4 - 0 = 4 + 2 * (k + 1) + 2
          /\ (4 + 2 * k) + 2 * b + 1 + 1 = 4 + 2 * i + 2 /\ (4 + 2 * k) + 2 - 1 = 4 + 2 * k + 1
          /\ (4 + 2 * k) + 4 - 1 = 4 + 2 * (k + 1) + 1
  BY <1>1, <1>2, <1>5
<1> DEFINE at == At(s, w, x, y)
           pair == At(s, w, x - (x % 2), y)
<1>7. /\ px[y * w + x + 1] = px[i + 1] /\ px[y * w + x - (x % 2) + 1] = px[k + 1]
      /\ px[y * w + x - (x % 2) + 2] = px[(k + 1) + 1]
  BY ONLY <1>2
<1>8. s[at + 1] = px[i + 1] % 256 /\ s[at + 2] = px[i + 1] \div 256
  BY ONLY <1>3, <1>5
<1>9. /\ s[pair + 2 * (x % 2) + 0 + 1] = px[i + 1] % 256 /\ s[pair + 2 - 0] = px[k + 1] \div 256
      /\ s[pair + 4 - 0] = px[(k + 1) + 1] \div 256
      /\ s[pair + 2 * (x % 2) + 1 + 1] = px[i + 1] \div 256 /\ s[pair + 2 - 1] = px[k + 1] % 256
      /\ s[pair + 4 - 1] = px[(k + 1) + 1] % 256
  <2> HIDE DEF pair
  <2>1. pair = 4 + 2 * k
    BY <1>3 DEF pair
  <2>2. /\ pair + 2 * (x % 2) + 0 + 1 = 4 + 2 * i + 1 /\ pair + 2 - 0 = 4 + 2 * k + 2
        /\ pair + 4 - 0 = 4 + 2 * (k + 1) + 2
        /\ pair + 2 * (x % 2) + 1 + 1 = 4 + 2 * i + 2 /\ pair + 2 - 1 = 4 + 2 * k + 1
        /\ pair + 4 - 1 = 4 + 2 * (k + 1) + 1
    BY ONLY <1>6, <2>1
  <2> QED BY ONLY <1>5, <2>2
<1> QED BY <1>5, <1>7, <1>8, <1>9 DEF ReadAt

LEMMA Widths == PreviewWidth \in Word \ {0} /\ PreviewWidth \in Nat \ {0} /\ PreviewWidth % 2 = 0
<1>1. PreviewWidth \in Word \ {0} /\ PreviewWidth % 2 = 0
  BY PicturesAssumption
<1> QED BY <1>1, SMT DEF Word

\* The colours of an image are those of the pixels.
ColoursAre(px, s, x, y) ==
    /\ \A mode \in {"", "other"} :
           Triple(ColoursOf565(s, PreviewWidth)[x][y]) = Expected(px, mode, x, y)
    /\ Triple(ColoursOfSwapped(s, PreviewWidth)[x][y]) = Expected(px, "rgb565_swap", x, y)
    /\ Triple(ColoursOfPairs(s, PreviewWidth, 0)[x][y]) = Expected(px, "yuyv", x, y)
    /\ Triple(ColoursOfPairs(s, PreviewWidth, 1)[x][y]) = Expected(px, "uyvy", x, y)

LEMMA ColoursExpected ==
    ASSUME NEW h \in Nat, NEW px \in Seq(Word), Len(px) = PreviewWidth * h,
           NEW s, \A i \in 0..(Len(px) - 1) :
                      s[4 + 2 * i + 1] = px[i + 1] % 256 /\ s[4 + 2 * i + 2] = px[i + 1] \div 256,
           NEW x \in 0..(PreviewWidth - 1), NEW y \in 0..(h - 1)
    PROVE  ColoursAre(px, s, x, y)
<1> DEFINE w == PreviewWidth
           v == px[y * w + x + 1]
           first == px[y * w + x - (x % 2) + 1]
           second == px[y * w + x - (x % 2) + 2]
           at == At(s, w, x, y)
           pair == At(s, w, x - (x % 2), y)
<1>1. w \in Nat \ {0} /\ w % 2 = 0
  BY Widths
<1>2. /\ v \in Word /\ first \in Word /\ second \in Word
      /\ s[at + 1] = v % 256 /\ s[at + 2] = v \div 256
      /\ s[pair + 2 * (x % 2) + 0 + 1] = v % 256 /\ s[pair + 2 - 0] = first \div 256
      /\ s[pair + 4 - 0] = second \div 256
      /\ s[pair + 2 * (x % 2) + 1 + 1] = v \div 256 /\ s[pair + 2 - 1] = first % 256
      /\ s[pair + 4 - 1] = second % 256
  <2>1. ReadAt(w, px, s, x, y)
    BY <1>1, PixelRead, ZenonT(60)
  <2> QED BY <2>1 DEF ReadAt
<1>3. Le16At(s, at) = v /\ Be16At(s, at) = 256 * (v % 256) + v \div 256
  <2> HIDE DEF v, at
  <2>1. (v % 256) + 256 * (v \div 256) = v
    BY <1>2, WordBytes
  <2>2. Le16At(s, at) = s[at + 1] + 256 * s[at + 2] /\ Be16At(s, at) = 256 * s[at + 1] + s[at + 2]
    BY Zenon DEF Le16At, Be16At
  <2>3. s[at + 1] = v % 256 /\ s[at + 2] = v \div 256
    BY <1>2
  <2> QED BY ONLY <2>1, <2>2, <2>3
<1>4. x \in Int /\ y \in Int
  BY <1>1
<1>5. /\ ColoursOf565(s, w)[x][y] = Rgb565(v)
      /\ ColoursOfSwapped(s, w)[x][y] = Rgb565(256 * (v % 256) + v \div 256)
      /\ ColoursOfPairs(s, w, 0)[x][y] = yuv_to_rgb(v % 256, first \div 256, second \div 256)
      /\ ColoursOfPairs(s, w, 1)[x][y] = yuv_to_rgb(v \div 256, first % 256, second % 256)
  <2>1. /\ ColoursOf565(s, w)[x][y] = Rgb565(Le16At(s, at))
        /\ ColoursOfSwapped(s, w)[x][y] = Rgb565(Be16At(s, at))
        /\ ColoursOfPairs(s, w, 0)[x][y]
             = yuv_to_rgb(s[pair + 2 * (x % 2) + 0 + 1], s[pair + 2 - 0], s[pair + 4 - 0])
        /\ ColoursOfPairs(s, w, 1)[x][y]
             = yuv_to_rgb(s[pair + 2 * (x % 2) + 1 + 1], s[pair + 2 - 1], s[pair + 4 - 1])
    <3> HIDE DEF w
    <3> QED BY <1>4 DEF ColoursOf565, ColoursOfSwapped, ColoursOfPairs
  <2> HIDE DEF w, v, first, second, at, pair
  <2> QED BY <1>2, <1>3, <2>1
<1> HIDE DEF at, pair
<1> DEFINE Levels(n) == <<Level(n \div 2048, 31), Level((n \div 32) % 64, 63), Level(n % 32, 31)>>
<1>6. \A n \in Nat : Rgb565(n) = Levels(n)
  <2> SUFFICES ASSUME NEW n \in Nat
               PROVE  Rgb565(n) = Levels(n)
    OBVIOUS
  <2>1. \A k \in Int : k * 255 = 255 * k
    OBVIOUS
  <2>2. n \div 2048 \in Int /\ (n \div 32) % 64 \in Int /\ n % 32 \in Int
    OBVIOUS
  <2>3. (n \div 2048) * 255 = 255 * (n \div 2048) /\ ((n \div 32) % 64) * 255 = 255 * ((n \div 32) % 64)
        /\ (n % 32) * 255 = 255 * (n % 32)
    BY <2>1, <2>2
  <2>4. Rgb565(n) = <<((n \div 2048) * 255) \div 31, (((n \div 32) % 64) * 255) \div 63,
                      ((n % 32) * 255) \div 31>>
    BY Zenon DEF Rgb565
  <2>5. <<Level(n \div 2048, 31), Level((n \div 32) % 64, 63), Level(n % 32, 31)>>
          = <<(255 * (n \div 2048)) \div 31, (255 * ((n \div 32) % 64)) \div 63,
              (255 * (n % 32)) \div 31>>
    BY Zenon DEF Level
  <2> QED BY ONLY <2>3, <2>4, <2>5
<1>7. v \in Nat /\ 256 * (v % 256) + v \div 256 \in Nat
  <2> HIDE DEF v
  <2>1. v \in Nat /\ v % 256 \in Nat /\ v \div 256 \in Nat
    BY <1>2, WordBytes
  <2> QED BY <2>1
<1>8. \A n : LET c == Rgb565(n) IN <<c[1], c[2], c[3]>> = c
  BY DEF Rgb565
<1>9. \A a, b, c : LET d == yuv_to_rgb(a, b, c) IN <<d[1], d[2], d[3]>> = d
  BY DEF yuv_to_rgb
<1>10. /\ \A mode \in {"", "other"} : Expected(px, mode, x, y) = Rgb565(v)
       /\ Expected(px, "rgb565_swap", x, y) = Rgb565(256 * (v % 256) + v \div 256)
       /\ Expected(px, "yuyv", x, y) = yuv_to_rgb(v % 256, first \div 256, second \div 256)
       /\ Expected(px, "uyvy", x, y) = yuv_to_rgb(v \div 256, first % 256, second % 256)
  <2>1. Expected(px, "", x, y) = Levels(v) /\ Expected(px, "other", x, y) = Levels(v)
    BY DEF Expected
  <2>2. Expected(px, "rgb565_swap", x, y) = Levels(256 * (v % 256) + v \div 256)
    BY DEF Expected
  <2>3. Expected(px, "yuyv", x, y) = yuv_to_rgb(v % 256, first \div 256, second \div 256)
    BY DEF Expected
  <2>4. Expected(px, "uyvy", x, y) = yuv_to_rgb(v \div 256, first % 256, second % 256)
    BY DEF Expected
  <2> HIDE DEF v, Levels
  <2>5. Rgb565(v) = Levels(v)
    BY ONLY <1>6, <1>7
  <2>6. Rgb565(256 * (v % 256) + v \div 256) = Levels(256 * (v % 256) + v \div 256)
    BY ONLY <1>6, <1>7
  <2>7. \A mode \in {"", "other"} : Expected(px, mode, x, y) = Rgb565(v)
    BY ONLY <2>1, <2>5
  <2>8. Expected(px, "rgb565_swap", x, y) = Rgb565(256 * (v % 256) + v \div 256)
    BY ONLY <2>2, <2>6
  <2> QED BY ONLY <2>3, <2>4, <2>7, <2>8
<1> HIDE DEF v, first, second
<1>11. /\ Triple(Rgb565(v)) = Rgb565(v)
       /\ Triple(Rgb565(256 * (v % 256) + v \div 256)) = Rgb565(256 * (v % 256) + v \div 256)
  BY ONLY <1>8 DEF Triple
<1>12. /\ Triple(yuv_to_rgb(v % 256, first \div 256, second \div 256))
             = yuv_to_rgb(v % 256, first \div 256, second \div 256)
       /\ Triple(yuv_to_rgb(v \div 256, first % 256, second % 256))
             = yuv_to_rgb(v \div 256, first % 256, second % 256)
  BY ONLY <1>9 DEF Triple
<1> HIDE DEF w
<1>13. /\ \A mode \in {"", "other"} : Triple(ColoursOf565(s, w)[x][y]) = Expected(px, mode, x, y)
       /\ Triple(ColoursOfSwapped(s, w)[x][y]) = Expected(px, "rgb565_swap", x, y)
       /\ Triple(ColoursOfPairs(s, w, 0)[x][y]) = Expected(px, "yuyv", x, y)
       /\ Triple(ColoursOfPairs(s, w, 1)[x][y]) = Expected(px, "uyvy", x, y)
  <2>1. \A mode \in {"", "other"} : Triple(ColoursOf565(s, w)[x][y]) = Expected(px, mode, x, y)
    BY ONLY <1>5, <1>10, <1>11, ZenonT(40)
  <2>2. Triple(ColoursOfSwapped(s, w)[x][y]) = Expected(px, "rgb565_swap", x, y)
    BY ONLY <1>5, <1>10, <1>11, ZenonT(40)
  <2>3. Triple(ColoursOfPairs(s, w, 0)[x][y]) = Expected(px, "yuyv", x, y)
    BY ONLY <1>5, <1>10, <1>12, ZenonT(40)
  <2>4. Triple(ColoursOfPairs(s, w, 1)[x][y]) = Expected(px, "uyvy", x, y)
    BY ONLY <1>5, <1>10, <1>12, ZenonT(40)
  <2> QED BY ONLY <2>1, <2>2, <2>3, <2>4
<1> QED BY <1>13 DEF ColoursAre, w

\* The image that the service makes of a picture, of any size below 4 GiB and in any mode,
\* has a right header and shows at each place the pixel of the camera at that place.
THEOREM ImageShown ==
    ASSUME NEW h \in Word \ {0}, NEW px \in Seq(Word), Len(px) = PreviewWidth * h,
           54 + row_stride(PreviewWidth) * h \in Long,
           NEW s, s = StreamOf(PreviewWidth, h, px), NEW mode \in Modes,
           NEW bmp, bmp = ServedImage(s, mode)
    PROVE  /\ FileOf(PreviewWidth, h, bmp)
           /\ \A x \in 0..(PreviewWidth - 1), y \in 0..(h - 1) :
                  Shown(bmp, x, y) = Expected(px, mode, x, y)
<1> DEFINE w == PreviewWidth
           Right(f, m) == /\ FileOf(w, h, f)
                          /\ \A x \in 0..(w - 1), y \in 0..(h - 1) :
                                 Shown(f, x, y) = Expected(px, m, x, y)
<1>1. w \in Word \ {0} /\ w \in Word /\ w \in Nat \ {0} /\ h \in Word /\ h \in Nat \ {0}
  BY Widths, SMT DEF Word
<1>2. /\ s \in Seq(Byte) /\ Len(s) = 4 + 2 * Len(px)
      /\ WidthOf(s) = w /\ HeightOf(s) = h
      /\ \A i \in 0..(Len(px) - 1) :
             s[4 + 2 * i + 1] = px[i + 1] % 256 /\ s[4 + 2 * i + 2] = px[i + 1] \div 256
  <2>1. PayloadIs(s, w, h, px)
    BY <1>1, StreamRead
  <2> QED BY <2>1 DEF PayloadIs
<1>3. ASSUME NEW x \in 0..(w - 1), NEW y \in 0..(h - 1)
      PROVE  ColoursAre(px, s, x, y)
  BY <1>1, <1>2, ColoursExpected, ZenonT(40)
<1>4. ASSUME NEW C, NEW m, \A x \in 0..(w - 1), y \in 0..(h - 1) :
                              Triple(C[x][y]) = Expected(px, m, x, y)
      PROVE  Right(BmpOf(w, h, C), m)
  <2>1. FileOf(w, h, BmpOf(w, h, C)) /\ ShowsColours(w, h, BmpOf(w, h, C), C)
    BY <1>1, PlacesShown
  <2> QED BY <1>4, <2>1 DEF ShowsColours
<1>5. /\ rgb565_to_bmp(s, w, h) = BmpOf(w, h, ColoursOf565(s, w))
      /\ rgb565_swapped_to_bmp(s, w, h) = BmpOf(w, h, ColoursOfSwapped(s, w))
      /\ yuv422_to_bmp(s, w, h, FALSE) = BmpOf(w, h, ColoursOfPairs(s, w, 0))
      /\ yuv422_to_bmp(s, w, h, TRUE) = BmpOf(w, h, ColoursOfPairs(s, w, 1))
  BY ONLY <1>1, FilesAre
<1> HIDE DEF Right
<1>6. ASSUME NEW m \in {"", "other"}
      PROVE  Right(rgb565_to_bmp(s, w, h), m)
  <2>1. \A x \in 0..(w - 1), y \in 0..(h - 1) : Triple(ColoursOf565(s, w)[x][y]) = Expected(px, m, x, y)
    BY <1>3 DEF ColoursAre
  <2> QED BY <1>4, <1>5, <2>1
<1>7. Right(rgb565_swapped_to_bmp(s, w, h), "rgb565_swap")
  <2>1. \A x \in 0..(w - 1), y \in 0..(h - 1) :
            Triple(ColoursOfSwapped(s, w)[x][y]) = Expected(px, "rgb565_swap", x, y)
    BY <1>3 DEF ColoursAre
  <2> QED BY <1>4, <1>5, <2>1
<1>8. Right(yuv422_to_bmp(s, w, h, FALSE), "yuyv") /\ Right(yuv422_to_bmp(s, w, h, TRUE), "uyvy")
  <2>1. \A x \in 0..(w - 1), y \in 0..(h - 1) :
            Triple(ColoursOfPairs(s, w, 0)[x][y]) = Expected(px, "yuyv", x, y)
    BY <1>3 DEF ColoursAre
  <2>2. \A x \in 0..(w - 1), y \in 0..(h - 1) :
            Triple(ColoursOfPairs(s, w, 1)[x][y]) = Expected(px, "uyvy", x, y)
    BY <1>3 DEF ColoursAre
  <2>3. Right(yuv422_to_bmp(s, w, h, FALSE), "yuyv")
    BY <1>4, <1>5, <2>1
  <2>4. Right(yuv422_to_bmp(s, w, h, TRUE), "uyvy")
    BY <1>4, <1>5, <2>2
  <2> QED BY <2>3, <2>4
<1>9. IsPicture(s)
  BY <1>1, <1>2 DEF IsPicture
<1>10. /\ build_preview_debug_image(s, "rgb565_swap") = rgb565_swapped_to_bmp(s, w, h)
       /\ build_preview_debug_image(s, "yuyv") = yuv422_to_bmp(s, w, h, FALSE)
       /\ build_preview_debug_image(s, "uyvy") = yuv422_to_bmp(s, w, h, TRUE)
       /\ build_preview_debug_image(s, "other") = rgb565_to_bmp(s, w, h)
  BY <1>2, <1>9 DEF build_preview_debug_image
<1>11. \A f, m : Right(f, m) => f # <<>>
  BY DEF FileOf, Right
<1>12. Right(bmp, mode)
  <2>1. CASE mode = ""
    BY <1>2, <1>6, <2>1 DEF ServedImage
  <2>2. CASE mode = "rgb565_swap"
    BY <1>2, <1>7, <1>10, <1>11, <2>2 DEF ServedImage
  <2>3. CASE mode = "yuyv"
    BY <1>2, <1>8, <1>10, <1>11, <2>3 DEF ServedImage
  <2>4. CASE mode = "uyvy"
    BY <1>2, <1>8, <1>10, <1>11, <2>4 DEF ServedImage
  <2>5. CASE mode = "other"
    BY <1>2, <1>6, <1>10, <1>11, <2>5 DEF ServedImage
  <2> QED BY <2>1, <2>2, <2>3, <2>4, <2>5 DEF Modes
<1> QED BY <1>12 DEF Right

\* The pictures are of the kind of ImageShown.
HeightOfPicture(p) == Len(Pictures[p]) \div PreviewWidth
LEMMA PictureFits ==
    ASSUME NEW p \in DOMAIN Pictures
    PROVE  /\ p \in Word /\ p \in Nat /\ Pictures[p] \in Seq(Word)
           /\ HeightOfPicture(p) \in Word \ {0}
           /\ Len(Pictures[p]) = PreviewWidth * HeightOfPicture(p)
           /\ 54 + row_stride(PreviewWidth) * HeightOfPicture(p) \in Long
           /\ PayloadOf(p) = StreamOf(PreviewWidth, HeightOfPicture(p), Pictures[p])
           /\ PayloadOf(p) \in Seq(Byte)
<1>1. Pictures \in Seq(Seq(Word)) /\ Len(Pictures) < 65536
  BY PicturesAssumption
<1>2. p \in 1..Len(Pictures) /\ Len(Pictures) \in Nat
  BY <1>1
<1>3. p \in Word /\ p \in Nat
  BY <1>1, <1>2, SMT DEF Word
<1>4. Pictures[p] \in Seq(Word)
  BY <1>1, <1>2
<1>5. /\ HeightOfPicture(p) \in Word \ {0}
      /\ Len(Pictures[p]) = PreviewWidth * HeightOfPicture(p)
      /\ 54 + row_stride(PreviewWidth) * HeightOfPicture(p) \in Long
  BY <1>2, PicturesAssumption DEF HeightOfPicture
<1>6. PayloadOf(p) = StreamOf(PreviewWidth, HeightOfPicture(p), Pictures[p])
  BY DEF PayloadOf, HeightOfPicture
<1>7. PayloadOf(p) \in Seq(Byte)
  <2>1. PreviewWidth \in Word /\ HeightOfPicture(p) \in Word
    BY <1>5, Widths
  <2>2. PayloadIs(PayloadOf(p), PreviewWidth, HeightOfPicture(p), Pictures[p])
    BY <1>4, <1>6, <2>1, StreamRead
  <2> QED BY <2>2 DEF PayloadIs
<1> QED BY <1>3, <1>4, <1>5, <1>6, <1>7

\* What follows a head is what is behind it.
LEMMA Behind ==
    ASSUME NEW S, NEW head \in Seq(S), NEW data \in Seq(S)
    PROVE  SubSeq(head \o data, Len(head) + 1, Len(head \o data)) = data
<1> DEFINE d == head \o data
           t == SubSeq(d, Len(head) + 1, Len(d))
<1>1. /\ d \in Seq(S) /\ Len(d) = Len(head) + Len(data)
      /\ \A k \in 1..Len(data) : d[Len(head) + k] = data[k]
  BY ConcatProperties
<1> HIDE DEF d
<1>2. t \in Seq(S) /\ Len(t) = Len(data) /\ \A k \in 1..Len(data) : t[k] = d[Len(head) + k]
  BY <1>1
<1> HIDE DEF t
<1>3. t = data
  <2>1. \A k \in 1..Len(t) : t[k] = data[k]
    BY <1>1, <1>2
  <2> QED BY <1>2, <2>1, SeqEqual, Zenon
<1> QED BY <1>3 DEF t, d

LEMMA PictureParsed ==
    ASSUME NEW p \in DOMAIN Pictures, NEW d, d = parse_preview_chunk_packet(PreviewDatagram(p))
    PROVE  d.frame_id = p /\ d.payload = PayloadOf(p)
<1> DEFINE data == PayloadOf(p)
           n == Len(data)
           head == <<74, 80, 1, 18>> \o Be16(p) \o Be16(0) \o Be16(n)
                      \o <<Flags(0, n, n), 0>> \o Be32(0)
<1>1. p \in Nat /\ p \in Word /\ data \in Seq(Int) /\ n \in Nat
  <2>1. p \in Nat /\ p \in Word /\ data \in Seq(Byte)
    BY PictureFits
  <2>2. \A v \in Byte : v \in Int
    BY DEF Byte
  <2> QED BY <2>1, <2>2
<1>2. PreviewDatagram(p) = head \o data
  BY DEF PreviewDatagram, payload_mem
<1> HIDE DEF data, n
<1> DEFINE f == Flags(0, n, n)
           a == (p \div 256) % 256
           b == p % 256
           Heads(s, k) == s \in Seq(Int) /\ Len(s) = k /\ s[5] = a /\ s[6] = b
<1>3. f \in Int /\ a \in Int /\ b \in Int /\ 256 * a + b = p
  <2>1. f \in Int
    BY DEF Flags
  <2>2. 256 * a + b = p
    BY <1>1, HighLow
  <2>3. a \in Int /\ b \in Int
    BY <1>1
  <2> HIDE DEF a, b, f
  <2> QED BY <2>1, <2>2, <2>3
<1>4. ASSUME NEW s, NEW k \in Nat, k >= 6, Heads(s, k), NEW x \in Int, NEW y \in Int
      PROVE  Heads(s \o <<x, y>>, k + 2)
  <2> HIDE DEF a, b
  <2>1. <<x, y>> \in Seq(Int) /\ Len(<<x, y>>) = 2
    OBVIOUS
  <2>2. /\ s \o <<x, y>> \in Seq(Int) /\ Len(s \o <<x, y>>) = k + 2
        /\ \A i \in 1..(k + 2) : i <= k => (s \o <<x, y>>)[i] = s[i]
    BY <1>4, <2>1, ConcatProperties
  <2>3. 5 \in 1..(k + 2) /\ 5 <= k /\ 6 \in 1..(k + 2) /\ 6 <= k
    BY <1>4
  <2> QED BY <1>4, <2>2, <2>3
<1>5. Heads(head, 16)
  <2>1. Be16(p) = <<a, b>> /\ Be16(0) = <<0 % 256, 0 % 256>>
        /\ Be16(n) = <<(n \div 256) % 256, n % 256>>
    <3>1. (0 \div 256) % 256 = 0 % 256
      BY SMT
    <3> QED BY <3>1, Zenon DEF Be16
  <2>2. Heads(<<74, 80, 1, 18>> \o <<a, b>>, 6)
    <3> HIDE DEF a, b
    <3>1. <<74, 80, 1, 18>> \in Seq(Int) /\ <<a, b>> \in Seq(Int)
          /\ Len(<<74, 80, 1, 18>>) = 4 /\ Len(<<a, b>>) = 2 /\ <<a, b>>[1] = a /\ <<a, b>>[2] = b
      BY <1>3
    <3> QED BY <3>1, ConcatProperties
  <2>3. (n \div 256) % 256 \in Int /\ n % 256 \in Int /\ 0 % 256 \in Int
    BY <1>1
  <2> DEFINE z == 0 % 256
             c == (n \div 256) % 256
             e == n % 256
  <2>4. <<z, z>> \in Seq(Int) /\ <<0, 0>> \in Seq(Int)
    BY <2>3
  <2>5. Be32(0) = Be16(0) \o Be16(0)
    <3>1. 0 \div 65536 = 0 /\ 0 % 65536 = 0
      BY SMT
    <3> QED BY <3>1, SMT DEF Be32
  <2> HIDE DEF Heads, a, b, f, c, e, z
  <2> DEFINE s8  == <<74, 80, 1, 18>> \o <<a, b>> \o <<z, z>>
             s10 == s8 \o <<c, e>>
             s12 == s10 \o <<f, 0>>
             s14 == s12 \o <<z, z>>
  <2>6. Heads(s8, 8)
    BY <1>4, <2>2, <2>3 DEF z
  <2> HIDE DEF s8
  <2>7. Heads(s10, 10)
    BY <1>4, <2>3, <2>6 DEF c, e
  <2> HIDE DEF s10
  <2>8. Heads(s12, 12)
    BY <1>3, <1>4, <2>7
  <2> HIDE DEF s12
  <2>9. Heads(s14, 14)
    BY <1>4, <2>3, <2>8 DEF z
  <2> HIDE DEF s14
  <2>10. Heads(s14 \o <<z, z>>, 16)
    BY <1>4, <2>3, <2>9 DEF z
  <2>11. s14 \o <<z, z>> = s12 \o (<<z, z>> \o <<z, z>>)
    <3>1. s12 \in Seq(Int)
      BY <2>8 DEF Heads
    <3>2. (s12 \o <<z, z>>) \o <<z, z>> = s12 \o (<<z, z>> \o <<z, z>>)
      BY <2>4, <3>1, ConcatAssociative
    <3> QED BY <3>2 DEF s14
  <2>12. Be16(0) = <<z, z>> /\ Be16(n) = <<c, e>>
    BY <2>1 DEF z, c, e
  <2>13. head = s12 \o (<<z, z>> \o <<z, z>>)
    BY <2>1, <2>5, <2>12, Zenon DEF s12, s10, s8, f
  <2> QED BY <2>10, <2>11, <2>13
<1> HIDE DEF head, a, b
<1>6. SubSeq(head \o data, 17, Len(head \o data)) = data
  <2>1. SubSeq(head \o data, Len(head) + 1, Len(head \o data)) = data
    BY <1>1, <1>5, Behind
  <2>2. Len(head) + 1 = 17
    BY <1>5
  <2> QED BY <2>1, <2>2
<1>7. (head \o data)[5] = a /\ (head \o data)[6] = b
  <2>1. \A k \in 1..(Len(head) + Len(data)) :
            (head \o data)[k] = IF k <= Len(head) THEN head[k] ELSE data[k - Len(head)]
    BY <1>1, <1>5, ConcatProperties
  <2>2. Len(data) \in Nat
    BY <1>1
  <2>3. 5 \in 1..(Len(head) + Len(data)) /\ 6 \in 1..(Len(head) + Len(data)) /\ 5 <= Len(head) /\ 6 <= Len(head)
    BY <1>5, <2>2
  <2> QED BY <1>5, <2>1, <2>3
<1>8. Be16At(head \o data, 4) = p
  <2>1. 4 + 1 = 5 /\ 4 + 2 = 6
    OBVIOUS
  <2>2. Be16At(head \o data, 4) = 256 * a + b
    BY <1>7, <2>1, Zenon DEF Be16At
  <2> QED BY <1>3, <2>2, Zenon
<1>9. d.frame_id = Be16At(head \o data, 4) /\ d.payload = SubSeq(head \o data, 17, Len(head \o data))
  BY <1>2 DEF parse_preview_chunk_packet, kPreviewHeaderSize
<1> QED BY <1>6, <1>8, <1>9 DEF data

-----------------------------------------------------------------------------
(***************************************************************************)
(* The picture shown.                                                      *)
(***************************************************************************)
\* The payload of the p-th picture, from the datagram to the images.
WholePicture(p, payload) == p \in DOMAIN Pictures /\ payload = PayloadOf(p)
ShownInv ==
    /\ {"at", "id", "payload"} \subseteq DOMAIN rx /\ {"id", "payload"} \subseteq DOMAIN preview
    /\ rx.at \in {"chunk", "assemble"} => WholePicture(rx.id, rx.payload)
    /\ preview.payload # <<>> => WholePicture(preview.id, preview.payload)
    /\ reply.kind = "image" => WholePicture(reply.of, reply.payload)

LEMMA WholeIsShown ==
    ASSUME reply.kind = "image", WholePicture(reply.of, reply.payload)
    PROVE  PreviewShown
<1> DEFINE p == reply.of
           h == HeightOfPicture(p)
           w == PreviewWidth
<1>1. p \in DOMAIN Pictures /\ reply.payload = PayloadOf(p)
  BY DEF WholePicture
<1>2. /\ h \in Word \ {0} /\ Pictures[p] \in Seq(Word) /\ Len(Pictures[p]) = w * h
      /\ 54 + row_stride(w) * h \in Long /\ reply.payload = StreamOf(w, h, Pictures[p])
  BY <1>1, PictureFits
<1> HIDE DEF h
<1>3. ASSUME NEW mode \in Modes
      PROVE  /\ FileOf(w, h, ServedImage(reply.payload, mode))
             /\ \A x \in 0..(w - 1), y \in 0..(h - 1) :
                    Shown(ServedImage(reply.payload, mode), x, y) = Expected(Pictures[p], mode, x, y)
  BY <1>2, ImageShown
<1>4. Len(Pictures[p]) \div PreviewWidth = h
  BY DEF h, HeightOfPicture
<1> QED BY <1>3, <1>4 DEF PreviewShown, FileOf

LEMMA InitShown == Init => ShownInv
BY DEF Init, ShownInv, Idle, NoPreview, NoReply

\* A step that neither brings a picture nor serves one.
LEMMA ShownStep ==
    ASSUME ShownInv, {"at", "id", "payload"} \subseteq DOMAIN rx',
           rx'.at \in {"chunk", "assemble"} => WholePicture(rx'.id, rx'.payload),
           {"id", "payload"} \subseteq DOMAIN preview',
           \/ preview'.id = preview.id /\ preview'.payload = preview.payload
           \/ WholePicture(preview'.id, preview'.payload),
           reply'.kind # "image"
    PROVE  ShownInv'
BY DEF ShownInv, WholePicture

LEMMA PictureComes ==
    ASSUME ShownInv, PreviewArrives, reply' = NoReply
    PROVE  ShownInv'
<1> DEFINE p == fpga.picture + 1
           d == parse_preview_chunk_packet(PreviewDatagram(p))
<1>1. /\ p \in DOMAIN Pictures /\ UNCHANGED preview
      /\ rx' = [Idle EXCEPT !.at = "chunk", !.id = d.frame_id, !.payload = d.payload]
  BY DEF PreviewArrives, RxPreview
<1> HIDE DEF p
<1>2. d.frame_id = p /\ d.payload = PayloadOf(p)
  BY <1>1, PictureParsed
<1> HIDE DEF d
<1>3. {"at", "id", "payload"} \subseteq DOMAIN rx' /\ rx'.id = p /\ rx'.payload = PayloadOf(p)
  BY <1>1, <1>2 DEF Idle
<1>4. WholePicture(rx'.id, rx'.payload)
  BY <1>1, <1>3 DEF WholePicture
<1>5. reply'.kind # "image" /\ {"id", "payload"} \subseteq DOMAIN preview'
  BY <1>1 DEF NoReply, ShownInv
<1> QED BY <1>1, <1>3, <1>4, <1>5, ShownStep

LEMMA RxShows ==
    ASSUME RxInv, ShownInv, RxStep, reply' = NoReply
    PROVE  ShownInv'
<1>1. {"at", "id", "payload"} \subseteq DOMAIN rx /\ {"id", "payload"} \subseteq DOMAIN preview
      /\ reply'.kind # "image"
  BY DEF ShownInv, NoReply
<1>2. ASSUME {"at", "id", "payload"} \subseteq DOMAIN rx', rx'.at \notin {"chunk", "assemble"},
             UNCHANGED preview
      PROVE  ShownInv'
  BY <1>1, <1>2, ShownStep
<1>3. CASE StoreTelemetry
  <2>1. {"at", "id", "payload"} \subseteq DOMAIN rx' /\ rx'.at \notin {"chunk", "assemble"}
    BY <1>1, <1>3 DEF StoreTelemetry
  <2> QED BY <1>2, <1>3, <2>1 DEF StoreTelemetry
<1>4. CASE AlarmEdge
  <2>1. {"at", "id", "payload"} \subseteq DOMAIN rx' /\ rx'.at \notin {"chunk", "assemble"}
    BY <1>1, <1>4 DEF AlarmEdge, ToText
  <2> QED BY <1>2, <1>4, <2>1 DEF AlarmEdge
<1>5. CASE TakePicture
  <2>1. {"at", "id", "payload"} \subseteq DOMAIN rx' /\ rx'.at \notin {"chunk", "assemble"}
    BY <1>1, <1>5 DEF TakePicture
  <2> QED BY <1>2, <1>5, <2>1 DEF TakePicture
<1>6. CASE PushEvent
  <2>1. {"at", "id", "payload"} \subseteq DOMAIN rx' /\ rx'.at \notin {"chunk", "assemble"}
    BY <1>1, <1>6 DEF PushEvent
  <2> QED BY <1>2, <1>6, <2>1 DEF PushEvent
<1>7. CASE RecordText
  <2>1. {"at", "id", "payload"} \subseteq DOMAIN rx' /\ rx'.at \notin {"chunk", "assemble"}
    BY <1>1, <1>7 DEF RecordText, ToText, RxInv
  <2> QED BY <1>2, <1>7, <2>1 DEF RecordText
<1>8. CASE StoreChunk
  <2>1. /\ {"at", "id", "payload"} \subseteq DOMAIN rx' /\ rx'.id = rx.id /\ rx'.payload = rx.payload
        /\ UNCHANGED preview
    BY <1>1, <1>8 DEF StoreChunk
  <2>2. WholePicture(rx.id, rx.payload)
    BY <1>8 DEF StoreChunk, ShownInv
  <2> QED BY <1>1, <2>1, <2>2, ShownStep
<1>9. CASE Assemble
  <2>1. {"at", "id", "payload"} \subseteq DOMAIN rx' /\ rx'.at \notin {"chunk", "assemble"}
    BY <1>1, <1>9 DEF Assemble, ToText
  <2>2. WholePicture(rx.id, rx.payload)
    BY <1>9 DEF Assemble, ShownInv
  <2>3. CASE IsPicture(rx.payload)
    <3>1. /\ {"id", "payload"} \subseteq DOMAIN preview'
          /\ preview'.id = rx.id /\ preview'.payload = rx.payload
      BY <1>1, <1>9, <2>3 DEF Assemble
    <3> QED BY <1>1, <2>1, <2>2, <3>1, ShownStep
  <2>4. CASE ~IsPicture(rx.payload)
    <3>1. UNCHANGED preview
      BY <1>9, <2>4 DEF Assemble
    <3> QED BY <1>2, <2>1, <3>1
  <2> QED BY <2>3, <2>4
<1>10. CASE SnapshotDue
  <2>1. rx' = [rx EXCEPT !.at = "write", !.name = Latest] \/ rx' = Idle
    BY <1>10 DEF SnapshotDue
  <2>2. {"at", "id", "payload"} \subseteq DOMAIN rx' /\ rx'.at \notin {"chunk", "assemble"}
    <3>1. CASE rx' = Idle
      BY <3>1 DEF Idle
    <3>2. CASE rx' = [rx EXCEPT !.at = "write", !.name = Latest]
      BY <1>1, <3>2
    <3> QED BY <2>1, <3>1, <3>2
  <2>3. {"id", "payload"} \subseteq DOMAIN preview' /\ preview'.id = preview.id
        /\ preview'.payload = preview.payload
    BY <1>1, <1>10 DEF SnapshotDue
  <2> QED BY <1>1, <2>2, <2>3, ShownStep
<1>11. CASE WriteTemporary \/ WriteUnnoticed \/ WriteFails \/ RenameFile \/ RenameFails \/ CopyFile
  <2>1. UNCHANGED preview
    BY <1>11 DEF WriteTemporary, WriteUnnoticed, WriteFails, RenameFile, RenameFails, CopyFile, WriteStep
  <2>2. rx' = [rx EXCEPT !.at = "rename"] \/ rx' = [rx EXCEPT !.at = "copy"]
        \/ \E ok \in BOOLEAN : rx' = Written(ok)
    BY <1>11 DEF WriteTemporary, WriteUnnoticed, WriteFails, RenameFile, RenameFails, CopyFile
  <2>3. ASSUME NEW ok \in BOOLEAN, rx' = Written(ok)
        PROVE  {"at", "id", "payload"} \subseteq DOMAIN rx' /\ rx'.at \notin {"chunk", "assemble"}
    <3>1. CASE rx.name = Latest
      BY <2>3, <3>1 DEF Written, Idle
    <3>2. CASE rx.name # Latest
      BY <1>1, <2>3, <3>2 DEF Written
    <3> QED BY <3>1, <3>2
  <2>4. {"at", "id", "payload"} \subseteq DOMAIN rx' /\ rx'.at \notin {"chunk", "assemble"}
    <3>1. CASE rx' = [rx EXCEPT !.at = "rename"]
      BY <1>1, <3>1
    <3>2. CASE rx' = [rx EXCEPT !.at = "copy"]
      BY <1>1, <3>2
    <3> QED BY <2>2, <2>3, <3>1, <3>2
  <2> QED BY <1>2, <2>1, <2>4
<1> QED BY <1>3, <1>4, <1>5, <1>6, <1>7, <1>8, <1>9, <1>10, <1>11 DEF RxStep

LEMMA OthersShow ==
    ASSUME AgreeInv, ShownInv,
           \/ (TelemetryArrives \/ MarkOffline \/ ReadState \/ ReadAlarm) /\ reply' = NoReply
           \/ Replies
    PROVE  ShownInv'
<1>1. {"at", "id", "payload"} \subseteq DOMAIN rx /\ {"id", "payload"} \subseteq DOMAIN preview
  BY DEF ShownInv
<1>2. CASE TelemetryArrives /\ reply' = NoReply
  <2>1. UNCHANGED preview /\ reply'.kind # "image"
        /\ \E a \in BOOLEAN : rx' = [Idle EXCEPT !.at = "state", !.packet = Record(fpga'.frame, a)]
    BY <1>2, TelemetryTaken DEF AgreeInv, NoReply
  <2>2. {"at", "id", "payload"} \subseteq DOMAIN rx' /\ rx'.at = "state"
    BY <2>1 DEF Idle
  <2> QED BY <1>1, <2>1, <2>2, ShownStep
<1>3. CASE (MarkOffline \/ ReadState \/ ReadAlarm) /\ reply' = NoReply
  <2>1. UNCHANGED <<rx, preview>> /\ reply'.kind # "image"
    BY <1>3 DEF MarkOffline, ReadState, ReadAlarm, HttpStep, NoReply
  <2> QED BY <1>1, <2>1 DEF ShownInv
<1>4. CASE ReadPreview \/ \E c \in Commands : SendCommand(c)
  <2>1. UNCHANGED <<rx, preview>> /\ reply'.kind # "image"
    BY <1>4, SMT DEF ReadPreview, SendCommand, HttpStep
  <2> QED BY <1>1, <2>1 DEF ShownInv
<1>5. CASE ServePreview
  <2>1. /\ UNCHANGED <<rx, preview>> /\ preview.payload # <<>>
        /\ reply'.of = preview.id /\ reply'.payload = preview.payload
    BY <1>5 DEF ServePreview, HttpStep
  <2> QED BY <1>1, <2>1 DEF ShownInv
<1> QED BY <1>2, <1>3, <1>4, <1>5 DEF Replies

LEMMA NextShows ==
    ASSUME LinkInv, AgreeInv, ShownInv, [Next]_vars
    PROVE  ShownInv'
<1>1. CASE UNCHANGED vars
  BY <1>1 DEF vars, ShownInv
<1>2. CASE RxStep /\ reply' = NoReply
  BY <1>2, RxShows DEF LinkInv
<1>3. CASE PreviewArrives /\ reply' = NoReply
  BY <1>3, PictureComes
<1>4. CASE (TelemetryArrives \/ MarkOffline \/ ReadState \/ ReadAlarm) /\ reply' = NoReply
  BY <1>4, OthersShow
<1>5. CASE Replies
  BY <1>5, OthersShow
<1> QED BY <1>1, <1>2, <1>3, <1>4, <1>5 DEF Next, Quiet

\* The images that /api/preview makes of a picture show it pixel by pixel, the right way up
\* and with its colours, in every decode mode, whatever the pictures, telemetry and faults.
THEOREM PicturesAreShown == Spec => []PreviewShown
<1>1. IInv /\ LinkInv /\ AgreeInv /\ ShownInv /\ [Next]_vars
        => (IInv /\ LinkInv /\ AgreeInv /\ ShownInv)'
  BY NextInv, NextLinks, NextAgrees, NextShows
<1>2. ShownInv => PreviewShown
  BY WholeIsShown DEF ShownInv, PreviewShown
<1> QED BY InitInv, InitLinks, InitAgree, InitShown, <1>1, <1>2, PTL DEF Spec
==============================================================================
