--------------------------- MODULE FrameStoreProofs ---------------------------
(***************************************************************************)
(* For every length of bursts and frames, every depth of the FIFOs and     *)
(* whatever the MIG answers: no beat is written without a word, and a      *)
(* preview is of one frame, every word before its last burst in its place. *)
(***************************************************************************)
EXTENDS FrameStore, TLAPS, SequenceTheorems

\* The write FIFO holds the words of the burst that is being written and are still to go.
Due ==
    /\ eng.at = "wr_addr" => eng.beats = 0 /\ Len(wrfifo.words) >= BurstWords
    /\ eng.at = "wr_data" => /\ eng.beats \in 0..(BurstWords - 1)
                             /\ Len(wrfifo.words) >= BurstWords - eng.beats
Fields ==
    /\ {"at", "beats", "wvalid"} \subseteq DOMAIN eng
    /\ "words" \in DOMAIN wrfifo
    /\ wrfifo.words \in Seq(Nat \X Int)
    /\ cam \in [frame : Nat, pos : Int]
IInv == Fields /\ Due /\ ~starved

LEMMA InitInv == Init => IInv
BY BurstAssumption, LostAssumption DEF Init, IInv, Fields, Due

LEMMA EngineInv ==
    ASSUME IInv, Engine
    PROVE  IInv'
<1> USE BurstAssumption
<1>1. Len(wrfifo.words) \in Nat
  BY DEF IInv, Fields
<1>2. CASE Arb
  BY <1>1, <1>2 DEF Arb, WrReq, IInv, Fields, Due
<1>3. CASE Ready
  BY <1>1, <1>3 DEF Ready, IInv, Fields, Due
<1>4. CASE WrAddr
  BY <1>1, <1>4 DEF WrAddr, IInv, Fields, Due
<1>5. CASE WrValid
  BY <1>1, <1>5 DEF WrValid, IInv, Fields, Due
<1>6. CASE WrBeat
  <2>1. eng.at = "wr_data" /\ eng.beats \in 0..(BurstWords - 1)
        /\ Len(wrfifo.words) >= BurstWords - eng.beats
    BY <1>6 DEF WrBeat, IInv, Due
  <2>2. wrfifo.words # <<>>
    BY <1>1, <2>1
  <2>3. Tail(wrfifo.words) \in Seq(Nat \X Int)
        /\ Len(Tail(wrfifo.words)) = Len(wrfifo.words) - 1
    BY <2>2, HeadTailProperties DEF IInv, Fields
  <2>4. wrfifo'.words = Tail(wrfifo.words) /\ "words" \in DOMAIN wrfifo' /\ ~starved'
    BY <1>6, <2>2 DEF WrBeat, IInv
  <2>5. eng'.beats = eng.beats + 1 /\ {"at", "beats", "wvalid"} \subseteq DOMAIN eng'
        /\ eng'.at = IF eng.beats = BurstWords - 1 THEN "wr_resp" ELSE "wr_data"
    BY <1>6, <2>1 DEF WrBeat, IInv, Fields
  <2>6. UNCHANGED cam
    BY <1>6 DEF WrBeat
  <2>7. Due'
    <3>1. CASE eng.beats = BurstWords - 1
      BY <2>5, <3>1 DEF Due
    <3>2. CASE eng.beats # BurstWords - 1
      <4>1. eng'.at = "wr_data" /\ eng'.beats = eng.beats + 1
        BY <2>5, <3>2
      <4>2. eng'.beats \in 0..(BurstWords - 1)
        BY <2>1, <3>2, <4>1
      <4>3. Len(wrfifo'.words) >= BurstWords - eng'.beats
        BY <1>1, <2>1, <2>3, <2>4, <4>1
      <4> QED BY <4>1, <4>2, <4>3 DEF Due
    <3> QED BY <3>1, <3>2
  <2> QED BY <2>3, <2>4, <2>5, <2>6, <2>7 DEF IInv, Fields
<1>7. CASE WrResp
  BY <1>1, <1>7 DEF WrResp, IInv, Fields, Due
<1>10. CASE WrError
  BY <1>1, <1>10 DEF WrError, IInv, Fields, Due
<1>8. CASE RdAddr
  BY <1>1, <1>8 DEF RdAddr, IInv, Fields, Due
<1>9. CASE RdBeat
  <2>1. UNCHANGED <<cam, wrfifo, starved>> /\ eng.at = "rd_resp"
        /\ {"at", "beats", "wvalid"} \subseteq DOMAIN eng' /\ eng'.at \in {"arb", "rd_resp"}
    BY <1>9 DEF RdBeat, RdTake, IInv, Fields
  <2> QED BY <2>1 DEF IInv, Fields, Due
<1>11. CASE RdError
  BY <1>1, <1>11 DEF RdError, RdTake, IInv, Fields, Due
<1> QED BY <1>2, <1>3, <1>4, <1>5, <1>6, <1>7, <1>8, <1>9, <1>10, <1>11 DEF Engine

LEMMA OutsideInv ==
    ASSUME IInv, CameraWord \/ NextFrame \/ Restart \/ ReadWord
    PROVE  IInv'
<1> USE BurstAssumption
<1>1. Len(wrfifo.words) \in Nat
  BY DEF IInv, Fields
<1>2. CASE CameraWord
  <2> DEFINE word == <<cam.frame, cam.pos + 1>>
  <2>1. word \in Nat \X Int
    BY DEF IInv, Fields
  <2>2. Append(wrfifo.words, word) \in Seq(Nat \X Int)
        /\ Len(Append(wrfifo.words, word)) = Len(wrfifo.words) + 1
    <3> HIDE DEF word
    <3> QED BY <2>1, AppendProperties DEF IInv, Fields
  <2>3. wrfifo'.words = Append(wrfifo.words, word) /\ "words" \in DOMAIN wrfifo'
    BY <1>2 DEF CameraWord, IInv, Fields
  <2>4. cam' \in [frame : Nat, pos : Int] /\ UNCHANGED <<eng, starved>>
    <3>1. cam' = [cam EXCEPT !.pos = @ + 1] /\ cam \in [frame : Nat, pos : Int]
      BY <1>2 DEF CameraWord, IInv, Fields
    <3>2. cam' \in [frame : Nat, pos : Int]
      BY <3>1
    <3> QED BY <1>2, <3>2 DEF CameraWord
  <2> HIDE DEF word
  <2>5. Fields'
    BY <2>2, <2>3, <2>4 DEF IInv, Fields
  <2>6. Len(wrfifo'.words) = Len(wrfifo.words) + 1
    BY <2>2, <2>3
  <2>7. Due'
    <3>1. Due /\ eng' = eng
      BY <2>4 DEF IInv
    <3>2. eng.at = "wr_addr" => eng.beats = 0 /\ Len(wrfifo'.words) >= BurstWords
      BY <1>1, <2>6, <3>1 DEF Due
    <3>3. eng.at = "wr_data" => /\ eng.beats \in 0..(BurstWords - 1)
                                /\ Len(wrfifo'.words) >= BurstWords - eng.beats
      BY <1>1, <2>6, <3>1 DEF Due
    <3> QED BY <3>1, <3>2, <3>3 DEF Due
  <2> QED BY <2>4, <2>5, <2>7 DEF IInv
<1>3. CASE NextFrame
  <2>1. eng'.at \notin {"wr_addr", "wr_data"} /\ {"at", "beats", "wvalid"} \subseteq DOMAIN eng'
    BY <1>3 DEF NextFrame, Written, IInv, Fields
  <2>2. wrfifo' = [words |-> <<>>, dout |-> Blank] /\ UNCHANGED starved
    BY <1>3 DEF NextFrame
  <2>3. wrfifo'.words = <<>> /\ "words" \in DOMAIN wrfifo'
    BY <2>2
  <2>4. cam' \in [frame : Nat, pos : Int]
    <3>1. cam.frame \in Nat
      BY DEF IInv, Fields
    <3>2. cam.frame + 1 \in Nat /\ LostWords \in Int
      BY <3>1, LostAssumption
    <3>3. cam' = [frame |-> cam.frame + 1, pos |-> LostWords]
      BY <1>3 DEF NextFrame
    <3> QED BY <3>2, <3>3
  <2>5. Due'
    BY <2>1 DEF Due
  <2>6. Fields'
    BY <2>1, <2>3, <2>4 DEF Fields
  <2> QED BY <2>2, <2>5, <2>6 DEF IInv
<1>4. CASE Restart
  BY <1>4 DEF Restart, IInv, Fields, Due
<1>5. CASE ReadWord
  BY <1>5 DEF ReadWord, IInv, Fields, Due
<1> QED BY <1>2, <1>3, <1>4, <1>5

\* wvalid is a clock behind the FIFO, so that a beat can be sent when it has run empty; it
\* never is, because a burst starts when its words are there and nothing clears them before
\* it ends.
THEOREM EveryBeatHasAWord == Spec => []NoEmptyBeat
<1>1. IInv /\ [Next]_vars => IInv'
  <2>1. IInv /\ UNCHANGED vars => IInv'
    BY DEF vars, IInv, Fields, Due
  <2> QED BY <2>1, EngineInv, OutsideInv DEF Next
<1>2. IInv => NoEmptyBeat
  BY DEF IInv, NoEmptyBeat
<1> QED BY InitInv, <1>1, <1>2, PTL DEF Spec

-----------------------------------------------------------------------------
(***************************************************************************)
(* What the memory and the read FIFO hold.                                 *)
(***************************************************************************)
Word == Nat \X Nat
Places == 0..(2 * FrameBursts - 1)
Writing == {"wr_addr", "wr_data", "wr_resp"}
States == {"idle", "arb", "rd_addr", "rd_resp"} \cup Writing

EngType == [at : States, poll : BOOLEAN, awaddr : Places, araddr : Places, base : Places,
            beats : 0..BurstWords, wvalid : BOOLEAN]
TypeOK ==
    /\ cam \in [frame : Nat \ {0}, pos : LostWords..FrameWords]
    /\ wrfifo \in [words : Seq(Word), dout : Word]
    /\ eng \in EngType
    /\ mem \in [Places -> [1..BurstWords -> Word]]
    /\ rdfifo \in Seq(Word)
    /\ rd \in [wanted : BOOLEAN, on : BOOLEAN, frame : Nat, got : Seq(Word)]

\* Words of a frame in the bursts before burst k.
Before(k) == k * BurstWords

\* The first place of the memory that the camera writes, and that it wrote last.
Here == Begin(Bank(cam.frame))
There == Begin(Bank(cam.frame - 1))

\* Words written of the frame of the camera, and those of them in the burst at hand; words
\* read in the burst at hand.
Sent == cam.pos - LostWords - Len(wrfifo.words)
InBurst == IF eng.at = "wr_data" THEN eng.beats ELSE IF eng.at = "wr_resp" THEN BurstWords ELSE 0
OfBurst == IF eng.at = "rd_resp" THEN eng.beats ELSE 0

\* What the engine is about to do; writes stay in the bank of the camera.
Positions ==
    /\ eng.at \in {"rd_addr", "wr_addr"} => eng.beats = 0
    /\ eng.at \in {"wr_data", "wr_resp"} => eng.base = eng.awaddr
    /\ eng.at = "wr_data" => eng.beats < BurstWords
    /\ eng.at = "rd_resp" => eng.base = eng.araddr /\ eng.beats < BurstWords
    /\ eng.awaddr \in Here..(Here + FrameBursts - 2)

\* The write FIFO holds the words of one frame in their order, its output the one before.
InOrder ==
    /\ Sent >= 0
    /\ \A i \in 1..Len(wrfifo.words) :
           wrfifo.words[i] = <<cam.frame, LostWords + Sent + i>>
    /\ wrfifo.dout = Stored(cam.frame, Sent + 1)

\* q bursts of the frame are written, and stand in the memory one after the other.
Stands(q) ==
    /\ Sent = Before(q) + InBurst
    /\ eng.at \in Writing => q < FrameBursts - 1
    /\ <<"frame", cam.frame>> \notin spoilt =>
           /\ eng.awaddr = Here + (IF q = FrameBursts - 1 THEN 0 ELSE q)
           /\ \A k \in 0..q, i \in 1..BurstWords :
                  k < q \/ i <= InBurst => mem[Here + k][i] = Stored(cam.frame, Before(k) + i)

\* The frame before it stands in the other bank, but for its last burst.
OtherBank ==
    cam.frame > 1 /\ <<"frame", cam.frame - 1>> \notin spoilt =>
        \A k \in 0..(FrameBursts - 2), i \in 1..BurstWords :
            mem[There + k][i] = Stored(cam.frame - 1, Before(k) + i)

\* Word j of the preview of a frame.
Shown(frame, j) ==
    Stored(frame, IF j > FrameWords - BurstWords THEN j - FrameWords + BurstWords ELSE j)

\* p bursts of the preview are read, and wait in the FIFO or have been fetched from it.
Brought(p) ==
    rd.on =>
        /\ Len(rd.got) + Len(rdfifo) = Before(p) + OfBurst
        /\ Intact => /\ p < FrameBursts =>
                           eng.araddr = There + (IF p = FrameBursts - 1 THEN 0 ELSE p)
                     /\ \A j \in 1..Len(rdfifo) :
                           Len(rd.got) + j <= FrameWords =>
                               rdfifo[j] = Shown(rd.frame, Len(rd.got) + j)

\* The preview has the words it fetched in their order; while it reads, the camera stays in
\* the next frame.
Fetches ==
    /\ rd.wanted \/ rd.on => cam.frame > 1
    /\ rd.on => rd.frame = cam.frame - 1 /\ Len(rd.got) < FrameWords
    /\ Intact => \A j \in 1..Len(rd.got) : j <= FrameWords => rd.got[j] = Shown(rd.frame, j)

Bursts == 0..(FrameBursts - 1)
WriterInv == Positions /\ InOrder /\ OtherBank /\ \E q \in Bursts : Stands(q)
ReaderInv == Fetches /\ \E p \in Nat : Brought(p)
PictureInv == IInv /\ TypeOK /\ WriterInv /\ ReaderInv

-----------------------------------------------------------------------------
(***************************************************************************)
(* Arithmetic of bursts and banks.                                         *)
(***************************************************************************)
LEMMA BurstFacts ==
    /\ BurstWords \in Nat \ {0} /\ FrameBursts \in Nat /\ FrameBursts >= 2
    /\ LostWords \in Nat /\ LostWords >= 1 /\ LostWords <= BurstWords
    /\ FrameWords \in Nat /\ FrameWords = Before(FrameBursts)
BY BurstAssumption, LostAssumption DEF FrameWords, Before

LEMMA BeforeFacts ==
    /\ \A k \in Nat : Before(k) \in Nat /\ Before(k + 1) = Before(k) + BurstWords
    /\ Before(0) = 0
    /\ \A j, k \in Nat : j < k => Before(j) + BurstWords <= Before(k)
<1>1. ASSUME NEW k \in Nat
      PROVE  Before(k) \in Nat /\ Before(k + 1) = Before(k) + BurstWords
  BY BurstAssumption DEF Before
<1>2. Before(0) = 0
  BY BurstAssumption DEF Before
<1>3. ASSUME NEW j \in Nat, NEW k \in Nat, j < k
      PROVE  Before(j) + BurstWords <= Before(k)
  <2>1. PICK d \in Nat : k = j + 1 + d
    <3>1. k - j - 1 \in Nat /\ k = j + 1 + (k - j - 1)
      BY <1>3
    <3> QED BY <3>1
  <2>2. d * BurstWords \in Nat
    BY BurstAssumption
  <2>3. (j + 1 + d) * BurstWords = j * BurstWords + BurstWords + d * BurstWords
    BY BurstAssumption
  <2>4. j * BurstWords \in Nat /\ BurstWords \in Nat
    BY BurstAssumption
  <2> QED BY <2>1, <2>2, <2>3, <2>4 DEF Before
<1> QED BY <1>1, <1>2, <1>3

LEMMA BankFacts ==
    ASSUME NEW f \in Nat
    PROVE  /\ Begin(Bank(f)) \in {0, FrameBursts} /\ Begin(Bank(f + 1)) \in {0, FrameBursts}
           /\ Begin(Bank(f + 1)) # Begin(Bank(f))
<1>1. /\ Bank(f) \in {0, 1} /\ Bank(f + 1) \in {0, 1} /\ Bank(f + 1) # Bank(f)
  BY DEF Bank
<1>2. Begin(0) = 0 /\ Begin(1) = FrameBursts /\ FrameBursts # 0
  BY BurstAssumption DEF Begin
<1> QED BY <1>1, <1>2

LEMMA BankRange ==
    ASSUME TypeOK
    PROVE  /\ Here \in {0, FrameBursts} /\ There \in {0, FrameBursts} /\ Here # There
           /\ \A k \in 0..(FrameBursts - 1) : Here + k \in Places /\ There + k \in Places
<1>1. cam.frame - 1 \in Nat /\ cam.frame = (cam.frame - 1) + 1
  BY DEF TypeOK
<1>2. Here \in {0, FrameBursts} /\ There \in {0, FrameBursts} /\ Here # There
  BY <1>1, BankFacts DEF Here, There
<1> QED BY <1>2, BurstFacts DEF Places

\* An address that starts in a bank stays before its last burst.
LEMMA AdvancedFacts ==
    ASSUME NEW bank, NEW addr \in Int, Begin(bank) \in Nat,
           addr \in Begin(bank)..(Begin(bank) + FrameBursts - 2)
    PROVE  /\ Advanced(addr, bank) \in Begin(bank)..(Begin(bank) + FrameBursts - 2)
           /\ \A q \in 0..(FrameBursts - 2) :
                  addr = Begin(bank) + q =>
                      Advanced(addr, bank)
                        = Begin(bank) + (IF q + 1 = FrameBursts - 1 THEN 0 ELSE q + 1)
<1> DEFINE b == Begin(bank)
<1>1. b \in Nat /\ addr \in b..(b + FrameBursts - 2)
  OBVIOUS
<1>2. Advanced(addr, bank) = IF addr + 1 >= b + FrameBursts - 1 THEN b ELSE addr + 1
  BY DEF Advanced, End
<1> HIDE DEF b
<1> QED BY <1>1, <1>2, BurstFacts DEF b

LEMMA AdvancedRange ==
    ASSUME NEW bank \in {0, 1}, NEW addr \in Places
    PROVE  Advanced(addr, bank) \in Places
<1>1. Begin(0) = 0 /\ Begin(1) = FrameBursts
  BY BurstAssumption DEF Begin
<1>2. Begin(bank) \in {0, FrameBursts}
  BY <1>1
<1>3. Advanced(addr, bank) = IF addr + 1 >= Begin(bank) + FrameBursts - 1
                             THEN Begin(bank) ELSE addr + 1
  BY DEF Advanced, End
<1> QED BY <1>2, <1>3, BurstFacts DEF Places

LEMMA HeadFacts ==
    ASSUME NEW S, NEW s \in Seq(S), s # <<>>
    PROVE  /\ Head(s) \in S /\ Head(s) = s[1]
           /\ Tail(s) \in Seq(S) /\ Len(Tail(s)) = Len(s) - 1
           /\ \A i \in 1..(Len(s) - 1) : Tail(s)[i] = s[i + 1]
<1>1. Len(s) \in Nat /\ Len(s) >= 1
  BY EmptySeq
<1>2. Head(s) = s[1] /\ s[1] \in S
  BY <1>1
<1>3. Tail(s) \in Seq(S) /\ Len(Tail(s)) = Len(s) - 1
      /\ \A i \in 1..(Len(s) - 1) : Tail(s)[i] = s[i + 1]
  BY <1>1, HeadTailProperties
<1> QED BY <1>2, <1>3

LEMMA AppendFacts ==
    ASSUME NEW S, NEW s \in Seq(S), NEW e \in S
    PROVE  /\ Len(s) \in Nat /\ Append(s, e) \in Seq(S) /\ Len(Append(s, e)) = Len(s) + 1
           /\ Append(s, e)[Len(s) + 1] = e
           /\ \A i \in 1..Len(s) : Append(s, e)[i] = s[i]
BY AppendProperties

-----------------------------------------------------------------------------
(***************************************************************************)
(* Types.                                                                  *)
(***************************************************************************)
LEMMA InitTypes == Init => TypeOK
<1> SUFFICES ASSUME Init PROVE TypeOK
  OBVIOUS
<1>1. Begin(0) \in Places /\ 0 \in Places
  BY BurstFacts DEF Begin, Places
<1>2. LostWords \in LostWords..FrameWords
  <2>1. LostWords <= FrameWords
    <3>1. 0 \in Nat /\ 0 < FrameBursts /\ FrameBursts \in Nat /\ Before(0) = 0
      BY BurstFacts, BeforeFacts
    <3>2. Before(0) + BurstWords <= Before(FrameBursts)
      BY <3>1, BeforeFacts
    <3> QED BY <3>1, <3>2, BurstFacts
  <2> QED BY <2>1, BurstFacts
<1>3. Blank \in Word /\ 0 \in 0..BurstWords
  BY BurstFacts DEF Blank, Word
<1>4. cam \in [frame : Nat \ {0}, pos : LostWords..FrameWords]
  BY <1>2 DEF Init
<1>5. wrfifo \in [words : Seq(Word), dout : Word]
  BY <1>3 DEF Init
<1>6. eng \in EngType
  BY <1>1, <1>3 DEF Init, States, EngType
<1>7. mem \in [Places -> [1..BurstWords -> Word]]
  BY <1>3 DEF Init, Places
<1>8. rdfifo \in Seq(Word) /\ rd \in [wanted : BOOLEAN, on : BOOLEAN, frame : Nat, got : Seq(Word)]
  BY DEF Init
<1> QED BY <1>4, <1>5, <1>6, <1>7, <1>8 DEF TypeOK

\* A read puts one word of the memory into the FIFO.
LEMMA TakeFacts ==
    ASSUME TypeOK, Positions, RdTake
    PROVE  /\ mem[eng.base][eng.beats + 1] \in Word
           /\ rdfifo' = Append(rdfifo, mem[eng.base][eng.beats + 1])
           /\ rdfifo' \in Seq(Word)
           /\ eng.at = "rd_resp" /\ eng.beats \in 0..(BurstWords - 1)
           /\ eng.beats + 1 \in 1..BurstWords
<1>1. eng.at = "rd_resp" /\ rdfifo' = Append(rdfifo, mem[eng.base][eng.beats + 1])
  BY DEF RdTake
<1>2. eng.beats \in 0..BurstWords /\ eng.beats < BurstWords /\ eng.base \in Places
  <2>1. eng \in EngType
    BY DEF TypeOK
  <2>2. eng.beats < BurstWords
    BY <1>1 DEF Positions
  <2> QED BY <2>1, <2>2 DEF EngType
<1>3. eng.beats \in 0..(BurstWords - 1) /\ eng.beats + 1 \in 1..BurstWords
  BY <1>2, BurstFacts
<1>4. mem[eng.base][eng.beats + 1] \in Word
  <2>1. mem[eng.base] \in [1..BurstWords -> Word]
    BY <1>2 DEF TypeOK
  <2> HIDE DEF Word
  <2> QED BY <1>3, <2>1
<1>5. rdfifo' \in Seq(Word)
  BY <1>1, <1>4, AppendFacts DEF TypeOK
<1> QED BY <1>1, <1>3, <1>4, <1>5

\* A beat of a write takes the word at the output of the FIFO and moves the next one there.
LEMMA BeatFacts ==
    ASSUME IInv, TypeOK, Positions, WrBeat
    PROVE  /\ wrfifo.words # <<>> /\ wrfifo.words \in Seq(Word)
           /\ wrfifo' = [words |-> Tail(wrfifo.words), dout |-> Head(wrfifo.words)]
           /\ mem' = [mem EXCEPT ![eng.base][eng.beats + 1] = wrfifo.dout]
           /\ eng.at = "wr_data" /\ eng.beats \in 0..(BurstWords - 1)
           /\ eng.beats + 1 \in 1..BurstWords
           /\ eng'.at = IF eng.beats = BurstWords - 1 THEN "wr_resp" ELSE "wr_data"
           /\ eng'.beats = eng.beats + 1
           /\ UNCHANGED <<cam, rdfifo, rd, spoilt, errors>>
           /\ eng'.base = eng.base /\ eng'.awaddr = eng.awaddr /\ eng'.araddr = eng.araddr
           /\ eng' \in EngType
<1>1. eng.at = "wr_data" /\ eng.beats \in 0..(BurstWords - 1)
      /\ Len(wrfifo.words) >= BurstWords - eng.beats
  BY DEF WrBeat, IInv, Due
<1>2. wrfifo.words \in Seq(Word) /\ Len(wrfifo.words) \in Nat
  BY DEF TypeOK
<1>3. wrfifo.words # <<>>
  BY <1>1, <1>2, BurstFacts
<1>4. eng.beats + 1 \in 1..BurstWords /\ eng.beats + 1 \in 0..BurstWords
  BY <1>1, BurstFacts
<1>5. (~(eng.beats = BurstWords - 1) /\ wrfifo.words # <<>>) \in BOOLEAN
  OBVIOUS
<1>6. eng' = [eng EXCEPT !.at = IF eng.beats = BurstWords - 1 THEN "wr_resp" ELSE @,
                         !.beats = @ + 1,
                         !.wvalid = ~(eng.beats = BurstWords - 1) /\ wrfifo.words # <<>>]
  BY DEF WrBeat
<1>7. eng \in EngType
  BY DEF TypeOK, EngType
<1>8. /\ eng'.at = IF eng.beats = BurstWords - 1 THEN "wr_resp" ELSE "wr_data"
      /\ eng'.beats = eng.beats + 1
      /\ eng'.base = eng.base /\ eng'.awaddr = eng.awaddr /\ eng'.araddr = eng.araddr
  BY <1>1, <1>6, <1>7 DEF EngType
<1>9. eng' \in EngType
  BY <1>1, <1>4, <1>5, <1>6, <1>7 DEF EngType, States, Writing
<1>10. /\ wrfifo' = [words |-> Tail(wrfifo.words), dout |-> Head(wrfifo.words)]
       /\ mem' = [mem EXCEPT ![eng.base][eng.beats + 1] = wrfifo.dout]
       /\ UNCHANGED <<cam, rdfifo, rd, spoilt, errors>>
  BY <1>3 DEF WrBeat
<1> QED BY <1>1, <1>2, <1>3, <1>4, <1>8, <1>9, <1>10

LEMMA TypeStep ==
    ASSUME IInv, TypeOK, Positions, Next
    PROVE  TypeOK'
<1>1. /\ cam \in [frame : Nat \ {0}, pos : LostWords..FrameWords]
      /\ wrfifo \in [words : Seq(Word), dout : Word]
      /\ eng \in EngType
      /\ mem \in [Places -> [1..BurstWords -> Word]]
      /\ rdfifo \in Seq(Word)
      /\ rd \in [wanted : BOOLEAN, on : BOOLEAN, frame : Nat, got : Seq(Word)]
  BY DEF TypeOK
<1>2. \A f \in Nat : Begin(Bank(f)) \in Places /\ Bank(f) \in {0, 1}
  <2>1. ASSUME NEW f \in Nat PROVE Begin(Bank(f)) \in Places /\ Bank(f) \in {0, 1}
    <3>1. Begin(Bank(f)) \in {0, FrameBursts} /\ Bank(f) \in {0, 1}
      BY BankFacts DEF Bank
    <3> QED BY <3>1, BurstFacts DEF Places
  <2> QED BY <2>1
<1>3. 0 \in 0..BurstWords
  BY BurstFacts
<1>4. CASE Arb
  BY <1>1, <1>3, <1>4 DEF Arb, EngType, States, Writing, TypeOK
<1>5. CASE Ready
  BY <1>1, <1>5 DEF Ready, EngType, States, Writing, TypeOK
<1>6. CASE WrAddr
  BY <1>1, <1>6 DEF WrAddr, EngType, States, Writing, TypeOK
<1>7. CASE WrValid
  BY <1>1, <1>7 DEF WrValid, EngType, States, Writing, TypeOK
<1>8. CASE WrBeat
  <2>1. eng' \in EngType /\ UNCHANGED <<cam, rdfifo, rd>>
    BY <1>8, BeatFacts
  <2>2. wrfifo' \in [words : Seq(Word), dout : Word]
    <3>1. /\ wrfifo.words # <<>> /\ wrfifo.words \in Seq(Word)
          /\ wrfifo' = [words |-> Tail(wrfifo.words), dout |-> Head(wrfifo.words)]
      BY <1>8, BeatFacts
    <3>2. Tail(wrfifo.words) \in Seq(Word) /\ Head(wrfifo.words) \in Word
      BY <3>1, HeadFacts
    <3> QED BY <3>1, <3>2
  <2>3. mem' \in [Places -> [1..BurstWords -> Word]]
    <3>1. mem' = [mem EXCEPT ![eng.base][eng.beats + 1] = wrfifo.dout]
      BY <1>8, BeatFacts
    <3>2. wrfifo.dout \in Word /\ eng.base \in Places
      BY <1>1 DEF EngType
    <3> QED BY <1>1, <3>1, <3>2
  <2> QED BY <1>1, <2>1, <2>2, <2>3 DEF TypeOK
<1>9. CASE WrResp
  <2>1. cam.frame \in Nat /\ eng.awaddr \in Places
    BY <1>1 DEF EngType
  <2>2. Advanced(eng.awaddr, Bank(cam.frame)) \in Places
    BY <1>2, <2>1, AdvancedRange
  <2> QED BY <1>1, <1>9, <2>2 DEF WrResp, EngType, States, Writing, TypeOK
<1>10. CASE WrError
  BY <1>1, <1>10 DEF WrError, EngType, States, Writing, TypeOK
<1>11. CASE RdAddr
  BY <1>1, <1>11 DEF RdAddr, EngType, States, Writing, TypeOK
<1>12. CASE RdBeat
  <2>1. rdfifo' \in Seq(Word) /\ eng.beats \in 0..(BurstWords - 1)
        /\ eng.beats + 1 \in 1..BurstWords
    BY <1>12, TakeFacts DEF RdBeat
  <2>2. rd.frame \in Nat /\ eng.araddr \in Places
    BY <1>1 DEF EngType
  <2>3. Advanced(eng.araddr, Bank(rd.frame)) \in Places
    BY <1>2, <2>2, AdvancedRange
  <2>4. eng.beats + 1 \in 0..BurstWords
    BY <2>1, BurstFacts
  <2>5. eng' = IF eng.beats = BurstWords - 1
               THEN [eng EXCEPT !.at = "arb", !.araddr = Advanced(@, Bank(rd.frame))]
               ELSE [eng EXCEPT !.beats = @ + 1]
    BY <1>12 DEF RdBeat
  <2>6. eng' \in EngType
    BY <1>1, <2>3, <2>4, <2>5 DEF EngType, States
  <2> QED BY <1>1, <1>12, <2>1, <2>6 DEF RdBeat, RdTake, TypeOK
<1>13. CASE RdError
  <2>1. rdfifo' \in Seq(Word)
    BY <1>13, TakeFacts DEF RdError
  <2>2. eng' \in EngType
    BY <1>1, <1>13 DEF RdError, EngType, States
  <2> QED BY <1>1, <1>13, <2>1, <2>2 DEF RdError, RdTake, TypeOK
<1>14. CASE CameraWord
  <2> DEFINE word == <<cam.frame, cam.pos + 1>>
  <2>1. word \in Word /\ cam.pos + 1 \in LostWords..FrameWords
    <3>1. cam.pos \in LostWords..FrameWords /\ cam.pos < FrameWords /\ cam.frame \in Nat
      BY <1>1, <1>14 DEF CameraWord
    <3>2. LostWords \in Nat /\ FrameWords \in Nat
      BY BurstFacts
    <3> QED BY <3>1, <3>2 DEF Word
  <2>2. wrfifo' = [wrfifo EXCEPT !.words = Append(@, word)]
        /\ cam' = [cam EXCEPT !.pos = @ + 1]
    BY <1>14 DEF CameraWord
  <2> HIDE DEF word
  <2>3. Append(wrfifo.words, word) \in Seq(Word)
    BY <1>1, <2>1, AppendFacts
  <2> QED BY <1>1, <1>14, <2>1, <2>2, <2>3 DEF CameraWord, TypeOK
<1>15. CASE NextFrame
  <2>1. cam.frame + 1 \in Nat \ {0}
    BY <1>1
  <2>2. cam' \in [frame : Nat \ {0}, pos : LostWords..FrameWords]
    <3>1. cam' = [frame |-> cam.frame + 1, pos |-> LostWords]
      BY <1>15 DEF NextFrame
    <3>2. LostWords \in LostWords..FrameWords
      BY <1>1, BurstFacts
    <3> QED BY <2>1, <3>1, <3>2
  <2>3. wrfifo' \in [words : Seq(Word), dout : Word]
    <3>1. wrfifo' = [words |-> <<>>, dout |-> Blank] /\ Blank \in Word
      BY <1>15 DEF NextFrame, Blank, Word
    <3> QED BY <3>1
  <2>4. eng' \in EngType
    <3>1. Begin(Bank(cam.frame + 1)) \in Places
      BY <1>2, <2>1
    <3> QED BY <1>1, <1>15, <3>1 DEF NextFrame, EngType
  <2>5. rd' \in [wanted : BOOLEAN, on : BOOLEAN, frame : Nat, got : Seq(Word)]
    BY <1>1, <1>15 DEF NextFrame
  <2> QED BY <1>1, <1>15, <2>2, <2>3, <2>4, <2>5 DEF NextFrame, TypeOK
<1>16. CASE Restart
  <2>1. cam.frame - 1 \in Nat
    BY <1>1
  <2>2. Begin(Bank(cam.frame - 1)) \in Places
    BY <1>2, <2>1
  <2>3. eng' \in EngType
    BY <1>1, <1>16, <2>2 DEF Restart, EngType
  <2>5. rdfifo' \in Seq(Word)
    BY <1>16 DEF Restart
  <2>4. rd' \in [wanted : BOOLEAN, on : BOOLEAN, frame : Nat, got : Seq(Word)]
    <3>1. rd' = [wanted |-> FALSE, on |-> TRUE, frame |-> cam.frame - 1, got |-> <<>>]
      BY <1>16 DEF Restart
    <3> QED BY <2>1, <3>1
  <2> QED BY <1>1, <1>16, <2>3, <2>4, <2>5 DEF Restart, TypeOK
<1>17. CASE ReadWord
  <2>1. rdfifo # <<>> /\ rdfifo' = Tail(rdfifo)
        /\ rd' = [rd EXCEPT !.got = Append(@, Head(rdfifo)), !.on = Len(rd.got) + 1 < FrameWords]
    BY <1>17 DEF ReadWord
  <2>2. Head(rdfifo) \in Word /\ Tail(rdfifo) \in Seq(Word)
    BY <1>1, <2>1, HeadFacts
  <2>3. Append(rd.got, Head(rdfifo)) \in Seq(Word)
    BY <1>1, <2>2, AppendFacts
  <2>4. (Len(rd.got) + 1 < FrameWords) \in BOOLEAN
    OBVIOUS
  <2>5. rd' \in [wanted : BOOLEAN, on : BOOLEAN, frame : Nat, got : Seq(Word)]
    BY <1>1, <2>1, <2>3, <2>4
  <2> QED BY <1>1, <1>17, <2>1, <2>2, <2>5 DEF ReadWord, TypeOK
<1> QED BY <1>4, <1>5, <1>6, <1>7, <1>8, <1>9, <1>10, <1>11, <1>12, <1>13, <1>14, <1>15, <1>16,
           <1>17 DEF Next, Engine

-----------------------------------------------------------------------------
(***************************************************************************)
(* The writer.                                                             *)
(***************************************************************************)
LEMMA PositionsStep ==
    ASSUME IInv, TypeOK, Positions, Next
    PROVE  Positions'
<1>1. /\ cam.frame \in Nat \ {0} /\ eng \in EngType /\ BurstWords \in Nat \ {0}
      /\ 0 < BurstWords /\ 0 \in 0..BurstWords
  BY BurstFacts DEF TypeOK
<1>2. ASSUME NEW f \in Nat
      PROVE  Begin(Bank(f)) \in Begin(Bank(f))..(Begin(Bank(f)) + FrameBursts - 2)
             /\ Begin(Bank(f)) \in Nat
  BY BankFacts, BurstFacts
<1>3. eng.awaddr \in Here..(Here + FrameBursts - 2)
  BY DEF Positions
<1>4. CASE Arb
  <2>1. UNCHANGED cam /\ eng' = [eng EXCEPT !.poll = ~@, !.beats = 0,
                          !.at = IF WrReq /\ ~eng.poll THEN "wr_addr"
                                 ELSE IF RdReq /\ eng.poll THEN "rd_addr" ELSE "arb"]
    BY <1>4 DEF Arb
  <2>2. eng'.beats = 0 /\ eng'.at \in {"wr_addr", "rd_addr", "arb"} /\ eng'.awaddr = eng.awaddr
    BY <1>1, <2>1 DEF EngType
  <2> QED BY <1>3, <2>1, <2>2 DEF Positions, Here
<1>5. CASE Ready
  BY <1>1, <1>5 DEF Ready, EngType, Positions, Here
<1>6. CASE WrAddr
  BY <1>1, <1>6 DEF WrAddr, EngType, Positions, Here
<1>7. CASE WrValid
  BY <1>1, <1>7 DEF WrValid, EngType, Positions, Here
<1>8. CASE WrBeat
  <2>1. /\ eng.at = "wr_data" /\ eng.beats \in 0..(BurstWords - 1)
        /\ eng'.at = IF eng.beats = BurstWords - 1 THEN "wr_resp" ELSE "wr_data"
        /\ eng'.beats = eng.beats + 1
        /\ eng'.base = eng.base /\ eng'.awaddr = eng.awaddr
        /\ UNCHANGED cam
    BY <1>8, BeatFacts
  <2>2. eng'.base = eng'.awaddr
    BY <2>1 DEF Positions
  <2>3. eng'.at = "wr_data" => eng'.beats < BurstWords
    BY <1>1, <2>1
  <2>4. Here' = Here
    BY <2>1 DEF Here
  <2> QED BY <1>3, <2>1, <2>2, <2>3, <2>4 DEF Positions
<1>9. CASE WrResp
  <2>1. Advanced(eng.awaddr, Bank(cam.frame)) \in Here..(Here + FrameBursts - 2)
    <3>1. cam.frame \in Nat /\ eng.awaddr \in Int
      BY <1>1 DEF EngType, Places
    <3>2. Begin(Bank(cam.frame)) \in Nat
      BY <1>2, <3>1
    <3> QED BY <1>3, <3>1, <3>2, AdvancedFacts DEF Here
  <2>2. eng' = [eng EXCEPT !.at = "arb", !.awaddr = Advanced(@, Bank(cam.frame))]
        /\ UNCHANGED cam
    BY <1>9 DEF WrResp
  <2>3. eng'.at = "arb" /\ eng'.awaddr = Advanced(eng.awaddr, Bank(cam.frame)) /\ Here' = Here
    BY <1>1, <2>2 DEF EngType, Here
  <2> QED BY <2>1, <2>3 DEF Positions
<1>10. CASE WrError
  BY <1>1, <1>10 DEF WrError, EngType, Positions, Here
<1>11. CASE RdAddr
  <2>1. eng.beats = 0
    BY <1>11 DEF RdAddr, Positions
  <2> QED BY <1>1, <1>11, <2>1 DEF RdAddr, EngType, Positions, Here
<1>12. CASE RdBeat
  <2>1. eng.at = "rd_resp" /\ eng.beats \in 0..(BurstWords - 1) /\ eng.base = eng.araddr
    BY <1>12, TakeFacts DEF RdBeat, Positions
  <2>2. UNCHANGED cam
    BY <1>12 DEF RdBeat, RdTake
  <2>3. Here' = Here
    BY <2>2 DEF Here
  <2>4. eng' = IF eng.beats = BurstWords - 1
               THEN [eng EXCEPT !.at = "arb", !.araddr = Advanced(@, Bank(rd.frame))]
               ELSE [eng EXCEPT !.beats = @ + 1]
    BY <1>12 DEF RdBeat
  <2>5. CASE eng.beats = BurstWords - 1
    <3>1. eng'.at = "arb" /\ eng'.awaddr = eng.awaddr
      BY <1>1, <2>4, <2>5 DEF EngType
    <3> QED BY <1>3, <2>3, <3>1 DEF Positions
  <2>6. CASE eng.beats # BurstWords - 1
    <3>1. /\ eng'.at = "rd_resp" /\ eng'.awaddr = eng.awaddr /\ eng'.base = eng'.araddr
          /\ eng'.beats = eng.beats + 1
      BY <1>1, <2>1, <2>4, <2>6 DEF EngType
    <3>2. eng'.beats < BurstWords
      BY <1>1, <2>1, <2>6, <3>1
    <3> QED BY <1>3, <2>3, <3>1, <3>2 DEF Positions
  <2> QED BY <2>5, <2>6
<1>13. CASE RdError
  BY <1>1, <1>13 DEF RdError, RdTake, EngType, Positions, Here
<1>14. CASE CameraWord
  <2>1. UNCHANGED eng /\ cam'.frame = cam.frame
    BY <1>14 DEF CameraWord, TypeOK
  <2> QED BY <2>1 DEF Positions, Here
<1>15. CASE NextFrame
  <2>1. eng.at \notin Writing
        /\ eng' = [eng EXCEPT !.awaddr = Begin(Bank(cam.frame + 1))]
        /\ cam'.frame = cam.frame + 1
    BY <1>15 DEF NextFrame, Written, Writing
  <2>2. eng'.awaddr = Here' /\ eng'.at = eng.at /\ eng'.beats = eng.beats
        /\ eng'.base = eng.base /\ eng'.araddr = eng.araddr
    BY <1>1, <2>1 DEF EngType, Here
  <2>3. cam.frame + 1 \in Nat
    BY <1>1
  <2>4. Here' \in Here'..(Here' + FrameBursts - 2)
    BY <1>2, <2>1, <2>3 DEF Here
  <2> QED BY <2>1, <2>2, <2>4 DEF Positions, Writing
<1>16. CASE Restart
  BY <1>1, <1>16 DEF Restart, Fetched, EngType, Positions, Here
<1>17. CASE ReadWord
  BY <1>17 DEF ReadWord, Positions, Here
<1> QED BY <1>4, <1>5, <1>6, <1>7, <1>8, <1>9, <1>10, <1>11, <1>12, <1>13, <1>14, <1>15, <1>16,
           <1>17 DEF Next, Engine

\* The words that are written and the words in the FIFO.
LEMMA SentFacts ==
    ASSUME TypeOK
    PROVE  /\ Sent \in Int /\ Len(wrfifo.words) \in Nat /\ cam.pos \in Nat
           /\ Sent = cam.pos - LostWords - Len(wrfifo.words)
           /\ cam.pos <= FrameWords
<1>1. cam.pos \in LostWords..FrameWords /\ Len(wrfifo.words) \in Nat
  BY DEF TypeOK
<1> QED BY <1>1, BurstFacts DEF Sent

\* A burst is started only before the last one of the frame: the reset of the FIFO has cost
\* the frame a word, so that its last burst never gets all of them.
LEMMA LastBurstNeverDue ==
    ASSUME TypeOK, NEW q \in Bursts, Sent = Before(q), WrReq
    PROVE  q < FrameBursts - 1
<1>1. Before(q) + LostWords + BurstWords <= Before(FrameBursts)
  <2>1. Len(wrfifo.words) >= BurstWords
    BY DEF WrReq
  <2>2. Sent = cam.pos - LostWords - Len(wrfifo.words) /\ cam.pos <= FrameWords
        /\ Len(wrfifo.words) \in Nat /\ cam.pos \in Nat
    BY SentFacts
  <2>3. LostWords \in Nat /\ BurstWords \in Nat /\ FrameWords = Before(FrameBursts)
    BY BurstFacts
  <2>4. Before(q) = cam.pos - LostWords - Len(wrfifo.words) /\ cam.pos <= Before(FrameBursts)
    BY <2>2, <2>3
  <2>5. cam.pos \in Nat /\ LostWords \in Nat /\ Before(q) = cam.pos - LostWords - Len(wrfifo.words)
    BY <2>2, <2>3, <2>4
  <2>6. Before(q) + LostWords + Len(wrfifo.words) = cam.pos
    BY <2>2, <2>5
  <2> QED BY <2>1, <2>2, <2>3, <2>4, <2>6
<1>2. Before(FrameBursts - 1 + 1) = Before(FrameBursts - 1) + BurstWords
      /\ Before(FrameBursts - 1) \in Nat /\ Before(q) \in Nat
  <2>1. FrameBursts - 1 \in Nat /\ q \in Nat
    BY BurstFacts DEF Bursts
  <2> QED BY <2>1, BeforeFacts
<1>3. FrameBursts - 1 + 1 = FrameBursts
  BY BurstFacts
<1>4. Before(q) < Before(FrameBursts - 1)
  BY <1>1, <1>2, <1>3, BurstFacts
<1>5. q # FrameBursts - 1
  BY <1>2, <1>4
<1> QED BY <1>5, BurstFacts DEF Bursts

\* A step that leaves the words of the frame where they are.
LEMMA WriterKept ==
    ASSUME TypeOK, WriterInv, Positions', UNCHANGED <<cam, wrfifo, mem>>,
           eng'.awaddr = eng.awaddr, InBurst' = InBurst, spoilt \subseteq spoilt',
           eng'.at \in Writing => eng.at \in Writing \/ (WrReq /\ InBurst = 0)
    PROVE  WriterInv'
<1>1. Sent' = Sent /\ Here' = Here /\ There' = There
  BY DEF Sent, Here, There
<1>2. InOrder'
  BY <1>1 DEF WriterInv, InOrder
<1>3. OtherBank'
  BY <1>1 DEF WriterInv, OtherBank
<1>4. PICK q \in Bursts : Stands(q)
  BY DEF WriterInv
<1>5. Sent = Before(q) + InBurst
  BY <1>4 DEF Stands
<1>6. eng'.at \in Writing => q < FrameBursts - 1
  <2>1. ASSUME WrReq, InBurst = 0 PROVE q < FrameBursts - 1
    <3>1. Sent = Before(q)
      BY <1>5, <2>1, BeforeFacts DEF Bursts
    <3> QED BY <2>1, <3>1, LastBurstNeverDue
  <2> QED BY <1>4, <2>1 DEF Stands
<1>7. <<"frame", cam.frame>> \notin spoilt' => <<"frame", cam.frame>> \notin spoilt
  OBVIOUS
<1>8. Stands(q)'
  BY <1>1, <1>4, <1>5, <1>6, <1>7 DEF Stands
<1> QED BY <1>2, <1>3, <1>8 DEF WriterInv

LEMMA StoredFacts ==
    ASSUME NEW f, NEW i \in Nat
    PROVE  Stored(f, i + 1 + 1) = <<f, LostWords + i + 1>>
<1>1. i + 1 + 1 # 1 /\ LostWords + (i + 1 + 1) - 1 = LostWords + i + 1
  BY BurstFacts
<1> QED BY <1>1 DEF Stored

\* A word goes from the FIFO to its place in the memory.
LEMMA WriterBeat ==
    ASSUME IInv, TypeOK, WriterInv, Positions', WrBeat
    PROVE  WriterInv'
<1>1. /\ wrfifo.words # <<>> /\ wrfifo.words \in Seq(Word)
      /\ wrfifo' = [words |-> Tail(wrfifo.words), dout |-> Head(wrfifo.words)]
      /\ mem' = [mem EXCEPT ![eng.base][eng.beats + 1] = wrfifo.dout]
      /\ eng.at = "wr_data" /\ eng.beats \in 0..(BurstWords - 1)
      /\ eng.beats + 1 \in 1..BurstWords
      /\ eng'.at = IF eng.beats = BurstWords - 1 THEN "wr_resp" ELSE "wr_data"
      /\ eng'.beats = eng.beats + 1
      /\ UNCHANGED <<cam, rdfifo, rd, spoilt, errors>>
      /\ eng'.awaddr = eng.awaddr
  BY BeatFacts DEF WriterInv
<1>2. /\ wrfifo'.words = Tail(wrfifo.words) /\ wrfifo'.dout = wrfifo.words[1]
      /\ Len(wrfifo'.words) = Len(wrfifo.words) - 1 /\ Len(wrfifo.words) \in Nat \ {0}
      /\ \A i \in 1..(Len(wrfifo.words) - 1) : wrfifo'.words[i] = wrfifo.words[i + 1]
  <2>1. Len(wrfifo.words) \in Nat \ {0}
    BY <1>1, EmptySeq
  <2>2. /\ Head(wrfifo.words) = wrfifo.words[1] /\ Len(Tail(wrfifo.words)) = Len(wrfifo.words) - 1
        /\ \A i \in 1..(Len(wrfifo.words) - 1) : Tail(wrfifo.words)[i] = wrfifo.words[i + 1]
    BY <1>1, HeadFacts
  <2>3. wrfifo'.words = Tail(wrfifo.words) /\ wrfifo'.dout = Head(wrfifo.words)
    BY <1>1
  <2> QED BY <2>1, <2>2, <2>3
<1>3. PICK n \in Nat : n = Sent
  BY SentFacts DEF WriterInv, InOrder
<1>4. Sent' = n + 1
  <2>1. Sent' = cam.pos - LostWords - (Len(wrfifo.words) - 1)
    BY <1>1, <1>2 DEF Sent
  <2>2. n = cam.pos - LostWords - Len(wrfifo.words) /\ cam.pos \in Nat
    BY <1>3, SentFacts
  <2>3. LostWords \in Nat /\ Len(wrfifo.words) \in Nat
    BY SentFacts, BurstFacts
  <2> QED BY <2>1, <2>2, <2>3
<1>5. /\ \A i \in 1..Len(wrfifo.words) : wrfifo.words[i] = <<cam.frame, LostWords + n + i>>
      /\ wrfifo.dout = Stored(cam.frame, n + 1)
  BY <1>3 DEF WriterInv, InOrder
<1>6. InOrder'
  <2>1. Sent' >= 0
    BY <1>4
  <2>2. ASSUME NEW i \in 1..(Len(wrfifo.words) - 1)
        PROVE  wrfifo'.words[i] = <<cam.frame, LostWords + (n + 1) + i>>
    <3>1. i + 1 \in 1..Len(wrfifo.words) /\ LostWords + n + (i + 1) = LostWords + (n + 1) + i
      <4>1. Len(wrfifo.words) \in Nat /\ i \in Nat /\ LostWords \in Nat
        BY <1>2, BurstFacts
      <4>2. i + 1 \in 1..Len(wrfifo.words)
        BY <4>1
      <4> QED BY <4>1, <4>2
    <3> QED BY <1>2, <1>5, <3>1
  <2>3. wrfifo'.dout = Stored(cam.frame, n + 1 + 1)
    <3>1. 1 \in 1..Len(wrfifo.words)
      BY <1>2
    <3>2. wrfifo'.dout = <<cam.frame, LostWords + n + 1>>
      BY <1>2, <1>5, <3>1
    <3> QED BY <3>2, StoredFacts
  <2> QED BY <1>1, <1>2, <1>4, <2>1, <2>2, <2>3 DEF InOrder
<1>7. PICK q \in Bursts : Stands(q)
  BY DEF WriterInv
<1>8. /\ n = Before(q) + eng.beats /\ q < FrameBursts - 1 /\ q \in Nat
      /\ InBurst = eng.beats
  <2>1. InBurst = eng.beats
    BY <1>1 DEF InBurst
  <2>2. eng.at \in Writing
    BY <1>1 DEF Writing
  <2> QED BY <1>3, <1>7, <2>1, <2>2 DEF Stands, Bursts
<1>9. InBurst' = eng.beats + 1
  <2>1. CASE eng.beats = BurstWords - 1
    BY <1>1, <2>1, BurstFacts DEF InBurst
  <2>2. CASE eng.beats # BurstWords - 1
    BY <1>1, <2>2 DEF InBurst
  <2> QED BY <2>1, <2>2
<1>10. eng.base = eng.awaddr /\ eng.awaddr \in Here..(Here + FrameBursts - 2)
       /\ eng.base \in Places
  BY <1>1 DEF WriterInv, Positions, TypeOK, EngType
<1>11. Here' = Here /\ There' = There
  BY <1>1 DEF Here, There
<1>12. \A a \in Places, i \in 1..BurstWords :
           mem'[a][i] = IF a = eng.base /\ i = eng.beats + 1 THEN wrfifo.dout ELSE mem[a][i]
  <2>1. mem \in [Places -> [1..BurstWords -> Word]]
    BY DEF TypeOK
  <2> QED BY <1>1, <2>1
<1>13. OtherBank'
  <2>1. ASSUME NEW k \in 0..(FrameBursts - 2), NEW i \in 1..BurstWords
        PROVE  mem'[There + k][i] = mem[There + k][i]
    <3>1. k \in 0..(FrameBursts - 1)
      BY BurstFacts
    <3>2. There + k \in Places
      BY <3>1, BankRange
    <3>3. Here \in {0, FrameBursts} /\ There \in {0, FrameBursts} /\ Here # There
      BY BankRange
    <3>4. There + k # eng.base
      BY <1>10, <3>3, BurstFacts
    <3> QED BY <1>12, <3>2, <3>4
  <2>2. OtherBank
    BY DEF WriterInv
  <2> QED BY <1>1, <1>11, <2>1, <2>2 DEF OtherBank
<1>14. Stands(q)'
  <2>1. Sent' = Before(q) + InBurst'
    BY <1>1, <1>4, <1>8, <1>9, BeforeFacts
  <2>2. ASSUME <<"frame", cam.frame>> \notin spoilt
        PROVE  /\ eng.awaddr = Here + (IF q = FrameBursts - 1 THEN 0 ELSE q)
               /\ \A k \in 0..q, i \in 1..BurstWords :
                      k < q \/ i <= eng.beats + 1 =>
                          mem'[Here + k][i] = Stored(cam.frame, Before(k) + i)
    <3>1. /\ eng.awaddr = Here + (IF q = FrameBursts - 1 THEN 0 ELSE q)
          /\ \A k \in 0..q, i \in 1..BurstWords :
                 k < q \/ i <= eng.beats =>
                     mem[Here + k][i] = Stored(cam.frame, Before(k) + i)
      BY <1>7, <1>8, <2>2 DEF Stands
    <3>2. eng.base = Here + q
      BY <1>8, <1>10, <3>1
    <3>3. ASSUME NEW k \in 0..q, NEW i \in 1..BurstWords, k < q \/ i <= eng.beats + 1
          PROVE  mem'[Here + k][i] = Stored(cam.frame, Before(k) + i)
      <4>1. Here + k \in Places
        <5>1. k \in 0..(FrameBursts - 1)
          BY <1>8, BurstFacts
        <5> QED BY <5>1, BankRange
      <4>2. Here \in Nat
        BY BankRange, BurstFacts
      <4>3. CASE k = q /\ i = eng.beats + 1
        <5>1. mem'[Here + k][i] = Stored(cam.frame, n + 1)
          BY <1>5, <1>12, <3>2, <4>1, <4>3
        <5>2. n + 1 = Before(k) + i
          <6>1. Before(q) \in Nat
            BY <1>8, BeforeFacts
          <6> QED BY <1>1, <1>8, <4>3, <6>1
        <5> QED BY <5>1, <5>2
      <4>4. CASE ~(k = q /\ i = eng.beats + 1)
        <5>1. ~(Here + k = eng.base /\ i = eng.beats + 1)
          BY <1>8, <3>2, <4>2, <4>4
        <5>2. mem'[Here + k][i] = mem[Here + k][i]
          BY <1>12, <4>1, <5>1
        <5>3. k < q \/ i <= eng.beats
          BY <1>1, <1>8, <3>3, <4>4
        <5> QED BY <3>1, <5>2, <5>3
      <4> QED BY <4>3, <4>4
    <3> QED BY <3>1, <3>3
  <2> QED BY <1>1, <1>8, <1>9, <1>11, <2>1, <2>2 DEF Stands
<1> QED BY <1>6, <1>7, <1>13, <1>14 DEF WriterInv

\* A burst that has ended counts as written, also when the MIG refused it.
LEMMA WriterResp ==
    ASSUME TypeOK, WriterInv, Positions', WrResp \/ WrError
    PROVE  WriterInv'
<1>1. /\ UNCHANGED <<cam, wrfifo, mem>> /\ eng.at = "wr_resp" /\ eng'.at \notin Writing
      /\ spoilt \subseteq spoilt' /\ eng'.at \notin {"wr_data", "wr_resp"}
  <2>1. CASE WrResp
    BY <2>1 DEF WrResp, Writing, TypeOK, EngType
  <2>2. CASE WrError
    BY <2>2 DEF WrError, Writing, TypeOK, EngType
  <2> QED BY <2>1, <2>2
<1>2. Sent' = Sent /\ Here' = Here /\ There' = There /\ InBurst' = 0 /\ InBurst = BurstWords
  BY <1>1 DEF Sent, Here, There, InBurst
<1>3. InOrder'
  BY <1>1, <1>2 DEF WriterInv, InOrder
<1>4. OtherBank'
  BY <1>1, <1>2 DEF WriterInv, OtherBank
<1>5. PICK q \in Bursts : Stands(q)
  BY DEF WriterInv
<1>6. q < FrameBursts - 1 /\ q \in Nat /\ q \in 0..(FrameBursts - 2) /\ q + 1 \in Bursts
  <2>1. q < FrameBursts - 1
    BY <1>1, <1>5 DEF Stands, Writing
  <2> QED BY <2>1, BurstFacts DEF Bursts
<1>7. Sent' = Before(q + 1) + InBurst'
  <2>1. Sent = Before(q) + BurstWords
    BY <1>2, <1>5 DEF Stands
  <2>2. Before(q + 1) = Before(q) + BurstWords /\ Before(q + 1) \in Nat
    BY <1>6, BeforeFacts
  <2> QED BY <1>2, <2>1, <2>2
<1>8. ASSUME <<"frame", cam.frame>> \notin spoilt'
      PROVE  /\ eng'.awaddr = Here + (IF q + 1 = FrameBursts - 1 THEN 0 ELSE q + 1)
             /\ \A k \in 0..(q + 1), i \in 1..BurstWords :
                    k < q + 1 \/ i <= 0 => mem[Here + k][i] = Stored(cam.frame, Before(k) + i)
  <2>1. /\ eng.awaddr = Here + (IF q = FrameBursts - 1 THEN 0 ELSE q)
        /\ \A k \in 0..q, i \in 1..BurstWords :
               k < q \/ i <= BurstWords =>
                   mem[Here + k][i] = Stored(cam.frame, Before(k) + i)
    BY <1>1, <1>2, <1>5, <1>8 DEF Stands
  <2>2. ~WrError
    BY <1>8 DEF WrError
  <2>3. eng'.awaddr = Advanced(eng.awaddr, Bank(cam.frame))
    BY <2>2 DEF WrResp, TypeOK, EngType
  <2>4. eng.awaddr = Here + q
    BY <1>6, <2>1
  <2>5. eng.awaddr \in Int /\ eng.awaddr \in Here..(Here + FrameBursts - 2) /\ Here \in Nat
    BY BankRange, BurstFacts DEF WriterInv, Positions
  <2>6. eng'.awaddr = Here + (IF q + 1 = FrameBursts - 1 THEN 0 ELSE q + 1)
    BY <1>6, <2>3, <2>4, <2>5, AdvancedFacts DEF Here
  <2>7. ASSUME NEW k \in 0..(q + 1), NEW i \in 1..BurstWords, k < q + 1 \/ i <= 0
        PROVE  mem[Here + k][i] = Stored(cam.frame, Before(k) + i)
    <3>1. k \in 0..q /\ i <= BurstWords
      BY <1>6, <2>7, BurstFacts
    <3> QED BY <2>1, <3>1
  <2> QED BY <2>6, <2>7
<1>9. Stands(q + 1)'
  BY <1>1, <1>2, <1>7, <1>8 DEF Stands
<1> QED BY <1>3, <1>4, <1>6, <1>9 DEF WriterInv

\* A word of the camera goes behind the others.
LEMMA WriterWord ==
    ASSUME TypeOK, WriterInv, Positions', CameraWord
    PROVE  WriterInv'
<1> DEFINE word == <<cam.frame, cam.pos + 1>>
<1>1. /\ wrfifo' = [wrfifo EXCEPT !.words = Append(@, word)]
      /\ cam' = [cam EXCEPT !.pos = @ + 1]
      /\ UNCHANGED <<eng, mem, spoilt>>
  BY DEF CameraWord
<1>2. /\ word \in Word /\ wrfifo.words \in Seq(Word)
      /\ cam'.frame = cam.frame /\ cam'.pos = cam.pos + 1 /\ wrfifo'.dout = wrfifo.dout
      /\ wrfifo'.words = Append(wrfifo.words, word)
  <2>1. word \in Word
    BY BurstFacts DEF TypeOK, Word
  <2>2. cam \in [frame : Nat \ {0}, pos : LostWords..FrameWords]
        /\ wrfifo \in [words : Seq(Word), dout : Word]
    BY DEF TypeOK
  <2> HIDE DEF word
  <2> QED BY <1>1, <2>1, <2>2
<1>3. PICK l \in Nat : l = Len(wrfifo.words)
  BY SentFacts
<1>4. /\ Len(wrfifo'.words) = l + 1 /\ wrfifo'.words[l + 1] = word
      /\ \A i \in 1..l : wrfifo'.words[i] = wrfifo.words[i]
  <2> HIDE DEF word
  <2> QED BY <1>2, <1>3, AppendFacts
<1>5. Sent' = Sent /\ Here' = Here /\ There' = There /\ InBurst' = InBurst
  <2>1. Sent' = (cam.pos + 1) - LostWords - (l + 1)
    BY <1>2, <1>4 DEF Sent
  <2>2. Sent = cam.pos - LostWords - l /\ cam.pos \in Nat
    BY <1>3, SentFacts
  <2>3. Sent' = Sent
    BY <2>1, <2>2, BurstFacts
  <2> QED BY <1>1, <1>2, <2>3 DEF Here, There, InBurst
<1>6. PICK n \in Nat : n = Sent
  BY SentFacts DEF WriterInv, InOrder
<1>7. /\ \A i \in 1..l : wrfifo.words[i] = <<cam.frame, LostWords + n + i>>
      /\ wrfifo.dout = Stored(cam.frame, n + 1)
  BY <1>3, <1>6 DEF WriterInv, InOrder
<1>8. ASSUME NEW i \in 1..(l + 1)
      PROVE  wrfifo'.words[i] = <<cam.frame, LostWords + n + i>>
  <2>1. CASE i \in 1..l
    BY <1>4, <1>7, <2>1
  <2>2. CASE i \notin 1..l
    <3>1. i = l + 1
      BY <2>2
    <3>2. cam.pos + 1 = LostWords + n + i
      <4>1. n = cam.pos - LostWords - l /\ cam.pos \in Nat /\ LostWords \in Nat
        BY <1>3, <1>6, SentFacts, BurstFacts
      <4> QED BY <3>1, <4>1
    <3> QED BY <1>4, <3>1, <3>2
  <2> QED BY <2>1, <2>2
<1>9. InOrder'
  <2>1. Sent' = n /\ n >= 0
    BY <1>5, <1>6
  <2> QED BY <1>2, <1>4, <1>7, <1>8, <2>1 DEF InOrder
<1>10. OtherBank'
  BY <1>1, <1>2, <1>5 DEF WriterInv, OtherBank
<1>11. PICK q \in Bursts : Stands(q)
  BY DEF WriterInv
<1>12. Stands(q)'
  BY <1>1, <1>2, <1>5, <1>11 DEF Stands
<1> QED BY <1>9, <1>10, <1>12 DEF WriterInv

\* When the next frame begins, all bursts of the frame but the last one are written.
LEMMA WriterFrame ==
    ASSUME TypeOK, WriterInv, Positions', NextFrame
    PROVE  WriterInv'
<1>1. /\ cam.pos = FrameWords /\ ~WrReq /\ eng.at \notin Writing
      /\ cam' = [frame |-> cam.frame + 1, pos |-> LostWords]
      /\ wrfifo' = [words |-> <<>>, dout |-> Blank]
      /\ eng' = [eng EXCEPT !.awaddr = Begin(Bank(cam.frame + 1))]
      /\ UNCHANGED <<mem, spoilt>>
  BY DEF NextFrame, Written, Writing
<1>2. /\ cam'.frame = cam.frame + 1 /\ cam'.pos = LostWords
      /\ wrfifo'.words = <<>> /\ wrfifo'.dout = Blank
  BY <1>1
<1>3. eng'.at = eng.at /\ eng'.awaddr = Begin(Bank(cam.frame + 1))
  BY <1>1 DEF TypeOK, EngType
<1>4. InBurst = 0 /\ InBurst' = 0
  BY <1>1, <1>3 DEF InBurst, Writing
<1>5. cam.frame \in Nat \ {0} /\ cam.frame + 1 - 1 = cam.frame
  BY DEF TypeOK
<1>6. Here' = Begin(Bank(cam.frame + 1)) /\ There' = Here
  BY <1>2, <1>5 DEF Here, There
<1>7. Len(wrfifo'.words) = 0
  BY <1>2, EmptySeq
<1>8. Sent' = 0
  <2>1. Sent' = LostWords - LostWords - 0
    BY <1>2, <1>7 DEF Sent
  <2> QED BY <2>1, BurstFacts
<1>9. InOrder'
  <2>1. Blank = Stored(cam.frame + 1, 0 + 1)
    BY DEF Stored
  <2> QED BY <1>2, <1>7, <1>8, <2>1 DEF InOrder
<1>10. PICK q \in Bursts : Stands(q)
  BY DEF WriterInv
<1>11. q = FrameBursts - 1
  <2>1. /\ Sent = Before(q) /\ q \in Nat /\ q <= FrameBursts - 1 /\ Before(q) \in Nat
    <3>1. q \in Nat /\ q <= FrameBursts - 1
      BY <1>10, BurstFacts DEF Bursts
    <3>2. Before(q) \in Nat
      BY <3>1, BeforeFacts
    <3> QED BY <1>4, <1>10, <3>1, <3>2 DEF Stands
  <2>2. Before(q) + LostWords + Len(wrfifo.words) = Before(FrameBursts)
        /\ Len(wrfifo.words) \in Nat /\ Len(wrfifo.words) < BurstWords
    <3>1. ~(Len(wrfifo.words) >= BurstWords)
      BY <1>1 DEF WrReq
    <3>2. Before(q) = cam.pos - LostWords - Len(wrfifo.words) /\ Len(wrfifo.words) \in Nat
          /\ cam.pos = Before(FrameBursts) /\ cam.pos \in Nat
      BY <1>1, <2>1, SentFacts, BurstFacts
    <3>3. LostWords \in Nat /\ BurstWords \in Nat
      BY BurstFacts
    <3> QED BY <3>1, <3>2, <3>3
  <2>3. ASSUME q < FrameBursts - 1 PROVE FALSE
    <3>1. q + 1 < FrameBursts /\ q + 1 \in Nat
      BY <2>1, <2>3, BurstFacts
    <3>2. Before(q + 1) = Before(q) + BurstWords /\ Before(q + 1) + BurstWords <= Before(FrameBursts)
      BY <2>1, <3>1, BeforeFacts, BurstFacts
    <3>3. Before(q) \in Nat /\ BurstWords \in Nat /\ LostWords \in Nat /\ LostWords <= BurstWords
      BY <2>1, BurstFacts
    <3>4. Before(q) + BurstWords + BurstWords <= Before(q) + LostWords + Len(wrfifo.words)
      BY <2>2, <3>2
    <3> QED BY <2>2, <3>3, <3>4
  <2> QED BY <2>1, <2>3, BurstFacts
<1>12. OtherBank'
  <2>1. ASSUME <<"frame", cam.frame>> \notin spoilt,
               NEW k \in 0..(FrameBursts - 2), NEW i \in 1..BurstWords
        PROVE  mem[Here + k][i] = Stored(cam.frame, Before(k) + i)
    <3>1. k \in 0..q /\ k < q
      BY <1>11, BurstFacts
    <3> QED BY <1>10, <2>1, <3>1 DEF Stands
  <2> QED BY <1>1, <1>2, <1>5, <1>6, <2>1 DEF OtherBank
<1>13. Stands(0)'
  <2>1. Sent' = Before(0) + InBurst'
    BY <1>4, <1>8, BeforeFacts
  <2>2. eng'.awaddr = Here' + (IF 0 = FrameBursts - 1 THEN 0 ELSE 0)
    <3>1. Begin(Bank(cam.frame + 1)) \in Int
      BY <1>5, BankFacts, BurstFacts
    <3> QED BY <1>3, <1>6, <3>1
  <2>3. \A k \in 0..0, i \in 1..BurstWords : ~(k < 0 \/ i <= 0)
    BY BurstFacts
  <2>4. eng'.at \notin Writing
    BY <1>1, <1>3
  <2> QED BY <1>4, <2>1, <2>2, <2>3, <2>4 DEF Stands
<1>14. 0 \in Bursts
  BY BurstFacts DEF Bursts
<1> QED BY <1>9, <1>12, <1>13, <1>14 DEF WriterInv

LEMMA WriterStep ==
    ASSUME IInv, TypeOK, WriterInv, Next
    PROVE  WriterInv'
<1>1. Positions'
  BY PositionsStep DEF WriterInv
<1>2. eng \in EngType /\ Positions /\ cam \in [frame : Nat \ {0}, pos : LostWords..FrameWords]
  BY DEF TypeOK, WriterInv
<1>3. CASE Arb
  <2>1. /\ eng.at = "arb" /\ UNCHANGED <<cam, wrfifo, mem, spoilt>>
        /\ eng' = [eng EXCEPT !.poll = ~@, !.beats = 0,
                              !.at = IF WrReq /\ ~eng.poll THEN "wr_addr"
                                     ELSE IF RdReq /\ eng.poll THEN "rd_addr" ELSE "arb"]
    BY <1>3 DEF Arb
  <2>2. /\ eng'.awaddr = eng.awaddr /\ eng'.at \in {"wr_addr", "rd_addr", "arb"}
        /\ eng'.at = "wr_addr" => WrReq
    BY <1>2, <2>1 DEF EngType
  <2>3. InBurst = 0 /\ InBurst' = 0
    BY <2>1, <2>2 DEF InBurst
  <2>4. eng'.at \in Writing => WrReq
    BY <2>2 DEF Writing
  <2> QED BY <1>1, <2>1, <2>2, <2>3, <2>4, WriterKept
<1>4. CASE Ready \/ RdAddr
  <2>1. /\ UNCHANGED <<cam, wrfifo, mem, spoilt>> /\ eng'.awaddr = eng.awaddr
        /\ eng.at \notin Writing /\ eng'.at \notin Writing
    BY <1>2, <1>4 DEF Ready, RdAddr, EngType, Writing
  <2>2. InBurst = 0 /\ InBurst' = 0
    BY <2>1 DEF InBurst, Writing
  <2> QED BY <1>1, <2>1, <2>2, WriterKept
<1>5. CASE WrAddr
  <2>1. /\ UNCHANGED <<cam, wrfifo, mem, spoilt>> /\ eng'.awaddr = eng.awaddr
        /\ eng.at = "wr_addr" /\ eng'.at = "wr_data" /\ eng'.beats = eng.beats
    BY <1>2, <1>5 DEF WrAddr, EngType
  <2>2. eng.beats = 0
    BY <1>2, <2>1 DEF Positions
  <2>3. InBurst = 0 /\ InBurst' = 0 /\ eng.at \in Writing
    BY <2>1, <2>2 DEF InBurst, Writing
  <2> QED BY <1>1, <2>1, <2>3, WriterKept
<1>6. CASE WrValid
  <2>1. /\ UNCHANGED <<cam, wrfifo, mem, spoilt>> /\ eng'.awaddr = eng.awaddr
        /\ eng'.at = eng.at /\ eng'.beats = eng.beats
    BY <1>2, <1>6 DEF WrValid, EngType
  <2>2. InBurst' = InBurst
    BY <2>1 DEF InBurst
  <2> QED BY <1>1, <2>1, <2>2, WriterKept
<1>7. CASE WrBeat
  BY <1>1, <1>7, WriterBeat
<1>8. CASE WrResp \/ WrError
  BY <1>1, <1>8, WriterResp
<1>9. CASE RdBeat \/ RdError
  <2>1. /\ UNCHANGED <<cam, wrfifo, mem>> /\ eng'.awaddr = eng.awaddr
        /\ eng.at = "rd_resp" /\ eng'.at \in {"rd_resp", "arb", "idle"}
        /\ spoilt \subseteq spoilt'
    <3>1. CASE RdBeat
      <4>1. /\ UNCHANGED <<cam, wrfifo, mem, spoilt>> /\ eng.at = "rd_resp"
            /\ eng' = IF eng.beats = BurstWords - 1
                      THEN [eng EXCEPT !.at = "arb", !.araddr = Advanced(@, Bank(rd.frame))]
                      ELSE [eng EXCEPT !.beats = @ + 1]
        BY <3>1 DEF RdBeat, RdTake
      <4>2. eng'.awaddr = eng.awaddr /\ eng'.at \in {"rd_resp", "arb", "idle"}
        BY <1>2, <4>1 DEF EngType
      <4> QED BY <4>1, <4>2
    <3>2. CASE RdError
      BY <1>2, <3>2 DEF RdError, RdTake, EngType
    <3> QED BY <1>9, <3>1, <3>2
  <2>2. InBurst = 0 /\ InBurst' = 0 /\ eng'.at \notin Writing
    BY <2>1 DEF InBurst, Writing
  <2> QED BY <1>1, <2>1, <2>2, WriterKept
<1>10. CASE CameraWord
  BY <1>1, <1>10, WriterWord
<1>11. CASE NextFrame
  BY <1>1, <1>11, WriterFrame
<1>12. CASE Restart \/ ReadWord
  <2>1. /\ UNCHANGED <<cam, wrfifo, mem, spoilt>> /\ eng'.awaddr = eng.awaddr
        /\ eng'.at = eng.at /\ eng'.beats = eng.beats
    BY <1>2, <1>12 DEF Restart, ReadWord, EngType
  <2>2. InBurst' = InBurst
    BY <2>1 DEF InBurst
  <2> QED BY <1>1, <2>1, <2>2, WriterKept
<1> QED BY <1>3, <1>4, <1>5, <1>6, <1>7, <1>8, <1>9, <1>10, <1>11, <1>12 DEF Next, Engine

-----------------------------------------------------------------------------
(***************************************************************************)
(* The reader.                                                             *)
(***************************************************************************)
\* A step that leaves the words of the preview where they are.
LEMMA ReaderKept ==
    ASSUME ReaderInv, UNCHANGED <<rdfifo, rd>>, cam'.frame = cam.frame,
           eng'.araddr = eng.araddr, OfBurst' = OfBurst, spoilt \subseteq spoilt'
    PROVE  ReaderInv'
<1>1. There' = There /\ (Intact' => Intact)
  BY DEF There, Intact
<1>2. Fetches'
  BY <1>1 DEF ReaderInv, Fetches
<1>3. PICK p \in Nat : Brought(p)
  BY DEF ReaderInv
<1>4. Brought(p)'
  BY <1>1, <1>3 DEF Brought
<1> QED BY <1>2, <1>4 DEF ReaderInv

\* Where the words of a burst of the preview come from.
LEMMA ShownFacts ==
    ASSUME NEW f, NEW p \in Bursts, NEW i \in 1..BurstWords
    PROVE  Shown(f, Before(p) + i)
             = Stored(f, Before(IF p = FrameBursts - 1 THEN 0 ELSE p) + i)
<1>1. /\ p \in Nat /\ p <= FrameBursts - 1 /\ FrameBursts - 1 \in Nat
      /\ FrameBursts - 1 + 1 = FrameBursts
  BY BurstFacts DEF Bursts
<1>2. /\ Before(FrameBursts) = Before(FrameBursts - 1) + BurstWords
      /\ Before(FrameBursts - 1) \in Nat /\ Before(p) \in Nat /\ Before(0) = 0
  BY <1>1, BeforeFacts
<1>3. FrameWords = Before(FrameBursts - 1) + BurstWords /\ BurstWords \in Nat
  BY <1>2, BurstFacts
<1>4. CASE p = FrameBursts - 1
  <2>1. Before(p) + i > FrameWords - BurstWords
        /\ Before(p) + i - FrameWords + BurstWords = Before(0) + i
    BY <1>2, <1>3, <1>4
  <2>2. PICK j \in Nat : j = Before(p) + i
    BY <1>2
  <2>3. j > FrameWords - BurstWords /\ j - FrameWords + BurstWords = Before(0) + i
    BY <1>2, <1>3, <1>4, <2>2
  <2>4. Shown(f, j) = Stored(f, Before(0) + i)
    BY <2>3, Zenon DEF Shown
  <2> QED BY <1>4, <2>2, <2>4
<1>5. CASE p # FrameBursts - 1
  <2>1. Before(p) + BurstWords <= Before(FrameBursts - 1)
    BY <1>1, <1>5, BeforeFacts
  <2>2. ~(Before(p) + i > FrameWords - BurstWords)
    BY <1>2, <1>3, <2>1
  <2> QED BY <1>5, <2>2 DEF Shown
<1> QED BY <1>4, <1>5

\* A preview that has not all its words yet is not past the last burst.
LEMMA StillBringing ==
    ASSUME NEW p \in Nat, NEW i \in 1..BurstWords, Before(p) + i <= FrameWords
    PROVE  p \in Bursts
<1>1. Before(p) \in Nat /\ Before(FrameBursts) \in Nat /\ FrameWords = Before(FrameBursts)
  BY BurstFacts, BeforeFacts
<1>2. p # FrameBursts
  BY <1>1
<1>3. ~(FrameBursts < p)
  <2>1. FrameBursts < p => Before(FrameBursts) + BurstWords <= Before(p)
    BY BurstFacts, BeforeFacts
  <2> QED BY <1>1, <2>1, BurstFacts
<1> QED BY <1>2, <1>3, BurstFacts DEF Bursts

\* A word of the bank that is not being written comes into the read FIFO.
LEMMA ReaderTake ==
    ASSUME TypeOK, Positions, OtherBank, Fetches, rd.on, NEW p \in Nat, Brought(p), RdTake
    PROVE  /\ Len(rd.got) + Len(rdfifo') = Before(p) + eng.beats + 1
           /\ Intact => \A j \in 1..Len(rdfifo') :
                           Len(rd.got) + j <= FrameWords =>
                               rdfifo'[j] = Shown(rd.frame, Len(rd.got) + j)
<1>1. /\ eng.at = "rd_resp" /\ eng.beats \in 0..(BurstWords - 1)
      /\ eng.beats + 1 \in 1..BurstWords
      /\ mem[eng.base][eng.beats + 1] \in Word
      /\ rdfifo' = Append(rdfifo, mem[eng.base][eng.beats + 1])
  BY TakeFacts
<1>2. PICK l \in Nat, g \in Nat : l = Len(rdfifo) /\ g = Len(rd.got)
  BY DEF TypeOK
<1>3. /\ Len(rdfifo') = l + 1 /\ rdfifo'[l + 1] = mem[eng.base][eng.beats + 1]
      /\ \A j \in 1..l : rdfifo'[j] = rdfifo[j]
  <2> DEFINE word == mem[eng.base][eng.beats + 1]
  <2>1. word \in Word /\ rdfifo \in Seq(Word) /\ rdfifo' = Append(rdfifo, word)
    BY <1>1 DEF TypeOK
  <2> HIDE DEF word
  <2>2. /\ Len(rdfifo') = l + 1 /\ rdfifo'[l + 1] = word
        /\ \A j \in 1..l : rdfifo'[j] = rdfifo[j]
    BY <1>2, <2>1, AppendFacts
  <2> QED BY <2>2 DEF word
<1>4. g + l = Before(p) + eng.beats /\ Before(p) \in Nat
  <2>1. OfBurst = eng.beats
    BY <1>1 DEF OfBurst
  <2> QED BY <1>2, <2>1, BeforeFacts DEF Brought
<1>5. g + (l + 1) = Before(p) + eng.beats + 1 /\ g + (l + 1) = Before(p) + (eng.beats + 1)
  BY <1>1, <1>4
<1>6. ASSUME Intact, g + (l + 1) <= FrameWords
      PROVE  mem[eng.base][eng.beats + 1] = Shown(rd.frame, g + (l + 1))
  <2>1. p \in Bursts
    BY <1>1, <1>5, <1>6, StillBringing
  <2>2. eng.base = There + (IF p = FrameBursts - 1 THEN 0 ELSE p)
    <3>1. p < FrameBursts
      BY <2>1, BurstFacts DEF Bursts
    <3>2. eng.base = eng.araddr
      BY <1>1 DEF Positions
    <3> QED BY <1>6, <3>1, <3>2 DEF Brought
  <2>3. PICK k \in 0..(FrameBursts - 2) : k = IF p = FrameBursts - 1 THEN 0 ELSE p
    BY <2>1, BurstFacts DEF Bursts
  <2>4. rd.frame = cam.frame - 1 /\ cam.frame > 1 /\ <<"frame", rd.frame>> \notin spoilt
    BY <1>6 DEF Fetches, Intact
  <2>5. mem[There + k][eng.beats + 1] = Stored(rd.frame, Before(k) + (eng.beats + 1))
    BY <1>1, <2>4 DEF OtherBank
  <2>6. Shown(rd.frame, Before(p) + (eng.beats + 1))
          = Stored(rd.frame, Before(k) + (eng.beats + 1))
    BY <1>1, <2>1, <2>3, ShownFacts
  <2> QED BY <1>5, <2>2, <2>3, <2>5, <2>6
<1>7. ASSUME Intact, NEW j \in 1..(l + 1), g + j <= FrameWords
      PROVE  rdfifo'[j] = Shown(rd.frame, g + j)
  <2>1. CASE j \in 1..l
    BY <1>2, <1>3, <1>7, <2>1 DEF Brought
  <2>2. CASE j \notin 1..l
    <3>1. j = l + 1
      BY <2>2
    <3> QED BY <1>3, <1>6, <1>7, <3>1
  <2> QED BY <2>1, <2>2
<1> QED BY <1>2, <1>3, <1>5, <1>7

LEMMA ReaderBeat ==
    ASSUME TypeOK, Positions, OtherBank, ReaderInv, RdBeat \/ RdError
    PROVE  ReaderInv'
<1>1. /\ RdTake /\ UNCHANGED <<cam, rd>> /\ spoilt \subseteq spoilt'
      /\ eng.at = "rd_resp" /\ eng.beats \in 0..(BurstWords - 1)
  BY TakeFacts DEF RdBeat, RdError, RdTake
<1>2. There' = There /\ (Intact' => Intact)
  BY <1>1 DEF There, Intact
<1>3. Fetches'
  BY <1>1, <1>2 DEF ReaderInv, Fetches
<1>4. PICK p \in Nat : Brought(p)
  BY DEF ReaderInv
<1>5. CASE ~rd.on
  <2>1. Brought(p)'
    BY <1>1, <1>5 DEF Brought
  <2> QED BY <1>3, <2>1 DEF ReaderInv
<1>6. CASE rd.on
  <2>1. /\ Len(rd.got) + Len(rdfifo') = Before(p) + eng.beats + 1
        /\ Intact => \A j \in 1..Len(rdfifo') :
                        Len(rd.got) + j <= FrameWords =>
                            rdfifo'[j] = Shown(rd.frame, Len(rd.got) + j)
    BY <1>1, <1>4, <1>6, ReaderTake DEF ReaderInv
  <2>2. Before(p) \in Nat /\ Before(p + 1) = Before(p) + BurstWords
    BY BeforeFacts
  <2>3. CASE RdBeat /\ eng.beats # BurstWords - 1
    <3>1. eng'.at = "rd_resp" /\ eng'.beats = eng.beats + 1 /\ eng'.araddr = eng.araddr
      BY <1>1, <2>3 DEF RdBeat, TypeOK, EngType
    <3>2. Len(rd.got) + Len(rdfifo') = Before(p) + OfBurst'
      <4>1. OfBurst' = eng.beats + 1
        BY <3>1 DEF OfBurst
      <4> QED BY <1>1, <2>1, <2>2, <4>1
    <3>3. Brought(p)'
      BY <1>1, <1>2, <1>4, <1>6, <2>1, <3>1, <3>2 DEF Brought
    <3> QED BY <1>3, <3>3 DEF ReaderInv
  <2>4. CASE ~(RdBeat /\ eng.beats # BurstWords - 1)
    <3>1. eng'.at # "rd_resp" /\ eng.beats = BurstWords - 1
      BY <2>4 DEF RdBeat, RdError, TypeOK, EngType
    <3>2. Len(rd.got) + Len(rdfifo') = Before(p + 1) + OfBurst'
      <4>1. OfBurst' = 0
        BY <3>1 DEF OfBurst
      <4> QED BY <2>1, <2>2, <3>1, <4>1, BurstFacts
    <3>3. ASSUME Intact', p + 1 < FrameBursts
          PROVE  eng'.araddr = There + (IF p + 1 = FrameBursts - 1 THEN 0 ELSE p + 1)
      <4>1. ~RdError
        BY <1>1, <3>3 DEF RdError, Intact
      <4>2. eng'.araddr = Advanced(eng.araddr, Bank(rd.frame))
        BY <3>1, <4>1 DEF RdBeat, TypeOK, EngType
      <4>3. p \in 0..(FrameBursts - 2) /\ p < FrameBursts /\ p # FrameBursts - 1
        BY <3>3, BurstFacts
      <4>4. eng.araddr = There + (IF p = FrameBursts - 1 THEN 0 ELSE p)
        BY <1>2, <1>4, <1>6, <3>3, <4>3 DEF Brought
      <4>5. eng.araddr = There + p
        BY <4>3, <4>4
      <4>6. There = Begin(Bank(rd.frame))
        BY <1>6 DEF ReaderInv, Fetches, There
      <4>7. There \in Nat
        BY BankRange, BurstFacts
      <4>8. eng.araddr \in There..(There + FrameBursts - 2)
        BY <4>3, <4>5, <4>7, BurstFacts
      <4> QED BY <4>2, <4>3, <4>5, <4>6, <4>7, <4>8, AdvancedFacts
    <3>4. Brought(p + 1)'
      BY <1>1, <1>2, <2>1, <3>2, <3>3 DEF Brought
    <3> QED BY <1>3, <3>4 DEF ReaderInv
  <2> QED BY <2>3, <2>4
<1> QED BY <1>5, <1>6

\* A preview begins with an empty FIFO and the first burst of the bank.
LEMMA ReaderRestart ==
    ASSUME TypeOK, ReaderInv, Restart
    PROVE  ReaderInv'
<1>1. /\ rd.wanted /\ eng.at \notin {"rd_addr", "rd_resp"}
      /\ rd' = [wanted |-> FALSE, on |-> TRUE, frame |-> cam.frame - 1, got |-> <<>>]
      /\ rdfifo' = <<>>
      /\ eng' = [eng EXCEPT !.araddr = Begin(Bank(cam.frame - 1))]
      /\ UNCHANGED <<cam, spoilt>>
  BY DEF Restart, Fetched
<1>2. /\ ~rd'.wanted /\ rd'.on /\ rd'.frame = cam.frame - 1 /\ rd'.got = <<>>
      /\ Len(rd'.got) = 0 /\ Len(rdfifo') = 0
  BY <1>1, EmptySeq
<1>3. eng'.at = eng.at /\ eng'.araddr = There
  BY <1>1 DEF TypeOK, EngType, There
<1>4. There' = There /\ OfBurst' = 0
  BY <1>1, <1>3 DEF There, OfBurst
<1>5. cam.frame > 1
  BY <1>1 DEF ReaderInv, Fetches
<1>6. 0 < FrameWords /\ FrameWords \in Nat
  <2>1. Before(0) = 0 /\ Before(0) + BurstWords <= Before(FrameBursts)
    <3>1. 0 < FrameBursts /\ FrameBursts \in Nat
      BY BurstFacts
    <3> QED BY <3>1, BeforeFacts
  <2> QED BY <2>1, BurstFacts
<1>7. Fetches'
  <2>1. \A j \in 1..Len(rd'.got) : FALSE
    BY <1>2
  <2> QED BY <1>1, <1>2, <1>5, <1>6, <2>1 DEF Fetches
<1>8. Brought(0)'
  <2>1. There \in Int
    BY BankRange, BurstFacts
  <2>2. Len(rd'.got) + Len(rdfifo') = Before(0) + OfBurst'
    BY <1>2, <1>4, BeforeFacts
  <2>3. eng'.araddr = There' + (IF 0 = FrameBursts - 1 THEN 0 ELSE 0)
    BY <1>3, <1>4, <2>1
  <2>4. \A j \in 1..Len(rdfifo') : FALSE
    BY <1>2
  <2> QED BY <2>2, <2>3, <2>4 DEF Brought
<1> QED BY <1>7, <1>8 DEF ReaderInv

\* The preview takes a word out of the FIFO.
LEMMA ReaderWord ==
    ASSUME TypeOK, ReaderInv, ReadWord
    PROVE  ReaderInv'
<1>1. /\ rd.on /\ rdfifo # <<>> /\ rdfifo' = Tail(rdfifo)
      /\ rd' = [rd EXCEPT !.got = Append(@, Head(rdfifo)), !.on = Len(rd.got) + 1 < FrameWords]
      /\ UNCHANGED <<cam, eng, spoilt>>
  BY DEF ReadWord
<1>2. PICK l \in Nat, g \in Nat : l = Len(rdfifo) /\ g = Len(rd.got)
  BY DEF TypeOK
<1>3. /\ Head(rdfifo) \in Word /\ Head(rdfifo) = rdfifo[1] /\ l >= 1
      /\ Len(rdfifo') = l - 1 /\ \A j \in 1..(l - 1) : rdfifo'[j] = rdfifo[j + 1]
  <2>1. rdfifo \in Seq(Word)
    BY DEF TypeOK
  <2>2. l >= 1
    BY <1>1, <1>2, <2>1, EmptySeq
  <2> QED BY <1>1, <1>2, <2>1, <2>2, HeadFacts
<1>4. /\ rd'.wanted = rd.wanted /\ rd'.frame = rd.frame
      /\ rd'.got = Append(rd.got, Head(rdfifo)) /\ rd'.on = (g + 1 < FrameWords)
  BY <1>1, <1>2 DEF TypeOK
<1>5. /\ Len(rd'.got) = g + 1 /\ rd'.got[g + 1] = rdfifo[1]
      /\ \A j \in 1..g : rd'.got[j] = rd.got[j]
  <2>1. rd.got \in Seq(Word)
    BY DEF TypeOK
  <2> QED BY <1>2, <1>3, <1>4, <2>1, AppendFacts
<1>6. There' = There /\ Intact' = Intact /\ OfBurst' = OfBurst
  BY <1>1, <1>4 DEF There, Intact, OfBurst
<1>7. PICK p \in Nat : Brought(p)
  BY DEF ReaderInv
<1>8. /\ g + l = Before(p) + OfBurst
      /\ Intact => \A j \in 1..l :
                      g + j <= FrameWords => rdfifo[j] = Shown(rd.frame, g + j)
      /\ Intact => (p < FrameBursts =>
                       eng.araddr = There + (IF p = FrameBursts - 1 THEN 0 ELSE p))
  BY <1>1, <1>2, <1>7 DEF Brought
<1>9. /\ rd.frame = cam.frame - 1 /\ cam.frame > 1 /\ g < FrameWords
      /\ Intact => \A j \in 1..g : j <= FrameWords => rd.got[j] = Shown(rd.frame, j)
  BY <1>1, <1>2 DEF ReaderInv, Fetches
<1>10. Fetches'
  <2>1. ASSUME Intact, NEW j \in 1..(g + 1), j <= FrameWords
        PROVE  rd'.got[j] = Shown(rd.frame, j)
    <3>1. CASE j \in 1..g
      BY <1>5, <1>9, <2>1, <3>1
    <3>2. CASE j \notin 1..g
      <4>1. j = g + 1 /\ 1 \in 1..l
        BY <1>3, <3>2
      <4> QED BY <1>5, <1>8, <2>1, <4>1
    <3> QED BY <3>1, <3>2
  <2> QED BY <1>1, <1>4, <1>5, <1>6, <1>9, <2>1 DEF Fetches
<1>11. Brought(p)'
  <2>1. Len(rd'.got) + Len(rdfifo') = Before(p) + OfBurst'
    <3>1. (g + 1) + (l - 1) = g + l
      OBVIOUS
    <3> QED BY <1>3, <1>5, <1>6, <1>8, <3>1
  <2>2. ASSUME Intact, NEW j \in 1..(l - 1), (g + 1) + j <= FrameWords
        PROVE  rdfifo'[j] = Shown(rd.frame, (g + 1) + j)
    <3>1. j + 1 \in 1..l /\ g + (j + 1) = (g + 1) + j
      BY <1>3
    <3> QED BY <1>3, <1>8, <2>2, <3>1
  <2> QED BY <1>1, <1>3, <1>4, <1>5, <1>6, <1>8, <2>1, <2>2 DEF Brought
<1> QED BY <1>10, <1>11 DEF ReaderInv

LEMMA ReaderStep ==
    ASSUME TypeOK, WriterInv, ReaderInv, Next
    PROVE  ReaderInv'
<1>1. eng \in EngType /\ Positions /\ OtherBank
      /\ cam \in [frame : Nat \ {0}, pos : LostWords..FrameWords]
      /\ rd \in [wanted : BOOLEAN, on : BOOLEAN, frame : Nat, got : Seq(Word)]
  BY DEF TypeOK, WriterInv
<1>2. CASE Arb \/ Ready \/ WrAddr \/ WrValid \/ WrResp \/ WrError
  <2>1. /\ UNCHANGED <<cam, rdfifo, rd>> /\ spoilt \subseteq spoilt'
        /\ eng'.araddr = eng.araddr /\ eng.at # "rd_resp" /\ eng'.at # "rd_resp"
    <3>1. CASE Arb
      <4>1. eng'.araddr = eng.araddr /\ eng'.at \in {"wr_addr", "rd_addr", "arb"}
        BY <1>1, <3>1 DEF Arb, EngType
      <4> QED BY <3>1, <4>1 DEF Arb
    <3>2. CASE Ready \/ WrAddr \/ WrValid
      BY <1>1, <3>2 DEF Ready, WrAddr, WrValid, EngType
    <3>3. CASE WrResp \/ WrError
      BY <1>1, <3>3 DEF WrResp, WrError, EngType
    <3> QED BY <1>2, <3>1, <3>2, <3>3
  <2>2. OfBurst' = OfBurst
    BY <2>1 DEF OfBurst
  <2> QED BY <2>1, <2>2, ReaderKept
<1>3. CASE WrBeat
  <2>1. UNCHANGED <<cam, rdfifo, rd, spoilt>>
    BY <1>3 DEF WrBeat
  <2>2. eng'.araddr = eng.araddr /\ eng.at # "rd_resp" /\ eng'.at # "rd_resp"
    BY <1>1, <1>3 DEF WrBeat, EngType
  <2>3. OfBurst' = OfBurst
    BY <2>2 DEF OfBurst
  <2> QED BY <2>1, <2>2, <2>3, ReaderKept
<1>4. CASE RdAddr
  <2>1. /\ UNCHANGED <<cam, rdfifo, rd, spoilt>> /\ eng.at = "rd_addr"
        /\ eng'.araddr = eng.araddr /\ eng'.at = "rd_resp" /\ eng'.beats = eng.beats
    BY <1>1, <1>4 DEF RdAddr, EngType
  <2>2. eng.beats = 0
    BY <1>1, <2>1 DEF Positions
  <2>3. OfBurst' = OfBurst
    BY <2>1, <2>2 DEF OfBurst
  <2> QED BY <2>1, <2>3, ReaderKept
<1>5. CASE RdBeat \/ RdError
  BY <1>1, <1>5, ReaderBeat
<1>6. CASE CameraWord
  <2>1. UNCHANGED <<eng, rdfifo, rd, spoilt>> /\ cam'.frame = cam.frame
    BY <1>1, <1>6 DEF CameraWord
  <2>2. OfBurst' = OfBurst
    BY <2>1 DEF OfBurst
  <2> QED BY <2>1, <2>2, ReaderKept
<1>7. CASE NextFrame
  <2>1. /\ ~rd.on /\ cam'.frame = cam.frame + 1 /\ UNCHANGED <<rdfifo, spoilt>>
        /\ ~rd'.on /\ rd'.frame = rd.frame /\ rd'.got = rd.got
    BY <1>1, <1>7 DEF NextFrame
  <2>2. cam'.frame > 1
    BY <1>1, <2>1
  <2>3. Intact' = Intact
    BY <2>1 DEF Intact
  <2>4. Fetches'
    BY <2>1, <2>2, <2>3 DEF ReaderInv, Fetches
  <2>5. Brought(0)'
    BY <2>1 DEF Brought
  <2> QED BY <2>4, <2>5 DEF ReaderInv
<1>8. CASE Restart
  BY <1>8, ReaderRestart
<1>9. CASE ReadWord
  BY <1>9, ReaderWord
<1> QED BY <1>2, <1>3, <1>4, <1>5, <1>6, <1>7, <1>8, <1>9 DEF Next, Engine

-----------------------------------------------------------------------------
LEMMA InitPicture ==
    ASSUME Init
    PROVE  PictureInv
<1>1. TypeOK /\ IInv
  BY InitTypes, InitInv
<1>2. /\ cam.frame = 1 /\ cam.pos = LostWords /\ wrfifo.words = <<>> /\ wrfifo.dout = Blank
      /\ eng.at = "idle" /\ eng.awaddr = Begin(0) /\ spoilt = {}
      /\ ~rd.wanted /\ ~rd.on /\ rd.got = <<>>
  BY DEF Init
<1>3. Here = Begin(0) /\ Begin(0) = 0
  BY <1>2, BurstFacts DEF Here, Bank, Begin
<1>4. Len(wrfifo.words) = 0 /\ Len(rd.got) = 0
  BY <1>2, EmptySeq
<1>5. Sent = 0
  <2>1. Sent = LostWords - LostWords - 0
    BY <1>2, <1>4 DEF Sent
  <2> QED BY <2>1, BurstFacts
<1>6. Positions
  BY <1>2, <1>3, BurstFacts DEF Positions
<1>7. InOrder
  <2>1. Blank = Stored(1, 0 + 1)
    BY DEF Stored
  <2> QED BY <1>2, <1>4, <1>5, <2>1 DEF InOrder
<1>8. OtherBank
  BY <1>2 DEF OtherBank
<1>9. Stands(0)
  <2>1. InBurst = 0
    BY <1>2 DEF InBurst
  <2>2. eng.awaddr = Here + (IF 0 = FrameBursts - 1 THEN 0 ELSE 0)
    BY <1>2, <1>3
  <2>3. \A k \in 0..0, i \in 1..BurstWords : ~(k < 0 \/ i <= 0)
    BY BurstFacts
  <2>4. Sent = Before(0) + InBurst
    BY <1>5, <2>1, BeforeFacts
  <2>5. eng.at \notin Writing
    BY <1>2 DEF Writing
  <2> QED BY <2>1, <2>2, <2>3, <2>4, <2>5 DEF Stands
<1>10. Fetches /\ Brought(0)
  BY <1>2, <1>4 DEF Fetches, Brought
<1>11. 0 \in Bursts
  BY BurstFacts DEF Bursts
<1> QED BY <1>1, <1>6, <1>7, <1>8, <1>9, <1>10, <1>11 DEF PictureInv, WriterInv, ReaderInv

LEMMA PictureStep == PictureInv /\ [Next]_vars => PictureInv'
<1>1. ASSUME PictureInv, Next PROVE PictureInv'
  <2>1. IInv'
    BY <1>1, EngineInv, OutsideInv DEF Next, PictureInv
  <2>2. TypeOK'
    BY <1>1, TypeStep DEF PictureInv, WriterInv
  <2>3. WriterInv'
    BY <1>1, WriterStep DEF PictureInv
  <2>4. ReaderInv'
    BY <1>1, ReaderStep DEF PictureInv
  <2> QED BY <2>1, <2>2, <2>3, <2>4 DEF PictureInv
<1>2. ASSUME PictureInv, UNCHANGED vars PROVE PictureInv'
  <2>1. UNCHANGED <<cam, wrfifo, eng, mem, rdfifo, rd, spoilt, starved, errors>>
    BY <1>2 DEF vars
  <2>2. IInv'
    BY <1>2, <2>1 DEF PictureInv, IInv, Fields, Due
  <2>3. TypeOK'
    BY <1>2, <2>1 DEF PictureInv, TypeOK
  <2>4. WriterInv'
    <3>1. Positions'
      BY <1>2, <2>1 DEF PictureInv, WriterInv, Positions, Here
    <3>2. InBurst' = InBurst
      BY <2>1 DEF InBurst
    <3> QED BY <1>2, <2>1, <3>1, <3>2, WriterKept DEF PictureInv
  <2>5. ReaderInv'
    <3>1. OfBurst' = OfBurst
      BY <2>1 DEF OfBurst
    <3> QED BY <1>2, <2>1, <3>1, ReaderKept DEF PictureInv
  <2> QED BY <2>2, <2>3, <2>4, <2>5 DEF PictureInv
<1> QED BY <1>1, <1>2

\* A preview that met no error response is of one frame, the last complete one, and every
\* word before its last burst stands in its place, for every size of bursts, frames and
\* FIFOs: the writer fills one bank burst by burst while the other stands still, and the
\* reader goes through that one at the place its address has reached.  Both addresses
\* start over before the last burst: in its place the words of the first one come again.
THEOREM PreviewIsOfOneFrame == Spec => []PictureOfOneFrame
<1>1. PictureInv => PictureOfOneFrame
  <2> SUFFICES ASSUME PictureInv, PictureDone, Intact
               PROVE  /\ \A i \in 1..(FrameWords - BurstWords) :
                            rd.got[i] = Stored(rd.frame, i)
                      /\ \A i \in 1..FrameWords :
                            \E j \in 1..FrameWords : rd.got[i] = Stored(rd.frame, j)
    BY DEF PictureOfOneFrame
  <2>1. FrameWords \in Nat /\ BurstWords \in Nat /\ BurstWords <= FrameWords
    <3>1. /\ FrameWords = Before(FrameBursts) /\ FrameWords \in Nat
          /\ 0 \in Nat /\ FrameBursts \in Nat /\ 0 < FrameBursts /\ BurstWords \in Nat
      BY BurstFacts
    <3>2. Before(0) + BurstWords <= Before(FrameBursts) /\ Before(0) = 0
      BY <3>1, BeforeFacts
    <3> QED BY <3>1, <3>2
  <2>2. \A i \in 1..FrameWords : rd.got[i] = Shown(rd.frame, i)
    <3> SUFFICES ASSUME NEW i \in 1..FrameWords PROVE rd.got[i] = Shown(rd.frame, i)
      OBVIOUS
    <3>1. i \in 1..Len(rd.got) /\ i <= FrameWords
      BY <2>1 DEF PictureDone
    <3> QED BY <3>1 DEF PictureInv, ReaderInv, Fetches
  <2>3. ASSUME NEW i \in 1..(FrameWords - BurstWords)
        PROVE  rd.got[i] = Stored(rd.frame, i)
    <3>1. i \in 1..FrameWords /\ ~(i > FrameWords - BurstWords)
      BY <2>1
    <3> QED BY <2>2, <3>1, Zenon DEF Shown
  <2>4. ASSUME NEW i \in 1..FrameWords
        PROVE  \E j \in 1..FrameWords : rd.got[i] = Stored(rd.frame, j)
    <3>1. CASE i > FrameWords - BurstWords
      <4>1. i - FrameWords + BurstWords \in 1..FrameWords
        BY <2>1, <3>1
      <4>2. rd.got[i] = Stored(rd.frame, i - FrameWords + BurstWords)
        BY <2>2, <3>1, Zenon DEF Shown
      <4> QED BY <4>1, <4>2
    <3>2. CASE ~(i > FrameWords - BurstWords)
      BY <2>2, <3>2, Zenon DEF Shown
    <3> QED BY <3>1, <3>2
  <2> QED BY <2>3, <2>4
<1> QED BY InitPicture, PictureStep, <1>1, PTL DEF Spec

\* Every value stays of its type; the addresses in particular stay inside the two banks.
THEOREM TypeCorrect == Spec => []TypeOK
<1>1. PictureInv => TypeOK
  BY DEF PictureInv
<1> QED BY InitPicture, PictureStep, <1>1, PTL DEF Spec
==============================================================================
