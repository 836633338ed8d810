----------------------- MODULE PreviewReassemblyProofs -----------------------
(***************************************************************************)
(* For every number of chunks, of frames and of frame ids: types; a        *)
(* picture published without an FPGA reset is one whole frame; a frame     *)
(* received intact is published; the reassembly implements PreviewScreen.  *)
(***************************************************************************)
EXTENDS PreviewReassembly, TLAPS, SequenceTheorems

PieceType == [src : Frames, chunk : Chunk]
AsmType == [active : BOOLEAN, id : Ids, next : 0..ChunksPerFrame, buf : Seq(PieceType)]

(***************************************************************************)
(* Arithmetic of wrapping ids.                                             *)
(***************************************************************************)
LEMMA SmallMultiple ==
    ASSUME NEW m \in Nat \ {0}, NEW k \in Int, m * k < m, m * k > -m
    PROVE  k = 0
<1>1. CASE k >= 1
  <2>1. m * (k - 1) >= 0
    BY <1>1
  <2>2. m * k = m * (k - 1) + m
    OBVIOUS
  <2> QED BY <2>1, <2>2
<1>2. CASE k <= -1
  <2>1. m * (-k - 1) >= 0
    BY <1>2
  <2>2. m * k = -(m * (-k - 1)) - m
    OBVIOUS
  <2> QED BY <2>1, <2>2
<1> QED BY <1>1, <1>2

\* Two frames less than a cycle of ids apart and with the same id are one frame.
LEMMA SameId ==
    ASSUME NEW m \in Nat \ {0}, NEW a \in Nat, NEW b \in Nat,
           a - b < m, b - a < m, a % m = b % m
    PROVE  a = b
<1>1. a = m * (a \div m) + (a % m) /\ a \div m \in Int
  OBVIOUS
<1>2. b = m * (b \div m) + (b % m) /\ b \div m \in Int
  OBVIOUS
<1> DEFINE k == (a \div m) - (b \div m)
<1>3. k \in Int /\ a - b = m * k
  BY <1>1, <1>2
<1> HIDE DEF k
<1>4. k = 0
  BY <1>3, SmallMultiple
<1> QED BY <1>3, <1>4

LEMMA IdInRange == ASSUME NEW n \in Nat PROVE n % IdMod \in Ids
BY ProtocolAssumption DEF Ids

(***************************************************************************)
(* Pieces of a frame.                                                      *)
(***************************************************************************)
LEMMA PiecesType ==
    ASSUME NEW f \in Frames, NEW n \in 0..ChunksPerFrame
    PROVE  Pieces(f, n) \in Seq(PieceType) /\ Len(Pieces(f, n)) = n
<1>1. \A i \in 1..n : [src |-> f, chunk |-> i - 1] \in PieceType
  BY ProtocolAssumption DEF PieceType, Chunk
<1> QED BY <1>1, ProtocolAssumption DEF Pieces

LEMMA NoPieces == ASSUME NEW f PROVE <<>> = Pieces(f, 0)
BY DEF Pieces

LEMMA AppendPiece ==
    ASSUME NEW f \in Frames, NEW n \in Chunk
    PROVE  Append(Pieces(f, n), [src |-> f, chunk |-> n]) = Pieces(f, n + 1)
<1> DEFINE s == Pieces(f, n)
           e == [src |-> f, chunk |-> n]
<1>1. n \in Nat /\ n \in 0..ChunksPerFrame /\ n + 1 \in 0..ChunksPerFrame
  BY ProtocolAssumption DEF Chunk
<1>2. s \in Seq(PieceType) /\ Len(s) = n /\ e \in PieceType
  BY <1>1, PiecesType DEF PieceType
<1>3. Pieces(f, n + 1) \in Seq(PieceType) /\ Len(Pieces(f, n + 1)) = n + 1
  BY <1>1, PiecesType
<1>4. \A i \in 1..(n + 1) : Pieces(f, n + 1)[i] = [src |-> f, chunk |-> i - 1]
  BY DEF Pieces
<1>5. \A i \in 1..n : s[i] = [src |-> f, chunk |-> i - 1]
  BY DEF Pieces
<1> HIDE DEF s, e
<1>6. /\ Append(s, e) \in Seq(PieceType) /\ Len(Append(s, e)) = n + 1
      /\ \A i \in 1..n : Append(s, e)[i] = s[i]
      /\ Append(s, e)[n + 1] = e
  BY <1>2, AppendProperties
<1>7. \A i \in 1..(n + 1) : Append(s, e)[i] = Pieces(f, n + 1)[i]
  <2> TAKE i \in 1..(n + 1)
  <2>1. CASE i \in 1..n
    BY <2>1, <1>1, <1>4, <1>5, <1>6
  <2>2. CASE i = n + 1
    <3>1. Pieces(f, n + 1)[i] = [src |-> f, chunk |-> n]
      BY <2>2, <1>1, <1>4
    <3>2. Append(s, e)[i] = e
      BY <2>2, <1>6
    <3> QED BY <3>1, <3>2 DEF e
  <2>3. i \in 1..n \/ i = n + 1
    BY <1>1
  <2> QED BY <2>1, <2>2, <2>3
<1> QED BY <1>3, <1>6, <1>7, SeqEqual DEF s, e

(***************************************************************************)
(* Types.                                                                  *)
(***************************************************************************)
LEMMA InitType == Init => TypeOK
BY ProtocolAssumption, BoundsAssumption
DEF Init, TypeOK, NoAssembly, NoPreview, Frames, Ids

LEMMA BeginType ==
    ASSUME TypeOK, NEW p \in net
    PROVE  /\ Begin(p) \in AsmType /\ Len(Begin(p).buf) <= Begin(p).next
           /\ p.src \in 0..frame /\ p.src \in Frames /\ p.id \in Ids /\ p.chunk \in Chunk
<1>1. p.src \in 0..frame /\ p.src \in Frames /\ p.id \in Ids /\ p.chunk \in Chunk
  BY BoundsAssumption DEF TypeOK, Frames
<1>2. CASE First(p)
  <2>1. Begin(p) = [active |-> TRUE, id |-> p.id, next |-> 0, buf |-> <<>>]
    BY <1>2 DEF Begin
  <2>2. <<>> \in Seq(PieceType) /\ Len(<<>>) = 0
    OBVIOUS
  <2> QED BY <1>1, <2>1, <2>2, ProtocolAssumption DEF AsmType
<1>3. CASE ~First(p)
  BY <1>1, <1>3 DEF TypeOK, Begin, AsmType, PieceType
<1> QED BY <1>2, <1>3

LEMMA AssembleType ==
    ASSUME TypeOK, NEW p \in net
    PROVE  /\ Assemble(p) \in AsmType /\ Len(Assemble(p).buf) <= Assemble(p).next
           /\ Fits(p) => Extend(p).buf \in Seq(PieceType)
<1>0. /\ asm \in AsmType
      /\ Begin(p) \in AsmType /\ Len(Begin(p).buf) <= Begin(p).next
      /\ p.src \in Frames /\ p.chunk \in Chunk
  BY BeginType DEF TypeOK, AsmType, PieceType
<1>1. Piece(p) \in PieceType
  BY <1>0 DEF Piece, PieceType
<1>2. /\ Begin(p).active \in BOOLEAN /\ Begin(p).id \in Ids
      /\ Begin(p).next \in 0..ChunksPerFrame /\ Begin(p).buf \in Seq(PieceType)
  BY <1>0 DEF AsmType
<1>3. CASE Fits(p)
  <2>1. /\ Append(Begin(p).buf, Piece(p)) \in Seq(PieceType)
        /\ Len(Append(Begin(p).buf, Piece(p))) = Len(Begin(p).buf) + 1
    BY <1>1, <1>2, AppendProperties
  <2>2. Begin(p).next + 1 \in 0..ChunksPerFrame
    BY <1>0, <1>2, <1>3, ProtocolAssumption DEF Fits, Chunk
  <2>3. Len(Begin(p).buf) \in Nat
    BY <1>2
  <2>4. Extend(p) \in AsmType
    BY <1>2, <2>1, <2>2 DEF Extend, AsmType, Last
  <2>5. Len(Extend(p).buf) <= Extend(p).next
    BY <1>0, <1>2, <2>1, <2>3, ProtocolAssumption DEF Extend
  <2> QED BY <1>3, <2>1, <2>4, <2>5 DEF Assemble, Extend
<1>4. CASE ~Fits(p)
  <2>1. GiveUp(p) \in AsmType /\ Len(GiveUp(p).buf) <= GiveUp(p).next
    BY <1>0 DEF GiveUp, AsmType
  <2> QED BY <1>4, <2>1 DEF Assemble
<1> QED BY <1>3, <1>4

LEMMA TypeInductive == TypeOK /\ [Next]_vars => TypeOK'
<1> SUFFICES ASSUME TypeOK, [Next]_vars PROVE TypeOK'
  OBVIOUS
<1>0. /\ frame \in Nat /\ base \in 0..frame /\ MaxFrames \in Nat /\ frame <= MaxFrames
      /\ ChunksPerFrame \in Nat \ {0} /\ chunk \in 0..ChunksPerFrame
  BY BoundsAssumption, ProtocolAssumption DEF TypeOK, Frames
<1>1. CASE StartFrame
  BY <1>0, <1>1 DEF StartFrame, TypeOK, receiver, Frames
<1>2. CASE SendChunk
  <2>1. FrameId \in Ids
    BY <1>0, IdInRange DEF FrameId
  <2>2. chunk \in Chunk /\ chunk + 1 \in 0..ChunksPerFrame
    BY <1>0, <1>2 DEF SendChunk, Chunk
  <2>3. net' \subseteq [src : 0..frame, id : Ids, chunk : Chunk]
    BY <1>0, <1>2, <2>1, <2>2 DEF SendChunk, TypeOK
  <2> QED BY <1>0, <1>2, <2>2, <2>3 DEF SendChunk, TypeOK, receiver
<1>3. CASE FpgaReset
  <2>1. base' \in 0..frame' /\ chunk' \in 0..ChunksPerFrame /\ frame' = frame
    BY <1>0, <1>3 DEF FpgaReset
  <2>2. resets' \in 0..MaxResets
    BY <1>3, BoundsAssumption DEF FpgaReset, TypeOK
  <2> QED BY <1>3, <2>1, <2>2 DEF FpgaReset, TypeOK, receiver
<1>4. CASE ServiceRestart
  BY <1>0, <1>4, BoundsAssumption, ProtocolAssumption
  DEF ServiceRestart, TypeOK, sender, NoAssembly, NoPreview, Ids
<1>5. ASSUME NEW p \in net, Deliver(p) PROVE TypeOK'
  <2>1. asm' \in AsmType /\ Len(asm'.buf) <= asm'.next
    BY <1>5, AssembleType DEF Deliver, Receive
  <2>2. p.src \in 0..frame /\ p.src \in Frames /\ p.id \in Ids /\ p.chunk \in Chunk
    BY BeginType
  <2>3. preview' \in [available : BOOLEAN, id : Ids, image : Seq(PieceType)]
    BY <1>5, <2>2, AssembleType DEF Deliver, Receive, Completes, TypeOK, PieceType
  <2>4. streak' \in [src : 0..frame, len : 0..ChunksPerFrame]
    <3>1. streak.len \in 0..ChunksPerFrame
      BY DEF TypeOK
    <3>2. \E n \in 0..ChunksPerFrame : StreakAfter(p) = [src |-> p.src, len |-> n]
      <4>1. CASE First(p)
        BY <1>0, <4>1 DEF StreakAfter
      <4>2. CASE ~First(p) /\ streak.len > 0 /\ p.src = streak.src /\ p.chunk = streak.len
        BY <1>0, <2>2, <3>1, <4>2 DEF StreakAfter, Chunk
      <4>3. CASE ~First(p) /\ ~(streak.len > 0 /\ p.src = streak.src /\ p.chunk = streak.len)
        BY <1>0, <4>3 DEF StreakAfter
      <4> QED BY <4>1, <4>2, <4>3
    <3>3. streak' = StreakAfter(p) /\ frame' = frame
      BY <1>5 DEF Deliver, Receive, sender
    <3> QED BY <2>2, <3>2, <3>3
  <2>5. newest' \in 0..frame /\ heard' \in 0..frame
    BY <1>5, <2>2 DEF Deliver, Receive, TypeOK
  <2>6. late' \subseteq 0..frame
    <3>1. Overtaken(p) \subseteq 0..frame
      BY BeginType DEF Overtaken
    <3> QED BY <1>5, <3>1 DEF Deliver, TypeOK
  <2> QED BY <1>5, <2>1, <2>3, <2>4, <2>5, <2>6
      DEF Deliver, sender, TypeOK, AsmType, PieceType
<1>6. ASSUME NEW p \in net, Lose(p) PROVE TypeOK'
  BY <1>6 DEF Lose, sender, receiver, TypeOK
<1>7. CASE UNCHANGED vars
  BY <1>7 DEF vars, TypeOK
<1> QED BY <1>1, <1>2, <1>3, <1>4, <1>5, <1>6, <1>7 DEF Next

\* Ids, chunk numbers and the assembly buffer keep their ranges: the buffer never
\* holds more than one frame.
THEOREM TypeCorrect == Spec => []TypeOK
BY InitType, TypeInductive, PTL DEF Spec

(***************************************************************************)
(* Receiving a chunk.                                                      *)
(***************************************************************************)
\* A chunk that fits the beginning of its own frame extends it.
LEMMA FitsExtends ==
    ASSUME TypeOK, NEW p \in net, Fits(p), Begin(p).buf = Pieces(p.src, Begin(p).next)
    PROVE  /\ Assemble(p).active = ~Last(p) /\ Assemble(p).id = p.id
           /\ Assemble(p).next = p.chunk + 1
           /\ Assemble(p).buf = Pieces(p.src, p.chunk + 1)
           /\ Extend(p).buf = Pieces(p.src, p.chunk + 1)
           /\ Last(p) <=> Completes(p)
           /\ Completes(p) => Extend(p).buf = Whole(p.src)
<1>1. p.src \in Frames /\ p.chunk \in Chunk /\ p.chunk \in Nat
  BY BeginType, ProtocolAssumption DEF Chunk
<1>2. Begin(p).next = p.chunk /\ Begin(p).id = p.id
  BY DEF Fits
<1>3. Extend(p).buf = Pieces(p.src, p.chunk + 1)
  BY <1>1, <1>2, AppendPiece DEF Extend, Piece
<1>4. Assemble(p) = Extend(p)
  BY DEF Assemble
<1>5. Assemble(p).active = ~Last(p) /\ Assemble(p).id = p.id /\ Assemble(p).next = p.chunk + 1
  BY <1>2, <1>4 DEF Extend
<1>6. Last(p) => p.chunk + 1 = ChunksPerFrame
  BY <1>1, ProtocolAssumption DEF Last
<1>7. Len(Extend(p).buf) = p.chunk + 1
  BY <1>1, <1>3, PiecesType, ProtocolAssumption DEF Chunk
<1> QED BY <1>3, <1>4, <1>5, <1>6, <1>7 DEF Completes, Whole

\* The first chunk of a frame always opens a new assembly.
LEMMA FirstFits ==
    ASSUME TypeOK, NEW p \in net, First(p)
    PROVE  Fits(p) /\ Begin(p).buf = Pieces(p.src, Begin(p).next)
BY NoPieces DEF First, Fits, Begin

LEMMA NotFits ==
    ASSUME TypeOK, NEW p \in net, ~Fits(p)
    PROVE  ~Assemble(p).active /\ ~Completes(p) /\ ~First(p)
BY FirstFits DEF Assemble, GiveUp, Completes

(***************************************************************************)
(* WholeInv: without an FPGA reset the ids identify the frame.             *)
(***************************************************************************)
\* A chunk that fits is of the frame the assembly belongs to.
LEMMA FitsSameFrame ==
    ASSUME TypeOK, WholeInv, NEW p \in net, Fits(p)
    PROVE  Begin(p).buf = Pieces(p.src, Begin(p).next)
<1>1. CASE First(p)
  BY <1>1, FirstFits
<1>2. CASE ~First(p)
  <2>1. asm.active /\ Begin(p) = asm /\ p.id = asm.id
    BY <1>2 DEF Begin, Fits
  <2>2. /\ p.id = p.src % IdMod /\ frame - p.src < IdMod
        /\ asm.id = heard % IdMod /\ frame - heard < IdMod
        /\ asm.buf = Pieces(heard, asm.next)
    BY <2>1 DEF WholeInv, PacketsFresh, AssemblyOfHeard
  <2>3. p.src \in 0..frame /\ heard \in 0..frame /\ frame \in Nat /\ IdMod \in Nat \ {0}
    BY BeginType, ProtocolAssumption, BoundsAssumption DEF TypeOK, Frames
  <2>4. p.src % IdMod = heard % IdMod
    BY <2>1, <2>2
  <2>5. p.src - heard < IdMod /\ heard - p.src < IdMod
    <3> HIDE <2>4
    <3>1. frame - p.src < IdMod /\ frame - heard < IdMod
      BY <2>2
    <3>2. ASSUME NEW s \in 0..frame, NEW h \in 0..frame, frame - s < IdMod, frame - h < IdMod
          PROVE  s - h < IdMod /\ h - s < IdMod
      BY <2>3, <3>2
    <3> QED BY <2>3, <3>1, <3>2
  <2>6. p.src = heard
    <3>1. p.src \in Nat /\ heard \in Nat
      BY <2>3
    <3> QED BY <2>3, <2>4, <2>5, <3>1, SameId
  <2> QED BY <2>1, <2>2, <2>6
<1> QED BY <1>1, <1>2

LEMMA DeliverWhole ==
    ASSUME TypeOK, WholeInv, NEW p \in net, Deliver(p)
    PROVE  WholeInv'
<1>1. /\ UNCHANGED sender /\ net' \subseteq net /\ heard' = p.src
      /\ asm' = Assemble(p)
      /\ preview' = IF Completes(p)
                    THEN [available |-> TRUE, id |-> p.id, image |-> Extend(p).buf]
                    ELSE preview
  BY DEF Deliver, Receive
<1>2. /\ p.id = p.src % IdMod /\ p.src > 0 /\ frame - p.src < IdMod
      /\ p.src = frame => p.chunk < chunk
      /\ p.src = frame \/ p.src \in complete
  BY DEF WholeInv, PacketsFresh
<1>3. PacketsFresh'
  BY <1>1 DEF WholeInv, PacketsFresh, sender
<1>4. CASE Fits(p)
  <2>1. /\ asm'.active = ~Last(p) /\ asm'.id = p.id /\ asm'.next = p.chunk + 1
        /\ asm'.buf = Pieces(p.src, p.chunk + 1)
        /\ Completes(p) => Last(p) /\ Extend(p).buf = Whole(p.src)
    BY <1>1, <1>4, FitsExtends, FitsSameFrame
  <2>2. ~Last(p) => p.chunk + 1 < ChunksPerFrame
    BY BeginType, ProtocolAssumption DEF Last, Chunk
  <2>3. AssemblyOfHeard'
    BY <1>1, <1>2, <2>1, <2>2 DEF AssemblyOfHeard, sender
  <2>4. Last(p) => p.src \in complete
    <3>1. Last(p) /\ p.src = frame => chunk = ChunksPerFrame
      BY <1>2, ProtocolAssumption DEF Last, TypeOK
    <3> QED BY <1>2, <3>1 DEF WholeInv
  <2>5. PictureWhole'
    BY <1>1, <2>1, <2>4 DEF WholeInv, PictureWhole, sender, Whole
  <2> QED BY <1>1, <1>3, <2>3, <2>5 DEF WholeInv, sender
<1>5. CASE ~Fits(p)
  <2>1. ~asm'.active /\ preview' = preview
    BY <1>1, <1>5, NotFits
  <2> QED BY <1>1, <1>3, <2>1 DEF WholeInv, AssemblyOfHeard, PictureWhole, sender, Whole
<1> QED BY <1>4, <1>5

LEMMA WholeInductive ==
    ASSUME TypeOK, resets = 0 => WholeInv, [Next]_vars
    PROVE  (resets = 0 => WholeInv)'
<1> SUFFICES ASSUME resets' = 0 PROVE WholeInv'
  OBVIOUS
<1>0. /\ resets \in Nat /\ frame \in Nat /\ chunk \in 0..ChunksPerFrame
      /\ ChunksPerFrame \in Nat \ {0} /\ IdMod \in Nat \ {0}
  BY ProtocolAssumption, BoundsAssumption DEF TypeOK, Frames
<1>1. CASE StartFrame
  <2>1. WholeInv /\ frame' = frame + 1 /\ chunk' = 0 /\ chunk = ChunksPerFrame
    BY <1>1 DEF StartFrame
  <2>2. PacketsFresh'
    <3> SUFFICES ASSUME NEW p \in net'
                 PROVE  /\ p.id = p.src % IdMod
                        /\ p.src > 0 /\ frame' - p.src < IdMod
                        /\ p.src = frame' => p.chunk < chunk'
                        /\ p.src = frame' \/ p.src \in complete'
      BY DEF PacketsFresh
    <3>1. p \in net /\ frame + 1 - p.src < IdMod
      BY <1>1 DEF StartFrame
    <3>0. complete' = complete
      BY <1>1 DEF StartFrame
    <3>2. p.src \in 0..frame
      BY <3>1, BeginType
    <3> QED BY <1>0, <2>1, <3>0, <3>1, <3>2 DEF WholeInv, PacketsFresh
  <2>3. AssemblyOfHeard'
    <3>1. asm' = asm /\ heard' = heard
      BY <1>1 DEF StartFrame, receiver
    <3>2. asm.active => frame + 1 - heard < IdMod
      BY <1>1 DEF StartFrame, LinkNotSilent
    <3>3. asm'.active => frame' - heard' < IdMod
      BY <1>0, <2>1, <3>1, <3>2 DEF TypeOK
    <3>4. AssemblyOfHeard
      BY <2>1 DEF WholeInv
    <3> QED BY <3>1, <3>3, <3>4 DEF AssemblyOfHeard
  <2> QED BY <1>0, <1>1, <2>1, <2>2, <2>3 DEF WholeInv, PictureWhole, StartFrame, receiver, Whole
<1>2. CASE SendChunk
  <2>1. WholeInv /\ frame' = frame /\ chunk' = chunk + 1 /\ chunk < ChunksPerFrame /\ frame > 0
    BY <1>2 DEF SendChunk, WholeInv
  <2>2. FrameId = frame % IdMod
    BY <1>0, <2>1 DEF FrameId, WholeInv
  <2>3. complete \subseteq complete' /\ (chunk' = ChunksPerFrame => frame \in complete')
    BY <1>0, <1>2, <2>1 DEF SendChunk
  <2>4. PacketsFresh'
    <3> SUFFICES ASSUME NEW p \in net'
                 PROVE  /\ p.id = p.src % IdMod
                        /\ p.src > 0 /\ frame' - p.src < IdMod
                        /\ p.src = frame' => p.chunk < chunk'
                        /\ p.src = frame' \/ p.src \in complete'
      BY DEF PacketsFresh
    <3>1. CASE p \in net
      <4>1. p.chunk \in Nat
        BY <3>1, <1>0, BeginType DEF Chunk
      <4> QED BY <1>0, <2>1, <2>3, <3>1, <4>1 DEF WholeInv, PacketsFresh
    <3>2. CASE p = [src |-> frame, id |-> FrameId, chunk |-> chunk]
      BY <1>0, <2>1, <2>2, <3>2
    <3> QED BY <1>2, <3>1, <3>2 DEF SendChunk
  <2>5. AssemblyOfHeard'
    BY <1>2, <2>1 DEF WholeInv, AssemblyOfHeard, SendChunk, receiver
  <2> QED BY <1>2, <2>1, <2>3, <2>4, <2>5
      DEF WholeInv, PictureWhole, SendChunk, receiver, Whole
<1>3. CASE FpgaReset
  BY <1>0, <1>3 DEF FpgaReset
<1>4. CASE ServiceRestart
  BY <1>4 DEF ServiceRestart, sender, WholeInv, PacketsFresh, AssemblyOfHeard, PictureWhole,
     NoAssembly, NoPreview
<1>5. ASSUME NEW p \in net, Deliver(p) PROVE WholeInv'
  BY <1>5, DeliverWhole DEF Deliver
<1>6. ASSUME NEW p \in net, Lose(p) PROVE WholeInv'
  BY <1>6 DEF Lose, sender, receiver, WholeInv, PacketsFresh, AssemblyOfHeard, PictureWhole, Whole
<1>7. CASE UNCHANGED vars
  BY <1>7 DEF vars, WholeInv, PacketsFresh, AssemblyOfHeard, PictureWhole, Whole
<1> QED BY <1>1, <1>2, <1>3, <1>4, <1>5, <1>6, <1>7 DEF Next

LEMMA InitWhole == Init => WholeInv
BY ProtocolAssumption DEF Init, WholeInv, PacketsFresh, AssemblyOfHeard, PictureWhole,
   NoAssembly, NoPreview

\* Before the first FPGA reset, chunks of two frames are never joined: what rx_loop
\* publishes is one whole frame, however many frames share its id.
THEOREM PublishesWholeFrames == Spec => []WholeFrame
<1>1. Spec => [](resets = 0 => WholeInv)
  BY InitWhole, WholeInductive, TypeCorrect, PTL DEF Spec
<1>2. (resets = 0 => WholeInv) => WholeFrame
  BY DEF WholeInv, WholeFrame
<1> QED BY <1>1, <1>2, PTL

(***************************************************************************)
(* A frame received intact is published, with or without resets.           *)
(***************************************************************************)
StreakInv == SameFrameSameId /\ StreakInAssembly /\ IntactFramePublished

LEMMA InitStreak == Init => StreakInv
BY ProtocolAssumption
DEF Init, StreakInv, SameFrameSameId, StreakInAssembly, IntactFramePublished

LEMMA DeliverStreak ==
    ASSUME TypeOK, StreakInv, NEW p \in net, Deliver(p)
    PROVE  StreakInv'
<1>0. /\ UNCHANGED sender /\ net' \subseteq net /\ streak' = StreakAfter(p)
      /\ asm' = Assemble(p)
      /\ preview' = IF Completes(p)
                    THEN [available |-> TRUE, id |-> p.id, image |-> Extend(p).buf]
                    ELSE preview
  BY DEF Deliver, Receive
<1>1. /\ p.chunk \in 0..(ChunksPerFrame - 1) /\ p.src \in 0..frame
      /\ ChunksPerFrame \in Nat \ {0} /\ streak.len \in 0..ChunksPerFrame
  BY BeginType, ProtocolAssumption DEF Chunk, TypeOK
<1>2. SameFrameSameId'
  BY <1>0 DEF StreakInv, SameFrameSameId, sender, FrameId
<1>3. CASE streak'.len > 0
  <2>1. streak'.src = p.src /\ streak'.len = p.chunk + 1
    BY <1>0, <1>1, <1>3 DEF StreakAfter, First
  <2>2. Fits(p) /\ Begin(p).buf = Pieces(p.src, Begin(p).next)
    <3>1. CASE First(p)
      BY <3>1, FirstFits
    <3>2. CASE ~First(p)
      <4>1. streak.len > 0 /\ p.src = streak.src /\ p.chunk = streak.len
        BY <1>0, <1>3, <3>2 DEF StreakAfter
      <4>2. streak.len \in 1..(ChunksPerFrame - 1)
        BY <1>1, <4>1
      <4>3. /\ asm.active /\ asm.next = streak.len /\ p.id = asm.id
            /\ asm.buf = Pieces(streak.src, streak.len)
        BY <4>1, <4>2 DEF StreakInv, StreakInAssembly
      <4> QED BY <3>2, <4>1, <4>3 DEF Fits, Begin
    <3> QED BY <3>1, <3>2
  <2>3. /\ asm'.active = ~Last(p) /\ asm'.id = p.id /\ asm'.next = p.chunk + 1
        /\ asm'.buf = Pieces(p.src, p.chunk + 1)
        /\ Last(p) => Completes(p) /\ Extend(p).buf = Whole(p.src)
    BY <1>0, <2>2, FitsExtends
  <2>4. /\ \A q \in net : q.src = p.src => q.id = p.id
        /\ p.src = frame /\ chunk < ChunksPerFrame => p.id = FrameId
    BY DEF StreakInv, SameFrameSameId
  <2>5. StreakInAssembly'
    <3> SUFFICES ASSUME streak'.len \in 1..(ChunksPerFrame - 1)
                 PROVE  /\ asm'.active /\ asm'.next = streak'.len
                        /\ asm'.buf = Pieces(streak'.src, streak'.len)
                        /\ \A q \in net' : q.src = streak'.src => q.id = asm'.id
                        /\ streak'.src = frame' /\ chunk' < ChunksPerFrame
                             => asm'.id = FrameId'
      BY DEF StreakInAssembly
    <3>1. ~Last(p)
      BY <1>1, <2>1 DEF Last
    <3>2. asm'.active
      BY <2>3, <3>1
    <3>3. frame' = frame /\ chunk' = chunk /\ FrameId' = FrameId
      BY <1>0 DEF sender, FrameId
    <3> QED BY <1>0, <2>1, <2>3, <2>4, <3>2, <3>3
  <2>6. IntactFramePublished'
    <3>1. streak'.len = ChunksPerFrame => Last(p)
      BY <1>1, <2>1 DEF Last
    <3> QED BY <1>0, <2>1, <2>3, <3>1 DEF IntactFramePublished, Whole
  <2> QED BY <1>2, <2>5, <2>6 DEF StreakInv
<1>4. CASE ~(streak'.len > 0)
  <2>1. streak'.len = 0
    BY <1>0, <1>1, <1>4 DEF StreakAfter
  <2> QED BY <1>1, <1>2, <2>1 DEF StreakInv, StreakInAssembly, IntactFramePublished
<1> QED BY <1>3, <1>4

LEMMA StreakInductive ==
    ASSUME TypeOK, StreakInv, [Next]_vars
    PROVE  StreakInv'
<1>0. /\ frame \in Nat /\ chunk \in 0..ChunksPerFrame /\ streak.src \in 0..frame
      /\ ChunksPerFrame \in Nat \ {0} /\ \A p \in net : p.src \in 0..frame
  BY ProtocolAssumption, BoundsAssumption DEF TypeOK, Frames
<1>1. CASE StartFrame
  <2>1. /\ frame' = frame + 1 /\ chunk' = 0 /\ chunk = ChunksPerFrame
        /\ net' \subseteq net /\ UNCHANGED receiver
    BY <1>1 DEF StartFrame
  <2>2. streak'.src # frame' /\ \A p \in net' : p.src # frame'
    BY <1>0, <2>1 DEF receiver
  <2> QED BY <2>1, <2>2
      DEF receiver, StreakInv, SameFrameSameId, StreakInAssembly, IntactFramePublished, Whole
<1>2. CASE SendChunk
  <2>1. /\ frame' = frame /\ base' = base /\ FrameId' = FrameId /\ UNCHANGED receiver
        /\ chunk < ChunksPerFrame
        /\ net' = net \cup {[src |-> frame, id |-> FrameId, chunk |-> chunk]}
    BY <1>2 DEF SendChunk, FrameId
  <2>2. \A p \in net' : p \in net \/ (p.src = frame /\ p.id = FrameId)
    BY <2>1
  <2>3. \A p \in net' : p.src = frame => p.id = FrameId
    BY <2>1, <2>2 DEF StreakInv, SameFrameSameId
  <2>4. SameFrameSameId'
    <3>1. \A p, q \in net' : p.src = q.src => p.id = q.id
      BY <2>2, <2>3 DEF StreakInv, SameFrameSameId
    <3> QED BY <2>1, <2>3, <3>1 DEF SameFrameSameId
  <2>5. StreakInAssembly'
    BY <2>1, <2>2 DEF StreakInv, StreakInAssembly, receiver
  <2> QED BY <2>1, <2>4, <2>5 DEF StreakInv, IntactFramePublished, receiver, Whole
<1>3. CASE FpgaReset
  <2>1. chunk' = ChunksPerFrame /\ frame' = frame /\ net' = net /\ UNCHANGED receiver
    BY <1>3 DEF FpgaReset
  <2> QED BY <1>0, <2>1
      DEF receiver, StreakInv, SameFrameSameId, StreakInAssembly, IntactFramePublished, Whole
<1>4. CASE ServiceRestart
  BY <1>0, <1>4
  DEF ServiceRestart, sender, StreakInv, SameFrameSameId, StreakInAssembly,
      IntactFramePublished, FrameId
<1>5. ASSUME NEW p \in net, Deliver(p) PROVE StreakInv'
  BY <1>5, DeliverStreak
<1>6. ASSUME NEW p \in net, Lose(p) PROVE StreakInv'
  BY <1>6 DEF Lose, sender, receiver, StreakInv, SameFrameSameId, StreakInAssembly,
     IntactFramePublished, FrameId, Whole
<1>7. CASE UNCHANGED vars
  BY <1>7 DEF vars, StreakInv, SameFrameSameId, StreakInAssembly, IntactFramePublished,
     FrameId, Whole
<1> QED BY <1>1, <1>2, <1>3, <1>4, <1>5, <1>6, <1>7 DEF Next

\* A frame whose chunks are received one after the other is published, whatever
\* assembly was open, after any number of resets, restarts and id wraps.
THEOREM IntactFramesArePublished == Spec => []IntactFramePublished
<1>1. Spec => []StreakInv
  BY InitStreak, StreakInductive, TypeCorrect, PTL DEF Spec
<1>2. StreakInv => IntactFramePublished
  BY DEF StreakInv
<1> QED BY <1>1, <1>2, PTL

(***************************************************************************)
(* The reassembly implements PreviewScreen.                                *)
(***************************************************************************)
LEMMA OrderInductive == TypeOK /\ KeepsOrder /\ [Next]_vars => KeepsOrder'
<1> SUFFICES ASSUME TypeOK, KeepsOrder, [Next]_vars, NEW p \in net'
             PROVE  p.src >= newest' \/ p.src \in late'
  BY DEF KeepsOrder
<1>0. /\ newest \in 0..frame /\ frame \in Nat
      /\ \A q \in net : q.src \in 0..frame /\ (q.src >= newest \/ q.src \in late)
  BY BoundsAssumption DEF TypeOK, Frames, KeepsOrder
<1>1. CASE StartFrame
  BY <1>0, <1>1 DEF StartFrame, receiver
<1>2. CASE SendChunk
  BY <1>0, <1>2 DEF SendChunk, receiver
<1>3. CASE FpgaReset
  BY <1>0, <1>3 DEF FpgaReset, receiver
<1>4. CASE ServiceRestart
  BY <1>0, <1>4 DEF ServiceRestart
<1>5. ASSUME NEW q \in net, Deliver(q)
      PROVE  p.src >= newest' \/ p.src \in late'
  <2>1. /\ newest' = q.src \/ newest' = newest
        /\ p \in net /\ late' = late \cup Overtaken(q)
    BY <1>5 DEF Deliver, Receive
  <2>2. p.src < q.src => p.src \in Overtaken(q)
    BY <2>1 DEF Overtaken, Before
  <2> QED BY <1>0, <2>1, <2>2
<1>6. ASSUME NEW q \in net, Lose(q)
      PROVE  p.src >= newest' \/ p.src \in late'
  BY <1>0, <1>6 DEF Lose, receiver
<1>7. CASE UNCHANGED vars
  BY <1>0, <1>7 DEF vars
<1> QED BY <1>1, <1>2, <1>3, <1>4, <1>5, <1>6, <1>7 DEF Next

LEMMA StepImplements ==
    ASSUME TypeOK, resets = 0 => WholeInv, KeepsOrder, [Next]_vars
    PROVE  [Screen!Next]_(Screen!vars)
<1> USE DEF Screen!vars, Screen!Overtaking
<1>0. resets \in Nat /\ frame \in Frames /\ newest \in Nat /\ \A p \in net : p.src \in Nat
  BY BoundsAssumption DEF TypeOK, Frames
<1>1. CASE StartFrame
  BY <1>1 DEF StartFrame, receiver
<1>2. CASE SendChunk
  <2>1. CASE chunk = ChunksPerFrame - 1
    <3>1. /\ complete' = complete \cup {frame} /\ preview' = preview /\ newest' = newest
          /\ resets' = resets /\ late' = late
      BY <1>2, <2>1 DEF SendChunk, receiver
    <3>2. Screen!FrameSent
      BY <1>0, <3>1 DEF Screen!FrameSent
    <3> QED BY <3>2 DEF Screen!Next
  <2>2. CASE chunk # ChunksPerFrame - 1
    BY <1>2, <2>2 DEF SendChunk, receiver
  <2> QED BY <2>1, <2>2
<1>3. CASE FpgaReset
  BY <1>0, <1>3 DEF FpgaReset, receiver, Screen!Next, Screen!FpgaReset
<1>4. CASE ServiceRestart
  BY <1>4 DEF ServiceRestart, sender, NoPreview, Screen!Next, Screen!Restart, Screen!Blank
<1>5. ASSUME NEW p \in net, Deliver(p)
      PROVE  Screen!Next \/ UNCHANGED Screen!vars
  <2>0. complete' = complete /\ resets' = resets
    BY <1>5 DEF Deliver, sender
  <2>4. \E fs \in SUBSET Frames : late' = late \cup fs
    <3>1. Overtaken(p) \in SUBSET Frames
      BY <1>0, BeginType DEF Overtaken
    <3> QED BY <1>5, <3>1 DEF Deliver
  <2>1. CASE Completes(p) /\ resets = 0
    <3>1. WholeInv /\ Fits(p) /\ Last(p)
      BY <1>0, <1>5, <2>1 DEF Deliver, Completes
    <3>2. preview'.image = Whole(p.src) /\ newest' = p.src
      BY <1>5, <2>1, <3>1, FitsSameFrame, FitsExtends DEF Deliver, Receive, sender
    <3>3. p.src \in complete
      <4>1. p.src = frame => p.chunk < chunk
        BY <3>1 DEF WholeInv, PacketsFresh
      <4>2. p.src = frame => chunk = ChunksPerFrame
        BY <3>1, <4>1, ProtocolAssumption DEF Last, TypeOK
      <4> QED BY <3>1, <4>2 DEF WholeInv, PacketsFresh
    <3>4. p.src >= newest \/ p.src \in late
      BY DEF KeepsOrder
    <3>5. Screen!Show(p.src)
      BY <2>0, <2>4, <3>2, <3>3, <3>4 DEF Screen!Show, Screen!Whole, Whole, Pieces
    <3> QED BY <3>3, <3>5 DEF Screen!Next
  <2>2. CASE ~Completes(p)
    <3>1. UNCHANGED <<preview, newest, complete, resets>>
      BY <1>5, <2>2 DEF Deliver, Receive, sender
    <3> QED BY <2>4, <3>1 DEF Screen!Next, Screen!ShowNothing
  <2>3. CASE resets # 0
    BY <1>0, <2>0, <2>3 DEF Screen!Next, Screen!ShowAnything
  <2> QED BY <2>1, <2>2, <2>3
<1>6. ASSUME NEW p \in net, Lose(p) PROVE UNCHANGED Screen!vars
  BY <1>6 DEF Lose, sender, receiver
<1>7. CASE UNCHANGED vars
  BY <1>7 DEF vars
<1> QED BY <1>1, <1>2, <1>3, <1>4, <1>5, <1>6, <1>7 DEF Next

\* The preview path implements PreviewScreen: until the FPGA is reset the page shows
\* only whole frames, and an older one only if the network overtook packets of it.
THEOREM Refinement == Spec => ShowsWholeFrames
<1>1. Init => Screen!Init
  BY DEF Init, Screen!Init, Screen!Blank, NoPreview
<1>2. Init => KeepsOrder
  BY DEF Init, KeepsOrder
<1>3. Spec => [](resets = 0 => WholeInv)
  BY InitWhole, WholeInductive, TypeCorrect, PTL DEF Spec
<1>4. Spec => []KeepsOrder
  BY <1>2, OrderInductive, TypeCorrect, PTL DEF Spec
<1>5. TypeOK /\ (resets = 0 => WholeInv) /\ KeepsOrder /\ [Next]_vars
        => [Screen!Next]_(Screen!vars)
  BY StepImplements
<1> QED BY <1>1, <1>3, <1>4, <1>5, TypeCorrect, PTL
    DEF Spec, ShowsWholeFrames, Screen!Spec
==============================================================================
