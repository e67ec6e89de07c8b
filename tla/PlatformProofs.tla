--------------------------- MODULE PlatformProofs ---------------------------
(***************************************************************************)
(* Proofs about five small machines the kernel stands on.                  *)
(*                                                                         *)
(* The interrupt controllers: what each chip knows while it is being set   *)
(* up is a function of how far its sequence of writes has come, and the    *)
(* chips are alike but for their lines.                                    *)
(*                                                                         *)
(* The console, of any size: the screen shows the end of what was written. *)
(* The buffer is scrolled by the width of a row, so the proof is about the *)
(* row and column of every cell.                                           *)
(*                                                                         *)
(* The table of destructors, of any size: a registration that was called   *)
(* has been cleared, or is the one being called.                           *)
(*                                                                         *)
(* The interrupt stubs, with any threads and lines: the stack of a thread  *)
(* is made of the frames of its interrupts, each where the handler for the *)
(* one below was interrupted.                                              *)
(*                                                                         *)
(* The intrusive list, of any nodes: the links stay each other's inverse,  *)
(* and clear() erases what is behind the node it was called on.            *)
(***************************************************************************)
EXTENDS Pic, Console, AtExit, Traps, IntrusiveList, TLAPS

\* What a chip has been told when k of the five port writes to it are done.
Stage(c, k, offset, imr) ==
  /\ k = 0 => c.icw = 0 /\ c.imr = imr
  /\ k = 1 => c.icw = 2
  /\ k = 2 => c.icw = 3
  /\ k = 3 => c.icw = 4
  /\ k \in {4, 5} => c.icw = 0
  /\ k \in 2..5 => c.base = offset
  /\ k = 5 => c.imr = imr

ChipRegisters == [imr : Nat, base : Nat, icw : {0, 2, 3, 4}, irr : SUBSET (0..7), isr : SUBSET Nat, link : Nat]

PicInv ==
  /\ chip \in [1..2 -> ChipRegisters] /\ pic_at \in 0..10 /\ sti \in BOOLEAN
  /\ firmware \in Mask \X Mask /\ saved_masks \in Nat \X Nat
  /\ pic_at > 0 => saved_masks = firmware
  /\ Stage(chip[1], (pic_at + 1) \div 2, offset1, firmware[1])
  /\ Stage(chip[2], pic_at \div 2, offset2, firmware[2])
  /\ sti => pic_at = 10
  /\ VectorsRemapped

-----------------------------------------------------------------------------
(* the chips *)

LEMMA WritesAre ==
  /\ Len(Writes) = 10
  /\ Writes[1] = <<1, "cmd", 17>> /\ Writes[2] = <<2, "cmd", 17>>
  /\ Writes[3] = <<1, "data", offset1>> /\ Writes[4] = <<2, "data", offset2>>
  /\ Writes[5] = <<1, "data", 4>> /\ Writes[6] = <<2, "data", 2>>
  /\ Writes[7] = <<1, "data", 1>> /\ Writes[8] = <<2, "data", 1>>
  /\ Writes[9] = <<1, "data", saved_masks[1]>> /\ Writes[10] = <<2, "data", saved_masks[2]>>
BY Zenon DEF Writes

LEMMA LinesAre ==
  ASSUME NEW irq \in Irq
  PROVE  Line(irq) \in 0..7 /\ ChipOf(irq) \in 1..2 /\ (irq < 8 <=> ChipOf(irq) = 1) /\ irq \in Nat
<1>1. irq \in 0..15
  BY PicAssumption, Zenon
<1>. QED
  BY <1>1 DEF Line, ChipOf

LEMMA CmdBegins ==
  ASSUME NEW c \in ChipRegisters
  PROVE  Cmd(c) \in ChipRegisters /\ Cmd(c).icw = 2
BY Zenon DEF ChipRegisters, Cmd

LEMMA DataTells ==
  ASSUME NEW c \in ChipRegisters, NEW v \in Nat
  PROVE  /\ Data(c, v) \in ChipRegisters
         /\ c.icw = 2 => Data(c, v).icw = 3 /\ Data(c, v).base = v
         /\ c.icw = 3 => Data(c, v).icw = 4 /\ Data(c, v).base = c.base
         /\ c.icw = 4 => Data(c, v).icw = 0 /\ Data(c, v).base = c.base
         /\ c.icw = 0 => Data(c, v).icw = 0 /\ Data(c, v).base = c.base /\ Data(c, v).imr = v
<1>1. CASE c.icw = 2
  <2>1. Data(c, v) = [c EXCEPT !.base = v, !.icw = 3]
    BY <1>1 DEF Data
  <2>2. [c EXCEPT !.base = v, !.icw = 3] \in ChipRegisters
    BY Zenon DEF ChipRegisters
  <2>3. [c EXCEPT !.base = v, !.icw = 3].icw = 3 /\ [c EXCEPT !.base = v, !.icw = 3].base = v
    BY Zenon DEF ChipRegisters
  <2>. QED
    BY <1>1, <2>1, <2>2, <2>3
<1>2. CASE c.icw = 3
  <2>1. Data(c, v) = [c EXCEPT !.link = v, !.icw = 4]
    BY <1>2 DEF Data
  <2>2. [c EXCEPT !.link = v, !.icw = 4] \in ChipRegisters
    BY Zenon DEF ChipRegisters
  <2>3. [c EXCEPT !.link = v, !.icw = 4].icw = 4 /\ [c EXCEPT !.link = v, !.icw = 4].base = c.base
    BY Zenon DEF ChipRegisters
  <2>. QED
    BY <1>2, <2>1, <2>2, <2>3
<1>3. CASE c.icw = 4
  <2>1. Data(c, v) = [c EXCEPT !.icw = 0]
    BY <1>3 DEF Data
  <2>. QED
    BY <1>3, <2>1 DEF ChipRegisters
<1>4. CASE c.icw = 0
  <2>1. Data(c, v) = [c EXCEPT !.imr = v]
    BY <1>4 DEF Data
  <2>. QED
    BY <1>4, <2>1 DEF ChipRegisters
<1>. QED
  BY <1>1, <1>2, <1>3, <1>4, Zenon DEF ChipRegisters

\* A chip that only differs in its requests and services.
Alike(c, d) == d \in ChipRegisters /\ d.imr = c.imr /\ d.base = c.base /\ d.icw = c.icw

LEMMA SetLines ==
  ASSUME NEW c \in ChipRegisters
  PROVE  /\ Alike(c, c)
         /\ \A q \in SUBSET (0..7) : Alike(c, [c EXCEPT !.irr = q])
         /\ \A s \in SUBSET Nat : Alike(c, [c EXCEPT !.isr = s])
BY Zenon DEF ChipRegisters, Alike

LEMMA ServeKeeps ==
  ASSUME NEW c \in ChipRegisters, NEW k \in Nat
  PROVE  Alike(c, Serve(c, k))
<1>1. c.isr \cup {k} \in SUBSET Nat
  BY Zenon DEF ChipRegisters
<1>. QED
  BY <1>1, SetLines, Zenon DEF Serve

LEMMA AlikeTrans ==
  ASSUME NEW c, NEW d, NEW e, Alike(c, d), Alike(d, e)
  PROVE  Alike(c, e)
BY Zenon DEF Alike

LEMMA AlikeKeeps ==
  ASSUME PicInv, chip' \in [1..2 -> ChipRegisters], Alike(chip[1], chip'[1]), Alike(chip[2], chip'[2]),
         UNCHANGED <<pic_at, saved_masks, sti, firmware>>, VectorsRemapped'
  PROVE  PicInv'
BY DEF PicInv, Alike, Stage

LEMMA PicInitial == PicInit => PicInv
<1>1. SUFFICES ASSUME PicInit PROVE PicInv
  BY Zenon
<1>2. firmware \in Mask \X Mask /\ firmware[1] \in Nat /\ firmware[2] \in Nat
  BY <1>1, PicAssumption, Zenon DEF PicInit
<1>3. chip \in [1..2 -> ChipRegisters] /\ chip[1].imr = firmware[1] /\ chip[2].imr = firmware[2]
      /\ chip[1].icw = 0 /\ chip[2].icw = 0
  <2>. DEFINE m == [imr |-> firmware[1], base |-> 8, icw |-> 0, irr |-> {}, isr |-> {}, link |-> 4]
              n == [imr |-> firmware[2], base |-> 112, icw |-> 0, irr |-> {}, isr |-> {}, link |-> 2]
  <2>1. m \in ChipRegisters /\ n \in ChipRegisters
    BY <1>2, Zenon DEF ChipRegisters
  <2>2. chip = <<m, n>>
    BY <1>1, Zenon DEF PicInit
  <2>3. m.imr = firmware[1] /\ n.imr = firmware[2] /\ m.icw = 0 /\ n.icw = 0
    BY Zenon
  <2>. HIDE DEF m, n
  <2>. QED
    BY <2>1, <2>2, <2>3
<1>4. pic_at = 0 /\ saved_masks = <<0, 0>> /\ sti = FALSE /\ taken = {}
  BY <1>1, Zenon DEF PicInit
<1>. QED
  <2>1. Stage(chip[1], (pic_at + 1) \div 2, offset1, firmware[1]) /\ Stage(chip[2], pic_at \div 2, offset2, firmware[2])
    <3>1. (pic_at + 1) \div 2 = 0 /\ pic_at \div 2 = 0
      BY <1>4
    <3>. QED
      BY <1>3, <3>1 DEF Stage
  <2>2. pic_at \in 0..10 /\ ~(pic_at > 0) /\ saved_masks \in Nat \X Nat
    BY <1>4
  <2>4. sti \in BOOLEAN /\ ~sti
    BY <1>4, Zenon
  <2>3. VectorsRemapped
    BY <1>4, Zenon DEF VectorsRemapped
  <2>. QED
    BY <1>2, <1>3, <2>1, <2>2, <2>3, <2>4, Zenon DEF PicInv

LEMMA RaiseKeeps ==
  ASSUME PicInv, NEW irq \in Irq, Raise(irq)
  PROVE  PicInv'
<1>. DEFINE p == ChipOf(irq)
            c == chip[p]
<1>1. p \in 1..2 /\ c \in ChipRegisters /\ c.irr \cup {Line(irq)} \in SUBSET (0..7)
  BY LinesAre, Zenon DEF PicInv, ChipRegisters
<1>2. chip' = [chip EXCEPT ![p] = [c EXCEPT !.irr = c.irr \cup {Line(irq)}]]
  BY <1>1, Zenon DEF Raise, PicInv
<1>3. [c EXCEPT !.irr = c.irr \cup {Line(irq)}] \in ChipRegisters /\ Alike(c, [c EXCEPT !.irr = c.irr \cup {Line(irq)}])
  BY <1>1, SetLines, Zenon DEF Alike
<1>4. \A k \in 1..2 : chip[k] \in ChipRegisters /\ Alike(chip[k], chip[k])
  BY Zenon DEF PicInv, Alike
<1>. HIDE DEF p
<1>5. chip' \in [1..2 -> ChipRegisters] /\ Alike(chip[1], chip'[1]) /\ Alike(chip[2], chip'[2])
  BY <1>1, <1>2, <1>3, <1>4 DEF PicInv
<1>6. UNCHANGED <<pic_at, saved_masks, sti, firmware, taken>>
  BY Zenon DEF Raise
<1>7. VectorsRemapped'
  BY <1>6, Zenon DEF PicInv, VectorsRemapped
<1>. QED
  BY <1>5, <1>6, <1>7, AlikeKeeps, Zenon

LEMMA AcceptKeeps ==
  ASSUME PicInv, NEW irq \in Irq, Accept(irq)
  PROVE  PicInv'
<1>. DEFINE p == ChipOf(irq)
            l == Line(irq)
<1>1. p \in 1..2 /\ l \in 0..7 /\ irq \in Nat /\ (irq < 8 <=> p = 1) /\ chip[2].link \in Nat
  BY LinesAre DEF PicInv, ChipRegisters
<1>2. \A k \in 1..2 : /\ chip[k] \in ChipRegisters /\ chip[k].irr \in SUBSET (0..7) /\ chip[k].isr \in SUBSET Nat
                      /\ Alike(chip[k], chip[k])
  BY Zenon DEF PicInv, ChipRegisters, Alike
<1>3. sti /\ pic_at = 10
  BY Zenon DEF Accept, PicInv
<1>4. chip' \in [1..2 -> ChipRegisters] /\ Alike(chip[1], chip'[1]) /\ Alike(chip[2], chip'[2])
  <2>. DEFINE new(k) == IF k = p THEN Serve([chip[k] EXCEPT !.irr = @ \ {l}], l)
                        ELSE IF irq >= 8 THEN Serve(chip[k], chip[2].link) ELSE chip[k]
  <2>1. chip' = [k \in 1..2 |-> new(k)]
    BY Zenon DEF Accept
  <2>2. ASSUME NEW k \in 1..2 PROVE Alike(chip[k], new(k))
    <3>1. CASE k = p
      <4>. DEFINE d == [chip[k] EXCEPT !.irr = chip[k].irr \ {l}]
      <4>1. chip[k] \in ChipRegisters /\ chip[k].irr \ {l} \in SUBSET (0..7)
        BY <1>2, Zenon
      <4>2. Alike(chip[k], d) /\ d \in ChipRegisters
        BY <4>1, SetLines, Zenon DEF Alike
      <4>3. Alike(d, Serve(d, l)) /\ new(k) = Serve(d, l)
        BY <1>1, <3>1, <4>2, ServeKeeps
      <4>. HIDE DEF d, new
      <4>. QED
        BY <4>2, <4>3, AlikeTrans, Zenon
    <3>2. CASE k # p
      <4>1. Alike(chip[k], Serve(chip[k], chip[2].link)) /\ Alike(chip[k], chip[k])
        BY <1>1, <1>2, ServeKeeps, Zenon
      <4>. QED
        BY <3>2, <4>1, Zenon
    <3>. QED
      BY <3>1, <3>2, Zenon
  <2>. HIDE DEF new
  <2>. QED
    BY <2>1, <2>2 DEF Alike
<1>5. UNCHANGED <<pic_at, saved_masks, sti, firmware>>
  BY Zenon DEF Accept
<1>6. VectorsRemapped'
  <2>1. chip[1].base = offset1 /\ chip[2].base = offset2 /\ chip[1].imr = firmware[1] /\ chip[2].imr = firmware[2]
    <3>1. (pic_at + 1) \div 2 = 5 /\ pic_at \div 2 = 5
      BY <1>3
    <3>. QED
      BY <3>1 DEF PicInv, Stage
  <2>2. chip[p].base = (IF irq < 8 THEN offset1 ELSE offset2) /\ chip[p].imr = firmware[p]
    <3>. HIDE DEF p
    <3>. QED
      BY <1>1, <2>1
  <2>3. taken' = taken \cup {<<irq, chip[p].base + l>>} /\ ~Bit(chip[p].imr, l)
    BY Zenon DEF Accept, Passes
  <2>4. ASSUME NEW x \in taken'
        PROVE  x[2] = (IF x[1] < 8 THEN offset1 ELSE offset2) + Line(x[1]) /\ ~Bit(firmware[ChipOf(x[1])], Line(x[1]))
    <3>1. CASE x \in taken
      BY <3>1, Zenon DEF PicInv, VectorsRemapped
    <3>2. CASE x = <<irq, chip[p].base + l>>
      <4>1. x[1] = irq /\ x[2] = chip[p].base + l
        BY <3>2, Zenon
      <4>. QED
        BY <2>2, <2>3, <4>1, Zenon
    <3>. QED
      BY <2>3, <2>4, <3>1, <3>2, Zenon
  <2>. QED
    BY <1>5, <2>4, Zenon DEF VectorsRemapped
<1>. QED
  BY <1>4, <1>5, <1>6, AlikeKeeps, Zenon

LEMMA EoiKeeps ==
  ASSUME PicInv, eoi(0)
  PROVE  PicInv'
<1>. DEFINE h == {k \in chip[1].isr : \E j \in chip[1].isr : j < k}
<1>1. chip[1] \in ChipRegisters /\ chip[2] \in ChipRegisters /\ h \in SUBSET Nat
  BY DEF PicInv, ChipRegisters
<1>2. chip' = [chip EXCEPT ![1] = [chip[1] EXCEPT !.isr = h]]
  BY DEF eoi, PicInv
<1>3. Alike(chip[1], [chip[1] EXCEPT !.isr = h]) /\ Alike(chip[2], chip[2])
  BY <1>1, SetLines, Zenon
<1>. HIDE DEF h
<1>4. chip' \in [1..2 -> ChipRegisters] /\ Alike(chip[1], chip'[1]) /\ Alike(chip[2], chip'[2])
  BY <1>2, <1>3 DEF PicInv, Alike
<1>5. UNCHANGED <<pic_at, saved_masks, sti, firmware, taken>>
  BY Zenon DEF eoi
<1>6. VectorsRemapped'
  BY <1>5, Zenon DEF PicInv, VectorsRemapped
<1>. QED
  BY <1>4, <1>5, <1>6, AlikeKeeps, Zenon

\* A chip takes the words one after the other.
LEMMA CmdStage ==
  ASSUME NEW c \in ChipRegisters, NEW offset, NEW imr
  PROVE  Cmd(c) \in ChipRegisters /\ Stage(Cmd(c), 1, offset, imr)
BY CmdBegins DEF Stage

LEMMA DataStage ==
  ASSUME NEW c \in ChipRegisters, NEW v \in Nat, NEW offset, NEW imr
  PROVE  /\ Data(c, v) \in ChipRegisters
         /\ Stage(c, 1, offset, imr) /\ v = offset => Stage(Data(c, v), 2, offset, imr)
         /\ Stage(c, 2, offset, imr) => Stage(Data(c, v), 3, offset, imr)
         /\ Stage(c, 3, offset, imr) => Stage(Data(c, v), 4, offset, imr)
         /\ Stage(c, 4, offset, imr) /\ v = imr => Stage(Data(c, v), 5, offset, imr)
<1>. DEFINE d == Data(c, v)
<1>1. /\ d \in ChipRegisters
      /\ c.icw = 2 => d.icw = 3 /\ d.base = v
      /\ c.icw = 3 => d.icw = 4 /\ d.base = c.base
      /\ c.icw = 4 => d.icw = 0 /\ d.base = c.base
      /\ c.icw = 0 => d.icw = 0 /\ d.base = c.base /\ d.imr = v
  BY DataTells, Zenon
<1>. HIDE DEF d
<1>2. Stage(c, 1, offset, imr) /\ v = offset => Stage(d, 2, offset, imr)
  BY <1>1 DEF Stage
<1>3. Stage(c, 2, offset, imr) => Stage(d, 3, offset, imr)
  BY <1>1 DEF Stage
<1>4. Stage(c, 3, offset, imr) => Stage(d, 4, offset, imr)
  BY <1>1 DEF Stage
<1>5. Stage(c, 4, offset, imr) /\ v = imr => Stage(d, 5, offset, imr)
  BY <1>1 DEF Stage
<1>. QED
  BY <1>1, <1>2, <1>3, <1>4, <1>5, Zenon DEF d

LEMMA CmdWrite ==
  ASSUME pic_init, NEW p \in 1..2, NEW v, Writes[pic_at + 1] = <<p, "cmd", v>>
  PROVE  chip' = [chip EXCEPT ![p] = Cmd(chip[p])]
<1>. DEFINE w == Writes[pic_at + 1]
<1>1. chip' = [chip EXCEPT ![w[1]] = IF w[2] = "cmd" THEN Cmd(chip[w[1]]) ELSE Data(chip[w[1]], w[3])]
  BY Zenon DEF pic_init
<1>2. w[1] = p /\ w[2] = "cmd"
  OBVIOUS
<1>. HIDE DEF w
<1>. QED
  BY <1>1, <1>2, Zenon

LEMMA DataWrite ==
  ASSUME pic_init, NEW p \in 1..2, NEW v, Writes[pic_at + 1] = <<p, "data", v>>
  PROVE  chip' = [chip EXCEPT ![p] = Data(chip[p], v)]
<1>. DEFINE w == Writes[pic_at + 1]
<1>1. chip' = [chip EXCEPT ![w[1]] = IF w[2] = "cmd" THEN Cmd(chip[w[1]]) ELSE Data(chip[w[1]], w[3])]
  BY Zenon DEF pic_init
<1>2. w[1] = p /\ w[2] # "cmd" /\ w[3] = v
  OBVIOUS
<1>. HIDE DEF w
<1>. QED
  BY <1>1, <1>2, Zenon

\* What is left to show of a port write.
LEMMA StageKeeps ==
  ASSUME PicInv, chip' \in [1..2 -> ChipRegisters], NEW q \in 1..10, pic_at' = q, NEW m, NEW n,
         (q + 1) \div 2 = m, q \div 2 = n,
         saved_masks' = firmware, UNCHANGED <<sti, firmware, taken>>, ~sti,
         Stage(chip'[1], m, offset1, firmware[1]), Stage(chip'[2], n, offset2, firmware[2])
  PROVE  PicInv'
<1>1. VectorsRemapped'
  BY Zenon DEF PicInv, VectorsRemapped
<1>2. saved_masks' \in Nat \X Nat /\ firmware' \in Mask \X Mask
  BY PicAssumption, Zenon DEF PicInv
<1>3. pic_at' \in 0..10 /\ sti' \in BOOLEAN /\ ~sti'
  BY DEF PicInv
<1>4. Stage(chip'[1], (pic_at' + 1) \div 2, offset1, firmware'[1]) /\ Stage(chip'[2], pic_at' \div 2, offset2, firmware'[2])
  BY Zenon
<1>. QED
  BY <1>1, <1>2, <1>3, <1>4, Zenon DEF PicInv

LEMMA PicInitKeeps ==
  ASSUME PicInv, pic_init
  PROVE  PicInv'
<1>1. chip[1] \in ChipRegisters /\ chip[2] \in ChipRegisters /\ pic_at \in 0..9 /\ ~sti
  BY WritesAre DEF PicInv, pic_init
<1>2. offset1 \in Nat /\ offset2 \in Nat /\ saved_masks[1] \in Nat /\ saved_masks[2] \in Nat
  BY PicAssumption, Zenon DEF PicInv
<1>5. firmware[1] \in Nat /\ firmware[2] \in Nat /\ firmware = <<firmware[1], firmware[2]>>
  <2>1. firmware \in Mask \X Mask /\ Mask \subseteq Nat
    BY PicAssumption, Zenon DEF PicInv
  <2>2. firmware[1] \in Mask /\ firmware[2] \in Mask
    BY <2>1, Zenon
  <2>3. firmware = <<firmware[1], firmware[2]>>
    BY <2>1
  <2>. QED
    BY <2>1, <2>2, <2>3, Zenon
<1>3. pic_at > 0 => saved_masks = firmware
  BY Zenon DEF PicInv
<1>4. UNCHANGED <<sti, firmware, taken>> /\ saved_masks' = firmware
  <2>1. CASE pic_at = 0
    <3>1. saved_masks' = <<chip[1].imr, chip[2].imr>>
      BY <2>1, Zenon DEF pic_init, Save, SavesAt
    <3>2. (pic_at + 1) \div 2 = 0 /\ pic_at \div 2 = 0
      BY <2>1
    <3>3. chip[1].imr = firmware[1] /\ chip[2].imr = firmware[2]
      BY <3>2, Zenon DEF PicInv, Stage
    <3>. QED
      BY <1>5, <3>1, <3>3, Zenon DEF pic_init
  <2>2. CASE pic_at # 0
    BY <1>1, <1>3, <2>2 DEF pic_init, Save, SavesAt
  <2>. QED
    BY <2>1, <2>2, Zenon
<1>10. CASE pic_at = 0
  <2>1. Writes[pic_at + 1] = <<1, "cmd", 17>>
    BY <1>10, WritesAre
  <2>2. chip' = [chip EXCEPT ![1] = Cmd(chip[1])]
    BY <2>1, CmdWrite
  <2>3. pic_at' = 1 /\ (0 + 1) \div 2 = 0 /\ 0 \div 2 = 0 /\ (1 + 1) \div 2 = 1 /\ 1 \div 2 = 0
    BY <1>10 DEF pic_init
  <2>4. Stage(chip[1], 0, offset1, firmware[1]) /\ Stage(chip[2], 0, offset2, firmware[2])
    BY <1>10, <2>3, Zenon DEF PicInv
  <2>5. Cmd(chip[1]) \in ChipRegisters /\ Stage(Cmd(chip[1]), 1, offset1, firmware[1])
    BY <1>1, <1>2, <2>4, CmdStage, Zenon
  <2>6. chip' \in [1..2 -> ChipRegisters] /\ chip'[1] = Cmd(chip[1]) /\ chip'[2] = chip[2]
    BY <2>2, <2>5 DEF PicInv
  <2>7. Stage(chip'[1], 1, offset1, firmware[1]) /\ Stage(chip'[2], 0, offset2, firmware[2])
    BY <2>4, <2>5, <2>6, Zenon
  <2>. QED
    BY <1>1, <1>4, <2>3, <2>6, <2>7, StageKeeps
<1>11. CASE pic_at = 1
  <2>1. Writes[pic_at + 1] = <<2, "cmd", 17>>
    BY <1>11, WritesAre
  <2>2. chip' = [chip EXCEPT ![2] = Cmd(chip[2])]
    BY <2>1, CmdWrite
  <2>3. pic_at' = 2 /\ (1 + 1) \div 2 = 1 /\ 1 \div 2 = 0 /\ (2 + 1) \div 2 = 1 /\ 2 \div 2 = 1
    BY <1>11 DEF pic_init
  <2>4. Stage(chip[2], 0, offset2, firmware[2]) /\ Stage(chip[1], 1, offset1, firmware[1])
    BY <1>11, <2>3, Zenon DEF PicInv
  <2>5. Cmd(chip[2]) \in ChipRegisters /\ Stage(Cmd(chip[2]), 1, offset2, firmware[2])
    BY <1>1, <1>2, <2>4, CmdStage, Zenon
  <2>6. chip' \in [1..2 -> ChipRegisters] /\ chip'[2] = Cmd(chip[2]) /\ chip'[1] = chip[1]
    BY <2>2, <2>5 DEF PicInv
  <2>7. Stage(chip'[1], 1, offset1, firmware[1]) /\ Stage(chip'[2], 1, offset2, firmware[2])
    BY <2>4, <2>5, <2>6, Zenon
  <2>. QED
    BY <1>1, <1>4, <2>3, <2>6, <2>7, StageKeeps
<1>12. CASE pic_at = 2
  <2>1. Writes[pic_at + 1] = <<1, "data", offset1>>
    BY <1>12, WritesAre
  <2>2. chip' = [chip EXCEPT ![1] = Data(chip[1], offset1)]
    BY <2>1, DataWrite
  <2>3. pic_at' = 3 /\ (2 + 1) \div 2 = 1 /\ 2 \div 2 = 1 /\ (3 + 1) \div 2 = 2 /\ 3 \div 2 = 1
    BY <1>12 DEF pic_init
  <2>4. Stage(chip[1], 1, offset1, firmware[1]) /\ Stage(chip[2], 1, offset2, firmware[2])
    BY <1>12, <2>3, Zenon DEF PicInv
  <2>5. Data(chip[1], offset1) \in ChipRegisters /\ Stage(Data(chip[1], offset1), 2, offset1, firmware[1])
    BY <1>1, <1>2, <2>4, DataStage, Zenon
  <2>6. chip' \in [1..2 -> ChipRegisters] /\ chip'[1] = Data(chip[1], offset1) /\ chip'[2] = chip[2]
    BY <2>2, <2>5 DEF PicInv
  <2>7. Stage(chip'[1], 2, offset1, firmware[1]) /\ Stage(chip'[2], 1, offset2, firmware[2])
    BY <2>4, <2>5, <2>6, Zenon
  <2>. QED
    BY <1>1, <1>4, <2>3, <2>6, <2>7, StageKeeps
<1>13. CASE pic_at = 3
  <2>1. Writes[pic_at + 1] = <<2, "data", offset2>>
    BY <1>13, WritesAre
  <2>2. chip' = [chip EXCEPT ![2] = Data(chip[2], offset2)]
    BY <2>1, DataWrite
  <2>3. pic_at' = 4 /\ (3 + 1) \div 2 = 2 /\ 3 \div 2 = 1 /\ (4 + 1) \div 2 = 2 /\ 4 \div 2 = 2
    BY <1>13 DEF pic_init
  <2>4. Stage(chip[2], 1, offset2, firmware[2]) /\ Stage(chip[1], 2, offset1, firmware[1])
    BY <1>13, <2>3, Zenon DEF PicInv
  <2>5. Data(chip[2], offset2) \in ChipRegisters /\ Stage(Data(chip[2], offset2), 2, offset2, firmware[2])
    BY <1>1, <1>2, <2>4, DataStage, Zenon
  <2>6. chip' \in [1..2 -> ChipRegisters] /\ chip'[2] = Data(chip[2], offset2) /\ chip'[1] = chip[1]
    BY <2>2, <2>5 DEF PicInv
  <2>7. Stage(chip'[1], 2, offset1, firmware[1]) /\ Stage(chip'[2], 2, offset2, firmware[2])
    BY <2>4, <2>5, <2>6, Zenon
  <2>. QED
    BY <1>1, <1>4, <2>3, <2>6, <2>7, StageKeeps
<1>14. CASE pic_at = 4
  <2>1. Writes[pic_at + 1] = <<1, "data", 4>>
    BY <1>14, WritesAre
  <2>2. chip' = [chip EXCEPT ![1] = Data(chip[1], 4)]
    BY <2>1, DataWrite
  <2>3. pic_at' = 5 /\ (4 + 1) \div 2 = 2 /\ 4 \div 2 = 2 /\ (5 + 1) \div 2 = 3 /\ 5 \div 2 = 2
    BY <1>14 DEF pic_init
  <2>4. Stage(chip[1], 2, offset1, firmware[1]) /\ Stage(chip[2], 2, offset2, firmware[2])
    BY <1>14, <2>3, Zenon DEF PicInv
  <2>5. Data(chip[1], 4) \in ChipRegisters /\ Stage(Data(chip[1], 4), 3, offset1, firmware[1])
    BY <1>1, <1>2, <2>4, DataStage, Zenon
  <2>6. chip' \in [1..2 -> ChipRegisters] /\ chip'[1] = Data(chip[1], 4) /\ chip'[2] = chip[2]
    BY <2>2, <2>5 DEF PicInv
  <2>7. Stage(chip'[1], 3, offset1, firmware[1]) /\ Stage(chip'[2], 2, offset2, firmware[2])
    BY <2>4, <2>5, <2>6, Zenon
  <2>. QED
    BY <1>1, <1>4, <2>3, <2>6, <2>7, StageKeeps
<1>15. CASE pic_at = 5
  <2>1. Writes[pic_at + 1] = <<2, "data", 2>>
    BY <1>15, WritesAre
  <2>2. chip' = [chip EXCEPT ![2] = Data(chip[2], 2)]
    BY <2>1, DataWrite
  <2>3. pic_at' = 6 /\ (5 + 1) \div 2 = 3 /\ 5 \div 2 = 2 /\ (6 + 1) \div 2 = 3 /\ 6 \div 2 = 3
    BY <1>15 DEF pic_init
  <2>4. Stage(chip[2], 2, offset2, firmware[2]) /\ Stage(chip[1], 3, offset1, firmware[1])
    BY <1>15, <2>3, Zenon DEF PicInv
  <2>5. Data(chip[2], 2) \in ChipRegisters /\ Stage(Data(chip[2], 2), 3, offset2, firmware[2])
    BY <1>1, <1>2, <2>4, DataStage, Zenon
  <2>6. chip' \in [1..2 -> ChipRegisters] /\ chip'[2] = Data(chip[2], 2) /\ chip'[1] = chip[1]
    BY <2>2, <2>5 DEF PicInv
  <2>7. Stage(chip'[1], 3, offset1, firmware[1]) /\ Stage(chip'[2], 3, offset2, firmware[2])
    BY <2>4, <2>5, <2>6, Zenon
  <2>. QED
    BY <1>1, <1>4, <2>3, <2>6, <2>7, StageKeeps
<1>16. CASE pic_at = 6
  <2>1. Writes[pic_at + 1] = <<1, "data", 1>>
    BY <1>16, WritesAre
  <2>2. chip' = [chip EXCEPT ![1] = Data(chip[1], 1)]
    BY <2>1, DataWrite
  <2>3. pic_at' = 7 /\ (6 + 1) \div 2 = 3 /\ 6 \div 2 = 3 /\ (7 + 1) \div 2 = 4 /\ 7 \div 2 = 3
    BY <1>16 DEF pic_init
  <2>4. Stage(chip[1], 3, offset1, firmware[1]) /\ Stage(chip[2], 3, offset2, firmware[2])
    BY <1>16, <2>3, Zenon DEF PicInv
  <2>5. Data(chip[1], 1) \in ChipRegisters /\ Stage(Data(chip[1], 1), 4, offset1, firmware[1])
    BY <1>1, <1>2, <2>4, DataStage, Zenon
  <2>6. chip' \in [1..2 -> ChipRegisters] /\ chip'[1] = Data(chip[1], 1) /\ chip'[2] = chip[2]
    BY <2>2, <2>5 DEF PicInv
  <2>7. Stage(chip'[1], 4, offset1, firmware[1]) /\ Stage(chip'[2], 3, offset2, firmware[2])
    BY <2>4, <2>5, <2>6, Zenon
  <2>. QED
    BY <1>1, <1>4, <2>3, <2>6, <2>7, StageKeeps
<1>17. CASE pic_at = 7
  <2>1. Writes[pic_at + 1] = <<2, "data", 1>>
    BY <1>17, WritesAre
  <2>2. chip' = [chip EXCEPT ![2] = Data(chip[2], 1)]
    BY <2>1, DataWrite
  <2>3. pic_at' = 8 /\ (7 + 1) \div 2 = 4 /\ 7 \div 2 = 3 /\ (8 + 1) \div 2 = 4 /\ 8 \div 2 = 4
    BY <1>17 DEF pic_init
  <2>4. Stage(chip[2], 3, offset2, firmware[2]) /\ Stage(chip[1], 4, offset1, firmware[1])
    BY <1>17, <2>3, Zenon DEF PicInv
  <2>5. Data(chip[2], 1) \in ChipRegisters /\ Stage(Data(chip[2], 1), 4, offset2, firmware[2])
    BY <1>1, <1>2, <2>4, DataStage, Zenon
  <2>6. chip' \in [1..2 -> ChipRegisters] /\ chip'[2] = Data(chip[2], 1) /\ chip'[1] = chip[1]
    BY <2>2, <2>5 DEF PicInv
  <2>7. Stage(chip'[1], 4, offset1, firmware[1]) /\ Stage(chip'[2], 4, offset2, firmware[2])
    BY <2>4, <2>5, <2>6, Zenon
  <2>. QED
    BY <1>1, <1>4, <2>3, <2>6, <2>7, StageKeeps
<1>18. CASE pic_at = 8
  <2>1. Writes[pic_at + 1] = <<1, "data", saved_masks[1]>>
    BY <1>18, WritesAre
  <2>2. chip' = [chip EXCEPT ![1] = Data(chip[1], saved_masks[1])]
    BY <2>1, DataWrite
  <2>3. pic_at' = 9 /\ (8 + 1) \div 2 = 4 /\ 8 \div 2 = 4 /\ (9 + 1) \div 2 = 5 /\ 9 \div 2 = 4
    BY <1>18 DEF pic_init
  <2>4. Stage(chip[1], 4, offset1, firmware[1]) /\ Stage(chip[2], 4, offset2, firmware[2])
    BY <1>18, <2>3, Zenon DEF PicInv
  <2>5. Data(chip[1], saved_masks[1]) \in ChipRegisters /\ Stage(Data(chip[1], saved_masks[1]), 5, offset1, firmware[1])
    BY <1>1, <1>2, <1>3, <1>18, <2>4, DataStage
  <2>6. chip' \in [1..2 -> ChipRegisters] /\ chip'[1] = Data(chip[1], saved_masks[1]) /\ chip'[2] = chip[2]
    BY <2>2, <2>5 DEF PicInv
  <2>7. Stage(chip'[1], 5, offset1, firmware[1]) /\ Stage(chip'[2], 4, offset2, firmware[2])
    BY <2>4, <2>5, <2>6, Zenon
  <2>. QED
    BY <1>1, <1>4, <2>3, <2>6, <2>7, StageKeeps
<1>19. CASE pic_at = 9
  <2>1. Writes[pic_at + 1] = <<2, "data", saved_masks[2]>>
    BY <1>19, WritesAre
  <2>2. chip' = [chip EXCEPT ![2] = Data(chip[2], saved_masks[2])]
    BY <2>1, DataWrite
  <2>3. pic_at' = 10 /\ (9 + 1) \div 2 = 5 /\ 9 \div 2 = 4 /\ (10 + 1) \div 2 = 5 /\ 10 \div 2 = 5
    BY <1>19 DEF pic_init
  <2>4. Stage(chip[2], 4, offset2, firmware[2]) /\ Stage(chip[1], 5, offset1, firmware[1])
    BY <1>19, <2>3, Zenon DEF PicInv
  <2>5. Data(chip[2], saved_masks[2]) \in ChipRegisters /\ Stage(Data(chip[2], saved_masks[2]), 5, offset2, firmware[2])
    BY <1>1, <1>2, <1>3, <1>19, <2>4, DataStage
  <2>6. chip' \in [1..2 -> ChipRegisters] /\ chip'[2] = Data(chip[2], saved_masks[2]) /\ chip'[1] = chip[1]
    BY <2>2, <2>5 DEF PicInv
  <2>7. Stage(chip'[1], 5, offset1, firmware[1]) /\ Stage(chip'[2], 5, offset2, firmware[2])
    BY <2>4, <2>5, <2>6, Zenon
  <2>. QED
    BY <1>1, <1>4, <2>3, <2>6, <2>7, StageKeeps
<1>. QED
  BY <1>1, <1>10, <1>11, <1>12, <1>13, <1>14, <1>15, <1>16, <1>17, <1>18, <1>19

\* Setting up the interrupt controllers keeps the masks of the firmware, and every
\* interrupt the CPU is given comes with the vector of its line, wherever in init()
\* devices raise their lines and whatever the masks and offsets are (pic.cc).
THEOREM Remapped == PicSpec => []RemapExact
<1>1. PicInit => PicInv
  BY PicInitial, Zenon
<1>2. PicInv /\ [PicNext]_picVars => PicInv'
  <2>1. SUFFICES ASSUME PicInv, [PicNext]_picVars PROVE PicInv'
    BY Zenon
  <2>2. CASE pic_init
    BY <2>1, <2>2, PicInitKeeps, Zenon
  <2>3. CASE EnableInterrupts
    <3>1. UNCHANGED <<chip, pic_at, saved_masks, firmware, taken>> /\ sti' = TRUE /\ pic_at = 10
      BY <2>3, WritesAre, Zenon DEF EnableInterrupts, SetUp
    <3>2. VectorsRemapped'
      BY <2>1, <3>1, Zenon DEF PicInv, VectorsRemapped
    <3>. QED
      BY <2>1, <3>1, <3>2 DEF PicInv, Stage
  <2>4. CASE eoi(0)
    BY <2>1, <2>4, EoiKeeps, Zenon
  <2>5. ASSUME NEW irq \in Irq, Raise(irq) \/ Accept(irq) PROVE PicInv'
    BY <2>1, <2>5, RaiseKeeps, AcceptKeeps, Zenon
  <2>6. CASE UNCHANGED picVars
    <3>1. UNCHANGED <<chip, pic_at, saved_masks, sti, firmware, taken>>
      BY <2>6, Zenon DEF picVars
    <3>2. VectorsRemapped'
      BY <2>1, <3>1, Zenon DEF PicInv, VectorsRemapped
    <3>. QED
      BY <2>1, <3>1, <3>2 DEF PicInv, Stage
  <2>. QED
    BY <2>1, <2>2, <2>3, <2>4, <2>5, <2>6, Zenon DEF PicNext
<1>3. PicInv => RemapExact
  <2>1. SUFFICES ASSUME PicInv PROVE MaskPreserved /\ VectorsRemapped
    BY Zenon DEF RemapExact
  <2>2. SUFFICES ASSUME pic_at = 10 PROVE \A k \in 1..2 : chip[k].imr = firmware[k]
    BY <2>1, WritesAre, Zenon DEF MaskPreserved, PicInv
  <2>3. (pic_at + 1) \div 2 = 5 /\ pic_at \div 2 = 5
    BY <2>2
  <2>4. chip[1].imr = firmware[1] /\ chip[2].imr = firmware[2]
    BY <2>1, <2>3, Zenon DEF PicInv, Stage
  <2>. QED
    BY <2>4
<1>. QED
  BY <1>1, <1>2, <1>3, PTL DEF PicSpec

-----------------------------------------------------------------------------
(* The console: cells are pairs of a row and a column. *)

\* The cell of row r and column c is number CONSOLE_WIDTH * r + c.
LEMMA CellIs ==
  ASSUME NEW r \in 0..(CONSOLE_HEIGHT - 1), NEW c \in 0..(CONSOLE_WIDTH - 1)
  PROVE  /\ CONSOLE_WIDTH * r + c \in Cell
         /\ (CONSOLE_WIDTH * r + c) \div CONSOLE_WIDTH = r
         /\ (CONSOLE_WIDTH * r + c) % CONSOLE_WIDTH = c
<1> DEFINE W == CONSOLE_WIDTH
           H == CONSOLE_HEIGHT
<1>1. W \in Nat \ {0} /\ H \in Nat \ {0}
  BY ConsoleAssumption, Zenon
<1> HIDE DEF W, H
<1>2. r \in 0..(H - 1) /\ c \in 0..(W - 1)
  BY Zenon DEF W, H
<1>3. W * r <= W * (H - 1)
  BY <1>1, <1>2
<1>4. W * (H - 1) = W * H - W
  BY <1>1
<1>5. W * r + c \in 0..(W * H - 1)
  BY <1>1, <1>2, <1>3, <1>4
<1>6. (W * r + c) \div W = r /\ (W * r + c) % W = c
  BY <1>1, <1>2
<1> QED BY <1>5, <1>6, Zenon DEF Cell, W, H

\* Every cell has a row and a column.
LEMMA CellHas ==
  ASSUME NEW i \in Cell
  PROVE  /\ i \in Nat
         /\ i \div CONSOLE_WIDTH \in 0..(CONSOLE_HEIGHT - 1)
         /\ i % CONSOLE_WIDTH \in 0..(CONSOLE_WIDTH - 1)
         /\ i = CONSOLE_WIDTH * (i \div CONSOLE_WIDTH) + (i % CONSOLE_WIDTH)
<1> DEFINE W == CONSOLE_WIDTH
           H == CONSOLE_HEIGHT
           q == i \div W
<1>1. W \in Nat \ {0} /\ H \in Nat \ {0}
  BY ConsoleAssumption, Zenon
<1>2. i \in 0..(W * H - 1)
  BY Zenon DEF Cell
<1> HIDE DEF W, H
<1>3. i \in Nat /\ q \in Nat /\ i % W \in 0..(W - 1) /\ i = W * q + (i % W)
  BY <1>1, <1>2
<1> HIDE DEF q
<1>4. ASSUME q >= H PROVE FALSE
  <2>1. W * q >= W * H
    BY <1>1, <1>3, <1>4
  <2> QED BY <1>1, <1>2, <1>3, <2>1
<1>5. q \in 0..(H - 1)
  BY <1>1, <1>3, <1>4
<1> QED BY <1>3, <1>5, Zenon DEF W, H, q

\* The cell below one is in the next row, unless that one is in the last row.
LEMMA CellBelow ==
  ASSUME NEW i \in Cell
  PROVE  /\ (i + CONSOLE_WIDTH \in Cell) <=> (i \div CONSOLE_WIDTH + 1 < CONSOLE_HEIGHT)
         /\ (i + CONSOLE_WIDTH) \div CONSOLE_WIDTH = i \div CONSOLE_WIDTH + 1
         /\ (i + CONSOLE_WIDTH) % CONSOLE_WIDTH = i % CONSOLE_WIDTH
<1> DEFINE W == CONSOLE_WIDTH
           H == CONSOLE_HEIGHT
           q == i \div W
           m == i % W
<1>1. W \in Nat \ {0} /\ H \in Nat \ {0}
  BY ConsoleAssumption
<1>2. i \in Nat /\ q \in 0..(H - 1) /\ m \in 0..(W - 1) /\ i = W * q + m
  BY CellHas, Zenon
<1>3. Cell = 0..(W * H - 1)
  BY Zenon DEF Cell
<1> HIDE DEF W, H, q, m
<1>4. i + W = W * (q + 1) + m
  BY <1>1, <1>2
<1>5. (i + W) \div W = q + 1 /\ (i + W) % W = m
  BY <1>1, <1>2, <1>4
<1>6. CASE q + 1 < H
  <2>1. W * (q + 1) <= W * (H - 1)
    BY <1>1, <1>2, <1>6
  <2>2. W * (H - 1) = W * H - W
    BY <1>1
  <2> QED BY <1>1, <1>2, <1>3, <1>4, <1>5, <1>6, <2>1, <2>2, SMTT(30) DEF W, H, q, m
<1>7. CASE q + 1 = H
  <2>1. i + W >= W * H
    BY <1>1, <1>2, <1>4, <1>7
  <2> QED BY <1>1, <1>2, <1>3, <1>5, <1>7, <2>1 DEF W, H, q, m
<1> QED BY <1>1, <1>2, <1>6, <1>7

\* A sheet of rows.
IsSheet(s) == /\ s \in Seq([0..(CONSOLE_WIDTH - 1) -> Char \cup {EmptyChar}]) /\ Len(s) >= 1

\* Row of the screen in which the last row of a sheet is.
LastAt(s) == Len(s) - Top(s) - 1

LEMMA TopIs ==
  ASSUME NEW s, IsSheet(s)
  PROVE  /\ Len(s) \in Nat /\ Top(s) \in Nat /\ LastAt(s) \in 0..(CONSOLE_HEIGHT - 1)
         /\ Top(s) # 0 => LastAt(s) = CONSOLE_HEIGHT - 1
  BY ConsoleAssumption DEF IsSheet, Top, LastAt

\* A character written in the buffer is the one written on the sheet.
LEMMA PutShows ==
  ASSUME NEW s, IsSheet(s), NEW k \in 0..(CONSOLE_WIDTH - 1), NEW c \in Char
  PROVE  LET t == [s EXCEPT ![Len(s)] = [@ EXCEPT ![k] = c]]
         IN  /\ IsSheet(t) /\ Len(t) = Len(s) /\ Top(t) = Top(s)
             /\ [LastRows(s) EXCEPT ![CONSOLE_WIDTH * LastAt(s) + k] = c] = LastRows(t)
<1> DEFINE t == [s EXCEPT ![Len(s)] = [@ EXCEPT ![k] = c]]
           at == CONSOLE_WIDTH * LastAt(s) + k
           b == [LastRows(s) EXCEPT ![at] = c]
           R == [0..(CONSOLE_WIDTH - 1) -> Char \cup {EmptyChar}]
<1>1. /\ Len(s) \in Nat /\ Top(s) \in Nat /\ LastAt(s) \in 0..(CONSOLE_HEIGHT - 1)
      /\ LastAt(s) = Len(s) - Top(s) - 1
  BY TopIs, Zenon DEF LastAt
<1>2. s \in Seq(R) /\ Len(s) >= 1
  BY Zenon DEF IsSheet
<1>3. s[Len(s)] \in R
  BY <1>1, <1>2
<1>4. [s[Len(s)] EXCEPT ![k] = c] \in R
  BY <1>3, Zenon
<1>5. t \in Seq(R) /\ Len(t) = Len(s)
      /\ \A j \in 1..Len(s) : t[j] = IF j = Len(s) THEN [s[Len(s)] EXCEPT ![k] = c] ELSE s[j]
  BY <1>1, <1>2, <1>4
<1>6. IsSheet(t) /\ Top(t) = Top(s)
  BY <1>2, <1>5, Zenon DEF IsSheet, Top
<1>7. at \in Cell /\ at \div CONSOLE_WIDTH = LastAt(s) /\ at % CONSOLE_WIDTH = k
  BY <1>1, CellIs, Zenon
<1>8. ASSUME NEW i \in Cell PROVE b[i] = LastRows(t)[i]
  <2> DEFINE q == i \div CONSOLE_WIDTH
             m == i % CONSOLE_WIDTH
  <2>1. /\ q \in 0..(CONSOLE_HEIGHT - 1) /\ m \in 0..(CONSOLE_WIDTH - 1)
        /\ i = CONSOLE_WIDTH * q + m
    BY CellHas, Zenon
  <2>2. LastRows(t)[i] = Row(t, Top(s) + q + 1)[m] /\ LastRows(s)[i] = Row(s, Top(s) + q + 1)[m]
    BY <1>6, Zenon DEF LastRows
  <2>3. b[i] = IF i = at THEN c ELSE LastRows(s)[i]
    BY <1>7, Zenon DEF LastRows
  <2>4. i = at <=> (q = LastAt(s) /\ m = k)
    BY <1>7, <2>1, Zenon
  <2> HIDE DEF q, m, b, at, t
  <2>5. CASE q = LastAt(s)
    <3>1. Top(s) + q + 1 = Len(s)
      BY <1>1, <2>5
    <3>2. Row(t, Top(s) + q + 1) = t[Len(s)] /\ Row(s, Top(s) + q + 1) = s[Len(s)]
      BY <1>1, <1>5, <3>1 DEF Row
    <3>3. t[Len(s)][m] = IF m = k THEN c ELSE s[Len(s)][m]
      <4>1. t[Len(s)] = [s[Len(s)] EXCEPT ![k] = c]
        BY <1>1, <1>2, <1>5, SMTT(30)
      <4> QED BY <1>3, <2>1, <4>1, Zenon
    <3> QED BY <2>2, <2>3, <2>4, <2>5, <3>2, <3>3, Zenon
  <2>6. CASE q # LastAt(s)
    <3>1. Row(t, Top(s) + q + 1) = Row(s, Top(s) + q + 1)
      BY <1>1, <1>5, <2>1, <2>6, ConsoleAssumption, SMTT(30) DEF Row
    <3> QED BY <2>2, <2>3, <2>4, <2>6, <3>1, Zenon
  <2> QED BY <2>5, <2>6, Zenon
<1>9. b = [i \in Cell |-> b[i]] /\ LastRows(t) = [i \in Cell |-> LastRows(t)[i]]
  BY Zenon DEF LastRows
<1> HIDE DEF b, t, at
<1>10. b = LastRows(t)
  BY <1>8, <1>9, Zenon
<1> QED BY <1>5, <1>6, <1>10, Zenon DEF b, t, at

\* A new row is shown where the cursor goes, or all rows move up for it.
LEMMA DownShows ==
  ASSUME NEW s, IsSheet(s)
  PROVE  LET t == Append(s, BlankRow)
         IN  /\ IsSheet(t)
             /\ LastAt(s) + 1 < CONSOLE_HEIGHT => LastRows(t) = LastRows(s) /\ LastAt(t) = LastAt(s) + 1
             /\ LastAt(s) + 1 >= CONSOLE_HEIGHT => LastRows(t) = Scrolled(LastRows(s)) /\ LastAt(t) = LastAt(s)
<1> DEFINE t == Append(s, BlankRow)
           R == [0..(CONSOLE_WIDTH - 1) -> Char \cup {EmptyChar}]
<1>1. /\ Len(s) \in Nat /\ Top(s) \in Nat /\ LastAt(s) \in 0..(CONSOLE_HEIGHT - 1)
      /\ Top(s) # 0 => LastAt(s) = CONSOLE_HEIGHT - 1
      /\ LastAt(s) = Len(s) - Top(s) - 1
  BY TopIs, Zenon DEF LastAt
<1>2. s \in Seq(R) /\ Len(s) >= 1
  BY Zenon DEF IsSheet
<1>3. BlankRow \in R /\ \A m \in 0..(CONSOLE_WIDTH - 1) : BlankRow[m] = EmptyChar
  BY Zenon DEF BlankRow
<1>4. /\ t \in Seq(R) /\ Len(t) = Len(s) + 1 /\ t[Len(s) + 1] = BlankRow
      /\ \A j \in 1..Len(s) : t[j] = s[j]
  BY <1>1, <1>2, <1>3
<1> HIDE DEF t, R
<1>5. IsSheet(t)
  BY <1>1, <1>4 DEF IsSheet, R
<1>6. \A j \in Nat \ {0} : Row(t, j) = Row(s, j)
  BY <1>1, <1>4 DEF Row
<1>7. CASE LastAt(s) + 1 < CONSOLE_HEIGHT
  <2>1. Top(s) = 0 /\ Top(t) = 0
    BY <1>1, <1>4, <1>7, ConsoleAssumption DEF Top
  <2>2. LastAt(t) = LastAt(s) + 1
    BY <1>1, <1>4, <2>1 DEF LastAt
  <2>3. ASSUME NEW i \in Cell
        PROVE Row(t, Top(t) + (i \div CONSOLE_WIDTH) + 1) = Row(s, Top(s) + (i \div CONSOLE_WIDTH) + 1)
    <3>1. i \div CONSOLE_WIDTH \in Nat
      BY CellHas
    <3> QED BY <1>6, <2>1, <3>1
  <2>4. LastRows(t) = LastRows(s)
    BY <2>3, Zenon DEF LastRows
  <2> QED BY <1>1, <1>5, <1>7, <2>2, <2>4, ConsoleAssumption DEF t
<1>8. CASE LastAt(s) + 1 >= CONSOLE_HEIGHT
  <2>1. Top(t) = Top(s) + 1 /\ Len(s) = Top(s) + CONSOLE_HEIGHT
    <3>1. Len(s) = Top(s) + CONSOLE_HEIGHT
      BY <1>1, <1>8, ConsoleAssumption
    <3>2. Len(t) > CONSOLE_HEIGHT /\ Len(t) - CONSOLE_HEIGHT = Top(s) + 1
      BY <1>1, <1>4, <3>1, ConsoleAssumption, SMTT(30)
    <3> QED BY <3>1, <3>2, Zenon DEF Top
  <2>2. LastAt(t) = LastAt(s)
    BY <1>1, <1>4, <2>1 DEF LastAt
  <2>3. ASSUME NEW i \in Cell
        PROVE  Row(t, Top(t) + (i \div CONSOLE_WIDTH) + 1)[i % CONSOLE_WIDTH] = Scrolled(LastRows(s))[i]
    <3> DEFINE q == i \div CONSOLE_WIDTH
               m == i % CONSOLE_WIDTH
               j == i + CONSOLE_WIDTH
    <3>1. /\ q \in 0..(CONSOLE_HEIGHT - 1) /\ m \in 0..(CONSOLE_WIDTH - 1)
          /\ j \in Cell <=> q + 1 < CONSOLE_HEIGHT
          /\ j \div CONSOLE_WIDTH = q + 1 /\ j % CONSOLE_WIDTH = m
      BY CellHas, CellBelow, Zenon
    <3>2. Scrolled(LastRows(s))[i] = IF j \in Cell THEN LastRows(s)[j] ELSE EmptyChar
      BY Zenon DEF Scrolled, LastRow
    <3>3. j \in Cell => LastRows(s)[j] = Row(s, Top(s) + (q + 1) + 1)[m]
      BY <3>1, Zenon DEF LastRows
    <3> HIDE DEF q, m, j
    <3>4. Row(t, Top(t) + q + 1) = Row(s, Top(s) + (q + 1) + 1)
      BY <1>1, <1>6, <2>1, <3>1
    <3>5. CASE j \in Cell
      BY <3>2, <3>3, <3>4, <3>5, Zenon DEF q, m, j
    <3>6. CASE j \notin Cell
      <4>1. q + 1 = CONSOLE_HEIGHT
        BY <3>1, <3>6, ConsoleAssumption
      <4>2. Top(s) + (q + 1) + 1 > Len(s)
        BY <1>1, <2>1, <4>1, ConsoleAssumption
      <4>3. Row(s, Top(s) + (q + 1) + 1) = BlankRow
        BY <1>1, <3>1, <4>2 DEF Row
      <4> QED BY <1>3, <3>1, <3>2, <3>4, <3>6, <4>3, Zenon DEF q, m, j
    <3> QED BY <3>5, <3>6, Zenon
  <2>4. LastRows(t) = Scrolled(LastRows(s))
    <3>1. Scrolled(LastRows(s)) = [i \in Cell |-> Scrolled(LastRows(s))[i]]
      BY Zenon DEF Scrolled
    <3> QED BY <2>3, <3>1, Zenon DEF LastRows
  <2> QED BY <1>1, <1>5, <1>8, <2>2, <2>4, ConsoleAssumption DEF t
<1> QED BY <1>1, <1>7, <1>8, ConsoleAssumption

\* The buffer, not only the screen, holds the end of the sheet.
ConsoleInv ==
  /\ IsSheet(sheet)
  /\ col \in 0..(CONSOLE_WIDTH - 1)
  /\ console_buf = LastRows(sheet) /\ vga_buf = LastRows(sheet)
  /\ console_x = col /\ console_y = LastAt(sheet)

LEMMA ConsoleStarts == ConsoleInit => ConsoleInv
<1> SUFFICES ASSUME ConsoleInit PROVE ConsoleInv
  BY Zenon
<1> DEFINE R == [0..(CONSOLE_WIDTH - 1) -> Char \cup {EmptyChar}]
<1>1. BlankRow \in R /\ \A m \in 0..(CONSOLE_WIDTH - 1) : BlankRow[m] = EmptyChar
  BY Zenon DEF BlankRow
<1>2. sheet = <<BlankRow>> /\ sheet \in Seq(R) /\ Len(sheet) = 1 /\ sheet[1] = BlankRow
  BY <1>1 DEF ConsoleInit
<1>3. IsSheet(sheet) /\ Top(sheet) = 0 /\ LastAt(sheet) = 0
  BY <1>2, ConsoleAssumption DEF IsSheet, Top, LastAt
<1>4. ASSUME NEW i \in Cell
      PROVE  Row(sheet, Top(sheet) + (i \div CONSOLE_WIDTH) + 1)[i % CONSOLE_WIDTH] = EmptyChar
  <2>1. i \div CONSOLE_WIDTH \in Nat /\ i % CONSOLE_WIDTH \in 0..(CONSOLE_WIDTH - 1)
    BY CellHas
  <2>2. Row(sheet, Top(sheet) + (i \div CONSOLE_WIDTH) + 1) = BlankRow
    BY <1>2, <1>3, <2>1 DEF Row
  <2> QED BY <1>1, <2>1, <2>2, Zenon
<1>5. LastRows(sheet) = [i \in Cell |-> EmptyChar]
  BY <1>4, Zenon DEF LastRows
<1> QED BY <1>3, <1>5, ConsoleAssumption DEF ConsoleInit, ConsoleInv

\* Any new last row the buffer goes down for keeps the rest.
LEMMA DownKeeps ==
  ASSUME NEW s, IsSheet(s), console_y = LastAt(s), cursor_down(LastRows(s)),
         sheet' = Append(s, BlankRow)
  PROVE  IsSheet(sheet') /\ console_buf' = LastRows(sheet') /\ console_y' = LastAt(sheet')
<1>1. LastAt(s) \in Nat /\ CONSOLE_HEIGHT \in Nat
  BY TopIs, ConsoleAssumption
<1>2. CASE LastAt(s) + 1 < CONSOLE_HEIGHT
  BY <1>1, <1>2, DownShows, Zenon DEF cursor_down
<1>3. CASE LastAt(s) + 1 >= CONSOLE_HEIGHT
  BY <1>1, <1>3, DownShows, Zenon DEF cursor_down
<1> QED BY <1>1, <1>2, <1>3

LEMMA PutcharKeeps ==
  ASSUME ConsoleInv, NEW c \in Char \cup {"\n", "\r"}, putchar(c)
  PROVE  ConsoleInv'
<1>1. /\ IsSheet(sheet) /\ col \in 0..(CONSOLE_WIDTH - 1) /\ console_buf = LastRows(sheet)
      /\ console_x = col /\ console_y = LastAt(sheet)
  BY Zenon DEF ConsoleInv
<1>2. /\ IsSheet(sheet') /\ col' \in 0..(CONSOLE_WIDTH - 1) /\ console_buf' = LastRows(sheet')
      /\ console_x' = col' /\ console_y' = LastAt(sheet')
  <2>1. CASE newline
    <3>1. /\ cursor_down(LastRows(sheet)) /\ console_x' = console_x /\ col' = col
          /\ sheet' = Append(sheet, BlankRow)
      BY <1>1, <2>1, Zenon DEF newline
    <3> QED BY <1>1, <3>1, DownKeeps, Zenon
  <2>2. CASE carriage_return
    BY <1>1, <2>2, ConsoleAssumption DEF carriage_return
  <2>3. CASE c \in Char /\ printed(c)
    <3> DEFINE t == Written(sheet, c)
    <3>1. /\ IsSheet(t) /\ Len(t) = Len(sheet) /\ Top(t) = Top(sheet)
          /\ Put(console_buf, c) = LastRows(t)
      BY <1>1, <2>3, PutShows DEF Written, Put
    <3>2. LastAt(t) = LastAt(sheet)
      BY <3>1, Zenon DEF LastAt
    <3> HIDE DEF t
    <3>3. CASE Wraps
      <4>1. col + 1 = CONSOLE_WIDTH
        BY <1>1, <3>3, ConsoleAssumption DEF Wraps
      <4>2. /\ cursor_down(LastRows(t)) /\ console_x' = 0 /\ col' = 0
            /\ sheet' = Append(t, BlankRow)
        BY <2>3, <3>1, <3>3, <4>1, Zenon DEF printed, t
      <4>3. IsSheet(sheet') /\ console_buf' = LastRows(sheet') /\ console_y' = LastAt(sheet')
        BY <1>1, <3>1, <3>2, <4>2, DownKeeps, Zenon
      <4> QED BY <4>2, <4>3, ConsoleAssumption
    <3>4. CASE ~Wraps
      <4>1. col + 1 # CONSOLE_WIDTH /\ col + 1 \in 0..(CONSOLE_WIDTH - 1)
        BY <1>1, <3>4, ConsoleAssumption DEF Wraps
      <4>2. /\ console_buf' = LastRows(t) /\ console_x' = console_x + 1 /\ console_y' = console_y
            /\ col' = col + 1 /\ sheet' = t
        BY <2>3, <3>1, <3>4, <4>1, Zenon DEF printed, t
      <4> QED BY <1>1, <3>1, <3>2, <4>1, <4>2, Zenon
    <3> QED BY <3>3, <3>4, Zenon
  <2> QED BY <2>1, <2>2, <2>3, Zenon DEF putchar
<1>3. vga_buf' = console_buf'
  <2>1. console_buf' = [i \in Cell |-> console_buf'[i]]
    BY <1>2, Zenon DEF LastRows
  <2> QED BY <2>1, Zenon DEF putchar, Screen
<1> QED BY <1>2, <1>3, Zenon DEF ConsoleInv

\* Wherever lines wrap, end and scroll, the screen of a console of any size shows
\* the last rows of what was written (console.c:16-60).
THEOREM ScreenShows == ConsoleSpec => []ScreenIsTail
<1>1. ConsoleInv /\ [ConsoleNext]_consoleVars => ConsoleInv'
  <2> SUFFICES ASSUME ConsoleInv, [ConsoleNext]_consoleVars PROVE ConsoleInv'
    OBVIOUS
  <2>1. CASE ConsoleNext
    BY <2>1, PutcharKeeps, Zenon DEF ConsoleNext
  <2>2. CASE UNCHANGED consoleVars
    <3>1. /\ console_x' = console_x /\ console_y' = console_y /\ console_buf' = console_buf
          /\ vga_buf' = vga_buf /\ sheet' = sheet /\ col' = col
      BY <2>2, Zenon DEF consoleVars
    <3> QED BY <3>1, Zenon DEF ConsoleInv
  <2> QED BY <2>1, <2>2, Zenon
<1>2. ConsoleInv => ScreenIsTail
  BY Zenon DEF ConsoleInv, ScreenIsTail, LastAt
<1> QED BY ConsoleStarts, <1>1, <1>2, PTL DEF ConsoleSpec
-----------------------------------------------------------------------------
(* The destructors. *)

\* Nothing that __cxa_finalize(f) asks for is left in entry d.
Settled(d, f) == d = nullptr \/ (f # nullptr /\ d # f)

\* A registration that was called has been cleared, or is the one being called;
\* behind the loop nothing is left that was asked for.
AtExitInv ==
  /\ funcs \in Seq(Dtor \cup {nullptr}) /\ called \in Seq(Nat)
  /\ call \in [at : {"none", "loop", "dtor"}, f : Dtor \cup {nullptr}, i : Nat, n : Nat]
  /\ call.i <= call.n /\ call.n <= Len(funcs)
  /\ call.at = "dtor" => call.i # 0
  /\ \A k \in DOMAIN called :
       /\ called[k] \in 1..Len(funcs)
       /\ funcs[called[k]] = nullptr \/ (call.at = "dtor" /\ called[k] = call.i)
  /\ call.at # "none" => \A k \in (call.i + 1)..call.n : Settled(funcs[k], call.f)
  /\ CalledOnce

LEMMA AtExitStarts == AtExitInit => AtExitInv
  BY DEF AtExitInit, AtExitInv, CalledOnce

LEMMA AtexitKeeps ==
  ASSUME AtExitInv, NEW d \in Dtor, __cxa_atexit(d)
  PROVE  AtExitInv'
<1>1. call' = call /\ called' = called
  BY Zenon DEF __cxa_atexit
<1>2. funcs \in Seq(Dtor \cup {nullptr}) /\ Len(funcs) \in Nat
  BY DEF AtExitInv
<1>3. /\ funcs' \in Seq(Dtor \cup {nullptr}) /\ Len(funcs') \in Nat /\ Len(funcs') >= Len(funcs)
      /\ \A k \in 1..Len(funcs) : funcs'[k] = funcs[k]
  BY <1>2 DEF __cxa_atexit
<1>4. call.i \in Nat /\ call.n \in Nat /\ call.n <= Len(funcs)
  BY Zenon DEF AtExitInv
<1>5. call.n <= Len(funcs')
  BY <1>2, <1>3, <1>4
<1>6. ASSUME NEW k \in DOMAIN called
      PROVE  /\ called[k] \in 1..Len(funcs')
             /\ funcs'[called[k]] = nullptr \/ (call.at = "dtor" /\ called[k] = call.i)
  <2>1. called[k] \in 1..Len(funcs) /\ called[k] \in 1..Len(funcs')
    BY <1>2, <1>3 DEF AtExitInv
  <2> QED BY <1>3, <2>1, Zenon DEF AtExitInv
<1>7. ASSUME call.at # "none", NEW k \in (call.i + 1)..call.n PROVE Settled(funcs'[k], call.f)
  <2>1. k \in 1..Len(funcs)
    BY <1>2, <1>4
  <2> QED BY <1>3, <1>7, <2>1, Zenon DEF AtExitInv
<1> QED BY <1>1, <1>3, <1>5, <1>6, <1>7, ZenonT(30) DEF AtExitInv, CalledOnce

LEMMA FinalizeKeeps ==
  ASSUME AtExitInv, NEW f \in Dtor \cup {nullptr}, __cxa_finalize(f)
  PROVE  AtExitInv'
<1>1. /\ funcs' = funcs /\ called' = called /\ call.at = "none"
      /\ call' = [at |-> "loop", f |-> f, i |-> Len(funcs), n |-> Len(funcs)]
  BY Zenon DEF __cxa_finalize, From
<1>2. Len(funcs) \in Nat
  BY DEF AtExitInv
<1>3. call'.at = "loop" /\ call'.i = Len(funcs) /\ call'.n = Len(funcs)
      /\ call' \in [at : {"none", "loop", "dtor"}, f : Dtor \cup {nullptr}, i : Nat, n : Nat]
  BY <1>1, <1>2, Zenon
<1>4. \A k \in DOMAIN called : called[k] \in 1..Len(funcs) /\ funcs[called[k]] = nullptr
  BY <1>1, Zenon DEF AtExitInv
<1>5. (Len(funcs) + 1)..Len(funcs) = {} /\ Len(funcs) <= Len(funcs)
  BY <1>2
<1> QED BY <1>1, <1>3, <1>4, <1>5, Zenon DEF AtExitInv, CalledOnce

LEMMA LoopKeeps ==
  ASSUME AtExitInv, FinalizeLoop
  PROVE  AtExitInv'
<1> DEFINE C == [at : {"none", "loop", "dtor"}, f : Dtor \cup {nullptr}, i : Nat, n : Nat]
<1>1. /\ funcs' = funcs /\ call.at = "loop" /\ call \in C /\ call.i <= call.n
      /\ call.i \in Nat /\ call.n \in Nat
      /\ call.n <= Len(funcs) /\ Len(funcs) \in Nat /\ funcs \in Seq(Dtor \cup {nullptr})
      /\ called \in Seq(Nat)
  BY DEF AtExitInv, FinalizeLoop
<1>2. \A k \in DOMAIN called : called[k] \in 1..Len(funcs) /\ funcs[called[k]] = nullptr
  BY <1>1, Zenon DEF AtExitInv
<1>3. \A k \in (call.i + 1)..call.n : Settled(funcs[k], call.f)
  BY <1>1, Zenon DEF AtExitInv
<1>4. CASE call.i = 0 /\ call' = [call EXCEPT !.at = "none"] /\ UNCHANGED called
  <2>1. call' \in C /\ call'.at = "none" /\ call'.i = call.i /\ call'.n = call.n
    BY <1>1, <1>4, Zenon
  <2> QED BY <1>1, <1>2, <1>4, <2>1 DEF AtExitInv, CalledOnce
<1>5. CASE /\ call.i # 0 /\ Matches(funcs[call.i])
           /\ call' = [call EXCEPT !.at = "dtor"] /\ called' = Append(called, call.i)
  <2>1. /\ call' \in C /\ call'.at = "dtor" /\ call'.i = call.i /\ call'.n = call.n
        /\ call'.f = call.f
    BY <1>1, <1>5, Zenon
  <2>2. funcs[call.i] # nullptr /\ call.i \in 1..Len(funcs)
    BY <1>1, <1>5 DEF Matches
  <2>3. /\ called' \in Seq(Nat) /\ DOMAIN called = 1..Len(called) /\ Len(called) \in Nat
        /\ DOMAIN called' = 1..(Len(called) + 1)
        /\ \A k \in 1..Len(called) : called'[k] = called[k]
        /\ called'[Len(called) + 1] = call.i
    BY <1>1, <1>5
  <2>4. \A k \in 1..Len(called) : called[k] # call.i
    BY <1>2, <2>2, <2>3, Zenon
  <2>5. CalledOnce'
    <3>1. SUFFICES ASSUME NEW a \in 1..(Len(called) + 1), NEW b \in 1..(Len(called) + 1), a # b
                   PROVE  called'[a] # called'[b]
      BY <2>3, Zenon DEF CalledOnce
    <3>2. a \in 1..Len(called) \/ a = Len(called) + 1
      BY <2>3
    <3>3. b \in 1..Len(called) \/ b = Len(called) + 1
      BY <2>3
    <3>4. ASSUME a \in 1..Len(called), b \in 1..Len(called) PROVE called[a] # called[b]
      BY <2>3, <3>1, <3>4, Zenon DEF AtExitInv, CalledOnce
    <3> QED BY <2>3, <2>4, <3>1, <3>2, <3>3, <3>4, Zenon
  <2>6. ASSUME NEW k \in DOMAIN called'
        PROVE  /\ called'[k] \in 1..Len(funcs)
               /\ funcs[called'[k]] = nullptr \/ called'[k] = call.i
    <3>1. CASE k \in 1..Len(called)
      BY <1>2, <2>3, <3>1, Zenon
    <3>2. CASE k = Len(called) + 1
      BY <2>2, <2>3, <3>2, Zenon
    <3> QED BY <2>3, <3>1, <3>2
  <2> QED BY <1>1, <1>3, <1>5, <2>1, <2>3, <2>5, <2>6, Zenon DEF AtExitInv
<1>6. CASE /\ call.i # 0 /\ ~Matches(funcs[call.i])
           /\ call' = [call EXCEPT !.i = @ - 1] /\ UNCHANGED called
  <2>1. /\ call' \in C /\ call'.at = "loop" /\ call'.i = call.i - 1 /\ call'.n = call.n
        /\ call'.f = call.f
    BY <1>1, <1>6, SMTT(30)
  <2>2. Settled(funcs[call.i], call.f)
    BY <1>6, Zenon DEF Matches, Settled
  <2>3. \A k \in (call'.i + 1)..call'.n : Settled(funcs[k], call'.f)
    BY <1>1, <1>3, <2>1, <2>2, SMTT(30)
  <2>4. call'.i <= call'.n
    BY <1>1, <2>1
  <2> QED BY <1>1, <1>2, <1>6, <2>1, <2>3, <2>4, Zenon DEF AtExitInv, CalledOnce
<1> QED BY <1>4, <1>5, <1>6, Zenon DEF FinalizeLoop

LEMMA ReturnKeeps ==
  ASSUME AtExitInv, DtorReturns
  PROVE  AtExitInv'
<1> DEFINE C == [at : {"none", "loop", "dtor"}, f : Dtor \cup {nullptr}, i : Nat, n : Nat]
<1>1. /\ called' = called /\ call.at = "dtor" /\ call \in C /\ call.i <= call.n
      /\ call.i \in Nat \ {0} /\ call.n \in Nat
      /\ call.n <= Len(funcs) /\ Len(funcs) \in Nat /\ funcs \in Seq(Dtor \cup {nullptr})
  BY DEF AtExitInv, DtorReturns
<1>2. /\ call' \in C /\ call'.at = "loop" /\ call'.i = call.i - 1 /\ call'.n = call.n
      /\ call'.f = call.f
  <2>1. call' = [call EXCEPT !.at = "loop", !.i = call.i - 1] /\ call.i - 1 \in Nat
    BY <1>1 DEF DtorReturns
  <2>2. call' \in C
    BY <1>1, <2>1, Zenon
  <2> QED BY <1>1, <2>1, <2>2, Zenon
<1>3. /\ funcs' \in Seq(Dtor \cup {nullptr}) /\ Len(funcs') = Len(funcs)
      /\ \A k \in 1..Len(funcs) : funcs'[k] = IF k = call.i THEN nullptr ELSE funcs[k]
  BY <1>1 DEF DtorReturns, Cleared
<1>4. ASSUME NEW k \in DOMAIN called
      PROVE  called[k] \in 1..Len(funcs') /\ funcs'[called[k]] = nullptr
  BY <1>1, <1>3, Zenon DEF AtExitInv
<1>5. ASSUME NEW k \in (call'.i + 1)..call'.n PROVE Settled(funcs'[k], call'.f)
  <2>1. k \in 1..Len(funcs)
    BY <1>1, <1>2
  <2>2. CASE k = call.i
    BY <1>3, <2>1, <2>2, Zenon DEF Settled
  <2>3. CASE k # call.i
    <3>1. k \in (call.i + 1)..call.n
      BY <1>1, <1>2, <2>3, SMTT(30)
    <3>2. Settled(funcs[k], call.f)
      BY <1>1, <3>1, Zenon DEF AtExitInv
    <3> QED BY <1>2, <1>3, <2>1, <2>3, <3>2, Zenon
  <2> QED BY <2>2, <2>3, Zenon
<1>6. call'.i <= call'.n /\ call'.n <= Len(funcs')
  BY <1>1, <1>2, <1>3
<1> QED BY <1>1, <1>2, <1>3, <1>4, <1>5, <1>6 DEF AtExitInv, CalledOnce

\* Whatever destructors register while it runs, __cxa_finalize() calls every one it
\* was asked for, and none twice (crti.cc:69-84).
THEOREM FinalizesExactly == AtExitSpec => FinalizeExact
<1>1. AtExitInv /\ [AtExitNext]_atExitVars => AtExitInv'
  <2> SUFFICES ASSUME AtExitInv, [AtExitNext]_atExitVars PROVE AtExitInv'
    OBVIOUS
  <2>1. CASE AtExitNext
    BY <2>1, AtexitKeeps, FinalizeKeeps, LoopKeeps, ReturnKeeps, Zenon DEF AtExitNext
  <2>2. CASE UNCHANGED atExitVars
    <3>1. funcs' = funcs /\ call' = call /\ called' = called
      BY <2>2, Zenon DEF atExitVars
    <3> QED BY <3>1, Zenon DEF AtExitInv, CalledOnce
  <2> QED BY <2>1, <2>2
<1>2. AtExitInv => CalledOnce
  BY Zenon DEF AtExitInv
<1> DEFINE Complete == call.at = "loop" /\ call'.at = "none" =>
                         \A k \in 1..call.n : funcs[k] = nullptr \/ (call.f # nullptr /\ funcs[k] # call.f)
<1>3. AtExitInv /\ [AtExitNext]_atExitVars => [Complete]_atExitVars
  <2> SUFFICES ASSUME AtExitInv, AtExitNext, call.at = "loop", call'.at = "none"
               PROVE  \A k \in 1..call.n : Settled(funcs[k], call.f)
    BY Zenon DEF Settled
  <2>1. FinalizeLoop
    BY Zenon DEF AtExitNext, __cxa_atexit, __cxa_finalize, DtorReturns
  <2>2. call.i = 0
    BY <2>1, Zenon DEF FinalizeLoop, AtExitInv
  <2> QED BY <2>2 DEF AtExitInv
<1> QED BY AtExitStarts, <1>1, <1>2, <1>3, PTL DEF AtExitSpec, FinalizeExact, FinalizeComplete

-----------------------------------------------------------------------------
(* The interrupt stubs *)

\* With one thread in user mode, the TSS names its stack.
OneUser == \A t, u \in UserThread : t = u

Points == {"isr_pit", "do_schedule", "isr_pf", "isr_syscall", "tail"}
Handled == {14, 32, 128}

Places == [p : Points \cup {"code", "start", "stub", "iret", "err"}, v : Nat]
Ctx == [at : Places, mode : {"user", "kernel"}]
StackWord == [w : {"esp3", "eflags", "cs", "eip", "err", "regs", "ivec"},
              v : Nat \cup BOOLEAN \cup {"user", "kernel"} \cup TrapThread \cup Places]
Frames == [here : Ctx, if : BOOLEAN, v : Nat, under : Nat]

\* A thread in its own code, and one in the handler for frame f.
Outside(c) == c \in {Context(Code, "user"), Context(Code, "kernel"), Context(Place("start", 0), "kernel")}
Inside(c, f) ==
  /\ c = Context(Place(c.at.p, f.v), "kernel")
  /\ c.at.p = "stub" \/ (c.at.p \in Points \cup {"iret"} /\ f.v \in Handled)

\* The words of frame f that iret takes end here; how far the stack is filled when a
\* thread is at c in the handler for f.
FrameEnd(f) == f.under + (IF f.here.mode = "user" THEN 4 ELSE 3)
ErrWord(f) == IF f.v \in PushesError THEN 1 ELSE 0
Level(c, f) ==
  FrameEnd(f) + (IF c.at.p = "iret" THEN 0 ELSE IF c.at.p = "stub" THEN ErrWord(f) ELSE ErrWord(f) + 2)

\* Frame f is on stack s.
OnStack(s, f) ==
  /\ FrameEnd(f) <= Len(s)
  /\ s[FrameEnd(f)] = Word("eip", f.here.at)
  /\ s[FrameEnd(f) - 1] = Word("cs", f.here.mode)
  /\ s[FrameEnd(f) - 2] = Word("eflags", f.if)

\* The stack s of a thread at c is made of the frames S, each on top of what the
\* handler for the one below had pushed when it was interrupted.
Chain(S) ==
  \A k \in 1..Len(S) :
    /\ IF k = 1 THEN Outside(S[k].here) /\ S[k].under = 0
       ELSE Inside(S[k].here, S[k - 1]) /\ S[k].under = Level(S[k].here, S[k - 1])
    /\ \A j \in 1..(k - 1) : FrameEnd(S[j]) <= S[k].under
Laid(s, c, S) ==
  /\ Chain(S)
  /\ \A k \in 1..Len(S) : OnStack(s, S[k])
  /\ S = <<>> => Outside(c) /\ s = <<>>
  /\ S # <<>> => Inside(c, S[Len(S)]) /\ Len(s) = Level(c, S[Len(S)])

\* A thread that was in user mode is a user thread, and the TSS names one then.
InUser(c, S) == c.mode = "user" \/ \E k \in 1..Len(S) : S[k].here.mode = "user"

Kept(t, s, c, S, e) ==
  /\ s \in Seq(StackWord) /\ c \in Ctx /\ S \in Seq(Frames)
  /\ Laid(s, c, S)
  /\ InUser(c, S) => t \in UserThread /\ e \in UserThread

IsMap(f) == f = [t \in TrapThread |-> f[t]]

TrapInv ==
  /\ on_cpu \in TrapThread /\ IF_ \in BOOLEAN /\ irr \subseteq TrapIrq
  /\ IsMap(stk) /\ IsMap(ctx) /\ IsMap(saved)
  /\ \A t \in TrapThread : Kept(t, stk[t], ctx[t], saved[t], tss_esp0)

-----------------------------------------------------------------------------
(* What is done to one stack *)

\* The words that are pushed are words of a stack.
LEMMA WordsAre ==
  /\ \A if \in BOOLEAN : Word("eflags", if) \in StackWord
  /\ \A m \in {"user", "kernel"} : Word("cs", m) \in StackWord
  /\ \A t \in TrapThread : Word("esp3", t) \in StackWord
  /\ \A a \in Places : Word("eip", a) \in StackWord /\ Word("err", a) \in StackWord
  /\ \A v \in Nat : Word("regs", v) \in StackWord /\ Word("ivec", v) \in StackWord
  BY Zenon DEF Word, StackWord

\* a is x followed by y.
Joins(a, x, y) ==
  /\ Len(a) = Len(x) + Len(y)
  /\ \A i \in 1..Len(x) : a[i] = x[i]
  /\ \A i \in 1..Len(y) : a[Len(x) + i] = y[i]

\* What a sequence followed by another holds.
LEMMA Joined ==
  ASSUME NEW A, NEW x \in Seq(A), NEW y \in Seq(A)
  PROVE  x \o y \in Seq(A) /\ Joins(x \o y, x, y)
  BY SMTT(30) DEF Joins

\* The levels are numbers, and no lower than the end of the frame.
LEMMA LevelIs ==
  ASSUME NEW f \in Frames, NEW c
  PROVE  /\ f.under \in Nat /\ FrameEnd(f) \in Nat /\ FrameEnd(f) >= 3 /\ f.under <= FrameEnd(f)
         /\ ErrWord(f) \in 0..1
         /\ Level(c, f) \in Nat /\ Level(c, f) >= FrameEnd(f)
         /\ c.at.p = "stub" => Level(c, f) = FrameEnd(f) + ErrWord(f)
         /\ c.at.p = "iret" => Level(c, f) = FrameEnd(f)
         /\ c.at.p \in Points => Level(c, f) = FrameEnd(f) + ErrWord(f) + 2
<1>1. f.under \in Nat
  BY Zenon DEF Frames
<1>2. FrameEnd(f) \in Nat /\ FrameEnd(f) >= 3 /\ f.under <= FrameEnd(f)
  BY <1>1 DEF FrameEnd
<1>3. ErrWord(f) \in 0..1
  BY DEF ErrWord
<1> QED BY <1>1, <1>2, <1>3 DEF Level, Points

\* A frame stays where it is while words above it come and go.
LEMMA FrameStays ==
  ASSUME NEW s \in Seq(StackWord), NEW r \in Seq(StackWord), NEW f \in Frames, OnStack(s, f),
         FrameEnd(f) <= Len(r), \A i \in 1..FrameEnd(f) : r[i] = s[i]
  PROVE  OnStack(r, f)
<1>1. FrameEnd(f) \in Nat /\ FrameEnd(f) >= 3
  BY LevelIs, Zenon
<1>2. FrameEnd(f) \in 1..FrameEnd(f) /\ FrameEnd(f) - 1 \in 1..FrameEnd(f) /\ FrameEnd(f) - 2 \in 1..FrameEnd(f)
  BY <1>1, SMTT(30)
<1> QED BY <1>2, Zenon DEF OnStack

\* What the processor pushes, word by word.
LEMMA PushedIs ==
  ASSUME NEW s \in Seq(StackWord), NEW c \in Ctx, NEW if \in BOOLEAN, NEW v \in Nat, NEW t \in TrapThread
  PROVE  LET r == s \o Pushed(c, if, v, t)
             f == [here |-> c, if |-> if, v |-> v, under |-> Len(s)]
         IN  /\ r \in Seq(StackWord) /\ f \in Frames
             /\ Len(r) = FrameEnd(f) + ErrWord(f)
             /\ \A i \in 1..Len(s) : r[i] = s[i]
             /\ OnStack(r, f)
<1> DEFINE f == [here |-> c, if |-> if, v |-> v, under |-> Len(s)]
           q == Pushed(c, if, v, t)
           u == IF c.mode = "user" THEN 1 ELSE 0
           e == ErrWord(f)
           W0 == Word("esp3", t)
           W1 == Word("eflags", if)
           W2 == Word("cs", c.mode)
           W3 == Word("eip", c.at)
           W4 == Word("err", Place("err", v))
<1>1. /\ f \in Frames /\ f.here = c /\ f.if = if /\ f.v = v /\ f.under = Len(s)
      /\ c.mode \in {"user", "kernel"} /\ c.at \in Places /\ Len(s) \in Nat
  BY DEF Frames, Ctx
<1>2. FrameEnd(f) = Len(s) + 3 + u
  BY <1>1 DEF FrameEnd
<1>3. Place("err", v) \in Places
  BY Zenon DEF Place, Places
<1>4. W0 \in StackWord /\ W1 \in StackWord /\ W2 \in StackWord /\ W3 \in StackWord /\ W4 \in StackWord
  BY <1>1, <1>3, WordsAre, Zenon
<1>5. e = IF v \in PushesError THEN 1 ELSE 0
  BY <1>1, Zenon DEF ErrWord
<1>6. q = (IF c.mode = "user" THEN <<W0>> ELSE <<>>) \o <<W1, W2, W3>>
            \o (IF v \in PushesError THEN <<W4>> ELSE <<>>)
  BY Zenon DEF Pushed
<1> HIDE DEF f, q, W0, W1, W2, W3, W4, e
<1>7. /\ q \in Seq(StackWord) /\ Len(q) = 3 + u + e
      /\ q[u + 1] = W1 /\ q[u + 2] = W2 /\ q[u + 3] = W3
  <2> DEFINE q1 == IF c.mode = "user" THEN <<W0>> ELSE <<>>
             q2 == <<W1, W2, W3>>
             q3 == IF v \in PushesError THEN <<W4>> ELSE <<>>
             a == q1 \o q2
  <2>1. q1 \in Seq(StackWord) /\ Len(q1) = u /\ u \in 0..1
    BY <1>4
  <2>2. q2 \in Seq(StackWord) /\ Len(q2) = 3 /\ q2[1] = W1 /\ q2[2] = W2 /\ q2[3] = W3
    BY <1>4
  <2>3. q3 \in Seq(StackWord) /\ Len(q3) = e /\ e \in 0..1
    BY <1>4, <1>5
  <2>4. q = a \o q3
    BY <1>6, Zenon
  <2> HIDE DEF q1, q2, q3, u
  <2>5. /\ a \in Seq(StackWord) /\ Len(a) = u + 3
        /\ \A i \in 1..Len(q2) : a[Len(q1) + i] = q2[i]
    <3>1. a \in Seq(StackWord) /\ Joins(a, q1, q2)
      BY <2>1, <2>2, Joined, Zenon
    <3> QED BY <2>1, <2>2, <3>1, Zenon DEF Joins
  <2>6. a[u + 1] = W1 /\ a[u + 2] = W2 /\ a[u + 3] = W3
    <3>1. 1 \in 1..Len(q2) /\ 2 \in 1..Len(q2) /\ 3 \in 1..Len(q2)
      BY <2>2
    <3> QED BY <2>1, <2>2, <2>5, <3>1, Zenon
  <2> HIDE DEF a
  <2>7. q \in Seq(StackWord) /\ Len(q) = u + 3 + e /\ \A i \in 1..(u + 3) : q[i] = a[i]
    BY <2>1, <2>3, <2>4, <2>5, SMTT(30)
  <2> QED BY <2>1, <2>3, <2>6, <2>7, SMTT(30)
<1> DEFINE r == s \o q
<1>8. u \in 0..1 /\ e \in 0..1
  BY <1>5
<1> HIDE DEF u
<1>9. /\ r \in Seq(StackWord) /\ Len(r) = Len(s) + Len(q)
      /\ \A i \in 1..Len(s) : r[i] = s[i]
      /\ \A i \in 1..Len(q) : r[Len(s) + i] = q[i]
  BY <1>1, <1>7, SMTT(30)
<1> HIDE DEF r
<1>10. r[Len(s) + (u + 1)] = W1 /\ r[Len(s) + (u + 2)] = W2 /\ r[Len(s) + (u + 3)] = W3
  <2>1. u + 1 \in 1..Len(q) /\ u + 2 \in 1..Len(q) /\ u + 3 \in 1..Len(q)
    BY <1>7, <1>8
  <2> QED BY <1>7, <1>9, <2>1, Zenon
<1>11. /\ FrameEnd(f) = Len(s) + (u + 3) /\ FrameEnd(f) - 1 = Len(s) + (u + 2)
       /\ FrameEnd(f) - 2 = Len(s) + (u + 1) /\ FrameEnd(f) <= Len(r)
       /\ Len(r) = FrameEnd(f) + e
  BY <1>1, <1>2, <1>7, <1>8, <1>9
<1>12. OnStack(r, f)
  BY <1>1, <1>10, <1>11, Zenon DEF OnStack, W1, W2, W3
<1> QED BY <1>1, <1>9, <1>11, <1>12, Zenon DEF f, q, r, e

\* Nobody in a handler is in user mode, and nobody in its own code has frames.
LEMMA LaidWhere ==
  ASSUME NEW s, NEW c, NEW S, Laid(s, c, S)
  PROVE  /\ c.mode = "user" => S = <<>> /\ s = <<>> /\ c = Context(Code, "user")
         /\ c.at.p = "start" => S = <<>> /\ s = <<>>
         /\ c.at.p \in Points \cup {"stub", "iret"} => S # <<>>
<1>1. Outside(c) => c.at.p \in {"code", "start"} /\ (c.mode = "user" => c = Context(Code, "user"))
  BY DEF Outside, Context, Place, Code
<1>2. S # <<>> => c.mode = "kernel" /\ c.at.p # "start"
  <2> SUFFICES ASSUME S # <<>> PROVE c.mode = "kernel" /\ c.at.p # "start"
    BY Zenon
  <2>1. Inside(c, S[Len(S)])
    BY Zenon DEF Laid
  <2>2. c.mode = "kernel"
    BY <2>1, SMTT(30) DEF Inside, Context
  <2> QED BY <2>1, <2>2, Zenon DEF Inside, Points
<1> QED BY <1>1, <1>2, Zenon DEF Laid, Points

\* The lengths under a frame are below the ones above it.
LEMMA FramesBelow ==
  ASSUME NEW s \in Seq(StackWord), NEW c, NEW S \in Seq(Frames), Laid(s, c, S), NEW k \in 1..Len(S)
  PROVE  OnStack(s, S[k]) /\ FrameEnd(S[k]) <= Len(s) /\ S[k] \in Frames
  BY DEF Laid, OnStack

\* A new frame.
LEMMA EnterLaid ==
  ASSUME NEW s \in Seq(StackWord), NEW c \in Ctx, NEW S \in Seq(Frames), Laid(s, c, S),
         NEW if \in BOOLEAN, NEW v \in Nat, NEW t \in TrapThread
  PROVE  LET r == s \o Pushed(c, if, v, t)
             f == [here |-> c, if |-> if, v |-> v, under |-> Len(s)]
         IN  /\ r \in Seq(StackWord) /\ Append(S, f) \in Seq(Frames)
             /\ Laid(r, Context(Place("stub", v), "kernel"), Append(S, f))
<1> DEFINE r == s \o Pushed(c, if, v, t)
           f == [here |-> c, if |-> if, v |-> v, under |-> Len(s)]
           T == Append(S, f)
           d == Context(Place("stub", v), "kernel")
<1>1. /\ r \in Seq(StackWord) /\ f \in Frames /\ Len(r) = FrameEnd(f) + ErrWord(f)
      /\ \A i \in 1..Len(s) : r[i] = s[i]
      /\ OnStack(r, f) /\ f.here = c /\ f.v = v /\ f.under = Len(s) /\ Len(s) \in Nat
  <2>1. /\ r \in Seq(StackWord) /\ f \in Frames /\ Len(r) = FrameEnd(f) + ErrWord(f)
        /\ \A i \in 1..Len(s) : r[i] = s[i]
        /\ OnStack(r, f)
    BY PushedIs, Zenon
  <2>2. f.here = c /\ f.v = v /\ f.under = Len(s) /\ Len(s) \in Nat
    OBVIOUS
  <2> QED BY <2>1, <2>2, Zenon
<1>2. d.at.p = "stub" /\ d = Context(Place(d.at.p, v), "kernel")
  BY Zenon DEF Context, Place
<1> HIDE DEF r, f, d
<1>3. /\ T \in Seq(Frames) /\ Len(T) = Len(S) + 1 /\ T[Len(S) + 1] = f /\ Len(S) \in Nat
      /\ \A k \in 1..Len(S) : T[k] = S[k]
  BY <1>1
<1> HIDE DEF T
<1>4. Inside(d, f) /\ Len(r) = Level(d, f)
  BY <1>1, <1>2, LevelIs, Zenon DEF Inside
<1>5. Chain(T)
  <2> SUFFICES ASSUME NEW k \in 1..Len(T)
               PROVE  /\ IF k = 1 THEN Outside(T[k].here) /\ T[k].under = 0
                         ELSE Inside(T[k].here, T[k - 1]) /\ T[k].under = Level(T[k].here, T[k - 1])
                      /\ \A j \in 1..(k - 1) : FrameEnd(T[j]) <= T[k].under
    BY Zenon DEF Chain
  <2>1. CASE k \in 1..Len(S)
    <3>1. T[k] = S[k] /\ (k # 1 => T[k - 1] = S[k - 1]) /\ \A j \in 1..(k - 1) : T[j] = S[j]
      <4>1. \A j \in 1..k : j \in 1..Len(S)
        BY <1>3, <2>1
      <4>2. k \in 1..k /\ (k # 1 => k - 1 \in 1..k) /\ \A j \in 1..(k - 1) : j \in 1..k
        BY <1>3, <2>1
      <4> QED BY <1>3, <4>1, <4>2, Zenon
    <3> QED BY <2>1, <3>1, Zenon DEF Laid, Chain
  <2>2. CASE k = Len(S) + 1 /\ S = <<>>
    <3>1. k = 1 /\ T[k] = f
      BY <1>3, <2>2
    <3>2. Outside(c) /\ Len(s) = 0
      BY <2>2, Zenon DEF Laid
    <3>3. 1..(k - 1) = {}
      BY <3>1
    <3> QED BY <1>1, <3>1, <3>2, <3>3, Zenon
  <2>3. CASE k = Len(S) + 1 /\ S # <<>>
    <3>1. k # 1 /\ T[k] = f /\ T[k - 1] = S[Len(S)]
      BY <1>3, <2>3
    <3>2. Inside(c, S[Len(S)]) /\ Len(s) = Level(c, S[Len(S)])
      BY <2>3, Zenon DEF Laid
    <3>3. ASSUME NEW j \in 1..(k - 1) PROVE FrameEnd(T[j]) <= Len(s)
      BY <1>3, <2>3, FramesBelow, SMTT(30)
    <3> QED BY <1>1, <3>1, <3>2, <3>3, Zenon
  <2> QED BY <1>3, <2>1, <2>2, <2>3
<1>6. ASSUME NEW k \in 1..Len(T) PROVE OnStack(r, T[k])
  <2>1. CASE k \in 1..Len(S)
    <3>1. /\ OnStack(s, S[k]) /\ S[k] \in Frames /\ FrameEnd(S[k]) <= Len(s) /\ T[k] = S[k]
          /\ FrameEnd(S[k]) \in Nat
      BY <1>3, <2>1, FramesBelow, LevelIs, Zenon
    <3>2. Len(s) <= Len(r) /\ \A i \in 1..FrameEnd(S[k]) : r[i] = s[i]
      <4>1. FrameEnd(f) \in Nat /\ FrameEnd(f) >= f.under /\ ErrWord(f) \in 0..1
        BY <1>1, LevelIs, Zenon
      <4> QED BY <1>1, <3>1, <4>1
    <3>3. FrameEnd(S[k]) <= Len(r)
      BY <1>1, <3>1, <3>2
    <3> QED BY <1>1, <3>1, <3>2, <3>3, FrameStays, Zenon
  <2>2. CASE k = Len(S) + 1
    BY <1>1, <1>3, <2>2, Zenon
  <2> QED BY <1>3, <2>1, <2>2
<1>7. T # <<>> /\ T[Len(T)] = f
  BY <1>3
<1>8. Laid(r, d, T)
  BY <1>4, <1>5, <1>6, <1>7, Zenon DEF Laid
<1> QED BY <1>1, <1>3, <1>8, Zenon DEF r, f, T, d

\* The top of the stack grows or shrinks above the last frame, and the thread is at
\* another point of the same handler.
LEMMA TopLaid ==
  ASSUME NEW s \in Seq(StackWord), NEW c, NEW S \in Seq(Frames), Laid(s, c, S), S # <<>>,
         NEW r \in Seq(StackWord), NEW d, Inside(d, S[Len(S)]), Len(r) = Level(d, S[Len(S)]),
         \A i \in 1..FrameEnd(S[Len(S)]) : r[i] = s[i]
  PROVE  Laid(r, d, S)
<1> DEFINE m == Len(S)
<1>1. m \in Nat /\ m >= 1 /\ \A k \in 1..m : S[k] \in Frames
  OBVIOUS
<1> HIDE DEF m
<1>2. Len(r) >= FrameEnd(S[m]) /\ FrameEnd(S[m]) \in Nat /\ Len(r) \in Nat
  <2>1. S[m] \in Frames
    BY <1>1
  <2>2. Len(r) = Level(d, S[m]) /\ Level(d, S[m]) \in Nat /\ Level(d, S[m]) >= FrameEnd(S[m])
        /\ FrameEnd(S[m]) \in Nat
    BY <2>1, LevelIs, Zenon DEF m
  <2> QED BY <2>2, Zenon
<1>3. ASSUME NEW k \in 1..m PROVE OnStack(r, S[k])
  <2>1. S[k] \in Frames /\ OnStack(s, S[k]) /\ FrameEnd(S[k]) \in Nat
    BY <1>1, LevelIs, Zenon DEF Laid, m
  <2>2. FrameEnd(S[k]) <= FrameEnd(S[m])
    <3>1. CASE k = m
      BY <1>2, <3>1, SMTT(30)
    <3>2. CASE k # m
      <4>1. FrameEnd(S[k]) <= S[m].under
        <5>1. k \in 1..(m - 1) /\ m \in 1..m
          BY <1>1, <3>2
        <5> QED BY <5>1, Zenon DEF Laid, Chain, m
      <4>2. S[m].under \in Nat /\ S[m].under <= FrameEnd(S[m])
        <5>1. S[m] \in Frames
          BY <1>1, SMTT(30)
        <5> QED BY <5>1, LevelIs, Zenon
      <4> QED BY <1>2, <2>1, <4>1, <4>2, SMTT(30)
    <3> QED BY <3>1, <3>2, Zenon
  <2>3. FrameEnd(S[k]) <= Len(r) /\ \A i \in 1..FrameEnd(S[k]) : r[i] = s[i]
    BY <1>2, <2>1, <2>2 DEF m
  <2> QED BY <2>1, <2>3, FrameStays, Zenon
<1> QED BY <1>3, Zenon DEF Laid, m

\* The table of handlers: an error code is dropped if and only if one was pushed.
LEMMA TableIs ==
  ASSUME NEW v \in Nat
  PROVE  /\ isrs(v).fn # "isr_dumpregs" => v \in Handled /\ isrs(v).fn \in Points
         /\ v \in Handled => (isrs(v).err <=> v \in PushesError)
<1>1. CASE v = 14
  BY <1>1 DEF isrs, ExceptionISR, ISR_0x0E, Handled, Points, PushesError
<1>2. CASE v = 32
  BY <1>2 DEF isrs, IrqISR, Handled, Points, PushesError
<1>3. CASE v = 128
  BY <1>3 DEF isrs, OtherISR, Handled, Points, PushesError
<1>4. CASE v \notin Handled
  <2>1. isrs(v).fn = "isr_dumpregs"
    BY <1>4, Zenon DEF isrs, ExceptionISR, IrqISR, OtherISR, Dump, Handled
  <2> QED BY <1>4, <2>1, Zenon
<1> QED BY <1>1, <1>2, <1>3, <1>4, Zenon DEF Handled

\* The call of the handler.
LEMMA StubLaid ==
  ASSUME NEW s \in Seq(StackWord), NEW c \in Ctx, NEW S \in Seq(Frames), Laid(s, c, S),
         c.at.p = "stub", isrs(c.at.v).fn # "isr_dumpregs"
  PROVE  LET r == s \o <<Word("regs", 0), Word("ivec", c.at.v)>>
         IN  r \in Seq(StackWord) /\ Laid(r, Context(Place(isrs(c.at.v).fn, c.at.v), c.mode), S)
<1> DEFINE f == S[Len(S)]
           W1 == Word("regs", 0)
           W2 == Word("ivec", c.at.v)
           r == s \o <<W1, W2>>
           d == Context(Place(isrs(c.at.v).fn, c.at.v), c.mode)
<1>1. S # <<>>
  BY LaidWhere, Zenon
<1>2. Inside(c, f) /\ Len(s) = Level(c, f) /\ f \in Frames
  BY <1>1 DEF Laid
<1>3. c.mode = "kernel" /\ c.at.v = f.v /\ c.at.v \in Nat
  <2>1. c = Context(Place("stub", f.v), "kernel")
    BY <1>2, Zenon DEF Inside
  <2> QED BY <2>1, Zenon DEF Context, Place, Ctx, Places
<1>4. f.v \in Handled /\ isrs(f.v).fn \in Points
  BY <1>3, TableIs, Zenon
<1>5. d.at.p = isrs(f.v).fn /\ d = Context(Place(d.at.p, f.v), "kernel")
  BY <1>3, Zenon DEF Context, Place
<1>6. W1 \in StackWord /\ W2 \in StackWord
  BY <1>3, WordsAre, Zenon
<1> HIDE DEF f, W1, W2, d
<1>7. r \in Seq(StackWord) /\ Len(r) = Len(s) + 2 /\ \A i \in 1..Len(s) : r[i] = s[i]
  BY <1>6
<1>8. Inside(d, f)
  BY <1>4, <1>5, Zenon DEF Inside
<1>9. Len(r) = Level(d, f) /\ FrameEnd(f) <= Len(s) /\ FrameEnd(f) \in Nat
  BY <1>2, <1>4, <1>5, <1>7, LevelIs, Zenon
<1> HIDE DEF r
<1>10. \A i \in 1..FrameEnd(f) : r[i] = s[i]
  BY <1>7, <1>9
<1>11. Laid(r, d, S)
  BY <1>1, <1>7, <1>8, <1>9, <1>10, TopLaid, Zenon DEF f
<1> QED BY <1>7, <1>11, Zenon DEF r, d, W1, W2

\* From one point of a handler to another.
LEMMA MoveLaid ==
  ASSUME NEW s \in Seq(StackWord), NEW c \in Ctx, NEW S \in Seq(Frames), Laid(s, c, S),
         c.at.p \in Points, NEW p \in Points
  PROVE  Laid(s, Context(Place(p, c.at.v), c.mode), S)
<1> DEFINE f == S[Len(S)]
           d == Context(Place(p, c.at.v), c.mode)
<1>1. S # <<>>
  BY LaidWhere, Zenon
<1>2. Inside(c, f) /\ Len(s) = Level(c, f) /\ f \in Frames
  BY <1>1 DEF Laid
<1>3. c.mode = "kernel" /\ c.at.v = f.v /\ f.v \in Handled
  <2>1. c = Context(Place(c.at.p, f.v), "kernel") /\ f.v \in Handled
    BY <1>2, Zenon DEF Inside, Points
  <2> QED BY <2>1 DEF Context, Place
<1>4. d.at.p = p /\ d = Context(Place(d.at.p, f.v), "kernel")
  BY <1>3, Zenon DEF Context, Place
<1> HIDE DEF f, d
<1>5. Inside(d, f)
  BY <1>3, <1>4, Zenon DEF Inside
<1>6. Len(s) = Level(d, f)
  BY <1>2, <1>4, LevelIs, Zenon
<1>7. Laid(s, d, S)
  BY <1>1, <1>5, <1>6, TopLaid, Zenon DEF f
<1> QED BY <1>7, Zenon DEF d

\* The stub drops what it pushed, and the error code if there is one.
LEMMA TailLaid ==
  ASSUME NEW s \in Seq(StackWord), NEW c \in Ctx, NEW S \in Seq(Frames), Laid(s, c, S), c.at.p = "tail"
  PROVE  LET n == IF isrs(c.at.v).err THEN 3 ELSE 2
             r == SubSeq(s, 1, Len(s) - n)
         IN  r \in Seq(StackWord) /\ Laid(r, Context(Place("iret", c.at.v), c.mode), S)
<1> DEFINE f == S[Len(S)]
           n == IF isrs(c.at.v).err THEN 3 ELSE 2
           r == SubSeq(s, 1, Len(s) - n)
           d == Context(Place("iret", c.at.v), c.mode)
<1>1. S # <<>>
  BY LaidWhere, Zenon DEF Points
<1>2. Inside(c, f) /\ Len(s) = Level(c, f) /\ f \in Frames
  BY <1>1, SMTT(30) DEF Laid
<1>3. c.mode = "kernel" /\ c.at.v = f.v /\ f.v \in Handled /\ f.v \in Nat
  <2>1. c = Context(Place(c.at.p, f.v), "kernel") /\ f.v \in Handled
    BY <1>2, Zenon DEF Inside, Points
  <2> QED BY <1>2, <2>1 DEF Context, Place, Frames
<1>4. n = ErrWord(f) + 2
  BY <1>3, TableIs DEF ErrWord
<1>5. d.at.p = "iret" /\ d = Context(Place(d.at.p, f.v), "kernel")
  BY <1>3, ZenonT(30) DEF Context, Place
<1> HIDE DEF f, d, n
<1>6. Len(s) - n = FrameEnd(f) /\ FrameEnd(f) \in Nat /\ FrameEnd(f) <= Len(s) /\ Level(d, f) = FrameEnd(f)
      /\ FrameEnd(f) >= 3
  <2>1. /\ FrameEnd(f) \in Nat /\ FrameEnd(f) >= 3 /\ ErrWord(f) \in 0..1
        /\ Level(d, f) = FrameEnd(f) /\ Level(c, f) = FrameEnd(f) + ErrWord(f) + 2
    <3>1. c.at.p \in Points
      BY Zenon DEF Points
    <3> QED BY <1>2, <1>5, <3>1, LevelIs, Zenon
  <2> QED BY <1>2, <1>4, <2>1, SMTT(30)
<1>7. r \in Seq(StackWord) /\ Len(r) = FrameEnd(f) /\ \A i \in 1..FrameEnd(f) : r[i] = s[i]
  BY <1>6
<1> HIDE DEF r
<1>8. Inside(d, f)
  BY <1>3, <1>5, Zenon DEF Inside
<1>9. Laid(r, d, S)
  BY <1>1, <1>6, <1>7, <1>8, TopLaid, Zenon DEF f
<1> QED BY <1>7, <1>9, Zenon DEF r, d, n

\* iret takes the last frame, and nothing else.
LEMMA IretLaid ==
  ASSUME NEW s \in Seq(StackWord), NEW c \in Ctx, NEW S \in Seq(Frames), Laid(s, c, S), c.at.p = "iret"
  PROVE  LET f == S[Len(S)]
         IN  /\ S # <<>> /\ Len(s) >= 3 /\ f \in Frames
             /\ s[Len(s)] = Word("eip", f.here.at) /\ s[Len(s) - 1] = Word("cs", f.here.mode)
             /\ s[Len(s) - 2] = Word("eflags", f.if)
             /\ Len(s) = FrameEnd(f)
             /\ SubSeq(s, 1, f.under) \in Seq(StackWord) /\ SubSeq(S, 1, Len(S) - 1) \in Seq(Frames)
             /\ Laid(SubSeq(s, 1, f.under), f.here, SubSeq(S, 1, Len(S) - 1))
<1> DEFINE f == S[Len(S)]
           m == Len(S)
           r == SubSeq(s, 1, f.under)
           T == SubSeq(S, 1, m - 1)
<1>1. S # <<>>
  BY LaidWhere, Zenon
<1>2. Len(s) = Level(c, f) /\ f \in Frames /\ m \in Nat /\ m >= 1 /\ m \in 1..m
  BY <1>1 DEF Laid
<1>3. OnStack(s, f)
  BY <1>2, Zenon DEF Laid
<1>4. Len(s) = FrameEnd(f) /\ Len(s) \in Nat /\ Len(s) >= 3 /\ f.under \in Nat /\ f.under <= Len(s)
  BY <1>2, LevelIs, Zenon
<1>5. r \in Seq(StackWord) /\ Len(r) = f.under /\ \A i \in 1..f.under : r[i] = s[i]
  BY <1>4
<1>6. T \in Seq(Frames) /\ Len(T) = m - 1 /\ \A k \in 1..(m - 1) : T[k] = S[k]
  <2> DEFINE j == m - 1
  <2>1. j \in Nat /\ j <= Len(S)
    BY <1>2
  <2> HIDE DEF j
  <2>2. SubSeq(S, 1, j) \in Seq(Frames) /\ Len(SubSeq(S, 1, j)) = j /\ \A k \in 1..j : SubSeq(S, 1, j)[k] = S[k]
    BY <2>1
  <2> QED BY <2>2, Zenon DEF j
<1> HIDE DEF r, T
<1>7. Chain(T)
  <2> SUFFICES ASSUME NEW k \in 1..Len(T)
               PROVE  /\ IF k = 1 THEN Outside(T[k].here) /\ T[k].under = 0
                         ELSE Inside(T[k].here, T[k - 1]) /\ T[k].under = Level(T[k].here, T[k - 1])
                      /\ \A j \in 1..(k - 1) : FrameEnd(T[j]) <= T[k].under
    BY Zenon DEF Chain
  <2>1. /\ T[k] = S[k] /\ (k # 1 => T[k - 1] = S[k - 1]) /\ \A j \in 1..(k - 1) : T[j] = S[j]
        /\ k \in 1..m
    BY <1>2, <1>6, SMTT(30)
  <2> HIDE DEF m
  <2> QED BY <2>1, Zenon DEF Laid, Chain, m
<1>8. ASSUME NEW k \in 1..Len(T) PROVE OnStack(r, T[k])
  <2>1. T[k] = S[k] /\ S[k] \in Frames /\ OnStack(s, S[k]) /\ FrameEnd(S[k]) \in Nat /\ k \in 1..(m - 1)
    <3>1. k \in 1..(m - 1) /\ k \in 1..m /\ T[k] = S[k]
      BY <1>2, <1>6, SMTT(30)
    <3>2. S[k] \in Frames /\ OnStack(s, S[k])
      BY <3>1, FramesBelow, Zenon
    <3> QED BY <3>1, <3>2, LevelIs, Zenon
  <2>2. FrameEnd(S[k]) <= f.under
    BY <1>2, <2>1, Zenon DEF Laid, Chain
  <2>3. FrameEnd(S[k]) <= Len(r) /\ \A i \in 1..FrameEnd(S[k]) : r[i] = s[i]
    BY <1>4, <1>5, <2>1, <2>2, SMTT(30)
  <2> QED BY <1>5, <2>1, <2>3, FrameStays, Zenon
<1>9. T = <<>> => Outside(f.here) /\ r = <<>>
  <2> SUFFICES ASSUME T = <<>> PROVE Outside(f.here) /\ r = <<>>
    BY Zenon
  <2>1. m = 1
    BY <1>2, <1>6
  <2>2. Outside(f.here) /\ f.under = 0
    BY <1>2, <2>1, Zenon DEF Laid, Chain
  <2> QED BY <1>5, <2>2
<1>10. T # <<>> => Inside(f.here, T[Len(T)]) /\ Len(r) = Level(f.here, T[Len(T)])
  <2> SUFFICES ASSUME T # <<>> PROVE Inside(f.here, T[Len(T)]) /\ Len(r) = Level(f.here, T[Len(T)])
    BY Zenon
  <2>1. m # 1 /\ T[Len(T)] = S[m - 1]
    BY <1>2, <1>6
  <2>2. Inside(f.here, S[m - 1]) /\ f.under = Level(f.here, S[m - 1])
    BY <1>2, <2>1, Zenon DEF Laid, Chain
  <2> QED BY <1>5, <2>1, <2>2, Zenon
<1>11. Laid(r, f.here, T)
  BY <1>7, <1>8, <1>9, <1>10, Zenon DEF Laid
<1>12. /\ s[Len(s)] = Word("eip", f.here.at) /\ s[Len(s) - 1] = Word("cs", f.here.mode)
       /\ s[Len(s) - 2] = Word("eflags", f.if)
  BY <1>3, <1>4, Zenon DEF OnStack
<1> QED BY <1>1, <1>2, <1>4, <1>5, <1>6, <1>11, <1>12, Zenon DEF r, T

\* A thread in its own code has nothing on its stack.
LEMMA FreshLaid ==
  ASSUME NEW c, Outside(c)
  PROVE  Laid(<<>>, c, <<>>)
  BY DEF Laid, Chain

-----------------------------------------------------------------------------
(* The steps of the threads *)

\* g is f with x for t.
Sets(g, f, t, x) == IsMap(g) /\ g[t] = x /\ \A u \in TrapThread : u # t => g[u] = f[u]

\* What EXCEPT does to a function of the threads.
LEMMA MapSets ==
  ASSUME NEW f, IsMap(f), NEW t \in TrapThread, NEW x, NEW g, g = [f EXCEPT ![t] = x]
  PROVE  Sets(g, f, t, x)
<1>1. DOMAIN f = TrapThread
  BY DEF IsMap
<1>2. g = [u \in TrapThread |-> IF u = t THEN x ELSE f[u]]
  BY <1>1, Zenon
<1>3. g[t] = x
  BY <1>2
<1>4. ASSUME NEW u \in TrapThread, u # t PROVE g[u] = f[u]
  BY <1>2, <1>4
<1>5. IsMap(g)
  BY <1>2 DEF IsMap
<1> QED BY <1>3, <1>4, <1>5, Zenon DEF Sets

\* It does nothing when the value is the old one.
LEMMA MapSame ==
  ASSUME NEW f, IsMap(f), NEW t \in TrapThread
  PROVE  f = [f EXCEPT ![t] = f[t]]
<1>1. f \in [TrapThread -> {f[u] : u \in TrapThread}]
  BY DEF IsMap
<1> QED BY <1>1

\* A step of one thread.
LEMMA OneThread ==
  ASSUME TrapInv, NEW t \in TrapThread, NEW s, NEW c, NEW S, Kept(t, s, c, S, tss_esp0'),
         stk' = [stk EXCEPT ![t] = s], ctx' = [ctx EXCEPT ![t] = c], saved' = [saved EXCEPT ![t] = S],
         on_cpu' \in TrapThread, IF_' \in BOOLEAN, irr' \subseteq TrapIrq,
         tss_esp0 \in UserThread => tss_esp0' \in UserThread
  PROVE  TrapInv'
<1>1. IsMap(stk) /\ IsMap(ctx) /\ IsMap(saved)
  BY Zenon DEF TrapInv
<1>2. Sets(stk', stk, t, s) /\ Sets(ctx', ctx, t, c) /\ Sets(saved', saved, t, S)
  BY <1>1, MapSets, Zenon
<1>3. ASSUME NEW u \in TrapThread PROVE Kept(u, stk'[u], ctx'[u], saved'[u], tss_esp0')
  <2>1. CASE u = t
    BY <1>2, <2>1, Zenon DEF Sets
  <2>2. CASE u # t
    <3>1. stk'[u] = stk[u] /\ ctx'[u] = ctx[u] /\ saved'[u] = saved[u]
      BY <1>2, <2>2, Zenon DEF Sets
    <3>2. Kept(u, stk[u], ctx[u], saved[u], tss_esp0)
      BY Zenon DEF TrapInv
    <3> QED BY <3>1, <3>2, Zenon DEF Kept
  <2> QED BY <2>1, <2>2, Zenon
<1>4. IsMap(stk)' /\ IsMap(ctx)' /\ IsMap(saved)'
  BY <1>2, Zenon DEF IsMap, Sets
<1> QED BY <1>3, <1>4, Zenon DEF TrapInv

\* The thread that runs.
LEMMA Mine ==
  ASSUME TrapInv
  PROVE  /\ on_cpu \in TrapThread /\ Kept(on_cpu, stk[on_cpu], here, saved[on_cpu], tss_esp0)
         /\ stk[on_cpu] \in Seq(StackWord) /\ here \in Ctx /\ saved[on_cpu] \in Seq(Frames)
         /\ Laid(stk[on_cpu], here, saved[on_cpu])
  BY Zenon DEF TrapInv, Kept, here

\* The threads start with empty stacks.
LEMMA TrapStarts == TrapInit => TrapInv
<1> SUFFICES ASSUME TrapInit PROVE TrapInv
  OBVIOUS
<1>1. IsMap(stk) /\ IsMap(ctx) /\ IsMap(saved)
  BY Zenon DEF TrapInit, IsMap
<1>2. on_cpu \in TrapThread /\ IF_ \in BOOLEAN /\ irr \subseteq TrapIrq
  BY Zenon DEF TrapInit
<1>3. ASSUME NEW t \in TrapThread PROVE Kept(t, stk[t], ctx[t], saved[t], tss_esp0)
  <2>1. /\ stk[t] = <<>> /\ saved[t] = <<>>
        /\ ctx[t] = Context(IF t = on_cpu THEN Code ELSE Place("start", 0), "kernel")
    BY Zenon DEF TrapInit
  <2>2. Outside(ctx[t])
    BY <2>1, Zenon DEF Outside
  <2>3. ctx[t] \in Ctx /\ ctx[t].mode = "kernel"
    BY <2>1 DEF Ctx, Places, Context, Place, Code
  <2>4. Laid(<<>>, ctx[t], <<>>)
    BY <2>2, FreshLaid, Zenon
  <2> QED BY <2>1, <2>3, <2>4 DEF Kept, InUser
<1> QED BY <1>1, <1>2, <1>3, Zenon DEF TrapInv

\* An interrupt or a trap; its vector is a number.
LEMMA EnterKeeps ==
  ASSUME OneUser, TrapInv, NEW v \in Nat, Enter(v), on_cpu' = on_cpu, tss_esp0' = tss_esp0,
         irr' \subseteq TrapIrq
  PROVE  TrapInv'
<1> DEFINE s == stk[on_cpu]
           S == saved[on_cpu]
           f == [here |-> here, if |-> IF_, v |-> v, under |-> Len(s)]
           r == s \o Pushed(here, IF_, v, on_cpu)
           d == Context(Place("stub", v), "kernel")
<1>1. /\ on_cpu \in TrapThread /\ IF_ \in BOOLEAN
      /\ Kept(on_cpu, s, here, S, tss_esp0)
      /\ s \in Seq(StackWord) /\ here \in Ctx /\ S \in Seq(Frames) /\ Laid(s, here, S)
  BY Mine, Zenon DEF TrapInv
<1>2. Stack = on_cpu /\ Under = s
  <2>1. CASE here.mode = "user"
    <3>1. s = <<>>
      BY <1>1, <2>1, LaidWhere, Zenon
    <3>2. on_cpu \in UserThread /\ tss_esp0 \in UserThread
      BY <1>1, <2>1, Zenon DEF Kept, InUser
    <3> QED BY <2>1, <3>1, <3>2, Zenon DEF OneUser, Stack, Under
  <2>2. CASE here.mode # "user"
    BY <2>2, Zenon DEF Stack, Under
  <2> QED BY <2>1, <2>2, Zenon
<1>3. /\ stk' = [stk EXCEPT ![on_cpu] = r] /\ saved' = [saved EXCEPT ![on_cpu] = Append(S, f)]
      /\ ctx' = [ctx EXCEPT ![on_cpu] = d]
  BY <1>2, Zenon DEF Enter
<1>4. IF_' \in BOOLEAN
  BY Zenon DEF Enter
<1>5. r \in Seq(StackWord) /\ Append(S, f) \in Seq(Frames) /\ Laid(r, d, Append(S, f))
  BY <1>1, EnterLaid, Zenon
<1>6. d \in Ctx /\ d.mode = "kernel"
  BY Zenon DEF Ctx, Places, Context, Place
<1>7. InUser(d, Append(S, f)) => InUser(here, S)
  <2>1. /\ Len(S) \in Nat /\ Len(Append(S, f)) = Len(S) + 1 /\ Append(S, f)[Len(S) + 1] = f
        /\ \A k \in 1..Len(S) : Append(S, f)[k] = S[k]
    BY <1>1
  <2>2. f.here = here
    BY Zenon
  <2> HIDE DEF f, S, d
  <2> SUFFICES ASSUME NEW k \in 1..Len(Append(S, f)), Append(S, f)[k].here.mode = "user"
               PROVE  InUser(here, S)
    BY <1>6, Zenon DEF InUser
  <2>3. CASE k \in 1..Len(S)
    BY <2>1, <2>3, Zenon DEF InUser
  <2>4. CASE k = Len(S) + 1
    BY <2>1, <2>2, <2>4, Zenon DEF InUser
  <2> QED BY <2>1, <2>3, <2>4, SMTT(30)
<1>8. Kept(on_cpu, r, d, Append(S, f), tss_esp0')
  BY <1>1, <1>5, <1>6, <1>7, Zenon DEF Kept
<1> HIDE DEF r, d, f, S
<1> QED BY <1>1, <1>3, <1>4, <1>8, OneThread, Zenon

\* The processor takes the first ready line.
LEMMA InterruptKeeps == ASSUME OneUser, TrapInv, Interrupt PROVE TrapInv'
<1>1. PICK i \in Ready : Enter(32 + i) /\ irr' = irr \ {i}
  BY Zenon DEF Interrupt
<1>2. i \in TrapIrq /\ irr' \subseteq TrapIrq
  BY <1>1, Zenon DEF Ready, TrapInv
<1>3. 32 + i \in Nat
  BY <1>2, TrapAssumption
<1>4. on_cpu' = on_cpu /\ tss_esp0' = tss_esp0
  BY Zenon DEF Interrupt
<1> QED BY <1>1, <1>2, <1>3, <1>4, EnterKeeps, Zenon

\* An exception, or an int instruction.
LEMMA TrapKeeps == ASSUME OneUser, TrapInv, NEW v \in Nat, Trap(v) PROVE TrapInv'
<1>1. Enter(v) /\ on_cpu' = on_cpu /\ tss_esp0' = tss_esp0 /\ irr' = irr
  BY Zenon DEF Trap
<1>2. irr' \subseteq TrapIrq
  BY <1>1, Zenon DEF TrapInv
<1> QED BY <1>1, <1>2, EnterKeeps, Zenon

\* A step of the running thread within its handler.
LEMMA HandlerKeeps ==
  ASSUME TrapInv, NEW s, NEW c, s \in Seq(StackWord), c \in Ctx, c.mode = here.mode,
         Laid(s, c, saved[on_cpu]),
         stk' = [stk EXCEPT ![on_cpu] = s], ctx' = [ctx EXCEPT ![on_cpu] = c], saved' = saved,
         on_cpu' = on_cpu, IF_' = IF_, irr' = irr, tss_esp0' = tss_esp0
  PROVE  TrapInv'
<1> DEFINE S == saved[on_cpu]
<1>1. /\ on_cpu \in TrapThread /\ IF_ \in BOOLEAN /\ irr \subseteq TrapIrq /\ IsMap(saved)
      /\ Kept(on_cpu, stk[on_cpu], here, S, tss_esp0)
  BY Mine, Zenon DEF TrapInv
<1>2. Kept(on_cpu, s, c, S, tss_esp0')
  BY <1>1, Zenon DEF Kept, InUser
<1>3. saved' = [saved EXCEPT ![on_cpu] = S]
  BY <1>1, MapSame, Zenon
<1> HIDE DEF S
<1>4. on_cpu' \in TrapThread /\ IF_' \in BOOLEAN /\ irr' \subseteq TrapIrq
      /\ (tss_esp0 \in UserThread => tss_esp0' \in UserThread)
  BY <1>1, Zenon
<1> QED BY <1>1, <1>2, <1>3, <1>4, OneThread, Zenon

\* The places of a handler are places.
LEMMA CtxIs ==
  ASSUME NEW c \in Ctx, NEW p \in Points \cup {"iret"}
  PROVE  Context(Place(p, c.at.v), c.mode) \in Ctx /\ Context(Place(p, c.at.v), c.mode).mode = c.mode
  BY Zenon DEF Ctx, Places, Context, Place

\* The stub pushes the registers and the vector, or stops the machine.
LEMMA StubKeeps == ASSUME TrapInv, Stub PROVE TrapInv'
<1> DEFINE v == here.at.v
           s == stk[on_cpu] \o <<Word("regs", 0), Word("ivec", v)>>
           c == Context(Place(isrs(v).fn, v), here.mode)
<1>1. /\ on_cpu' = on_cpu /\ IF_' = IF_ /\ tss_esp0' = tss_esp0 /\ irr' = irr /\ saved' = saved
      /\ here.at.p = "stub"
  BY Zenon DEF Stub
<1>2. CASE isrs(v).fn = "isr_dumpregs"
  <2>1. stk' = stk /\ ctx' = ctx
    BY <1>2, Zenon DEF Stub
  <2> QED BY <1>1, <2>1, Zenon DEF TrapInv, IsMap
<1>3. CASE isrs(v).fn # "isr_dumpregs"
  <2>1. stk' = [stk EXCEPT ![on_cpu] = s] /\ ctx' = [ctx EXCEPT ![on_cpu] = c]
    BY <1>3, Zenon DEF Stub, MoveTo
  <2>2. s \in Seq(StackWord) /\ Laid(s, c, saved[on_cpu])
    BY <1>1, <1>3, Mine, StubLaid, Zenon
  <2>3. v \in Nat /\ here \in Ctx
    BY Mine, Zenon DEF Ctx, Places
  <2>4. c \in Ctx /\ c.mode = here.mode
    BY <1>3, <2>3, TableIs, CtxIs, Zenon
  <2> HIDE DEF s, c
  <2> QED BY <1>1, <2>1, <2>2, <2>4, HandlerKeeps, Zenon
<1> QED BY <1>2, <1>3, Zenon

\* The timer handler goes on to schedule.
LEMMA PitKeeps == ASSUME TrapInv, isr_pit PROVE TrapInv'
<1> DEFINE c == Context(Place("do_schedule", here.at.v), here.mode)
           s == stk[on_cpu]
<1>1. /\ on_cpu' = on_cpu /\ IF_' = IF_ /\ tss_esp0' = tss_esp0 /\ irr' = irr /\ saved' = saved /\ stk' = stk
      /\ here.at.p = "isr_pit" /\ ctx' = [ctx EXCEPT ![on_cpu] = c]
  BY Zenon DEF isr_pit, MoveTo
<1>2. here.at.p \in Points /\ "do_schedule" \in Points
  BY <1>1, Zenon DEF Points
<1>3. s \in Seq(StackWord) /\ Laid(s, c, saved[on_cpu])
  BY <1>2, Mine, MoveLaid, Zenon
<1>4. c \in Ctx /\ c.mode = here.mode
  BY <1>2, Mine, CtxIs, Zenon
<1>5. stk' = [stk EXCEPT ![on_cpu] = s]
  BY <1>1, Mine, MapSame, Zenon DEF TrapInv
<1> HIDE DEF s, c
<1> QED BY <1>1, <1>3, <1>4, <1>5, HandlerKeeps, Zenon

\* The stub drops what is above the frame.
LEMMA StubTailKeeps == ASSUME TrapInv, StubTail PROVE TrapInv'
<1> DEFINE c == Context(Place("iret", here.at.v), here.mode)
           n == IF isrs(here.at.v).err THEN 3 ELSE 2
           s == SubSeq(stk[on_cpu], 1, Len(stk[on_cpu]) - n)
<1>1. /\ on_cpu' = on_cpu /\ IF_' = IF_ /\ tss_esp0' = tss_esp0 /\ irr' = irr /\ saved' = saved
      /\ here.at.p = "tail" /\ ctx' = [ctx EXCEPT ![on_cpu] = c] /\ stk' = [stk EXCEPT ![on_cpu] = s]
  BY Zenon DEF StubTail, MoveTo
<1>2. s \in Seq(StackWord) /\ Laid(s, c, saved[on_cpu])
  BY <1>1, Mine, TailLaid, Zenon
<1>3. c \in Ctx /\ c.mode = here.mode
  BY Mine, CtxIs, Zenon
<1> HIDE DEF s, c, n
<1> QED BY <1>1, <1>2, <1>3, HandlerKeeps, Zenon

\* What a thread goes on with when it is given the processor.
LEMMA ResumeKept ==
  ASSUME TrapInv, NEW t \in TrapThread
  PROVE  Kept(t, stk[t], Resume(t), saved[t], tss_esp0)
<1>1. /\ Kept(t, stk[t], ctx[t], saved[t], tss_esp0) /\ stk[t] \in Seq(StackWord) /\ ctx[t] \in Ctx
      /\ saved[t] \in Seq(Frames) /\ Laid(stk[t], ctx[t], saved[t])
  BY Zenon DEF TrapInv, Kept
<1>2. CASE ctx[t].at.p = "do_schedule"
  <2>1. Resume(t) = Context(Place("tail", ctx[t].at.v), ctx[t].mode)
    BY <1>2, Zenon DEF Resume
  <2>2. Laid(stk[t], Resume(t), saved[t])
    BY <1>1, <1>2, <2>1, MoveLaid, Zenon DEF Points
  <2>3. "tail" \in Points \cup {"iret"}
    BY Zenon DEF Points
  <2>4. Resume(t) \in Ctx /\ Resume(t).mode = ctx[t].mode
    BY <1>1, <2>1, <2>3, CtxIs
  <2> QED BY <1>1, <2>2, <2>4, Zenon DEF Kept, InUser
<1>3. CASE ctx[t].at.p # "do_schedule"
  BY <1>1, <1>3, Zenon DEF Resume
<1> QED BY <1>2, <1>3, Zenon

\* A thread switch in the timer handler.
LEMMA ScheduleKeeps ==
  ASSUME TrapInv, NEW t \in TrapThread, do_schedule(t)
  PROVE  TrapInv'
<1> DEFINE c == Resume(t)
           s == stk[t]
           S == saved[t]
<1>1. /\ on_cpu' = t /\ IF_' = TRUE /\ tss_esp0' = tss_esp0 /\ irr' = irr /\ saved' = saved /\ stk' = stk
      /\ ctx' = [ctx EXCEPT ![t] = c]
  BY Zenon DEF do_schedule
<1>2. stk' = [stk EXCEPT ![t] = s] /\ saved' = [saved EXCEPT ![t] = S]
  BY <1>1, MapSame, Zenon DEF TrapInv
<1>3. Kept(t, s, c, S, tss_esp0')
  BY <1>1, ResumeKept, Zenon
<1>4. on_cpu' \in TrapThread /\ IF_' \in BOOLEAN /\ irr' \subseteq TrapIrq
      /\ (tss_esp0 \in UserThread => tss_esp0' \in UserThread)
  BY <1>1, Zenon DEF TrapInv
<1> HIDE DEF s, c, S
<1> QED BY <1>1, <1>2, <1>3, <1>4, OneThread, Zenon

\* A thread that starts, or goes to user mode.
LEMMA FreshKept ==
  ASSUME NEW t, NEW c, Outside(c), NEW e, c.mode = "user" => t \in UserThread /\ e \in UserThread
  PROVE  Kept(t, <<>>, c, <<>>, e)
<1>1. c \in Ctx
  BY DEF Outside, Ctx, Places, Context, Place, Code
<1>2. Laid(<<>>, c, <<>>)
  BY FreshLaid, Zenon
<1>3. <<>> \in Seq(StackWord) /\ <<>> \in Seq(Frames) /\ 1..Len(<<>>) = {}
  OBVIOUS
<1> QED BY <1>1, <1>2, <1>3, Zenon DEF Kept, InUser

\* A thread starts; a user thread gives the TSS its stack.
LEMMA UserKeeps == ASSUME TrapInv, enter_userspace PROVE TrapInv'
<1> DEFINE c == Context(Code, IF on_cpu \in UserThread THEN "user" ELSE "kernel")
<1>1. /\ on_cpu' = on_cpu /\ IF_' = IF_ /\ irr' = irr /\ saved' = saved /\ here.at.p = "start"
  BY ZenonT(30) DEF enter_userspace
<1>2. stk[on_cpu] = <<>> /\ saved[on_cpu] = <<>>
  BY <1>1, Mine, LaidWhere
<1>3. on_cpu \in TrapThread /\ IsMap(stk) /\ IsMap(saved)
  BY Zenon DEF TrapInv
<1>4. /\ stk' = [stk EXCEPT ![on_cpu] = <<>>] /\ saved' = [saved EXCEPT ![on_cpu] = <<>>]
      /\ ctx' = [ctx EXCEPT ![on_cpu] = c]
      /\ tss_esp0' = IF on_cpu \in UserThread THEN on_cpu ELSE tss_esp0
  <2>1. stk = [stk EXCEPT ![on_cpu] = <<>>] /\ saved = [saved EXCEPT ![on_cpu] = <<>>]
    <3>1. stk = [stk EXCEPT ![on_cpu] = stk[on_cpu]] /\ saved = [saved EXCEPT ![on_cpu] = saved[on_cpu]]
      BY <1>3, MapSame, Zenon
    <3> QED BY <1>2, <3>1, Zenon
  <2>2. CASE on_cpu \in UserThread
    BY <1>1, <2>1, <2>2, Zenon DEF enter_userspace
  <2>3. CASE on_cpu \notin UserThread
    BY <1>1, <2>1, <2>3, Zenon DEF enter_userspace
  <2> QED BY <2>2, <2>3, Zenon
<1>5. Outside(c) /\ (c.mode = "user" => on_cpu \in UserThread)
  BY Zenon DEF Outside, Context
<1>6. Kept(on_cpu, <<>>, c, <<>>, tss_esp0')
  BY <1>4, <1>5, FreshKept, Zenon
<1> HIDE DEF c
<1>7. on_cpu' \in TrapThread /\ IF_' \in BOOLEAN /\ irr' \subseteq TrapIrq
      /\ (tss_esp0 \in UserThread => tss_esp0' \in UserThread)
  BY <1>1, <1>4, Zenon DEF TrapInv
<1> QED BY <1>3, <1>4, <1>6, <1>7, OneThread, Zenon

\* A thread is destroyed in a handler, and another goes on.
LEMMA LeaveKeeps ==
  ASSUME TrapInv, NEW t \in TrapThread, t # on_cpu, Leave(t), tss_esp0' = tss_esp0, irr' = irr
  PROVE  TrapInv'
<1> DEFINE c == Context(Place("start", 0), "kernel")
<1>1. /\ on_cpu' = t /\ IF_' = TRUE /\ stk' = [stk EXCEPT ![on_cpu] = <<>>]
      /\ saved' = [saved EXCEPT ![on_cpu] = <<>>]
      /\ ctx' = [[ctx EXCEPT ![on_cpu] = c] EXCEPT ![t] = Resume(t)]
  BY Zenon DEF Leave
<1>2. on_cpu \in TrapThread /\ IsMap(stk) /\ IsMap(saved) /\ IsMap(ctx) /\ irr \subseteq TrapIrq
  BY Zenon DEF TrapInv
<1> HIDE DEF c
<1>4. /\ IsMap(stk') /\ IsMap(saved') /\ IsMap(ctx')
      /\ stk'[on_cpu] = <<>> /\ saved'[on_cpu] = <<>> /\ ctx'[on_cpu] = c
      /\ \A u \in TrapThread : u # on_cpu => stk'[u] = stk[u] /\ saved'[u] = saved[u]
      /\ ctx'[t] = Resume(t)
      /\ \A u \in TrapThread : u # on_cpu /\ u # t => ctx'[u] = ctx[u]
  <2> DEFINE g == [ctx EXCEPT ![on_cpu] = c]
  <2>1. Sets(stk', stk, on_cpu, <<>>) /\ Sets(saved', saved, on_cpu, <<>>)
    BY <1>1, <1>2, MapSets, Zenon
  <2>2. ctx' = [g EXCEPT ![t] = Resume(t)]
    BY <1>1, Zenon
  <2>3. Sets(g, ctx, on_cpu, c)
    BY <1>2, MapSets, Zenon
  <2> HIDE DEF g
  <2>4. IsMap(g)
    BY <2>3, Zenon DEF Sets
  <2>5. Sets(ctx', g, t, Resume(t))
    BY <2>2, <2>4, MapSets, Zenon
  <2> QED BY <1>2, <2>1, <2>3, <2>5, Zenon DEF Sets
<1>5. ASSUME NEW u \in TrapThread PROVE Kept(u, stk'[u], ctx'[u], saved'[u], tss_esp0)
  <2>1. CASE u = on_cpu
    <3>1. Outside(c) /\ c.mode # "user"
      BY Zenon DEF c, Outside, Context
    <3>2. Kept(u, <<>>, c, <<>>, tss_esp0)
      BY <3>1, FreshKept, Zenon
    <3> QED BY <1>4, <2>1, <3>2, Zenon
  <2>2. CASE u = t
    <3>1. Kept(t, stk[t], Resume(t), saved[t], tss_esp0)
      BY ResumeKept, Zenon
    <3> QED BY <1>4, <2>2, <3>1, Zenon
  <2>3. CASE u # t /\ u # on_cpu
    <3>1. Kept(u, stk[u], ctx[u], saved[u], tss_esp0)
      BY Zenon DEF TrapInv
    <3> QED BY <1>4, <2>3, <3>1, Zenon
  <2> QED BY <2>1, <2>2, <2>3, Zenon
<1>6. IsMap(stk)' /\ IsMap(ctx)' /\ IsMap(saved)'
  BY <1>4, Zenon DEF IsMap
<1>7. on_cpu' \in TrapThread /\ IF_' \in BOOLEAN /\ irr' \subseteq TrapIrq
  BY <1>1, <1>2, Zenon
<1> QED BY <1>5, <1>6, <1>7, Zenon DEF TrapInv

\* The machine stops.
LEMMA OffKeeps ==
  ASSUME TrapInv, UNCHANGED <<on_cpu, IF_, stk, saved, ctx, tss_esp0, irr>>
  PROVE  TrapInv'
<1>1. /\ on_cpu' = on_cpu /\ IF_' = IF_ /\ stk' = stk /\ saved' = saved /\ ctx' = ctx
      /\ tss_esp0' = tss_esp0 /\ irr' = irr
  BY Zenon
<1> QED BY <1>1, Zenon DEF TrapInv, IsMap

\* A page fault is resolved, or its process is killed.
LEMMA PageFaultKeeps ==
  ASSUME TrapInv, NEW t \in TrapThread, isr_pf(t)
  PROVE  TrapInv'
<1>1. tss_esp0' = tss_esp0 /\ irr' = irr /\ here.at.p = "isr_pf"
  BY Zenon DEF isr_pf
<1>2. CASE on_cpu \in UserThread /\ MoveTo("tail") /\ UNCHANGED <<on_cpu, IF_, stk, saved, off>>
  <2> DEFINE c == Context(Place("tail", here.at.v), here.mode)
             s == stk[on_cpu]
  <2>1. /\ on_cpu' = on_cpu /\ IF_' = IF_ /\ saved' = saved /\ stk' = stk
        /\ ctx' = [ctx EXCEPT ![on_cpu] = c]
    BY <1>2, Zenon DEF MoveTo
  <2>2. here.at.p \in Points /\ "tail" \in Points
    BY <1>1, Zenon DEF Points
  <2>3. s \in Seq(StackWord) /\ Laid(s, c, saved[on_cpu])
    BY <2>2, Mine, MoveLaid, Zenon
  <2>4. c \in Ctx /\ c.mode = here.mode
    BY <2>2, Mine, CtxIs, Zenon
  <2>5. stk' = [stk EXCEPT ![on_cpu] = s]
    BY <2>1, Mine, MapSame, Zenon DEF TrapInv
  <2> HIDE DEF s, c
  <2> QED BY <1>1, <2>1, <2>3, <2>4, <2>5, HandlerKeeps, Zenon
<1>3. CASE on_cpu \in UserThread \ {t} /\ Leave(t)
  BY <1>1, <1>3, LeaveKeeps, Zenon
<1>4. CASE UNCHANGED <<on_cpu, IF_, stk, saved, ctx>>
  BY <1>1, <1>4, OffKeeps, Zenon
<1> QED BY <1>2, <1>3, <1>4, Zenon DEF isr_pf

\* A system call ends its process, or stops the machine.
LEMMA SyscallKeeps ==
  ASSUME TrapInv, NEW t \in TrapThread, isr_syscall(t)
  PROVE  TrapInv'
<1>1. tss_esp0' = tss_esp0 /\ irr' = irr
  BY Zenon DEF isr_syscall
<1>2. CASE t # on_cpu /\ Leave(t)
  BY <1>1, <1>2, LeaveKeeps, Zenon
<1>3. CASE UNCHANGED <<on_cpu, IF_, stk, saved, ctx>>
  BY <1>1, <1>3, OffKeeps, Zenon
<1> QED BY <1>2, <1>3, Zenon DEF isr_syscall

\* The frame iret finds, and what it leaves.
LEMMA IretTakes ==
  ASSUME TrapInv, iret
  PROVE  LET f == saved[on_cpu][Len(saved[on_cpu])]
         IN  /\ f \in Frames /\ saved[on_cpu] # <<>> /\ Len(saved[on_cpu]) \in Nat \ {0}
             /\ ctx' = [ctx EXCEPT ![on_cpu] = f.here] /\ IF_' = f.if
             /\ stk' = [stk EXCEPT ![on_cpu] = SubSeq(stk[on_cpu], 1, f.under)]
             /\ saved' = [saved EXCEPT ![on_cpu] = SubSeq(saved[on_cpu], 1, Len(saved[on_cpu]) - 1)]
             /\ Laid(SubSeq(stk[on_cpu], 1, f.under), f.here, SubSeq(saved[on_cpu], 1, Len(saved[on_cpu]) - 1))
             /\ SubSeq(stk[on_cpu], 1, f.under) \in Seq(StackWord)
             /\ SubSeq(saved[on_cpu], 1, Len(saved[on_cpu]) - 1) \in Seq(Frames)
<1> DEFINE s == stk[on_cpu]
           S == saved[on_cpu]
           f == S[Len(S)]
           top(k) == IF Len(s) >= k THEN s[Len(s) - k + 1] ELSE Word("none", 0)
           n == IF top(2).w = "cs" /\ top(2).v = "user" THEN 4 ELSE 3
<1>1. here.at.p = "iret"
  BY Zenon DEF iret
<1>2. /\ S # <<>> /\ Len(s) >= 3 /\ f \in Frames
      /\ s[Len(s)] = Word("eip", f.here.at) /\ s[Len(s) - 1] = Word("cs", f.here.mode)
      /\ s[Len(s) - 2] = Word("eflags", f.if)
      /\ Len(s) = FrameEnd(f)
      /\ SubSeq(s, 1, f.under) \in Seq(StackWord) /\ SubSeq(S, 1, Len(S) - 1) \in Seq(Frames)
      /\ Laid(SubSeq(s, 1, f.under), f.here, SubSeq(S, 1, Len(S) - 1))
  BY <1>1, Mine, IretLaid, Zenon
<1>3. /\ ctx' = [ctx EXCEPT ![on_cpu] = Context(top(1).v, top(2).v)] /\ IF_' = top(3).v
      /\ stk' = [stk EXCEPT ![on_cpu] = SubSeq(s, 1, Len(s) - n)]
      /\ saved' = [saved EXCEPT ![on_cpu] = SubSeq(S, 1, Len(S) - 1)]
  BY Zenon DEF iret
<1>4. s \in Seq(StackWord) /\ S \in Seq(Frames) /\ Len(s) \in Nat /\ Len(S) \in Nat
  BY Mine, SMTT(30)
<1> HIDE DEF s, f
<1>5. top(1) = s[Len(s)] /\ top(2) = s[Len(s) - 1] /\ top(3) = s[Len(s) - 2]
  BY <1>2, <1>4, SMTT(30)
<1> HIDE DEF top
<1>6. /\ top(1).v = f.here.at /\ top(2).w = "cs" /\ top(2).v = f.here.mode /\ top(3).v = f.if
  BY <1>2, <1>5 DEF Word
<1>7. f.here \in Ctx /\ f.under \in Nat
  BY <1>2, Zenon DEF Frames
<1>8. Context(f.here.at, f.here.mode) = f.here
  BY <1>7, Zenon DEF Context, Ctx
<1>9. Len(s) - n = f.under
  <2>1. n = IF f.here.mode = "user" THEN 4 ELSE 3
    BY <1>6
  <2>2. Len(s) = f.under + n
    BY <1>2, <2>1, Zenon DEF FrameEnd
  <2>3. n \in Nat
    BY <2>1, SMTT(30)
  <2> HIDE DEF n
  <2> QED BY <1>7, <2>2, <2>3
<1>10. Len(S) # 0
  BY <1>2, <1>4
<1> HIDE DEF n, S
<1> QED BY <1>2, <1>3, <1>4, <1>6, <1>8, <1>9, <1>10, Zenon DEF s, f, S

\* iret takes the top frame off.
LEMMA IretKeeps == ASSUME TrapInv, iret PROVE TrapInv'
<1> DEFINE s == stk[on_cpu]
           S == saved[on_cpu]
           f == S[Len(S)]
           r == SubSeq(s, 1, f.under)
           T == SubSeq(S, 1, Len(S) - 1)
<1>1. /\ f \in Frames /\ Len(S) \in Nat \ {0}
      /\ ctx' = [ctx EXCEPT ![on_cpu] = f.here] /\ IF_' = f.if
      /\ stk' = [stk EXCEPT ![on_cpu] = r] /\ saved' = [saved EXCEPT ![on_cpu] = T]
      /\ Laid(r, f.here, T) /\ r \in Seq(StackWord) /\ T \in Seq(Frames)
  BY IretTakes, Zenon
<1>2. on_cpu' = on_cpu /\ tss_esp0' = tss_esp0 /\ irr' = irr
  BY Zenon DEF iret
<1>3. S \in Seq(Frames) /\ Kept(on_cpu, s, here, S, tss_esp0)
  BY Mine, Zenon
<1>4. Len(T) = Len(S) - 1 /\ \A k \in 1..(Len(S) - 1) : T[k] = S[k]
  <2> DEFINE j == Len(S) - 1
  <2>1. j \in Nat /\ j <= Len(S)
    BY <1>1
  <2> HIDE DEF j
  <2>2. Len(SubSeq(S, 1, j)) = j /\ \A k \in 1..j : SubSeq(S, 1, j)[k] = S[k]
    BY <1>3, <2>1
  <2> QED BY <2>2, Zenon DEF j
<1> HIDE DEF r, T
<1>5. InUser(f.here, T) => InUser(here, S)
  <2>1. CASE f.here.mode = "user"
    <3>1. Len(S) \in 1..Len(S)
      BY <1>1
    <3> QED BY <2>1, <3>1, Zenon DEF InUser
  <2>2. ASSUME NEW k \in 1..Len(T), T[k].here.mode = "user" PROVE InUser(here, S)
    <3>1. k \in 1..Len(S) /\ T[k] = S[k]
      BY <1>1, <1>4
    <3> QED BY <2>2, <3>1, Zenon DEF InUser
  <2> QED BY <2>1, <2>2, Zenon DEF InUser
<1>6. f.here \in Ctx /\ f.if \in BOOLEAN
  BY <1>1, Zenon DEF Frames
<1>7. Kept(on_cpu, r, f.here, T, tss_esp0')
  BY <1>1, <1>2, <1>3, <1>5, <1>6, Zenon DEF Kept
<1>8. on_cpu' \in TrapThread /\ IF_' \in BOOLEAN /\ irr' \subseteq TrapIrq
      /\ (tss_esp0 \in UserThread => tss_esp0' \in UserThread) /\ on_cpu \in TrapThread
  BY <1>1, <1>2, <1>6, Zenon DEF TrapInv
<1> HIDE DEF f
<1> QED BY <1>1, <1>7, <1>8, OneThread, Zenon

\* Every step keeps the stacks as they are laid out.
LEMMA TrapStep == ASSUME OneUser, TrapInv, [TrapNext]_trapVars PROVE TrapInv'
<1>1. ASSUME NEW i \in TrapIrq, RaiseIrq(i) PROVE TrapInv'
  <2>1. /\ on_cpu' = on_cpu /\ IF_' = IF_ /\ stk' = stk /\ saved' = saved /\ ctx' = ctx
        /\ tss_esp0' = tss_esp0 /\ irr' = irr \cup {i}
    BY <1>1, Zenon DEF RaiseIrq
  <2>2. irr' \subseteq TrapIrq
    BY <2>1, Zenon DEF TrapInv
  <2> QED BY <2>1, <2>2, Zenon DEF TrapInv, IsMap
<1>2. ASSUME NEW v \in Exception, Trap(v) PROVE TrapInv'
  <2>1. v \in Nat
    BY TrapAssumption
  <2> QED BY <1>2, <2>1, TrapKeeps, Zenon
<1>3. ASSUME NEW v \in {32, 128}, IntN(v) PROVE TrapInv'
  <2> DEFINE w == IF idt(v).dpl = 3 THEN v ELSE 13
  <2>1. w \in Nat /\ Trap(w)
    BY <1>3 DEF IntN
  <2> HIDE DEF w
  <2> QED BY <2>1, TrapKeeps, Zenon
<1>4. CASE UNCHANGED trapVars
  <2>1. UNCHANGED <<on_cpu, IF_, stk, saved, ctx, tss_esp0, irr>>
    BY <1>4, Zenon DEF trapVars
  <2> QED BY <2>1, OffKeeps, Zenon
<1>5. CASE TrapNext
  BY <1>1, <1>2, <1>3, <1>5, InterruptKeeps, StubKeeps, PitKeeps, UserKeeps, StubTailKeeps, IretKeeps,
     ScheduleKeeps, PageFaultKeeps, SyscallKeeps, Zenon DEF TrapNext
<1> QED BY <1>4, <1>5, Zenon

\* With one thread in user mode, and any number of others, lines and nested
\* interrupts, every iret goes back to where its thread was (isrs.cc:192).
THEOREM ReturnsRight ==
  ASSUME OneUser
  PROVE  TrapSpec => ReturnsWhereInterrupted
<1> DEFINE Back == iret => LET last == saved[on_cpu][Len(saved[on_cpu])]
                           IN  ctx'[on_cpu] = last.here /\ IF_' = last.if
<1>1. TrapInv /\ [TrapNext]_trapVars => TrapInv'
  BY TrapStep, Zenon
<1>2. TrapInv => Back
  <2> SUFFICES ASSUME TrapInv, iret PROVE Back
    BY Zenon
  <2> DEFINE f == saved[on_cpu][Len(saved[on_cpu])]
  <2>1. on_cpu \in TrapThread /\ IsMap(ctx)
    BY Zenon DEF TrapInv
  <2>2. ctx' = [ctx EXCEPT ![on_cpu] = f.here] /\ IF_' = f.if
    BY IretTakes, Zenon
  <2> HIDE DEF f
  <2>3. ctx'[on_cpu] = f.here
    <3>1. Sets(ctx', ctx, on_cpu, f.here)
      BY <2>1, <2>2, MapSets, Zenon
    <3> QED BY <3>1, Zenon DEF Sets
  <2> QED BY <2>2, <2>3, Zenon DEF f
<1>3. TrapInv /\ [TrapNext]_trapVars => [Back]_trapVars
  BY <1>2, Zenon
<1> QED BY TrapStarts, <1>1, <1>3, PTL DEF TrapSpec, ReturnsWhereInterrupted

-----------------------------------------------------------------------------
(* the intrusive list *)


Links(f, g) == f \in [Node -> Node] /\ g \in [Node -> Node] /\ Linked(f, g)

\* erase() keeps the links consistent, whichever node it is called on, and leaves
\* that node alone on its ring.
LEMMA EraseLinks ==
  ASSUME NEW f, NEW g, Links(f, g), NEW n \in Node
  PROVE  /\ Links(EraseNext(f, g, n), ErasePrev(f, g, n))
         /\ EraseNext(f, g, n)[n] = n /\ ErasePrev(f, g, n)[n] = n
<1>1. CASE f[n] = n
  BY <1>1 DEF Links, Linked, EraseNext, ErasePrev, Alone
<1>2. CASE f[n] # n
  <2> DEFINE f1 == EraseNext(f, g, n)
             g1 == ErasePrev(f, g, n)
  <2>1. f1 = [[f EXCEPT ![g[n]] = f[n]] EXCEPT ![n] = n]
        /\ g1 = [[g EXCEPT ![f[n]] = g[n]] EXCEPT ![n] = n]
    BY <1>2 DEF EraseNext, ErasePrev, Alone
  <2>2. f \in [Node -> Node] /\ g \in [Node -> Node] /\ f[n] \in Node /\ g[n] \in Node
    BY Zenon DEF Links
  <2>3. f1 \in [Node -> Node] /\ g1 \in [Node -> Node]
    BY <2>1, <2>2
  <2>4. \A m \in Node : f1[m] = IF m = n THEN n ELSE IF m = g[n] THEN f[n] ELSE f[m]
    BY <2>1, <2>2, Zenon
  <2>5. \A m \in Node : g1[m] = IF m = n THEN n ELSE IF m = f[n] THEN g[n] ELSE g[m]
    BY <2>1, <2>2, Zenon
  <2>6. \A m \in Node : f[m] \in Node /\ g[m] \in Node /\ g[f[m]] = m /\ f[g[m]] = m
    BY Zenon DEF Links, Linked
  <2>7. ASSUME NEW m \in Node PROVE g1[f1[m]] = m /\ f1[g1[m]] = m
    BY <1>2, <2>3, <2>4, <2>5, <2>6
  <2> QED BY <2>3, <2>4, <2>5, <2>7 DEF Links, Linked
<1> QED BY <1>1, <1>2

\* Inserting a node that is alone before or after any node keeps the links
\* consistent.
LEMMA InsertLinks ==
  ASSUME NEW f, NEW g, Links(f, g), NEW at \in Node, NEW p \in Node,
         f[p] = p, g[p] = p
  PROVE  /\ Links(BackNexts(f, g, at, p), BackPrevs(g, at, p))
         /\ Links(FrontNexts(f, at, p), FrontPrevs(f, g, at, p))
<1>0. /\ f \in [Node -> Node] /\ g \in [Node -> Node]
      /\ \A m \in Node : f[m] \in Node /\ g[m] \in Node /\ g[f[m]] = m /\ f[g[m]] = m
  BY Zenon DEF Links, Linked
<1>1. Links(BackNexts(f, g, at, p), BackPrevs(g, at, p))
  <2> DEFINE f1 == BackNexts(f, g, at, p)
             g1 == BackPrevs(g, at, p)
  <2>1. f1 = [[f EXCEPT ![p] = at] EXCEPT ![[g EXCEPT ![p] = g[at]][at]] = p]
        /\ g1 = [[g EXCEPT ![p] = g[at]] EXCEPT ![at] = p]
    BY Zenon DEF BackNexts, BackPrevs, BackLink, BackPNext, BackPPrev, BackPrev
  <2>2. [g EXCEPT ![p] = g[at]][at] = g[at]
    BY <1>0
  <2>3. f1 \in [Node -> Node] /\ g1 \in [Node -> Node]
    BY <1>0, <2>1, <2>2
  <2>4. \A m \in Node : f1[m] = IF m = g[at] THEN p ELSE IF m = p THEN at ELSE f[m]
    BY <1>0, <2>1, <2>2
  <2>5. \A m \in Node : g1[m] = IF m = at THEN p ELSE IF m = p THEN g[at] ELSE g[m]
    BY <1>0, <2>1
  <2>6. ASSUME NEW m \in Node PROVE g1[f1[m]] = m /\ f1[g1[m]] = m
    BY <1>0, <2>3, <2>4, <2>5
  <2> QED BY <2>3, <2>6 DEF Links, Linked
<1>2. Links(FrontNexts(f, at, p), FrontPrevs(f, g, at, p))
  <2> DEFINE f1 == FrontNexts(f, at, p)
             g1 == FrontPrevs(f, g, at, p)
  <2>1. f1 = [[f EXCEPT ![p] = f[at]] EXCEPT ![at] = p]
        /\ g1 = [[g EXCEPT ![p] = at] EXCEPT ![[f EXCEPT ![p] = f[at]][at]] = p]
    BY Zenon DEF FrontNexts, FrontPrevs
  <2>2. [f EXCEPT ![p] = f[at]][at] = f[at]
    BY <1>0
  <2>3. f1 \in [Node -> Node] /\ g1 \in [Node -> Node]
    BY <1>0, <2>1, <2>2
  <2>4. \A m \in Node : f1[m] = IF m = at THEN p ELSE IF m = p THEN f[at] ELSE f[m]
    BY <1>0, <2>1
  <2>5. \A m \in Node : g1[m] = IF m = f[at] THEN p ELSE IF m = p THEN at ELSE g[m]
    BY <1>0, <2>1, <2>2
  <2>6. ASSUME NEW m \in Node PROVE g1[f1[m]] = m /\ f1[g1[m]] = m
    BY <1>0, <2>3, <2>4, <2>5
  <2> QED BY <2>3, <2>6, Zenon DEF Links, Linked
<1> QED BY <1>1, <1>2, Zenon

ListInv == TypeOK /\ LinksAgree

\* In every state and for any set of nodes the links are well typed and each
\* other's inverse.
THEOREM ListInvariant == Spec => []ListInv
<1>1. Init => ListInv
  BY NodeAssumption DEF Init, ListInv, TypeOK, LinksAgree, Linked
<1>2. ListInv /\ [Next]_vars => ListInv'
  <2> SUFFICES ASSUME ListInv, [Next]_vars PROVE ListInv'
    BY Zenon
  <2>1. Links(next, prev) /\ head \in Node \cup {None} /\ it \in Node \cup {None}
          /\ (head = None <=> it = None)
    BY DEF ListInv, TypeOK, LinksAgree, Links
  <2>2. SUFFICES /\ Links(next', prev')
                 /\ head' \in Node \cup {None} /\ it' \in Node \cup {None}
                 /\ (head' = None <=> it' = None)
    BY Zenon DEF ListInv, TypeOK, LinksAgree, Links, Linked
  <2>3. ASSUME NEW n \in Node, EraseNode(n) PROVE Links(next', prev')
    BY <2>1, <2>3, EraseLinks DEF EraseNode
  <2>4. ASSUME NEW at \in Node, NEW p \in Node
        PROVE /\ Links(PushBackNext(next, prev, at, p), PushBackPrev(next, prev, at, p))
              /\ Links(PushFrontNext(next, prev, at, p), PushFrontPrev(next, prev, at, p))
    <3> DEFINE f == EraseNext(next, prev, p)
               g == ErasePrev(next, prev, p)
    <3>1. Links(f, g) /\ f[p] = p /\ g[p] = p
      BY <2>1, EraseLinks
    <3> HIDE DEF f, g
    <3>2. /\ Links(BackNexts(f, g, at, p), BackPrevs(g, at, p))
          /\ Links(FrontNexts(f, at, p), FrontPrevs(f, g, at, p))
      BY <3>1, InsertLinks
    <3> QED BY <3>2, Zenon DEF f, g, PushBackNext, PushBackPrev, PushFrontNext, PushFrontPrev
  <2>5. ASSUME NEW n \in Node, erase(n)
        PROVE /\ Links(next', prev')
              /\ head' \in Node \cup {None} /\ it' \in Node \cup {None}
              /\ (head' = None <=> it' = None)
    BY <2>1, <2>3, <2>5 DEF erase
  <2>6. ASSUME NEW at \in Node, NEW p \in Node, push_back(at, p) \/ push_front(at, p)
        PROVE /\ Links(next', prev')
              /\ head' \in Node \cup {None} /\ it' \in Node \cup {None}
              /\ (head' = None <=> it' = None)
    BY <2>1, <2>4, <2>6 DEF push_back, push_front
  <2>7. ASSUME NEW n \in Node, clear(n)
        PROVE /\ Links(next', prev')
              /\ head' \in Node \cup {None} /\ it' \in Node \cup {None}
              /\ (head' = None <=> it' = None)
    BY <2>1, <2>7, NodeAssumption DEF clear, Links
  <2>8. ASSUME ClearOne
        PROVE /\ Links(next', prev')
              /\ head' \in Node \cup {None} /\ it' \in Node \cup {None}
              /\ (head' = None <=> it' = None)
    <3>1. head \in Node /\ it \in Node /\ next[it] \in Node
      BY <2>1, <2>8 DEF ClearOne, Links
    <3> QED BY <2>1, <2>3, <2>8, <3>1, NodeAssumption DEF ClearOne, EraseResult
  <2>9. CASE ClearDone
    BY <2>1, <2>9 DEF ClearDone
  <2>10. CASE UNCHANGED vars
    BY <2>1, <2>10 DEF vars
  <2> QED BY <2>5, <2>6, <2>7, <2>8, <2>9, <2>10 DEF Next
<1> QED BY <1>1, <1>2, PTL DEF Spec

\* The links of a node lead to nodes, and clear() has an iterator exactly while it
\* runs: it never meets a null pointer (intrusive_list.h:250).
THEOREM ListTypes == Spec => []TypeOK
<1>1. ListInv => TypeOK
  BY Zenon DEF ListInv
<1> QED BY <1>1, ListInvariant, PTL

\* next and prev are inverse functions in every state, whatever methods are called
\* on whatever nodes (intrusive_list.h:208-235).
THEOREM LinksAlwaysAgree == Spec => []LinksAgree
<1>1. ListInv => LinksAgree
  BY Zenon DEF ListInv
<1> QED BY <1>1, ListInvariant, PTL

\* The debug assertion of empty() (intrusive_list.h:201) can not fail: a node is its
\* own successor exactly when it is its own predecessor.
THEOREM EmptyAssertion == Spec => [](\A n \in Node : EmptyAssert(next, prev, n))
<1>1. ListInv => \A n \in Node : EmptyAssert(next, prev, n)
  BY Zenon DEF ListInv, TypeOK, LinksAgree, Linked, EmptyAssert
<1> QED BY <1>1, ListInvariant, PTL

\* While clear() runs, its iterator stands behind the node it was called on.
Clearing == head # None => prev[it] = head

LEMMA ClearingInvariant == Spec => []Clearing
<1>1. Init => Clearing
  BY Zenon DEF Init, Clearing
<1>2. ListInv /\ Clearing /\ [Next]_vars => Clearing'
  <2> SUFFICES ASSUME ListInv, Clearing, [Next]_vars, head' # None PROVE prev'[it'] = head'
    BY Zenon DEF Clearing
  <2>1. /\ next \in [Node -> Node] /\ prev \in [Node -> Node]
        /\ head \in Node \cup {None} /\ (head = None <=> it = None) /\ it \in Node \cup {None}
        /\ \A n \in Node : next[n] \in Node /\ prev[n] \in Node /\ prev[next[n]] = n /\ next[prev[n]] = n
    BY Zenon DEF ListInv, TypeOK, LinksAgree, Linked
  <2>2. CASE \E n \in Node : clear(n)
    BY <2>1, <2>2, Zenon DEF clear
  <2>3. CASE ClearOne
    <3>1. head # None /\ head' = head /\ it \in Node /\ it' = next[it] /\ next[it] # it /\ prev[it] = head
      BY <2>1, <2>3, Zenon DEF ClearOne, Alone, EraseResult, Clearing
    <3>2. prev' = [[prev EXCEPT ![next[it]] = prev[it]] EXCEPT ![it] = it]
      BY <2>3, <3>1, Zenon DEF ClearOne, EraseNode, ErasePrev, Alone
    <3>. QED
      BY <2>1, <3>1, <3>2
  <2>4. CASE head' = None
    BY <2>4, Zenon
  <2>5. CASE UNCHANGED vars
    BY <2>5, Zenon DEF vars, Clearing
  <2>6. ASSUME head = None, head' = head PROVE FALSE
    BY <2>6, Zenon
  <2>7. ClearDone => head' = None
    BY Zenon DEF ClearDone
  <2>8. \A n \in Node : /\ erase(n) => head = None /\ head' = head
                        /\ \A p \in Node : push_back(n, p) \/ push_front(n, p) => head = None /\ head' = head
    BY Zenon DEF erase, push_back, push_front
  <2>. QED
    BY <2>2, <2>3, <2>4, <2>5, <2>6, <2>7, <2>8, Zenon DEF Next
<1>. QED
  BY <1>1, <1>2, ListInvariant, PTL DEF Spec

\* When clear() returns its list has no element left (intrusive_list.h:249), whatever
\* ring it was called on.
THEOREM ClearLeavesNone == Spec => ClearEmpties
<1>1. ListInv /\ Clearing /\ [Next]_vars => [head # None /\ head' = None => Alone(next, head)]_vars
  <2> SUFFICES ASSUME ListInv, Clearing, Next, head # None, head' = None PROVE Alone(next, head)
    BY Zenon
  <2>1. ClearDone
    BY Zenon DEF Next, erase, push_back, push_front, clear, ClearOne
  <2>2. Alone(next, it) /\ prev[it] = head /\ it \in Node
    BY <2>1, Zenon DEF ClearDone, Clearing, ListInv, TypeOK
  <2>. QED
    BY <2>2, Zenon DEF Alone, ListInv, TypeOK, LinksAgree, Linked
<1>. QED
  BY <1>1, ListInvariant, ClearingInvariant, PTL DEF Spec, ClearEmpties

=============================================================================
