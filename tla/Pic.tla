--------------------------------- MODULE Pic --------------------------------
(***************************************************************************)
(* Setting up the two 8259 interrupt controllers (drivers/pic.cc) and      *)
(* enabling interrupts (arch/x86/idt.cc) while devices raise interrupts.   *)
(* Chip 1 is the master; a mask is a number whose bits are its lines.      *)
(***************************************************************************)
EXTENDS Integers, Sequences

CONSTANTS Irq,               \* interrupt lines that devices raise: 0..15
          Mask,              \* masks the firmware may leave
          offset1, offset2   \* 0x20, 0x28

ASSUME PicAssumption == Irq \subseteq 0..15 /\ Mask \subseteq Nat /\ offset1 \in Nat /\ offset2 \in Nat

VARIABLES chip,              \* [imr, base, icw: the next word expected (0: none), irr, isr, link]
          pic_at,            \* port writes of init() done so far
          saved_masks,       \* the saved masks
          sti,               \* the IDT is loaded and interrupts are enabled
          firmware,          \* the masks the firmware left
          taken              \* the interrupts the CPU has been given: <<irq, vector>>

picVars == <<chip, pic_at, saved_masks, sti, firmware, taken>>

Bit(n, k) == (n \div 2^k) % 2 = 1
Line(irq) == irq % 8
ChipOf(irq) == (irq \div 8) + 1

\* The firmware's mapping: vectors 0x08 and 0x70.
PicInit ==
  /\ firmware \in Mask \X Mask
  /\ chip = << [imr |-> firmware[1], base |-> 8, icw |-> 0, irr |-> {}, isr |-> {}, link |-> 4],
               [imr |-> firmware[2], base |-> 112, icw |-> 0, irr |-> {}, isr |-> {}, link |-> 2] >>
  /\ pic_at = 0 /\ saved_masks = <<0, 0>> /\ sti = FALSE /\ taken = {}

-----------------------------------------------------------------------------
(* the chips, external *)

\* Initialization starts with ICW1, which clears the mask; the next three writes to
\* the data port are ICW2 to ICW4, and any other one sets the mask.
Cmd(c) == [c EXCEPT !.icw = 2, !.imr = 0, !.irr = {}, !.isr = {}]
Data(c, v) ==
  CASE c.icw = 2 -> [c EXCEPT !.base = v, !.icw = 3]
    [] c.icw = 3 -> [c EXCEPT !.link = v, !.icw = 4]
    [] c.icw = 4 -> [c EXCEPT !.icw = 0]
    [] c.icw = 0 -> [c EXCEPT !.imr = v]

Raise(irq) ==
  /\ chip' = [chip EXCEPT ![ChipOf(irq)].irr = @ \cup {Line(irq)}]
  /\ UNCHANGED <<pic_at, saved_masks, sti, firmware, taken>>

\* A request of the slave passes through the line of the master it is linked to.
Passes(irq) ==
  /\ chip[ChipOf(irq)].icw = 0 /\ chip[1].icw = 0
  /\ Line(irq) \in chip[ChipOf(irq)].irr /\ ~Bit(chip[ChipOf(irq)].imr, Line(irq))
  /\ \A k \in chip[ChipOf(irq)].isr : k > Line(irq)
  /\ irq >= 8 => /\ Bit(chip[1].link, chip[2].link) /\ ~Bit(chip[1].imr, chip[2].link)
                 /\ \A k \in chip[1].isr : k > chip[2].link

Serve(c, line) == [c EXCEPT !.isr = @ \cup {line}]

Accept(irq) ==
  /\ sti /\ Passes(irq)
  /\ chip' = [k \in 1..2 |->
                 IF k = ChipOf(irq) THEN Serve([chip[k] EXCEPT !.irr = @ \ {Line(irq)}], Line(irq))
                 ELSE IF irq >= 8 THEN Serve(chip[k], chip[2].link) ELSE chip[k]]
  /\ taken' = taken \cup {<<irq, chip[ChipOf(irq)].base + Line(irq)>>}
  /\ UNCHANGED <<pic_at, saved_masks, sti, firmware>>

-----------------------------------------------------------------------------
(* the driver *)

\* The port writes of init(): the chip, the port, and the value.
Writes ==
  << <<1, "cmd", 17>>, <<2, "cmd", 17>>, <<1, "data", offset1>>, <<2, "data", offset2>>,
     <<1, "data", 4>>, <<2, "data", 2>>, <<1, "data", 1>>, <<2, "data", 1>>,
     <<1, "data", saved_masks[1]>>, <<2, "data", saved_masks[2]>> >>

\* Faulty variant: the masks are read when initialization has begun.
SavesAt_Late == pic_at = 2
SavesAt == pic_at = 0

Save == saved_masks' = IF SavesAt THEN <<chip[1].imr, chip[2].imr>> ELSE saved_masks

pic_init ==
  /\ pic_at < Len(Writes)
  /\ LET w == Writes[pic_at + 1]
     IN  chip' = [chip EXCEPT ![w[1]] = IF w[2] = "cmd" THEN Cmd(@) ELSE Data(@, w[3])]
  /\ Save /\ pic_at' = pic_at + 1 /\ UNCHANGED <<sti, firmware, taken>>

\* idt::init() enables interrupts when the chips are set up.  Faulty variant: before.
SetUp_Not == TRUE
SetUp == pic_at = Len(Writes)

EnableInterrupts ==
  /\ ~sti /\ SetUp /\ sti' = TRUE /\ UNCHANGED <<chip, pic_at, saved_masks, firmware, taken>>

\* eoi(), which isr_pit() calls for line 0.
eoi(irq) ==
  /\ Line(irq) \in chip[ChipOf(irq)].isr
  /\ LET Highest(s) == {k \in s : \E j \in s : j < k}
     IN  chip' = IF irq >= 8 THEN [chip EXCEPT ![1].isr = Highest(@), ![2].isr = Highest(@)]
                 ELSE [chip EXCEPT ![1].isr = Highest(@)]
  /\ UNCHANGED <<pic_at, saved_masks, sti, firmware, taken>>

PicNext == pic_init \/ EnableInterrupts \/ eoi(0) \/ \E irq \in Irq : Raise(irq) \/ Accept(irq)

PicSpec == PicInit /\ [][PicNext]_picVars

-----------------------------------------------------------------------------
(* properties *)

\* init(): "Preserves the interrupt mask": whatever the firmware masked is masked
\* afterwards and nothing else, although the chips forget their masks meanwhile.
MaskPreserved == pic_at = Len(Writes) => \A k \in 1..2 : chip[k].imr = firmware[k]

\* init() and idt::init(): every interrupt the CPU is given was not masked by the
\* firmware and comes with the vector of its line in 0x20..0x2f, never with one of
\* an exception, whenever the device raised it.
VectorsRemapped ==
  \A x \in taken :
    /\ x[2] = (IF x[1] < 8 THEN offset1 ELSE offset2) + Line(x[1])
    /\ ~Bit(firmware[ChipOf(x[1])], Line(x[1]))

\* Once interrupts are on, a line is delivered with the vector its handler has and
\* never with one of an exception, and the masks are those of the firmware (pic.cc).
RemapExact == VectorsRemapped /\ MaskPreserved
=============================================================================
