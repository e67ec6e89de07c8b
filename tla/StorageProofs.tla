--------------------------- MODULE StorageProofs ----------------------------
(***************************************************************************)
(* Ahci and Fat32: a page that read_blocking() reports as read is in       *)
(* memory, and the walks of cluster chains find what they look for.  Each  *)
(* has an inductive invariant, AhciInv and FatInv, that says where the     *)
(* driver stands at each of its steps.                                     *)
(***************************************************************************)
EXTENDS Ahci, Fat32, WellFoundedInduction, TLAPS

Last == command_slots_per_port - 1
InUse == {"idle", "spin", "wait"}

\* What memory has when the sectors from lba on have been read to dest.
Overlay(m, lba, dest) ==
  [a \in DOMAIN m |-> IF a \in dest..(dest + PageSectors - 1) THEN lba + (a - dest) ELSE m[a]]

PortRegisters ==
  [st : BOOLEAN, fre : BOOLEAN, cr : BOOLEAN, fr : BOOLEAN, clb : Port \cup {Unset}, ci : SUBSET Slot,
   tfes : BOOLEAN, bsy : BOOLEAN]

AhciTypes ==
  /\ port \in [Port -> PortRegisters]
  /\ hdr \in [Port -> [Slot -> [ctba : Slot \cup {Unset}, prdtl : Nat]]]
  /\ table = [c \in Slot |-> table[c]]
  /\ ahci_pc \in {"init", "halt", "pause", "rebase", "unpause", "idle", "spin", "wait"} /\ port_no \in Nat
  /\ ahci_pc \in {"init", "pause", "rebase", "unpause"} => port_no \in Port
  /\ ahci_pc = "init" => port_no = 0
  /\ ahci_pc \in {"spin", "wait"} => req.slot \in Slot
  /\ active \in Slot \cup {Unset} /\ dead \in BOOLEAN /\ wild \in BOOLEAN /\ ok \in BOOLEAN /\ reads \in Nat

AhciInv ==
  /\ AhciTypes
  /\ port_no > 0 \/ ahci_pc = "unpause" => hdr[0][0].ctba = Last
  /\ ahci_pc \in InUse => port_no > 0
  /\ ahci_pc \notin InUse => port[0].ci = {} /\ active = Unset /\ ~dead /\ reads = 0
  /\ port[0].tfes => dead
  /\ dead => ~port[0].cr /\ active = Unset
  /\ dead /\ ahci_pc = "wait" => req.slot \in port[0].ci
  /\ ~dead => ~wild
  /\ ~dead /\ ahci_pc \in {"idle", "spin"} => port[0].ci = {} /\ active = Unset
  /\ ~dead /\ ahci_pc \in {"spin", "wait"} =>
       /\ req.slot = 0 /\ hdr[0][0].prdtl = 1
       /\ \E lba, dest \in Nat : table[Last] = CommandTable(lba, PageSectors, dest) /\ want = Overlay(mem, lba, dest)
  /\ ~dead /\ ahci_pc = "wait" =>
       /\ port[0].ci \subseteq {0}
       /\ active # Unset => /\ active = 0 /\ port[0].ci = {0}
                            /\ (entry = 1 /\ moved = 0) \/ (entry = 2 /\ moved = PageSectors /\ mem = want)
       /\ port[0].ci = {} => mem = want
  /\ ahci_pc = "idle" /\ reads > 0 /\ ok => mem = want

-----------------------------------------------------------------------------
(* the command for a page *)

LEMMA SmallQuotient ==
  ASSUME NEW a \in Nat, NEW b \in Nat, a < b
  PROVE  a \div b = 0
<1>1. a \div b \in Nat /\ a % b \in Nat /\ a = b * (a \div b) + (a % b)
  BY SMTT(30)
<1>2. SUFFICES ASSUME a \div b # 0 PROVE FALSE
  OBVIOUS
<1>3. PICK e \in Nat : a \div b = e + 1
  <2>1. (a \div b) - 1 \in Nat /\ a \div b = ((a \div b) - 1) + 1
    BY <1>1, <1>2
  <2>. QED
    BY <2>1, Zenon
<1>4. b * (e + 1) = b * e + b /\ b * e \in Nat
  BY SMTT(30)
<1>. QED
  BY <1>1, <1>3, <1>4

\* It has one entry, for all of the page.
LEMMA OneEntry ==
  ASSUME NEW lba \in Nat, NEW dest \in Nat
  PROVE  /\ prdt_entries_count(PageSectors) = 1
         /\ CommandTable(lba, PageSectors, dest).lba = lba
         /\ CommandTable(lba, PageSectors, dest).count = PageSectors
         /\ CommandTable(lba, PageSectors, dest).prdt[1].dba = dest
         /\ CommandTable(lba, PageSectors, dest).prdt[1].n = PageSectors
<1>1. SectorsPerEntry \in Nat /\ PageSectors \in 1..SectorsPerEntry
  BY AhciAssumption, Zenon
<1>2. prdt_entries_count(PageSectors) = 1
  <2>1. (PageSectors - 1) \in Nat /\ PageSectors - 1 < SectorsPerEntry /\ SectorsPerEntry > 0
    BY <1>1
  <2>2. (PageSectors - 1) \div SectorsPerEntry = 0
    BY <1>1, <2>1, SmallQuotient
  <2>. QED
    BY <2>2 DEF prdt_entries_count
<1>3. LastCount(PageSectors, 1) = PageSectors
  BY <1>1 DEF LastCount
<1>4. Prdt(dest, PageSectors) = [k \in 1..1 |-> [dba |-> dest + (k - 1) * (SectorsPerEntry \div 2),
                                                 n |-> IF k < 1 THEN SectorsPerEntry ELSE PageSectors]]
  BY <1>2, <1>3, Zenon DEF Prdt
<1>5. Prdt(dest, PageSectors)[1].dba = dest + 0 * (SectorsPerEntry \div 2) /\ Prdt(dest, PageSectors)[1].n = PageSectors
  BY <1>4
<1>6. SectorsPerEntry \div 2 \in Nat
  BY <1>1, SMT
<1>7. Prdt(dest, PageSectors)[1].dba = dest
  BY <1>5, <1>6
<1>. QED
  BY <1>2, <1>3, <1>5, <1>7, Zenon DEF CommandTable

\* The first slot is free when no command is issued.
LEMMA FirstSlot ==
  ASSUME NEW r, r.ci = {}
  PROVE  find_free_cmdslot(r) = 0
<1>1. 0 \in Slot /\ \A s \in Slot : s \in Nat
  BY AhciAssumption DEF Slot
<1>2. Slot \ r.ci = Slot /\ r.ci # Slot
  BY <1>1, Zenon
<1>3. \A x \in Slot : (\A y \in Slot : x <= y) => x = 0
  BY <1>1
<1>4. \A y \in Slot : 0 <= y
  BY <1>1
<1>5. Min(Slot) = 0
  BY <1>1, <1>3, <1>4, Zenon DEF Min
<1>. QED
  BY <1>2, <1>5, Zenon DEF find_free_cmdslot

\* A set of numbers has a least one.
LEMMA LeastNumber ==
  ASSUME NEW S, S \subseteq Nat, S # {}
  PROVE  Min(S) \in S /\ \A y \in S : Min(S) <= y
<1>1. PICK x \in S : \A y \in S : ~(<<y, x>> \in OpToRel(<, Nat))
  BY NatLessThanWellFounded, WFMin, Zenon
<1>2. ASSUME NEW y \in S PROVE x <= y
  <2>1. ~(y < x)
    BY <1>1, Zenon DEF OpToRel
  <2>. QED
    BY <2>1
<1>. QED
  BY <1>2, Zenon DEF Min

\* A slot that is free is one of the slots.
LEMMA FreeSlot ==
  ASSUME NEW r, r.ci # Slot, r.ci \subseteq Slot
  PROVE  find_free_cmdslot(r) \in Slot
<1>1. Slot \ r.ci # {} /\ Slot \ r.ci \subseteq Nat
  <2>1. Slot \subseteq Nat
    BY AhciAssumption DEF Slot
  <2>. QED
    BY <2>1, Zenon
<1>2. Min(Slot \ r.ci) \in Slot \ r.ci
  BY <1>1, LeastNumber, Zenon
<1>. QED
  BY <1>2, Zenon DEF find_free_cmdslot

-----------------------------------------------------------------------------
(* the steps *)

LEMMA SetRegister ==
  ASSUME NEW r \in PortRegisters
  PROVE  /\ \A b \in BOOLEAN :
              /\ [r EXCEPT !.st = b, !.fre = b] \in PortRegisters
              /\ [r EXCEPT !.st = b, !.fre = b].ci = r.ci /\ [r EXCEPT !.st = b, !.fre = b].tfes = r.tfes
              /\ [r EXCEPT !.cr = b] \in PortRegisters
              /\ [r EXCEPT !.cr = b].ci = r.ci /\ [r EXCEPT !.cr = b].tfes = r.tfes
              /\ [r EXCEPT !.fr = b] \in PortRegisters /\ [r EXCEPT !.fr = b].cr = r.cr
              /\ [r EXCEPT !.fr = b].ci = r.ci /\ [r EXCEPT !.fr = b].tfes = r.tfes
              /\ [r EXCEPT !.bsy = b] \in PortRegisters /\ [r EXCEPT !.bsy = b].cr = r.cr
              /\ [r EXCEPT !.bsy = b].ci = r.ci /\ [r EXCEPT !.bsy = b].tfes = r.tfes
BY Zenon DEF PortRegisters

LEMMA SetIssued ==
  ASSUME NEW r \in PortRegisters
  PROVE  /\ \A s \in SUBSET Slot :
              /\ [r EXCEPT !.ci = s] \in PortRegisters /\ [r EXCEPT !.ci = s].ci = s
              /\ [r EXCEPT !.ci = s].tfes = r.tfes /\ [r EXCEPT !.ci = s].cr = r.cr
              /\ [r EXCEPT !.ci = s, !.bsy = FALSE] \in PortRegisters /\ [r EXCEPT !.ci = s, !.bsy = FALSE].ci = s
              /\ [r EXCEPT !.ci = s, !.bsy = FALSE].tfes = r.tfes /\ [r EXCEPT !.ci = s, !.bsy = FALSE].cr = r.cr
BY Zenon DEF PortRegisters

LEMMA SetStatus ==
  ASSUME NEW r \in PortRegisters
  PROVE  /\ [r EXCEPT !.tfes = TRUE, !.cr = FALSE, !.bsy = FALSE] \in PortRegisters
         /\ [r EXCEPT !.tfes = TRUE, !.cr = FALSE, !.bsy = FALSE].ci = r.ci
         /\ [r EXCEPT !.tfes = TRUE, !.cr = FALSE, !.bsy = FALSE].cr = FALSE
         /\ [r EXCEPT !.tfes = FALSE] \in PortRegisters /\ [r EXCEPT !.tfes = FALSE].ci = r.ci
         /\ [r EXCEPT !.tfes = FALSE].cr = r.cr /\ [r EXCEPT !.tfes = FALSE].tfes = FALSE
         /\ \A p \in Port : /\ [r EXCEPT !.clb = p] \in PortRegisters /\ [r EXCEPT !.clb = p].ci = r.ci
                            /\ [r EXCEPT !.clb = p].tfes = r.tfes /\ [r EXCEPT !.clb = p].cr = r.cr
BY Zenon DEF PortRegisters

LEMMA AhciInitial ==
  ASSUME AhciInit
  PROVE  AhciInv
<1>1. 0 \in Port /\ 0 \in Slot /\ Last \in Slot /\ Unset \notin Slot
  BY AhciAssumption DEF Port, Slot, Last
<1>2. AhciTypes
  <2>1. port \in [Port -> PortRegisters]
    <3>1. PICK st, fre, bsy \in BOOLEAN :
            port = [p \in Port |-> [st |-> st, fre |-> fre, cr |-> st, fr |-> fre, clb |-> Unset,
                                    ci |-> {}, tfes |-> FALSE, bsy |-> bsy]]
      BY Zenon DEF AhciInit
    <3>2. [st |-> st, fre |-> fre, cr |-> st, fr |-> fre, clb |-> Unset,
           ci |-> {}, tfes |-> FALSE, bsy |-> bsy] \in PortRegisters
      BY Zenon DEF PortRegisters
    <3>. QED
      BY <3>1, <3>2, Zenon
  <2>2. table = [c \in Slot |-> table[c]]
    BY Zenon DEF AhciInit
  <2>3. hdr \in [Port -> [Slot -> [ctba : Slot \cup {Unset}, prdtl : Nat]]]
    BY Zenon DEF AhciInit
  <2>. QED
    BY <1>1, <2>1, <2>2, <2>3, Zenon DEF AhciInit, AhciTypes
<1>3. port[0].ci = {} /\ port[0].tfes = FALSE /\ active = Unset /\ dead = FALSE /\ wild = FALSE /\ reads = 0
      /\ ahci_pc = "init" /\ port_no = 0
  BY <1>1 DEF AhciInit
<1>. QED
  BY <1>2, <1>3 DEF AhciInv, InUse

LEMMA Places == 0 \in Port /\ 0 \in Slot /\ Last \in Slot /\ Unset \notin Slot /\ Port \subseteq Nat
BY AhciAssumption DEF Port, Slot, Last

LEMMA EngineKeeps ==
  ASSUME AhciInv, NEW p \in Port, Engine(p) \/ DeviceReady(p)
  PROVE  AhciInv'
<1>1. PICK r \in PortRegisters : /\ port' = [port EXCEPT ![p] = r] /\ r.ci = port[p].ci /\ r.tfes = port[p].tfes
                                 /\ dead => r.cr = port[p].cr
  <2>1. port[p] \in PortRegisters
    BY Zenon DEF AhciInv, AhciTypes
  <2>2. CASE DeviceReady(p)
    <3>1. port' = [port EXCEPT ![p] = [port[p] EXCEPT !.bsy = FALSE]]
      BY <2>2, Zenon DEF DeviceReady
    <3>. QED
      BY <2>1, <3>1, SetRegister, Zenon
  <2>3. CASE port[p].st # port[p].cr /\ ~dead /\ port' = [port EXCEPT ![p].cr = port[p].st]
    <3>1. port[p].st \in BOOLEAN
      BY <2>1, Zenon DEF PortRegisters
    <3>. QED
      BY <2>1, <2>3, <3>1, SetRegister, Zenon
  <2>4. CASE port' = [port EXCEPT ![p].fr = port[p].fre]
    <3>1. port[p].fre \in BOOLEAN
      BY <2>1, Zenon DEF PortRegisters
    <3>. QED
      BY <2>1, <2>4, <3>1, SetRegister, Zenon
  <2>. QED
    BY <2>2, <2>3, <2>4, Zenon DEF Engine
<1>2. /\ port' \in [Port -> PortRegisters] /\ port'[0].ci = port[0].ci /\ port'[0].tfes = port[0].tfes
      /\ dead => port'[0].cr = port[0].cr
  BY <1>1, Places, Zenon DEF AhciInv, AhciTypes
<1>3. UNCHANGED <<driver, device, dead>>
  BY Zenon DEF Engine, DeviceReady
<1>4. AhciTypes'
  BY <1>2, <1>3, Zenon DEF AhciInv, AhciTypes, driver, device
<1>. QED
  BY <1>2, <1>3, <1>4 DEF AhciInv, driver, device, Overlay

LEMMA FetchKeeps ==
  ASSUME AhciInv, Fetch
  PROVE  AhciInv'
<1>1. port[0] \in PortRegisters /\ 0 \in Port
  BY Places, Zenon DEF AhciInv, AhciTypes
<1>2. port' = [port EXCEPT ![0] = [port[0] EXCEPT !.bsy = TRUE]]
  BY Zenon DEF Fetch
<1>3. /\ port' \in [Port -> PortRegisters] /\ port'[0].ci = port[0].ci /\ port'[0].tfes = port[0].tfes
      /\ port'[0].cr = port[0].cr
  BY <1>1, <1>2, SetRegister, Zenon DEF AhciInv, AhciTypes
<1>4. /\ UNCHANGED <<driver, mem, dead>> /\ port[0].cr /\ entry' = 1 /\ moved' = 0
      /\ active' \in port[0].ci
  BY Zenon DEF Fetch
<1>5. port[0].ci \subseteq Slot
  BY <1>1, Zenon DEF PortRegisters
<1>6. AhciTypes'
  BY <1>3, <1>4, <1>5, Zenon DEF AhciInv, AhciTypes, driver
<1>7. ~dead /\ ahci_pc = "wait" /\ port[0].ci = {0} /\ active' = 0
  BY <1>4 DEF AhciInv, AhciTypes, InUse
<1>. QED
  BY <1>3, <1>4, <1>6, <1>7, Places DEF AhciInv, driver, Overlay, InUse

LEMMA MoveKeeps ==
  ASSUME AhciInv, Move
  PROVE  AhciInv'
<1>1. active # Unset /\ UNCHANGED <<driver, port, active, dead>>
  BY Zenon DEF Move
<1>2. ~dead /\ ahci_pc = "wait" /\ active = 0 /\ port[0].ci = {0} /\ hdr[0][0].prdtl = 1 /\ hdr[0][0].ctba = Last
  BY <1>1, Zenon DEF AhciInv, AhciTypes, InUse
<1>3. PICK lba, dest \in Nat : table[Last] = CommandTable(lba, PageSectors, dest) /\ want = Overlay(mem, lba, dest)
  BY <1>2, Zenon DEF AhciInv
<1>. DEFINE t == table[Last]
<1>4. t.lba = lba /\ t.count = PageSectors /\ t.prdt[1].dba = dest /\ t.prdt[1].n = PageSectors
  BY <1>3, OneEntry
<1>5. PageSectors \in Nat /\ PageSectors > 0
  BY AhciAssumption, SMTT(30)
<1>6. entry = 1 /\ moved = 0
  BY <1>1, <1>2, <1>4, <1>5 DEF AhciInv, Move
<1>7. Min({PageSectors, PageSectors - 0}) = PageSectors
  BY <1>5 DEF Min
<1>8. /\ mem' = [a \in DOMAIN mem |-> IF a \in dest..(dest + PageSectors - 1) THEN lba + 0 + (a - dest) ELSE mem[a]]
      /\ moved' = 0 + PageSectors /\ entry' = 2
  <2>. DEFINE e == t.prdt[1]
              n == Min({e.n, t.count - 0})
  <2>1. n = PageSectors
    BY <1>4, <1>7, Zenon
  <2>2. mem' = [a \in DOMAIN mem |-> IF a \in e.dba..(e.dba + n - 1) THEN t.lba + 0 + (a - e.dba) ELSE mem[a]]
        /\ moved' = 0 + n /\ entry' = 1 + 1
    BY <1>2, <1>6, Zenon DEF Move
  <2>. QED
    BY <1>4, <2>1, <2>2
<1>9. mem' = want /\ moved' = PageSectors
  BY <1>3, <1>5, <1>8 DEF Overlay
<1>10. want = Overlay(mem', lba, dest)
  BY <1>3, <1>9, Zenon DEF Overlay
<1>11. AhciTypes'
  BY <1>1, Zenon DEF AhciInv, AhciTypes, driver
<1>. QED
  BY <1>1, <1>2, <1>3, <1>8, <1>9, <1>10, <1>11, Zenon DEF AhciInv, driver, InUse

LEMMA CompleteKeeps ==
  ASSUME AhciInv, Complete
  PROVE  AhciInv'
<1>1. active # Unset /\ UNCHANGED <<driver, entry, moved, mem, dead>> /\ active' = Unset
  BY Zenon DEF Complete
<1>2. ~dead /\ ahci_pc = "wait" /\ active = 0 /\ port[0].ci = {0} /\ hdr[0][0].prdtl = 1 /\ hdr[0][0].ctba = Last
  BY <1>1, Zenon DEF AhciInv, AhciTypes, InUse
<1>3. PICK lba, dest \in Nat : table[Last] = CommandTable(lba, PageSectors, dest) /\ want = Overlay(mem, lba, dest)
  BY <1>2, Zenon DEF AhciInv
<1>4. table[Last].count = PageSectors /\ PageSectors \in Nat /\ PageSectors > 0
  BY <1>3, OneEntry, AhciAssumption
<1>5. mem = want
  BY <1>1, <1>2, <1>4 DEF AhciInv, Complete
<1>6. port[0] \in PortRegisters /\ 0 \in Port /\ {0} \ {0} = {}
  BY Places, Zenon DEF AhciInv, AhciTypes
<1>7. port' = [port EXCEPT ![0] = [port[0] EXCEPT !.ci = {}, !.bsy = FALSE]]
  <2>1. port' = [port EXCEPT ![0].ci = {}, ![0].bsy = FALSE]
    BY <1>2, <1>6, ZenonT(30) DEF Complete
  <2>. QED
    BY <1>6, <2>1, Zenon DEF AhciInv, AhciTypes
<1>8. /\ port' \in [Port -> PortRegisters] /\ port'[0].ci = {} /\ port'[0].tfes = port[0].tfes
      /\ port'[0].cr = port[0].cr
  BY <1>6, <1>7, SetIssued, ZenonT(30) DEF AhciInv, AhciTypes
<1>9. AhciTypes'
  BY <1>1, <1>8, Zenon DEF AhciInv, AhciTypes, driver
<1>. QED
  BY <1>1, <1>2, <1>5, <1>8, <1>9, Zenon DEF AhciInv, driver, InUse

LEMMA FailKeeps ==
  ASSUME AhciInv, Fail
  PROVE  AhciInv'
<1>1. active # Unset /\ UNCHANGED <<driver, entry, moved, mem>> /\ active' = Unset /\ dead' = TRUE
  BY Zenon DEF Fail
<1>2. ~dead /\ ahci_pc = "wait" /\ active = 0 /\ port[0].ci = {0} /\ req.slot = 0
  BY <1>1, Zenon DEF AhciInv, AhciTypes, InUse
<1>3. port[0] \in PortRegisters /\ 0 \in Port
  BY Places DEF AhciInv, AhciTypes
<1>4. port' = [port EXCEPT ![0] = [port[0] EXCEPT !.tfes = TRUE, !.cr = FALSE, !.bsy = FALSE]]
  BY <1>3, Zenon DEF Fail, AhciInv, AhciTypes
<1>5. port' \in [Port -> PortRegisters] /\ port'[0].ci = port[0].ci /\ port'[0].cr = FALSE
  BY <1>3, <1>4, SetStatus, Zenon DEF AhciInv, AhciTypes
<1>6. AhciTypes'
  BY <1>1, <1>5, Zenon DEF AhciInv, AhciTypes, driver
<1>. QED
  BY <1>1, <1>2, <1>5, <1>6, Zenon DEF AhciInv, driver, InUse

LEMMA SetupKeeps ==
  ASSUME AhciInv, ahci_init \/ pause_cmd_engine \/ rebase_port_memory \/ unpause_cmd_engine
  PROVE  AhciInv'
<1>1. ahci_pc \notin InUse /\ port[0].ci = {} /\ active = Unset /\ ~dead /\ ~wild /\ ~port[0].tfes /\ reads = 0
  BY Zenon DEF AhciInv, InUse, ahci_init, pause_cmd_engine, rebase_port_memory, unpause_cmd_engine
<1>2. UNCHANGED <<device, dead, want, wild, reads, req, ok, spin, table>>
  BY Zenon DEF ahci_init, pause_cmd_engine, rebase_port_memory, unpause_cmd_engine, Then
<1>3. CASE ahci_init
  <2>1. UNCHANGED <<port, hdr, port_no>> /\ ahci_pc = "init" /\ ahci_pc' \in {"pause", "halt"} /\ port_no = 0
    BY <1>3, Zenon DEF ahci_init, Then, AhciInv, AhciTypes
  <2>2. AhciTypes'
    BY <1>2, <2>1, Places, Zenon DEF AhciInv, AhciTypes, device
  <2>. QED
    BY <1>1, <1>2, <2>1, <2>2, Zenon DEF AhciInv, InUse, device
<1>4. CASE ~ahci_init
  <2>1. ahci_pc \in {"pause", "rebase", "unpause"} /\ port_no \in Port /\ port_no \in Nat /\ port[port_no] \in PortRegisters
    BY <1>4, Places, Zenon DEF AhciInv, AhciTypes, pause_cmd_engine, rebase_port_memory, unpause_cmd_engine
  <2>2. PICK r \in PortRegisters : port' = [port EXCEPT ![port_no] = r] /\ r.ci = port[port_no].ci /\ r.tfes = port[port_no].tfes
    <3>1. CASE pause_cmd_engine
      <4>1. port' = [port EXCEPT ![port_no] = [port[port_no] EXCEPT !.st = FALSE, !.fre = FALSE]]
        BY <2>1, <3>1, Zenon DEF pause_cmd_engine, AhciInv, AhciTypes
      <4>. QED
        BY <2>1, <4>1, SetRegister, Zenon
    <3>2. CASE unpause_cmd_engine
      <4>1. port' = [port EXCEPT ![port_no] = [port[port_no] EXCEPT !.st = TRUE, !.fre = TRUE]]
        BY <2>1, <3>2, Zenon DEF unpause_cmd_engine, AhciInv, AhciTypes
      <4>. QED
        BY <2>1, <4>1, SetRegister, Zenon
    <3>3. CASE rebase_port_memory
      <4>1. port' = [port EXCEPT ![port_no] = [port[port_no] EXCEPT !.clb = port_no]]
        BY <2>1, <3>3, Zenon DEF rebase_port_memory
      <4>. QED
        BY <2>1, <4>1, SetStatus, Zenon
    <3>. QED
      BY <1>4, <3>1, <3>2, <3>3, Zenon
  <2>3. port' \in [Port -> PortRegisters] /\ port'[0].ci = {} /\ port'[0].tfes = port[0].tfes
    BY <1>1, <2>1, <2>2, Places, Zenon DEF AhciInv, AhciTypes
  <2>4. hdr' \in [Port -> [Slot -> [ctba : Slot \cup {Unset}, prdtl : Nat]]]
        /\ (port_no > 0 \/ ahci_pc = "rebase" \/ ahci_pc = "unpause" => hdr'[0][0].ctba = Last)
    <3>1. hdr \in [Port -> [Slot -> [ctba : Slot \cup {Unset}, prdtl : Nat]]]
      BY Zenon DEF AhciInv, AhciTypes
    <3>2. CASE pause_cmd_engine \/ unpause_cmd_engine
      BY <3>1, <3>2, Zenon DEF AhciInv, pause_cmd_engine, unpause_cmd_engine
    <3>3. CASE rebase_port_memory
      <4>1. [ctba |-> Last, prdtl |-> prdtes_per_command] \in [ctba : Slot \cup {Unset}, prdtl : Nat]
        BY Places, AhciAssumption, Zenon
      <4>2. ASSUME NEW s \in Slot
            PROVE  /\ Header(port_no, s) \in [ctba : Slot \cup {Unset}, prdtl : Nat]
                   /\ s = port_no => Header(port_no, s) = [ctba |-> Last, prdtl |-> prdtes_per_command]
        BY <2>1, <3>1, <4>1, Zenon DEF Header, Last
      <4>3. hdr' = [hdr EXCEPT ![port_no] = [s \in Slot |-> Header(port_no, s)]]
        BY <3>3, Zenon DEF rebase_port_memory
      <4>4. hdr' \in [Port -> [Slot -> [ctba : Slot \cup {Unset}, prdtl : Nat]]]
        BY <2>1, <3>1, <4>2, <4>3, Zenon
      <4>5. CASE port_no = 0
        <5>1. hdr'[0][0] = Header(0, 0)
          BY <3>1, <4>3, <4>5, Places, Zenon
        <5>2. hdr'[0][0].ctba = Last
          BY <4>2, <4>5, <5>1, Places
        <5>. QED
          BY <4>4, <5>2, Zenon
      <4>6. CASE port_no # 0
        <5>1. hdr'[0][0] = hdr[0][0] /\ port_no > 0
          BY <2>1, <3>1, <4>3, <4>6, Places
        <5>2. hdr'[0][0].ctba = Last
          BY <5>1, Zenon DEF AhciInv
        <5>. QED
          BY <4>4, <5>2
      <4>. QED
        BY <4>5, <4>6, Zenon
    <3>. QED
      BY <1>4, <3>2, <3>3, Zenon
  <2>5. \/ ahci_pc = "pause" /\ ahci_pc' = "rebase" /\ port_no' = port_no
        \/ ahci_pc = "rebase" /\ ahci_pc' = "unpause" /\ port_no' = port_no
        \/ /\ ahci_pc = "unpause" /\ port_no' = port_no + 1
           /\ ahci_pc' = IF port_no + 1 < max_ports THEN "pause" ELSE "idle"
    BY <1>4, Zenon DEF pause_cmd_engine, rebase_port_memory, unpause_cmd_engine, Then
  <2>6. port_no' \in Nat /\ (ahci_pc' \in {"pause", "rebase", "unpause"} => port_no' \in Port)
        /\ (port_no' > 0 \/ ahci_pc' = "unpause" => hdr'[0][0].ctba = Last)
        /\ (ahci_pc' = "idle" => port_no' > 0) /\ ahci_pc' \in {"pause", "rebase", "unpause", "idle"}
    <3>1. max_ports \in Nat
      BY AhciAssumption, Zenon
    <3>. QED
      BY <2>1, <2>4, <2>5, <3>1 DEF Port
  <2>7. AhciTypes'
    BY <1>2, <2>3, <2>4, <2>6, Zenon DEF AhciInv, AhciTypes, device
  <2>. QED
    BY <1>1, <1>2, <2>3, <2>6, <2>7 DEF AhciInv, InUse, device
<1>. QED
  BY <1>3, <1>4, Zenon

LEMMA ReadKeeps ==
  ASSUME AhciInv, NEW lba \in Nat, NEW dest \in Nat, read_blocking(lba, dest)
  PROVE  AhciInv'
<1>. DEFINE slot == find_free_cmdslot(port[0])
            n == prdt_entries_count(PageSectors)
            fails == slot = -1 \/ n > prdtes_per_command
            c == hdr[0][slot].ctba
<1>1. /\ ahci_pc = "idle" /\ reads' = reads + 1 /\ UNCHANGED <<port_no, device, dead>>
      /\ port_no > 0 /\ hdr[0][0].ctba = Last /\ reads' \in Nat /\ reads' > 0
  BY DEF read_blocking, AhciInv, AhciTypes, InUse
<1>2. n = 1 /\ ~(n > prdtes_per_command)
  BY OneEntry, AhciAssumption
<1>3. port[0] \in PortRegisters /\ 0 \in Port /\ port' = [port EXCEPT ![0] = [port[0] EXCEPT !.tfes = FALSE]]
  BY Places, Zenon DEF AhciInv, AhciTypes, read_blocking
<1>4. /\ port' \in [Port -> PortRegisters] /\ port'[0].ci = port[0].ci /\ port'[0].cr = port[0].cr
      /\ port'[0].tfes = FALSE
  BY <1>3, SetStatus, Zenon DEF AhciInv, AhciTypes
<1>5. CASE fails
  <2>1. ahci_pc' = "idle" /\ ok' = FALSE /\ UNCHANGED <<req, hdr, table, wild, want>>
    BY <1>5, Zenon DEF read_blocking
  <2>2. dead
    BY <1>1, <1>2, <1>5, FirstSlot DEF AhciInv
  <2>3. AhciTypes'
    BY <1>1, <1>4, <2>1, Zenon DEF AhciInv, AhciTypes, device
  <2>. QED
    BY <1>1, <1>4, <2>1, <2>2, <2>3, Zenon DEF AhciInv, InUse, device
<1>6. CASE ~fails
  <2>1. /\ ahci_pc' = "spin" /\ req' = [slot |-> slot] /\ UNCHANGED ok
        /\ want' = [a \in DOMAIN mem |-> IF a \in dest..(dest + PageSectors - 1) THEN lba + a - dest ELSE mem[a]]
        /\ hdr' = [hdr EXCEPT ![0][slot].prdtl = n]
        /\ IF c = Unset THEN wild' = TRUE /\ UNCHANGED table
           ELSE table' = [table EXCEPT ![c] = CommandTable(lba, PageSectors, dest)] /\ UNCHANGED wild
    BY <1>6, Zenon DEF read_blocking
  <2>2. slot \in Slot
    <3>1. port[0].ci # Slot /\ port[0].ci \subseteq Slot
      BY <1>3, <1>6, Zenon DEF find_free_cmdslot, PortRegisters
    <3>. QED
      BY <3>1, FreeSlot, Zenon
  <2>3. req'.slot = slot
    BY <2>1, Zenon
  <2>4. hdr \in [Port -> [Slot -> [ctba : Slot \cup {Unset}, prdtl : Nat]]]
    BY Zenon DEF AhciInv, AhciTypes
  <2>5. /\ hdr' \in [Port -> [Slot -> [ctba : Slot \cup {Unset}, prdtl : Nat]]]
        /\ hdr'[0][0].ctba = hdr[0][0].ctba /\ hdr'[0][slot].prdtl = 1
    BY <1>2, <1>3, <2>1, <2>2, <2>4, Places
  <2>6. table' = [d \in Slot |-> table'[d]] /\ wild' \in BOOLEAN
    BY <2>1, Zenon DEF AhciInv, AhciTypes
  <2>7. AhciTypes'
    BY <1>1, <1>4, <2>1, <2>2, <2>3, <2>5, <2>6, Zenon DEF AhciInv, AhciTypes, device
  <2>8. ASSUME ~dead
        PROVE  /\ slot = 0 /\ wild' = wild /\ hdr'[0][0].prdtl = 1
               /\ table'[Last] = CommandTable(lba, PageSectors, dest) /\ want' = Overlay(mem, lba, dest)
    <3>1. slot = 0 /\ c = Last /\ c # Unset
      BY <1>1, <2>8, FirstSlot, Places, Zenon DEF AhciInv
    <3>2. table'[Last] = CommandTable(lba, PageSectors, dest)
      BY <2>1, <3>1, Places, Zenon DEF AhciInv, AhciTypes
    <3>3. want' = Overlay(mem, lba, dest)
      <4>1. ASSUME NEW a \in dest..(dest + PageSectors - 1) PROVE lba + a - dest = lba + (a - dest)
        BY Zenon
      <4>. QED
        BY <2>1, <4>1, Zenon DEF Overlay
    <3>. QED
      BY <2>1, <2>5, <3>1, <3>2, <3>3, Zenon
  <2>. QED
    BY <1>1, <1>4, <2>1, <2>3, <2>5, <2>7, <2>8 DEF AhciInv, InUse, device
<1>. QED
  BY <1>5, <1>6, Zenon

LEMMA IssueKeeps ==
  ASSUME AhciInv, Issue
  PROVE  AhciInv'
<1>1. ahci_pc = "spin" /\ UNCHANGED <<device, dead, want, wild, reads, port_no, hdr, table>>
  BY Zenon DEF Issue, Then, Returns
<1>2. CASE Returns(FALSE)
  <2>1. ahci_pc' = "idle" /\ ok' = FALSE /\ UNCHANGED port
    BY <1>2, Zenon DEF Returns
  <2>2. AhciTypes'
    BY <1>1, <2>1, Zenon DEF AhciInv, AhciTypes, device
  <2>. QED
    BY <1>1, <2>1, <2>2, Zenon DEF AhciInv, InUse, device
<1>3. CASE ahci_pc' = "spin" /\ UNCHANGED <<req, ok, port>>
  <2>1. AhciTypes'
    BY <1>1, <1>3, Zenon DEF AhciInv, AhciTypes, device
  <2>. QED
    BY <1>1, <1>3, <2>1, Zenon DEF AhciInv, InUse, device
<1>4. CASE /\ port' = [port EXCEPT ![0].ci = @ \cup {req.slot}] /\ ahci_pc' = "wait" /\ UNCHANGED <<req, ok>>
  <2>1. port[0] \in PortRegisters /\ 0 \in Port /\ req.slot \in Slot
    BY <1>1, Places, Zenon DEF AhciInv, AhciTypes
  <2>2. port[0].ci \cup {req.slot} \in SUBSET Slot
    BY <2>1, Zenon DEF PortRegisters
  <2>3. port' = [port EXCEPT ![0] = [port[0] EXCEPT !.ci = port[0].ci \cup {req.slot}]]
    BY <1>4, ZenonT(30)
  <2>4. /\ port' \in [Port -> PortRegisters] /\ port'[0].ci = port[0].ci \cup {req.slot}
        /\ port'[0].tfes = port[0].tfes /\ port'[0].cr = port[0].cr
    BY <2>1, <2>2, <2>3, SetIssued, ZenonT(30) DEF AhciInv, AhciTypes
  <2>5. AhciTypes'
    BY <1>1, <1>4, <2>1, <2>4, Zenon DEF AhciInv, AhciTypes, device
  <2>. QED
    BY <1>1, <1>4, <2>4, <2>5, Zenon DEF AhciInv, InUse, device
<1>. QED
  BY <1>2, <1>3, <1>4, Zenon DEF Issue, Then

LEMMA WaitKeeps ==
  ASSUME AhciInv, Wait
  PROVE  AhciInv'
<1>1. /\ ahci_pc = "wait" /\ ahci_pc' = "idle" /\ UNCHANGED <<port_no, port, hdr, table, device, want, dead, wild, reads>>
      /\ (Done /\ ok' = ~port[0].tfes) \/ (port[0].tfes /\ ok' = FALSE)
  BY Zenon DEF Wait, Returns
<1>2. port[0].tfes \in BOOLEAN /\ ok' \in BOOLEAN
  <2>1. port[0] \in PortRegisters
    BY Places, Zenon DEF AhciInv, AhciTypes
  <2>2. port[0].tfes \in BOOLEAN
    BY <2>1, Zenon DEF PortRegisters
  <2>. QED
    BY <1>1, <2>2, Zenon
<1>3. AhciTypes'
  BY <1>1, <1>2, Zenon DEF AhciInv, AhciTypes, device
<1>4. ok' => mem = want /\ ~dead
  BY <1>1, <1>2, Zenon DEF AhciInv, Done
<1>5. ~dead => port[0].ci = {} /\ active = Unset
  BY <1>1, Zenon DEF AhciInv, Done
<1>. QED
  BY <1>1, <1>3, <1>4, <1>5, Zenon DEF AhciInv, InUse, device

LEMMA AhciStep ==
  ASSUME AhciInv, [AhciNext]_ahciVars
  PROVE  AhciInv'
<1>1. CASE ahci_init \/ pause_cmd_engine \/ rebase_port_memory \/ unpause_cmd_engine
  BY <1>1, SetupKeeps, Zenon
<1>2. CASE Issue
  BY <1>2, IssueKeeps, Zenon
<1>3. CASE Wait
  BY <1>3, WaitKeeps, Zenon
<1>4. ASSUME NEW lba \in 0..(Sectors - PageSectors), NEW dest \in 0..(Sectors - PageSectors), read_blocking(lba, dest)
      PROVE  AhciInv'
  <2>1. lba \in Nat /\ dest \in Nat
    BY AhciAssumption
  <2>. QED
    BY <1>4, <2>1, ReadKeeps, Zenon
<1>5. CASE Hba
  BY <1>5, FetchKeeps, MoveKeeps, CompleteKeeps, FailKeeps, EngineKeeps, Zenon DEF Hba
<1>6. CASE UNCHANGED ahciVars
  <2>1. /\ port' = port /\ hdr' = hdr /\ table' = table /\ ahci_pc' = ahci_pc /\ port_no' = port_no /\ req' = req
        /\ active' = active /\ dead' = dead /\ wild' = wild /\ ok' = ok /\ reads' = reads
        /\ entry' = entry /\ moved' = moved /\ mem' = mem /\ want' = want
    BY <1>6, Zenon DEF ahciVars
  <2>2. AhciTypes'
    BY <2>1, Zenon DEF AhciInv, AhciTypes
  <2>. QED
    BY <2>1, <2>2, Zenon DEF AhciInv
<1>. QED
  BY <1>1, <1>2, <1>3, <1>4, <1>5, <1>6, Zenon DEF AhciNext, DriverStep

\* read_blocking() never reports success before the sectors are where they belong, and
\* writes its commands to tables that the adapter knows, for any number of ports, slots
\* and reads and wherever the steps of the adapter fall (ahci.cc).
THEOREM ReadsExact == AhciSpec => []DataExact
<1>1. AhciInit => AhciInv
  BY AhciInitial, Zenon
<1>2. AhciInv /\ [AhciNext]_ahciVars => AhciInv'
  BY AhciStep, Zenon
<1>3. AhciInv => DataExact
  BY Zenon DEF AhciInv, DataExact, ReadExact, CommandInTable
<1>. QED
  BY <1>1, <1>2, <1>3, PTL DEF AhciSpec

-----------------------------------------------------------------------------
(* Fat32 *)

\* The first k pages of the directory have neither its end nor the name.
Searched(k) ==
  \A j \in 1..(k * DirentsPerPage) : j <= Len(disk.dir) /\ ~IsEnd(disk.dir[j]) /\ ~Matches(disk.dir[j])

Mounted == fat_pc \notin {"boot", "no partition"}

FatTypes ==
  /\ disk \in Disk /\ held \in BOOLEAN
  /\ fat_pc \in {"boot", "no partition", "idle", "dir", "scan", "advance", "fat", "walk", "done",
                 "past the end", "overrun", "astray", "not aligned", "not whole pages"}
  /\ Mounted => fs.fat_offset_lba \in Nat /\ fs.data_region_offset_lba \in Nat
  /\ fat_pc \in {"boot", "idle", "dir", "advance", "walk"} => ~held

\* An inode is the root directory's, or made of an entry, at the start cluster of it.
InodesTrue ==
  Mounted => \A c \in DOMAIN inodes :
               \/ c = Head(disk.chain) /\ inodes[c] = Root(disk)
               \/ inodes[c].e \in Files(disk) /\ inodes[c] = Inode(inodes[c].e) /\ c = start_cluster(inodes[c].e)

\* A walk of a directory: what has been searched is all before the cluster, and it goes
\* on from the first cluster only when clusters are pages.
OnePage == disk.spc = SectorsPerPage
DirWalk ==
  /\ fat_pc \in {"dir", "scan"} => arg.op = "lookup"
  /\ fat_pc = "scan" => at = ClusterSector(cluster) /\ WholePages
  /\ arg.op = "lookup" /\ fat_pc \in {"dir", "scan"} =>
       \E k \in 1..Len(disk.chain) : cluster = disk.chain[k] /\ Searched(k - 1) /\ (k = 1 \/ OnePage)
  /\ arg.op = "lookup" /\ fat_pc \in {"advance", "fat"} =>
       OnePage /\ \E k \in 1..Len(disk.chain) : cluster = disk.chain[k] /\ Searched(k)

\* A walk of a file that begins where its entry says, to the first page of a cluster:
\* j clusters are behind, and left is the way of the others.
Clusters == arg.off \div disk.spc
Straight == Low(disk) /\ arg.off % disk.spc = 0
Behind(j) == cluster = arg.e.chain[j + 1] /\ j <= Clusters
FileWalk ==
  /\ fat_pc = "walk" => arg.op = "read"
  /\ fat_pc \in {"advance", "fat"} => arg.op \in {"lookup", "read"}
  /\ arg.op = "read" => arg.off \in Nat /\ arg.off < OffsetMod
  /\ arg.op = "read" /\ fat_pc \in {"walk", "advance", "fat", "done"} =>
       arg.e \in Files(disk) /\ ~NoPlace(arg.e, arg.off)
  /\ fat_pc = "walk" /\ Straight => \E j \in Nat : Behind(j) /\ left = (Clusters - j) * disk.spc
  /\ arg.op = "read" /\ fat_pc \in {"advance", "fat"} /\ Straight =>
       \E j \in Nat : Behind(j) /\ j < Clusters /\ left = (Clusters - (j + 1)) * disk.spc
  /\ arg.op = "read" /\ fat_pc = "done" /\ Straight => result = ClusterSector(arg.e.chain[Clusters + 1])

FatInv ==
  /\ FatTypes /\ InodesTrue /\ DirWalk /\ FileWalk /\ LookupComplete /\ WithinChain
  /\ fat_pc = "fat" => at = floor_page(get_fat_sector_for_cluster(cluster))

-----------------------------------------------------------------------------
(* clusters and sectors *)

\* A number in units of d, below m of them.
LEMMA Quotient ==
  ASSUME NEW n \in Nat, NEW d \in Nat \ {0}, NEW m \in Nat, n < m * d
  PROVE  n \div d \in Nat /\ n \div d < m /\ (n % d = 0 => n = (n \div d) * d)
<1>. DEFINE q == n \div d
            t == n % d
<1>1. q \in Nat /\ t \in Nat /\ n = d * q + t
  OBVIOUS
<1>. HIDE DEF q, t
<1>2. d * q = q * d /\ d * q \in Nat
  BY <1>1
<1>3. q * d < m * d
  BY <1>1, <1>2
<1>4. q < m
  BY <1>1, <1>3
<1>5. t = 0 => n = q * d
  BY <1>1, <1>2
<1>. QED
  BY <1>1, <1>4, <1>5 DEF q, t

\* The entry that advance_cluster() reads is the one of the cluster.
LEMMA EntryOfCluster ==
  ASSUME NEW c \in Nat, NEW s \in Nat
  PROVE  (((floor_page(s + (c \div EntriesPerSector)) + ((s + (c \div EntriesPerSector)) % SectorsPerPage)) - s)
            * EntriesPerSector) + (c % EntriesPerSector) = c
<1>. DEFINE q == c \div EntriesPerSector
<1>1. EntriesPerSector \in Nat \ {0} /\ SectorsPerPage \in Nat \ {0}
  BY DiskAssumption, Zenon
<1>2. q \in Nat /\ c % EntriesPerSector \in Nat /\ c = EntriesPerSector * q + (c % EntriesPerSector)
  BY <1>1
<1>3. (s + q) % SectorsPerPage \in Int
  BY <1>1, <1>2
<1>4. (floor_page(s + q) + ((s + q) % SectorsPerPage)) - s = q
  <2>. HIDE DEF q
  <2>. QED
    BY <1>2, <1>3 DEF floor_page
<1>5. q * EntriesPerSector = EntriesPerSector * q
  BY <1>1, <1>2
<1>. QED
  BY <1>2, <1>4, <1>5, Zenon

\* The cluster of the first sector of a cluster.
LEMMA SectorOfCluster ==
  ASSUME disk \in Disk, NEW c \in Nat, c >= 2, fs.data_region_offset_lba \in Nat
  PROVE  SectorCluster(ClusterSector(c)) = c
<1>. DEFINE k == c - 2
<1>1. disk.spc \in Nat \ {0} /\ k \in Nat
  BY DiskAssumption
<1>2. k * disk.spc \in Nat /\ (k * disk.spc) \div disk.spc = k
  <2>. HIDE DEF k
  <2>. QED
    BY <1>1
<1>3. (fs.data_region_offset_lba + k * disk.spc) - fs.data_region_offset_lba = k * disk.spc
  BY <1>2
<1>4. k + 2 = c
  OBVIOUS
<1>. QED
  BY <1>2, <1>3, <1>4, Zenon DEF SectorCluster, ClusterSector

\* On a volume as the image is made, the pages of a cluster and of its FAT entry are
\* leased without an assertion.
LEMMA PageAligned ==
  ASSUME NEW a \in Nat, NEW k \in Int, a % SectorsPerPage = 0
  PROVE  (a + k * SectorsPerPage) % SectorsPerPage = 0
<1>. DEFINE q == a \div SectorsPerPage
<1>1. SectorsPerPage \in Nat \ {0}
  BY DiskAssumption, Zenon
<1>2. q \in Int /\ a = SectorsPerPage * q
  BY <1>1
<1>3. a + k * SectorsPerPage = SectorsPerPage * (q + k)
  <2>. HIDE DEF q
  <2>. QED
    BY <1>1, <1>2
<1>4. \A m \in Int : (SectorsPerPage * m) % SectorsPerPage = 0
  BY <1>1
<1>5. q + k \in Int
  BY <1>2
<1>6. (SectorsPerPage * (q + k)) % SectorsPerPage = 0
  <2>. HIDE DEF q
  <2>. QED
    BY <1>4, <1>5, Zenon
<1>. HIDE DEF q
<1>. QED
  BY <1>3, <1>6

LEMMA FloorPage ==
  ASSUME NEW s \in Nat
  PROVE  floor_page(s) \in Nat /\ floor_page(s) <= s /\ floor_page(s) % SectorsPerPage = 0
<1>. DEFINE q == s \div SectorsPerPage
<1>1. SectorsPerPage \in Nat \ {0}
  BY DiskAssumption, Zenon
<1>2. q \in Nat /\ s = SectorsPerPage * q + (s % SectorsPerPage) /\ s % SectorsPerPage \in Nat
  BY <1>1
<1>3. SectorsPerPage * q \in Nat /\ (SectorsPerPage * q) % SectorsPerPage = 0
  <2>. HIDE DEF q
  <2>. QED
    BY <1>1, <1>2
<1>4. floor_page(s) = SectorsPerPage * q
  <2>. HIDE DEF q
  <2>. QED
    BY <1>2, <1>3 DEF floor_page
<1>. HIDE DEF q
<1>. QED
  BY <1>2, <1>3, <1>4

LEMMA LeaseTaken ==
  ASSUME disk \in Disk, fs.data_region_offset_lba \in Nat, Formatted, NEW c \in Nat, InReach(c)
  PROVE  /\ ClusterSector(c) \in 0..(DevSectors - 1) /\ ClusterSector(c) % SectorsPerPage = 0
         /\ floor_page(get_fat_sector_for_cluster(c)) \in 0..(DevSectors - 1)
         /\ floor_page(get_fat_sector_for_cluster(c)) % SectorsPerPage = 0
<1>1. DevSectors \in Nat
  BY DiskAssumption, Zenon
<1>2. /\ ClusterSector(c) \in 0..(DevSectors - 1) /\ get_fat_sector_for_cluster(c) \in 0..(DevSectors - 1)
      /\ disk.spc = SectorsPerPage /\ fs.data_region_offset_lba % SectorsPerPage = 0
  BY Zenon DEF Formatted, InReach
<1>3. c - 2 \in Int
  OBVIOUS
<1>4. ClusterSector(c) % SectorsPerPage = 0
  BY <1>2, <1>3, PageAligned, Zenon DEF ClusterSector
<1>5. get_fat_sector_for_cluster(c) \in Nat
  BY <1>1, <1>2
<1>6. /\ floor_page(get_fat_sector_for_cluster(c)) \in Nat
      /\ floor_page(get_fat_sector_for_cluster(c)) <= get_fat_sector_for_cluster(c)
      /\ floor_page(get_fat_sector_for_cluster(c)) % SectorsPerPage = 0
  BY <1>5, FloorPage, Zenon
<1>7. floor_page(get_fat_sector_for_cluster(c)) \in 0..(DevSectors - 1)
  BY <1>1, <1>2, <1>6
<1>. QED
  BY <1>2, <1>4, <1>6, <1>7, Zenon

\* Linked clusters are numbers, and the table has the next one.
LEMMA LinkedClusters ==
  ASSUME NEW fat, NEW c, Linked(fat, c)
  PROVE  /\ Len(c) \in Nat \ {0} /\ DOMAIN c = 1..Len(c) /\ Head(c) = c[1]
         /\ \A k \in 1..Len(c) : c[k] \in Nat /\ c[k] >= 2 /\ c[k] < EndOfChain
         /\ \A k \in 1..(Len(c) - 1) : c[k] \in DOMAIN fat /\ fat[c[k]] = c[k + 1]
<1>1. EndOfChain \in Nat
  BY DiskAssumption, Zenon
<1>2. c \in Seq(2..(EndOfChain - 1)) /\ c # << >>
  BY Zenon DEF Linked
<1>. QED
  BY <1>1, <1>2 DEF Linked

LEMMA PageOfDirents == DirentsPerPage \in Nat \ {0}
<1>1. DirentsPerSector \in Nat \ {0} /\ SectorsPerPage \in Nat \ {0}
  BY DiskAssumption, Zenon
<1>. QED
  BY <1>1 DEF DirentsPerPage

\* The entries of the directory's first k pages are those of the first k - 1 and of the k-th.
LEMMA EntriesByPage ==
  ASSUME NEW k \in Nat \ {0}
  PROVE  /\ (k - 1) * DirentsPerPage \in Nat
         /\ k * DirentsPerPage = (k - 1) * DirentsPerPage + DirentsPerPage
         /\ \A j \in 1..(k * DirentsPerPage) :
              j \in 1..((k - 1) * DirentsPerPage) \/ j - (k - 1) * DirentsPerPage \in 1..DirentsPerPage
<1>. DEFINE b == (k - 1) * DirentsPerPage
<1>1. DirentsPerPage \in Nat /\ k - 1 \in Nat
  BY PageOfDirents
<1>2. b \in Nat /\ k * DirentsPerPage = b + DirentsPerPage
  BY <1>1
<1>3. \A j \in 1..(b + DirentsPerPage) : j \in 1..b \/ j - b \in 1..DirentsPerPage
  <2>. HIDE DEF b
  <2>. QED
    BY <1>1, <1>2
<1>. QED
  BY <1>2, <1>3, Zenon

-----------------------------------------------------------------------------
(* the directory *)

\* What is known of the disk at any time.
LEMMA DiskIs ==
  ASSUME disk \in Disk
  PROVE  /\ Linked(disk.fat, disk.chain) /\ disk.spc \in Nat \ {0}
         /\ disk.chain[Len(disk.chain)] \in DOMAIN disk.fat
         /\ disk.fat[disk.chain[Len(disk.chain)]] >= EndOfChain
         /\ \A i, j \in DOMAIN disk.chain : disk.chain[i] = disk.chain[j] => i = j
         /\ DOMAIN disk.dir = 1..Len(disk.dir) /\ Len(disk.dir) \in Nat
         /\ OnePage => Len(disk.dir) <= Len(disk.chain) * DirentsPerPage
<1>1. /\ Linked(disk.fat, disk.chain) /\ disk.spc \in Nat \ {0} /\ DirentsPerSector \in Nat \ {0}
      /\ disk.chain[Len(disk.chain)] \in DOMAIN disk.fat
      /\ disk.fat[disk.chain[Len(disk.chain)]] >= EndOfChain
      /\ \A i, j \in DOMAIN disk.chain : disk.chain[i] = disk.chain[j] => i = j
      /\ DOMAIN disk.dir = 1..Len(disk.dir)
      /\ Len(disk.dir) \in 0..(Len(disk.chain) * (DirentsPerSector * disk.spc))
  BY DiskAssumption, Zenon
<1>2. Len(disk.chain) \in Nat
  BY <1>1, LinkedClusters, Zenon
<1>3. Len(disk.chain) * (DirentsPerSector * disk.spc) \in Nat
  BY <1>1, <1>2
<1>4. Len(disk.dir) \in Nat /\ Len(disk.dir) <= Len(disk.chain) * (DirentsPerSector * disk.spc)
  BY <1>1, <1>3
<1>. QED
  BY <1>1, <1>4, Zenon DEF OnePage, DirentsPerPage

\* What is known of a file.
LEMMA FileIs ==
  ASSUME disk \in Disk, NEW e \in Files(disk)
  PROVE  /\ e.size \in Nat /\ (e.chain # << >> => Linked(disk.fat, e.chain))
         /\ e.size <= IF e.chain = << >> THEN 0 ELSE Len(e.chain) * disk.spc
<1>1. PICK i \in DOMAIN disk.dir : e = disk.dir[i] /\ disk.dir[i].kind = "file"
  BY Zenon DEF Files
<1>. QED
  BY <1>1, DiskAssumption, Zenon

\* An offset that has a place is in one of the file's clusters.
LEMMA PlaceInChain ==
  ASSUME disk \in Disk, NEW e \in Files(disk), NEW o \in Nat, ~NoPlace(e, o)
  PROVE  /\ Linked(disk.fat, e.chain) /\ o % SectorsPerPage = 0
         /\ o \div disk.spc \in Nat /\ o \div disk.spc < Len(e.chain)
         /\ o % disk.spc = 0 => o = (o \div disk.spc) * disk.spc
<1>. DEFINE q == o \div disk.spc
<1>1. disk.spc \in Nat \ {0}
  BY DiskIs, Zenon
<1>2. ~(o >= e.size) /\ e.size \in Nat /\ e.size <= IF e.chain = << >> THEN 0 ELSE Len(e.chain) * disk.spc
  BY FileIs, Zenon DEF NoPlace
<1>3. e.chain # << >>
  BY <1>2
<1>4. Linked(disk.fat, e.chain)
  BY <1>3, FileIs, Zenon
<1>5. Len(e.chain) \in Nat /\ o < Len(e.chain) * disk.spc
  <2>1. Len(e.chain) \in Nat
    BY <1>4, LinkedClusters, Zenon
  <2>2. Len(e.chain) * disk.spc \in Nat
    BY <1>1, <2>1
  <2>. QED
    BY <1>2, <1>3, <2>1, <2>2
<1>6. q \in Nat /\ q < Len(e.chain) /\ (o % disk.spc = 0 => o = q * disk.spc)
  BY <1>1, <1>5, Quotient, Zenon
<1>. QED
  BY <1>4, <1>6, Zenon DEF NoPlace

\* A file that begins below 2^16 begins where its entry says.
LEMMA StartOfFile ==
  ASSUME disk \in Disk, Low(disk), NEW e \in Files(disk)
  PROVE  start_cluster(e) = First(e)
<1>1. First(e) \in Nat
  <2>1. CASE e.chain = << >>
    BY <2>1 DEF First
  <2>2. CASE e.chain # << >>
    <3>1. Linked(disk.fat, e.chain)
      BY <2>2, FileIs, Zenon
    <3>2. Len(e.chain) \in Nat \ {0} /\ Head(e.chain) = e.chain[1]
      BY <3>1, LinkedClusters, Zenon
    <3>3. 1 \in 1..Len(e.chain)
      BY <3>2
    <3>4. e.chain[1] \in Nat
      BY <3>1, <3>3, LinkedClusters, Zenon
    <3>. QED
      BY <2>2, <3>2, <3>4, Zenon DEF First
  <2>. QED
    BY <2>1, <2>2
<1>2. LoSize \in Nat \ {0} /\ First(e) < LoSize
  BY DiskAssumption, Zenon DEF Low
<1>3. First(e) \div LoSize = 0 /\ First(e) % LoSize = First(e)
  BY <1>1, <1>2
<1>. QED
  BY <1>3, Zenon DEF start_cluster, cluster_hi, cluster_lo

\* The page that is scanned is that of the cluster.
LEMMA ScannedPage ==
  ASSUME disk \in Disk, fs.data_region_offset_lba \in Nat, at = ClusterSector(cluster),
         NEW k \in 1..Len(disk.chain), cluster = disk.chain[k]
  PROVE  Page = Dirents(disk, k)
<1>1. DOMAIN disk.chain = 1..Len(disk.chain) /\ cluster \in Nat /\ cluster >= 2
  BY DiskIs, LinkedClusters, Zenon
<1>2. SectorCluster(at) = cluster
  BY <1>1, SectorOfCluster, Zenon
<1>3. \A j \in DOMAIN disk.chain : disk.chain[j] = SectorCluster(at) => j = k
  BY <1>1, <1>2, DiskIs, Zenon
<1>4. (CHOOSE j \in DOMAIN disk.chain : disk.chain[j] = SectorCluster(at)) = k
  BY <1>1, <1>2, <1>3, Zenon
<1>. QED
  BY <1>4, Zenon DEF Page

\* An entry of the page is that of the directory, or the end behind its last one.
LEMMA ScannedEntry ==
  ASSUME disk \in Disk, NEW k \in 1..Len(disk.chain), k = 1 \/ OnePage, Page = Dirents(disk, k),
         NEW i \in 1..DirentsPerPage
  PROVE  /\ DOMAIN Page = 1..DirentsPerPage
         /\ ((k - 1) * DirentsPerPage) + i <= Len(disk.dir) => Page[i] = disk.dir[((k - 1) * DirentsPerPage) + i]
         /\ ~(((k - 1) * DirentsPerPage) + i <= Len(disk.dir)) => Page[i] = [kind |-> "end"]
<1>0. (k - 1) * (DirentsPerSector * disk.spc) = (k - 1) * DirentsPerPage
  <2>1. CASE k = 1
    <3>1. DirentsPerSector \in Nat /\ disk.spc \in Nat /\ DirentsPerPage \in Nat
      BY PageOfDirents, DiskAssumption
    <3>2. DirentsPerSector * disk.spc \in Nat
      BY <3>1
    <3>. QED
      BY <2>1, <3>1, <3>2
  <2>2. CASE OnePage
    BY <2>2, Zenon DEF OnePage, DirentsPerPage
  <2>. QED
    BY <2>1, <2>2, Zenon
<1>1. Page = [n \in 1..DirentsPerPage |-> IF ((k - 1) * DirentsPerPage) + n <= Len(disk.dir)
                                           THEN disk.dir[((k - 1) * DirentsPerPage) + n] ELSE [kind |-> "end"]]
  BY <1>0, Zenon DEF Dirents
<1>. QED
  BY <1>1, Zenon

LEMMA EndKind == IsEnd([kind |-> "end"]) /\ ~Matches([kind |-> "end"])
  BY Zenon DEF IsEnd, Matches

\* Nothing to stop at: one more page has been searched.
LEMMA NothingFound ==
  ASSUME disk \in Disk, NEW k \in 1..Len(disk.chain), k = 1 \/ OnePage, Page = Dirents(disk, k),
         Searched(k - 1), Stops = {}
  PROVE  Searched(k)
<1>0. Len(disk.chain) \in Nat
  BY DiskIs, LinkedClusters, Zenon
<1>. DEFINE b == (k - 1) * DirentsPerPage
<1>1. k \in Nat \ {0} /\ DirentsPerPage \in Nat
  BY <1>0, PageOfDirents
<1>2. SUFFICES ASSUME NEW j \in 1..(k * DirentsPerPage)
               PROVE  j <= Len(disk.dir) /\ ~IsEnd(disk.dir[j]) /\ ~Matches(disk.dir[j])
  BY Zenon DEF Searched
<1>3. CASE j \in 1..b
  BY <1>3, Zenon DEF Searched
<1>4. CASE j - b \in 1..DirentsPerPage
  <2>1. b \in Nat /\ b + (j - b) = j
    BY <1>1, EntriesByPage
  <2>2. ~IsEnd(Page[j - b]) /\ ~Matches(Page[j - b])
    BY <1>4, ScannedEntry, Zenon DEF Stops
  <2>3. j <= Len(disk.dir) => Page[j - b] = disk.dir[j]
    BY <1>4, <2>1, ScannedEntry, Zenon
  <2>4. ~(j <= Len(disk.dir)) => Page[j - b] = [kind |-> "end"]
    BY <1>4, <2>1, ScannedEntry, Zenon
  <2>. QED
    BY <2>2, <2>3, <2>4, EndKind, Zenon
<1>. QED
  BY <1>1, <1>3, <1>4, EntriesByPage, Zenon

\* The first entry to stop at decides: all before it are neither the end nor the name.
LEMMA BeforeStop ==
  ASSUME disk \in Disk, NEW k \in 1..Len(disk.chain), k = 1 \/ OnePage, Page = Dirents(disk, k),
         Searched(k - 1), Stops # {}
  PROVE  \E J \in Nat \ {0} :
           /\ J <= Len(disk.dir) => Page[Min(Stops)] = disk.dir[J]
           /\ ~(J <= Len(disk.dir)) => Page[Min(Stops)] = [kind |-> "end"]
           /\ IsEnd(Page[Min(Stops)]) \/ Matches(Page[Min(Stops)])
           /\ \A j \in 1..(J - 1) : j <= Len(disk.dir) /\ ~IsEnd(disk.dir[j]) /\ ~Matches(disk.dir[j])
<1>. DEFINE b == (k - 1) * DirentsPerPage
            m == Min(Stops)
<1>0. Len(disk.chain) \in Nat
  BY DiskIs, LinkedClusters, Zenon
<1>1. k \in Nat \ {0} /\ DirentsPerPage \in Nat \ {0}
  BY <1>0, PageOfDirents
<1>2. DOMAIN Page = 1..DirentsPerPage
  <2>1. 1 \in 1..DirentsPerPage
    BY <1>1
  <2>. QED
    BY <2>1, ScannedEntry, Zenon
<1>3. Stops \subseteq 1..DirentsPerPage /\ Stops \subseteq Nat
  BY <1>1, <1>2 DEF Stops
<1>4. m \in Stops /\ \A y \in Stops : m <= y
  BY <1>3, LeastNumber, Zenon
<1>5. b \in Nat
  BY <1>1, EntriesByPage, Zenon
<1>6. m \in 1..DirentsPerPage /\ m \in Nat /\ (IsEnd(Page[m]) \/ Matches(Page[m]))
  BY <1>1, <1>3, <1>4, Zenon DEF Stops
<1>7. b + m \in Nat \ {0}
  <2>. HIDE DEF b, m
  <2>. QED
    BY <1>1, <1>5, <1>6
<1>8. ASSUME NEW j \in 1..((b + m) - 1)
      PROVE  j <= Len(disk.dir) /\ ~IsEnd(disk.dir[j]) /\ ~Matches(disk.dir[j])
  <2>1. CASE j \in 1..b
    BY <2>1, Zenon DEF Searched
  <2>2. CASE ~(j \in 1..b)
    <3>1. j - b \in 1..DirentsPerPage /\ j - b < m /\ b + (j - b) = j
      <4>. HIDE DEF b, m
      <4>. QED
        BY <1>1, <1>5, <1>6, <2>2
    <3>2. ~(m <= j - b)
      <4>. HIDE DEF b, m
      <4>. QED
        BY <1>1, <1>6, <3>1
    <3>3. j - b \notin Stops
      BY <1>4, <3>2, Zenon
    <3>4. ~IsEnd(Page[j - b]) /\ ~Matches(Page[j - b])
      BY <1>2, <3>1, <3>3, Zenon DEF Stops
    <3>5. j <= Len(disk.dir) => Page[j - b] = disk.dir[j]
      BY <3>1, ScannedEntry, Zenon
    <3>6. ~(j <= Len(disk.dir)) => Page[j - b] = [kind |-> "end"]
      BY <3>1, ScannedEntry, Zenon
    <3>. QED
      BY <3>4, <3>5, <3>6, EndKind, Zenon
  <2>. QED
    BY <2>1, <2>2, Zenon
<1>9. /\ b + m <= Len(disk.dir) => Page[m] = disk.dir[b + m]
      /\ ~(b + m <= Len(disk.dir)) => Page[m] = [kind |-> "end"]
  BY <1>6, ScannedEntry, Zenon
<1>. WITNESS b + m \in Nat \ {0}
<1>. QED
  BY <1>6, <1>8, <1>9, Zenon

\* The entry that has the name, with no end before it, is a file of the directory.
LEMMA NameFound ==
  ASSUME disk \in Disk, NEW J \in Nat \ {0}, J <= Len(disk.dir), Matches(disk.dir[J]),
         \A j \in 1..(J - 1) : ~IsEnd(disk.dir[j]), ~IsEnd(disk.dir[J])
  PROVE  disk.dir[J] \in Files(disk) /\ disk.dir[J].name = convert_normal_to_8_3_filename(arg.name)
<1>. DEFINE ends == {i \in DOMAIN disk.dir : disk.dir[i].kind = "end"}
<1>1. DOMAIN disk.dir = 1..Len(disk.dir) /\ Len(disk.dir) \in Nat
  BY DiskIs, Zenon
<1>2. J \in DOMAIN disk.dir /\ disk.dir[J].kind = "file"
  BY <1>1 DEF Matches
<1>3. ends # {} => J < Min(ends)
  <2>1. HAVE ends # {}
  <2>2. ends \subseteq Nat
    BY <1>1
  <2>3. Min(ends) \in ends
    BY <2>1, <2>2, LeastNumber, Zenon
  <2>4. Min(ends) \in Nat \ {0} /\ IsEnd(disk.dir[Min(ends)])
    <3>1. \A e \in ends : e \in Nat \ {0} /\ IsEnd(disk.dir[e])
      BY <1>1 DEF IsEnd
    <3>. QED
      BY <2>3, <3>1, Zenon
  <2>5. Min(ends) \notin 1..(J - 1) /\ Min(ends) # J
    BY <2>4, Zenon
  <2>. HIDE DEF ends
  <2>. QED
    BY <2>4, <2>5
<1>4. disk.dir[J] \in Files(disk)
  BY <1>2, <1>3, Zenon DEF Files
<1>. QED
  BY <1>4, Zenon DEF Matches

\* When the end is met before the name, no file has the name.
LEMMA EndFound ==
  ASSUME disk \in Disk, NEW J \in Nat \ {0}, J <= Len(disk.dir) => IsEnd(disk.dir[J]),
         \A j \in 1..(J - 1) : ~Matches(disk.dir[j]),
         NEW e \in Files(disk)
  PROVE  e.name # convert_normal_to_8_3_filename(arg.name)
<1>. DEFINE ends == {i \in DOMAIN disk.dir : disk.dir[i].kind = "end"}
<1>1. DOMAIN disk.dir = 1..Len(disk.dir) /\ Len(disk.dir) \in Nat
  BY DiskIs, Zenon
<1>2. PICK j \in DOMAIN disk.dir : e = disk.dir[j] /\ e.kind = "file" /\ (ends = {} \/ j < Min(ends))
  BY Zenon DEF Files
<1>3. CASE j \in 1..(J - 1)
  BY <1>2, <1>3, Zenon DEF Matches
<1>4. CASE ~(j \in 1..(J - 1))
  <2>1. J <= j /\ J \in DOMAIN disk.dir /\ J <= Len(disk.dir)
    BY <1>1, <1>4
  <2>2. J \in ends /\ ends \subseteq Nat
    BY <1>1, <2>1 DEF IsEnd
  <2>3. ends # {} /\ Min(ends) \in ends /\ Min(ends) <= J
    BY <2>2, LeastNumber, Zenon
  <2>4. Min(ends) \in Nat /\ j < Min(ends)
    BY <1>2, <2>2, <2>3, Zenon
  <2>. HIDE DEF ends
  <2>. QED
    BY <1>1, <2>1, <2>3, <2>4, SMTT(30)
<1>. QED
  BY <1>3, <1>4, Zenon

-----------------------------------------------------------------------------
(* the steps *)

LEMMA SameVolume ==
  ASSUME UNCHANGED <<disk, fs>>
  PROVE  (Formatted' <=> Formatted) /\ \A c : ClusterSector(c)' = ClusterSector(c)
  BY Zenon DEF Formatted, InReach, ClusterSector, get_fat_sector_for_cluster

LEMMA SameInodes ==
  ASSUME InodesTrue, Mounted, UNCHANGED <<disk, inodes>>
  PROVE  InodesTrue'
  BY Zenon DEF InodesTrue

LEMMA SameSearch ==
  ASSUME UNCHANGED <<disk, arg>>, NEW k, Searched(k)
  PROVE  Searched(k)'
  BY Zenon DEF Searched, Matches

\* Clusters of one page are of whole pages, and offsets of pages those of clusters.
LEMMA FormattedPages ==
  ASSUME Formatted
  PROVE  OnePage /\ WholePages
<1>1. disk.spc = SectorsPerPage /\ SectorsPerPage \in Nat \ {0}
  BY DiskAssumption, Zenon DEF Formatted
<1>2. SectorsPerPage % SectorsPerPage = 0
  BY <1>1
<1>. QED
  BY <1>1, <1>2, Zenon DEF OnePage, WholePages

\* Where the driver stops for a cause.
LEMMA StoppedKeeps ==
  ASSUME FatInv, Mounted, UNCHANGED <<disk, fs, inodes, arg>>, held' \in BOOLEAN,
         fat_pc' \in {"past the end", "overrun", "astray", "not aligned", "not whole pages"},
         ~(Formatted /\ Terminated(disk) /\ Low(disk))
  PROVE  FatInv'
<1>1. FatTypes'
  BY Zenon DEF FatInv, FatTypes, Mounted
<1>2. InodesTrue'
  BY SameInodes, Zenon DEF FatInv
<1>3. DirWalk' /\ LookupComplete'
  BY Zenon DEF DirWalk, LookupComplete
<1>4. FileWalk'
  <2>1. arg.op = "read" => arg.off \in Nat /\ arg.off < OffsetMod
    BY Zenon DEF FatInv, FileWalk
  <2>. QED
    BY <2>1, Zenon DEF FileWalk
<1>5. WithinChain'
  BY SameVolume, Zenon DEF WithinChain
<1>. QED
  BY <1>1, <1>2, <1>3, <1>4, <1>5, Zenon DEF FatInv

LEMMA FatInitial == FatInit => FatInv
<1>1. SUFFICES ASSUME FatInit PROVE FatInv
  OBVIOUS
<1>2. fat_pc = "boot" /\ disk \in Disk /\ held = FALSE /\ arg.op = "none"
  BY <1>1, Zenon DEF FatInit
<1>3. FatTypes /\ InodesTrue
  BY <1>2, Zenon DEF FatTypes, InodesTrue, Mounted
<1>4. DirWalk /\ FileWalk /\ LookupComplete /\ WithinChain
  BY <1>2, Zenon DEF DirWalk, FileWalk, LookupComplete, WithinChain
<1>. QED
  BY <1>2, <1>3, <1>4, Zenon DEF FatInv

LEMMA BootKeeps ==
  ASSUME FatInv, Boot
  PROVE  FatInv'
<1>. DEFINE ps == {i \in DOMAIN disk.parts : disk.parts[i].fat32}
<1>1. disk \in Disk /\ held = FALSE /\ fat_pc = "boot"
  BY Zenon DEF FatInv, FatTypes, Boot
<1>2. UNCHANGED <<disk, arg, cluster, left, held, at, result>>
  BY ZenonT(30) DEF Boot
<1>3. fat_pc' = "idle" => /\ fs'.fat_offset_lba \in Nat /\ fs'.data_region_offset_lba \in Nat
                          /\ inodes' = [c \in {Head(disk.chain)} |-> Root(disk)]
  <2>1. HAVE fat_pc' = "idle"
  <2>2. ps # {} /\ fs' = Regions(disk.parts[Min(ps)]) /\ inodes' = [c \in {Head(disk.chain)} |-> Root(disk)]
    BY <2>1, Zenon DEF Boot
  <2>3. ps \subseteq Nat
    BY <1>1, DiskAssumption, Zenon
  <2>4. Min(ps) \in DOMAIN disk.parts
    BY <2>2, <2>3, LeastNumber, Zenon
  <2>5. PICK p : /\ p = disk.parts[Min(ps)]
                 /\ p.start \in Nat /\ p.reserved \in Nat /\ p.fats \in Nat /\ p.spf \in Nat
    BY <1>1, <2>4, DiskAssumption, Zenon
  <2>6. p.fats * p.spf \in Nat
    BY <2>5, SMTT(30)
  <2>7. fs'.fat_offset_lba \in Nat /\ fs'.data_region_offset_lba \in Nat
    BY <2>2, <2>5, <2>6 DEF Regions
  <2>. QED
    BY <2>2, <2>7, Zenon
<1>4. fat_pc' \in {"idle", "no partition"}
  BY Zenon DEF Boot
<1>5. FatTypes'
  BY <1>1, <1>2, <1>3, <1>4, Zenon DEF FatTypes, Mounted
<1>6. InodesTrue'
  BY <1>2, <1>3, <1>4, Zenon DEF InodesTrue, Mounted
<1>7. arg.op = "read" => arg.off \in Nat /\ arg.off < OffsetMod
  BY Zenon DEF FatInv, FileWalk
<1>8. DirWalk' /\ FileWalk' /\ LookupComplete' /\ WithinChain'
  BY <1>2, <1>4, <1>7, Zenon DEF DirWalk, FileWalk, LookupComplete, WithinChain
<1>. QED
  BY <1>4, <1>5, <1>6, <1>8, Zenon DEF FatInv

LEMMA LookupKeeps ==
  ASSUME FatInv, ~held, NEW name, inode_lookup(name)
  PROVE  FatInv'
<1>1. disk \in Disk /\ fs.fat_offset_lba \in Nat /\ fs.data_region_offset_lba \in Nat /\ held = FALSE /\ Mounted
  BY Zenon DEF FatInv, FatTypes, Mounted, inode_lookup
<1>2. /\ UNCHANGED <<disk, fs, inodes, left, held, at>>
      /\ fat_pc' = "dir" /\ arg' = [op |-> "lookup", name |-> name] /\ cluster' = Head(disk.chain)
  BY Zenon DEF inode_lookup
<1>3. FatTypes' /\ InodesTrue'
  BY <1>1, <1>2, SameInodes, Zenon DEF FatInv, FatTypes, Mounted
<1>4. 1 \in 1..Len(disk.chain) /\ Head(disk.chain) = disk.chain[1]
  BY <1>1, DiskIs, LinkedClusters
<1>5. Searched(1 - 1)'
  BY PageOfDirents DEF Searched
<1>6. arg'.op = "lookup"
  BY <1>2, Zenon
<1>7. DirWalk'
  BY <1>2, <1>4, <1>5, <1>6, Zenon DEF DirWalk
<1>8. FileWalk' /\ LookupComplete' /\ WithinChain'
  BY <1>2, <1>6, Zenon DEF FileWalk, LookupComplete, WithinChain
<1>. QED
  BY <1>2, <1>3, <1>7, <1>8, Zenon DEF FatInv

LEMMA ForgetKeeps ==
  ASSUME FatInv, NEW c, ForgetInode(c)
  PROVE  FatInv'
<1>1. UNCHANGED <<disk, fs, fat_pc, arg, cluster, left, held, at, result>> /\ Mounted
      /\ inodes' = [k \in DOMAIN inodes \ {c} |-> inodes[k]] /\ fat_pc \in {"idle", "done"}
  BY Zenon DEF ForgetInode, Mounted
<1>2. FatTypes'
  BY <1>1, Zenon DEF FatInv, FatTypes, Mounted
<1>3. InodesTrue'
  <2>1. SUFFICES ASSUME NEW k \in DOMAIN inodes'
                 PROVE  \/ k = Head(disk.chain) /\ inodes'[k] = Root(disk)
                        \/ /\ inodes'[k].e \in Files(disk) /\ inodes'[k] = Inode(inodes'[k].e)
                           /\ k = start_cluster(inodes'[k].e)
    BY <1>1, Zenon DEF InodesTrue
  <2>2. k \in DOMAIN inodes /\ inodes'[k] = inodes[k]
    BY <1>1, Zenon
  <2>. QED
    BY <1>1, <2>2, Zenon DEF FatInv, InodesTrue
<1>4. DirWalk'
  BY <1>1, Zenon DEF DirWalk
<1>5. FileWalk'
  <2>1. FileWalk
    BY Zenon DEF FatInv
  <2>. QED
    BY <1>1, <2>1, SameVolume, Zenon DEF FileWalk, Straight, Clusters
<1>6. LookupComplete'
  BY <1>1, Zenon DEF FatInv, LookupComplete
<1>7. WithinChain'
  BY <1>1, Zenon DEF WithinChain
<1>. QED
  BY <1>1, <1>2, <1>3, <1>4, <1>5, <1>6, <1>7, Zenon DEF FatInv

LEMMA ReadPageKeeps ==
  ASSUME FatInv, ~held, NEW c \in DOMAIN inodes, NEW o \in Offset, read_page(c, o)
  PROVE  FatInv'
<1>. DEFINE e == inodes[c].e
<1>1. disk \in Disk /\ fs.fat_offset_lba \in Nat /\ fs.data_region_offset_lba \in Nat /\ held = FALSE /\ Mounted
  BY Zenon DEF FatInv, FatTypes, Mounted, read_page
<1>2. /\ UNCHANGED <<disk, fs, inodes, held, at>> /\ arg' = [op |-> "read", e |-> e, off |-> o]
      /\ cluster' = inodes[c].start_cluster /\ left' = o
  BY Zenon DEF read_page
<1>3. /\ arg'.op = "read" /\ arg'.e = e /\ arg'.off = o
      /\ o \in Nat /\ o < OffsetMod
  <2>1. o \in 0..(OffsetMod - 1) /\ OffsetMod \in Nat
    BY DiskAssumption, Zenon
  <2>. QED
    BY <1>2, <2>1
<1>4. \/ fat_pc' = "not whole pages" /\ ~WholePages
      \/ fat_pc' = "not aligned" /\ NoPlace(e, o)
      \/ fat_pc' = "walk" /\ ~NoPlace(e, o)
  BY Zenon DEF read_page
<1>5. FatTypes' /\ InodesTrue'
  BY <1>1, <1>2, <1>4, SameInodes, Zenon DEF FatInv, FatTypes, Mounted
<1>6. DirWalk' /\ LookupComplete'
  BY <1>3, <1>4, Zenon DEF DirWalk, LookupComplete
<1>7. WithinChain'
  <2>1. Formatted' => WholePages
    BY <1>2, SameVolume, FormattedPages, Zenon
  <2>. QED
    BY <1>3, <1>4, <2>1, Zenon DEF WithinChain, NoPlace
<1>8. CASE fat_pc' # "walk"
  <2>1. FileWalk'
    BY <1>3, <1>4, <1>8, Zenon DEF FileWalk
  <2>. QED
    BY <1>4, <1>5, <1>6, <1>7, <2>1, Zenon DEF FatInv
<1>9. CASE fat_pc' = "walk"
  <2>1. ~NoPlace(e, o)
    BY <1>4, <1>9, Zenon
  <2>2. inodes[c] # Root(disk)
    <3>1. Root(disk).e.subdir = TRUE
      BY DEF Root
    <3>. QED
      BY <2>1, <3>1, Zenon DEF NoPlace
  <2>3. e \in Files(disk) /\ inodes[c] = Inode(e)
    BY <1>1, <2>2, Zenon DEF FatInv, InodesTrue
  <2>4. inodes[c].start_cluster = start_cluster(e)
    <3>1. \A f : Inode(f).start_cluster = start_cluster(f)
      BY DEF Inode
    <3>. QED
      BY <2>3, <3>1, Zenon
  <2>5. Linked(disk.fat, e.chain) /\ o \div disk.spc \in Nat /\ (o % disk.spc = 0 => o = (o \div disk.spc) * disk.spc)
    BY <1>1, <1>3, <2>1, <2>3, PlaceInChain, Zenon
  <2>6. Head(e.chain) = e.chain[1] /\ e.chain # << >>
    BY <2>5, LinkedClusters, Zenon DEF Linked
  <2>7. Low(disk) => cluster' = e.chain[1]
    BY <1>1, <1>2, <2>3, <2>4, <2>6, StartOfFile, Zenon DEF First
  <2>8. 0 + 1 = 1 /\ 0 \in Nat /\ 0 <= o \div disk.spc /\ (o \div disk.spc) - 0 = o \div disk.spc
    BY <2>5
  <2>9. Straight' => Behind(0)' /\ left' = (Clusters' - 0) * disk'.spc
    <3>1. HAVE Straight'
    <3>2. Low(disk) /\ o % disk.spc = 0 /\ Clusters' = o \div disk.spc
      BY <1>2, <1>3, <3>1, Zenon DEF Straight, Clusters
    <3>. QED
      BY <1>2, <1>3, <2>5, <2>7, <2>8, <3>2, Zenon DEF Behind
  <2>10. FileWalk'
    BY <1>2, <1>3, <1>9, <2>1, <2>3, <2>8, <2>9, Zenon DEF FileWalk, NoPlace
  <2>. QED
    BY <1>5, <1>6, <1>7, <1>9, <2>10, Zenon DEF FatInv
<1>. QED
  BY <1>8, <1>9, Zenon

LEMMA TakeDirPageKeeps ==
  ASSUME FatInv, TakeDirPage
  PROVE  FatInv'
<1>1. /\ fat_pc = "dir" /\ ~held /\ arg.op = "lookup" /\ FatTypes /\ DirWalk /\ FileWalk /\ Mounted /\ disk \in Disk
      /\ fs.data_region_offset_lba \in Nat /\ held \in BOOLEAN
  BY Zenon DEF FatInv, FatTypes, DirWalk, TakeDirPage, Mounted
<1>2. UNCHANGED <<disk, fs, inodes, arg, cluster, left, result>>
  BY Zenon DEF TakeDirPage
<1>3. PICK k \in 1..Len(disk.chain) : cluster = disk.chain[k] /\ Searched(k - 1) /\ (k = 1 \/ OnePage)
  BY <1>1, Zenon DEF DirWalk
<1>4. CASE fat_pc' = "scan"
  <2>1. held' = TRUE /\ at' = ClusterSector(cluster) /\ WholePages
    BY <1>1, <1>4, Zenon DEF TakeDirPage, VirtLease
  <2>2. FatTypes' /\ InodesTrue'
    BY <1>1, <1>2, <1>4, <2>1, SameInodes, Zenon DEF FatInv, FatTypes, Mounted
  <2>3. Searched(k - 1)' /\ ClusterSector(cluster)' = ClusterSector(cluster) /\ WholePages'
    BY <1>2, <1>3, <2>1, Zenon DEF Searched, Matches, ClusterSector, WholePages
  <2>4. DirWalk'
    BY <1>1, <1>2, <1>3, <1>4, <2>1, <2>3, Zenon DEF DirWalk, OnePage
  <2>5. FileWalk' /\ LookupComplete' /\ WithinChain'
    BY <1>1, <1>2, <1>4, Zenon DEF FileWalk, LookupComplete, WithinChain
  <2>. QED
    BY <1>4, <2>2, <2>4, <2>5, Zenon DEF FatInv
<1>5. CASE fat_pc' # "scan"
  <2>1. /\ held' = held /\ fat_pc' \in {"astray", "not aligned", "not whole pages"}
        /\ ~(WholePages /\ ClusterSector(cluster) \in 0..(DevSectors - 1) /\ ClusterSector(cluster) % SectorsPerPage = 0)
    BY <1>1, <1>5, Zenon DEF TakeDirPage, VirtLease
  <2>2. cluster \in Nat /\ DOMAIN disk.chain = 1..Len(disk.chain)
    BY <1>1, <1>3, DiskIs, LinkedClusters, Zenon
  <2>3. Formatted => InReach(cluster)
    BY <1>3, <2>2, Zenon DEF Formatted
  <2>4. ~Formatted
    BY <1>1, <2>1, <2>2, <2>3, LeaseTaken, FormattedPages, Zenon
  <2>. QED
    BY <1>1, <1>2, <2>1, <2>4, StoppedKeeps, Zenon
<1>. QED
  BY <1>4, <1>5, Zenon

\* The cluster of a walk is one of the directory's or, on a volume as the image is
\* made, one of the file's.
LEMMA WalkCluster ==
  ASSUME FatInv, fat_pc \in {"advance", "fat"}, Formatted, Low(disk)
  PROVE  cluster \in Nat /\ InReach(cluster)
<1>1. disk \in Disk /\ DirWalk /\ FileWalk /\ arg.op \in {"lookup", "read"}
  BY Zenon DEF FatInv, FatTypes, FileWalk
<1>2. CASE arg.op = "lookup"
  <2>1. PICK k \in 1..Len(disk.chain) : cluster = disk.chain[k]
    BY <1>1, <1>2, Zenon DEF DirWalk
  <2>2. cluster \in Nat /\ DOMAIN disk.chain = 1..Len(disk.chain)
    BY <1>1, <2>1, DiskIs, LinkedClusters, Zenon
  <2>. QED
    BY <2>1, <2>2, Zenon DEF Formatted
<1>3. CASE arg.op = "read"
  <2>1. arg.e \in Files(disk) /\ ~NoPlace(arg.e, arg.off) /\ arg.off \in Nat
    BY <1>1, <1>3, Zenon DEF FileWalk
  <2>2. /\ Linked(disk.fat, arg.e.chain) /\ arg.off % SectorsPerPage = 0
        /\ Clusters \in Nat /\ Clusters < Len(arg.e.chain)
    BY <1>1, <2>1, PlaceInChain, Zenon DEF Clusters
  <2>3. Straight
    BY <2>2, FormattedPages, Zenon DEF Straight, OnePage
  <2>4. PICK j \in Nat : cluster = arg.e.chain[j + 1] /\ j < Clusters
    BY <1>1, <1>3, <2>3, Zenon DEF FileWalk, Behind
  <2>5. Len(arg.e.chain) \in Nat /\ DOMAIN arg.e.chain = 1..Len(arg.e.chain)
    BY <2>2, LinkedClusters, Zenon
  <2>6. j + 1 \in 1..Len(arg.e.chain)
    BY <2>2, <2>4, <2>5
  <2>7. cluster \in Nat
    BY <2>2, <2>4, <2>6, LinkedClusters, Zenon
  <2>. QED
    BY <2>1, <2>4, <2>5, <2>6, <2>7, Zenon DEF Formatted
<1>. QED
  BY <1>1, <1>2, <1>3, Zenon

LEMMA TakeFatPageKeeps ==
  ASSUME FatInv, TakeFatPage
  PROVE  FatInv'
<1>1. /\ fat_pc = "advance" /\ ~held /\ FatTypes /\ DirWalk /\ FileWalk /\ Mounted /\ disk \in Disk
      /\ fs.data_region_offset_lba \in Nat /\ held \in BOOLEAN
  BY Zenon DEF FatInv, FatTypes, TakeFatPage, Mounted
<1>2. UNCHANGED <<disk, fs, inodes, arg, cluster, left, result>>
  BY Zenon DEF TakeFatPage
<1>3. CASE fat_pc' = "fat"
  <2>1. held' = TRUE /\ at' = floor_page(get_fat_sector_for_cluster(cluster))
    BY <1>1, <1>3, Zenon DEF TakeFatPage, VirtLease
  <2>2. FatTypes' /\ InodesTrue'
    BY <1>1, <1>2, <1>3, <2>1, SameInodes, Zenon DEF FatInv, FatTypes, Mounted
  <2>3. \A k : Searched(k) => Searched(k)'
    BY <1>2, Zenon DEF Searched, Matches
  <2>4. DirWalk'
    BY <1>1, <1>2, <1>3, <2>3, Zenon DEF DirWalk, OnePage
  <2>5. FileWalk'
    BY <1>1, <1>2, <1>3, Zenon DEF FileWalk, Straight, Behind, Clusters, NoPlace
  <2>6. LookupComplete' /\ WithinChain'
    BY <1>3, Zenon DEF LookupComplete, WithinChain
  <2>7. at' = floor_page(get_fat_sector_for_cluster(cluster))'
    BY <1>2, <2>1, Zenon DEF get_fat_sector_for_cluster, floor_page
  <2>. QED
    BY <2>2, <2>4, <2>5, <2>6, <2>7, Zenon DEF FatInv
<1>4. CASE fat_pc' # "fat"
  <2>1. /\ held' = held /\ fat_pc' \in {"astray", "not aligned"}
        /\ ~(/\ floor_page(get_fat_sector_for_cluster(cluster)) \in 0..(DevSectors - 1)
             /\ floor_page(get_fat_sector_for_cluster(cluster)) % SectorsPerPage = 0)
    BY <1>1, <1>4, Zenon DEF TakeFatPage, VirtLease
  <2>2. ~(Formatted /\ Low(disk))
    BY <1>1, <2>1, WalkCluster, LeaseTaken, Zenon
  <2>. QED
    BY <1>1, <1>2, <2>1, <2>2, StoppedKeeps, Zenon
<1>. QED
  BY <1>3, <1>4, Zenon

\* The entry of the cluster is the one that is read.
LEMMA NextCluster ==
  ASSUME FatInv, advance_cluster, cluster \in Nat
  PROVE  /\ FatEntry(disk, cluster) >= EndOfChain => fat_pc' = "past the end"
         /\ ~(FatEntry(disk, cluster) >= EndOfChain) =>
              cluster' = FatEntry(disk, cluster) /\ fat_pc' = IF arg.op = "read" THEN "walk" ELSE "dir"
<1>. DEFINE E == (((at + SectorOff(cluster)) - fs.fat_offset_lba) * EntriesPerSector) + (cluster % EntriesPerSector)
<1>1. fs.fat_offset_lba \in Nat /\ at = floor_page(get_fat_sector_for_cluster(cluster))
  BY Zenon DEF FatInv, FatTypes, Mounted, advance_cluster
<1>2. E = cluster
  BY <1>1, EntryOfCluster, Zenon DEF SectorOff, get_fat_sector_for_cluster
<1>3. IF FatEntry(disk, E) >= EndOfChain
      THEN fat_pc' = "past the end" /\ UNCHANGED cluster
      ELSE cluster' = FatEntry(disk, E) /\ fat_pc' = IF arg.op = "read" THEN "walk" ELSE "dir"
  BY Zenon DEF advance_cluster
<1>. HIDE DEF E
<1>. QED
  BY <1>2, <1>3, Zenon

\* In a chain, the entry of a cluster but the last is the next one.
LEMMA NextInChain ==
  ASSUME NEW c, Linked(disk.fat, c), NEW k \in 1..(Len(c) - 1)
  PROVE  /\ c[k] \in Nat /\ FatEntry(disk, c[k]) = c[k + 1] /\ ~(c[k + 1] >= EndOfChain)
         /\ k + 1 \in 1..Len(c)
<1>1. Len(c) \in Nat /\ EndOfChain \in Nat
  BY LinkedClusters, DiskAssumption, Zenon
<1>2. k \in 1..Len(c) /\ k + 1 \in 1..Len(c)
  BY <1>1
<1>3. c[k] \in Nat /\ c[k + 1] \in Nat /\ c[k + 1] < EndOfChain
  BY <1>2, LinkedClusters, Zenon
<1>4. c[k] \in DOMAIN disk.fat /\ disk.fat[c[k]] = c[k + 1]
  BY Zenon DEF Linked
<1>5. ~(c[k + 1] >= EndOfChain)
  BY <1>1, <1>3
<1>. QED
  BY <1>2, <1>3, <1>4, <1>5, Zenon DEF FatEntry

\* What has been searched without an end leaves no room for one.
LEMMA PastNoEnd ==
  ASSUME disk \in Disk, OnePage, Searched(Len(disk.chain))
  PROVE  ~Terminated(disk)
<1>. DEFINE n == Len(disk.chain) * DirentsPerPage
<1>1. n \in Nat /\ Len(disk.dir) \in Nat /\ Len(disk.dir) <= n /\ DOMAIN disk.dir = 1..Len(disk.dir)
  <2>1. Len(disk.chain) \in Nat /\ DirentsPerPage \in Nat
    BY DiskIs, LinkedClusters, PageOfDirents, Zenon
  <2>2. n \in Nat
    BY <2>1
  <2>. QED
    BY <2>2, DiskIs, Zenon
<1>2. n = Len(disk.chain) * (DirentsPerSector * disk.spc)
  BY Zenon DEF OnePage, DirentsPerPage
<1>3. \A j \in 1..n : j <= Len(disk.dir) /\ ~IsEnd(disk.dir[j])
  BY Zenon DEF Searched
<1>. HIDE DEF n
<1>4. ~(Len(disk.dir) < n)
  BY <1>1, <1>3
<1>5. \A i \in DOMAIN disk.dir : disk.dir[i].kind # "end"
  <2>1. ASSUME NEW i \in DOMAIN disk.dir PROVE i \in 1..n
    BY <1>1, <2>1
  <2>. QED
    BY <1>3, <2>1, Zenon DEF IsEnd
<1>. QED
  BY <1>2, <1>4, <1>5, Zenon DEF Terminated

LEMMA AdvanceKeeps ==
  ASSUME FatInv, advance_cluster
  PROVE  FatInv'
<1>1. fat_pc = "fat" /\ FatTypes /\ DirWalk /\ FileWalk /\ disk \in Disk /\ Mounted
  BY Zenon DEF FatInv, FatTypes, Mounted, advance_cluster
<1>2. UNCHANGED <<disk, fs, inodes, arg, left, at, result>> /\ held' = FALSE
  BY Zenon DEF advance_cluster
<1>3. \A k : Searched(k) => Searched(k)'
  BY <1>2, Zenon DEF Searched, Matches
<1>4. (FatTypes' /\ InodesTrue') \/ fat_pc' \notin {"dir", "walk"}
  BY <1>1, <1>2, SameInodes, Zenon DEF FatInv, FatTypes, Mounted
<1>5. CASE arg.op = "lookup"
  <2>1. OnePage /\ \E k \in 1..Len(disk.chain) : cluster = disk.chain[k] /\ Searched(k)
    BY <1>1, <1>5, Zenon DEF DirWalk
  <2>2. PICK k \in 1..Len(disk.chain) : cluster = disk.chain[k] /\ Searched(k)
    BY <2>1, Zenon
  <2>3. Len(disk.chain) \in Nat /\ cluster \in Nat /\ Linked(disk.fat, disk.chain)
    BY <1>1, <2>2, DiskIs, LinkedClusters, Zenon
  <2>4. CASE k \in 1..(Len(disk.chain) - 1)
    <3>1. /\ FatEntry(disk, cluster) = disk.chain[k + 1] /\ k + 1 \in 1..Len(disk.chain)
          /\ ~(disk.chain[k + 1] >= EndOfChain)
      BY <2>2, <2>3, <2>4, NextInChain, Zenon
    <3>2. cluster' = disk.chain[k + 1] /\ fat_pc' = "dir"
      BY <1>5, <2>3, <3>1, NextCluster, Zenon
    <3>3. Searched((k + 1) - 1)'
      <4>1. (k + 1) - 1 = k
        BY <2>2
      <4>. QED
        BY <1>3, <2>2, <4>1, Zenon
    <3>4. DirWalk'
      BY <1>2, <1>5, <2>1, <3>1, <3>2, <3>3, Zenon DEF DirWalk, OnePage
    <3>5. FileWalk' /\ LookupComplete' /\ WithinChain'
      BY <1>2, <1>5, <3>2, Zenon DEF FileWalk, LookupComplete, WithinChain
    <3>. QED
      BY <1>4, <3>2, <3>4, <3>5, Zenon DEF FatInv
  <2>5. CASE k = Len(disk.chain)
    <3>1. FatEntry(disk, cluster) >= EndOfChain
      BY <1>1, <2>2, <2>5, DiskIs, Zenon DEF FatEntry
    <3>2. fat_pc' = "past the end"
      BY <2>3, <3>1, NextCluster, Zenon
    <3>3. ~Terminated(disk)
      BY <1>1, <2>1, <2>2, <2>5, PastNoEnd, Zenon
    <3>. QED
      BY <1>1, <1>2, <3>2, <3>3, StoppedKeeps, Zenon
  <2>. QED
    BY <2>2, <2>3, <2>4, <2>5
<1>6. CASE arg.op = "read"
  <2>1. arg.e \in Files(disk) /\ ~NoPlace(arg.e, arg.off) /\ arg.off \in Nat /\ arg.off < OffsetMod
    BY <1>1, <1>6, Zenon DEF FileWalk
  <2>2. /\ Linked(disk.fat, arg.e.chain) /\ arg.off % SectorsPerPage = 0
        /\ Clusters \in Nat /\ Clusters < Len(arg.e.chain)
    BY <1>1, <2>1, PlaceInChain, Zenon DEF Clusters
  <2>3. (Straight' <=> Straight) /\ Clusters' = Clusters
    BY <1>2, Zenon DEF Straight, Clusters
  <2>4. CASE Straight
    <3>1. PICK j \in Nat : Behind(j) /\ j < Clusters /\ left = (Clusters - (j + 1)) * disk.spc
      BY <1>1, <1>6, <2>4, Zenon DEF FileWalk
    <3>2. j + 1 \in 1..(Len(arg.e.chain) - 1) /\ j + 1 \in Nat /\ j + 1 <= Clusters
      <4>1. Len(arg.e.chain) \in Nat
        BY <2>2, LinkedClusters, Zenon
      <4>. QED
        BY <2>2, <3>1, <4>1
    <3>3. cluster \in Nat /\ FatEntry(disk, cluster) = arg.e.chain[(j + 1) + 1] /\ ~(arg.e.chain[(j + 1) + 1] >= EndOfChain)
      <4>1. cluster = arg.e.chain[j + 1]
        BY <3>1, Zenon DEF Behind
      <4>. QED
        BY <2>2, <3>2, <4>1, NextInChain, Zenon
    <3>4. cluster' = arg.e.chain[(j + 1) + 1] /\ fat_pc' = "walk"
      BY <1>6, <3>3, NextCluster, Zenon
    <3>5. Behind(j + 1)' /\ left' = (Clusters' - (j + 1)) * disk'.spc
      BY <1>2, <2>3, <3>1, <3>2, <3>4, Zenon DEF Behind
    <3>6. FileWalk'
      BY <1>2, <1>6, <2>1, <3>2, <3>4, <3>5, Zenon DEF FileWalk, NoPlace
    <3>7. DirWalk' /\ LookupComplete' /\ WithinChain'
      BY <1>2, <1>6, <3>4, Zenon DEF DirWalk, LookupComplete, WithinChain
    <3>. QED
      BY <1>4, <3>4, <3>6, <3>7, Zenon DEF FatInv
  <2>5. CASE ~Straight
    <3>1. fat_pc' \in {"past the end", "walk"}
      BY <1>6, Zenon DEF advance_cluster
    <3>2. CASE fat_pc' = "walk"
      <4>1. FileWalk'
        BY <1>2, <1>6, <2>1, <2>3, <2>5, <3>2, Zenon DEF FileWalk, NoPlace
      <4>2. DirWalk' /\ LookupComplete' /\ WithinChain'
        BY <1>2, <1>6, <3>2, Zenon DEF DirWalk, LookupComplete, WithinChain
      <4>. QED
        BY <1>4, <3>2, <4>1, <4>2, Zenon DEF FatInv
    <3>3. CASE fat_pc' = "past the end"
      <4>1. ~(Formatted /\ Low(disk))
        BY <2>2, <2>5, FormattedPages, Zenon DEF Straight, OnePage
      <4>. QED
        BY <1>1, <1>2, <3>3, <4>1, StoppedKeeps, Zenon
    <3>. QED
      BY <3>1, <3>2, <3>3, Zenon
  <2>. QED
    BY <2>4, <2>5, Zenon
<1>. QED
  BY <1>1, <1>5, <1>6, Zenon DEF FileWalk

\* One cluster less of the way: the offset does not wrap.
LEMMA OneClusterLess ==
  ASSUME NEW n \in Nat, NEW j \in Nat, j <= n, NEW d \in Nat \ {0}, NEW m \in Nat, n * d < m
  PROVE  /\ (n - j) * d > 0 => j < n /\ ((n - j) * d - d) % m = (n - (j + 1)) * d
         /\ ~((n - j) * d > 0) => j = n
<1>1. CASE j = n
  <2>1. (n - j) * d = 0
    BY <1>1
  <2>. QED
    BY <1>1, <2>1
<1>2. CASE j < n
  <2>. DEFINE r == n - (j + 1)
  <2>1. r \in Nat /\ n - j = r + 1 /\ r <= n
    BY <1>2
  <2>. HIDE DEF r
  <2>2. (r + 1) * d = r * d + d /\ r * d \in Nat /\ r * d <= n * d /\ n * d \in Nat
    BY <2>1
  <2>3. (r * d + d) - d = r * d /\ r * d < m /\ r * d + d > 0
    BY <2>2
  <2>4. (r * d) % m = r * d
    BY <2>2, <2>3
  <2>. QED
    BY <1>2, <2>1, <2>2, <2>3, <2>4 DEF r
<1>. QED
  BY <1>1, <1>2

LEMMA DevOffsetKeeps ==
  ASSUME FatInv, get_dev_offset
  PROVE  FatInv'
<1>1. /\ fat_pc = "walk" /\ FatTypes /\ FileWalk /\ arg.op = "read" /\ held = FALSE /\ Mounted /\ disk \in Disk
      /\ fs.data_region_offset_lba \in Nat
  BY Zenon DEF FatInv, FatTypes, FileWalk, Mounted, get_dev_offset
<1>2. UNCHANGED <<disk, fs, inodes, arg, cluster>>
  BY Zenon DEF get_dev_offset
<1>3. arg.e \in Files(disk) /\ ~NoPlace(arg.e, arg.off) /\ arg.off \in Nat /\ arg.off < OffsetMod
  BY <1>1, Zenon DEF FileWalk
<1>4. /\ Linked(disk.fat, arg.e.chain) /\ arg.off % SectorsPerPage = 0
      /\ Clusters \in Nat /\ Clusters < Len(arg.e.chain)
      /\ arg.off % disk.spc = 0 => arg.off = Clusters * disk.spc
  BY <1>1, <1>3, PlaceInChain, Zenon DEF Clusters
<1>5. (Straight' <=> Straight) /\ Clusters' = Clusters
  BY <1>2, Zenon DEF Straight, Clusters
<1>6. ASSUME Straight
      PROVE  \E j \in Nat : /\ Behind(j) /\ left = (Clusters - j) * disk.spc
                            /\ left > 0 => j < Clusters /\ (left - disk.spc) % OffsetMod = (Clusters - (j + 1)) * disk.spc
                            /\ ~(left > 0) => j = Clusters
  <2>1. PICK j \in Nat : Behind(j) /\ left = (Clusters - j) * disk.spc
    BY <1>1, <1>6, Zenon DEF FileWalk
  <2>2. j <= Clusters /\ Clusters * disk.spc < OffsetMod /\ OffsetMod \in Nat /\ disk.spc \in Nat \ {0}
    BY <1>1, <1>3, <1>4, <1>6, <2>1, DiskIs, DiskAssumption, Zenon DEF Straight, Behind
  <2>3. /\ (Clusters - j) * disk.spc > 0 =>
             j < Clusters /\ ((Clusters - j) * disk.spc - disk.spc) % OffsetMod = (Clusters - (j + 1)) * disk.spc
        /\ ~((Clusters - j) * disk.spc > 0) => j = Clusters
    BY <1>4, <2>2, OneClusterLess, Zenon
  <2>. QED
    BY <2>1, <2>3, Zenon
<1>7. CASE left > 0
  <2>1. fat_pc' = "advance" /\ left' = (left - disk.spc) % OffsetMod /\ held' = FALSE
    BY <1>1, <1>7, Zenon DEF get_dev_offset, MoreClusters
  <2>2. FatTypes' /\ InodesTrue'
    BY <1>1, <1>2, <2>1, SameInodes, Zenon DEF FatInv, FatTypes, Mounted
  <2>3. DirWalk' /\ LookupComplete' /\ WithinChain'
    BY <1>1, <1>2, <2>1, Zenon DEF DirWalk, LookupComplete, WithinChain
  <2>4. Straight' => \E j \in Nat : Behind(j)' /\ j < Clusters' /\ left' = (Clusters' - (j + 1)) * disk'.spc
    <3>1. HAVE Straight'
    <3>2. PICK j \in Nat : /\ Behind(j) /\ j < Clusters
                           /\ (left - disk.spc) % OffsetMod = (Clusters - (j + 1)) * disk.spc
      BY <1>5, <1>6, <1>7, <3>1, Zenon
    <3>3. Behind(j)'
      BY <1>2, <1>5, <3>2, Zenon DEF Behind
    <3>. QED
      BY <1>2, <1>5, <2>1, <3>2, <3>3, Zenon
  <2>5. FileWalk'
    BY <1>1, <1>2, <1>3, <2>1, <2>4, Zenon DEF FileWalk, NoPlace
  <2>. QED
    BY <2>1, <2>2, <2>3, <2>5, Zenon DEF FatInv
<1>8. CASE ~(left > 0)
  <2>1. Straight => cluster = arg.e.chain[Clusters + 1]
    BY <1>6, <1>8, Zenon DEF Behind
  <2>2. CASE fat_pc' = "done"
    <3>1. held' = TRUE /\ result' = ClusterSector(cluster)
      BY <1>1, <1>8, <2>2, Zenon DEF get_dev_offset, MoreClusters, VirtLease
    <3>2. FatTypes' /\ InodesTrue'
      BY <1>1, <1>2, <2>2, <3>1, SameInodes, Zenon DEF FatInv, FatTypes, Mounted
    <3>3. DirWalk' /\ LookupComplete' /\ WithinChain'
      BY <1>1, <1>2, <2>2, Zenon DEF DirWalk, LookupComplete, WithinChain
    <3>4. Straight' => result' = ClusterSector(arg.e.chain[Clusters + 1])'
      BY <1>2, <1>5, <2>1, <3>1, Zenon DEF ClusterSector
    <3>5. FileWalk'
      BY <1>1, <1>2, <1>3, <2>2, <3>4, Zenon DEF FileWalk, NoPlace
    <3>. QED
      BY <2>2, <3>2, <3>3, <3>5, Zenon DEF FatInv
  <2>3. CASE fat_pc' # "done"
    <3>1. /\ held' = FALSE /\ fat_pc' \in {"astray", "not aligned"}
          /\ ~(ClusterSector(cluster) \in 0..(DevSectors - 1) /\ ClusterSector(cluster) % SectorsPerPage = 0)
      BY <1>1, <1>8, <2>3, Zenon DEF get_dev_offset, MoreClusters, VirtLease
    <3>2. ASSUME Formatted, Low(disk) PROVE FALSE
      <4>1. Straight
        BY <1>4, <3>2, FormattedPages, Zenon DEF Straight, OnePage
      <4>2. Len(arg.e.chain) \in Nat /\ DOMAIN arg.e.chain = 1..Len(arg.e.chain)
        BY <1>4, LinkedClusters, Zenon
      <4>3. Clusters + 1 \in 1..Len(arg.e.chain)
        BY <1>4, <4>2
      <4>4. cluster \in Nat /\ InReach(cluster)
        BY <1>3, <1>4, <2>1, <3>2, <4>1, <4>2, <4>3, LinkedClusters, ZenonT(30) DEF Formatted
      <4>. QED
        BY <1>1, <3>1, <3>2, <4>4, LeaseTaken, Zenon
    <3>. QED
      BY <1>1, <1>2, <3>1, <3>2, StoppedKeeps, Zenon
  <2>. QED
    BY <2>2, <2>3, Zenon
<1>. QED
  BY <1>7, <1>8, Zenon

\* The inode of an entry that is found is that of the entry, where start clusters tell
\* files apart.
LEMMA KnownInode ==
  ASSUME InodesTrue, Mounted, disk \in Disk, Identified(disk), Low(disk), NEW e \in Files(disk)
  PROVE  Known(e).e = e
<1>1. start_cluster(e) = First(e) /\ First(e) # Head(disk.chain)
  BY StartOfFile, Zenon DEF Identified
<1>2. CASE start_cluster(e) \in DOMAIN inodes
  <2>. DEFINE i == inodes[start_cluster(e)]
  <2>1. i.e \in Files(disk) /\ start_cluster(e) = start_cluster(i.e)
    BY <1>1, <1>2, Zenon DEF InodesTrue
  <2>2. First(i.e) = First(e)
    BY <1>1, <2>1, StartOfFile, Zenon
  <2>3. i.e = e
    BY <2>1, <2>2, Zenon DEF Identified
  <2>. QED
    BY <1>2, <2>3, Zenon DEF Known
<1>3. CASE start_cluster(e) \notin DOMAIN inodes
  BY <1>3 DEF Known, Inode
<1>. QED
  BY <1>2, <1>3, Zenon

\* A new inode is made of its entry.
LEMMA RememberTrue ==
  ASSUME InodesTrue, Mounted, NEW e \in Files(disk), inodes' = Remember(e), disk' = disk
  PROVE  InodesTrue'
<1>1. Inode(e).e = e
  BY DEF Inode
<1>2. /\ DOMAIN inodes' = DOMAIN inodes \cup {start_cluster(e)}
      /\ \A c \in DOMAIN inodes : inodes'[c] = inodes[c]
      /\ start_cluster(e) \notin DOMAIN inodes => inodes'[start_cluster(e)] = Inode(e)
  BY Zenon DEF Remember
<1>3. ASSUME NEW c \in DOMAIN inodes'
      PROVE  \/ c = Head(disk.chain) /\ inodes'[c] = Root(disk)
             \/ inodes'[c].e \in Files(disk) /\ inodes'[c] = Inode(inodes'[c].e) /\ c = start_cluster(inodes'[c].e)
  <2>1. CASE c \in DOMAIN inodes
    BY <1>2, <2>1, Zenon DEF InodesTrue
  <2>2. CASE c \notin DOMAIN inodes
    <3>1. c = start_cluster(e) /\ inodes'[c] = Inode(e)
      BY <1>2, <1>3, <2>2, Zenon
    <3>. QED
      BY <1>1, <3>1, Zenon
  <2>. QED
    BY <2>1, <2>2, Zenon
<1>. QED
  BY <1>3, Zenon DEF InodesTrue

LEMMA IterateKeeps ==
  ASSUME FatInv, iterate_dir
  PROVE  FatInv'
<1>1. /\ fat_pc = "scan" /\ FatTypes /\ DirWalk /\ FileWalk /\ disk \in Disk /\ arg.op = "lookup" /\ InodesTrue
      /\ Mounted /\ fs.data_region_offset_lba \in Nat /\ at = ClusterSector(cluster) /\ WholePages
  BY Zenon DEF FatInv, FatTypes, DirWalk, Mounted, iterate_dir
<1>2. UNCHANGED <<disk, fs, arg, cluster, left, at>>
  BY Zenon DEF iterate_dir
<1>3. PICK k \in 1..Len(disk.chain) : cluster = disk.chain[k] /\ Searched(k - 1) /\ (k = 1 \/ OnePage)
  BY <1>1, Zenon DEF DirWalk
<1>4. Page = Dirents(disk, k)
  BY <1>1, <1>3, ScannedPage, Zenon
<1>5. CASE Stops = {}
  <2>1. /\ disk.spc > SectorsPerPage => fat_pc' = "overrun"
        /\ ~(disk.spc > SectorsPerPage) => fat_pc' = "advance"
        /\ held' = FALSE /\ inodes' = inodes
    BY <1>5, Zenon DEF iterate_dir, Released
  <2>2. SectorsPerPage \in Nat \ {0} /\ disk.spc \in Nat \ {0} /\ disk.spc % SectorsPerPage = 0
    BY <1>1, DiskIs, DiskAssumption, Zenon DEF WholePages
  <2>3. CASE disk.spc > SectorsPerPage
    <3>1. disk.spc # SectorsPerPage
      BY <2>2, <2>3
    <3>2. ~Formatted
      BY <3>1, Zenon DEF Formatted
    <3>. QED
      BY <1>1, <1>2, <2>1, <2>3, <3>2, StoppedKeeps, Zenon
  <2>4. CASE ~(disk.spc > SectorsPerPage)
    <3>1. OnePage
      <4>1. disk.spc < SectorsPerPage => disk.spc % SectorsPerPage = disk.spc
        BY <2>2
      <4>. QED
        BY <2>2, <2>4, <4>1 DEF OnePage
    <3>2. Searched(k)'
      BY <1>1, <1>2, <1>3, <1>4, <1>5, NothingFound, SameSearch, Zenon
    <3>3. fat_pc' = "advance" /\ FatTypes' /\ InodesTrue'
      BY <1>1, <1>2, <2>1, <2>4, SameInodes, Zenon DEF FatTypes, Mounted
    <3>4. DirWalk'
      BY <1>1, <1>2, <1>3, <3>1, <3>2, <3>3, Zenon DEF DirWalk, OnePage
    <3>5. FileWalk' /\ LookupComplete' /\ WithinChain'
      BY <1>1, <1>2, <3>3, Zenon DEF FileWalk, LookupComplete, WithinChain
    <3>. QED
      BY <3>3, <3>4, <3>5, Zenon DEF FatInv
  <2>. QED
    BY <2>3, <2>4, Zenon
<1>6. CASE Stops # {}
  <2>. DEFINE e == Page[Min(Stops)]
  <2>1. /\ fat_pc' = "done" /\ held' = FALSE
        /\ IsEnd(e) => result' = [found |-> FALSE] /\ inodes' = inodes
        /\ ~IsEnd(e) => result' = [found |-> TRUE, e |-> e, inode |-> Known(e)] /\ inodes' = Remember(e)
    BY <1>6, Zenon DEF iterate_dir
  <2>2. PICK J \in Nat \ {0} :
          /\ J <= Len(disk.dir) => e = disk.dir[J]
          /\ ~(J <= Len(disk.dir)) => e = [kind |-> "end"]
          /\ IsEnd(e) \/ Matches(e)
          /\ \A j \in 1..(J - 1) : j <= Len(disk.dir) /\ ~IsEnd(disk.dir[j]) /\ ~Matches(disk.dir[j])
    BY <1>1, <1>3, <1>4, <1>6, BeforeStop, Zenon
  <2>. HIDE DEF e
  <2>3. ASSUME IsEnd(e) PROVE LookupComplete' /\ InodesTrue'
    <3>1. \A f \in Files(disk) : f.name # convert_normal_to_8_3_filename(arg.name)
      BY <1>1, <2>2, <2>3, EndFound, Zenon
    <3>2. result'.found = FALSE
      BY <2>1, <2>3
    <3>3. LookupComplete'
      BY <1>2, <3>1, <3>2, Zenon DEF LookupComplete
    <3>4. InodesTrue'
      BY <1>1, <1>2, <2>1, <2>3, SameInodes, Zenon
    <3>. QED
      BY <3>3, <3>4, Zenon
  <2>4. ASSUME ~IsEnd(e) PROVE LookupComplete' /\ InodesTrue'
    <3>1. J <= Len(disk.dir) /\ e = disk.dir[J] /\ Matches(e)
      BY <2>2, <2>4, EndKind, Zenon
    <3>2. e \in Files(disk) /\ e.name = convert_normal_to_8_3_filename(arg.name)
      BY <1>1, <2>2, <2>4, <3>1, NameFound, ZenonT(30)
    <3>3. result'.found = TRUE /\ result'.e = e /\ result'.inode = Known(e)
      BY <2>1, <2>4
    <3>4. Identified(disk) /\ Low(disk) => result'.inode.e = e
      BY <1>1, <3>2, <3>3, KnownInode, Zenon
    <3>5. LookupComplete'
      BY <1>2, <3>2, <3>3, <3>4, Zenon DEF LookupComplete
    <3>6. InodesTrue'
      BY <1>1, <1>2, <2>1, <2>4, <3>2, RememberTrue, Zenon
    <3>. QED
      BY <3>5, <3>6, Zenon
  <2>5. FatTypes'
    BY <1>1, <1>2, <2>1, Zenon DEF FatTypes, Mounted
  <2>6. DirWalk' /\ FileWalk' /\ WithinChain'
    BY <1>1, <1>2, <2>1, Zenon DEF DirWalk, FileWalk, WithinChain
  <2>. QED
    BY <2>1, <2>3, <2>4, <2>5, <2>6, Zenon DEF FatInv
<1>. QED
  BY <1>5, <1>6, Zenon

\* Nothing but the lease changes.
LEMMA LeaseKeeps ==
  ASSUME FatInv, UNCHANGED <<disk, fs, fat_pc, inodes, arg, cluster, left, at, result>>,
         held' \in BOOLEAN, held' => held
  PROVE  FatInv'
<1>1. FatTypes'
  BY Zenon DEF FatInv, FatTypes, Mounted
<1>2. InodesTrue'
  BY Zenon DEF FatInv, InodesTrue, Mounted
<1>3. \A k : Searched(k) => Searched(k)'
  BY Zenon DEF Searched, Matches
<1>4. DirWalk'
  BY <1>3, Zenon DEF FatInv, DirWalk, ClusterSector, WholePages, OnePage
<1>5. FileWalk'
  <2>1. Clusters' = Clusters /\ (Straight' <=> Straight) /\ \A j : Behind(j)' <=> Behind(j)
    BY Zenon DEF Clusters, Straight, Behind
  <2>2. FileWalk
    BY Zenon DEF FatInv
  <2>. QED
    BY <2>1, <2>2, ZenonT(30) DEF FileWalk, NoPlace, ClusterSector
<1>6. LookupComplete'
  BY Zenon DEF FatInv, LookupComplete
<1>7. WithinChain'
  BY SameVolume, Zenon DEF FatInv, WithinChain, NoPlace
<1>8. (fat_pc = "fat" => at = floor_page(get_fat_sector_for_cluster(cluster)))'
  BY Zenon DEF FatInv, floor_page, get_fat_sector_for_cluster
<1>. QED
  BY <1>1, <1>2, <1>4, <1>5, <1>6, <1>7, <1>8, Zenon DEF FatInv

LEMMA FatStep ==
  ASSUME FatInv, [FatNext]_fatVars
  PROVE  FatInv'
<1>1. CASE Boot
  BY <1>1, BootKeeps, Zenon
<1>2. CASE TakeDirPage
  BY <1>2, TakeDirPageKeeps, Zenon
<1>3. CASE iterate_dir
  BY <1>3, IterateKeeps, Zenon
<1>4. CASE TakeFatPage
  BY <1>4, TakeFatPageKeeps, Zenon
<1>5. CASE advance_cluster
  BY <1>5, AdvanceKeeps, Zenon
<1>6. CASE get_dev_offset
  BY <1>6, DevOffsetKeeps, Zenon
<1>7. CASE ReleasePage
  <2>1. UNCHANGED <<disk, fs, fat_pc, inodes, arg, cluster, left, at, result>> /\ held' = FALSE
    BY <1>7, Zenon DEF ReleasePage
  <2>. QED
    BY <2>1, LeaseKeeps, Zenon
<1>8. ASSUME ~held, NEW name \in Component, inode_lookup(name) PROVE FatInv'
  BY <1>8, LookupKeeps, Zenon
<1>9. ASSUME ~held, NEW c \in DOMAIN inodes, ForgetInode(c) PROVE FatInv'
  BY <1>9, ForgetKeeps, Zenon
<1>10. ASSUME ~held, NEW c \in DOMAIN inodes, NEW o \in Offset, read_page(c, o) PROVE FatInv'
  BY <1>10, ReadPageKeeps, Zenon
<1>11. CASE UNCHANGED fatVars
  <2>1. UNCHANGED <<disk, fs, fat_pc, inodes, arg, cluster, left, at, result>> /\ held' = held
    BY <1>11, Zenon DEF fatVars
  <2>. QED
    BY <2>1, LeaseKeeps, Zenon DEF FatInv, FatTypes
<1>. QED
  BY <1>1, <1>2, <1>3, <1>4, <1>5, <1>6, <1>7, <1>8, <1>9, <1>10, <1>11, ZenonT(30) DEF FatNext

\* The driver's walks, for every disk whose chains are well formed and whatever is
\* looked up or read.  A lookup misses no entry before the end mark, and returns the
\* inode of the entry if files begin in clusters of their own below 2^16; the first page
\* of each cluster of a file that begins below 2^16 is read from its cluster; the one
\* buffer has one lease; and on a volume as the image is made, of clusters of one page,
\* no walk leaves its chain or the buffer (fat32.cc:188, fat32.cc:329, fat32.h:144,
\* page_cache.cc:60).
THEOREM WalksAreExact == FatSpec => []WalksExact
<1>1. FatInit => FatInv
  BY FatInitial, Zenon
<1>2. FatInv /\ [FatNext]_fatVars => FatInv'
  BY FatStep, Zenon
<1>3. ASSUME FatInv PROVE WalksExact
  <2>1. FilePageExact
    <3>1. SUFFICES ASSUME fat_pc = "done", arg.op = "read", Straight
                   PROVE  SectorCluster(result) = arg.e.chain[Clusters + 1]
      BY Zenon DEF FilePageExact, Straight, Clusters
    <3>2. /\ disk \in Disk /\ fs.data_region_offset_lba \in Nat /\ arg.e \in Files(disk) /\ arg.off \in Nat
          /\ ~NoPlace(arg.e, arg.off) /\ result = ClusterSector(arg.e.chain[Clusters + 1])
      BY <1>3, <3>1, Zenon DEF FatInv, FatTypes, FileWalk, Mounted
    <3>3. Linked(disk.fat, arg.e.chain) /\ Clusters \in Nat /\ Clusters < Len(arg.e.chain)
      BY <3>2, PlaceInChain, Zenon DEF Clusters
    <3>4. Len(arg.e.chain) \in Nat
      BY <3>3, LinkedClusters, Zenon
    <3>5. Clusters + 1 \in 1..Len(arg.e.chain)
      BY <3>3, <3>4
    <3>6. arg.e.chain[Clusters + 1] \in Nat /\ arg.e.chain[Clusters + 1] >= 2
      BY <3>3, <3>5, LinkedClusters, Zenon
    <3>. QED
      BY <3>2, <3>6, SectorOfCluster, Zenon
  <2>2. LookupComplete /\ WithinChain
    BY <1>3, Zenon DEF FatInv
  <2>3. LeaseAlone
    BY <1>3, Zenon DEF FatInv, FatTypes, LeaseAlone
  <2>. QED
    BY <2>1, <2>2, <2>3, Zenon DEF WalksExact
<1>. QED
  BY <1>1, <1>2, <1>3, PTL DEF FatSpec
=============================================================================
