-------------------------------- MODULE Ahci --------------------------------
(***************************************************************************)
(* The AHCI driver (drivers/ahci.cc, drivers/device.cc) and the host bus   *)
(* adapter it drives.  The driver runs in one thread; the adapter takes    *)
(* steps of its own between any two register accesses.  Memory and disk    *)
(* are sectors; the content of a sector of the disk is its number.         *)
(***************************************************************************)
EXTENDS Integers, Sequences, FiniteSetsExt

CONSTANTS max_ports,               \* ports of the adapter: 0..max_ports - 1
          command_slots_per_port, prdtes_per_command,
          SectorsPerEntry,         \* 16: sectors of a PRDT entry but the last
          PageSectors,             \* PG_SZ / 512
          MaxSpin,                 \* 1'000'000
          Sectors,                 \* size of memory and disk, a bound
          MaxReads,                \* reads to follow, a bound
          Unset

\* A page is read with one entry.
ASSUME AhciAssumption ==
  /\ max_ports \in Nat \ {0} /\ command_slots_per_port \in Nat \ {0} /\ prdtes_per_command \in Nat \ {0}
  /\ SectorsPerEntry \in Nat /\ PageSectors \in 1..SectorsPerEntry /\ Sectors \in Nat /\ Unset \notin Nat

Port == 0..(max_ports - 1)
Slot == 0..(command_slots_per_port - 1)

VARIABLES ahci_pc, spin, req, ok,  \* the driver
          port_no,                 \* the port that is being set up
          port,                    \* PortRegisters
          hdr,                     \* command headers: [port][slot]
          table,                   \* command tables: [cmd -> [lba, count, prdt]]
          active, entry, moved,    \* the slot whose command the device executes, and how far
          mem, want,               \* memory, and what the reads asked for
          dead,                    \* a command failed: the port has stopped
          wild,                    \* a command was written outside the tables
          reads

ahciVars == <<ahci_pc, port_no, spin, req, ok, port, hdr, table, active, entry, moved, mem, want, dead, wild, reads>>
device == <<active, entry, moved, mem>>
driver == <<ahci_pc, port_no, spin, req, ok, hdr, table, want, wild, reads>>

NoTable == [lba |-> 0, count |-> 0, prdt |-> <<>>]

\* What the firmware leaves: an engine that runs or not, a device busy or not.
AhciInit ==
  /\ ahci_pc = "init" /\ port_no = 0 /\ spin = 0 /\ req = Unset /\ ok = TRUE /\ reads = 0
  /\ \E st, fre, bsy \in BOOLEAN :
       port = [p \in Port |-> [st |-> st, fre |-> fre, cr |-> st, fr |-> fre, clb |-> Unset,
                               ci |-> {}, tfes |-> FALSE, bsy |-> bsy]]
  /\ hdr = [p \in Port |-> [s \in Slot |-> [ctba |-> Unset, prdtl |-> 0]]]
  /\ table = [c \in Slot |-> NoTable]
  /\ active = Unset /\ entry = 1 /\ moved = 0 /\ dead = FALSE /\ wild = FALSE
  /\ mem = [k \in 0..(Sectors - 1) |-> Unset] /\ want = mem

-----------------------------------------------------------------------------
(* the adapter *)

Engine(p) ==
  /\ \/ port[p].st # port[p].cr /\ ~dead /\ port' = [port EXCEPT ![p].cr = port[p].st]
     \/ port[p].fre # port[p].fr /\ port' = [port EXCEPT ![p].fr = port[p].fre]
  /\ UNCHANGED <<driver, device, dead>>

DeviceReady(p) ==
  /\ port[p].bsy /\ active = Unset /\ port' = [port EXCEPT ![p].bsy = FALSE]
  /\ UNCHANGED <<driver, device, dead>>

Fetch ==
  /\ port[0].cr /\ active = Unset /\ ~port[0].bsy
  /\ \E s \in port[0].ci : active' = s
  /\ entry' = 1 /\ moved' = 0
  /\ port' = [port EXCEPT ![0].bsy = TRUE]
  /\ UNCHANGED <<driver, mem, dead>>

\* The device moves the sectors of one PRDT entry, until it has moved all that the
\* command asks for.
Move ==
  /\ active # Unset
  /\ LET h == hdr[0][active]
         t == table[h.ctba]
         e == t.prdt[entry]
         n == Min({e.n, t.count - moved})
     IN  /\ entry <= h.prdtl /\ moved < t.count
         /\ mem' = [a \in DOMAIN mem |-> IF a \in e.dba..(e.dba + n - 1) THEN t.lba + moved + (a - e.dba)
                                         ELSE mem[a]]
         /\ moved' = moved + n
  /\ entry' = entry + 1
  /\ UNCHANGED <<driver, port, active, dead>>

Complete ==
  /\ active # Unset
  /\ entry > hdr[0][active].prdtl \/ moved >= table[hdr[0][active].ctba].count
  /\ port' = [port EXCEPT ![0].ci = @ \ {active}, ![0].bsy = FALSE]
  /\ active' = Unset
  /\ UNCHANGED <<driver, entry, moved, mem, dead>>

\* A task file error stops the engine and leaves the command issued.
Fail ==
  /\ active # Unset
  /\ port' = [port EXCEPT ![0].tfes = TRUE, ![0].cr = FALSE, ![0].bsy = FALSE]
  /\ active' = Unset /\ dead' = TRUE
  /\ UNCHANGED <<driver, entry, moved, mem>>

Hba == Fetch \/ Move \/ Complete \/ Fail \/ \E p \in Port : Engine(p) \/ DeviceReady(p)

-----------------------------------------------------------------------------
(* initialisation *)

Then(q) == ahci_pc' = q /\ UNCHANGED <<device, dead, want, wild, reads>>

\* init(): without an AHCI function, with more or fewer ports than the adapter
\* claims, or without memory for its registers or structures, the kernel stops.
ahci_init ==
  /\ ahci_pc = "init"
  /\ UNCHANGED <<port_no, spin, req, ok, port, hdr, table>>
  /\ \E found, mapped, counted, allocated \in BOOLEAN :
       Then(IF found /\ mapped /\ counted /\ allocated THEN "pause" ELSE "halt")

\* Faulty variant: the engine for commands is left running.
pause_cmd_engine_ListRuns ==
  /\ ahci_pc = "pause"
  /\ port' = [port EXCEPT ![port_no].fre = FALSE]
  /\ Then("rebase") /\ UNCHANGED <<port_no, spin, req, ok, hdr, table>>
pause_cmd_engine ==
  /\ ahci_pc = "pause"
  /\ port' = [port EXCEPT ![port_no].st = FALSE, ![port_no].fre = FALSE]
  /\ Then("rebase") /\ UNCHANGED <<port_no, spin, req, ok, hdr, table>>

\* Faulty variant: only the command list is waited for.
Stopped_ListOnly(p) == ~port[p].cr
Stopped(p) == ~port[p].fr /\ ~port[p].cr

\* The loop over the commands writes cmd_hdr[i], i being the port: the last table
\* is what stays there, and the other headers are zero.
Header(p, s) ==
  IF s = p THEN [ctba |-> command_slots_per_port - 1, prdtl |-> prdtes_per_command] ELSE hdr[p][s]

rebase_port_memory ==
  /\ ahci_pc = "rebase" /\ Stopped(port_no)
  /\ port' = [port EXCEPT ![port_no].clb = port_no]
  /\ hdr' = [hdr EXCEPT ![port_no] = [s \in Slot |-> Header(port_no, s)]]
  /\ Then("unpause") /\ UNCHANGED <<port_no, spin, req, ok, table>>

unpause_cmd_engine ==
  /\ ahci_pc = "unpause" /\ ~port[port_no].cr
  /\ port' = [port EXCEPT ![port_no].st = TRUE, ![port_no].fre = TRUE]
  /\ port_no' = port_no + 1
  /\ Then(IF port_no + 1 < max_ports THEN "pause" ELSE "idle") /\ UNCHANGED <<spin, req, ok, hdr, table>>

-----------------------------------------------------------------------------
(* reading a page *)

\* Faulty variant: a slot that is in use is taken for free.
find_free_cmdslot_Any(r) == command_slots_per_port - 1
find_free_cmdslot(r) == IF r.ci = Slot THEN -1 ELSE Min(Slot \ r.ci)

prdt_entries_count(count) == ((count - 1) \div SectorsPerEntry) + 1

\* The PRDT: all entries but the last are full ones, half an entry apart.
LastCount(count, n) == count - (n - 1) * SectorsPerEntry

Prdt(dest, count) ==
  LET n == prdt_entries_count(count)
  IN  [k \in 1..n |-> [dba |-> dest + (k - 1) * (SectorsPerEntry \div 2),
                       n |-> IF k < n THEN SectorsPerEntry ELSE LastCount(count, n)]]

CommandTable(lba, count, dest) ==
  [lba |-> lba, count |-> LastCount(count, prdt_entries_count(count)), prdt |-> Prdt(dest, count)]

\* read_page_direct() calls read_blocking() for the sectors of one page on port 0: up
\* to the wait for the device.
read_blocking(lba, dest) ==
  LET slot == find_free_cmdslot(port[0])
      n == prdt_entries_count(PageSectors)
      fails == slot = -1 \/ n > prdtes_per_command
      c == hdr[0][slot].ctba
  IN  /\ ahci_pc = "idle" /\ reads < MaxReads /\ reads' = reads + 1
      /\ port' = [port EXCEPT ![0].tfes = FALSE]
      /\ UNCHANGED <<port_no, device, dead>>
      /\ spin' = 0
      /\ IF fails THEN ahci_pc' = "idle" /\ ok' = FALSE /\ UNCHANGED <<req, hdr, table, wild, want>>
         ELSE /\ ahci_pc' = "spin" /\ UNCHANGED ok
              /\ req' = [slot |-> slot]
              /\ want' = [a \in DOMAIN mem |->
                            IF a \in dest..(dest + PageSectors - 1) THEN lba + a - dest ELSE mem[a]]
              /\ hdr' = [hdr EXCEPT ![0][slot].prdtl = n]
              /\ IF c = Unset THEN wild' = TRUE /\ UNCHANGED table
                 ELSE table' = [table EXCEPT ![c] = CommandTable(lba, PageSectors, dest)] /\ UNCHANGED wild

Returns(r) == /\ ahci_pc' = "idle" /\ ok' = r /\ req' = Unset
              /\ UNCHANGED <<port_no, spin, port, hdr, table, device, want, dead, wild, reads>>

\* The spin on the task file, and the command is issued.
Issue ==
  /\ ahci_pc = "spin"
  /\ IF port[0].bsy
     THEN IF spin + 1 = MaxSpin THEN Returns(FALSE)
          ELSE spin' = spin + 1 /\ Then("spin") /\ UNCHANGED <<port_no, req, ok, port, hdr, table>>
     ELSE /\ port' = [port EXCEPT ![0].ci = @ \cup {req.slot}]
          /\ Then("wait") /\ UNCHANGED <<port_no, spin, req, ok, hdr, table>>

\* The command is done when its bit of PxCI is clear.  Faulty variant: when the
\* device is not busy.
Done_NotBusy == ~port[0].bsy
Done == req.slot \notin port[0].ci

\* Faulty variant: an error is looked for only when the command is done.
Wait_IgnoresError == ahci_pc = "wait" /\ Done /\ Returns(~port[0].tfes)
Wait ==
  /\ ahci_pc = "wait"
  /\ \/ Done /\ Returns(~port[0].tfes)
     \/ ~Done /\ port[0].tfes /\ Returns(FALSE)

DriverStep ==
  \/ ahci_init \/ pause_cmd_engine \/ rebase_port_memory \/ unpause_cmd_engine \/ Issue \/ Wait
  \/ \E lba, dest \in 0..(Sectors - PageSectors) :
       lba % PageSectors = 0 /\ dest % PageSectors = 0 /\ read_blocking(lba, dest)

AhciNext == DriverStep \/ Hba

\* The driver runs on, and the adapter goes on with its engines and its command.
AhciFairness ==
  /\ WF_ahciVars(DriverStep) /\ WF_ahciVars(Fetch) /\ WF_ahciVars(Move \/ Complete \/ Fail)
  /\ \A p \in Port : WF_ahciVars(Engine(p))
AhciSpec == AhciInit /\ [][AhciNext]_ahciVars /\ AhciFairness

-----------------------------------------------------------------------------
(* properties *)

\* rebase_port_memory(): "When setting these values in the port registers, we have
\* to temporarily pause the command engine": the structures of a port change only
\* while its engines stand still.
RebasedWhileStopped ==
  [][\A p \in Port : port'[p].clb # port[p].clb => ~port[p].cr /\ ~port[p].fr]_ahciVars

\* read_blocking(): when it answers true, the sectors asked for are in the page and
\* no other memory has changed, however the steps of the adapter fall.
ReadExact == ahci_pc = "idle" /\ reads > 0 /\ ok => mem = want

\* read_blocking(): until a command has failed, each is written to a command table
\* that rebase_port_memory() set up, although it sets up one header of a port only.
CommandInTable == ~dead => ~wild

\* When read_blocking() reports success the buffer has the sectors, and no other
\* memory has changed; commands go where rebase_port_memory() made a table (ahci.cc).
DataExact == ReadExact /\ CommandInTable

\* read_blocking() returns, whether the command succeeds, fails or the device stays
\* busy, until a command has failed.
ReadReturns == (ahci_pc \in {"spin", "wait"} /\ ~dead) ~> ahci_pc = "idle"

\* init() ends: the pauses of the engines of the ports come to an end.
InitEnds == ahci_pc = "pause" ~> ahci_pc = "idle"
=============================================================================
