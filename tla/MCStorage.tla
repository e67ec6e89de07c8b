----------------------------- MODULE MCStorage ------------------------------
\* The devices, the file system above them and the cache between, side by side: unit
\* says which part a behaviour is about, and the others stay at their beginning.
EXTENDS LruCache, Ahci, Fat32

CONSTANTS k1, k2, n1, n2, n3, l1, l2, l3, t1, t2

VARIABLES unit,
          oDisk, oStale, oPc, oPart, oCluster, oSector, oLeft, oFatSector, oFatbuf, oImage, oAnswered,
          pMachine, pRes, pPanic

lruVars == vars
bootVars == <<oDisk, oStale, oPc, oPart, oCluster, oSector, oLeft, oFatSector, oFatbuf, oImage, oAnswered>>
pciVars == <<pMachine, pRes, pPanic>>
all == <<unit, lruVars, bootVars, fatVars, ahciVars, pciVars>>

-----------------------------------------------------------------------------
\* The bootloader's disks: KERNEL.BIN in every chain of up to three clusters, ending
\* anywhere in the last one, and directories of up to four sectors in two clusters
\* that have it early, late, behind the end mark or not at all; also one with a
\* reserved bit in the FAT, and one that begins at cluster 12 (4 | 4 to the loader).
Active == [active |-> TRUE, fat32 |-> TRUE]
Inactive == [active |-> FALSE, fat32 |-> TRUE]
Usual == <<Inactive, Active, Inactive, Inactive>>
Chains == UNION {{c \in [1..n -> 3..6] : \A i, j \in 1..n : i # j => c[i] # c[j]} : n \in 1..3}
After(c, x) == LET k == CHOOSE k \in DOMAIN c : c[k] = x IN IF k = Len(c) THEN 100 ELSE c[k + 1]
Elements(c) == {c[k] : k \in DOMAIN c}
BootDisk(ps, dir, root, c, n) ==
  [parts |-> ps, start |-> 3, reserved |-> 2, fats |-> 2, spf |-> 4, rootChain |-> root, dir |-> dir,
   fat |-> [x \in 0..12 |-> IF x = 0 THEN 120 ELSE IF x \in Elements(root) THEN After(root, x)
                           ELSE IF x \in Elements(c) THEN After(c, x) ELSE 0],
   first |-> c[1], size |-> n, requests |-> {u \in {2} : u < n}]
BootDirs == {<<"other", "KERNEL">>, <<"other", "other", "KERNEL">>, <<"other", "end", "KERNEL">>, <<>>,
             [k \in 1..6 |-> IF k = 6 THEN "KERNEL" ELSE "other"], [k \in 1..8 |-> "other"]}
BootDisks ==
  {BootDisk(Usual, <<"KERNEL">>, <<2>>, c, (Len(c) - 1) * 4 + r) : c \in Chains, r \in 1..4}
    \cup {BootDisk(ps, d, <<2, 7>>, <<4, 3>>, 6) :
            ps \in {Usual, [k \in 1..4 |-> Active], [k \in 1..4 |-> Inactive]}, d \in BootDirs}
    \cup {[BootDisk(Usual, <<"KERNEL">>, <<2>>, <<4, 3, 5>>, 12) EXCEPT !.fat[x] = 128 + @] : x \in {3, 4, 5}}
    \cup {BootDisk(Usual, <<"KERNEL">>, <<2>>, <<12, 4>>, 8), BootDisk(Usual, <<"KERNEL">>, <<2>>, <<12>>, 4)}

O == INSTANCE BootFat WITH
       UnitsPerSector <- 2, DirentsPerSector <- 2, EntriesPerSector <- 2, SectorsPerCluster <- 2,
       EndOfChain <- 100, MaskMod <- 128, LoSize <- 8, Disks <- BootDisks,
       disk <- oDisk, stale <- oStale, pc <- oPc, part <- oPart, cluster <- oCluster, sector <- oSector,
       remaining <- oLeft, last_fat_sector <- oFatSector, fatbuf <- oFatbuf, image <- oImage,
       answered <- oAnswered

-----------------------------------------------------------------------------
\* The kernel's disks: directories of up to three entries of every kind, two of whose
\* files are one to the driver (5 and 13 = 8 + 5 give 4 | 5 = 5), in one or two
\* clusters; also disks with a foreign partition only, with data off the page
\* boundaries or out of reach, and with clusters of half a page and of two pages.
File(n, c, s) == [kind |-> "file", name |-> n, chain |-> c, size |-> s, subdir |-> FALSE]
Kinds(spc) ==
  {File(<<"a", " ", " ">>, <<5, 6, 3>>, 3 * spc - 1), File(<<"a", "b", "c">>, <<7>>, spc), [kind |-> "deleted"], [kind |-> "end"],
   File(<<"a", " ", "c">>, <<13, 4>>, 2 * spc), [kind |-> "vfat"]}
Others == {[File(<<"a", " ", " ">>, <<9>>, 0) EXCEPT !.subdir = TRUE], File(<<"a", "b", "c">>, << >>, 0),
           File(<<"a", " ", "c">>, << >>, 0)}
Foreign == [fat32 |-> FALSE, start |-> 1, reserved |-> 1, fats |-> 1, spf |-> 1]
Ours(s) == [fat32 |-> TRUE, start |-> s, reserved |-> 2, fats |-> 1, spf |-> 9]
Links(c, x) == \E k \in 1..(Len(c) - 1) : c[k] = x
FatDisk(ps, spc, ch, d) ==
  [parts |-> ps, spc |-> spc, chain |-> ch, dir |-> d,
   fat |-> [x \in 0..14 |-> IF Links(ch, x) THEN After(ch, x) ELSE
                            IF \E i \in DOMAIN d : d[i].kind = "file" /\ Links(d[i].chain, x)
                            THEN After(d[CHOOSE i \in DOMAIN d : d[i].kind = "file" /\ Links(d[i].chain, x)].chain, x)
                            ELSE IF x = 1 \/ x > 10 THEN 0 ELSE 99]]
Dirs(k, kinds) == UNION {[1..n -> kinds] : n \in 0..k}
FatDisks ==
  {FatDisk(<<Foreign, Ours(3)>>, 2, <<2, 8>>, d) : d \in Dirs(3, Kinds(2))}
    \cup {FatDisk(<<Foreign, Ours(3)>>, 2, <<2>>, d) : d \in Dirs(2, Kinds(2) \cup Others)}
    \cup {FatDisk(<<Foreign, Ours(s)>>, 2, <<2, 8>>, d) : s \in {4, 41, 61}, d \in Dirs(2, Kinds(2))}
    \cup UNION {{FatDisk(<<Ours(3)>>, spc, <<2>>, d) : d \in Dirs(1, Kinds(spc))} : spc \in {1, 4}}
    \cup {FatDisk(<<Foreign>>, 2, <<2>>, <<>>)}

Names == {<<"a">>, <<"a", "b", "b">>, <<"a", ".", "c">>, <<"a", "b", ".", "c", "d">>, <<"b">>}

-----------------------------------------------------------------------------
\* Machines with any of seven functions on three buses, one of which may be a bridge.
Function(k, multi, s) ==
  [vendor |-> 32902, device |-> 4660 + k, class |-> IF s > 0 THEN 1540 ELSE 262, multi |-> multi,
   secondary |-> s]
Slots == {<<0, 0, 0>>, <<0, 0, 1>>, <<0, 1, 0>>, <<0, 1, 2>>, <<1, 0, 0>>, <<2, 1, 0>>, <<2, 1, 1>>}
Machines ==
  {[f \in S |-> Function(f[3], M[<<f[1], f[2]>>], IF f \in Br THEN 2 ELSE 0)] :
     S \in {T \in SUBSET Slots : <<0, 0, 0>> \in T},
     M \in [{<<0, 0>>, <<0, 1>>, <<1, 0>>, <<2, 1>>} -> BOOLEAN],
     Br \in {{}, {<<0, 1, 0>>}, {<<0, 1, 2>>}, {<<1, 0, 0>>}}}

P == INSTANCE Pci WITH
       Bus <- {0, 1, 2}, max_devices <- 2, max_functions <- 3, max_enumerated_functions <- 6,
       Machine <- Machines, machine <- pMachine, enumerated_res <- pRes, panic <- pPanic

-----------------------------------------------------------------------------
UnitInit ==
  /\ unit \in {"lru", "bootfat", "fat32", "ahci", "pci"}
  /\ unit = "bootfat" \/ (oDisk = BootDisk(Usual, <<"KERNEL">>, <<2>>, <<3>>, 4) /\ oStale = "end")
  /\ unit = "fat32" \/ disk = FatDisk(<<Foreign>>, 2, <<2>>, <<>>)
  /\ unit = "ahci" \/ port = [p \in Port |-> [st |-> FALSE, fre |-> FALSE, cr |-> FALSE, fr |-> FALSE,
                                clb |-> Unset, ci |-> {}, tfes |-> FALSE, bsy |-> FALSE]]
  /\ unit = "pci" \/ pMachine = [f \in {<<0, 0, 0>>} |-> Function(0, FALSE, 0)]
  /\ Init /\ O!Init /\ FatInit /\ AhciInit /\ P!Init

OnlyLru(Act) == unit = "lru" /\ Act /\ UNCHANGED <<unit, bootVars, fatVars, ahciVars, pciVars>>
OnlyBootFat(Act) == unit = "bootfat" /\ Act /\ UNCHANGED <<unit, lruVars, fatVars, ahciVars, pciVars>>
OnlyFat32(Act) == unit = "fat32" /\ Act /\ UNCHANGED <<unit, lruVars, bootVars, ahciVars, pciVars>>
OnlyAhci(Act) == unit = "ahci" /\ Act /\ UNCHANGED <<unit, lruVars, bootVars, fatVars, pciVars>>
OnlyPci(Act) == unit = "pci" /\ Act /\ UNCHANGED <<unit, lruVars, bootVars, fatVars, ahciVars>>

UnitNext ==
  OnlyLru(Next) \/ OnlyBootFat(O!Next) \/ OnlyFat32(FatNext) \/ OnlyAhci(AhciNext) \/ OnlyPci(P!Next)

\* The fairness of the parts, as their modules state it.
UnitSpec ==
  /\ UnitInit /\ [][UnitNext]_all
  /\ WF_all(\/ OnlyLru(EvictLast \/ EvictDone) \/ OnlyBootFat(O!Next) \/ OnlyFat32(Walking)
            \/ OnlyAhci(DriverStep))
  /\ WF_all(OnlyAhci(Fetch)) /\ WF_all(OnlyAhci(Move \/ Complete \/ Fail))
  /\ \A p \in {0, 1} : WF_all(OnlyAhci(Engine(p)))

\* The FAT32 driver alone.
Fat32Spec == UnitInit /\ unit = "fat32" /\ [][OnlyFat32(FatNext)]_all

\* A KERNEL.BIN in the first sector of the root directory is found and read: when the
\* kernel is started its image in memory is the file, and its requests are answered
\* (fat.c, copy_kernel.c), for a file that begins below cluster 2^16 (fat.c:250).
KernelLoaded == O!FoundInFirstSector /\ []O!ImageExact /\ []O!RequestsAnswered

\* read_blocking() and the initialization of a port end, whatever the adapter does
\* between two register accesses, and the memory of a port is only moved while its
\* engines rest (ahci.cc:510, ahci.cc:860).
AdapterAnswers == ReadReturns /\ InitEnds /\ RebasedWhileStopped

\* The functions enumerated are those the machine has (pci.cc:77).
EnumerationExact == P!EnumerationExact
=============================================================================
