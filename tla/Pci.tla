--------------------------------- MODULE Pci --------------------------------
(***************************************************************************)
(* Reading the PCI configuration space and enumerating the functions of    *)
(* all buses (drivers/pci.cc, drivers/pci.h).  The machine is a map from   *)
(* <<bus, device, function>> to a function; a register is four bytes.      *)
(***************************************************************************)
EXTENDS Integers, Sequences, SequencesExt, FiniteSetsExt

CONSTANTS Bus, max_devices, max_functions, max_enumerated_functions,
          Machine            \* machines to enumerate

VARIABLES machine,           \* present functions: [vendor, class, multi, secondary]
          enumerated_res,    \* the static result
          panic

vars == <<machine, enumerated_res, panic>>

Init == machine \in Machine /\ enumerated_res = <<>> /\ panic = FALSE

-----------------------------------------------------------------------------
(* the configuration space *)

Bytes(n) == <<n % 256, n \div 256>>

\* The registers of a function; one that is absent reads as all ones.
Register(f, reg) ==
  IF f \notin DOMAIN machine THEN <<255, 255, 255, 255>>
  ELSE LET m == machine[f]
       IN  CASE reg = 0 -> Bytes(m.vendor) \o Bytes(m.device)
             [] reg = 2 -> <<1, 0>> \o Bytes(m.class)
             [] reg = 3 -> <<0, 0, (IF m.multi THEN 128 ELSE 0) + (IF m.class = 1540 THEN 1 ELSE 0), 0>>
             [] reg = 6 -> <<f[1], m.secondary, m.secondary, 0>>

\* The address in the low 31 bits of config_addr, and what the host takes from it.
config_addr(f, reg) == f[1] * 65536 + f[2] * 2048 + f[3] * 256 + reg * 4
read_config_register(f, reg) ==
  LET a == config_addr(f, reg)
  IN  Register(<<(a \div 65536) % 256, (a \div 2048) % 32, (a \div 256) % 8>>, (a \div 4) % 64)

read_config_word(f, offset) ==
  LET r == read_config_register(f, offset \div 4)
      i == offset % 4
  IN  r[i + 1] + 256 * r[i + 2]
read_config_byte(f, offset) == read_config_register(f, offset \div 4)[(offset % 4) + 1]

get_vendor_id(f) == read_config_word(f, 0)
get_device_id(f) == read_config_word(f, 2)
get_class(f) == read_config_word(f, 10)
get_header_type(f) == read_config_byte(f, 14)
get_secondary_bus(f) == read_config_byte(f, 25)
Absent(f) == get_vendor_id(f) = 65535
MultiFunction(f) == get_header_type(f) >= 128

-----------------------------------------------------------------------------
(* enumeration; s = [res, panic] *)

FuncDescriptor(f) ==
  [bus |-> f[1], device |-> f[2], function |-> f[3], vendor_id |-> get_vendor_id(f),
   class |-> get_class(f), device_id |-> get_device_id(f)]

RECURSIVE enumerate_bus(_, _)

\* One function.  Faulty variant: the first gap ends the device.
Gap_Ends(f) == TRUE
Gap(f) == f[3] = 0

RECURSIVE enumerate_device(_, _)
enumerate_device(s, f) ==
  IF f[3] = max_functions \/ s.panic \/ (Absent(f) /\ Gap(f)) THEN s
  ELSE LET next == <<f[1], f[2], f[3] + 1>>
           t == [s EXCEPT !.res = Append(@, FuncDescriptor(f))]
           u == IF get_class(f) # 1540 THEN t
                ELSE IF get_header_type(f) % 128 # 1 THEN [t EXCEPT !.panic = TRUE]
                ELSE enumerate_bus(t, get_secondary_bus(f))
       IN  IF Absent(f) THEN enumerate_device(s, next)
           ELSE IF Len(s.res) = max_enumerated_functions THEN [s EXCEPT !.panic = TRUE]
           ELSE IF MultiFunction(f) THEN enumerate_device(u, next) ELSE u

enumerate_bus(s, bus) ==
  FoldLeft(LAMBDA t, d : enumerate_device(t, <<bus, d - 1, 0>>), s, [d \in 1..max_devices |-> d])

HostBridge(n) == <<0, 0, n>>

RECURSIVE EnumerateHosts(_, _)
EnumerateHosts(s, n) ==
  IF n = max_functions THEN s
  ELSE IF Absent(HostBridge(n)) THEN EnumerateHosts(s, n + 1)
  ELSE LET t == enumerate_bus(s, n)
       IN  IF MultiFunction(HostBridge(0)) THEN EnumerateHosts(t, n + 1) ELSE t

\* The result is cached: another call returns it.
enumerate_functions ==
  /\ enumerated_res = <<>> /\ ~panic
  /\ LET s == EnumerateHosts([res |-> <<>>, panic |-> FALSE], 0)
     IN  enumerated_res' = s.res /\ panic' = s.panic
  /\ UNCHANGED machine

Next == enumerate_functions
Spec == Init /\ [][Next]_vars

-----------------------------------------------------------------------------
(* properties *)

Exists(f) ==
  /\ f \in DOMAIN machine /\ <<f[1], f[2], 0>> \in DOMAIN machine
  /\ f[3] = 0 \/ machine[<<f[1], f[2], 0>>].multi

Roots == {0} \cup {n \in 1..(max_functions - 1) : Exists(HostBridge(n))}

Reachable ==
  LET Below(bs) == bs \cup {machine[f].secondary : f \in {g \in DOMAIN machine :
                                Exists(g) /\ g[1] \in bs /\ machine[g].class = 1540}}
      reach[n \in Nat] == IF n = 0 THEN Roots ELSE Below(reach[n - 1])
  IN  reach[Cardinality(Bus)]

\* enumerate_functions(): for every machine whose buses form a tree and whose
\* devices say on each of their functions that they have several, the result holds
\* each function on a bus that is reached from a host bridge exactly once, with the
\* identity and class its registers hold, or the table was too small and the
\* assertion stops the kernel.
EnumerationExact ==
  LET all == {f \in DOMAIN machine : Exists(f) /\ f[1] \in Reachable}
  IN  enumerated_res # <<>> =>
        IF panic THEN Cardinality(all) > max_enumerated_functions
        ELSE /\ Len(enumerated_res) = Cardinality(all)
             /\ ToSet(enumerated_res) =
                  {[bus |-> f[1], device |-> f[2], function |-> f[3], vendor_id |-> machine[f].vendor,
                    class |-> machine[f].class, device_id |-> machine[f].device] : f \in all}
=============================================================================
