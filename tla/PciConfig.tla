------------------------------ MODULE PciConfig ------------------------------
(***************************************************************************)
(* The PCI configuration space and the two ways LK has into it: the        *)
(* address and data ports of lib/pci/pci_config.c, which every processor   *)
(* shares without a lock, and the memory mapped one of lib/heci/heci.c.    *)
(* The non-secure world uses the same ports and may move a device.         *)
(*                                                                         *)
(* A dword is the sequence of its four bytes, lowest first.  Only the      *)
(* dwords some code here reads or writes are kept: the command register,   *)
(* the two halves of BAR 0 and HFS1.                                       *)
(***************************************************************************)
EXTENDS Integers, Sequences, FiniteSets

CONSTANTS
  Devices,    \* the functions there are, triples <<bus, device, function>>
  MovedBar,   \* the BAR 0 the non-secure world gives a device it moves
  MaxNs       \* bound: accesses of the non-secure world

HECI == <<0, 15, 0>>      \* HECI_BUS, HECI_DEVICE_NUMBER, HECI_FUNCTION_NUMBER

Byte  == 0 .. 255
Dword == [1 .. 4 -> Byte]

ASSUME PciAssumption ==
  /\ HECI \in Devices
  /\ \A f \in Devices : f \in (0 .. 255) \X (0 .. 31) \X (0 .. 7)
  /\ MovedBar \in Dword /\ MaxNs \in Nat

PCI_COMMAND_OFFSET    == 4
PCI_CONFIG_BAR_OFFSET == 16
HECI1_REG             == 64
Registers == {PCI_COMMAND_OFFSET, PCI_CONFIG_BAR_OFFSET, PCI_CONFIG_BAR_OFFSET + 4, HECI1_REG}

Users     == {"boot", "keymaster", "ns"}
NoAccess  == [width |-> 0, fn |-> HECI, reg |-> 0, lane |-> 0, out |-> <<>>]

VARIABLES
  space,      \* the configuration space: function -> register -> dword
  cf8,        \* the address port
  access,     \* per user: the access whose address is written, not its data
  disturbed,  \* history: users of LK whose address the non-secure world overwrote
  moved,      \* history: functions the non-secure world has moved
  nsUses,     \* accesses of the non-secure world so far
  bar0,       \* what pci_read_bar0 last returned, 8 bytes; <<>> before
  probe,      \* heci_get_base_addr: where it is, val and u32HeciBase, and the
              \* v of heci_pci_set16
  nsDuring    \* history: the BAR was moved while heci_get_base_addr ran

portVars  == <<cf8, access, disturbed>>
probeVars == <<probe, nsDuring>>
pciVars   == <<space, portVars, moved, nsUses, bar0, probeVars>>

-----------------------------------------------------------------------------
(* & ~0xF, what the drivers do to a BAR.                                   *)
Masked(d) == <<d[1] - (d[1] % 16), d[2], d[3], d[4]>>
Is64(d)   == (d[1] % 8) \div 2 = 2          \* (low & 0x6) == 0x4
Zeros     == <<0, 0, 0, 0>>
Ones      == <<255, 255, 255, 255>>

(* What a function keeps of a dword written to it: BAR 0 decodes 4 KB, so  *)
(* that its low 12 bits are the flags and zeros; HFS1 and the status half  *)
(* of the command register are read only.                                  *)
Kept(fn, reg, new) ==
  LET old == space[fn][reg]
  IN  CASE reg = PCI_CONFIG_BAR_OFFSET -> <<old[1] % 16, new[2] - (new[2] % 16), new[3], new[4]>>
        [] reg = PCI_CONFIG_BAR_OFFSET + 4 -> new
        [] reg = PCI_COMMAND_OFFSET -> <<new[1], new[2], old[3], old[4]>>
        [] OTHER -> old

(* Where a function's registers are.                                       *)
Bar0Of(fn) ==
  LET low == space[fn][PCI_CONFIG_BAR_OFFSET]
  IN  Masked(low) \o IF Is64(low) THEN space[fn][PCI_CONFIG_BAR_OFFSET + 4] ELSE Zeros

SetRegister(fn, reg, new) == space' = [space EXCEPT ![fn][reg] = Kept(fn, reg, new)]

(* What firmware has left: BAR 0 and what follows it, the upper half of a  *)
(* 64 bit BAR 0 or another BAR; the CSE's command; its HFS1.               *)
PciInit(bars, cmd, hfs1) ==
  /\ space = [f \in Devices |-> [r \in Registers |->
       CASE r = PCI_CONFIG_BAR_OFFSET -> SubSeq(bars[f], 1, 4)
         [] r = PCI_CONFIG_BAR_OFFSET + 4 -> SubSeq(bars[f], 5, 8)
         [] r = PCI_COMMAND_OFFSET -> <<IF f = HECI THEN cmd ELSE 6, 0, 16, 0>>
         [] OTHER -> hfs1]]
  /\ cf8 = [fn |-> HECI, reg |-> PCI_COMMAND_OFFSET]
  /\ access = [u \in Users |-> NoAccess] /\ disturbed = {}
  /\ moved = {} /\ nsUses = 0 /\ bar0 = <<>>
  /\ probe = [at |-> "idle", val |-> Zeros, base |-> Zeros, v |-> Zeros] /\ nsDuring = FALSE

-----------------------------------------------------------------------------
(* The address half of an access: pci_config_address_t without its two low *)
(* bits goes to 0xCF8.  Whoever has an access in progress loses its        *)
(* address.                                                                *)
Address(fn, reg) == [fn |-> fn, reg |-> reg - (reg % 4)]

Start(u, fn, reg, width, lane, out) ==
  /\ access[u] = NoAccess
  /\ cf8' = Address(fn, reg)
  /\ access' = [access EXCEPT ![u] =
       [width |-> width, fn |-> fn, reg |-> reg, lane |-> lane, out |-> out]]
  /\ disturbed' = IF u = "ns" THEN disturbed \cup {v \in Users : access[v] # NoAccess}
                  ELSE disturbed \ {u}
  /\ nsUses' = IF u = "ns" THEN nsUses + 1 ELSE nsUses
  /\ UNCHANGED <<space, moved, bar0, probeVars>>

pci_read8(u, fn, reg)         == Start(u, fn, reg, 1, reg % 4, <<>>)
pci_write8(u, fn, reg, v)     == Start(u, fn, reg, 1, reg % 4, v)
pci_read16(u, fn, reg)        == Start(u, fn, reg, 2, reg % 4, <<>>)
WriteLaneZero(u, fn, reg, v)  == Start(u, fn, reg, 2, 0, v)     \* mutant
pci_write16(u, fn, reg, v)    == Start(u, fn, reg, 2, 2 * ((reg % 4) \div 2), v)
pci_read32(u, fn, reg)        == Start(u, fn, reg, 4, 0, <<>>)
pci_write32(u, fn, reg, v)    == Start(u, fn, reg, 4, 0, v)

(* The data half: the bytes of 0xCFC from the access's lane on.            *)
hw_read_port(u) ==
  SubSeq(space[cf8.fn][cf8.reg], access[u].lane + 1, access[u].lane + access[u].width)

hw_write_port(u) ==
  LET a == access[u]
      old == space[cf8.fn][cf8.reg]
  IN  SetRegister(cf8.fn, cf8.reg,
        [i \in 1 .. 4 |-> IF i - a.lane \in 1 .. a.width THEN a.out[i - a.lane] ELSE old[i]])

Done(u) ==
  /\ access[u] # NoAccess
  /\ access' = [access EXCEPT ![u] = NoAccess]
  /\ disturbed' = disturbed \ {u}
  /\ UNCHANGED <<cf8, nsUses>>

Reading(u, fn, reg) ==
  access[u] # NoAccess /\ access[u].out = <<>> /\ access[u].fn = fn /\ access[u].reg = reg

(* pci_read_bar0: the low dword, and the high one when the low one says so.*)
GET_PCI_BUS(addr)      == (addr \div 256) % 256
GET_PCI_DEVICE(addr)   == (addr \div 8) % 32
GET_PCI_FUNCTION(addr) == addr % 8
PCI_GET_ADDRESS(f)     == f[1] * 256 + f[2] * 8 + f[3]
Function(addr) == <<GET_PCI_BUS(addr), GET_PCI_DEVICE(addr), GET_PCI_FUNCTION(addr)>>

MAKE64(high, low) == low \o high

pci_read_bar0(addr) == pci_read32("boot", Function(addr), PCI_CONFIG_BAR_OFFSET)

Bar0Low(addr) ==
  LET low == hw_read_port("boot")
  IN /\ Reading("boot", Function(addr), PCI_CONFIG_BAR_OFFSET) /\ Done("boot")
     /\ bar0' = IF Is64(low) THEN low ELSE MAKE64(Zeros, low)
     /\ UNCHANGED <<space, moved, probeVars>>

Bar0NextHigh(addr) ==
  /\ Len(bar0) = 4
  /\ pci_read32("boot", Function(addr), PCI_CONFIG_BAR_OFFSET + 4)

Bar0High(addr) ==
  /\ Reading("boot", Function(addr), PCI_CONFIG_BAR_OFFSET + 4) /\ Done("boot")
  /\ bar0' = MAKE64(hw_read_port("boot"), bar0)
  /\ UNCHANGED <<space, moved, probeVars>>

-----------------------------------------------------------------------------
(* heci_get_base_addr, one access to the memory mapped space at a time:    *)
(* BAR 0 is read, overwritten with ones, read, restored and read again,    *)
(* and decoding enabled where it is not.                                   *)
ProbeStep(at, val, base, v) ==
  /\ probe' = [at |-> at, val |-> val, base |-> base, v |-> v]
  /\ UNCHANGED <<portVars, moved, nsUses, bar0>>

ProbeTo(at, val, base) == ProbeStep(at, val, base, probe.v)

HeciBar == Masked(space[HECI][PCI_CONFIG_BAR_OFFSET])

ReadBar ==
  /\ probe.at = "idle"
  /\ ProbeTo("ones", HeciBar, Zeros) /\ nsDuring' = FALSE
  /\ UNCHANGED space

WriteOnes ==
  /\ probe.at = "ones"
  /\ SetRegister(HECI, PCI_CONFIG_BAR_OFFSET, Ones)
  /\ ProbeTo("size", probe.val, probe.base) /\ UNCHANGED nsDuring

ReadSize ==
  /\ probe.at = "size"
  /\ ProbeTo("restore", probe.val, HeciBar) /\ UNCHANGED <<space, nsDuring>>

RestoreNothing ==              \* mutant: val is not written back
  /\ probe.at = "restore"
  /\ ProbeTo("base", probe.val, probe.base) /\ UNCHANGED <<space, nsDuring>>

Restore ==
  /\ probe.at = "restore"
  /\ SetRegister(HECI, PCI_CONFIG_BAR_OFFSET, probe.val)
  /\ ProbeTo("base", probe.val, probe.base) /\ UNCHANGED nsDuring

ReadBase ==
  /\ probe.at = "base"
  /\ ProbeTo("command", probe.val, HeciBar) /\ UNCHANGED <<space, nsDuring>>

(* Memory space is bit 1 of the command register, bus master bit 2, SERR   *)
(* bit 8.  Unless the first two are set, heci_pci_set16 reads the register *)
(* again, and writes it with the three.                                    *)
Decoding(fn) == (space[fn][PCI_COMMAND_OFFSET][1] % 8) \div 2 = 3

ReadCommand ==
  /\ probe.at = "command"
  /\ ProbeTo(IF Decoding(HECI) THEN "map" ELSE "set", probe.val, probe.base)
  /\ UNCHANGED <<space, nsDuring>>

SetReads ==
  /\ probe.at = "set"
  /\ ProbeStep("enable", probe.val, probe.base, space[HECI][PCI_COMMAND_OFFSET])
  /\ UNCHANGED <<space, nsDuring>>

SetWrites ==
  LET v == probe.v
  IN /\ probe.at = "enable"
     /\ SetRegister(HECI, PCI_COMMAND_OFFSET,
          <<v[1] - (v[1] % 8) + (v[1] % 2) + 6, v[2] - (v[2] % 2) + 1, v[3], v[4]>>)
     /\ ProbeTo("map", probe.val, probe.base) /\ UNCHANGED nsDuring

(* vmm_alloc_physical: the exchange goes on with the page, or fails.       *)
MapBase ==
  /\ probe.at = "map"
  /\ ProbeTo("mapped", probe.val, probe.base) \/ ProbeTo("idle", probe.val, probe.base)
  /\ UNCHANGED <<space, nsDuring>>

ExchangeEnds ==
  /\ probe.at = "mapped"
  /\ ProbeTo("idle", probe.val, probe.base) /\ UNCHANGED <<space, nsDuring>>

get_base_addr ==
  \/ WriteOnes \/ ReadSize \/ Restore \/ ReadBase
  \/ ReadCommand \/ SetReads \/ SetWrites \/ MapBase \/ ExchangeEnds

-----------------------------------------------------------------------------
(* The non-secure world's own use of the ports: it moves a device's BAR 0, *)
(* by the same two steps.                                                  *)
NsAddress(fn) ==
  /\ nsUses < MaxNs
  /\ Start("ns", fn, PCI_CONFIG_BAR_OFFSET, 4, 0, MovedBar)

NsData ==
  /\ Done("ns") /\ hw_write_port("ns")
  /\ moved' = moved \cup {cf8.fn}
  /\ nsDuring' = (nsDuring \/ (cf8 = Address(HECI, PCI_CONFIG_BAR_OFFSET) /\ probe.at # "idle"))
  /\ UNCHANGED <<bar0, probe>>

-----------------------------------------------------------------------------
PciTypeOK ==
  /\ space \in [Devices -> [Registers -> Dword]]
  /\ cf8 \in [fn : Devices, reg : Registers]
  /\ \A u \in Users : access[u] = NoAccess \/
       /\ access[u].width \in {1, 2, 4} /\ access[u].lane \in 0 .. 3
       /\ access[u].lane + access[u].width <= 4
       /\ Len(access[u].out) \in {0, access[u].width}
  /\ disturbed \subseteq Users /\ moved \subseteq Devices /\ nsUses \in 0 .. MaxNs

(* An access of LK reaches the bytes of the function it is meant for, in   *)
(* whatever width, unless the non-secure world writes the address port     *)
(* between its two halves.  LK takes no lock: the boot's accesses must be  *)
(* over when the keymaster application's begin.                            *)
ReachesItsRegister ==
  \A u \in Users \ {"ns"} : access[u] # NoAccess /\ u \notin disturbed =>
    cf8.fn = access[u].fn /\ cf8.reg + access[u].lane = access[u].reg

(* What heci_get_base_addr has mapped for an exchange is where the CSE's   *)
(* registers are, and the CSE decodes them; the probe has put back the BAR *)
(* it found and overwrote.  (Unless the non-secure world moved the CSE     *)
(* meanwhile, or firmware put it above 4 GB: u32HeciBase has 32 bits.)     *)
BaseIsBar ==
  probe.at = "mapped" /\ ~nsDuring =>
    /\ probe.base = probe.val /\ probe.base \o Zeros = Bar0Of(HECI)
    /\ Decoding(HECI)

(* The other way round, for the non-secure world: not so, LK's accesses    *)
(* move the address port under it as well.                                 *)
NsReachesItsRegister ==
  access["ns"] # NoAccess => cf8 = Address(access["ns"].fn, access["ns"].reg)
=============================================================================
