---------------------------- MODULE PlatformProofs ----------------------------
(***************************************************************************)
(* Theorems about Platform, for any devices, machines, modules and number  *)
(* of processors: the ports (PortsInStep), the start-up page               *)
(* (PageOutlivesStart), the pages (ImageProtected), the registers          *)
(* (ProbeRestores, DriversFind) and the types (TypeCorrect).               *)
(***************************************************************************)
EXTENDS Platform, FiniteSetTheorems, TLAPS

-----------------------------------------------------------------------------
(* The address and data ports.                                             *)
(* What an access remembers of its register is what the lane adds up to,   *)
(* and the address port holds the register's dword unless the non-secure   *)
(* world has written it since.  No two users of LK have an access in       *)
(* progress at a time: the boot's are over at the last hook, and the       *)
(* keymaster application's begin after it.                                 *)
InStep(a) ==
  /\ a.reg \in Nat
  /\ a.reg - (a.reg % 4) + a.lane = a.reg

Over == {"hooks", "run"}

PortInv ==
  /\ access = [u \in Users |-> access[u]]
  /\ \A u \in Users \ {"ns"} : access[u] # NoAccess =>
       /\ InStep(access[u])
       /\ u \in disturbed \/ cf8 = Address(access[u].fn, access[u].reg)
  /\ stage \in Over => access["boot"] = NoAccess
  /\ stage # "run" => access["keymaster"] = NoAccess

(* Every step of the platform treats the ports in one of three ways.  The  *)
(* boot's accesses begin and end before it is over, the other users'       *)
(* after it.                                                               *)
Turn(u) ==
  IF u = "boot" THEN stage \notin Over /\ stage' \notin Over
  ELSE stage = "run" /\ stage' = "run"

Starts ==
  \E u \in Users, reg \in Nat : \E fn, width, lane, out :
    /\ reg - (reg % 4) + lane = reg /\ Start(u, fn, reg, width, lane, out)
    /\ Turn(u)

Goes ==
  \/ /\ stage' \in Over => stage \in Over
     /\ UNCHANGED portVars \/ \E u \in Users : Done(u)
  \/ Done("boot")

PortStep == ((stage = "run" => stage' = "run") /\ Goes) \/ Starts

LEMMA PortInvInit == Init => PortInv
<1> SUFFICES ASSUME Init PROVE PortInv
  OBVIOUS
<1>1. access = [u \in Users |-> NoAccess]
  BY DEF Init, PciInit
<1> QED BY <1>1 DEF PortInv, Users

(* Each of the three ways keeps the invariant of the ports.                *)
LEMMA PortInvStep ==
  ASSUME PortInv, PortStep
  PROVE  PortInv'
<1> USE DEF Users, Over
<1>1. CASE (stage = "run" => stage' = "run") /\ Goes
  <2>1. CASE UNCHANGED portVars /\ (stage' \in Over => stage \in Over)
    BY <1>1, <2>1 DEF PortInv, portVars
  <2>2. ASSUME NEW u \in Users, Done(u), u = "boot" \/ (stage' \in Over => stage \in Over)
        PROVE  PortInv'
    <3>1. /\ access' = [access EXCEPT ![u] = NoAccess]
          /\ disturbed' = disturbed \ {u} /\ cf8' = cf8
      BY <2>2 DEF Done
    <3>2. access' = [v \in Users |-> IF v = u THEN NoAccess ELSE access[v]]
      BY <3>1 DEF PortInv
    <3> QED BY <1>1, <2>2, <3>1, <3>2 DEF PortInv
  <2> QED BY <1>1, <2>1, <2>2 DEF Goes
<1>2. CASE Starts
  <2>1. PICK u \in Users, reg \in Nat : \E fn, width, lane, out :
               /\ reg - (reg % 4) + lane = reg /\ Start(u, fn, reg, width, lane, out)
               /\ Turn(u)
    BY <1>2 DEF Starts
  <2>0. PICK fn, width, lane, out :
               /\ reg - (reg % 4) + lane = reg /\ Start(u, fn, reg, width, lane, out)
               /\ Turn(u)
    BY <2>1
  <2> DEFINE new == [width |-> width, fn |-> fn, reg |-> reg, lane |-> lane, out |-> out]
  <2>2. /\ access' = [access EXCEPT ![u] = new] /\ cf8' = Address(fn, reg)
        /\ disturbed' = IF u = "ns" THEN disturbed \cup {v \in Users : access[v] # NoAccess}
                        ELSE disturbed \ {u}
    BY <2>0 DEF Start
  <2>3. access' = [v \in Users |-> IF v = u THEN new ELSE access[v]]
    BY <2>2 DEF PortInv
  <2>4. ASSUME NEW v \in Users \ {"ns"}, access'[v] # NoAccess
        PROVE  /\ InStep(access'[v])
               /\ v \in disturbed' \/ cf8' = Address(access'[v].fn, access'[v].reg)
    <3>1. CASE v = u
      <4>1. access'[v] = new /\ new.fn = fn /\ new.reg = reg /\ new.lane = lane
        BY <2>3, <3>1
      <4> HIDE DEF new
      <4> QED BY <2>0, <2>2, <4>1 DEF InStep
    <3>2. CASE v # u
      <4>1. access'[v] = access[v]
        BY <2>3, <3>2
      <4>2. u = "ns"
        BY <2>0, <2>4, <3>2, <4>1 DEF Turn, PortInv
      <4> QED BY <2>2, <2>4, <4>1, <4>2 DEF PortInv
    <3> QED BY <3>1, <3>2
  <2>5. /\ stage' \in Over => access'["boot"] = NoAccess
        /\ stage' # "run" => access'["keymaster"] = NoAccess
    BY <2>0, <2>3 DEF Turn, PortInv
  <2> QED BY <2>3, <2>4, <2>5 DEF PortInv
<1> QED BY <1>1, <1>2 DEF PortStep

(* The lanes the six functions choose, for a register of any width a module*)
(* may pass.                                                               *)
LEMMA Lanes ==
  ASSUME NEW reg \in Nat
  PROVE  /\ reg - (reg % 4) + (reg % 4) = reg
         /\ reg % 4 = 0 => reg - (reg % 4) + 0 = reg
         /\ reg % 2 = 0 => reg - (reg % 4) + 2 * ((reg % 4) \div 2) = reg
<1>1. reg % 4 \in 0 .. 3
  OBVIOUS
<1>2. reg % 2 = 0 => reg % 4 \in {0, 2}
  OBVIOUS
<1>3. \A n \in {0, 2} : 2 * (n \div 2) = n
  OBVIOUS
<1> QED BY <1>1, <1>2, <1>3

LEMMA IsStart ==
  ASSUME NEW u \in Users, NEW fn, NEW reg \in Nat, NEW width, NEW lane, NEW out,
         reg - (reg % 4) + lane = reg, Start(u, fn, reg, width, lane, out), Turn(u)
  PROVE  Starts
BY Zenon DEF Starts

LEMMA Read32Starts ==
  ASSUME NEW u \in Users, NEW fn, NEW reg \in Nat, reg % 4 = 0, pci_read32(u, fn, reg),
         Turn(u)
  PROVE  Starts
<1>1. reg - (reg % 4) + 0 = reg
  OBVIOUS
<1>2. Start(u, fn, reg, 4, 0, <<>>)
  BY Zenon DEF pci_read32
<1>3. Turn(u) /\ u \in Users /\ reg \in Nat
  OBVIOUS
<1> QED BY ONLY <1>1, <1>2, <1>3, IsStart, Zenon

LEMMA ModuleStarts == ModuleAccess => Starts
<1> SUFFICES ASSUME ModuleAccess PROVE Starts
  OBVIOUS
<1>0. "boot" \in Users /\ Turn("boot")
  BY DEF Users, Turn, Over, ModuleAccess, Reach
<1>1. CASE pci_write32("boot", MODULE_DEV, PCI_COMMAND_OFFSET, <<6, 0, 0, 0>>)
  <2>1. Start("boot", MODULE_DEV, PCI_COMMAND_OFFSET, 4, 0, <<6, 0, 0, 0>>)
    BY <1>1, Zenon DEF pci_write32
  <2>2. PCI_COMMAND_OFFSET \in Nat /\ PCI_COMMAND_OFFSET - (PCI_COMMAND_OFFSET % 4) + 0 = PCI_COMMAND_OFFSET
    BY DEF PCI_COMMAND_OFFSET
  <2> QED BY <1>0, <2>1, <2>2, IsStart, Zenon
<1>2. ASSUME NEW reg \in ModuleRegs,
             \/ pci_read8("boot", MODULE_DEV, reg)
             \/ \E v : pci_write8("boot", MODULE_DEV, reg, v)
             \/ reg % 2 = 0 /\ pci_read16("boot", MODULE_DEV, reg)
             \/ reg % 2 = 0 /\ pci_write16("boot", MODULE_DEV, reg, <<1, 2>>)
      PROVE  Starts
  <2>1. reg \in Nat
    BY PlatformAssumption DEF PCI_CONFIG_BAR_OFFSET
  <2>2. \E lane : reg - (reg % 4) + lane = reg
                 /\ \E width, out : Start("boot", MODULE_DEV, reg, width, lane, out)
    <3>1. CASE pci_read8("boot", MODULE_DEV, reg) \/ \E v : pci_write8("boot", MODULE_DEV, reg, v)
      <4>1. \E width, out : Start("boot", MODULE_DEV, reg, width, reg % 4, out)
        BY <3>1, Zenon DEF pci_read8, pci_write8
      <4> QED BY <2>1, <4>1, Lanes, Zenon
    <3>2. CASE reg % 2 = 0 /\ pci_read16("boot", MODULE_DEV, reg)
      <4>1. Start("boot", MODULE_DEV, reg, 2, reg % 4, <<>>)
        BY <3>2, Zenon DEF pci_read16
      <4> QED BY <2>1, <4>1, Lanes, Zenon
    <3>3. CASE reg % 2 = 0 /\ pci_write16("boot", MODULE_DEV, reg, <<1, 2>>)
      <4>1. Start("boot", MODULE_DEV, reg, 2, 2 * ((reg % 4) \div 2), <<1, 2>>)
        BY <3>3, Zenon DEF pci_write16
      <4> QED BY <2>1, <3>3, <4>1, Lanes, Zenon
    <3> QED BY <1>2, <3>1, <3>2, <3>3, Zenon
  <2> QED BY <1>0, <2>1, <2>2, IsStart, Zenon
<1> QED BY <1>1, <1>2, Zenon DEF ModuleAccess

(* The steps of the boot: a part of them write an address, a part use the  *)
(* data, and the rest leave the ports alone.                               *)
LEMMA DeviceStarts ==
  ASSUME NEW fn, \/ /\ Turn("boot")
                    /\ \/ pci_read32("boot", fn, PCI_CONFIG_BAR_OFFSET)
                       \/ pci_read32("boot", fn, PCI_CONFIG_BAR_OFFSET + 4)
                 \/ Turn("keymaster") /\ pci_read32("keymaster", fn, HECI1_REG)
  PROVE  Starts
<1>1. "boot" \in Users /\ "keymaster" \in Users
  BY DEF Users
<1>2. /\ PCI_CONFIG_BAR_OFFSET \in Nat /\ PCI_CONFIG_BAR_OFFSET % 4 = 0
      /\ PCI_CONFIG_BAR_OFFSET + 4 \in Nat /\ (PCI_CONFIG_BAR_OFFSET + 4) % 4 = 0
      /\ HECI1_REG \in Nat /\ HECI1_REG % 4 = 0
  BY DEF PCI_CONFIG_BAR_OFFSET, HECI1_REG
<1> QED BY <1>1, <1>2, Read32Starts, Zenon

LEMMA BootPorts == Boot => PortStep
<1> SUFFICES ASSUME Boot PROVE PortStep
  OBVIOUS
<1>0. "boot" \in Users
  BY DEF Users
<1>1. CASE InitUartAddress \/ RemapAddress \/ SpiAddress
  <2>1. \E fn : pci_read32("boot", fn, PCI_CONFIG_BAR_OFFSET)
    BY <1>1, Zenon DEF InitUartAddress, RemapAddress, SpiAddress
  <2>2. Turn("boot")
    BY <1>1 DEF InitUartAddress, RemapAddress, SpiAddress, Reach, Turn, Over
  <2> QED BY <2>1, <2>2, DeviceStarts, Zenon DEF PortStep
<1>2. CASE ModuleAccess
  BY <1>2, ModuleStarts, Zenon DEF PortStep
<1>3. CASE init_uart \/ uart_remap \/ ModuleData \/ spi_mmu_init
  <2>1. Done("boot")
    BY <1>3, Zenon DEF init_uart, uart_remap, ModuleData, spi_mmu_init
  <2>2. stage # "run"
    BY <1>3 DEF init_uart, uart_remap, ModuleData, spi_mmu_init, Reach
  <2> QED BY <2>1, <2>2, Zenon DEF PortStep, Goes
<1>4. CASE ModuleReadsBar
  <2>0. stage \notin Over /\ stage' \notin Over /\ Turn("boot")
    BY <1>4 DEF ModuleReadsBar, Reach, Over, Turn
  <2>1. \/ \E addr_ : pci_read_bar0(addr_) \/ Bar0NextHigh(addr_)
        \/ \E addr_ : Bar0Low(addr_) \/ Bar0High(addr_)
        \/ UNCHANGED pciVars
    BY <1>4, Zenon DEF ModuleReadsBar
  <2>2. CASE \E addr_ : pci_read_bar0(addr_) \/ Bar0NextHigh(addr_)
    <3>1. \E fn : \/ pci_read32("boot", fn, PCI_CONFIG_BAR_OFFSET)
                  \/ pci_read32("boot", fn, PCI_CONFIG_BAR_OFFSET + 4)
      BY <2>2, Zenon DEF pci_read_bar0, Bar0NextHigh
    <3> QED BY <2>0, <3>1, DeviceStarts, Zenon DEF PortStep
  <2>3. CASE \E addr_ : Bar0Low(addr_) \/ Bar0High(addr_)
    <3>1. Done("boot")
      BY <2>3, Zenon DEF Bar0Low, Bar0High
    <3> QED BY <2>0, <3>1 DEF PortStep, Goes, Over
  <2>4. CASE UNCHANGED pciVars
    BY <2>0, <2>4 DEF PortStep, Goes, Over, pciVars
  <2> QED BY <2>1, <2>2, <2>3, <2>4
<1>5. CASE \/ start \/ HeapInit \/ NoModule \/ prepare_secinfo_region \/ smc_init
           \/ cse_init \/ SysenterCheck \/ platform_update_pagetable \/ smc_x86_init
  <2>1. UNCHANGED pciVars
    BY <1>5, Zenon DEF start, HeapInit, NoModule, prepare_secinfo_region, smc_init,
         cse_init, SysenterCheck, platform_update_pagetable, smc_x86_init
  <2>2. stage # "run" /\ (stage' \in Over => stage \in Over)
    BY <1>5 DEF start, HeapInit, NoModule, prepare_secinfo_region, smc_init,
         cse_init, SysenterCheck, platform_update_pagetable, smc_x86_init, Reach, Over
  <2> QED BY <2>1, <2>2 DEF PortStep, Goes, pciVars
<1> QED BY <1>1, <1>2, <1>3, <1>4, <1>5, Zenon DEF Boot

LEMMA ProbePorts == ReadBar \/ get_base_addr => UNCHANGED portVars
<1> SUFFICES ASSUME ReadBar \/ get_base_addr
             PROVE  \E at, val, b, v : ProbeStep(at, val, b, v)
  BY Zenon DEF ProbeStep
<1> QED BY Zenon DEF ProbeTo, ReadBar, get_base_addr, WriteOnes, ReadSize, Restore, ReadBase,
          ReadCommand, SetReads, SetWrites, MapBase, ExchangeEnds

LEMMA NextPorts == [Next]_vars => PortStep
<1> SUFFICES ASSUME [Next]_vars PROVE PortStep
  OBVIOUS
<1>0. "keymaster" \in Users /\ "ns" \in Users
  BY DEF Users
<1>1. CASE Boot
  BY <1>1, BootPorts
<1> DEFINE Others == \/ ReadFuse \/ FuseRead \/ BeginExchange \/ Exchange \/ NonSecure
                     \/ Mp \/ WildAccess \/ lpss_spi_access
<1>2. Others => stage = "run" /\ stage' = "run"
  BY DEF Mp, ReadFuse, FuseRead, WildAccess, BeginExchange, Exchange, lpss_spi_access,
         NonSecure, Running
<1>3. Others => Turn("keymaster") /\ Turn("ns")
  BY <1>2, Zenon DEF Turn
<1>4. Others /\ UNCHANGED portVars => PortStep
  BY <1>2 DEF PortStep, Goes, Over
<1>5. CASE ReadFuse
  <2>1. pci_read32("keymaster", HECI, HECI1_REG)
    BY <1>5, Zenon DEF ReadFuse
  <2> QED BY <1>3, <1>5, <2>1, DeviceStarts, Zenon DEF PortStep
<1>6. ASSUME NEW u \in Users, Done(u), Others PROVE PortStep
  BY <1>2, <1>6 DEF PortStep, Goes, Over
<1>7. CASE FuseRead
  <2>1. Done("keymaster")
    BY <1>7, Zenon DEF FuseRead
  <2> QED BY <1>0, <1>6, <1>7, <2>1
<1>8. CASE BeginExchange \/ Exchange
  <2>1. ReadBar \/ get_base_addr
    BY <1>8, Zenon DEF BeginExchange, Exchange
  <2> QED BY <1>4, <1>8, <2>1, ProbePorts
<1>9. CASE NonSecure
  <2>1. CASE NsData
    <3>1. Done("ns")
      BY <2>1, Zenon DEF NsData
    <3> QED BY <1>0, <1>6, <1>9, <3>1
  <2>2. CASE \E f \in {UART, SPI, HECI} : NsAddress(f)
    <3>1. PICK f : Start("ns", f, PCI_CONFIG_BAR_OFFSET, 4, 0, MovedBar)
      BY <2>2, Zenon DEF NsAddress
    <3>2. /\ PCI_CONFIG_BAR_OFFSET \in Nat
          /\ PCI_CONFIG_BAR_OFFSET - (PCI_CONFIG_BAR_OFFSET % 4) + 0 = PCI_CONFIG_BAR_OFFSET
      BY DEF PCI_CONFIG_BAR_OFFSET
    <3>3. Turn("ns")
      BY <1>3, <1>9
    <3> QED BY <1>0, <3>1, <3>2, <3>3, IsStart, Zenon DEF PortStep
  <2> QED BY <1>9, <2>1, <2>2, Zenon DEF NonSecure
<1>10. CASE Mp \/ WildAccess \/ lpss_spi_access
  <2>1. UNCHANGED portVars
    BY <1>10 DEF Mp, WildAccess, lpss_spi_access, pciVars
  <2> QED BY <1>4, <1>10, <2>1
<1>11. CASE UNCHANGED vars
  BY <1>11 DEF vars, pciVars, PortStep, Goes
<1> QED BY <1>1, <1>5, <1>7, <1>8, <1>9, <1>10, <1>11, Zenon DEF Next

(* Every access of LK to a device's configuration space reaches the        *)
(* function and the bytes it is meant for, unless the non-secure world     *)
(* writes the address port between its two halves: LK's own accesses, of   *)
(* the boot and of the keymaster application, never fall between those     *)
(* of one another.                                                         *)
THEOREM PortsInStep == Spec => []ReachesItsRegister
<1>1. PortInv /\ [Next]_vars => PortInv'
  BY NextPorts, PortInvStep, Zenon
<1>2. PortInv => ReachesItsRegister
  BY DEF PortInv, InStep, ReachesItsRegister, Address
<1> QED BY <1>1, <1>2, PortInvInit, PTL DEF Spec

-----------------------------------------------------------------------------
(* The start of the application processors, when the caller's address is   *)
(* that of a page and the processors are as many as the loop waits for.    *)
Placed == \A a \in StartAddrs : is_ap_wkup_addrr_available(a) => a % 4096 = 0
Counted == IsFiniteSet(APs) /\ Cardinality(APs) + 1 = SMP_MAX_CPUS

Awake == {c \in APs : ap[c] = "awake"}

Mapping    == {"map", "copy", "patch", "broadcast", "wait", "unmap"}
Patched    == {"broadcast", "wait", "unmap"}
Sent       == {"wait", "unmap", "done", "failed"}

(* The page holds the patched code from before the IPI until the wait is   *)
(* over, and then every processor has left it, since each has counted      *)
(* itself once.                                                            *)
MpInv ==
  /\ ap \in [APs -> {"off", "sipi", "page", "awake"}]
  /\ mp \in Mapping => addr \in StartAddrs /\ is_ap_wkup_addrr_available(addr)
  /\ mp \in Patched => page = startup_hotpatch(addr)
  /\ mp \in {"wait", "unmap"} => vector = addr \div 4096
  /\ mp \notin Sent => \A c \in APs : ap[c] = "off"
  /\ mp \in Sent \ {"wait"} => \A c \in APs : ap[c] \in {"off", "awake"}
  /\ cpu_waken_up = 1 + Cardinality(Awake)

(* The real mode segment and the vector of the start-up IPI give back the  *)
(* address of a page below 1 MB.                                           *)
LEMMA Paragraphs ==
  ASSUME NEW a \in Nat, a < ONE_MB_ADDR, a % 4096 = 0
  PROVE  ((a \div 16) % 65536) * 16 = a /\ (a \div 4096) * 4096 = a
<1>1. ((a \div 16) % 65536) * 16 = a
  BY SMT DEF ONE_MB_ADDR
<1>2. (a \div 4096) * 4096 = a
  BY SMT DEF ONE_MB_ADDR
<1> QED BY <1>1, <1>2, SMT

(* What the patch of a page below 1 MB makes the processors find.          *)
LEMMA PatchedFinds ==
  ASSUME Placed, NEW a \in StartAddrs, is_ap_wkup_addrr_available(a)
  PROVE  Finds(a \div 4096, a, startup_hotpatch(a))
<1>1. a \in Nat /\ a < ONE_MB_ADDR /\ a % 4096 = 0
  BY MpAssumption DEF Placed, is_ap_wkup_addrr_available
<1>2. ((a \div 16) % 65536) * 16 = a /\ (a \div 4096) * 4096 = a
  BY <1>1, Paragraphs, SMT
<1>3. 8 + 7 <= GDTR_LIMIT
  BY DEF GDTR_LIMIT
<1> DEFINE p == startup_hotpatch(a)
<1>4. /\ p.ax = (a \div 16) % 65536 /\ p.si = GdtrAt /\ p.limit = GDTR_LIMIT
      /\ p.base = a + GdtAt /\ p.eip = a + Entry32At /\ p.cs = 8 /\ p.ebp = RunAddr
  BY DEF startup_hotpatch
<1> HIDE DEF p
<1>5. p.ax * 16 + p.si = a + GdtrAt
  BY <1>2, <1>4, SMT
<1>6. p.cs + 7 <= p.limit
  BY <1>3, <1>4, SMT
<1> QED BY <1>2, <1>4, <1>5, <1>6, SMT DEF Finds, p

LEMMA MpInvInit == Counted /\ Init => MpInv
<1> SUFFICES ASSUME Counted, Init PROVE MpInv
  OBVIOUS
<1>1. /\ mp = "idle" /\ ap = [c \in APs |-> "off"] /\ cpu_waken_up = 1
  BY DEF Init, MpInit
<1>2. Awake = {}
  BY <1>1 DEF Awake
<1>3. cpu_waken_up = 1 + Cardinality(Awake)
  BY <1>1, <1>2, FS_EmptySet
<1> QED BY <1>1, <1>3 DEF MpInv, Mapping, Patched, Sent

(* Every step keeps what the boot processor has set up so far.             *)
LEMMA MpInvStep ==
  ASSUME Counted, Placed, MpInv, [Next]_vars
  PROVE  MpInv'
<1> USE DEF Mapping, Patched, Sent
<1>0. CASE UNCHANGED mpVars
  BY <1>0 DEF MpInv, mpVars, Awake, is_ap_wkup_addrr_available
<1>1. ASSUME ap' = ap, cpu_waken_up' = cpu_waken_up
      PROVE  cpu_waken_up' = 1 + Cardinality(Awake') /\ ap' \in [APs -> {"off", "sipi", "page", "awake"}]
  BY <1>1 DEF MpInv, Awake
<1>2. CASE \E a \in StartAddrs : Call(a)
  BY <1>1, <1>2 DEF Call, MpInv
<1>3. CASE MapPage \/ MapPageFails \/ Copy
  BY <1>1, <1>3 DEF MapPage, MapPageFails, Copy, MpInv, is_ap_wkup_addrr_available
<1>4. CASE Patch
  BY <1>1, <1>4 DEF Patch, MpInv, is_ap_wkup_addrr_available
<1>5. CASE broadcast_startup
  <2>1. ap' = [c \in APs |-> "sipi"] /\ cpu_waken_up' = cpu_waken_up /\ mp = "broadcast"
    BY <1>5 DEF broadcast_startup
  <2>2. Awake' = Awake
    BY <2>1 DEF Awake, MpInv
  <2> QED BY <1>5, <2>1, <2>2 DEF broadcast_startup, MpInv, is_ap_wkup_addrr_available
<1>6. CASE AllAwake
  <2>1. /\ 1 + Cardinality(Awake) = Cardinality(APs) + 1
        /\ ap' = ap /\ mp = "wait" /\ mp' = "unmap" /\ cpu_waken_up' = cpu_waken_up
    BY <1>6 DEF AllAwake, Counted, MpInv
  <2>2. Awake = APs
    <3>1. Awake \in SUBSET APs
      BY DEF Awake
    <3>2. /\ Cardinality(APs) \in Nat /\ Cardinality(Awake) \in Nat
      BY <3>1, FS_CardinalityType, FS_Subset DEF Counted
    <3>3. Cardinality(APs) = Cardinality(Awake)
      BY <2>1, <3>2
    <3> QED BY <3>1, <3>3, FS_Subset DEF Counted
  <2>3. \A c \in APs : ap'[c] = "awake"
    BY <2>1, <2>2 DEF Awake
  <2> QED BY <1>1, <1>6, <2>1, <2>3 DEF AllAwake, MpInv, is_ap_wkup_addrr_available
<1>7. CASE Unmap
  BY <1>1, <1>7 DEF Unmap, MpInv
<1>8. CASE APStep
  <2>1. PICK c \in APs : Enter(c) \/ WakeUp(c)
    BY <1>8 DEF APStep
  <2>2. UNCHANGED <<mp, addr, mapped, page, vector>>
    BY <2>1 DEF Enter, WakeUp
  <2>3. mp = "wait"
    BY <2>1 DEF Enter, WakeUp, MpInv
  <2>4. CASE Enter(c)
    <3>1. ap[c] = "sipi"
      BY <2>4 DEF Enter
    <3>2. Finds(vector, addr, page)
      BY <2>3, PatchedFinds DEF MpInv
    <3>3. ap' = [ap EXCEPT ![c] = "page"] /\ cpu_waken_up' = cpu_waken_up
      BY <2>4, <3>2 DEF Enter
    <3>4. Awake' = Awake
      BY <3>1, <3>3 DEF Awake, MpInv
    <3> QED BY <2>2, <2>3, <3>3, <3>4 DEF MpInv, is_ap_wkup_addrr_available
  <2>5. CASE WakeUp(c)
    <3>1. /\ ap[c] = "page" /\ ap' = [ap EXCEPT ![c] = "awake"]
          /\ cpu_waken_up' = cpu_waken_up + 1
      BY <2>5 DEF WakeUp
    <3>2. Awake' = Awake \cup {c} /\ c \notin Awake
      BY <3>1 DEF Awake, MpInv
    <3>3. IsFiniteSet(Awake) /\ Cardinality(Awake) \in Nat
      <4>1. Awake \in SUBSET APs
        BY DEF Awake
      <4>2. IsFiniteSet(Awake)
        BY <4>1, FS_Subset DEF Counted
      <4> QED BY <4>2, FS_CardinalityType
    <3>4. Cardinality(Awake') = Cardinality(Awake) + 1
      BY <3>2, <3>3, FS_AddElement
    <3>5. cpu_waken_up' = 1 + Cardinality(Awake')
      BY <3>1, <3>3, <3>4 DEF MpInv
    <3> QED BY <2>2, <2>3, <3>1, <3>5 DEF MpInv, is_ap_wkup_addrr_available
  <2> QED BY <2>1, <2>4, <2>5
<1>9. CASE PageReused
  BY <1>1, <1>9 DEF PageReused, Returned, MpInv, is_ap_wkup_addrr_available
<1>10. UNCHANGED mpVars \/ Mp
  BY Zenon DEF Next, Boot, NonSecure, start, HeapInit, InitUartAddress, init_uart, RemapAddress,
     uart_remap, ModuleAccess, ModuleData, ModuleReadsBar, NoModule, prepare_secinfo_region,
     smc_init, cse_init, SysenterCheck, platform_update_pagetable, SpiAddress, spi_mmu_init,
     smc_x86_init, ReadFuse, FuseRead, WildAccess, BeginExchange, Exchange, lpss_spi_access, vars
<1> QED BY <1>0, <1>2, <1>3, <1>4, <1>5, <1>6, <1>7, <1>8, <1>9, <1>10, Zenon DEF Mp, x86_mp_init

(* No processor starts on code that is not there, not patched or patched   *)
(* for another place, and none is on the page when x86_mp_init gives it    *)
(* back, for any number of processors: provided the start-up address is a  *)
(* page's and SMP_MAX_CPUS is the number of processors.                    *)
THEOREM PageOutlivesStart ==
  ASSUME Placed, Counted
  PROVE  Spec => []ApRunsPatchedPage
<1>1. Init => MpInv
  BY MpInvInit
<1>2. MpInv /\ [Next]_vars => MpInv'
  BY MpInvStep
<1>3. MpInv => ApRunsPatchedPage
  <2> SUFFICES ASSUME MpInv, NEW c \in APs
               PROVE  /\ ap[c] # "lost"
                      /\ ap[c] = "page" => Finds(vector, addr, page) /\ ~Returned
    BY DEF ApRunsPatchedPage
  <2>1. ap[c] # "lost"
    BY DEF MpInv
  <2>2. ASSUME ap[c] = "page" PROVE mp = "wait"
    BY <2>2 DEF MpInv, Sent
  <2> QED BY <2>1, <2>2, PatchedFinds DEF MpInv, Mapping, Patched, Returned
<1> QED BY <1>1, <1>2, <1>3, PTL DEF Spec

-----------------------------------------------------------------------------
(* The pages.                                                              *)
Mid  == {"uart", "uart_data", "remap", "remap_data", "module", "module_data", "bar0",
         "secinfo", "smc", "cse", "sysenter", "pagetable"}
Late == {"spi", "spi_data", "hooks", "run"}

MemInv ==
  /\ machine \in Machines
  /\ stage = "start" => arena.size = 0
  /\ stage \in {"early"} \cup Mid => /\ entry_phys = vaddr_to_paddr(sections.code_start)
                                     /\ pt = BootTable
  /\ stage \in Mid => mapping = InitialMapping(sections, entry_phys)
  /\ PagesProtected

(* The image ends within the window.                                       *)
ImageFits == \A m \in Machines : Sections(m.layout).end <= Region

(* The page an address is in.                                              *)
LEMMA DivIs ==
  ASSUME NEW a \in Nat
  PROVE  /\ a \div PageSize \in Nat
         /\ (a \div PageSize) * PageSize <= a /\ a < (a \div PageSize) * PageSize + PageSize
BY ImageAssumption, SMT

(* Pages in order are words in order.                                      *)
LEMMA InOrder ==
  ASSUME NEW j \in Int, NEW k \in Int
  PROVE  /\ j <= k => j * PageSize <= k * PageSize
         /\ j < k => j * PageSize + PageSize <= k * PageSize
         /\ j * PageSize < k * PageSize => j < k
         /\ j * PageSize \in Int
         /\ (j + 1) * PageSize = j * PageSize + PageSize
         /\ (j + k) * PageSize = j * PageSize + k * PageSize
         /\ (j - k) * PageSize = j * PageSize - k * PageSize
<1>0. PageSize \in Nat /\ PageSize >= 1
  BY ImageAssumption
<1>1. (j + 1) * PageSize = j * PageSize + PageSize /\ j * PageSize \in Int
  BY <1>0, SMT
<1>2. j <= k => j * PageSize <= k * PageSize
  BY <1>0, SMT
<1>3. j < k => j * PageSize + PageSize <= k * PageSize
  BY <1>0, SMT
<1>4. k <= j => k * PageSize <= j * PageSize
  BY <1>0, SMT
<1>5. (j + k) * PageSize = j * PageSize + k * PageSize
  BY <1>0, SMT
<1>6. (j - k) * PageSize = j * PageSize - k * PageSize
  BY <1>0, SMT
<1>7. k * PageSize \in Int
  BY <1>0, SMT
<1> QED BY <1>1, <1>2, <1>3, <1>4, <1>5, <1>6, <1>7

(* Words in order are pages in order.                                      *)
LEMMA Ordered ==
  ASSUME NEW j \in Int, NEW k \in Int, j * PageSize <= k * PageSize
  PROVE  j <= k
<1>1. j * PageSize < (k + 1) * PageSize
  BY InOrder, ImageAssumption
<1>2. j < k + 1
  BY <1>1, InOrder
<1> QED BY <1>2

(* The pages a number of words takes, rounded up.                          *)
Pages(a) == (a + PageSize - 1) \div PageSize

(* PAGE_ALIGN rounds up to a whole page, by less than one.                 *)
LEMMA AlignIs ==
  ASSUME NEW a \in Nat
  PROVE  /\ Pages(a) \in Nat /\ Pages(a) * PageSize \in Nat /\ PAGE_ALIGN(a) = Pages(a) * PageSize
         /\ a <= Pages(a) * PageSize /\ Pages(a) * PageSize < a + PageSize
<1>0. PageSize \in Nat /\ PageSize >= 1
  BY ImageAssumption
<1>1. a + PageSize - 1 \in Nat
  BY <1>0
<1>2. /\ Pages(a) \in Nat
      /\ Pages(a) * PageSize <= a + PageSize - 1
      /\ a + PageSize - 1 < Pages(a) * PageSize + PageSize
  BY <1>1, DivIs DEF Pages
<1>4. Pages(a) * PageSize \in Int
  BY <1>2, InOrder
<1>3. PAGE_ALIGN(a) = Pages(a) * PageSize
  BY DEF Pages, PAGE_ALIGN
<1> QED BY <1>0, <1>2, <1>3, <1>4

(* A whole number of pages is that number, however it is rounded.          *)
LEMMA WholeIs ==
  ASSUME NEW k \in Nat
  PROVE  (k * PageSize) \div PageSize = k /\ Pages(k * PageSize) = k
<1>0. PageSize \in Nat /\ PageSize >= 1 /\ k * PageSize \in Nat
  BY ImageAssumption, SMT
<1>1. (k * PageSize) \div PageSize = k
  <2> DEFINE q == (k * PageSize) \div PageSize
  <2>1. q \in Nat /\ q * PageSize <= k * PageSize /\ k * PageSize < q * PageSize + PageSize
    BY <1>0, DivIs
  <2> HIDE DEF q
  <2>2. q * PageSize < (k + 1) * PageSize /\ k * PageSize < (q + 1) * PageSize
    BY <1>0, <2>1, InOrder
  <2>3. q < k + 1 /\ k < q + 1
    BY <2>1, <2>2, InOrder
  <2> QED BY <2>1, <2>3 DEF q
<1>2. Pages(k * PageSize) = k
  <2> DEFINE q == Pages(k * PageSize)
  <2>1. q \in Nat /\ k * PageSize <= q * PageSize /\ q * PageSize < k * PageSize + PageSize
    BY <1>0, AlignIs
  <2> HIDE DEF q
  <2>2. q * PageSize < (k + 1) * PageSize /\ (k - 1) * PageSize < q * PageSize
    BY <1>0, <2>1, InOrder
  <2>3. q < k + 1 /\ k - 1 < q
    BY <2>1, <2>2, InOrder
  <2> QED BY <2>1, <2>3 DEF q
<1> QED BY <1>1, <1>2

(* The linker script's sections begin at pages, one behind the other.      *)
LEMMA SectionsInOrder ==
  ASSUME NEW sz \in Layouts
  PROVE  LET s == Sections(sz)
         IN /\ s.code_start = PageSize /\ s.code_end \in Nat /\ s.bss_end \in Nat
            /\ s.end = Pages(s.bss_end) * PageSize
            /\ \E r, d, b \in Nat :
                 /\ 1 <= r /\ r <= d /\ d <= b /\ b <= Pages(s.bss_end)
                 /\ s.code_end <= r * PageSize /\ s.code_end >= PageSize
                 /\ s.rodata_start = r * PageSize /\ s.rodata_end = d * PageSize
                 /\ s.data_start = d * PageSize /\ s.data_end = b * PageSize
                 /\ s.bss_start = b * PageSize /\ b * PageSize <= s.bss_end
<1> DEFINE s == Sections(sz)
           r == Pages(s.code_end + sz.rela)
           d == Pages(r * PageSize + sz.rodata)
           k == Pages(d * PageSize + sz.data)
           b == Pages(k * PageSize + sz.ctors)
           e == Pages(s.bss_end)
<1>0. /\ sz.text \in Nat /\ sz.rela \in Nat /\ sz.rodata \in Nat /\ sz.data \in Nat
      /\ sz.ctors \in Nat /\ sz.bss \in Nat /\ PageSize \in Nat /\ PageSize >= 1
  BY ImageAssumption DEF Layouts
<1>1. s.code_start = PageSize /\ s.code_end = PageSize + sz.text
  BY DEF Sections
<1>2. /\ s.rodata_start = PAGE_ALIGN(s.code_end + sz.rela)
      /\ s.rodata_end = s.data_start /\ s.data_start = PAGE_ALIGN(s.rodata_start + sz.rodata)
      /\ s.data_end = s.bss_start
      /\ s.bss_start = PAGE_ALIGN(PAGE_ALIGN(s.data_start + sz.data) + sz.ctors)
      /\ s.bss_end = s.bss_start + sz.bss /\ s.end = PAGE_ALIGN(s.bss_end)
  BY DEF Sections
<1> HIDE DEF s
<1>3. /\ r \in Nat /\ s.rodata_start = r * PageSize
      /\ s.code_end + sz.rela <= r * PageSize /\ r * PageSize \in Nat
  <2>1. s.code_end + sz.rela \in Nat
    BY <1>0, <1>1
  <2>2. r \in Nat /\ r * PageSize \in Int
    BY <2>1, AlignIs
  <2> QED BY <1>2, <2>1, <2>2, AlignIs
<1>4. r >= 1
  BY <1>0, <1>1, <1>3, InOrder
<1> HIDE DEF r
<1>5. /\ d \in Nat /\ s.data_start = d * PageSize
      /\ r * PageSize <= d * PageSize /\ d * PageSize \in Nat
  <2>1. r * PageSize + sz.rodata \in Nat
    BY <1>0, <1>3
  <2>2. d \in Nat /\ d * PageSize \in Int
    BY <2>1, AlignIs
  <2>3. s.data_start = d * PageSize /\ r * PageSize + sz.rodata <= d * PageSize
    BY <1>2, <1>3, <2>1, AlignIs
  <2> QED BY <1>0, <1>3, <2>2, <2>3
<1> HIDE DEF d
<1>6. /\ k \in Nat /\ PAGE_ALIGN(s.data_start + sz.data) = k * PageSize
      /\ d * PageSize <= k * PageSize /\ k * PageSize \in Nat
  <2>1. d * PageSize + sz.data \in Nat
    BY <1>0, <1>5
  <2>2. k \in Nat /\ k * PageSize \in Int
    BY <2>1, AlignIs
  <2>3. PAGE_ALIGN(s.data_start + sz.data) = k * PageSize /\ d * PageSize + sz.data <= k * PageSize
    BY <1>5, <2>1, AlignIs
  <2> QED BY <1>0, <1>5, <2>2, <2>3
<1> HIDE DEF k
<1>7. /\ b \in Nat /\ s.bss_start = b * PageSize
      /\ d * PageSize <= b * PageSize /\ b * PageSize \in Nat
  <2>1. k * PageSize + sz.ctors \in Nat
    BY <1>0, <1>6
  <2>2. b \in Nat /\ b * PageSize \in Int
    BY <2>1, AlignIs
  <2>3. s.bss_start = b * PageSize /\ k * PageSize + sz.ctors <= b * PageSize
    BY <1>2, <1>6, <2>1, AlignIs
  <2> QED BY <1>0, <1>5, <1>6, <2>2, <2>3
<1> HIDE DEF b
<1>8. /\ s.bss_end \in Nat /\ b * PageSize <= s.bss_end
  BY <1>0, <1>2, <1>7
<1>9. e \in Nat /\ s.end = e * PageSize /\ s.bss_end <= e * PageSize
  BY <1>2, <1>8, AlignIs
<1>10. r <= d /\ d <= b
  BY <1>3, <1>5, <1>7, Ordered
<1>11. b <= e
  <2>1. b * PageSize <= e * PageSize
    <3>1. e * PageSize \in Int
      BY <1>9, InOrder
    <3> QED BY <1>7, <1>8, <1>9, <3>1
  <2> QED BY <1>7, <1>9, <2>1, Ordered
<1> HIDE DEF e
<1>12. s.code_end \in Nat /\ s.code_end <= r * PageSize /\ s.code_end >= PageSize
  BY <1>0, <1>1, <1>3
<1> QED BY <1>1, <1>2, <1>3, <1>4, <1>5, <1>7, <1>8, <1>9, <1>10, <1>11, <1>12 DEF e, s

Entry(p, w, x) == [phys |-> LoadPage + p, write |-> w, exec |-> x]

(* What a mapping from page f to the address to does to a page: those      *)
(* wholly in the range have what is asked for, those out of it what they   *)
(* had, and one it ends in either.                                         *)
Whole(t, u, f, to, w, x) ==
  /\ DOMAIN u = 0 .. RegionPages
  /\ \A p \in 0 .. RegionPages :
       /\ u[p] = t[p] \/ u[p] = Entry(p, w, x)
       /\ (p < f \/ to <= p * PageSize) => u[p] = t[p]
       /\ (f <= p /\ (p + 1) * PageSize <= to) => u[p] = Entry(p, w, x)

(* What one call of MapRange writes: every page it covers, no other.       *)
LEMMA MapRangeIs ==
  ASSUME NEW t, DOMAIN t = 0 .. RegionPages, NEW f \in Nat, NEW to \in Nat, f * PageSize <= to,
         NEW w, NEW x, NEW up \in BOOLEAN, NEW u,
         u = MapRange(t, f * PageSize, vaddr_to_paddr(f * PageSize), to - f * PageSize, w, x, up)
  PROVE  Whole(t, u, f, to, w, x)
<1> DEFINE size == to - f * PageSize
           n == IF up THEN PAGE_ALIGN(size) \div PageSize ELSE size \div PageSize
<1>0. /\ PageSize \in Nat /\ PageSize >= 1 /\ LoadPage \in Nat /\ RegionPages \in Nat
      /\ f * PageSize \in Int
  BY ImageAssumption, InOrder
<1>1. size \in Nat /\ to = size + f * PageSize
  BY <1>0
<1>2. (f * PageSize) \div PageSize = f
  BY WholeIs
<1>3. vaddr_to_paddr(f * PageSize) \div PageSize = LoadPage + f
  <2>1. vaddr_to_paddr(f * PageSize) = (LoadPage + f) * PageSize /\ LoadPage + f \in Nat
    BY <1>0, InOrder DEF vaddr_to_paddr
  <2> QED BY <2>1, WholeIs
<1>4. n \in Nat /\ size < n * PageSize + PageSize /\ n * PageSize < size + PageSize
  <2>1. CASE up
    <3>1. Pages(size) \in Nat
      BY <1>1, AlignIs
    <3>2. n = Pages(size)
      BY <1>1, <2>1, <3>1, AlignIs, WholeIs
    <3> HIDE DEF n
    <3>3. n * PageSize \in Int
      BY <3>1, <3>2, InOrder
    <3>4. size <= n * PageSize /\ n * PageSize < size + PageSize
      BY <1>1, <3>2, AlignIs
    <3> QED BY <1>0, <1>1, <3>1, <3>2, <3>3, <3>4
  <2>2. CASE ~up
    <3>1. n = size \div PageSize
      BY <2>2
    <3>2. n \in Nat /\ n * PageSize <= size /\ size < n * PageSize + PageSize
      BY <1>1, <3>1, DivIs
    <3> HIDE DEF n
    <3>3. n * PageSize \in Int
      BY <3>2, InOrder
    <3> QED BY <1>0, <1>1, <3>2, <3>3
  <2> QED BY <2>1, <2>2
<1>5. DOMAIN u = 0 .. RegionPages
  BY DEF MapRange
<1>6. \A p \in 0 .. RegionPages : u[p] = IF p \in f .. f + n - 1 THEN Entry(p, w, x) ELSE t[p]
  <2>1. \A p \in 0 .. RegionPages :
          u[p] = IF p \in f .. f + n - 1
                 THEN [phys |-> LoadPage + f + p - f, write |-> w, exec |-> x] ELSE t[p]
    BY <1>2, <1>3 DEF MapRange
  <2>2. \A p \in 0 .. RegionPages : LoadPage + f + p - f = LoadPage + p
    BY <1>0
  <2> HIDE DEF n
  <2> QED BY <2>1, <2>2 DEF Entry
<1> HIDE DEF n, size
<1>7. ASSUME NEW p \in 0 .. RegionPages
      PROVE  /\ u[p] = t[p] \/ u[p] = Entry(p, w, x)
             /\ (p < f \/ to <= p * PageSize) => u[p] = t[p]
             /\ (f <= p /\ (p + 1) * PageSize <= to) => u[p] = Entry(p, w, x)
  <2>0. p \in Nat /\ p * PageSize \in Int /\ n * PageSize \in Int /\ (p - f) * PageSize \in Int
        /\ (p - f) * PageSize = p * PageSize - f * PageSize
        /\ (p + 1) * PageSize = p * PageSize + PageSize
    BY <1>0, <1>4, InOrder
  <2>1. ASSUME to <= p * PageSize PROVE p \notin f .. f + n - 1
    <3>1. size <= (p - f) * PageSize
      BY <1>0, <1>1, <2>0, <2>1
    <3>2. (n - 1) * PageSize < size
      BY <1>0, <1>1, <1>4, <2>0, InOrder
    <3>3. (n - 1) * PageSize < (p - f) * PageSize
      <4>1. (n - 1) * PageSize \in Int
        BY <1>4, InOrder
      <4> QED BY <1>1, <2>0, <3>1, <3>2, <4>1
    <3>4. n - 1 < p - f
      BY <1>4, <2>0, <3>3, InOrder
    <3> QED BY <1>4, <2>0, <3>4
  <2>2. ASSUME f <= p, (p + 1) * PageSize <= to PROVE p \in f .. f + n - 1
    <3>1. (p - f) * PageSize + PageSize <= size
      BY <1>0, <1>1, <2>0, <2>2
    <3>2. (p - f) * PageSize < n * PageSize
      BY <1>0, <1>1, <1>4, <2>0, <3>1
    <3>3. p - f < n
      BY <1>4, <2>0, <3>2, InOrder
    <3> QED BY <1>4, <2>0, <2>2, <3>3
  <2>3. ASSUME p < f PROVE p \notin f .. f + n - 1
    BY <2>0, <2>3
  <2> QED BY <1>6, <2>1, <2>2, <2>3
<1> QED BY <1>5, <1>7 DEF size, Whole

(* Every section has its permissions when platform_update_pagetable is     *)
(* done with the table of start.S, and no address has moved.               *)
LEMMA UpdateProtects ==
  ASSUME NEW sz \in Layouts, NEW up \in BOOLEAN, Sections(sz).end <= Region
  PROVE  LET s == Sections(sz)
             m == InitialMapping(s, vaddr_to_paddr(s.code_start))
         IN SectionsMapped(UpdatePagetable(BootTable, s, m, up), s)
<1> DEFINE s == Sections(sz)
           m == InitialMapping(s, vaddr_to_paddr(s.code_start))
           e == Pages(s.bss_end)
<1>0. /\ PageSize \in Nat /\ PageSize >= 1 /\ LoadPage \in Nat /\ RegionPages \in Nat
      /\ RegionPages >= 1
  BY ImageAssumption
<1>1. /\ s.code_start = PageSize /\ s.code_end \in Nat /\ s.bss_end \in Nat
      /\ s.end = e * PageSize
  BY SectionsInOrder
<1>2. PICK r \in Nat, d \in Nat, b \in Nat :
        /\ 1 <= r /\ r <= d /\ d <= b /\ b <= e
        /\ s.code_end <= r * PageSize /\ s.code_end >= PageSize
        /\ s.rodata_start = r * PageSize /\ s.rodata_end = d * PageSize
        /\ s.data_start = d * PageSize /\ s.data_end = b * PageSize
        /\ s.bss_start = b * PageSize /\ b * PageSize <= s.bss_end
  BY SectionsInOrder
<1>3. s.end <= Region
  OBVIOUS
<1> HIDE DEF s
<1>4. /\ e \in Nat /\ s.bss_end <= e * PageSize /\ e * PageSize \in Nat
      /\ e * PageSize < s.bss_end + PageSize
  BY <1>1, AlignIs
<1> HIDE DEF e
<1>5. /\ r * PageSize \in Int /\ d * PageSize \in Int /\ b * PageSize \in Int
      /\ r * PageSize <= d * PageSize /\ d * PageSize <= b * PageSize
      /\ b * PageSize <= e * PageSize
  BY <1>2, <1>4, InOrder
<1>6. e <= RegionPages
  <2>1. e * PageSize <= RegionPages * PageSize
    BY <1>1, <1>3 DEF Region
  <2> QED BY <1>0, <1>4, <2>1, Ordered
<1> DEFINE Map(u, from, to, w, x) == MapRange(u, from, vaddr_to_paddr(from), to - from, w, x, up)
           code   == Map(BootTable, 1 * PageSize, s.code_end, FALSE, TRUE)
           data   == Map(code, d * PageSize, b * PageSize, TRUE, FALSE)
           rodata == Map(data, r * PageSize, d * PageSize, FALSE, FALSE)
           bss    == Map(rodata, b * PageSize, s.bss_end, TRUE, FALSE)
           all    == Map(bss, e * PageSize, (RegionPages + 1) * PageSize, TRUE, FALSE)
<1>7. UpdatePagetable(BootTable, s, m, up) = all
  <2>1. 1 * PageSize = PageSize
    BY <1>0
  <2>2. PAGE_ALIGN(s.end) = e * PageSize
    BY <1>1, <1>4, AlignIs, WholeIs
  <2>3. m.phys + m.size - vaddr_to_paddr(e * PageSize) = (RegionPages + 1) * PageSize - e * PageSize
    <3>1. m.phys = LoadPage * PageSize + PageSize /\ m.size = RegionPages * PageSize
      BY <1>1 DEF InitialMapping, vaddr_to_paddr, Region
    <3>2. /\ LoadPage * PageSize \in Int /\ RegionPages * PageSize \in Int
          /\ (RegionPages + 1) * PageSize = RegionPages * PageSize + PageSize
      BY <1>0, InOrder
    <3> HIDE DEF m
    <3> QED BY <1>0, <1>4, <3>1, <3>2 DEF vaddr_to_paddr
  <2> HIDE DEF m
  <2> QED BY <1>1, <1>2, <2>1, <2>2, <2>3 DEF UpdatePagetable
<1> DEFINE boot == BootTable
<1>8. /\ DOMAIN boot = 0 .. RegionPages
      /\ \A p \in 0 .. RegionPages : p < RegionPages => boot[p] = Entry(p, TRUE, TRUE)
  BY <1>0 DEF BootTable, Entry
<1>9. ASSUME NEW t, DOMAIN t = 0 .. RegionPages, NEW f \in Nat, NEW to \in Nat,
             f * PageSize <= to, NEW w, NEW x
      PROVE  Whole(t, Map(t, f * PageSize, to, w, x), f, to, w, x)
  <2> DEFINE u == Map(t, f * PageSize, to, w, x)
  <2>1. u = MapRange(t, f * PageSize, vaddr_to_paddr(f * PageSize), to - f * PageSize, w, x, up)
    OBVIOUS
  <2> HIDE DEF u
  <2>2. Whole(t, u, f, to, w, x)
    BY <1>9, <2>1, MapRangeIs
  <2> QED BY <2>2 DEF u
<1> HIDE DEF Map
<1>10. Whole(boot, code, 1, s.code_end, FALSE, TRUE)
  <2>1. 1 * PageSize <= s.code_end
    BY <1>0, <1>2
  <2> QED BY <1>1, <1>8, <1>9, <2>1
<1> HIDE DEF code
<1>11. Whole(code, data, d, b * PageSize, TRUE, FALSE)
  <2>1. b * PageSize \in Nat
    BY <1>0, <1>5, InOrder
  <2>2. DOMAIN code = 0 .. RegionPages
    BY <1>10 DEF Whole
  <2> QED BY <1>5, <1>9, <2>1, <2>2
<1> HIDE DEF data
<1>12. Whole(data, rodata, r, d * PageSize, FALSE, FALSE)
  <2>1. d * PageSize \in Nat
    BY <1>0, <1>5, InOrder
  <2>2. DOMAIN data = 0 .. RegionPages
    BY <1>11 DEF Whole
  <2> QED BY <1>5, <1>9, <2>1, <2>2
<1> HIDE DEF rodata
<1>13. Whole(rodata, bss, b, s.bss_end, TRUE, FALSE)
  <2>1. DOMAIN rodata = 0 .. RegionPages
    BY <1>12 DEF Whole
  <2> QED BY <1>1, <1>2, <1>9, <2>1
<1> HIDE DEF bss
<1>14. Whole(bss, all, e, (RegionPages + 1) * PageSize, TRUE, FALSE)
  <2>1. (RegionPages + 1) * PageSize \in Nat /\ e * PageSize <= (RegionPages + 1) * PageSize
    <3>1. RegionPages + 1 \in Int /\ e <= RegionPages + 1
      BY <1>0, <1>4, <1>6
    <3>2. (RegionPages + 1) * PageSize \in Int
      BY <3>1, InOrder
    <3>3. e * PageSize <= (RegionPages + 1) * PageSize
      BY <3>1, <1>4, InOrder
    <3> QED BY <1>4, <3>2, <3>3
  <2>2. DOMAIN bss = 0 .. RegionPages
    BY <1>13 DEF Whole
  <2> QED BY <1>4, <1>9, <2>1, <2>2
<1> HIDE DEF all
(* Page by page: which of the five ranges it is in.                        *)
<1>15. ASSUME NEW p \in 0 .. RegionPages
       PROVE  /\ p \in Nat /\ p <= RegionPages /\ p * PageSize \in Int
              /\ (p + 1) * PageSize = p * PageSize + PageSize
              /\ \A k \in Nat : /\ p < k => (p + 1) * PageSize <= k * PageSize
                                /\ k <= p => k * PageSize <= p * PageSize
  BY <1>0, InOrder
<1>16. ASSUME NEW p \in 0 .. RegionPages PROVE all[p].phys = LoadPage + p \/ p = RegionPages
  <2>1. p < RegionPages => boot[p] = Entry(p, TRUE, TRUE)
    BY <1>8
  <2> HIDE DEF boot
  <2>2. \/ all[p] = boot[p] \/ \E w \in BOOLEAN, x \in BOOLEAN : all[p] = Entry(p, w, x)
    BY <1>10, <1>11, <1>12, <1>13, <1>14 DEF Whole
  <2>3. \A w \in BOOLEAN, x \in BOOLEAN : Entry(p, w, x).phys = LoadPage + p
    BY DEF Entry
  <2>5. all[p].phys = LoadPage + p \/ all[p] = boot[p]
    BY <2>2, <2>3
  <2>6. p < RegionPages \/ p = RegionPages
    BY <1>0
  <2>7. CASE boot[p] = Entry(p, TRUE, TRUE)
    <3>1. boot[p].phys = LoadPage + p
      BY <2>3, <2>7
    <3> QED BY <2>5, <3>1
  <2> QED BY <2>1, <2>6, <2>7
<1>17. ASSUME NEW p \in PagesWithin(s.code_start, s.code_end)
       PROVE  ~all[p].write /\ all[p].exec
  <2>1. p \in 0 .. RegionPages /\ PageSize <= p * PageSize /\ (p + 1) * PageSize <= s.code_end
    BY <1>1 DEF PagesWithin
  <2>2. 1 <= p
    BY <1>0, <1>15, <2>1
  <2>3. p < r
    <3>1. (p + 1) * PageSize <= r * PageSize
      BY <1>0, <1>1, <1>2, <1>5, <1>15, <2>1
    <3> QED BY <1>15, <2>1, <3>1, Ordered
  <2>4. code[p] = Entry(p, FALSE, TRUE)
    BY <1>10, <2>1, <2>2 DEF Whole
  <2>5. all[p] = code[p]
    <3>1. p < d /\ p < b /\ p < e
      BY <1>2, <1>4, <1>15, <2>1, <2>3
    <3> QED BY <1>11, <1>12, <1>13, <1>14, <2>1, <2>3, <3>1 DEF Whole
  <2> QED BY <2>4, <2>5 DEF Entry
<1>18. ASSUME NEW p \in PagesWithin(s.rodata_start, s.rodata_end)
       PROVE  ~all[p].write /\ ~all[p].exec
  <2>1. p \in 0 .. RegionPages /\ r * PageSize <= p * PageSize /\ (p + 1) * PageSize <= d * PageSize
    BY <1>2 DEF PagesWithin
  <2>2. r <= p /\ p < d
    <3>1. r <= p
      BY <1>15, <2>1, Ordered
    <3>2. p + 1 <= d
      BY <1>15, <2>1, Ordered
    <3> QED BY <1>15, <2>1, <3>1, <3>2
  <2>3. rodata[p] = Entry(p, FALSE, FALSE)
    BY <1>12, <2>1, <2>2 DEF Whole
  <2>4. all[p] = rodata[p]
    <3>1. p < b /\ p < e
      BY <1>2, <1>4, <1>15, <2>1, <2>2
    <3> QED BY <1>13, <1>14, <2>1, <3>1 DEF Whole
  <2> QED BY <2>3, <2>4 DEF Entry
<1>19. ASSUME NEW p \in PagesOf(s.data_start, s.data_end) PROVE all[p].write /\ ~all[p].exec
  <2>1. p \in 0 .. RegionPages /\ d * PageSize < (p + 1) * PageSize /\ p * PageSize < b * PageSize
    BY <1>2 DEF PagesOf
  <2>2. d <= p /\ p < b
    <3>1. d < p + 1
      BY <1>15, <2>1, InOrder
    <3>2. p < b
      BY <1>15, <2>1, InOrder
    <3> QED BY <1>15, <2>1, <3>1, <3>2
  <2>3. data[p] = Entry(p, TRUE, FALSE)
    BY <1>11, <1>15, <2>1, <2>2 DEF Whole
  <2>4. all[p] = data[p]
    <3>1. p < e /\ d * PageSize <= p * PageSize
      BY <1>2, <1>4, <1>15, <2>1, <2>2
    <3> QED BY <1>12, <1>13, <1>14, <2>1, <2>2, <3>1 DEF Whole
  <2> QED BY <2>3, <2>4 DEF Entry
<1>20. ASSUME NEW p \in PagesOf(s.bss_start, s.bss_end)
       PROVE  /\ all[p].write
              /\ p \in PagesWithin(s.bss_start, s.bss_end) => ~all[p].exec
  <2>1. p \in 0 .. RegionPages /\ b * PageSize < (p + 1) * PageSize /\ p * PageSize < s.bss_end
    BY <1>2 DEF PagesOf
  <2>2. b <= p /\ p < e
    <3>1. b < p + 1
      BY <1>15, <2>1, InOrder
    <3>2. p * PageSize < e * PageSize
      BY <1>1, <1>4, <1>15, <2>1
    <3>3. p < e
      BY <1>4, <1>15, <2>1, <3>2, InOrder
    <3> QED BY <1>15, <2>1, <3>1, <3>3
  <2>3. bss[p] = rodata[p] \/ bss[p] = Entry(p, TRUE, FALSE)
    BY <1>13, <2>1 DEF Whole
  <2>4. rodata[p] = boot[p] /\ boot[p] = Entry(p, TRUE, TRUE)
    <3>6. /\ p < RegionPages /\ d * PageSize <= p * PageSize
          /\ r * PageSize <= p * PageSize
      <4>1. p < RegionPages /\ d <= p /\ r <= p
        BY <1>0, <1>2, <1>4, <1>6, <1>15, <2>1, <2>2
      <4> QED BY <1>15, <2>1, <4>1
    <3>1. p < RegionPages /\ s.code_end <= p * PageSize
      BY <1>1, <1>2, <1>5, <1>15, <2>1, <3>6
    <3>2. rodata[p] = data[p]
      BY <1>12, <2>1, <3>6 DEF Whole
    <3>3. data[p] = code[p]
      BY <1>11, <1>15, <2>1, <2>2 DEF Whole
    <3>4. code[p] = boot[p]
      BY <1>10, <2>1, <3>1 DEF Whole
    <3>5. boot[p] = Entry(p, TRUE, TRUE)
      BY <1>8, <2>1, <3>1
    <3> HIDE DEF boot
    <3> QED BY <3>2, <3>3, <3>4, <3>5
  <2>5. all[p] = bss[p]
    BY <1>14, <2>1, <2>2 DEF Whole
  <2>6. p \in PagesWithin(s.bss_start, s.bss_end) => bss[p] = Entry(p, TRUE, FALSE)
    BY <1>13, <2>1, <2>2 DEF PagesWithin, Whole
  <2> HIDE DEF boot
  <2> QED BY <2>3, <2>4, <2>5, <2>6 DEF Entry
<1>21. ASSUME NEW p \in PagesWithin(s.end, Region) PROVE all[p].write /\ ~all[p].exec
  <2>1. p \in 0 .. RegionPages /\ e * PageSize <= p * PageSize
    BY <1>1 DEF PagesWithin
  <2>2. e <= p
    BY <1>4, <1>15, <2>1, Ordered
  <2>3. (p + 1) * PageSize <= (RegionPages + 1) * PageSize
    BY <1>0, <1>15, <2>1
  <2>4. all[p] = Entry(p, TRUE, FALSE)
    BY <1>14, <2>1, <2>2, <2>3 DEF Whole
  <2> QED BY <2>4 DEF Entry
<1>22. PagesWithin(s.data_start, s.data_end) \subseteq PagesOf(s.data_start, s.data_end)
       /\ PagesWithin(s.bss_start, s.bss_end) \subseteq PagesOf(s.bss_start, s.bss_end)
  <2>1. ASSUME NEW p \in 0 .. RegionPages, NEW from \in Int, NEW to \in Int,
               from <= p * PageSize, (p + 1) * PageSize <= to
        PROVE  from < (p + 1) * PageSize /\ p * PageSize < to
    BY <1>0, <1>15, <2>1
  <2> QED BY <1>1, <1>2, <1>5, <2>1 DEF PagesWithin, PagesOf
<1>23. SectionsMapped(all, s)
  <2>1. \A p \in 0 .. RegionPages - 1 : all[p].phys = LoadPage + p
    BY <1>0, <1>16
  <2> QED BY <1>17, <1>18, <1>19, <1>20, <1>21, <1>22, <2>1 DEF SectionsMapped
<1> QED BY <1>7, <1>23 DEF s, m

(* The heap begins behind the image.                                       *)
LEMMA HeapBehind ==
  ASSUME NEW sz \in Layouts
  PROVE  LET s == Sections(sz)
         IN HeapClear(s, HeapArena(s, InitialMapping(s, vaddr_to_paddr(s.code_start))))
<1> DEFINE s == Sections(sz)
           m == InitialMapping(s, vaddr_to_paddr(s.code_start))
           e == Pages(s.bss_end)
<1>1. /\ s.code_start = PageSize /\ s.bss_end \in Nat /\ s.end = e * PageSize
  BY SectionsInOrder
<1> HIDE DEF s
<1>2. m.phys = LoadPage * PageSize + PageSize /\ m.virt = PageSize
  BY <1>1 DEF InitialMapping, vaddr_to_paddr
<1> HIDE DEF m
<1>3. /\ LoadPage \in Nat /\ PageSize \in Nat /\ PageSize >= 1 /\ LoadPage * PageSize \in Nat
  <2>1. LoadPage \in Nat /\ PageSize \in Nat /\ PageSize >= 1
    BY ImageAssumption
  <2> QED BY <2>1, SMT
<1> DEFINE a == m.phys + (s.bss_end - m.virt)
           h == Pages(a)
<1>4. a = LoadPage * PageSize + s.bss_end
  BY <1>1, <1>2, <1>3
<1> HIDE DEF a
<1>5. a \in Nat
  BY <1>1, <1>3, <1>4
<1>6. h \in Nat /\ PAGE_ALIGN(a) = h * PageSize /\ a <= h * PageSize /\ h * PageSize \in Nat
  BY <1>5, AlignIs
<1>7. e \in Nat /\ e * PageSize < s.bss_end + PageSize /\ e * PageSize \in Nat
  BY <1>1, AlignIs
<1> HIDE DEF h, e
<1>8. h >= LoadPage + e
  <2>1. (h - LoadPage) * PageSize = h * PageSize - LoadPage * PageSize
        /\ (e - 1) * PageSize = e * PageSize - PageSize
    BY <1>3, <1>6, <1>7, InOrder
  <2>2. (e - 1) * PageSize < (h - LoadPage) * PageSize
    BY <1>1, <1>3, <1>4, <1>6, <1>7, <2>1
  <2>3. e - 1 < h - LoadPage
    BY <1>3, <1>6, <1>7, <2>2, InOrder
  <2> QED BY <1>3, <1>6, <1>7, <2>3
<1>9. h * PageSize >= vaddr_to_paddr(s.end)
  <2>1. (LoadPage + e) * PageSize <= h * PageSize
    BY <1>3, <1>6, <1>7, <1>8, InOrder
  <2>2. (LoadPage + e) * PageSize = LoadPage * PageSize + e * PageSize
    BY <1>3, <1>7, InOrder
  <2> QED BY <1>1, <1>3, <1>6, <1>7, <2>1, <2>2 DEF vaddr_to_paddr
<1>10. HeapArena(s, m).base = PAGE_ALIGN(a)
  BY DEF HeapArena, a
<1> QED BY <1>6, <1>9, <1>10 DEF HeapClear, s, m

LEMMA MemInit == Init => MemInv
<1> SUFFICES ASSUME Init PROVE MemInv
  OBVIOUS
<1>1. machine \in Machines /\ stage = "start" /\ arena.size = 0
  BY DEF Init
<1> QED BY <1>1 DEF MemInv, Mid, PagesProtected

(* Three steps of the boot touch the memory; the others go from one stage  *)
(* to the next, or stay.                                                   *)
Elsewhere ==
  /\ UNCHANGED <<machine, memVars>>
  /\ \/ stage' = stage
     \/ stage \in Mid /\ stage' \in Mid \cup {"panic"}
     \/ stage \in Late /\ stage' \in Late

LEMMA MemSteps == [Next]_vars => start \/ HeapInit \/ platform_update_pagetable \/ Elsewhere
<1> SUFFICES ASSUME [Next]_vars PROVE start \/ HeapInit \/ platform_update_pagetable \/ Elsewhere
  OBVIOUS
<1> USE DEF Reach, bootVars, Mid, Late, Elsewhere
<1>1. CASE \/ InitUartAddress \/ init_uart \/ RemapAddress \/ uart_remap
  BY <1>1 DEF InitUartAddress, init_uart, RemapAddress, uart_remap
<1>2. CASE \/ ModuleAccess \/ ModuleData \/ NoModule
  BY <1>2 DEF ModuleAccess, ModuleData, NoModule
<1>3. CASE ModuleReadsBar
  BY <1>3 DEF ModuleReadsBar
<1>4. CASE \/ prepare_secinfo_region \/ smc_init \/ cse_init \/ SysenterCheck
  BY <1>4 DEF prepare_secinfo_region, smc_init, cse_init, SysenterCheck
<1>5. CASE \/ SpiAddress \/ spi_mmu_init \/ smc_x86_init
  BY <1>5 DEF SpiAddress, spi_mmu_init, smc_x86_init
<1>6. CASE \/ Mp \/ ReadFuse \/ FuseRead \/ WildAccess \/ BeginExchange \/ Exchange
           \/ lpss_spi_access \/ NonSecure
  BY <1>6 DEF Mp, ReadFuse, FuseRead, WildAccess, BeginExchange, Exchange, lpss_spi_access, NonSecure
<1>7. CASE UNCHANGED vars
  BY <1>7 DEF vars
<1> QED BY <1>1, <1>2, <1>3, <1>4, <1>5, <1>6, <1>7 DEF Next, Boot

(* Every step keeps what the boot has said of the memory so far.           *)
LEMMA MemStep ==
  ASSUME ImageFits, MemInv, [Next]_vars
  PROVE  MemInv'
<1>0. machine \in Machines /\ machine.layout \in Layouts /\ machine.roundUp \in BOOLEAN
  BY PlatformAssumption DEF MemInv, Machine
<1>1. CASE start
  <2>1. /\ stage = "start" /\ stage' \in {"early", "halted"} /\ machine' = machine
        /\ arena' = arena /\ pt' = BootTable
        /\ entry_phys' = vaddr_to_paddr(sections.code_start)
    BY <1>1 DEF start, Reach
  <2>2. sections' = sections
    BY <2>1 DEF sections
  <2> QED BY <2>1, <2>2 DEF MemInv, PagesProtected, Mid
<1>2. CASE HeapInit
  <2>1. /\ stage = "early" /\ stage' = "uart" /\ machine' = machine
        /\ entry_phys' = entry_phys /\ pt' = pt
        /\ mapping' = InitialMapping(sections, entry_phys)
        /\ arena' = HeapArena(sections, mapping')
    BY <1>2 DEF HeapInit, Reach
  <2>2. sections' = sections
    BY <2>1 DEF sections
  <2>3. entry_phys = vaddr_to_paddr(sections.code_start) /\ pt = BootTable
    BY <2>1 DEF MemInv
  <2>4. HeapClear(sections, arena')
    BY <1>0, <2>1, <2>3, HeapBehind DEF sections
  <2> QED BY <2>1, <2>2, <2>3, <2>4 DEF MemInv, PagesProtected, Mid
<1>3. CASE platform_update_pagetable
  <2>1. /\ stage = "pagetable" /\ stage' = "spi" /\ UNCHANGED <<machine, entry_phys, mapping, arena>>
        /\ pt' = UpdatePagetable(pt, sections, mapping, machine.roundUp)
    BY <1>3 DEF platform_update_pagetable, Reach
  <2>2. sections' = sections
    BY <2>1 DEF sections
  <2>3. /\ mapping = InitialMapping(sections, vaddr_to_paddr(sections.code_start))
        /\ pt = BootTable
    BY <2>1 DEF MemInv, Mid
  <2>4. SectionsMapped(pt', sections)
    BY <1>0, <2>1, <2>3, UpdateProtects DEF ImageFits, sections
  <2> QED BY <2>1, <2>2, <2>4 DEF MemInv, PagesProtected, Mid
<1>4. CASE Elsewhere
  <2>1. sections' = sections
    BY <1>4 DEF Elsewhere, sections
  <2> QED BY <1>4, <2>1 DEF Elsewhere, memVars, MemInv, PagesProtected, Mid, Late
<1> QED BY <1>1, <1>2, <1>3, <1>4, MemSteps

(* From the update on, the whole pages of .text and of .rodata are not     *)
(* writable, every page with a part of .data or .bss is, the whole pages   *)
(* of .rodata, .data, .bss and the heap are not executable, and the heap   *)
(* is behind the image, for every image the linker script lays out that    *)
(* fits the window start.S maps.  Of the last page of .text or .rodata, when the section fills it  *)
(* in part, nothing is said: rounded down, a range leaves it as the one    *)
(* before has it, writable.                                                *)
THEOREM ImageProtected == ASSUME ImageFits PROVE Spec => []PagesProtected
<1>1. MemInv => PagesProtected
  BY DEF MemInv
<1> QED BY <1>1, MemInit, MemStep, PTL DEF Spec

-----------------------------------------------------------------------------
(* The registers.  What firmware leaves in BAR 0 is what a device that     *)
(* decodes 4 KB keeps, and the drivers' devices are below 4 GB.            *)
Kept4K(d) == d[1] < 16 /\ d[2] % 16 = 0
DriversOf == {UART, SPI, HECI}
Placed4G == \A m \in Machines, f \in DriversOf :
  /\ Kept4K(m.bars[f])
  /\ Is64(m.bars[f]) => \A i \in 5 .. 8 : m.bars[f][i] = 0

Low(f)  == space[f][PCI_CONFIG_BAR_OFFSET]
High(f) == space[f][PCI_CONFIG_BAR_OFFSET + 4]

SpaceInv ==
  /\ DOMAIN space = Devices /\ \A f \in Devices : DOMAIN space[f] = Registers
  /\ \A f \in DriversOf :
       /\ \A r \in Registers : space[f][r] \in Dword
       /\ Kept4K(Low(f)) /\ (Is64(Low(f)) => High(f) = Zeros)

Before(f, r) == [fn |-> f, reg |-> r]
PreModule == {"start", "early", "uart", "uart_data", "remap", "remap_data", "module"}

(* Until the boot is over nobody else is there.                            *)
PortsInv ==
  /\ DOMAIN access = Users /\ cf8 = Before(cf8.fn, cf8.reg)
  /\ stage # "run" => /\ access["ns"] = NoAccess /\ access["keymaster"] = NoAccess
                      /\ moved = {} /\ probe.at = "idle"
  /\ access["ns"] # NoAccess =>
       /\ access["ns"].lane = 0 /\ access["ns"].width = 4 /\ access["ns"].out = MovedBar
       /\ cf8.fn \in DriversOf /\ cf8.reg \in {PCI_CONFIG_BAR_OFFSET, HECI1_REG}
  /\ stage \in {"uart_data", "remap_data", "spi_data"} =>
       /\ access["boot"].lane = 0 /\ access["boot"].width = 4
       /\ cf8 = Before(IF stage = "spi_data" THEN SPI ELSE UART, PCI_CONFIG_BAR_OFFSET)
  /\ stage = "module_data" => cf8.fn = MODULE_DEV
  /\ stage = "bar0" /\ access["boot"] # NoAccess =>
       /\ access["boot"].lane = 0 /\ access["boot"].width = 4
       /\ cf8 = Before(MODULE_DEV, access["boot"].reg)
       /\ access["boot"].reg # PCI_CONFIG_BAR_OFFSET => Len(bar0) = 4

BarsInv ==
  /\ DOMAIN base = {"uart", "cse", "hpet", "spi"}
  /\ base.uart # NoBase /\ UART \notin moved => base.uart.reg = Masked(Low(UART))
  /\ stage \notin {"hooks", "run"} => base.spi = NoBase
  /\ base.spi.route = "window" /\ SPI \notin moved => base.spi.reg = Masked(Low(SPI))
  /\ stage \in PreModule \cup {"bar0"} \/ bar0 # <<>> => \A r \in Registers : space[MODULE_DEV][r] \in Dword
  /\ stage \in PreModule \cup {"module_data"} => bar0 = <<>>
  /\ bar0 # <<>> => Len(bar0) \in {4, 8}
  /\ Len(bar0) = 4 => bar0 = Low(MODULE_DEV) /\ Is64(bar0)
  /\ Len(bar0) = 8 => bar0 = Low(MODULE_DEV) \o IF Is64(Low(MODULE_DEV)) THEN High(MODULE_DEV) ELSE Zeros

ProbeInv ==
  /\ probe.at \in {"idle", "ones", "size", "restore", "base", "command", "set", "enable",
                   "map", "mapped"}
  /\ probe.at # "idle" =>
       /\ probe.val = <<0, probe.val[2], probe.val[3], probe.val[4]>>
       /\ probe.val \in Dword /\ probe.val[2] % 16 = 0
  /\ ~nsDuring /\ probe.at \in {"ones", "base", "command", "set", "enable", "map", "mapped"} =>
       probe.val = Masked(Low(HECI))
  /\ ~nsDuring /\ probe.at \in {"command", "set", "enable", "map", "mapped"} =>
       probe.base = probe.val
  /\ probe.at = "enable" => probe.v \in Dword
  /\ probe.at \in {"map", "mapped"} => Decoding(HECI)

(* The devices the code looks for are four, and known to the bus.          *)
LEMMA FourDevices ==
  /\ UART # SPI /\ UART # HECI /\ SPI # HECI
  /\ MODULE_DEV # UART /\ MODULE_DEV # SPI /\ MODULE_DEV # HECI
  /\ {UART, SPI, MODULE_DEV, HECI} \subseteq Devices
<1>0. ASSUME NEW S, IsFiniteSet(S), NEW x
      PROVE  /\ IsFiniteSet(S \cup {x}) /\ Cardinality(S) \in Nat
             /\ Cardinality(S \cup {x}) <= Cardinality(S) + 1
  <2> DEFINE n == Cardinality(S)
             m == Cardinality(S \cup {x})
  <2>1. n \in Nat /\ IsFiniteSet(S \cup {x})
    BY <1>0, FS_AddElement, FS_CardinalityType
  <2>2. m = n + 1 \/ m = n
    BY <1>0, FS_AddElement
  <2> HIDE DEF n, m
  <2>3. m <= n + 1
    BY <2>1, <2>2
  <2> QED BY <2>1, <2>3 DEF n, m
<1>1. ASSUME NEW a, NEW b, NEW c PROVE Cardinality({a, b, c}) <= 3
  <2> DEFINE A == {a}
             B == A \cup {b}
             C == B \cup {c}
  <2>1. IsFiniteSet(A) /\ Cardinality(A) = 1
    BY FS_Singleton
  <2>2. {a, b, c} = C
    OBVIOUS
  <2> HIDE DEF A
  <2>3. IsFiniteSet(B) /\ Cardinality(B) <= Cardinality(A) + 1
    BY <2>1, <1>0
  <2> HIDE DEF B
  <2>4. Cardinality(C) <= Cardinality(B) + 1 /\ Cardinality(B) \in Nat /\ IsFiniteSet(C)
    BY <2>3, <1>0
  <2> HIDE DEF C
  <2>5. Cardinality(C) \in Nat
    BY <2>4, FS_CardinalityType
  <2>6. Cardinality(C) <= 3
    BY <2>1, <2>3, <2>4, <2>5
  <2> QED BY <2>2, <2>6
<1>2. Cardinality({UART, SPI, MODULE_DEV, HECI}) = 4
  BY PlatformAssumption
<1>3. ASSUME NEW a, NEW b, NEW c, {UART, SPI, MODULE_DEV, HECI} = {a, b, c} PROVE FALSE
  <2>1. Cardinality({a, b, c}) = 4 /\ Cardinality({a, b, c}) <= 3
    BY <1>1, <1>2, <1>3
  <2> QED BY <2>1
<1>4. UART # SPI /\ UART # HECI /\ SPI # HECI
  <2>1. CASE UART = SPI
    <3>1. {UART, SPI, MODULE_DEV, HECI} = {SPI, MODULE_DEV, HECI}
      BY <2>1
    <3> QED BY <1>3, <3>1
  <2>2. CASE UART = HECI
    <3>1. {UART, SPI, MODULE_DEV, HECI} = {SPI, MODULE_DEV, HECI}
      BY <2>2
    <3> QED BY <1>3, <3>1
  <2>3. CASE SPI = HECI
    <3>1. {UART, SPI, MODULE_DEV, HECI} = {UART, MODULE_DEV, HECI}
      BY <2>3
    <3> QED BY <1>3, <3>1
  <2> QED BY <2>1, <2>2, <2>3
<1>5. MODULE_DEV # UART /\ MODULE_DEV # SPI /\ MODULE_DEV # HECI
  <2>1. CASE MODULE_DEV = UART
    <3>1. {UART, SPI, MODULE_DEV, HECI} = {UART, SPI, HECI}
      BY <2>1
    <3> QED BY <1>3, <3>1
  <2>2. CASE MODULE_DEV = SPI
    <3>1. {UART, SPI, MODULE_DEV, HECI} = {UART, SPI, HECI}
      BY <2>2
    <3> QED BY <1>3, <3>1
  <2>3. CASE MODULE_DEV = HECI
    <3>1. {UART, SPI, MODULE_DEV, HECI} = {UART, SPI, HECI}
      BY <2>3
    <3> QED BY <1>3, <3>1
  <2> QED BY <2>1, <2>2, <2>3
<1> QED BY <1>4, <1>5, PciAssumption, PlatformAssumption

(* PCI_GET_ADDRESS packs a function and the GET_PCI macros unpack it.      *)
LEMMA AddressNames == ASSUME NEW f \in Devices PROVE Function(PCI_GET_ADDRESS(f)) = f
<1>1. PICK b \in 0 .. 255, d \in 0 .. 31, n \in 0 .. 7 : f = <<b, d, n>>
  <2>1. f \in (0 .. 255) \X (0 .. 31) \X (0 .. 7)
    BY PciAssumption
  <2>2. f = <<f[1], f[2], f[3]>> /\ f[1] \in 0 .. 255 /\ f[2] \in 0 .. 31 /\ f[3] \in 0 .. 7
    BY <2>1
  <2> QED BY <2>2
<1>2. PCI_GET_ADDRESS(f) = b * 256 + d * 8 + n
  BY <1>1 DEF PCI_GET_ADDRESS
<1>3. /\ ((b * 256 + d * 8 + n) \div 256) % 256 = b
      /\ ((b * 256 + d * 8 + n) \div 8) % 32 = d
      /\ (b * 256 + d * 8 + n) % 8 = n
  BY SMT
<1> QED BY <1>1, <1>2, <1>3 DEF Function, GET_PCI_BUS, GET_PCI_DEVICE, GET_PCI_FUNCTION

(* The registers the platform uses are dwords of their own.                *)
LEMMA FourRegisters ==
  /\ Registers = {4, 16, 20, 64}
  /\ PCI_COMMAND_OFFSET = 4 /\ PCI_CONFIG_BAR_OFFSET = 16 /\ HECI1_REG = 64
  /\ \A fn : \A r \in {16, 20, 64} : Address(fn, r) = Before(fn, r)
BY DEF Registers, PCI_COMMAND_OFFSET, PCI_CONFIG_BAR_OFFSET, HECI1_REG, Address, Before

(* A dword written to one register leaves the others.                      *)
Shaped == DOMAIN space = Devices /\ \A f \in Devices : DOMAIN space[f] = Registers

LEMMA WriteIs ==
  ASSUME Shaped, NEW fn, NEW reg, NEW new, SetRegister(fn, reg, new)
  PROVE  /\ Shaped'
         /\ \A f \in Devices, r \in Registers :
              space'[f][r] = IF f = fn /\ r = reg THEN Kept(fn, reg, new) ELSE space[f][r]
BY DEF SetRegister, Shaped

(* BAR 0 keeps its flags, whatever is written to it.                       *)
LEMMA BarKeeps ==
  ASSUME NEW fn, Low(fn) \in Dword, Kept4K(Low(fn)), NEW new \in Dword
  PROVE  LET d == Kept(fn, PCI_CONFIG_BAR_OFFSET, new)
         IN /\ d \in Dword /\ Kept4K(d) /\ Is64(d) = Is64(Low(fn))
            /\ d = <<Low(fn)[1], new[2] - (new[2] % 16), new[3], new[4]>>
<1> DEFINE d == Kept(fn, PCI_CONFIG_BAR_OFFSET, new)
           o == Low(fn)
<1>1. d = <<o[1] % 16, new[2] - (new[2] % 16), new[3], new[4]>>
  BY DEF Kept, Low, PCI_CONFIG_BAR_OFFSET, PCI_COMMAND_OFFSET
<1>2. o[1] \in 0 .. 255 /\ o[1] < 16 /\ \A i \in 1 .. 4 : new[i] \in 0 .. 255
  BY DEF Dword, Byte, Kept4K
<1> HIDE DEF d, o
<1>3. o[1] % 16 = o[1]
  BY <1>2
<1>4. new[2] - (new[2] % 16) \in 0 .. 255 /\ (new[2] - (new[2] % 16)) % 16 = 0
  BY <1>2
<1>5. d = <<o[1], new[2] - (new[2] % 16), new[3], new[4]>>
  BY <1>1, <1>3
<1>6. d[1] = o[1] /\ d[2] = new[2] - (new[2] % 16) /\ d[3] = new[3] /\ d[4] = new[4]
  BY <1>5
<1>7. d \in Dword
  <2>1. o[1] \in Byte /\ new[2] - (new[2] % 16) \in Byte /\ new[3] \in Byte /\ new[4] \in Byte
    BY <1>2, <1>4 DEF Byte
  <2> QED BY <1>5, <2>1 DEF Dword
<1> QED BY <1>2, <1>4, <1>5, <1>6, <1>7 DEF Kept4K, Is64, o, d

(* A dword is its own four bytes.                                          *)
LEMMA WholeDword ==
  ASSUME NEW d \in Dword
  PROVE  SubSeq(d, 1, 4) = d /\ d \in Seq(Byte) /\ Len(d) = 4
<1>1. d \in [1 .. 4 -> Byte]
  BY DEF Dword
<1>2. d \in Seq(Byte) /\ Len(d) = 4
  <2>1. d = [i \in 1 .. 4 |-> d[i]] /\ \A i \in 1 .. 4 : d[i] \in Byte
    BY <1>1
  <2> DEFINE s == [i \in 1 .. 4 |-> d[i]]
  <2>2. s \in Seq(Byte) /\ Len(s) = 4
    BY <2>1
  <2> HIDE DEF s
  <2>3. d = s
    BY <2>1 DEF s
  <2> QED BY <2>2, <2>3
<1>3. SubSeq(d, 1, 4) = [i \in 1 .. 4 |-> d[i]]
  BY <1>2
<1> QED BY <1>1, <1>2, <1>3

(* A dword read through the ports, and one written.                        *)
LEMMA ReadsDword ==
  ASSUME NEW u, access[u].lane = 0, access[u].width = 4, space[cf8.fn][cf8.reg] \in Dword
  PROVE  hw_read_port(u) = space[cf8.fn][cf8.reg]
BY WholeDword DEF hw_read_port

LEMMA WritesDword ==
  ASSUME NEW u, access[u].lane = 0, access[u].width = 4, access[u].out \in Dword,
         hw_write_port(u)
  PROVE  SetRegister(cf8.fn, cf8.reg, access[u].out)
<1> DEFINE a == access[u]
           new == [i \in 1 .. 4 |-> IF i - a.lane \in 1 .. a.width THEN a.out[i - a.lane]
                                    ELSE space[cf8.fn][cf8.reg][i]]
<1>1. new = a.out
  BY DEF Dword
<1>2. SetRegister(cf8.fn, cf8.reg, new)
  BY DEF hw_write_port
<1> QED BY <1>1, <1>2

RegInv == SpaceInv /\ PortsInv /\ BarsInv /\ ProbeInv

(* The two registers an eight-byte BAR is kept in.                         *)
LEMMA HalvesOf ==
  ASSUME NEW d \in [1 .. 8 -> Byte]
  PROVE  /\ SubSeq(d, 1, 4) \in Dword /\ SubSeq(d, 5, 8) \in Dword
         /\ \A i \in 1 .. 4 : SubSeq(d, 1, 4)[i] = d[i] /\ SubSeq(d, 5, 8)[i] = d[i + 4]
<1>1. \A i \in 1 .. 8 : d[i] \in Byte
  OBVIOUS
<1>2. SubSeq(d, 1, 4) = [i \in 1 .. 4 |-> d[i]]
  OBVIOUS
<1>3. SubSeq(d, 5, 8) = [i \in 1 .. 4 |-> d[i + 4]]
  OBVIOUS
<1>4. \A i \in 1 .. 4 : i \in 1 .. 8 /\ i + 4 \in 1 .. 8
  OBVIOUS
<1>5. SubSeq(d, 1, 4) \in Dword /\ \A i \in 1 .. 4 : SubSeq(d, 1, 4)[i] = d[i]
  BY <1>1, <1>2, <1>4 DEF Dword
<1>6. SubSeq(d, 5, 8) \in Dword /\ \A i \in 1 .. 4 : SubSeq(d, 5, 8)[i] = d[i + 4]
  BY <1>1, <1>3, <1>4 DEF Dword
<1> QED BY <1>5, <1>6

(* Firmware's registers satisfy the invariant.                             *)
LEMMA RegInit == Placed4G /\ Init => RegInv
<1> SUFFICES ASSUME Placed4G, Init PROVE RegInv
  OBVIOUS
<1> DEFINE bars == machine.bars
<1>1. /\ machine \in Machines /\ \A f \in Devices : bars[f] \in [1 .. 8 -> Byte]
      /\ machine.cmd \in Byte /\ machine.hfs1 \in Dword
  BY PlatformAssumption DEF Init, Machine
<1>2. /\ space = [f \in Devices |-> [r \in Registers |->
           CASE r = PCI_CONFIG_BAR_OFFSET -> SubSeq(bars[f], 1, 4)
             [] r = PCI_CONFIG_BAR_OFFSET + 4 -> SubSeq(bars[f], 5, 8)
             [] r = PCI_COMMAND_OFFSET -> <<IF f = HECI THEN machine.cmd ELSE 6, 0, 16, 0>>
             [] OTHER -> machine.hfs1]]
      /\ cf8 = [fn |-> HECI, reg |-> PCI_COMMAND_OFFSET]
      /\ access = [u \in Users |-> NoAccess] /\ moved = {} /\ bar0 = <<>>
      /\ probe.at = "idle"
  BY DEF Init, PciInit
<1>3. /\ stage = "start" /\ base.uart = NoBase /\ base.spi = NoBase
      /\ DOMAIN base = {"uart", "cse", "hpet", "spi"}
  BY DEF Init
<1>4. ASSUME NEW f \in Devices
      PROVE  /\ space[f][16] = SubSeq(bars[f], 1, 4) /\ space[f][20] = SubSeq(bars[f], 5, 8)
             /\ space[f][4] = <<IF f = HECI THEN machine.cmd ELSE 6, 0, 16, 0>>
             /\ space[f][64] = machine.hfs1
  BY <1>2, FourRegisters
<1>5. \A f \in Devices, r \in Registers : space[f][r] \in Dword
  <2> TAKE f \in Devices, r \in Registers
  <2>1. space[f][16] \in Dword /\ space[f][20] \in Dword
    <3>1. bars[f] \in [1 .. 8 -> Byte]
      BY <1>1
    <3>2. SubSeq(bars[f], 1, 4) \in Dword /\ SubSeq(bars[f], 5, 8) \in Dword
      BY <3>1, HalvesOf
    <3> QED BY <1>4, <3>2
  <2>2. space[f][4] \in Dword
    <3> DEFINE c == IF f = HECI THEN machine.cmd ELSE 6
    <3>1. c \in Byte /\ 0 \in Byte /\ 16 \in Byte
      BY <1>1 DEF Byte
    <3> HIDE DEF c
    <3>2. <<c, 0, 16, 0>> \in Dword
      BY <3>1 DEF Dword
    <3> QED BY <1>4, <3>2 DEF c
  <2> QED BY <1>1, <1>4, <2>1, <2>2, FourRegisters
<1>6. Shaped
  BY <1>2 DEF Shaped
<1>7. ASSUME NEW f \in DriversOf
      PROVE  Kept4K(Low(f)) /\ (Is64(Low(f)) => High(f) = Zeros)
  <2>1. f \in Devices
    BY FourDevices DEF DriversOf
  <2>2. /\ Low(f) = SubSeq(bars[f], 1, 4) /\ High(f) = SubSeq(bars[f], 5, 8)
        /\ Low(f)[1] = bars[f][1] /\ Low(f)[2] = bars[f][2]
        /\ High(f) \in Dword /\ \A i \in 1 .. 4 : High(f)[i] = bars[f][i + 4]
    <3>1. Low(f) = SubSeq(bars[f], 1, 4) /\ High(f) = SubSeq(bars[f], 5, 8)
      BY <1>4, <2>1, FourRegisters DEF Low, High
    <3> QED BY <1>1, <2>1, <3>1, HalvesOf
  <2>3. Kept4K(Low(f))
    BY <1>1, <2>2 DEF Placed4G, Kept4K
  <2>4. ASSUME Is64(Low(f)) PROVE High(f) = Zeros
    <3>1. \A i \in 5 .. 8 : bars[f][i] = 0
      BY <1>1, <2>2, <2>4 DEF Placed4G, Is64
    <3>2. \A i \in 1 .. 4 : High(f)[i] = 0
      BY <2>2, <3>1
    <3>3. High(f) = [i \in 1 .. 4 |-> 0]
      BY <2>2, <3>2 DEF Dword
    <3> QED BY <3>3 DEF Zeros
  <2> QED BY <2>3, <2>4
<1>8. SpaceInv
  BY <1>5, <1>6, <1>7, FourDevices DEF SpaceInv, Shaped, DriversOf
<1>9. PortsInv
  <2>1. \A u \in Users : access[u] = NoAccess
    BY <1>2
  <2> QED BY <1>2, <1>3, <2>1 DEF PortsInv, Before, Users
<1>10. BarsInv
  <2>1. Len(bar0) = 0
    BY <1>2
  <2>2. base.spi.route = "none"
    BY <1>3 DEF NoBase
  <2>3. base.spi.route # "window"
    BY <2>2
  <2> QED BY <1>2, <1>3, <1>5, <2>1, <2>3, FourDevices DEF BarsInv, PreModule
<1>11. ProbeInv
  BY <1>2 DEF ProbeInv
<1> QED BY <1>8, <1>9, <1>10, <1>11 DEF RegInv

(* The steps that leave the registers and the ports alone.                 *)
LEMMA StageOnly ==
  ASSUME RegInv, UNCHANGED pciVars, DOMAIN base' = DOMAIN base, base'.uart = base.uart, base'.spi = base.spi,
         \/ stage' = stage
         \/ /\ stage' \notin {"uart_data", "remap_data", "spi_data", "module_data", "bar0"}
            /\ stage # "run" /\ (stage' \in PreModule => stage \in PreModule)
            /\ stage = "hooks" => stage' = "run"
  PROVE  RegInv'
<1>1. UNCHANGED <<space, cf8, access, moved, bar0, probe, nsDuring>>
  BY DEF pciVars, portVars, probeVars
<1>2. SpaceInv'
  BY <1>1 DEF RegInv, SpaceInv, Low, High
<1>3. PortsInv'
  BY <1>1 DEF RegInv, PortsInv
<1>4. BarsInv'
  BY <1>1 DEF RegInv, BarsInv, Low, High, PreModule
<1>5. ProbeInv'
  BY <1>1 DEF RegInv, ProbeInv, Low, Decoding
<1> QED BY <1>2, <1>3, <1>4, <1>5 DEF RegInv

(* The boot's reads of BAR 0: the address.                                 *)
LEMMA BootAddress ==
  ASSUME RegInv, NEW f, pci_read32("boot", f, PCI_CONFIG_BAR_OFFSET), base' = base,
         \/ stage \in {"uart", "remap"} /\ f = UART /\ stage' = (IF stage = "uart" THEN "uart_data" ELSE "remap_data")
         \/ stage = "spi" /\ f = SPI /\ stage' = "spi_data"
         \/ stage = "module" /\ f = MODULE_DEV /\ stage' = "bar0"
  PROVE  RegInv'
<1>1. /\ cf8' = Before(f, PCI_CONFIG_BAR_OFFSET)
      /\ access' = [access EXCEPT !["boot"] =
           [width |-> 4, fn |-> f, reg |-> PCI_CONFIG_BAR_OFFSET, lane |-> 0, out |-> <<>>]]
      /\ UNCHANGED <<space, moved, bar0, probe, nsDuring>>
  BY FourRegisters DEF pci_read32, Start, probeVars
<1>2. /\ access'["boot"].width = 4 /\ access'["boot"].lane = 0
      /\ access'["boot"].reg = PCI_CONFIG_BAR_OFFSET
      /\ DOMAIN access' = Users /\ access'["ns"] = access["ns"]
      /\ access'["keymaster"] = access["keymaster"]
  BY <1>1 DEF RegInv, PortsInv, Users
<1>3. SpaceInv'
  BY <1>1 DEF RegInv, SpaceInv, Low, High
<1>4. PortsInv'
  BY <1>1, <1>2 DEF RegInv, PortsInv, Before
<1>5. BarsInv'
  BY <1>1 DEF RegInv, BarsInv, Low, High, PreModule
<1>6. ProbeInv'
  BY <1>1 DEF RegInv, ProbeInv, Low, Decoding
<1> QED BY <1>3, <1>4, <1>5, <1>6 DEF RegInv

(* The drivers' reads of BAR 0: the data.                                  *)
LEMMA BootData ==
  ASSUME RegInv, init_uart \/ uart_remap \/ spi_mmu_init
  PROVE  RegInv'
<1>1. /\ stage \in {"uart_data", "remap_data", "spi_data"}
      /\ stage' \notin {"uart_data", "remap_data", "spi_data", "module_data", "bar0", "run"}
      /\ stage' \in PreModule => stage \in PreModule
      /\ Done("boot") /\ UNCHANGED <<space, moved, bar0, probe, nsDuring>>
  BY DEF init_uart, uart_remap, spi_mmu_init, Reach, probeVars, PreModule
<1>2. access' = [access EXCEPT !["boot"] = NoAccess] /\ cf8' = cf8
  BY <1>1 DEF Done
<1>3. DOMAIN access' = Users /\ access'["ns"] = access["ns"] /\ access'["keymaster"] = access["keymaster"]
  BY <1>2 DEF RegInv, PortsInv, Users
<1>4. SpaceInv'
  BY <1>1 DEF RegInv, SpaceInv, Low, High
<1>5. PortsInv'
  BY <1>1, <1>2, <1>3 DEF RegInv, PortsInv
<1>6. ProbeInv'
  BY <1>1 DEF RegInv, ProbeInv, Low, Decoding
<1>7. hw_read_port("boot") = IF stage = "spi_data" THEN Low(SPI) ELSE Low(UART)
  <2>1. /\ access["boot"].lane = 0 /\ access["boot"].width = 4
        /\ cf8.fn = (IF stage = "spi_data" THEN SPI ELSE UART) /\ cf8.reg = PCI_CONFIG_BAR_OFFSET
    BY <1>1 DEF RegInv, PortsInv, Before
  <2>2. cf8.fn \in DriversOf /\ cf8.reg \in Registers
    BY <2>1, FourRegisters DEF DriversOf
  <2>3. space[cf8.fn][cf8.reg] \in Dword
    BY <2>2 DEF RegInv, SpaceInv
  <2>4. hw_read_port("boot") = space[cf8.fn][cf8.reg]
    BY <2>1, <2>3, ReadsDword
  <2> QED BY <2>1, <2>4 DEF Low
<1>8. BarsInv'
  <2>1. UNCHANGED <<Low(UART), Low(SPI), Low(MODULE_DEV), High(MODULE_DEV)>>
    BY <1>1 DEF Low, High
  <2>2. CASE init_uart \/ uart_remap
    <3>1. stage # "spi_data" /\ base'.spi = base.spi /\ DOMAIN base' = DOMAIN base /\ stage' \notin {"hooks", "run"}
          /\ stage \in {"uart_data", "remap_data"} /\ stage' \in {"remap", "module"}
      BY <2>2 DEF init_uart, uart_remap, Reach, RegInv, BarsInv
    <3>2. base'.uart = base.uart \/ base'.uart.reg = Masked(Low(UART))
      BY <1>7, <2>2, <3>1 DEF init_uart, uart_remap, At, RegInv, BarsInv
    <3> QED BY <1>1, <2>1, <3>1, <3>2 DEF RegInv, BarsInv, PreModule
  <2>3. CASE spi_mmu_init
    <3>1. /\ stage = "spi_data" /\ stage' = "hooks" /\ base'.uart = base.uart
          /\ DOMAIN base' = DOMAIN base
      BY <2>3 DEF spi_mmu_init, Reach, RegInv, BarsInv
    <3>2. base'.spi.reg = Masked(Low(SPI))
      BY <1>7, <2>3, <3>1 DEF spi_mmu_init, At, RegInv, BarsInv
    <3> QED BY <1>1, <2>1, <3>1, <3>2 DEF RegInv, BarsInv, PreModule
  <2> QED BY <2>2, <2>3
<1> QED BY <1>4, <1>5, <1>6, <1>8 DEF RegInv

(* A write to a register of a driver's device leaves it where it may be,   *)
(* and the upper half of its BAR as it is.                                 *)
LEMMA WriteKeeps ==
  ASSUME SpaceInv, NEW fn, NEW reg, NEW new, SetRegister(fn, reg, new),
         fn \in DriversOf => new \in Dword /\ reg \in {4, 16, 64}
  PROVE  /\ SpaceInv'
         /\ \A f \in Devices, r \in Registers : f # fn \/ r # reg => space'[f][r] = space[f][r]
         /\ fn \in DriversOf /\ reg = 64 => space'[fn][64] = space[fn][64]
         /\ fn \in DriversOf /\ reg = 16 =>
              space'[fn][16] = <<Low(fn)[1], new[2] - (new[2] % 16), new[3], new[4]>>
         /\ fn \in DriversOf /\ reg = 4 =>
              space'[fn][4] = <<new[1], new[2], space[fn][4][3], space[fn][4][4]>>
<1>1. /\ Shaped'
      /\ \A f \in Devices, r \in Registers :
           space'[f][r] = IF f = fn /\ r = reg THEN Kept(fn, reg, new) ELSE space[f][r]
  BY WriteIs DEF SpaceInv, Shaped
<1>2. \A f \in Devices, r \in Registers : f # fn \/ r # reg => space'[f][r] = space[f][r]
  BY <1>1
<1>3. DriversOf \subseteq Devices
  BY FourDevices DEF DriversOf
<1>4. ASSUME fn \in DriversOf
      PROVE  /\ reg = 64 => space'[fn][64] = space[fn][64]
             /\ reg = 4 => space'[fn][4] = <<new[1], new[2], space[fn][4][3], space[fn][4][4]>>
             /\ reg = 4 => space'[fn][4] \in Dword
             /\ reg = 16 => /\ space'[fn][16] = <<Low(fn)[1], new[2] - (new[2] % 16), new[3], new[4]>>
                            /\ space'[fn][16] \in Dword /\ Kept4K(space'[fn][16])
                            /\ Is64(space'[fn][16]) = Is64(Low(fn))
  <2>1. fn \in Devices /\ reg \in Registers /\ new \in Dword
    BY <1>3, <1>4, FourRegisters
  <2>2. space'[fn][reg] = Kept(fn, reg, new)
    BY <1>1, <2>1
  <2>3. reg = 64 => space'[fn][64] = space[fn][64]
    BY <2>2 DEF Kept, PCI_CONFIG_BAR_OFFSET, PCI_COMMAND_OFFSET
  <2>4. reg = 4 => space'[fn][4] = <<new[1], new[2], space[fn][4][3], space[fn][4][4]>>
    BY <2>2 DEF Kept, PCI_CONFIG_BAR_OFFSET, PCI_COMMAND_OFFSET
  <2>5. reg = 4 => space'[fn][4] \in Dword
    <3>1. space[fn][4] \in Dword
      BY <1>4, FourRegisters DEF SpaceInv
    <3>2. /\ new[1] \in Byte /\ new[2] \in Byte
          /\ space[fn][4][3] \in Byte /\ space[fn][4][4] \in Byte
      BY <2>1, <3>1 DEF Dword
    <3>3. <<new[1], new[2], space[fn][4][3], space[fn][4][4]>> \in Dword
      BY <3>2 DEF Dword
    <3> QED BY <2>4, <3>3
  <2>6. CASE reg = 16
    <3>1. Low(fn) \in Dword /\ Kept4K(Low(fn))
      BY <1>4, FourRegisters DEF SpaceInv, Low
    <3>2. space'[fn][16] = Kept(fn, PCI_CONFIG_BAR_OFFSET, new)
      BY <2>2, <2>6, FourRegisters
    <3> QED BY <2>1, <2>6, <3>1, <3>2, BarKeeps
  <2> QED BY <2>3, <2>4, <2>5, <2>6
<1>5. ASSUME NEW f \in DriversOf
      PROVE  /\ \A r \in Registers : space'[f][r] \in Dword
             /\ Kept4K(space'[f][16]) /\ (Is64(space'[f][16]) => space'[f][20] = Zeros)
  <2>0. /\ \A r \in Registers : space[f][r] \in Dword
        /\ Kept4K(space[f][16]) /\ (Is64(space[f][16]) => space[f][20] = Zeros)
    BY FourRegisters DEF SpaceInv, Low, High
  <2>1. CASE f # fn
    BY <1>2, <1>3, <2>0, <2>1, FourRegisters
  <2>2. CASE f = fn
    <3>1. reg \in {4, 16, 64}
      BY <2>2
    <3>2. space'[f][20] = space[f][20]
      BY <1>2, <1>3, <3>1, FourRegisters
    <3>3. CASE reg = 16
      <4>1. space'[f][4] = space[f][4] /\ space'[f][64] = space[f][64]
        BY <1>2, <1>3, <3>3, FourRegisters
      <4> QED BY <1>4, <2>0, <2>2, <3>2, <3>3, <4>1, FourRegisters DEF Low
    <3>4. CASE reg \in {4, 64}
      <4>1. /\ space'[f][16] = space[f][16]
            /\ reg = 4 => space'[f][64] = space[f][64]
            /\ reg = 64 => space'[f][4] = space[f][4]
        BY <1>2, <1>3, <3>4, FourRegisters
      <4> QED BY <1>4, <2>0, <2>2, <3>2, <3>4, <4>1, FourRegisters
    <3> QED BY <3>1, <3>3, <3>4
  <2> QED BY <2>1, <2>2
<1>6. SpaceInv'
  BY <1>1, <1>5, FourRegisters DEF SpaceInv, Shaped, Low, High
<1> QED BY <1>2, <1>4, <1>6

(* The module's accesses: the address.                                     *)
LEMMA ModuleStart ==
  ASSUME RegInv, ModuleAccess
  PROVE  RegInv'
<1>1. /\ stage = "module" /\ stage' = "module_data" /\ base' = base
      /\ \E reg, width, lane, out : Start("boot", MODULE_DEV, reg, width, lane, out)
  BY Zenon DEF ModuleAccess, Reach, bootVars, pci_read8, pci_write8, pci_read16, pci_write16, pci_write32
<1>2. PICK reg, width, lane, out : Start("boot", MODULE_DEV, reg, width, lane, out)
  BY <1>1
<1> DEFINE new == [width |-> width, fn |-> MODULE_DEV, reg |-> reg, lane |-> lane, out |-> out]
<1>3. /\ cf8' = Before(MODULE_DEV, reg - (reg % 4)) /\ access' = [access EXCEPT !["boot"] = new]
      /\ UNCHANGED <<space, moved, bar0, probe, nsDuring>>
  BY <1>2 DEF Start, probeVars, Address, Before
<1>4. /\ DOMAIN access' = Users /\ access'["ns"] = access["ns"]
      /\ access'["keymaster"] = access["keymaster"]
  BY <1>3 DEF RegInv, PortsInv, Users
<1>5. SpaceInv'
  BY <1>3 DEF RegInv, SpaceInv, Low, High
<1>6. PortsInv'
  <2>1. cf8'.fn = MODULE_DEV /\ cf8' = Before(cf8'.fn, cf8'.reg)
    BY <1>3 DEF Before
  <2> QED BY <1>1, <1>3, <1>4, <2>1 DEF RegInv, PortsInv
<1>7. BarsInv'
  BY <1>1, <1>3 DEF RegInv, BarsInv, Low, High, PreModule
<1>8. ProbeInv'
  BY <1>3 DEF RegInv, ProbeInv, Low, Decoding
<1> QED BY <1>5, <1>6, <1>7, <1>8 DEF RegInv

(* The module's accesses: the data.  It writes to its own device only.     *)
LEMMA ModuleWrites ==
  ASSUME RegInv, ModuleData
  PROVE  RegInv'
<1>1. /\ stage = "module_data" /\ stage' = "secinfo" /\ base' = base
      /\ access' = [access EXCEPT !["boot"] = NoAccess] /\ cf8' = cf8
      /\ UNCHANGED <<moved, bar0, probe, nsDuring>>
  BY DEF ModuleData, Reach, Done, bootVars, probeVars
<1>2. /\ DOMAIN access' = Users /\ access'["ns"] = access["ns"]
      /\ access'["keymaster"] = access["keymaster"]
  BY <1>1 DEF RegInv, PortsInv, Users
<1>3. bar0 = <<>> /\ cf8.fn = MODULE_DEV
  BY <1>1 DEF RegInv, PortsInv, BarsInv
<1>4. /\ SpaceInv'
      /\ \A f \in DriversOf, r \in Registers : space'[f][r] = space[f][r]
  <2>1. CASE UNCHANGED space
    BY <2>1 DEF RegInv, SpaceInv, Low, High
  <2>2. CASE hw_write_port("boot")
    <3>1. PICK new : SetRegister(cf8.fn, cf8.reg, new)
      BY <2>2 DEF hw_write_port
    <3>2. cf8.fn \notin DriversOf /\ DriversOf \subseteq Devices
      BY <1>3, FourDevices DEF DriversOf
    <3> QED BY <3>1, <3>2, WriteKeeps DEF RegInv
  <2> QED BY <2>1, <2>2 DEF ModuleData
<1>5. PortsInv'
  BY <1>1, <1>2 DEF RegInv, PortsInv
<1>6. BarsInv'
  <2>1. Low(UART)' = Low(UART) /\ Low(SPI)' = Low(SPI)
    BY <1>4, FourRegisters DEF Low, DriversOf
  <2>2. Len(bar0) = 0
    BY <1>3
  <2> QED BY <1>1, <1>3, <2>1, <2>2 DEF RegInv, BarsInv, PreModule
<1>7. ProbeInv'
  BY <1>1 DEF RegInv, PortsInv, ProbeInv
<1> QED BY <1>4, <1>5, <1>6, <1>7 DEF RegInv

(* Two registers read one after the other are a BAR of eight bytes.        *)
LEMMA TwoHalves ==
  ASSUME NEW low \in Dword, NEW high \in Dword
  PROVE  /\ low \o high \in Seq(Byte) /\ Len(low \o high) = 8
         /\ SubSeq(low \o high, 1, 4) = low /\ SubSeq(low \o high, 5, 8) = high
<1>1. /\ low \in Seq(Byte) /\ high \in Seq(Byte) /\ Len(low) = 4 /\ Len(high) = 4
      /\ low = [i \in 1 .. 4 |-> low[i]] /\ high = [i \in 1 .. 4 |-> high[i]]
  BY WholeDword DEF Dword
<1> DEFINE d == low \o high
<1>2. /\ d \in Seq(Byte) /\ Len(d) = 8
      /\ \A i \in 1 .. 4 : d[i] = low[i] /\ d[i + 4] = high[i]
  BY <1>1
<1> HIDE DEF d
<1>3. SubSeq(d, 1, 4) = [i \in 1 .. 4 |-> d[i]] /\ SubSeq(d, 5, 8) = [i \in 1 .. 4 |-> d[i + 4]]
  BY <1>2
<1>4. SubSeq(d, 1, 4) = low /\ SubSeq(d, 5, 8) = high
  BY <1>1, <1>2, <1>3
<1> QED BY <1>2, <1>4 DEF d

(* pci_read_bar0, one or two reads.                                        *)
LEMMA ModuleBar ==
  ASSUME RegInv, ModuleReadsBar
  PROVE  RegInv'
<1> DEFINE loc == PCI_GET_ADDRESS(MODULE_DEV)
<1>0. /\ Function(loc) = MODULE_DEV /\ base' = base
      /\ MODULE_DEV \in Devices
  BY AddressNames, FourDevices DEF ModuleReadsBar, bootVars
<1>1. CASE Reach("module", "bar0") /\ pci_read_bar0(loc)
  <2>1. stage = "module" /\ stage' = "bar0" /\ pci_read32("boot", MODULE_DEV, PCI_CONFIG_BAR_OFFSET)
    BY <1>0, <1>1 DEF Reach, pci_read_bar0
  <2> QED BY <1>0, <2>1, BootAddress
<1>2. ASSUME stage = "bar0", NEW r \in {16, 20}, access["boot"] # NoAccess, access["boot"].reg = r,
             Done("boot"), UNCHANGED <<space, moved, probeVars>>, stage' \in {"bar0", "secinfo"}
      PROVE  /\ hw_read_port("boot") = space[MODULE_DEV][r]
             /\ SpaceInv' /\ PortsInv' /\ ProbeInv'
  <2>1. /\ access["boot"].lane = 0 /\ access["boot"].width = 4 /\ cf8 = Before(MODULE_DEV, r)
    BY <1>2 DEF RegInv, PortsInv
  <2>2. cf8.fn = MODULE_DEV /\ cf8.reg = r
    BY <2>1 DEF Before
  <2>3. space[MODULE_DEV][r] \in Dword
    BY <1>2, FourRegisters DEF RegInv, BarsInv
  <2>4. hw_read_port("boot") = space[MODULE_DEV][r]
    BY <2>1, <2>2, <2>3, ReadsDword
  <2>5. access' = [access EXCEPT !["boot"] = NoAccess] /\ cf8' = cf8 /\ UNCHANGED <<space, moved, probe, nsDuring>>
    BY <1>2 DEF Done, probeVars
  <2>6. /\ DOMAIN access' = Users /\ access'["ns"] = access["ns"]
        /\ access'["keymaster"] = access["keymaster"] /\ access'["boot"] = NoAccess
    BY <2>5 DEF RegInv, PortsInv, Users
  <2>7. SpaceInv'
    BY <2>5 DEF RegInv, SpaceInv, Low, High
  <2>8. PortsInv'
    BY <1>2, <2>5, <2>6 DEF RegInv, PortsInv
  <2>9. ProbeInv'
    BY <2>5 DEF RegInv, ProbeInv, Low, Decoding
  <2> QED BY <2>4, <2>7, <2>8, <2>9
<1>3. CASE stage = "bar0" /\ Bar0Low(loc) /\ UNCHANGED stage
  <2>1. /\ access["boot"] # NoAccess /\ access["boot"].reg = 16 /\ Done("boot")
        /\ UNCHANGED <<space, moved, probeVars>>
        /\ bar0' = IF Is64(hw_read_port("boot")) THEN hw_read_port("boot")
                   ELSE hw_read_port("boot") \o Zeros
    BY <1>3, FourRegisters DEF Bar0Low, Reading, MAKE64
  <2>2. hw_read_port("boot") = Low(MODULE_DEV) /\ SpaceInv' /\ PortsInv' /\ ProbeInv'
    BY <1>2, <1>3, <2>1, FourRegisters DEF Low
  <2>3. Low(MODULE_DEV) \in Dword /\ Zeros \in Dword
    <3>1. 0 \in Byte
      BY DEF Byte
    <3>2. Zeros \in Dword
      BY <3>1 DEF Zeros, Dword
    <3> QED BY <1>3, <3>2, FourRegisters DEF RegInv, BarsInv, Low
  <2>4. /\ Low(MODULE_DEV)' = Low(MODULE_DEV) /\ High(MODULE_DEV)' = High(MODULE_DEV)
        /\ Low(UART)' = Low(UART) /\ Low(SPI)' = Low(SPI)
    BY <2>1 DEF Low, High
  <2>7. /\ DOMAIN base' = {"uart", "cse", "hpet", "spi"} /\ base'.spi = NoBase
        /\ base'.uart # NoBase /\ UART \notin moved' => base'.uart.reg = Masked(Low(UART)')
        /\ \A r \in Registers : space'[MODULE_DEV][r] \in Dword
        /\ stage' = "bar0" /\ base'.spi.route # "window"
    BY <1>0, <1>3, <2>1, <2>4 DEF RegInv, BarsInv, NoBase
  <2>8. BarsInv' <=>
          /\ bar0' # <<>> => Len(bar0') \in {4, 8}
          /\ Len(bar0') = 4 => bar0' = Low(MODULE_DEV) /\ Is64(bar0')
          /\ Len(bar0') = 8 => bar0' = Low(MODULE_DEV) \o
                                       IF Is64(Low(MODULE_DEV)) THEN High(MODULE_DEV) ELSE Zeros
    BY <2>4, <2>7 DEF BarsInv, PreModule
  <2>5. CASE Is64(Low(MODULE_DEV))
    <3>1. bar0' = Low(MODULE_DEV) /\ Len(bar0') = 4
      BY <2>1, <2>2, <2>3, <2>5, WholeDword
    <3>2. BarsInv'
      BY <2>5, <2>8, <3>1
    <3> QED BY <2>2, <3>2 DEF RegInv
  <2>6. CASE ~Is64(Low(MODULE_DEV))
    <3>1. bar0' = Low(MODULE_DEV) \o Zeros /\ Len(bar0') = 8
      BY <2>1, <2>2, <2>3, <2>6, TwoHalves
    <3>2. BarsInv'
      BY <2>6, <2>8, <3>1
    <3> QED BY <2>2, <3>2 DEF RegInv
  <2> QED BY <2>5, <2>6
<1>4. CASE stage = "bar0" /\ Bar0NextHigh(loc) /\ UNCHANGED stage
  <2>1. /\ Len(bar0) = 4 /\ cf8' = Before(MODULE_DEV, 20)
        /\ access' = [access EXCEPT !["boot"] =
             [width |-> 4, fn |-> MODULE_DEV, reg |-> 20, lane |-> 0, out |-> <<>>]]
        /\ UNCHANGED <<space, moved, bar0, probe, nsDuring>>
    BY <1>0, <1>4, FourRegisters DEF Bar0NextHigh, pci_read32, Start, probeVars
  <2>2. /\ access'["boot"].width = 4 /\ access'["boot"].lane = 0 /\ access'["boot"].reg = 20
        /\ DOMAIN access' = Users /\ access'["ns"] = access["ns"]
        /\ access'["keymaster"] = access["keymaster"]
    BY <2>1 DEF RegInv, PortsInv, Users
  <2>3. SpaceInv'
    BY <2>1 DEF RegInv, SpaceInv, Low, High
  <2>4. PortsInv'
    BY <1>4, <2>1, <2>2 DEF RegInv, PortsInv, Before
  <2>5. BarsInv'
    BY <1>0, <1>4, <2>1 DEF RegInv, BarsInv, Low, High
  <2>6. ProbeInv'
    BY <2>1 DEF RegInv, ProbeInv, Low, Decoding
  <2> QED BY <2>3, <2>4, <2>5, <2>6 DEF RegInv
<1>5. CASE Reach("bar0", "secinfo") /\ Bar0High(loc)
  <2>1. /\ access["boot"] # NoAccess /\ access["boot"].reg = 20 /\ Done("boot")
        /\ UNCHANGED <<space, moved, probeVars>> /\ stage = "bar0" /\ stage' = "secinfo"
        /\ bar0' = bar0 \o hw_read_port("boot")
    BY <1>5, FourRegisters DEF Bar0High, Reading, MAKE64, Reach
  <2>2. hw_read_port("boot") = High(MODULE_DEV) /\ SpaceInv' /\ PortsInv' /\ ProbeInv'
    BY <1>2, <2>1, FourRegisters DEF High
  <2>3. bar0 = Low(MODULE_DEV) /\ Is64(Low(MODULE_DEV))
    BY <2>1, FourRegisters DEF RegInv, PortsInv, BarsInv
  <2>4. Low(MODULE_DEV) \in Dword /\ High(MODULE_DEV) \in Dword
    BY <2>1, FourRegisters DEF RegInv, BarsInv, Low, High
  <2>5. /\ Low(MODULE_DEV)' = Low(MODULE_DEV) /\ High(MODULE_DEV)' = High(MODULE_DEV)
        /\ Low(UART)' = Low(UART) /\ Low(SPI)' = Low(SPI)
    BY <2>1 DEF Low, High
  <2>6. bar0' = Low(MODULE_DEV) \o High(MODULE_DEV) /\ Len(bar0') = 8
    BY <2>1, <2>2, <2>3, <2>4, TwoHalves
  <2>7. BarsInv'
    BY <1>0, <2>1, <2>3, <2>5, <2>6 DEF RegInv, BarsInv, PreModule
  <2> QED BY <2>2, <2>7 DEF RegInv
<1>6. CASE Reach("bar0", "secinfo") /\ Len(bar0) = 8 /\ UNCHANGED pciVars
  BY <1>0, <1>6, StageOnly DEF Reach, PreModule
<1> QED BY <1>1, <1>3, <1>4, <1>5, <1>6 DEF ModuleReadsBar

(* The keymaster application reads HFS1 by the ports.                      *)
LEMMA FuseSteps ==
  ASSUME RegInv, ReadFuse \/ FuseRead
  PROVE  RegInv'
<1>1. stage = "run" /\ stage' = "run" /\ base' = base
  BY DEF ReadFuse, FuseRead, Running, bootVars
<1>2. UNCHANGED <<space, moved, bar0, probe, nsDuring>>
  BY DEF ReadFuse, FuseRead, pci_read32, Start, probeVars
<1>3. /\ DOMAIN access' = Users /\ access'["ns"] = access["ns"]
      /\ cf8' = cf8 \/ cf8' = Before(HECI, 64)
  <2>1. \/ \E a : access' = [access EXCEPT !["keymaster"] = a] /\ cf8' = Before(HECI, 64)
        \/ access' = [access EXCEPT !["keymaster"] = NoAccess] /\ cf8' = cf8
    BY FourRegisters, Zenon DEF ReadFuse, FuseRead, pci_read32, Start, Done
  <2> QED BY <2>1 DEF RegInv, PortsInv, Users
<1>4. SpaceInv'
  BY <1>2 DEF RegInv, SpaceInv, Low, High
<1>5. PortsInv'
  <2>1. HECI \in DriversOf
    BY DEF DriversOf
  <2>2. CASE cf8' = cf8
    BY <1>1, <1>3, <2>2 DEF RegInv, PortsInv
  <2>3. CASE cf8' = Before(HECI, 64)
    <3>1. cf8'.fn = HECI /\ cf8'.reg = 64 /\ cf8' = Before(cf8'.fn, cf8'.reg)
      BY <2>3 DEF Before
    <3> QED BY <1>1, <1>3, <2>1, <3>1, FourRegisters DEF RegInv, PortsInv
  <2> QED BY <1>3, <2>2, <2>3
<1>6. BarsInv'
  BY <1>1, <1>2 DEF RegInv, BarsInv, Low, High, PreModule
<1>7. ProbeInv'
  BY <1>2 DEF RegInv, ProbeInv, Low, Decoding
<1> QED BY <1>4, <1>5, <1>6, <1>7 DEF RegInv

(* What the probe finds: a BAR without its flags, on a page.               *)
LEMMA MaskedIs ==
  ASSUME NEW d \in Dword, Kept4K(d)
  PROVE  /\ Masked(d) = <<0, d[2], d[3], d[4]>> /\ Masked(d) \in Dword
         /\ Masked(d)[2] = d[2] /\ Masked(d)[3] = d[3] /\ Masked(d)[4] = d[4]
<1>1. /\ d[1] \in 0 .. 255 /\ d[2] \in 0 .. 255 /\ d[3] \in 0 .. 255 /\ d[4] \in 0 .. 255
      /\ d[1] < 16
  BY DEF Dword, Byte, Kept4K
<1>2. d[1] - (d[1] % 16) = 0
  BY <1>1
<1>3. Masked(d) = <<0, d[2], d[3], d[4]>>
  BY <1>2 DEF Masked
<1>4. Masked(d) \in Dword
  <2>1. 0 \in Byte /\ d[2] \in Byte /\ d[3] \in Byte /\ d[4] \in Byte
    BY <1>1 DEF Byte
  <2> QED BY <1>3, <2>1 DEF Dword
<1> QED BY <1>3, <1>4

(* A value of the probe: what Masked leaves of a BAR.                      *)
OnPage(v) == v = <<0, v[2], v[3], v[4]>> /\ v \in Dword /\ v[2] % 16 = 0

(* heci_get_base_addr: all ones, size, restore, read, decode, map.         *)
LEMMA ProbeSteps ==
  ASSUME RegInv, stage = "run", stage' = stage, base' = base, ReadBar \/ get_base_addr
  PROVE  RegInv'
<1> USE FourRegisters
<1>0. /\ UNCHANGED <<cf8, access, moved, bar0>>
      /\ HECI \in DriversOf /\ DriversOf \subseteq Devices
      /\ MODULE_DEV \notin DriversOf /\ MODULE_DEV \in Devices
  <2>1. UNCHANGED <<cf8, access, moved, bar0>>
    <3>1. \E at, val, b, v : ProbeStep(at, val, b, v)
      BY Zenon DEF ProbeTo, ReadBar, get_base_addr, WriteOnes, ReadSize, Restore, ReadBase,
            ReadCommand, SetReads, SetWrites, MapBase, ExchangeEnds
    <3> QED BY <3>1 DEF ProbeStep, portVars
  <2> QED BY <2>1, FourDevices DEF DriversOf
<1>1. /\ Low(HECI) \in Dword /\ Kept4K(Low(HECI)) /\ OnPage(Masked(Low(HECI)))
  <2>1. Low(HECI) \in Dword /\ Kept4K(Low(HECI))
    BY <1>0 DEF RegInv, SpaceInv, Low
  <2>2. /\ Masked(Low(HECI)) = <<0, Low(HECI)[2], Low(HECI)[3], Low(HECI)[4]>>
        /\ Masked(Low(HECI)) \in Dword /\ Masked(Low(HECI))[2] = Low(HECI)[2]
        /\ Masked(Low(HECI))[3] = Low(HECI)[3] /\ Masked(Low(HECI))[4] = Low(HECI)[4]
    BY <2>1, MaskedIs
  <2>3. Low(HECI)[2] % 16 = 0
    BY <2>1 DEF Kept4K
  <2> QED BY <2>1, <2>2, <2>3 DEF OnPage
<1>2. probe.at # "idle" => OnPage(probe.val)
  BY DEF RegInv, ProbeInv, OnPage
(* The device's other registers, and the other devices, stay.              *)
<1>3. ASSUME SpaceInv',
             \A f \in Devices, r \in Registers : f # HECI \/ r \notin {4, 16} => space'[f][r] = space[f][r]
      PROVE  PortsInv' /\ BarsInv'
  <2>1. /\ \A r \in Registers : space'[MODULE_DEV][r] = space[MODULE_DEV][r]
        /\ Low(UART)' = Low(UART) /\ Low(SPI)' = Low(SPI)
    BY <1>0, <1>3, FourDevices DEF Low
  <2>2. Low(MODULE_DEV)' = Low(MODULE_DEV) /\ High(MODULE_DEV)' = High(MODULE_DEV)
    BY <2>1 DEF Low, High
  <2>3. PortsInv'
    BY <1>0 DEF RegInv, PortsInv
  <2>4. BarsInv'
    BY <1>0, <2>1, <2>2 DEF RegInv, BarsInv, PreModule
  <2> QED BY <2>3, <2>4
<1>4. ASSUME UNCHANGED space PROVE SpaceInv' /\ PortsInv' /\ BarsInv'
  <2>1. SpaceInv'
    BY <1>4 DEF RegInv, SpaceInv, Low, High
  <2> QED BY <1>3, <1>4, <2>1
<1>5. ASSUME NEW reg \in {4, 16}, NEW new \in Dword, SetRegister(HECI, reg, new)
      PROVE  /\ SpaceInv' /\ PortsInv' /\ BarsInv'
             /\ reg = 16 => /\ Low(HECI)' = <<Low(HECI)[1], new[2] - (new[2] % 16), new[3], new[4]>>
                            /\ space'[HECI][4] = space[HECI][4]
             /\ reg = 4 => /\ space'[HECI][4] = <<new[1], new[2], space[HECI][4][3], space[HECI][4][4]>>
                           /\ Low(HECI)' = Low(HECI)
  <2>1. /\ SpaceInv'
        /\ \A f \in Devices, r \in Registers : f # HECI \/ r # reg => space'[f][r] = space[f][r]
        /\ reg = 16 => space'[HECI][16] = <<Low(HECI)[1], new[2] - (new[2] % 16), new[3], new[4]>>
        /\ reg = 4 => space'[HECI][4] = <<new[1], new[2], space[HECI][4][3], space[HECI][4][4]>>
    BY <1>0, <1>5, WriteKeeps DEF RegInv
  <2>2. PortsInv' /\ BarsInv'
    BY <1>3, <2>1
  <2> QED BY <1>0, <2>1, <2>2 DEF Low
<1>6. CASE ReadBar
  <2>1. probe'.at = "ones" /\ probe'.val = Masked(Low(HECI)) /\ UNCHANGED space
    BY <1>6 DEF ReadBar, ProbeTo, ProbeStep, HeciBar, Low
  <2>2. Low(HECI)' = Low(HECI)
    BY <2>1 DEF Low
  <2>3. ProbeInv'
    BY <1>1, <2>1, <2>2 DEF ProbeInv, OnPage
  <2> QED BY <1>4, <2>1, <2>3 DEF RegInv
<1>7. CASE WriteOnes
  <2>1. /\ probe.at = "ones" /\ probe'.at = "size" /\ probe'.val = probe.val
        /\ SetRegister(HECI, 16, Ones)
    BY <1>7 DEF WriteOnes, ProbeTo, ProbeStep
  <2>2. Ones \in Dword
    <3>1. 255 \in Byte
      BY DEF Byte
    <3> QED BY <3>1 DEF Ones, Dword
  <2>3. SpaceInv' /\ PortsInv' /\ BarsInv'
    BY <1>5, <2>1, <2>2
  <2>4. ProbeInv'
    BY <1>2, <2>1 DEF ProbeInv, OnPage
  <2> QED BY <2>3, <2>4 DEF RegInv
<1>8. CASE ReadSize
  <2>1. /\ probe.at = "size" /\ probe'.at = "restore" /\ probe'.val = probe.val /\ UNCHANGED space
    BY <1>8 DEF ReadSize, ProbeTo, ProbeStep
  <2>2. ProbeInv'
    BY <1>2, <2>1 DEF ProbeInv, OnPage
  <2> QED BY <1>4, <2>1, <2>2 DEF RegInv
<1>9. CASE Restore
  <2>1. /\ probe.at = "restore" /\ probe'.at = "base" /\ probe'.val = probe.val
        /\ SetRegister(HECI, 16, probe.val)
    BY <1>9 DEF Restore, ProbeTo, ProbeStep
  <2> DEFINE v == probe.val
  <2>2. v \in Dword /\ v = <<0, v[2], v[3], v[4]>> /\ v[2] % 16 = 0 /\ v[2] \in 0 .. 255
    BY <1>2, <2>1 DEF OnPage, Dword, Byte
  <2>3. /\ SpaceInv' /\ PortsInv' /\ BarsInv'
        /\ Low(HECI)' = <<Low(HECI)[1], v[2] - (v[2] % 16), v[3], v[4]>>
    BY <1>5, <2>1, <2>2
  <2> HIDE DEF v
  <2>4. v[2] - (v[2] % 16) = v[2]
    BY <2>2
  <2>5. Low(HECI)' = <<Low(HECI)[1], v[2], v[3], v[4]>>
    BY <2>3, <2>4
  <2>6. Masked(Low(HECI)') = <<0, v[2], v[3], v[4]>>
    <3>1. Low(HECI)[1] \in 0 .. 255 /\ Low(HECI)[1] < 16
      BY <1>1 DEF Dword, Byte, Kept4K
    <3>2. Low(HECI)[1] - (Low(HECI)[1] % 16) = 0
      BY <3>1
    <3> QED BY <2>5, <3>2 DEF Masked
  <2>7. Masked(Low(HECI))' = v /\ probe'.val = v /\ OnPage(v)
    BY <1>2, <2>1, <2>2, <2>6 DEF v, Masked
  <2>8. ProbeInv'
    BY <2>1, <2>7 DEF ProbeInv, OnPage
  <2> QED BY <2>3, <2>8 DEF RegInv
<1>10. CASE ReadBase
  <2>1. /\ probe.at = "base" /\ probe'.at = "command" /\ probe'.val = probe.val
        /\ probe'.base = Masked(Low(HECI)) /\ UNCHANGED <<space, nsDuring>>
    BY <1>10 DEF ReadBase, ProbeTo, ProbeStep, HeciBar, Low
  <2>2. Low(HECI)' = Low(HECI) /\ (~nsDuring => probe.val = Masked(Low(HECI)))
    BY <2>1 DEF Low, RegInv, ProbeInv
  <2>3. ProbeInv'
    BY <1>2, <2>1, <2>2 DEF ProbeInv, OnPage
  <2> QED BY <1>4, <2>1, <2>3 DEF RegInv
<1>11. CASE ReadCommand \/ SetReads
  <2>1. /\ probe.at \in {"command", "set"} /\ probe'.at \in {"map", "set", "enable"}
        /\ probe'.val = probe.val /\ probe'.base = probe.base /\ UNCHANGED <<space, nsDuring>>
        /\ probe'.at = "map" => Decoding(HECI)
        /\ probe'.at = "enable" => probe'.v = space[HECI][4]
    BY <1>11 DEF ReadCommand, SetReads, ProbeTo, ProbeStep
  <2>2. Low(HECI)' = Low(HECI) /\ Decoding(HECI)' = Decoding(HECI)
    BY <2>1 DEF Low, Decoding
  <2>3. space[HECI][4] \in Dword
    BY <1>0 DEF RegInv, SpaceInv
  <2>4. ~nsDuring => probe.val = Masked(Low(HECI)) /\ probe.base = probe.val
    BY <2>1 DEF RegInv, ProbeInv
  <2>5. ProbeInv'
    BY <1>2, <2>1, <2>2, <2>3, <2>4 DEF ProbeInv, OnPage
  <2> QED BY <1>4, <2>1, <2>5 DEF RegInv
<1>13. CASE SetWrites
  <2> DEFINE c == probe.v
             new == <<c[1] - (c[1] % 8) + (c[1] % 2) + 6, c[2] - (c[2] % 2) + 1, c[3], c[4]>>
  <2>1. /\ probe.at = "enable" /\ probe'.at = "map" /\ probe'.val = probe.val
        /\ probe'.base = probe.base /\ nsDuring' = nsDuring /\ SetRegister(HECI, 4, new)
    BY <1>13 DEF SetWrites, ProbeTo, ProbeStep
  <2>2. c \in Dword
    BY <2>1 DEF RegInv, ProbeInv
  <2>3. /\ c[1] \in 0 .. 255 /\ c[2] \in 0 .. 255 /\ c[3] \in Byte /\ c[4] \in Byte
    BY <2>2 DEF Dword, Byte
  <2>4. /\ c[1] - (c[1] % 8) + (c[1] % 2) + 6 \in 0 .. 255
        /\ ((c[1] - (c[1] % 8) + (c[1] % 2) + 6) % 8) \div 2 = 3
        /\ c[2] - (c[2] % 2) + 1 \in 0 .. 255
    <3> HIDE DEF c
    <3> QED BY <2>3
  <2>5. new \in Dword /\ (new[1] % 8) \div 2 = 3
    <3> DEFINE n1 == c[1] - (c[1] % 8) + (c[1] % 2) + 6
               n2 == c[2] - (c[2] % 2) + 1
    <3>1. n1 \in Byte /\ n2 \in Byte /\ (n1 % 8) \div 2 = 3 /\ new = <<n1, n2, c[3], c[4]>>
      BY <2>4 DEF Byte
    <3> HIDE DEF n1, n2, new, c
    <3> QED BY <2>3, <3>1 DEF Dword
  <2> HIDE DEF new
  <2>6. /\ SpaceInv' /\ PortsInv' /\ BarsInv' /\ Low(HECI)' = Low(HECI)
        /\ space'[HECI][4][1] = new[1]
    <3>1. /\ SpaceInv' /\ PortsInv' /\ BarsInv' /\ Low(HECI)' = Low(HECI)
          /\ space'[HECI][4] = <<new[1], new[2], space[HECI][4][3], space[HECI][4][4]>>
      BY <1>5, <2>1, <2>5
    <3> QED BY <3>1
  <2>7. Decoding(HECI)'
    BY <2>5, <2>6 DEF Decoding
  <2>8. ~nsDuring => probe.val = Masked(Low(HECI)) /\ probe.base = probe.val
    BY <2>1 DEF RegInv, ProbeInv
  <2>9. ProbeInv'
    BY <1>2, <2>1, <2>6, <2>7, <2>8 DEF ProbeInv, OnPage
  <2> QED BY <2>6, <2>9 DEF RegInv
<1>12. CASE MapBase \/ ExchangeEnds
  <2>1. /\ UNCHANGED <<space, nsDuring>>
        /\ \/ probe'.at = "idle"
           \/ /\ probe.at = "map" /\ probe'.at = "mapped"
              /\ probe'.val = probe.val /\ probe'.base = probe.base
    BY <1>12 DEF MapBase, ExchangeEnds, ProbeTo, ProbeStep
  <2>2. Low(HECI)' = Low(HECI) /\ Decoding(HECI)' = Decoding(HECI)
    BY <2>1 DEF Low, Decoding
  <2>3. ProbeInv'
    BY <2>1, <2>2 DEF RegInv, ProbeInv
  <2> QED BY <1>4, <2>1, <2>3 DEF RegInv
<1> QED BY <1>6, <1>7, <1>8, <1>9, <1>10, <1>11, <1>12, <1>13 DEF get_base_addr

(* The non-secure world moves a device of the drivers.                     *)
LEMMA NonSecureSteps ==
  ASSUME RegInv, NonSecure
  PROVE  RegInv'
<1>1. stage = "run" /\ stage' = "run" /\ base' = base
  BY DEF NonSecure, Running, bootVars
<1>2. CASE \E f \in {UART, SPI, HECI} : NsAddress(f)
  <2>1. PICK f \in DriversOf : Start("ns", f, PCI_CONFIG_BAR_OFFSET, 4, 0, MovedBar)
    BY <1>2 DEF NsAddress, DriversOf
  <2>2. /\ cf8' = Before(f, 16) /\ UNCHANGED <<space, moved, bar0, probe, nsDuring>>
        /\ access' = [access EXCEPT !["ns"] =
             [width |-> 4, fn |-> f, reg |-> 16, lane |-> 0, out |-> MovedBar]]
    BY <2>1, FourRegisters DEF Start, probeVars
  <2>3. /\ DOMAIN access' = Users /\ access'["ns"].width = 4 /\ access'["ns"].lane = 0
        /\ access'["ns"].out = MovedBar
    BY <2>2 DEF RegInv, PortsInv, Users
  <2>4. cf8'.fn = f /\ cf8'.reg = 16 /\ cf8' = Before(cf8'.fn, cf8'.reg)
    BY <2>2 DEF Before
  <2>5. SpaceInv'
    BY <2>2 DEF RegInv, SpaceInv, Low, High
  <2>6. PortsInv'
    BY <1>1, <2>3, <2>4, FourRegisters DEF PortsInv
  <2>7. BarsInv'
    BY <1>1, <2>2 DEF RegInv, BarsInv, Low, High, PreModule
  <2>8. ProbeInv'
    BY <2>2 DEF RegInv, ProbeInv, Low, Decoding
  <2> QED BY <2>5, <2>6, <2>7, <2>8 DEF RegInv
<1>3. CASE NsData
  <2>1. /\ access["ns"] # NoAccess /\ hw_write_port("ns") /\ UNCHANGED <<bar0, probe, cf8>>
        /\ access' = [access EXCEPT !["ns"] = NoAccess] /\ moved' = moved \cup {cf8.fn}
        /\ nsDuring' = (nsDuring \/ (cf8 = Address(HECI, PCI_CONFIG_BAR_OFFSET) /\ probe.at # "idle"))
    BY <1>3 DEF NsData, Done
  <2>2. /\ access["ns"].lane = 0 /\ access["ns"].width = 4 /\ access["ns"].out = MovedBar
        /\ cf8.fn \in DriversOf /\ cf8.reg \in {16, 64} /\ cf8 = Before(cf8.fn, cf8.reg)
        /\ MovedBar \in Dword /\ DOMAIN access = Users
    BY <2>1, PciAssumption, FourRegisters DEF RegInv, PortsInv
  <2>3. SetRegister(cf8.fn, cf8.reg, MovedBar)
    BY <2>1, <2>2, WritesDword
  <2>4. /\ SpaceInv'
        /\ \A f \in Devices, r \in Registers : f # cf8.fn \/ r # cf8.reg => space'[f][r] = space[f][r]
        /\ cf8.reg = 64 => space'[cf8.fn][64] = space[cf8.fn][64]
    BY <2>2, <2>3, WriteKeeps DEF RegInv
  <2>5. /\ \A r \in Registers : space'[MODULE_DEV][r] = space[MODULE_DEV][r]
        /\ \A f \in DriversOf : (Low(f)' = Low(f)) \/ (f \in moved' /\ cf8 = Before(f, 16))
        /\ space'[HECI][4] = space[HECI][4]
    <3>1. MODULE_DEV \notin DriversOf /\ MODULE_DEV \in Devices /\ DriversOf \subseteq Devices /\ HECI \in DriversOf
      BY FourDevices DEF DriversOf
    <3>2. \A r \in Registers : space'[MODULE_DEV][r] = space[MODULE_DEV][r]
      BY <2>2, <2>4, <3>1
    <3>3. ASSUME NEW f \in DriversOf PROVE (Low(f)' = Low(f)) \/ (f \in moved' /\ cf8 = Before(f, 16))
      <4>1. CASE f = cf8.fn /\ cf8.reg = 16
        BY <2>1, <2>2, <4>1
      <4>2. CASE f # cf8.fn \/ cf8.reg # 16
        <5>1. f \in Devices /\ 16 \in Registers
          BY <3>1, FourRegisters
        <5>2. space'[f][16] = space[f][16]
          BY <2>4, <4>2, <5>1
        <5> QED BY <5>2, FourRegisters DEF Low
      <4> QED BY <4>1, <4>2
    <3>4. space'[HECI][4] = space[HECI][4]
      BY <2>2, <2>4, <3>1, FourRegisters
    <3> QED BY <3>2, <3>3, <3>4
  <2>6. Low(MODULE_DEV)' = Low(MODULE_DEV) /\ High(MODULE_DEV)' = High(MODULE_DEV)
    BY <2>5, FourRegisters DEF Low, High
  <2>7. PortsInv'
    <3>1. DOMAIN access' = Users /\ access'["ns"] = NoAccess
      BY <2>1, <2>2 DEF Users
    <3> QED BY <1>1, <2>1, <2>2, <3>1 DEF PortsInv
  <2>8. BarsInv'
    <3>1. UART \notin moved' => UART \notin moved /\ Low(UART)' = Low(UART)
      BY <2>1, <2>5 DEF DriversOf
    <3>2. SPI \notin moved' => SPI \notin moved /\ Low(SPI)' = Low(SPI)
      BY <2>1, <2>5 DEF DriversOf
    <3> QED BY <1>1, <2>1, <2>5, <2>6, <3>1, <3>2 DEF RegInv, BarsInv, PreModule
  <2>9. ProbeInv'
    <3>1. probe' = probe /\ Decoding(HECI)' = Decoding(HECI)
      BY <2>1, <2>5, FourRegisters DEF Decoding
    <3>2. ~nsDuring' /\ probe.at # "idle" => ~nsDuring /\ Low(HECI)' = Low(HECI)
      <4>1. Address(HECI, PCI_CONFIG_BAR_OFFSET) = Before(HECI, 16)
        BY FourRegisters
      <4>2. Low(HECI)' = Low(HECI) \/ cf8 = Before(HECI, 16)
        BY <2>5 DEF DriversOf
      <4> QED BY <2>1, <4>1, <4>2
    <3> QED BY <3>1, <3>2 DEF RegInv, ProbeInv
  <2> QED BY <2>4, <2>7, <2>8, <2>9 DEF RegInv
<1> QED BY <1>2, <1>3 DEF NonSecure

(* Every step keeps the registers as the drivers need them.                *)
LEMMA RegStep ==
  ASSUME RegInv, [Next]_vars
  PROVE  RegInv'
<1> USE DEF Reach, bootVars
<1>0. DOMAIN base = {"uart", "cse", "hpet", "spi"}
  BY DEF RegInv, BarsInv
<1>1. CASE InitUartAddress \/ RemapAddress \/ SpiAddress
  BY <1>1, BootAddress DEF InitUartAddress, RemapAddress, SpiAddress
<1>2. CASE init_uart \/ uart_remap \/ spi_mmu_init
  BY <1>2, BootData
<1>3. CASE ModuleAccess
  BY <1>3, ModuleStart
<1>4. CASE ModuleData
  BY <1>4, ModuleWrites
<1>5. CASE ModuleReadsBar
  BY <1>5, ModuleBar
<1>6. CASE start \/ HeapInit \/ NoModule \/ platform_update_pagetable \/ smc_x86_init
  BY <1>6, StageOnly DEF start, HeapInit, NoModule, platform_update_pagetable, smc_x86_init, PreModule
<1>7. CASE prepare_secinfo_region \/ smc_init \/ SysenterCheck
  BY <1>7, StageOnly DEF prepare_secinfo_region, smc_init, SysenterCheck, PreModule
<1>8. CASE cse_init
  <2>1. /\ stage = "cse" /\ stage' = "sysenter" /\ UNCHANGED pciVars
        /\ DOMAIN base' = DOMAIN base /\ base'.uart = base.uart /\ base'.spi = base.spi
    BY <1>0, <1>8 DEF cse_init
  <2> QED BY <2>1, StageOnly DEF PreModule
<1>9. CASE Mp \/ WildAccess \/ lpss_spi_access
  BY <1>9, StageOnly DEF Mp, WildAccess, lpss_spi_access
<1>10. CASE ReadFuse \/ FuseRead
  BY <1>10, FuseSteps
<1>11. CASE BeginExchange \/ Exchange
  <2>1. stage = "run" /\ stage' = stage /\ base' = base /\ (ReadBar \/ get_base_addr)
    BY <1>11 DEF BeginExchange, Exchange, Running
  <2> QED BY <2>1, ProbeSteps
<1>12. CASE NonSecure
  BY <1>12, NonSecureSteps
<1>13. CASE UNCHANGED vars
  BY <1>13, StageOnly DEF vars
<1> QED BY <1>1, <1>2, <1>3, <1>4, <1>5, <1>6, <1>7, <1>8, <1>9, <1>10, <1>11, <1>12, <1>13
        DEF Next, Boot

(* What heci_get_base_addr has mapped is where the CSE's registers are, it *)
(* decodes them, and its BAR is what the probe found: for any boot, any    *)
(* interleaving of the ports' users and any address firmware gave the CSE  *)
(* below 4 GB, as long as the non-secure world leaves the CSE where it is  *)
(* meanwhile.                                                              *)
THEOREM ProbeRestores == ASSUME Placed4G PROVE Spec => []BaseIsBar
<1>1. Init => RegInv
  BY RegInit
<1>2. RegInv => BaseIsBar
  <2> SUFFICES ASSUME RegInv, probe.at = "mapped", ~nsDuring
               PROVE  /\ probe.base = probe.val /\ probe.base \o Zeros = Bar0Of(HECI)
                      /\ Decoding(HECI)
    BY DEF BaseIsBar
  <2>1. /\ probe.base = probe.val /\ probe.val = Masked(Low(HECI)) /\ Decoding(HECI)
    BY DEF RegInv, ProbeInv
  <2>2. Is64(Low(HECI)) => High(HECI) = Zeros
    BY DEF RegInv, SpaceInv, DriversOf
  <2>3. Bar0Of(HECI) = Masked(Low(HECI)) \o Zeros
    BY <2>2 DEF Bar0Of, Low, High
  <2> QED BY <2>1, <2>3
<1> QED BY <1>1, <1>2, RegStep, PTL DEF Spec

(* Each driver's registers are those of its device from the boot on, and   *)
(* pci_read_bar0 finds a device of any width: for any devices and modules, *)
(* when firmware has put the drivers' devices below 4 GB.                  *)
THEOREM DriversFind == ASSUME Placed4G PROVE Spec => []DevicesReached
<1>1. Init => RegInv
  BY RegInit
<1>2. RegInv => DevicesReached
  <2> SUFFICES ASSUME RegInv PROVE DevicesReached
    OBVIOUS
  <2>1. ASSUME NEW f \in DriversOf PROVE Bar0Of(f) = Masked(Low(f)) \o Zeros
    <3>1. Is64(Low(f)) => High(f) = Zeros
      BY DEF RegInv, SpaceInv
    <3> QED BY <3>1 DEF Bar0Of, Low, High
  <2>2. base.uart # NoBase /\ UART \notin moved => base.uart.reg \o Zeros = Bar0Of(UART)
    BY <2>1 DEF RegInv, BarsInv, DriversOf
  <2>3. base.spi.route = "window" /\ SPI \notin moved => base.spi.reg \o Zeros = Bar0Of(SPI)
    BY <2>1 DEF RegInv, BarsInv, DriversOf
  <2>4. ASSUME Len(bar0) = 8
        PROVE  Masked(SubSeq(bar0, 1, 4)) \o SubSeq(bar0, 5, 8) = Bar0Of(MODULE_DEV)
    <3> DEFINE low == Low(MODULE_DEV)
               high == IF Is64(low) THEN High(MODULE_DEV) ELSE Zeros
    <3>1. bar0 # <<>>
      BY <2>4
    <3>2. bar0 = low \o high
      BY <2>4 DEF RegInv, BarsInv
    <3>3. low \in Dword /\ High(MODULE_DEV) \in Dword
      BY <3>1, FourRegisters DEF RegInv, BarsInv, Low, High
    <3>4. Zeros \in Dword
      <4>1. 0 \in Byte
        BY DEF Byte
      <4> QED BY <4>1 DEF Zeros, Dword
    <3>5. high \in Dword /\ Bar0Of(MODULE_DEV) = Masked(low) \o high
      BY <3>3, <3>4 DEF Bar0Of, Low, High
    <3> HIDE DEF low, high
    <3> QED BY <3>2, <3>3, <3>5, TwoHalves
  <2> QED BY <2>2, <2>3, <2>4 DEF DevicesReached
<1> QED BY <1>1, <1>2, RegStep, PTL DEF Spec

-----------------------------------------------------------------------------
(* Types.                                                                  *)
(* What an access in progress may be, besides TypeOK: what it writes are   *)
(* bytes, and the non-secure world writes a whole dword.                   *)
Written(a) == a.out = <<>> \/ (a.width \in {1, 2, 4} /\ a.out \in [1 .. a.width -> Byte])

Fits(a) ==
  /\ a.width \in {1, 2, 4} /\ a.lane \in 0 .. 3 /\ a.lane + a.width <= 4
  /\ Written(a)

MovesBar(a) == a.width = 4 /\ a.lane = 0 /\ a.out = MovedBar

PciTypes ==
  /\ space \in [Devices -> [Registers -> Dword]]
  /\ cf8 \in [fn : Devices, reg : Registers]
  /\ DOMAIN access = Users
  /\ \A u \in Users : access[u] # NoAccess => Fits(access[u])
  /\ access["ns"] # NoAccess => MovesBar(access["ns"])
  /\ disturbed \subseteq Users /\ moved \subseteq Devices /\ nsUses \in 0 .. MaxNs
  /\ probe.val \in Dword /\ probe.v \in Dword

(* An access as the platform's steps start it.                             *)
Begins(u, fn, reg, width, lane, out) ==
  /\ fn \in Devices /\ Address(fn, reg) \in [fn : Devices, reg : Registers]
  /\ Fits([width |-> width, fn |-> fn, reg |-> reg, lane |-> lane, out |-> out])
  /\ u = "ns" => width = 4 /\ lane = 0 /\ out = MovedBar /\ nsUses < MaxNs
  /\ Start(u, fn, reg, width, lane, out)

TypedStart == \E u \in Users : \E fn, reg, width, lane, out : Begins(u, fn, reg, width, lane, out)

(* How a step may treat the ports and the registers.                       *)
PortsTyped ==
  \/ UNCHANGED <<portVars, nsUses>>
  \/ \E u \in Users : Done(u)
  \/ TypedStart

RegistersTyped ==
  \/ UNCHANGED space
  \/ \E fn \in Devices, reg \in Registers, new \in Dword : SetRegister(fn, reg, new)

(* Bytes side by side.                                                     *)
LEMMA ShortTuples ==
  /\ \A a \in Byte : <<a>> \in [1 .. 1 -> Byte]
  /\ \A a, b \in Byte : <<a, b>> \in [1 .. 2 -> Byte]
  /\ \A a, b, c, d \in Byte : <<a, b, c, d>> \in Dword
<1>1. \A a \in Byte : <<a>> \in [1 .. 1 -> Byte]
  OBVIOUS
<1>2. \A a, b \in Byte : <<a, b>> \in [1 .. 2 -> Byte]
  OBVIOUS
<1>3. \A a, b, c, d \in Byte : <<a, b, c, d>> \in Dword
  BY DEF Dword
<1> QED BY <1>1, <1>2, <1>3

(* What a function keeps of a dword is a dword.                            *)
LEMMA KeptIs ==
  ASSUME NEW fn, NEW reg, NEW new \in Dword, space[fn][reg] \in Dword
  PROVE  Kept(fn, reg, new) \in Dword
<1> DEFINE old == space[fn][reg]
<1>1. \A i \in 1 .. 4 : old[i] \in 0 .. 255 /\ new[i] \in 0 .. 255
  BY DEF Dword, Byte
<1> HIDE DEF old
<1>2. old[1] % 16 \in Byte /\ new[2] - (new[2] % 16) \in Byte
  BY <1>1 DEF Byte
<1>3. \A i \in 1 .. 4 : old[i] \in Byte /\ new[i] \in Byte
  BY <1>1 DEF Byte
<1>4. <<old[1] % 16, new[2] - (new[2] % 16), new[3], new[4]>> \in Dword
  BY <1>2, <1>3 DEF Dword
<1>5. <<new[1], new[2], old[3], old[4]>> \in Dword
  BY <1>3 DEF Dword
<1> QED BY <1>4, <1>5 DEF Kept, old

(* What goes to the data port is the old dword with the bytes of the lane. *)
LEMMA PortWrites ==
  ASSUME PciTypes, NEW u \in Users, access[u] # NoAccess, access[u].out # <<>>, hw_write_port(u)
  PROVE  RegistersTyped
<1> DEFINE a == access[u]
           old == space[cf8.fn][cf8.reg]
           new == [i \in 1 .. 4 |-> IF i - a.lane \in 1 .. a.width THEN a.out[i - a.lane] ELSE old[i]]
<1>1. cf8.fn \in Devices /\ cf8.reg \in Registers
  BY DEF PciTypes
<1>2. old \in Dword
  BY <1>1 DEF PciTypes
<1>3. a.width \in {1, 2, 4} /\ a.out \in [1 .. a.width -> Byte]
  BY DEF PciTypes, Fits, Written
<1>4. SetRegister(cf8.fn, cf8.reg, new)
  BY DEF hw_write_port
<1> HIDE DEF a, old
<1>5. new \in Dword
  BY <1>2, <1>3 DEF Dword
<1> HIDE DEF new
<1> QED BY <1>1, <1>4, <1>5 DEF RegistersTyped

-----------------------------------------------------------------------------
(* Each way to treat the ports keeps their types.                          *)
LEMMA PortsKeepTypes ==
  ASSUME PciTypes, PortsTyped
  PROVE  /\ cf8' \in [fn : Devices, reg : Registers] /\ DOMAIN access' = Users
         /\ \A u \in Users : access'[u] # NoAccess => Fits(access'[u])
         /\ access'["ns"] # NoAccess => MovesBar(access'["ns"])
         /\ disturbed' \subseteq Users /\ nsUses' \in 0 .. MaxNs
<1> USE DEF Users
<1>1. CASE UNCHANGED <<portVars, nsUses>>
  BY <1>1 DEF PciTypes, portVars
<1>2. CASE \E u \in Users : Done(u)
  <2>1. PICK u \in Users : Done(u)
    BY <1>2
  <2>2. /\ access' = [access EXCEPT ![u] = NoAccess] /\ disturbed' = disturbed \ {u}
        /\ cf8' = cf8 /\ nsUses' = nsUses
    BY <2>1 DEF Done
  <2> QED BY <2>2 DEF PciTypes
<1>3. CASE TypedStart
  <2>0. PICK u \in Users : \E fn, reg, width, lane, out : Begins(u, fn, reg, width, lane, out)
    BY <1>3 DEF TypedStart
  <2>1. PICK fn, reg, width, lane, out : Begins(u, fn, reg, width, lane, out)
    BY <2>0
  <2> DEFINE new == [width |-> width, fn |-> fn, reg |-> reg, lane |-> lane, out |-> out]
  <2>2. /\ access' = [access EXCEPT ![u] = new] /\ cf8' = Address(fn, reg)
        /\ disturbed' = IF u = "ns" THEN disturbed \cup {v \in Users : access[v] # NoAccess}
                        ELSE disturbed \ {u}
        /\ nsUses' = IF u = "ns" THEN nsUses + 1 ELSE nsUses
    BY <2>1 DEF Begins, Start
  <2>3. Fits(new) /\ (u = "ns" => MovesBar(new) /\ nsUses < MaxNs)
    BY <2>1 DEF Begins, MovesBar
  <2>4. cf8' \in [fn : Devices, reg : Registers]
    BY <2>1, <2>2 DEF Begins
  <2> HIDE DEF new
  <2>5. /\ DOMAIN access' = Users
        /\ \A v \in Users : access'[v] = IF v = u THEN new ELSE access[v]
    BY <2>2 DEF PciTypes
  <2>6. nsUses' \in 0 .. MaxNs
    BY <2>2, <2>3, PciAssumption DEF PciTypes
  <2> QED BY <2>2, <2>3, <2>4, <2>5, <2>6 DEF PciTypes
<1> QED BY <1>1, <1>2, <1>3 DEF PortsTyped

(* So does each way to treat the registers.                                *)
LEMMA RegistersKeepTypes ==
  ASSUME PciTypes, RegistersTyped
  PROVE  space' \in [Devices -> [Registers -> Dword]]
<1>1. CASE UNCHANGED space
  BY <1>1 DEF PciTypes
<1>2. CASE ~UNCHANGED space
  <2>1. PICK fn \in Devices, reg \in Registers, new \in Dword : SetRegister(fn, reg, new)
    BY <1>2 DEF RegistersTyped
  <2>2. Kept(fn, reg, new) \in Dword
    BY KeptIs DEF PciTypes
  <2> QED BY <2>1, <2>2 DEF SetRegister, PciTypes
<1> QED BY <1>1, <1>2

-----------------------------------------------------------------------------
(* The platform's steps are of these kinds.                                *)
LEMMA ReadBegins ==
  ASSUME NEW u \in {"boot", "keymaster"}, NEW fn \in Devices, NEW reg \in {16, 20, 64},
         pci_read32(u, fn, reg)
  PROVE  TypedStart
<1>1. Start(u, fn, reg, 4, 0, <<>>)
  BY DEF pci_read32
<1>2. Address(fn, reg) \in [fn : Devices, reg : Registers]
  BY FourRegisters DEF Before
<1>3. Fits([width |-> 4, fn |-> fn, reg |-> reg, lane |-> 0, out |-> <<>>])
  BY DEF Fits, Written
<1>4. u \in Users /\ u # "ns"
  BY DEF Users
<1>5. Begins(u, fn, reg, 4, 0, <<>>)
  BY <1>1, <1>2, <1>3, <1>4 DEF Begins
<1> QED BY <1>4, <1>5 DEF TypedStart

(* What a module asks lies within its dword, whatever its width.           *)
LEMMA ModuleBegins == ModuleAccess => TypedStart
<1> SUFFICES ASSUME ModuleAccess PROVE TypedStart
  OBVIOUS
<1> DEFINE as(reg, width, lane, out) ==
      [width |-> width, fn |-> MODULE_DEV, reg |-> reg, lane |-> lane, out |-> out]
<1>0. "boot" \in Users /\ "boot" # "ns" /\ MODULE_DEV \in Devices
  BY FourDevices DEF Users
<1>1. ASSUME NEW reg, NEW width, NEW lane, NEW out, Start("boot", MODULE_DEV, reg, width, lane, out),
             reg - (reg % 4) \in Registers,
             width \in {1, 2, 4}, lane \in 0 .. 3, lane + width <= 4,
             out = <<>> \/ out \in [1 .. width -> Byte]
      PROVE  TypedStart
  <2>1. Fits(as(reg, width, lane, out))
    BY <1>1 DEF Fits, Written
  <2>2. Address(MODULE_DEV, reg) \in [fn : Devices, reg : Registers]
    BY <1>0, <1>1 DEF Address
  <2>3. Begins("boot", MODULE_DEV, reg, width, lane, out)
    BY <1>0, <1>1, <2>1, <2>2 DEF Begins
  <2> QED BY <1>0, <2>3 DEF TypedStart
<1> HIDE DEF as
<1>2. << 1 >> \in [1 .. 1 -> Byte] /\ <<1, 2>> \in [1 .. 2 -> Byte] /\ <<6, 0, 0, 0>> \in [1 .. 4 -> Byte]
  <2>1. {0, 1, 2, 6} \subseteq Byte
    BY DEF Byte
  <2> QED BY <2>1, ShortTuples DEF Dword
<1>3. CASE pci_write32("boot", MODULE_DEV, PCI_COMMAND_OFFSET, <<6, 0, 0, 0>>)
  <2>1. Start("boot", MODULE_DEV, 4, 4, 0, <<6, 0, 0, 0>>)
    BY <1>3, FourRegisters DEF pci_write32
  <2>2. 4 - (4 % 4) \in Registers /\ 4 \in {1, 2, 4} /\ 0 \in 0 .. 3 /\ 0 + 4 <= 4
    BY FourRegisters
  <2> QED BY <1>1, <1>2, <2>1, <2>2, Zenon
<1>4. ASSUME NEW reg \in ModuleRegs
      PROVE  /\ reg - (reg % 4) \in Registers /\ reg % 4 \in 0 .. 3
             /\ reg % 2 = 0 => /\ reg % 4 \in {0, 2}
                               /\ 2 * ((reg % 4) \div 2) \in {0, 2}
  <2>1. reg \in 16 .. 23
    BY PlatformAssumption, FourRegisters
  <2>2. reg - (reg % 4) \in {16, 20} /\ reg % 4 \in 0 .. 3 /\ (reg % 2 = 0 => reg % 4 \in {0, 2})
    BY <2>1
  <2>3. \A n \in {0, 2} : 2 * (n \div 2) \in {0, 2}
    OBVIOUS
  <2> QED BY <2>2, <2>3, FourRegisters
<1>5. ASSUME NEW reg \in ModuleRegs, pci_read8("boot", MODULE_DEV, reg) PROVE TypedStart
  <2>1. Start("boot", MODULE_DEV, reg, 1, reg % 4, <<>>)
    BY <1>5 DEF pci_read8
  <2> QED BY <1>1, <1>4, <2>1
<1>6. ASSUME NEW reg \in ModuleRegs, pci_write8("boot", MODULE_DEV, reg, << 1 >>) PROVE TypedStart
  <2>1. Start("boot", MODULE_DEV, reg, 1, reg % 4, << 1 >>)
    BY <1>6 DEF pci_write8
  <2>2. 1 \in {1, 2, 4} /\ reg % 4 \in 0 .. 3 /\ (reg % 4) + 1 <= 4
    BY <1>4
  <2> QED BY <1>1, <1>2, <1>4, <2>1, <2>2, Zenon
<1>7. ASSUME NEW reg \in ModuleRegs, reg % 2 = 0, pci_read16("boot", MODULE_DEV, reg) PROVE TypedStart
  <2>1. Start("boot", MODULE_DEV, reg, 2, reg % 4, <<>>)
    BY <1>7 DEF pci_read16
  <2> QED BY <1>1, <1>4, <1>7, <2>1
<1>8. ASSUME NEW reg \in ModuleRegs, reg % 2 = 0, pci_write16("boot", MODULE_DEV, reg, <<1, 2>>)
      PROVE  TypedStart
  <2> DEFINE lane == 2 * ((reg % 4) \div 2)
  <2>1. Start("boot", MODULE_DEV, reg, 2, lane, <<1, 2>>)
    BY <1>8 DEF pci_write16
  <2>2. lane \in {0, 2}
    BY <1>4, <1>8
  <2> HIDE DEF lane
  <2>3. 2 \in {1, 2, 4} /\ lane \in 0 .. 3 /\ lane + 2 <= 4
    BY <2>2
  <2> QED BY <1>1, <1>2, <1>4, <2>1, <2>3, Zenon
<1> QED BY <1>3, <1>5, <1>6, <1>7, <1>8 DEF ModuleAccess

(* All the steps: each keeps to its width and its register.                *)
LEMMA NextPortsTyped == [Next]_vars => PortsTyped
<1> SUFFICES ASSUME [Next]_vars PROVE PortsTyped
  OBVIOUS
<1>0. /\ "boot" \in Users /\ "keymaster" \in Users /\ "ns" \in Users
      /\ {UART, SPI, HECI, MODULE_DEV} \subseteq Devices
      /\ Function(PCI_GET_ADDRESS(MODULE_DEV)) = MODULE_DEV
  BY FourDevices, AddressNames DEF Users
<1>1. ASSUME UNCHANGED pciVars PROVE PortsTyped
  BY <1>1 DEF PortsTyped, pciVars
<1>2. CASE InitUartAddress \/ RemapAddress \/ SpiAddress
  <2>1. \E fn \in Devices : pci_read32("boot", fn, 16)
    BY <1>0, <1>2, FourRegisters DEF InitUartAddress, RemapAddress, SpiAddress
  <2> QED BY <2>1, ReadBegins DEF PortsTyped
<1>3. CASE ModuleAccess
  BY <1>3, ModuleBegins DEF PortsTyped
<1>4. CASE init_uart \/ uart_remap \/ ModuleData \/ spi_mmu_init
  <2>1. Done("boot")
    BY <1>4, Zenon DEF init_uart, uart_remap, ModuleData, spi_mmu_init
  <2> QED BY <1>0, <2>1 DEF PortsTyped
<1>5. CASE ModuleReadsBar
  <2> DEFINE loc == PCI_GET_ADDRESS(MODULE_DEV)
  <2>1. \/ pci_read_bar0(loc) \/ Bar0NextHigh(loc)
        \/ Bar0Low(loc) \/ Bar0High(loc)
        \/ UNCHANGED pciVars
    BY <1>5, Zenon DEF ModuleReadsBar
  <2>2. CASE pci_read_bar0(loc) \/ Bar0NextHigh(loc)
    <3>1. pci_read32("boot", MODULE_DEV, 16) \/ pci_read32("boot", MODULE_DEV, 20)
      BY <1>0, <2>2, FourRegisters DEF pci_read_bar0, Bar0NextHigh
    <3> QED BY <1>0, <3>1, ReadBegins DEF PortsTyped
  <2>3. CASE Bar0Low(loc) \/ Bar0High(loc)
    <3>1. Done("boot")
      BY <2>3, Zenon DEF Bar0Low, Bar0High
    <3> QED BY <1>0, <3>1 DEF PortsTyped
  <2> QED BY <1>1, <2>1, <2>2, <2>3
<1>6. CASE \/ start \/ HeapInit \/ NoModule \/ prepare_secinfo_region \/ smc_init
           \/ cse_init \/ SysenterCheck \/ platform_update_pagetable \/ smc_x86_init
  <2>1. UNCHANGED pciVars
    BY <1>6, Zenon DEF start, HeapInit, NoModule, prepare_secinfo_region, smc_init,
         cse_init, SysenterCheck, platform_update_pagetable, smc_x86_init
  <2> QED BY <1>1, <2>1
<1>7. CASE ReadFuse
  <2>1. pci_read32("keymaster", HECI, 64)
    BY <1>7, FourRegisters DEF ReadFuse
  <2> QED BY <1>0, <2>1, ReadBegins DEF PortsTyped
<1>8. CASE FuseRead
  BY <1>0, <1>8, Zenon DEF FuseRead, PortsTyped
<1>9. CASE BeginExchange \/ Exchange
  <2>1. ReadBar \/ get_base_addr
    BY <1>9, Zenon DEF BeginExchange, Exchange
  <2>2. \E at, val, b, v : ProbeStep(at, val, b, v)
    BY <2>1, Zenon DEF ProbeTo, ReadBar, get_base_addr, WriteOnes, ReadSize, Restore, ReadBase,
          ReadCommand, SetReads, SetWrites, MapBase, ExchangeEnds
  <2> QED BY <2>2 DEF ProbeStep, PortsTyped
<1>10. CASE NonSecure
  <2>1. CASE NsData
    BY <1>0, <2>1, Zenon DEF NsData, PortsTyped
  <2>2. CASE \E f \in {UART, SPI, HECI} : NsAddress(f)
    <3>1. PICK f \in {UART, SPI, HECI} :
                 nsUses < MaxNs /\ Start("ns", f, 16, 4, 0, MovedBar)
      BY <2>2, FourRegisters DEF NsAddress
    <3>2. f \in Devices /\ Address(f, 16) \in [fn : Devices, reg : Registers]
      BY <1>0, FourRegisters DEF Before
    <3>3. Fits([width |-> 4, fn |-> f, reg |-> 16, lane |-> 0, out |-> MovedBar])
      BY PciAssumption DEF Fits, Written, Dword
    <3>4. Begins("ns", f, 16, 4, 0, MovedBar)
      BY <3>1, <3>2, <3>3 DEF Begins
    <3> QED BY <1>0, <3>4 DEF PortsTyped, TypedStart
  <2> QED BY <1>10, <2>1, <2>2, Zenon DEF NonSecure
<1>11. CASE Mp \/ WildAccess \/ lpss_spi_access \/ UNCHANGED vars
  <2>1. UNCHANGED pciVars
    BY <1>11 DEF Mp, WildAccess, lpss_spi_access, vars
  <2> QED BY <1>1, <2>1
<1> QED BY <1>2, <1>3, <1>4, <1>5, <1>6, <1>7, <1>8, <1>9, <1>10, <1>11, Zenon DEF Next, Boot

(* Only dwords are written to the registers.                               *)
LEMMA NextRegistersTyped ==
  ASSUME PciTypes, [Next]_vars
  PROVE  RegistersTyped
<1>0. /\ "boot" \in Users /\ "ns" \in Users /\ HECI \in Devices
      /\ 16 \in Registers /\ 4 \in Registers
  BY FourDevices, FourRegisters DEF Users
<1>1. ASSUME UNCHANGED space PROVE RegistersTyped
  BY <1>1 DEF RegistersTyped
<1>2. CASE ModuleData
  <2>1. access["boot"] # NoAccess
    BY <1>2, Zenon DEF ModuleData, Done
  <2>2. UNCHANGED space \/ (access["boot"].out # <<>> /\ hw_write_port("boot"))
    BY <1>2, Zenon DEF ModuleData
  <2> QED BY <1>0, <1>1, <2>1, <2>2, PortWrites
<1>3. CASE NonSecure
  <2>1. CASE NsData
    <3>1. access["ns"] # NoAccess /\ hw_write_port("ns")
      BY <2>1, Zenon DEF NsData, Done
    <3>2. access["ns"].out # <<>>
      <4>1. Len(MovedBar) = 4 /\ Len(<<>>) = 0
        BY PciAssumption, WholeDword
      <4>2. access["ns"].out = MovedBar
        BY <3>1 DEF PciTypes, MovesBar
      <4> QED BY <4>1, <4>2
    <3> QED BY <1>0, <3>1, <3>2, PortWrites
  <2>2. CASE \E f \in {UART, SPI, HECI} : NsAddress(f)
    <3>1. UNCHANGED space
      BY <2>2, Zenon DEF NsAddress, Start
    <3> QED BY <1>1, <3>1
  <2> QED BY <1>3, <2>1, <2>2, Zenon DEF NonSecure
<1>4. CASE BeginExchange \/ Exchange
  <2>1. \/ ReadBar \/ ReadSize \/ ReadBase \/ MapBase \/ ExchangeEnds
        \/ WriteOnes \/ Restore \/ ReadCommand \/ SetReads \/ SetWrites
    BY <1>4, Zenon DEF BeginExchange, Exchange, get_base_addr
  <2>2. CASE ReadBar \/ ReadSize \/ ReadBase \/ MapBase \/ ExchangeEnds
    BY <1>1, <2>2 DEF ReadBar, ReadSize, ReadBase, MapBase, ExchangeEnds
  <2>3. CASE WriteOnes
    <3>1. Ones \in Dword
      <4>1. 255 \in Byte
        BY DEF Byte
      <4> QED BY <4>1, ShortTuples DEF Ones
    <3>2. SetRegister(HECI, 16, Ones)
      BY <2>3, FourRegisters DEF WriteOnes
    <3> QED BY <1>0, <3>1, <3>2 DEF RegistersTyped
  <2>4. CASE Restore
    <3>1. SetRegister(HECI, 16, probe.val)
      BY <2>4, FourRegisters DEF Restore
    <3> QED BY <1>0, <3>1 DEF RegistersTyped, PciTypes
  <2>6. CASE ReadCommand \/ SetReads
    BY <1>1, <2>6 DEF ReadCommand, SetReads
  <2>5. CASE SetWrites
    <3> DEFINE c == probe.v
               n == <<c[1] - (c[1] % 8) + (c[1] % 2) + 6, c[2] - (c[2] % 2) + 1, c[3], c[4]>>
    <3>1. SetRegister(HECI, 4, n)
      BY <2>5, FourRegisters DEF SetWrites
    <3>2. \A i \in 1 .. 4 : c[i] \in 0 .. 255
      BY <1>0 DEF PciTypes, Dword, Byte
    <3> HIDE DEF c
    <3>3. /\ c[1] - (c[1] % 8) + (c[1] % 2) + 6 \in Byte /\ c[2] - (c[2] % 2) + 1 \in Byte
          /\ c[3] \in Byte /\ c[4] \in Byte
      <4>1. c[1] \in 0 .. 255 /\ c[2] \in 0 .. 255 /\ c[3] \in 0 .. 255 /\ c[4] \in 0 .. 255
        BY <3>2
      <4>2. \A k \in 0 .. 255 : /\ k - (k % 8) + (k % 2) + 6 \in 0 .. 255
                                /\ k - (k % 2) + 1 \in 0 .. 255
        BY SMT
      <4> QED BY <4>1, <4>2 DEF Byte
    <3>4. n \in Dword
      BY <3>3 DEF Dword
    <3> HIDE DEF n
    <3> QED BY <1>0, <3>1, <3>4 DEF RegistersTyped
  <2> QED BY <2>1, <2>2, <2>3, <2>4, <2>5, <2>6
<1>5. ASSUME pciVars' = pciVars \/ UNCHANGED space PROVE RegistersTyped
  BY <1>1, <1>5 DEF pciVars
<1>6. CASE \/ InitUartAddress \/ RemapAddress \/ SpiAddress \/ ModuleAccess \/ ReadFuse
           \/ init_uart \/ uart_remap \/ spi_mmu_init \/ FuseRead
  <2>1. UNCHANGED space
    BY <1>6, Zenon DEF InitUartAddress, RemapAddress, SpiAddress, ModuleAccess, ReadFuse, init_uart,
         uart_remap, spi_mmu_init, FuseRead, pci_read8, pci_write8, pci_read16, pci_write16,
         pci_read32, pci_write32, Start
  <2> QED BY <1>1, <2>1
<1>7. CASE ModuleReadsBar
  <2>1. UNCHANGED space \/ UNCHANGED pciVars
    BY <1>7, Zenon DEF ModuleReadsBar, pci_read_bar0, Bar0Low, Bar0NextHigh, Bar0High, pci_read32, Start
  <2> QED BY <1>5, <2>1
<1>8. CASE \/ start \/ HeapInit \/ NoModule \/ prepare_secinfo_region \/ smc_init
           \/ cse_init \/ SysenterCheck \/ platform_update_pagetable \/ smc_x86_init
           \/ Mp \/ WildAccess \/ lpss_spi_access
  <2>1. UNCHANGED pciVars
    BY <1>8, Zenon DEF start, HeapInit, NoModule, prepare_secinfo_region, smc_init,
         cse_init, SysenterCheck, platform_update_pagetable, smc_x86_init, Mp, WildAccess, lpss_spi_access
  <2> QED BY <1>5, <2>1
<1>9. CASE UNCHANGED vars
  BY <1>5, <1>9 DEF vars
<1> QED BY <1>2, <1>3, <1>4, <1>6, <1>7, <1>8, <1>9, Zenon DEF Next, Boot

(* The probe remembers a dword, and the non-secure world moves functions.  *)
LEMMA NextProbeTyped ==
  ASSUME PciTypes, [Next]_vars
  PROVE  probe'.val \in Dword /\ probe'.v \in Dword /\ moved' \subseteq Devices
<1> USE DEF PciTypes
<1>0. HECI \in Devices /\ 16 \in Registers
  BY FourDevices, FourRegisters
<1>1. CASE BeginExchange
  <2>1. ReadBar
    BY <1>1, Zenon DEF BeginExchange
  <2>2. probe'.val = Masked(space[HECI][16]) /\ probe'.v = probe.v /\ moved' = moved
    BY <2>1, FourRegisters DEF ReadBar, ProbeTo, ProbeStep, HeciBar
  <2>3. Masked(space[HECI][16]) \in Dword
    <3> DEFINE d == space[HECI][16]
    <3>1. \A i \in 1 .. 4 : d[i] \in 0 .. 255
      BY <1>0 DEF Dword, Byte
    <3> HIDE DEF d
    <3>2. d[1] - (d[1] % 16) \in Byte /\ d[2] \in Byte /\ d[3] \in Byte /\ d[4] \in Byte
      BY <3>1 DEF Byte
    <3>3. Masked(d) \in Dword
      BY <3>2 DEF Dword, Masked
    <3> QED BY <3>3 DEF d
  <2> QED BY <2>2, <2>3
<1>2. CASE Exchange
  <2>1. \E at, b : \/ ProbeStep(at, probe.val, b, probe.v)
                    \/ ProbeStep(at, probe.val, b, space[HECI][PCI_COMMAND_OFFSET])
    BY <1>2, Zenon DEF ProbeTo, Exchange, get_base_addr, WriteOnes, ReadSize, Restore, ReadBase,
          ReadCommand, SetReads, SetWrites, MapBase, ExchangeEnds
  <2>2. space[HECI][PCI_COMMAND_OFFSET] \in Dword
    BY <1>0, FourRegisters
  <2> QED BY <2>1, <2>2 DEF ProbeStep
<1>3. CASE NonSecure
  <2>1. CASE NsData
    <3>1. moved' = moved \cup {cf8.fn} /\ probe' = probe
      BY <2>1 DEF NsData
    <3> QED BY <3>1
  <2>2. CASE \E f \in {UART, SPI, HECI} : NsAddress(f)
    BY <2>2 DEF NsAddress, Start, probeVars
  <2> QED BY <1>3, <2>1, <2>2, Zenon DEF NonSecure
<1>4. ASSUME pciVars' = pciVars \/ UNCHANGED <<moved, probeVars>>
      PROVE  probe'.val \in Dword /\ probe'.v \in Dword /\ moved' \subseteq Devices
  BY <1>4 DEF pciVars, probeVars
<1>5. CASE \/ InitUartAddress \/ RemapAddress \/ SpiAddress \/ ModuleAccess \/ ReadFuse
           \/ init_uart \/ uart_remap \/ spi_mmu_init \/ FuseRead \/ ModuleData
  <2>1. UNCHANGED <<moved, probeVars>>
    BY <1>5, Zenon DEF InitUartAddress, RemapAddress, SpiAddress, ModuleAccess, ReadFuse, init_uart,
         uart_remap, spi_mmu_init, FuseRead, ModuleData, pci_read8, pci_write8, pci_read16, pci_write16,
         pci_read32, pci_write32, Start
  <2> QED BY <1>4, <2>1
<1>6. CASE ModuleReadsBar
  <2>1. UNCHANGED <<moved, probeVars>> \/ UNCHANGED pciVars
    BY <1>6, Zenon DEF ModuleReadsBar, pci_read_bar0, Bar0Low, Bar0NextHigh, Bar0High, pci_read32, Start
  <2> QED BY <1>4, <2>1
<1>7. CASE \/ start \/ HeapInit \/ NoModule \/ prepare_secinfo_region \/ smc_init
           \/ cse_init \/ SysenterCheck \/ platform_update_pagetable \/ smc_x86_init
           \/ Mp \/ WildAccess \/ lpss_spi_access
  <2>1. UNCHANGED pciVars
    BY <1>7, Zenon DEF start, HeapInit, NoModule, prepare_secinfo_region, smc_init,
         cse_init, SysenterCheck, platform_update_pagetable, smc_x86_init, Mp, WildAccess, lpss_spi_access
  <2> QED BY <1>4, <2>1
<1>8. CASE UNCHANGED vars
  BY <1>4, <1>8 DEF vars
<1> QED BY <1>1, <1>2, <1>3, <1>5, <1>6, <1>7, <1>8, Zenon DEF Next, Boot

(* The start of the processors: the patch is numbers, and the counter      *)
(* counts.                                                                 *)
LEMMA MpTypesStep ==
  ASSUME MpTypeOK, [Next]_vars
  PROVE  MpTypeOK'
<1> USE DEF MpTypeOK
<1>0. addr \in Nat /\ StartAddrs \subseteq Nat
  BY MpAssumption
<1>1. \/ UNCHANGED mpVars
      \/ x86_mp_init \/ APStep \/ PageReused \/ \E a \in StartAddrs : Call(a)
  <2>1. CASE Mp
    BY <2>1, Zenon DEF Mp
  <2>2. CASE Boot
    BY <2>2, Zenon DEF Boot, start, HeapInit, InitUartAddress, init_uart, RemapAddress, uart_remap,
         ModuleAccess, ModuleData, ModuleReadsBar, NoModule, prepare_secinfo_region, smc_init, cse_init,
         SysenterCheck, platform_update_pagetable, SpiAddress, spi_mmu_init, smc_x86_init
  <2>3. CASE \/ ReadFuse \/ FuseRead \/ WildAccess \/ BeginExchange \/ Exchange
             \/ lpss_spi_access \/ NonSecure
    BY <2>3, Zenon DEF ReadFuse, FuseRead, WildAccess, BeginExchange, Exchange, lpss_spi_access, NonSecure
  <2>4. CASE UNCHANGED vars
    BY <2>4 DEF vars
  <2> QED BY <2>1, <2>2, <2>3, <2>4, Zenon DEF Next
<1>2. CASE UNCHANGED mpVars
  BY <1>2 DEF mpVars
<1>3. ASSUME NEW a \in StartAddrs, Call(a) PROVE MpTypeOK'
  BY <1>3 DEF Call
<1>4. CASE MapPage \/ MapPageFails \/ AllAwake \/ Unmap
  BY <1>4 DEF MapPage, MapPageFails, AllAwake, Unmap
<1>5. CASE Copy
  <2>1. Blank \in [Operands -> Int]
    BY DEF Blank
  <2> QED BY <1>5, <2>1 DEF Copy
<1>6. CASE Patch
  <2>1. /\ (addr \div 16) % 65536 \in Int /\ GdtrAt \in Int /\ GDTR_LIMIT \in Int
        /\ addr + GdtAt \in Int /\ addr + Entry32At \in Int /\ RunAddr \in Int
    BY <1>0, MpAssumption DEF GDTR_LIMIT
  <2>2. startup_hotpatch(addr) \in [Operands -> Int]
    BY <2>1 DEF startup_hotpatch, Operands
  <2> QED BY <1>6, <2>2 DEF Patch
<1>7. CASE broadcast_startup
  <2>1. addr \div 4096 \in Nat
    BY <1>0
  <2> QED BY <1>7, <2>1 DEF broadcast_startup
<1>8. CASE APStep
  <2>1. PICK c \in APs : Enter(c) \/ WakeUp(c)
    BY <1>8 DEF APStep
  <2> QED BY <2>1 DEF Enter, WakeUp
<1>9. CASE PageReused
  <2>1. Foreign \in [Operands -> Int]
    BY DEF Foreign
  <2> QED BY <1>9, <2>1 DEF PageReused
<1> QED BY <1>1, <1>2, <1>3, <1>4, <1>5, <1>6, <1>7, <1>8, <1>9 DEF x86_mp_init

(* The places of the boot, of the system call and of the fingerprint       *)
(* application.                                                            *)
PlacesOK ==
  /\ stage \in {"start", "early", "uart", "uart_data", "remap", "remap_data", "module",
       "module_data", "bar0", "secinfo", "smc", "cse", "sysenter", "pagetable", "spi",
       "spi_data", "hooks", "run", "panic", "halted"}
  /\ ta \in {"idle", "fuse", "exchange", "heci", "fault"} /\ calls \in 0 .. MaxCalls
  /\ fp \in {"none", "reached", "fault"}

(* A step moves each of them to another of its places.                     *)
LEMMA PlacesStep ==
  ASSUME PlacesOK, [Next]_vars
  PROVE  PlacesOK'
<1> USE DEF PlacesOK, Reach, taVars
<1>1. CASE Boot
  <2>1. UNCHANGED taVars
    BY <1>1, Zenon DEF Boot, start, HeapInit, InitUartAddress, init_uart, RemapAddress, uart_remap,
         ModuleAccess, ModuleData, ModuleReadsBar, NoModule, prepare_secinfo_region, smc_init, cse_init,
         SysenterCheck, platform_update_pagetable, SpiAddress, spi_mmu_init, smc_x86_init
  <2>2. stage' = stage \/ \E from, to :
          /\ to \in {"early", "halted", "uart", "uart_data", "remap", "remap_data", "module",
               "module_data", "bar0", "secinfo", "smc", "cse", "sysenter", "pagetable", "spi",
               "spi_data", "hooks", "run", "panic"}
          /\ Reach(from, to)
    BY <1>1 DEF Boot, start, HeapInit, InitUartAddress, init_uart, RemapAddress, uart_remap,
         ModuleAccess, ModuleData, ModuleReadsBar, NoModule, prepare_secinfo_region, smc_init, cse_init,
         SysenterCheck, platform_update_pagetable, SpiAddress, spi_mmu_init, smc_x86_init
  <2> QED BY <2>1, <2>2
<1>2. CASE Mp \/ NonSecure \/ UNCHANGED vars
  BY <1>2 DEF Mp, NonSecure, vars
<1>3. CASE ReadFuse
  BY <1>3, PlatformAssumption DEF ReadFuse
<1>4. CASE FuseRead \/ WildAccess \/ BeginExchange \/ Exchange \/ lpss_spi_access
  BY <1>4 DEF FuseRead, WildAccess, BeginExchange, Exchange, lpss_spi_access
<1> QED BY <1>1, <1>2, <1>3, <1>4 DEF Next

(* Where the platform starts, whatever firmware left in the registers.     *)
LEMMA TypesInit == Init => PciTypes /\ MpTypeOK /\ PlacesOK
<1> SUFFICES ASSUME Init PROVE PciTypes /\ MpTypeOK /\ PlacesOK
  OBVIOUS
<1> DEFINE bars == machine.bars
<1>1. /\ \A f \in Devices : bars[f] \in [1 .. 8 -> Byte]
      /\ machine.cmd \in Byte /\ machine.hfs1 \in Dword
  BY PlatformAssumption DEF Init, Machine
<1>2. /\ space = [f \in Devices |-> [r \in Registers |->
           CASE r = PCI_CONFIG_BAR_OFFSET -> SubSeq(bars[f], 1, 4)
             [] r = PCI_CONFIG_BAR_OFFSET + 4 -> SubSeq(bars[f], 5, 8)
             [] r = PCI_COMMAND_OFFSET -> <<IF f = HECI THEN machine.cmd ELSE 6, 0, 16, 0>>
             [] OTHER -> machine.hfs1]]
      /\ cf8 = [fn |-> HECI, reg |-> PCI_COMMAND_OFFSET]
      /\ access = [u \in Users |-> NoAccess] /\ disturbed = {} /\ moved = {} /\ nsUses = 0
      /\ probe.val = Zeros /\ probe.v = Zeros
  BY DEF Init, PciInit
<1>3. 0 \in Byte /\ 6 \in Byte /\ 16 \in Byte /\ Zeros \in Dword
  <2>1. 0 \in Byte /\ 6 \in Byte /\ 16 \in Byte
    BY DEF Byte
  <2> QED BY <2>1 DEF Zeros, Dword
<1>4. ASSUME NEW f \in Devices, NEW r \in Registers PROVE space[f][r] \in Dword
  <2>1. SubSeq(bars[f], 1, 4) \in Dword /\ SubSeq(bars[f], 5, 8) \in Dword
    BY <1>1, HalvesOf
  <2>2. <<IF f = HECI THEN machine.cmd ELSE 6, 0, 16, 0>> \in Dword
    <3> DEFINE c == IF f = HECI THEN machine.cmd ELSE 6
    <3>1. c \in Byte
      BY <1>1, <1>3
    <3> HIDE DEF c
    <3>2. <<c, 0, 16, 0>> \in Dword
      BY <1>3, <3>1 DEF Dword
    <3> QED BY <3>2 DEF c
  <2>3. space[f][r] = CASE r = PCI_CONFIG_BAR_OFFSET -> SubSeq(bars[f], 1, 4)
                        [] r = PCI_CONFIG_BAR_OFFSET + 4 -> SubSeq(bars[f], 5, 8)
                        [] r = PCI_COMMAND_OFFSET -> <<IF f = HECI THEN machine.cmd ELSE 6, 0, 16, 0>>
                        [] OTHER -> machine.hfs1
    BY <1>2
  <2> QED BY <1>1, <2>1, <2>2, <2>3
<1>5. space \in [Devices -> [Registers -> Dword]]
  BY <1>2, <1>4
<1>6. PciTypes
  <2>1. \A u \in Users : access[u] = NoAccess
    BY <1>2
  <2>2. cf8 \in [fn : Devices, reg : Registers]
    BY <1>2, FourDevices, FourRegisters
  <2> QED BY <1>2, <1>3, <1>5, <2>1, <2>2, PciAssumption DEF PciTypes, Users
<1>7. MpTypeOK
  <2>1. /\ ap = [c \in APs |-> "off"] /\ mp = "idle" /\ addr = 0 /\ mapped = FALSE
        /\ page = Foreign /\ vector = 0 /\ cpu_waken_up = 1
    BY DEF Init, MpInit
  <2>2. Foreign \in [Operands -> Int]
    BY DEF Foreign
  <2> QED BY <2>1, <2>2 DEF MpTypeOK
<1>8. PlacesOK
  BY PlatformAssumption DEF Init, PlacesOK
<1> QED BY <1>6, <1>7, <1>8

(* An access in progress lies within its dword, what it writes is as wide  *)
(* as it says, the address port names a register there is, and all else    *)
(* has its type: for any devices, machines and modules, wherever firmware  *)
(* puts the devices.                                                       *)
THEOREM TypeCorrect == Spec => []TypeOK
<1> DEFINE Types == PciTypes /\ MpTypeOK /\ PlacesOK
<1>1. Types /\ [Next]_vars => Types'
  <2> SUFFICES ASSUME Types, [Next]_vars PROVE Types'
    OBVIOUS
  <2>1. PciTypes'
    BY NextPortsTyped, NextRegistersTyped, NextProbeTyped, PortsKeepTypes, RegistersKeepTypes DEF PciTypes
  <2> QED BY <2>1, MpTypesStep, PlacesStep
<1>2. Types => TypeOK
  <2> SUFFICES ASSUME Types PROVE TypeOK
    OBVIOUS
  <2>1. ASSUME NEW u \in Users, access[u] # NoAccess
        PROVE  /\ access[u].width \in {1, 2, 4} /\ access[u].lane \in 0 .. 3
               /\ access[u].lane + access[u].width <= 4
               /\ Len(access[u].out) \in {0, access[u].width}
    <3>1. Fits(access[u])
      BY <2>1 DEF PciTypes
    <3>2. ASSUME NEW w \in {1, 2, 4}, NEW o \in [1 .. w -> Byte] PROVE Len(o) = w
      BY <3>2
    <3>3. Len(<<>>) = 0
      OBVIOUS
    <3> QED BY <3>1, <3>2, <3>3, Zenon DEF Fits, Written
  <2>2. PciTypeOK
    BY <2>1 DEF PciTypes, PciTypeOK
  <2> QED BY <2>2 DEF TypeOK, PlacesOK
<1> QED BY <1>1, <1>2, TypesInit, PTL DEF Spec

=============================================================================
