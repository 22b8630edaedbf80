------------------------------- MODULE Platform -------------------------------
(***************************************************************************)
(* The boot of LK on its first processor, from start.S through             *)
(* platform_early_init, the hook of uart_remap and platform_init           *)
(* (platform.c) to the init hook of smc_x86.c, and what the drivers do     *)
(* afterwards with what the boot has set up.  Composes the PCI accesses,   *)
(* the page tables and the start-up of the other processors.               *)
(***************************************************************************)
EXTENDS PciConfig, KernelImage, MpBoot

CONSTANTS
  UART, SPI, MODULE_DEV,  \* functions of the serial port, of the SPI controller
                          \* and of a device another module of LK looks after
  ModuleRegs,             \* the registers that module uses
  Machines,               \* the machines: see Machine
  MaxCalls                \* bound: system calls of the keymaster application

(* The image and how the external x86_mmu_map_range rounds a size; what    *)
(* cpuid says, at 0x40000000 and at 1; what firmware left in PCI space.    *)
Machine ==
  [layout : Layouts, roundUp : BOOLEAN, vmm : STRING,
   cpuid : [edx : SUBSET (0 .. 31), family : Nat, model : Nat, stepping : Nat],
   bars : [Devices -> [1 .. 8 -> Byte]], cmd : Byte, hfs1 : Dword]

ASSUME PlatformAssumption ==
  /\ Cardinality({UART, SPI, MODULE_DEV, HECI}) = 4
  /\ {UART, SPI, MODULE_DEV} \subseteq Devices
  /\ ModuleRegs \subseteq PCI_CONFIG_BAR_OFFSET .. PCI_CONFIG_BAR_OFFSET + 7
  /\ Machines \subseteq Machine /\ MaxCalls \in Nat

VARIABLES
  stage,       \* how far the boot is, "run" when it is over
  machine,     \* the machine it runs on
  entry_phys, mapping, arena, pt,   \* memory: see KernelImage
  secinfo,     \* what g_sec_info points to
  smc,         \* make_smc_vmcall
  base,        \* the drivers' register addresses
  ta, calls,   \* the keymaster application's system call; calls so far
  fp           \* what the fingerprint application's access has come to

memVars  == <<entry_phys, mapping, arena, pt>>
kernVars == <<secinfo, smc>>
taVars   == <<ta, calls, fp>>
bootVars == <<machine, memVars, kernVars, base>>
vars     == <<stage, bootVars, taVars, pciVars, mpVars>>

(* How an address of the kernel leads to a page of registers: through the  *)
(* linear map at KERNEL_ASPACE_BASE, through pages of vmm_alloc_physical,  *)
(* or through a page at 0xFFFFFFFF00000000 + its address.                  *)
NoBase == [route |-> "none", reg |-> Zeros]
At(route, reg) == [route |-> route, reg |-> reg]

Init ==
  /\ machine \in Machines
  /\ PciInit(machine.bars, machine.cmd, machine.hfs1) /\ MpInit
  /\ stage = "start"
  /\ entry_phys = 0 /\ pt = [p \in 0 .. RegionPages |-> None]
  /\ mapping = [phys |-> 0, virt |-> 0, size |-> Region]
  /\ arena = [base |-> 0, size |-> 0]
  /\ secinfo = "null" /\ smc = "evmm"
  /\ base = [uart |-> NoBase, cse |-> NoBase, hpet |-> NoBase, spi |-> NoBase]
  /\ ta = "idle" /\ calls = 0 /\ fp = "none"

sections == Sections(machine.layout)

Reach(from, to) == stage = from /\ stage' = to

-----------------------------------------------------------------------------
(* start.S: the page tables, and the address the kernel runs at.  Without  *)
(* a random number for the stack's guard it halts for good.                *)
start ==
  /\ Reach("start", "early") \/ Reach("start", "halted")
  /\ pt' = BootTable
  /\ entry_phys' = vaddr_to_paddr(sections.code_start)
  /\ UNCHANGED <<machine, mapping, arena, kernVars, base, taVars, pciVars, mpVars>>

(* platform_early_init up to init_uart: platform_heap_init, then           *)
(* heap_arena_init.                                                        *)
HeapInit ==
  /\ Reach("early", "uart")
  /\ mapping' = InitialMapping(sections, entry_phys)
  /\ arena' = HeapArena(sections, mapping')
  /\ UNCHANGED <<machine, entry_phys, pt, kernVars, base, taVars, pciVars, mpVars>>

(* init_uart reads BAR 0 and uses the linear map.                          *)
InitUartAddress ==
  /\ Reach("uart", "uart_data")
  /\ pci_read32("boot", UART, PCI_CONFIG_BAR_OFFSET)
  /\ UNCHANGED <<bootVars, taVars, mpVars>>

init_uart ==
  /\ Reach("uart_data", "remap")
  /\ base' = [base EXCEPT !.uart = At("linear", Masked(hw_read_port("boot")))]
  /\ Done("boot")
  /\ UNCHANGED <<machine, memVars, kernVars, taVars, space, moved, bar0, probeVars, mpVars>>

(* uart_remap reads it again and maps the page; when that fails it keeps   *)
(* the linear address.                                                     *)
RemapAddress ==
  /\ Reach("remap", "remap_data")
  /\ pci_read32("boot", UART, PCI_CONFIG_BAR_OFFSET)
  /\ UNCHANGED <<bootVars, taVars, mpVars>>

uart_remap ==
  /\ Reach("remap_data", "module")
  /\ \/ base' = [base EXCEPT !.uart = At("vmm", Masked(hw_read_port("boot")))]
     \/ UNCHANGED base
  /\ Done("boot")
  /\ UNCHANGED <<machine, memVars, kernVars, taVars, space, moved, bar0, probeVars, mpVars>>

(* Another module of LK, external, may use the functions sand.h exports on *)
(* a device of its own, at any register its width is aligned to.           *)
ModuleAccess ==
  /\ Reach("module", "module_data")
  /\ \/ \E reg \in ModuleRegs :
          \/ pci_read8("boot", MODULE_DEV, reg)
          \/ pci_write8("boot", MODULE_DEV, reg, <<1>>)
          \/ reg % 2 = 0 /\ pci_read16("boot", MODULE_DEV, reg)
          \/ reg % 2 = 0 /\ pci_write16("boot", MODULE_DEV, reg, <<1, 2>>)
     \/ pci_write32("boot", MODULE_DEV, PCI_COMMAND_OFFSET, <<6, 0, 0, 0>>)
  /\ UNCHANGED <<bootVars, taVars, mpVars>>

ModuleData ==
  /\ Reach("module_data", "secinfo")
  /\ IF access["boot"].out = <<>> THEN UNCHANGED space ELSE hw_write_port("boot")
  /\ Done("boot")
  /\ UNCHANGED <<bootVars, taVars, moved, bar0, probeVars, mpVars>>

ModuleReadsBar ==
  /\ LET loc == PCI_GET_ADDRESS(MODULE_DEV)
     IN  \/ Reach("module", "bar0") /\ pci_read_bar0(loc)
         \/ stage = "bar0" /\ Bar0Low(loc) /\ UNCHANGED stage
         \/ stage = "bar0" /\ Bar0NextHigh(loc) /\ UNCHANGED stage
         \/ Reach("bar0", "secinfo") /\ Bar0High(loc)
         \/ Reach("bar0", "secinfo") /\ Len(bar0) = 8 /\ UNCHANGED pciVars
  /\ UNCHANGED <<bootVars, taVars, mpVars>>

NoModule ==
  /\ Reach("module", "secinfo")
  /\ UNCHANGED <<bootVars, taVars, pciVars, mpVars>>

-----------------------------------------------------------------------------
(* platform_init.  prepare_secinfo_region: no memory is a panic; otherwise *)
(* the hypervisor fills the region.                                        *)
prepare_secinfo_region ==
  /\ \/ Reach("secinfo", "smc") /\ secinfo' = "filled"
     \/ Reach("secinfo", "panic") /\ UNCHANGED secinfo
  /\ UNCHANGED <<machine, memVars, smc, base, taVars, pciVars, mpVars>>

(* The hypercall the hypervisor of that signature takes an SMC by.         *)
smc_init ==
  /\ \/ machine.vmm = "EVMMEVMMEVMM" /\ Reach("smc", "cse") /\ smc' = "evmm"
     \/ machine.vmm = "ACRNACRNACRN" /\ Reach("smc", "cse") /\ smc' = "acrn"
     \/ machine.vmm \notin {"EVMMEVMMEVMM", "ACRNACRNACRN"} /\ Reach("smc", "panic")
        /\ UNCHANGED smc
  /\ UNCHANGED <<machine, memVars, secinfo, base, taVars, pciVars, mpVars>>

(* cse_init maps the CSE's configuration space, then the HPET; a failure   *)
(* is logged and ends it.                                                  *)
cse_init ==
  /\ Reach("cse", "sysenter")
  /\ \/ UNCHANGED base
     \/ base' = [base EXCEPT !.cse = At("vmm", HECI)]
     \/ base' = [base EXCEPT !.cse = At("vmm", HECI), !.hpet = At("vmm", "hpet")]
  /\ UNCHANGED <<machine, memVars, kernVars, taVars, pciVars, mpVars>>

(* BITMAP_GET takes a mask: what is tested is 11, the bits 0, 1 and 3.     *)
is_sep_support(c) == c.edx \cap {0, 1, 3} # {}
is_family_6_support(c) == ~(c.family = 6 /\ c.model < 3 /\ c.stepping < 3)
is_sysenter_support(c) == is_sep_support(c) /\ is_family_6_support(c)

SysenterCheck ==
  /\ IF is_sysenter_support(machine.cpuid) THEN Reach("sysenter", "pagetable")
     ELSE Reach("sysenter", "panic")
  /\ UNCHANGED <<bootVars, taVars, pciVars, mpVars>>

platform_update_pagetable ==
  /\ Reach("pagetable", "spi")
  /\ pt' = UpdatePagetable(pt, sections, mapping, machine.roundUp)
  /\ UNCHANGED <<machine, entry_phys, mapping, arena, kernVars, base, taVars,
                 pciVars, mpVars>>

SpiAddress ==
  /\ Reach("spi", "spi_data")
  /\ pci_read32("boot", SPI, PCI_CONFIG_BAR_OFFSET)
  /\ UNCHANGED <<bootVars, taVars, mpVars>>

(* The address is kept whether the mapping worked or not; "unmapped" is    *)
(* the address without a page behind it.                                   *)
SpiNotMasked ==                 \* mutant: the flags of the BAR are kept
  /\ Reach("spi_data", "hooks")
  /\ \E route \in {"window", "unmapped"} :
       base' = [base EXCEPT !.spi = At(route, hw_read_port("boot"))]
  /\ Done("boot")
  /\ UNCHANGED <<machine, memVars, kernVars, taVars, space, moved, bar0, probeVars, mpVars>>

spi_mmu_init ==
  /\ Reach("spi_data", "hooks")
  /\ \E route \in {"window", "unmapped"} :
       base' = [base EXCEPT !.spi = At(route, Masked(hw_read_port("boot")))]
  /\ Done("boot")
  /\ UNCHANGED <<machine, memVars, kernVars, taVars, space, moved, bar0, probeVars, mpVars>>

(* The last hook: a registration that fails is only logged.  The boot ends.*)
smc_x86_init ==
  /\ Reach("hooks", "run")
  /\ UNCHANGED <<bootVars, taVars, pciVars, mpVars>>

Boot ==
  \/ start \/ HeapInit \/ InitUartAddress \/ init_uart \/ RemapAddress \/ uart_remap
  \/ ModuleAccess \/ ModuleData \/ ModuleReadsBar \/ NoModule
  \/ prepare_secinfo_region \/ smc_init \/ cse_init \/ SysenterCheck
  \/ platform_update_pagetable \/ SpiAddress \/ spi_mmu_init \/ smc_x86_init

-----------------------------------------------------------------------------
(* After the boot.  x86_mp_init is called before anything else runs.       *)
FirstCall == nsUses = 0 /\ calls = 0 /\ fp = "none"

Mp ==
  /\ stage = "run" /\ UNCHANGED stage
  /\ \/ FirstCall /\ \E a \in StartAddrs : Call(a)
     \/ x86_mp_init \/ APStep \/ PageReused
  /\ UNCHANGED <<bootVars, taVars, pciVars>>

Running == stage = "run" /\ mp \in {"idle", "done", "failed"}

(* sys_get_device_info of the keymaster application: the fuse in HFS1 says *)
(* whether the keybox is fetched.                                          *)
ReadFuseInBoot ==               \* mutant: the application runs before the boot is over
  /\ ta = "idle" /\ calls < MaxCalls /\ UNCHANGED stage
  /\ calls' = calls + 1 /\ ta' = "fuse" /\ UNCHANGED fp
  /\ pci_read32("keymaster", HECI, HECI1_REG)
  /\ UNCHANGED <<bootVars, mpVars>>

ReadFuse ==
  /\ Running /\ ta = "idle" /\ calls < MaxCalls /\ UNCHANGED stage
  /\ calls' = calls + 1 /\ ta' = "fuse" /\ UNCHANGED fp
  /\ pci_read32("keymaster", HECI, HECI1_REG)
  /\ UNCHANGED <<bootVars, mpVars>>

ManufMode(d) == (d[1] \div 16) % 2 = 1       \* state.field.manuf_mode

FuseRead ==
  /\ Running /\ ta = "fuse" /\ Done("keymaster") /\ UNCHANGED stage
  /\ ta' = IF ManufMode(hw_read_port("keymaster")) THEN "idle" ELSE "exchange"
  /\ UNCHANGED <<bootVars, calls, fp, space, moved, bar0, probeVars, mpVars>>

(* Without its page, the first access of heci_get_base_addr goes to an     *)
(* address that is no mapping of the kernel's: the thread goes no further. *)
WildAccess ==
  /\ Running /\ ta = "exchange" /\ base.cse = NoBase /\ UNCHANGED stage
  /\ ta' = "fault"
  /\ UNCHANGED <<bootVars, calls, fp, pciVars, mpVars>>

BeginExchange ==
  /\ Running /\ ta = "exchange" /\ base.cse # NoBase /\ UNCHANGED stage
  /\ ReadBar /\ ta' = "heci"
  /\ UNCHANGED <<bootVars, calls, fp, mpVars>>

Exchange ==
  /\ Running /\ ta = "heci" /\ UNCHANGED stage
  /\ get_base_addr
  /\ ta' = IF probe'.at = "idle" THEN "idle" ELSE "heci"
  /\ UNCHANGED <<bootVars, calls, fp, mpVars>>

(* lpss_spi_read and lpss_spi_write use the address spi_mmu_init has kept. *)
(* When that is 0, they set it to what it is.                              *)
lpss_spi_access ==
  /\ Running /\ fp = "none" /\ UNCHANGED stage
  /\ fp' = IF base.spi.route = "window" THEN "reached" ELSE "fault"
  /\ UNCHANGED <<bootVars, ta, calls, pciVars, mpVars>>

NonSecure ==
  /\ Running /\ UNCHANGED stage
  /\ NsData \/ \E f \in {UART, SPI, HECI} : NsAddress(f)
  /\ UNCHANGED <<bootVars, taVars, mpVars>>

Next ==
  \/ Boot \/ Mp \/ ReadFuse \/ FuseRead \/ WildAccess \/ BeginExchange \/ Exchange
  \/ lpss_spi_access \/ NonSecure

Spec == Init /\ [][Next]_vars

(* The boot processor runs its loop, and the others, once they have the    *)
(* start-up IPI, run the code it points them to.                           *)
MpStep == stage = "run" /\ UNCHANGED <<stage, bootVars, taVars, pciVars>> /\ (x86_mp_init \/ APStep)

LiveSpec == Spec /\ WF_vars(MpStep)

-----------------------------------------------------------------------------
TypeOK ==
  /\ PciTypeOK /\ MpTypeOK
  /\ stage \in {"start", "early", "uart", "uart_data", "remap", "remap_data", "module",
       "module_data", "bar0", "secinfo", "smc", "cse", "sysenter", "pagetable", "spi",
       "spi_data", "hooks", "run", "panic", "halted"}
  /\ ta \in {"idle", "fuse", "exchange", "heci", "fault"} /\ calls \in 0 .. MaxCalls
  /\ fp \in {"none", "reached", "fault"}

(* Each driver's registers are those of its device, from the boot on, if   *)
(* the mapping worked, the non-secure world has not moved the device and   *)
(* it is below 4 GB, where the drivers look for it.  pci_read_bar0 finds   *)
(* it above 4 GB as well.                                                  *)
DevicesReached ==
  /\ base.uart # NoBase /\ UART \notin moved => base.uart.reg \o Zeros = Bar0Of(UART)
  /\ base.spi.route = "window" /\ SPI \notin moved => base.spi.reg \o Zeros = Bar0Of(SPI)
  /\ Len(bar0) = 8 => Masked(SubSeq(bar0, 1, 4)) \o SubSeq(bar0, 5, 8) = Bar0Of(MODULE_DEV)

(* The whole pages of every section keep its permissions, and every page   *)
(* with a part of .data or .bss can be written; the heap is clear of the   *)
(* image, for every image the linker script may lay out.                   *)
PagesProtected ==
  /\ stage \in {"spi", "spi_data", "hooks", "run"} => SectionsMapped(pt, sections)
  /\ arena.size > 0 => HeapClear(sections, arena)

(* Statements the code does not keep, see the README.                      *)
HeapInRegion == arena.size > 0 => HeapWithin(arena, mapping)
SepPresent   == stage = "run" => 11 \in machine.cpuid.edx
NoWildAccess == ta # "fault" /\ fp # "fault"
PanicReachesVmm ==
  stage = "panic" => (smc = "acrn") = (machine.vmm = "ACRNACRNACRN")
=============================================================================
