-------------------------------- MODULE MpBoot --------------------------------
(***************************************************************************)
(* Start-up of the application processors (mp_init.c): x86_mp_init copies  *)
(* the real mode code of start16.S, which is external, to a page below     *)
(* 1 MB, patches the addresses the code needs, sends the start-up IPI and  *)
(* waits until every processor has counted itself in cpu_waken_up.         *)
(***************************************************************************)
EXTENDS Integers

CONSTANTS
  APs,            \* the application processors
  SMP_MAX_CPUS,   \* processors the boot processor waits for, itself included
  StartAddrs,     \* ap_startup_addr: what the caller may pass
  PAGE_SIZE,
  Size,           \* ap_gdt_table_end - ap_entry_16, the bytes copied
  GdtrAt, GdtAt, Entry32At,   \* GDTR_OFFSET_IN_PAGE, GDT_OFFSET_IN_PAGE, AP_ENTRY_32_OFFSET
  RunAddr         \* real_run_addr - KERNEL_LOAD_OFFSET

ASSUME MpAssumption ==
  /\ SMP_MAX_CPUS \in Nat \ {0}
  /\ StartAddrs \subseteq Nat /\ PAGE_SIZE \in Nat \ {0}
  /\ Size \in Nat /\ GdtrAt \in Nat /\ GdtAt \in Nat /\ Entry32At \in Nat
  /\ RunAddr \in Nat

VARIABLES
  mp,           \* where x86_mp_init is
  addr,         \* its ap_startup_addr
  mapped,       \* the page is mapped at 0xFFFFFFFF00000000 + addr
  page,         \* the operands of the code at addr, Foreign if it is not there
  ap,           \* where each application processor is
  vector,       \* the vector of the start-up IPI
  cpu_waken_up

mpVars == <<mp, addr, mapped, page, ap, vector, cpu_waken_up>>

(* The operands to patch: %ax, %si, the limit and the base of the GDTR,    *)
(* the far jump's offset and segment, %ebp.                                *)
Operands == {"ax", "si", "limit", "base", "eip", "cs", "ebp"}
Blank    == [x \in Operands |-> 0]
Foreign  == [x \in Operands |-> -1]

GDTR_LIMIT == 23      \* ap_gdt_table_end - ap_gdt_table - 1: null, CS, DS

ONE_MB_ADDR == 1048576

MpInit ==
  /\ mp = "idle" /\ addr = 0 /\ mapped = FALSE /\ page = Foreign
  /\ ap = [c \in APs |-> "off"] /\ vector = 0
  /\ cpu_waken_up = 1            \* the boot processor

-----------------------------------------------------------------------------
is_ap_wkup_addrr_available(a) == a < ONE_MB_ADDR

(* An address at or above 1 MB is a panic.                                 *)
Call(a) ==
  /\ mp = "idle"
  /\ addr' = a
  /\ mp' = IF is_ap_wkup_addrr_available(a) THEN "map" ELSE "panic"
  /\ UNCHANGED <<mapped, page, ap, vector, cpu_waken_up>>

(* x86_mmu_map_range works or does not; then the size is checked.          *)
MapPage ==
  /\ mp = "map" /\ mapped' = TRUE
  /\ mp' = IF Size > PAGE_SIZE THEN "failed" ELSE "copy"
  /\ UNCHANGED <<addr, page, ap, vector, cpu_waken_up>>

MapPageFails ==
  /\ mp = "map" /\ mp' = "failed"
  /\ UNCHANGED <<addr, mapped, page, ap, vector, cpu_waken_up>>

Copy ==
  /\ mp = "copy" /\ page' = Blank /\ mp' = "patch"
  /\ UNCHANGED <<addr, mapped, ap, vector, cpu_waken_up>>

(* startup_hotpatch.                                                       *)
startup_hotpatch(pa) ==
  [ax |-> (pa \div 16) % 65536, si |-> GdtrAt, limit |-> GDTR_LIMIT, base |-> pa + GdtAt,
   eip |-> pa + Entry32At, cs |-> 8, ebp |-> RunAddr]

Patch ==
  /\ mp = "patch" /\ page' = startup_hotpatch(addr) /\ mp' = "broadcast"
  /\ UNCHANGED <<addr, mapped, ap, vector, cpu_waken_up>>

broadcast_startup ==
  /\ mp = "broadcast" /\ mp' = "wait"
  /\ vector' = addr \div 4096
  /\ ap' = [c \in APs |-> "sipi"]
  /\ UNCHANGED <<addr, mapped, page, cpu_waken_up>>

NotAwaited ==                  \* mutant: the loop is left at once
  /\ mp = "wait" /\ mp' = "unmap"
  /\ UNCHANGED <<addr, mapped, page, ap, vector, cpu_waken_up>>

OneTooMany ==                  \* mutant: the boot processor is not counted
  /\ mp = "wait" /\ cpu_waken_up = SMP_MAX_CPUS + 1
  /\ mp' = "unmap"
  /\ UNCHANGED <<addr, mapped, page, ap, vector, cpu_waken_up>>

AllAwake ==
  /\ mp = "wait" /\ cpu_waken_up = SMP_MAX_CPUS
  /\ mp' = "unmap"
  /\ UNCHANGED <<addr, mapped, page, ap, vector, cpu_waken_up>>

Unmap ==
  /\ mp = "unmap"
  /\ \/ mapped' = FALSE /\ mp' = "done"
     \/ mapped' = mapped /\ mp' = "failed"
  /\ UNCHANGED <<addr, page, ap, vector, cpu_waken_up>>

x86_mp_init ==
  MapPage \/ MapPageFails \/ Copy \/ Patch \/ broadcast_startup \/ AllAwake \/ Unmap

-----------------------------------------------------------------------------
(* start16.S on an application processor, which starts at the page of the  *)
(* vector.  It finds its way when it starts at the copied code, loads      *)
(* the GDTR through %ds:%si, which describes the GDT in the same page, and *)
(* jumps to the 32 bit code behind it.                                     *)
Finds(v, at, p) ==
  /\ v * 4096 = at
  /\ p.ax * 16 + p.si = at + GdtrAt
  /\ p.base = at + GdtAt /\ p.cs + 7 <= p.limit
  /\ p.eip = at + Entry32At
  /\ p.ebp = RunAddr

Enter(c) ==
  /\ ap[c] = "sipi"
  /\ ap' = [ap EXCEPT ![c] = IF Finds(vector, addr, page) THEN "page" ELSE "lost"]
  /\ UNCHANGED <<mp, addr, mapped, page, vector, cpu_waken_up>>

(* In the kernel's own code it counts itself.                              *)
WakeUp(c) ==
  /\ ap[c] = "page"
  /\ ap' = [ap EXCEPT ![c] = "awake"] /\ cpu_waken_up' = cpu_waken_up + 1
  /\ UNCHANGED <<mp, addr, mapped, page, vector>>

(* The page is the non-secure world's again once x86_mp_init has returned. *)
Returned == mp \in {"done", "failed"}

PageReused ==
  /\ Returned /\ page # Foreign /\ page' = Foreign
  /\ UNCHANGED <<mp, addr, mapped, ap, vector, cpu_waken_up>>

APStep == \E c \in APs : Enter(c) \/ WakeUp(c)

-----------------------------------------------------------------------------
MpTypeOK ==
  /\ mp \in {"idle", "map", "copy", "patch", "broadcast", "wait", "unmap",
             "done", "failed", "panic"}
  /\ addr \in {0} \cup StartAddrs /\ mapped \in BOOLEAN
  /\ page \in [Operands -> Int] /\ vector \in Nat
  /\ ap \in [APs -> {"off", "sipi", "page", "awake", "lost"}]
  /\ cpu_waken_up \in Nat

(* No processor starts on code that is not there, not yet patched or       *)
(* patched for another place, and none is still on the page when it is     *)
(* given back.                                                             *)
ApRunsPatchedPage ==
  \A c \in APs : ap[c] # "lost" /\ (ap[c] = "page" => Finds(vector, addr, page) /\ ~Returned)

(* The wait ends: x86_mp_init, once the processors are started, returns.   *)
MpInitReturns == (mp = "wait") ~> Returned
=============================================================================
