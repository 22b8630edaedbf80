----------------------------- MODULE KernelImage -----------------------------
(***************************************************************************)
(* Where the kernel is and how its pages are mapped: the linker script     *)
(* (kernel_ld.c), the boot page tables of start.S, the heap arena and      *)
(* platform_update_pagetable (platform.c).                                 *)
(*                                                                         *)
(* Addresses count 8 byte words from KERNEL_BASE, the first address of the *)
(* window start.S maps; the window lies at LoadPage in physical memory.    *)
(* KERNEL_LOAD_OFFSET and MEMBASE are 0, as start.S requires.              *)
(***************************************************************************)
EXTENDS Integers

CONSTANTS
  PageSize,     \* words of a page
  RegionPages,  \* 16*MB, the size of mmu_initial_mappings[0], in pages
  LoadPage      \* physical page the loader put the window at

ASSUME ImageAssumption ==
  PageSize \in Nat \ {0} /\ RegionPages \in Nat \ {0} /\ LoadPage \in Nat

(* The sizes the sections of an image have, in words.                      *)
Layouts == [text : Nat, rela : Nat, rodata : Nat, data : Nat, ctors : Nat, bss : Nat]

PAGE_ALIGN(a) == ((a + PageSize - 1) \div PageSize) * PageSize
Region == RegionPages * PageSize

(* The linker script: .text one page in; .rodata, .data, .stack and .bss   *)
(* at pages of their own; __rodata_end is set inside .data, __data_end     *)
(* inside .bss; .stack takes no room.                                      *)
Sections(sz) ==
  LET code_start   == PageSize                  \* TRUSTY_ENTRY_OFFSET
      code_end     == code_start + sz.text
      rodata_start == PAGE_ALIGN(code_end + sz.rela)
      data_start   == PAGE_ALIGN(rodata_start + sz.rodata)
      stack        == PAGE_ALIGN(data_start + sz.data)
      bss_start    == PAGE_ALIGN(stack + sz.ctors)
      bss_end      == bss_start + sz.bss
  IN [code_start |-> code_start, code_end |-> code_end,
      rodata_start |-> rodata_start, rodata_end |-> data_start,
      data_start |-> data_start, data_end |-> bss_start,
      bss_start |-> bss_start, bss_end |-> bss_end, end |-> PAGE_ALIGN(bss_end)]

-----------------------------------------------------------------------------
(* start.S: every page of the window to the page as far into the region,   *)
(* writable and executable.  A page without an entry is None.  The window  *)
(* is followed by one page platform_update_pagetable adds.                 *)
None == [phys |-> -1, write |-> FALSE, exec |-> FALSE]

BootTable ==
  [p \in 0 .. RegionPages |->
     IF p < RegionPages THEN [phys |-> LoadPage + p, write |-> TRUE, exec |-> TRUE]
     ELSE None]

vaddr_to_paddr(a) == LoadPage * PageSize + a

(* platform_heap_init: the initial mapping moves to where _start is.       *)
InitialMapping(s, entry_phys) == [phys |-> entry_phys, virt |-> s.code_start, size |-> Region]

(* heap_arena_init: the memory behind .bss.                                *)
ArenaNotAligned(s, m) ==        \* mutant: rsvd is not rounded up
  LET rsvd == s.bss_end - m.virt
  IN [base |-> m.phys + rsvd - (rsvd % PageSize), size |-> PAGE_ALIGN(m.size - rsvd)]

HeapArena(s, m) ==
  LET rsvd == s.bss_end - m.virt
  IN [base |-> PAGE_ALIGN(m.phys + rsvd), size |-> PAGE_ALIGN(m.size - rsvd)]

-----------------------------------------------------------------------------
(* x86_mmu_map_range, external: a size that ends within a page takes that  *)
(* page or leaves it, as roundUp says.                                     *)
MapRange(t, va, pa, size, write, exec, roundUp) ==
  LET first == va \div PageSize
      n     == IF roundUp THEN PAGE_ALIGN(size) \div PageSize ELSE size \div PageSize
  IN [p \in DOMAIN t |->
        IF p \in first .. first + n - 1
        THEN [phys |-> (pa \div PageSize) + p - first, write |-> write, exec |-> exec]
        ELSE t[p]]

(* platform_update_pagetable: six ranges, in the order of the code.        *)
UpdatePagetable(t, s, m, up) ==
  LET Map(u, from, to, write, exec) ==
        MapRange(u, from, vaddr_to_paddr(from), to - from, write, exec, up)
      code   == Map(t,      s.code_start,   s.code_end,   FALSE, TRUE)
      data   == Map(code,   s.data_start,   s.data_end,   TRUE,  FALSE)
      rodata == Map(data,   s.rodata_start, s.rodata_end, FALSE, FALSE)
      bss    == Map(rodata, s.bss_start,    s.bss_end,    TRUE,  FALSE)
      upper  == PAGE_ALIGN(s.end)
      (* The lower range, of size vaddr_to_paddr(_start) - phys, is empty: *)
      (* entry_phys is the address of _start.                              *)
  IN MapRange(bss, upper, vaddr_to_paddr(upper),
              m.phys + m.size - vaddr_to_paddr(upper), TRUE, FALSE, up)

-----------------------------------------------------------------------------
(* The pages wholly within [from, to), and those with any part of it.      *)
PagesWithin(from, to) ==
  {p \in 0 .. RegionPages : from <= p * PageSize /\ (p + 1) * PageSize <= to}
PagesOf(from, to) ==
  {p \in 0 .. RegionPages : from < (p + 1) * PageSize /\ p * PageSize < to}

(* "kernel code section mapping" and so on: every whole page of a section  *)
(* has the section's permissions, whatever the sections' sizes and however *)
(* a page shared by two of them was rounded, and no address moved.         *)
SectionsMapped(t, s) ==
  /\ \A p \in PagesWithin(s.code_start, s.code_end) : ~t[p].write /\ t[p].exec
  /\ \A p \in PagesWithin(s.rodata_start, s.rodata_end) : ~t[p].write /\ ~t[p].exec
  /\ \A p \in PagesOf(s.data_start, s.data_end) \cup PagesOf(s.bss_start, s.bss_end) : t[p].write
  /\ \A p \in PagesWithin(s.data_start, s.data_end) \cup PagesWithin(s.bss_start, s.bss_end) :
       ~t[p].exec
  /\ \A p \in PagesWithin(s.end, Region) : t[p].write /\ ~t[p].exec
  /\ \A p \in 0 .. RegionPages - 1 : t[p].phys = LoadPage + p

(* The heap takes no page of the image.                                    *)
HeapClear(s, arena) == arena.base >= vaddr_to_paddr(s.end)

(* "16MB of memory mapped where the kernel lives": the heap stays in it.   *)
(* It does not when .bss ends within a page: both ends are rounded up.     *)
HeapWithin(arena, m) == arena.base + arena.size <= m.phys + m.size
=============================================================================
