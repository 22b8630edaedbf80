# Formal models of trusty_platform_sand

`trusty_platform_sand` is the platform layer that Intel's x86 port of the Trusty OS puts under
the LK kernel: boot, interrupts, timer, the switch to and from the non-secure world, the early
log, the SPI and HECI drivers with their system calls, and two libraries for trusted
applications. This directory holds TLA+ models of its concurrent and protocol code, TLC
configurations that check them on small instances, and TLAPS proofs for every value of the
constants.

"LK" is the secure world, "NS" the non-secure one (Android), "CSE" the security engine behind
the HECI link. Names in the models are those of the C code wherever TLA+ allows it. `PROJECT.json`
maps each definition to the lines it models, lists each run and the mutation of the code that
makes each of its properties fail, the hazards, and the theorems.

Contents: [1 the system](#1-the-system), [2 the modules](#2-the-modules),
[3 the runs](#3-the-runs), [4 what does not hold](#4-what-does-not-hold),
[5 fairness](#5-fairness), [6 proofs](#6-proofs), [7 what is not modelled](#7-what-is-not-modelled),
[8 plan](#8-plan), [9 running it](#9-running-it).

## 1 The system

### Components, their state and operations

| component | source | state | operations |
|---|---|---|---|
| attestation keybox | `lib/heci/heci.c` | the HECI registers and circular buffers, the HPET, the CSE's BAR and where it is mapped, `DataBuffer` and the locals of `get_attkb` | `cse_init`, `get_attkb`, `HeciSendwACK`, `heci_get_base_addr`, `heci_send_impl`, `heci_receive_impl`, `wait_event` |
| get_device_info | `lib/syscall/syscall_x86.c` | `g_sec_info`, two heap blocks for each call, the caller's memory | `sys_get_device_info`, `copy_attkb_to_user`, `get_ta_permission` |
| SPI | `lib/spi/spi.c`, `syscall_x86.c` | `spi_drv_data`, the controller's FIFOs, chip select | `spi_init`, `spi_set_cs`, `spi_read`, `spi_write`, `spi_writeread` and their system calls |
| early log | `debug.c` | `mmio_base_addr`, `uart_early_buf`, `put_idx`, `get_idx`, `dputc_spin_lock`, `having_print_cb` | `platform_dputc`, `uart_putc`, `init_uart`, `uart_remap` |
| interrupts | `interrupts.c`, `utilities.c`, `mp.c` | `int_handler_table`, `lk_boot_complete`, CR8, the local APIC | `platform_irq`, the IPI handlers, `arch_mp_send_ipi`, boot hooks |
| timer and entry | `timer.c`, `entry.c`, `vmcall.c`, `lib/smc/smc_x86.c` | `back_timer`, `t_callback`, the wall item, the call in `args` | `platform_set_oneshot_timer`, `platform_stop_timer`, `os_timer_tick`, `update_wall_cb`, `sm_sched_nonsecure` |
| hwkey client | `lib/hwkey_migration` | a session with the hwkey server, the caller's buffer | `hwkey_generate_crypto_context`, `hwkey_exchange_crypto_context`, `hwkey_get_ssek` over `send_req` |
| AES-GCM | `lib/hwkey_crypt` | a heap block and a cipher context for each call | `aes_256_gcm_encrypt`, `aes_256_gcm_decrypt` |
| PCI access | `lib/pci/pci_config.c`, `include/platform/pci_config.h` | the two ports of the configuration space | `pci_read*`, `pci_write*`, `pci_read_bar0` |
| SPI register access | `lib/spi/spi_reg_access.c` | `spi_mmio_base_addr` | `spi_mmu_init`, `lpss_spi_read`, `lpss_spi_write` |
| AP start-up | `mp_init.c` | the start-up page, `cpu_waken_up` | `x86_mp_init`, `startup_hotpatch` |
| platform initialization | `start.S`, `platform.c` | the page tables, the heap's arena, `g_sec_info`, `make_smc_vmcall` | `platform_early_init`, `platform_init` and what they call, `platform_update_pagetable`, `smc_init` |
| the image | `kernel_ld.c`, a linker script | none of its own | where the sections start and end |
| the rest | `trusty_syscall_x86.S`, vendored `boringssl`, `lzma`, `tinyxml2` | none of their own | |

### How they interact

- `sys_get_device_info` calls `get_attkb`, which talks to the CSE through registers. It relies on
  being the link's only user: `get_ta_permission` gives `GET_ATTKB` to one application.
- The SPI system calls drive one controller for one application (fingerprint).
- An interrupt that arrives while LK runs is NS's: `platform_irq` acknowledges it, raises it again
  with a self IPI (`FW_INT_TO_NS`) and leaves LK through `sm_handle_irq`. The timer's handler and
  the reschedule IPI's do the same when the vector turns out not to be LK's.
- LK has no timer of its own. It publishes what it wants in a wall item when a standard call
  returns; NS arms a timer and calls back with `SMC_SC_LK_TIMER`, on which `smc_x86.c` executes
  `int $0x31`, the vector of `os_timer_tick`.
- `lk_boot_complete` changes the meaning of most of it: interrupts dropped or forwarded, IPIs sent
  or not, timer requests published or not. The hooks that end the boot run one after the other.
- The hwkey client and its server exchange messages over Trusty's IPC, one call at a time.
- The boot reads the BARs of the UART and of the SPI controller through the PCI ports and leaves the
  addresses to the drivers; the system call reads the CSE's HFS1 through the same ports, at any
  time, and `heci_get_base_addr` the CSE's BAR through memory mapped configuration space, for each
  exchange. NS uses the same ports and the same devices.
- `x86_mp_init` borrows a page below 1 MB from NS, on which the other processors start.

### What is hard about it

Time: every HECI wait and every SPI poll can time out, and what was waited for can arrive later,
in a queue that the next operation reads. Interleaving: interrupts with the hooks that end the
boot, CPUs with one another in the log, system calls with one another on the heap, NS's PCI
accesses with LK's. Sharing without a lock: the HECI registers, `spi_drv_data`, the PCI ports,
`int_handler_table`. Order at boot: an address read in one step, a mapping made in the next and
used by a driver much later, a page given back while processors start on it. Failure
in the middle: system calls and library functions that hold secrets in heap blocks while
something they call fails. `PROJECT.json` lists each at its line under "hazards", with the
properties that would catch it going wrong, or why none does.

### What makes each component correct

- keybox: what is returned is the file of the CSE, whole and in its order, or nothing; each answer
  belongs to its request; the buffers hold what is put into them; a call ends.
- get_device_info: no application gets a field of the sec info its permission does not cover, not even
  through a block of the heap somebody else used, and a keybox only with the permission (section 4 has
  the exception); no free block holds the sec info; no block leaks; a size is that of the bytes
  delivered with it.
- SPI: what a call reads are the answers to the words it sent; nothing is clocked out with the
  peripheral deselected or in somebody else's selection.
- log: every character that was not dropped by a full ring comes out once, in order; nobody spins
  for ever.
- interrupts: NS handles each interrupt it is owed, but for two known losses; nothing stays in
  service; LK's own tick is told from NS's interrupt with the same vector.
- timer: while LK waits for an event NS has a timer running; each SMC gets its own answer.
- hwkey: a successful call has the whole answer to its own request, until a call gives up with a
  request outstanding; each call returns.
- AES-GCM: no text is left in the heap; success means a verified text.
- PCI access: LK's users never redirect one another's accesses, so that each reaches the register
  that was asked for unless NS redirects it; a BAR that is probed is put back.
- platform: each driver's address is that of its device; each section has the permissions its
  content needs, whatever pages it shares; the heap is clear of the image; no processor starts on
  code that is not there, and the boot processor does not wait for ever.

## 2 The modules

| module | models | composed with |
|---|---|---|
| `KeyboxService` | what callers of `get_attkb` may rely on: the abstract specification | refined by `Heci`, used by `DeviceInfo` |
| `Heci` | both ends of the HECI link and `get_attkb` | `Promise == INSTANCE KeyboxService WITH ...` |
| `DeviceInfo` | the system call, run by several applications | `EXTENDS KeyboxService` in place of the driver |
| `Spi` | system calls, driver and controller | |
| `LogQueue` | what those who print may rely on: the abstract specification | refined by `EarlyLog` |
| `EarlyLog` | the log with several CPUs, before, while and after the UART moves | `Promise == INSTANCE LogQueue WITH ...` |
| `Interrupts` | the boot CPU, its APIC and PIC, both worlds | |
| `SecureTimer` | LK's timer, the wall, the entry loop, NS's timer | |
| `HwkeySession` | the client, the channel and the server | |
| `GcmCrypt` | calls of the two functions in a row | |
| `PciConfig` | configuration space, the ports and their users, `heci_get_base_addr` | |
| `KernelImage` | operators: the image's sections, the boot's page table and heap | |
| `MpBoot` | `x86_mp_init` and the processors it starts | |
| `Platform` | the boot from `start.S` to the last hook, and what uses it afterwards | `EXTENDS PciConfig, KernelImage, MpBoot` |

Each `X` that is run has an `MCX`, which extends it for TLC; `X` and `XProofs` (theorems) never depend
on it. The theorems about the two libraries, `HwkeySession` and `GcmCrypt`, are in `LibraryProofs`,
which extends both, so these have no name in common; those about PCI access, the image and the start
of the processors are in `PlatformProofs`, as they are about all steps of the platform.

**Heci.** A dword is a pair of 16 bit halves, since each field of the structures lies in one; the
same dword is a link header, a request, an answer or four keybox bytes according to who reads it,
as with the unions of the code. `pc` is the place in the call: the four waits are states of their
own, in which `Poll` finds nothing and `NotYet` or `TimeOut` looks at the clock. `SendFragment` is
one turn of `heci_send_impl`'s loop, `ReceiveHead` and `ReceiveData` the two reads of
`heci_receive_impl`, `ParseSize` and `ParseRead` what `get_attkb_size` and `get_attkb` do with the
answer. `depth` is that of the host's circular buffer, one of `HostDepths`. The CSE (external) takes
messages, answers, in as many link messages as `FragWords` makes necessary, and pushes dwords while
its buffer of `SecDepth` has room. Two kinds of fault:
"clock", a wait times out, and "map", the registers cannot be mapped.

**KeyboxService** has two promises. `Service`, of a link on which every exchange works: a call returns
0, or the size of the file with all of it in the buffer. `Unchecked`, of any link: 0, or a size with
exactly that many bytes stored, whatever they are, as a failed exchange is parsed like an answer
(section 4). Heci implements the first in `heci_reliable` and the second always.

**DeviceInfo.** `Enter` is the system call up to the allocation, then one action for each call
that can fail or let another thread run: fill and hide, allocate the keybox block, `get_attkb`
(the call and the return of `KeyboxService`, with either promise; `exchange_failed` records that one
was `Unchecked`), copy the keybox, copy the structure. A heap block has the secrets in it (`mem`), one
word (`attkb_size`) and an owner. It is allocated with what its last owner left: `Fill` overwrites the
sec info and nothing else, and the word may be `Scrap`, four bytes of a keybox, if a failed
`get_attkb` left some in the block (`Leftovers`). `CopyOut` hands the word out, whoever calls. Assumed
is that no size `get_attkb` returns exceeds the caller's buffer, which nothing in the code compares.

**Spi.** A word is its number since `spi_init`. The controller clocks a word out (`Shift`) and puts
the peripheral's answer, of the same number, into the receive FIFO. `late` counts receive
timeouts. The readers and writers of wider words are unreachable, and not modelled.

**EarlyLog.** A character is its number in the order of `said`; `wire` is what was written to THR.
A CPU takes the lock, puts, drains until `put_idx` and, for '\n', does so twice. `mmio` is where the
UART's registers are mapped: the early address, then, after `uart_remap`, the late one, and
`io_base` what a call has taken of it. `LogQueue` says: a queue of `BUF_SIZE` characters, the last of
which stays until there is another, and which drops its oldest only while nothing is on the wire. Its
queue is the slots of the ring from `get_idx` to `put_idx`, both included (`Waiting`).

**Interrupts.** IRR, ISR and the PIC's requests are sets of vectors. `stage` is how far the hooks
that end the boot have come, `pc` the place in the handler. `owed` holds the vectors raised for NS
that NS has not handled. LK loses a vector in two ways, each recorded until the vector is raised again
and only if no other request of it is pending: `dropped`, before `lk_boot_complete`, and `refused`, by
the APIC. The last hook of an SMP boot, `lapic_software_disable`, leaves the APIC without fixed
interrupts until NS enables it; what the PIC delivers meanwhile, LK still acknowledges and sends to
itself in vain (`SelfIpi`). That is for a PIC wired to the processor; one behind LINT0 is masked by the
software disable, too, so the loss cannot occur there, and its behaviours are among the model's.

**SecureTimer.** Times count intervals, so `tv_ns` and `cv_ns` are 0 or 1 and the module has no
constants: its runs are exhaustive. `Return` is a standard call's return with the wall update,
`NsReadWall` NS's driver starting or stopping its timer.

**HwkeySession.** `Call` goes to the end of `send_msg`, which may refuse the request or send it short;
`Wait`, `GetMsg` and `ReadMsg` or `Refuse` follow. `SendShort`, `WaitFails` and `GetMsgFails` end a call
whose request is out, and set `abandoned`: its answer will meet the next call. The channel has `Depth`
message buffers each way; a message occupies one until it is retired with `put_msg`. The server may answer
with anything: another command, any status, any length. `retireFirst`, chosen in `Init`, says whether the
server retires a request before it answers. `OwnAnswer` is claimed for a server that does, until a call is
abandoned; with one that answers first, an answer can meet a call whose request is still held, and be left
behind for the next.

**GcmCrypt.** One action for each stretch between two calls of the library, each with its failure.
A byte is what it is of: plain or cipher text, tag, garbage (of a forged text), leftover, zero.

**PciConfig.** A dword is its four bytes. An access has two halves, as in the code: `Start` writes the
address port and remembers what is asked for, in which lane and of which width, and the data half reads or
writes the bytes that are now behind `cf8`. The users are "boot", "keymaster" (the system call) and "ns";
each has at most one access in progress. A user whose address NS has overwritten is in `disturbed`; LK's
users do not disturb one another, which is what `ReachesItsRegister` is about. `probe` is
`heci_get_base_addr`, one action for each of its accesses to memory mapped configuration space, the
command register's reads and writes included, between which NS may run. What a function does with a write
(`Kept`: the read only bits of a BAR of 4 KB) is external.

**KernelImage.** Addresses count words of 8 bytes. `Sections` places the sections of a `layout`, sizes for
text, relocations, read only data, data, constructors and bss, as the linker script does, some at
the start of a page and some not. `BootTable` is what `start.S` maps, `UpdatePagetable` the ranges
`platform_update_pagetable` maps over it, one after the other, each rounded to pages by the kernel's
`x86_mmu_map_range`: upwards or downwards, `roundUp`, as it is external.

**MpBoot.** `page` holds the operands that `startup_hotpatch` writes into the copied code, `Foreign`
when the page is NS's. A processor that gets the start-up IPI finds its way (`Finds`) if segment,
offsets, GDT and jump are those of the page the vector names, and is "lost" otherwise.

**Platform.** `stage` is the boot's place, one action for each function and, around a PCI access, for
each half. `machine` is chosen in `Init`: an image, a hypervisor, a processor, the BARs firmware left.
`base` records how each driver reaches its registers (through the linear map, a page of
`vmm_alloc_physical`, or the window of `spi_mmu_init`) and at which address. Afterwards `x86_mp_init`
may be called, then the keymaster application, the fingerprint application and NS run. A device
of another module of LK (external) stands for the users of the functions that nothing in this
repository calls.

## 3 The runs

| run | states | shows |
|---|---|---|
| `heci_reliable` | 2912 | two calls over a link that answers: the keybox byte for byte (`KeyboxIntact`), stores within the buffers, each answer to its request, fragments within the circular buffer, also one smaller than a request (`FitsHostBuffer`), and the calls implement `KeyboxService` |
| `heci_faults` | 369902 | two calls with a timeout or a failed mapping anywhere, answers in pieces or late, a CSE that may fall silent: `Accounting`, `StoredPrefix`, each call returns, and the calls implement the `Unchecked` promise of `KeyboxService` (`ImplementsUnchecked`) |
| `device_info` | 913202 | four applications, four blocks, every failure, with whatever a failed exchange makes of the keybox: `LeastPrivilege`, `SecInfoWiped`, `BlocksReturned`, `OneHeciUser`, `AttkbDelivered` |
| `spi` | 249039 | five system calls, three timeouts, a receive FIFO of two words: answers lag by the timeouts and no more (`Lagged`), `InOrder`, `Delivered`, and the chip select (`OwnSelection`) |
| `early_log` | 180716 | two CPUs, seven characters, a ring of four, the UART moved meanwhile: each access is to where the UART is (`IoBaseCurrent`), the newest characters are kept (`NewestKept`), each `\r` stays with its `\n` (`CrBeforeLf`), one character is behind (`OneBehind`), and ring and loop implement `LogQueue` (`ImplementsQueue`), so that nothing is repeated, overtaken or missing on the wire |
| `interrupts` | 20890 | four raised interrupts, two timer calls, with and without SMP: `NoneLost`, `NothingInService`, `TickPerCall`; each interrupt reaches NS or is lost in one of the two ways (`Delivered`) |
| `secure_timer` | 536 | all states: `ArmedWhileWaiting`, and the callback LK waits for comes (`EventComes`) |
| `hwkey` | 678964 | four calls, every failure of the IPC: success means the whole answer to the same command (`WholeAnswer`) and, if the server retires first and no call was abandoned, to one's own request (`OwnAnswer`); each call returns |
| `gcm_crypt` | 751 | three calls, any failure: `NothingLeaks`, `Verified` |
| `platform` | 557606 | six machines: each access of LK reaches its register unless NS redirects it (`ReachesItsRegister`), each exchange maps the CSE's BAR (`BaseIsBar`) and each driver its device (`DevicesReached`), sections and heap (`PagesProtected`), the start of two processors (`ApRunsPatchedPage`, `MpInitReturns`) |

`heci_zero` and `heci_stopped`, which must fail, are in the next section. The type invariants of Heci,
DeviceInfo, Spi, EarlyLog, Interrupts, SecureTimer, HwkeySession, GcmCrypt and Platform are proved for
all constants (section 6) and therefore in no run.

Why the bounds are enough. Heci: in `heci_reliable` a file of 6 bytes with transfers of at most 4 takes
two reads, the second one short, and answers of any length split it otherwise; in `heci_faults` a file of
two bytes may come in one read or two, in one link message or two, two calls let a late answer of the
first meet the second, and six faults are one for each exchange two calls can make, so that the bound
never keeps a wait from timing out. DeviceInfo: one application for each row of the permission matrix that
differs, one without a permission; four blocks are two calls with a keybox, so that two could be in
`get_attkb`, and are reused by others, after each kind of failure; the file is of two bytes, so that a
size may be the file's, another or none; the one with the keybox and one without call twice, the others
once. Spi: a FIFO of two words overruns after two late words, three timeouts allow that and one more.
EarlyLog: the ring wraps and overflows with seven characters in four slots; the lock has two contenders.
Interrupts: two vectors with handlers, one of a device, one of the PIC; four raised interrupts allow one
pending, one in service, one in hand and one more. HwkeySession: one message buffer each way, payloads of
none or one word; a refused or abandoned call, an answer left behind, a call confused by it, and one
after. GcmCrypt: a tag of two bytes, texts shorter and longer than it. Platform: one access of NS, which
can come between any two halves; two system calls, the second of which meets a device NS has moved; images
whose sections end at a page's end and before and after it, both ways to round a range, both hypervisors
and an unknown one, BARs of 32 and 64 bits, registers of either parity in the upper half of a dword; two
processors, which start in either order, and an address above 1 MB.

`CHECK_DEADLOCK FALSE` appears where the bound on calls ends a behaviour, or where nothing is to
be done until a call is made.

## 4 What does not hold

Two runs must fail, each with a property taken from the words of the code.

| run | property | the code | its words |
|---|---|---|---|
| `heci_zero` | `FailureReturnsZero` | `HeciSendwACK` fails with 1, `heci.c:490` tests `status < 0`: a failed exchange is parsed, the request's `Flags` as `ReadSize` = 1 | "if get failure, return zero" |
| `heci_stopped` | `CallReturns` | `init_timer` writes the enable bit to `0x10c`, not `0x10`: with an HPET firmware left stopped, no wait ends | "Enable HPET main counter." |

The modules state more that does not hold. Each is seen to fail by adding it to the configuration
named, as an `INVARIANT`, with the change given.

| statement | configuration | what happens |
|---|---|---|
| `AckIsForRequest` of Heci | `heci_zero` with `MaxCalls = 2` | after a timeout the late answer is taken for the next request's; nothing compares `ReadOffset` |
| `FitsHostBuffer` of Heci | `heci_reliable` with `FaultKinds = {"clock"}`, `MaxFaults = 1` | after a timeout the next request is written over the one not taken |
| `StoresInBounds` of Heci | `heci_faults` | after a timeout a dword of the late answer is taken for a header, and `BufSize >= Index*4` lets one dword be stored behind `DataBuffer` |
| `KeyboxIntact` and `ImplementsService` of Heci | `heci_reliable` with `FaultKinds = {"map"}`, `MaxFaults = 2` | a failed mapping is the status 1, which `heci.c:490` does not take for a failure: the request is parsed, and one byte of it is stored |
| `KeyboxIntact` of Heci | `heci_reliable` with `FragWords = 3` | each link message of an answer overwrites the one before in `DataBuffer` |
| `OnlyTimeoutsFail` of Heci | `heci_reliable` | `wait_event`'s 1 for an interrupt is taken for a failure (`heci.c:270`), the message for which reads "Timeout waiting interrupt" |
| `AttkbSizeMeansKeybox` of DeviceInfo | `device_info` | `attkb_size` is not assigned for a caller without `GET_ATTKB`, and the heap's leftover is copied out |
| `KeyboxConfined` of DeviceInfo | `device_info` | `get_attkb` fails when part of the keybox is stored, `copy_attkb_to_user` frees the block as it is (`syscall_x86.c:117`), and another application's structure is allocated there: its `attkb_size` is four bytes of the keybox |
| `LostInBootOnly` of Interrupts | `interrupts` | with SMP, between `lapic_software_disable` and NS's enabling the APIC a PIC interrupt is taken, acknowledged, and sent to an APIC that refuses it |
| `OwnAnswerAlways` of HwkeySession | `hwkey` | a call gives up with its request outstanding (a short send, a failed `wait`, a failed `get_msg`), and the next with the same command takes its answer |
| `NoIpiAtRunTime` of Interrupts | `interrupts` | an IPI sent in the boot is masked until the boot is over and taken then; "There should not any IPI at run time" |
| `StartedIfTvBigger` of SecureTimer | `secure_timer` | the comparison is the other way round than "Timer will be started at Android side if tv bigger than cv" |
| `NoWildAccess` of Platform | `platform` | `cse_init` fails, is logged, and the first exchange reads through the address 0; or `spi_mmu_init` ignores that it could not map |
| `HeapInRegion` of Platform | `platform` | an image that does not end at a page's end: base and size of the arena are both rounded up (`platform.c:126-127`), and the heap ends a page behind the region |
| `SepPresent` of Platform | `platform`, processors with `edx` `{0, 3}` | `BITMAP_GET(val, SEP_BIT)` takes a mask: 11 tests the bits 0, 1 and 3, so a processor without SEP passes |
| `PanicReachesVmm` of Platform | `platform` | a panic before `smc_init` uses EVMM's hypercall on ACRN; `vmcall.c:31` calls the initial value a workaround |
| `NsReachesItsRegister` of PciConfig | `platform` | the system call writes the address port between the two halves of an access of NS |

Three properties of `platform` hold under assumptions on the machine, and fail without:

| assumption | without it |
|---|---|
| as many processors as `SMP_MAX_CPUS` | one more: `ApRunsPatchedPage` fails, the last one may start on a page already given back, and `MpInitReturns`, for the count may step over the number the loop waits for; one less: `MpInitReturns` fails |
| a start-up address is that of a page | `ApRunsPatchedPage` fails for 32784: the vector has the page only, and only addresses above 1 MB are refused |
| UART, SPI controller and CSE below 4 GB | `DevicesReached` and `BaseIsBar` fail for 64 bit BARs with an upper half: the drivers do not read it |

## 5 Fairness

- Heci: weak fairness of the host's steps (its thread is scheduled) and strong fairness of
  `TimeOut` (a clock that runs reaches the timeout of a wait that goes on polling). Nothing is
  assumed of the CSE in `heci_faults`, where it may fall silent; `heci_reliable` adds
  `WF_vars(Device)`.
- Interrupts: weak fairness of the hooks, the handler and the return, which run to their end by
  themselves; of NS's enabling interrupts and restarting an interrupted call, as the Trusty driver
  does; strong fairness of NS's handling a pending vector, for NS has its interrupts on again and
  again between its calls, not continuously.
- SecureTimer: weak fairness of LK's steps and of NS's reading the wall; strong fairness of the
  expiry and of the call that follows. Every return from LK starts the interval anew, as
  `update_wall_cb` publishes `back_timer` each time, so the expiry needs that now and then NS makes
  no call for as long as the interval. Without that the code makes no progress either.
- HwkeySession: weak fairness of the client's ordinary steps, not of `WaitFails` and `GetMsgFails`, so
  that no call returns only because it may fail; and of the server (it answers or hangs up).
- Platform: weak fairness of the steps of `x86_mp_init`, which loops without giving up its
  processor, and of the other processors' once they have the start-up IPI. Nothing else is assumed:
  the boot may stop, and nothing has to call `x86_mp_init`.

DeviceInfo, Spi, EarlyLog and GcmCrypt are checked for safety only, without fairness. No run
assumes that a fault stops happening.

## 6 Proofs

Every invariant of a passing run, the three refinements and the action property `Delivered` of Spi are
stated by a theorem. Each proof goes through an inductive invariant: the property alone is
not kept by a step, and what has to be added to it is what the code relies on without saying so.

Assumptions on constants are named and stated in the modules that declare them; each run
evaluates them. Some theorems need more of the constants. That is a definition of the theorem's module,
is written into the statement (`ASSUME ... PROVE`) and holds of the constants of the run that checks
the same property:

| hypothesis | of | says | why |
|---|---|---|---|
| `Timely` | `HostBufferSuffices`, `NoStoreOutside`, `AcksMatch` | no wait times out; any mapping may fail | section 4 has what fails after a timeout |
| `KeyboxFits` | `NoStoreOutside` | the keybox is no larger than the caller's buffer | nothing compares `TotalFileSize` with `MAX_ATTKB_SIZE` |
| `InOnePiece` | `AcksMatch` | the CSE sends any answer in one link message | section 7: a second one overwrites the first |
| `Reliable` | `KeyboxArrives`, `Implements` | `KeyboxFits`, `InOnePiece`, no wait times out and every mapping succeeds | after a failed mapping `get_attkb` takes its own request for an answer of one byte: the status 1 is not below 0, and the request's flags lie where `ReadSize` is read (section 4) |
| `Placed`, `Counted` | `PageOutlivesStart` | the start-up address is a page's, `SMP_MAX_CPUS` the number of processors | section 4, last table |
| `ImageFits` | `ImageProtected` | every image ends within the region `start.S` maps | `start.S` maps no more, so a larger image would not get through the boot |
| `Placed4G` | `ProbeRestores`, `DriversFind` | BAR 0 of each driver's device holds what a function decoding 4 KB keeps, below 4 GB | section 4, last table |

**HeciProofs** (any file size within 16 bits, any buffers, any number of calls). With any faults and
answers in any pieces: `TypeCorrect`, `BooksBalance` (`Accounting`), `NoHoles` (`StoredPrefix`). None of
the three is inductive alone: `ParseRead` keeps the types because the books balance, and leaves no hole
because `offset` is typed; `IInv` is their conjunction. With `Timely`: `HostBufferSuffices`
(`FitsHostBuffer`); with `KeyboxFits` also `NoStoreOutside` (`StoresInBounds`), both however the CSE cuts
its answers; with `InOnePiece`, `AcksMatch` (`AckIsForRequest`). With `Reliable`: `KeyboxArrives`
(`KeyboxIntact`), and `Implements`: the calls implement `KeyboxService`, the start of a call and its
return being the service's two steps and all steps between of host, link and CSE stutters. With no
hypothesis, `ImplementsAlways`: whatever fails, the calls implement the `Unchecked` promise, for `offset`
counts what is stored and a size is returned only when all of it is. `LinkInv` says where each dword of an
exchange is at each point: between exchanges nothing is on its way (`Quiet`); then the request is in the
host's buffer (`Asked`), the answer partly in the CSE's buffer and partly still in the CSE (`Answered`),
partly read (`Reading`), all read (`Heard`). Of an answer in two link messages (`Split`) it follows one
part at a time (`Part`) and what is still to come (`After`), but not what is in `DataBuffer`, which the
second part overwrites. A host whose buffer does not hold a request never gets beyond its first fragment
(`Stuck`), so the depth is arbitrary; after a failed mapping the buffer still holds the request
(`Unheard`), and nothing is on its way. `KeyboxInv` says that what is stored is the beginning of the
keybox, and, of answers in pieces, too, that the size is the file's or none: whichever part `DataBuffer`
holds last, a dword that is not the size is never read as it. Answers of no bytes are allowed.

**DeviceInfoProofs** (any applications, any heap, any sizes no larger than the caller's buffer): `TypeCorrect`, `SecretsConfined` (`LeastPrivilege`),
`SecretsWiped` (`SecInfoWiped`), `NoBlockKept` (`BlocksReturned`), `LinkNotShared` (`OneHeciUser`),
`SizeIsOfItsBytes` (`AttkbDelivered`). The strengthening says who owns which block: a call in progress
owns its structure and, for the keybox, a second block and no third; what a filled structure holds of
the sec info is visible to its owner; a keybox block holds no secret of the sec info. Leftovers of a
keybox stay in `mem` wherever it goes, and `Scraps` says that a word is `Scrap` only in a block that
may hold some, which is why `LeastPrivilege` promises nothing of the keybox once a block does. `Told`
adds what a call is about to say: at the first copy the buffer has as many bytes stored as `get_attkb`
returned, and the file's while no exchange failed; at the second the structure has no size or that of
the bytes the application has already. `TypeCorrect` needs `Told`, too: `ret` is -1 until the first call has returned, and only `Told` keeps
it out of `attkb_size`.

**SpiProofs** (any depth, any number of calls and timeouts): `TypeCorrect`, `AnswersLag`,
`NoWordTwice`, `SelectionNotShared`, the action property `OwnWordsDelivered` (`Delivered`), and two
that no run repeats: `TransmitBounded`, at most one
word more than there were timeouts is on its way, and `NothingClockedDeselected`, without a timeout
no word is clocked out with the peripheral deselected. The heart is
`Outstanding`: words on their way and in the FIFO are the timeouts plus the one word awaited,
exactly, as long as nothing overran, and never more. `Fifo` says that the receive FIFO holds the
last words clocked in order, `Transferred` that a transfer has stored one word for each it sent,
`Before` that stored words come before those in the FIFO.

**EarlyLogProofs** (any processors, any size of the ring): `TypeCorrect`, `RegistersCurrent`
(`IoBaseCurrent`), `RingHoldsNewest` (`NewestKept`), `WireHasNoGap` (`NoGap`), `LastStaysBehind`
(`OneBehind`), `NewlinesWhole` (`CrBeforeLf`, of the order in which characters enter the log: a full ring
may drop the `\r` alone, and `init_uart`'s newline has none), and `Implements`: ring, indices and loop are
a `LogQueue` (whose wire has no gap, which is why `NoGap` is in no run). `Exclusive` says who may be
between the lock and the unlock, `init_uart` included, which does not take the lock but runs alone;
`Emptied` when the ring is empty and when it is not; `Successor` that the slot at `get_idx` is the one
after the last on the wire; `Newline` where each processor is in its `\r\n`. The arithmetic of the indices
modulo `BufSize` is in lemmas of its own. For the refinement `WaitingIs` says that what waits is a run of
successive numbers that ends in the newest, and `NoneWaits` that a put finds the ring empty once anything
is on the wire.

**InterruptsProofs** (any vectors): `TypeCorrect`, `Forwarded` (`NoneLost`), `Acknowledged`
(`NothingInService`), `OneTickPerCall` (`TickPerCall`). `Disabled` says that the APIC is disabled only
at the end of an SMP boot, and that what the handler sends to itself then came from the PIC, so that
nothing else is refused; `Service` says that outside the handler nothing is in service, and inside it the
vector in hand or, for a vector of the PIC or the software interrupt, nothing; `Soft` that LK's own
interrupt is executed after the boot.

**SecureTimerProofs**: `TypeCorrect`, `WaitingIsArmed` (`ArmedWhileWaiting`), `OwnAnswer`
(`AnswerOfItsCall`, stated by no run: each SMC gets the answer of its own kind), from what
`back_timer` says of the last request, that NS reads a wall just published, and which calls can be in
which world.

**LibraryProofs**. Of HwkeySession (any channel, any commands and statuses, any number of calls):
`TypeCorrect`, `AnswerWhole` (`WholeAnswer`), `AnswerOwn` (`OwnAnswer`). `Single` is what the last one
rests on: with a server that retires first, and until a call is abandoned (`Steady`), there is one message
on its way at most, it is of the call in progress, and there is none between calls. Of GcmCrypt (any texts
and tags): `CryptTypeCorrect`, `NoTextLeft` (`NothingLeaks`), `TextVerified` (`Verified`), from what the
block holds at each place of the function.

**PlatformProofs** (any devices, machines, modules, numbers of accesses and of processors):
`PortsInStep` (`ReachesItsRegister`), `PageOutlivesStart` (`ApRunsPatchedPage`), `ImageProtected`
(`PagesProtected`), `ProbeRestores` (`BaseIsBar`), `DriversFind` (`DevicesReached`), `TypeCorrect`.

- For the first, `NextPorts` shows that each of the platform's steps treats the ports in one of three
  ways, starting an access whose lane is what the register has beyond its dword (`Lanes`, for each
  width), finishing one, or leaving them alone. `Turn` says whose access may start when, and `PortInv`
  that the boot's are over at its last hooks, before the keymaster application's can begin: so of LK's
  users one at most has an access open, and unless NS disturbed it `cf8` has its address.
- For the second `MpInv` counts: `cpu_waken_up` is one more than the processors awake, so that the
  loop ends only when all of them are, and then none is on the page; until then the page holds the
  patch, of which `PatchedFinds` shows by the arithmetic of a real mode segment that it leads back to
  the page.
- For the third `MemInv` follows the page table from `start.S` to the last hook. `MapRangeIs` says
  what one range writes, for both ways to round, and `UpdateProtects` lays the ranges of
  `platform_update_pagetable` one over the other, in the order of the sections (`SectionsInOrder`), until
  each section's pages have the permissions its content needs. A page that `.text` or `.rodata` fills
  only in part is not claimed to be read-only: rounded downwards, the last one stays writable.
- The last two share `RegInv`. `SpaceInv`: the drivers' devices stay below 4 GB and keep the
  low bits of BAR 0, whoever writes it. `PortsInv`: which access each user may have open at each stage of
  the boot and after it. `BarsInv`: what a driver was told is its device's BAR unless NS moved the
  device. `ProbeInv`: at each place of `heci_get_base_addr` what it remembers of the CSE's BAR, and that
  the BAR holds it but between the two writes that learn the size, unless NS interferes.
- `TypeCorrect` needs none of that and holds wherever firmware puts the devices. `PciTypes` says that an
  access in progress lies within its dword and writes as many bytes as it says, and that the address port
  names a register there is. Each step starts such an access, finishes one or leaves the ports alone
  (`NextPortsTyped`), and writes nothing but dwords (`NextRegistersTyped`): the bytes of the lane put
  into the old dword (`PortWrites`), and what a function keeps of them (`KeptIs`).

Only model-checked: liveness (`CallReturns` of Heci and of HwkeySession, `Delivered` of
Interrupts, `EventComes`, `MpInitReturns`), which this prover cannot do under fairness. It has no
induction over data and no `RECURSIVE` operators; no module here uses the latter.

## 7 What is not modelled

- In Heci the mapping of the registers is reduced to its failure; how they are found is in PciConfig.
  The two are not run together: they share no state but the mapping's success.
- The runs of HECI have answers of at least one byte (`MinRead` = 1): the code's loop is unbounded
  otherwise. The theorems hold for answers of no bytes, too.
- An answer of the CSE in two link messages is modelled (`heci_faults`), where the second overwrites
  the first, as in the code. `KeyboxIntact`, `AckIsForRequest` and the refinement are checked and
  proved for answers of one message: with `FragWords` 2 or 3, `MaxTransfer` 8 and a keybox whose fourth
  byte is 0, TLC finds `AckIsForRequest` violated, data being taken for the response's header.
- The 16 and 32 bit SPI words, which nothing selects; the interrupts of application processors, which
  share only the handlers with those of the boot processor; the clock (`current_time` and
  `current_time_hires`, which returns what the former read last): nothing modelled depends on it.
- The contents of SPI words, log characters and keys: no property depends on them.
- `clear_sensitive_data` and the values of `multiboot.h`, which nothing uses; the descriptor tables
  `start.S` loads; `start16.S`, which is LK's and modelled by what `mp_init.c` patches into it; the
  system call stubs, which have no state; the vendored libraries, more than a third of the lines.

## 8 Plan

The modules were written in the order of section 2, all that were planned. Left to do:

- Proofs: `StoresInBounds` after a timeout, when a late answer is taken for the next one's.
- Abstract specifications: a request and reply service for HwkeySession, which `OwnAnswer` and
  `CallReturns` describe in parts.
- What an abandoned call can still do to later ones: by how many calls an answer can be late.
- Liveness: that a system call ends and the log's lock is released, each under weak fairness.
- The interrupts of the other processors, each with its own APIC, in `Interrupts`.

## 9 Running it

In this directory: `tlc -config spi.cfg MCSpi` (the run's module is in `PROJECT.json`),
`tlapm SpiProofs.tla`. Every run takes about two and a half minutes at most with two workers.
