----------------------------- MODULE Interrupts -----------------------------
(***************************************************************************)
(* The boot CPU's interrupts (interrupts.c, timer.c, mp.c, utilities.c).   *)
(* The secure world LK and the non-secure world NS share the CPU and its   *)
(* local APIC.  While LK boots it masks everything; afterwards an          *)
(* interrupt that hits LK belongs to NS, and LK hands it over: EOI, a self *)
(* IPI with the same vector, and a switch to NS with the call interrupted. *)
(* LK's own timer tick is no interrupt of the APIC: NS asks for it with    *)
(* the call SMC_SC_LK_TIMER and LK executes "int $0x31" (smc_x86.c).       *)
(*                                                                         *)
(* External: the APIC, whose IRR and ISR hold one bit for each vector, the *)
(* PIC, sm_handle_irq, which leads to NS with interrupts still off, and NS.*)
(***************************************************************************)
EXTENDS Naturals, FiniteSets

CONSTANTS
  Vectors, INT_PIT, INT_RESCH,
  PicVectors,   \* those the bootloader gave to the PIC
  MaxRaised,    \* bound: interrupts of NS's devices and LK's IPIs
  MaxCalls      \* bound: SMC_SC_LK_TIMER calls

ASSUME VectorAssumption ==
  /\ INT_PIT \in Vectors /\ INT_RESCH \in Vectors /\ INT_PIT # INT_RESCH
  /\ PicVectors \subseteq Vectors
  /\ INT_PIT \notin PicVectors    \* sand_defs.h: "0x31 is not used in Android"
  /\ MaxRaised \in Nat /\ MaxCalls \in Nat

VARIABLES
  smp,          \* the build is WITH_SMP
  stage,        \* how far the last init hooks have come
  apicOn,       \* the local APIC is software-enabled
  irr, isr,     \* local APIC: requested, in service
  pic,          \* requests of the PIC
  world,        \* who runs on the CPU
  pc, cur,      \* LK's handler and the vector it was entered with
  restart,      \* an SMC_SC_LK_TIMER call has not executed its "int" yet
  \* history
  owed,         \* vectors raised for NS that NS has not handled
  dropped,      \* those whose last request LK dropped in its boot
  refused,      \* those LK sent to itself when the APIC was disabled
  raised, calls, ticks

boot == <<smp, stage>>
losses == <<dropped, refused>>
bounds == <<raised, calls>>
vars == <<boot, apicOn, irr, isr, pic, world, pc, cur, restart, owed, losses, bounds, ticks>>

(* platform_early_init is over: the PIC is off, CR8 masks the APIC, and    *)
(* os_timer_tick is registered (with SMP x86_ipi_reschedule_handler, too). *)
Init ==
  /\ smp \in BOOLEAN
  /\ stage = "boot" /\ apicOn = TRUE
  /\ irr = {} /\ isr = {} /\ pic = {}
  /\ world = "LK" /\ pc = "Run" /\ cur = INT_PIT /\ restart = FALSE
  /\ owed = {} /\ dropped = {} /\ refused = {}
  /\ raised = 0 /\ calls = 0 /\ ticks = 0

Stages == {"boot", "pic", "booted", "unmasked", "done"}
picOn == stage # "boot"                          \* restore_pic
booted == stage \in {"booted", "unmasked", "done"}  \* lk_boot_complete
masked == stage \in {"boot", "pic", "booted"}       \* CR8 is 0xF

int_handler_table == {INT_PIT} \cup (IF smp THEN {INT_RESCH} ELSE {})

-----------------------------------------------------------------------------
(* A device of NS, through the APIC or the PIC; an IPI of NS's other CPUs. *)
Raise(v) ==
  /\ raised < MaxRaised /\ raised' = raised + 1
  /\ owed' = owed \cup {v}
  /\ dropped' = dropped \ {v} /\ refused' = refused \ {v}
  /\ \/ apicOn /\ irr' = irr \cup {v} /\ UNCHANGED pic
     \/ v \in PicVectors /\ pic' = pic \cup {v} /\ UNCHANGED irr
  /\ UNCHANGED <<boot, apicOn, isr, world, pc, cur, restart, calls, ticks>>

(* send_reschedule_ipi on another of LK's CPUs: only while LK boots.       *)
SendRescheduleIpi ==
  /\ smp /\ ~booted /\ raised < MaxRaised /\ raised' = raised + 1
  /\ irr' = irr \cup {INT_RESCH}
  /\ UNCHANGED <<boot, apicOn, isr, pic, world, pc, cur, restart, owed, losses, calls, ticks>>

(* The last init hooks: restore_pic, then set_lk_boot_complete.            *)
Hook(from, to) ==
  /\ world = "LK" /\ pc = "Run"
  /\ stage = from /\ stage' = to
  /\ UNCHANGED <<smp, irr, isr, pic, world, pc, cur, restart, owed, losses, bounds, ticks>>

RestorePic == Hook("boot", "pic") /\ UNCHANGED apicOn
SetBootComplete == Hook("pic", "booted") /\ UNCHANGED apicOn
Unmask == Hook("booted", "unmasked") /\ UNCHANGED apicOn
LapicSoftwareDisable ==
  Hook("unmasked", "done") /\ apicOn' = IF smp THEN FALSE ELSE apicOn

-----------------------------------------------------------------------------
(* LK runs with interrupts on: the CPU enters platform_irq.                *)
Interrupt(v) ==
  /\ world = "LK" /\ pc = "Run"
  /\ \/ /\ v \in irr /\ apicOn /\ ~masked /\ isr = {}
        /\ irr' = irr \ {v} /\ isr' = {v} /\ UNCHANGED pic
     \/ /\ v \in pic /\ picOn
        /\ pic' = pic \ {v} /\ UNCHANGED <<irr, isr>>
  /\ pc' = "Irq" /\ cur' = v
  /\ UNCHANGED <<boot, apicOn, world, restart, owed, losses, bounds, ticks>>

(* self_ipi_trigger_timer_intr.                                            *)
SoftInterrupt ==
  /\ world = "LK" /\ pc = "Run" /\ restart
  /\ restart' = FALSE
  /\ pc' = "Irq" /\ cur' = INT_PIT
  /\ UNCHANGED <<boot, apicOn, irr, isr, pic, world, owed, losses, bounds, ticks>>

(* What was taken is gone, unless the same vector is requested again.      *)
Gone == {cur} \ (irr \cup pic)

(* platform_irq drops what comes while LK boots.                           *)
Drop ==
  /\ pc = "Irq" /\ ~booted
  /\ isr' = {} /\ dropped' = dropped \cup Gone
  /\ pc' = "Run"
  /\ UNCHANGED <<boot, apicOn, irr, pic, world, cur, restart, owed, refused, bounds, ticks>>

(* os_timer_tick tells the soft interrupt from one of NS by the ISR bit.   *)
IsTickUnchecked == cur = INT_PIT    \* mutant: ISR is not looked at
IsTick == cur = INT_PIT /\ INT_PIT \notin isr

TimerTick ==
  /\ pc = "Irq" /\ booted /\ IsTick
  /\ ticks' = ticks + 1
  /\ pc' = "Run"
  /\ UNCHANGED <<boot, apicOn, irr, isr, pic, world, cur, restart, owed, losses, bounds>>

(* FW_INT_TO_NS and x86_ipi_reschedule_handler: EOI, self IPI.             *)
EoiForgotten ==                 \* mutant: no EOI
  /\ pc = "Irq" /\ booted /\ ~IsTick
  /\ pc' = "Self"
  /\ UNCHANGED <<boot, apicOn, irr, isr, pic, world, cur, restart, owed, losses, bounds, ticks>>

Eoi ==
  /\ pc = "Irq" /\ booted /\ ~IsTick
  /\ isr' = {} /\ pc' = "Self"
  /\ UNCHANGED <<boot, apicOn, irr, pic, world, cur, restart, owed, losses, bounds, ticks>>

SelfIpiForgotten ==             \* mutant: EOI only
  /\ pc = "Self"
  /\ pc' = "Leave"
  /\ UNCHANGED <<boot, apicOn, irr, isr, pic, world, cur, restart, owed, losses, bounds, ticks>>

(* An APIC that LK has disabled accepts no fixed interrupt, its own CPU's  *)
(* included: what LK took from the PIC since then goes nowhere.            *)
SelfIpi ==
  /\ pc = "Self" /\ pc' = "Leave"
  /\ \/ apicOn /\ irr' = irr \cup {cur} /\ UNCHANGED refused
     \/ ~apicOn /\ refused' = refused \cup Gone /\ UNCHANGED irr
  /\ UNCHANGED <<boot, apicOn, isr, pic, world, cur, restart, owed, dropped, bounds, ticks>>

(* sm_handle_irq: the call returns to NS, interrupted.                     *)
Leave ==
  /\ pc = "Leave" /\ world' = "NS" /\ pc' = "Run"
  /\ UNCHANGED <<boot, apicOn, irr, isr, pic, cur, restart, owed, losses, bounds, ticks>>

(* The call is over, or the boot is.                                       *)
Return ==
  /\ world = "LK" /\ pc = "Run" /\ stage = "done" /\ ~restart
  /\ world' = "NS"
  /\ UNCHANGED <<boot, apicOn, irr, isr, pic, pc, cur, restart, owed, losses, bounds, ticks>>

-----------------------------------------------------------------------------
(* NS enables the APIC, handles interrupts and calls.                      *)
NsEnable ==
  /\ world = "NS" /\ ~apicOn /\ apicOn' = TRUE
  /\ UNCHANGED <<boot, irr, isr, pic, world, pc, cur, restart, owed, losses, bounds, ticks>>

NsHandle(v) ==
  /\ world = "NS"
  /\ \/ v \in irr /\ apicOn /\ isr = {} /\ irr' = irr \ {v} /\ UNCHANGED pic
     \/ v \in pic /\ pic' = pic \ {v} /\ UNCHANGED irr
  /\ owed' = IF v \in irr' \cup pic' THEN owed ELSE owed \ {v}
  /\ UNCHANGED <<boot, apicOn, isr, world, pc, cur, restart, losses, bounds, ticks>>

NsTimerCall ==
  /\ world = "NS" /\ stage = "done" /\ apicOn /\ ~restart /\ calls < MaxCalls
  /\ calls' = calls + 1 /\ restart' = TRUE /\ world' = "LK"
  /\ UNCHANGED <<boot, apicOn, irr, isr, pic, pc, cur, owed, losses, raised, ticks>>

(* SMC_SC_RESTART_LAST: LK goes on where it was interrupted.               *)
NsRestart ==
  /\ world = "NS" /\ (restart \/ stage # "done") /\ world' = "LK"
  /\ UNCHANGED <<boot, apicOn, irr, isr, pic, pc, cur, restart, owed, losses, bounds, ticks>>

Handler == SoftInterrupt \/ Drop \/ TimerTick \/ Eoi \/ SelfIpi \/ Leave
Hooks == RestorePic \/ SetBootComplete \/ Unmask \/ LapicSoftwareDisable

Next ==
  \/ \E v \in Vectors : Raise(v) \/ Interrupt(v) \/ NsHandle(v)
  \/ SendRescheduleIpi \/ Hooks \/ Handler \/ Return
  \/ NsEnable \/ NsTimerCall \/ NsRestart

Spec == Init /\ [][Next]_vars

(* The init hooks and the handlers run to their end, a call returns, and   *)
(* NS takes what is pending and restarts an interrupted call.              *)
LiveSpec ==
  /\ Spec
  /\ WF_vars(Hooks) /\ WF_vars(Handler) /\ WF_vars(Return)
  /\ WF_vars(NsEnable) /\ WF_vars(NsRestart)
  /\ \A v \in Vectors : SF_vars(NsHandle(v))

-----------------------------------------------------------------------------
TypeOK ==
  /\ smp \in BOOLEAN /\ stage \in Stages /\ apicOn \in BOOLEAN /\ restart \in BOOLEAN
  /\ irr \subseteq Vectors /\ isr \subseteq Vectors /\ pic \subseteq Vectors
  /\ world \in {"LK", "NS"} /\ pc \in {"Run", "Irq", "Self", "Leave"} /\ cur \in Vectors
  /\ owed \subseteq Vectors /\ dropped \subseteq Vectors /\ refused \subseteq Vectors
  /\ raised \in 0 .. MaxRaised /\ calls \in 0 .. MaxCalls /\ ticks \in 0 .. MaxCalls
  /\ world = "NS" => pc = "Run"

(* What LK owes to NS is requested, in service, or in the hands of the     *)
(* handler on its way back to the IRR, so requested whenever NS runs; or   *)
(* lost in one of two ways: dropped in the boot, or, where the build       *)
(* disables the APIC at the end of the boot, taken from the PIC after that *)
(* (interrupts.c:130).  The second never befalls a vector of the APIC.     *)
InHand == IF pc = "Self" \/ (pc = "Irq" /\ ~IsTick) THEN {cur} ELSE {}
NoneLost ==
  /\ owed \subseteq irr \cup pic \cup InHand \cup dropped \cup refused
  /\ refused # {} => smp /\ stage = "done"
  /\ refused \subseteq PicVectors

(* What forwarding is for: LK loses nothing once it has booted.  The code  *)
(* does not keep it.                                                       *)
LostInBootOnly == refused = {}

(* NS never runs with a vector in service that it did not take itself: its *)
(* interrupts would be blocked.                                            *)
NothingInService == world = "NS" \/ pc = "Run" => isr = {}

(* One tick of LK's timers for each SMC_SC_LK_TIMER that NS makes, be it   *)
(* interrupted, and none for an interrupt of NS with LK's vector.          *)
Unserved == restart \/ (pc = "Irq" /\ IsTick)
TickPerCall == ticks + (IF Unserved THEN 1 ELSE 0) = calls

(* mp.c: "There should not any IPI at run time": once LK has booted, an    *)
(* INT_RESCH is one that NS raised.                                        *)
NoIpiAtRunTime == booted /\ pc = "Irq" /\ cur = INT_RESCH => INT_RESCH \in owed

(* Every interrupt reaches NS or is lost as NoneLost says.                 *)
Delivered == \A v \in Vectors : v \in owed ~> (v \notin owed \/ v \in dropped \cup refused)
=============================================================================
