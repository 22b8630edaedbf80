-------------------------- MODULE InterruptsProofs --------------------------
(***************************************************************************)
(* Theorems about Interrupts, for every set of vectors and any number of   *)
(* interrupts and calls.  The inductive invariant says what the handler    *)
(* knows of the vector it was entered with: it is in service, or came from *)
(* the PIC, or is LK's own "int"; and that nothing but a vector of the PIC *)
(* is in its hands while the APIC is disabled.                             *)
(***************************************************************************)
EXTENDS Interrupts, TLAPS

(* The vector in service is the handler's, and only until its EOI.         *)
Service ==
  /\ pc # "Irq" => isr = {}
  /\ pc = "Irq" => isr = {cur} \/ (isr = {} /\ (cur \in PicVectors \/ cur = INT_PIT))
  /\ pic \subseteq PicVectors

(* LK's own "int" is executed once for a call, after the boot.             *)
Soft ==
  /\ restart \/ (pc = "Irq" /\ IsTick) => stage = "done"
  /\ pc = "Irq" /\ IsTick => ~restart

(* The APIC is disabled only at the end of an SMP boot, and what the       *)
(* handler sends to itself then it has from the PIC.                       *)
Disabled ==
  /\ ~apicOn => smp /\ stage = "done"
  /\ ~apicOn => isr = {} /\ (pc = "Self" \/ (pc = "Irq" /\ ~IsTick) => cur \in PicVectors)

IInv == TypeOK /\ Service /\ Soft /\ Disabled /\ NoneLost /\ TickPerCall

-----------------------------------------------------------------------------
LEMMA InitInv == Init => IInv
<1> SUFFICES ASSUME Init PROVE IInv
  OBVIOUS
<1>1. TypeOK
  <2>1. raised \in 0 .. MaxRaised /\ calls \in 0 .. MaxCalls /\ ticks \in 0 .. MaxCalls
    BY VectorAssumption DEF Init
  <2>2. smp \in BOOLEAN /\ apicOn \in BOOLEAN /\ restart \in BOOLEAN
    BY DEF Init
  <2>3. stage \in Stages /\ world = "LK" /\ pc = "Run" /\ cur \in Vectors
    BY VectorAssumption DEF Init, Stages
  <2>4. irr = {} /\ isr = {} /\ pic = {} /\ owed = {} /\ dropped = {} /\ refused = {}
    BY DEF Init
  <2> QED BY <2>1, <2>2, <2>3, <2>4 DEF TypeOK
<1>2. pc = "Run" /\ isr = {} /\ pic = {} /\ restart = FALSE /\ owed = {} /\ dropped = {} /\ refused = {} /\ apicOn = TRUE /\ ticks = 0 /\ calls = 0
  BY DEF Init
<1> QED BY <1>1, <1>2 DEF IInv, Service, Soft, Disabled, NoneLost, losses, TickPerCall, Unserved

(* Steps that neither move the handler nor touch what it has in hand.      *)
LEMMA RaiseInv ==
  ASSUME IInv, NEW v \in Vectors, Raise(v)
  PROVE  IInv'
<1>1. TypeOK'
  <2>1. raised' \in 0 .. MaxRaised
    BY VectorAssumption DEF IInv, TypeOK, Raise
  <2>2. UNCHANGED <<boot, apicOn, isr, world, pc, cur, restart, calls, ticks>>
    BY DEF Raise
  <2>3. /\ irr' \subseteq Vectors /\ pic' \subseteq Vectors /\ owed' \subseteq Vectors
        /\ dropped' \subseteq Vectors /\ refused' \subseteq Vectors
    BY DEF IInv, TypeOK, Raise
  <2> QED BY <2>1, <2>2, <2>3 DEF IInv, TypeOK, losses, boot
<1>2. /\ UNCHANGED <<isr, pc, cur, restart, smp, stage, apicOn, calls, ticks>>
      /\ owed' = owed \cup {v} /\ v \in irr' \cup pic'
      /\ dropped' = dropped \ {v} /\ refused' = refused \ {v}
      /\ irr \subseteq irr' /\ pic \subseteq pic' /\ pic' \subseteq pic \cup PicVectors
  BY DEF Raise, boot
<1> QED BY <1>1, <1>2 DEF IInv, Service, Soft, Disabled, NoneLost,
           losses, InHand, IsTick, TickPerCall, Unserved

LEMMA SendRescheduleIpiInv == IInv /\ SendRescheduleIpi => IInv'
<1> SUFFICES ASSUME IInv, SendRescheduleIpi PROVE IInv'
  OBVIOUS
<1>1. TypeOK'
  <2>1. raised' \in 0 .. MaxRaised
    BY VectorAssumption DEF IInv, TypeOK, SendRescheduleIpi
  <2>2. UNCHANGED <<boot, apicOn, isr, pic, world, pc, cur, restart, owed, losses, calls, ticks>>
    BY DEF SendRescheduleIpi
  <2>3. irr' \subseteq Vectors
    BY VectorAssumption DEF IInv, TypeOK, SendRescheduleIpi
  <2> QED BY <2>1, <2>2, <2>3 DEF IInv, TypeOK, losses, boot
<1>2. /\ UNCHANGED <<isr, pic, pc, cur, restart, owed, losses, smp, stage, apicOn, calls, ticks>>
      /\ irr \subseteq irr'
  BY DEF SendRescheduleIpi, boot
<1> QED BY <1>1, <1>2 DEF IInv, Service, Soft, Disabled, NoneLost,
           losses, InHand, IsTick, TickPerCall, Unserved

LEMMA HookInv ==
  ASSUME IInv, NEW from, NEW to \in Stages, from # "done", Hook(from, to),
         apicOn' = apicOn \/ (apicOn' = FALSE /\ smp /\ to = "done")
  PROVE  IInv'
<1>1. TypeOK'
  BY DEF IInv, TypeOK, Hook, losses, bounds
<1>2. /\ UNCHANGED <<isr, irr, pic, pc, cur, restart, owed, losses, smp, calls, ticks>>
      /\ stage # "done" /\ stage' = to /\ pc = "Run"
  BY DEF Hook, bounds
<1>3. apicOn = TRUE /\ isr = {} /\ refused = {}
  BY <1>2 DEF IInv, TypeOK, Service, Disabled, NoneLost
<1> QED BY <1>1, <1>2, <1>3 DEF IInv, Service, Soft, Disabled, NoneLost,
           losses, InHand, IsTick, TickPerCall, Unserved

LEMMA HooksInv == IInv /\ Hooks => IInv'
<1> SUFFICES ASSUME IInv, Hooks PROVE IInv'
  OBVIOUS
<1>1. PICK from \in {"boot", "pic", "booted", "unmasked"}, to \in Stages :
       /\ Hook(from, to)
       /\ apicOn' = apicOn \/ (apicOn' = FALSE /\ smp /\ to = "done")
  BY DEF Hooks, RestorePic, SetBootComplete, Unmask, LapicSoftwareDisable, Stages
<1>2. from # "done"
  BY <1>1
<1> QED BY <1>1, <1>2, HookInv

-----------------------------------------------------------------------------
(* The handler.                                                            *)
LEMMA InterruptInv ==
  ASSUME IInv, NEW v \in Vectors, Interrupt(v)
  PROVE  IInv'
<1>1. TypeOK'
  BY DEF IInv, TypeOK, Interrupt, losses, boot, bounds
<1>2. /\ pc = "Run" /\ pc' = "Irq" /\ cur' = v /\ isr = {}
      /\ UNCHANGED <<restart, owed, losses, smp, stage, apicOn, calls, ticks>>
  BY DEF IInv, Service, Interrupt, boot, bounds
<1>3. \/ apicOn /\ irr' = irr \ {v} /\ isr' = {v} /\ pic' = pic
      \/ v \in PicVectors /\ pic' = pic \ {v} /\ irr' = irr /\ isr' = {}
  BY <1>2 DEF IInv, Service, Interrupt
<1>4. ~IsTick'
  BY <1>2, <1>3, VectorAssumption DEF IsTick
<1> QED BY <1>1, <1>2, <1>3, <1>4 DEF IInv, Service, Soft, Disabled, NoneLost,
           losses, InHand, TickPerCall, Unserved

LEMMA SoftInterruptInv == IInv /\ SoftInterrupt => IInv'
<1> SUFFICES ASSUME IInv, SoftInterrupt PROVE IInv'
  OBVIOUS
<1>1. TypeOK'
  BY VectorAssumption DEF IInv, TypeOK, SoftInterrupt, losses, boot, bounds
<1>2. /\ pc = "Run" /\ pc' = "Irq" /\ cur' = INT_PIT /\ isr = {}
      /\ restart = TRUE /\ restart' = FALSE /\ stage = "done"
      /\ UNCHANGED <<irr, isr, pic, owed, losses, smp, stage, apicOn, calls, ticks>>
  BY DEF IInv, TypeOK, Service, Soft, SoftInterrupt, boot, bounds
<1>3. IsTick'
  BY <1>2 DEF IsTick
<1> QED BY <1>1, <1>2, <1>3 DEF IInv, Service, Soft, Disabled, NoneLost,
           losses, InHand, TickPerCall, Unserved

LEMMA DropInv == IInv /\ Drop => IInv'
<1> SUFFICES ASSUME IInv, Drop PROVE IInv'
  OBVIOUS
<1>1. TypeOK'
  BY DEF IInv, TypeOK, Drop, Gone, losses, boot, bounds
<1>2. /\ pc = "Irq" /\ pc' = "Run" /\ isr' = {} /\ dropped' = dropped \cup Gone
      /\ UNCHANGED <<irr, pic, cur, restart, owed, refused, smp, stage, apicOn, calls, ticks>>
  BY DEF Drop, boot, bounds
<1>3. ~IsTick /\ ~restart
  BY <1>2 DEF Drop, booted, IInv, Soft
<1> QED BY <1>1, <1>2, <1>3 DEF Gone, IInv, Service, Soft, Disabled, NoneLost,
           losses, InHand, TickPerCall, Unserved

LEMMA TimerTickInv == IInv /\ TimerTick => IInv'
<1> SUFFICES ASSUME IInv, TimerTick PROVE IInv'
  OBVIOUS
<1>1. /\ pc = "Irq" /\ pc' = "Run" /\ IsTick /\ isr = {} /\ ticks' = ticks + 1 /\ ~restart
      /\ UNCHANGED <<boot, apicOn, irr, isr, pic, world, cur, restart, owed, losses, bounds>>
  BY DEF TimerTick, IInv, Service, Soft, IsTick
<1>2. ticks \in Nat /\ calls \in 0 .. MaxCalls /\ ticks + 1 = calls
  BY <1>1 DEF IInv, TypeOK, TickPerCall, Unserved
<1>3. ticks' \in 0 .. MaxCalls
  BY <1>1, <1>2, VectorAssumption
<1>4. TypeOK'
  BY <1>1, <1>3 DEF IInv, TypeOK, losses, boot, bounds
<1>5. Service' /\ Soft' /\ Disabled' /\ NoneLost'
  BY <1>1 DEF IInv, Service, Soft, Disabled, NoneLost, losses, InHand, IsTick, boot
<1>6. TickPerCall'
  <2>1. ~Unserved' /\ calls' = calls
    BY <1>1 DEF Unserved, bounds
  <2>2. ticks' + 0 = calls'
    BY <1>1, <1>2, <2>1
  <2> QED BY <2>1, <2>2 DEF TickPerCall
<1> QED BY <1>4, <1>5, <1>6 DEF IInv

LEMMA EoiInv == IInv /\ Eoi => IInv'
<1> SUFFICES ASSUME IInv, Eoi PROVE IInv'
  OBVIOUS
<1>1. TypeOK'
  BY DEF IInv, TypeOK, Eoi, losses, boot, bounds
<1>2. /\ pc = "Irq" /\ ~IsTick /\ pc' = "Self" /\ isr' = {}
      /\ UNCHANGED <<irr, pic, cur, restart, owed, losses, smp, stage, apicOn, calls, ticks>>
  BY DEF Eoi, boot, bounds
<1> QED BY <1>1, <1>2 DEF IInv, Service, Soft, Disabled, NoneLost,
           losses, InHand, TickPerCall, Unserved

LEMMA SelfIpiInv == IInv /\ SelfIpi => IInv'
<1> SUFFICES ASSUME IInv, SelfIpi PROVE IInv'
  OBVIOUS
<1>1. TypeOK'
  BY DEF IInv, TypeOK, SelfIpi, Gone, losses, boot, bounds
<1>2. /\ pc = "Self" /\ pc' = "Leave"
      /\ UNCHANGED <<isr, pic, cur, restart, owed, dropped, smp, stage, apicOn, calls, ticks>>
  BY DEF SelfIpi, boot, bounds
<1>3. \/ irr' = irr \cup {cur} /\ refused' = refused
      \/ irr' = irr /\ refused' = refused \cup Gone /\ ~apicOn
  BY DEF SelfIpi
<1>4. ~apicOn => smp /\ stage = "done" /\ cur \in PicVectors
  BY <1>2 DEF IInv, Disabled
<1> QED BY <1>1, <1>2, <1>3, <1>4 DEF Gone, IInv, Service, Soft, Disabled, NoneLost,
           losses, InHand, TickPerCall, Unserved

(* Switches between the worlds.                                            *)
LEMMA SwitchInv == IInv /\ (Leave \/ Return \/ NsEnable \/ NsRestart) => IInv'
<1> SUFFICES ASSUME IInv, Leave \/ Return \/ NsEnable \/ NsRestart PROVE IInv'
  OBVIOUS
<1>1. TypeOK'
  BY DEF IInv, TypeOK, Leave, Return, NsEnable, NsRestart, losses, boot, bounds
<1>2. /\ pc \in {"Run", "Leave"} /\ pc' = "Run" /\ (apicOn' = apicOn \/ apicOn' = TRUE)
      /\ UNCHANGED <<irr, isr, pic, cur, restart, owed, losses, smp, stage, calls, ticks>>
  BY DEF IInv, TypeOK, Leave, Return, NsEnable, NsRestart, boot, bounds
<1> QED BY <1>1, <1>2 DEF IInv, Service, Soft, Disabled, NoneLost,
           losses, InHand, TickPerCall, Unserved

LEMMA NsHandleInv ==
  ASSUME IInv, NEW v \in Vectors, NsHandle(v)
  PROVE  IInv'
<1>1. /\ world = "NS" /\ pc = "Run" /\ pc' = "Run"
      /\ owed' = IF v \in irr' \cup pic' THEN owed ELSE owed \ {v}
      /\ UNCHANGED <<boot, apicOn, isr, world, cur, restart, losses, bounds, ticks>>
      /\ irr' = irr \/ irr' = irr \ {v}
      /\ pic' = pic \/ pic' = pic \ {v}
  BY DEF IInv, TypeOK, NsHandle
<1>2. TypeOK'
  BY <1>1 DEF IInv, TypeOK, losses, boot, bounds
<1> QED BY <1>1, <1>2 DEF IInv, Service, Soft, Disabled, NoneLost, losses, InHand, TickPerCall,
           Unserved, boot, bounds

LEMMA NsTimerCallInv == IInv /\ NsTimerCall => IInv'
<1> SUFFICES ASSUME IInv, NsTimerCall PROVE IInv'
  OBVIOUS
<1>1. /\ pc = "Run" /\ pc' = "Run" /\ ~restart /\ restart' = TRUE /\ stage = "done"
      /\ calls < MaxCalls /\ calls' = calls + 1 /\ world' = "LK"
      /\ UNCHANGED <<boot, apicOn, irr, isr, pic, cur, owed, losses, raised, ticks>>
  BY DEF IInv, TypeOK, NsTimerCall
<1>2. calls \in 0 .. MaxCalls /\ ticks \in 0 .. MaxCalls
  BY DEF IInv, TypeOK
<1>3. calls' \in 0 .. MaxCalls
  BY <1>1, <1>2, VectorAssumption
<1>4. TypeOK'
  BY <1>1, <1>3 DEF IInv, TypeOK, losses, boot
<1>5. TickPerCall'
  <2>1. ~Unserved /\ Unserved' /\ ticks' = ticks
    BY <1>1 DEF Unserved
  <2>2. ticks + 0 = calls
    BY <2>1 DEF IInv, TickPerCall
  <2>3. ticks' + 1 = calls'
    BY <1>1, <1>2, <2>1, <2>2
  <2> QED BY <2>1, <2>3 DEF TickPerCall
<1> QED BY <1>1, <1>4, <1>5 DEF IInv, Service, Soft, Disabled, NoneLost, losses, InHand, boot

LEMMA StutterInv == IInv /\ UNCHANGED vars => IInv'
BY DEF IInv, TypeOK, Service, Soft, Disabled, NoneLost, losses, InHand, IsTick, TickPerCall,
       Unserved, vars, boot, bounds, Stages

-----------------------------------------------------------------------------
(* The invariant holds in every reachable state.                           *)
THEOREM Invariance == Spec => []IInv
<1>1. IInv /\ [Next]_vars => IInv'
  <2> SUFFICES ASSUME IInv, [Next]_vars PROVE IInv'
    OBVIOUS
  <2>1. CASE \E v \in Vectors : Raise(v) \/ Interrupt(v) \/ NsHandle(v)
    BY <2>1, RaiseInv, InterruptInv, NsHandleInv
  <2>2. CASE SendRescheduleIpi \/ Hooks
    BY <2>2, SendRescheduleIpiInv, HooksInv
  <2>3. CASE Handler
    BY <2>3, SoftInterruptInv, DropInv, TimerTickInv, EoiInv, SelfIpiInv, SwitchInv DEF Handler
  <2>4. CASE Return \/ NsEnable \/ NsRestart \/ NsTimerCall
    BY <2>4, SwitchInv, NsTimerCallInv
  <2>5. CASE UNCHANGED vars
    BY <2>5, StutterInv
  <2> QED BY <2>1, <2>2, <2>3, <2>4, <2>5 DEF Next
<1> QED BY InitInv, <1>1, PTL DEF Spec

(* Every variable keeps its type, and NS runs outside LK's handler only.   *)
THEOREM TypeCorrect == Spec => []TypeOK
<1>1. IInv => TypeOK
  BY DEF IInv
<1> QED BY Invariance, <1>1, PTL

(* No interrupt of NS gets lost in LK's handler (platform_irq) but those   *)
(* it drops in the boot and, of the PIC's vectors, those it sends itself   *)
(* while the APIC is disabled (FW_INT_TO_NS after lapic_software_disable). *)
THEOREM Forwarded == Spec => []NoneLost
<1>1. IInv => NoneLost
  BY DEF IInv
<1> QED BY Invariance, <1>1, PTL

(* LK leaves no vector in service behind (FW_INT_TO_NS).                   *)
THEOREM Acknowledged == Spec => []NothingInService
<1>1. IInv => NothingInService
  BY DEF IInv, TypeOK, Service, NothingInService
<1> QED BY Invariance, <1>1, PTL

(* LK's timers tick once for each call of NS (os_timer_tick).              *)
THEOREM OneTickPerCall == Spec => []TickPerCall
<1>1. IInv => TickPerCall
  BY DEF IInv
<1> QED BY Invariance, <1>1, PTL
=============================================================================
