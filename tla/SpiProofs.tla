----------------------------- MODULE SpiProofs -----------------------------
(***************************************************************************)
(* Theorems about Spi, for every FIFO depth, transfer length and number of *)
(* calls and timeouts.  The inductive invariant counts the words that left *)
(* the driver and have not come back: those on their way and those in the  *)
(* receive FIFO are the late ones and the one the call is waiting for.     *)
(***************************************************************************)
EXTENDS Spi, SequenceTheorems, TLAPS

(* The word the call has written and not read back.                        *)
Awaited == IF pc = "Read" /\ enabled THEN 1 ELSE 0

(* Words written and not yet read: exactly the late ones and the awaited   *)
(* one, fewer once the FIFO overran.                                       *)
Outstanding ==
  /\ sent - clocked + Len(rx) <= late + Awaited
  /\ ~overrun => sent - clocked + Len(rx) = late + Awaited
  /\ ~enabled => sent = 0 /\ rx = <<>>

(* The FIFO holds the last words clocked, in order.                        *)
Fifo ==
  /\ \A i, j \in 1 .. Len(rx) : i < j => rx[i] < rx[j]
  /\ \A i \in 1 .. Len(rx) : rx[i] <= clocked
  /\ ~overrun => \A i \in 1 .. Len(rx) : rx[i] = clocked - Len(rx) + i

(* A transfer that stores has stored one word for each that it sent.       *)
Transferred ==
  /\ pc = "CheckBusy" => got = <<>> /\ base = sent
  /\ pc \in {"CheckBusy", "Write", "Read"} => todo >= 1
  /\ pc # "Idle" => base <= sent
  /\ pc # "Idle" /\ op = "write" => got = <<>>
  /\ pc \in {"Write", "Read", "Copy"} /\ op # "write" =>
       sent = base + Len(got) + Awaited
  /\ pc \in {"Write", "Read"} => cs

(* The words stored come before those still in the FIFO.                   *)
Before ==
  pc # "Idle" => \A i \in 1 .. Len(got), j \in 1 .. Len(rx) : got[i] < rx[j]

IInv ==
  TypeOK /\ Outstanding /\ Fifo /\ Transferred /\ Before /\ OwnSelection /\ Lagged /\ InOrder

-----------------------------------------------------------------------------
LEMMA InitInv == Init => IInv
<1> SUFFICES ASSUME Init PROVE IInv
  OBVIOUS
<1>1. TypeOK
  <2>1. enabled \in BOOLEAN /\ cs \in BOOLEAN /\ overrun \in BOOLEAN
    BY DEF Init
  <2>2. sent = 0 /\ clocked = 0 /\ base = 0 /\ todo = 0 /\ skip = 0 /\ late = 0
    BY DEF Init
  <2>3. rx = <<>> /\ got = <<>> /\ user = <<>> /\ pc = "Idle" /\ op = "read"
    BY DEF Init
  <2>4. calls \in 0 .. MaxCalls /\ faults \in 0 .. MaxFaults /\ ret \in Results
    BY SpiAssumption DEF Init, Results
  <2> QED BY <2>1, <2>2, <2>3, <2>4, SpiAssumption DEF TypeOK
<1>2. pc = "Idle" /\ rx = <<>> /\ sent = 0 /\ clocked = 0 /\ late = 0
  BY DEF Init
<1> QED BY <1>1, <1>2 DEF IInv, Outstanding, Fifo, Transferred, Before,
           OwnSelection, Lagged, InOrder, Awaited

(* Back in Idle nothing is said of the transfer any more.                  *)
LEMMA SpiInitInv == IInv /\ SpiInit => IInv'
<1> SUFFICES ASSUME IInv, SpiInit PROVE IInv'
  OBVIOUS
<1>1. TypeOK'
  <2>1. enabled' = TRUE /\ overrun' = FALSE /\ cs' = cs
    BY DEF SpiInit
  <2>2. /\ rx' = <<>> /\ sent' = 0 /\ clocked' = 0 /\ late' = 0
        /\ UNCHANGED <<pc, op, skip, base, todo, got, user, ret, faults>>
    BY DEF SpiInit, callVars
  <2>3. calls' \in 0 .. MaxCalls
    BY SpiAssumption DEF IInv, TypeOK, SpiInit, Called
  <2>4. clocked' \in 0 .. sent' /\ rx' \in Seq(Nat) /\ Len(rx') <= RxDepth
    BY <2>2, SpiAssumption
  <2> QED BY <2>1, <2>2, <2>3, <2>4 DEF IInv, TypeOK
<1>2. pc' = "Idle" /\ rx' = <<>> /\ sent' = 0 /\ clocked' = 0 /\ late' = 0
  BY DEF SpiInit, Called
<1> QED BY <1>1, <1>2 DEF IInv, Outstanding, Fifo, Transferred, Before,
           OwnSelection, Lagged, InOrder, Awaited

(* Calls that do not begin a transfer.                                     *)
LEMMA SetCsInv ==
  ASSUME IInv, NEW flag \in BOOLEAN, SetCs(flag)
  PROVE  IInv'
<1>1. TypeOK'
  BY SpiAssumption DEF IInv, TypeOK, SetCs, Called, callVars, Results
<1>2. pc' = "Idle" /\ UNCHANGED <<enabled, rx, sent, clocked, late, overrun, pc>>
  BY DEF SetCs, Called
<1> QED BY <1>1, <1>2 DEF IInv, Outstanding, Fifo, Transferred, Before,
           OwnSelection, Lagged, InOrder, Awaited

LEMMA RefusedInv == IInv /\ Refused => IInv'
<1> SUFFICES ASSUME IInv, Refused PROVE IInv'
  OBVIOUS
<1>1. TypeOK'
  BY SpiAssumption DEF IInv, TypeOK, Refused, Called, callVars, device, Results
<1>2. pc' = "Idle" /\ UNCHANGED <<enabled, rx, sent, clocked, late, overrun, pc>>
  BY DEF Refused, Called, device
<1> QED BY <1>1, <1>2 DEF IInv, Outstanding, Fifo, Transferred, Before,
           OwnSelection, Lagged, InOrder, Awaited

LEMMA TransferInv == IInv /\ Transfer => IInv'
<1> SUFFICES ASSUME IInv, Transfer PROVE IInv'
  OBVIOUS
<1>1. PICK o \in {"read", "write", "writeread"}, n \in Nat \ {0}, s \in Nat : Enter(o, n, s)
  BY SpiAssumption DEF Transfer
<1>2. TypeOK'
  BY <1>1, SpiAssumption DEF IInv, TypeOK, Enter, Called, device, Results
<1>3. /\ pc = "Idle" /\ pc' = "CheckBusy" /\ got' = <<>> /\ base' = sent /\ todo' >= 1
      /\ UNCHANGED <<enabled, rx, sent, clocked, late, overrun>>
  BY <1>1 DEF Enter, Called, device
<1> QED BY <1>2, <1>3 DEF IInv, TypeOK, Outstanding, Fifo, Transferred, Before,
           OwnSelection, Lagged, InOrder, Awaited

LEMMA StillBusyInv == IInv /\ StillBusy => IInv'
<1> SUFFICES ASSUME IInv, StillBusy PROVE IInv'
  OBVIOUS
<1>1. TypeOK'
  BY DEF IInv, TypeOK, StillBusy, bounds, callVars, device, Results
<1>2. /\ pc = "CheckBusy" /\ pc' = "Idle"
      /\ UNCHANGED <<enabled, rx, sent, clocked, late, overrun>>
  BY DEF StillBusy, device
<1> QED BY <1>1, <1>2 DEF IInv, Outstanding, Fifo, Transferred, Before,
           OwnSelection, Lagged, InOrder, Awaited

LEMMA NotBusyInv == IInv /\ NotBusy => IInv'
<1> SUFFICES ASSUME IInv, NotBusy PROVE IInv'
  OBVIOUS
<1>1. TypeOK'
  BY DEF IInv, TypeOK, NotBusy, bounds, callVars, Results
<1>2. /\ pc = "CheckBusy" /\ pc' = "Write" /\ cs' = TRUE /\ ~Busy
      /\ UNCHANGED <<enabled, rx, sent, clocked, late, overrun, got, base, op, todo>>
  BY DEF NotBusy, callVars
<1>3. clocked' = sent'
  BY <1>2 DEF Busy, IInv, TypeOK
<1> QED BY <1>1, <1>2, <1>3 DEF IInv, TypeOK, Outstanding, Fifo, Transferred, Before,
           OwnSelection, Lagged, InOrder, Awaited

LEMMA WriteWordInv == IInv /\ WriteWord => IInv'
<1> SUFFICES ASSUME IInv, WriteWord PROVE IInv'
  OBVIOUS
<1>1. /\ pc = "Write" /\ pc' = "Read" /\ cs' = cs
      /\ UNCHANGED <<enabled, clocked, rx, op, skip, base, todo, got, user, ret>>
      /\ UNCHANGED <<late, overrun, calls, faults>>
  BY DEF WriteWord, callVars, bounds
<1>2. PICK k \in {0, 1} : sent' = sent + k /\ Awaited' = k /\ (~enabled => k = 0)
  <2>1. CASE enabled
    BY <1>1, <2>1 DEF WriteWord, Awaited
  <2>2. CASE ~enabled
    <3>1. sent' = sent + 0 /\ Awaited' = 0
      BY <1>1, <2>2 DEF WriteWord, Awaited, IInv, TypeOK
    <3> QED BY <2>2, <3>1
  <2> QED BY <2>1, <2>2
<1>3. sent \in Nat /\ clocked \in 0 .. sent /\ base \in Nat /\ Len(got) \in Nat
      /\ Len(rx) \in Nat /\ late \in Nat
  BY DEF IInv, TypeOK
<1>4. sent' \in Nat /\ clocked' \in 0 .. sent' /\ sent <= sent'
  <2>1. clocked' = clocked /\ sent' = sent + k
    BY <1>1, <1>2
  <2> QED BY <1>3, <2>1
<1>5. Awaited = 0
  BY <1>1 DEF Awaited
<1>6. TypeOK'
  BY <1>1, <1>4 DEF IInv, TypeOK
<1>7. Outstanding'
  <2>1. ~enabled => sent' = 0
    BY <1>1 DEF WriteWord, IInv, Outstanding
  <2>2. sent - clocked + Len(rx) <= late
    BY <1>3, <1>5 DEF IInv, Outstanding
  <2>3. ~overrun => sent - clocked + Len(rx) = late
    BY <1>3, <1>5 DEF IInv, Outstanding
  <2>4. clocked' = clocked /\ rx' = rx /\ late' = late /\ sent' = sent + k /\ Awaited' = k
    BY <1>1, <1>2
  <2>5. sent' - clocked' + Len(rx') <= late' + Awaited'
    BY <1>3, <2>2, <2>4
  <2>6. ~overrun' => sent' - clocked' + Len(rx') = late' + Awaited'
    BY <1>1, <1>3, <2>3, <2>4
  <2> QED BY <1>1, <2>1, <2>5, <2>6 DEF IInv, Outstanding
<1>8. Transferred'
  <2>1. base <= sent /\ (op # "write" => sent = base + Len(got))
    BY <1>1, <1>3, <1>5 DEF IInv, Transferred
  <2>2. base' = base /\ got' = got /\ op' = op /\ sent' = sent + k /\ Awaited' = k
    BY <1>1, <1>2
  <2>3. base' <= sent' /\ (op' # "write" => sent' = base' + Len(got') + Awaited')
    BY <1>3, <2>1, <2>2
  <2> QED BY <1>1, <2>3 DEF IInv, Transferred
<1>9. Fifo' /\ Before' /\ OwnSelection' /\ Lagged' /\ InOrder'
  BY <1>1 DEF IInv, Fifo, Before, OwnSelection, Lagged, InOrder
<1> QED BY <1>6, <1>7, <1>8, <1>9 DEF IInv

(* A transfer that is given up: the word it awaits becomes a late one.     *)
LEMMA WriteTimeoutInv == IInv /\ WriteTimeout => IInv'
<1> SUFFICES ASSUME IInv, WriteTimeout PROVE IInv'
  OBVIOUS
<1>1. /\ pc = "Write" /\ pc' = "Idle" /\ cs' = FALSE /\ ret' = "ERR_TIMED_OUT"
      /\ UNCHANGED <<enabled, sent, clocked, rx, op, skip, base, todo, got, user>>
      /\ UNCHANGED <<late, overrun, calls>>
  BY DEF WriteTimeout, Fail, callVars
<1>2. TypeOK'
  <2>1. faults' \in 0 .. MaxFaults
    BY SpiAssumption DEF WriteTimeout, Fault, IInv, TypeOK
  <2> QED BY <1>1, <2>1 DEF IInv, TypeOK, Results
<1> QED BY <1>1, <1>2 DEF IInv, Outstanding, Fifo, Transferred, Before,
           OwnSelection, Lagged, InOrder, Awaited

LEMMA ReadTimeoutInv == IInv /\ ReadTimeout => IInv'
<1> SUFFICES ASSUME IInv, ReadTimeout PROVE IInv'
  OBVIOUS
<1>1. /\ pc = "Read" /\ pc' = "Idle" /\ cs' = FALSE /\ ret' = "ERR_TIMED_OUT"
      /\ UNCHANGED <<enabled, sent, clocked, rx, op, skip, base, todo, got, user>>
      /\ UNCHANGED <<overrun, calls>>
  BY DEF ReadTimeout, Fail, callVars
<1>2. late' = late + Awaited /\ late' \in Nat /\ Awaited' = 0
  <2>1. CASE enabled
    BY <1>1, <2>1 DEF ReadTimeout, Awaited, IInv, TypeOK
  <2>2. CASE ~enabled
    BY <1>1, <2>2 DEF ReadTimeout, Awaited, IInv, TypeOK
  <2> QED BY <2>1, <2>2
<1>3. TypeOK'
  <2>1. faults' \in 0 .. MaxFaults
    BY SpiAssumption DEF ReadTimeout, Fault, IInv, TypeOK
  <2> QED BY <1>1, <1>2, <2>1 DEF IInv, TypeOK, Results
<1>4. Outstanding'
  BY <1>1, <1>2 DEF IInv, TypeOK, Outstanding
<1> QED BY <1>1, <1>3, <1>4 DEF IInv, Fifo, Transferred, Before,
           OwnSelection, Lagged, InOrder

LEMMA CopyOutInv == IInv /\ CopyOut => IInv'
<1> SUFFICES ASSUME IInv, CopyOut PROVE IInv'
  OBVIOUS
<1>1. /\ pc = "Copy" /\ pc' = "Idle"
      /\ UNCHANGED <<enabled, cs, sent, clocked, rx, op, skip, base, todo, got>>
      /\ UNCHANGED <<late, overrun, calls, faults>>
  BY DEF CopyOut, callVars, bounds, device
<1>2. TypeOK'
  <2>1. user' \in Seq(Nat)
    <3>1. got \in Seq(Nat) /\ skip \in Nat /\ user \in Seq(Nat)
      BY DEF IInv, TypeOK
    <3>2. \A i \in skip + 1 .. Len(got) : got[i] \in Nat
      BY <3>1
    <3>3. Received(got) \in Seq(Nat)
      BY <3>1, <3>2, SubSeqProperties DEF Received
    <3> QED BY <3>1, <3>3 DEF CopyOut
  <2>2. ret' \in Results
    BY DEF CopyOut, Results, IInv, TypeOK
  <2> QED BY <1>1, <2>1, <2>2 DEF IInv, TypeOK
<1> QED BY <1>1, <1>2 DEF IInv, Outstanding, Fifo, Transferred, Before,
           OwnSelection, Lagged, InOrder, Awaited

LEMMA ReadWordInv == IInv /\ ReadWord => IInv'
<1> SUFFICES ASSUME IInv, ReadWord PROVE IInv'
  OBVIOUS
<1> DEFINE h == Head(rx)
           t == Tail(rx)
<1>1. /\ pc = "Read" /\ rx # <<>> /\ rx' = t /\ todo' = todo - 1
      /\ UNCHANGED <<enabled, sent, clocked, op, skip, base, user, late, overrun>>
      /\ UNCHANGED <<calls, faults>>
      /\ got' = IF op = "write" THEN got ELSE Append(got, h)
  BY DEF ReadWord, callVars, bounds
<1>2. /\ pc' \in {"Write", "Copy", "Idle"}
      /\ pc' = "Write" => todo # 1 /\ cs' = cs
      /\ pc' = "Idle" => op = "write"
      /\ cs' \in BOOLEAN /\ ret' \in Results
  BY DEF ReadWord, IInv, TypeOK, Results
<1>3. /\ sent \in Nat /\ clocked \in Nat /\ base \in Nat /\ late \in Nat
      /\ got \in Seq(Nat) /\ rx \in Seq(Nat) /\ todo \in Nat /\ clocked \in 0 .. sent
  BY DEF IInv, TypeOK
<1>4. /\ h \in Nat /\ h = rx[1] /\ t \in Seq(Nat) /\ Len(t) = Len(rx) - 1
      /\ Len(rx) \in Nat /\ Len(rx) >= 1
      /\ \A i \in 1 .. Len(t) : t[i] = rx[i+1]
  BY <1>1, <1>3, HeadTailProperties
<1>5. enabled /\ Awaited = 1 /\ Awaited' = 0
  BY <1>1, <1>2 DEF Awaited, IInv, Outstanding
<1>6. /\ got' \in Seq(Nat)
      /\ op = "write" => got' = got
      /\ op # "write" => /\ Len(got') = Len(got) + 1 /\ got'[Len(got) + 1] = h
                         /\ \A i \in 1 .. Len(got) : got'[i] = got[i]
  BY <1>1, <1>3, <1>4, AppendProperties
<1>7. todo' \in Nat /\ (pc' = "Write" => todo' >= 1)
  <2>1. todo >= 1 /\ todo' = todo - 1
    BY <1>1 DEF IInv, Transferred
  <2>2. pc' = "Write" => todo # 1
    BY <1>2
  <2> QED BY <1>3, <2>1, <2>2
<1>8. TypeOK'
  <2>1. Len(rx') <= RxDepth /\ rx' \in Seq(Nat)
    <3>1. Len(rx) <= RxDepth /\ rx' = t
      BY <1>1 DEF IInv, TypeOK
    <3> QED BY <1>4, <3>1, SpiAssumption
  <2> QED BY <1>1, <1>2, <1>6, <1>7, <2>1 DEF IInv, TypeOK
<1>9. Outstanding'
  <2>1. sent' = sent /\ clocked' = clocked /\ late' = late /\ Len(rx') = Len(rx) - 1
    BY <1>1, <1>4
  <2>2. sent - clocked + Len(rx) <= late + 1
    BY <1>5 DEF IInv, Outstanding
  <2>3. ~overrun => sent - clocked + Len(rx) = late + 1
    BY <1>5 DEF IInv, Outstanding
  <2>4. sent' - clocked' + Len(rx') <= late' + 0
    BY <1>3, <1>4, <2>1, <2>2
  <2>5. ~overrun => sent' - clocked' + Len(rx') = late' + 0
    BY <1>3, <1>4, <2>1, <2>3
  <2> QED BY <1>1, <1>5, <2>4, <2>5 DEF Outstanding
<1>10. Fifo'
  <2>1. \A i, j \in 1 .. Len(t) : i < j => t[i] < t[j]
    <3>1. \A i \in 1 .. Len(t) : i + 1 \in 1 .. Len(rx)
      BY <1>4
    <3> QED BY <1>4, <3>1 DEF IInv, Fifo
  <2>2. \A i \in 1 .. Len(t) : t[i] <= clocked
    BY <1>4 DEF IInv, Fifo
  <2>3. ~overrun => \A i \in 1 .. Len(t) : t[i] = clocked - Len(t) + i
    BY <1>3, <1>4 DEF IInv, Fifo
  <2> QED BY <1>1, <2>1, <2>2, <2>3 DEF Fifo
<1>11. Before'
  <2>1. \A i \in 1 .. Len(got'), j \in 1 .. Len(t) : got'[i] < t[j]
    <3> SUFFICES ASSUME NEW i \in 1 .. Len(got'), NEW j \in 1 .. Len(t)
                 PROVE  got'[i] < t[j]
      OBVIOUS
    <3>1. j + 1 \in 1 .. Len(rx) /\ t[j] = rx[j+1] /\ 1 \in 1 .. Len(rx) /\ 1 < j + 1
      BY <1>4
    <3>2. h < t[j]
      BY <1>4, <3>1 DEF IInv, Fifo
    <3>3. \A m \in 1 .. Len(got) : got[m] < t[j]
      BY <1>1, <3>1 DEF IInv, Before
    <3>4. i \in 1 .. Len(got) \/ (op # "write" /\ i = Len(got) + 1)
      BY <1>3, <1>6
    <3>5. CASE i \in 1 .. Len(got)
      <4>1. got'[i] = got[i]
        BY <1>6, <3>5
      <4> QED BY <3>3, <3>5, <4>1
    <3>6. CASE op # "write" /\ i = Len(got) + 1
      <4>1. got'[i] = h
        BY <1>6, <3>6
      <4> QED BY <3>2, <4>1
    <3> QED BY <3>4, <3>5, <3>6
  <2> QED BY <1>1, <2>1 DEF Before
<1>12. op # "write" => sent = base + Len(got) + 1
  BY <1>1, <1>5 DEF IInv, Transferred
<1>13. Transferred'
  <2>1. op # "write" => sent' = base' + Len(got') + 0
    BY <1>1, <1>3, <1>6, <1>12
  <2>2. base' <= sent' /\ (op' = "write" => got' = <<>>)
    BY <1>1, <1>6 DEF IInv, Transferred
  <2>3. pc' = "Write" => cs'
    BY <1>1, <1>2 DEF IInv, Transferred
  <2> QED BY <1>1, <1>2, <1>5, <1>7, <2>1, <2>2, <2>3 DEF Transferred
<1>14. OwnSelection'
  BY <1>1, <1>2 DEF IInv, OwnSelection
(* A word of got' was there before or is the one just read.                *)
<1>15. \A i \in 1 .. Len(got') :
         \/ i \in 1 .. Len(got) /\ got'[i] = got[i]
         \/ op # "write" /\ i = Len(got) + 1 /\ got'[i] = h
  <2>1. CASE op = "write"
    BY <1>6, <2>1
  <2>2. CASE op # "write"
    <3>1. \A i \in 1 .. Len(got) + 1 : i \in 1 .. Len(got) \/ i = Len(got) + 1
      BY <1>3
    <3> QED BY <1>6, <2>2, <3>1
  <2> QED BY <2>1, <2>2
<1>16. Lagged'
  <2> SUFFICES ASSUME ~overrun, NEW i \in 1 .. Len(got') PROVE got'[i] + late = base + i
    BY <1>1 DEF Lagged
  <2>1. \A m \in 1 .. Len(got) : got[m] + late = base + m
    BY <1>1 DEF IInv, Lagged
  <2>2. h = clocked - Len(rx) + 1 /\ sent - clocked + Len(rx) = late + 1
    BY <1>4, <1>5 DEF IInv, Fifo, Outstanding
  <2>3. op # "write" => h + late = base + (Len(got) + 1)
    <3> SUFFICES ASSUME op # "write" PROVE h + late = base + (Len(got) + 1)
      OBVIOUS
    <3>1. sent = base + Len(got) + 1
      BY <1>12
    <3>2. Len(got) \in Nat /\ base \in Nat
      BY <1>3
    <3>3. PICK n \in Nat : n = Len(rx)
      BY <1>4
    <3>4. sent \in Nat /\ clocked \in Nat /\ late \in Nat
      BY <1>3
    <3>5. h = clocked - n + 1 /\ sent - clocked + n = late + 1
      BY <2>2, <3>3
    <3>6. h + late = sent
      BY <3>4, <3>5
    <3> QED BY <3>1, <3>2, <3>6
  <2>4. \/ i \in 1 .. Len(got) /\ got'[i] = got[i]
        \/ op # "write" /\ i = Len(got) + 1 /\ got'[i] = h
    BY <1>15
  <2> QED
    <3>1. CASE i \in 1 .. Len(got) /\ got'[i] = got[i]
      BY <2>1, <3>1
    <3>2. CASE op # "write" /\ i = Len(got) + 1 /\ got'[i] = h
      BY <2>3, <3>2
    <3> QED BY <2>4, <3>1, <3>2
<1>17. InOrder'
  <2>1. \A i, j \in 1 .. Len(got) : i < j => got[i] < got[j]
    BY <1>1 DEF IInv, InOrder
  <2>2. \A i \in 1 .. Len(got) : got[i] <= clocked
    BY <1>1 DEF IInv, InOrder
  <2>3. h <= clocked
    BY <1>4 DEF IInv, Fifo
  <2>4. \A i \in 1 .. Len(got) : got[i] < h
    BY <1>1, <1>4 DEF IInv, Before
  <2>5. \A i, j \in 1 .. Len(got') : i < j => got'[i] < got'[j]
    <3> SUFFICES ASSUME NEW i \in 1 .. Len(got'), NEW j \in 1 .. Len(got'), i < j
                 PROVE  got'[i] < got'[j]
      OBVIOUS
    <3>1. CASE j \in 1 .. Len(got) /\ got'[j] = got[j]
      <4>1. i \in 1 .. Len(got)
        BY <1>3, <3>1
      <4> QED BY <1>6, <2>1, <3>1, <4>1
    <3>2. CASE op # "write" /\ j = Len(got) + 1 /\ got'[j] = h
      <4>1. i \in 1 .. Len(got)
        BY <1>3, <3>2
      <4> QED BY <1>6, <2>4, <3>2, <4>1
    <3> QED BY <1>15, <3>1, <3>2
  <2>6. \A i \in 1 .. Len(got') : got'[i] <= clocked
    BY <1>15, <2>2, <2>3
  <2> QED BY <1>1, <2>5, <2>6 DEF InOrder
<1> QED BY <1>8, <1>9, <1>10, <1>11, <1>13, <1>14, <1>16, <1>17 DEF IInv

LEMMA ShiftInv == IInv /\ Shift => IInv'
<1> SUFFICES ASSUME IInv, Shift PROVE IInv'
  OBVIOUS
<1>1. /\ clocked < sent /\ clocked' = clocked + 1
      /\ UNCHANGED <<enabled, cs, sent, pc, op, skip, base, todo, got, user, ret>>
      /\ UNCHANGED <<late, calls, faults>>
  BY DEF Shift, Busy, callVars, bounds
<1>2. /\ sent \in Nat /\ clocked \in Nat /\ late \in Nat /\ rx \in Seq(Nat)
      /\ Len(rx) \in Nat /\ got \in Seq(Nat) /\ base \in Nat
  BY DEF IInv, TypeOK
<1>3. clocked' \in 0 .. sent'
  <2>1. clocked' = clocked + 1 /\ sent' = sent /\ clocked < sent
    BY <1>1
  <2> QED BY <1>2, <2>1
<1>4. enabled
  BY <1>1, <1>2 DEF IInv, Outstanding
<1>5. OwnSelection' /\ InOrder'
  <2>0. clocked' = clocked + 1 /\ pc' = pc /\ got' = got /\ base' = base
    BY <1>1
  <2>1. OwnSelection'
    <3>1. pc \in {"Write", "Read"} => clocked >= base
      BY DEF IInv, OwnSelection
    <3> QED BY <1>2, <2>0, <3>1 DEF OwnSelection
  <2>2. InOrder'
    <3> SUFFICES ASSUME pc # "Idle", NEW i \in 1 .. Len(got) PROVE got[i] <= clocked'
      BY <2>0 DEF IInv, InOrder
    <3>1. got[i] <= clocked /\ got[i] \in Nat
      BY <1>2 DEF IInv, InOrder
    <3> QED BY <1>2, <2>0, <3>1
  <2> QED BY <2>1, <2>2
<1>6. Transferred'
  <2>1. Awaited' = Awaited
    BY <1>1 DEF Awaited
  <2> QED BY <1>1, <2>1 DEF IInv, Transferred
<1>7. Awaited' = Awaited /\ Awaited \in Nat
  BY <1>1 DEF Awaited
<1>8. CASE Len(rx) < RxDepth
  <2>1. rx' = Append(rx, clocked + 1) /\ overrun' = overrun
    BY <1>8 DEF Shift
  <2>2. /\ rx' \in Seq(Nat) /\ Len(rx') = Len(rx) + 1 /\ rx'[Len(rx) + 1] = clocked + 1
        /\ \A i \in 1 .. Len(rx) : rx'[i] = rx[i]
    BY <1>2, <2>1, AppendProperties
  <2>3. \A i \in 1 .. Len(rx') : i \in 1 .. Len(rx) \/ i = Len(rx) + 1
    BY <1>2, <2>2
  <2>4. TypeOK'
    <3>1. Len(rx') <= RxDepth
      BY <1>2, <1>8, <2>2, SpiAssumption
    <3>2. overrun' \in BOOLEAN
      BY <2>1 DEF IInv, TypeOK
    <3> QED BY <1>1, <1>3, <2>2, <3>1, <3>2 DEF IInv, TypeOK
  <2>5. Outstanding'
    <3>1. /\ sent - clocked + Len(rx) <= late + Awaited
          /\ ~overrun => sent - clocked + Len(rx) = late + Awaited
      BY DEF IInv, Outstanding
    <3>2. sent' - clocked' + Len(rx') = sent - clocked + Len(rx)
      BY <1>1, <1>2, <2>2
    <3>3. late' = late /\ Awaited' = Awaited
      BY <1>1, <1>7
    <3> QED BY <1>1, <1>4, <2>1, <3>1, <3>2, <3>3 DEF Outstanding
  <2>6. Fifo'
    <3>1. \A i \in 1 .. Len(rx) : rx[i] <= clocked /\ rx[i] \in Nat
      BY <1>2 DEF IInv, Fifo
    <3>2. \A i \in 1 .. Len(rx') : rx'[i] <= clocked'
      <4> SUFFICES ASSUME NEW i \in 1 .. Len(rx') PROVE rx'[i] <= clocked'
        OBVIOUS
      <4>0. clocked' = clocked + 1 /\ clocked \in Nat
        BY <1>1, <1>2
      <4>1. CASE i \in 1 .. Len(rx)
        <5>1. rx'[i] = rx[i] /\ rx[i] <= clocked /\ rx[i] \in Nat
          BY <2>2, <3>1, <4>1
        <5> QED BY <4>0, <5>1
      <4>2. CASE i = Len(rx) + 1
        <5>1. rx'[i] = clocked + 1
          BY <2>2, <4>2
        <5> QED BY <4>0, <5>1
      <4> QED BY <2>3, <4>1, <4>2
    <3>3. \A i, j \in 1 .. Len(rx') : i < j => rx'[i] < rx'[j]
      <4> SUFFICES ASSUME NEW i \in 1 .. Len(rx'), NEW j \in 1 .. Len(rx'), i < j
                   PROVE  rx'[i] < rx'[j]
        OBVIOUS
      <4>1. i \in 1 .. Len(rx)
        BY <1>2, <2>3
      <4>2. CASE j \in 1 .. Len(rx)
        BY <2>2, <4>1, <4>2 DEF IInv, Fifo
      <4>3. CASE j = Len(rx) + 1
        <5>1. rx'[i] = rx[i] /\ rx[i] <= clocked /\ rx[i] \in Nat
          BY <2>2, <3>1, <4>1
        <5>2. rx'[j] = clocked + 1 /\ clocked \in Nat
          BY <1>2, <2>2, <4>3
        <5> QED BY <5>1, <5>2
      <4> QED BY <2>3, <4>2, <4>3
    <3>4. ~overrun' => \A i \in 1 .. Len(rx') : rx'[i] = clocked' - Len(rx') + i
      <4> SUFFICES ASSUME ~overrun, NEW i \in 1 .. Len(rx')
                   PROVE  rx'[i] = clocked' - Len(rx') + i
        BY <2>1
      <4>1. CASE i \in 1 .. Len(rx)
        <5>1. rx[i] = clocked - Len(rx) + i
          BY <4>1 DEF IInv, Fifo
        <5> QED BY <1>1, <1>2, <2>2, <4>1, <5>1
      <4>2. CASE i = Len(rx) + 1
        BY <1>1, <1>2, <2>2, <4>2
      <4> QED BY <2>3, <4>1, <4>2
    <3> QED BY <3>2, <3>3, <3>4 DEF Fifo
  <2>7. Before'
    <3> SUFFICES ASSUME pc # "Idle", NEW i \in 1 .. Len(got), NEW j \in 1 .. Len(rx')
                 PROVE  got[i] < rx'[j]
      BY <1>1 DEF Before
    <3>1. CASE j \in 1 .. Len(rx)
      BY <2>2, <3>1 DEF IInv, Before
    <3>2. CASE j = Len(rx) + 1
      <4>1. got[i] <= clocked /\ got[i] \in Nat
        BY <1>2 DEF IInv, InOrder
      <4> QED BY <1>2, <2>2, <3>2, <4>1
    <3> QED BY <2>3, <3>1, <3>2
  <2>8. Lagged'
    BY <1>1, <2>1 DEF IInv, Lagged
  <2> QED BY <1>5, <1>6, <2>4, <2>5, <2>6, <2>7, <2>8 DEF IInv
<1>9. CASE ~(Len(rx) < RxDepth)
  <2>1. rx' = rx /\ overrun' = TRUE
    BY <1>9 DEF Shift
  <2>2. TypeOK'
    BY <1>1, <1>3, <2>1 DEF IInv, TypeOK
  <2>3. Outstanding'
    <3>1. sent - clocked + Len(rx) <= late + Awaited
      BY DEF IInv, Outstanding
    <3>2. sent' - clocked' + Len(rx') <= late' + Awaited'
      BY <1>1, <1>2, <1>7, <2>1, <3>1
    <3> QED BY <1>1, <1>4, <2>1, <3>2 DEF Outstanding
  <2>4. Fifo'
    <3>1. \A i \in 1 .. Len(rx) : rx[i] <= clocked /\ rx[i] \in Nat
      BY <1>2 DEF IInv, Fifo
    <3>2. \A i \in 1 .. Len(rx) : rx[i] <= clocked + 1
      BY <1>2, <3>1
    <3> QED BY <1>1, <2>1, <3>2 DEF IInv, Fifo
  <2>5. Before' /\ Lagged'
    BY <1>1, <2>1 DEF IInv, Before, Lagged
  <2> QED BY <1>5, <1>6, <2>2, <2>3, <2>4, <2>5 DEF IInv
<1> QED BY <1>8, <1>9

LEMMA NextInv == IInv /\ [Next]_vars => IInv'
<1> SUFFICES ASSUME IInv, [Next]_vars PROVE IInv'
  OBVIOUS
<1>1. CASE Next
  BY <1>1, SpiInitInv, RefusedInv, TransferInv, SetCsInv, StillBusyInv, NotBusyInv,
     WriteWordInv, WriteTimeoutInv, ReadTimeoutInv, ReadWordInv, CopyOutInv, ShiftInv
     DEF Next
<1>2. CASE UNCHANGED vars
  BY <1>2 DEF vars, device, callVars, bounds, IInv, TypeOK, Outstanding, Fifo,
     Transferred, Before, OwnSelection, Lagged, InOrder, Awaited
<1> QED BY <1>1, <1>2

-----------------------------------------------------------------------------
(* The inductive invariant: the driver's place, the controller's queues and *)
(* the words on the wire, together.                                        *)
THEOREM Invariance == Spec => []IInv
BY InitInv, NextInv, PTL DEF Spec

(* Type correctness of the SPI driver and controller.                      *)
THEOREM TypeCorrect == Spec => []TypeOK
BY Invariance, PTL DEF IInv

(* Every word spi_read and spi_writeread store is exactly as many words    *)
(* old as receives timed out since spi_init: with none, it answers the     *)
(* word sent for it.                                                       *)
THEOREM AnswersLag == Spec => []Lagged
BY Invariance, PTL DEF IInv

(* No word is stored twice, out of order or before it was clocked, even    *)
(* when the receive FIFO overruns.                                         *)
THEOREM NoWordTwice == Spec => []InOrder
BY Invariance, PTL DEF IInv

(* A transfer starts only when nothing of an earlier one is on its way.    *)
THEOREM SelectionNotShared == Spec => []OwnSelection
BY Invariance, PTL DEF IInv

(* The words on their way are the late ones and the one being waited for.  *)
THEOREM TransmitBounded == Spec => []InFlightBounded
<1>1. IInv => InFlightBounded
  <2> SUFFICES ASSUME IInv PROVE sent - clocked <= late + 1
    BY DEF InFlightBounded
  <2>1. sent - clocked + Len(rx) <= late + Awaited /\ Awaited <= 1 /\ Awaited \in Nat
    BY DEF IInv, Outstanding, Awaited
  <2>2. sent \in Nat /\ clocked \in Nat /\ late \in Nat /\ Len(rx) \in Nat
    BY DEF IInv, TypeOK
  <2> QED BY <2>1, <2>2
<1> QED BY <1>1, Invariance, PTL

(* Only words of transfers that timed out are clocked without the          *)
(* peripheral being selected.                                              *)
THEOREM NothingClockedDeselected == Spec => []InFlightSelected
<1>1. IInv => InFlightSelected
  <2> SUFFICES ASSUME IInv, clocked < sent, ~cs PROVE late > 0
    BY DEF InFlightSelected, Busy
  <2>1. Awaited = 0
    BY DEF IInv, Transferred, Awaited
  <2>2. sent - clocked + Len(rx) <= late + 0
    BY <2>1 DEF IInv, Outstanding
  <2>3. sent \in Nat /\ clocked \in Nat /\ late \in Nat /\ Len(rx) \in Nat
    BY DEF IInv, TypeOK
  <2> QED BY <2>2, <2>3
<1> QED BY <1>1, Invariance, PTL

(* Without timeouts the application gets the answers to the last words of  *)
(* its own transfer: what CopyOut copies behind the first skip words.      *)
THEOREM OwnWordsDelivered == Spec => Delivered
<1>1. ASSUME IInv, Next, user' # user, late = 0, ~overrun
      PROVE  user' = [i \in 1 .. Len(got) - skip |-> base + skip + i]
  <2>1. CopyOut
    BY <1>1 DEF Next, SpiInit, Refused, Transfer, Enter, SetCs, StillBusy, NotBusy,
       WriteWord, WriteTimeout, ReadTimeout, ReadWord, Shift
  <2>2. pc = "Copy" /\ user' = SubSeq(got, skip + 1, Len(got))
    BY <1>1, <2>1 DEF CopyOut, Received
  <2>3. got \in Seq(Nat) /\ Len(got) \in Nat /\ skip \in Nat /\ base \in Nat
    BY <1>1 DEF IInv, TypeOK
  <2>4. \A i \in 1 .. Len(got) : got[i] \in Nat /\ got[i] = base + i
    BY <1>1, <2>2, <2>3 DEF IInv, Lagged
  <2>5. user' = [i \in 1 .. Len(got) - skip |-> got[i + skip]]
    BY <2>2, <2>3
  <2>6. \A i \in 1 .. Len(got) - skip : got[i + skip] = base + skip + i
    BY <2>3, <2>4
  <2> QED BY <2>5, <2>6
<1>2. IInv /\ [Next]_vars =>
        [user' # user /\ late = 0 /\ ~overrun =>
           user' = [i \in 1 .. Len(got) - skip |-> base + skip + i]]_vars
  BY <1>1 DEF vars
<1> QED BY <1>2, Invariance, PTL DEF Spec, Delivered
=============================================================================
