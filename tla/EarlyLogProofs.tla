--------------------------- MODULE EarlyLogProofs ---------------------------
(***************************************************************************)
(* Theorems about EarlyLog, for every size of the ring, set of CPUs and    *)
(* number of characters.  The inductive invariant has three layers: who    *)
(* may be in uart_putc (Exclusive), what the ring and the wire hold then   *)
(* (Emptied, Successor), and which newline is half said (Newline).         *)
(***************************************************************************)
EXTENDS EarlyLog, SequenceTheorems, TLAPS

Holding == {"Put", "Drain", "Write", "Unlock"}
Draining == {"Drain", "Write"}

(* Whoever is between Acquire and Unlock has the lock, but for the boot    *)
(* CPU in init_uart, which runs alone and does not take it.                *)
Exclusive ==
  /\ stage = "init" => lock = Nobody /\ pc[Boot] \in Holding /\ todo[Boot] \in {<<"nl">>, <<>>}
  /\ stage # "init" => \A c \in Cpus : pc[c] \in Holding <=> lock = c
  /\ stage # "smp" => \A c \in Cpus : c = Boot \/ pc[c] = "Idle"

(* The newline of init_uart has not been put yet.                          *)
Unannounced == stage = "init" /\ pc[Boot] = "Put"

Unmapped ==
  /\ mmio = "none" <=> stage = "early"
  /\ stage = "early" \/ Unannounced => wire = <<>>
  /\ mmio = "none" => \A c \in Cpus : pc[c] \notin Draining

(* Once the newline of init_uart is put, the ring is empty whenever nobody *)
(* drains it.  Before the first write it is not, if a character was put.   *)
Emptied ==
  /\ (mmio # "none" /\ ~Unannounced /\ \A c \in Cpus : pc[c] \notin Draining) => put_idx = get_idx
  /\ \A c \in Cpus : pc[c] = "Write" => put_idx # get_idx
  /\ said # <<>> /\ wire = <<>> => put_idx # get_idx

(* The next character to write is the successor of the last one written.   *)
Successor == wire # <<>> => wire[Len(wire)] + 1 = Len(said) - Pending

CrSaid == said # <<>> /\ said[Len(said)] = "cr"

Line == <<"cr", "lf">>

(* A newline is begun with its '\r' and ended in the same hold.            *)
Newline ==
  \A c \in Cpus :
    /\ pc[c] = "Lock" => todo[c] \in {Line, <<"char">>}
    /\ pc[c] = "Put" => todo[c] \in {Line, <<"char">>, <<"nl">>} \/ (todo[c] = <<"lf">> /\ CrSaid)
    /\ pc[c] \in Draining => todo[c] \in {<<"char">>, <<"nl">>, <<"lf">>} \/ (todo[c] = Line /\ CrSaid)

IInv ==
  /\ TypeOK /\ Exclusive /\ Unmapped /\ IoBaseCurrent
  /\ NewestKept /\ Emptied /\ Successor /\ NoGap
  /\ Newline /\ CrBeforeLf

-----------------------------------------------------------------------------
(* Indices of the ring, without the remainder.                             *)
Slots == 0 .. BufSize-1

(* Arithmetic modulo the size of the ring.                                 *)
LEMMA SmallRemainder ==
  ASSUME NEW a \in Slots
  PROVE  a % BufSize = a
BY LogAssumption DEF Slots

LEMMA WrappedRemainder ==
  ASSUME NEW a \in Slots
  PROVE  (a - BufSize) % BufSize = a /\ BufSize % BufSize = 0
BY LogAssumption DEF Slots

(* The slot behind a slot.                                                 *)
LEMMA FollowingIs ==
  ASSUME NEW i \in Slots
  PROVE  Following(i) \in Slots /\ Following(i) = IF i = BufSize-1 THEN 0 ELSE i + 1
<1>1. CASE i = BufSize-1
  <2>1. i + 1 = BufSize
    BY <1>1, LogAssumption DEF Slots
  <2>2. 0 \in Slots
    BY LogAssumption DEF Slots
  <2> QED BY <1>1, <2>1, <2>2, WrappedRemainder DEF Following
<1>2. CASE i # BufSize-1
  <2>1. i + 1 \in Slots
    BY <1>2, LogAssumption DEF Slots
  <2> QED BY <1>2, <2>1, SmallRemainder DEF Following
<1> QED BY <1>1, <1>2

(* How far one slot is behind another.                                     *)
LEMMA DistanceIs ==
  ASSUME NEW i \in Slots, NEW j \in Slots
  PROVE  (i - j) % BufSize = IF j <= i THEN i - j ELSE (i - j) + BufSize
<1>1. CASE j <= i
  <2>1. i - j \in Slots
    BY <1>1, LogAssumption DEF Slots
  <2> QED BY <1>1, <2>1, SmallRemainder
<1>2. CASE j > i
  <2>1. (i - j) + BufSize \in Slots /\ ((i - j) + BufSize) - BufSize = i - j
    BY <1>2, LogAssumption DEF Slots
  <2>2. (i - j) % BufSize = (i - j) + BufSize
    BY <2>1, WrappedRemainder
  <2> QED BY <1>2, <2>2, LogAssumption DEF Slots
<1> QED BY <1>1, <1>2 DEF Slots

-----------------------------------------------------------------------------
(* What a CPU has still to put.                                            *)
Said == {<<"char">>, <<"nl">>, <<"lf">>, Line}

(* What a thread has to say: single characters, and the two of a newline.  *)
LEMMA SaidParts ==
  /\ Said \subseteq Seq(Kinds) /\ <<"cr", "lf">> = Line
  /\ \A s \in Said : s # <<>> /\ Head(s) \in Kinds /\ Tail(s) \in Seq(Kinds) /\ Len(s) \in Nat
  /\ Len(Line) = 2 /\ Head(Line) = "cr" /\ Tail(Line) = <<"lf">>
  /\ \A k \in Kinds : Len(<<k>>) = 1 /\ Head(<<k>>) = k /\ <<k>> \in Seq(Kinds) /\ Tail(<<k>>) = <<>>
<1>1. \A k \in Kinds : Len(<<k>>) = 1 /\ Head(<<k>>) = k /\ <<k>> \in Seq(Kinds) /\ Tail(<<k>>) = <<>>
  OBVIOUS
<1>2. Line \in Seq(Kinds) /\ Len(Line) = 2 /\ Head(Line) = "cr" /\ Tail(Line) = <<"lf">> /\ <<"cr", "lf">> = Line
  BY DEF Line, Kinds
<1>3. {"char", "nl", "lf", "cr"} \subseteq Kinds
  BY DEF Kinds
<1>4. ASSUME NEW s \in Said
      PROVE  s \in Seq(Kinds) /\ s # <<>> /\ Head(s) \in Kinds /\ Tail(s) \in Seq(Kinds) /\ Len(s) \in Nat
  <2>1. s = Line \/ \E k \in Kinds : s = <<k>>
    BY <1>3 DEF Said
  <2>2. <<>> \in Seq(Kinds) /\ <<"lf">> \in Seq(Kinds)
    BY <1>1, <1>3
  <2>3. CASE s = Line
    BY <2>3, <2>2, <1>2, <1>3
  <2>4. ASSUME NEW k \in Kinds, s = <<k>>
        PROVE s \in Seq(Kinds) /\ s # <<>> /\ Head(s) \in Kinds /\ Tail(s) \in Seq(Kinds) /\ Len(s) \in Nat
    BY <2>4, <2>2, <1>1
  <2> QED BY <2>1, <2>3, <2>4
<1> QED BY <1>1, <1>2, <1>4

(* The lock is given back with the last character.                         *)
LEMMA AfterPutIs ==
  ASSUME NEW c \in Cpus
  PROVE  AfterPut(c) \in {"Put", "Unlock"} /\ (Len(todo[c]) = 1 => AfterPut(c) = "Unlock")
<1>1. Len(todo[c]) = 1 => ~(Len(todo[c]) > 1)
  OBVIOUS
<1> QED BY <1>1, Zenon DEF AfterPut

-----------------------------------------------------------------------------
LEMMA InitInv == Init => IInv
<1> SUFFICES ASSUME Init PROVE IInv
  OBVIOUS
<1> USE LogAssumption
<1>1. TypeOK
  BY DEF Init, TypeOK
<1>2. Exclusive /\ Unmapped /\ IoBaseCurrent /\ Newline
  BY DEF Init, Exclusive, Unmapped, Unannounced, IoBaseCurrent, Newline, Holding, Draining
<1>3. put_idx = 0 /\ get_idx = 0 /\ said = <<>> /\ wire = <<>>
  BY DEF Init
<1>4. Pending = 0 /\ Behind(0) = 0 /\ buf[0] = 0
  BY <1>3, SmallRemainder DEF Pending, Behind, Init, Slots
<1>5. NewestKept
  BY <1>3, <1>4 DEF NewestKept
<1>6. Emptied /\ Successor /\ NoGap /\ CrBeforeLf /\ \A c \in Cpus : pc[c] # "Write"
  BY <1>3 DEF Emptied, Successor, NoGap, CrBeforeLf, Init
<1> QED BY <1>1, <1>2, <1>5, <1>6 DEF IInv

-----------------------------------------------------------------------------
(* Typing and the lock.                                                    *)
LEMMA TypeStep == IInv /\ [Next]_vars => TypeOK'
<1> SUFFICES ASSUME IInv, [Next]_vars PROVE TypeOK'
  OBVIOUS
<1> USE LogAssumption DEF Goto
<1>0. TypeOK
  BY DEF IInv
<1>1. ASSUME NEW c \in Cpus, NEW k \in {"lf", "char"}, Dputc(c, k) PROVE TypeOK'
  <2>1. (IF k = "lf" THEN <<"cr", "lf">> ELSE <<k>>) \in Seq(Kinds)
    BY SaidParts DEF Said, Kinds
  <2> QED BY <1>0, <1>1, <2>1 DEF Dputc, TypeOK, ring
<1>2. ASSUME NEW c \in Cpus, Acquire(c) PROVE TypeOK'
  BY <1>0, <1>2 DEF Acquire, TypeOK, ring
<1>3. ASSUME NEW c \in Cpus, Put(c) PROVE TypeOK'
  <2> USE <1>0, <1>3
  <2>1. todo[c] \in Said
    BY DEF IInv, Newline, Put, Said
  <2>2. Head(todo[c]) \in Kinds /\ Tail(todo[c]) \in Seq(Kinds)
    BY <2>1, SaidParts
  <2>3. said' \in Seq(Kinds) /\ Len(said') \in Nat
    BY <2>2 DEF Put, Say, TypeOK
  <2>4. put_idx' \in Slots /\ get_idx' \in Slots
    BY FollowingIs DEF Put, TypeOK, Slots
  <2>5. buf' \in [0 .. BufSize-1 -> Nat]
    BY <2>3 DEF Put, TypeOK
  <2>6. /\ todo' \in [Cpus -> Seq(Kinds)] /\ io_base' \in [Cpus -> {"none", "linear", "vmm", "port"}]
        /\ pc' \in [Cpus -> {"Idle", "Lock", "Put", "Drain", "Write", "Unlock"}]
    BY <2>2 DEF Put, Say, TypeOK, AfterPut
  <2>7. UNCHANGED <<stage, mmio, lock, printCb, thre, wire>>
    BY DEF Put, Say
  <2> QED BY <2>3, <2>4, <2>5, <2>6, <2>7 DEF TypeOK, Slots
<1>4. ASSUME NEW c \in Cpus, AwaitThre(c) PROVE TypeOK'
  BY <1>0, <1>4 DEF AwaitThre, TypeOK, ring
<1>5. ASSUME NEW c \in Cpus, WriteThr(c) PROVE TypeOK'
  <2>1. get_idx' \in Slots
    BY <1>0, <1>5, FollowingIs DEF WriteThr, TypeOK, Slots
  <2>2. wire' \in Seq(Nat) /\ thre' = FALSE
    BY <1>0, <1>5 DEF WriteThr, uart_mmio_set_reg, TypeOK
  <2> QED BY <1>0, <1>5, <2>1, <2>2 DEF WriteThr, TypeOK, Slots
<1>6. ASSUME NEW c \in Cpus, Drained(c) PROVE TypeOK'
  <2>1. Tail(todo[c]) \in Seq(Kinds)
    BY <1>6, SaidParts DEF IInv, Newline, Drained, Said, Draining
  <2> QED BY <1>0, <1>6, <2>1 DEF Drained, AfterPut, TypeOK, ring
<1>7. ASSUME NEW c \in Cpus, Unlock(c) PROVE TypeOK'
  BY <1>0, <1>7 DEF Unlock, TypeOK, ring
<1>8. CASE InitUart
  BY <1>0, <1>8 DEF InitUart, TypeOK, ring, Kinds
<1>9. CASE Remap
  <2>1. <<"cr", "lf">> \in Seq(Kinds)
    BY SaidParts DEF Said
  <2>2. CASE mmio' = "vmm" /\ UNCHANGED <<pc, todo>>
    BY <1>0, <1>9, <2>2 DEF Remap, TypeOK, ring
  <2>3. CASE /\ todo' = [todo EXCEPT ![Boot] = <<"cr", "lf">>] /\ Goto(Boot, "Lock")
             /\ UNCHANGED mmio
    <3>1. todo' \in [Cpus -> Seq(Kinds)]
      BY <1>0, <2>1, <2>3 DEF TypeOK
    <3>2. pc' \in [Cpus -> {"Idle", "Lock", "Put", "Drain", "Write", "Unlock"}]
      BY <1>0, <2>3 DEF TypeOK, Goto
    <3> QED BY <1>0, <1>9, <2>3, <3>1, <3>2 DEF Remap, TypeOK, ring
  <2> QED BY <1>9, <2>2, <2>3 DEF Remap
<1>10. CASE SetPrintCb
  BY <1>0, <1>10 DEF SetPrintCb, TypeOK, ring
<1>11. CASE Transmit
  BY <1>0, <1>11 DEF Transmit, TypeOK, ring
<1>12. CASE UNCHANGED vars
  BY <1>0, <1>12 DEF vars, TypeOK, ring
<1> QED BY <1>1, <1>2, <1>3, <1>4, <1>5, <1>6, <1>7, <1>8, <1>9, <1>10, <1>11, <1>12 DEF Next, Running

(* The lock, and what the UART's address is when it is held.               *)
LEMMA LockStep == IInv /\ [Next]_vars => (Exclusive /\ Unmapped /\ IoBaseCurrent)'
<1> SUFFICES ASSUME IInv, [Next]_vars PROVE (Exclusive /\ Unmapped /\ IoBaseCurrent)'
  OBVIOUS
<1> USE LogAssumption DEF Goto, Exclusive, Unmapped, Unannounced, IoBaseCurrent, Holding, Draining
<1>0. TypeOK /\ Exclusive /\ Unmapped /\ IoBaseCurrent
  BY DEF IInv
<1>1. ASSUME NEW c \in Cpus, NEW k \in {"lf", "char"}, Dputc(c, k)
      PROVE  (Exclusive /\ Unmapped /\ IoBaseCurrent)'
  BY <1>0, <1>1 DEF Dputc, TypeOK
<1>2. ASSUME NEW c \in Cpus, Acquire(c) PROVE (Exclusive /\ Unmapped /\ IoBaseCurrent)'
  BY <1>0, <1>2 DEF Acquire, TypeOK
<1>3. ASSUME NEW c \in Cpus, Put(c) PROVE (Exclusive /\ Unmapped /\ IoBaseCurrent)'
  <2>1. pc[c] = "Put" /\ UNCHANGED <<stage, lock, mmio, wire>>
        /\ io_base' = [io_base EXCEPT ![c] = mmio]
    BY <1>3 DEF Put, Say
  <2>2. \E next \in {"Put", "Unlock", "Drain"} :
          /\ pc' = [pc EXCEPT ![c] = next]
          /\ next = "Drain" => mmio # "none"
          /\ next = "Put" => mmio = "none"
    BY <1>3, <2>1 DEF Put, Say, AfterPut
  <2>3. \A d \in Cpus : pc'[d] \in Holding <=> pc[d] \in Holding
    BY <1>0, <2>1, <2>2 DEF TypeOK
  <2>4. stage = "init" => todo' = todo
    BY <1>0, <1>3 DEF Put, Say
  <2>5. \A d \in Cpus : pc'[d] = IF d = c THEN pc'[c] ELSE pc[d]
    BY <1>0, <2>2 DEF TypeOK
  <2>6. pc'[c] = "Drain" => mmio # "none"
    BY <1>0, <2>2 DEF TypeOK
  <2>7. Exclusive'
    BY <1>0, <2>1, <2>3, <2>4, <2>5 DEF TypeOK
  <2>8. IoBaseCurrent'
    BY <1>0, <2>1, <2>5 DEF TypeOK
  <2>9. pc'[c] # "Write" /\ (pc'[c] = "Put" => mmio = "none")
    BY <1>0, <2>2 DEF TypeOK
  <2>10. Unmapped'
    <3>1. Unannounced' => Unannounced
      BY <1>0, <2>1, <2>5, <2>9
    <3> QED BY <1>0, <2>1, <2>5, <2>6, <2>9, <3>1 DEF TypeOK
  <2> QED BY <2>7, <2>8, <2>10
<1>4. ASSUME NEW c \in Cpus, AwaitThre(c) PROVE (Exclusive /\ Unmapped /\ IoBaseCurrent)'
  BY <1>0, <1>4 DEF AwaitThre, TypeOK
<1>5. ASSUME NEW c \in Cpus, WriteThr(c) PROVE (Exclusive /\ Unmapped /\ IoBaseCurrent)'
  BY <1>0, <1>5 DEF WriteThr, TypeOK
<1>6. ASSUME NEW c \in Cpus, Drained(c) PROVE (Exclusive /\ Unmapped /\ IoBaseCurrent)'
  <2>1. /\ stage = "init" /\ c = Boot => AfterPut(c) = "Unlock" /\ Tail(todo[c]) \in {<<"nl">>, <<>>}
        /\ AfterPut(c) \in {"Put", "Unlock"}
    <3>1. todo[c] \in Said
      BY <1>6 DEF Drained, IInv, Newline, Said
    <3>2. "nl" \in Kinds /\ <<>> \notin Said
      BY SaidParts DEF Kinds
    <3>3. Len(<<"nl">>) = 1 /\ Tail(<<"nl">>) = <<>>
      BY <3>2, SaidParts
    <3>4. stage = "init" /\ c = Boot => todo[c] = <<"nl">>
      BY <1>0, <3>1, <3>2
    <3>5. stage = "init" /\ c = Boot => Len(todo[c]) = 1 /\ Tail(todo[c]) = <<>>
      BY <3>3, <3>4, Zenon
    <3>6. AfterPut(c) = "Unlock" \/ (AfterPut(c) = "Put" /\ Len(todo[c]) > 1)
      BY DEF AfterPut
    <3> QED BY <3>5, <3>6
  <2> QED BY <1>0, <1>6, <2>1 DEF Drained, TypeOK
<1>7. ASSUME NEW c \in Cpus, Unlock(c) PROVE (Exclusive /\ Unmapped /\ IoBaseCurrent)'
  <2>1. CASE stage = "init"
    <3>1. c = Boot /\ lock = Nobody /\ lock' = Nobody /\ stage' = "boot"
      BY <1>0, <1>7, <2>1 DEF Unlock
    <3>2. \A d \in Cpus : pc'[d] = "Idle"
      BY <1>0, <1>7, <2>1, <3>1 DEF Unlock, TypeOK
    <3>3. UNCHANGED <<mmio, io_base, wire>>
      BY <1>7 DEF Unlock
    <3> QED BY <1>0, <2>1, <3>1, <3>2, <3>3
  <2>2. CASE stage # "init"
    <3>1. lock = c /\ lock' = Nobody /\ stage' = stage
      BY <1>0, <1>7, <2>2 DEF Unlock
    <3>2. \A d \in Cpus : pc'[d] = IF d = c THEN "Idle" ELSE pc[d]
      BY <1>0, <1>7 DEF Unlock, TypeOK
    <3>3. UNCHANGED <<mmio, io_base, wire>>
      BY <1>7 DEF Unlock
    <3>4. Exclusive'
      BY <1>0, <2>2, <3>1, <3>2
    <3> QED BY <1>0, <2>2, <3>1, <3>2, <3>3, <3>4
  <2> QED BY <2>1, <2>2
<1>8. CASE InitUart
  BY <1>0, <1>8 DEF InitUart, TypeOK
<1>9. CASE Remap
  BY <1>0, <1>9 DEF Remap, TypeOK
<1>10. CASE SetPrintCb \/ Transmit
  BY <1>0, <1>10 DEF SetPrintCb, Transmit, TypeOK
<1>11. CASE UNCHANGED vars
  BY <1>0, <1>11 DEF vars, TypeOK
<1> QED BY <1>1, <1>2, <1>3, <1>4, <1>5, <1>6, <1>7, <1>8, <1>9, <1>10, <1>11 DEF Next, Running

-----------------------------------------------------------------------------
(* The ring: what it holds depends on its indices alone.                   *)
LEMMA RingUnmoved ==
  ASSUME TypeOK, NewestKept, UNCHANGED <<ring, said>>
  PROVE  NewestKept' /\ Pending' = Pending
<1>1. Pending' = Pending /\ \A n : Behind(n)' = Behind(n)
  BY DEF Pending, Behind, ring
<1> QED BY <1>1 DEF NewestKept, ring

(* The characters waiting in the ring, counted round its end.              *)
LEMMA PendingIs ==
  ASSUME TypeOK
  PROVE  /\ Pending \in Slots
         /\ Pending = IF get_idx <= put_idx THEN put_idx - get_idx ELSE (put_idx - get_idx) + BufSize
         /\ \A n \in Slots : Behind(n) = IF n <= put_idx THEN put_idx - n ELSE (put_idx - n) + BufSize
<1>1. put_idx \in Slots /\ get_idx \in Slots
  BY DEF TypeOK, Slots
<1>2. Pending = IF get_idx <= put_idx THEN put_idx - get_idx ELSE (put_idx - get_idx) + BufSize
  BY <1>1, DistanceIs DEF Pending
<1>3. \A n \in Slots : Behind(n) = IF n <= put_idx THEN put_idx - n ELSE (put_idx - n) + BufSize
  BY <1>1, DistanceIs DEF Behind
<1> QED BY <1>1, <1>2, <1>3, LogAssumption DEF Slots

(* A put makes the character before it the second newest, and so on.       *)
LEMMA PutKeeps ==
  ASSUME IInv, TypeOK', NEW c \in Cpus, Put(c)
  PROVE  /\ NewestKept'
         /\ Pending' = IF Pending = BufSize-1 THEN Pending ELSE Pending + 1
         /\ put_idx' # get_idx'
<1> USE LogAssumption
<1>0. TypeOK /\ put_idx \in Slots /\ get_idx \in Slots
  BY DEF IInv, TypeOK, Slots
<1>1. put_idx' = (IF put_idx = BufSize-1 THEN 0 ELSE put_idx + 1) /\ put_idx' \in Slots
  BY <1>0, FollowingIs DEF Put
<1>2. /\ get_idx' = IF put_idx' # get_idx THEN get_idx ELSE IF get_idx = BufSize-1 THEN 0 ELSE get_idx + 1
      /\ get_idx' \in Slots
  BY <1>0, FollowingIs DEF Put
<1>3. Pending' = IF get_idx' <= put_idx' THEN put_idx' - get_idx' ELSE (put_idx' - get_idx') + BufSize
  BY <1>1, <1>2, DistanceIs DEF Pending
<1>4. Pending' = IF Pending = BufSize-1 THEN Pending ELSE Pending + 1
  BY <1>0, <1>1, <1>2, <1>3, PendingIs DEF Slots
<1>5. \A n \in Slots : Behind(n)' = IF n <= put_idx' THEN put_idx' - n ELSE (put_idx' - n) + BufSize
  BY <1>1, DistanceIs DEF Behind
<1>6. Len(said) \in Nat /\ Len(said') = Len(said) + 1
  BY <1>0 DEF Put, Say, TypeOK
<1>7. ASSUME NEW n \in 0 .. Pending' PROVE buf'[Behind(n)'] = Len(said') - n
  <2>1. n \in Slots
    BY <1>0, <1>4, <1>7, PendingIs DEF Slots
  <2>2. CASE n = 0
    <3>1. Behind(n)' = put_idx'
      BY <1>1, <1>5, <2>1, <2>2 DEF Slots
    <3>2. buf'[put_idx'] = Len(said')
      BY <1>0, <1>1 DEF Put, TypeOK, Slots
    <3> QED BY <1>6, <2>2, <3>1, <3>2
  <2>3. CASE n # 0
    <3>1. n-1 \in Slots /\ n-1 \in 0 .. Pending
      BY <1>0, <1>4, <2>1, <2>3, PendingIs DEF Slots
    <3>2. Behind(n)' = Behind(n-1) /\ Behind(n)' # put_idx' /\ Behind(n)' \in Slots
      BY <1>0, <1>1, <1>5, <2>1, <2>3, <3>1, PendingIs DEF Slots
    <3>3. buf'[Behind(n)'] = buf[Behind(n-1)]
      BY <1>0, <1>1, <3>2 DEF Put, TypeOK, Slots
    <3>4. buf[Behind(n-1)] = Len(said) - (n-1)
      BY <3>1 DEF IInv, NewestKept
    <3> QED BY <1>6, <2>1, <3>3, <3>4 DEF Slots
  <2> QED BY <2>2, <2>3
<1>8. put_idx' # get_idx'
  BY <1>0, <1>1, <1>2 DEF Slots
<1> QED BY <1>4, <1>7, <1>8 DEF NewestKept

(* The loop writes the oldest of the characters to come.                   *)
LEMMA WriteKeeps ==
  ASSUME IInv, NEW c \in Cpus, WriteThr(c)
  PROVE  /\ NewestKept' /\ Pending' = Pending - 1 /\ Pending \in Slots
         /\ wire' = Append(wire, Len(said) - Pending)
<1> USE LogAssumption
<1>0. TypeOK /\ put_idx \in Slots /\ get_idx \in Slots /\ put_idx # get_idx
  BY DEF IInv, TypeOK, Slots, Emptied, WriteThr
<1>1. put_idx' = put_idx /\ UNCHANGED <<buf, said>>
  BY DEF WriteThr
<1>2. get_idx' = (IF get_idx = BufSize-1 THEN 0 ELSE get_idx + 1) /\ get_idx' \in Slots
  BY <1>0, FollowingIs DEF WriteThr
<1>3. Pending' = IF get_idx' <= put_idx' THEN put_idx' - get_idx' ELSE (put_idx' - get_idx') + BufSize
  BY <1>0, <1>1, <1>2, DistanceIs DEF Pending
<1>4. Pending' = Pending - 1 /\ Pending \in Slots
  BY <1>0, <1>1, <1>2, <1>3, PendingIs DEF Slots
<1>5. Behind(Pending) = get_idx
  BY <1>0, PendingIs DEF Slots
<1>6. buf[get_idx] = Len(said) - Pending
  BY <1>4, <1>5 DEF IInv, NewestKept, Slots
<1>7. \A n : Behind(n)' = Behind(n)
  BY <1>1 DEF Behind
<1>8. NewestKept'
  BY <1>1, <1>4, <1>7 DEF IInv, NewestKept, Slots
<1> QED BY <1>4, <1>6, <1>8 DEF WriteThr, uart_mmio_set_reg

(* The two indices, and what lies between them.                            *)
LEMMA RingStep == IInv /\ TypeOK' /\ [Next]_vars => (NewestKept /\ Emptied /\ Successor /\ NoGap)'
<1> SUFFICES ASSUME IInv, TypeOK', [Next]_vars PROVE (NewestKept /\ Emptied /\ Successor /\ NoGap)'
  OBVIOUS
<1> USE LogAssumption DEF Goto, Draining
<1>0. TypeOK /\ Exclusive /\ Unmapped /\ NewestKept /\ Emptied /\ Successor /\ NoGap
  BY DEF IInv
(* Steps that leave the ring and the wire alone owe Emptied only.          *)
<1>q. ASSUME UNCHANGED <<ring, said, wire>>, Emptied'
      PROVE  (NewestKept /\ Emptied /\ Successor /\ NoGap)'
  BY <1>0, <1>q, RingUnmoved DEF Successor, NoGap
<1>1. ASSUME NEW c \in Cpus, NEW k \in {"lf", "char"}, Dputc(c, k) PROVE Emptied'
  BY <1>0, <1>1 DEF Dputc, TypeOK, Emptied, Unannounced, Exclusive, Holding, ring
<1>2. ASSUME NEW c \in Cpus, Acquire(c) PROVE Emptied'
  BY <1>0, <1>2 DEF Acquire, TypeOK, Emptied, Unannounced, Exclusive, Holding, ring
<1>4. ASSUME NEW c \in Cpus, AwaitThre(c) PROVE Emptied'
  BY <1>0, <1>4 DEF AwaitThre, TypeOK, Emptied, Unannounced, Exclusive, Holding, ring
<1>6. ASSUME NEW c \in Cpus, Drained(c) PROVE Emptied'
  <2>1. put_idx = get_idx /\ UNCHANGED <<put_idx, get_idx, said, wire>>
    BY <1>6 DEF Drained, ring
  <2>2. \A d \in Cpus : pc'[d] = "Write" => pc[d] = "Write"
    BY <1>0, <1>6 DEF Drained, AfterPut, TypeOK
  <2> QED BY <1>0, <2>1, <2>2 DEF Emptied
<1>7. ASSUME NEW c \in Cpus, Unlock(c) PROVE Emptied'
  BY <1>0, <1>7 DEF Unlock, TypeOK, Emptied, Unannounced, Exclusive, Holding, ring
<1>8. CASE InitUart
  <2>1. Emptied'
    BY <1>0, <1>8 DEF InitUart, TypeOK, Emptied, Unannounced, Exclusive, Holding, ring
  <2> QED BY <1>8, <1>q, <2>1 DEF InitUart
<1>9. CASE Remap
  <2>1. Emptied'
    <3>1. /\ UNCHANGED <<put_idx, get_idx, said, wire>> /\ stage = "boot" /\ mmio # "none"
          /\ \A d \in Cpus : pc[d] \notin {"Drain", "Write"} /\ pc'[d] \notin {"Drain", "Write"}
      BY <1>0, <1>9 DEF Remap, TypeOK, Exclusive, Unmapped, ring
    <3> QED BY <1>0, <3>1 DEF Emptied, Unannounced
  <2> QED BY <1>9, <1>q, <2>1 DEF Remap
<1>10. CASE SetPrintCb \/ Transmit \/ UNCHANGED vars
  <2>1. UNCHANGED <<stage, mmio, ring, pc, said, wire>>
    BY <1>10 DEF SetPrintCb, Transmit, vars
  <2>2. Emptied'
    BY <1>0, <2>1 DEF Emptied, Unannounced, ring
  <2> QED BY <1>q, <2>1, <2>2
<1>3. ASSUME NEW c \in Cpus, Put(c) PROVE (NewestKept /\ Emptied /\ Successor /\ NoGap)'
  <2>1. /\ NewestKept' /\ put_idx' # get_idx' /\ Pending \in Slots
        /\ Pending' = IF Pending = BufSize-1 THEN Pending ELSE Pending + 1
    BY <1>0, <1>3, PutKeeps, PendingIs
  <2>2. /\ wire' = wire /\ stage' = stage /\ mmio' = mmio
        /\ Len(said) \in Nat /\ Len(said') = Len(said) + 1
    BY <1>0, <1>3 DEF Put, Say, TypeOK
  <2>3. \A d \in Cpus : d # c => pc[d] \notin Holding
    BY <1>0, <1>3 DEF Exclusive, Holding, Put
  <2>4. wire # <<>> => Pending = 0
    <3>1. wire # <<>> => put_idx = get_idx
      <4>1. \A d \in Cpus : pc[d] \notin {"Drain", "Write"}
        BY <1>3, <2>3 DEF Put, Holding
      <4>2. wire # <<>> => mmio # "none" /\ ~Unannounced
        BY <1>0 DEF Unmapped
      <4>3. (mmio # "none" /\ ~Unannounced /\ \A d \in Cpus : pc[d] \notin Draining) => put_idx = get_idx
        BY <1>0, Zenon DEF Emptied
      <4> QED BY <4>1, <4>2, <4>3
    <3>2. put_idx \in Int /\ get_idx \in Int
      BY <1>0 DEF TypeOK
    <3>3. Pending = IF get_idx <= put_idx THEN put_idx - get_idx ELSE (put_idx - get_idx) + BufSize
      BY <1>0, PendingIs
    <3> QED BY <3>1, <3>2, <3>3
  <2>5. Successor'
    BY <1>0, <2>1, <2>2, <2>4 DEF Successor, Slots
  <2>6. mmio # "none" => pc'[c] = "Drain"
    BY <1>0, <1>3 DEF Put, Say, TypeOK
  <2>7. Emptied'
    BY <2>1, <2>2, <2>6 DEF Emptied
  <2> QED BY <1>0, <2>1, <2>2, <2>5, <2>7 DEF NoGap
<1>5. ASSUME NEW c \in Cpus, WriteThr(c) PROVE (NewestKept /\ Emptied /\ Successor /\ NoGap)'
  <2>1. /\ NewestKept' /\ Pending' = Pending - 1 /\ Pending \in Slots
        /\ wire' = Append(wire, Len(said) - Pending)
    BY <1>5, WriteKeeps
  <2>2. UNCHANGED <<said, put_idx, stage, mmio>> /\ Len(said) \in Nat
    BY <1>0, <1>5 DEF WriteThr, TypeOK
  <2>3. wire \in Seq(Nat) /\ wire' \in Seq(Nat)
    BY <1>0 DEF TypeOK
  <2>4. /\ Len(wire') = Len(wire) + 1 /\ wire' # <<>> /\ Len(wire) \in Nat
        /\ wire'[Len(wire')] = Len(said) - Pending
        /\ \A i \in 1 .. Len(wire) : wire'[i] = wire[i]
    BY <2>1, <2>3
  <2>5. Successor'
    BY <2>1, <2>2, <2>4 DEF Successor, Slots
  <2>6. NoGap'
    <3> SUFFICES ASSUME NEW i \in 1 .. Len(wire') - 1 PROVE wire'[i+1] = wire'[i] + 1
      BY DEF NoGap
    <3>1. CASE i = Len(wire)
      <4>1. wire # <<>> /\ wire[Len(wire)] \in Nat
        BY <2>3, <2>4, <3>1
      <4> QED BY <1>0, <2>1, <2>2, <2>4, <3>1, <4>1 DEF Successor, Slots
    <3>2. CASE i # Len(wire)
      BY <1>0, <2>4, <3>2 DEF NoGap
    <3> QED BY <3>1, <3>2
  <2>7. pc' = [pc EXCEPT ![c] = "Drain"] /\ \A d \in Cpus : d # c => pc[d] \notin Holding
    BY <1>0, <1>5 DEF WriteThr, Exclusive, Holding
  <2>8. Emptied'
    BY <1>0, <2>2, <2>4, <2>7 DEF Emptied, Unannounced, Holding, TypeOK
  <2> QED BY <2>1, <2>5, <2>6, <2>8
<1>11. ASSUME NEW c \in Cpus, Running(c) PROVE (NewestKept /\ Emptied /\ Successor /\ NoGap)'
  <2>1. Put(c) \/ WriteThr(c) \/ UNCHANGED <<ring, said, wire>>
    BY <1>11 DEF Running, Acquire, AwaitThre, Drained, Unlock
  <2>2. CASE UNCHANGED <<ring, said, wire>> /\ ~Put(c) /\ ~WriteThr(c)
    <3>1. Emptied'
      BY <1>2, <1>4, <1>6, <1>7, <1>11, <2>2 DEF Running
    <3> QED BY <1>q, <2>2, <3>1
  <2> QED BY <1>3, <1>5, <2>1, <2>2
<1>12. ASSUME NEW c \in Cpus, NEW k \in {"lf", "char"}, Dputc(c, k)
       PROVE  (NewestKept /\ Emptied /\ Successor /\ NoGap)'
  <2>1. UNCHANGED <<ring, said, wire>>
    BY <1>12 DEF Dputc
  <2> QED BY <1>1, <1>12, <1>q, <2>1
<1> QED BY <1>8, <1>9, <1>10, <1>11, <1>12 DEF Next

-----------------------------------------------------------------------------
(* Newlines.                                                               *)
LEMMA NewlineUnmoved ==
  ASSUME TypeOK, Newline, CrBeforeLf, UNCHANGED said,
         NEW c \in Cpus, \A d \in Cpus : d # c => pc'[d] = pc[d] /\ todo'[d] = todo[d],
         /\ pc'[c] = "Lock" => todo'[c] \in {Line, <<"char">>}
         /\ pc'[c] = "Put" => todo'[c] \in {Line, <<"char">>, <<"nl">>} \/ (todo'[c] = <<"lf">> /\ CrSaid)
         /\ pc'[c] \in Draining =>
              todo'[c] \in {<<"char">>, <<"nl">>, <<"lf">>} \/ (todo'[c] = Line /\ CrSaid)
  PROVE  Newline' /\ CrBeforeLf'
<1>1. CrSaid' = CrSaid
  BY DEF CrSaid
<1>2. CrBeforeLf'
  BY DEF CrBeforeLf
<1>3. Newline'
  BY <1>1 DEF Newline, Line
<1> QED BY <1>2, <1>3

(* The carriage return and its line feed.                                  *)
LEMMA NewlineStep == IInv /\ [Next]_vars => (Newline /\ CrBeforeLf)'
<1> SUFFICES ASSUME IInv, [Next]_vars PROVE (Newline /\ CrBeforeLf)'
  OBVIOUS
<1> USE LogAssumption DEF Goto
<1>0. TypeOK /\ Exclusive /\ Newline /\ CrBeforeLf
  BY DEF IInv
<1>1. ASSUME NEW c \in Cpus, NEW k \in {"lf", "char"}, Dputc(c, k) PROVE (Newline /\ CrBeforeLf)'
  <2>1. /\ said' = said /\ pc'[c] = "Lock" /\ todo'[c] \in {Line, <<"char">>}
        /\ \A d \in Cpus : d # c => pc'[d] = pc[d] /\ todo'[d] = todo[d]
    BY <1>0, <1>1 DEF Dputc, TypeOK, Line
  <2> QED BY <1>0, <2>1, NewlineUnmoved DEF Draining
<1>2. ASSUME NEW c \in Cpus, Acquire(c) PROVE (Newline /\ CrBeforeLf)'
  <2>1. /\ said' = said /\ pc'[c] \in {"Put", "Unlock"} /\ todo'[c] \in {Line, <<"char">>}
        /\ \A d \in Cpus : d # c => pc'[d] = pc[d] /\ todo'[d] = todo[d]
    BY <1>0, <1>2 DEF Acquire, TypeOK, Newline
  <2> QED BY <1>0, <2>1, NewlineUnmoved DEF Draining
<1>3. ASSUME NEW c \in Cpus, Put(c) PROVE (Newline /\ CrBeforeLf)'
  <2>1. todo[c] \in {Line, <<"char">>, <<"nl">>} \/ (todo[c] = <<"lf">> /\ CrSaid)
    BY <1>0, <1>3 DEF Put, Newline
  <2>2. /\ said' = Append(said, Head(todo[c])) /\ said \in Seq(Kinds)
        /\ todo[c] \in Said /\ Head(todo[c]) \in Kinds
    BY <1>0, <1>3, <2>1, SaidParts DEF Put, Say, TypeOK, Said
  <2>3. /\ Len(said') = Len(said) + 1 /\ said' # <<>> /\ Len(said) \in Nat
        /\ said'[Len(said')] = Head(todo[c])
        /\ \A i \in 1 .. Len(said) : said'[i] = said[i]
    BY <2>2
  <2>4. Head(todo[c]) = "lf" => CrSaid
    <3>1. Head(Line) = "cr" /\ Head(<<"char">>) = "char" /\ Head(<<"nl">>) = "nl"
      BY SaidParts DEF Kinds
    <3> QED BY <2>1, <3>1
  <2>5. CrBeforeLf'
    <3> SUFFICES ASSUME NEW i \in 1 .. Len(said'), said'[i] = "lf"
                 PROVE  i > 1 /\ said'[i-1] = "cr"
      BY DEF CrBeforeLf
    <3>1. CASE i = Len(said')
      <4>1. CrSaid /\ i - 1 = Len(said)
        BY <2>3, <2>4, <3>1
      <4>2. Len(said) >= 1
        BY <2>2, <4>1 DEF CrSaid
      <4> QED BY <2>3, <3>1, <4>1, <4>2 DEF CrSaid
    <3>2. CASE i # Len(said')
      <4>1. i \in 1 .. Len(said) /\ said[i] = "lf"
        BY <2>3, <3>2
      <4>2. i > 1 /\ said[i-1] = "cr" /\ i - 1 \in 1 .. Len(said)
        BY <1>0, <2>3, <4>1 DEF CrBeforeLf
      <4> QED BY <2>3, <4>2
    <3> QED BY <3>1, <3>2
  <2>6. todo[c] = Line => CrSaid'
    BY <2>3, SaidParts DEF CrSaid
  <2>7. ASSUME NEW d \in Cpus, d # c
        PROVE pc'[d] = pc[d] /\ todo'[d] = todo[d] /\ pc[d] \notin Holding
    BY <1>0, <1>3, <2>7 DEF Put, Say, Exclusive, TypeOK, Holding
  <2>8. CASE mmio = "none"
    <3>1. pc'[c] = AfterPut(c) /\ todo'[c] = Tail(todo[c])
      BY <1>0, <1>3, <2>8 DEF Put, Say, TypeOK
    <3>2. AfterPut(c) = "Unlock" \/ (AfterPut(c) = "Put" /\ todo[c] = Line)
      <4>1. Len(<<"char">>) = 1 /\ Len(<<"nl">>) = 1 /\ Len(<<"lf">>) = 1
        BY SaidParts DEF Kinds
      <4>2. todo[c] = Line \/ Len(todo[c]) = 1
        BY <2>1, <4>1, Zenon
      <4> QED BY <4>2, AfterPutIs
    <3>3. Tail(Line) = <<"lf">>
      BY SaidParts
    <3> QED BY <1>0, <2>5, <2>6, <2>7, <3>1, <3>2, <3>3 DEF Newline, Holding, Draining, Line
  <2>9. CASE mmio # "none"
    <3>1. pc'[c] = "Drain" /\ todo'[c] = todo[c]
      BY <1>0, <1>3, <2>9 DEF Put, Say, TypeOK
    <3>2. todo[c] \in {<<"char">>, <<"nl">>, <<"lf">>} \/ (todo[c] = Line /\ CrSaid')
      BY <2>1, <2>6
    <3> QED BY <1>0, <2>5, <2>7, <3>1, <3>2 DEF Newline, Holding, Draining, Line
  <2> QED BY <2>8, <2>9
<1>4. ASSUME NEW c \in Cpus, AwaitThre(c) \/ WriteThr(c) PROVE (Newline /\ CrBeforeLf)'
  <2>1. /\ said' = said /\ pc[c] \in Draining /\ pc'[c] \in Draining /\ todo' = todo
        /\ \A d \in Cpus : d # c => pc'[d] = pc[d]
    BY <1>0, <1>4 DEF AwaitThre, WriteThr, TypeOK, Draining
  <2>2. todo[c] \in {<<"char">>, <<"nl">>, <<"lf">>} \/ (todo[c] = Line /\ CrSaid)
    BY <1>0, <2>1 DEF Newline
  <2> QED BY <1>0, <2>1, <2>2, NewlineUnmoved DEF Draining
<1>5. ASSUME NEW c \in Cpus, Drained(c) PROVE (Newline /\ CrBeforeLf)'
  <2>1. /\ said' = said /\ pc'[c] = AfterPut(c) /\ todo'[c] = Tail(todo[c])
        /\ \A d \in Cpus : d # c => pc'[d] = pc[d] /\ todo'[d] = todo[d]
    BY <1>0, <1>5 DEF Drained, TypeOK
  <2>2. todo[c] \in {<<"char">>, <<"nl">>, <<"lf">>} \/ (todo[c] = Line /\ CrSaid)
    BY <1>0, <1>5 DEF Newline, Drained, Draining
  <2>3. AfterPut(c) = "Unlock" \/ (AfterPut(c) = "Put" /\ todo[c] = Line /\ CrSaid)
    <3>1. Len(<<"char">>) = 1 /\ Len(<<"nl">>) = 1 /\ Len(<<"lf">>) = 1
      BY SaidParts DEF Kinds
    <3>2. (todo[c] = Line /\ CrSaid) \/ Len(todo[c]) = 1
      BY <2>2, <3>1, Zenon
    <3> QED BY <3>2, AfterPutIs
  <2>4. Tail(Line) = <<"lf">>
    BY SaidParts
  <2> QED BY <1>0, <2>1, <2>3, <2>4, NewlineUnmoved DEF Draining
<1>6. ASSUME NEW c \in Cpus, Unlock(c) PROVE (Newline /\ CrBeforeLf)'
  <2>1. /\ said' = said /\ pc'[c] = "Idle"
        /\ \A d \in Cpus : d # c => pc'[d] = pc[d] /\ todo'[d] = todo[d]
    BY <1>0, <1>6 DEF Unlock, TypeOK
  <2> QED BY <1>0, <2>1, NewlineUnmoved DEF Draining
<1>7. CASE InitUart
  <2>1. /\ said' = said /\ pc'[Boot] = "Put" /\ todo'[Boot] = <<"nl">>
        /\ \A d \in Cpus : d # Boot => pc'[d] = pc[d] /\ todo'[d] = todo[d]
    BY <1>0, <1>7 DEF InitUart, TypeOK
  <2> QED BY <1>0, <2>1, NewlineUnmoved DEF Draining
<1>8. CASE Remap
  <2>1. /\ said' = said /\ (pc'[Boot] = "Idle" \/ (pc'[Boot] = "Lock" /\ todo'[Boot] = Line))
        /\ \A d \in Cpus : d # Boot => pc'[d] = pc[d] /\ todo'[d] = todo[d]
    BY <1>0, <1>8 DEF Remap, TypeOK, Line
  <2> QED BY <1>0, <2>1, NewlineUnmoved DEF Draining
<1>9. CASE SetPrintCb \/ Transmit \/ UNCHANGED vars
  <2>1. UNCHANGED <<pc, todo, said>>
    BY <1>9 DEF SetPrintCb, Transmit, vars
  <2> QED BY <1>0, <2>1 DEF Newline, CrBeforeLf, CrSaid, Line
<1> QED BY <1>1, <1>2, <1>3, <1>4, <1>5, <1>6, <1>7, <1>8, <1>9 DEF Next, Running

-----------------------------------------------------------------------------
LEMMA Inductive == Spec => []IInv
<1>1. IInv /\ [Next]_vars => IInv'
  <2> SUFFICES ASSUME IInv, [Next]_vars PROVE IInv'
    OBVIOUS
  <2>1. TypeOK'
    BY TypeStep
  <2>2. (Exclusive /\ Unmapped /\ IoBaseCurrent)'
    BY LockStep
  <2>3. (NewestKept /\ Emptied /\ Successor /\ NoGap)'
    BY <2>1, RingStep
  <2>4. (Newline /\ CrBeforeLf)'
    BY NewlineStep
  <2> QED BY <2>1, <2>2, <2>3, <2>4 DEF IInv
<1> QED BY InitInv, <1>1, PTL DEF Spec

(* The log's state keeps its types, for any ring and any number of CPUs.   *)
THEOREM TypeCorrect == Spec => []TypeOK
BY Inductive, PTL DEF IInv

(* A CPU in the loop of uart_putc (106-115) writes to where the UART is:   *)
(* its copy of mmio_base_addr is never stale.                              *)
THEOREM RegistersCurrent == Spec => []IoBaseCurrent
BY Inductive, PTL DEF IInv

(* The ring holds the newest characters, in order, whatever the size of    *)
(* the ring and whatever it dropped.                                       *)
THEOREM RingHoldsNewest == Spec => []NewestKept
BY Inductive, PTL DEF IInv

(* Nothing is repeated, overtaken or missing on the wire once it began.    *)
THEOREM WireHasNoGap == Spec => []NoGap
BY Inductive, PTL DEF IInv

(* Whenever nobody is in uart_putc after the UART is mapped, all but the   *)
(* last character is out.                                                  *)
THEOREM LastStaysBehind == Spec => []OneBehind
<1>1. IInv => OneBehind
  <2> SUFFICES ASSUME IInv, stage \in {"boot", "smp"}, said # <<>>, \A c \in Cpus : pc[c] \in {"Idle", "Lock"}
               PROVE  wire # <<>> /\ wire[Len(wire)] = Len(said) - 1
    BY DEF OneBehind
  <2>1. put_idx = get_idx
    BY DEF IInv, Emptied, Unmapped, Unannounced, Draining
  <2>2. wire # <<>> /\ wire[Len(wire)] \in Nat /\ Len(said) \in Nat
    <3>1. wire # <<>>
      BY <2>1 DEF IInv, Emptied
    <3> QED BY <3>1 DEF IInv, TypeOK
  <2>3. Pending = 0
    BY <2>1, PendingIs DEF IInv, TypeOK
  <2> QED BY <2>2, <2>3 DEF IInv, Successor
<1> QED BY <1>1, Inductive, PTL

(* Each '\n' that platform_dputc puts enters the log right after its own   *)
(* '\r', for the two are put in one hold of dputc_spin_lock.  It is said   *)
(* of what enters: a full ring may drop the '\r' later, and the '\n' that  *)
(* init_uart puts by itself has none.                                      *)
THEOREM NewlinesWhole == Spec => []CrBeforeLf
BY Inductive, PTL DEF IInv

-----------------------------------------------------------------------------
(* The log as a queue.                                                     *)
(* The characters from the pth before s to s.                              *)
Run(s, p) == [n \in 1 .. p+1 |-> (s - p) + (n - 1)]

(* A run as a sequence: its ends, one more behind it, one less before it.  *)
LEMMA RunIs ==
  ASSUME NEW s \in Nat, NEW p \in Nat
  PROVE  /\ Run(s, p) \in Seq(Int) /\ Len(Run(s, p)) = p + 1
         /\ Run(s, p)[p + 1] = s /\ Head(Run(s, p)) = s - p
         /\ Append(Run(s, p), s + 1) = Run(s + 1, p + 1)
         /\ p > 0 => Tail(Run(s, p)) = Run(s, p - 1)
<1>1. Run(s, p) \in Seq(Int) /\ Len(Run(s, p)) = p + 1
  BY DEF Run
<1>2. Run(s, p)[p + 1] = s /\ Head(Run(s, p)) = s - p
  BY <1>1 DEF Run
<1>3. Append(Run(s, p), s + 1) = Run(s + 1, p + 1)
  <2> DEFINE a == Append(Run(s, p), s + 1)  b == Run(s + 1, p + 1)
  <2>1. a \in Seq(Int) /\ Len(a) = p + 2
    BY <1>1
  <2>2. b \in Seq(Int) /\ Len(b) = p + 2
    BY DEF Run
  <2>3. ASSUME NEW n \in 1 .. p + 2 PROVE a[n] = b[n]
    BY <1>1 DEF Run
  <2> HIDE DEF a, b
  <2> QED BY <2>1, <2>2, <2>3, SeqEqual DEF a, b
<1>4. p > 0 => Tail(Run(s, p)) = Run(s, p - 1)
  <2> SUFFICES ASSUME p > 0 PROVE Tail(Run(s, p)) = Run(s, p - 1)
    OBVIOUS
  <2> DEFINE a == Tail(Run(s, p))  b == Run(s, p - 1)
  <2>1. a \in Seq(Int) /\ Len(a) = p
    BY <1>1
  <2>2. b \in Seq(Int) /\ Len(b) = p
    BY DEF Run
  <2>3. ASSUME NEW n \in 1 .. p PROVE a[n] = b[n]
    BY <1>1 DEF Run
  <2> HIDE DEF a, b
  <2> QED BY <2>1, <2>2, <2>3, SeqEqual DEF a, b
<1> QED BY <1>1, <1>2, <1>3, <1>4

(* What waits in the ring is the run of the newest characters.             *)
LEMMA WaitingIs ==
  TypeOK /\ NewestKept =>
    /\ Waiting = Run(Len(said), Pending)
    /\ Len(said) \in Nat /\ Pending \in Nat /\ Pending < BufSize
<1> SUFFICES ASSUME TypeOK, NewestKept
             PROVE  /\ Waiting = Run(Len(said), Pending)
                    /\ Len(said) \in Nat /\ Pending \in Nat /\ Pending < BufSize
  OBVIOUS
<1>1. Len(said) \in Nat /\ Pending \in Nat /\ Pending < BufSize
  BY PendingIs, LogAssumption DEF TypeOK, Slots
<1>2. ASSUME NEW n \in 1 .. Pending + 1
      PROVE  buf[Behind(Pending + 1 - n)] = (Len(said) - Pending) + (n - 1)
  <2>1. Pending + 1 - n \in 0 .. Pending
    BY <1>1
  <2>2. buf[Behind(Pending + 1 - n)] = Len(said) - (Pending + 1 - n)
    BY <2>1 DEF NewestKept
  <2> QED BY <1>1, <2>2
<1> QED BY <1>1, <1>2 DEF Waiting, Run

(* Once a character is out, a put finds the ring empty.                    *)
LEMMA NoneWaits ==
  ASSUME IInv, NEW c \in Cpus, Put(c), wire # <<>>
  PROVE  Pending = 0
<1>0. TypeOK
  BY DEF IInv
<1>1. \A d \in Cpus : pc[d] \notin Draining
  BY DEF IInv, Exclusive, Put, Holding, Draining
<1>2. mmio # "none" /\ ~Unannounced
  BY DEF IInv, Unmapped
<1>3. put_idx = get_idx
  BY <1>1, <1>2 DEF IInv, Emptied
<1> QED BY <1>0, <1>3, PendingIs DEF TypeOK

LEMMA PutEnters ==
  ASSUME IInv, IInv', NEW c \in Cpus, Put(c)
  PROVE  Promise!Enter \/ Promise!DriveOut
<1> DEFINE s == Len(said)  p == Pending
<1>1. Waiting = Run(s, p) /\ s \in Nat /\ p \in Nat /\ p < BufSize
  BY WaitingIs DEF IInv
<1>2. Waiting' = Run(s + 1, Pending')
  <2>1. (Waiting = Run(Len(said), Pending))'
    <3>1. TypeOK' /\ NewestKept'
      BY DEF IInv
    <3> QED BY <3>1, WaitingIs, PTL
  <2>2. Len(said') = s + 1
    BY DEF IInv, TypeOK, Put, Say
  <2> QED BY <2>1, <2>2
<1>3. Pending' = (IF p = BufSize-1 THEN p ELSE p + 1) /\ wire' = wire
  BY PutKeeps DEF Put, Say, IInv
<1>4. wire # <<>> => p = 0
  BY NoneWaits
<1> HIDE DEF s, p
<1>5. Len(Waiting) = p + 1 /\ Waiting[Len(Waiting)] = s
  BY <1>1, RunIs
<1>6. CASE p = BufSize-1
  <2>1. p > 0 /\ wire = <<>>
    BY <1>4, <1>6, LogAssumption
  <2>2. Append(Tail(Run(s, p)), s + 1) = Run(s + 1, p)
    <3>1. p - 1 \in Nat /\ (p - 1) + 1 = p
      BY <1>1, <2>1
    <3>2. Tail(Run(s, p)) = Run(s, p - 1)
      BY <1>1, <2>1, RunIs, Zenon
    <3>3. Append(Run(s, p - 1), s + 1) = Run(s + 1, (p - 1) + 1)
      BY <1>1, <3>1, RunIs, Zenon
    <3> QED BY <3>1, <3>2, <3>3, Zenon
  <2>3. Len(Waiting) = BufSize
    BY <1>5, <1>6, LogAssumption
  <2> QED BY <1>1, <1>2, <1>3, <1>5, <1>6, <2>1, <2>2, <2>3 DEF Promise!DriveOut, Promise!Newest
<1>7. CASE p # BufSize-1
  <2>1. Append(Run(s, p), s + 1) = Run(s + 1, p + 1)
    BY <1>1, RunIs
  <2>2. Len(Waiting) < BufSize
    BY <1>1, <1>5, <1>7, LogAssumption
  <2> QED BY <1>1, <1>2, <1>3, <1>5, <1>7, <2>1, <2>2 DEF Promise!Enter, Promise!Newest
<1> QED BY <1>6, <1>7

LEMMA WriteLeaves ==
  ASSUME IInv, IInv', NEW c \in Cpus, WriteThr(c)
  PROVE  Promise!Leave
<1> DEFINE s == Len(said)  p == Pending
<1>1. Waiting = Run(s, p) /\ s \in Nat /\ p \in Nat
  BY WaitingIs DEF IInv
<1>2. Pending' = p - 1 /\ wire' = Append(wire, s - p)
  BY WriteKeeps
<1>3. Waiting' = Run(s, p - 1) /\ p - 1 \in Nat
  <2>1. TypeOK' /\ NewestKept' /\ Len(said') = s
    BY DEF IInv, WriteThr
  <2>2. (Waiting = Run(Len(said), Pending))' /\ (Pending \in Nat)'
    BY <2>1, WaitingIs, PTL
  <2> QED BY <1>2, <2>1, <2>2
<1> HIDE DEF s, p
<1>4. p > 0
  BY <1>1, <1>3
<1>5. Len(Waiting) = p + 1 /\ Head(Waiting) = s - p /\ Tail(Waiting) = Run(s, p - 1)
  BY <1>1, <1>4, RunIs
<1> QED BY <1>1, <1>2, <1>3, <1>4, <1>5 DEF Promise!Leave

(* The log is a queue of bounded memory that drops its oldest character    *)
(* only as long as none is out, whoever prints, and wherever and whenever  *)
(* the UART is mapped: a put is an arrival, a write to THR a departure.    *)
THEOREM Implements == Spec => ImplementsQueue
<1>1. Init => Promise!QueueInit
  <2> SUFFICES ASSUME Init PROVE Promise!QueueInit
    OBVIOUS
  <2>1. said = <<>> /\ wire = <<>> /\ put_idx = 0 /\ get_idx = 0
    BY DEF Init
  <2>2. Pending = 0 /\ Waiting = Run(0, 0)
    <3>1. IInv
      BY InitInv
    <3>2. Pending = 0
      BY <2>1, <3>1, PendingIs DEF IInv
    <3> QED BY <2>1, <3>1, <3>2, WaitingIs DEF IInv
  <2>3. Run(0, 0) = <<0>>
    BY DEF Run
  <2> QED BY <2>1, <2>2, <2>3 DEF Promise!QueueInit
<1>2. IInv /\ IInv' /\ [Next]_vars => [Promise!QueueNext]_Promise!queueVars
  <2> SUFFICES ASSUME IInv, IInv', [Next]_vars
               PROVE  [Promise!QueueNext]_Promise!queueVars
    OBVIOUS
  <2>1. ASSUME UNCHANGED <<ring, wire>> PROVE UNCHANGED Promise!queueVars
    BY <2>1 DEF Promise!queueVars, Waiting, Pending, Behind, ring
  <2>2. ASSUME NEW c \in Cpus, Put(c) PROVE Promise!QueueNext
    BY <2>2, PutEnters DEF Promise!QueueNext
  <2>3. ASSUME NEW c \in Cpus, WriteThr(c) PROVE Promise!QueueNext
    BY <2>3, WriteLeaves DEF Promise!QueueNext
  <2>4. ASSUME NEW c \in Cpus, Running(c)
        PROVE  Put(c) \/ WriteThr(c) \/ UNCHANGED <<ring, wire>>
    BY <2>4 DEF Running, Acquire, AwaitThre, Drained, Unlock
  <2>5. ASSUME ~(\E c \in Cpus : Running(c)) PROVE UNCHANGED <<ring, wire>>
    BY <2>5 DEF Next, Dputc, InitUart, Remap, SetPrintCb, Transmit, vars
  <2> QED BY <2>1, <2>2, <2>3, <2>4, <2>5
<1> QED BY <1>1, <1>2, Inductive, PTL DEF Spec, ImplementsQueue, Promise!Queue
=============================================================================
