------------------------------ MODULE EarlyLog ------------------------------
(***************************************************************************)
(* The boot-stage log (debug.c): platform_dputc puts characters into a     *)
(* ring under a spin lock and drains it into the UART once that is mapped. *)
(*                                                                         *)
(* Characters are numbered in the order they enter the ring; 0 is the NUL  *)
(* the ring is initialised with.  The CPUs other than Boot are those of an *)
(* SMP build; nothing but the boot CPU runs before the hook of uart_remap  *)
(* has returned.                                                           *)
(***************************************************************************)
EXTENDS Integers, Sequences

CONSTANTS
  Cpus, Boot, Nobody,
  BufSize,    \* BUF_SIZE
  MaxSaid     \* bound: characters put into the ring

ASSUME LogAssumption ==
  Boot \in Cpus /\ Nobody \notin Cpus /\ BufSize \in Nat \ {0, 1} /\ MaxSaid \in Nat

VARIABLES
  stage,      \* "early"; "init": in init_uart; "boot"; "smp": all CPUs run
  mmio,       \* mmio_base_addr: "none", "linear" or "vmm"; "port" without one
  io_base,    \* per CPU: uart_putc's copy of it
  buf, put_idx, get_idx,
  lock,       \* holder of dputc_spin_lock
  printCb,    \* having_print_cb
  pc, todo,   \* per CPU: where it is, the characters it has still to put
  thre,       \* LSR.THRE
  said,       \* history: what entered the ring
  wire        \* history: what was written to THR

ring == <<buf, put_idx, get_idx>>
vars == <<stage, mmio, io_base, ring, lock, printCb, pc, todo, thre, said, wire>>

Kinds == {"cr", "lf", "char", "nl"}    \* "nl": the newline of init_uart

(* A build that prints through an I/O port has no early stage.             *)
Init ==
  /\ \/ stage = "early" /\ mmio = "none"
     \/ stage = "smp" /\ mmio = "port"
  /\ io_base = [c \in Cpus |-> "none"]
  /\ buf = [i \in 0 .. BufSize-1 |-> 0] /\ put_idx = 0 /\ get_idx = 0
  /\ lock = Nobody /\ printCb = FALSE
  /\ pc = [c \in Cpus |-> "Idle"] /\ todo = [c \in Cpus |-> <<>>]
  /\ thre = TRUE
  /\ said = <<>> /\ wire = <<>>

Following(i) == (i + 1) % BufSize

Goto(c, place) == pc' = [pc EXCEPT ![c] = place]

(* platform_dputc(c): '\n' goes out as "\r\n" in one hold of the lock.     *)
Dputc(c, kind) ==
  /\ pc[c] = "Idle" /\ (c = Boot \/ stage = "smp") /\ Len(said) < MaxSaid
  /\ todo' = [todo EXCEPT ![c] = IF kind = "lf" THEN <<"cr", "lf">> ELSE <<kind>>]
  /\ Goto(c, "Lock")
  /\ UNCHANGED <<stage, mmio, io_base, ring, lock, printCb, thre, said, wire>>

Unprotected(c) ==               \* mutant: no lock
  /\ pc[c] = "Lock"
  /\ Goto(c, IF printCb THEN "Unlock" ELSE "Put")
  /\ UNCHANGED <<stage, mmio, io_base, ring, lock, printCb, todo, thre, said, wire>>

Acquire(c) ==
  /\ pc[c] = "Lock" /\ lock = Nobody
  /\ lock' = c
  /\ Goto(c, IF printCb THEN "Unlock" ELSE "Put")
  /\ UNCHANGED <<stage, mmio, io_base, ring, printCb, todo, thre, said, wire>>

(* init_uart maps the UART and puts a '\n', without the lock.              *)
InitUart ==
  /\ stage = "early" /\ pc[Boot] = "Idle"
  /\ stage' = "init" /\ mmio' = "linear"
  /\ todo' = [todo EXCEPT ![Boot] = <<"nl">>]
  /\ Goto(Boot, "Put")
  /\ UNCHANGED <<io_base, ring, lock, printCb, thre, said, wire>>

(* uart_remap, a hook of the boot CPU: the UART moves to a page of its own *)
(* or, when that fails, stays where it is and a line says so.              *)
RemapLate ==                    \* mutant: a hook of a level at which all CPUs run
  /\ \/ stage = "boot" /\ pc[Boot] = "Idle" /\ stage' = "smp" /\ UNCHANGED mmio
     \/ stage = "smp" /\ mmio = "linear" /\ mmio' = "vmm" /\ UNCHANGED stage
  /\ UNCHANGED <<io_base, ring, lock, printCb, pc, todo, thre, said, wire>>

Remap ==
  /\ stage = "boot" /\ pc[Boot] = "Idle"
  /\ stage' = "smp"
  /\ \/ mmio' = "vmm" /\ UNCHANGED <<pc, todo>>
     \/ /\ Len(said) < MaxSaid
        /\ todo' = [todo EXCEPT ![Boot] = <<"cr", "lf">>] /\ Goto(Boot, "Lock")
        /\ UNCHANGED mmio
  /\ UNCHANGED <<io_base, ring, lock, printCb, thre, said, wire>>

-----------------------------------------------------------------------------
(* uart_putc up to its loop.  A full ring drops its oldest character.      *)
AfterPut(c) == IF Len(todo[c]) > 1 THEN "Put" ELSE "Unlock"

Say(c) ==
  /\ said' = Append(said, Head(todo[c]))
  /\ io_base' = [io_base EXCEPT ![c] = mmio]
  /\ IF mmio = "none"
     THEN Goto(c, AfterPut(c)) /\ todo' = [todo EXCEPT ![c] = Tail(@)]
     ELSE Goto(c, "Drain") /\ UNCHANGED todo
  /\ UNCHANGED <<stage, mmio, lock, printCb, thre, wire>>

PutThenStep(c) ==               \* mutant: stores before it increments
  /\ pc[c] = "Put" /\ Say(c)
  /\ put_idx' = Following(put_idx)
  /\ buf' = [buf EXCEPT ![put_idx] = Len(said')]
  /\ get_idx' = IF put_idx' = get_idx THEN Following(get_idx) ELSE get_idx

PutOverOldest(c) ==             \* mutant: get_idx stays when the ring is full
  /\ pc[c] = "Put" /\ Say(c)
  /\ put_idx' = Following(put_idx)
  /\ buf' = [buf EXCEPT ![put_idx'] = Len(said')]
  /\ UNCHANGED get_idx

Put(c) ==
  /\ pc[c] = "Put" /\ Say(c)
  /\ put_idx' = Following(put_idx)
  /\ buf' = [buf EXCEPT ![put_idx'] = Len(said')]
  /\ get_idx' = IF put_idx' = get_idx THEN Following(get_idx) ELSE get_idx

(* The loop: waits for THRE, then writes the slot at get_idx.              *)
uart_mmio_get_reg == thre
uart_mmio_set_reg(n) == wire' = Append(wire, n) /\ thre' = FALSE

AwaitThre(c) ==
  /\ pc[c] = "Drain" /\ put_idx # get_idx /\ uart_mmio_get_reg
  /\ Goto(c, "Write")
  /\ UNCHANGED <<stage, mmio, io_base, ring, lock, printCb, todo, thre, said, wire>>

WriteThrOnce(c) ==              \* mutant: "if" for "while"
  /\ pc[c] = "Write"
  /\ uart_mmio_set_reg(buf[get_idx])
  /\ get_idx' = Following(get_idx)
  /\ Goto(c, AfterPut(c)) /\ todo' = [todo EXCEPT ![c] = Tail(@)]
  /\ UNCHANGED <<stage, mmio, io_base, buf, put_idx, lock, printCb, said>>

WriteThr(c) ==
  /\ pc[c] = "Write"
  /\ uart_mmio_set_reg(buf[get_idx])
  /\ get_idx' = Following(get_idx)
  /\ Goto(c, "Drain")
  /\ UNCHANGED <<stage, mmio, io_base, buf, put_idx, lock, printCb, todo, said>>

Drained(c) ==
  /\ pc[c] = "Drain" /\ put_idx = get_idx
  /\ Goto(c, AfterPut(c)) /\ todo' = [todo EXCEPT ![c] = Tail(@)]
  /\ UNCHANGED <<stage, mmio, io_base, ring, lock, printCb, thre, said, wire>>

Unlock(c) ==
  /\ pc[c] = "Unlock"
  /\ IF stage = "init" THEN stage' = "boot" /\ UNCHANGED lock
     ELSE lock' = Nobody /\ UNCHANGED stage
  /\ todo' = [todo EXCEPT ![c] = <<>>]
  /\ Goto(c, "Idle")
  /\ UNCHANGED <<mmio, io_base, ring, printCb, thre, said, wire>>

-----------------------------------------------------------------------------
(* LK registers or removes a print callback, whoever holds the lock.       *)
SetPrintCb ==
  /\ stage = "smp"
  /\ printCb' = ~printCb
  /\ UNCHANGED <<stage, mmio, io_base, ring, lock, pc, todo, thre, said, wire>>

(* The UART takes the character out of THR.                                *)
Transmit ==
  /\ ~thre /\ thre' = TRUE
  /\ UNCHANGED <<stage, mmio, io_base, ring, lock, printCb, pc, todo, said, wire>>

Running(c) ==
  Acquire(c) \/ Put(c) \/ AwaitThre(c) \/ WriteThr(c) \/ Drained(c) \/ Unlock(c)

Next ==
  \/ \E c \in Cpus : Running(c) \/ \E k \in {"lf", "char"} : Dputc(c, k)
  \/ InitUart \/ Remap \/ SetPrintCb \/ Transmit

Spec == Init /\ [][Next]_vars

-----------------------------------------------------------------------------
TypeOK ==
  /\ stage \in {"early", "init", "boot", "smp"}
  /\ mmio \in {"none", "linear", "vmm", "port"}
  /\ io_base \in [Cpus -> {"none", "linear", "vmm", "port"}]
  /\ buf \in [0 .. BufSize-1 -> Nat]
  /\ put_idx \in 0 .. BufSize-1 /\ get_idx \in 0 .. BufSize-1
  /\ lock \in Cpus \cup {Nobody} /\ printCb \in BOOLEAN /\ thre \in BOOLEAN
  /\ pc \in [Cpus -> {"Idle", "Lock", "Put", "Drain", "Write", "Unlock"}]
  /\ todo \in [Cpus -> Seq(Kinds)]
  /\ said \in Seq(Kinds) /\ wire \in Seq(Nat)

Behind(n) == (put_idx - n) % BufSize
Pending == (put_idx - get_idx) % BufSize

(* The slots from get_idx to put_idx are the ones to come: they hold the   *)
(* last characters said, in order, whatever was dropped before them.  The  *)
(* slot at put_idx itself is not counted as pending by the loop.           *)
NewestKept ==
  \A n \in 0 .. Pending : buf[Behind(n)] = Len(said) - n

(* Characters go to where the UART is, not to where uart_putc found it     *)
(* before another CPU, or a hook, moved it.                                *)
IoBaseCurrent == \A c \in Cpus : pc[c] \in {"Drain", "Write"} => io_base[c] = mmio

(* On the wire no character is repeated, overtaken or missing: once the    *)
(* first was written each is the successor of the one before.              *)
NoGap == \A i \in 1 .. Len(wire) - 1 : wire[i+1] = wire[i] + 1

(* Once the UART is mapped the wire is one character behind whenever no    *)
(* CPU is in platform_dputc: the last character before a callback takes    *)
(* over, or before a hang, is not seen.                                    *)
OneBehind ==
  (stage \in {"boot", "smp"} /\ said # <<>> /\ \A c \in Cpus : pc[c] \in {"Idle", "Lock"}) =>
     wire # <<>> /\ wire[Len(wire)] = Len(said) - 1

(* Every '\n' of a caller enters the log with its '\r' right before it,    *)
(* whoever else prints at that time.                                       *)
CrBeforeLf ==
  \A i \in 1 .. Len(said) : said[i] = "lf" => i > 1 /\ said[i-1] = "cr"

(* The ring, its two indices and the loop are a queue: one that drops the  *)
(* oldest only before the UART is mapped, and keeps back the last.         *)
Waiting == [n \in 1 .. Pending + 1 |-> buf[Behind(Pending + 1 - n)]]

Promise == INSTANCE LogQueue WITH Capacity <- BufSize, queue <- Waiting

ImplementsQueue == Promise!Queue
=============================================================================
