-------------------------------- MODULE Spi --------------------------------
(***************************************************************************)
(* The LPSS SPI driver (lib/spi/spi.c) under its system calls              *)
(* (lib/syscall/syscall_x86.c).  One application, "fingerprint", calls it, *)
(* so the driver's static spi_drv_data is one set of variables.  spi_init  *)
(* selects words of 8 bits and nothing else ever does: only u8_reader,     *)
(* u8_writer and their null twins are reachable.                           *)
(*                                                                         *)
(* Words have no contents here but numbers: the n-th word put into the     *)
(* transmit FIFO since spi_init is n, and so is the word the peripheral    *)
(* returns while it is clocked out.  SPI is full duplex: what a call reads *)
(* is an answer to what it sends only if the two stay in step.             *)
(***************************************************************************)
EXTENDS Integers, Sequences

CONSTANTS
  RxDepth,    \* words the receive FIFO holds
  MaxWords,   \* bound: words of a transfer
  MaxCalls,   \* bound: system calls
  MaxFaults   \* bound: polls of a FIFO that end with TIMEOUT

ASSUME SpiAssumption ==
  /\ RxDepth \in Nat \ {0} /\ MaxWords \in Nat \ {0}
  /\ MaxCalls \in Nat /\ MaxFaults \in Nat

VARIABLES
  \* the controller
  enabled,    \* SPI_CR0.SSE
  cs,         \* the peripheral is selected
  sent,       \* number of the last word put into the transmit FIFO
  clocked,    \* number of the last word clocked out; BSY while it lags sent
  rx,         \* the receive FIFO
  \* the driver
  pc,         \* where the call is
  op,         \* "read", "write" or "writeread"
  todo,       \* words still to transfer
  skip,       \* tx_bytes of a writeread
  got,        \* words stored into the kernel's receive buffer
  user,       \* words the last successful call copied to the application
  ret,        \* what the last call returned
  \* history
  base,       \* sent, when the transfer began
  late,       \* receive timeouts since spi_init: words nobody waited for
  overrun,    \* the receive FIFO lost a word since spi_init
  calls, faults

device == <<enabled, cs, sent, clocked, rx>>
callVars == <<op, skip, base>>
bounds == <<calls, faults>>
vars == <<device, pc, callVars, todo, got, user, ret, late, overrun, bounds>>

Init ==
  /\ enabled = FALSE /\ cs = FALSE
  /\ sent = 0 /\ clocked = 0 /\ rx = <<>>
  /\ pc = "Idle" /\ op = "read" /\ todo = 0 /\ skip = 0
  /\ got = <<>> /\ user = <<>> /\ ret = "NO_ERROR"
  /\ base = 0 /\ late = 0 /\ overrun = FALSE
  /\ calls = 0 /\ faults = 0

Called == pc = "Idle" /\ calls < MaxCalls /\ calls' = calls + 1
Fault == faults < MaxFaults /\ faults' = faults + 1

-----------------------------------------------------------------------------
(* sys_trusty_spi_init: SPI_RESET empties the FIFOs and drops the word in  *)
(* the shifter; the chip select bit of SPI_CC is written back as it is.    *)
SpiInitKeepsRx ==               \* mutant: the receive FIFO is not reset
  /\ Called
  /\ enabled' = TRUE /\ sent' = 0 /\ clocked' = 0 /\ UNCHANGED rx
  /\ late' = 0 /\ overrun' = FALSE
  /\ UNCHANGED <<cs, pc, callVars, todo, got, user, ret, faults>>

SpiInit ==
  /\ Called
  /\ enabled' = TRUE /\ sent' = 0 /\ clocked' = 0 /\ rx' = <<>>
  /\ late' = 0 /\ overrun' = FALSE
  /\ UNCHANGED <<cs, pc, callVars, todo, got, user, ret, faults>>

(* sys_trusty_spi_set_cs.                                                  *)
SetCs(flag) ==
  /\ Called
  /\ cs' = flag
  /\ UNCHANGED <<enabled, sent, clocked, rx, pc, callVars, todo, got, user, ret,
                 late, overrun, faults>>

-----------------------------------------------------------------------------
(* sys_trusty_spi_read, _write and _writeread as far as spi_check_busy.    *)
(* The result of copy_from_user is overwritten: the transfer takes place   *)
(* whether or not it could fetch the words to send.                        *)
Refused ==
  /\ Called
  /\ ret' \in {"ERR_NO_MEMORY", "ERR_INVALID_ARGS"}
  /\ UNCHANGED <<device, pc, callVars, todo, got, user, late, overrun, faults>>

Enter(o, n, s) ==
  /\ Called
  /\ op' = o /\ todo' = n /\ skip' = s
  /\ got' = <<>> /\ base' = sent
  /\ pc' = "CheckBusy"
  /\ UNCHANGED <<device, user, ret, late, overrun, faults>>

Transfer ==
  \E n \in 1 .. MaxWords :
    \/ Enter("read", n, 0) \/ Enter("write", n, 0)
    \/ \E s \in 1 .. n-1 : Enter("writeread", n, s)

Busy == clocked < sent

StillBusy ==
  /\ pc = "CheckBusy" /\ Busy
  /\ pc' = "Idle" /\ ret' = "ERR_BUSY"
  /\ UNCHANGED <<device, callVars, todo, got, user, late, overrun, bounds>>

BusyNotAwaited ==               \* mutant: spi_check_busy is not called
  /\ pc = "CheckBusy"
  /\ cs' = TRUE /\ pc' = "Write"
  /\ UNCHANGED <<enabled, sent, clocked, rx, callVars, todo, got, user, ret,
                 late, overrun, bounds>>

NotBusy ==
  /\ pc = "CheckBusy" /\ ~Busy
  /\ cs' = TRUE /\ pc' = "Write"
  /\ UNCHANGED <<enabled, sent, clocked, rx, callVars, todo, got, user, ret,
                 late, overrun, bounds>>

-----------------------------------------------------------------------------
(* The transfer loop.  Every word written is waited for before the next    *)
(* one: a controller that is not enabled takes no word and returns none.   *)
WriteWord ==
  /\ pc = "Write"
  /\ sent' = IF enabled THEN sent + 1 ELSE sent
  /\ pc' = "Read"
  /\ UNCHANGED <<enabled, cs, clocked, rx, callVars, todo, got, user, ret,
                 late, overrun, bounds>>

(* The label err.                                                          *)
Fail(code) == pc' = "Idle" /\ ret' = code /\ cs' = FALSE

WriteTimeout ==
  /\ pc = "Write" /\ Fault
  /\ Fail("ERR_TIMED_OUT")
  /\ UNCHANGED <<enabled, sent, clocked, rx, callVars, todo, got, user,
                 late, overrun, calls>>

ReadTimeout ==
  /\ pc = "Read" /\ rx = <<>> /\ Fault
  /\ Fail("ERR_TIMED_OUT")
  /\ late' = IF enabled THEN late + 1 ELSE late
  /\ UNCHANGED <<enabled, sent, clocked, rx, callVars, todo, got, user, overrun, calls>>

(* null_reader discards the word.                                          *)
ReadWord ==
  /\ pc = "Read" /\ rx # <<>>
  /\ rx' = Tail(rx)
  /\ got' = IF op = "write" THEN got ELSE Append(got, Head(rx))
  /\ todo' = todo - 1
  /\ IF todo = 1
     THEN /\ cs' = FALSE /\ ret' = "NO_ERROR"
          /\ pc' = IF op = "write" THEN "Idle" ELSE "Copy"
     ELSE pc' = "Write" /\ UNCHANGED <<cs, ret>>
  /\ UNCHANGED <<enabled, sent, clocked, callVars, user, late, overrun, bounds>>

(* The system call copies to the application what came in while it had     *)
(* nothing more to send.                                                   *)
Copied(words) == SubSeq(words, 1, Len(words) - skip)   \* mutant: from the start
Received(words) == SubSeq(words, skip + 1, Len(words))

CopyOut ==
  /\ pc = "Copy"
  /\ pc' = "Idle"
  /\ \/ user' = Received(got) /\ UNCHANGED ret
     \/ ret' = "ERR_FAULT" /\ UNCHANGED user
  /\ UNCHANGED <<device, callVars, todo, got, late, overrun, bounds>>

(* The controller shifts a word out and the peripheral's in.               *)
Shift ==
  /\ Busy
  /\ clocked' = clocked + 1
  /\ IF Len(rx) < RxDepth
     THEN rx' = Append(rx, clocked + 1) /\ UNCHANGED overrun
     ELSE overrun' = TRUE /\ UNCHANGED rx
  /\ UNCHANGED <<enabled, cs, sent, pc, callVars, todo, got, user, ret, late, bounds>>

Next ==
  \/ SpiInit \/ Refused \/ Transfer \/ \E flag \in BOOLEAN : SetCs(flag)
  \/ StillBusy \/ NotBusy \/ WriteWord \/ WriteTimeout \/ ReadTimeout \/ ReadWord
  \/ CopyOut \/ Shift

Spec == Init /\ [][Next]_vars

-----------------------------------------------------------------------------
Results == {"NO_ERROR", "ERR_NO_MEMORY", "ERR_INVALID_ARGS", "ERR_BUSY", "ERR_TIMED_OUT",
            "ERR_FAULT"}

TypeOK ==
  /\ enabled \in BOOLEAN /\ cs \in BOOLEAN /\ overrun \in BOOLEAN
  /\ sent \in Nat /\ clocked \in 0 .. sent /\ base \in Nat
  /\ rx \in Seq(Nat) /\ Len(rx) <= RxDepth
  /\ pc \in {"Idle", "CheckBusy", "Write", "Read", "Copy"}
  /\ op \in {"read", "write", "writeread"}
  /\ todo \in Nat /\ skip \in Nat /\ late \in Nat
  /\ got \in Seq(Nat) /\ user \in Seq(Nat)
  /\ ret \in Results
  /\ calls \in 0 .. MaxCalls /\ faults \in 0 .. MaxFaults

(* A word is only written when the one before it was read, or a late word  *)
(* in its place: no more than late + 1 words are ever on their way, across *)
(* calls.  Without a receive timeout the transmit FIFO holds one word at   *)
(* most and check_tx_fifo never has to wait for room.                      *)
InFlightBounded == sent - clocked <= late + 1

(* Words left on their way when their transfer gave up are still clocked,  *)
(* but then the peripheral may no longer be selected.  Nothing else is     *)
(* ever clocked without it: without a receive timeout no transfer is cut.  *)
InFlightSelected == Busy => cs \/ late > 0

(* No word of an earlier transfer is clocked once a later one has selected *)
(* the peripheral.                                                         *)
OwnSelection == pc \in {"Write", "Read"} => clocked >= base

(* What a call stores answers the words it sent, as long as no receive     *)
(* timed out since spi_init.  After n timeouts every word that is read is  *)
(* n words old, whatever calls came between, until the next spi_init: the  *)
(* late words stay in the FIFO and nothing drains it.                      *)
Lagged ==
  pc # "Idle" /\ ~overrun =>
    \A i \in 1 .. Len(got) : got[i] + late = base + i

(* No word is handed out twice or out of order within a transfer, not even *)
(* after the FIFO overran, and none before it was clocked.                 *)
InOrder ==
  pc # "Idle" =>
    /\ \A i, j \in 1 .. Len(got) : i < j => got[i] < got[j]
    /\ \A i \in 1 .. Len(got) : got[i] <= clocked

(* Without timeouts, spi_read and spi_writeread give the application the   *)
(* answers to the last words of its own transfer and nothing else.         *)
Delivered ==
  [][user' # user /\ late = 0 /\ ~overrun =>
       user' = [i \in 1 .. Len(got) - skip |-> base + skip + i]]_vars
=============================================================================
