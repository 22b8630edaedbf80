-------------------------------- MODULE Heci --------------------------------
(***************************************************************************)
(* Retrieval of the attestation keybox from the CSE over the HECI link     *)
(* (lib/heci/heci.c).  The host side is get_attkb with the functions it    *)
(* calls: get_attkb_size, HeciSendwACK, heci_send_impl, heci_receive_impl  *)
(* and wait_event.  The CSE is external: it is modelled from the register  *)
(* protocol the driver uses and from the message layouts of cse_msg.h.     *)
(*                                                                         *)
(* A register or buffer dword is a pair of 16 bit halves, because every    *)
(* field the driver reads (heci_impl.h, cse_msg.h) lies in one half.  The  *)
(* same dword is thus a link header, a request field, a response field or  *)
(* four keybox bytes, depending on who reads it - as in the C unions.      *)
(***************************************************************************)
EXTENDS Integers, Sequences

CONSTANTS
  FileSize,     \* bytes of the keybox file the CSE holds (TotalFileSize)
  Keybox,       \* its contents, a function 0 .. FileSize-1 -> byte
  MaxAttkb,     \* MAX_ATTKB_SIZE, the size of the caller's attkb buffer
  MaxTransfer,  \* ALIGNED_MAX_TRANSFER_BUFFER
  HostDepths,   \* values H_CBD may have, dwords in the host's circular buffer
  SecDepth,     \* dwords in the CSE's circular buffer
  FragWords,    \* payload dwords the CSE puts in one link message
  MinRead,      \* the least the CSE reads for a request that asks for data
  HpetOnAtBoot, \* does firmware leave the HPET main counter running?
  FaultKinds,   \* subset of {"clock", "map"}: faults that may happen
  MaxFaults,    \* bound: faults in a behaviour
  MaxCalls      \* bound: calls of get_attkb in a behaviour

U16  == {n \in Nat : n < 65536}
Word == [lo : U16, hi : U16]
Zero == [lo |-> 0, hi |-> 0]
Unwritten == -1           \* a byte of attkb that get_attkb has not stored

ASSUME HeciAssumption ==
  /\ FileSize \in U16 \ {0}
  /\ Keybox \in [0 .. FileSize-1 -> 0 .. 255]
  /\ MaxAttkb \in Nat
  /\ MaxTransfer \in 4 .. 496 /\ MaxTransfer % 4 = 0
  /\ HostDepths \subseteq 2 .. 255
  /\ SecDepth \in Nat \ {0}
  /\ FragWords \in Nat \ {0}
  /\ MinRead \in {0, 1}
  /\ HpetOnAtBoot \in BOOLEAN
  /\ FaultKinds \subseteq {"clock", "map"}
  /\ MaxFaults \in Nat
  /\ MaxCalls \in Nat

VARIABLES
  pc,          \* where the host is, see Waits and TypeOK
  polled,      \* in wait_event: fun() returned 0, the clock is read next
  phase,       \* "size": inside get_attkb_size, "read": in get_attkb's loop
  buf,         \* DataBuffer, as dwords
  attkb,       \* the caller's keybox buffer, bytes
  size,        \* attkb_size
  offset, remaining, req_size,      \* locals of get_attkb
  status,      \* result of HeciSendwACK
  left,        \* LeftSize of heci_send_impl
  head, index, \* link header and Index of heci_receive_impl
  ret,         \* what the last get_attkb returned, -1 before that
  hpet,        \* HPET: main counter enable, timer 0 comparator (high half)
  hostCB, secCB,  \* the two circular buffers of the link
  h_is, h_ig,  \* H_CSR: interrupt status (from CSE), generate (doorbell)
  sec_rdy,     \* SEC_CSR_HA: SEC_RDY_HRA
  depth,       \* H_CSR: H_CBD
  devOut,      \* dwords of CSE answers not yet in secCB
  calls, faults,  \* calls made and faults met so far
  failed,      \* history: an exchange of the current call failed
  expired,     \* history: ... because wait_event ran out of time
  overrun      \* history: a store fell outside DataBuffer or attkb

callVars == <<phase, attkb, size, offset, remaining, req_size, ret, calls>>
waitVars == <<polled, hpet>>
rxVars   == <<head, index>>
linkVars == <<hostCB, secCB, h_is, h_ig>>
devVars  == <<sec_rdy, depth, devOut>>
hostVars == <<pc, buf, callVars, waitVars, rxVars, status, left,
              faults, failed, expired, overrun>>
vars     == <<hostVars, linkVars, devVars>>

Min2(a, b) == IF a < b THEN a ELSE b

-----------------------------------------------------------------------------
(* Layouts: HECI_MSG_HDR, MKHI_MESSAGE_HEADER and the request and response *)
(* structures.  Group 0x0A, command 0x1A, CSE client address 7, host 0.    *)

HeadLength(w)   == w.hi % 512
HeadComplete(w) == w.hi \div 32768 = 1
LinkHeader(length, complete) ==
  [lo |-> 7, hi |-> length + (IF complete THEN 32768 ELSE 0)]

Dwords(bytes) == (bytes + 3) \div 4

RequestWords  == 3                    \* sizeof(..._EX_Request) / 4
ResponseWords == 3                    \* sizeof(..._EX_Response) / 4
BufWordsNoHeader == MaxTransfer \div 4 + 2    \* mutant: header not counted
BufWords == ResponseWords + MaxTransfer \div 4
BufBytes == 4 * BufWords              \* sizeof(DataBuffer)

Result(b)        == b[0].hi \div 256
TotalFileSize(b) == b[1].lo
ReadSize(b)      == b[2].lo

(* Mutant: the payload is taken to start one dword early.                  *)
FileDataEarly(b, k) ==
  LET w == b[ResponseWords - 1 + k \div 4]
      half == IF (k % 4) < 2 THEN w.lo ELSE w.hi
  IN  IF k % 2 = 0 THEN half % 256 ELSE half \div 256

(* Byte k of the payload that follows the response header.                 *)
FileData(b, k) ==
  LET w == b[ResponseWords + k \div 4]
      half == IF (k % 4) < 2 THEN w.lo ELSE w.hi
  IN  IF k % 2 = 0 THEN half % 256 ELSE half \div 256

(* DataBuffer zeroed and filled with a request: GroupId, Command; Offset,  *)
(* Size; Flags.Encrypt = 1.                                                *)
Request(off, sz) ==
  [i \in 0 .. BufWords-1 |->
     IF i = 0 THEN [lo |-> 10 + 256 * 26, hi |-> 0]
     ELSE IF i = 1 THEN [lo |-> off, hi |-> sz]
     ELSE IF i = 2 THEN [lo |-> 1, hi |-> 0]
     ELSE Zero]

-----------------------------------------------------------------------------
Init ==
  /\ pc = "Idle" /\ polled = FALSE /\ phase = "size"
  /\ buf = [i \in 0 .. BufWords-1 |-> Zero]
  /\ attkb = [i \in 0 .. MaxAttkb-1 |-> Unwritten]
  /\ size = 0 /\ offset = 0 /\ remaining = 0 /\ req_size = 0
  /\ status = 0 /\ left = 0 /\ head = Zero /\ index = 0
  /\ ret = -1 /\ calls = 0
  /\ hpet = [enabled |-> HpetOnAtBoot, cmp_hi |-> 0]
  /\ hostCB = <<>> /\ secCB = <<>> /\ h_is = FALSE /\ h_ig = FALSE
  /\ sec_rdy \in BOOLEAN /\ depth \in HostDepths /\ devOut = <<>>
  /\ faults = 0 /\ failed = FALSE /\ expired = FALSE /\ overrun = FALSE

(***************************************************************************)
(* wait_event.  Entering it runs init_timer; each turn of its loop calls   *)
(* fun() and, when that returned 0, compares the clock with the timeout -  *)
(* so the event may happen between the two and still be reported late.     *)
(***************************************************************************)
Waits == {"WaitReady", "WaitIS", "WaitHead", "WaitData"}

(* init_timer: both comparator halves are cleared, then the configuration  *)
(* register is read and its value with bit 0 set goes to the upper         *)
(* comparator half (0x10c).                                                *)
StopTimer(h) == [h EXCEPT !.enabled = FALSE]    \* mutant: counter halted
init_timer(h) == [h EXCEPT !.cmp_hi = 1]

EnterWait(where) ==
  /\ pc' = where
  /\ polled' = FALSE
  /\ hpet' = init_timer(hpet)

is_dev_ready        == sec_rdy
is_dev_data_ready   == secCB # <<>>
is_interrupt_raised == h_is

Event ==
  CASE pc = "WaitReady" -> is_dev_ready
    [] pc = "WaitIS"    -> is_interrupt_raised
    [] OTHER            -> is_dev_data_ready

Poll ==
  /\ pc \in Waits /\ ~polled /\ ~Event
  /\ polled' = TRUE
  /\ UNCHANGED <<pc, buf, callVars, hpet, rxVars, status, left, linkVars, devVars,
                 faults, failed, expired, overrun>>

NotYet ==
  /\ pc \in Waits /\ polled
  /\ polled' = FALSE
  /\ UNCHANGED <<pc, buf, callVars, hpet, rxVars, status, left, linkVars, devVars,
                 faults, failed, expired, overrun>>

Fault(kind) == kind \in FaultKinds /\ faults < MaxFaults /\ faults' = faults + 1

(* HeciSendwACK returns to its caller.                                     *)
Ack(st) ==
  /\ status' = st
  /\ pc' = "Parse"
  /\ failed' = (failed \/ st # 0)

(* elapsed >= timeout: wait_event returns -1 and the caller fails with 1.  *)
(* A main counter that stands still never gets there.                      *)
TimeOut ==
  /\ pc \in Waits /\ polled /\ hpet.enabled
  /\ Fault("clock")
  /\ Ack(1) /\ polled' = FALSE /\ expired' = TRUE
  /\ UNCHANGED <<buf, callVars, hpet, rxVars, left, linkVars, devVars, overrun>>

-----------------------------------------------------------------------------
(* get_attkb is called with a fresh buffer; get_attkb_size builds the size *)
(* request, a request for 0 bytes at offset 0.                             *)
GetAttkb ==
  /\ pc = "Idle" /\ calls < MaxCalls
  /\ calls' = calls + 1
  /\ pc' = "SendwACK" /\ phase' = "size"
  /\ buf' = Request(0, 0)
  /\ attkb' = [i \in 0 .. MaxAttkb-1 |-> Unwritten]
  /\ size' = 0 /\ offset' = 0 /\ remaining' = 0 /\ req_size' = 0
  /\ failed' = FALSE /\ expired' = FALSE
  /\ UNCHANGED <<ret, waitVars, rxVars, status, left, linkVars, devVars, faults, overrun>>

(* HeciSendwACK: heci_get_base_addr maps the CSE's registers once more,    *)
(* then heci_send_impl computes its sizes, writes H_CSR back with H_RDY    *)
(* set (a 1 read from H_IS and written back clears it) and waits for the   *)
(* device.                                                                 *)
SendwACK ==
  /\ pc = "SendwACK"
  /\ left' = Dwords(4 * RequestWords)
  /\ h_is' = FALSE
  /\ EnterWait("WaitReady")
  /\ UNCHANGED <<buf, callVars, rxVars, status, hostCB, secCB, h_ig, devVars,
                 faults, failed, expired, overrun>>

MapFails ==
  /\ pc = "SendwACK"
  /\ Fault("map") /\ Ack(1)
  /\ UNCHANGED <<buf, callVars, waitVars, rxVars, left, linkVars, devVars, expired, overrun>>

(* Dwords of the next fragment: the first dword of the circular buffer is  *)
(* for the link header.                                                    *)
ChunkNoHeader == IF left > depth THEN depth ELSE left      \* mutant
ChunkSize ==
  LET MaxBuffer == depth - 1
  IN  IF left > MaxBuffer THEN MaxBuffer ELSE left

(* One turn of the send loop once the device is ready: a link header and   *)
(* as much of the message as the circular buffer holds, then the doorbell. *)
(* After the last fragment HeciSendwACK goes on to receive.                *)
SendFragment ==
  LET Size      == ChunkSize
      WriteSize == RequestWords - left
      last      == left - Size = 0
      length    == IF last THEN 4 * RequestWords - 4 * WriteSize ELSE 4 * Size
      payload   == [k \in 1 .. Size |-> buf[WriteSize + k - 1]]
  IN /\ pc = "WaitReady" /\ ~polled /\ is_dev_ready
     /\ hostCB' = hostCB \o <<LinkHeader(length, last)>> \o payload
     /\ left' = left - Size
     /\ h_is' = FALSE /\ h_ig' = TRUE
     /\ EnterWait(IF last THEN "WaitHead" ELSE "WaitIS")
     /\ UNCHANGED <<buf, callVars, rxVars, status, secCB, devVars,
                    faults, failed, expired, overrun>>

(* After a fragment that is not the last, wait_event's result is tested    *)
(* for being non-zero, which it is for an interrupt as for a timeout.      *)
SendGivesUp ==
  /\ pc = "WaitIS" /\ ~polled /\ is_interrupt_raised
  /\ Ack(1)
  /\ UNCHANGED <<buf, callVars, waitVars, rxVars, left, linkVars, devVars,
                 faults, expired, overrun>>

-----------------------------------------------------------------------------
(* Mutant: message_complete is not looked at.                              *)
EndFragmentNever(h) ==
  /\ h_is' = FALSE /\ h_ig' = TRUE
  /\ EnterWait("WaitHead") /\ UNCHANGED <<status, failed>>

(* The end of a fragment: acknowledge, ring the doorbell, and go on with   *)
(* the next fragment unless this was the last.                             *)
EndFragment(h) ==
  /\ h_is' = FALSE /\ h_ig' = TRUE
  /\ IF HeadComplete(h)
     THEN Ack(0) /\ polled' = FALSE /\ UNCHANGED hpet
     ELSE EnterWait("WaitHead") /\ UNCHANGED <<status, failed>>

ReceiveHead ==
  /\ pc = "WaitHead" /\ ~polled /\ is_dev_data_ready
  /\ head' = Head(secCB) /\ secCB' = Tail(secCB)
  /\ index' = 0
  /\ IF HeadLength(Head(secCB)) = 0
     THEN EndFragment(Head(secCB))
     ELSE EnterWait("WaitData") /\ UNCHANGED <<h_is, h_ig, status, failed>>
  /\ UNCHANGED <<buf, callVars, left, hostCB, devVars, faults, expired, overrun>>

(* One dword: Message[Index + ReadSize] with ReadSize = 0 throughout, when *)
(* BufSize >= Index * 4.                                                   *)
ReceiveData ==
  /\ pc = "WaitData" /\ ~polled /\ is_dev_data_ready
  /\ secCB' = Tail(secCB)
  /\ buf' = IF index \in DOMAIN buf THEN [buf EXCEPT ![index] = Head(secCB)] ELSE buf
  /\ overrun' = (overrun \/ (BufBytes >= 4 * index /\ index \notin DOMAIN buf))
  /\ index' = index + 1
  /\ IF index + 1 < Dwords(HeadLength(head))
     THEN EnterWait("WaitData") /\ UNCHANGED <<h_is, h_ig, status, failed>>
     ELSE EndFragment(head)
  /\ UNCHANGED <<callVars, head, left, hostCB, devVars, faults, expired>>

-----------------------------------------------------------------------------
Return(value) == pc' = "Idle" /\ ret' = value

(* The test both callers apply to an exchange.                             *)
Rejected == status < 0 \/ Result(buf) # 0

(* The second test of get_attkb, on the ReadSize of a response.            *)
Oversized(n) == n > remaining \/ n > req_size

(* The memcpy of n bytes to attkb + offset.                                *)
StoredAtStart(n) ==             \* mutant: copied to attkb
  [i \in DOMAIN attkb |-> IF i < n THEN FileData(buf, i) ELSE attkb[i]]
Stored(n) ==
  [i \in DOMAIN attkb |->
     IF offset <= i /\ i < offset + n THEN FileData(buf, i - offset) ELSE attkb[i]]

(* Mutants: a request that repeats the last offset; one for a whole chunk. *)
AskOldOffset(off, rem) ==
  /\ req_size' = Min2(rem, MaxTransfer)
  /\ buf' = Request(offset, Min2(rem, MaxTransfer))
  /\ pc' = "SendwACK"
  /\ UNCHANGED ret
AskWholeChunk(off, rem) ==
  /\ req_size' = MaxTransfer
  /\ buf' = Request(off, MaxTransfer)
  /\ pc' = "SendwACK"
  /\ UNCHANGED ret

(* The next turn of get_attkb's loop: a request for the next chunk.        *)
Ask(off, rem) ==
  /\ req_size' = Min2(rem, MaxTransfer)
  /\ buf' = Request(off, Min2(rem, MaxTransfer))
  /\ pc' = "SendwACK"
  /\ UNCHANGED ret

ParseSize ==
  /\ pc = "Parse" /\ phase = "size"
  /\ IF Rejected \/ TotalFileSize(buf) = 0
     THEN Return(0) /\ UNCHANGED <<buf, phase, size, offset, remaining, req_size>>
     ELSE /\ phase' = "read"
          /\ size' = TotalFileSize(buf) /\ remaining' = TotalFileSize(buf)
          /\ offset' = 0
          /\ Ask(0, TotalFileSize(buf))
  /\ UNCHANGED <<attkb, calls, waitVars, rxVars, status, left, linkVars, devVars,
                 faults, failed, expired, overrun>>

ParseRead ==
  LET n == ReadSize(buf)
  IN /\ pc = "Parse" /\ phase = "read"
     /\ IF Rejected \/ Oversized(n)
        THEN /\ Return(0)
             /\ UNCHANGED <<buf, attkb, offset, remaining, req_size, overrun>>
        ELSE /\ attkb' = Stored(n)
             /\ offset' = offset + n
             /\ remaining' = remaining - n
             /\ overrun' = (overrun \/ offset + n > MaxAttkb)
             /\ IF remaining = n
                THEN Return(size) /\ UNCHANGED <<buf, req_size>>
                ELSE Ask(offset + n, remaining - n)
     /\ UNCHANGED <<phase, size, calls, waitVars, rxVars, status, left, linkVars,
                    devVars, faults, failed, expired>>

-----------------------------------------------------------------------------
(* The CSE.  It becomes ready, takes a message from the host's circular    *)
(* buffer when the doorbell rang, and writes its answer dword by dword.    *)
DevReady ==
  /\ ~sec_rdy /\ sec_rdy' = TRUE
  /\ UNCHANGED <<hostVars, linkVars, depth, devOut>>

MsgWords == 1 + Dwords(HeadLength(hostCB[1]))

(* The doorbell rang and a whole link message is there.                    *)
MessageIn == sec_rdy /\ h_ig /\ hostCB # <<>> /\ Len(hostCB) >= MsgWords

WholeRequest == HeadComplete(hostCB[1]) /\ MsgWords = 1 + RequestWords

(* The CSE leaves its interrupt when its input is empty.                   *)
DropMessage ==
  /\ hostCB' = SubSeq(hostCB, MsgWords + 1, Len(hostCB))
  /\ h_ig' = (Len(hostCB) > MsgWords)

(* A data dword of the answer: up to four bytes of the file, from off on.  *)
DataWord(off, k, n) ==
  LET byte(j) == IF 4 * k + j < n THEN Keybox[off + 4 * k + j] ELSE 0
  IN  [lo |-> byte(0) + 256 * byte(1), hi |-> byte(2) + 256 * byte(3)]

(* The response with n bytes of the file from off on.                      *)
Response(result, off, n) ==
  <<[lo |-> 10 + 256 * 26 + 32768, hi |-> 256 * result],
    [lo |-> FileSize, hi |-> off],
    [lo |-> n, hi |-> 0]>>
  \o [k \in 1 .. Dwords(n) |-> DataWord(off, k - 1, n)]

(* The link messages that carry a response, in one or in two fragments.    *)
Packets(words, bytes) ==
  IF Len(words) <= FragWords
  THEN <<LinkHeader(bytes, TRUE)>> \o words
  ELSE <<LinkHeader(4 * FragWords, FALSE)>> \o SubSeq(words, 1, FragWords)
       \o <<LinkHeader(bytes - 4 * FragWords, TRUE)>>
       \o SubSeq(words, FragWords + 1, Len(words))

(* What the CSE may read for a request: nothing when only the size is      *)
(* asked for, otherwise at most what was asked for, what there is and what *)
(* one answer carries.                                                     *)
ReadSizes(off, sz) ==
  IF sz = 0 THEN {0}
  ELSE MinRead .. Min2(Min2(sz, MaxTransfer), FileSize - off)

Answer(result, off, n) == Packets(Response(result, off, n), 4 * ResponseWords + n)

DevAnswer ==
  LET off == hostCB[3].lo
      sz  == hostCB[3].hi
  IN /\ MessageIn /\ WholeRequest
     /\ \/ \E n \in ReadSizes(off, sz) : devOut' = devOut \o Answer(0, off, n)
        \/ devOut' = devOut \o Answer(1, off, 0)
     /\ DropMessage
     /\ UNCHANGED <<hostVars, secCB, h_is, sec_rdy, depth>>

(* A fragment that is not a whole request is taken and acknowledged.       *)
DevTakeFragment ==
  /\ MessageIn /\ ~WholeRequest
  /\ DropMessage
  /\ h_is' = TRUE
  /\ UNCHANGED <<hostVars, secCB, devVars>>

DevPush ==
  /\ devOut # <<>> /\ Len(secCB) < SecDepth
  /\ secCB' = Append(secCB, Head(devOut)) /\ devOut' = Tail(devOut)
  /\ h_is' = TRUE
  /\ UNCHANGED <<hostVars, hostCB, h_ig, sec_rdy, depth>>

-----------------------------------------------------------------------------
Host ==
  \/ GetAttkb \/ SendwACK \/ MapFails \/ SendFragment \/ SendGivesUp
  \/ ReceiveHead \/ ReceiveData \/ ParseSize \/ ParseRead
  \/ Poll \/ NotYet \/ TimeOut

Device == DevReady \/ DevAnswer \/ DevTakeFragment \/ DevPush

Next == Host \/ Device

Spec == Init /\ [][Next]_vars

(* The thread that runs get_attkb is scheduled, and a clock that runs      *)
(* reaches the timeout of a wait that is polled again and again.           *)
HostStep ==
  \/ SendwACK \/ SendFragment \/ SendGivesUp \/ ReceiveHead \/ ReceiveData
  \/ ParseSize \/ ParseRead \/ Poll \/ NotYet

HostFair == WF_vars(HostStep) /\ SF_vars(TimeOut)

(* Nothing is assumed of the CSE: it may fall silent at any point.         *)
HostSpec == Spec /\ HostFair

(* The CSE does its part too.                                              *)
LiveSpec == Spec /\ HostFair /\ WF_vars(Device)

-----------------------------------------------------------------------------
Bytes == 0 .. 255

TypeOK ==
  /\ pc \in {"Idle", "SendwACK", "Parse"} \cup Waits
  /\ polled \in BOOLEAN /\ phase \in {"size", "read"}
  /\ buf \in [0 .. BufWords-1 -> Word]
  /\ attkb \in [0 .. MaxAttkb-1 -> Bytes \cup {Unwritten}]
  /\ size \in U16 /\ offset \in U16 /\ remaining \in U16 /\ req_size \in U16
  /\ status \in {0, 1} /\ left \in 0 .. RequestWords
  /\ head \in Word /\ index \in Nat
  /\ ret \in {-1} \cup U16
  /\ hpet \in [enabled : BOOLEAN, cmp_hi : {0, 1}]
  /\ hostCB \in Seq(Word) /\ secCB \in Seq(Word) /\ devOut \in Seq(Word)
  /\ h_is \in BOOLEAN /\ h_ig \in BOOLEAN /\ sec_rdy \in BOOLEAN
  /\ depth \in HostDepths
  /\ calls \in 0 .. MaxCalls /\ faults \in 0 .. MaxFaults
  /\ failed \in BOOLEAN /\ expired \in BOOLEAN /\ overrun \in BOOLEAN

(* get_attkb's loop keeps its books whatever the CSE answers: what was     *)
(* stored and what remains add up to the size the CSE announced, a request *)
(* asks for no more than remains or fits a message, and the loop is only   *)
(* in an exchange while something remains; nothing is stored before the    *)
(* size is known.                                                          *)
Accounting ==
  /\ offset + remaining = size
  /\ pc # "Idle" /\ phase = "read" =>
       remaining > 0 /\ req_size = Min2(remaining, MaxTransfer)
  /\ pc # "Idle" /\ phase = "size" => offset = 0

(* A keybox size is only returned after every byte below it was stored,    *)
(* and nothing is ever stored at or after the current offset: no hole is   *)
(* left by a short answer, a failed exchange or a repeated one.            *)
StoredPrefix ==
  /\ \A i \in DOMAIN attkb : attkb[i] # Unwritten <=> i < offset
  /\ pc = "Idle" /\ ret > 0 => offset = ret

(* Over a link that answers in time, what get_attkb hands out is the CSE's *)
(* keybox, byte for byte, however the CSE splits it over answers.          *)
KeyboxIntact ==
  pc = "Idle" /\ ret > 0 =>
    ret = FileSize /\ \A i \in 0 .. ret-1 : attkb[i] = Keybox[i]

(* heci_receive_impl compares BufSize with Index * 4, which lets one dword *)
(* past the end through, and get_attkb never compares attkb_size with      *)
(* MAX_ATTKB_SIZE; no store leaves its buffer all the same.                *)
StoresInBounds == ~overrun

(* "Wait for ACK message": the response get_attkb accepts is the one to    *)
(* the request it just sent.  Nothing checks ReadOffset, so this rests on  *)
(* the link carrying no response of an earlier request.                    *)
AckIsForRequest ==
  pc = "Parse" /\ phase = "read" /\ status = 0 /\ ~Rejected => buf[1].hi = offset

(* heci_send_impl never looks at the read and write pointers of the host's *)
(* circular buffer: header and payload of all it sends must fit.  They do  *)
(* as long as no wait times out: the message the CSE did not take is still *)
(* there when the next one is written.                                     *)
FitsHostBuffer == Len(hostCB) <= depth

(* A call of get_attkb comes back, even when the CSE falls silent in the   *)
(* middle of an exchange.                                                  *)
CallReturns == (pc # "Idle") ~> (pc = "Idle")

(* "if get failure, return zero".                                          *)
FailureReturnsZero == pc = "Idle" /\ failed => ret = 0

(* "Timeout waiting interrupt": an exchange over a link that maps fails    *)
(* only when a wait ran out of time.                                       *)
OnlyTimeoutsFail == failed => expired

(* The service the caller sees, of bytes and of sizes of 16 bits.          *)
Promise == INSTANCE KeyboxService WITH
  busy <- pc # "Idle",
  attkb <- IF pc = "Idle" THEN attkb ELSE [i \in 0 .. MaxAttkb-1 |-> Unwritten],
  Sizes <- U16

(* While exchanges do not fail, get_attkb returns nothing or the keybox.   *)
ImplementsService == Promise!Service

(* Whatever fails, arrives late or comes in pieces: between its call and   *)
(* its return get_attkb changes nothing the caller sees, and it returns 0, *)
(* or a size with that many bytes stored and no more.                      *)
ImplementsUnchecked == Promise!Unchecked
=============================================================================
