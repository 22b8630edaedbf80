----------------------------- MODULE HeciProofs -----------------------------
(***************************************************************************)
(* TypeOK, Accounting and StoredPrefix of Heci, for every file size,       *)
(* buffer depth, fragmentation, number of calls and number of faults.      *)
(* None is inductive alone: ParseRead keeps the types only because the     *)
(* books balance, and leaves no hole only because offset is typed.         *)
(* When no wait times out (Timely) also FitsHostBuffer, StoresInBounds     *)
(* and AckIsForRequest, and over a reliable link (Reliable) KeyboxIntact   *)
(* and that Heci implements KeyboxService: these rest on where every dword *)
(* of the exchange is at each point of it (LinkInv).                       *)
(***************************************************************************)
EXTENDS Heci, TLAPS

IInv == TypeOK /\ Accounting /\ StoredPrefix

(* DataBuffer has a response header and room for at least one data dword.  *)
LEMMA BufWordsFact ==
  /\ BufWords \in Nat /\ BufWords > 3
  /\ \A k \in 0 .. MaxTransfer-1 : ResponseWords + k \div 4 \in 0 .. BufWords-1
BY HeciAssumption DEF BufWords, ResponseWords

(* The value of a link header fits its dword.                              *)
LEMMA LinkHeaderType ==
  ASSUME NEW length \in 0 .. 511, NEW complete \in BOOLEAN
  PROVE  LinkHeader(length, complete) \in Word
BY DEF LinkHeader, Word, U16

(* A request fills DataBuffer with dwords.                                 *)
LEMMA RequestType ==
  ASSUME NEW off \in U16, NEW sz \in U16
  PROVE  Request(off, sz) \in [0 .. BufWords-1 -> Word]
BY BufWordsFact DEF Request, Word, U16, Zero

(* Every byte of the payload area is a byte.                               *)
LEMMA FileDataType ==
  ASSUME NEW b \in [0 .. BufWords-1 -> Word], NEW k \in 0 .. MaxTransfer-1
  PROVE  FileData(b, k) \in Bytes
<1> DEFINE w == b[ResponseWords + k \div 4]
           half == IF (k % 4) < 2 THEN w.lo ELSE w.hi
<1>1. w \in Word
  BY BufWordsFact
<1>2. half \in U16
  BY <1>1 DEF Word, U16
<1>3. half % 256 \in Bytes /\ half \div 256 \in Bytes
  <2> HIDE DEF half
  <2> QED BY <1>2 DEF Bytes, U16
<1> HIDE DEF half
<1>4. (IF k % 2 = 0 THEN half % 256 ELSE half \div 256) \in Bytes
  BY <1>3
<1> QED BY <1>4 DEF FileData, half

(* The keybox is a function of bytes.                                      *)
LEMMA KeyboxFact == FileSize \in Nat /\ Keybox \in [0 .. FileSize-1 -> 0 .. 255]
BY HeciAssumption DEF U16

(* A data dword of an answer is a dword.                                   *)
LEMMA DataWordType ==
  ASSUME NEW off \in Nat, NEW k \in Nat, NEW n \in Nat,
         n > 0 => off + n <= FileSize
  PROVE  DataWord(off, k, n) \in Word
<1> DEFINE byte(j) == IF 4 * k + j < n THEN Keybox[off + 4 * k + j] ELSE 0
<1>1. ASSUME NEW j \in 0 .. 3
      PROVE  byte(j) \in 0 .. 255
  <2>1. CASE 4 * k + j < n
    <3>1. off + 4 * k + j \in 0 .. FileSize-1
      BY <2>1, KeyboxFact
    <3> QED BY <2>1, <3>1, KeyboxFact
  <2>2. CASE ~(4 * k + j < n)
    BY <2>2
  <2> QED BY <2>1, <2>2
<1> DEFINE b0 == byte(0) b1 == byte(1) b2 == byte(2) b3 == byte(3)
<1>2. b0 \in 0 .. 255 /\ b1 \in 0 .. 255 /\ b2 \in 0 .. 255 /\ b3 \in 0 .. 255
  BY <1>1
<1>3. DataWord(off, k, n) = [lo |-> b0 + 256 * b1, hi |-> b2 + 256 * b3]
  BY DEF DataWord
<1> HIDE DEF b0, b1, b2, b3
<1> QED BY <1>2, <1>3 DEF Word, U16

(* A response is a sequence of dwords, of the length its bytes take.       *)
LEMMA ResponseType ==
  ASSUME NEW result \in {0, 1}, NEW off \in U16, NEW n \in Nat,
         n > 0 => off + n <= FileSize, n < 512
  PROVE  /\ Response(result, off, n) \in Seq(Word)
         /\ Len(Response(result, off, n)) = 3 + Dwords(n)
<1> DEFINE w0 == [lo |-> 10 + 256 * 26 + 32768, hi |-> 256 * result]
           w1 == [lo |-> FileSize, hi |-> off]
           w2 == [lo |-> n, hi |-> 0]
           data == [k \in 1 .. Dwords(n) |-> DataWord(off, k - 1, n)]
<1>1. w0 \in Word /\ w1 \in Word /\ w2 \in Word
  BY HeciAssumption DEF Word, U16
<1>3. Dwords(n) \in Nat
  BY DEF Dwords
<1>4. \A k \in 1 .. Dwords(n) : DataWord(off, k - 1, n) \in Word
  BY <1>3, DataWordType DEF U16
<1>5. data \in Seq(Word) /\ Len(data) = Dwords(n)
  BY <1>3, <1>4
<1>6. Response(result, off, n) = <<w0, w1, w2>> \o data
  BY DEF Response
<1> HIDE DEF w0, w1, w2, data
<1>7. <<w0, w1, w2>> \in Seq(Word) /\ Len(<<w0, w1, w2>>) = 3
  BY <1>1
<1> QED BY <1>3, <1>5, <1>6, <1>7

(* The link messages that carry a response are dwords.                     *)
LEMMA PacketsType ==
  ASSUME NEW words \in Seq(Word), NEW bytes \in 0 .. 511,
         4 * (Len(words) - 1) < bytes
  PROVE  Packets(words, bytes) \in Seq(Word)
<1> DEFINE whole == LinkHeader(bytes, TRUE)
           first == LinkHeader(4 * FragWords, FALSE)
           second == LinkHeader(bytes - 4 * FragWords, TRUE)
           start == SubSeq(words, 1, FragWords)
           rest == SubSeq(words, FragWords + 1, Len(words))
<1>1. FragWords \in Nat \ {0} /\ Len(words) \in Nat
  BY HeciAssumption
<1>2. Packets(words, bytes) = IF Len(words) <= FragWords
                              THEN <<whole>> \o words
                              ELSE <<first>> \o start \o <<second>> \o rest
  BY DEF Packets
<1>3. whole \in Word
  BY LinkHeaderType
<1>4. CASE Len(words) <= FragWords
  <2> HIDE DEF whole
  <2>1. <<whole>> \o words \in Seq(Word)
    BY <1>3
  <2> QED BY <1>2, <1>4, <2>1
<1>5. CASE Len(words) > FragWords
  <2>1. 4 * FragWords \in 0 .. 511 /\ bytes - 4 * FragWords \in 0 .. 511
    BY <1>1, <1>5
  <2>2. first \in Word /\ second \in Word
    BY <2>1, LinkHeaderType
  <2>3. start \in Seq(Word)
    BY <1>1, <1>5
  <2>4. rest \in Seq(Word)
    BY <1>1, <1>5
  <2> HIDE DEF whole, first, second, start, rest
  <2>5. <<first>> \o start \in Seq(Word) /\ <<second>> \o rest \in Seq(Word)
    BY <2>2, <2>3, <2>4
  <2>6. <<first>> \o start \o <<second>> \o rest \in Seq(Word)
    BY <2>2, <2>3, <2>4, <2>5
  <2>7. Packets(words, bytes) = <<first>> \o start \o <<second>> \o rest
    BY <1>1, <1>2, <1>5
  <2> QED BY <2>6, <2>7
<1> QED BY <1>1, <1>4, <1>5

LEMMA TimerType ==
  ASSUME NEW h \in [enabled : BOOLEAN, cmp_hi : {0, 1}]
  PROVE  init_timer(h) \in [enabled : BOOLEAN, cmp_hi : {0, 1}]
BY DEF init_timer

LEMMA InitInv == Init => IInv
<1> SUFFICES ASSUME Init PROVE IInv
  OBVIOUS
<1>1. TypeOK
  <2>1. buf \in [0 .. BufWords-1 -> Word]
    BY BufWordsFact DEF Init, Word, U16, Zero
  <2>2. attkb \in [0 .. MaxAttkb-1 -> Bytes \cup {Unwritten}]
    BY HeciAssumption DEF Init
  <2>3. hpet \in [enabled : BOOLEAN, cmp_hi : {0, 1}]
    BY HeciAssumption DEF Init
  <2>4. head \in Word /\ index \in Nat /\ status \in {0, 1} /\ left \in 0 .. RequestWords
    BY DEF Init, Word, U16, Zero, RequestWords
  <2>5. /\ size \in U16 /\ offset \in U16 /\ remaining \in U16 /\ req_size \in U16
        /\ ret \in {-1} \cup U16
    BY DEF Init, U16
  <2>6. /\ hostCB \in Seq(Word) /\ secCB \in Seq(Word) /\ devOut \in Seq(Word)
        /\ calls \in 0 .. MaxCalls /\ faults \in 0 .. MaxFaults
    BY HeciAssumption DEF Init
  <2> QED BY <2>1, <2>2, <2>3, <2>4, <2>5, <2>6 DEF Init, TypeOK
<1>2. Accounting
  BY DEF Init, Accounting
<1>3. StoredPrefix
  BY HeciAssumption DEF Init, StoredPrefix, Unwritten
<1> QED BY <1>1, <1>2, <1>3 DEF IInv

(* Steps that leave the books and the keybox buffer alone and stay inside  *)
(* the call: only their types matter.                                      *)
LEMMA QuietStep ==
  ASSUME IInv, UNCHANGED callVars, pc # "Idle", pc' # "Idle"
  PROVE  Accounting' /\ StoredPrefix'
BY DEF IInv, Accounting, StoredPrefix, callVars, Min2

LEMMA PollInv == IInv /\ Poll => IInv'
<1> SUFFICES ASSUME IInv, Poll PROVE IInv'
  OBVIOUS
<1>1. TypeOK'
  <2>1. polled' \in BOOLEAN
    BY DEF Poll
  <2>2. /\ UNCHANGED <<pc, buf, callVars, hpet, rxVars, status, left, linkVars, devVars>>
        /\ UNCHANGED <<faults, failed, expired, overrun>>
    BY DEF Poll
  <2> QED BY <2>1, <2>2 DEF IInv, TypeOK, callVars, rxVars, linkVars, devVars
<1>2. pc # "Idle" /\ pc' # "Idle" /\ UNCHANGED callVars
  BY DEF Poll, Waits, callVars
<1> QED BY <1>1, <1>2, QuietStep DEF IInv

LEMMA NotYetInv == IInv /\ NotYet => IInv'
<1> SUFFICES ASSUME IInv, NotYet PROVE IInv'
  OBVIOUS
<1>1. TypeOK'
  <2>1. polled' \in BOOLEAN
    BY DEF NotYet
  <2>2. /\ UNCHANGED <<pc, buf, callVars, hpet, rxVars, status, left, linkVars, devVars>>
        /\ UNCHANGED <<faults, failed, expired, overrun>>
    BY DEF NotYet
  <2> QED BY <2>1, <2>2 DEF IInv, TypeOK, callVars, rxVars, linkVars, devVars
<1>2. pc # "Idle" /\ pc' # "Idle" /\ UNCHANGED callVars
  BY DEF NotYet, Waits, callVars
<1> QED BY <1>1, <1>2, QuietStep DEF IInv

LEMMA TimeOutInv == IInv /\ TimeOut => IInv'
<1> SUFFICES ASSUME IInv, TimeOut PROVE IInv'
  OBVIOUS
<1>1. TypeOK'
  <2>1. /\ Fault("clock") /\ Ack(1) /\ polled' = FALSE /\ expired' = TRUE
        /\ UNCHANGED <<buf, callVars, hpet, rxVars, left, linkVars, devVars, overrun>>
    BY DEF TimeOut
  <2>2. status' \in {0, 1} /\ pc' = "Parse" /\ failed' \in BOOLEAN
    BY <2>1 DEF Ack
  <2>3. faults' \in 0 .. MaxFaults
    BY <2>1, HeciAssumption DEF IInv, TypeOK, Fault
  <2> QED BY <2>1, <2>2, <2>3 DEF IInv, TypeOK, callVars, rxVars, linkVars, devVars
<1>2. pc # "Idle" /\ pc' # "Idle" /\ UNCHANGED callVars
  BY DEF TimeOut, Ack, Waits, callVars
<1> QED BY <1>1, <1>2, QuietStep DEF IInv

LEMMA MapFailsInv == IInv /\ MapFails => IInv'
<1> SUFFICES ASSUME IInv, MapFails PROVE IInv'
  OBVIOUS
<1>1. TypeOK'
  BY HeciAssumption
     DEF IInv, TypeOK, MapFails, Ack, Fault, callVars, waitVars, rxVars, linkVars, devVars
<1>2. pc # "Idle" /\ pc' # "Idle" /\ UNCHANGED callVars
  BY DEF MapFails, Ack, callVars
<1> QED BY <1>1, <1>2, QuietStep DEF IInv

LEMMA SendwACKInv == IInv /\ SendwACK => IInv'
<1> SUFFICES ASSUME IInv, SendwACK PROVE IInv'
  OBVIOUS
<1>1. TypeOK'
  <2>1. hpet' \in [enabled : BOOLEAN, cmp_hi : {0, 1}]
    BY TimerType DEF IInv, TypeOK, SendwACK, EnterWait
  <2>2. left' \in 0 .. RequestWords
    BY DEF SendwACK, Dwords, RequestWords
  <2> QED BY <2>1, <2>2
          DEF IInv, TypeOK, SendwACK, EnterWait, Waits, callVars, rxVars, devVars
<1>2. pc # "Idle" /\ pc' # "Idle" /\ UNCHANGED callVars
  BY DEF SendwACK, EnterWait, callVars
<1> QED BY <1>1, <1>2, QuietStep DEF IInv

LEMMA SendGivesUpInv == IInv /\ SendGivesUp => IInv'
<1> SUFFICES ASSUME IInv, SendGivesUp PROVE IInv'
  OBVIOUS
<1>1. TypeOK'
  BY DEF IInv, TypeOK, SendGivesUp, Ack, callVars, waitVars, rxVars, linkVars, devVars
<1>2. pc # "Idle" /\ pc' # "Idle" /\ UNCHANGED callVars
  BY DEF SendGivesUp, Ack, callVars
<1> QED BY <1>1, <1>2, QuietStep DEF IInv

LEMMA GetAttkbInv == IInv /\ GetAttkb => IInv'
<1> SUFFICES ASSUME IInv, GetAttkb PROVE IInv'
  OBVIOUS
<1>1. TypeOK'
  <2>1. buf' \in [0 .. BufWords-1 -> Word]
    <3>1. 0 \in U16
      BY DEF U16
    <3> QED BY <3>1, RequestType DEF GetAttkb
  <2>2. attkb' \in [0 .. MaxAttkb-1 -> Bytes \cup {Unwritten}]
    BY HeciAssumption DEF GetAttkb
  <2>3. calls' \in 0 .. MaxCalls
    BY HeciAssumption DEF GetAttkb, IInv, TypeOK
  <2>4. /\ size' \in U16 /\ offset' \in U16 /\ remaining' \in U16 /\ req_size' \in U16
    BY DEF GetAttkb, U16
  <2>5. /\ pc' = "SendwACK" /\ phase' = "size" /\ failed' = FALSE /\ expired' = FALSE
        /\ UNCHANGED <<ret, waitVars, rxVars, status, left, linkVars, devVars>>
        /\ UNCHANGED <<faults, overrun>>
    BY DEF GetAttkb
  <2> QED BY <2>1, <2>2, <2>3, <2>4, <2>5
          DEF IInv, TypeOK, waitVars, rxVars, linkVars, devVars
<1>2. Accounting'
  BY DEF GetAttkb, Accounting
<1>3. StoredPrefix'
  BY HeciAssumption DEF GetAttkb, StoredPrefix, Unwritten
<1> QED BY <1>1, <1>2, <1>3 DEF IInv

(* The bytes a fragment announces fit the length field of its header.      *)
LEMMA FragmentLength ==
  ASSUME NEW l \in 0 .. 3, NEW c \in 0 .. l
  PROVE  4 * 3 - 4 * (3 - l) \in 0 .. 511 /\ 4 * c \in 0 .. 511
OBVIOUS

LEMMA Either ==
  ASSUME NEW S, NEW a \in S, NEW b \in S, NEW p
  PROVE  (IF p THEN a ELSE b) \in S
OBVIOUS

LEMMA SendFragmentInv == IInv /\ SendFragment => IInv'
<1> SUFFICES ASSUME IInv, SendFragment PROVE IInv'
  OBVIOUS
<1> DEFINE last == left - ChunkSize = 0
           WriteSize == RequestWords - left
           length == IF last THEN 4 * RequestWords - 4 * WriteSize ELSE 4 * ChunkSize
           payload == [k \in 1 .. ChunkSize |-> buf[WriteSize + k - 1]]
           hdr == LinkHeader(length, last)
<1>1. left \in 0 .. 3 /\ ChunkSize \in 0 .. left
  BY HeciAssumption DEF IInv, TypeOK, RequestWords, ChunkSize
<1>2. hdr \in Word
  <2>1. /\ 4 * RequestWords - 4 * WriteSize \in 0 .. 511
        /\ 4 * ChunkSize \in 0 .. 511
    BY <1>1, FragmentLength DEF RequestWords
  <2>2. length \in 0 .. 511
    <3> HIDE DEF last, WriteSize
    <3> QED BY <2>1, Either
  <2>3. last \in BOOLEAN
    OBVIOUS
  <2> HIDE DEF length, last
  <2> QED BY <2>2, <2>3, LinkHeaderType
<1>3. payload \in Seq(Word)
  <2>1. \A k \in 1 .. ChunkSize : WriteSize + k - 1 \in 0 .. BufWords-1
    BY <1>1, BufWordsFact DEF RequestWords
  <2>2. \A k \in 1 .. ChunkSize : buf[WriteSize + k - 1] \in Word
    BY <2>1 DEF IInv, TypeOK
  <2> QED BY <1>1, <2>2
<1>4. hostCB' = hostCB \o <<hdr>> \o payload
  BY DEF SendFragment
<1>5. hostCB' \in Seq(Word)
  <2> HIDE DEF hdr, payload
  <2>1. hostCB \o <<hdr>> \in Seq(Word)
    BY <1>2 DEF IInv, TypeOK
  <2> QED BY <1>3, <1>4, <2>1
<1>6. hpet' \in [enabled : BOOLEAN, cmp_hi : {0, 1}]
  BY TimerType DEF IInv, TypeOK, SendFragment, EnterWait
<1>7. left' \in 0 .. RequestWords
  BY <1>1 DEF SendFragment, RequestWords
<1>8. /\ pc' \in {"WaitHead", "WaitIS"} /\ polled' = FALSE /\ pc # "Idle"
      /\ h_is' = FALSE /\ h_ig' = TRUE
      /\ UNCHANGED <<buf, callVars, rxVars, status, secCB, devVars,
                     faults, failed, expired, overrun>>
  BY DEF SendFragment, EnterWait
<1>9. TypeOK'
  BY <1>5, <1>6, <1>7, <1>8 DEF IInv, TypeOK, Waits, callVars, rxVars, devVars
<1> QED BY <1>8, <1>9, QuietStep DEF IInv

(* What EndFragment does to the variables it may change.                   *)
LEMMA EndFragmentFact ==
  ASSUME TypeOK, NEW h, EndFragment(h)
  PROVE  /\ pc' \in {"Parse", "WaitHead"}
         /\ polled' \in BOOLEAN /\ hpet' \in [enabled : BOOLEAN, cmp_hi : {0, 1}]
         /\ h_is' \in BOOLEAN /\ h_ig' \in BOOLEAN
         /\ status' \in {0, 1} /\ failed' \in BOOLEAN
<1>1. h_is' = FALSE /\ h_ig' = TRUE
  BY DEF EndFragment
<1>2. CASE HeadComplete(h)
  <2>1. Ack(0) /\ polled' = FALSE /\ UNCHANGED hpet
    BY <1>2 DEF EndFragment
  <2> QED BY <1>1, <2>1 DEF Ack, TypeOK
<1>3. CASE ~HeadComplete(h)
  <2>1. EnterWait("WaitHead") /\ UNCHANGED <<status, failed>>
    BY <1>3 DEF EndFragment
  <2>2. hpet' \in [enabled : BOOLEAN, cmp_hi : {0, 1}]
    BY <2>1, TimerType DEF EnterWait, TypeOK
  <2> QED BY <1>1, <2>1, <2>2 DEF EnterWait, TypeOK
<1> QED BY <1>2, <1>3

(* The wait for the next dword, likewise.                                  *)
LEMMA NextWordFact ==
  ASSUME TypeOK, EnterWait("WaitData"), UNCHANGED <<h_is, h_ig, status, failed>>
  PROVE  /\ pc' = "WaitData"
         /\ polled' \in BOOLEAN /\ hpet' \in [enabled : BOOLEAN, cmp_hi : {0, 1}]
         /\ h_is' \in BOOLEAN /\ h_ig' \in BOOLEAN
         /\ status' \in {0, 1} /\ failed' \in BOOLEAN
BY TimerType DEF EnterWait, TypeOK

LEMMA ReceiveHeadInv == IInv /\ ReceiveHead => IInv'
<1> SUFFICES ASSUME IInv, ReceiveHead PROVE IInv'
  OBVIOUS
<1>1. /\ pc' \in {"Parse", "WaitHead", "WaitData"}
      /\ polled' \in BOOLEAN /\ hpet' \in [enabled : BOOLEAN, cmp_hi : {0, 1}]
      /\ h_is' \in BOOLEAN /\ h_ig' \in BOOLEAN
      /\ status' \in {0, 1} /\ failed' \in BOOLEAN
  <2>1. CASE HeadLength(Head(secCB)) = 0
    <3>1. EndFragment(Head(secCB))
      BY <2>1 DEF ReceiveHead
    <3> QED BY <3>1, EndFragmentFact DEF IInv
  <2>2. CASE HeadLength(Head(secCB)) # 0
    <3>1. EnterWait("WaitData") /\ UNCHANGED <<h_is, h_ig, status, failed>>
      BY <2>2 DEF ReceiveHead
    <3> QED BY <3>1, NextWordFact DEF IInv
  <2> QED BY <2>1, <2>2
<1>2. /\ pc = "WaitHead" /\ secCB # <<>>
      /\ head' = Head(secCB) /\ secCB' = Tail(secCB) /\ index' = 0
      /\ UNCHANGED <<buf, callVars, left, hostCB, devVars, faults, expired, overrun>>
  BY DEF ReceiveHead, is_dev_data_ready
<1>3. head' \in Word /\ secCB' \in Seq(Word)
  BY <1>2 DEF IInv, TypeOK
<1>4. TypeOK'
  BY <1>1, <1>2, <1>3 DEF IInv, TypeOK, Waits, callVars, devVars
<1> QED BY <1>1, <1>2, <1>4, QuietStep DEF IInv

LEMMA ReceiveDataInv == IInv /\ ReceiveData => IInv'
<1> SUFFICES ASSUME IInv, ReceiveData PROVE IInv'
  OBVIOUS
<1>1. /\ pc' \in {"Parse", "WaitHead", "WaitData"}
      /\ polled' \in BOOLEAN /\ hpet' \in [enabled : BOOLEAN, cmp_hi : {0, 1}]
      /\ h_is' \in BOOLEAN /\ h_ig' \in BOOLEAN
      /\ status' \in {0, 1} /\ failed' \in BOOLEAN
  <2>1. CASE index + 1 < Dwords(HeadLength(head))
    <3>1. EnterWait("WaitData") /\ UNCHANGED <<h_is, h_ig, status, failed>>
      BY <2>1 DEF ReceiveData
    <3> QED BY <3>1, NextWordFact DEF IInv
  <2>2. CASE ~(index + 1 < Dwords(HeadLength(head)))
    <3>1. EndFragment(head)
      BY <2>2 DEF ReceiveData
    <3> QED BY <3>1, EndFragmentFact DEF IInv
  <2> QED BY <2>1, <2>2
<1>2. /\ pc = "WaitData" /\ secCB # <<>>
      /\ secCB' = Tail(secCB) /\ index' = index + 1
      /\ UNCHANGED <<callVars, head, left, hostCB, devVars, faults, expired>>
  BY DEF ReceiveData, is_dev_data_ready
<1>3. secCB' \in Seq(Word) /\ index' \in Nat
  BY <1>2 DEF IInv, TypeOK
<1>4. buf' \in [0 .. BufWords-1 -> Word]
  <2>1. Head(secCB) \in Word
    BY <1>2 DEF IInv, TypeOK
  <2>2. buf' = IF index \in DOMAIN buf THEN [buf EXCEPT ![index] = Head(secCB)] ELSE buf
    BY DEF ReceiveData
  <2> QED BY <2>1, <2>2 DEF IInv, TypeOK
<1>5. overrun' \in BOOLEAN
  BY DEF ReceiveData
<1>6. TypeOK'
  BY <1>1, <1>2, <1>3, <1>4, <1>5 DEF IInv, TypeOK, Waits, callVars, devVars
<1> QED BY <1>1, <1>2, <1>6, QuietStep DEF IInv

(* The fields get_attkb reads from a response are of their width.          *)
LEMMA FieldTypes ==
  ASSUME TypeOK
  PROVE  TotalFileSize(buf) \in U16 /\ ReadSize(buf) \in U16
<1>1. buf[1] \in Word /\ buf[2] \in Word
  BY BufWordsFact DEF TypeOK
<1> QED BY <1>1 DEF TotalFileSize, ReadSize, Word

(* A chunk asked for is a request of the right size.                       *)
LEMMA AskFact ==
  ASSUME NEW off \in U16, NEW rem \in U16, Ask(off, rem)
  PROVE  /\ req_size' \in U16 /\ req_size' = Min2(rem, MaxTransfer)
         /\ buf' \in [0 .. BufWords-1 -> Word]
         /\ pc' = "SendwACK" /\ UNCHANGED ret
<1>1. Min2(rem, MaxTransfer) \in U16
  BY HeciAssumption DEF Min2, U16
<1> QED BY <1>1, RequestType DEF Ask

LEMMA ParseSizeInv == IInv /\ ParseSize => IInv'
<1> SUFFICES ASSUME IInv, ParseSize PROVE IInv'
  OBVIOUS
<1>1. /\ pc = "Parse" /\ phase = "size"
      /\ UNCHANGED <<attkb, calls, waitVars, rxVars, status, left, linkVars, devVars,
                     faults, failed, expired, overrun>>
  BY DEF ParseSize
<1>2. CASE Rejected \/ TotalFileSize(buf) = 0
  <2>1. /\ pc' = "Idle" /\ ret' = 0
        /\ UNCHANGED <<buf, phase, size, offset, remaining, req_size>>
    BY <1>2 DEF ParseSize, Return
  <2>2. 0 \in U16
    BY DEF U16
  <2>3. TypeOK'
    BY <1>1, <2>1, <2>2 DEF IInv, TypeOK, waitVars, rxVars, linkVars, devVars
  <2>4. Accounting' /\ StoredPrefix'
    BY <1>1, <2>1 DEF IInv, Accounting, StoredPrefix
  <2> QED BY <2>3, <2>4 DEF IInv
<1>3. CASE ~(Rejected \/ TotalFileSize(buf) = 0)
  <2> DEFINE total == TotalFileSize(buf)
  <2>1. /\ phase' = "read" /\ size' = total /\ remaining' = total /\ offset' = 0
        /\ Ask(0, total) /\ total # 0
    BY <1>3 DEF ParseSize
  <2>2. total \in U16 /\ 0 \in U16
    BY FieldTypes DEF IInv, U16
  <2> HIDE DEF total
  <2>3. /\ req_size' \in U16 /\ req_size' = Min2(total, MaxTransfer)
        /\ buf' \in [0 .. BufWords-1 -> Word]
        /\ pc' = "SendwACK" /\ UNCHANGED ret
    BY <2>1, <2>2, AskFact
  <2>4. TypeOK'
    BY <1>1, <2>1, <2>2, <2>3 DEF IInv, TypeOK, waitVars, rxVars, linkVars, devVars
  <2>5. Accounting'
    BY <2>1, <2>2, <2>3 DEF Accounting, Min2, U16
  <2>6. StoredPrefix'
    BY <1>1, <2>1, <2>3 DEF IInv, Accounting, StoredPrefix
  <2> QED BY <2>4, <2>5, <2>6 DEF IInv
<1> QED BY <1>2, <1>3

(* The memcpy extends the stored prefix by n bytes.                        *)
LEMMA StoredFact ==
  ASSUME IInv, NEW n \in Nat, n <= req_size, n <= remaining, phase = "read", pc # "Idle"
  PROVE  /\ Stored(n) \in [0 .. MaxAttkb-1 -> Bytes \cup {Unwritten}]
         /\ \A i \in 0 .. MaxAttkb-1 : Stored(n)[i] # Unwritten <=> i < offset + n
<1>1. /\ attkb \in [0 .. MaxAttkb-1 -> Bytes \cup {Unwritten}]
      /\ offset \in Nat /\ MaxAttkb \in Nat
      /\ buf \in [0 .. BufWords-1 -> Word]
  BY HeciAssumption DEF IInv, TypeOK, U16
<1>2. n <= MaxTransfer /\ MaxTransfer \in Nat
  BY HeciAssumption DEF IInv, TypeOK, Accounting, Min2, U16
<1>3. \A i \in 0 .. MaxAttkb-1 :
        offset <= i /\ i < offset + n => FileData(buf, i - offset) \in Bytes
  <2> TAKE i \in 0 .. MaxAttkb-1
  <2> HAVE offset <= i /\ i < offset + n
  <2>1. i - offset \in 0 .. MaxTransfer-1
    BY <1>1, <1>2
  <2> QED BY <1>1, <2>1, FileDataType
<1>4. \A i \in 0 .. MaxAttkb-1 : attkb[i] # Unwritten <=> i < offset
  BY <1>1 DEF IInv, StoredPrefix
<1>5. \A i \in 0 .. MaxAttkb-1 :
        Stored(n)[i] = IF offset <= i /\ i < offset + n
                       THEN FileData(buf, i - offset) ELSE attkb[i]
  BY <1>1 DEF Stored
<1>6. DOMAIN Stored(n) = 0 .. MaxAttkb-1
      /\ Stored(n) = [i \in 0 .. MaxAttkb-1 |-> Stored(n)[i]]
  BY <1>1 DEF Stored
<1>7. Unwritten \notin Bytes
  BY DEF Unwritten, Bytes
<1>8. \A i \in 0 .. MaxAttkb-1 : Stored(n)[i] \in Bytes \cup {Unwritten}
  BY <1>1, <1>3, <1>5
<1>9. \A i \in 0 .. MaxAttkb-1 : Stored(n)[i] # Unwritten <=> i < offset + n
  <2> TAKE i \in 0 .. MaxAttkb-1
  <2>1. CASE offset <= i /\ i < offset + n
    BY <1>3, <1>5, <1>7, <2>1
  <2>2. CASE ~(offset <= i /\ i < offset + n)
    <3>1. Stored(n)[i] = attkb[i]
      BY <1>5, <2>2
    <3>2. i < offset <=> i < offset + n
      BY <1>1, <2>2
    <3> QED BY <1>4, <3>1, <3>2
  <2> QED BY <2>1, <2>2
<1>10. Stored(n) \in [0 .. MaxAttkb-1 -> Bytes \cup {Unwritten}]
  BY <1>6, <1>8
<1> QED BY <1>9, <1>10

LEMMA ParseReadInv == IInv /\ ParseRead => IInv'
<1> SUFFICES ASSUME IInv, ParseRead PROVE IInv'
  OBVIOUS
<1> DEFINE n == ReadSize(buf)
<1>1. /\ pc = "Parse" /\ phase = "read"
      /\ UNCHANGED <<phase, size, calls, waitVars, rxVars, status, left, linkVars,
                     devVars, faults, failed, expired>>
  BY DEF ParseRead
<1>2. CASE Rejected \/ Oversized(n)
  <2>1. /\ pc' = "Idle" /\ ret' = 0
        /\ UNCHANGED <<buf, attkb, offset, remaining, req_size, overrun>>
    BY <1>2 DEF ParseRead, Return
  <2>2. 0 \in U16
    BY DEF U16
  <2>3. TypeOK'
    BY <1>1, <2>1, <2>2 DEF IInv, TypeOK, waitVars, rxVars, linkVars, devVars
  <2>4. Accounting' /\ StoredPrefix'
    BY <1>1, <2>1 DEF IInv, Accounting, StoredPrefix
  <2> QED BY <2>3, <2>4 DEF IInv
<1>3. CASE ~(Rejected \/ Oversized(n))
  <2>1. /\ attkb' = Stored(n) /\ offset' = offset + n /\ remaining' = remaining - n
        /\ overrun' = (overrun \/ offset + n > MaxAttkb)
        /\ IF remaining = n
           THEN Return(size) /\ UNCHANGED <<buf, req_size>>
           ELSE Ask(offset + n, remaining - n)
    BY <1>3 DEF ParseRead
  <2>2. /\ n \in Nat /\ n <= remaining /\ n <= req_size
        /\ size \in U16 /\ offset \in Nat /\ remaining \in Nat
        /\ offset + remaining = size
    <3>1. n \in Nat
      BY FieldTypes DEF IInv, U16
    <3>2. /\ remaining \in Nat /\ req_size \in Nat /\ size \in U16 /\ offset \in Nat
          /\ offset + remaining = size
      BY DEF IInv, TypeOK, Accounting, U16
    <3> QED BY <1>3, <3>1, <3>2 DEF Oversized
  <2> HIDE DEF n
  <2>3. /\ attkb' \in [0 .. MaxAttkb-1 -> Bytes \cup {Unwritten}]
        /\ \A i \in DOMAIN attkb' : attkb'[i] # Unwritten <=> i < offset'
    BY <1>1, <2>1, <2>2, StoredFact
  <2>4. offset' \in U16 /\ remaining' \in U16 /\ offset' + remaining' = size
    BY <2>1, <2>2 DEF U16
  <2>5. overrun' \in BOOLEAN
    BY <2>1
  <2>6. CASE remaining = n
    <3>1. pc' = "Idle" /\ ret' = size /\ UNCHANGED <<buf, req_size>>
      BY <2>1, <2>6 DEF Return
    <3>2. TypeOK'
      BY <1>1, <2>2, <2>3, <2>4, <2>5, <3>1
         DEF IInv, TypeOK, waitVars, rxVars, linkVars, devVars
    <3>3. Accounting'
      BY <1>1, <2>4, <3>1 DEF Accounting
    <3>4. offset' = size'
      BY <1>1, <2>1, <2>2, <2>6
    <3>5. StoredPrefix'
      BY <1>1, <2>3, <3>1, <3>4 DEF StoredPrefix
    <3> QED BY <3>2, <3>3, <3>5 DEF IInv
  <2>7. CASE remaining # n
    <3>1. offset + n \in U16 /\ remaining - n \in U16 /\ remaining - n > 0
      BY <2>1, <2>2, <2>4, <2>7 DEF U16
    <3>2. /\ req_size' \in U16 /\ req_size' = Min2(remaining - n, MaxTransfer)
          /\ buf' \in [0 .. BufWords-1 -> Word]
          /\ pc' = "SendwACK" /\ UNCHANGED ret
      BY <2>1, <2>7, <3>1, AskFact
    <3>3. TypeOK'
      BY <1>1, <2>3, <2>4, <2>5, <3>2
         DEF IInv, TypeOK, waitVars, rxVars, linkVars, devVars
    <3>4. Accounting'
      BY <1>1, <2>1, <2>4, <3>1, <3>2 DEF Accounting
    <3>5. StoredPrefix'
      BY <2>3, <3>2 DEF StoredPrefix
    <3> QED BY <3>3, <3>4, <3>5 DEF IInv
  <2> QED BY <2>6, <2>7
<1> QED BY <1>2, <1>3

(* The CSE's steps touch the link only.                                    *)
LEMMA DeviceKeepsHost ==
  ASSUME IInv, UNCHANGED hostVars,
         hostCB' \in Seq(Word), secCB' \in Seq(Word), devOut' \in Seq(Word),
         h_is' \in BOOLEAN, h_ig' \in BOOLEAN, sec_rdy' \in BOOLEAN, depth' = depth
  PROVE  IInv'
<1>1. TypeOK'
  BY DEF IInv, TypeOK, hostVars, callVars, waitVars, rxVars
<1>2. Accounting'
  BY DEF IInv, Accounting, hostVars, callVars
<1>3. StoredPrefix'
  BY DEF IInv, StoredPrefix, hostVars, callVars
<1> QED BY <1>1, <1>2, <1>3 DEF IInv

(* A whole message leaves the host's circular buffer.                      *)
LEMMA DropMessageFact ==
  ASSUME TypeOK, MessageIn, DropMessage
  PROVE  hostCB' \in Seq(Word) /\ h_ig' \in BOOLEAN
<1> DEFINE m == MsgWords
<1>1. hostCB \in Seq(Word) /\ hostCB # <<>> /\ m <= Len(hostCB)
  BY DEF TypeOK, MessageIn
<1>2. m \in Nat
  <2>1. hostCB[1] \in Word
    BY <1>1
  <2>2. hostCB[1].hi % 512 \in Nat
    BY <2>1 DEF Word, U16
  <2> QED BY <2>2 DEF MsgWords, Dwords, HeadLength
<1>3. hostCB' = SubSeq(hostCB, m + 1, Len(hostCB)) /\ h_ig' = (Len(hostCB) > m)
  BY DEF DropMessage
<1> HIDE DEF m
<1>4. SubSeq(hostCB, m + 1, Len(hostCB)) \in Seq(Word)
  BY <1>1, <1>2
<1> QED BY <1>3, <1>4

LEMMA DevReadyInv == IInv /\ DevReady => IInv'
<1> SUFFICES ASSUME IInv, DevReady PROVE IInv'
  OBVIOUS
<1> QED BY DeviceKeepsHost DEF DevReady, linkVars, IInv, TypeOK

LEMMA DevTakeFragmentInv == IInv /\ DevTakeFragment => IInv'
<1> SUFFICES ASSUME IInv, DevTakeFragment PROVE IInv'
  OBVIOUS
<1>1. hostCB' \in Seq(Word) /\ h_ig' \in BOOLEAN
  BY DropMessageFact DEF IInv, DevTakeFragment
<1> QED BY <1>1, DeviceKeepsHost DEF DevTakeFragment, devVars, IInv, TypeOK

LEMMA DevPushInv == IInv /\ DevPush => IInv'
<1> SUFFICES ASSUME IInv, DevPush PROVE IInv'
  OBVIOUS
<1>1. devOut # <<>> /\ secCB' = Append(secCB, Head(devOut)) /\ devOut' = Tail(devOut)
  BY DEF DevPush
<1>2. secCB' \in Seq(Word) /\ devOut' \in Seq(Word)
  BY <1>1 DEF IInv, TypeOK
<1> QED BY <1>2, DeviceKeepsHost DEF DevPush, IInv, TypeOK

LEMMA DevAnswerInv == IInv /\ DevAnswer => IInv'
<1> SUFFICES ASSUME IInv, DevAnswer PROVE IInv'
  OBVIOUS
<1> DEFINE off == hostCB[3].lo
           sz  == hostCB[3].hi
<1>1. /\ MessageIn /\ WholeRequest /\ DropMessage
      /\ UNCHANGED <<hostVars, secCB, h_is, sec_rdy, depth>>
  BY DEF DevAnswer
<1>2. hostCB' \in Seq(Word) /\ h_ig' \in BOOLEAN
  BY <1>1, DropMessageFact DEF IInv
<1>3. off \in U16 /\ sz \in U16
  <2>1. Len(hostCB) >= 4 /\ hostCB \in Seq(Word)
    BY <1>1 DEF IInv, TypeOK, MessageIn, WholeRequest, RequestWords
  <2>2. hostCB[3] \in Word
    BY <2>1
  <2> QED BY <2>2 DEF Word
<1>4. PICK result \in {0, 1}, n \in Nat :
        /\ n > 0 => off + n <= FileSize
        /\ n <= MaxTransfer
        /\ devOut' = devOut \o Answer(result, off, n)
  <2>1. (\E n \in ReadSizes(off, sz) : devOut' = devOut \o Answer(0, off, n))
        \/ devOut' = devOut \o Answer(1, off, 0)
    BY DEF DevAnswer
  <2> HIDE DEF off, sz
  <2>2. \A n \in ReadSizes(off, sz) :
          n \in Nat /\ (n > 0 => off + n <= FileSize) /\ n <= MaxTransfer
    BY <1>3, HeciAssumption DEF ReadSizes, Min2, U16
  <2>3. 0 \in Nat /\ (0 > 0 => off + 0 <= FileSize) /\ 0 <= MaxTransfer
    BY HeciAssumption
  <2>4. CASE \E n \in ReadSizes(off, sz) : devOut' = devOut \o Answer(0, off, n)
    <3>1. PICK n \in ReadSizes(off, sz) : devOut' = devOut \o Answer(0, off, n)
      BY <2>4
    <3> QED BY <2>2, <3>1
  <2>5. CASE devOut' = devOut \o Answer(1, off, 0)
    BY <2>3, <2>5
  <2> QED BY <2>1, <2>4, <2>5
<1>5. Answer(result, off, n) \in Seq(Word)
  <2> DEFINE words == Response(result, off, n)
  <2>1. n < 512 /\ 4 * ResponseWords + n \in 0 .. 511
    BY <1>4, HeciAssumption DEF ResponseWords
  <2>2. words \in Seq(Word) /\ Len(words) = 3 + Dwords(n)
    BY <1>3, <1>4, <2>1, ResponseType
  <2>3. 4 * (Len(words) - 1) < 4 * ResponseWords + n
    BY <2>2 DEF Dwords, ResponseWords
  <2> HIDE DEF words
  <2>4. Packets(words, 4 * ResponseWords + n) \in Seq(Word)
    BY <2>1, <2>2, <2>3, PacketsType
  <2> QED BY <2>4 DEF words, Answer
<1>6. devOut' \in Seq(Word)
  BY <1>4, <1>5 DEF IInv, TypeOK
<1> QED BY <1>1, <1>2, <1>6, DeviceKeepsHost DEF IInv, TypeOK

-----------------------------------------------------------------------------
LEMMA NextInv == IInv /\ [Next]_vars => IInv'
<1> SUFFICES ASSUME IInv, [Next]_vars PROVE IInv'
  OBVIOUS
<1>1. CASE Host
  BY <1>1, GetAttkbInv, SendwACKInv, MapFailsInv, SendFragmentInv, SendGivesUpInv,
     ReceiveHeadInv, ReceiveDataInv, ParseSizeInv, ParseReadInv, PollInv, NotYetInv,
     TimeOutInv DEF Host
<1>2. CASE Device
  BY <1>2, DevReadyInv, DevAnswerInv, DevTakeFragmentInv, DevPushInv DEF Device
<1>3. CASE UNCHANGED vars
  <2>1. UNCHANGED hostVars
    BY <1>3 DEF vars
  <2> QED BY <1>3, <2>1, DeviceKeepsHost DEF vars, linkVars, devVars, IInv, TypeOK
<1> QED BY <1>1, <1>2, <1>3 DEF Next

(* The inductive invariant holds throughout.                               *)
THEOREM Invariance == Spec => []IInv
BY InitInv, NextInv, PTL DEF Spec

(* Every variable of get_attkb keeps its type, whatever the CSE answers,   *)
(* however late, and whatever fails.                                       *)
THEOREM TypeCorrect == Spec => []TypeOK
BY Invariance, PTL DEF IInv

(* The bytes get_attkb stored and those it still wants always add up to    *)
(* the size the CSE announced, and it never asks for more than remain.     *)
THEOREM BooksBalance == Spec => []Accounting
BY Invariance, PTL DEF IInv

(* The size get_attkb returns is never more than what it stored: a short,  *)
(* late or failed exchange leaves no hole in the buffer handed out.        *)
THEOREM NoHoles == Spec => []StoredPrefix
BY Invariance, PTL DEF IInv

-----------------------------------------------------------------------------
(* The timely link: no wait times out.  How deep the host's circular       *)
(* buffer is, how the CSE splits the keybox over answers and an answer     *)
(* over link messages, when it moves and which mappings fail are left      *)
(* open.  On a reliable link every mapping succeeds, too, an answer is one *)
(* link message, and the keybox fits the caller's buffer.                  *)
Timely     == "clock" \notin FaultKinds
InOnePiece == FragWords >= BufWords
KeyboxFits == FileSize <= MaxAttkb
Reliable   == FaultKinds = {} /\ InOnePiece /\ KeyboxFits

(* No dword of this or of an earlier exchange is under way.                *)
Quiet == hostCB = <<>> /\ secCB = <<>> /\ devOut = <<>>

(* The request of the exchange, as one link message, and what the CSE may  *)
(* answer it with: the file from offset on, or a refusal.                  *)
Message  == <<LinkHeader(4 * RequestWords, TRUE), buf[0], buf[1], buf[2]>>
Legal(r, n)   == (r = 0 /\ n \in ReadSizes(offset, req_size)) \/ (r = 1 /\ n = 0)
Received(r, n, k) == \A j \in 0 .. k-1 : buf[j] = Response(r, offset, n)[j + 1]

(* The link messages of a response of n bytes: one, or two when it is      *)
(* longer than FragWords.  The one with the dwords behind from, up to to,  *)
(* its header, and what the CSE sends after it.                            *)
Total(n) == 3 + Dwords(n)
Split(n) == Total(n) > FragWords
Part(n, from, to) ==
  \/ ~Split(n) /\ from = 0 /\ to = Total(n)
  \/ Split(n) /\ from = 0 /\ to = FragWords
  \/ Split(n) /\ from = FragWords /\ to = Total(n)
Carries(n, from, to) ==
  LinkHeader(IF to = Total(n) THEN 12 + n - 4 * from ELSE 4 * to, to = Total(n))
After(r, n, to) ==
  IF to = Total(n) THEN <<>>
  ELSE <<Carries(n, to, Total(n))>> \o SubSeq(Response(r, offset, n), to + 1, Total(n))

(* Where the dwords are at each point of an exchange.  Of an answer in two *)
(* messages the second overwrites the first.                               *)
Asked == hostCB = Message /\ secCB = <<>> /\ devOut = <<>> /\ buf = Request(offset, req_size)
Answered == hostCB = <<>> /\ \E r \in {0, 1}, n \in 0 .. MaxTransfer, from \in Nat, to \in Nat :
              /\ Legal(r, n) /\ Part(n, from, to)
              /\ secCB \o devOut = <<Carries(n, from, to)>>
                   \o (SubSeq(Response(r, offset, n), from + 1, to) \o After(r, n, to))
Reading == hostCB = <<>> /\ \E r \in {0, 1}, n \in 0 .. MaxTransfer, from \in Nat, to \in Nat :
             /\ Legal(r, n) /\ Part(n, from, to)
             /\ head = Carries(n, from, to) /\ index < to - from
             /\ secCB \o devOut =
                  SubSeq(Response(r, offset, n), from + index + 1, to) \o After(r, n, to)
             /\ ~Split(n) => Received(r, n, index)
Heard == status = 0 /\ \E r \in {0, 1}, n \in 0 .. MaxTransfer :
           Legal(r, n) /\ (~Split(n) => Received(r, n, Total(n)))

(* An exchange that failed leaves its own request where the answer should  *)
(* be.  Beyond the size request only a failed mapping does that.           *)
Unheard == status = 1 /\ buf = Request(offset, req_size) /\ (phase = "read" => FaultKinds # {})

(* A host whose circular buffer does not hold a request never gets further *)
(* than the first fragment of the size request.                            *)
Stuck ==
  /\ depth < RequestWords + 1 /\ phase = "size" /\ secCB = <<>> /\ devOut = <<>>
  /\ hostCB # <<>> => /\ ~h_is /\ Len(hostCB) = depth
                      /\ hostCB[1] = LinkHeader(4 * (depth - 1), FALSE)

LinkInv ==
  /\ pc \in {"Idle", "SendwACK", "WaitReady", "Parse"} => Quiet
  /\ pc \in {"SendwACK", "WaitReady", "WaitIS"} => buf = Request(offset, req_size)
  /\ pc = "WaitReady" => left = RequestWords
  /\ pc = "WaitIS"   => Stuck
  /\ pc = "WaitHead" => Asked \/ Answered
  /\ pc = "WaitData" => Reading
  /\ pc = "Parse"    => Heard \/ Unheard
  /\ pc \in {"WaitHead", "WaitData"} \/ (pc = "Parse" /\ status = 0)
       \/ (pc # "Idle" /\ phase = "read") => depth > RequestWords
  /\ KeyboxFits => ~overrun

(* What is in the caller's buffer is the beginning of the keybox, unless a *)
(* request or the second part of an answer was taken for an answer.  Even  *)
(* then the size is the file's or none at all.                             *)
KeyboxInv ==
  /\ pc # "Idle" /\ phase = "size" => req_size = 0 /\ TotalFileSize(buf) \in {0, FileSize}
  /\ size \in {0, FileSize} /\ ret \in {-1, 0, FileSize} /\ offset <= FileSize
  /\ pc # "Idle" /\ phase = "read" => size = FileSize
  /\ FaultKinds = {} /\ InOnePiece => \A i \in 0 .. MaxAttkb-1 : i < offset => attkb[i] = Keybox[i]

-----------------------------------------------------------------------------
(* The numbers of a message.                                               *)
LEMMA MessageSizes ==
  ASSUME NEW n \in 0 .. MaxTransfer
  PROVE  /\ n < 512 /\ 12 + n \in 0 .. 511 /\ Dwords(12 + n) = 3 + Dwords(n)
         /\ Dwords(n) \in Nat /\ n <= 4 * Dwords(n) /\ 3 + Dwords(n) <= BufWords
<1>1. MaxTransfer \in Nat /\ MaxTransfer <= 496 /\ MaxTransfer % 4 = 0
  BY HeciAssumption
<1>2. Dwords(n) \in Nat /\ n <= 4 * Dwords(n) /\ Dwords(n) <= MaxTransfer \div 4
  BY <1>1 DEF Dwords
<1>3. Dwords(12 + n) = 3 + Dwords(n)
  BY <1>1 DEF Dwords
<1> QED BY <1>1, <1>2, <1>3 DEF BufWords, ResponseWords

(* A link header gives back its fields.                                    *)
LEMMA HeaderIs ==
  ASSUME NEW length \in 0 .. 511
  PROVE  /\ HeadLength(LinkHeader(length, TRUE)) = length /\ HeadComplete(LinkHeader(length, TRUE))
         /\ HeadLength(LinkHeader(length, FALSE)) = length /\ ~HeadComplete(LinkHeader(length, FALSE))
BY DEF HeadLength, HeadComplete, LinkHeader

(* A response, dword by dword.                                             *)
Whole(w, r, off, n) ==
  /\ w \in Seq(Word) /\ Len(w) = 3 + Dwords(n)
  /\ w[1].hi = 256 * r
  /\ w[2].lo = FileSize /\ w[2].hi = off
  /\ w[3].lo = n
  /\ \A k \in 0 .. Dwords(n)-1 : w[4 + k] = DataWord(off, k, n)

(* The CSE's response, read back.                                          *)
LEMMA ResponseIs ==
  ASSUME NEW r \in {0, 1}, NEW off \in U16, NEW n \in 0 .. MaxTransfer,
         n > 0 => off + n <= FileSize
  PROVE  Whole(Response(r, off, n), r, off, n)
<1> DEFINE w0 == [lo |-> 10 + 256 * 26 + 32768, hi |-> 256 * r]
           w1 == [lo |-> FileSize, hi |-> off]
           w2 == [lo |-> n, hi |-> 0]
           data == [k \in 1 .. Dwords(n) |-> DataWord(off, k - 1, n)]
           w == Response(r, off, n)
<1>0. n \in Nat /\ n < 512 /\ Dwords(n) \in Nat
  BY MessageSizes, HeciAssumption
<1>1. w \in Seq(Word) /\ Len(w) = 3 + Dwords(n)
  BY <1>0, ResponseType
<1>2. w = <<w0, w1, w2>> \o data
  BY DEF Response
<1>3. Len(data) = Dwords(n) /\ \A k \in 1 .. Dwords(n) : data[k] = DataWord(off, k - 1, n)
  BY <1>0
<1>4. w1.lo = FileSize /\ w1.hi = off /\ w2.lo = n /\ w0.hi = 256 * r
  OBVIOUS
<1> HIDE DEF w0, w1, w2, data
<1>5. w[1] = w0 /\ w[2] = w1 /\ w[3] = w2
  BY <1>0, <1>2, <1>3
<1>6. ASSUME NEW k \in 0 .. Dwords(n)-1 PROVE w[4 + k] = DataWord(off, k, n)
  <2>1. w[4 + k] = data[k + 1]
    BY <1>0, <1>2, <1>3
  <2>2. k + 1 \in 1 .. Dwords(n) /\ (k + 1) - 1 = k
    BY <1>0
  <2> QED BY <1>3, <2>1, <2>2
<1> HIDE DEF w
<1>7. Whole(w, r, off, n)
  BY <1>1, <1>4, <1>5, <1>6 DEF Whole
<1> QED BY <1>7 DEF w

(* What the CSE may read lies within the file and within the request.      *)
LEMMA LegalIs ==
  ASSUME TypeOK, offset <= FileSize, NEW r \in {0, 1}, NEW n, Legal(r, n)
  PROVE  /\ n \in 0 .. MaxTransfer /\ (n > 0 => offset + n <= FileSize)
         /\ n <= req_size
<1>1. offset \in Nat /\ req_size \in Nat /\ FileSize \in Nat /\ MaxTransfer \in Nat
  BY HeciAssumption DEF TypeOK, U16
<1>2. CASE n = 0
  BY <1>1, <1>2
<1>3. CASE n # 0
  <2>1. n \in ReadSizes(offset, req_size)
    BY <1>3 DEF Legal
  <2>2. req_size # 0 /\ n \in MinRead .. Min2(Min2(req_size, MaxTransfer), FileSize - offset)
    BY <1>3, <2>1 DEF ReadSizes
  <2>3. MinRead \in Nat
    BY HeciAssumption
  <2> QED BY <1>1, <2>2, <2>3 DEF Min2
<1> QED BY <1>2, <1>3

(* Sequences are equal dword by dword.                                     *)
LEMMA SameSeq ==
  ASSUME NEW s \in Seq(Word), NEW t \in Seq(Word), Len(s) = Len(t),
         \A i \in 1 .. Len(s) : s[i] = t[i]
  PROVE  s = t
<1>1. s = [i \in 1 .. Len(s) |-> s[i]] /\ t = [i \in 1 .. Len(s) |-> t[i]]
  OBVIOUS
<1> QED BY <1>1

LEMMA AllOf ==
  ASSUME NEW w \in Seq(Word)
  PROVE  SubSeq(w, 1, Len(w)) = w /\ SubSeq(w, Len(w) + 1, Len(w)) = <<>>
<1>1. /\ SubSeq(w, 1, Len(w)) = [i \in 1 .. Len(w) |-> w[i]]
      /\ w = [i \in 1 .. Len(w) |-> w[i]]
  OBVIOUS
<1>2. SubSeq(w, Len(w) + 1, Len(w)) = <<>>
  OBVIOUS
<1> QED BY <1>1, <1>2

(* Two link messages, one behind the other.                                *)
LEMMA Joined ==
  ASSUME NEW h \in Word, NEW a \in Seq(Word), NEW g \in Word, NEW b \in Seq(Word)
  PROVE  <<h>> \o a \o <<g>> \o b = <<h>> \o (a \o (<<g>> \o b))
<1> DEFINE s == <<h>> \o a \o <<g>> \o b
           t == <<h>> \o (a \o (<<g>> \o b))
<1>1. /\ s \in Seq(Word) /\ Len(s) = Len(a) + Len(b) + 2
      /\ s[1] = h /\ s[Len(a) + 2] = g
      /\ \A i \in 1 .. Len(a) : s[i + 1] = a[i]
      /\ \A i \in 1 .. Len(b) : s[Len(a) + 2 + i] = b[i]
  OBVIOUS
<1>2. /\ t \in Seq(Word) /\ Len(t) = Len(a) + Len(b) + 2
      /\ t[1] = h /\ t[Len(a) + 2] = g
      /\ \A i \in 1 .. Len(a) : t[i + 1] = a[i]
      /\ \A i \in 1 .. Len(b) : t[Len(a) + 2 + i] = b[i]
  OBVIOUS
<1> HIDE DEF s, t
<1>3. ASSUME NEW i \in 1 .. Len(s) PROVE s[i] = t[i]
  <2>0. Len(a) \in Nat /\ Len(b) \in Nat
    OBVIOUS
  <2>1. CASE i \in 2 .. Len(a) + 1
    <3>1. i - 1 \in 1 .. Len(a) /\ (i - 1) + 1 = i
      BY <2>0, <2>1
    <3> QED BY <1>1, <1>2, <3>1
  <2>2. CASE i > Len(a) + 2
    <3>1. i - (Len(a) + 2) \in 1 .. Len(b) /\ Len(a) + 2 + (i - (Len(a) + 2)) = i
      BY <1>1, <2>0, <2>2
    <3> QED BY <1>1, <1>2, <3>1
  <2>3. i = 1 \/ i = Len(a) + 2 \/ i \in 2 .. Len(a) + 1 \/ i > Len(a) + 2
    BY <1>1, <2>0
  <2> QED BY <1>1, <1>2, <2>1, <2>2, <2>3
<1>4. s = t
  BY <1>1, <1>2, <1>3, SameSeq
<1> QED BY <1>4 DEF s, t

(* A part of an answer holds as many dwords as its header says, and its    *)
(* header tells whether it is the last.                                    *)
LEMMA PartIs ==
  ASSUME NEW n \in 0 .. MaxTransfer, NEW from \in Nat, NEW to \in Nat, Part(n, from, to)
  PROVE  /\ from < to /\ to <= Total(n) /\ Total(n) <= BufWords /\ Total(n) \in Nat
         /\ Carries(n, from, to) \in Word
         /\ HeadLength(Carries(n, from, to)) # 0
         /\ Dwords(HeadLength(Carries(n, from, to))) = to - from
         /\ HeadComplete(Carries(n, from, to)) <=> to = Total(n)
         /\ to # Total(n) => Part(n, to, Total(n))
         /\ ~Split(n) => from = 0 /\ to = Total(n)
<1> DEFINE length == IF to = Total(n) THEN 12 + n - 4 * from ELSE 4 * to
<1>0. /\ FragWords \in Nat /\ FragWords > 0 /\ MaxTransfer \in Nat /\ MaxTransfer <= 496
      /\ n \in Nat /\ n <= MaxTransfer
  BY HeciAssumption
<1>1. /\ Dwords(n) \in Nat /\ n <= 4 * Dwords(n) /\ Total(n) <= BufWords /\ Total(n) \in Nat
      /\ 12 + n \in 0 .. 511
  BY MessageSizes DEF Total
<1>2. Dwords(n) = (n + 3) \div 4
  BY DEF Dwords
<1>3. from < to /\ to <= Total(n) /\ (to # Total(n) => from = 0) /\ (~Split(n) => from = 0 /\ to = Total(n))
  <2>1. Total(n) > 0
    BY <1>1 DEF Total
  <2>2. Split(n) <=> Total(n) > FragWords
    BY DEF Split
  <2>3. CASE ~Split(n)
    <3>1. from = 0 /\ to = Total(n)
      BY <2>3 DEF Part
    <3> QED BY <1>1, <2>1, <2>3, <3>1
  <2>4. CASE Split(n)
    <3>1. \/ from = 0 /\ to = FragWords
          \/ from = FragWords /\ to = Total(n)
      BY <2>4 DEF Part
    <3> QED BY <1>0, <1>1, <2>1, <2>2, <2>4, <3>1
  <2> QED BY <2>3, <2>4
<1>4. length \in 1 .. 511 /\ (length + 3) \div 4 = to - from
  <2>1. CASE to = Total(n)
    <3>1. length = 12 + n - 4 * from /\ to = 3 + (n + 3) \div 4 /\ from < to
      BY <1>2, <1>3, <2>1 DEF Total
    <3> HIDE DEF length
    <3>2. from <= 2 + (n + 3) \div 4
      BY <1>0, <3>1
    <3>3. 4 * from < 12 + n
      BY <1>0, <3>2
    <3> QED BY <1>0, <1>1, <3>1, <3>3
  <2>2. CASE to # Total(n)
    <3>1. length = 4 * to /\ from = 0 /\ to < Total(n)
      BY <1>1, <1>3, <2>2
    <3>2. to <= 2 + (n + 3) \div 4
      BY <1>0, <1>2, <3>1 DEF Total
    <3>3. 4 * to < 12 + n
      BY <1>0, <3>2
    <3> HIDE DEF length
    <3> QED BY <1>0, <1>1, <1>3, <3>1, <3>3
  <2> QED BY <2>1, <2>2
<1>5. Carries(n, from, to) = LinkHeader(length, to = Total(n))
  BY DEF Carries
<1> HIDE DEF length
<1>6. length \in 0 .. 511 /\ length # 0
  BY <1>4
<1>7. /\ Carries(n, from, to) \in Word
      /\ HeadLength(Carries(n, from, to)) = length
      /\ HeadComplete(Carries(n, from, to)) <=> to = Total(n)
  <2>1. CASE to = Total(n)
    <3>1. Carries(n, from, to) = LinkHeader(length, TRUE)
      BY <1>5, <2>1 DEF LinkHeader
    <3> QED BY <1>6, <2>1, <3>1, HeaderIs, LinkHeaderType
  <2>2. CASE to # Total(n)
    <3>1. Carries(n, from, to) = LinkHeader(length, FALSE)
      BY <1>5, <2>2 DEF LinkHeader
    <3> QED BY <1>6, <2>2, <3>1, HeaderIs, LinkHeaderType
  <2> QED BY <2>1, <2>2
<1>8. Dwords(HeadLength(Carries(n, from, to))) = to - from
  BY <1>4, <1>7 DEF Dwords
<1>9. to # Total(n) => Part(n, to, Total(n))
  BY DEF Part
<1> QED BY <1>1, <1>3, <1>6, <1>7, <1>8, <1>9

(* What follows a part.                                                    *)
LEMMA AfterIs ==
  ASSUME NEW r \in {0, 1}, offset \in U16, NEW n \in 0 .. MaxTransfer,
         n > 0 => offset + n <= FileSize,
         NEW from \in Nat, NEW to \in Nat, Part(n, from, to)
  PROVE  After(r, n, to) \in Seq(Word)
<1>1. CASE to = Total(n)
  BY <1>1 DEF After
<1>2. CASE to # Total(n)
  <2> DEFINE w == Response(r, offset, n)
             h == Carries(n, to, Total(n))
  <2>1. w \in Seq(Word) /\ Len(w) = Total(n)
    <3>1. Whole(w, r, offset, n)
      BY ResponseIs
    <3> HIDE DEF w
    <3> QED BY <3>1 DEF Whole, Total
  <2>2. Part(n, to, Total(n)) /\ Total(n) \in Nat
    BY <1>2, PartIs
  <2>3. h \in Word
    BY <2>2, PartIs
  <2>4. After(r, n, to) = <<h>> \o SubSeq(w, to + 1, Total(n))
    BY <1>2 DEF After
  <2> HIDE DEF w, h
  <2>5. SubSeq(w, to + 1, Len(w)) \in Seq(Word)
    BY <2>1
  <2>6. SubSeq(w, to + 1, Total(n)) \in Seq(Word)
    BY <2>1, <2>5
  <2> HIDE DEF After
  <2> QED BY <2>3, <2>4, <2>6
<1> QED BY <1>1, <1>2

(* The CSE's answer is one link message or two.                            *)
LEMMA AnswerIs ==
  ASSUME NEW r \in {0, 1}, offset \in U16, NEW n \in 0 .. MaxTransfer,
         n > 0 => offset + n <= FileSize
  PROVE  \E to \in Nat :
           /\ Part(n, 0, to)
           /\ Answer(r, offset, n) = <<Carries(n, 0, to)>>
                \o (SubSeq(Response(r, offset, n), 1, to) \o After(r, n, to))
           /\ Answer(r, offset, n) \in Seq(Word)
<1> DEFINE w == Response(r, offset, n)
<1>1. w \in Seq(Word) /\ Len(w) = Total(n) /\ Total(n) \in Nat /\ FragWords \in Nat /\ FragWords > 0
  <2>1. Whole(w, r, offset, n)
    BY ResponseIs
  <2>2. Total(n) \in Nat
    BY MessageSizes DEF Total
  <2> HIDE DEF w
  <2> QED BY <2>1, <2>2, HeciAssumption DEF Whole, Total
<1>2. Answer(r, offset, n) = Packets(w, 12 + n)
  BY DEF Answer, ResponseWords
<1> HIDE DEF w
<1>3. CASE ~Split(n)
  <2> DEFINE h == Carries(n, 0, Total(n))
  <2>1. Part(n, 0, Total(n)) /\ After(r, n, Total(n)) = <<>>
    BY <1>3 DEF Part, After
  <2>2. h \in Word
    BY <1>1, <2>1, PartIs
  <2>3. Answer(r, offset, n) = <<LinkHeader(12 + n, TRUE)>> \o w
    BY <1>1, <1>2, <1>3 DEF Packets, Split
  <2>4. h = LinkHeader(12 + n, TRUE)
    <3>1. 12 + n - 4 * 0 = 12 + n
      BY HeciAssumption
    <3> QED BY <3>1 DEF Carries, LinkHeader
  <2> HIDE DEF h
  <2>5. SubSeq(w, 1, Total(n)) \o <<>> = w
    <3>1. SubSeq(w, 1, Total(n)) = w
      BY <1>1, AllOf
    <3> QED BY <1>1, <3>1
  <2>6. <<h>> \o w \in Seq(Word)
    BY <1>1, <2>2
  <2> QED BY <1>1, <2>1, <2>3, <2>4, <2>5, <2>6 DEF w, h
<1>4. CASE Split(n)
  <2> DEFINE h == Carries(n, 0, FragWords)
             g == Carries(n, FragWords, Total(n))
             a == SubSeq(w, 1, FragWords)
             b == SubSeq(w, FragWords + 1, Total(n))
  <2>1. Part(n, 0, FragWords) /\ Part(n, FragWords, Total(n)) /\ FragWords < Total(n)
    BY <1>1, <1>4 DEF Part, Split
  <2>2. h \in Word /\ g \in Word
    BY <1>1, <2>1, PartIs
  <2>3. h = LinkHeader(4 * FragWords, FALSE) /\ g = LinkHeader(12 + n - 4 * FragWords, TRUE)
    <3>1. FragWords # Total(n)
      BY <1>1, <2>1
    <3> QED BY <3>1 DEF Carries, LinkHeader
  <2>4. Answer(r, offset, n) = <<LinkHeader(4 * FragWords, FALSE)>> \o SubSeq(w, 1, FragWords)
                               \o <<LinkHeader(12 + n - 4 * FragWords, TRUE)>>
                               \o SubSeq(w, FragWords + 1, Len(w))
    <3>1. FragWords \in Nat /\ Len(w) \in Nat /\ ~(Len(w) <= FragWords)
      BY <1>1, <2>1, HeciAssumption
    <3> DEFINE bytes == 12 + n
    <3>2. Answer(r, offset, n) = Packets(w, bytes)
      BY <1>2
    <3> HIDE DEF bytes
    <3>3. Packets(w, bytes) = <<LinkHeader(4 * FragWords, FALSE)>> \o SubSeq(w, 1, FragWords)
                               \o <<LinkHeader(bytes - 4 * FragWords, TRUE)>>
                               \o SubSeq(w, FragWords + 1, Len(w))
      BY <3>1, Zenon DEF Packets
    <3>4. bytes - 4 * FragWords = 12 + n - 4 * FragWords
      BY <3>1, HeciAssumption DEF bytes
    <3> QED BY <3>2, <3>3, <3>4, Zenon
  <2>5. a \in Seq(Word) /\ b \in Seq(Word)
    BY <1>1, <2>1
  <2>6. After(r, n, FragWords) = <<g>> \o b
    BY <1>1, <2>1 DEF After, w
  <2> HIDE DEF h, g, a, b
  <2>7. Answer(r, offset, n) = <<h>> \o a \o <<g>> \o b
    BY <1>1, <2>3, <2>4 DEF a, b
  <2>8. Answer(r, offset, n) = <<h>> \o (a \o (<<g>> \o b))
    BY <2>2, <2>5, <2>7, Joined
  <2>9. Answer(r, offset, n) \in Seq(Word)
    BY <2>2, <2>5, <2>7
  <2> QED BY <1>1, <2>1, <2>6, <2>8, <2>9 DEF a, h, w
<1> QED BY <1>3, <1>4

(* Four bytes of the file, out of a data dword.                            *)
LEMMA HalvesAreBytes ==
  ASSUME NEW x \in 0 .. 255, NEW y \in 0 .. 255
  PROVE  (x + 256 * y) % 256 = x /\ (x + 256 * y) \div 256 = y
OBVIOUS

(* FileData undoes DataWord.                                               *)
LEMMA FileDataIs ==
  ASSUME NEW off \in Nat, NEW n \in 0 .. MaxTransfer, off + n <= FileSize,
         NEW k \in 0 .. n-1, NEW b, b[ResponseWords + k \div 4] = DataWord(off, k \div 4, n)
  PROVE  FileData(b, k) = Keybox[off + k]
<1> DEFINE q == k \div 4
           byte(j) == IF 4 * q + j < n THEN Keybox[off + 4 * q + j] ELSE 0
           w == b[ResponseWords + q]
           half == IF (k % 4) < 2 THEN w.lo ELSE w.hi
<1>0. n \in Nat /\ k \in Nat /\ k < n /\ MaxTransfer \in Nat /\ q \in Nat
  BY HeciAssumption
<1>1. ASSUME NEW j \in 0 .. 3 PROVE byte(j) \in 0 .. 255
  <2>1. CASE 4 * q + j < n
    <3>1. off + 4 * q + j \in 0 .. FileSize-1
      BY <1>0, <2>1, KeyboxFact
    <3> QED BY <2>1, <3>1, KeyboxFact
  <2>2. CASE ~(4 * q + j < n)
    BY <2>2
  <2> QED BY <2>1, <2>2
<1>2. w = [lo |-> byte(0) + 256 * byte(1), hi |-> byte(2) + 256 * byte(3)]
  BY DEF DataWord
<1>3. byte(0) \in 0 .. 255 /\ byte(1) \in 0 .. 255 /\ byte(2) \in 0 .. 255 /\ byte(3) \in 0 .. 255
  BY <1>1
<1>4. \A j \in 0 .. 3 : k = 4 * q + j => byte(j) = Keybox[off + k]
  BY <1>0
<1> DEFINE b0 == byte(0) b1 == byte(1) b2 == byte(2) b3 == byte(3)
<1>5. /\ w.lo % 256 = b0 /\ w.lo \div 256 = b1 /\ w.hi % 256 = b2 /\ w.hi \div 256 = b3
  <2>1. w.lo = b0 + 256 * b1 /\ w.hi = b2 + 256 * b3
    BY <1>2
  <2> HIDE DEF b0, b1, b2, b3, w
  <2>2. b0 \in 0 .. 255 /\ b1 \in 0 .. 255 /\ b2 \in 0 .. 255 /\ b3 \in 0 .. 255
    BY <1>3 DEF b0, b1, b2, b3
  <2> QED BY <2>1, <2>2, HalvesAreBytes
<1>6. /\ k = 4 * q + 0 => b0 = Keybox[off + k]
      /\ k = 4 * q + 1 => b1 = Keybox[off + k]
      /\ k = 4 * q + 2 => b2 = Keybox[off + k]
      /\ k = 4 * q + 3 => b3 = Keybox[off + k]
  BY <1>4
<1>7. \/ k = 4 * q + 0 /\ k % 4 = 0 /\ k % 2 = 0
      \/ k = 4 * q + 1 /\ k % 4 = 1 /\ k % 2 = 1
      \/ k = 4 * q + 2 /\ k % 4 = 2 /\ k % 2 = 0
      \/ k = 4 * q + 3 /\ k % 4 = 3 /\ k % 2 = 1
  BY <1>0
<1>8. FileData(b, k) = IF k % 2 = 0 THEN half % 256 ELSE half \div 256
  BY DEF FileData
<1> HIDE DEF q, byte, w, b0, b1, b2, b3
<1> QED BY <1>5, <1>6, <1>7, <1>8

(* A dword that moves from the CSE to the link stays in its place, and one *)
(* that the host takes was the first.                                      *)
LEMMA StreamMoves ==
  ASSUME NEW s \in Seq(Word), NEW t \in Seq(Word), t # <<>>
  PROVE  Append(s, Head(t)) \o Tail(t) = s \o t
OBVIOUS

LEMMA StreamTaken ==
  ASSUME NEW s \in Seq(Word), NEW t \in Seq(Word), s # <<>>
  PROVE  /\ s \o t \in Seq(Word) /\ s \o t # <<>>
         /\ Head(s \o t) = Head(s) /\ Tail(s \o t) = Tail(s) \o t
OBVIOUS

-----------------------------------------------------------------------------
RInv == IInv /\ LinkInv /\ KeyboxInv

(* What LinkInv and KeyboxInv speak of.                                    *)
linkState == <<pc, phase, buf, attkb, size, offset, req_size, ret, status, left, head, index,
               hostCB, secCB, devOut, h_is, depth, overrun>>

LEMMA LinkSame == ASSUME RInv, UNCHANGED linkState PROVE LinkInv' /\ KeyboxInv'
<1>1. LinkInv'
  <2> USE DEF linkState
  <2>1. Quiet' = Quiet /\ Asked' = Asked /\ Stuck' = Stuck /\ Reading' = Reading
        /\ Answered' = Answered /\ Heard' = Heard /\ Unheard' = Unheard
    BY DEF Quiet, Asked, Stuck, Reading, Answered, Heard, Unheard, Message, Legal, Received, After
  <2> QED BY <2>1 DEF RInv, LinkInv
<1>2. KeyboxInv'
  BY DEF RInv, KeyboxInv, linkState, TotalFileSize
<1> QED BY <1>1, <1>2

LEMMA RInit == Init => RInv
<1> SUFFICES ASSUME Init PROVE RInv
  OBVIOUS
<1>1. LinkInv
  BY DEF Init, LinkInv, Quiet
<1>2. KeyboxInv
  BY KeyboxFact DEF Init, KeyboxInv
<1> QED BY <1>1, <1>2, InitInv DEF RInv

(* The steps inside the call that leave the caller's buffer alone.         *)
LEMMA BufferSame ==
  ASSUME RInv, UNCHANGED callVars, UNCHANGED pc \/ (pc # "Idle" /\ pc' # "Idle"),
         buf' = buf \/ (phase = "size" => TotalFileSize(buf') \in {0, FileSize})
  PROVE  KeyboxInv'
BY DEF RInv, KeyboxInv, callVars, TotalFileSize

(* A request read back.                                                    *)
LEMMA RequestIs ==
  ASSUME NEW off \in U16, NEW sz \in U16
  PROVE  /\ Request(off, sz)[0].hi = 0
         /\ Request(off, sz)[1].lo = off /\ Request(off, sz)[1].hi = sz
         /\ Request(off, sz)[2].lo = 1
<1>1. 0 \in 0 .. BufWords-1 /\ 1 \in 0 .. BufWords-1 /\ 2 \in 0 .. BufWords-1
  BY BufWordsFact
<1>2. /\ Request(off, sz)[0] = [lo |-> 10 + 256 * 26, hi |-> 0]
      /\ Request(off, sz)[1] = [lo |-> off, hi |-> sz]
      /\ Request(off, sz)[2] = [lo |-> 1, hi |-> 0]
  BY <1>1 DEF Request
<1> QED BY <1>2

LEMMA GetAttkbLink == RInv /\ GetAttkb => LinkInv' /\ KeyboxInv'
<1> SUFFICES ASSUME RInv, GetAttkb PROVE LinkInv' /\ KeyboxInv'
  OBVIOUS
<1>1. /\ pc' = "SendwACK" /\ phase' = "size" /\ buf' = Request(0, 0)
      /\ size' = 0 /\ offset' = 0 /\ req_size' = 0 /\ ret' = ret
      /\ UNCHANGED <<linkVars, devVars, overrun>> /\ pc = "Idle"
  BY DEF GetAttkb
<1>2. Quiet'
  BY <1>1 DEF RInv, LinkInv, Quiet, linkVars, devVars
<1>3. LinkInv'
  BY <1>1, <1>2 DEF RInv, LinkInv
<1>4. TotalFileSize(buf') = 0
  BY <1>1, RequestIs DEF TotalFileSize, U16
<1>5. KeyboxInv'
  BY <1>1, <1>4, KeyboxFact DEF RInv, KeyboxInv, TotalFileSize
<1> QED BY <1>3, <1>5

LEMMA SendwACKLink == RInv /\ SendwACK => LinkInv' /\ KeyboxInv'
<1> SUFFICES ASSUME RInv, SendwACK PROVE LinkInv' /\ KeyboxInv'
  OBVIOUS
<1>1. /\ pc = "SendwACK" /\ pc' = "WaitReady" /\ left' = 3
      /\ UNCHANGED <<buf, callVars, status, hostCB, secCB, devVars, overrun>>
  BY DEF SendwACK, EnterWait, Dwords, RequestWords
<1>2. Quiet'
  BY <1>1 DEF RInv, LinkInv, Quiet, devVars
<1>3. LinkInv'
  BY <1>1, <1>2 DEF RInv, LinkInv, RequestWords, callVars, devVars
<1> QED BY <1>1, <1>3, BufferSame

(* Nothing times out on a timely link, and nothing fails on a reliable one. *)
LEMMA NoFaults == (Timely => ~TimeOut) /\ (Reliable => Timely /\ ~MapFails)
BY DEF Timely, Reliable, TimeOut, MapFails, Fault

(* Header and payload of a request, one behind the other.                  *)
LEMMA RequestPut ==
  ASSUME NEW h \in Word, NEW a \in Word, NEW b \in Word, NEW c \in Word
  PROVE  <<>> \o <<h>> \o <<a, b, c>> = <<h, a, b, c>>
<1> DEFINE s == <<>> \o <<h>> \o <<a, b, c>>
           t == <<h, a, b, c>>
<1>1. <<a, b, c>> \in Seq(Word) /\ Len(<<a, b, c>>) = 3
  OBVIOUS
<1>2. s \in Seq(Word) /\ Len(s) = 4
  BY <1>1
<1>3. s[1] = h /\ s[2] = a /\ s[3] = b /\ s[4] = c
  BY <1>1
<1>4. t \in Seq(Word) /\ Len(t) = 4 /\ t[1] = h /\ t[2] = a /\ t[3] = b /\ t[4] = c
  OBVIOUS
<1> HIDE DEF s, t
<1>5. \A i \in 1 .. 4 : s[i] = t[i]
  BY <1>3, <1>4
<1>6. s = [i \in 1 .. 4 |-> s[i]] /\ t = [i \in 1 .. 4 |-> t[i]]
  BY <1>2, <1>4
<1>7. s = t
  BY <1>5, <1>6
<1> QED BY <1>7 DEF s, t

(* The request goes out in one message, or a first fragment of it does.    *)
LEMMA SendFragmentLink == RInv /\ SendFragment => LinkInv' /\ KeyboxInv'
<1> SUFFICES ASSUME RInv, SendFragment PROVE LinkInv' /\ KeyboxInv'
  OBVIOUS
<1>1. pc = "WaitReady" /\ left = 3 /\ Quiet /\ buf = Request(offset, req_size)
  BY DEF SendFragment, RInv, LinkInv, RequestWords
<1>2. depth \in Nat /\ depth >= 2
  BY HeciAssumption DEF RInv, IInv, TypeOK
<1>3. /\ UNCHANGED <<buf, callVars, rxVars, status, secCB, devVars, overrun>>
      /\ h_is' = FALSE /\ pc' # "Idle"
  BY DEF SendFragment, EnterWait
<1>4. secCB' = <<>> /\ devOut' = <<>> /\ depth' = depth
  BY <1>1, <1>3 DEF Quiet, devVars
<1>5. KeyboxInv'
  BY <1>1, <1>3, BufferSame
<1>6. CASE depth > RequestWords
  <2>1. ChunkSize = 3
    BY <1>1, <1>2, <1>6 DEF ChunkSize, RequestWords
  <2> DEFINE hdr == LinkHeader(12, TRUE)
             payload == [k \in 1 .. 3 |-> buf[0 + k - 1]]
             last == left - ChunkSize = 0
             length == IF last THEN 4 * RequestWords - 4 * (RequestWords - left) ELSE 4 * ChunkSize
  <2>2. hostCB' = hostCB \o <<hdr>> \o payload /\ pc' = "WaitHead"
    <3>1. RequestWords - left = 0 /\ last /\ length = 12
      BY <1>1, <2>1 DEF RequestWords
    <3>2. LinkHeader(length, last) = hdr
      BY <3>1 DEF LinkHeader
    <3>3. /\ hostCB' = hostCB \o <<LinkHeader(length, last)>>
                       \o [k \in 1 .. ChunkSize |-> buf[RequestWords - left + k - 1]]
          /\ pc' = IF last THEN "WaitHead" ELSE "WaitIS"
      BY DEF SendFragment, EnterWait
    <3> HIDE DEF hdr, last, length
    <3> QED BY <2>1, <3>1, <3>2, <3>3
  <2>3. payload = <<buf[0], buf[1], buf[2]>>
    OBVIOUS
  <2>4. hostCB = <<>>
    BY <1>1 DEF Quiet
  <2> HIDE DEF payload, hdr
  <2>5. hostCB' = <<hdr, buf[0], buf[1], buf[2]>>
    <3>1. hdr \in Word /\ buf[0] \in Word /\ buf[1] \in Word /\ buf[2] \in Word
      <4>1. hdr \in Word
        BY DEF hdr, LinkHeader, Word, U16
      <4>2. buf \in [0 .. BufWords-1 -> Word]
        BY DEF RInv, IInv, TypeOK
      <4> QED BY <4>1, <4>2, BufWordsFact
    <3> QED BY <2>2, <2>3, <2>4, <3>1, RequestPut
  <2>6. Asked'
    BY <1>1, <1>3, <1>4, <2>5 DEF Asked, Message, RequestWords, hdr, callVars
  <2>7. LinkInv'
    BY <1>1, <1>3, <1>4, <1>6, <2>2, <2>6 DEF RInv, LinkInv, callVars
  <2> QED BY <1>5, <2>7
<1>7. CASE ~(depth > RequestWords)
  <2>1. ChunkSize = depth - 1 /\ left - ChunkSize # 0 /\ depth < RequestWords + 1
    BY <1>1, <1>2, <1>7 DEF ChunkSize, RequestWords
  <2> DEFINE hdr == LinkHeader(4 * (depth - 1), FALSE)
             payload == [k \in 1 .. depth - 1 |-> buf[0 + k - 1]]
  <2>2. hostCB' = hostCB \o <<hdr>> \o payload /\ pc' = "WaitIS"
    <3>1. RequestWords - left = 0 /\ (left - ChunkSize = 0) = FALSE
      BY <1>1, <2>1 DEF RequestWords
    <3> QED BY <2>1, <3>1 DEF SendFragment, EnterWait, RequestWords
  <2>3. Len(payload) = depth - 1 /\ payload \in Seq({buf[0], buf[1]})
    BY <1>2, <2>1 DEF RequestWords
  <2>4. hostCB = <<>>
    BY <1>1 DEF Quiet
  <2> HIDE DEF payload, hdr
  <2>5. hostCB' = <<hdr>> \o payload
    BY <2>2, <2>4
  <2>6. hostCB'[1] = hdr /\ Len(hostCB') = depth
    BY <1>2, <2>3, <2>5
  <2>7. phase = "size"
    BY <1>1, <1>7 DEF RInv, LinkInv, IInv, TypeOK
  <2>8. Stuck'
    BY <1>3, <1>4, <2>1, <2>6, <2>7 DEF Stuck, hdr, callVars
  <2>9. LinkInv'
    BY <1>1, <1>3, <1>4, <2>2, <2>7, <2>8 DEF RInv, LinkInv, callVars
  <2> QED BY <1>5, <2>9
<1> QED BY <1>6, <1>7

(* A stuck host fails once the CSE has taken its fragment.                 *)
LEMMA SendGivesUpLink == RInv /\ SendGivesUp => LinkInv' /\ KeyboxInv'
<1> SUFFICES ASSUME RInv, SendGivesUp PROVE LinkInv' /\ KeyboxInv'
  OBVIOUS
<1>1. /\ pc = "WaitIS" /\ h_is /\ pc' = "Parse" /\ status' = 1
      /\ UNCHANGED <<buf, callVars, left, linkVars, devVars, overrun>>
  BY DEF SendGivesUp, Ack, is_interrupt_raised
<1>2. phase = "size" /\ Quiet /\ buf = Request(offset, req_size)
  BY <1>1 DEF RInv, LinkInv, Stuck, Quiet
<1>3. Quiet' /\ phase' = "size" /\ Unheard'
  BY <1>1, <1>2 DEF Quiet, Unheard, linkVars, devVars, callVars
<1>4. LinkInv'
  BY <1>1, <1>3 DEF RInv, LinkInv
<1> QED BY <1>1, <1>4, BufferSame

(* So does the host whose mapping failed, before it sent anything.         *)
LEMMA MapFailsLink == RInv /\ MapFails => LinkInv' /\ KeyboxInv'
<1> SUFFICES ASSUME RInv, MapFails PROVE LinkInv' /\ KeyboxInv'
  OBVIOUS
<1>1. /\ pc = "SendwACK" /\ pc' = "Parse" /\ status' = 1 /\ FaultKinds # {}
      /\ UNCHANGED <<buf, callVars, linkVars, devVars, overrun>>
  BY DEF MapFails, Fault, Ack
<1>2. Quiet' /\ Unheard'
  BY <1>1 DEF RInv, LinkInv, Quiet, Unheard, linkVars, devVars, callVars
<1>3. LinkInv'
  BY <1>1, <1>2 DEF RInv, LinkInv, callVars, devVars
<1> QED BY <1>1, <1>3, BufferSame

(* The rest of a message, one dword on.                                    *)
LEMMA RestOf ==
  ASSUME NEW w \in Seq(Word), NEW i \in Nat, NEW to \in Nat, i < to, to <= Len(w), NEW t \in Seq(Word)
  PROVE  /\ Head(SubSeq(w, i + 1, to) \o t) = w[i + 1]
         /\ Tail(SubSeq(w, i + 1, to) \o t) = SubSeq(w, (i + 1) + 1, to) \o t
<1> DEFINE s == SubSeq(w, i + 1, to)
           u == SubSeq(w, (i + 1) + 1, to)
<1>1. s \in Seq(Word) /\ Len(s) = to - i /\ \A j \in 1 .. to - i : s[j] = w[i + j]
  OBVIOUS
<1>2. u \in Seq(Word) /\ Len(u) = to - i - 1 /\ \A j \in 1 .. to - i - 1 : u[j] = w[i + 1 + j]
  OBVIOUS
<1> HIDE DEF s, u
<1>3. s # <<>> /\ Head(s) = w[i + 1]
  BY <1>1
<1>4. /\ Tail(s) \in Seq(Word) /\ Len(Tail(s)) = to - i - 1
      /\ \A j \in 1 .. to - i - 1 : Tail(s)[j] = s[j + 1]
  BY <1>1, <1>3
<1>5. ASSUME NEW j \in 1 .. to - i - 1 PROVE Tail(s)[j] = u[j]
  <2>1. j + 1 \in 1 .. to - i /\ i + (j + 1) = i + 1 + j
    OBVIOUS
  <2>2. s[j + 1] = w[i + (j + 1)]
    BY <1>1, <2>1
  <2>3. Tail(s)[j] = s[j + 1] /\ u[j] = w[i + 1 + j]
    BY <1>2, <1>4
  <2> QED BY <2>1, <2>2, <2>3
<1>6. Tail(s) = u
  BY <1>2, <1>4, <1>5, SameSeq
<1>7. Head(s \o t) = Head(s) /\ Tail(s \o t) = Tail(s) \o t
  BY <1>1, <1>3, StreamTaken
<1> QED BY <1>3, <1>6, <1>7 DEF s, u

LEMMA NothingLeft ==
  ASSUME NEW s \in Seq(Word), NEW t \in Seq(Word), s \o t = <<>>
  PROVE  s = <<>> /\ t = <<>>
OBVIOUS

LEMMA HeadOfMessage ==
  ASSUME NEW h \in Word, NEW w \in Seq(Word)
  PROVE  Head(<<h>> \o w) = h /\ Tail(<<h>> \o w) = w
<1> DEFINE s == <<h>> \o w
<1>1. s \in Seq(Word) /\ Len(s) = Len(w) + 1 /\ s[1] = h /\ \A i \in 1 .. Len(w) : s[i + 1] = w[i]
  OBVIOUS
<1> HIDE DEF s
<1>2. Head(s) = h
  BY <1>1
<1>3. /\ Tail(s) \in Seq(Word) /\ Len(Tail(s)) = Len(w)
      /\ \A i \in 1 .. Len(w) : Tail(s)[i] = s[i + 1]
  BY <1>1
<1>4. Tail(s) = w
  BY <1>1, <1>3, SameSeq
<1> QED BY <1>2, <1>4 DEF s

(* The head of the answer, or of its second part.                          *)
LEMMA ReceiveHeadLink == RInv /\ ReceiveHead => LinkInv' /\ KeyboxInv'
<1> SUFFICES ASSUME RInv, ReceiveHead PROVE LinkInv' /\ KeyboxInv'
  OBVIOUS
<1>1. /\ pc = "WaitHead" /\ secCB # <<>>
      /\ head' = Head(secCB) /\ secCB' = Tail(secCB) /\ index' = 0
      /\ UNCHANGED <<buf, callVars, left, hostCB, devVars, overrun>>
  BY DEF ReceiveHead, is_dev_data_ready
<1>2. Answered
  BY <1>1 DEF RInv, LinkInv, Asked
<1>3. PICK r \in {0, 1}, n \in 0 .. MaxTransfer, from \in Nat, to \in Nat :
        /\ Legal(r, n) /\ Part(n, from, to)
        /\ secCB \o devOut = <<Carries(n, from, to)>>
             \o (SubSeq(Response(r, offset, n), from + 1, to) \o After(r, n, to))
  BY <1>2 DEF Answered
<1> DEFINE w == SubSeq(Response(r, offset, n), from + 1, to) \o After(r, n, to)
           h == Carries(n, from, to)
<1>4. /\ (n > 0 => offset + n <= FileSize) /\ offset \in U16
      /\ secCB \in Seq(Word) /\ devOut \in Seq(Word)
  BY <1>3, LegalIs DEF RInv, IInv, KeyboxInv, TypeOK
<1>5. w \in Seq(Word)
  <2>1. After(r, n, to) \in Seq(Word)
    BY <1>3, <1>4, AfterIs
  <2>2. SubSeq(Response(r, offset, n), from + 1, to) \in Seq(Word)
    <3> DEFINE v == Response(r, offset, n)
    <3>1. v \in Seq(Word) /\ Len(v) = Total(n)
      BY <1>4, ResponseIs DEF Whole, Total
    <3>2. from < to /\ to <= Total(n)
      BY <1>3, PartIs
    <3> HIDE DEF v
    <3>3. SubSeq(v, from + 1, to) \in Seq(Word)
      BY <3>1, <3>2
    <3> QED BY <3>3 DEF v
  <2> QED BY <2>1, <2>2
<1>6. h \in Word /\ HeadLength(h) # 0 /\ from < to
  BY <1>3, PartIs
<1> HIDE DEF w, h
<1>7. secCB \o devOut = <<h>> \o w
  BY <1>3 DEF w, h
<1>8. head' = h /\ secCB' \o devOut' = w
  <2>1. devOut' = devOut
    BY <1>1 DEF devVars
  <2>2. Head(secCB) = h /\ Tail(secCB) \o devOut = w
    <3>1. Head(secCB \o devOut) = Head(secCB) /\ Tail(secCB \o devOut) = Tail(secCB) \o devOut
      BY <1>1, <1>4, StreamTaken
    <3>2. Head(<<h>> \o w) = h /\ Tail(<<h>> \o w) = w
      BY <1>5, <1>6, HeadOfMessage
    <3> QED BY <1>7, <3>1, <3>2
  <2> QED BY <1>1, <2>1, <2>2
<1>9. EnterWait("WaitData") /\ UNCHANGED status
  <2>1. HeadLength(Head(secCB)) # 0
    BY <1>1, <1>6, <1>8
  <2> QED BY <2>1 DEF ReceiveHead
<1>10. pc' = "WaitData"
  BY <1>9 DEF EnterWait
<1>11. Reading'
  <2>1. hostCB' = <<>> /\ offset' = offset /\ req_size' = req_size
    BY <1>1, <1>2 DEF Answered, callVars
  <2>2. Legal(r, n)' /\ Received(r, n, 0)'
    BY <1>3, <2>1 DEF Legal, Received
  <2>3. index' < to - from /\ from + index' + 1 = from + 1
    BY <1>1, <1>6
  <2>4. (SubSeq(Response(r, offset, n), from + index + 1, to) \o After(r, n, to))' = w
    BY <2>1, <2>3 DEF w, After
  <2>5. head' = Carries(n, from, to)
    BY <1>8 DEF h
  <2>6. Received(r, n, index)'
    BY <1>1, <2>2
  <2> QED BY <1>3, <1>8, <2>1, <2>2, <2>3, <2>4, <2>5, <2>6 DEF Reading
<1>12. LinkInv'
  BY <1>1, <1>10, <1>11 DEF RInv, LinkInv, callVars, devVars
<1>13. KeyboxInv'
  BY <1>1, <1>10, BufferSame
<1> QED BY <1>12, <1>13

(* A dword of the answer.                                                  *)
LEMMA ReceiveDataLink == RInv /\ ReceiveData => LinkInv' /\ KeyboxInv'
<1> SUFFICES ASSUME RInv, ReceiveData PROVE LinkInv' /\ KeyboxInv'
  OBVIOUS
<1>1. /\ pc = "WaitData" /\ secCB # <<>> /\ secCB' = Tail(secCB) /\ index' = index + 1
      /\ UNCHANGED <<callVars, head, left, hostCB, devVars>>
  BY DEF ReceiveData, is_dev_data_ready
<1>2. Reading
  BY <1>1 DEF RInv, LinkInv
<1>3. PICK r \in {0, 1}, n \in 0 .. MaxTransfer, from \in Nat, to \in Nat :
        /\ Legal(r, n) /\ Part(n, from, to)
        /\ head = Carries(n, from, to) /\ index < to - from
        /\ secCB \o devOut = SubSeq(Response(r, offset, n), from + index + 1, to) \o After(r, n, to)
        /\ ~Split(n) => Received(r, n, index)
  BY <1>2 DEF Reading
<1> DEFINE w == Response(r, offset, n)
           t == After(r, n, to)
<1>4. /\ (n > 0 => offset + n <= FileSize) /\ offset \in U16 /\ index \in Nat
      /\ secCB \in Seq(Word) /\ devOut \in Seq(Word) /\ buf \in [0 .. BufWords-1 -> Word]
  BY <1>3, LegalIs DEF RInv, IInv, KeyboxInv, TypeOK
<1>5. Whole(w, r, offset, n) /\ w \in Seq(Word) /\ Len(w) = Total(n)
  BY <1>4, ResponseIs DEF Whole, Total
<1>6. /\ from < to /\ to <= Total(n) /\ Total(n) <= BufWords /\ Total(n) \in Nat
      /\ Dwords(HeadLength(head)) = to - from
      /\ HeadComplete(head) <=> to = Total(n)
      /\ to # Total(n) => Part(n, to, Total(n))
      /\ ~Split(n) => from = 0 /\ to = Total(n)
  BY <1>3, PartIs
<1>7. t \in Seq(Word)
  BY <1>3, <1>4, AfterIs
<1>8. secCB \o devOut = SubSeq(w, (from + index) + 1, to) \o t
  BY <1>3, <1>4
<1> HIDE DEF w, t
<1>9. /\ Head(secCB) = w[from + index + 1]
      /\ secCB' \o devOut' = SubSeq(w, from + (index + 1) + 1, to) \o t
      /\ secCB' \in Seq(Word) /\ devOut' \in Seq(Word)
  <2>1. devOut' = devOut
    BY <1>1 DEF devVars
  <2>2. from + index \in Nat /\ from + index < to /\ to <= Len(w)
    BY <1>3, <1>4, <1>5, <1>6
  <2>3. /\ Head(secCB \o devOut) = w[(from + index) + 1]
        /\ Tail(secCB \o devOut) = SubSeq(w, ((from + index) + 1) + 1, to) \o t
    <3> DEFINE i == from + index
    <3>1. i \in Nat /\ i < to /\ to <= Len(w) /\ to \in Nat /\ secCB \o devOut = SubSeq(w, i + 1, to) \o t
      BY <1>8, <2>2
    <3> HIDE DEF i
    <3>2. w \in Seq(Word)
      BY <1>5
    <3>3. /\ Head(SubSeq(w, i + 1, to) \o t) = w[i + 1]
          /\ Tail(SubSeq(w, i + 1, to) \o t) = SubSeq(w, (i + 1) + 1, to) \o t
      BY <1>7, <3>1, <3>2, RestOf
    <3> QED BY <3>1, <3>3 DEF i
  <2>4. /\ Head(secCB) = w[(from + index) + 1]
        /\ Tail(secCB) \o devOut = SubSeq(w, ((from + index) + 1) + 1, to) \o t
    BY <1>1, <1>4, <2>3, StreamTaken
  <2>5. Tail(secCB) \in Seq(Word)
    BY <1>1, <1>4
  <2>6. (from + index) + 1 = from + index + 1 /\ ((from + index) + 1) + 1 = from + (index + 1) + 1
    BY <1>4
  <2> QED BY <1>1, <1>4, <2>1, <2>4, <2>5, <2>6
<1>10. index \in 0 .. BufWords-1 /\ DOMAIN buf = 0 .. BufWords-1
  BY <1>3, <1>4, <1>6, BufWordsFact
<1>11. buf' = [buf EXCEPT ![index] = w[from + index + 1]] /\ (KeyboxFits => ~overrun')
  <2>1. /\ buf' = IF index \in DOMAIN buf THEN [buf EXCEPT ![index] = Head(secCB)] ELSE buf
        /\ overrun' = (overrun \/ (BufBytes >= 4 * index /\ index \notin DOMAIN buf))
    BY DEF ReceiveData
  <2>2. (KeyboxFits => ~overrun) /\ index \in DOMAIN buf
    BY <1>10 DEF RInv, LinkInv
  <2>3. buf' = [buf EXCEPT ![index] = w[from + index + 1]]
    BY <1>9, <2>1, <2>2
  <2>4. KeyboxFits => ~overrun'
    BY <2>1, <2>2, Zenon
  <2> QED BY <2>3, <2>4
<1>12. hostCB' = <<>> /\ offset' = offset /\ req_size' = req_size /\ head' = head /\ depth' = depth
  BY <1>1, <1>2 DEF Reading, callVars, devVars
<1>13. Legal(r, n)' /\ w = Response(r, offset', n) /\ t = After(r, n, to)'
  BY <1>3, <1>12 DEF Legal, w, t, After
<1>14. ASSUME ~Split(n) PROVE \A k \in Nat : k = index + 1 => Received(r, n, k)'
  <2>1. from = 0 /\ \A j \in 0 .. index-1 : buf[j] = w[j + 1]
    BY <1>3, <1>6, <1>14 DEF Received, w
  <2>2. ASSUME NEW j \in 0 .. index PROVE buf'[j] = w[j + 1]
    <3>1. j \in 0 .. BufWords-1
      BY <1>4, <1>10, BufWordsFact
    <3>2. CASE j = index
      <4>1. from + index + 1 = j + 1
        BY <1>4, <2>1, <3>2
      <4> QED BY <1>4, <1>11, <3>1, <3>2, <4>1
    <3>3. CASE j # index
      <4>1. j \in 0 .. index-1
        BY <1>4, <3>3
      <4> QED BY <1>4, <1>11, <2>1, <3>1, <3>3, <4>1
    <3> QED BY <3>2, <3>3
  <2> SUFFICES ASSUME NEW k \in Nat, k = index + 1 PROVE Received(r, n, k)'
    OBVIOUS
  <2>3. \A j \in 0 .. k-1 : j \in 0 .. index
    BY <1>4
  <2> QED BY <1>13, <2>2, <2>3 DEF Received
<1>15. depth > RequestWords
  BY <1>1 DEF RInv, LinkInv
<1>16. phase = "size" => TotalFileSize(buf') \in {0, FileSize}
  <2> SUFFICES ASSUME phase = "size" PROVE TotalFileSize(buf') \in {0, FileSize}
    OBVIOUS
  <2>1. n = 0 /\ Total(n) = 3
    <3>1. req_size = 0
      BY <1>1 DEF RInv, KeyboxInv
    <3>2. n = 0
      BY <1>3, <3>1, HeciAssumption DEF Legal, ReadSizes
    <3> QED BY <3>2 DEF Total, Dwords
  <2>2. w[2].lo = FileSize /\ w[3].lo = 0
    BY <1>5, <2>1 DEF Whole
  <2>3. TotalFileSize(buf) \in {0, FileSize}
    BY <1>1 DEF RInv, KeyboxInv
  <2>4. 1 \in 0 .. BufWords-1
    BY BufWordsFact
  <2>5. CASE index = 1
    <3>1. from + index + 1 \in {2, 3}
      BY <1>3, <1>6, <2>1, <2>5
    <3>2. buf'[1] = w[from + index + 1]
      BY <1>4, <1>11, <2>4, <2>5
    <3> QED BY <2>2, <3>1, <3>2 DEF TotalFileSize
  <2>6. CASE index # 1
    BY <1>4, <1>11, <2>3, <2>4, <2>6 DEF TotalFileSize
  <2> QED BY <2>5, <2>6
<1>17. pc' # "Idle" => KeyboxInv'
  BY <1>1, <1>16, BufferSame
<1>18. CASE index + 1 < to - from
  <2>1. EnterWait("WaitData")
    BY <1>6, <1>18 DEF ReceiveData
  <2>2. pc' = "WaitData"
    BY <2>1 DEF EnterWait
  <2>3. index' < to - from /\ secCB' \o devOut' = SubSeq(w, from + index' + 1, to) \o t
    BY <1>1, <1>9, <1>18
  <2>4. ~Split(n) => Received(r, n, index)'
    <3>1. PICK k \in Nat : k = index + 1
      BY <1>4
    <3>2. ~Split(n) => Received(r, n, k)' /\ k = index'
      BY <1>1, <1>14, <3>1
    <3> QED BY <3>2 DEF Received
  <2>5. Reading'
    BY <1>3, <1>12, <1>13, <2>3, <2>4 DEF Reading
  <2>6. LinkInv'
    BY <1>11, <1>12, <1>15, <2>2, <2>5 DEF LinkInv
  <2> QED BY <1>17, <2>2, <2>6
<1>19. CASE ~(index + 1 < to - from)
  <2>1. EndFragment(head)
    BY <1>6, <1>19 DEF ReceiveData
  <2>2. index + 1 = to - from /\ from + (index + 1) + 1 = to + 1
    BY <1>3, <1>4, <1>19
  <2>3. secCB' \o devOut' = t
    <3>1. SubSeq(w, to + 1, to) = <<>>
      OBVIOUS
    <3> QED BY <1>7, <1>9, <2>2, <3>1
  <2>4. CASE to = Total(n)
    <3>1. pc' = "Parse" /\ status' = 0
      BY <1>6, <2>1, <2>4 DEF EndFragment, Ack
    <3>2. Quiet'
      <4>1. secCB' \o devOut' = <<>>
        BY <2>3, <2>4 DEF t, After
      <4> QED BY <1>9, <1>12, <4>1, NothingLeft DEF Quiet
    <3>3. ~Split(n) => Received(r, n, Total(n))'
      <4>1. ~Split(n) => Total(n) = index + 1
        BY <1>6, <2>2, <2>4
      <4> QED BY <1>6, <1>14, <4>1
    <3>4. Heard'
      BY <1>13, <3>1, <3>3 DEF Heard
    <3>5. LinkInv'
      BY <1>11, <1>12, <1>15, <3>1, <3>2, <3>4 DEF LinkInv
    <3> QED BY <1>17, <3>1, <3>5
  <2>5. CASE to # Total(n)
    <3>1. EnterWait("WaitHead") /\ status' = status
      BY <1>6, <2>1, <2>5 DEF EndFragment
    <3>2. pc' = "WaitHead"
      BY <3>1 DEF EnterWait
    <3>3. /\ t = <<Carries(n, to, Total(n))>> \o SubSeq(w, to + 1, Total(n))
          /\ After(r, n, Total(n))' = <<>>
      BY <2>5 DEF t, w, After
    <3>4. SubSeq(w, to + 1, Total(n)) \o <<>> = SubSeq(w, to + 1, Total(n))
      <4>1. SubSeq(w, to + 1, Len(w)) \in Seq(Word)
        BY <1>5
      <4>2. SubSeq(w, to + 1, Total(n)) \in Seq(Word)
        BY <1>5, <4>1
      <4> QED BY <4>2
    <3>5. Answered'
      BY <1>6, <1>12, <1>13, <2>3, <2>5, <3>3, <3>4 DEF Answered
    <3>6. LinkInv'
      BY <1>11, <1>12, <1>15, <3>2, <3>5 DEF LinkInv
    <3> QED BY <1>17, <3>2, <3>6
  <2> QED BY <2>4, <2>5
<1> QED BY <1>18, <1>19

(* What get_attkb reads in the buffer after an exchange that succeeded,    *)
(* when the answer came in one message.                                    *)
Speaks(r, n) ==
  /\ Legal(r, n) /\ Result(buf) = r /\ TotalFileSize(buf) = FileSize
  /\ buf[1].hi = offset /\ ReadSize(buf) = n
  /\ r = 0 => \A k \in 0 .. n-1 : FileData(buf, k) = Keybox[offset + k]

LEMMA HeardIs ==
  ASSUME RInv, InOnePiece, pc = "Parse", status = 0
  PROVE  \E r \in {0, 1}, n \in 0 .. MaxTransfer : Speaks(r, n)
<1>1. Heard
  BY DEF RInv, LinkInv, Unheard
<1>2. PICK r \in {0, 1}, n \in 0 .. MaxTransfer : Legal(r, n) /\ Received(r, n, 3 + Dwords(n))
  <2>1. ASSUME NEW n \in 0 .. MaxTransfer PROVE ~Split(n)
    BY MessageSizes, BufWordsFact, HeciAssumption DEF InOnePiece, Split, Total
  <2> QED BY <1>1, <2>1 DEF Heard, Total
<1> DEFINE w == Response(r, offset, n)
<1>3. (n > 0 => offset + n <= FileSize) /\ offset \in U16 /\ Dwords(n) \in Nat /\ n \in Nat
  <2>1. TypeOK /\ offset <= FileSize
    BY DEF RInv, IInv, KeyboxInv
  <2>2. n > 0 => offset + n <= FileSize
    BY <1>2, <2>1, LegalIs
  <2>3. Dwords(n) \in Nat /\ n \in Nat
    BY MessageSizes, HeciAssumption
  <2> QED BY <2>1, <2>2, <2>3 DEF TypeOK
<1>4. Whole(w, r, offset, n)
  BY <1>3, ResponseIs
<1>5. \A j \in 0 .. (3 + Dwords(n)) - 1 : buf[j] = w[j + 1]
  BY <1>2 DEF Received
<1> HIDE DEF w
<1>6. buf[0] = w[1] /\ buf[1] = w[2] /\ buf[2] = w[3]
  <2>1. 0 + 1 = 1 /\ 1 + 1 = 2 /\ 2 + 1 = 3
    OBVIOUS
  <2>2. 0 \in 0 .. (3 + Dwords(n)) - 1 /\ 1 \in 0 .. (3 + Dwords(n)) - 1 /\ 2 \in 0 .. (3 + Dwords(n)) - 1
    BY <1>3
  <2> QED BY <1>5, <2>1, <2>2
<1>7. Result(buf) = r
  <2>1. (256 * r) \div 256 = r
    OBVIOUS
  <2>2. buf[0].hi = 256 * r
    BY <1>4, <1>6 DEF Whole
  <2> QED BY <2>1, <2>2 DEF Result
<1>8. TotalFileSize(buf) = FileSize /\ buf[1].hi = offset /\ ReadSize(buf) = n
  BY <1>4, <1>6 DEF Whole, TotalFileSize, ReadSize
<1>9. ASSUME NEW k \in 0 .. n-1 PROVE FileData(buf, k) = Keybox[offset + k]
  <2> DEFINE q == k \div 4
  <2>1. q \in 0 .. Dwords(n)-1
    BY <1>3 DEF Dwords
  <2>2. 3 + q \in 0 .. (3 + Dwords(n)) - 1 /\ (3 + q) + 1 = 4 + q
    BY <1>3, <2>1
  <2>3. buf[3 + q] = w[4 + q]
    BY <1>5, <2>2
  <2>4. w[4 + q] = DataWord(offset, q, n)
    BY <1>4, <2>1 DEF Whole
  <2>5. buf[ResponseWords + k \div 4] = DataWord(offset, k \div 4, n)
    BY <2>3, <2>4 DEF ResponseWords, q
  <2>6. offset \in Nat /\ offset + n <= FileSize
    BY <1>3 DEF U16
  <2> QED BY <2>5, <2>6, FileDataIs
<1>10. Speaks(r, n)
  BY <1>2, <1>7, <1>8, <1>9 DEF Speaks
<1> QED BY <1>10

(* The call ends with 0 and leaves the link as it is.                      *)
LEMMA ReturnsZero ==
  ASSUME RInv, pc = "Parse", pc' = "Idle", ret' = 0,
         UNCHANGED <<attkb, size, offset, phase, req_size, linkVars, devVars, overrun>>
  PROVE  LinkInv' /\ KeyboxInv'
<1>1. Quiet' /\ (KeyboxFits => ~overrun')
  BY DEF RInv, LinkInv, Quiet, linkVars, devVars
<1>2. LinkInv'
  BY <1>1 DEF LinkInv
<1>3. KeyboxInv'
  BY DEF RInv, KeyboxInv
<1> QED BY <1>2, <1>3

LEMMA ParseSizeLink == RInv /\ ParseSize => LinkInv' /\ KeyboxInv'
<1> SUFFICES ASSUME RInv, ParseSize PROVE LinkInv' /\ KeyboxInv'
  OBVIOUS
<1>1. /\ pc = "Parse" /\ phase = "size"
      /\ UNCHANGED <<attkb, status, linkVars, devVars, overrun>>
  BY DEF ParseSize
<1>2. CASE Rejected \/ TotalFileSize(buf) = 0
  <2>1. pc' = "Idle" /\ ret' = 0 /\ UNCHANGED <<phase, size, offset, req_size>>
    BY <1>2 DEF ParseSize, Return
  <2> QED BY <1>1, <2>1, ReturnsZero
<1>3. CASE ~(Rejected \/ TotalFileSize(buf) = 0)
  <2>1. status = 0
    <3>1. offset = 0 /\ 0 \in U16 /\ req_size \in U16
      BY <1>1 DEF RInv, IInv, Accounting, TypeOK, U16
    <3>2. Unheard => TotalFileSize(buf) = 0
      BY <3>1, RequestIs DEF TotalFileSize, Unheard
    <3> QED BY <1>1, <1>3, <3>2 DEF RInv, LinkInv, Heard
  <2>2. TotalFileSize(buf) = FileSize
    BY <1>1, <1>3 DEF RInv, KeyboxInv
  <2>3. /\ phase' = "read" /\ size' = FileSize /\ offset' = 0
        /\ Ask(0, FileSize)
    BY <1>3, <2>2 DEF ParseSize
  <2>4. pc' = "SendwACK" /\ buf' = Request(offset', req_size') /\ ret' = ret
    BY <2>3 DEF Ask
  <2>5. Quiet' /\ (KeyboxFits => ~overrun') /\ depth' > RequestWords
    BY <1>1, <2>1 DEF RInv, LinkInv, Quiet, linkVars, devVars
  <2>6. LinkInv'
    BY <2>4, <2>5 DEF LinkInv
  <2>7. KeyboxInv'
    BY <1>1, <2>3, <2>4, KeyboxFact DEF RInv, KeyboxInv
  <2> QED BY <2>6, <2>7
<1> QED BY <1>2, <1>3

(* A chunk of the keybox goes where the keybox has it; a request taken for *)
(* an answer makes the host store one byte and ask for the next.  Whatever *)
(* is taken for one, no more is stored than the size of the keybox.        *)
LEMMA ParseReadLink == RInv /\ ParseRead => LinkInv' /\ KeyboxInv'
<1> SUFFICES ASSUME RInv, ParseRead PROVE LinkInv' /\ KeyboxInv'
  OBVIOUS
<1> DEFINE n == ReadSize(buf)
<1>1. /\ pc = "Parse" /\ phase = "read"
      /\ UNCHANGED <<phase, size, status, linkVars, devVars>>
  BY DEF ParseRead
<1>2. depth > RequestWords /\ (Heard \/ Unheard) /\ size = FileSize
  BY <1>1 DEF RInv, LinkInv, KeyboxInv
<1>3. CASE Rejected \/ Oversized(n)
  <2>1. /\ pc' = "Idle" /\ ret' = 0
        /\ UNCHANGED <<attkb, offset, req_size, overrun>>
    BY <1>3 DEF ParseRead, Return
  <2> QED BY <1>1, <2>1, ReturnsZero
<1>4. CASE ~(Rejected \/ Oversized(n))
  <2>1. /\ attkb' = Stored(n) /\ offset' = offset + n
        /\ overrun' = (overrun \/ offset + n > MaxAttkb)
        /\ IF remaining = n
           THEN Return(size) /\ UNCHANGED <<buf, req_size>>
           ELSE Ask(offset + n, remaining - n)
    BY <1>4 DEF ParseRead
  <2>2. /\ offset \in Nat /\ n \in Nat /\ FileSize \in Nat /\ MaxAttkb \in Nat
        /\ remaining \in Nat /\ offset + remaining = FileSize
    <3>1. 2 \in 0 .. BufWords-1
      BY BufWordsFact
    <3>2. buf[2] \in Word
      BY <3>1 DEF RInv, IInv, TypeOK
    <3>3. n \in Nat
      BY <3>2 DEF ReadSize, Word, U16
    <3> QED BY <1>2, <3>3, HeciAssumption DEF RInv, IInv, Accounting, TypeOK, U16
  <2>3. n <= remaining
    BY <1>4, <2>2 DEF Oversized
  <2> HIDE DEF n
  <2>4. offset + n <= FileSize
    BY <2>2, <2>3
  <2>5. KeyboxFits => ~overrun'
    <3>1. KeyboxFits => ~overrun /\ ~(offset + n > MaxAttkb)
      BY <2>2, <2>4 DEF RInv, LinkInv, KeyboxFits
    <3> QED BY <2>1, <3>1, Zenon
  <2>6. Quiet' /\ depth' > RequestWords
    BY <1>1, <1>2 DEF RInv, LinkInv, Quiet, linkVars, devVars
  <2>7. ASSUME FaultKinds = {}, InOnePiece, NEW i \in 0 .. MaxAttkb-1, i < offset'
        PROVE  attkb'[i] = Keybox[i]
    <3>1. attkb'[i] = IF offset <= i /\ i < offset + n THEN FileData(buf, i - offset) ELSE attkb[i]
      <4>1. DOMAIN attkb = 0 .. MaxAttkb-1
        BY DEF RInv, IInv, TypeOK
      <4> QED BY <2>1, <2>7, <4>1 DEF Stored
    <3>2. CASE i < offset
      <4>1. ~(offset <= i)
        BY <2>2, <2>7, <3>2
      <4> QED BY <2>7, <3>1, <3>2, <4>1 DEF RInv, KeyboxInv
    <3>3. CASE ~(i < offset)
      <4>1. status = 0
        BY <1>1, <1>2, <2>7 DEF Heard, Unheard
      <4>2. PICK r \in {0, 1}, m \in 0 .. MaxTransfer : Speaks(r, m)
        BY <1>1, <2>7, <4>1, HeardIs
      <4>3. m = n /\ r = 0
        BY <1>4, <4>2 DEF Speaks, Rejected, n
      <4>4. offset <= i /\ i - offset \in 0 .. n-1 /\ offset + (i - offset) = i
        BY <2>1, <2>2, <2>7, <3>3
      <4>5. FileData(buf, i - offset) = Keybox[offset + (i - offset)]
        BY <4>2, <4>3, <4>4 DEF Speaks
      <4> QED BY <2>1, <2>7, <3>1, <4>4, <4>5
    <3> QED BY <3>2, <3>3
  <2>8. CASE remaining = n
    <3>1. pc' = "Idle" /\ ret' = size
      BY <2>1, <2>8 DEF Return
    <3>2. LinkInv'
      BY <2>5, <2>6, <3>1 DEF LinkInv
    <3>3. KeyboxInv'
      BY <1>1, <1>2, <2>1, <2>4, <2>7, <3>1 DEF KeyboxInv
    <3> QED BY <3>2, <3>3
  <2>9. CASE remaining # n
    <3>1. pc' = "SendwACK" /\ buf' = Request(offset', req_size') /\ ret' = ret
      BY <2>1, <2>9 DEF Ask
    <3>2. LinkInv'
      BY <2>5, <2>6, <3>1 DEF LinkInv
    <3>3. KeyboxInv'
      BY <1>1, <1>2, <2>1, <2>4, <2>7, <3>1 DEF RInv, KeyboxInv
    <3> QED BY <3>2, <3>3
  <2> QED BY <2>8, <2>9
<1> QED BY <1>3, <1>4

-----------------------------------------------------------------------------
(* The CSE.                                                                *)
LEMMA DevKeeps ==
  UNCHANGED hostVars =>
    UNCHANGED <<pc, phase, buf, callVars, status, left, head, index, overrun>>
BY DEF hostVars, callVars, rxVars

(* A whole message in the host's buffer is the request; a fragment is one  *)
(* of a host that is stuck.                                                *)
LEMMA MessageIs ==
  ASSUME RInv, hostCB # <<>>
  PROVE  \/ /\ pc = "WaitHead" /\ Asked /\ WholeRequest /\ MsgWords = Len(hostCB)
         \/ /\ pc = "WaitIS" /\ Stuck /\ ~WholeRequest /\ MsgWords = Len(hostCB)
<1>1. (pc = "WaitHead" /\ Asked) \/ (pc = "WaitIS" /\ Stuck)
  <2>1. ~Quiet /\ ~Answered /\ ~Reading
    BY DEF Quiet, Answered, Reading
  <2>2. pc \in {"Idle", "SendwACK", "Parse", "WaitReady", "WaitIS", "WaitHead", "WaitData"}
    BY DEF RInv, IInv, TypeOK, Waits
  <2>3. /\ pc \in {"Idle", "SendwACK", "WaitReady", "Parse"} => Quiet
        /\ pc = "WaitIS" => Stuck
        /\ pc = "WaitHead" => Asked \/ Answered
        /\ pc = "WaitData" => Reading
    BY DEF RInv, LinkInv
  <2> QED BY <2>1, <2>2, <2>3
<1>2. CASE pc = "WaitHead" /\ Asked
  <2>1. hostCB = <<LinkHeader(12, TRUE), buf[0], buf[1], buf[2]>>
    BY <1>2 DEF Asked, Message, RequestWords
  <2>2. hostCB[1] = LinkHeader(12, TRUE) /\ Len(hostCB) = 4
    BY <2>1
  <2>3. 12 \in 0 .. 511 /\ Dwords(12) = 3
    BY DEF Dwords
  <2>4. HeadLength(hostCB[1]) = 12 /\ HeadComplete(hostCB[1])
    BY <2>2, <2>3, HeaderIs
  <2>5. MsgWords = 4
    BY <2>3, <2>4 DEF MsgWords
  <2>6. WholeRequest
    BY <2>4, <2>5 DEF WholeRequest, RequestWords
  <2> QED BY <1>2, <2>2, <2>5, <2>6
<1>3. CASE pc = "WaitIS" /\ Stuck
  <2>1. depth \in 2 .. 3
    BY <1>3, HeciAssumption DEF RInv, IInv, TypeOK, Stuck, RequestWords
  <2>2. 4 * (depth - 1) \in 0 .. 511 /\ 1 + Dwords(4 * (depth - 1)) = depth
    BY <2>1 DEF Dwords
  <2>3. hostCB[1] = LinkHeader(4 * (depth - 1), FALSE) /\ Len(hostCB) = depth
    BY <1>3 DEF Stuck
  <2>4. HeadLength(hostCB[1]) = 4 * (depth - 1) /\ ~HeadComplete(hostCB[1])
    BY <2>2, <2>3, HeaderIs
  <2> QED BY <1>3, <2>2, <2>3, <2>4 DEF MsgWords, WholeRequest
<1> QED BY <1>1, <1>2, <1>3

(* The CSE empties the host's circular buffer.                             *)
LEMMA Dropped ==
  ASSUME RInv, hostCB # <<>>, DropMessage
  PROVE  hostCB' = <<>>
<1>1. MsgWords = Len(hostCB) /\ hostCB \in Seq(Word)
  BY MessageIs DEF RInv, IInv, TypeOK
<1>2. hostCB' = SubSeq(hostCB, Len(hostCB) + 1, Len(hostCB))
  BY <1>1 DEF DropMessage
<1> QED BY <1>1, <1>2, AllOf

LEMMA DevTakeFragmentLink == RInv /\ DevTakeFragment => LinkInv' /\ KeyboxInv'
<1> SUFFICES ASSUME RInv, DevTakeFragment PROVE LinkInv' /\ KeyboxInv'
  OBVIOUS
<1>1. /\ hostCB # <<>> /\ ~WholeRequest /\ DropMessage
      /\ UNCHANGED <<hostVars, secCB, devVars>>
  BY DEF DevTakeFragment, MessageIn
<1>2. hostCB' = <<>>
  BY <1>1, Dropped
<1>3. pc = "WaitIS" /\ Stuck
  BY <1>1, MessageIs
<1>4. UNCHANGED <<pc, phase, buf, callVars, status, left, head, index, overrun, depth, devOut, secCB>>
  BY <1>1, DevKeeps DEF devVars
<1>5. Stuck'
  BY <1>2, <1>3, <1>4 DEF Stuck
<1>6. LinkInv'
  BY <1>3, <1>4, <1>5 DEF RInv, LinkInv, callVars
<1>7. KeyboxInv'
  BY <1>4, BufferSame
<1> QED BY <1>6, <1>7

(* An answer to the request of this exchange, and to no other.             *)
LEMMA DevAnswerLink == RInv /\ DevAnswer => LinkInv' /\ KeyboxInv'
<1> SUFFICES ASSUME RInv, DevAnswer PROVE LinkInv' /\ KeyboxInv'
  OBVIOUS
<1>1. /\ hostCB # <<>> /\ WholeRequest /\ DropMessage
      /\ UNCHANGED <<hostVars, secCB, h_is, sec_rdy, depth>>
  BY DEF DevAnswer, MessageIn
<1>2. hostCB' = <<>>
  BY <1>1, Dropped
<1>3. pc = "WaitHead" /\ Asked
  BY <1>1, MessageIs
<1>4. UNCHANGED <<pc, phase, buf, callVars, status, left, head, index, overrun, depth, secCB>>
  BY <1>1, DevKeeps
<1>5. offset \in U16 /\ req_size \in U16 /\ offset <= FileSize /\ TypeOK
  BY DEF RInv, IInv, TypeOK, KeyboxInv
<1>6. hostCB[3].lo = offset /\ hostCB[3].hi = req_size
  <2>1. hostCB[3] = buf[1]
    BY <1>3 DEF Asked, Message
  <2>2. buf = Request(offset, req_size)
    BY <1>3 DEF Asked
  <2> QED BY <1>5, <2>1, <2>2, RequestIs
<1>7. PICK r \in {0, 1}, n \in 0 .. MaxTransfer :
        Legal(r, n) /\ devOut' = devOut \o Answer(r, offset, n)
  <2>1. (\E n \in ReadSizes(offset, req_size) : devOut' = devOut \o Answer(0, offset, n))
        \/ devOut' = devOut \o Answer(1, offset, 0)
    BY <1>6 DEF DevAnswer
  <2>2. CASE \E n \in ReadSizes(offset, req_size) : devOut' = devOut \o Answer(0, offset, n)
    <3>1. PICK n \in ReadSizes(offset, req_size) : devOut' = devOut \o Answer(0, offset, n)
      BY <2>2
    <3>2. Legal(0, n)
      BY DEF Legal
    <3>3. n \in 0 .. MaxTransfer
      BY <1>5, <3>2, LegalIs
    <3> QED BY <3>1, <3>2, <3>3
  <2>3. CASE devOut' = devOut \o Answer(1, offset, 0)
    <3>1. Legal(1, 0) /\ 0 \in 0 .. MaxTransfer
      BY HeciAssumption DEF Legal
    <3> QED BY <2>3, <3>1
  <2> QED BY <2>1, <2>2, <2>3
<1>8. n > 0 => offset + n <= FileSize
  BY <1>5, <1>7, LegalIs
<1>9. PICK to \in Nat :
        /\ Part(n, 0, to)
        /\ Answer(r, offset, n) = <<Carries(n, 0, to)>>
             \o (SubSeq(Response(r, offset, n), 1, to) \o After(r, n, to))
        /\ Answer(r, offset, n) \in Seq(Word)
  BY <1>5, <1>8, AnswerIs
<1>10. secCB' \o devOut' = Answer(r, offset, n)
  <2> DEFINE a == Answer(r, offset, n)
  <2>1. secCB' = <<>> /\ devOut' = <<>> \o a
    BY <1>3, <1>4, <1>7 DEF Asked
  <2>2. a \in Seq(Word)
    BY <1>9
  <2> HIDE DEF a
  <2>3. secCB' \o devOut' = a
    BY <2>1, <2>2
  <2> QED BY <2>3 DEF a
<1>11. offset' = offset /\ req_size' = req_size
  BY <1>4 DEF callVars
<1>12. Answered'
  <2>1. Legal(r, n)'
    BY <1>7, <1>11 DEF Legal
  <2>2. 0 + 1 = 1 /\ 0 \in Nat
    OBVIOUS
  <2>3. secCB' \o devOut' = (<<Carries(n, 0, to)>>
          \o (SubSeq(Response(r, offset, n), 0 + 1, to) \o After(r, n, to)))'
    BY <1>9, <1>10, <1>11, <2>2 DEF After
  <2> QED BY <1>2, <1>9, <2>1, <2>2, <2>3 DEF Answered
<1>13. LinkInv'
  BY <1>3, <1>4, <1>12 DEF RInv, LinkInv, callVars
<1>14. KeyboxInv'
  BY <1>4, BufferSame
<1> QED BY <1>13, <1>14

LEMMA DevPushLink == RInv /\ DevPush => LinkInv' /\ KeyboxInv'
<1> SUFFICES ASSUME RInv, DevPush PROVE LinkInv' /\ KeyboxInv'
  OBVIOUS
<1>1. /\ devOut # <<>> /\ secCB' = Append(secCB, Head(devOut)) /\ devOut' = Tail(devOut)
      /\ UNCHANGED <<hostVars, hostCB, depth>>
  BY DEF DevPush
<1>2. secCB' \o devOut' = secCB \o devOut
  BY <1>1, StreamMoves DEF RInv, IInv, TypeOK
<1>3. UNCHANGED <<pc, phase, buf, callVars, status, left, head, index, overrun>>
  BY <1>1, DevKeeps
<1>4. (pc = "WaitHead" /\ Answered) \/ (pc = "WaitData" /\ Reading)
  <2>1. ~Quiet /\ ~Asked /\ ~Stuck
    BY <1>1 DEF Quiet, Asked, Stuck
  <2>2. pc \in {"Idle", "SendwACK", "Parse", "WaitReady", "WaitIS", "WaitHead", "WaitData"}
    BY DEF RInv, IInv, TypeOK, Waits
  <2>3. /\ pc \in {"Idle", "SendwACK", "WaitReady", "Parse"} => Quiet
        /\ pc = "WaitIS" => Stuck
        /\ pc = "WaitHead" => Asked \/ Answered
        /\ pc = "WaitData" => Reading
    BY DEF RInv, LinkInv
  <2> QED BY <2>1, <2>2, <2>3
<1>9. /\ offset' = offset /\ req_size' = req_size /\ hostCB' = hostCB
      /\ head' = head /\ index' = index /\ buf' = buf
  BY <1>1, <1>3 DEF callVars
<1>5. ASSUME Answered PROVE Answered'
  <2>1. PICK r \in {0, 1}, n \in 0 .. MaxTransfer, from \in Nat, to \in Nat :
          /\ Legal(r, n) /\ Part(n, from, to)
          /\ secCB \o devOut = <<Carries(n, from, to)>>
               \o (SubSeq(Response(r, offset, n), from + 1, to) \o After(r, n, to))
    BY <1>5 DEF Answered
  <2>2. Legal(r, n)' /\ After(r, n, to)' = After(r, n, to)
    BY <1>9, <2>1 DEF Legal, After
  <2>3. secCB' \o devOut' = <<Carries(n, from, to)>>
          \o (SubSeq(Response(r, offset', n), from + 1, to) \o After(r, n, to)')
    BY <1>2, <1>9, <2>1, <2>2
  <2>4. hostCB' = <<>>
    BY <1>5, <1>9 DEF Answered
  <2> QED BY <2>1, <2>2, <2>3, <2>4 DEF Answered
<1>6. ASSUME Reading PROVE Reading'
  <2>1. PICK r \in {0, 1}, n \in 0 .. MaxTransfer, from \in Nat, to \in Nat :
          /\ Legal(r, n) /\ Part(n, from, to)
          /\ head = Carries(n, from, to) /\ index < to - from
          /\ secCB \o devOut =
               SubSeq(Response(r, offset, n), from + index + 1, to) \o After(r, n, to)
          /\ ~Split(n) => Received(r, n, index)
    BY <1>6 DEF Reading
  <2>2. Legal(r, n)' /\ After(r, n, to)' = After(r, n, to)
    BY <1>9, <2>1 DEF Legal, After
  <2>3. secCB' \o devOut' =
          SubSeq(Response(r, offset', n), from + index' + 1, to) \o After(r, n, to)'
    BY <1>2, <1>9, <2>1, <2>2
  <2>4. hostCB' = <<>> /\ head' = Carries(n, from, to) /\ index' < to - from
    BY <1>6, <1>9, <2>1 DEF Reading
  <2>5. ~Split(n) => Received(r, n, index)'
    BY <1>9, <2>1 DEF Received
  <2> QED BY <2>1, <2>2, <2>3, <2>4, <2>5 DEF Reading
<1>7. LinkInv'
  BY <1>1, <1>3, <1>4, <1>5, <1>6 DEF RInv, LinkInv, callVars
<1>8. KeyboxInv'
  BY <1>3, BufferSame
<1> QED BY <1>7, <1>8

-----------------------------------------------------------------------------
(* Every step keeps the link and the buffer in order.                      *)
LEMMA RNext == Timely /\ RInv /\ [Next]_vars => RInv'
<1> SUFFICES ASSUME Timely, RInv, [Next]_vars PROVE RInv'
  OBVIOUS
<1>0. IInv'
  BY NextInv DEF RInv
<1>1. CASE Host
  <2>1. CASE Poll \/ NotYet
    <3>1. UNCHANGED linkState
      BY <2>1 DEF Poll, NotYet, linkState, callVars, rxVars, linkVars, devVars
    <3> QED BY <1>0, <3>1, LinkSame DEF RInv
  <2>2. ~TimeOut
    BY NoFaults
  <2> QED BY <1>0, <1>1, <2>1, <2>2, MapFailsLink, GetAttkbLink, SendwACKLink, SendFragmentLink,
             SendGivesUpLink, ReceiveHeadLink, ReceiveDataLink, ParseSizeLink, ParseReadLink
          DEF Host, RInv
<1>2. CASE Device
  <2>1. CASE DevReady
    <3>1. UNCHANGED linkState
      BY <2>1 DEF DevReady, linkState, hostVars, callVars, rxVars, linkVars
    <3> QED BY <1>0, <3>1, LinkSame DEF RInv
  <2> QED BY <1>0, <1>2, <2>1, DevAnswerLink, DevTakeFragmentLink, DevPushLink DEF Device, RInv
<1>3. CASE UNCHANGED vars
  <2>1. UNCHANGED linkState
    BY <1>3 DEF vars, linkState, hostVars, callVars, rxVars, linkVars, devVars
  <2> QED BY <1>0, <2>1, LinkSame DEF RInv
<1> QED BY <1>1, <1>2, <1>3 DEF Next

LEMMA RInvariance == ASSUME Timely PROVE Spec => []RInv
BY RInit, RNext, PTL DEF Spec

(* Header and payload of all the host sends fit its circular buffer, which *)
(* heci_send_impl never looks at the pointers of: for any depth.           *)
THEOREM HostBufferSuffices == ASSUME Timely PROVE Spec => []FitsHostBuffer
<1>1. RInv => FitsHostBuffer
  <2> SUFFICES ASSUME RInv PROVE Len(hostCB) <= depth
    BY DEF FitsHostBuffer
  <2>1. depth \in Nat
    BY HeciAssumption DEF RInv, IInv, TypeOK
  <2>2. CASE hostCB = <<>>
    BY <2>1, <2>2
  <2>3. CASE hostCB # <<>>
    <3>1. CASE pc = "WaitHead" /\ Asked
      <4>1. Len(hostCB) = 4
        BY <3>1 DEF Asked, Message
      <4>2. depth > 3
        BY <3>1 DEF RInv, LinkInv, RequestWords
      <4> QED BY <2>1, <4>1, <4>2
    <3>2. CASE pc = "WaitIS" /\ Stuck
      BY <2>1, <2>3, <3>2 DEF Stuck
    <3> QED BY <2>3, <3>1, <3>2, MessageIs
  <2> QED BY <2>2, <2>3
<1> QED BY <1>1, RInvariance, PTL

(* No store of get_attkb leaves DataBuffer or the caller's buffer, though  *)
(* neither is compared with what the CSE sends, and whatever parts of its  *)
(* answers are taken for whole ones.                                       *)
THEOREM NoStoreOutside == ASSUME Timely, KeyboxFits PROVE Spec => []StoresInBounds
<1>1. RInv => StoresInBounds
  BY DEF RInv, LinkInv, StoresInBounds
<1> QED BY <1>1, RInvariance, PTL

(* The response get_attkb accepts answers the request it just sent, though *)
(* it never looks at ReadOffset.                                           *)
THEOREM AcksMatch == ASSUME Timely, InOnePiece PROVE Spec => []AckIsForRequest
<1>1. RInv => AckIsForRequest
  <2> SUFFICES ASSUME RInv, pc = "Parse", status = 0 PROVE buf[1].hi = offset
    BY DEF AckIsForRequest
  <2> QED BY HeardIs DEF Speaks
<1> QED BY <1>1, RInvariance, PTL

(* What get_attkb hands out is the CSE's keybox, byte for byte, however    *)
(* the CSE splits it over answers.                                         *)
THEOREM KeyboxArrives == ASSUME Reliable PROVE Spec => []KeyboxIntact
<1>1. RInv => KeyboxIntact
  <2> SUFFICES ASSUME RInv, pc = "Idle", ret > 0
               PROVE  ret = FileSize /\ \A i \in 0 .. ret-1 : attkb[i] = Keybox[i]
    BY DEF KeyboxIntact
  <2>1. ret = FileSize /\ offset = ret
    BY DEF RInv, KeyboxInv, IInv, StoredPrefix
  <2>2. FileSize \in Nat /\ MaxAttkb \in Nat
    BY KeyboxFact, HeciAssumption
  <2> QED BY <2>1, <2>2 DEF RInv, KeyboxInv, Reliable, KeyboxFits
<1>2. Timely
  BY NoFaults
<1> QED BY <1>1, <1>2, RInvariance, PTL

-----------------------------------------------------------------------------
(* The service get_attkb is to its caller.  Between calls the caller's     *)
(* buffer holds the keybox up to offset and nothing else.                  *)
LEMMA IsPrefix ==
  ASSUME NEW a \in [0 .. MaxAttkb-1 -> Bytes \cup {Unwritten}], NEW o,
         \A i \in 0 .. MaxAttkb-1 : a[i] # Unwritten <=> i < o,
         \A i \in 0 .. MaxAttkb-1 : i < o => a[i] = Keybox[i]
  PROVE  a = Promise!Prefix(o)
<1>1. a = [i \in 0 .. MaxAttkb-1 |-> a[i]]
  OBVIOUS
<1>2. \A i \in 0 .. MaxAttkb-1 : a[i] = IF i < o THEN Keybox[i] ELSE -1
  BY DEF Unwritten
<1> QED BY <1>1, <1>2 DEF Promise!Prefix, Promise!Unwritten

(* What the caller sees.                                                   *)
LEMMA ServiceSame ==
  ASSUME pc # "Idle", pc' # "Idle", UNCHANGED ret
  PROVE  UNCHANGED Promise!serviceVars
BY DEF Promise!serviceVars

LEMMA CallStep == GetAttkb => Promise!Call
<1> SUFFICES ASSUME GetAttkb PROVE Promise!Call
  OBVIOUS
<1>1. pc = "Idle" /\ pc' = "SendwACK" /\ ret' = ret
  BY DEF GetAttkb
<1>2. [i \in 0 .. MaxAttkb-1 |-> Unwritten] = Promise!Prefix(0)
  <2>1. \A i \in 0 .. MaxAttkb-1 : ~(i < 0)
    OBVIOUS
  <2> QED BY <2>1 DEF Promise!Prefix, Promise!Unwritten, Unwritten
<1> QED BY <1>1, <1>2 DEF Promise!Call

(* A return of get_attkb_size or of the loop is a return of the service.   *)
LEMMA ReturnStep ==
  ASSUME Reliable, RInv, RInv', pc = "Parse", pc' = "Idle",
         \/ ret' = 0 /\ offset' < FileSize
         \/ ret' = FileSize
  PROVE  Promise!ReturnNothing \/ Promise!ReturnKeybox
<1>2. attkb' = Promise!Prefix(offset')
  <2>1. attkb' \in [0 .. MaxAttkb-1 -> Bytes \cup {Unwritten}]
    BY DEF RInv, IInv, TypeOK
  <2>2. \A i \in 0 .. MaxAttkb-1 : attkb'[i] # Unwritten <=> i < offset'
    BY <2>1 DEF RInv, IInv, StoredPrefix
  <2>3. \A i \in 0 .. MaxAttkb-1 : i < offset' => attkb'[i] = Keybox[i]
    BY DEF RInv, KeyboxInv, Reliable
  <2> QED BY <2>1, <2>2, <2>3, IsPrefix
<1>3. offset' \in Nat
  BY DEF RInv, IInv, TypeOK, U16
<1>4. CASE ret' = 0 /\ offset' < FileSize
  <2>1. offset' \in 0 .. FileSize-1
    BY <1>3, <1>4, KeyboxFact
  <2> QED BY <1>2, <1>4, <2>1 DEF Promise!ReturnNothing
<1>5. CASE ret' = FileSize
  <2>1. FileSize > 0
    BY HeciAssumption DEF U16
  <2>2. offset' = FileSize
    BY <1>5, <2>1 DEF RInv, IInv, StoredPrefix
  <2> QED BY <1>2, <1>5, <2>2 DEF Promise!ReturnKeybox, Reliable, KeyboxFits
<1> QED BY <1>4, <1>5

(* Every step of the host and of the CSE is one of the service, or none.   *)
LEMMA ServiceStep ==
  ASSUME Reliable, RInv, RInv', [Next]_vars
  PROVE  [Promise!ServiceNext]_Promise!serviceVars
<1>1. CASE GetAttkb
  BY <1>1, CallStep DEF Promise!ServiceNext
<1>2. CASE ParseSize
  <2>1. pc = "Parse" /\ offset = 0 /\ 0 < FileSize
    BY <1>2, HeciAssumption DEF ParseSize, RInv, IInv, Accounting, U16
  <2>2. CASE Rejected \/ TotalFileSize(buf) = 0
    <3>1. pc' = "Idle" /\ ret' = 0 /\ offset' = offset
      BY <1>2, <2>2 DEF ParseSize, Return
    <3> QED BY <2>1, <3>1, ReturnStep DEF Promise!ServiceNext
  <2>3. CASE ~(Rejected \/ TotalFileSize(buf) = 0)
    <3>1. pc' = "SendwACK" /\ ret' = ret
      BY <1>2, <2>3 DEF ParseSize, Ask
    <3> QED BY <2>1, <3>1, ServiceSame
  <2> QED BY <2>2, <2>3
<1>3. CASE ParseRead
  <2>1. pc = "Parse" /\ phase = "read"
    BY <1>3 DEF ParseRead
  <2>2. size = FileSize /\ offset < FileSize
    <3>1. /\ size = FileSize /\ remaining > 0 /\ offset + remaining = size
          /\ offset \in Nat /\ remaining \in Nat
      BY <2>1 DEF RInv, KeyboxInv, IInv, Accounting, TypeOK, U16
    <3> QED BY <3>1, KeyboxFact
  <2> DEFINE n == ReadSize(buf)
  <2>3. CASE Rejected \/ Oversized(n)
    <3>1. pc' = "Idle" /\ ret' = 0 /\ offset' = offset
      BY <1>3, <2>3 DEF ParseRead, Return
    <3> QED BY <2>1, <2>2, <3>1, ReturnStep DEF Promise!ServiceNext
  <2>4. CASE ~(Rejected \/ Oversized(n)) /\ remaining = n
    <3>1. pc' = "Idle" /\ ret' = FileSize
      BY <1>3, <2>2, <2>4 DEF ParseRead, Return
    <3> QED BY <2>1, <3>1, ReturnStep DEF Promise!ServiceNext
  <2>5. CASE ~(Rejected \/ Oversized(n)) /\ remaining # n
    <3>1. pc' = "SendwACK" /\ ret' = ret
      BY <1>3, <2>5 DEF ParseRead, Ask
    <3> QED BY <2>1, <3>1, ServiceSame
  <2> QED BY <2>3, <2>4, <2>5
<1>4. CASE SendwACK \/ SendFragment \/ SendGivesUp \/ Poll \/ NotYet
  <2>1. pc # "Idle" /\ pc' # "Idle" /\ ret' = ret
    BY <1>4 DEF SendwACK, SendFragment, SendGivesUp, Poll, NotYet, EnterWait, Ack, Waits, callVars
  <2> QED BY <2>1, ServiceSame
<1>5. CASE ReceiveHead \/ ReceiveData
  <2>1. pc # "Idle" /\ ret' = ret
    BY <1>5 DEF ReceiveHead, ReceiveData, callVars
  <2>2. pc' # "Idle"
    BY <1>5 DEF ReceiveHead, ReceiveData, EndFragment, EnterWait, Ack
  <2> QED BY <2>1, <2>2, ServiceSame
<1>6. CASE MapFails \/ TimeOut
  BY <1>6, NoFaults
<1>7. CASE Device \/ UNCHANGED vars
  <2>1. UNCHANGED <<pc, attkb, ret>>
    BY <1>7 DEF Device, DevReady, DevAnswer, DevTakeFragment, DevPush, vars, hostVars, callVars
  <2> QED BY <2>1 DEF Promise!serviceVars
<1> QED BY <1>1, <1>2, <1>3, <1>4, <1>5, <1>6, <1>7 DEF Next, Host

LEMMA ServiceStarts == Init => Promise!ServiceInit
<1> SUFFICES ASSUME Init PROVE Promise!ServiceInit
  OBVIOUS
<1>1. attkb = Promise!Prefix(0)
  <2>1. \A i \in 0 .. MaxAttkb-1 : ~(i < 0)
    OBVIOUS
  <2> QED BY <2>1 DEF Init, Promise!Prefix, Promise!Unwritten, Unwritten
<1> QED BY <1>1 DEF Init, Promise!ServiceInit

(* Over a reliable link get_attkb is the service its caller was written    *)
(* against: nothing, or the whole keybox.                                  *)
THEOREM Implements == ASSUME Reliable PROVE Spec => ImplementsService
<1>1. RInv /\ RInv' /\ [Next]_vars => [Promise!ServiceNext]_Promise!serviceVars
  BY ServiceStep
<1>2. Timely
  BY NoFaults
<1> QED BY <1>1, <1>2, ServiceStarts, RInvariance, PTL DEF Spec, ImplementsService, Promise!Service

-----------------------------------------------------------------------------
(* What is left of the service when exchanges may fail.                    *)
(* The buffer a call leaves is stored up to offset, and up to the size     *)
(* when it returns one.                                                    *)
LEMMA UncheckedReturn ==
  ASSUME IInv', pc = "Parse", pc' = "Idle", ret' \in U16
  PROVE  Promise!ReturnUnchecked
<1>1. /\ offset' \in Nat /\ MaxAttkb \in Nat /\ ret' \in Nat
      /\ attkb' \in [0 .. MaxAttkb-1 -> Bytes \cup {Unwritten}]
  BY HeciAssumption DEF IInv, TypeOK, U16
<1>2. \A i \in 0 .. MaxAttkb-1 : attkb'[i] # Unwritten <=> i < offset'
  BY <1>1 DEF IInv, StoredPrefix
<1>3. PICK n \in 0 .. MaxAttkb : \A i \in 0 .. MaxAttkb-1 : i < n <=> i < offset'
  <2>1. CASE offset' <= MaxAttkb
    <3>1. offset' \in 0 .. MaxAttkb
      BY <1>1, <2>1
    <3> QED BY <3>1
  <2>2. CASE offset' > MaxAttkb
    <3>1. MaxAttkb \in 0 .. MaxAttkb
      BY <1>1
    <3>2. \A i \in 0 .. MaxAttkb-1 : i < MaxAttkb /\ i < offset'
      BY <1>1, <2>2
    <3> QED BY <3>1, <3>2
  <2> QED BY <1>1, <2>1, <2>2
<1>4. ret' # 0 => offset' = ret'
  BY <1>1 DEF IInv, StoredPrefix
<1>5. Promise!Filled(attkb', n) /\ (ret' # 0 => Promise!Filled(attkb', ret'))
  BY <1>1, <1>2, <1>3, <1>4 DEF Promise!Filled, Promise!Unwritten, Unwritten
<1>6. attkb' \in Promise!Buffers
  BY <1>1 DEF Promise!Buffers, Promise!Unwritten, Unwritten
<1> QED BY <1>3, <1>5, <1>6 DEF Promise!ReturnUnchecked

LEMMA UncheckedStep ==
  ASSUME IInv, IInv', [Next]_vars
  PROVE  [Promise!UncheckedNext]_Promise!serviceVars
<1>1. CASE GetAttkb
  BY <1>1, CallStep DEF Promise!UncheckedNext
<1>2. CASE ParseSize \/ ParseRead
  <2>1. pc = "Parse" /\ 0 \in U16 /\ size \in U16
    BY <1>2 DEF ParseSize, ParseRead, IInv, TypeOK, U16
  <2>2. \/ pc' = "Idle" /\ ret' \in {0, size}
        \/ pc' = "SendwACK" /\ ret' = ret
    BY <1>2 DEF ParseSize, ParseRead, Return, Ask
  <2>3. CASE pc' = "Idle" /\ ret' \in {0, size}
    BY <2>1, <2>3, UncheckedReturn DEF Promise!UncheckedNext
  <2>4. CASE pc' = "SendwACK" /\ ret' = ret
    BY <2>1, <2>4, ServiceSame
  <2> QED BY <2>2, <2>3, <2>4
<1>3. CASE SendwACK \/ SendFragment \/ SendGivesUp \/ Poll \/ NotYet \/ MapFails \/ TimeOut
  <2>1. pc # "Idle" /\ pc' # "Idle" /\ ret' = ret
    BY <1>3 DEF SendwACK, SendFragment, SendGivesUp, Poll, NotYet, MapFails, TimeOut,
       EnterWait, Ack, Waits, callVars
  <2> QED BY <2>1, ServiceSame
<1>4. CASE ReceiveHead \/ ReceiveData
  <2>1. pc # "Idle" /\ ret' = ret
    BY <1>4 DEF ReceiveHead, ReceiveData, callVars
  <2>2. pc' # "Idle"
    BY <1>4 DEF ReceiveHead, ReceiveData, EndFragment, EnterWait, Ack
  <2> QED BY <2>1, <2>2, ServiceSame
<1>5. CASE Device \/ UNCHANGED vars
  <2>1. UNCHANGED <<pc, attkb, ret>>
    BY <1>5 DEF Device, DevReady, DevAnswer, DevTakeFragment, DevPush, vars, hostVars, callVars
  <2> QED BY <2>1 DEF Promise!serviceVars
<1> QED BY <1>1, <1>2, <1>3, <1>4, <1>5 DEF Next, Host

(* Over any link, whatever times out, fails or comes in pieces, get_attkb  *)
(* is the weaker service its caller has to live with: nothing, or a size   *)
(* and as many bytes.                                                      *)
THEOREM ImplementsAlways == Spec => ImplementsUnchecked
<1>1. IInv /\ IInv' /\ [Next]_vars => [Promise!UncheckedNext]_Promise!serviceVars
  BY UncheckedStep
<1> QED BY <1>1, ServiceStarts, Invariance, PTL DEF Spec, ImplementsUnchecked, Promise!Unchecked
=============================================================================
