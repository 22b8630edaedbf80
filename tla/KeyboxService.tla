--------------------------- MODULE KeyboxService ---------------------------
(***************************************************************************)
(* What get_attkb promises the one caller it has, copy_attkb_to_user.  Two *)
(* services: Service, of a link on which every exchange works, returns 0   *)
(* or a whole keybox; Unchecked, of any link, returns 0 or a size with     *)
(* that many bytes stored, and says nothing of the bytes, for a failed     *)
(* exchange is parsed like an answer (heci.c:490).  Heci implements the    *)
(* first while the link is reliable and the second always; DeviceInfo uses *)
(* both in place of Heci.                                                  *)
(***************************************************************************)
EXTENDS Integers

CONSTANTS
  FileSize,   \* bytes of the keybox
  Keybox,     \* its contents
  MaxAttkb,   \* MAX_ATTKB_SIZE, the size of the caller's buffer
  Bytes,      \* what a byte may be
  Sizes       \* what a size may be, a uint16_t of the CSE's answer

Unwritten == -1           \* a byte of attkb that get_attkb has not stored

ASSUME KeyboxAssumption ==
  /\ Sizes \subseteq Nat /\ 0 \in Sizes
  /\ FileSize \in Sizes \ {0}
  /\ Bytes \subseteq 0 .. 255
  /\ Keybox \in [0 .. FileSize-1 -> Bytes]
  /\ MaxAttkb \in Nat

VARIABLES
  busy,   \* a call of get_attkb is under way
  attkb,  \* the caller's buffer, meaningful between calls
  ret     \* what the last call returned, -1 before the first one

serviceVars == <<busy, attkb, ret>>

Buffers == [0 .. MaxAttkb-1 -> Bytes \cup {Unwritten}]

(* A buffer that holds the first n bytes of the keybox and nothing else.   *)
Prefix(n) == [i \in 0 .. MaxAttkb-1 |-> IF i < n THEN Keybox[i] ELSE Unwritten]

(* The first n bytes of a buffer are stored, whatever they are, and no     *)
(* others.                                                                 *)
Filled(buffer, n) == \A i \in DOMAIN buffer : buffer[i] # Unwritten <=> i < n

ServiceInit == busy = FALSE /\ attkb = Prefix(0) /\ ret = -1

Call ==
  /\ ~busy /\ busy' = TRUE
  /\ attkb' = Prefix(0) /\ UNCHANGED ret

ReturnKeybox ==
  /\ busy /\ busy' = FALSE
  /\ FileSize <= MaxAttkb
  /\ attkb' = Prefix(FileSize) /\ ret' = FileSize

ReturnNothing ==
  /\ busy /\ busy' = FALSE /\ ret' = 0
  /\ \E n \in 0 .. FileSize-1 : attkb' = Prefix(n)

ServiceNext == Call \/ ReturnKeybox \/ ReturnNothing

Service == ServiceInit /\ [][ServiceNext]_serviceVars

(* A call during which an exchange failed, or that met what an earlier     *)
(* failure left on the link.                                               *)
ReturnUnchecked ==
  /\ busy /\ busy' = FALSE
  /\ ret' \in Sizes /\ attkb' \in Buffers
  /\ \E n \in 0 .. MaxAttkb : Filled(attkb', n)
  /\ ret' # 0 => Filled(attkb', ret')

UncheckedNext == Call \/ ReturnUnchecked

Unchecked == ServiceInit /\ [][UncheckedNext]_serviceVars
=============================================================================
