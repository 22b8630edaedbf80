----------------------------- MODULE DeviceInfo -----------------------------
(***************************************************************************)
(* The get_device_info system call (lib/syscall/syscall_x86.c): trusted    *)
(* applications read the platform's secrets, each no more than its entry   *)
(* in the permission matrix allows.  The applications are single threads   *)
(* and their calls interleave; they share the kernel heap, whose blocks    *)
(* are handed out with whatever the last owner left in them, and the HECI  *)
(* driver, which is here the KeyboxService it implements, with the weaker  *)
(* promise of a link on which exchanges fail.                              *)
(***************************************************************************)
EXTENDS KeyboxService

CONSTANTS
  Apps,      \* the applications that run, named as in trusty_apps_uuid.h
  Blocks,    \* blocks of the kernel heap, each large enough for any request
  Nobody,    \* the owner of a free block
  Junk,      \* what an earlier owner of a block may have left in a word of it
  Scrap,     \* four bytes of a keybox that a failed get_attkb left in a block
  MaxCalls   \* bound: system calls each application makes

ASSUME DeviceInfoAssumption ==
  /\ Nobody \notin Apps
  /\ Junk \in Nat \ {0} /\ Scrap \in Nat \ {0}
  /\ Scrap # Junk /\ Scrap \notin Sizes
  /\ Sizes \subseteq 0 .. MaxAttkb   \* no size get_attkb returns exceeds its buffer
  /\ MaxCalls \in [Apps -> Nat]

SecInfoSecrets == {"seed", "rpmb_key", "attkb_enc_key"}
Secrets == SecInfoSecrets \cup {"attkb"}

VARIABLES
  secinfo_ok,  \* g_sec_info->size_of_this_struct is what the kernel expects
  manuf_mode,  \* the fuse of HFS1
  pc,          \* where each application's call is
  owner,       \* of each heap block
  mem,         \* the secrets each block may hold
  word,        \* the dword at attkb_size's place in each block
  dev_info,    \* the block of an application's trusty_device_info_t
  kbuf,        \* the block of its keybox buffer
  user,        \* what each application has received
  result,      \* what its last call returned
  made,        \* calls made
  exchange_failed,   \* history: an exchange of get_attkb with the CSE failed
  panicked     \* panic() was called: the system stands still

heciVars == <<serviceVars, exchange_failed>>
heapVars == <<owner, mem, word>>
callVars == <<dev_info, kbuf>>
bootVars == <<secinfo_ok, manuf_mode>>
vars == <<heciVars, bootVars, pc, heapVars, callVars, user, result, made, panicked>>

-----------------------------------------------------------------------------
(* The permission matrix; an application it does not name gets GET_NONE.   *)
PermissionTooWide(app) ==    \* mutant: storage is given the keybox too
  CASE app = "hwcrypto"       -> {"GET_SEED", "GET_RPMB_KEY"}
    [] app = "keymaster"      -> {"GET_ATTKB"}
    [] app = "secure_storage" -> {"GET_BASIC_INFO", "GET_ATTKB"}
    [] OTHER                  -> {}

get_ta_permission(app) ==
  CASE app = "hwcrypto"       -> {"GET_SEED", "GET_RPMB_KEY"}
    [] app = "keymaster"      -> {"GET_ATTKB"}
    [] app = "secure_storage" -> {"GET_BASIC_INFO"}
    [] OTHER                  -> {}

(* What sys_get_device_info leaves in an application's copy of g_sec_info. *)
VisibleNoRpmbTest(app) ==    \* mutant: the rpmb keys are not wiped
  {s \in SecInfoSecrets :
     \/ s = "seed" /\ "GET_SEED" \in get_ta_permission(app)
     \/ s = "rpmb_key"
     \/ s = "attkb_enc_key" /\ "GET_ATTKB" \in get_ta_permission(app)}

Visible(app) ==
  {s \in SecInfoSecrets :
     \/ s = "seed" /\ "GET_SEED" \in get_ta_permission(app)
     \/ s = "rpmb_key" /\ "GET_RPMB_KEY" \in get_ta_permission(app)
     \/ s = "attkb_enc_key" /\ "GET_ATTKB" \in get_ta_permission(app)}

-----------------------------------------------------------------------------
(* What an application may find behind its structure: as many bytes as a   *)
(* call copied there.                                                      *)
Received == UNION {[0 .. n-1 -> Bytes \cup {Unwritten}] : n \in {-1} \cup Sizes}
Nothing == [i \in 0 .. -1 |-> Unwritten]

Init ==
  /\ ServiceInit
  /\ secinfo_ok \in BOOLEAN /\ manuf_mode \in BOOLEAN
  /\ pc = [a \in Apps |-> "user"]
  /\ owner = [b \in Blocks |-> Nobody]
  /\ mem = [b \in Blocks |-> {}]
  /\ word = [b \in Blocks |-> 0]
  /\ dev_info = [a \in Apps |-> Nobody] /\ kbuf = [a \in Apps |-> Nobody]
  /\ user = [a \in Apps |-> [secrets |-> {}, attkb_size |-> 0, attkb |-> Nothing]]
  /\ result = [a \in Apps |-> "none"]
  /\ made = [a \in Apps |-> 0]
  /\ exchange_failed = FALSE
  /\ panicked = FALSE

(* malloc or memalign found block b; free gives it back.                   *)
Malloc(a, b) ==
  /\ owner[b] = Nobody /\ owner' = [owner EXCEPT ![b] = a]

Leak(b) == UNCHANGED owner                     \* mutant: never freed
Free(b) == owner' = [owner EXCEPT ![b] = Nobody]

Return(a, code) ==
  /\ pc' = [pc EXCEPT ![a] = "user"]
  /\ result' = [result EXCEPT ![a] = code]

At(a, where) == ~panicked /\ pc[a] = where
Goto(a, where) == pc' = [pc EXCEPT ![a] = where]

-----------------------------------------------------------------------------
(* sys_get_device_info up to its malloc.                                   *)
Entry(a) ==
  /\ At(a, "user") /\ made[a] < MaxCalls[a]
  /\ made' = [made EXCEPT ![a] = @ + 1]

SizeMismatch(a) ==
  /\ Entry(a) /\ ~secinfo_ok
  /\ panicked' = TRUE
  /\ UNCHANGED <<heciVars, bootVars, pc, heapVars, callVars, user, result>>

NotAllowed(a) ==
  /\ Entry(a) /\ secinfo_ok /\ get_ta_permission(a) = {}
  /\ Return(a, "ERR_NOT_ALLOWED")
  /\ UNCHANGED <<heciVars, bootVars, heapVars, callVars, user, panicked>>

NoMemory(a) ==
  /\ Entry(a) /\ secinfo_ok /\ get_ta_permission(a) # {}
  /\ Return(a, "ERR_NO_MEMORY")
  /\ UNCHANGED <<heciVars, bootVars, heapVars, callVars, user, panicked>>

(* attkb_size of the new structure is whatever the block held there, which *)
(* may be part of a keybox: copy_attkb_to_user frees its block as it is    *)
(* when get_attkb fails.                                                   *)
Leftovers(b) == {0, Junk} \cup (IF "attkb" \in mem[b] THEN {Scrap} ELSE {})

AllocInfo(a, b) ==
  /\ Entry(a) /\ secinfo_ok /\ get_ta_permission(a) # {}
  /\ Malloc(a, b)
  /\ dev_info' = [dev_info EXCEPT ![a] = b]
  /\ \E w \in Leftovers(b) : word' = [word EXCEPT ![b] = w]
  /\ Goto(a, "Fill")
  /\ UNCHANGED <<heciVars, bootVars, mem, kbuf, user, result, panicked>>

(* The copy of g_sec_info and the wiping of what the caller may not see.   *)
(* The copy ends before attkb_size: only a caller with GET_ATTKB has that  *)
(* field assigned, and what a keybox left there or behind the structure    *)
(* stays.  The fuse decides whether the keybox is fetched.                 *)
Fill(a) ==
  LET b == dev_info[a]
      att == "GET_ATTKB" \in get_ta_permission(a)
  IN /\ At(a, "Fill")
     /\ mem' = [mem EXCEPT ![b] = Visible(a) \cup (@ \ SecInfoSecrets)]
     /\ Goto(a, IF att /\ ~manuf_mode THEN "Keybox" ELSE "CopyOut")
     /\ word' = IF att /\ manuf_mode THEN [word EXCEPT ![b] = 0] ELSE word
     /\ UNCHANGED <<heciVars, bootVars, owner, callVars, user, result, made, panicked>>

-----------------------------------------------------------------------------
(* copy_attkb_to_user.                                                     *)
KeyboxSizeMax(a, n) ==                         \* mutant: the buffer's size
  /\ word' = [word EXCEPT ![dev_info[a]] = MaxAttkb]
  /\ Goto(a, "CopyOut")
KeyboxSize(a, n) ==
  /\ word' = [word EXCEPT ![dev_info[a]] = n]
  /\ Goto(a, "CopyOut")

NoKeyboxMemory(a) ==
  /\ At(a, "Keybox")
  /\ KeyboxSize(a, 0)
  /\ UNCHANGED <<heciVars, bootVars, owner, mem, callVars, user, result, made, panicked>>

AllocKeybox(a, b) ==
  /\ At(a, "Keybox")
  /\ Malloc(a, b)
  /\ kbuf' = [kbuf EXCEPT ![a] = b]
  /\ Goto(a, "GetAttkb")
  /\ UNCHANGED <<heciVars, bootVars, mem, word, dev_info, user, result, made, panicked>>

CallGetAttkb(a) ==
  /\ At(a, "GetAttkb")
  /\ Call /\ UNCHANGED exchange_failed
  /\ Goto(a, "InHeci")
  /\ UNCHANGED <<bootVars, heapVars, callVars, user, result, made, panicked>>

(* get_attkb returns: with what it promises, or, when an exchange failed   *)
(* in this or an earlier call, with whatever the link made of it.          *)
get_attkb ==
  \/ (ReturnKeybox \/ ReturnNothing) /\ UNCHANGED exchange_failed
  \/ ReturnUnchecked /\ exchange_failed' = TRUE

(* It returned 0: the buffer is freed as it is.                            *)
KeyboxFails(a) ==
  LET b == kbuf[a]
  IN /\ At(a, "InHeci")
     /\ get_attkb /\ ret' = 0
     /\ mem' = [mem EXCEPT ![b] = IF attkb' = Prefix(0) THEN @ ELSE @ \cup {"attkb"}]
     /\ Free(b)
     /\ kbuf' = [kbuf EXCEPT ![a] = Nobody]
     /\ KeyboxSize(a, 0)
     /\ UNCHANGED <<bootVars, dev_info, user, result, made, panicked>>

(* Any other size is taken for that of a keybox in the buffer.             *)
KeyboxArrives(a) ==
  /\ At(a, "InHeci")
  /\ get_attkb /\ ret' # 0
  /\ Goto(a, "CopyKeybox")
  /\ UNCHANGED <<bootVars, heapVars, callVars, user, result, made, panicked>>

(* The first attkb_size bytes of the buffer go to the user buffer behind   *)
(* the structure and are wiped; they are all that get_attkb has stored in  *)
(* this call.                                                              *)
CopyKeybox(a) ==
  LET b == kbuf[a]
  IN /\ At(a, "CopyKeybox")
     /\ user' = [user EXCEPT ![a].secrets = @ \cup {"attkb"},
                             ![a].attkb = [i \in 0 .. ret-1 |-> attkb[i]]]
     /\ Free(b)
     /\ kbuf' = [kbuf EXCEPT ![a] = Nobody]
     /\ KeyboxSize(a, ret)
     /\ UNCHANGED <<heciVars, bootVars, mem, dev_info, result, made, panicked>>

CopyKeyboxFails(a) ==
  /\ At(a, "CopyKeybox")
  /\ panicked' = TRUE
  /\ UNCHANGED <<heciVars, bootVars, pc, heapVars, callVars, user, result, made>>

-----------------------------------------------------------------------------
(* The end of sys_get_device_info: the whole structure is copied out and   *)
(* wiped, whether or not the copy worked, but not what the block holds     *)
(* behind it.                                                              *)
WipeNothing(b) == UNCHANGED <<mem, word>>      \* mutant
Wipe(b) ==
  /\ mem' = [mem EXCEPT ![b] = @ \ SecInfoSecrets]
  /\ word' = [word EXCEPT ![b] = 0]

CopyOut(a) ==
  LET b == dev_info[a]
      scraps == IF word[b] = Scrap THEN {"attkb"} ELSE {}
  IN /\ At(a, "CopyOut")
     /\ user' = [user EXCEPT ![a].secrets = @ \cup (mem[b] \cap SecInfoSecrets) \cup scraps,
                             ![a].attkb_size = word[b]]
     /\ Wipe(b)
     /\ Free(b)
     /\ dev_info' = [dev_info EXCEPT ![a] = Nobody]
     /\ Return(a, "NO_ERROR")
     /\ UNCHANGED <<heciVars, bootVars, kbuf, made, panicked>>

CopyOutFails(a) ==
  /\ At(a, "CopyOut")
  /\ Wipe(dev_info[a])
  /\ panicked' = TRUE
  /\ UNCHANGED <<heciVars, bootVars, pc, owner, callVars, user, result, made>>

-----------------------------------------------------------------------------
Step(a) ==
  \/ Fill(a) \/ NoKeyboxMemory(a) \/ CallGetAttkb(a)
  \/ KeyboxFails(a) \/ KeyboxArrives(a)
  \/ CopyKeybox(a) \/ CopyKeyboxFails(a) \/ CopyOut(a) \/ CopyOutFails(a)
  \/ \E b \in Blocks : AllocKeybox(a, b)

Enter(a) ==
  \/ SizeMismatch(a) \/ NotAllowed(a) \/ NoMemory(a)
  \/ \E b \in Blocks : AllocInfo(a, b)

Next == \E a \in Apps : Enter(a) \/ Step(a)

Spec == Init /\ [][Next]_vars

-----------------------------------------------------------------------------
PCs == {"user", "Fill", "Keybox", "GetAttkb", "InHeci", "CopyKeybox", "CopyOut"}

TypeOK ==
  /\ busy \in BOOLEAN /\ ret \in {-1} \cup Sizes /\ attkb \in Buffers
  /\ exchange_failed \in BOOLEAN
  /\ secinfo_ok \in BOOLEAN /\ manuf_mode \in BOOLEAN /\ panicked \in BOOLEAN
  /\ pc \in [Apps -> PCs]
  /\ owner \in [Blocks -> Apps \cup {Nobody}]
  /\ mem \in [Blocks -> SUBSET Secrets]
  /\ word \in [Blocks -> Nat]
  /\ dev_info \in [Apps -> Blocks \cup {Nobody}]
  /\ kbuf \in [Apps -> Blocks \cup {Nobody}]
  /\ user \in [Apps -> [secrets : SUBSET Secrets, attkb_size : Nat, attkb : Received]]
  /\ result \in [Apps -> {"none", "NO_ERROR", "ERR_NOT_ALLOWED", "ERR_NO_MEMORY"}]
  /\ made \in [Apps -> Nat] /\ \A a \in Apps : made[a] <= MaxCalls[a]

(* The secrets an application is entitled to, by the permission it holds.  *)
Entitled(app) ==
  (IF app = "hwcrypto" THEN {"seed", "rpmb_key"} ELSE {})
  \cup (IF app = "keymaster" THEN {"attkb_enc_key", "attkb"} ELSE {})

(* "do not return to user app if it is not required": no interleaving of   *)
(* calls and no reuse of a heap block gives an application a field of the  *)
(* sec info that is not its own; nor, as long as no failed get_attkb has   *)
(* left part of a keybox on the heap, a keybox or a part of one.           *)
LeastPrivilege ==
  /\ \A a \in Apps : user[a].secrets \cap SecInfoSecrets \subseteq Entitled(a)
  /\ (\A b \in Blocks : "attkb" \notin mem[b]) =>
       \A a \in Apps : user[a].secrets \subseteq Entitled(a)

(* The same without the condition, which the code does not keep: four      *)
(* bytes of a keybox may come as the attkb_size of somebody else.          *)
KeyboxConfined == \A a \in Apps : user[a].secrets \subseteq Entitled(a)

(* "THEY MUST BE WIPED WHENEVER THEY WON'T BE USED ANY MORE": no free heap *)
(* block holds a field of device_sec_info_t, whichever way a call ended.   *)
SecInfoWiped ==
  \A b \in Blocks : owner[b] = Nobody => mem[b] \cap SecInfoSecrets = {}

(* The heap is used as one: an application's blocks are its own, and a     *)
(* call that returned owns nothing.                                        *)
BlocksReturned ==
  \A a \in Apps : pc[a] = "user" => \A b \in Blocks : owner[b] # a

(* heci.c has no lock: it relies on the permission matrix letting only one *)
(* application, a single thread, into get_attkb.                           *)
OneHeciUser ==
  \A a, c \in Apps : pc[a] \in {"GetAttkb", "InHeci"} /\ pc[c] \in {"GetAttkb", "InHeci"} => a = c

(* A size told to an application with GET_ATTKB is that of the bytes which *)
(* the same call put behind the structure, each of them stored by          *)
(* get_attkb in that call and none a leftover of the heap or of an earlier *)
(* call; while no exchange with the CSE has failed they are the keybox,    *)
(* whole.  After a failure they may be anything.                           *)
AttkbDelivered ==
  \A a \in Apps :
    "GET_ATTKB" \in get_ta_permission(a) /\ pc[a] = "user" /\ user[a].attkb_size > 0 =>
      /\ DOMAIN user[a].attkb = 0 .. user[a].attkb_size - 1
      /\ \A i \in DOMAIN user[a].attkb : user[a].attkb[i] # Unwritten
      /\ ~exchange_failed => user[a].attkb = Keybox

(* Asked of every application: attkb_size is "attestation keybox info",    *)
(* whoever the caller is.                                                  *)
AttkbSizeMeansKeybox ==
  \A a \in Apps : user[a].attkb_size > 0 => "attkb" \in user[a].secrets

=============================================================================
