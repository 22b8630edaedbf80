-------------------------- MODULE DeviceInfoProofs --------------------------
(***************************************************************************)
(* The confinement of the platform's secrets, for every set of             *)
(* applications, every heap and any number of calls.  Neither              *)
(* LeastPrivilege nor SecInfoWiped is inductive: both rest on who owns     *)
(* which block (Ownership) and on what a block holds at each point of a    *)
(* call (Contents), the first on where scraps of a keybox lie, too         *)
(* (Scraps).  The same ownership gives back every block (NoBlockKept), and *)
(* with what attkb_size says at each point of a call (Told) it gives       *)
(* LinkNotShared and SizeIsOfItsBytes.                                     *)
(***************************************************************************)
EXTENDS DeviceInfo, TLAPS

InCall == PCs \ {"user"}
WithKeybox == {"GetAttkb", "InHeci", "CopyKeybox"}
WithInfo == InCall \ {"Fill"}

(* The part of the type invariant the argument needs.                      *)
Types ==
  /\ pc \in [Apps -> PCs]
  /\ owner \in [Blocks -> Apps \cup {Nobody}]
  /\ mem \in [Blocks -> SUBSET Secrets]
  /\ dev_info \in [Apps -> Blocks \cup {Nobody}]
  /\ kbuf \in [Apps -> Blocks \cup {Nobody}]
  /\ user \in [Apps -> [secrets : SUBSET Secrets, attkb_size : Int, attkb : Received]]
  /\ word \in [Blocks -> Int] /\ ret \in {-1} \cup Sizes /\ attkb \in Buffers

(* A call in progress owns its structure and, while it fetches the keybox, *)
(* a second block for it, and no application owns anything else.           *)
Ownership ==
  /\ \A a \in Apps : pc[a] \in InCall =>
       dev_info[a] \in Blocks /\ owner[dev_info[a]] = a
  /\ \A a \in Apps : pc[a] \in WithKeybox =>
       kbuf[a] \in Blocks /\ owner[kbuf[a]] = a /\ kbuf[a] # dev_info[a]
  /\ \A b \in Blocks, a \in Apps : owner[b] = a =>
       \/ pc[a] \in InCall /\ b = dev_info[a]
       \/ pc[a] \in WithKeybox /\ b = kbuf[a]

(* A filled structure holds no more of the sec info than its application   *)
(* may see, a keybox buffer nothing of it, and only an application with    *)
(* GET_ATTKB gets as far as having one.                                    *)
Contents ==
  /\ \A a \in Apps : pc[a] \in WithInfo =>
       mem[dev_info[a]] \cap SecInfoSecrets \subseteq Visible(a)
  /\ \A a \in Apps : pc[a] \in WithKeybox => mem[kbuf[a]] \cap SecInfoSecrets = {}
  /\ \A a \in Apps : pc[a] \in WithKeybox \cup {"Keybox"} =>
       "GET_ATTKB" \in get_ta_permission(a)

IInv == Types /\ Ownership /\ Contents /\ SecInfoWiped

-----------------------------------------------------------------------------
(* The permission matrix gives no application more than it is entitled to. *)
LEMMA VisibleEntitled ==
  ASSUME NEW a \in Apps
  PROVE  /\ Visible(a) \subseteq Entitled(a)
         /\ Visible(a) \subseteq SecInfoSecrets
         /\ Visible(a) \in SUBSET Secrets
         /\ "GET_ATTKB" \in get_ta_permission(a) => "attkb" \in Entitled(a)
BY DEF Visible, Entitled, get_ta_permission, SecInfoSecrets, Secrets

(* A size fits the buffer: an assumption, as nothing in the code sees to   *)
(* it.                                                                     *)
LEMMA SizesFact ==
  /\ MaxAttkb \in Nat /\ \A n \in {-1} \cup Sizes : n \in Int /\ n <= MaxAttkb
  /\ 0 \in Sizes /\ FileSize \in Sizes \ {0} /\ \A n \in Sizes : n \in Nat
  /\ \A n \in {-1} \cup Sizes : n # Scrap
<1>1. /\ MaxAttkb \in Nat /\ Sizes \subseteq 0 .. MaxAttkb /\ 0 \in Sizes
      /\ FileSize \in Sizes \ {0} /\ Scrap \in Nat /\ Scrap \notin Sizes
  BY KeyboxAssumption, DeviceInfoAssumption
<1>2. -1 \in Int /\ -1 <= MaxAttkb /\ -1 # Scrap
  BY <1>1
<1>3. \A n \in Sizes : n \in Nat /\ n <= MaxAttkb /\ n # Scrap
  BY <1>1
<1> QED BY <1>1, <1>2, <1>3

LEMMA PrefixType ==
  ASSUME NEW n \in Int, n <= FileSize
  PROVE  Prefix(n) \in Buffers
<1>1. FileSize \in Nat /\ MaxAttkb \in Nat
  BY SizesFact
<1>2. \A i \in 0 .. FileSize-1 : Keybox[i] \in Bytes
  BY KeyboxAssumption
<1>3. ASSUME NEW i \in 0 .. MaxAttkb-1, i < n PROVE Keybox[i] \in Bytes
  <2>1. i \in 0 .. FileSize-1
    BY <1>1, <1>3
  <2> QED BY <1>2, <2>1
<1> QED BY <1>3 DEF Prefix, Buffers

LEMMA InitInv == Init => IInv
<1> SUFFICES ASSUME Init PROVE IInv
  OBVIOUS
<1>1. Types
  <2>1. Nothing \in [0 .. 0-1 -> Bytes \cup {Unwritten}]
    <3>1. 0-1 = -1 /\ \A i \in 0 .. -1 : FALSE
      OBVIOUS
    <3> QED BY <3>1 DEF Nothing
  <2>2. Nothing \in Received
    BY <2>1, SizesFact DEF Received
  <2>3. attkb \in Buffers
    BY PrefixType, SizesFact DEF Init, ServiceInit
  <2> QED BY <2>2, <2>3 DEF Init, ServiceInit, Types, PCs, Secrets
<1>2. Ownership
  BY DeviceInfoAssumption DEF Init, Ownership, InCall, WithKeybox
<1>3. Contents
  BY DEF Init, Contents, WithInfo, InCall, WithKeybox
<1>4. SecInfoWiped
  BY DEF Init, SecInfoWiped
<1> QED BY <1>1, <1>2, <1>3, <1>4 DEF IInv

(* Each step of a call is one of the service, or leaves it alone; either   *)
(* way what get_attkb returns has its type.                                *)
LEMMA UsesService ==
  ASSUME NEW a \in Apps, Enter(a) \/ Step(a)
  PROVE  Call \/ ReturnKeybox \/ ReturnNothing \/ ReturnUnchecked \/ UNCHANGED serviceVars
BY DEF Enter, Step, SizeMismatch, NotAllowed, NoMemory, AllocInfo, Fill, NoKeyboxMemory,
   AllocKeybox, CallGetAttkb, KeyboxFails, KeyboxArrives, get_attkb, CopyKeybox,
   CopyKeyboxFails, CopyOut, CopyOutFails, heciVars

LEMMA ServiceTypes ==
  ASSUME IInv, NEW a \in Apps, Enter(a) \/ Step(a)
  PROVE  ret' \in {-1} \cup Sizes /\ attkb' \in Buffers
<1>1. CASE Call
  BY <1>1, PrefixType, SizesFact DEF Call, IInv, Types
<1>2. CASE ReturnKeybox
  BY <1>2, PrefixType, SizesFact DEF ReturnKeybox
<1>3. CASE ReturnNothing
  <2>1. PICK n \in 0 .. FileSize-1 : attkb' = Prefix(n)
    BY <1>3 DEF ReturnNothing
  <2>2. n \in Int /\ n <= FileSize
    BY <2>1, SizesFact
  <2> QED BY <1>3, <2>1, <2>2, PrefixType, SizesFact DEF ReturnNothing
<1>4. CASE ReturnUnchecked
  BY <1>4 DEF ReturnUnchecked
<1>5. CASE UNCHANGED serviceVars
  BY <1>5 DEF serviceVars, IInv, Types
<1> QED BY <1>1, <1>2, <1>3, <1>4, <1>5, UsesService

(* Steps that leave the heap and what the applications have alone, and     *)
(* move one call to a point that asks no more of its blocks.               *)
LEMMA MoveStep ==
  ASSUME IInv, NEW a \in Apps, NEW to \in PCs,
         pc' = [pc EXCEPT ![a] = to],
         UNCHANGED <<owner, mem, callVars, user>>,
         word' \in [Blocks -> Int], ret' \in {-1} \cup Sizes, attkb' \in Buffers,
         \/ to = pc[a]
         \/ pc[a] = "Keybox" /\ to = "CopyOut"
         \/ pc[a] \in WithKeybox /\ to \in WithKeybox
  PROVE  IInv'
<1>1. Types'
  BY DEF IInv, Types, callVars
<1>2. Ownership'
  BY DEF IInv, Types, Ownership, InCall, WithKeybox, PCs, callVars
<1>3. Contents'
  BY DEF IInv, Types, Contents, WithInfo, InCall, WithKeybox, PCs, callVars
<1>4. SecInfoWiped'
  BY DEF IInv, SecInfoWiped
<1> QED BY <1>1, <1>2, <1>3, <1>4 DEF IInv

LEMMA EnterInv ==
  ASSUME IInv, NEW a \in Apps, SizeMismatch(a) \/ NotAllowed(a) \/ NoMemory(a)
  PROVE  IInv'
<1> DEFINE to == pc[a]
<1>1. /\ to \in PCs /\ pc' = [pc EXCEPT ![a] = to]
      /\ UNCHANGED <<owner, mem, callVars, user, word>>
  BY DEF SizeMismatch, NotAllowed, NoMemory, Entry, At, Return, heapVars, callVars, IInv, Types
<1>2. word' \in [Blocks -> Int] /\ ret' \in {-1} \cup Sizes /\ attkb' \in Buffers
  BY <1>1, ServiceTypes DEF IInv, Types, Enter
<1> HIDE DEF to
<1>3. to = pc[a]
  BY DEF to
<1> QED BY <1>1, <1>2, <1>3, MoveStep

LEMMA AllocInfoInv ==
  ASSUME IInv, NEW a \in Apps, NEW b \in Blocks, AllocInfo(a, b)
  PROVE  IInv'
<1>1. /\ pc[a] = "user" /\ pc' = [pc EXCEPT ![a] = "Fill"]
      /\ owner[b] = Nobody /\ owner' = [owner EXCEPT ![b] = a]
      /\ dev_info' = [dev_info EXCEPT ![a] = b]
      /\ UNCHANGED <<mem, kbuf, user>>
  BY DEF AllocInfo, Entry, At, Goto, Malloc
<1>2. word' \in [Blocks -> Int]
  BY DeviceInfoAssumption DEF AllocInfo, Leftovers, IInv, Types
<1>3. Types'
  BY <1>1, <1>2, ServiceTypes DEF IInv, Types, PCs, Enter
<1>4. Ownership'
  BY <1>1, DeviceInfoAssumption DEF IInv, Types, Ownership, InCall, WithKeybox, PCs
<1>5. Contents'
  BY <1>1 DEF IInv, Types, Contents, WithInfo, InCall, WithKeybox, PCs
<1>6. SecInfoWiped'
  BY <1>1, DeviceInfoAssumption DEF IInv, Types, SecInfoWiped
<1> QED BY <1>3, <1>4, <1>5, <1>6 DEF IInv

LEMMA FillInv ==
  ASSUME IInv, NEW a \in Apps, Fill(a)
  PROVE  IInv'
<1> DEFINE b == dev_info[a]
           att == "GET_ATTKB" \in get_ta_permission(a)
<1>1. /\ pc[a] = "Fill"
      /\ mem' = [mem EXCEPT ![b] = Visible(a) \cup (mem[b] \ SecInfoSecrets)]
      /\ pc' = [pc EXCEPT ![a] = IF att /\ ~manuf_mode THEN "Keybox" ELSE "CopyOut"]
      /\ UNCHANGED <<owner, dev_info, kbuf, user>>
  BY DEF Fill, At, Goto, callVars
<1>2. word' \in [Blocks -> Int]
  <2>1. word' = word \/ word' = [word EXCEPT ![b] = 0]
    BY DEF Fill
  <2> QED BY <2>1 DEF IInv, Types
<1>0. PICK to \in {"Keybox", "CopyOut"} :
       pc' = [pc EXCEPT ![a] = to] /\ (to = "Keybox" => att)
  BY <1>1
<1> HIDE DEF att
<1>3. b \in Blocks /\ owner[b] = a
  BY <1>1 DEF IInv, Ownership, InCall, PCs
<1>4. Visible(a) \cup (mem[b] \ SecInfoSecrets) \in SUBSET Secrets
  BY <1>3, VisibleEntitled DEF IInv, Types
<1>5. Types'
  BY <1>0, <1>1, <1>2, <1>3, <1>4, ServiceTypes DEF IInv, Types, PCs, Step
<1>6. pc'[a] = "CopyOut" \/ (pc'[a] = "Keybox" /\ att)
  BY <1>0 DEF IInv, Types
<1>7. \A c \in Apps : c # a => pc'[c] = pc[c]
  BY <1>0 DEF IInv, Types
<1>8. Ownership'
  BY <1>1, <1>6, <1>7 DEF IInv, Types, Ownership, InCall, WithKeybox, PCs
<1>9. Contents'
  <2>1. \A c \in Apps : c # a /\ pc[c] \in InCall => dev_info[c] # b
    BY <1>3 DEF IInv, Ownership
  <2>2. \A c \in Apps : c # a /\ pc[c] \in WithKeybox => kbuf[c] # b
    BY <1>3 DEF IInv, Ownership
  <2>3. /\ mem'[b] \cap SecInfoSecrets \subseteq Visible(a)
        /\ \A d \in Blocks : d # b => mem'[d] = mem[d]
    BY <1>1, <1>3 DEF IInv, Types
  <2>4. \A c \in Apps : pc'[c] \in WithInfo =>
          mem'[dev_info'[c]] \cap SecInfoSecrets \subseteq Visible(c)
    BY <1>1, <1>6, <1>7, <2>1, <2>3 DEF IInv, Types, Ownership, Contents, WithInfo, InCall
  <2>5. \A c \in Apps : pc'[c] \in WithKeybox => mem'[kbuf'[c]] \cap SecInfoSecrets = {}
    BY <1>1, <1>6, <1>7, <2>2, <2>3 DEF IInv, Types, Ownership, Contents, WithKeybox
  <2>6. \A c \in Apps : pc'[c] \in WithKeybox \cup {"Keybox"} =>
          "GET_ATTKB" \in get_ta_permission(c)
    BY <1>6, <1>7 DEF IInv, Contents, WithKeybox, att
  <2> QED BY <2>4, <2>5, <2>6 DEF Contents
<1>10. SecInfoWiped'
  BY <1>1, <1>3, DeviceInfoAssumption DEF IInv, Types, SecInfoWiped
<1> QED BY <1>5, <1>8, <1>9, <1>10 DEF IInv

(* No two calls share a block.                                             *)
LEMMA Disjoint ==
  ASSUME IInv, NEW a \in Apps, NEW b \in Blocks, owner[b] = a
  PROVE  /\ \A c \in Apps : c # a /\ pc[c] \in InCall => dev_info[c] # b
         /\ \A c \in Apps : c # a /\ pc[c] \in WithKeybox => kbuf[c] # b
BY DEF IInv, Ownership

LEMMA AllocKeyboxInv ==
  ASSUME IInv, NEW a \in Apps, NEW b \in Blocks, AllocKeybox(a, b)
  PROVE  IInv'
<1>1. /\ pc[a] = "Keybox" /\ pc' = [pc EXCEPT ![a] = "GetAttkb"]
      /\ owner[b] = Nobody /\ owner' = [owner EXCEPT ![b] = a]
      /\ kbuf' = [kbuf EXCEPT ![a] = b]
      /\ UNCHANGED <<mem, word, dev_info, user>>
  BY DEF AllocKeybox, At, Goto, Malloc
<1>2. Types'
  BY <1>1, ServiceTypes DEF IInv, Types, PCs, Step
<1>3. Ownership'
  BY <1>1, DeviceInfoAssumption DEF IInv, Types, Ownership, InCall, WithKeybox, PCs
<1>4. Contents'
  BY <1>1 DEF IInv, Types, Contents, SecInfoWiped, WithInfo, InCall, WithKeybox, PCs
<1>5. SecInfoWiped'
  BY <1>1, DeviceInfoAssumption DEF IInv, Types, SecInfoWiped
<1> QED BY <1>2, <1>3, <1>4, <1>5 DEF IInv

LEMMA NoKeyboxMemoryInv ==
  ASSUME IInv, NEW a \in Apps, NoKeyboxMemory(a)
  PROVE  IInv'
<1>1. /\ pc[a] = "Keybox" /\ pc' = [pc EXCEPT ![a] = "CopyOut"]
      /\ UNCHANGED <<owner, mem, callVars, user>>
      /\ word' = [word EXCEPT ![dev_info[a]] = 0]
  BY DEF NoKeyboxMemory, At, Goto, KeyboxSize, callVars
<1>2. word' \in [Blocks -> Int]
  <2>1. dev_info[a] \in Blocks
    BY <1>1 DEF IInv, Ownership, InCall, PCs
  <2> QED BY <1>1, <2>1 DEF IInv, Types
<1>3. ret' \in {-1} \cup Sizes /\ attkb' \in Buffers /\ "CopyOut" \in PCs
  BY <1>1, ServiceTypes DEF PCs, Step
<1> QED BY <1>3, <1>1, <1>2, MoveStep

LEMMA CallGetAttkbInv ==
  ASSUME IInv, NEW a \in Apps, CallGetAttkb(a)
  PROVE  IInv'
<1>1. /\ pc[a] \in WithKeybox /\ pc' = [pc EXCEPT ![a] = "InHeci"]
      /\ UNCHANGED <<owner, mem, callVars, user>> /\ word' = word
  BY DEF CallGetAttkb, At, Goto, heapVars, callVars, WithKeybox
<1>2. /\ word' \in [Blocks -> Int] /\ "InHeci" \in PCs /\ "InHeci" \in WithKeybox
      /\ ret' \in {-1} \cup Sizes /\ attkb' \in Buffers
  BY <1>1, ServiceTypes DEF IInv, Types, PCs, WithKeybox, Step
<1> QED BY <1>1, <1>2, MoveStep

(* What holds of a call that has a keybox buffer.                          *)
LEMMA KeyboxFacts ==
  ASSUME IInv, NEW a \in Apps, pc[a] \in WithKeybox
  PROVE  /\ kbuf[a] \in Blocks /\ owner[kbuf[a]] = a
         /\ dev_info[a] \in Blocks /\ owner[dev_info[a]] = a
         /\ kbuf[a] # dev_info[a]
         /\ mem[kbuf[a]] \cap SecInfoSecrets = {}
         /\ mem[kbuf[a]] \in SUBSET Secrets
         /\ "attkb" \in Entitled(a)
         /\ "attkb" \notin SecInfoSecrets /\ "attkb" \in Secrets
<1>1. pc[a] \in InCall
  BY DEF WithKeybox, InCall, PCs
<1>2. "GET_ATTKB" \in get_ta_permission(a) /\ mem[kbuf[a]] \cap SecInfoSecrets = {}
  BY DEF IInv, Contents
<1>3. kbuf[a] \in Blocks /\ owner[kbuf[a]] = a /\ kbuf[a] # dev_info[a]
  BY DEF IInv, Ownership
<1>4. dev_info[a] \in Blocks /\ owner[dev_info[a]] = a
  BY <1>1 DEF IInv, Ownership
<1>5. mem[kbuf[a]] \in SUBSET Secrets
  BY <1>3 DEF IInv, Types
<1> QED BY <1>2, <1>3, <1>4, <1>5, VisibleEntitled DEF SecInfoSecrets, Secrets

LEMMA KeyboxArrivesInv ==
  ASSUME IInv, NEW a \in Apps, KeyboxArrives(a)
  PROVE  IInv'
<1>1. /\ pc[a] \in WithKeybox /\ pc' = [pc EXCEPT ![a] = "CopyKeybox"]
      /\ UNCHANGED <<owner, mem, callVars, user>> /\ word' = word
  BY DEF KeyboxArrives, At, Goto, heapVars, callVars, WithKeybox
<1>2. /\ word' \in [Blocks -> Int] /\ "CopyKeybox" \in PCs /\ "CopyKeybox" \in WithKeybox
      /\ ret' \in {-1} \cup Sizes /\ attkb' \in Buffers
  BY <1>1, ServiceTypes DEF IInv, Types, PCs, WithKeybox, Step
<1> QED BY <1>1, <1>2, MoveStep

(* A call is done with its keybox buffer: the buffer is freed and holds no *)
(* field of device_sec_info_t, as before.                                  *)
LEMMA KeyboxDone ==
  ASSUME IInv, NEW a \in Apps, pc[a] \in WithKeybox,
         NEW left \in SUBSET {"attkb"},
         pc' = [pc EXCEPT ![a] = "CopyOut"],
         owner' = [owner EXCEPT ![kbuf[a]] = Nobody],
         kbuf' = [kbuf EXCEPT ![a] = Nobody],
         mem' = [mem EXCEPT ![kbuf[a]] = mem[kbuf[a]] \cup left],
         dev_info' = dev_info
  PROVE  Ownership' /\ Contents' /\ SecInfoWiped' /\ mem' \in [Blocks -> SUBSET Secrets]
<1> DEFINE b == kbuf[a]
<1>1. /\ b \in Blocks /\ owner[b] = a
      /\ dev_info[a] \in Blocks /\ owner[dev_info[a]] = a /\ b # dev_info[a]
      /\ mem[b] \cap SecInfoSecrets = {} /\ mem[b] \in SUBSET Secrets
      /\ "attkb" \notin SecInfoSecrets /\ "attkb" \in Secrets
  BY KeyboxFacts
<1>2. mem' \in [Blocks -> SUBSET Secrets]
  BY <1>1 DEF IInv, Types
<1>3. \A d \in Blocks : d # b => mem'[d] = mem[d]
  BY <1>1 DEF IInv, Types
<1>4. mem'[b] \cap SecInfoSecrets = {}
  BY <1>1 DEF IInv, Types
<1>5. \A c \in Apps : pc[c] \in InCall => dev_info[c] # b /\ dev_info[c] \in Blocks
  BY <1>1, Disjoint DEF IInv, Ownership
<1>6. \A c \in Apps : c # a /\ pc[c] \in WithKeybox => kbuf[c] # b /\ kbuf[c] \in Blocks
  BY <1>1, Disjoint DEF IInv, Ownership
<1>7. pc'[a] = "CopyOut" /\ \A c \in Apps : c # a => pc'[c] = pc[c] /\ kbuf'[c] = kbuf[c]
  BY DEF IInv, Types
<1>8. \A d \in Blocks : owner'[d] = IF d = b THEN Nobody ELSE owner[d]
  BY <1>1 DEF IInv, Types
<1>9. Ownership'
  <2>1. \A c \in Apps : pc'[c] \in InCall => dev_info'[c] \in Blocks /\ owner'[dev_info'[c]] = c
    BY <1>1, <1>5, <1>7, <1>8 DEF IInv, Ownership
  <2>2. \A c \in Apps : pc'[c] \in WithKeybox =>
          kbuf'[c] \in Blocks /\ owner'[kbuf'[c]] = c /\ kbuf'[c] # dev_info'[c]
    BY <1>6, <1>7, <1>8 DEF IInv, Ownership, WithKeybox
  <2>3. \A d \in Blocks, c \in Apps : owner'[d] = c =>
          \/ pc'[c] \in InCall /\ d = dev_info'[c]
          \/ pc'[c] \in WithKeybox /\ d = kbuf'[c]
    <3> TAKE d \in Blocks, c \in Apps
    <3> HAVE owner'[d] = c
    <3>1. d # b /\ owner[d] = c
      BY <1>8, DeviceInfoAssumption
    <3>2. CASE c = a
      BY <1>1, <1>7, <3>1, <3>2 DEF IInv, Ownership, InCall, PCs
    <3>3. CASE c # a
      BY <1>7, <3>1, <3>3 DEF IInv, Ownership
    <3> QED BY <3>2, <3>3
  <2> QED BY <2>1, <2>2, <2>3 DEF Ownership
<1>10. Contents'
  <2>1. \A c \in Apps : pc'[c] \in WithInfo => pc[c] \in WithInfo /\ dev_info'[c] # b
                                             /\ dev_info'[c] \in Blocks
    BY <1>5, <1>7 DEF WithInfo, InCall, WithKeybox, PCs
  <2>2. \A c \in Apps : pc'[c] \in WithInfo =>
          mem'[dev_info'[c]] \cap SecInfoSecrets \subseteq Visible(c)
    BY <1>3, <2>1 DEF IInv, Contents
  <2>3. \A c \in Apps : pc'[c] \in WithKeybox => mem'[kbuf'[c]] \cap SecInfoSecrets = {}
    BY <1>3, <1>6, <1>7 DEF IInv, Contents, WithKeybox
  <2>4. \A c \in Apps : pc'[c] \in WithKeybox \cup {"Keybox"} =>
          "GET_ATTKB" \in get_ta_permission(c)
    BY <1>7 DEF IInv, Contents, WithKeybox
  <2> QED BY <2>2, <2>3, <2>4 DEF Contents
<1>11. SecInfoWiped'
  BY <1>3, <1>4, <1>8 DEF IInv, SecInfoWiped
<1> QED BY <1>2, <1>9, <1>10, <1>11

LEMMA KeyboxFailsInv ==
  ASSUME IInv, NEW a \in Apps, KeyboxFails(a)
  PROVE  IInv'
<1> DEFINE b == kbuf[a]
<1>1. /\ pc[a] = "InHeci" /\ pc' = [pc EXCEPT ![a] = "CopyOut"]
      /\ word' = [word EXCEPT ![dev_info[a]] = 0]
      /\ owner' = [owner EXCEPT ![b] = Nobody]
      /\ kbuf' = [kbuf EXCEPT ![a] = Nobody]
      /\ UNCHANGED <<dev_info, user>>
  BY DEF KeyboxFails, At, Goto, KeyboxSize, Free
<1>2. pc[a] \in WithKeybox
  BY <1>1 DEF WithKeybox
<1>3. PICK left \in SUBSET {"attkb"} : mem' = [mem EXCEPT ![b] = mem[b] \cup left]
  <2>1. CASE attkb' = Prefix(0)
    <3>1. mem' = [mem EXCEPT ![b] = mem[b] \cup {}] /\ {} \in SUBSET {"attkb"}
      BY <2>1 DEF KeyboxFails
    <3> QED BY <3>1
  <2>2. CASE attkb' # Prefix(0)
    BY <2>2 DEF KeyboxFails
  <2> QED BY <2>1, <2>2
<1>4. Ownership' /\ Contents' /\ SecInfoWiped' /\ mem' \in [Blocks -> SUBSET Secrets]
  BY <1>1, <1>2, <1>3, KeyboxDone
<1>5. Types'
  <2>1. b \in Blocks /\ dev_info[a] \in Blocks
    BY <1>2, KeyboxFacts
  <2>2. /\ pc' \in [Apps -> PCs] /\ owner' \in [Blocks -> Apps \cup {Nobody}]
        /\ dev_info' \in [Apps -> Blocks \cup {Nobody}]
        /\ kbuf' \in [Apps -> Blocks \cup {Nobody}]
    BY <1>1, <2>1 DEF IInv, Types, PCs
  <2>3. word' \in [Blocks -> Int]
    BY <1>1, <2>1, SizesFact DEF IInv, Types
  <2>4. user' \in [Apps -> [secrets : SUBSET Secrets, attkb_size : Int, attkb : Received]]
    BY <1>1 DEF IInv, Types
  <2> QED BY <1>4, <2>2, <2>3, <2>4, ServiceTypes DEF Types, Step
<1> QED BY <1>4, <1>5 DEF IInv

(* The bytes copied behind the structure.                                  *)
LEMMA CopiedType ==
  ASSUME IInv
  PROVE  [i \in 0 .. ret-1 |-> attkb[i]] \in Received
<1>1. ret \in {-1} \cup Sizes /\ ret \in Int /\ ret <= MaxAttkb /\ MaxAttkb \in Nat
  BY SizesFact DEF IInv, Types
<1>2. \A i \in 0 .. ret-1 : i \in 0 .. MaxAttkb-1
  BY <1>1
<1>3. \A i \in 0 .. ret-1 : attkb[i] \in Bytes \cup {Unwritten}
  BY <1>2 DEF IInv, Types, Buffers
<1>4. [i \in 0 .. ret-1 |-> attkb[i]] \in [0 .. ret-1 -> Bytes \cup {Unwritten}]
  BY <1>3
<1> QED BY <1>1, <1>4 DEF Received

LEMMA CopyKeyboxInv ==
  ASSUME IInv, NEW a \in Apps, CopyKeybox(a)
  PROVE  IInv'
<1> DEFINE b == kbuf[a]
           copied == [i \in 0 .. ret-1 |-> attkb[i]]
<1>1. /\ pc[a] = "CopyKeybox" /\ pc' = [pc EXCEPT ![a] = "CopyOut"]
      /\ word' = [word EXCEPT ![dev_info[a]] = ret]
      /\ owner' = [owner EXCEPT ![b] = Nobody]
      /\ kbuf' = [kbuf EXCEPT ![a] = Nobody]
      /\ user' = [user EXCEPT ![a] = [user[a] EXCEPT !.secrets = user[a].secrets \cup {"attkb"},
                                                     !.attkb = copied]]
      /\ UNCHANGED <<mem, dev_info>>
  BY DEF CopyKeybox, At, Goto, KeyboxSize, Free
<1>2. pc[a] \in WithKeybox
  BY <1>1 DEF WithKeybox
<1>3. mem' = [mem EXCEPT ![b] = mem[b] \cup {}] /\ {} \in SUBSET {"attkb"}
  BY <1>1, <1>2, KeyboxFacts DEF IInv, Types
<1>4. Ownership' /\ Contents' /\ SecInfoWiped' /\ mem' \in [Blocks -> SUBSET Secrets]
  BY <1>1, <1>2, <1>3, KeyboxDone
<1>5. Types'
  <2>1. b \in Blocks /\ dev_info[a] \in Blocks
    BY <1>2, KeyboxFacts
  <2>2. /\ pc' \in [Apps -> PCs] /\ owner' \in [Blocks -> Apps \cup {Nobody}]
        /\ dev_info' \in [Apps -> Blocks \cup {Nobody}]
        /\ kbuf' \in [Apps -> Blocks \cup {Nobody}]
    BY <1>1, <2>1 DEF IInv, Types, PCs
  <2>3. word' \in [Blocks -> Int]
    BY <1>1, <2>1, SizesFact DEF IInv, Types
  <2>4. user' \in [Apps -> [secrets : SUBSET Secrets, attkb_size : Int, attkb : Received]]
    <3>1. user[a] \in [secrets : SUBSET Secrets, attkb_size : Int, attkb : Received]
      BY DEF IInv, Types
    <3>2. copied \in Received
      BY CopiedType
    <3> HIDE DEF copied
    <3> QED BY <1>1, <3>1, <3>2 DEF IInv, Types, Secrets
  <2> QED BY <1>4, <2>2, <2>3, <2>4, ServiceTypes DEF Types, Step
<1> QED BY <1>4, <1>5 DEF IInv

LEMMA CopyKeyboxFailsInv ==
  ASSUME IInv, NEW a \in Apps, CopyKeyboxFails(a)
  PROVE  IInv'
<1>1. UNCHANGED <<pc, owner, mem, word, dev_info, kbuf, user>>
  BY DEF CopyKeyboxFails, heapVars, callVars
<1>2. Types'
  BY <1>1, ServiceTypes DEF IInv, Types, Step
<1> QED BY <1>1, <1>2 DEF IInv, Ownership, Contents, SecInfoWiped

(* What holds of a call about to copy its structure out.                   *)
LEMMA CopyOutFacts ==
  ASSUME IInv, NEW a \in Apps, pc[a] = "CopyOut"
  PROVE  /\ dev_info[a] \in Blocks /\ owner[dev_info[a]] = a
         /\ mem[dev_info[a]] \cap SecInfoSecrets \subseteq Entitled(a)
         /\ mem[dev_info[a]] \in SUBSET Secrets
<1>1. dev_info[a] \in Blocks /\ owner[dev_info[a]] = a
  BY DEF IInv, Ownership, InCall, PCs
<1>2. mem[dev_info[a]] \cap SecInfoSecrets \subseteq Visible(a)
  BY DEF IInv, Contents, WithInfo, InCall, PCs
<1> QED BY <1>1, <1>2, VisibleEntitled DEF IInv, Types

LEMMA CopyOutInv ==
  ASSUME IInv, NEW a \in Apps, CopyOut(a)
  PROVE  IInv'
<1> DEFINE b == dev_info[a]
<1>1. /\ pc[a] = "CopyOut" /\ pc' = [pc EXCEPT ![a] = "user"]
      /\ mem' = [mem EXCEPT ![b] = mem[b] \ SecInfoSecrets] /\ word' = [word EXCEPT ![b] = 0]
      /\ owner' = [owner EXCEPT ![b] = Nobody]
      /\ dev_info' = [dev_info EXCEPT ![a] = Nobody]
      /\ UNCHANGED kbuf
  BY DEF CopyOut, At, Wipe, Free, Return
<1>2. b \in Blocks /\ owner[b] = a /\ mem[b] \in SUBSET Secrets
  BY <1>1, CopyOutFacts
<1>3. \A c \in Apps : c # a => pc'[c] = pc[c] /\ dev_info'[c] = dev_info[c]
  BY <1>1 DEF IInv, Types
<1>4. pc'[a] = "user"
  BY <1>1 DEF IInv, Types
<1>5. \A d \in Blocks : /\ owner'[d] = IF d = b THEN Nobody ELSE owner[d]
                        /\ mem'[d] = IF d = b THEN mem[b] \ SecInfoSecrets ELSE mem[d]
  BY <1>1, <1>2 DEF IInv, Types
<1>6. Types'
  <2>1. PICK more \in SUBSET Secrets :
          user' = [user EXCEPT ![a] = [user[a] EXCEPT !.secrets = user[a].secrets \cup more,
                                                      !.attkb_size = word[b]]]
    <3> DEFINE scraps == IF word[b] = Scrap THEN {"attkb"} ELSE {}
               more == (mem[b] \cap SecInfoSecrets) \cup scraps
    <3>1. user' = [user EXCEPT ![a] = [user[a] EXCEPT
                     !.secrets = (user[a].secrets \cup (mem[b] \cap SecInfoSecrets)) \cup scraps,
                     !.attkb_size = word[b]]]
      BY DEF CopyOut
    <3>2. (user[a].secrets \cup (mem[b] \cap SecInfoSecrets)) \cup scraps
            = user[a].secrets \cup more
      OBVIOUS
    <3>3. more \in SUBSET Secrets
      BY <1>2 DEF Secrets
    <3> HIDE DEF more, scraps
    <3> QED BY <3>1, <3>2, <3>3
  <2>2. user' \in [Apps -> [secrets : SUBSET Secrets, attkb_size : Int, attkb : Received]]
    <3>1. user[a] \in [secrets : SUBSET Secrets, attkb_size : Int, attkb : Received]
      BY DEF IInv, Types
    <3>2. word[b] \in Int
      BY <1>2 DEF IInv, Types
    <3> QED BY <2>1, <3>1, <3>2 DEF IInv, Types
  <2>3. /\ pc' \in [Apps -> PCs] /\ owner' \in [Blocks -> Apps \cup {Nobody}]
        /\ dev_info' \in [Apps -> Blocks \cup {Nobody}]
        /\ kbuf' \in [Apps -> Blocks \cup {Nobody}]
    BY <1>1, <1>2 DEF IInv, Types, PCs
  <2>4. mem' \in [Blocks -> SUBSET Secrets] /\ word' \in [Blocks -> Int]
    BY <1>1, <1>2 DEF IInv, Types
  <2> QED BY <2>2, <2>3, <2>4, ServiceTypes DEF Types, Step
<1>7. "user" \notin InCall /\ "user" \notin WithKeybox /\ "user" \notin WithInfo
  BY DEF InCall, WithKeybox, WithInfo
<1>8. Ownership'
  <2>1. \A c \in Apps : pc'[c] \in InCall =>
          dev_info'[c] \in Blocks /\ owner'[dev_info'[c]] = c
    BY <1>2, <1>3, <1>4, <1>5, <1>7 DEF IInv, Ownership
  <2>2. \A c \in Apps : pc'[c] \in WithKeybox =>
          kbuf'[c] \in Blocks /\ owner'[kbuf'[c]] = c /\ kbuf'[c] # dev_info'[c]
    BY <1>1, <1>2, <1>3, <1>4, <1>5, <1>7 DEF IInv, Ownership
  <2>3. \A d \in Blocks, c \in Apps : owner'[d] = c =>
          \/ pc'[c] \in InCall /\ d = dev_info'[c]
          \/ pc'[c] \in WithKeybox /\ d = kbuf'[c]
    <3> TAKE d \in Blocks, c \in Apps
    <3> HAVE owner'[d] = c
    <3>1. d # b /\ owner[d] = c
      BY <1>5, DeviceInfoAssumption
    <3>2. c # a
      BY <1>1, <3>1 DEF IInv, Ownership, WithKeybox
    <3> QED BY <1>1, <1>3, <3>1, <3>2 DEF IInv, Ownership
  <2> QED BY <2>1, <2>2, <2>3 DEF Ownership
<1>9. Contents'
  <2>1. \A c \in Apps : c # a /\ pc[c] \in WithInfo => dev_info[c] # b /\ dev_info[c] \in Blocks
    BY <1>2, Disjoint DEF IInv, Ownership, WithInfo
  <2>2. \A c \in Apps : c # a /\ pc[c] \in WithKeybox => kbuf[c] # b /\ kbuf[c] \in Blocks
    BY <1>2, Disjoint DEF IInv, Ownership
  <2>3. \A c \in Apps : pc'[c] \in WithInfo =>
          mem'[dev_info'[c]] \cap SecInfoSecrets \subseteq Visible(c)
    BY <1>3, <1>4, <1>5, <1>7, <2>1 DEF IInv, Contents
  <2>4. \A c \in Apps : pc'[c] \in WithKeybox => mem'[kbuf'[c]] \cap SecInfoSecrets = {}
    BY <1>1, <1>3, <1>4, <1>5, <1>7, <2>2 DEF IInv, Contents
  <2>5. \A c \in Apps : pc'[c] \in WithKeybox \cup {"Keybox"} =>
          "GET_ATTKB" \in get_ta_permission(c)
    BY <1>3, <1>4 DEF IInv, Contents, WithKeybox
  <2> QED BY <2>3, <2>4, <2>5 DEF Contents
<1>10. SecInfoWiped'
  BY <1>5 DEF IInv, SecInfoWiped
<1> QED BY <1>6, <1>8, <1>9, <1>10 DEF IInv

LEMMA CopyOutFailsInv ==
  ASSUME IInv, NEW a \in Apps, CopyOutFails(a)
  PROVE  IInv'
<1> DEFINE b == dev_info[a]
<1>1. /\ pc[a] = "CopyOut"
      /\ mem' = [mem EXCEPT ![b] = mem[b] \ SecInfoSecrets] /\ word' = [word EXCEPT ![b] = 0]
      /\ UNCHANGED <<pc, owner, dev_info, kbuf, user>>
  BY DEF CopyOutFails, At, Wipe, callVars
<1>2. b \in Blocks
  BY <1>1, CopyOutFacts
<1>3. Types'
  <2>1. mem[b] \in SUBSET Secrets
    BY <1>2 DEF IInv, Types
  <2> QED BY <1>1, <1>2, <2>1, ServiceTypes DEF IInv, Types, Step
<1>4. \A d \in Blocks : mem'[d] \subseteq mem[d]
  BY <1>1 DEF IInv, Types
<1>5. Ownership'
  BY <1>1 DEF IInv, Ownership
<1>6. SecInfoWiped'
  BY <1>1, <1>4 DEF IInv, SecInfoWiped
<1>7. Contents'
  <2>1. \A c \in Apps : pc[c] \in WithInfo => dev_info[c] \in Blocks
    BY DEF IInv, Ownership, WithInfo
  <2>2. \A c \in Apps : pc[c] \in WithKeybox => kbuf[c] \in Blocks
    BY DEF IInv, Ownership
  <2> QED BY <1>1, <1>4, <2>1, <2>2 DEF IInv, Contents
<1> QED BY <1>3, <1>5, <1>6, <1>7 DEF IInv

-----------------------------------------------------------------------------
LEMMA NextInv == IInv /\ [Next]_vars => IInv'
<1> SUFFICES ASSUME IInv, [Next]_vars PROVE IInv'
  OBVIOUS
<1>1. ASSUME NEW a \in Apps, Enter(a) PROVE IInv'
  BY <1>1, EnterInv, AllocInfoInv DEF Enter
<1>2. ASSUME NEW a \in Apps, Step(a) PROVE IInv'
  BY <1>2, FillInv, NoKeyboxMemoryInv, CallGetAttkbInv, KeyboxFailsInv, KeyboxArrivesInv,
     CopyKeyboxInv, CopyKeyboxFailsInv, CopyOutInv, CopyOutFailsInv, AllocKeyboxInv DEF Step
<1>3. CASE UNCHANGED vars
  BY <1>3 DEF vars, heapVars, callVars, heciVars, serviceVars, IInv, Types, Ownership,
              Contents, SecInfoWiped
<1> QED BY <1>1, <1>2, <1>3 DEF Next

(* The inductive invariant holds throughout.                               *)
THEOREM Invariance == Spec => []IInv
BY InitInv, NextInv, PTL DEF Spec

(* No free heap block ever holds a field of device_sec_info_t.             *)
THEOREM SecretsWiped == Spec => []SecInfoWiped
BY Invariance, PTL DEF IInv

(* Every block belongs to a call in progress: each return has freed both.  *)
THEOREM NoBlockKept == Spec => []BlocksReturned
<1>1. IInv => BlocksReturned
  <2> SUFFICES ASSUME IInv, NEW a \in Apps, pc[a] = "user", NEW b \in Blocks, owner[b] = a
               PROVE  FALSE
    BY DEF BlocksReturned
  <2>1. pc[a] \in InCall \/ pc[a] \in WithKeybox
    BY DEF IInv, Ownership
  <2> QED BY <2>1 DEF InCall, WithKeybox
<1> QED BY <1>1, Invariance, PTL

-----------------------------------------------------------------------------
(* Part of a keybox is where a structure's attkb_size will be only if some *)
(* block holds one, and none loses it again.                               *)
Scraps == \A b \in Blocks : word[b] = Scrap => "attkb" \in mem[b]

LEMMA KeyboxStays ==
  ASSUME IInv, NEW a \in Apps, Enter(a) \/ Step(a)
  PROVE  \A b \in Blocks : "attkb" \in mem[b] => "attkb" \in mem'[b]
<1>1. \/ mem' = mem
      \/ \E b \in Blocks \cup {Nobody} :
           mem' = [mem EXCEPT ![b] = Visible(a) \cup (mem[b] \ SecInfoSecrets)]
      \/ \E b \in Blocks \cup {Nobody} : mem' = [mem EXCEPT ![b] = mem[b] \cup {"attkb"}]
      \/ \E b \in Blocks \cup {Nobody} : mem' = [mem EXCEPT ![b] = mem[b] \ SecInfoSecrets]
  <2>1. dev_info[a] \in Blocks \cup {Nobody} /\ kbuf[a] \in Blocks \cup {Nobody}
    BY DEF IInv, Types
  <2>2. CASE Fill(a)
    BY <2>1, <2>2 DEF Fill
  <2>3. CASE KeyboxFails(a)
    <3>1. mem' = [mem EXCEPT ![kbuf[a]] = mem[kbuf[a]]] \/
          mem' = [mem EXCEPT ![kbuf[a]] = mem[kbuf[a]] \cup {"attkb"}]
      BY <2>3 DEF KeyboxFails
    <3>2. [mem EXCEPT ![kbuf[a]] = mem[kbuf[a]]] = mem
      BY DEF IInv, Types
    <3> QED BY <2>1, <3>1, <3>2
  <2>4. CASE CopyOut(a) \/ CopyOutFails(a)
    BY <2>1, <2>4 DEF CopyOut, CopyOutFails, Wipe
  <2>5. CASE ~(Fill(a) \/ KeyboxFails(a) \/ CopyOut(a) \/ CopyOutFails(a))
    BY <2>5 DEF Enter, Step, SizeMismatch, NotAllowed, NoMemory, AllocInfo, NoKeyboxMemory,
       AllocKeybox, CallGetAttkb, KeyboxArrives, CopyKeybox, CopyKeyboxFails, heapVars
  <2> QED BY <2>2, <2>3, <2>4, <2>5
<1>2. "attkb" \notin SecInfoSecrets
  BY DEF SecInfoSecrets
<1> QED BY <1>1, <1>2 DEF IInv, Types

LEMMA ScrapsStep ==
  ASSUME IInv, Scraps, NEW a \in Apps, Enter(a) \/ Step(a)
  PROVE  Scraps'
<1>1. \/ word' = word
      \/ \E b \in Blocks : mem' = mem /\ \E w \in Leftovers(b) : word' = [word EXCEPT ![b] = w]
      \/ \E n \in {-1} \cup Sizes : word' = [word EXCEPT ![dev_info[a]] = n]
  <2>1. 0 \in {-1} \cup Sizes /\ ret \in {-1} \cup Sizes
    BY SizesFact DEF IInv, Types
  <2>2. ASSUME NEW b \in Blocks, AllocInfo(a, b)
        PROVE  mem' = mem /\ \E w \in Leftovers(b) : word' = [word EXCEPT ![b] = w]
    BY <2>2 DEF AllocInfo
  <2>3. CASE Fill(a)
    BY <2>1, <2>3 DEF Fill
  <2>4. CASE NoKeyboxMemory(a) \/ KeyboxFails(a) \/ CopyKeybox(a)
    BY <2>1, <2>4 DEF NoKeyboxMemory, KeyboxFails, CopyKeybox, KeyboxSize
  <2>5. CASE CopyOut(a) \/ CopyOutFails(a)
    BY <2>1, <2>5 DEF CopyOut, CopyOutFails, Wipe
  <2>6. CASE \/ SizeMismatch(a) \/ NotAllowed(a) \/ NoMemory(a) \/ CallGetAttkb(a)
             \/ KeyboxArrives(a) \/ CopyKeyboxFails(a) \/ \E b \in Blocks : AllocKeybox(a, b)
    BY <2>6 DEF SizeMismatch, NotAllowed, NoMemory, CallGetAttkb, KeyboxArrives,
       CopyKeyboxFails, AllocKeybox, heapVars
  <2> QED BY <2>2, <2>3, <2>4, <2>5, <2>6 DEF Enter, Step
<1>2. \A b \in Blocks : "attkb" \in mem[b] => "attkb" \in mem'[b]
  BY KeyboxStays
<1>3. CASE \E b \in Blocks : mem' = mem /\ \E w \in Leftovers(b) : word' = [word EXCEPT ![b] = w]
  <2>1. PICK b \in Blocks : mem' = mem /\ \E w \in Leftovers(b) : word' = [word EXCEPT ![b] = w]
    BY <1>3
  <2>2. PICK w \in Leftovers(b) : word' = [word EXCEPT ![b] = w]
    BY <2>1
  <2>3. w = Scrap => "attkb" \in mem[b]
    BY <2>2, DeviceInfoAssumption DEF Leftovers
  <2> QED BY <2>1, <2>2, <2>3 DEF Scraps, IInv, Types
<1>4. CASE word' = word \/ \E n \in {-1} \cup Sizes : word' = [word EXCEPT ![dev_info[a]] = n]
  BY <1>2, <1>4, SizesFact DEF Scraps, IInv, Types
<1> QED BY <1>1, <1>3, <1>4

LEMMA ConfinedStep ==
  ASSUME IInv, Scraps, LeastPrivilege, NEW a \in Apps, Enter(a) \/ Step(a)
  PROVE  LeastPrivilege'
<1>1. \A b \in Blocks : "attkb" \in mem[b] => "attkb" \in mem'[b]
  BY KeyboxStays
<1>2. CASE user' = user
  BY <1>1, <1>2 DEF LeastPrivilege
<1>3. CASE CopyKeybox(a)
  <2>1. "attkb" \in Entitled(a)
    BY <1>3, KeyboxFacts DEF CopyKeybox, At, WithKeybox
  <2>2. /\ user'[a].secrets = user[a].secrets \cup {"attkb"}
        /\ \A c \in Apps : c # a => user'[c] = user[c]
    <3>1. user' = [user EXCEPT ![a] = [user[a] EXCEPT !.secrets = user[a].secrets \cup {"attkb"},
                                     !.attkb = [i \in 0 .. ret-1 |-> attkb[i]]]]
      BY <1>3 DEF CopyKeybox
    <3> QED BY <3>1 DEF IInv, Types
  <2> QED BY <1>1, <2>1, <2>2 DEF LeastPrivilege
<1>4. CASE CopyOut(a)
  <2> DEFINE b == dev_info[a]
             scraps == IF word[b] = Scrap THEN {"attkb"} ELSE {}
             more == mem[b] \cap SecInfoSecrets
  <2>1. b \in Blocks /\ more \subseteq Entitled(a)
    BY <1>4, CopyOutFacts DEF CopyOut, At
  <2>2. /\ user'[a].secrets = (user[a].secrets \cup more) \cup scraps
        /\ \A c \in Apps : c # a => user'[c] = user[c]
    <3>1. user' = [user EXCEPT ![a] = [user[a] EXCEPT
                     !.secrets = (user[a].secrets \cup more) \cup scraps,
                     !.attkb_size = word[b]]]
      BY <1>4 DEF CopyOut
    <3> HIDE DEF more, scraps
    <3> QED BY <3>1 DEF IInv, Types
  <2>3. scraps \cap SecInfoSecrets = {}
    BY DEF SecInfoSecrets
  <2>4. (\A c \in Blocks : "attkb" \notin mem'[c]) => scraps = {}
    BY <1>1, <2>1 DEF Scraps
  <2> HIDE DEF b, scraps, more
  <2> QED BY <1>1, <2>1, <2>2, <2>3, <2>4 DEF LeastPrivilege
<1>5. CASE ~CopyKeybox(a) /\ ~CopyOut(a)
  <2>1. user' = user
    BY <1>5 DEF Enter, Step, SizeMismatch, NotAllowed, NoMemory, AllocInfo, Fill,
       NoKeyboxMemory, AllocKeybox, CallGetAttkb, KeyboxFails, KeyboxArrives,
       CopyKeyboxFails, CopyOutFails
  <2> QED BY <1>2, <2>1
<1> QED BY <1>3, <1>4, <1>5

(* No application ever holds a field of the sec info it is not entitled    *)
(* to, however the calls interleave and the heap's blocks go from hand to  *)
(* hand; nor anything of a keybox, unless a failed get_attkb has left part *)
(* of one on the heap.                                                     *)
THEOREM SecretsConfined == Spec => []LeastPrivilege
<1>1. Init => Scraps /\ LeastPrivilege
  BY DeviceInfoAssumption DEF Init, Scraps, LeastPrivilege
<1>2. IInv /\ Scraps /\ LeastPrivilege /\ [Next]_vars => Scraps' /\ LeastPrivilege'
  <2> SUFFICES ASSUME IInv, Scraps, LeastPrivilege, [Next]_vars
               PROVE  Scraps' /\ LeastPrivilege'
    OBVIOUS
  <2>1. CASE UNCHANGED vars
    BY <2>1 DEF vars, heapVars, Scraps, LeastPrivilege
  <2> QED BY <2>1, ScrapsStep, ConfinedStep DEF Next
<1> QED BY <1>1, <1>2, Invariance, PTL DEF Spec

-----------------------------------------------------------------------------
(* The keybox: only one application may ask for it, so that between the    *)
(* service's answer and its copy nobody else changes ret.                  *)
LEMMA OneHolder ==
  ASSUME NEW a \in Apps, NEW c \in Apps,
         "GET_ATTKB" \in get_ta_permission(a), "GET_ATTKB" \in get_ta_permission(c)
  PROVE  a = c
<1>1. \A d \in Apps : "GET_ATTKB" \in get_ta_permission(d) => d = "keymaster"
  BY DEF get_ta_permission
<1> QED BY <1>1

(* Two calls are never inside get_attkb together, whichever applications   *)
(* there are and however often they call.                                  *)
THEOREM LinkNotShared == Spec => []OneHeciUser
<1>1. IInv => OneHeciUser
  <2> SUFFICES ASSUME IInv, NEW a \in Apps, NEW c \in Apps,
                      pc[a] \in {"GetAttkb", "InHeci"}, pc[c] \in {"GetAttkb", "InHeci"}
               PROVE  a = c
    BY DEF OneHeciUser
  <2>1. "GET_ATTKB" \in get_ta_permission(a) /\ "GET_ATTKB" \in get_ta_permission(c)
    BY DEF IInv, Contents, WithKeybox
  <2> QED BY <2>1, OneHolder
<1> QED BY <1>1, Invariance, PTL

(* A size n told with these bytes is what AttkbDelivered says.             *)
Good(n, bytes) ==
  /\ n \in Nat /\ DOMAIN bytes = 0 .. n-1
  /\ \A i \in DOMAIN bytes : bytes[i] # Unwritten
  /\ ~exchange_failed => bytes = Keybox

(* What get_attkb returned, at the first copy, and what the structure and  *)
(* the user buffer hold at the second and after it.                        *)
ToldOf(a) ==
  /\ pc[a] = "CopyKeybox" =>
       /\ ret \in Sizes /\ Filled(attkb, ret)
       /\ ~exchange_failed => ret = FileSize /\ attkb = Prefix(FileSize)
  /\ pc[a] = "CopyOut" => word[dev_info[a]] = 0 \/ Good(word[dev_info[a]], user[a].attkb)
  /\ pc[a] = "user" => user[a].attkb_size = 0 \/ Good(user[a].attkb_size, user[a].attkb)

Told == \A a \in Apps : "GET_ATTKB" \in get_ta_permission(a) => ToldOf(a)

(* Nothing of that depends on what the other applications do.              *)
LEMMA OthersDisturbNothing ==
  ASSUME IInv, NEW a \in Apps, Enter(a) \/ Step(a),
         NEW c \in Apps, c # a, "GET_ATTKB" \in get_ta_permission(c)
  PROVE  /\ pc'[c] = pc[c] /\ user'[c] = user[c] /\ UNCHANGED heciVars
         /\ dev_info'[c] = dev_info[c]
         /\ pc[c] = "CopyOut" => word'[dev_info[c]] = word[dev_info[c]]
<1> USE DEF At, Goto, heapVars, callVars
<1>0. "GET_ATTKB" \notin get_ta_permission(a) /\ pc[a] \notin WithKeybox \cup {"Keybox"}
  BY OneHolder DEF IInv, Contents
<1>1. ~CallGetAttkb(a) /\ ~KeyboxFails(a) /\ ~KeyboxArrives(a) /\ ~CopyKeybox(a)
      /\ ~CopyKeyboxFails(a) /\ ~NoKeyboxMemory(a) /\ \A b \in Blocks : ~AllocKeybox(a, b)
  BY <1>0 DEF WithKeybox, CallGetAttkb, KeyboxFails, KeyboxArrives, CopyKeybox,
     CopyKeyboxFails, NoKeyboxMemory, AllocKeybox
<1>2. pc[c] = "CopyOut" => dev_info[c] \in Blocks /\ owner[dev_info[c]] = c
  BY DEF IInv, Ownership, InCall, PCs
<1>3. CASE SizeMismatch(a) \/ NotAllowed(a) \/ NoMemory(a)
  BY <1>3 DEF SizeMismatch, NotAllowed, NoMemory, Entry, Return, IInv, Types
<1>4. ASSUME NEW b \in Blocks, AllocInfo(a, b)
      PROVE  /\ pc'[c] = pc[c] /\ user'[c] = user[c] /\ UNCHANGED heciVars
             /\ dev_info'[c] = dev_info[c]
             /\ pc[c] = "CopyOut" => word'[dev_info[c]] = word[dev_info[c]]
  <2>1. owner[b] = Nobody
    BY <1>4 DEF AllocInfo, Malloc
  <2>2. pc[c] = "CopyOut" => dev_info[c] # b
    BY <1>2, <2>1, DeviceInfoAssumption
  <2>3. PICK w \in Leftovers(b) : word' = [word EXCEPT ![b] = w]
    BY <1>4 DEF AllocInfo
  <2> QED BY <1>4, <2>2, <2>3 DEF AllocInfo, Entry, IInv, Types
<1>5. CASE Fill(a) \/ CopyOut(a) \/ CopyOutFails(a)
  <2>1. /\ pc[a] \in InCall /\ UNCHANGED heciVars
        /\ \E place \in PCs : pc' = [pc EXCEPT ![a] = place]
        /\ user'[c] = user[c] /\ dev_info'[c] = dev_info[c]
    BY <1>5 DEF Fill, CopyOut, CopyOutFails, Return, InCall, PCs, IInv, Types
  <2>2. dev_info[a] \in Blocks /\ owner[dev_info[a]] = a
    BY <2>1 DEF IInv, Ownership
  <2>3. word' = word \/ word' = [word EXCEPT ![dev_info[a]] = 0]
    BY <1>5 DEF Fill, CopyOut, CopyOutFails, Wipe
  <2> QED BY <1>2, <2>1, <2>2, <2>3 DEF IInv, Types
<1> QED BY <1>1, <1>3, <1>4, <1>5 DEF Enter, Step

(* An exchange that failed stays so, and makes every claim weaker.         *)
LEMMA FailureStays ==
  ASSUME NEW a \in Apps, Enter(a) \/ Step(a)
  PROVE  exchange_failed' = exchange_failed \/ exchange_failed' = TRUE
BY DEF Enter, Step, SizeMismatch, NotAllowed, NoMemory, AllocInfo, Fill, NoKeyboxMemory,
   AllocKeybox, CallGetAttkb, KeyboxFails, KeyboxArrives, get_attkb, CopyKeybox,
   CopyKeyboxFails, CopyOut, CopyOutFails, heciVars

(* What get_attkb returned, when it is a size.                             *)
LEMMA SizeReturned ==
  ASSUME get_attkb, ret' # 0
  PROVE  /\ ret' \in Sizes /\ Filled(attkb', ret')
         /\ ~exchange_failed' => ret' = FileSize /\ attkb' = Prefix(FileSize)
<1>1. CASE ReturnKeybox
  <2>1. FileSize \in Nat /\ MaxAttkb \in Nat /\ FileSize \in Sizes
    BY SizesFact
  <2>2. ASSUME NEW i \in 0 .. MaxAttkb-1, i < FileSize PROVE Keybox[i] # Unwritten
    <3>1. i \in 0 .. FileSize-1
      BY <2>1, <2>2
    <3>2. Keybox[i] \in 0 .. 255
      BY <3>1, KeyboxAssumption
    <3> QED BY <3>2 DEF Unwritten
  <2>3. \A i \in 0 .. MaxAttkb-1 : i < FileSize => Keybox[i] # Unwritten
    BY <2>2
  <2>4. Filled(Prefix(FileSize), FileSize)
    BY <2>3 DEF Prefix, Filled
  <2> QED BY <1>1, <2>1, <2>4 DEF ReturnKeybox
<1>2. CASE ReturnUnchecked /\ exchange_failed' = TRUE
  BY <1>2 DEF ReturnUnchecked
<1>3. ~ReturnNothing
  BY DEF ReturnNothing
<1> QED BY <1>1, <1>2, <1>3 DEF get_attkb

(* What is copied behind the structure.                                    *)
LEMMA CopiedGood ==
  ASSUME IInv, ret \in Sizes, Filled(attkb, ret),
         ~exchange_failed => ret = FileSize /\ attkb = Prefix(FileSize)
  PROVE  Good(ret, [i \in 0 .. ret-1 |-> attkb[i]])
<1>1. ret \in Nat /\ ret <= MaxAttkb /\ MaxAttkb \in Nat /\ FileSize \in Nat
  BY SizesFact
<1>2. \A i \in 0 .. ret-1 : i \in 0 .. MaxAttkb-1 /\ i < ret
  BY <1>1
<1>3. DOMAIN attkb = 0 .. MaxAttkb-1
  BY DEF IInv, Types, Buffers
<1>4. \A i \in 0 .. ret-1 : attkb[i] # Unwritten
  BY <1>2, <1>3 DEF Filled
<1>5. ASSUME ~exchange_failed PROVE [i \in 0 .. ret-1 |-> attkb[i]] = Keybox
  <2>1. ret = FileSize /\ attkb = Prefix(FileSize)
    BY <1>5
  <2>2. \A i \in 0 .. ret-1 : attkb[i] = Keybox[i]
    BY <1>2, <2>1 DEF Prefix
  <2>3. Keybox = [i \in 0 .. FileSize-1 |-> Keybox[i]]
    BY KeyboxAssumption
  <2> QED BY <2>1, <2>2, <2>3
<1> QED BY <1>1, <1>4, <1>5 DEF Good

LEMMA ToldStep ==
  ASSUME IInv, Told, NEW a \in Apps, Enter(a) \/ Step(a)
  PROVE  Told'
<1> USE DEF At, Goto, heapVars, callVars
<1>0. exchange_failed' = exchange_failed \/ exchange_failed' = TRUE
  BY FailureStays
<1>1. ASSUME NEW c \in Apps, c # a, "GET_ATTKB" \in get_ta_permission(c)
      PROVE  ToldOf(c)'
  <2>1. /\ pc'[c] = pc[c] /\ user'[c] = user[c] /\ UNCHANGED heciVars
        /\ dev_info'[c] = dev_info[c]
        /\ pc[c] = "CopyOut" => word'[dev_info[c]] = word[dev_info[c]]
    BY <1>1, OthersDisturbNothing
  <2>2. ToldOf(c)
    BY <1>1 DEF Told
  <2> QED BY <2>1, <2>2 DEF ToldOf, Good, heciVars, serviceVars
<1>2. SUFFICES ASSUME "GET_ATTKB" \in get_ta_permission(a) PROVE ToldOf(a)'
  BY <1>1 DEF Told
<1>3. ToldOf(a)
  BY <1>2 DEF Told
<1>4. /\ pc[a] \in PCs /\ (pc[a] \in InCall => dev_info[a] \in Blocks)
      /\ user[a] \in [secrets : SUBSET Secrets, attkb_size : Int, attkb : Received]
  BY DEF IInv, Types, Ownership
<1>5. CASE SizeMismatch(a)
  <2>1. UNCHANGED <<pc, user, heciVars>> /\ pc[a] = "user"
    BY <1>5 DEF SizeMismatch, Entry
  <2> QED BY <1>3, <2>1 DEF ToldOf, Good, heciVars, serviceVars
<1>6. CASE NotAllowed(a) \/ NoMemory(a)
  <2>1. UNCHANGED <<user, heciVars>> /\ pc[a] = "user" /\ pc'[a] = "user"
    BY <1>6 DEF NotAllowed, NoMemory, Entry, Return, IInv, Types
  <2> QED BY <1>3, <2>1 DEF ToldOf, Good, heciVars, serviceVars
<1>7. ASSUME \/ \E b \in Blocks : AllocInfo(a, b)
             \/ \E b \in Blocks : AllocKeybox(a, b)
             \/ CallGetAttkb(a)
      PROVE  ToldOf(a)'
  <2>1. pc'[a] \in {"Fill", "GetAttkb", "InHeci"}
    BY <1>7 DEF AllocInfo, AllocKeybox, CallGetAttkb, IInv, Types
  <2> QED BY <2>1 DEF ToldOf
<1>8. CASE Fill(a)
  <2>1. pc'[a] \in {"Keybox", "CopyOut"} /\ dev_info' = dev_info /\ dev_info[a] \in Blocks
    BY <1>4, <1>8 DEF Fill, InCall, PCs, IInv, Types
  <2>2. pc'[a] = "CopyOut" => word'[dev_info[a]] = 0
    BY <1>2, <1>8, <2>1 DEF Fill, IInv, Types
  <2> QED BY <2>1, <2>2 DEF ToldOf
<1>9. CASE NoKeyboxMemory(a) \/ KeyboxFails(a)
  <2>1. /\ pc'[a] = "CopyOut" /\ dev_info' = dev_info /\ dev_info[a] \in Blocks
        /\ word' = [word EXCEPT ![dev_info[a]] = 0]
    BY <1>4, <1>9 DEF NoKeyboxMemory, KeyboxFails, KeyboxSize, InCall, PCs, IInv, Types
  <2>2. word'[dev_info'[a]] = 0
    BY <2>1 DEF IInv, Types
  <2> QED BY <2>1, <2>2 DEF ToldOf
<1>10. CASE KeyboxArrives(a)
  <2>1. pc'[a] = "CopyKeybox" /\ get_attkb /\ ret' # 0
    BY <1>10 DEF KeyboxArrives, IInv, Types
  <2> QED BY <2>1, SizeReturned DEF ToldOf, Filled, Prefix
<1>11. CASE CopyKeybox(a)
  <2> DEFINE copied == [i \in 0 .. ret-1 |-> attkb[i]]
  <2>1. /\ pc'[a] = "CopyOut" /\ dev_info' = dev_info /\ dev_info[a] \in Blocks
        /\ word' = [word EXCEPT ![dev_info[a]] = ret] /\ pc[a] = "CopyKeybox"
    BY <1>4, <1>11 DEF CopyKeybox, KeyboxSize, InCall, PCs, IInv, Types
  <2>2. user'[a].attkb = copied
    <3>1. user' = [user EXCEPT ![a] = [user[a] EXCEPT !.secrets = user[a].secrets \cup {"attkb"},
                                                     !.attkb = copied]]
      BY <1>11 DEF CopyKeybox
    <3> HIDE DEF copied
    <3> QED BY <1>4, <3>1 DEF IInv, Types
  <2>3. Good(ret, copied)
    BY <1>3, <2>1, CopiedGood DEF ToldOf
  <2>4. word'[dev_info'[a]] = ret
    BY <2>1 DEF IInv, Types
  <2> HIDE DEF copied
  <2>5. exchange_failed' = exchange_failed /\ pc'[a] = "CopyOut"
    BY <1>11, <2>1 DEF CopyKeybox, heciVars
  <2> QED BY <2>2, <2>3, <2>4, <2>5 DEF ToldOf, Good
<1>12. CASE CopyKeyboxFails(a) \/ CopyOutFails(a)
  <2>1. UNCHANGED <<pc, user, dev_info, heciVars>> /\ pc[a] \in {"CopyKeybox", "CopyOut"}
    BY <1>12 DEF CopyKeyboxFails, CopyOutFails
  <2>2. pc[a] = "CopyOut" => word'[dev_info[a]] = 0
    BY <1>4, <1>12, <2>1 DEF CopyKeyboxFails, CopyOutFails, Wipe, IInv, Types, InCall, PCs
  <2> QED BY <1>3, <2>1, <2>2 DEF ToldOf, Good, heciVars, serviceVars
<1>13. CASE CopyOut(a)
  <2>1. /\ pc'[a] = "user" /\ pc[a] = "CopyOut" /\ UNCHANGED heciVars
        /\ user'[a].attkb_size = word[dev_info[a]] /\ user'[a].attkb = user[a].attkb
    <3>1. \E more : user' = [user EXCEPT ![a] = [user[a] EXCEPT !.secrets = more,
                                                  !.attkb_size = word[dev_info[a]]]]
      BY <1>13 DEF CopyOut
    <3>2. pc'[a] = "user" /\ pc[a] = "CopyOut" /\ UNCHANGED heciVars
      BY <1>13 DEF CopyOut, Return, IInv, Types
    <3> QED BY <1>4, <3>1, <3>2 DEF IInv, Types
  <2> QED BY <1>3, <2>1 DEF ToldOf, Good, heciVars
<1> QED BY <1>5, <1>6, <1>7, <1>8, <1>9, <1>10, <1>11, <1>12, <1>13 DEF Enter, Step

LEMMA ToldAlways == Spec => []Told
<1>1. Init => Told
  BY DEF Init, Told, ToldOf
<1>2. IInv /\ Told /\ [Next]_vars => Told'
  <2> SUFFICES ASSUME IInv, Told, [Next]_vars PROVE Told'
    OBVIOUS
  <2>1. CASE UNCHANGED vars
    BY <2>1 DEF vars, callVars, heapVars, heciVars, serviceVars, Told, ToldOf, Good
  <2> QED BY <2>1, ToldStep DEF Next
<1> QED BY <1>1, <1>2, Invariance, PTL DEF Spec

(* The size an application with GET_ATTKB is told is that of the bytes     *)
(* behind the structure, all of them stored by get_attkb in the same call, *)
(* whatever failed in this or an earlier one; and the keybox, if no        *)
(* exchange with the CSE ever failed.                                      *)
THEOREM SizeIsOfItsBytes == Spec => []AttkbDelivered
<1>1. Told => AttkbDelivered
  BY DEF Told, ToldOf, Good, AttkbDelivered
<1> QED BY <1>1, ToldAlways, PTL

-----------------------------------------------------------------------------
(* The types.  That attkb_size is never negative is not obvious: it is     *)
(* assigned ret, which is -1 until the first call of get_attkb returns.    *)
OtherTypes ==
  /\ busy \in BOOLEAN /\ exchange_failed \in BOOLEAN
  /\ secinfo_ok \in BOOLEAN /\ manuf_mode \in BOOLEAN /\ panicked \in BOOLEAN
  /\ word \in [Blocks -> Nat]
  /\ \A a \in Apps : user[a].attkb_size \in Nat
  /\ result \in [Apps -> {"none", "NO_ERROR", "ERR_NOT_ALLOWED", "ERR_NO_MEMORY"}]
  /\ made \in [Apps -> Nat] /\ \A a \in Apps : made[a] <= MaxCalls[a]

LEMMA OtherTypesStep ==
  ASSUME IInv, Told, OtherTypes, NEW a \in Apps, Enter(a) \/ Step(a)
  PROVE  OtherTypes'
<1> USE DEF heapVars, callVars, bootVars
<1>0. Junk \in Nat /\ Scrap \in Nat /\ MaxCalls \in [Apps -> Nat]
  BY DeviceInfoAssumption
<1>1. UNCHANGED <<secinfo_ok, manuf_mode>> /\ (panicked' = panicked \/ panicked' = TRUE)
  BY DEF Enter, Step, SizeMismatch, NotAllowed, NoMemory, AllocInfo, Fill, NoKeyboxMemory,
     AllocKeybox, CallGetAttkb, KeyboxFails, KeyboxArrives, CopyKeybox, CopyKeyboxFails,
     CopyOut, CopyOutFails
<1>2. made' \in [Apps -> Nat] /\ \A c \in Apps : made'[c] <= MaxCalls[c]
  <2>1. CASE Entry(a)
    <3>1. made[a] \in Nat /\ made[a] < MaxCalls[a] /\ made' = [made EXCEPT ![a] = made[a] + 1]
      BY <2>1 DEF Entry, OtherTypes
    <3>2. made[a] + 1 \in Nat /\ made[a] + 1 <= MaxCalls[a]
      BY <1>0, <3>1
    <3> QED BY <3>1, <3>2 DEF OtherTypes
  <2>2. CASE Step(a)
    BY <2>2 DEF OtherTypes, Step, Fill, NoKeyboxMemory, AllocKeybox, CallGetAttkb,
       KeyboxFails, KeyboxArrives, CopyKeybox, CopyKeyboxFails, CopyOut, CopyOutFails
  <2> QED BY <2>1, <2>2 DEF Enter, SizeMismatch, NotAllowed, NoMemory, AllocInfo
<1>3. result' \in [Apps -> {"none", "NO_ERROR", "ERR_NOT_ALLOWED", "ERR_NO_MEMORY"}]
  <2>1. \/ result' = result
        \/ \E code \in {"NO_ERROR", "ERR_NOT_ALLOWED", "ERR_NO_MEMORY"} :
             result' = [result EXCEPT ![a] = code]
    BY DEF Return, Enter, Step, SizeMismatch, NotAllowed, NoMemory, AllocInfo, Fill,
       NoKeyboxMemory, AllocKeybox, CallGetAttkb, KeyboxFails, KeyboxArrives, CopyKeybox,
       CopyKeyboxFails, CopyOut, CopyOutFails
  <2> QED BY <2>1 DEF OtherTypes
<1>4. CopyKeybox(a) => ret \in Nat
  BY SizesFact DEF CopyKeybox, At, IInv, Contents, WithKeybox, Told, ToldOf
<1>5. word' \in [Blocks -> Nat]
  <2>1. \/ word' = word
        \/ \E b \in Blocks, w \in {0, Junk, Scrap} : word' = [word EXCEPT ![b] = w]
        \/ \E n \in Nat : word' = [word EXCEPT ![dev_info[a]] = n]
    BY <1>4 DEF Enter, Step, SizeMismatch, NotAllowed, NoMemory, AllocInfo, Leftovers, Fill,
       NoKeyboxMemory, KeyboxSize, AllocKeybox, CallGetAttkb, KeyboxFails, KeyboxArrives,
       CopyKeybox, CopyKeyboxFails, Wipe, CopyOut, CopyOutFails
  <2> QED BY <1>0, <2>1 DEF OtherTypes
<1>6. ASSUME NEW c \in Apps PROVE user'[c].attkb_size \in Nat
  <2>1. /\ user \in [Apps -> [secrets : SUBSET Secrets, attkb_size : Int, attkb : Received]]
        /\ user[c].attkb_size \in Nat
    BY DEF IInv, Types, OtherTypes
  <2>2. CASE CopyOut(a)
    <3>1. dev_info[a] \in Blocks
      BY <2>2, CopyOutFacts DEF CopyOut, At
    <3>2. word[dev_info[a]] \in Nat
      BY <3>1 DEF OtherTypes
    <3>3. \E more : user' = [user EXCEPT ![a] = [user[a] EXCEPT !.secrets = more,
                                                  !.attkb_size = word[dev_info[a]]]]
      BY <2>2 DEF CopyOut
    <3> QED BY <2>1, <3>2, <3>3
  <2>3. CASE CopyKeybox(a)
    <3>1. \E more, copied : user' = [user EXCEPT ![a] = [user[a] EXCEPT !.secrets = more,
                                                        !.attkb = copied]]
      BY <2>3 DEF CopyKeybox
    <3> QED BY <2>1, <3>1
  <2>4. CASE user' = user
    BY <2>1, <2>4
  <2> QED BY <2>2, <2>3, <2>4 DEF Enter, Step, SizeMismatch, NotAllowed, NoMemory, AllocInfo,
             Fill, NoKeyboxMemory, AllocKeybox, CallGetAttkb, KeyboxFails, KeyboxArrives,
             CopyKeyboxFails, CopyOutFails
<1>7. busy' \in BOOLEAN
  BY UsesService DEF Call, ReturnKeybox, ReturnNothing, ReturnUnchecked, serviceVars, OtherTypes
<1>8. exchange_failed' \in BOOLEAN
  BY FailureStays DEF OtherTypes
<1> QED BY <1>1, <1>2, <1>3, <1>5, <1>6, <1>7, <1>8 DEF OtherTypes

(* Type correctness.                                                       *)
THEOREM TypeCorrect == Spec => []TypeOK
<1>1. Init => OtherTypes
  <2> SUFFICES ASSUME Init PROVE OtherTypes
    OBVIOUS
  <2>1. \A a \in Apps : MaxCalls[a] \in Nat /\ 0 <= MaxCalls[a]
    BY DeviceInfoAssumption
  <2>2. \A a \in Apps : user[a].attkb_size \in Nat
    BY DEF Init
  <2>3. /\ word \in [Blocks -> Nat] /\ made \in [Apps -> Nat]
        /\ \A a \in Apps : made[a] <= MaxCalls[a]
    BY <2>1 DEF Init
  <2> QED BY <2>2, <2>3 DEF Init, ServiceInit, OtherTypes
<1>2. IInv /\ Told /\ OtherTypes /\ [Next]_vars => OtherTypes'
  <2> SUFFICES ASSUME IInv, Told, OtherTypes, [Next]_vars PROVE OtherTypes'
    OBVIOUS
  <2>1. CASE UNCHANGED vars
    BY <2>1 DEF vars, heciVars, serviceVars, bootVars, heapVars, OtherTypes
  <2> QED BY <2>1, OtherTypesStep DEF Next
<1>3. IInv /\ OtherTypes => TypeOK
  BY DEF IInv, Types, OtherTypes, TypeOK
<1> QED BY <1>1, <1>2, <1>3, Invariance, ToldAlways, PTL DEF Spec
=============================================================================
