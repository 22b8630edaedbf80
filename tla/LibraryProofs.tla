--------------------------- MODULE LibraryProofs ---------------------------
(***************************************************************************)
(* Theorems about the two libraries of trusted applications: the hwkey     *)
(* client (HwkeySession), for any commands, errors, depth of the channel   *)
(* and number of calls, and the AES-GCM helpers (GcmCrypt), for any size   *)
(* of text and tag.                                                        *)
(***************************************************************************)
EXTENDS HwkeySession, GcmCrypt, SequenceTheorems, TLAPS

-----------------------------------------------------------------------------
(* The session.                                                            *)

(* A server that retires a request before it answers, and a client that    *)
(* takes the answer before it sends again, which it does until a call      *)
(* gives up with its request outstanding, have one message on its way at   *)
(* most, and it is of the call in progress.                                *)
Steady == retireFirst /\ ~abandoned
Served == IF serving = None THEN 0 ELSE 1
InFlight == Len(inbox) + Served + Len(outbox)

Single ==
  /\ ~answered /\ ~blocked /\ ~unblocked
  /\ InFlight <= 1
  /\ \A i \in 1 .. Len(inbox) : inbox[i].of = calls
  /\ serving # None => serving.of = calls
  /\ \A i \in 1 .. Len(outbox) : outbox[i].of = calls
  /\ pc \in {"Idle", "Read"} => InFlight = 0
  /\ pc = "Get" => Len(inbox) + Served = 0
  /\ ~up => Len(inbox) + Served = 0
  /\ pc = "Read" => inf.of = calls

Session ==
  /\ TypeOK /\ WholeAnswer /\ OwnAnswer
  /\ pc = "Read" => inf \in Messages
  /\ pc # "Idle" => calls > 0
  /\ Steady => Single

LEMMA SessionInit == Init => Session
<1> SUFFICES ASSUME Init PROVE Session
  OBVIOUS
<1> USE HwkeyAssumption
<1>1. TypeOK
  <2>1. /\ retireFirst \in BOOLEAN /\ pc = "Idle" /\ cmd \in Cmds /\ size = 0 /\ inf = None /\ held = 0
        /\ outbox = <<>> /\ inbox = <<>> /\ serving = None /\ answered = FALSE
        /\ blocked = FALSE /\ unblocked = FALSE /\ up = TRUE
        /\ abandoned = FALSE /\ calls = 0
    BY DEF Init
  <2>2. buf \in [of : 0..MaxCalls, len : 0..MaxSize]
    BY DEF Init
  <2>3. outbox \in Seq(Messages) /\ inbox \in Seq(Requests) /\ Len(outbox) = 0 /\ Len(inbox) = 0
    BY <2>1
  <2>4. held = (IF pc = "Read" THEN 1 ELSE 0) /\ Len(outbox) + held <= Depth /\ Len(inbox) <= Depth
    BY <2>1, <2>3
  <2>5. inf \in Messages \cup {None} /\ serving \in Requests \cup {None}
    BY <2>1
  <2>6. size \in 0 .. MaxSize /\ calls \in 0 .. MaxCalls
    BY <2>1
  <2>7. pc \in {"Idle", "Wait", "Get", "Read"} /\ cmd \in Cmds /\ retireFirst \in BOOLEAN
        /\ answered \in BOOLEAN /\ blocked \in BOOLEAN /\ unblocked \in BOOLEAN /\ up \in BOOLEAN
        /\ abandoned \in BOOLEAN
    BY <2>1
  <2> QED BY <2>2, <2>3, <2>4, <2>5, <2>6, <2>7 DEF TypeOK
<1>2. Len(inbox) = 0 /\ Len(outbox) = 0 /\ Served = 0
  BY DEF Init, Served
<1>3. Single
  BY <1>2 DEF Init, Single, InFlight
<1> QED BY <1>1, <1>3 DEF Init, Session, WholeAnswer, OwnAnswer

(* A message is not None, so that what was taken can be told from nothing. *)
LEMMA MessageOf ==
  /\ \A m \in Messages : m.of \in 1 .. MaxCalls /\ m # None
  /\ \A r \in Requests : r.of \in 1 .. MaxCalls /\ r.cmd \in Cmds /\ r # None
BY HwkeyAssumption DEF Messages, Requests, None

LEMMA SessionTypes == Session /\ [Next]_vars => TypeOK'
<1> SUFFICES ASSUME Session, [Next]_vars PROVE TypeOK'
  OBVIOUS
<1> USE HwkeyAssumption DEF client, server, Return, PutMsg, Unread, Retired, Kept
<1>0. TypeOK /\ (pc = "Read" => inf \in Messages)
  BY DEF Session
<1>1. ASSUME NEW c \in Cmds, Call(c) PROVE TypeOK'
  <2>1. /\ calls' \in 0 .. MaxCalls /\ cmd' \in Cmds /\ buf' \in [of : 0..MaxCalls, len : 0..MaxSize]
        /\ size' \in 0 .. MaxSize
    BY <1>0, <1>1 DEF Call, TypeOK, BadArgs
  <2>2. /\ inbox' \in Seq(Requests) /\ Len(inbox') <= Depth
        /\ pc' \in {"Idle", "Wait"} /\ pc = "Idle" /\ blocked' \in BOOLEAN
        /\ abandoned' \in BOOLEAN
    <3>1. CASE BadArgs \/ SendRefused
      BY <1>0, <1>1, <3>1 DEF Call, TypeOK, BadArgs, SendRefused
    <3>2. CASE Send(c) \/ SendShort(c)
      <4>1. [of |-> calls + 1, cmd |-> c] \in Requests
        BY <1>0, <1>1 DEF Call, TypeOK, Requests
      <4>2. Len(inbox) < Depth
        BY <1>0, <3>2 DEF Send, SendShort, Queue, Full, TypeOK
      <4>3. inbox' \in Seq(Requests) /\ Len(inbox') <= Depth
        <5>1. inbox' = Append(inbox, [of |-> calls + 1, cmd |-> c])
          BY <3>2 DEF Send, SendShort, Queue
        <5> QED BY <1>0, <4>1, <4>2, <5>1 DEF TypeOK
      <4>4. pc' \in {"Idle", "Wait"} /\ blocked' = blocked /\ (abandoned' = abandoned \/ abandoned' = TRUE)
        BY <3>2 DEF Send, SendShort
      <4> QED BY <1>0, <1>1, <4>3, <4>4 DEF Call, TypeOK
    <3> QED BY <1>1, <3>1, <3>2 DEF Call
  <2>3. UNCHANGED <<retireFirst, inf, outbox, held, serving, answered, unblocked, up>>
    BY <1>1 DEF Call
  <2> QED BY <1>0, <2>1, <2>2, <2>3 DEF TypeOK
<1>2. CASE Wait \/ WaitFails \/ GetMsgFails
  BY <1>0, <1>2 DEF Wait, WaitFails, GetMsgFails, TypeOK
<1>3. CASE GetMsg
  <2>1. CASE outbox = <<>>
    BY <1>0, <1>3, <2>1 DEF GetMsg, TypeOK
  <2>2. CASE outbox # <<>>
    <3>1. /\ Head(outbox) \in Messages /\ Tail(outbox) \in Seq(Messages)
          /\ Len(Tail(outbox)) = Len(outbox) - 1 /\ Len(outbox) \in Nat
      BY <1>0, <2>2 DEF TypeOK
    <3>2. /\ pc = "Get" /\ pc' = "Read" /\ inf' = Head(outbox) /\ outbox' = Tail(outbox)
          /\ held' = held + 1 /\ UNCHANGED <<ret, cmd, size, buf, server, unblocked, abandoned, calls>>
      BY <1>3, <2>2 DEF GetMsg
    <3>3. held' = 1 /\ Len(outbox') + held' <= Depth
      BY <1>0, <3>1, <3>2 DEF TypeOK
    <3> QED BY <1>0, <3>1, <3>2, <3>3 DEF TypeOK
  <2> QED BY <2>1, <2>2
<1>4. CASE Refuse
  BY <1>0, <1>4 DEF Refuse, TypeOK
<1>5. CASE ReadMsg
  <2>1. /\ pc = "Read" /\ pc' = "Idle" /\ held' = held - 1 /\ (buf' = buf \/ buf' = [of |-> inf.of, len |-> inf.len])
        /\ inf.len \in 0 .. size
        /\ UNCHANGED <<cmd, size, inf, outbox, server, unblocked, abandoned, calls>>
    BY <1>5 DEF ReadMsg
  <2>2. buf' \in [of : 0..MaxCalls, len : 0..MaxSize]
    BY <1>0, <2>1, MessageOf DEF TypeOK
  <2> QED BY <1>0, <2>1, <2>2 DEF TypeOK
<1>6. CASE ServerTake
  <2>1. /\ Head(inbox) \in Requests /\ Tail(inbox) \in Seq(Requests)
        /\ Len(Tail(inbox)) = Len(inbox) - 1 /\ Len(inbox) \in Nat
    BY <1>0, <1>6 DEF ServerTake, TypeOK
  <2>2. /\ serving' = Head(inbox) /\ inbox' = Tail(inbox)
        /\ UNCHANGED <<pc, client, ret, outbox, held, retireFirst, answered, up, abandoned, calls>>
        /\ blocked' \in BOOLEAN /\ unblocked' \in BOOLEAN
    BY <1>0, <1>6 DEF ServerTake, TypeOK
  <2>3. Len(inbox') <= Depth
    BY <1>0, <2>1, <2>2 DEF TypeOK
  <2> QED BY <1>0, <2>1, <2>2, <2>3 DEF TypeOK
<1>7. CASE ServerAnswer
  <2>1. PICK c \in {serving.cmd, "other"}, s \in Statuses, n \in -1..(MaxSize + 1) :
          outbox' = Append(outbox, [of |-> serving.of, cmd |-> c, status |-> s, len |-> n])
    BY <1>7 DEF ServerAnswer
  <2>2. serving \in Requests
    BY <1>0, <1>7 DEF ServerAnswer, TypeOK
  <2>3. [of |-> serving.of, cmd |-> c, status |-> s, len |-> n] \in Messages
    BY <2>2, MessageOf DEF Messages
  <2>4. /\ outbox' \in Seq(Messages) /\ Len(outbox') = Len(outbox) + 1
        /\ Len(outbox) \in Nat /\ Len(outbox) + held < Depth
    BY <1>0, <1>7, <2>1, <2>3 DEF ServerAnswer, TypeOK
  <2>5. held \in {0, 1}
    BY <1>0 DEF TypeOK
  <2> QED BY <1>0, <1>7, <2>4, <2>5 DEF ServerAnswer, TypeOK
<1>8. CASE ServerRetire
  BY <1>0, <1>8 DEF ServerRetire, TypeOK
<1>9. CASE HangUp
  <2>1. /\ inbox' = <<>> /\ serving' = None /\ answered' = FALSE /\ up' = FALSE
        /\ UNCHANGED <<pc, client, ret, outbox, held, retireFirst, blocked, unblocked, abandoned, calls>>
    BY <1>9 DEF HangUp
  <2>2. inbox' \in Seq(Requests) /\ Len(inbox') <= Depth
    BY <2>1
  <2> QED BY <1>0, <2>1, <2>2 DEF TypeOK
<1>10. CASE UNCHANGED vars
  BY <1>0, <1>10 DEF vars, TypeOK
<1> QED BY <1>1, <1>2, <1>3, <1>4, <1>5, <1>6, <1>7, <1>8, <1>9, <1>10
        DEF Next, ClientStep, ClientFails, ServerStep

(* What a call returns as NO_ERROR, only a message that was read makes so. *)
LEMMA VerdictMeans ==
  ASSUME TypeOK, inf \in Messages, Verdict = "NO_ERROR"
  PROVE  inf.cmd = cmd /\ inf.len = size
<1>1. hwkey_err_to_tipc_err(inf.status) = "NO_ERROR" => inf.status = "HWKEY_NO_ERROR"
  BY DEF hwkey_err_to_tipc_err
<1> QED BY <1>1 DEF Verdict

(* Every step keeps which answer the client is waiting for.                *)
LEMMA SessionStep == Session /\ TypeOK' /\ [Next]_vars => Session'
<1> SUFFICES ASSUME Session, TypeOK', [Next]_vars PROVE Session'
  OBVIOUS
<1> USE HwkeyAssumption DEF client, server, Return, PutMsg, Unread, Retired, Kept
<1>0. /\ TypeOK /\ WholeAnswer /\ OwnAnswer /\ (pc = "Read" => inf \in Messages)
      /\ (pc # "Idle" => calls > 0) /\ (Steady => Single)
  BY DEF Session
<1>a. /\ Len(inbox) \in Nat /\ Len(outbox) \in Nat /\ Served \in {0, 1} /\ calls \in Nat
      /\ Len(inbox') \in Nat /\ Len(outbox') \in Nat /\ Served' \in {0, 1}
  BY <1>0 DEF TypeOK, Served
<1>b. Steady' => Steady /\ retireFirst
  BY DEF Steady, Next, vars, Call, BadArgs, SendRefused, Send, SendShort, ClientStep, ClientFails, Wait,
         WaitFails, GetMsg, GetMsgFails, Refuse, ReadMsg, ServerStep, ServerTake, ServerAnswer,
         ServerRetire, HangUp
<1>1. ASSUME NEW c \in Cmds, Call(c) PROVE Session'
  <2>1. /\ pc = "Idle" /\ calls' = calls + 1 /\ pc' \in {"Idle", "Wait"} /\ size' \in 0 .. MaxSize
        /\ UNCHANGED <<retireFirst, inf, outbox, held, serving, answered, unblocked, up>>
    BY <1>1 DEF Call, BadArgs, SendRefused, Send, SendShort
  <2>2. pc' = "Idle" => ret' # "NO_ERROR"
    BY <1>1 DEF Call, BadArgs, SendRefused, Send, SendShort
  <2>3. ASSUME Steady, retireFirst, ~SendShort(c) PROVE Single'
    <3>1. Single /\ InFlight = 0 /\ Len(inbox) = 0 /\ Len(outbox) = 0 /\ serving = None /\ Served = 0
      BY <1>0, <1>a, <2>1, <2>3 DEF Single, InFlight, Served
    <3>2. ~Full
      BY <1>0, <1>a, <2>3, <3>1 DEF Full, Single
    <3>3. CASE Send(c)
      <4>1. inbox' = Append(inbox, [of |-> calls + 1, cmd |-> c]) /\ pc' = "Wait" /\ blocked' = blocked /\ up
        BY <3>3 DEF Send, Queue
      <4>2. Len(inbox') = 1 /\ inbox'[1].of = calls'
        BY <1>0, <2>1, <3>1, <4>1 DEF TypeOK
      <4>3. InFlight' = 1 /\ Served' = 0
        BY <2>1, <3>1, <4>2 DEF InFlight, Served
      <4> QED BY <1>a, <2>1, <3>1, <4>1, <4>2, <4>3 DEF Single
    <3>4. CASE BadArgs \/ SendRefused
      <4>1. UNCHANGED inbox /\ ~blocked' /\ pc' = "Idle"
        <5>1. CASE BadArgs
          BY <3>1, <5>1 DEF BadArgs, Single
        <5>2. CASE SendRefused
          <6>1. ~up /\ ~blocked
            BY <3>1, <3>2, <5>2 DEF SendRefused, Single
          <6> QED BY <5>2, <6>1 DEF SendRefused
        <5> QED BY <3>4, <5>1, <5>2
      <4>2. InFlight' = 0 /\ Served' = 0
        BY <2>1, <3>1, <4>1 DEF InFlight, Served
      <4> QED BY <1>a, <2>1, <3>1, <4>1, <4>2 DEF Single
    <3> QED BY <1>1, <2>3, <3>3, <3>4 DEF Call
  <2>4. SendShort(c) => ~Steady'
    BY DEF SendShort, Steady
  <2> QED BY <1>a, <1>b, <2>1, <2>2, <2>3, <2>4 DEF Session, WholeAnswer, OwnAnswer, Steady
<1>2. CASE Wait
  <2>1. /\ pc = "Wait" /\ pc' = "Get" /\ unblocked' = FALSE /\ (outbox # <<>> \/ unblocked \/ ~up)
        /\ UNCHANGED <<client, ret, outbox, held, server, abandoned, calls>>
    BY <1>2 DEF Wait
  <2>2. Served' = Served /\ InFlight' = InFlight
    BY <2>1 DEF Served, InFlight
  <2>3. outbox # <<>> => Len(outbox) > 0
    BY <1>0 DEF TypeOK
  <2>4. ASSUME Steady, retireFirst PROVE Single'
    <3>1. Single
      BY <1>0, <2>4
    <3>2. Len(inbox) + Served = 0
      BY <1>a, <2>1, <2>3, <3>1 DEF Single, InFlight
    <3> QED BY <2>1, <2>2, <3>1, <3>2 DEF Single
  <2> QED BY <1>b, <1>0, <2>1, <2>4 DEF Session, WholeAnswer, OwnAnswer, Steady
<1>c. CASE WaitFails \/ GetMsgFails
  <2>1. /\ pc # "Idle" /\ pc' = "Idle" /\ ret' = "ERR_GENERIC" /\ ~Steady' /\ inf' = inf
    BY <1>c DEF WaitFails, GetMsgFails, Steady
  <2> QED BY <2>1 DEF Session, WholeAnswer, OwnAnswer
<1>3. CASE GetMsg
  <2>0. pc = "Get" /\ UNCHANGED <<cmd, size, buf, server, unblocked, abandoned, calls>>
    BY <1>3 DEF GetMsg
  <2>1. CASE outbox = <<>>
    <3>1. pc' = "Idle" /\ ret' = "ERR_NO_MSG" /\ UNCHANGED <<inf, outbox, held>>
      BY <1>3, <2>1 DEF GetMsg
    <3>2. Served' = Served /\ InFlight' = InFlight /\ Len(outbox) = 0
      BY <2>0, <2>1, <3>1 DEF Served, InFlight
    <3>3. ASSUME Steady, retireFirst PROVE Single'
      <4>1. Single /\ InFlight = 0
        BY <1>0, <1>a, <2>0, <3>2, <3>3 DEF Single, InFlight
      <4> QED BY <2>0, <3>1, <3>2, <4>1 DEF Single
    <3> QED BY <1>b, <1>0, <2>0, <3>1, <3>3 DEF Session, WholeAnswer, OwnAnswer, Steady
  <2>2. CASE outbox # <<>>
    <3>1. /\ pc' = "Read" /\ inf' = Head(outbox) /\ outbox' = Tail(outbox) /\ ret' = ret
      BY <1>3, <2>2 DEF GetMsg
    <3>2. /\ Head(outbox) \in Messages /\ Head(outbox) = outbox[1] /\ Len(outbox) >= 1
          /\ Len(outbox') = Len(outbox) - 1
      BY <1>0, <2>2, <3>1 DEF TypeOK
    <3>3. Served' = Served
      BY <2>0 DEF Served
    <3>4. ASSUME Steady, retireFirst PROVE Single'
      <4>0. Single /\ Len(inbox) + Served = 0 /\ InFlight <= 1 /\ outbox[1].of = calls
        BY <1>0, <1>a, <2>0, <3>2, <3>4 DEF Single
      <4>1. Len(outbox') = 0 /\ inf'.of = calls
        <5>1. Len(outbox) <= 1
          BY <1>a, <4>0 DEF InFlight
        <5>2. Len(outbox') = 0
          BY <1>a, <3>2, <5>1
        <5> QED BY <3>1, <3>2, <4>0, <5>2
      <4>2. InFlight' = 0
        BY <1>a, <2>0, <3>3, <4>0, <4>1 DEF InFlight
      <4> QED BY <1>a, <2>0, <3>1, <3>3, <4>0, <4>1, <4>2 DEF Single
    <3> QED BY <1>b, <1>0, <2>0, <3>1, <3>2, <3>4 DEF Session, WholeAnswer, OwnAnswer, Steady
  <2> QED BY <2>1, <2>2
<1>4. CASE Refuse \/ ReadMsg
  <2>1. /\ pc = "Read" /\ pc' = "Idle" /\ UNCHANGED <<cmd, size, inf, outbox, server, unblocked, abandoned, calls>>
    BY <1>4 DEF Refuse, ReadMsg
  <2>2. ret' = "NO_ERROR" => buf' = [of |-> inf.of, len |-> inf.len] /\ Verdict = "NO_ERROR"
    BY <1>4 DEF Refuse, ReadMsg
  <2>3. ret' = "NO_ERROR" => /\ buf' = [of |-> inf.of, len |-> size] /\ inf.cmd = cmd
                             /\ inf.of \in 1 .. MaxCalls
    BY <1>0, <2>1, <2>2, VerdictMeans, MessageOf
  <2>4. Served' = Served /\ InFlight' = InFlight
    BY <2>1 DEF Served, InFlight
  <2>5. ASSUME Steady, retireFirst PROVE Single' /\ inf.of = calls
    BY <1>0, <2>1, <2>4, <2>5 DEF Single
  <2>6. WholeAnswer' /\ OwnAnswer'
    BY <1>b, <2>1, <2>3, <2>5 DEF WholeAnswer, OwnAnswer, Steady
  <2> QED BY <1>b, <1>0, <2>1, <2>5, <2>6 DEF Session
<1>5. CASE ServerTake
  <2>1. /\ up /\ serving = None /\ inbox # <<>> /\ serving' = Head(inbox) /\ inbox' = Tail(inbox)
        /\ UNCHANGED <<pc, client, ret, outbox, held, retireFirst, answered, up, abandoned, calls>>
        /\ retireFirst => Retired
    BY <1>5 DEF ServerTake
  <2>2. /\ Head(inbox) \in Requests /\ Head(inbox) = inbox[1] /\ Len(inbox) >= 1
        /\ Len(inbox') = Len(inbox) - 1
    BY <1>0, <2>1 DEF TypeOK
  <2>3. Served = 0 /\ Served' = 1
    BY <2>1, <2>2, MessageOf DEF Served
  <2>4. ASSUME Steady, retireFirst PROVE Single'
    <3>1. Single /\ Len(inbox') = 0 /\ Len(outbox) = 0 /\ serving'.of = calls /\ pc \notin {"Idle", "Read", "Get"}
      BY <1>0, <1>a, <2>1, <2>2, <2>3, <2>4 DEF Single, InFlight
    <3>2. InFlight' = 1
      BY <2>1, <2>3, <3>1 DEF InFlight
    <3>3. ~answered' /\ ~blocked' /\ ~unblocked'
      BY <2>1, <2>4, <3>1 DEF Single
    <3>4. Len(outbox') = 0 /\ calls' = calls /\ pc' = pc /\ up'
      BY <2>1, <3>1
    <3> QED BY <1>a, <2>3, <3>1, <3>2, <3>3, <3>4 DEF Single
  <2> QED BY <1>b, <1>0, <2>1, <2>4 DEF Session, WholeAnswer, OwnAnswer, Steady
<1>6. CASE ServerAnswer
  <2>1. PICK c \in {serving.cmd, "other"}, s \in Statuses, n \in -1..(MaxSize + 1) :
          outbox' = Append(outbox, [of |-> serving.of, cmd |-> c, status |-> s, len |-> n])
    BY <1>6 DEF ServerAnswer
  <2>2. /\ up /\ serving # None /\ serving' = (IF retireFirst THEN None ELSE serving) /\ answered' = ~retireFirst
        /\ UNCHANGED <<pc, client, ret, held, retireFirst, inbox, blocked, unblocked, up, abandoned, calls>>
    BY <1>6 DEF ServerAnswer
  <2>3. ASSUME Steady, retireFirst PROVE Single'
    <3>1. /\ Single /\ Served = 1 /\ Len(inbox) = 0 /\ Len(outbox) = 0 /\ serving.of = calls
          /\ pc \notin {"Idle", "Read", "Get"}
      BY <1>0, <1>a, <2>2, <2>3 DEF Single, InFlight, Served
    <3>2. Len(outbox') = 1 /\ outbox'[1].of = calls
      BY <1>0, <2>1, <3>1 DEF TypeOK
    <3>3. Served' = 0 /\ serving' = None /\ InFlight' = 1
      BY <2>2, <2>3, <3>1, <3>2 DEF Served, InFlight
    <3>4. ~answered' /\ ~blocked' /\ ~unblocked'
      BY <2>2, <2>3, <3>1 DEF Single
    <3>5. Len(inbox') = 0 /\ calls' = calls /\ pc' = pc /\ up'
      BY <2>2, <3>1
    <3> QED BY <1>a, <3>1, <3>2, <3>3, <3>4, <3>5 DEF Single
  <2> QED BY <1>b, <1>0, <2>2, <2>3 DEF Session, WholeAnswer, OwnAnswer, Steady
<1>7. CASE ServerRetire
  <2>1. /\ answered /\ UNCHANGED <<pc, client, ret, outbox, held, retireFirst, inbox, up, abandoned, calls>>
    BY <1>7 DEF ServerRetire
  <2>2. ~Steady
    BY <1>0, <2>1 DEF Single
  <2> QED BY <1>b, <1>0, <2>1, <2>2 DEF Session, WholeAnswer, OwnAnswer, Steady
<1>8. CASE HangUp
  <2>1. /\ up' = FALSE /\ inbox' = <<>> /\ serving' = None /\ answered' = FALSE
        /\ UNCHANGED <<pc, client, ret, outbox, held, retireFirst, blocked, unblocked, abandoned, calls>>
    BY <1>8 DEF HangUp
  <2>2. Len(inbox') = 0 /\ Served' = 0 /\ InFlight' = Len(outbox)
    BY <1>a, <2>1 DEF Served, InFlight
  <2>3. ASSUME Steady, retireFirst PROVE Single'
    <3>1. Single /\ InFlight' <= InFlight
      BY <1>0, <1>a, <2>2, <2>3 DEF InFlight
    <3> QED BY <1>a, <2>1, <2>2, <3>1 DEF Single, InFlight
  <2> QED BY <1>b, <1>0, <2>1, <2>3 DEF Session, WholeAnswer, OwnAnswer, Steady
<1>9. CASE UNCHANGED vars
  BY <1>0, <1>9 DEF vars, Session, WholeAnswer, OwnAnswer, Steady, Single, InFlight, Served
<1> QED BY <1>1, <1>2, <1>c, <1>3, <1>4, <1>5, <1>6, <1>7, <1>8, <1>9
        DEF Next, ClientStep, ClientFails, ServerStep

LEMMA SessionInv == Spec => []Session
BY SessionInit, SessionTypes, SessionStep, PTL DEF Spec

(* The session keeps its types, and the client holds a message buffer only *)
(* while it reads the message in it (send_req, 113-161).                   *)
THEOREM TypeCorrect == Spec => []TypeOK
BY SessionInv, PTL DEF Session

(* A successful call has filled the whole buffer from an answer to the     *)
(* command it sent, whatever the server answers and in whatever order.     *)
THEOREM AnswerWhole == Spec => []WholeAnswer
BY SessionInv, PTL DEF Session

(* With a server that retires each request first, the answer is that to    *)
(* the very request, however many calls were refused or failed before, but *)
(* for those that gave up with the request outstanding (91, 96, 103).      *)
THEOREM AnswerOwn == Spec => []OwnAnswer
BY SessionInv, PTL DEF Session

-----------------------------------------------------------------------------
(* AES-GCM.                                                                *)

(* While it is at Copy or Tag, the block holds the text; at Tag the        *)
(* caller's buffer does, too.  Nothing is announced before the exit.       *)
CryptInv ==
  /\ CryptTypeOK /\ NothingLeaks
  /\ step # "Idle" => text_size >= 0
  /\ step \in {"Copy", "Tag"} => \A i \in 1 .. text_size : out_buf[i] = Text[i]
  /\ step = "Tag" => out = Text
  /\ step \notin {"Idle", "Exit"} => rc = "GENERIC" /\ out_size = -1
  /\ step \in {"Idle", "Exit"} =>
       /\ (rc = "NO_ERROR" /\ op = "decrypt") => (~forged /\ out = Fill(text_size, "plain"))
       /\ (rc = "AUTH_FAILED" /\ op = "decrypt") => forged
       /\ out_size = (IF rc = "NO_ERROR" THEN Len(out) ELSE -1)

(* A block of one byte value.                                              *)
LEMMA FillIs ==
  ASSUME NEW n \in Nat, NEW b \in Bytes
  PROVE  /\ Fill(n, b) \in Seq(Bytes) /\ Len(Fill(n, b)) = n
         /\ \A i \in 1 .. n : Fill(n, b)[i] = b
BY DEF Fill

(* A block with its beginning overwritten.                                 *)
LEMMA OverIs ==
  ASSUME NEW s \in Seq(Bytes), NEW t \in Seq(Bytes)
  PROVE  /\ Over(s, t) \in Seq(Bytes) /\ Len(Over(s, t)) = Len(s)
         /\ \A i \in 1 .. Len(s) : Over(s, t)[i] = IF i <= Len(t) THEN t[i] ELSE s[i]
<1>1. \A i \in 1 .. Len(s) : s[i] \in Bytes
  OBVIOUS
<1>2. \A i \in 1 .. Len(t) : t[i] \in Bytes
  OBVIOUS
<1>3. Len(s) \in Nat /\ Len(t) \in Nat
  OBVIOUS
<1> QED BY <1>1, <1>2, <1>3 DEF Over

(* What a call writes into the block.                                      *)
LEMMA TextIs ==
  ASSUME text_size \in Nat
  PROVE  /\ Text \in Seq(Bytes) /\ Len(Text) = text_size
         /\ op = "decrypt" /\ ~forged => Text = Fill(text_size, "plain")
<1> DEFINE b == CASE op = "encrypt" -> "cipher" [] forged -> "garbage" [] OTHER -> "plain"
<1>1. b \in {"cipher", "garbage", "plain"} /\ (op = "decrypt" /\ ~forged => b = "plain")
  OBVIOUS
<1>2. b \in Bytes
  BY <1>1 DEF Bytes
<1>3. Text = Fill(text_size, b)
  BY DEF Text
<1> HIDE DEF b
<1> QED BY <1>1, <1>2, <1>3, FillIs

(* The beginning of a sequence is what it holds there.                     *)
LEMMA BeginningIs ==
  ASSUME NEW s \in Seq(Bytes), NEW n \in 0 .. Len(s)
  PROVE  /\ SubSeq(s, 1, n) \in Seq(Bytes) /\ Len(SubSeq(s, 1, n)) = n
         /\ \A i \in 1 .. n : SubSeq(s, 1, n)[i] = s[i]
OBVIOUS

(* Clearing as many bytes as a block has leaves zeros only.                *)
LEMMA ClearedIs ==
  ASSUME NEW s \in Seq(Bytes)
  PROVE  ToSet(Over(s, Fill(Len(s), "zero"))) \subseteq {"zero"}
<1>1. Len(s) \in Nat /\ "zero" \in Bytes
  BY DEF Bytes
<1> DEFINE z == Fill(Len(s), "zero")
<1>2. z \in Seq(Bytes) /\ Len(z) = Len(s) /\ \A i \in 1 .. Len(s) : z[i] = "zero"
  BY <1>1, FillIs
<1> HIDE DEF z
<1>3. /\ Over(s, z) \in Seq(Bytes) /\ Len(Over(s, z)) = Len(s)
      /\ \A i \in 1 .. Len(s) : Over(s, z)[i] = "zero"
  BY <1>1, <1>2, OverIs
<1>4. DOMAIN Over(s, z) = 1 .. Len(s)
  BY <1>3
<1> QED BY <1>3, <1>4 DEF ToSet, z

LEMMA InitCrypts == CryptInit => CryptInv
<1> SUFFICES ASSUME CryptInit PROVE CryptInv
  OBVIOUS
<1>1. /\ step = "Idle" /\ op = "encrypt" /\ text_size = 0 /\ forged = FALSE /\ rc = "GENERIC"
      /\ ctx = FALSE /\ has_buf = FALSE /\ out_buf = <<>> /\ freed = {}
      /\ out = <<>> /\ out_size = -1 /\ crypts = 0
  BY DEF CryptInit
<1>2. out_buf \in Seq(Bytes) /\ Len(out_buf) = 0 /\ out \in Seq(Bytes) /\ Len(out) = 0
  BY <1>1
<1>3. text_size \in -1 .. MaxText /\ out_size \in -1 .. (MaxText + TagSize)
      /\ crypts \in 0 .. MaxCrypts /\ Len(out) <= text_size + TagSize
  BY <1>1, <1>2, GcmAssumption
<1>4. /\ step \in {"Idle", "Ctx", "Setup", "Update", "Copy", "Tag", "Exit"}
      /\ op \in {"encrypt", "decrypt"} /\ forged \in BOOLEAN
      /\ rc \in {"NO_ERROR", "GENERIC", "AUTH_FAILED"} /\ ctx \in BOOLEAN
      /\ freed \subseteq Bytes
  BY <1>1
<1>5. has_buf = (step # "Idle")
  BY <1>1
<1>6. Len(out_buf) = (IF has_buf THEN BlockSize ELSE 0)
  BY <1>1, <1>2
<1>7. CryptTypeOK
  BY <1>2, <1>3, <1>4, <1>5, <1>6 DEF CryptTypeOK
<1>8. NothingLeaks
  BY <1>1 DEF NothingLeaks
<1> QED BY <1>1, <1>7, <1>8 DEF CryptInv

(* What the type invariant says, without the block's size.                 *)
LEMMA CryptTypes ==
  ASSUME CryptInv
  PROVE  /\ text_size \in Int /\ out_buf \in Seq(Bytes) /\ out \in Seq(Bytes)
         /\ Len(out_buf) = (IF step # "Idle" THEN BlockSize ELSE 0)
         /\ step # "Idle" => text_size \in 0 .. MaxText
         /\ has_buf = (step # "Idle")
<1>1. text_size \in -1 .. MaxText /\ (step # "Idle" => text_size >= 0)
  BY DEF CryptInv, CryptTypeOK
<1>2. out_buf \in Seq(Bytes) /\ out \in Seq(Bytes)
  BY DEF CryptInv, CryptTypeOK
<1>3. has_buf = (step # "Idle")
  BY DEF CryptInv, CryptTypeOK
<1>4. Len(out_buf) = (IF has_buf THEN BlockSize ELSE 0)
  BY DEF CryptInv, CryptTypeOK
<1>5. Len(out_buf) = (IF step # "Idle" THEN BlockSize ELSE 0)
  BY <1>3, <1>4, Zenon
<1>6. MaxText \in Nat
  BY GcmAssumption
<1>7. text_size \in Int /\ (step # "Idle" => text_size \in 0 .. MaxText)
  BY <1>1, <1>6
<1> QED BY <1>2, <1>3, <1>5, <1>7

(* The steps between Call and Exit keep the call, the block and the heap;  *)
(* what they must see to is the rest.                                      *)
LEMMA StepsBetween ==
  ASSUME CryptInv, step # "Idle", step' \in {"Ctx", "Setup", "Update", "Copy", "Tag", "Exit"},
         UNCHANGED <<op, text_size, forged, has_buf, freed, crypts>>,
         rc' \in {"NO_ERROR", "GENERIC", "AUTH_FAILED"}, ctx' \in BOOLEAN,
         out_buf' \in Seq(Bytes), Len(out_buf') = Len(out_buf),
         out' \in Seq(Bytes), Len(out') <= text_size + TagSize,
         out_size' \in -1 .. (MaxText + TagSize)
  PROVE  CryptTypeOK' /\ NothingLeaks' /\ (step' # "Idle" => text_size' >= 0)
<1>1. /\ op' \in {"encrypt", "decrypt"} /\ text_size' \in -1 .. MaxText /\ forged' \in BOOLEAN
      /\ freed' \subseteq Bytes /\ crypts' \in 0 .. MaxCrypts
  BY DEF CryptInv, CryptTypeOK
<1>2. has_buf' = (step' # "Idle")
  BY CryptTypes
<1>3. Len(out_buf') = (IF has_buf' THEN BlockSize' ELSE 0)
  <2>1. BlockSize' = BlockSize
    BY DEF BlockSize
  <2> QED BY <2>1, <1>2, CryptTypes
<1>4. Len(out') <= text_size' + TagSize
  OBVIOUS
<1>5. step' \in {"Idle", "Ctx", "Setup", "Update", "Copy", "Tag", "Exit"} /\ step' # "Idle"
  OBVIOUS
<1>6. CryptTypeOK'
  BY <1>1, <1>2, <1>3, <1>4, <1>5 DEF CryptTypeOK
<1>7. NothingLeaks'
  BY <1>5 DEF CryptInv, NothingLeaks
<1>8. text_size' >= 0
  BY CryptTypes
<1> QED BY <1>6, <1>7, <1>8

(* What a step that fails has to show: only the exit looks at its result.  *)
LEMMA StepFails ==
  ASSUME CryptInv, step \notin {"Idle", "Exit"}, step' = "Exit", rc' = "GENERIC",
         UNCHANGED <<op, text_size, forged, has_buf, freed, crypts, out_size>>,
         ctx' \in BOOLEAN, out_buf' \in Seq(Bytes), Len(out_buf') = Len(out_buf),
         out' \in Seq(Bytes), Len(out') <= text_size + TagSize
  PROVE  CryptInv'
<1>1. out_size' = -1 /\ out_size' \in -1 .. (MaxText + TagSize)
  BY DEF CryptInv, CryptTypeOK
<1>2. CryptTypeOK' /\ NothingLeaks' /\ (step' # "Idle" => text_size' >= 0)
  BY <1>1, StepsBetween
<1> QED BY <1>1, <1>2 DEF CryptInv

(* Every step keeps who holds which block, and what is in it.              *)
LEMMA StepCrypts ==
  ASSUME CryptInv, [CryptNext]_cryptVars
  PROVE  CryptInv'
<1> USE DEF input, result, To, Fail
<1>0. MaxText \in Nat /\ MaxCrypts \in Nat /\ TagSize \in Nat \ {0}
  BY GcmAssumption
<1>1. ASSUME NEW o \in {"encrypt", "decrypt"}, NEW n \in -1 .. MaxText, NEW f \in BOOLEAN,
             o = "encrypt" => (n >= 0 /\ ~f), Crypt(o, n, f)
      PROVE  CryptInv'
  <2>1. /\ step = "Idle" /\ op' = o /\ text_size' = n /\ forged' = f /\ rc' = "GENERIC"
        /\ out' = <<>> /\ out_size' = -1 /\ crypts' \in 0 .. MaxCrypts
        /\ ctx' = ctx /\ freed' = freed /\ ~ctx
    BY <1>0, <1>1 DEF Crypt, CryptInv, CryptTypeOK, NothingLeaks
  <2>2. /\ op' \in {"encrypt", "decrypt"} /\ text_size' \in -1 .. MaxText /\ forged' \in BOOLEAN
        /\ rc' \in {"NO_ERROR", "GENERIC", "AUTH_FAILED"} /\ ctx' \in BOOLEAN
        /\ freed' \subseteq Bytes
    BY <2>1 DEF CryptInv, CryptTypeOK
  <2>3. out' \in Seq(Bytes) /\ Len(out') = 0
    BY <2>1
  <2>4. Len(out') <= text_size' + TagSize /\ out_size' \in -1 .. (MaxText + TagSize)
    BY <1>0, <2>1, <2>3
  <2>5. CASE /\ n >= 0 /\ step' = "Ctx" /\ has_buf' = TRUE
             /\ out_buf' = Fill(IF o = "encrypt" THEN n + TagSize ELSE n, "leftover")
    <3>1. BlockSize' = (IF o = "encrypt" THEN n + TagSize ELSE n) /\ BlockSize' \in Nat
      BY <1>0, <2>1, <2>5 DEF BlockSize
    <3>2. "leftover" \in Bytes
      BY DEF Bytes
    <3>3. out_buf' \in Seq(Bytes) /\ Len(out_buf') = BlockSize'
      BY <3>1, <3>2, <2>5, FillIs
    <3>4. has_buf' = (step' # "Idle") /\ Len(out_buf') = (IF has_buf' THEN BlockSize' ELSE 0)
      BY <2>5, <3>3
    <3>5. CryptTypeOK'
      BY <2>1, <2>2, <2>3, <2>4, <2>5, <3>3, <3>4 DEF CryptTypeOK
    <3> QED BY <2>1, <2>5, <3>5 DEF CryptInv, NothingLeaks
  <2>6. CASE UNCHANGED <<step, has_buf, out_buf>>
    <3>1. has_buf' = (step' # "Idle") /\ step' = "Idle"
      BY <2>1, <2>6, CryptTypes
    <3>2. out_buf' \in Seq(Bytes) /\ Len(out_buf') = 0
      BY <2>1, <2>6, CryptTypes
    <3>3. Len(out_buf') = (IF has_buf' THEN BlockSize' ELSE 0)
      BY <3>1, <3>2
    <3>4. CryptTypeOK'
      BY <2>1, <2>2, <2>3, <2>4, <3>1, <3>2, <3>3 DEF CryptTypeOK
    <3> QED BY <2>1, <3>1, <3>4 DEF CryptInv, NothingLeaks
  <2> QED BY <1>1, <2>5, <2>6 DEF Crypt
<1>2. ASSUME step \notin {"Idle", "Exit"}
      PROVE  /\ text_size \in 0 .. MaxText /\ rc = "GENERIC" /\ out_size = -1
             /\ Len(out_buf) = BlockSize /\ BlockSize >= text_size
             /\ CryptTypeOK /\ Len(out) <= text_size + TagSize
             /\ out_size \in -1 .. (MaxText + TagSize) /\ ctx \in BOOLEAN
  <2>1. text_size \in 0 .. MaxText /\ Len(out_buf) = BlockSize
    BY <1>2, CryptTypes
  <2>2. BlockSize >= text_size
    BY <1>0, <2>1 DEF BlockSize
  <2>3. CryptTypeOK /\ rc = "GENERIC" /\ out_size = -1
    BY <1>2 DEF CryptInv
  <2> QED BY <2>1, <2>2, <2>3 DEF CryptTypeOK
<1>3. CASE NewCtx
  <2>1. step = "Ctx" /\ ctx' \in BOOLEAN /\ UNCHANGED <<op, text_size, forged, has_buf, out_buf, freed, out, out_size, crypts>>
    BY <1>2, <1>3 DEF NewCtx
  <2>2. CASE step' = "Setup" /\ rc' = rc
    BY <1>2, <2>1, <2>2, CryptTypes, StepsBetween DEF CryptInv
  <2>3. CASE step' = "Exit" /\ rc' = "GENERIC"
    BY <1>2, <2>1, <2>3, CryptTypes, StepFails
  <2> QED BY <1>3, <2>2, <2>3 DEF NewCtx
<1>4. CASE Setup
  <2>1. step = "Setup" /\ UNCHANGED <<op, text_size, forged, ctx, has_buf, out_buf, freed, out, out_size, crypts>>
    BY <1>4 DEF Setup
  <2>2. CASE step' = "Update" /\ rc' = rc
    BY <1>2, <2>1, <2>2, CryptTypes, StepsBetween DEF CryptInv
  <2>3. CASE step' = "Exit" /\ rc' = "GENERIC"
    BY <1>2, <2>1, <2>3, CryptTypes, StepFails
  <2> QED BY <1>4, <2>2, <2>3 DEF Setup
<1>5. CASE Update
  <2>1. step = "Update" /\ UNCHANGED <<op, text_size, forged, ctx, has_buf, freed, out, out_size, crypts>>
    BY <1>5 DEF Update
  <2>2. text_size \in Nat /\ Text \in Seq(Bytes) /\ Len(Text) = text_size
    BY <1>0, <1>2, <2>1, TextIs
  <2> DEFINE filled == Over(out_buf, Text)
  <2>3. /\ filled \in Seq(Bytes) /\ Len(filled) = Len(out_buf)
        /\ \A i \in 1 .. text_size : filled[i] = Text[i]
    <3>1. out_buf \in Seq(Bytes) /\ text_size <= Len(out_buf)
      BY <1>2, <2>1, CryptTypes
    <3>2. /\ filled \in Seq(Bytes) /\ Len(filled) = Len(out_buf)
          /\ \A i \in 1 .. Len(out_buf) :
               filled[i] = IF i <= Len(Text) THEN Text[i] ELSE out_buf[i]
      BY <2>2, <3>1, OverIs
    <3> HIDE DEF filled
    <3>3. 1 .. text_size \subseteq 1 .. Len(out_buf)
      BY <2>2, <3>1
    <3> QED BY <2>2, <3>2, <3>3
  <2>4. CASE out_buf' = filled /\ step' = "Copy" /\ rc' = rc
    <3>1. Text' = Text
      BY <2>1 DEF Text, Fill
    <3>2. \A i \in 1 .. text_size' : out_buf'[i] = Text'[i]
      BY <2>1, <2>3, <2>4, <3>1
    <3>3. out_buf' \in Seq(Bytes) /\ Len(out_buf') = Len(out_buf)
      BY <2>3, <2>4
    <3>4. CryptTypeOK' /\ NothingLeaks' /\ (step' # "Idle" => text_size' >= 0)
      BY <1>2, <2>1, <2>4, <3>3, CryptTypes, StepsBetween
    <3> QED BY <1>2, <2>1, <2>4, <3>2, <3>4 DEF CryptInv
  <2>5. CASE out_buf' \in {out_buf, filled} /\ step' = "Exit" /\ rc' = "GENERIC"
    <3>1. out_buf' \in Seq(Bytes) /\ Len(out_buf') = Len(out_buf)
      BY <2>3, <2>5, CryptTypes
    <3> QED BY <1>2, <2>1, <2>5, <3>1, CryptTypes, StepFails
  <2> QED BY <1>5, <2>4, <2>5 DEF Update
<1>6. CASE CopyOut
  <2>1. step = "Copy" /\ UNCHANGED <<op, text_size, forged, ctx, has_buf, out_buf, freed, out_size, crypts>>
    BY <1>6 DEF CopyOut
  <2>2. CASE out' = SubSeq(out_buf, 1, text_size) /\ step' = "Tag" /\ rc' = rc
    <3>1. text_size \in 0 .. Len(out_buf)
      BY <1>2, <2>1, CryptTypes
    <3>2. /\ out' \in Seq(Bytes) /\ Len(out') = text_size
          /\ \A i \in 1 .. text_size : out'[i] = out_buf[i]
      BY <2>2, <3>1, CryptTypes, BeginningIs
    <3>3. Text \in Seq(Bytes) /\ Len(Text) = text_size
      BY <1>2, <2>1, TextIs
    <3>4. \A i \in 1 .. text_size : out_buf[i] = Text[i]
      BY <2>1 DEF CryptInv
    <3>5. out' = Text
      BY <3>2, <3>3, <3>4, SeqEqual
    <3>6. Text' = Text
      BY <2>1 DEF Text, Fill
    <3>7. Len(out') <= text_size + TagSize
      BY <1>0, <1>2, <2>1, <3>2
    <3>8. CryptTypeOK' /\ NothingLeaks' /\ (step' # "Idle" => text_size' >= 0)
      BY <1>2, <2>1, <2>2, <3>2, <3>7, CryptTypes, StepsBetween
    <3>9. \A i \in 1 .. text_size' : out_buf'[i] = Text'[i]
      BY <2>1, <3>4, <3>6
    <3> QED BY <1>2, <2>1, <2>2, <3>5, <3>6, <3>8, <3>9 DEF CryptInv
  <2>3. CASE out' = out /\ step' = "Exit" /\ rc' = "GENERIC"
    BY <1>2, <2>1, <2>3, CryptTypes, StepFails
  <2> QED BY <1>6, <2>2, <2>3 DEF CopyOut
<1>7. CASE GetTag
  <2>1. step = "Tag" /\ op = "encrypt" /\ step' = "Exit"
        /\ UNCHANGED <<op, text_size, forged, ctx, has_buf, freed, crypts>>
    BY <1>7 DEF GetTag
  <2> DEFINE tagged == Over(out_buf, Fill(TagSize, "tag"))
  <2>2. "tag" \in Bytes
    BY DEF Bytes
  <2>3. tagged \in Seq(Bytes) /\ Len(tagged) = Len(out_buf)
    BY <1>0, <2>2, FillIs, OverIs, CryptTypes
  <2>4. Len(out_buf) = text_size + TagSize /\ text_size \in 0 .. MaxText
    BY <1>2, <2>1 DEF BlockSize
  <2>5. out = Text /\ Len(out) = text_size /\ out \in Seq(Bytes)
    BY <2>1, <2>4, TextIs, CryptTypes DEF CryptInv
  <2> HIDE DEF tagged
  <2>6. CASE /\ out_buf' = tagged /\ out' = out \o SubSeq(out_buf', 1, TagSize)
             /\ out_size' = text_size + TagSize /\ rc' = "NO_ERROR"
    <3>1. TagSize \in 0 .. Len(tagged)
      BY <1>0, <2>3, <2>4
    <3>2. SubSeq(tagged, 1, TagSize) \in Seq(Bytes) /\ Len(SubSeq(tagged, 1, TagSize)) = TagSize
      BY <2>3, <3>1, BeginningIs
    <3>3. out' \in Seq(Bytes) /\ Len(out') = text_size + TagSize
      <4> DEFINE tag == SubSeq(tagged, 1, TagSize)
      <4>1. out' = out \o tag
        BY <2>6
      <4> HIDE DEF tag
      <4>2. tag \in Seq(Bytes) /\ Len(tag) = TagSize
        BY <3>2 DEF tag
      <4>3. out \in Seq(Bytes) /\ Len(out) = text_size
        BY <2>5
      <4>4. (out \o tag) \in Seq(Bytes) /\ Len(out \o tag) = Len(out) + Len(tag)
        BY <4>2, <4>3, ConcatProperties
      <4> QED BY <4>1, <4>2, <4>3, <4>4
    <3>4. out_size' \in -1 .. (MaxText + TagSize) /\ Len(out') <= text_size + TagSize
      BY <1>0, <2>4, <2>6, <3>3
    <3>5. CryptTypeOK' /\ NothingLeaks' /\ (step' # "Idle" => text_size' >= 0)
      BY <1>2, <2>1, <2>3, <2>6, <3>3, <3>4, StepsBetween
    <3> QED BY <2>1, <2>6, <3>3, <3>5 DEF CryptInv
  <2>7. CASE UNCHANGED <<out_buf, out, out_size>> /\ rc' = "AUTH_FAILED"
    <3>1. CryptTypeOK' /\ NothingLeaks' /\ (step' # "Idle" => text_size' >= 0)
      BY <1>2, <2>1, <2>7, CryptTypes, StepsBetween
    <3> QED BY <1>2, <2>1, <2>7, <3>1 DEF CryptInv
  <2>8. CASE out_buf' = tagged /\ UNCHANGED <<out, out_size>> /\ rc' = "GENERIC"
    BY <1>2, <2>1, <2>3, <2>8, CryptTypes, StepFails
  <2> QED BY <1>7, <2>6, <2>7, <2>8 DEF GetTag, tagged
<1>8. CASE CheckTag
  <2>1. step = "Tag" /\ op = "decrypt" /\ step' = "Exit"
        /\ UNCHANGED <<op, text_size, forged, ctx, has_buf, out_buf, freed, out, crypts>>
    BY <1>8 DEF CheckTag
  <2>2. text_size \in 0 .. MaxText /\ out = Text /\ Len(out) = text_size
    BY <1>2, <2>1, TextIs DEF CryptInv
  <2>3. CASE ~forged /\ out_size' = text_size /\ rc' = "NO_ERROR"
    <3>1. out_size' \in -1 .. (MaxText + TagSize)
      BY <1>0, <2>2, <2>3
    <3>2. CryptTypeOK' /\ NothingLeaks' /\ (step' # "Idle" => text_size' >= 0)
      BY <1>2, <2>1, <2>3, <3>1, CryptTypes, StepsBetween
    <3>3. out' = Fill(text_size, "plain")
      BY <2>1, <2>2, <2>3, TextIs
    <3>4. Fill(text_size, "plain")' = Fill(text_size, "plain")
      BY <2>1 DEF Fill
    <3> QED BY <2>1, <2>2, <2>3, <3>2, <3>3, <3>4 DEF CryptInv
  <2>4. CASE forged /\ UNCHANGED out_size /\ rc' = "AUTH_FAILED"
    <3>1. CryptTypeOK' /\ NothingLeaks' /\ (step' # "Idle" => text_size' >= 0)
      BY <1>2, <2>1, <2>4, CryptTypes, StepsBetween
    <3> QED BY <1>2, <2>1, <2>4, <3>1 DEF CryptInv
  <2>5. CASE UNCHANGED out_size /\ rc' = "GENERIC"
    BY <1>2, <2>1, <2>5, CryptTypes, StepFails
  <2> QED BY <1>8, <2>3, <2>4, <2>5 DEF CheckTag
<1>9. CASE Exit
  <2>1. /\ step = "Exit" /\ step' = "Idle" /\ ctx' = FALSE /\ has_buf' = FALSE /\ out_buf' = <<>>
        /\ freed' = ToSet(Over(out_buf, Fill(BlockSize, "zero")))
        /\ UNCHANGED <<op, text_size, forged, rc, out, out_size, crypts>>
    BY <1>9 DEF Exit
  <2>2. freed' \subseteq {"zero"} /\ freed' \subseteq Bytes
    <3>1. Len(out_buf) = BlockSize /\ out_buf \in Seq(Bytes)
      BY <2>1, CryptTypes
    <3>2. freed' \subseteq {"zero"}
      BY <2>1, <3>1, ClearedIs
    <3> QED BY <3>2 DEF Bytes
  <2>3. out_buf' \in Seq(Bytes) /\ Len(out_buf') = 0
    <3>1. out_buf' = <<>>
      BY <2>1
    <3> QED BY <3>1
  <2>4. Len(out_buf') = (IF has_buf' THEN BlockSize' ELSE 0) /\ has_buf' = (step' # "Idle")
    <3>1. has_buf' = FALSE /\ step' = "Idle"
      BY <2>1
    <3> QED BY <2>3, <3>1
  <2>5. CryptTypeOK'
    BY <2>1, <2>2, <2>3, <2>4 DEF CryptInv, CryptTypeOK
  <2>6. Fill(text_size, "plain")' = Fill(text_size, "plain")
    BY <2>1 DEF Fill
  <2> QED BY <2>1, <2>2, <2>5, <2>6 DEF CryptInv, NothingLeaks
<1>10. CASE UNCHANGED cryptVars
  <2>1. UNCHANGED <<step, op, text_size, forged, rc, ctx, has_buf, out_buf, freed, out, out_size, crypts>>
    BY <1>10 DEF cryptVars
  <2>2. BlockSize' = BlockSize /\ Text' = Text
        /\ Fill(text_size, "plain")' = Fill(text_size, "plain")
    BY <2>1 DEF BlockSize, Text, Fill
  <2>3. CryptTypeOK'
    BY <2>1, <2>2 DEF CryptInv, CryptTypeOK
  <2> QED BY <2>1, <2>2, <2>3 DEF CryptInv, NothingLeaks
<1> QED
  <2>1. ASSUME NEW n \in 0 .. MaxText, Crypt("encrypt", n, FALSE)
        PROVE  CryptInv'
    <3>1. n \in -1 .. MaxText /\ n >= 0
      BY <1>0
    <3>2. "encrypt" \in {"encrypt", "decrypt"} /\ FALSE \in BOOLEAN
      OBVIOUS
    <3> QED BY <1>1, <2>1, <3>1, <3>2
  <2>2. ASSUME NEW n \in -1 .. MaxText, NEW f \in BOOLEAN, Crypt("decrypt", n, f)
        PROVE  CryptInv'
    BY <1>1, <2>2
  <2> QED BY <2>1, <2>2, <1>3, <1>4, <1>5, <1>6, <1>7, <1>8, <1>9, <1>10 DEF CryptNext

(* Each call of the helpers keeps the types: the block is as long as it    *)
(* was asked to be, and no copy runs over the caller's buffer.             *)
THEOREM CryptTypeCorrect == CryptSpec => []CryptTypeOK
<1>1. CryptInv => CryptTypeOK
  BY DEF CryptInv
<1> QED BY <1>1, InitCrypts, StepCrypts, PTL DEF CryptSpec

(* Every block goes back to the heap cleared, whichever call failed, and   *)
(* no context stays behind: for any size of text and tag (the label        *)
(* exit of both functions).                                                *)
THEOREM NoTextLeft == CryptSpec => []NothingLeaks
<1>1. CryptInv => NothingLeaks
  BY DEF CryptInv
<1> QED BY <1>1, InitCrypts, StepCrypts, PTL DEF CryptSpec

(* A decryption that says NO_ERROR gives the plain text of a text that     *)
(* verified, AUTH_FAILED is said of forged texts only, and out_size is set *)
(* by the successful calls only: for any size of text and tag.             *)
THEOREM TextVerified == CryptSpec => []Verified
<1>1. CryptInv => Verified
  BY DEF CryptInv, Verified
<1> QED BY <1>1, InitCrypts, StepCrypts, PTL DEF CryptSpec
=============================================================================
