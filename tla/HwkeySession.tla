---------------------------- MODULE HwkeySession ----------------------------
(***************************************************************************)
(* The client of the hwkey server (lib/hwkey_migration): one application,  *)
(* one session, one call at a time.  A call sends a request, waits for the *)
(* session to have an event, takes a message and believes it is the        *)
(* answer.                                                                 *)
(*                                                                         *)
(* External: Trusty's IPC and the server.  A channel has Depth message     *)
(* buffers each way; one is in use from send_msg to the receiver's put_msg.*)
(* A sender refused for want of a buffer gets an event when one is free.   *)
(* A message is [of |-> number of the call it belongs to, cmd, status,     *)
(* len |-> words of payload, -1 if it is shorter than its header].         *)
(***************************************************************************)
EXTENDS Integers, Sequences

CONSTANTS
  Cmds,         \* the commands of enum hwkey_migration_cmd the application uses
  Errors,       \* the errors of enum hwkey_err the server answers with
  Depth,        \* message buffers of the channel, each way
  MaxSize,      \* bound: words of a caller's buffer
  MaxCalls      \* bound: calls of the application

ASSUME HwkeyAssumption ==
  /\ Cmds # {} /\ Cmds \subseteq
       {"HWKEY_GENERATE_CRYPTO_CTX", "HWKEY_EXCHANGE_CRYPTO_CTX", "HWKEY_GET_SSEK"}
  /\ Errors \subseteq {"HWKEY_ERR_GENERIC", "HWKEY_ERR_NOT_VALID", "HWKEY_ERR_BAD_LEN",
                       "HWKEY_ERR_NOT_IMPLEMENTED", "HWKEY_ERR_NOT_FOUND"}
  /\ Depth \in Nat \ {0} /\ MaxSize \in Nat /\ MaxCalls \in Nat

VARIABLES
  retireFirst,            \* the server calls put_msg before it answers, not after
  pc,                     \* "Idle", "Wait", "Get" or "Read"
  cmd, size,              \* msg.cmd and the caller's data_size
  buf,                    \* the caller's buffer: its first len words are of answer "of"
  ret,                    \* what the last call returned
  inf,                    \* the message of get_msg
  outbox, held,           \* answers on their way; messages taken and not yet put
  inbox, serving,         \* requests on their way; the one the server has
  answered,               \* it has answered that one and not yet put it
  blocked, unblocked,     \* a send_msg was refused; the event that it may try again
  up,                     \* the server's end is open
  abandoned,              \* history: send_msg, wait or get_msg failed a call after
                          \* its request was out
  calls

client == <<cmd, size, buf, inf>>
server == <<retireFirst, inbox, serving, answered, blocked, up>>
vars == <<pc, client, ret, outbox, held, server, unblocked, abandoned, calls>>

Statuses == Errors \cup {"HWKEY_NO_ERROR"}
Messages == [of : 1..MaxCalls, cmd : Cmds \cup {"other"}, status : Statuses, len : -1..(MaxSize + 1)]
Requests == [of : 1..MaxCalls, cmd : Cmds]
None == [of |-> 0]

hwkey_err_to_tipc_err(status) ==
  CASE status = "HWKEY_NO_ERROR" -> "NO_ERROR"
    [] status = "HWKEY_ERR_NOT_VALID" -> "ERR_NOT_VALID"
    [] status = "HWKEY_ERR_BAD_LEN" -> "ERR_BAD_LEN"
    [] status = "HWKEY_ERR_NOT_IMPLEMENTED" -> "ERR_NOT_IMPLEMENTED"
    [] status = "HWKEY_ERR_NOT_FOUND" -> "ERR_NOT_FOUND"
    [] OTHER -> "ERR_GENERIC"

Init ==
  /\ retireFirst \in BOOLEAN
  /\ pc = "Idle" /\ cmd \in Cmds /\ size = 0 /\ buf = [of |-> 0, len |-> 0]
  /\ ret = "NO_ERROR" /\ inf = None
  /\ outbox = <<>> /\ held = 0
  /\ inbox = <<>> /\ serving = None /\ answered = FALSE
  /\ blocked = FALSE /\ unblocked = FALSE /\ up = TRUE
  /\ abandoned = FALSE /\ calls = 0

Return(r) == pc' = "Idle" /\ ret' = r

-----------------------------------------------------------------------------
(* hwkey_generate_crypto_context and its two twins, up to send_msg.        *)
Full == Len(inbox) + (IF answered \/ (serving # None /\ ~retireFirst) THEN 1 ELSE 0) >= Depth

BadArgs == size' = 0 /\ Return("ERR_NOT_VALID") /\ UNCHANGED <<inbox, blocked, abandoned>>

SendRefused ==
  /\ ~up \/ Full
  /\ Return(IF up THEN "ERR_NOT_ENOUGH_BUFFER" ELSE "ERR_CHANNEL_CLOSED")
  /\ blocked' = (blocked \/ up) /\ UNCHANGED <<inbox, abandoned>>

Queue(c) ==
  /\ up /\ ~Full
  /\ inbox' = Append(inbox, [of |-> calls + 1, cmd |-> c])

Send(c) == Queue(c) /\ pc' = "Wait" /\ UNCHANGED <<ret, blocked, abandoned>>

(* Fewer bytes went out than were to: a request, all the same.             *)
SendShort(c) ==
  Queue(c) /\ Return("ERR_IO") /\ abandoned' = TRUE /\ UNCHANGED blocked

Call(c) ==
  /\ pc = "Idle" /\ calls < MaxCalls
  /\ calls' = calls + 1 /\ cmd' = c /\ buf' = [of |-> 0, len |-> 0]
  /\ \/ BadArgs
     \/ size' \in 1..MaxSize /\ (SendRefused \/ Send(c) \/ SendShort(c))
  /\ UNCHANGED <<retireFirst, inf, outbox, held, serving, answered, unblocked, up>>

(* wait returns for any event of the session; which one is not looked at.  *)
WaitUnchecked ==                \* mutant: the result of wait is not looked at
  /\ pc = "Wait" /\ unblocked' = FALSE /\ pc' = "Get"
  /\ UNCHANGED <<client, ret, outbox, held, server, abandoned, calls>>

Wait ==
  /\ pc = "Wait"
  /\ outbox # <<>> \/ unblocked \/ ~up
  /\ unblocked' = FALSE /\ pc' = "Get"
  /\ UNCHANGED <<client, ret, outbox, held, server, abandoned, calls>>

WaitFails ==
  /\ pc = "Wait" /\ Return("ERR_GENERIC") /\ abandoned' = TRUE
  /\ UNCHANGED <<client, outbox, held, server, unblocked, calls>>

GetMsg ==
  /\ pc = "Get"
  /\ \/ /\ outbox = <<>> /\ Return("ERR_NO_MSG")
        /\ UNCHANGED <<inf, outbox, held>>
     \/ /\ outbox # <<>>
        /\ inf' = Head(outbox) /\ outbox' = Tail(outbox) /\ held' = held + 1
        /\ pc' = "Read" /\ UNCHANGED ret
  /\ UNCHANGED <<cmd, size, buf, server, unblocked, abandoned, calls>>

(* get_msg fails with the answer there.                                    *)
GetMsgFails ==
  /\ pc = "Get" /\ outbox # <<>>
  /\ Return("ERR_GENERIC") /\ abandoned' = TRUE
  /\ UNCHANGED <<client, outbox, held, server, unblocked, calls>>

PutMsg == held' = held - 1
Unread == UNCHANGED buf

(* The message is refused before it is read, and put back all the same.    *)
KeepsRefused ==                 \* mutant: these paths skip err_get_fail
  /\ pc = "Read" /\ inf.len \notin 0..size
  /\ Return(IF inf.len > size THEN "ERR_TOO_BIG" ELSE "ERR_NOT_VALID")
  /\ Unread /\ UNCHANGED <<cmd, size, inf, outbox, held, server, unblocked, abandoned, calls>>

Refuse ==
  /\ pc = "Read" /\ inf.len \notin 0..size
  /\ Return(IF inf.len > size THEN "ERR_TOO_BIG" ELSE "ERR_NOT_VALID")
  /\ PutMsg /\ Unread
  /\ UNCHANGED <<cmd, size, inf, outbox, server, unblocked, abandoned, calls>>

(* What send_req and, after it, its caller say of a message that was read. *)
VerdictAnyCmd ==                \* mutant: the response bit is checked, the command is not
  IF inf.cmd = "other" THEN "ERR_NOT_VALID"
  ELSE IF inf.status # "HWKEY_NO_ERROR" THEN hwkey_err_to_tipc_err(inf.status)
  ELSE IF inf.len # size THEN "ERR_BAD_LEN" ELSE "NO_ERROR"

Verdict ==
  IF inf.cmd # cmd THEN "ERR_NOT_VALID"
  ELSE IF inf.status # "HWKEY_NO_ERROR" THEN hwkey_err_to_tipc_err(inf.status)
  ELSE IF inf.len # size THEN "ERR_BAD_LEN" ELSE "NO_ERROR"

ReadMsg ==
  /\ pc = "Read" /\ inf.len \in 0..size
  /\ PutMsg
  /\ \/ buf' = [of |-> inf.of, len |-> inf.len] /\ Return(Verdict)
     \/ Unread /\ Return("ERR_FAULT")       \* read_msg fails
  /\ UNCHANGED <<cmd, size, inf, outbox, server, unblocked, abandoned, calls>>

-----------------------------------------------------------------------------
(* The server.                                                             *)
Retired == blocked' = FALSE /\ unblocked' = (unblocked \/ blocked)
Kept == UNCHANGED <<blocked, unblocked>>

ServerTake ==
  /\ up /\ serving = None /\ inbox # <<>>
  /\ serving' = Head(inbox) /\ inbox' = Tail(inbox)
  /\ IF retireFirst THEN Retired ELSE Kept
  /\ UNCHANGED <<pc, client, ret, outbox, held, retireFirst, answered, up, abandoned, calls>>

ServerAnswer ==
  /\ up /\ serving # None /\ ~answered /\ Len(outbox) + held < Depth
  /\ \E c \in {serving.cmd, "other"}, s \in Statuses, n \in -1..(MaxSize + 1) :
       outbox' = Append(outbox, [of |-> serving.of, cmd |-> c, status |-> s, len |-> n])
  /\ serving' = (IF retireFirst THEN None ELSE serving) /\ answered' = ~retireFirst
  /\ UNCHANGED <<pc, client, ret, held, retireFirst, inbox, blocked, unblocked, up, abandoned, calls>>

ServerRetire ==
  /\ up /\ answered
  /\ serving' = None /\ answered' = FALSE /\ Retired
  /\ UNCHANGED <<pc, client, ret, outbox, held, retireFirst, inbox, up, abandoned, calls>>

HangUp ==
  /\ up /\ up' = FALSE
  /\ inbox' = <<>> /\ serving' = None /\ answered' = FALSE
  /\ UNCHANGED <<pc, client, ret, outbox, held, retireFirst, blocked, unblocked, abandoned, calls>>

ClientStep == Wait \/ GetMsg \/ Refuse \/ ReadMsg
ClientFails == WaitFails \/ GetMsgFails
ServerStep == ServerTake \/ ServerAnswer \/ ServerRetire

Next == (\E c \in Cmds : Call(c)) \/ ClientStep \/ ClientFails \/ ServerStep \/ HangUp

Spec == Init /\ [][Next]_vars
(* The client runs, without a failure of its own to count on; the server   *)
(* answers each request, or hangs up.                                      *)
LiveSpec == Spec /\ WF_vars(ClientStep) /\ WF_vars(ServerStep)

-----------------------------------------------------------------------------
TypeOK ==
  /\ retireFirst \in BOOLEAN /\ pc \in {"Idle", "Wait", "Get", "Read"}
  /\ cmd \in Cmds /\ size \in 0..MaxSize
  /\ buf \in [of : 0..MaxCalls, len : 0..MaxSize]
  /\ inf \in Messages \cup {None}
  /\ outbox \in Seq(Messages) /\ Len(outbox) + held <= Depth
  /\ held = (IF pc = "Read" THEN 1 ELSE 0)
  /\ inbox \in Seq(Requests) /\ Len(inbox) <= Depth
  /\ serving \in Requests \cup {None} /\ calls \in 0..MaxCalls
  /\ answered \in BOOLEAN /\ blocked \in BOOLEAN /\ unblocked \in BOOLEAN /\ up \in BOOLEAN
  /\ abandoned \in BOOLEAN

(* A call that returns NO_ERROR (157-158 and the callers' checks of the    *)
(* length) has filled the whole of its caller's buffer, and from the       *)
(* answer to its own request, as long as no earlier call gave up with its  *)
(* request outstanding: send_msg was short (91), wait failed (96) or       *)
(* get_msg failed with the answer there (103).  The requests have no       *)
(* number and the event of wait (94) is not looked at; the code rests on   *)
(* the server's retiring each request before it answers, so that an event  *)
(* is the answer or the end of the session.                                *)
OwnAnswer ==
  (retireFirst /\ ~abandoned /\ pc = "Idle" /\ calls > 0 /\ ret = "NO_ERROR") =>
    buf = [of |-> calls, len |-> size]

(* The same after a call that gave up, which the code does not keep: its   *)
(* answer is left for the next call with the same command.                 *)
OwnAnswerAlways ==
  (retireFirst /\ pc = "Idle" /\ calls > 0 /\ ret = "NO_ERROR") => buf.of = calls

(* Whatever the server's order, what a successful call fills is whole, and *)
(* of a request with the same command: the check of line 151 keeps the     *)
(* answer to another command out.                                          *)
WholeAnswer ==
  (pc = "Idle" /\ calls > 0 /\ ret = "NO_ERROR") =>
    buf.of > 0 /\ buf.len = size /\ inf.cmd = cmd

(* No path keeps a message buffer of the session (137, 161): every call    *)
(* returns, however many answers were refused before, as long as the       *)
(* server goes on answering.                                               *)
CallReturns == (pc # "Idle") ~> (pc = "Idle")
=============================================================================
