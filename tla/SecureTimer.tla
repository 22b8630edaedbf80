---------------------------- MODULE SecureTimer ----------------------------
(***************************************************************************)
(* LK's timer (timer.c) on a CPU whose clock belongs to NS, and the way    *)
(* back and forth between the worlds (entry.c).  LK has no timer hardware: *)
(* it keeps what it last asked for in back_timer, copies it to the wall it *)
(* shares with NS whenever a standard call returns, and NS starts or stops *)
(* a timer of its own, which calls back with SMC_SC_LK_TIMER.              *)
(*                                                                         *)
(* External: LK's queue of timers, which makes the requests; the wall      *)
(* (sm_wall), updated before every switch but those of the loop in         *)
(* sm_sched_nonsecure; NS's driver, as the comments of timer.c have it but *)
(* for the direction of the comparison, which is that of the code.         *)
(***************************************************************************)
EXTENDS Naturals

VARIABLES
  lk_boot_complete,
  t_callback,    \* a callback is set
  back_timer,    \* tv_ns and cv_ns, in intervals
  wall,          \* the copy that NS sees
  world,
  call,          \* the call NS made last
  answer,        \* what it returned
  armed, due,    \* NS's timer runs; it has expired and NS is to call back
  \* history
  asked,         \* LK's last request since it booted
  ticks          \* parity of the callbacks made

lk == <<lk_boot_complete, t_callback, back_timer>>
nsTimer == <<armed, due>>
ns == <<call, answer, nsTimer>>
vars == <<lk, wall, world, ns, asked, ticks>>

None == [tv_ns |-> 0, cv_ns |-> 0]
Intervals == 0 .. 1              \* bound: 0 and not 0
Kinds == {"smc64", "fast", "std", "timer"}
Answers == {"NOT_SUPPORTED", "fast", "std"}

Init ==
  /\ lk_boot_complete = FALSE /\ t_callback = FALSE
  /\ back_timer = None /\ wall = None
  /\ world = "LK" /\ call = "std" /\ answer = "std" /\ armed = FALSE /\ due = FALSE
  /\ asked = "nothing" /\ ticks = 0

-----------------------------------------------------------------------------
(* platform_set_oneshot_timer, as LK's timer queue sees it: what it asks   *)
(* for while LK boots is not kept.                                         *)
update_bakcup_timer(tv, cv) == back_timer' = [tv_ns |-> tv, cv_ns |-> cv]

set_backup_timer(interval) == update_bakcup_timer(0, interval)

StopClears == update_bakcup_timer(0, 0)     \* mutant: (0, 0) means nothing
stop_backup_timer == update_bakcup_timer(1, 0)

SetOneshot(interval) ==
  /\ t_callback' = TRUE
  /\ IF lk_boot_complete
     THEN /\ set_backup_timer(interval)
          /\ asked' = IF interval = 0 THEN "zero" ELSE "set"
     ELSE UNCHANGED <<back_timer, asked>>

StopTimer ==
  /\ IF lk_boot_complete THEN stop_backup_timer /\ asked' = "stop"
     ELSE UNCHANGED <<back_timer, asked>>
  /\ UNCHANGED t_callback

(* A thread of LK sets or cancels a timer.                                 *)
Request ==
  /\ world = "LK"
  /\ StopTimer \/ \E i \in Intervals : SetOneshot(i)
  /\ UNCHANGED <<lk_boot_complete, wall, world, ns, ticks>>

SetBootComplete ==
  /\ ~lk_boot_complete /\ lk_boot_complete' = TRUE
  /\ UNCHANGED <<t_callback, back_timer, wall, world, ns, asked, ticks>>

(* os_timer_tick for a soft interrupt.  The callback, LK's timer_tick, may *)
(* ask for the next event; when its queue is empty it asks for nothing.    *)
Tick ==
  /\ world = "LK" /\ call = "timer" /\ call' = "std"
  /\ IF t_callback
     THEN /\ ticks' = 1 - ticks
          /\ \/ \E i \in Intervals : SetOneshot(i)
             \/ UNCHANGED <<t_callback, back_timer, asked>>
     ELSE UNCHANGED <<t_callback, back_timer, asked, ticks>>
  /\ UNCHANGED <<lk_boot_complete, wall, world, answer, nsTimer>>

-----------------------------------------------------------------------------
(* update_wall_cb, and make_smc_vmcall with the result of a standard call. *)
NotPublished == UNCHANGED wall   \* mutant: the item is not registered
update_wall_cb == wall' = back_timer

Return ==
  /\ world = "LK" /\ lk_boot_complete /\ call = "std"
  /\ update_wall_cb
  /\ world' = "Read" /\ answer' = "std"
  /\ UNCHANGED <<lk, call, nsTimer, asked, ticks>>

(* NS's driver after a standard call.                                      *)
NsReadWall ==
  /\ world = "Read"
  /\ armed' = IF wall.tv_ns = wall.cv_ns THEN armed ELSE wall.tv_ns < wall.cv_ns
  /\ world' = "NS"
  /\ UNCHANGED <<lk, wall, call, answer, due, asked, ticks>>

NsTimer ==
  /\ armed /\ armed' = FALSE /\ due' = TRUE
  /\ UNCHANGED <<lk, wall, world, call, answer, asked, ticks>>

NsTimerCall ==
  /\ world = "NS" /\ due
  /\ due' = FALSE /\ call' = "timer" /\ world' = "LK"
  /\ UNCHANGED <<lk, wall, answer, armed, asked, ticks>>

NsCall(kind) ==
  /\ world = "NS"
  /\ call' = kind /\ world' = IF kind = "std" THEN "LK" ELSE "Entry"
  /\ UNCHANGED <<lk, wall, answer, nsTimer, asked, ticks>>

(* The loop of sm_sched_nonsecure answers the other calls by itself: LK's  *)
(* threads do not run and the wall is not updated.                         *)
retval == IF call = "smc64" THEN "NOT_SUPPORTED" ELSE "fast"

EntryLoop ==
  /\ world = "Entry"
  /\ answer' = retval /\ world' = "NS"
  /\ UNCHANGED <<lk, wall, call, nsTimer, asked, ticks>>

Next ==
  \/ Request \/ SetBootComplete \/ Tick \/ Return
  \/ NsReadWall \/ NsTimer \/ NsTimerCall \/ EntryLoop
  \/ \E kind \in {"smc64", "fast", "std"} : NsCall(kind)

Spec == Init /\ [][Next]_vars

(* LK boots, answers and returns; NS reads the wall.  Every return starts  *)
(* NS's timer anew, so it expires only because now and then NS makes no    *)
(* other call for as long as the interval; then it calls back.             *)
LiveSpec ==
  /\ Spec
  /\ WF_vars(SetBootComplete) /\ WF_vars(Tick) /\ WF_vars(Return) /\ WF_vars(EntryLoop)
  /\ WF_vars(NsReadWall) /\ SF_vars(NsTimer) /\ SF_vars(NsTimerCall)

-----------------------------------------------------------------------------
(* Either nothing, an event to start or the order to stop: never both.     *)
Pair == {None, [tv_ns |-> 0, cv_ns |-> 1], [tv_ns |-> 1, cv_ns |-> 0]}

TypeOK ==
  /\ lk_boot_complete \in BOOLEAN /\ t_callback \in BOOLEAN
  /\ back_timer \in Pair /\ wall \in Pair
  /\ world \in {"LK", "Read", "NS", "Entry"}
  /\ call \in Kinds /\ answer \in Answers
  /\ armed \in BOOLEAN /\ due \in BOOLEAN
  /\ asked \in {"nothing", "set", "zero", "stop"}
  /\ ticks \in 0 .. 1

(* Whenever NS has control, its timer runs or has expired if the last      *)
(* thing LK asked for was an event, and it has none running on behalf of a *)
(* request that LK has taken back: LK does not sleep forever.              *)
ArmedWhileWaiting ==
  world \in {"NS", "Entry"} =>
    /\ asked = "set" => armed \/ due
    /\ asked = "stop" => ~armed

(* What a call returns belongs to it, however many calls the loop in       *)
(* sm_sched_nonsecure has answered before.                                 *)
AnswerOfItsCall ==
  world = "NS" =>
    answer = CASE call = "smc64" -> "NOT_SUPPORTED"
               [] call = "fast" -> "fast"
               [] OTHER -> "std"

(* timer.c says of set_backup_timer: "Timer will be started at Android     *)
(* side if tv bigger than cv".                                             *)
StartedIfTvBigger == asked = "set" => back_timer.tv_ns > back_timer.cv_ns

(* An event LK asked for comes, unless LK asks for something else: the     *)
(* thread that sleeps until then is woken by a callback.                   *)
EventComes ==
  \A n \in 0 .. 1 : asked = "set" /\ ticks = n ~> ticks # n \/ asked # "set"
=============================================================================
