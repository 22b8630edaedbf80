------------------------- MODULE SecureTimerProofs -------------------------
(***************************************************************************)
(* Theorems about SecureTimer.  Its inductive invariant follows LK's last  *)
(* request from back_timer over the wall to NS's timer.                    *)
(***************************************************************************)
EXTENDS SecureTimer, TLAPS

(* What LK asked for since it booted is what back_timer says.              *)
Asked ==
  /\ asked = "set" => back_timer.tv_ns < back_timer.cv_ns
  /\ asked = "stop" => back_timer.tv_ns > back_timer.cv_ns
  /\ asked = "nothing" => back_timer = None

(* NS is about to read what back_timer says.                               *)
Published == world = "Read" => wall = back_timer

(* A call that LK's threads do not see is in the loop of the entry.        *)
InLoop ==
  /\ world = "Entry" => call \in {"smc64", "fast"}
  /\ world = "LK" => call \in {"std", "timer"}
  /\ world = "Read" => call = "std" /\ answer = "std"

IInv == TypeOK /\ Asked /\ Published /\ InLoop /\ ArmedWhileWaiting /\ AnswerOfItsCall

-----------------------------------------------------------------------------
LEMMA InitInv == Init => IInv
<1> SUFFICES ASSUME Init PROVE IInv
  OBVIOUS
<1>1. TypeOK
  <2>1. back_timer = None /\ wall = None /\ ticks \in 0 .. 1
    BY DEF Init
  <2>2. /\ lk_boot_complete \in BOOLEAN /\ t_callback \in BOOLEAN
        /\ armed \in BOOLEAN /\ due \in BOOLEAN
    BY DEF Init
  <2>3. /\ world \in {"LK", "Read", "NS", "Entry"} /\ call \in Kinds /\ answer \in Answers
        /\ asked \in {"nothing", "set", "zero", "stop"}
    BY DEF Init, Kinds, Answers
  <2> QED BY <2>1, <2>2, <2>3 DEF TypeOK, Pair
<1>2. world = "LK" /\ call = "std" /\ answer = "std" /\ asked = "nothing" /\ back_timer = None
  BY DEF Init
<1> QED BY <1>1, <1>2 DEF IInv, Asked, Published, InLoop, ArmedWhileWaiting, AnswerOfItsCall

(* A request leaves one of the three pairs behind, and says which.         *)
LEMMA RequestPair ==
  ASSUME IInv, (StopTimer \/ \E i \in Intervals : SetOneshot(i))
  PROVE  /\ back_timer' \in Pair /\ t_callback' \in BOOLEAN
         /\ asked' \in {"nothing", "set", "zero", "stop"}
         /\ Asked'
<1>1. CASE StopTimer
  <2>1. CASE lk_boot_complete
    <3>1. back_timer' = [tv_ns |-> 1, cv_ns |-> 0] /\ asked' = "stop" /\ t_callback' = t_callback
      BY <1>1, <2>1 DEF StopTimer, stop_backup_timer, update_bakcup_timer
    <3> QED BY <3>1 DEF IInv, TypeOK, Asked, Pair
  <2>2. CASE ~lk_boot_complete
    BY <1>1, <2>2 DEF StopTimer, IInv, TypeOK, Asked
  <2> QED BY <2>1, <2>2
<1>2. CASE \E i \in Intervals : SetOneshot(i)
  <2>1. PICK i \in {0, 1} : SetOneshot(i)
    BY <1>2 DEF Intervals
  <2>2. CASE lk_boot_complete
    <3>1. /\ back_timer' = [tv_ns |-> 0, cv_ns |-> i] /\ t_callback' = TRUE
          /\ asked' = IF i = 0 THEN "zero" ELSE "set"
      BY <2>1, <2>2 DEF SetOneshot, set_backup_timer, update_bakcup_timer
    <3> QED BY <2>1, <3>1 DEF Asked, Pair, None
  <2>3. CASE ~lk_boot_complete
    BY <2>1, <2>3 DEF SetOneshot, IInv, TypeOK, Asked
  <2> QED BY <2>2, <2>3
<1> QED BY <1>1, <1>2

LEMMA RequestInv == IInv /\ Request => IInv'
<1> SUFFICES ASSUME IInv, Request PROVE IInv'
  OBVIOUS
<1>1. /\ world = "LK" /\ UNCHANGED <<lk_boot_complete, wall, world, ns, ticks>>
      /\ StopTimer \/ \E i \in Intervals : SetOneshot(i)
  BY DEF Request
<1>2. /\ back_timer' \in Pair /\ t_callback' \in BOOLEAN
      /\ asked' \in {"nothing", "set", "zero", "stop"} /\ Asked'
  BY <1>1, RequestPair
<1> QED BY <1>1, <1>2 DEF IInv, TypeOK, ns, nsTimer, Published, InLoop, ArmedWhileWaiting,
           AnswerOfItsCall

LEMMA TickInv == IInv /\ Tick => IInv'
<1> SUFFICES ASSUME IInv, Tick PROVE IInv'
  OBVIOUS
<1>1. /\ world = "LK" /\ call' = "std"
      /\ UNCHANGED <<lk_boot_complete, wall, world, answer, nsTimer>>
      /\ ticks' \in {ticks, 1 - ticks}
      /\ \/ \E i \in Intervals : SetOneshot(i)
         \/ UNCHANGED <<t_callback, back_timer, asked>>
  BY DEF Tick
<1>2. /\ back_timer' \in Pair /\ t_callback' \in BOOLEAN
      /\ asked' \in {"nothing", "set", "zero", "stop"} /\ Asked'
  <2>1. CASE \E i \in Intervals : SetOneshot(i)
    BY <2>1, RequestPair
  <2>2. CASE UNCHANGED <<t_callback, back_timer, asked>>
    BY <2>2 DEF IInv, TypeOK, Asked
  <2> QED BY <1>1, <2>1, <2>2
<1>3. ticks' \in 0 .. 1
  BY <1>1 DEF IInv, TypeOK
<1> QED BY <1>1, <1>2, <1>3 DEF IInv, TypeOK, nsTimer, Published, InLoop, ArmedWhileWaiting,
           AnswerOfItsCall, Kinds

LEMMA SetBootCompleteInv == IInv /\ SetBootComplete => IInv'
BY DEF SetBootComplete, ns, nsTimer, IInv, TypeOK, Asked, Published, InLoop,
       ArmedWhileWaiting, AnswerOfItsCall

LEMMA ReturnInv == IInv /\ Return => IInv'
BY DEF Return, update_wall_cb, lk, nsTimer, IInv, TypeOK, Asked, Published, InLoop,
       ArmedWhileWaiting, AnswerOfItsCall, Answers

(* NS arms its timer exactly for an event, and keeps it for a pair (0, 0). *)
LEMMA NsReadWallInv == IInv /\ NsReadWall => IInv'
<1> SUFFICES ASSUME IInv, NsReadWall PROVE IInv'
  OBVIOUS
<1>1. /\ world = "Read" /\ world' = "NS" /\ wall = back_timer
      /\ UNCHANGED <<lk, wall, call, answer, due, asked, ticks>>
      /\ armed' = IF wall.tv_ns = wall.cv_ns THEN armed ELSE wall.tv_ns < wall.cv_ns
  BY DEF NsReadWall, IInv, Published
<1>2. \/ wall.tv_ns = 0 /\ wall.cv_ns = 0
      \/ wall.tv_ns = 0 /\ wall.cv_ns = 1
      \/ wall.tv_ns = 1 /\ wall.cv_ns = 0
  BY DEF IInv, TypeOK, Pair, None
<1>3. /\ armed' \in BOOLEAN
      /\ asked = "set" => armed' = TRUE
      /\ asked = "stop" => armed' = FALSE
  <2>0. /\ asked = "set" => wall.tv_ns < wall.cv_ns
        /\ asked = "stop" => wall.tv_ns > wall.cv_ns
    BY <1>1 DEF IInv, Asked
  <2>1. CASE wall.tv_ns = 0 /\ wall.cv_ns = 0
    <3>1. asked # "set" /\ asked # "stop"
      BY <2>0, <2>1
    <3>2. armed' = armed /\ armed \in BOOLEAN
      BY <1>1, <2>1 DEF IInv, TypeOK
    <3> QED BY <3>1, <3>2
  <2>2. CASE wall.tv_ns = 0 /\ wall.cv_ns = 1
    <3>1. asked # "stop"
      BY <2>0, <2>2
    <3>2. wall.tv_ns # wall.cv_ns /\ (wall.tv_ns < wall.cv_ns) = TRUE
      BY <2>2
    <3>3. armed' = TRUE
      BY <1>1, <3>2
    <3> QED BY <3>1, <3>3
  <2>3. CASE wall.tv_ns = 1 /\ wall.cv_ns = 0
    <3>1. asked # "set"
      BY <2>0, <2>3
    <3>2. wall.tv_ns # wall.cv_ns /\ (wall.tv_ns < wall.cv_ns) = FALSE
      BY <2>3
    <3>3. armed' = FALSE
      BY <1>1, <3>2
    <3> QED BY <3>1, <3>3
  <2> QED BY <1>2, <2>1, <2>2, <2>3
<1>4. TypeOK'
  BY <1>1, <1>3 DEF IInv, TypeOK, lk
<1>5. ArmedWhileWaiting'
  BY <1>1, <1>3 DEF ArmedWhileWaiting
<1> QED BY <1>1, <1>4, <1>5 DEF IInv, lk, Asked, Published, InLoop, AnswerOfItsCall

(* Steps of NS that leave LK and the wall alone.                           *)
LEMMA NsInv ==
  IInv /\ (NsTimer \/ NsTimerCall \/ EntryLoop \/ \E k \in {"smc64", "fast", "std"} : NsCall(k))
    => IInv'
<1>1. IInv /\ NsTimer => IInv'
  BY DEF NsTimer, lk, IInv, TypeOK, Asked, Published, InLoop, ArmedWhileWaiting, AnswerOfItsCall
<1>2. IInv /\ NsTimerCall => IInv'
  BY DEF NsTimerCall, lk, IInv, TypeOK, Asked, Published, InLoop, ArmedWhileWaiting,
         AnswerOfItsCall, Kinds
<1>3. IInv /\ EntryLoop => IInv'
  BY DEF EntryLoop, retval, lk, nsTimer, IInv, TypeOK, Asked, Published, InLoop,
         ArmedWhileWaiting, AnswerOfItsCall, Answers
<1>4. ASSUME NEW k \in {"smc64", "fast", "std"}, IInv, NsCall(k) PROVE IInv'
  BY <1>4 DEF NsCall, lk, nsTimer, IInv, TypeOK, Asked, Published, InLoop,
         ArmedWhileWaiting, AnswerOfItsCall, Kinds
<1> QED BY <1>1, <1>2, <1>3, <1>4

LEMMA StutterInv == IInv /\ UNCHANGED vars => IInv'
BY DEF vars, lk, ns, nsTimer, IInv, TypeOK, Asked, Published, InLoop, ArmedWhileWaiting,
       AnswerOfItsCall

-----------------------------------------------------------------------------
(* The invariant holds in every reachable state.                           *)
THEOREM Invariance == Spec => []IInv
<1>1. IInv /\ [Next]_vars => IInv'
  BY RequestInv, TickInv, SetBootCompleteInv, ReturnInv, NsReadWallInv, NsInv, StutterInv DEF Next
<1> QED BY InitInv, <1>1, PTL DEF Spec

(* back_timer and the wall hold one of three pairs (update_bakcup_timer).  *)
THEOREM TypeCorrect == Spec => []TypeOK
<1>1. IInv => TypeOK
  BY DEF IInv
<1> QED BY Invariance, <1>1, PTL

(* LK never sleeps until an event that NS does not know of, and NS's timer *)
(* does not run for one that LK took back (timer.c, update_wall_cb).       *)
THEOREM WaitingIsArmed == Spec => []ArmedWhileWaiting
<1>1. IInv => ArmedWhileWaiting
  BY DEF IInv
<1> QED BY Invariance, <1>1, PTL

(* Each call gets its own result (sm_sched_nonsecure).                     *)
THEOREM OwnAnswer == Spec => []AnswerOfItsCall
<1>1. IInv => AnswerOfItsCall
  BY DEF IInv
<1> QED BY Invariance, <1>1, PTL
=============================================================================
