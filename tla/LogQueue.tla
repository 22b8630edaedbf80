------------------------------ MODULE LogQueue ------------------------------
(***************************************************************************)
(* What the boot-stage log promises: a queue of bounded memory between     *)
(* those who print and the wire.  A character that does not fit drives out *)
(* the oldest, but only as long as nothing has reached the wire; from then *)
(* on each character leaves in its turn.  The last one stays until there   *)
(* is another.  Characters are numbered, 0 being the NUL the memory is     *)
(* initialised with.                                                       *)
(***************************************************************************)
EXTENDS Integers, Sequences

CONSTANT Capacity   \* characters the memory holds

VARIABLES
  queue,   \* the characters to come, oldest first
  wire     \* those written

queueVars == <<queue, wire>>

QueueInit == queue = <<0>> /\ wire = <<>>

Newest == queue[Len(queue)]

Enter ==
  /\ Len(queue) < Capacity
  /\ queue' = Append(queue, Newest + 1)
  /\ UNCHANGED wire

DriveOut ==
  /\ Len(queue) = Capacity /\ wire = <<>>
  /\ queue' = Append(Tail(queue), Newest + 1)
  /\ UNCHANGED wire

Leave ==
  /\ Len(queue) > 1
  /\ wire' = Append(wire, Head(queue))
  /\ queue' = Tail(queue)

QueueNext == Enter \/ DriveOut \/ Leave

Queue == QueueInit /\ [][QueueNext]_queueVars
=============================================================================
