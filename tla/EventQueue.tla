------------------------------ MODULE EventQueue ------------------------------
(***************************************************************************)
(* What the kernel thread expects of a queue of events, and what the       *)
(* module Supervisor takes its backend_queue and ros_queue for: events     *)
(* leave it in the order in which they entered, each of them once.         *)
(***************************************************************************)
EXTENDS Naturals, Sequences

VARIABLE queue

CONSTANT Event

QueueInit == queue = <<>>

Put ==
  /\ Len(queue') = Len(queue) + 1
  /\ \A i \in 1 .. Len(queue) : queue'[i] = queue[i]
  /\ queue'[Len(queue')] \in Event

Get == queue # <<>> /\ queue' = Tail(queue)

QueueSpec == QueueInit /\ [][Put \/ Get]_queue

=============================================================================
