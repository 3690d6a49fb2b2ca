---------------------------- MODULE PolicyNetwork ----------------------------
(***************************************************************************)
(* What a controller may expect of a network with an observation history,  *)
(* whatever its worker thread is doing: one request is in flight at a      *)
(* time; what is observed in the meantime waits and is not lost; a target  *)
(* shows up with the end of its request and rests on the window of that    *)
(* request; a request may end without one.  PolicyTakeover builds on it,   *)
(* InferenceWorker implements it.                                          *)
(*                                                                         *)
(* Observations have names of the user's choice; a target is named by the  *)
(* observations it was computed from.                                      *)
(***************************************************************************)
EXTENDS ObservationHistory, Functions

VARIABLES
  history,          \* obs_buffer_
  input_queue_,     \* observations made while a request was in flight
  busy,             \* a request is in flight
  request,          \* what the last request rests on
  latest_target_    \* what the target that GetResult hands out rests on

networkVars == <<history, input_queue_, busy, request, latest_target_>>

Zero == 0        \* the observation of a WarmUp
Unset == {-1}    \* the zeros latest_target_ is constructed with

NetworkInit ==
  /\ history = [i \in 1 .. BufferSize |-> Zero]
  /\ input_queue_ = <<>>
  /\ busy = FALSE
  /\ request = Unset
  /\ latest_target_ = Unset

\* A mutant of InferUnsync: a busy network forgets the observation.
InferUnsyncForgets(observation) ==
  /\ history' = IF busy THEN history ELSE Pushed(history, <<observation>>)
  /\ request' = IF busy THEN request ELSE Range(history')
  /\ busy' = TRUE
  /\ UNCHANGED <<input_queue_, latest_target_>>

\* InferUnsync, and WarmUp, whose observation is zero.
InferUnsync(observation) ==
  \/ /\ busy
     /\ input_queue_' = Append(input_queue_, observation)
     /\ UNCHANGED <<history, busy, request, latest_target_>>
  \/ /\ ~busy
     /\ history' = Pushed(history, Append(input_queue_, observation))
     /\ input_queue_' = <<>>
     /\ busy' = TRUE
     /\ request' = Range(history')
     /\ UNCHANGED latest_target_

\* The request ends with its target.
Infer ==
  /\ busy
  /\ busy' = FALSE
  /\ latest_target_' = request
  /\ UNCHANGED <<history, input_queue_, request>>

\* The request ends without one: the store at the end of an idle turn of the
\* worker has hit it.
Forget ==
  /\ busy
  /\ busy' = FALSE
  /\ UNCHANGED <<history, input_queue_, request, latest_target_>>

\* With any names for the observations.
NetworkNext(observations) ==
  (\E o \in observations : InferUnsync(o)) \/ Infer \/ Forget

=============================================================================
