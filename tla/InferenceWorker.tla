--------------------------- MODULE InferenceWorker ---------------------------
(***************************************************************************)
(* The asynchronous inference of one policy network (standing, walking,    *)
(* robust and the three gesture controllers all run this code; shown here  *)
(* on HumanoidStandPolicy).  The control loop calls WarmUp, InferUnsync    *)
(* and GetResult; a worker thread runs the network.  The two threads share *)
(* the atomic inference_done_; guarded by it alone, the input tensor and   *)
(* latest_target_; and guarded by nothing, last_action_, which InferUnsync *)
(* reads before it looks at the flag, and inference_time_, which WriteLog  *)
(* reads after it has cleared it.                                          *)
(*                                                                         *)
(* Observations are numbered by the call that made them (1, 2, ...; 0 is   *)
(* the zero the history buffer starts with), and an action or a target is  *)
(* named by the newest observation of the window it was computed from.     *)
(* What a racing read of last_action_ returns is a vector each element of  *)
(* which is of one of the actions named in observed.                       *)
(***************************************************************************)
EXTENDS ObservationHistory

CONSTANT
  MaxCalls      \* bound on the calls the control loop makes

ASSUME MaxCallsAssumption == MaxCalls \in Nat

VARIABLES
  inference_done_,  \* the atomic flag: TRUE when no request is in flight
  input_queue_,     \* observations made while a request was in flight
  obs_buffer_,      \* the last BufferSize observations, oldest first
  tensor,           \* the window set as the input of infer_request_
  last_action_,     \* the network's last output, fed back as an observation
  latest_target_,   \* what GetResult hands out
  observed,         \* the actions that elements of last_action_ in the
                    \* observation of the call under way may be of
  result,           \* what GetResult has handed out last
  calls,            \* WarmUp and InferUnsync calls made so far
  accepted,         \* the last call that returned true
  offered,          \* latest_target_ as it was when the flag was last TRUE
  caller,           \* where the control loop is
  worker,           \* where the worker thread is
  output            \* the target the network has just computed

vars == <<inference_done_, input_queue_, obs_buffer_, tensor, last_action_,
          latest_target_, observed, result, calls, accepted, offered, caller,
          worker, output>>

shared == <<inference_done_, last_action_, latest_target_>>
buffers == <<input_queue_, obs_buffer_, tensor>>
seen == <<observed, result>>

Windows == [1..BufferSize -> Nat]

Newest(w) == w[BufferSize]

Init ==
  /\ inference_done_ = TRUE
  /\ input_queue_ = <<>>
  /\ obs_buffer_ = [i \in 1..BufferSize |-> 0]
  /\ tensor = [i \in 1..BufferSize |-> 0]
  /\ last_action_ = 0
  /\ latest_target_ = 0
  /\ observed = {}
  /\ result = 0
  /\ calls = 0
  /\ accepted = 0
  /\ offered = 0
  /\ caller = "idle"
  /\ worker = "check"
  /\ output = 0

-----------------------------------------------------------------------------
(* The control loop's thread.                                              *)

\* InferUnsync builds its observation, last_action_ included, before it looks
\* at the flag: the worker may have written a part of the new action.
Observe ==
  /\ caller = "idle"
  /\ calls < MaxCalls
  /\ observed' = {last_action_} \cup (IF worker = "act" THEN {output} ELSE {})
  /\ caller' = "observe"
  /\ UNCHANGED <<shared, buffers, result, calls, accepted, offered, worker, output>>

BlindCall ==
  /\ caller \in {"idle", "observe"}
  /\ calls < MaxCalls
  /\ calls' = calls + 1
  /\ caller' = "fill"
  /\ UNCHANGED <<shared, buffers, seen, accepted, offered, worker, output>>

\* WarmUp, which observes nothing, and InferUnsync continue alike: read the
\* flag; a busy network gets the observation queued.
Call ==
  /\ caller \in {"idle", "observe"}
  /\ calls < MaxCalls
  /\ calls' = calls + 1
  /\ \/ /\ inference_done_
        /\ caller' = "fill"
        /\ UNCHANGED <<input_queue_, observed>>
     \/ /\ ~inference_done_
        /\ input_queue_' = Append(input_queue_, calls')
        /\ caller' = "idle"
        /\ observed' = {}
  /\ UNCHANGED <<shared, obs_buffer_, tensor, result, accepted, offered, worker, output>>

FillNewestFirst ==
  /\ caller = "fill"
  /\ obs_buffer_' = Pushed(obs_buffer_, <<calls>> \o input_queue_)
  /\ input_queue_' = <<>>
  /\ tensor' = obs_buffer_'
  /\ caller' = "release"
  /\ UNCHANGED <<shared, seen, calls, accepted, offered, worker, output>>

\* The accepting branch: drain the queue into the history, add the new
\* observation, set the tensor.
FillTensor ==
  /\ caller = "fill"
  /\ obs_buffer_' = Pushed(obs_buffer_, Append(input_queue_, calls))
  /\ input_queue_' = <<>>
  /\ tensor' = obs_buffer_'
  /\ caller' = "release"
  /\ UNCHANGED <<shared, seen, calls, accepted, offered, worker, output>>

\* inference_done_.store(false), and the call returns true; InferUnsync may
\* have a log to write first, as log_flag_ says.
Release ==
  /\ caller = "release"
  /\ inference_done_' = FALSE
  /\ accepted' = calls
  /\ \/ caller' = "idle" /\ observed' = {}
     \/ observed # {} /\ caller' = "log" /\ UNCHANGED observed
  /\ UNCHANGED <<buffers, last_action_, latest_target_, result, calls, offered, worker, output>>

\* WriteLog reads last_action_ and inference_time_ with the worker at work.
WriteLog ==
  /\ caller = "log"
  /\ caller' = "idle"
  /\ observed' = {}
  /\ UNCHANGED <<shared, buffers, result, calls, accepted, offered, worker, output>>

\* GetResult: the flag is read (again after the timeout) and only then is
\* latest_target_ copied.  A nullopt answer changes nothing.
GetResult ==
  /\ caller = "idle"
  /\ inference_done_
  /\ caller' = "copy"
  /\ UNCHANGED <<shared, buffers, seen, calls, accepted, offered, worker, output>>

CopyResult ==
  /\ caller = "copy"
  /\ result' = latest_target_
  /\ caller' = "idle"
  /\ UNCHANGED <<shared, buffers, observed, calls, accepted, offered, worker, output>>

\* ~HumanoidStandPolicy: exiting_ is set and the worker joined.
Destroy ==
  /\ caller = "idle"
  /\ caller' = "destroyed"
  /\ UNCHANGED <<shared, buffers, seen, calls, accepted, offered, worker, output>>

-----------------------------------------------------------------------------
(* WorkerThread: check, infer, act, publish and store are one turn.        *)

WorkerCheck ==
  /\ worker = "check"
  /\ worker' = IF caller = "destroyed" THEN "exited"
               ELSE IF inference_done_ THEN "store" ELSE "infer"
  /\ UNCHANGED <<shared, buffers, seen, calls, accepted, offered, caller, output>>

\* The network has run; its output is about to be written to last_action_,
\* element by element, and may be met there by an observation being built.
Infer ==
  /\ worker = "infer"
  /\ output' = Newest(tensor)
  /\ observed' = IF caller = "observe" THEN observed \cup {output'} ELSE observed
  /\ worker' = "act"
  /\ UNCHANGED <<shared, buffers, result, calls, accepted, offered, caller>>

Act ==
  /\ worker = "act"
  /\ last_action_' = output
  /\ worker' = "publish"
  /\ UNCHANGED <<inference_done_, latest_target_, buffers, seen, calls, accepted,
                 offered, caller, output>>

Publish ==
  /\ worker = "publish"
  /\ latest_target_' = output
  /\ worker' = "store"
  /\ UNCHANGED <<inference_done_, last_action_, buffers, seen, calls, accepted,
                 offered, caller, output>>

WorkerStoreMissing ==
  /\ worker = "store"
  /\ worker' = "check"
  /\ UNCHANGED <<shared, buffers, seen, calls, accepted, offered, caller, output>>

\* inference_done_.store(true), whether or not a request was run.
WorkerStore ==
  /\ worker = "store"
  /\ inference_done_' = TRUE
  /\ offered' = latest_target_
  /\ worker' = "check"
  /\ UNCHANGED <<buffers, last_action_, latest_target_, seen, calls, accepted, caller, output>>

-----------------------------------------------------------------------------
Caller ==
  Observe \/ Call \/ FillTensor \/ Release \/ WriteLog \/ GetResult \/ CopyResult \/ Destroy

Worker == WorkerCheck \/ Infer \/ Act \/ Publish \/ WorkerStore

\* What is left of a call that has begun.
Continue ==
  (caller = "observe" /\ Call) \/ FillTensor \/ Release \/ WriteLog \/ CopyResult

Next == Caller \/ Worker

Spec == Init /\ [][Next]_vars

\* The scheduler keeps running the worker; the caller completes a call it
\* has begun but is never obliged to begin one.
Fairness == WF_vars(Worker) /\ WF_vars(Continue)

FairSpec == Spec /\ Fairness

-----------------------------------------------------------------------------
(* Types of the variables. *)
TypeOK ==
  /\ inference_done_ \in BOOLEAN
  /\ input_queue_ \in Seq(Nat)
  /\ obs_buffer_ \in Windows
  /\ tensor \in Windows
  /\ last_action_ \in Nat
  /\ latest_target_ \in Nat
  /\ observed \in SUBSET Nat
  /\ result \in Nat
  /\ calls \in Nat
  /\ accepted \in Nat
  /\ offered \in Nat
  /\ caller \in {"idle", "observe", "fill", "release", "log", "copy", "destroyed"}
  /\ worker \in {"check", "infer", "act", "publish", "store", "exited"}
  /\ output \in Nat

\* What each thread reads or writes, the flag apart, at the place where it is.
CallerUses ==
  CASE caller = "observe" -> {"last_action_"}
    [] caller \in {"fill", "release"} -> {"tensor", "infer_start_time_"}
    [] caller = "log" -> {"last_action_", "inference_time_"}
    [] caller = "copy" -> {"latest_target_"}
    [] OTHER -> {}
WorkerUses ==
  CASE worker = "infer" -> {"tensor", "infer_start_time_", "inference_time_"}
    [] worker = "act" -> {"last_action_"}
    [] worker = "publish" -> {"latest_target_"}
    [] OTHER -> {}

(* The flag does not keep the two threads apart, but all they ever race on *)
(* is last_action_ and the time in the log: the tensor and the target,     *)
(* which they share as well, they never touch together.  And what the race *)
(* can do to an observation is bounded: no element of the action in it is  *)
(* older than the target the control loop got last, and none is of a later *)
(* request than the last it made.                                          *)
RacesAreConfined ==
  /\ CallerUses \cap WorkerUses \subseteq {"last_action_", "inference_time_"}
  /\ \A action \in observed : result <= action /\ action <= accepted

(* No observation is lost, repeated or reordered by the detour through     *)
(* input_queue_: history and queue together always end with the latest     *)
(* observations, one per call, in the order of the calls.                  *)
Recorded == IF caller = "fill" THEN calls - 1 ELSE calls
HistoryIsGapless ==
  LET recorded == obs_buffer_ \o input_queue_
      n == Len(recorded)
  IN  \A k \in 0 .. n - 1 :
        recorded[n - k] = IF Recorded > k THEN Recorded - k ELSE 0

(* The tensor the network runs on ends with the observation of the call    *)
(* that was accepted, so a target is never computed from a window older    *)
(* than the request being served.                                          *)
TensorIsAccepted ==
  worker \in {"infer", "act", "publish"} => Newest(tensor) = accepted

(* Every request in flight is eventually answered or dropped: GetResult    *)
(* cannot return nullopt for ever.                                         *)
FlagReturns == ~inference_done_ ~> (inference_done_ \/ caller = "destroyed")

(* The doc of InferUnsync: true means the inference was started.  Then, as *)
(* soon as the flag says done, the target is the one of the last accepted  *)
(* request.                                                                *)
AcceptedIsComputed ==
  (inference_done_ /\ caller = "idle") => latest_target_ = accepted

\* The observations of the window that ends with call n.
WindowOf(n) == {IF n > k THEN n - k ELSE 0 : k \in 0 .. BufferSize - 1}

\* What a target named n rests on; 0 is the one the policy is constructed with.
RestsOn(n) == IF n = 0 THEN {-1} ELSE WindowOf(n)

Taken == ~inference_done_ \/ caller = "release"

Taking == IF caller = "release" THEN calls ELSE accepted

(* Worker and control loop implement the network that PolicyTakeover       *)
(* builds on, with the calls as the names of the observations: a call is   *)
(* one step from its look at the flag to clearing it, and so is a turn of  *)
(* the worker, from the flag's clearing to its return.                     *)
Network == INSTANCE PolicyNetwork WITH
  history        <- obs_buffer_,
  busy           <- Taken,
  request        <- RestsOn(Taking),
  latest_target_ <- RestsOn(offered)
NetworkSpec ==
  Network!NetworkInit /\ [][Network!NetworkNext(1 .. MaxCalls)]_(Network!networkVars)

=============================================================================
