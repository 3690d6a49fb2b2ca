---------------------------- MODULE PolicyTakeover ----------------------------
(***************************************************************************)
(* A controller with an observation history that takes the joints over,    *)
(* gives them up and takes them over again: PolicyCtrAuto, of which the    *)
(* others (leg only, leg and waist, 21 joints) are the case without a      *)
(* blend, and the three gestures, which play a timeline on top of a        *)
(* standing policy of their own.                                           *)
(*                                                                         *)
(* The supervisor calls WarmUp in every period of policy_switching and Step*)
(* in every period of policy_running.  The network keeps its history, the  *)
(* queue and latest_target_ from one activation to the next: nothing resets*)
(* them but the zero observations of WarmUp.  Switches here run their      *)
(* course, in periods that are in time; the first policy, which starts     *)
(* without one, and a switch cut short are in Supervisor.                  *)
(*                                                                         *)
(* An observation is named by the activation that made it, 0 for the zero  *)
(* observation of a WarmUp.  Time is counted in periods; InferenceWorker   *)
(* has the two threads of the network in their single steps, of which only *)
(* those of PolicyNetwork are left here.                                   *)
(***************************************************************************)
EXTENDS PolicyNetwork

CONSTANTS
  Decimation,      \* decimation_: calls per request
  SwitchPeriods,   \* switching_time_ in periods
  MaxLatency,      \* bound on the periods the network takes to answer
  MaxDrops,        \* bound on the requests dropped in one activation
  BlendPeriods,    \* startup_blend_time_, or the first movement of the gesture
  MaxActivations   \* bound on the times the controller is switched to

ASSUME PeriodsAssumption ==
  /\ Decimation \in Nat \ {0}
  /\ SwitchPeriods \in Nat
  /\ MaxLatency \in Nat
  /\ BlendPeriods \in Nat
ASSUME NetworkAssumption ==
  /\ MaxDrops \in Nat
  /\ MaxActivations \in Nat

VARIABLES
  gesture,          \* a gesture controller, not PolicyCtrAuto
  latency,          \* periods within which this network answers
  phase,            \* what the supervisor uses the controller for
  at,               \* where the kernel thread is in its period
  activation,       \* the times the controller has been switched to
  warmups,          \* WarmUp calls of this activation
  steps,            \* Step calls of this activation, up to BlendPeriods
  missed,           \* Step calls since the last that got a result, up to latency + 2
  counter_,         \* counter_ modulo Decimation
  blend_pending_,   \* startup_blend_pending_
  blending_,        \* startup_blending_
  elapsed,          \* time since the blend or the gesture started, up to BlendPeriods
  policy_target_,   \* policy_target_position_: the observations it rests on
  progress,         \* how far the blend or the gesture has got in it
  age,              \* the periods the request has been in flight
  drops             \* requests dropped in this activation

supervisor == <<phase, activation, warmups>>
blend == <<blend_pending_, blending_>>
command == <<policy_target_, progress>>
network == <<networkVars, age, drops>>

fixed == <<gesture, latency>>

vars == <<fixed, supervisor, at, steps, missed, counter_, blend, elapsed,
          command, network>>

Held == {}       \* where the joints are or were told to go, not the network's

Least(m, n) == IF m < n THEN m ELSE n

Init ==
  /\ gesture \in BOOLEAN
  /\ latency \in 0 .. MaxLatency
  /\ phase = "away"
  /\ at = "begin"
  /\ activation = 0
  /\ warmups = 0
  /\ steps = 0
  /\ missed = 0
  /\ counter_ = 0
  /\ blend_pending_ = FALSE
  /\ blending_ = FALSE
  /\ elapsed = 0
  /\ policy_target_ = Held
  /\ progress = 0
  /\ NetworkInit
  /\ age = 0
  /\ drops = 0

-----------------------------------------------------------------------------
(* The network, with the age of its request.                               *)

Request(observation) ==
  /\ InferUnsync(observation)
  /\ age' = IF busy THEN age ELSE 0
  /\ UNCHANGED drops

Answer ==
  /\ Infer
  /\ UNCHANGED <<fixed, supervisor, at, steps, missed, counter_, blend,
                 elapsed, command, age, drops>>

\* The store that hits a request hits a new one (here one of any age).
Drop ==
  /\ Forget
  /\ drops < MaxDrops
  /\ drops' = drops + 1
  /\ UNCHANGED <<fixed, supervisor, at, steps, missed, counter_, blend,
                 elapsed, command, age>>

-----------------------------------------------------------------------------
(* The supervisor and the kernel thread.                                   *)

\* A mutant of Enter: the blend starts with the switch.
EnterStartsBlend ==
  /\ phase = "away"
  /\ activation < MaxActivations
  /\ phase' = "switching"
  /\ activation' = activation + 1
  /\ warmups' = 0
  /\ steps' = 0
  /\ missed' = 0
  /\ counter_' = 0
  /\ blend_pending_' = FALSE
  /\ blending_' = (~gesture /\ BlendPeriods > 0)
  /\ elapsed' = 0
  /\ policy_target_' \in {Held, policy_target_}
  /\ progress' = 0
  /\ drops' = 0
  /\ UNCHANGED <<fixed, at, networkVars, age>>

\* Init of the controller, by the event that enables the policy.  Those without
\* a blend keep their old target, until the first WarmUp.
Enter ==
  /\ phase = "away"
  /\ activation < MaxActivations
  /\ phase' = "switching"
  /\ activation' = activation + 1
  /\ warmups' = 0
  /\ steps' = 0
  /\ missed' = 0
  /\ counter_' = 0
  /\ blend_pending_' = (~gesture /\ BlendPeriods > 0)
  /\ blending_' = FALSE
  /\ elapsed' = 0
  /\ policy_target_' \in {Held, policy_target_}
  /\ progress' = 0
  /\ drops' = 0
  /\ UNCHANGED <<fixed, at, networkVars, age>>

\* A period of policy_switching: another controller steps, this one warms up
\* and keeps that one's target.
WarmUp ==
  /\ phase = "switching"
  /\ at = "begin"
  /\ warmups < SwitchPeriods
  /\ warmups' = warmups + 1
  /\ counter_' = (counter_ + 1) % Decimation
  /\ \/ counter_ = 0 /\ Request(Zero)
     \/ counter_ # 0 /\ UNCHANGED network
  /\ policy_target_' = Held
  /\ at' = "end"
  /\ UNCHANGED <<fixed, phase, activation, steps, missed, blend, elapsed,
                 progress>>

\* The switching time is over: a period that only emits PolicySwitch.
SwitchingEnds ==
  /\ phase = "switching"
  /\ at = "begin"
  /\ warmups = SwitchPeriods
  /\ phase' = "committing"
  /\ at' = "end"
  /\ UNCHANGED <<fixed, activation, warmups, steps, missed, counter_, blend,
                 elapsed, command, network>>

\* PolicySwitch makes this controller the current one.
Commit ==
  /\ phase = "committing"
  /\ at = "begin"
  /\ phase' = "running"
  /\ UNCHANGED <<fixed, activation, warmups, at, steps, missed, counter_,
                 blend, elapsed, command, network>>

\* A mutant of Ask: a request in every period.
AskAlways ==
  /\ phase = "running"
  /\ at = "begin"
  /\ UNCHANGED counter_
  /\ Request(activation)
  /\ at' = "apply"
  /\ UNCHANGED <<fixed, supervisor, steps, missed, blend, elapsed, command>>

\* The first half of Step.
Ask ==
  /\ phase = "running"
  /\ at = "begin"
  /\ counter_' = (counter_ + 1) % Decimation
  /\ \/ counter_ = 0 /\ Request(activation)
     \/ counter_ # 0 /\ UNCHANGED network
  /\ at' = "apply"
  /\ UNCHANGED <<fixed, supervisor, steps, missed, blend, elapsed, command>>

\* ApplyStartupBlend, to which only a result of the network leads.
ApplyStartupBlend ==
  /\ blend_pending_' = FALSE
  /\ elapsed' = IF blend_pending_ THEN 0 ELSE elapsed
  /\ blending_' = ((blend_pending_ \/ blending_) /\ elapsed' < BlendPeriods)
  /\ progress' = IF blending_' THEN elapsed' ELSE BlendPeriods

\* The arm or head of a gesture is where its clock says, result or not.
FollowTimeline ==
  /\ progress' = elapsed
  /\ UNCHANGED <<blend, elapsed>>

\* The second half of Step: GetResult, and the target of the joints.
Apply ==
  /\ at = "apply"
  /\ steps' = Least(steps + 1, BlendPeriods)
  /\ \/ /\ busy
        /\ missed' = Least(missed + 1, latency + 2)
        /\ UNCHANGED policy_target_
     \/ /\ ~busy
        /\ missed' = 0
        /\ policy_target_' = latest_target_
  /\ \/ gesture /\ FollowTimeline
     \/ ~gesture /\ ~busy /\ ApplyStartupBlend
     \/ ~gesture /\ busy /\ UNCHANGED <<blend, elapsed, progress>>
  /\ at' = "end"
  /\ UNCHANGED <<fixed, supervisor, counter_, network>>

\* The wait for the next period; the network answers within its latency.
NextPeriod ==
  /\ at = "end" \/ phase = "away"
  /\ busy => age < latency
  /\ age' = IF busy THEN age + 1 ELSE age
  /\ elapsed' = Least(elapsed + 1, BlendPeriods)
  /\ at' = "begin"
  /\ UNCHANGED <<fixed, supervisor, steps, missed, counter_, blend, command,
                 networkVars, drops>>

\* Another controller takes the joints: Stop.
Leave ==
  /\ phase = "running"
  /\ at = "begin"
  /\ phase' = "away"
  /\ blend_pending_' = FALSE
  /\ blending_' = FALSE
  /\ UNCHANGED <<fixed, activation, warmups, at, steps, missed, counter_,
                 elapsed, command, network>>

\* EnableBeyondMimicRecovery in the middle of the switch: no Stop for the
\* controller being switched to.
Abandon ==
  /\ phase \in {"switching", "committing"}
  /\ at = "begin"
  /\ phase' = "away"
  /\ UNCHANGED <<fixed, activation, warmups, at, steps, missed, counter_,
                 blend, elapsed, command, network>>

-----------------------------------------------------------------------------
Next ==
  \/ Enter \/ WarmUp \/ SwitchingEnds \/ Commit \/ Ask \/ Apply
  \/ NextPeriod \/ Leave \/ Abandon
  \/ Answer \/ Drop

Spec == Init /\ [][Next]_vars

-----------------------------------------------------------------------------
Origins == -1 .. MaxActivations

(* Types of the variables. *)
TypeOK ==
  /\ gesture \in BOOLEAN
  /\ latency \in 0 .. MaxLatency
  /\ phase \in {"away", "switching", "committing", "running"}
  /\ at \in {"begin", "apply", "end"}
  /\ activation \in 0 .. MaxActivations
  /\ warmups \in 0 .. SwitchPeriods
  /\ steps \in 0 .. BlendPeriods
  /\ missed \in 0 .. latency + 2
  /\ counter_ \in 0 .. Decimation - 1
  /\ blend_pending_ \in BOOLEAN
  /\ blending_ \in BOOLEAN
  /\ elapsed \in 0 .. BlendPeriods
  /\ policy_target_ \in SUBSET Origins
  /\ progress \in 0 .. BlendPeriods
  /\ history \in [1 .. BufferSize -> Origins]
  /\ input_queue_ \in Seq(Origins)
  /\ busy \in BOOLEAN
  /\ request \in SUBSET Origins
  /\ age \in 0 .. latency
  /\ latest_target_ \in SUBSET Origins
  /\ drops \in 0 .. MaxDrops

\* Requests until the window is this activation's, and one more for each
\* that is dropped.  The first may find the network busy.
RequestsNeeded == MaxDrops + IF BufferSize = 1 THEN 2 ELSE BufferSize

\* The switching time has room for all of them but the last, which the first
\* Step can make; and the network answers between two requests.
SwitchingSuffices ==
  /\ SwitchPeriods >= Decimation * (RequestsNeeded - 1)
  /\ latency < Decimation

(* The joints never follow the past: although history, queue, target and a *)
(* request in flight survive from one activation to the next, no target    *)
(* that Step sets rests on an observation of an earlier activation, nor is *)
(* it the zeros the network was constructed with.                          *)
OwnTargets ==
  SwitchingSuffices /\ phase = "running" =>
    policy_target_ \subseteq {Zero, activation}

(* A network that answers between two requests is heard: Step asks before  *)
(* it looks, but is never without a result for longer than one answer      *)
(* takes.                                                                  *)
NeverUnheard ==
  latency + 2 <= Decimation => missed <= latency + 1

(* PolicyCtrAuto blends from the target it has found: however late its     *)
(* first result, the blend never gets ahead of the Step calls.  A gesture, *)
(* whose clock starts with Init, is ahead by the switching time and no more.*)
BlendsFromHeld ==
  phase = "running" /\ BlendPeriods > 0 =>
    progress <= steps + IF gesture THEN SwitchPeriods ELSE 0

=============================================================================
