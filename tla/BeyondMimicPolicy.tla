-------------------------- MODULE BeyondMimicPolicy --------------------------
(***************************************************************************)
(* The dance and get-up policy: its controller PolicyCtrBeyondMimic, which *)
(* the kernel thread calls, and its network BeyondMimicPolicy, whose worker*)
(* thread runs it.  Unlike the other policies it follows a reference       *)
(* trajectory: the control loop advances timestep_input_, of which the     *)
(* network's input tensor is a view, and resets it and latest_target_      *)
(* between two dances without looking at the flag inference_done_.         *)
(*                                                                         *)
(* A target is named by the dance whose request it answers and the frame   *)
(* of the trajectory it was computed for; last_action_ is written and      *)
(* reset together with latest_target_ and not shown.                       *)
(***************************************************************************)
EXTENDS Naturals

CONSTANTS
  TrajLength,     \* traj_length_: frames of the trajectory
  FinishMargin,   \* finish_margin_
  StartupOffset,  \* startup_timestep_offset_
  StartupFrames,  \* the frames "joint_nearest" chooses from; {} for "offset"
  Decimation,     \* decimation_: Step calls per request
  AutoStart,      \* auto_start_
  BlendTime,      \* startup_blend_time_ in Step calls, 0 for no blending
  MaxDances       \* bound on the times the policy is entered

ASSUME TrajectoryAssumption ==
  /\ TrajLength \in Nat \ {0}
  /\ FinishMargin \in Nat
  /\ StartupOffset \in 0 .. TrajLength - 1
  /\ StartupFrames \subseteq 0 .. TrajLength - 1
ASSUME ControllerAssumption ==
  /\ Decimation \in Nat \ {0}
  /\ AutoStart \in BOOLEAN
  /\ BlendTime \in Nat
  /\ MaxDances \in Nat

VARIABLES
  caller,             \* where the kernel thread is
  dance,              \* the times the policy has been entered
  ready_,             \* Init'ed and not yet stopped
  counter_,           \* counter_ modulo Decimation
  steps,              \* Step calls in this dance that do not blend, up to the longest one
  policy_started_,    \* the dance has been asked to begin
  startup_blending_,  \* the first frame is being blended in
  requested_,         \* startup_first_frame_requested_
  first_ready_,       \* startup_first_frame_ready_
  blend_end,          \* startup_blend_end_target_
  blend_elapsed,      \* now - startup_blend_start_time_, up to BlendTime
  lost,               \* history: the one request of the blend came to nothing
  dancing_started_,   \* the trajectory is being played
  timestep_input_,    \* the frame the network's tensor shows
  start_frame,        \* the frame this dance began with
  inference_done_,    \* the atomic flag: TRUE when no request is in flight
  request,            \* the dance of the last accepted request
  latest_target_,     \* what GetResult hands out
  worker,             \* where the worker thread is
  output              \* the target the network has just computed

blend == <<startup_blending_, requested_, first_ready_, blend_end, blend_elapsed, lost>>
controller == <<dance, ready_, counter_, steps, policy_started_>>
trajectory == <<dancing_started_, timestep_input_, start_frame>>
shared == <<inference_done_, request, latest_target_>>
network == <<worker, output>>

vars == <<caller, blend, controller, trajectory, shared, network>>

AtMost(n, bound) == IF n < bound THEN n ELSE bound

LongestDance == Decimation * TrajLength   \* in Step calls
Frames == 0 .. TrajLength - 1
Targets == [dance : 0 .. MaxDances, frame : Frames]
DefaultPosition == [dance |-> 0, frame |-> 0]

Init ==
  /\ caller = "idle"
  /\ dance = 0
  /\ ready_ = FALSE
  /\ counter_ = 0
  /\ steps = 0
  /\ policy_started_ = FALSE
  /\ startup_blending_ = FALSE
  /\ requested_ = FALSE
  /\ first_ready_ = FALSE
  /\ blend_end = DefaultPosition
  /\ blend_elapsed = 0
  /\ lost = FALSE
  /\ dancing_started_ = FALSE
  /\ timestep_input_ = 0
  /\ start_frame = StartupOffset
  /\ inference_done_ = TRUE
  /\ request = 0
  /\ latest_target_ = DefaultPosition
  /\ worker = "check"
  /\ output = DefaultPosition

-----------------------------------------------------------------------------
(* The kernel thread: Init and WarmUp when the policy takes over, Step in  *)
(* every period, Stop when another policy does.                            *)

\* ResetTrajectoryState and the first half of WarmUp, up to the frame.
ForgetTarget(frame) ==
  /\ timestep_input_' = frame
  /\ dancing_started_' = FALSE
  /\ latest_target_' = DefaultPosition
  /\ UNCHANGED <<start_frame, inference_done_, request>>

\* What Init and Stop of the controller have in common.
ResetController ==
  /\ policy_started_' = FALSE
  /\ startup_blending_' = FALSE
  /\ requested_' = FALSE
  /\ first_ready_' = FALSE
  /\ lost' = FALSE
  /\ UNCHANGED <<blend_end, blend_elapsed>>
  /\ ForgetTarget(StartupOffset)

\* PolicyCtrBeyondMimic::Init.
Enter ==
  /\ caller = "idle"
  /\ ~ready_
  /\ dance < MaxDances
  /\ dance' = dance + 1
  /\ ready_' = TRUE
  /\ counter_' = 0
  /\ steps' = 0
  /\ ResetController
  /\ caller' = "warmup"
  /\ UNCHANGED network

\* WarmUp of the controller calls WarmUp of the network, as counter_ is 0.
WarmUp ==
  /\ caller = "warmup"
  /\ counter_' = 1 % Decimation
  /\ ForgetTarget(0)
  /\ caller' = "admit"
  /\ UNCHANGED <<dance, ready_, steps, policy_started_, blend, network>>

\* Where WarmUp and InferUnsync return to.
Return == IF steps = 0 THEN "idle" ELSE "target"

AdmitAlways ==
  /\ caller = "admit"
  /\ caller' = "release"
  /\ UNCHANGED <<blend, controller, trajectory, shared, network>>

\* WarmUp and InferUnsync read the flag; a busy network drops the request.
Admit ==
  /\ caller = "admit"
  /\ caller' = IF inference_done_ THEN "release" ELSE Return
  /\ lost' = (lost \/ (startup_blending_ /\ ~inference_done_))
  /\ UNCHANGED <<startup_blending_, requested_, first_ready_, blend_end,
                 blend_elapsed, controller, trajectory, shared, network>>

\* The tensors are set and inference_done_ is stored false, which a worker at
\* the end of an idle turn is about to undo.
Release ==
  /\ caller = "release"
  /\ inference_done_' = FALSE
  /\ request' = dance
  /\ caller' = Return
  /\ lost' = (lost \/ (startup_blending_ /\ worker = "store"))
  /\ UNCHANGED <<startup_blending_, requested_, first_ready_, blend_end,
                 blend_elapsed, latest_target_, controller, trajectory, network>>

StepAsksOn(go) ==
  /\ caller = "idle"
  /\ ready_
  /\ steps' = IF startup_blending_ THEN steps ELSE AtMost(steps + 1, LongestDance)
  /\ counter_' = (counter_ + 1) % Decimation
  /\ policy_started_' = (policy_started_ \/ AutoStart \/ go)
  /\ startup_blending_' =
       IF policy_started_ THEN startup_blending_
       ELSE policy_started_' /\ BlendTime > 0
  /\ caller' = IF policy_started_' /\ counter_ = 0 THEN "advance" ELSE "target"
  /\ UNCHANGED <<dance, ready_, requested_, first_ready_, blend_end,
                 blend_elapsed, lost, trajectory, shared, network>>

\* Step up to its request: every Decimation-th call makes one, but while
\* the first frame is blended in only one is made.
Step(go) ==
  /\ caller = "idle"
  /\ ready_
  /\ steps' = IF startup_blending_ THEN steps ELSE AtMost(steps + 1, LongestDance)
  /\ counter_' = (counter_ + 1) % Decimation
  /\ \/ /\ counter_ # 0
        /\ caller' = "target"
        /\ UNCHANGED <<policy_started_, blend>>
     \/ /\ counter_ = 0
        /\ policy_started_' = (policy_started_ \/ AutoStart \/ go)
        /\ startup_blending_' =
             IF policy_started_ THEN startup_blending_
             ELSE policy_started_' /\ BlendTime > 0
        /\ requested_' = (requested_ \/ startup_blending_')
        /\ caller' = IF policy_started_' /\ (startup_blending_' => ~requested_)
                     THEN "advance" ELSE "target"
        /\ UNCHANGED <<first_ready_, blend_end, blend_elapsed, lost>>
  /\ UNCHANGED <<dance, ready_, trajectory, shared, network>>

AdvanceWraps ==
  /\ caller = "advance"
  /\ caller' = "admit"
  /\ dancing_started_' = TRUE
  /\ timestep_input_' = IF dancing_started_ THEN (timestep_input_ + 1) % TrajLength
                        ELSE StartupOffset
  /\ UNCHANGED <<start_frame, blend, controller, shared, network>>

AdvanceWhenFree ==
  /\ caller = "advance"
  /\ caller' = "admit"
  /\ dancing_started_' = TRUE
  /\ timestep_input_' = IF ~dancing_started_ THEN StartupOffset
                        ELSE IF inference_done_
                        THEN AtMost(timestep_input_ + 1, TrajLength - 1)
                        ELSE timestep_input_
  /\ start_frame' = IF dancing_started_ THEN start_frame ELSE StartupOffset
  /\ UNCHANGED <<blend, controller, shared, network>>

\* First half of InferUnsync: the frame is chosen or advanced before the
\* flag is looked at.
Advance ==
  /\ caller = "advance"
  /\ dancing_started_' = TRUE
  /\ \/ /\ dancing_started_
        /\ timestep_input_' = AtMost(timestep_input_ + 1, TrajLength - 1)
        /\ caller' = "admit"
        /\ UNCHANGED start_frame
     \/ /\ ~dancing_started_
        /\ \/ /\ StartupFrames # {} /\ inference_done_
              /\ caller' = "search"
              /\ UNCHANGED <<timestep_input_, start_frame>>
           \/ /\ StartupFrames = {} \/ ~inference_done_
              /\ timestep_input_' = StartupOffset
              /\ start_frame' = StartupOffset
              /\ caller' = "admit"
  /\ UNCHANGED <<blend, controller, shared, network>>

\* SelectStartupTimestep runs the network itself to find the nearest frame.
Search ==
  /\ caller = "search"
  /\ \E frame \in StartupFrames :
       timestep_input_' = frame /\ start_frame' = frame
  /\ caller' = "admit"
  /\ UNCHANGED <<dancing_started_, blend, controller, shared, network>>

\* Second half of Step, up to the flag that GetResult reads (twice: the
\* wait in between is the worker's).
Target ==
  /\ caller = "target"
  /\ \/ /\ ~policy_started_
        /\ caller' = "idle"
        /\ UNCHANGED blend
     \/ /\ policy_started_
        /\ startup_blending_ /\ first_ready_
        /\ blend_elapsed' \in blend_elapsed + 1 .. BlendTime
        /\ startup_blending_' = (blend_elapsed' < BlendTime)
        /\ caller' = "idle"
        /\ UNCHANGED <<requested_, first_ready_, blend_end, lost>>
     \/ /\ policy_started_
        /\ startup_blending_ => ~first_ready_
        /\ caller' = IF inference_done_ THEN "copy" ELSE "idle"
        /\ UNCHANGED blend
  /\ UNCHANGED <<controller, trajectory, shared, network>>

\* GetResult copies latest_target_; the first copy is what is blended to.
Copy ==
  /\ caller = "copy"
  /\ \/ /\ startup_blending_
        /\ blend_end' = latest_target_
        /\ blend_elapsed' = 0
        /\ first_ready_' = TRUE
        /\ UNCHANGED <<startup_blending_, requested_, lost>>
     \/ ~startup_blending_ /\ UNCHANGED blend
  /\ caller' = "idle"
  /\ UNCHANGED <<controller, trajectory, shared, network>>

Stop ==
  /\ caller = "idle"
  /\ ready_
  /\ ready_' = FALSE
  /\ ResetController
  /\ UNCHANGED <<caller, dance, counter_, steps, network>>

-----------------------------------------------------------------------------
(* WorkerThread: one turn of its loop is check, infer, publish, store.     *)

WorkerCheck ==
  /\ worker = "check"
  /\ worker' = IF inference_done_ THEN "store" ELSE "infer"
  /\ UNCHANGED <<caller, blend, controller, trajectory, shared, output>>

\* The network reads the frame where the control loop keeps it.
Infer ==
  /\ worker = "infer"
  /\ output' = [dance |-> request, frame |-> timestep_input_]
  /\ worker' = "publish"
  /\ UNCHANGED <<caller, blend, controller, trajectory, shared>>

Publish ==
  /\ worker = "publish"
  /\ latest_target_' = output
  /\ worker' = "store"
  /\ UNCHANGED <<caller, blend, controller, trajectory, inference_done_,
                 request, output>>

\* inference_done_.store(true), whether or not a request was run.
WorkerStore ==
  /\ worker = "store"
  /\ inference_done_' = TRUE
  /\ worker' = "check"
  /\ UNCHANGED <<caller, blend, controller, trajectory, request,
                 latest_target_, output>>

-----------------------------------------------------------------------------
Stepping ==
  \/ \E go \in BOOLEAN : Step(go)
  \/ WarmUp \/ Admit \/ Release \/ Advance \/ Search \/ Target \/ Copy

Worker == WorkerCheck \/ Infer \/ Publish \/ WorkerStore

Next == Enter \/ Stepping \/ Stop \/ Worker

Spec == Init /\ [][Next]_vars

\* The kernel steps the policy every period as long as it is the current
\* one, and the scheduler keeps running the worker.
FairSpec == Spec /\ WF_vars(Stepping) /\ WF_vars(Worker)

-----------------------------------------------------------------------------
(* Types of the variables. *)
TypeOK ==
  /\ caller \in {"idle", "warmup", "admit", "release", "advance", "search",
                 "target", "copy"}
  /\ dance \in 0 .. MaxDances
  /\ ready_ \in BOOLEAN
  /\ counter_ \in 0 .. Decimation - 1
  /\ steps \in 0 .. LongestDance
  /\ policy_started_ \in BOOLEAN
  /\ startup_blending_ \in BOOLEAN
  /\ requested_ \in BOOLEAN
  /\ first_ready_ \in BOOLEAN
  /\ blend_end \in Targets
  /\ blend_elapsed \in 0 .. BlendTime
  /\ lost \in BOOLEAN
  /\ dancing_started_ \in BOOLEAN
  /\ timestep_input_ \in Frames
  /\ start_frame \in Frames
  /\ inference_done_ \in BOOLEAN
  /\ request \in 0 .. MaxDances
  /\ latest_target_ \in Targets
  /\ worker \in {"check", "infer", "publish", "store"}
  /\ output \in Targets

(* The flag keeps the two threads out of each other's way where they use   *)
(* the network: while the control loop searches it for a starting frame,   *)
(* sets its tensors or copies the target, the worker neither runs it nor   *)
(* writes the target.                                                      *)
RequestIsExclusive ==
  caller \in {"search", "release", "copy"} => worker \notin {"infer", "publish"}

(* A request of the past never answers out of turn: although the worker    *)
(* reads the frame while the control loop advances it, and a reset can     *)
(* overtake a running request, the targets handed out never go back in the *)
(* trajectory, nor to an earlier dance.                                    *)
TargetsInOrder ==
  [][latest_target_' = DefaultPosition
     \/ latest_target_'.dance > latest_target_.dance
     \/ /\ latest_target_'.dance = latest_target_.dance
        /\ latest_target_'.frame >= latest_target_.frame]_vars

FinishedLate ==
  /\ TrajLength > FinishMargin + 1
  /\ dancing_started_
  /\ timestep_input_ >= TrajLength - 1 + FinishMargin

\* IsTrajectoryFinished.
Finished ==
  /\ TrajLength > FinishMargin + 1
  /\ dancing_started_
  /\ timestep_input_ >= TrajLength - 1 - FinishMargin

\* Step calls until Finished.
Duration ==
  LET frames == IF start_frame + FinishMargin + 1 < TrajLength
                THEN TrajLength - FinishMargin - start_frame ELSE 1
  IN  Decimation * frames

(* A dance that starts by itself takes as many Step calls, its blend       *)
(* aside, as its frames ask for, however slow the network is: the dropped  *)
(* requests of a busy network do not hold the trajectory up.  A blend ends *)
(* in any phase of the decimation, which may shorten the first frame.      *)
FinishedOnTime ==
  (AutoStart /\ TrajLength > FinishMargin + 1 /\ ready_ /\ caller = "idle") =>
    /\ steps >= Duration => Finished
    /\ Finished => steps >= Duration - IF BlendTime = 0 THEN 0 ELSE Decimation - 1

(* A dance that has begun finishes or is stopped.                          *)
DanceFinishes == policy_started_ ~> (Finished \/ ~policy_started_)

(* The blend joins the frame the dance starts with, as the comment over    *)
(* its one request says (policy_ctr_beyond_mimic.hpp:173-174), unless that *)
(* request is lost: refused by a network still busy with the one of WarmUp *)
(* or of the last dance, or undone by a worker at the end of an idle turn. *)
(* The comment knows no such exception.  The joints are then blended to a  *)
(* target of an earlier dance, to the default position, or to frame 0, but *)
(* not to a frame of this dance still to come.                             *)
JoinsFirstFrame ==
  first_ready_ =>
    \/ blend_end = [dance |-> dance, frame |-> start_frame]
    \/ lost /\ (blend_end.dance = dance => blend_end.frame = 0)

=============================================================================
