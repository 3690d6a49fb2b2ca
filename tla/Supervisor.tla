----------------------------- MODULE Supervisor -----------------------------
(***************************************************************************)
(* The supervisor of the robot: the state machine that MakeBitbotEverywhere*)
(* registers (user_func.hpp), run by the control loop of the Bitbot kernel *)
(* (efc_kernel.hpp, kernel.hpp).  Every period the kernel drains the event *)
(* queues, then calls the function of the current state, then moves the    *)
(* bus and sleeps.  ROS and DDS callbacks put events into the queues from  *)
(* their own threads at any time.                                          *)
(*                                                                         *)
(* A policy controller is what the supervisor sees of it: is it ready      *)
(* (Init'ed and not yet Stop'ped), has its history been warmed up, and, of *)
(* BeyondMimic, how far its trajectory has played.                         *)
(***************************************************************************)
EXTENDS Naturals, Sequences

CONSTANTS
  Policies, Standing, BeyondMimic, None, Halted,
  Velocities,     \* the commanded velocities other than Zero
  Zero,
  SwitchTime,     \* switching_time, in units of time
  ConfirmCycles,  \* fall_recovery.confirm_cycles
  Cooldown,       \* fall_recovery.cooldown_s, in units of time
  FallRecovery,   \* fall_recovery.enable
  DanceSteps,     \* Step calls that play the BeyondMimic trajectory
  MaxDelay,       \* bound: the longest loop period, in units of time
  MaxArrivals     \* bound: messages that arrive within one loop period

ASSUME PoliciesAssumption ==
  /\ Standing \in Policies
  /\ BeyondMimic \in Policies
  /\ Standing # BeyondMimic
  /\ None \notin Policies
  /\ Halted \notin Policies
  /\ None # Halted
ASSUME CommandAssumption == Zero \notin Velocities /\ None \notin Velocities
ASSUME TimeAssumption ==
  /\ SwitchTime \in Nat \ {0}
  /\ ConfirmCycles \in Nat \ {0}
  /\ Cooldown \in Nat
  /\ FallRecovery \in BOOLEAN
  /\ DanceSteps \in Nat \ {0}
  /\ MaxDelay \in Nat \ {0}
  /\ MaxArrivals \in Nat

VARIABLES
  pc,              \* where the kernel thread is
  current_state_,  \* the state of the kernel's state machine
  stop_flag,       \* ends the loop
  backend_queue,   \* events from the DDS hand operator, in order
  ros_queue,       \* events from the ROS bridge, in order
  kernel_queue,    \* events the state functions emit, in order
  current,         \* current_policy_controller_
  target,          \* target_policy_controller_
  ready,           \* ready_ of each policy controller
  warm,            \* was it warmed up since it was last stopped?
  bm_steps,        \* Step calls BeyondMimic has made of its trajectory
  init_ready,      \* ready_ of the init pose controller
  switching_flag_, \* the switching period is being timed
  switch_elapsed,  \* now - switching_start_time_, up to SwitchTime
  tilted,          \* does the last IMU reading exceed the roll/pitch limits?
  tilt_counter,    \* fall_recovery_tilt_counter_, up to ConfirmCycles
  since_trigger,   \* now - fall_recovery_last_trigger_, up to Cooldown
  command_,        \* the commanded velocity
  twist,           \* a DDS velocity past its gate and not yet queued
  arrivals         \* messages that arrived in this period

queues == <<backend_queue, ros_queue, kernel_queue>>
controllers == <<current, target, ready, warm, bm_steps, init_ready>>
timers == <<switch_elapsed, tilted, tilt_counter, since_trigger>>
environment == <<twist, arrivals>>
machine == <<current_state_, stop_flag, switching_flag_, command_>>

vars == <<pc, queues, controllers, timers, environment, machine>>

States == {"Waiting", "InitPose", "PolicyRunning", "PolicySwitching", "STOPPED"}

\* What /robot_action and the DDS action topic can ask for (s_key_2_evts).
ActionEvents ==
  [id : {"STOP", "InitPose", "RunPolicy", "EnableBeyondMimicPolicy"}]
    \cup [id : {"EnablePolicy"}, policy : Policies \ {BeyondMimic}]
VelocityEvents == [id : {"SetVelAll"}, vel : Velocities]
ExternalEvents == ActionEvents \cup VelocityEvents

SwitchEvent == [id |-> "PolicySwitch"]
StandEvent == [id |-> "EnablePolicy", policy |-> Standing]
KernelEvents == {SwitchEvent, StandEvent}
STOP == [id |-> "STOP"]

Init ==
  /\ pc = "wait"
  /\ current_state_ = "Waiting"
  /\ stop_flag = FALSE
  /\ backend_queue = <<>>
  /\ ros_queue = <<>>
  /\ kernel_queue = <<>>
  /\ current = Standing
  /\ target = Standing
  /\ ready = [p \in Policies |-> FALSE]
  /\ warm = [p \in Policies |-> FALSE]
  /\ bm_steps = 0
  /\ init_ready = FALSE
  /\ switching_flag_ = FALSE
  /\ switch_elapsed = 0
  /\ tilted = FALSE
  /\ tilt_counter = 0
  /\ since_trigger = Cooldown
  /\ command_ = Zero
  /\ twist = None
  /\ arrivals = 0

-----------------------------------------------------------------------------
(* The handlers of the events, each ending with the state it returns.      *)

OnStopNoFlag ==
  /\ current_state_' = "STOPPED"
  /\ UNCHANGED <<stop_flag, controllers, switching_flag_, command_>>

OnStop ==
  /\ stop_flag' = TRUE
  /\ current_state_' = "STOPPED"
  /\ UNCHANGED <<controllers, switching_flag_, command_>>

OnInitPose ==
  /\ init_ready' = TRUE
  /\ current_state_' = "InitPose"
  /\ UNCHANGED <<stop_flag, current, target, ready, warm, bm_steps,
                 switching_flag_, command_>>

OnRunPolicy ==
  /\ current' = Standing
  /\ ready' = [ready EXCEPT ![Standing] = TRUE]
  /\ current_state_' = "PolicyRunning"
  /\ UNCHANGED <<stop_flag, target, warm, bm_steps, init_ready,
                 switching_flag_, command_>>

OnEnablePolicyNoInit(p) ==
  /\ target' = p
  /\ current_state_' = IF current = p THEN "PolicyRunning" ELSE "PolicySwitching"
  /\ UNCHANGED <<stop_flag, current, ready, warm, bm_steps, init_ready,
                 switching_flag_, command_>>

\* The handlers of the six ordinary policies differ in the policy only.
OnEnablePolicy(p) ==
  \/ /\ current = p
     /\ current_state_' = "PolicyRunning"
     /\ UNCHANGED <<stop_flag, controllers, switching_flag_, command_>>
  \/ /\ current # p
     /\ target' = p
     /\ ready' = [ready EXCEPT ![p] = TRUE]
     /\ current_state_' = "PolicySwitching"
     /\ UNCHANGED <<stop_flag, current, warm, bm_steps, init_ready,
                    switching_flag_, command_>>

AlreadyBeyondMimic ==
  /\ current = BeyondMimic
  /\ UNCHANGED <<current, ready, warm, bm_steps, init_ready, command_>>

\* command_.setZero, Stop of the old controllers, Init and WarmUp of the new.
BecomeBeyondMimic ==
  /\ current # BeyondMimic
  /\ command_' = Zero
  /\ init_ready' = FALSE
  /\ ready' = [ready EXCEPT ![current] = FALSE, ![BeyondMimic] = TRUE]
  /\ warm' = [warm EXCEPT ![current] = FALSE, ![BeyondMimic] = TRUE]
  /\ current' = BeyondMimic
  /\ bm_steps' = 0

RecoveryKeepsTarget ==
  /\ AlreadyBeyondMimic \/ BecomeBeyondMimic
  /\ switching_flag_' = FALSE
  /\ UNCHANGED target

RecoveryKeepsTimer ==
  /\ AlreadyBeyondMimic \/ BecomeBeyondMimic
  /\ target' = BeyondMimic
  /\ UNCHANGED switching_flag_

\* Called by the event and by the fall check.
EnableBeyondMimicRecovery ==
  /\ AlreadyBeyondMimic \/ BecomeBeyondMimic
  /\ target' = BeyondMimic
  /\ switching_flag_' = FALSE

OnEnableBeyondMimic ==
  /\ EnableBeyondMimicRecovery
  /\ current_state_' = "PolicyRunning"
  /\ UNCHANGED stop_flag

OnPolicySwitchNoStop ==
  /\ current' = target
  /\ current_state_' = "PolicyRunning"
  /\ UNCHANGED <<stop_flag, target, ready, warm, bm_steps, init_ready,
                 switching_flag_, command_>>

OnPolicySwitch ==
  /\ ready' = [ready EXCEPT ![current] = FALSE]
  /\ warm' = [warm EXCEPT ![current] = FALSE]
  /\ bm_steps' = IF current = BeyondMimic THEN 0 ELSE bm_steps
  /\ current' = target
  /\ current_state_' = "PolicyRunning"
  /\ UNCHANGED <<stop_flag, target, init_ready, switching_flag_, command_>>

OnSetVelAll(v) ==
  /\ command_' = v
  /\ UNCHANGED <<current_state_, stop_flag, controllers, switching_flag_>>

AccessibleAfterStop(id) ==
  \/ id = "STOP"
  \/ current_state_ = "Waiting" /\ id \in {"InitPose", "EnableBeyondMimicPolicy"}
  \/ current_state_ = "InitPose" /\ id \in {"RunPolicy", "EnableBeyondMimicPolicy"}
  \/ /\ current_state_ = "PolicyRunning"
     /\ id \in {"EnablePolicy", "EnableBeyondMimicPolicy", "SetVelAll"}
  \/ current_state_ = "PolicySwitching" /\ id \in {"PolicySwitch", "EnableBeyondMimicPolicy"}
  \/ current_state_ = "STOPPED" /\ id \in {"EnableBeyondMimicPolicy"}

AccessibleInSwitching(id) ==
  \/ id = "STOP"
  \/ current_state_ = "Waiting" /\ id \in {"InitPose", "EnableBeyondMimicPolicy"}
  \/ current_state_ = "InitPose" /\ id \in {"RunPolicy", "EnableBeyondMimicPolicy"}
  \/ /\ current_state_ \in {"PolicyRunning", "PolicySwitching"}
     /\ id \in {"EnablePolicy", "EnableBeyondMimicPolicy", "SetVelAll"}
  \/ current_state_ = "PolicySwitching" /\ id = "PolicySwitch"

\* The events each state is registered with; STOP is enabled in every state.
Accessible(id) ==
  \/ id = "STOP"
  \/ current_state_ = "Waiting" /\ id \in {"InitPose", "EnableBeyondMimicPolicy"}
  \/ current_state_ = "InitPose" /\ id \in {"RunPolicy", "EnableBeyondMimicPolicy"}
  \/ /\ current_state_ = "PolicyRunning"
     /\ id \in {"EnablePolicy", "EnableBeyondMimicPolicy", "SetVelAll"}
  \/ current_state_ = "PolicySwitching" /\ id \in {"PolicySwitch", "EnableBeyondMimicPolicy"}

\* HandleEvent: an event the current state does not know is dropped.
HandleEvent(e) ==
  \/ ~Accessible(e.id) /\ UNCHANGED <<machine, controllers>>
  \/ /\ Accessible(e.id)
     /\ \/ e.id = "STOP" /\ OnStop
        \/ e.id = "InitPose" /\ OnInitPose
        \/ e.id = "RunPolicy" /\ OnRunPolicy
        \/ e.id = "EnablePolicy" /\ OnEnablePolicy(e.policy)
        \/ e.id = "EnableBeyondMimicPolicy" /\ OnEnableBeyondMimic
        \/ e.id = "PolicySwitch" /\ OnPolicySwitch
        \/ e.id = "SetVelAll" /\ OnSetVelAll(e.vel)

-----------------------------------------------------------------------------
(* The kernel thread: one period is backend, events, loop, (step,) end.    *)

\* doRun: the loop begins when the first robot data has arrived.
Ready ==
  /\ pc = "wait"
  /\ pc' = "backend"
  /\ UNCHANGED <<queues, controllers, timers, environment, machine>>

TakeBackend ==
  /\ pc = "backend"
  /\ backend_queue # <<>>
  /\ HandleEvent(Head(backend_queue))
  /\ backend_queue' = Tail(backend_queue)
  /\ UNCHANGED <<pc, ros_queue, kernel_queue, timers, environment>>

BackendDrained ==
  /\ pc = "backend"
  /\ backend_queue = <<>>
  /\ pc' = "events"
  /\ UNCHANGED <<queues, controllers, timers, environment, machine>>

\* events_queue is FIFO for each producer and unordered between them.
TakeRosEvent ==
  /\ pc = "events"
  /\ ros_queue # <<>>
  /\ HandleEvent(Head(ros_queue))
  /\ ros_queue' = Tail(ros_queue)
  /\ UNCHANGED <<pc, backend_queue, kernel_queue, timers, environment>>

TakeKernelEvent ==
  /\ pc = "events"
  /\ kernel_queue # <<>>
  /\ HandleEvent(Head(kernel_queue))
  /\ kernel_queue' = Tail(kernel_queue)
  /\ UNCHANGED <<pc, backend_queue, ros_queue, timers, environment>>

EventsTakenOnce ==
  /\ pc = "events"
  /\ ros_queue = <<>>
  /\ pc' = "loop"
  /\ UNCHANGED <<queues, controllers, timers, environment, machine>>

EventsDrained ==
  /\ pc = "events"
  /\ ros_queue = <<>>
  /\ kernel_queue = <<>>
  /\ pc' = "loop"
  /\ UNCHANGED <<queues, controllers, timers, environment, machine>>

\* The functions of "waiting" and of "kernel_stopped" change nothing here.
LoopIdle ==
  /\ pc = "loop"
  /\ current_state_ \in {"Waiting", "STOPPED"}
  /\ pc' = "end"
  /\ UNCHANGED <<queues, controllers, timers, environment, machine>>

LoopInitPose ==
  /\ pc = "loop"
  /\ current_state_ = "InitPose"
  /\ warm' = [warm EXCEPT ![target] = TRUE]
  /\ pc' = "end"
  /\ UNCHANGED <<queues, current, target, ready, bm_steps, init_ready,
                 timers, environment, machine>>

AtMost(n, bound) == IF n < bound THEN n ELSE bound

\* ShouldEnterFallRecovery past its early returns: confirmed and cooled down.
RecoveryDue ==
  /\ tilt_counter + 1 >= ConfirmCycles
  /\ since_trigger >= Cooldown

FallCheckEagerStamp ==
  /\ pc = "loop"
  /\ current_state_ = "PolicyRunning"
  /\ tilted' \in BOOLEAN
  /\ pc' = "step"
  /\ \/ /\ ~FallRecovery \/ current = BeyondMimic \/ ~tilted'
        /\ tilt_counter' = 0
        /\ UNCHANGED <<since_trigger, controllers, switching_flag_, command_>>
     \/ /\ FallRecovery /\ current # BeyondMimic /\ tilted'
        /\ since_trigger' = 0
        /\ \/ /\ RecoveryDue
              /\ tilt_counter' = 0
              /\ EnableBeyondMimicRecovery
           \/ /\ ~RecoveryDue
              /\ tilt_counter' = AtMost(tilt_counter + 1, ConfirmCycles)
              /\ UNCHANGED <<controllers, switching_flag_, command_>>
  /\ UNCHANGED <<queues, environment, current_state_, stop_flag, switch_elapsed>>

\* "policy_running", first half: the IMU is read and a fall is looked for.
FallCheck ==
  /\ pc = "loop"
  /\ current_state_ = "PolicyRunning"
  /\ tilted' \in BOOLEAN
  /\ pc' = "step"
  /\ \/ /\ ~FallRecovery \/ current = BeyondMimic \/ ~tilted'
        /\ tilt_counter' = 0
        /\ UNCHANGED <<since_trigger, controllers, switching_flag_, command_>>
     \/ /\ FallRecovery /\ current # BeyondMimic /\ tilted'
        /\ \/ /\ RecoveryDue
              /\ since_trigger' = 0
              /\ tilt_counter' = 0
              /\ EnableBeyondMimicRecovery
           \/ /\ ~RecoveryDue
              /\ tilt_counter' = AtMost(tilt_counter + 1, ConfirmCycles)
              /\ UNCHANGED <<since_trigger, controllers, switching_flag_, command_>>
  /\ UNCHANGED <<queues, environment, current_state_, stop_flag, switch_elapsed>>

\* bm_steps after the current policy's Step, which a policy that is not
\* ready refuses.
Stepped ==
  IF current = BeyondMimic /\ ready[BeyondMimic]
  THEN AtMost(bm_steps + 1, DanceSteps) ELSE bm_steps

StepRunningNoEvent ==
  /\ pc = "step"
  /\ bm_steps' = Stepped
  /\ command_' = IF current = BeyondMimic /\ bm_steps' = DanceSteps
                 THEN Zero ELSE command_
  /\ pc' = "end"
  /\ UNCHANGED <<queues, current, target, ready, warm, init_ready, timers,
                 environment, current_state_, stop_flag, switching_flag_>>

\* Second half: the current policy steps; at the end of the trajectory of
\* BeyondMimic, standing is asked for.
StepRunning ==
  /\ pc = "step"
  /\ bm_steps' = Stepped
  /\ \/ /\ current = BeyondMimic
        /\ bm_steps' = DanceSteps
        /\ command_' = Zero
        /\ kernel_queue' = Append(kernel_queue, StandEvent)
     \/ /\ current # BeyondMimic \/ bm_steps' < DanceSteps
        /\ UNCHANGED <<command_, kernel_queue>>
  /\ pc' = "end"
  /\ UNCHANGED <<backend_queue, ros_queue, current, target, ready, warm,
                 init_ready, timers, environment, current_state_, stop_flag,
                 switching_flag_>>

LoopSwitchingNoEvent ==
  /\ pc = "loop"
  /\ current_state_ = "PolicySwitching"
  /\ switching_flag_' = TRUE
  /\ switch_elapsed' = IF switching_flag_ THEN switch_elapsed ELSE 0
  /\ bm_steps' = Stepped
  /\ warm' = [warm EXCEPT ![target] = TRUE]
  /\ pc' = "end"
  /\ UNCHANGED <<queues, current, target, ready, init_ready,
                 tilted, tilt_counter, since_trigger, environment,
                 current_state_, stop_flag, command_>>

\* "policy_switching": for SwitchTime the old policy drives while the new
\* one warms up; then the switch is asked for.
LoopSwitching ==
  /\ pc = "loop"
  /\ current_state_ = "PolicySwitching"
  /\ \/ /\ ~switching_flag_ \/ switch_elapsed < SwitchTime
        /\ switching_flag_' = TRUE
        /\ switch_elapsed' = IF switching_flag_ THEN switch_elapsed ELSE 0
        /\ bm_steps' = Stepped
        /\ warm' = [warm EXCEPT ![target] = TRUE]
        /\ UNCHANGED kernel_queue
     \/ /\ switching_flag_ /\ switch_elapsed >= SwitchTime
        /\ switching_flag_' = FALSE
        /\ kernel_queue' = Append(kernel_queue, SwitchEvent)
        /\ UNCHANGED <<switch_elapsed, bm_steps, warm>>
  /\ pc' = "end"
  /\ UNCHANGED <<backend_queue, ros_queue, current, target, ready, init_ready,
                 tilted, tilt_counter, since_trigger, environment,
                 current_state_, stop_flag, command_>>

\* KernelPrivateLoopEndTask and the sleep: time passes, and the loop's
\* condition is tested again.
EndLoop ==
  /\ pc = "end"
  /\ \E d \in 1 .. MaxDelay :
       /\ switch_elapsed' = IF switching_flag_
                            THEN AtMost(switch_elapsed + d, SwitchTime) ELSE 0
       /\ since_trigger' = AtMost(since_trigger + d, Cooldown)
  /\ arrivals' = 0
  /\ pc' = IF stop_flag THEN "shutdown" ELSE "backend"
  /\ UNCHANGED <<queues, controllers, tilted, tilt_counter, twist, machine>>

\* The zero command is published and doRun returns.
ShutDown ==
  /\ pc = "shutdown"
  /\ pc' = "done"
  /\ UNCHANGED <<queues, controllers, timers, environment, machine>>

-----------------------------------------------------------------------------
(* The callback threads.                                                   *)

Arrives ==
  /\ pc # "done"
  /\ arrivals < MaxArrivals
  /\ arrivals' = arrivals + 1

\* CmdVelCallback and RobotActionCallback of the ROS bridge; an unknown
\* action is refused there and not shown.
RosMessage(e) ==
  /\ Arrives
  /\ ros_queue' = Append(ros_queue, e)
  /\ UNCHANGED <<pc, backend_queue, kernel_queue, controllers, timers, twist,
                 machine>>

\* ActCmdHandler::handle; an unknown action arrives as a STOP.
HandopAction(e) ==
  /\ Arrives
  /\ backend_queue' = Append(backend_queue, e)
  /\ UNCHANGED <<pc, ros_queue, kernel_queue, controllers, timers, twist,
                 machine>>

\* TwistHandler::handle looks at the kernel's state (can_do), and only then
\* queues the velocity.
HandopTwist(v) ==
  /\ Arrives
  /\ twist = None
  /\ current_state_ = "PolicyRunning"
  /\ twist' = v
  /\ UNCHANGED <<pc, queues, controllers, timers, machine>>

QueueTwist ==
  /\ pc # "done"
  /\ twist # None
  /\ backend_queue' = Append(backend_queue, [id |-> "SetVelAll", vel |-> twist])
  /\ twist' = None
  /\ UNCHANGED <<pc, ros_queue, kernel_queue, controllers, timers, arrivals,
                 machine>>

-----------------------------------------------------------------------------
Loop == LoopIdle \/ LoopInitPose \/ FallCheck \/ StepRunning \/ LoopSwitching

Kernel ==
  \/ TakeBackend \/ BackendDrained
  \/ TakeRosEvent \/ TakeKernelEvent \/ EventsDrained
  \/ Loop \/ EndLoop \/ ShutDown

Callbacks ==
  \/ \E e \in ExternalEvents : RosMessage(e)
  \/ \E e \in ActionEvents : HandopAction(e)
  \/ \E v \in Velocities : HandopTwist(v)
  \/ QueueTwist

Next == Ready \/ Kernel \/ Callbacks

Spec == Init /\ [][Next]_vars

\* The kernel thread keeps running once the robot data has arrived; nobody
\* is obliged to send anything.
FairSpec == Spec /\ WF_vars(Kernel)

-----------------------------------------------------------------------------
(* Types of the variables. *)
TypeOK ==
  /\ pc \in {"wait", "backend", "events", "loop", "step", "end", "shutdown", "done"}
  /\ current_state_ \in States
  /\ stop_flag \in BOOLEAN
  /\ backend_queue \in Seq(ExternalEvents)
  /\ ros_queue \in Seq(ExternalEvents)
  /\ kernel_queue \in Seq(KernelEvents)
  /\ current \in Policies
  /\ target \in Policies
  /\ ready \in [Policies -> BOOLEAN]
  /\ warm \in [Policies -> BOOLEAN]
  /\ bm_steps \in 0 .. DanceSteps
  /\ init_ready \in BOOLEAN
  /\ switching_flag_ \in BOOLEAN
  /\ switch_elapsed \in 0 .. SwitchTime
  /\ tilted \in BOOLEAN
  /\ tilt_counter \in 0 .. ConfirmCycles
  /\ since_trigger \in 0 .. Cooldown
  /\ command_ \in Velocities \cup {Zero}
  /\ twist \in Velocities \cup {None}
  /\ arrivals \in 0 .. MaxArrivals

Running == current_state_ = "PolicyRunning"
Switching == current_state_ = "PolicySwitching"
Stopped == current_state_ = "STOPPED"

(* The two controller pointers agree with the state: they differ exactly   *)
(* during a switch, and nobody switches to BeyondMimic.                    *)
TargetTracksState ==
  /\ current_state_ \in {"Waiting", "InitPose"} =>
       current = Standing /\ target = Standing
  /\ Running => target = current
  /\ Switching => target # current /\ target # BeyondMimic

(* A controller whose Step or WarmUp the state function calls was Init'ed  *)
(* and not stopped since: Step never returns "not ready" and leaves the    *)
(* joints without a new target.                                            *)
SteppedIsReady ==
  /\ current_state_ = "InitPose" => init_ready
  /\ Running => ready[current]
  /\ Switching => ready[current] /\ ready[target]

(* The switching period of a new switch is timed from its own beginning:   *)
(* when the state function finds the flag set, the timer is that of the    *)
(* switch in progress, never one an interrupted switch left behind.        *)
TimerIsFresh ==
  switching_flag_ =>
    /\ current_state_ \in {"PolicySwitching", "STOPPED"}
    /\ SwitchEvent \notin {kernel_queue[i] : i \in 1 .. Len(kernel_queue)}

(* The events the state functions emit cannot pile up: one at most waits,  *)
(* and the next state function runs only when it has been handled.         *)
SelfEventsDrained ==
  /\ Len(kernel_queue) <= 1
  /\ pc \in {"wait", "loop", "step"} => kernel_queue = <<>>

(* STOP is final: no event left in the queues revives the robot.           *)
StopIsFinal == [][Stopped => Stopped' /\ UNCHANGED <<command_, controllers>>]_vars

(* A controller that loses the joints is stopped in the same step, however *)
(* it loses them: to its announced successor or to BeyondMimic.            *)
OutgoingStopped == [][current' # current => ~ready'[current]]_vars

(* While a switch is in progress the commanded velocity is frozen, even if *)
(* a DDS velocity has passed its gate before: it can only be zeroed.       *)
VelocityOnlyWhileRunning ==
  [][command_' \notin {command_, Zero} => Running]_vars

(* The supervisor implements PolicyHandover.                               *)
Handover == INSTANCE PolicyHandover WITH
  owner   <- IF Stopped THEN Halted
             ELSE IF Running \/ Switching THEN current ELSE None,
  pending <- IF Switching THEN target ELSE None
HandoverSpec == Handover!HandoverSpec

-----------------------------------------------------------------------------
(* A switch that has begun ends: the new policy takes over, or BeyondMimic *)
(* does, or the robot is stopped.                                          *)
SwitchCompletes ==
  \A p \in Policies :
    (Switching /\ target = p) ~>
      (current = p \/ (Running /\ current = BeyondMimic) \/ Stopped)

Queued(E) ==
  \/ \E i \in 1 .. Len(backend_queue) : backend_queue[i] \in E
  \/ \E i \in 1 .. Len(ros_queue) : ros_queue[i] \in E

(* A STOP that has been queued ends the program, whatever else is queued   *)
(* before or after it.                                                     *)
StopHonoured == (pc # "wait" /\ Queued({STOP})) ~> (pc = "done")

(* The dance ends: BeyondMimic gives the joints back when nobody asks for  *)
(* it again and the robot does not fall.                                   *)
DanceEnds ==
  <>[](~tilted /\ ~Queued([id : {"EnableBeyondMimicPolicy"}]))
    => []<>(current # BeyondMimic \/ Stopped)

(* A fall is answered: as long as the robot lies tilted and policies keep  *)
(* running, BeyondMimic is given the joints again and again.               *)
FallIsAnswered ==
  FallRecovery /\ <>[]tilted /\ []<>(pc = "step")
    => []<>(current = BeyondMimic \/ Stopped)

-----------------------------------------------------------------------------
(* What controller_base.hpp says of every controller: WarmUp, then Step.   *)
WarmedBeforeStep(p) == pc = "step" /\ current = p => warm[p]

\* The first policy is warmed up before its first step.
FirstPolicyIsWarm == WarmedBeforeStep(Standing)

\* And so is a policy that is switched to.
SuccessorIsWarm ==
  \A p \in Policies \ {Standing, BeyondMimic} : WarmedBeforeStep(p)

\* BeyondMimic is never cold, though it takes over at once and in any state but
\* STOPPED: neither a dance nor a recovery starts on what the last one has left.
RecoveryIsWarm == WarmedBeforeStep(BeyondMimic)

=============================================================================
