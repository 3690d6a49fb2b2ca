-------------------------- MODULE SupervisorProofs --------------------------
(***************************************************************************)
(* Proofs about Supervisor for every set of policies, every timing and any *)
(* number of messages: the controller pointers follow the state machine,   *)
(* whatever steps is ready, STOP is final, and the supervisor implements   *)
(* PolicyHandover.                                                         *)
(***************************************************************************)
EXTENDS Supervisor, SequenceTheorems, TLAPS

\* The conjuncts of TypeOK on what the handlers of the events change.
MachineTypes ==
  /\ current_state_ \in States
  /\ stop_flag \in BOOLEAN
  /\ current \in Policies
  /\ target \in Policies
  /\ ready \in [Policies -> BOOLEAN]
  /\ warm \in [Policies -> BOOLEAN]
  /\ bm_steps \in 0 .. DanceSteps
  /\ init_ready \in BOOLEAN
  /\ switching_flag_ \in BOOLEAN
  /\ command_ \in Velocities \cup {Zero}

\* The part of TimerIsFresh that the handlers can disturb.
FlagTracksState ==
  switching_flag_ => current_state_ \in {"PolicySwitching", "STOPPED"}

\* What the handlers of the events maintain.
MachineInv ==
  /\ MachineTypes
  /\ TargetTracksState
  /\ SteppedIsReady
  /\ FlagTracksState

\* The second half of "policy_running" runs in that state.
StepIsRunning == pc = "step" => Running

IInv ==
  /\ TypeOK
  /\ TargetTracksState
  /\ SteppedIsReady
  /\ TimerIsFresh
  /\ SelfEventsDrained
  /\ StepIsRunning

-----------------------------------------------------------------------------
(* The handlers.                                                           *)

(* An event that carries a policy or a velocity carries a proper one, and  *)
(* only the supervisor itself asks for PolicySwitch.                       *)
LEMMA EventShape ==
  ASSUME NEW e \in ExternalEvents \cup KernelEvents
  PROVE  /\ e.id = "EnablePolicy" => e.policy \in Policies \ {BeyondMimic}
         /\ e.id = "SetVelAll" => e.vel \in Velocities
         /\ e \in ExternalEvents => e.id # "PolicySwitch"
         /\ e.id = "PolicySwitch" => e = SwitchEvent
<1>1. CASE e \in [id : {"STOP", "InitPose", "RunPolicy", "EnableBeyondMimicPolicy"}]
  BY <1>1
<1>2. CASE e \in [id : {"EnablePolicy"}, policy : Policies \ {BeyondMimic}]
  BY <1>2
<1>3. CASE e \in VelocityEvents
  BY <1>3 DEF VelocityEvents
<1>4. CASE e \in KernelEvents /\ e \notin ExternalEvents
  BY <1>4, PoliciesAssumption DEF KernelEvents, SwitchEvent, StandEvent
<1>5. QED
  BY <1>1, <1>2, <1>3, <1>4 DEF ExternalEvents, ActionEvents

(* Entering BeyondMimic, by event or after a fall, keeps the handlers'     *)
(* invariant when a policy runs or is about to.                            *)
LEMMA RecoveryKeepsMachine ==
  ASSUME MachineInv, EnableBeyondMimicRecovery,
         current_state_' = "PolicyRunning", ~Stopped,
         stop_flag' = stop_flag
  PROVE  MachineInv'
<1> USE PoliciesAssumption, TimeAssumption
    DEF MachineInv, EnableBeyondMimicRecovery
<1>1. CASE AlreadyBeyondMimic
  <2>1. ready[current]
    BY <1>1 DEF AlreadyBeyondMimic, MachineTypes, States, TargetTracksState,
      SteppedIsReady, Running, Switching, Stopped
  <2>2. MachineTypes'
    BY <1>1 DEF AlreadyBeyondMimic, MachineTypes, States
  <2>3. QED
    BY <1>1, <2>1, <2>2 DEF AlreadyBeyondMimic, TargetTracksState,
      SteppedIsReady, FlagTracksState, Running, Switching
<1>2. CASE BecomeBeyondMimic
  <2>1. MachineTypes'
    <3>1. ready' \in [Policies -> BOOLEAN]
      BY <1>2 DEF BecomeBeyondMimic, MachineTypes
    <3>2. warm' \in [Policies -> BOOLEAN]
      BY <1>2 DEF BecomeBeyondMimic, MachineTypes
    <3>3. 0 \in 0 .. DanceSteps
      OBVIOUS
    <3>4. QED
      BY <1>2, <3>1, <3>2, <3>3, Zenon DEF BecomeBeyondMimic, MachineTypes, States
  <2>2. ready'[BeyondMimic]
    BY <1>2 DEF BecomeBeyondMimic, MachineTypes
  <2>3. TargetTracksState'
    BY <1>2 DEF BecomeBeyondMimic, TargetTracksState, Running, Switching
  <2>4. SteppedIsReady'
    BY <1>2, <2>2 DEF BecomeBeyondMimic, SteppedIsReady, Running, Switching
  <2>5. FlagTracksState'
    BY DEF FlagTracksState
  <2>6. QED
    BY <2>1, <2>3, <2>4, <2>5
<1>3. QED
  BY <1>1, <1>2

(* Every handler keeps it, as long as PolicySwitch is handled only when no *)
(* switching period is being timed.                                        *)
LEMMA HandleEventKeepsMachine ==
  ASSUME NEW e \in ExternalEvents \cup KernelEvents,
         MachineInv, HandleEvent(e),
         e.id = "PolicySwitch" => ~switching_flag_
  PROVE  MachineInv'
<1> USE PoliciesAssumption, TimeAssumption DEF MachineInv
<1>1. CASE UNCHANGED <<machine, controllers>>
  BY <1>1 DEF machine, controllers, MachineTypes, TargetTracksState,
    SteppedIsReady, FlagTracksState, Running, Switching
<1>2. CASE OnStop
  BY <1>2 DEF OnStop, controllers, MachineTypes, States, TargetTracksState,
    SteppedIsReady, FlagTracksState, Running, Switching
<1>3. CASE Accessible("InitPose") /\ OnInitPose
  <2>1. current_state_ = "Waiting"
    BY <1>3 DEF Accessible
  <2>2. MachineTypes'
    BY <1>3 DEF OnInitPose, MachineTypes, States
  <2>3. QED
    BY <1>3, <2>1, <2>2 DEF OnInitPose, TargetTracksState, SteppedIsReady,
      FlagTracksState, Running, Switching
<1>4. CASE Accessible("RunPolicy") /\ OnRunPolicy
  <2>1. current_state_ = "InitPose"
    BY <1>4 DEF Accessible
  <2>2. MachineTypes' /\ ready'[Standing]
    BY <1>4 DEF OnRunPolicy, MachineTypes, States
  <2>3. QED
    BY <1>4, <2>1, <2>2 DEF OnRunPolicy, TargetTracksState, SteppedIsReady,
      FlagTracksState, Running, Switching
<1>5. CASE Accessible("EnablePolicy") /\ e.id = "EnablePolicy" /\ OnEnablePolicy(e.policy)
  <2>1. Running /\ ready[current] /\ ~switching_flag_
    BY <1>5 DEF Accessible, Running, SteppedIsReady, FlagTracksState
  <2>2. PICK p \in Policies \ {BeyondMimic} : OnEnablePolicy(p)
    BY <1>5, EventShape
  <2>3. MachineTypes'
    BY <2>2 DEF OnEnablePolicy, controllers, MachineTypes, States
  <2>4. (ready'[current] /\ ready'[p]) \/ UNCHANGED ready
    BY <2>1, <2>2 DEF OnEnablePolicy, controllers, MachineTypes
  <2>5. QED
    BY <2>1, <2>2, <2>3, <2>4 DEF OnEnablePolicy, controllers, MachineTypes,
      TargetTracksState, SteppedIsReady, FlagTracksState, Running, Switching
<1>6. CASE Accessible("EnableBeyondMimicPolicy") /\ OnEnableBeyondMimic
  BY <1>6, RecoveryKeepsMachine DEF Accessible, OnEnableBeyondMimic, Stopped
<1>7. CASE Accessible("PolicySwitch") /\ e.id = "PolicySwitch" /\ OnPolicySwitch
  <2>1. Switching /\ target # current /\ ready[target] /\ ~switching_flag_
    BY <1>7 DEF Accessible, Switching, TargetTracksState, SteppedIsReady
  <2>2. MachineTypes' /\ ready'[target]
    BY <1>7, <2>1 DEF OnPolicySwitch, MachineTypes, States
  <2>3. QED
    BY <1>7, <2>1, <2>2 DEF OnPolicySwitch, TargetTracksState, SteppedIsReady,
      FlagTracksState, Running, Switching
<1>8. CASE Accessible("SetVelAll") /\ e.id = "SetVelAll" /\ OnSetVelAll(e.vel)
  <2>1. command_' \in Velocities
    BY <1>8, EventShape DEF OnSetVelAll
  <2>2. QED
    BY <1>8, <2>1 DEF OnSetVelAll, controllers, MachineTypes, TargetTracksState,
      SteppedIsReady, FlagTracksState, Running, Switching
<1>9. QED
  BY <1>1, <1>2, <1>3, <1>4, <1>5, <1>6, <1>7, <1>8 DEF HandleEvent

(* No handler starts the switching period; only the state function does.   *)
LEMMA HandleEventNeverTimes ==
  ASSUME NEW e, HandleEvent(e), switching_flag_'
  PROVE  switching_flag_
BY DEF HandleEvent, OnStop, OnInitPose, OnRunPolicy, OnEnablePolicy,
  OnEnableBeyondMimic, EnableBeyondMimicRecovery, OnPolicySwitch, OnSetVelAll,
  machine

-----------------------------------------------------------------------------
(* The steps.                                                              *)

(* The conjuncts of IInv about the state machine are those of MachineInv.  *)
LEMMA MachineFromIInv ==
  /\ IInv => MachineInv
  /\ IInv => (SwitchEvent \in {kernel_queue[i] : i \in 1 .. Len(kernel_queue)}
               => ~switching_flag_)
<1> USE DEF IInv, TimerIsFresh
<1>1. IInv => MachineTypes
  BY DEF TypeOK, MachineTypes
<1>2. QED
  BY <1>1 DEF MachineInv, FlagTracksState

(* The invariant holds initially. *)
LEMMA InitIInv == Init => IInv
<1> SUFFICES ASSUME Init PROVE IInv
  OBVIOUS
<1> USE PoliciesAssumption, TimeAssumption, CommandAssumption DEF Init
<1>1. TypeOK
  <2>1. /\ 0 \in 0 .. DanceSteps
        /\ 0 \in 0 .. SwitchTime
        /\ 0 \in 0 .. ConfirmCycles
        /\ Cooldown \in 0 .. Cooldown
        /\ 0 \in 0 .. MaxArrivals
    OBVIOUS
  <2>2. <<>> \in Seq(ExternalEvents) /\ <<>> \in Seq(KernelEvents)
    OBVIOUS
  <2>3. QED
    BY <2>1, <2>2 DEF TypeOK, States
<1>2. QED
  BY <1>1 DEF IInv, TargetTracksState, SteppedIsReady, TimerIsFresh,
    SelfEventsDrained, StepIsRunning, Running, Switching

(* What a step that handles one queued event keeps.                        *)
LEMMA HandleStep ==
  ASSUME IInv, NEW e \in ExternalEvents \cup KernelEvents, HandleEvent(e),
         e.id = "PolicySwitch" => ~switching_flag_,
         pc' = pc, pc \in {"backend", "events"},
         UNCHANGED <<timers, environment>>,
         backend_queue' \in Seq(ExternalEvents),
         ros_queue' \in Seq(ExternalEvents),
         \/ kernel_queue' = kernel_queue
         \/ kernel_queue # <<>> /\ kernel_queue' = Tail(kernel_queue)
  PROVE  IInv'
<1>1. MachineInv'
  BY MachineFromIInv, HandleEventKeepsMachine
<1>2. /\ kernel_queue \in Seq(KernelEvents)
      /\ Len(kernel_queue) <= 1
  BY DEF IInv, TypeOK, SelfEventsDrained
<1>3. kernel_queue' = kernel_queue \/ kernel_queue' = <<>>
  <2>1. CASE kernel_queue' = kernel_queue
    BY <2>1
  <2>2. CASE kernel_queue # <<>> /\ kernel_queue' = Tail(kernel_queue)
    BY <1>2, <2>2
  <2>3. QED
    BY <2>1, <2>2
<1>4. TypeOK'
  BY <1>1, <1>2, <1>3 DEF IInv, TypeOK, MachineInv, MachineTypes, timers, environment
<1>5. SelfEventsDrained'
  BY <1>2, <1>3 DEF SelfEventsDrained
<1>6. StepIsRunning'
  BY DEF StepIsRunning
<1>7. TimerIsFresh'
  <2>1. switching_flag_' => current_state_' \in {"PolicySwitching", "STOPPED"}
    BY <1>1 DEF MachineInv, FlagTracksState
  <2>2. ASSUME switching_flag_'
        PROVE  SwitchEvent \notin {kernel_queue'[i] : i \in 1 .. Len(kernel_queue')}
    <3>1. switching_flag_
      BY <2>2, HandleEventNeverTimes
    <3>2. SwitchEvent \notin {kernel_queue[i] : i \in 1 .. Len(kernel_queue)}
      BY <3>1, MachineFromIInv
    <3>3. QED
      BY <1>3, <3>2
  <2>3. QED
    BY <2>1, <2>2 DEF TimerIsFresh
<1>8. QED
  BY <1>1, <1>4, <1>5, <1>6, <1>7 DEF IInv, MachineInv

(* What a step keeps that touches neither the state machine nor the events *)
(* it has emitted.                                                         *)
LEMMA QuietStep ==
  ASSUME IInv, UNCHANGED <<machine, controllers, kernel_queue>>,
         TypeOK', SelfEventsDrained', StepIsRunning'
  PROVE  IInv'
BY DEF IInv, machine, controllers, TargetTracksState, SteppedIsReady,
  TimerIsFresh, Running, Switching

(* The steps of the kernel thread between the state functions. *)
LEMMA KernelKeepsIInv ==
  ASSUME IInv,
         \/ Ready \/ TakeBackend \/ BackendDrained \/ TakeRosEvent
         \/ TakeKernelEvent \/ EventsDrained \/ EndLoop \/ ShutDown
  PROVE  IInv'
<1> USE PoliciesAssumption, TimeAssumption
<1>0. TypeOK /\ SelfEventsDrained
  BY DEF IInv
<1>1. CASE Ready
  <2>1. TypeOK'
    BY <1>0, <1>1 DEF Ready, TypeOK, queues, controllers, timers, environment, machine
  <2>2. SelfEventsDrained' /\ StepIsRunning'
    BY <1>0, <1>1 DEF Ready, SelfEventsDrained, StepIsRunning, queues
  <2>3. QED
    BY <1>1, <2>1, <2>2, QuietStep DEF Ready, queues
<1>2. CASE TakeBackend
  <2>1. /\ Head(backend_queue) \in ExternalEvents
        /\ Tail(backend_queue) \in Seq(ExternalEvents)
    BY <1>0, <1>2, HeadTailProperties DEF TakeBackend, TypeOK
  <2>2. Head(backend_queue).id # "PolicySwitch"
    BY <2>1, EventShape
  <2>3. QED
    BY <1>0, <1>2, <2>1, <2>2, HandleStep DEF TakeBackend, TypeOK
<1>3. CASE BackendDrained
  <2>1. TypeOK'
    BY <1>0, <1>3 DEF BackendDrained, TypeOK, queues, controllers, timers, environment, machine
  <2>2. SelfEventsDrained' /\ StepIsRunning'
    BY <1>0, <1>3 DEF BackendDrained, SelfEventsDrained, StepIsRunning, queues
  <2>3. QED
    BY <1>3, <2>1, <2>2, QuietStep DEF BackendDrained, queues
<1>4. CASE TakeRosEvent
  <2>1. /\ Head(ros_queue) \in ExternalEvents
        /\ Tail(ros_queue) \in Seq(ExternalEvents)
    BY <1>0, <1>4, HeadTailProperties DEF TakeRosEvent, TypeOK
  <2>2. Head(ros_queue).id # "PolicySwitch"
    BY <2>1, EventShape
  <2>3. QED
    BY <1>0, <1>4, <2>1, <2>2, HandleStep DEF TakeRosEvent, TypeOK
<1>5. CASE TakeKernelEvent
  <2>1. kernel_queue \in Seq(KernelEvents) /\ kernel_queue # <<>>
    BY <1>0, <1>5 DEF TakeKernelEvent, TypeOK
  <2>2. /\ Head(kernel_queue) \in KernelEvents
        /\ Head(kernel_queue) = kernel_queue[1]
        /\ 1 \in 1 .. Len(kernel_queue)
    BY <2>1, HeadTailProperties
  <2>3. Head(kernel_queue).id = "PolicySwitch" => ~switching_flag_
    BY <2>2, EventShape, MachineFromIInv
  <2>4. QED
    BY <1>0, <1>5, <2>1, <2>2, <2>3, HandleStep DEF TakeKernelEvent, TypeOK
<1>6. CASE EventsDrained
  <2>1. TypeOK'
    BY <1>0, <1>6 DEF EventsDrained, TypeOK, queues, controllers, timers, environment, machine
  <2>2. SelfEventsDrained' /\ StepIsRunning'
    BY <1>0, <1>6 DEF EventsDrained, SelfEventsDrained, StepIsRunning, queues
  <2>3. QED
    BY <1>6, <2>1, <2>2, QuietStep DEF EventsDrained, queues
<1>7. CASE EndLoop
  <2>1. switch_elapsed' \in 0 .. SwitchTime /\ since_trigger' \in 0 .. Cooldown
    BY <1>0, <1>7 DEF EndLoop, TypeOK, AtMost
  <2>2. TypeOK'
    BY <1>0, <1>7, <2>1 DEF EndLoop, TypeOK, queues, controllers, machine
  <2>3. SelfEventsDrained' /\ StepIsRunning'
    BY <1>0, <1>7 DEF EndLoop, SelfEventsDrained, StepIsRunning, queues
  <2>4. QED
    BY <1>7, <2>2, <2>3, QuietStep DEF EndLoop, queues
<1>8. CASE ShutDown
  <2>1. TypeOK'
    BY <1>0, <1>8 DEF ShutDown, TypeOK, queues, controllers, timers, environment, machine
  <2>2. SelfEventsDrained' /\ StepIsRunning'
    BY <1>0, <1>8 DEF ShutDown, SelfEventsDrained, StepIsRunning, queues
  <2>3. QED
    BY <1>8, <2>1, <2>2, QuietStep DEF ShutDown, queues
<1>9. QED
  BY <1>1, <1>2, <1>3, <1>4, <1>5, <1>6, <1>7, <1>8

(* The Step of the current policy keeps the trajectory's position in range. *)
LEMMA SteppedType == TypeOK => Stepped \in 0 .. DanceSteps
BY TimeAssumption DEF TypeOK, Stepped, AtMost

(* The functions of the states. *)
LEMMA LoopKeepsIInv == IInv /\ Loop => IInv'
<1> SUFFICES ASSUME IInv, Loop PROVE IInv'
  OBVIOUS
<1> USE PoliciesAssumption, TimeAssumption
<1>0. /\ TypeOK /\ SelfEventsDrained /\ TargetTracksState /\ SteppedIsReady
      /\ TimerIsFresh /\ StepIsRunning
  BY DEF IInv
<1>1. CASE LoopIdle
  <2>1. TypeOK'
    BY <1>0, <1>1 DEF LoopIdle, TypeOK, queues, controllers, timers, environment, machine
  <2>2. SelfEventsDrained' /\ StepIsRunning'
    BY <1>0, <1>1 DEF LoopIdle, SelfEventsDrained, StepIsRunning, queues
  <2>3. QED
    BY <1>1, <2>1, <2>2, QuietStep DEF LoopIdle, queues
<1>2. CASE LoopInitPose
  <2>1. warm' \in [Policies -> BOOLEAN]
    BY <1>0, <1>2 DEF LoopInitPose, TypeOK
  <2>2. TypeOK'
    BY <1>0, <1>2, <2>1 DEF LoopInitPose, TypeOK, queues, timers, environment, machine
  <2>3. SelfEventsDrained' /\ StepIsRunning'
    BY <1>0, <1>2 DEF LoopInitPose, SelfEventsDrained, StepIsRunning, queues
  <2>4. QED
    BY <1>0, <1>2, <2>2, <2>3 DEF LoopInitPose, IInv, TargetTracksState,
      SteppedIsReady, TimerIsFresh, Running, Switching, queues, machine
<1>3. CASE FallCheck
  <2>1. current_state_' = "PolicyRunning" /\ ~Stopped /\ stop_flag' = stop_flag
    BY <1>3 DEF FallCheck, Stopped
  <2>2. MachineInv'
    <3>1. CASE EnableBeyondMimicRecovery
      BY <2>1, <3>1, MachineFromIInv, RecoveryKeepsMachine
    <3>2. CASE UNCHANGED <<controllers, switching_flag_, command_>>
      <4>1. UNCHANGED <<machine, controllers>>
        BY <1>3, <3>2 DEF FallCheck, machine
      <4>2. QED
        BY <1>0, <4>1, MachineFromIInv DEF MachineInv, MachineTypes, machine,
          controllers, TargetTracksState, SteppedIsReady, FlagTracksState,
          Running, Switching
    <3>3. QED
      BY <1>3, <3>1, <3>2 DEF FallCheck
  <2>3. tilt_counter' \in 0 .. ConfirmCycles /\ since_trigger' \in 0 .. Cooldown
    BY <1>0, <1>3 DEF FallCheck, TypeOK, AtMost
  <2>4. TypeOK'
    BY <1>0, <1>3, <2>2, <2>3 DEF FallCheck, TypeOK, MachineInv, MachineTypes,
      queues, environment
  <2>5. SelfEventsDrained'
    BY <1>0, <1>3 DEF FallCheck, SelfEventsDrained, queues
  <2>6. StepIsRunning'
    BY <2>1 DEF StepIsRunning, Running
  <2>7. TimerIsFresh'
    BY <2>1, <2>2 DEF MachineInv, FlagTracksState, TimerIsFresh
  <2>8. QED
    BY <2>2, <2>4, <2>5, <2>6, <2>7 DEF IInv, MachineInv
<1>4. CASE StepRunning
  <2>1. Running /\ kernel_queue = <<>>
    BY <1>0, <1>4 DEF StepRunning, StepIsRunning, SelfEventsDrained
  <2>2. StandEvent \in KernelEvents
    BY DEF KernelEvents
  <2>3. kernel_queue' \in Seq(KernelEvents) /\ Len(kernel_queue') <= 1
    <3>1. kernel_queue' = <<>> \/ kernel_queue' = Append(<<>>, StandEvent)
      BY <1>4, <2>1 DEF StepRunning
    <3>2. <<>> \in Seq(KernelEvents) /\ Len(<<>>) = 0
      OBVIOUS
    <3>3. /\ Append(<<>>, StandEvent) \in Seq(KernelEvents)
          /\ Len(Append(<<>>, StandEvent)) = 1
      BY <2>2, <3>2, AppendProperties
    <3>4. CASE kernel_queue' = <<>>
      BY <3>2, <3>4
    <3>5. CASE kernel_queue' = Append(<<>>, StandEvent)
      BY <3>3, <3>5
    <3>6. QED
      BY <3>1, <3>4, <3>5
  <2>4. bm_steps' \in 0 .. DanceSteps
    BY <1>0, <1>4, SteppedType DEF StepRunning
  <2>5. TypeOK'
    BY <1>0, <1>4, <2>3, <2>4 DEF StepRunning, TypeOK, timers, environment
  <2>6. SelfEventsDrained' /\ StepIsRunning'
    BY <1>4, <2>3 DEF StepRunning, SelfEventsDrained, StepIsRunning
  <2>7. TargetTracksState' /\ SteppedIsReady'
    BY <1>0, <1>4 DEF StepRunning, TargetTracksState, SteppedIsReady, Running, Switching
  <2>8. TimerIsFresh'
    BY <1>0, <1>4, <2>1 DEF StepRunning, TimerIsFresh, Running
  <2>9. QED
    BY <2>5, <2>6, <2>7, <2>8 DEF IInv
<1>5. CASE LoopSwitching
  <2>1. Switching /\ kernel_queue = <<>>
    BY <1>0, <1>5 DEF LoopSwitching, Switching, SelfEventsDrained
  <2>2. SwitchEvent \in KernelEvents
    BY DEF KernelEvents
  <2>3. kernel_queue' \in Seq(KernelEvents) /\ Len(kernel_queue') <= 1
    <3>1. kernel_queue' = <<>> \/ kernel_queue' = Append(<<>>, SwitchEvent)
      BY <1>5, <2>1 DEF LoopSwitching
    <3>2. <<>> \in Seq(KernelEvents) /\ Len(<<>>) = 0
      OBVIOUS
    <3>3. /\ Append(<<>>, SwitchEvent) \in Seq(KernelEvents)
          /\ Len(Append(<<>>, SwitchEvent)) = 1
      BY <2>2, <3>2, AppendProperties
    <3>4. CASE kernel_queue' = <<>>
      BY <3>2, <3>4
    <3>5. CASE kernel_queue' = Append(<<>>, SwitchEvent)
      BY <3>3, <3>5
    <3>6. QED
      BY <3>1, <3>4, <3>5
  <2>4. bm_steps' \in 0 .. DanceSteps
    BY <1>0, <1>5, SteppedType DEF LoopSwitching, TypeOK
  <2>5. warm' \in [Policies -> BOOLEAN]
    BY <1>0, <1>5 DEF LoopSwitching, TypeOK
  <2>6. switch_elapsed' \in 0 .. SwitchTime /\ switching_flag_' \in BOOLEAN
    <3>1. switch_elapsed' = switch_elapsed \/ switch_elapsed' = 0
      BY <1>5 DEF LoopSwitching
    <3>2. switch_elapsed' \in 0 .. SwitchTime
      BY <1>0, <3>1 DEF TypeOK
    <3>3. switching_flag_' \in BOOLEAN
      BY <1>5, Zenon DEF LoopSwitching
    <3>4. QED
      BY <3>2, <3>3
  <2>7. TypeOK'
    BY <1>0, <1>5, <2>3, <2>4, <2>5, <2>6 DEF LoopSwitching, TypeOK, environment
  <2>8. SelfEventsDrained' /\ StepIsRunning'
    BY <1>5, <2>3 DEF LoopSwitching, SelfEventsDrained, StepIsRunning
  <2>9. TargetTracksState' /\ SteppedIsReady'
    BY <1>0, <1>5 DEF LoopSwitching, TargetTracksState, SteppedIsReady, Running, Switching
  <2>10. TimerIsFresh'
    <3>1. CASE switching_flag_' = FALSE
      BY <3>1 DEF TimerIsFresh
    <3>2. CASE kernel_queue' = <<>>
      BY <1>5, <3>2 DEF LoopSwitching, TimerIsFresh
    <3>3. QED
      BY <1>5, <2>1, <3>1, <3>2 DEF LoopSwitching
  <2>11. QED
    BY <2>7, <2>8, <2>9, <2>10 DEF IInv
<1>6. QED
  BY <1>1, <1>2, <1>3, <1>4, <1>5 DEF Loop

(* The callback threads. *)
LEMMA CallbacksKeepIInv == IInv /\ Callbacks => IInv'
<1> SUFFICES ASSUME IInv, Callbacks PROVE IInv'
  OBVIOUS
<1> USE PoliciesAssumption, TimeAssumption
<1>0. TypeOK /\ SelfEventsDrained /\ StepIsRunning
  BY DEF IInv
<1>1. ASSUME NEW e \in ExternalEvents, RosMessage(e) PROVE IInv'
  <2>1. ros_queue' \in Seq(ExternalEvents) /\ arrivals' \in 0 .. MaxArrivals
    BY <1>0, <1>1 DEF RosMessage, Arrives, TypeOK
  <2>2. TypeOK'
    BY <1>0, <1>1, <2>1 DEF RosMessage, Arrives, TypeOK, controllers, timers, machine
  <2>3. SelfEventsDrained' /\ StepIsRunning'
    BY <1>0, <1>1 DEF RosMessage, SelfEventsDrained, StepIsRunning, Running, machine
  <2>4. QED
    BY <1>1, <2>2, <2>3, QuietStep DEF RosMessage
<1>2. ASSUME NEW e \in ActionEvents, HandopAction(e) PROVE IInv'
  <2>1. e \in ExternalEvents
    BY <1>2 DEF ExternalEvents
  <2>2. backend_queue' \in Seq(ExternalEvents) /\ arrivals' \in 0 .. MaxArrivals
    BY <1>0, <1>2, <2>1 DEF HandopAction, Arrives, TypeOK
  <2>3. TypeOK'
    BY <1>0, <1>2, <2>2 DEF HandopAction, Arrives, TypeOK, controllers, timers, machine
  <2>4. SelfEventsDrained' /\ StepIsRunning'
    BY <1>0, <1>2 DEF HandopAction, SelfEventsDrained, StepIsRunning, Running, machine
  <2>5. QED
    BY <1>2, <2>3, <2>4, QuietStep DEF HandopAction
<1>3. ASSUME NEW v \in Velocities, HandopTwist(v) PROVE IInv'
  <2>1. arrivals' \in 0 .. MaxArrivals
    BY <1>0, <1>3 DEF HandopTwist, Arrives, TypeOK
  <2>2. TypeOK'
    BY <1>0, <1>3, <2>1 DEF HandopTwist, TypeOK, queues, controllers, timers, machine
  <2>3. SelfEventsDrained' /\ StepIsRunning'
    BY <1>0, <1>3 DEF HandopTwist, SelfEventsDrained, StepIsRunning, Running, machine, queues
  <2>4. QED
    BY <1>3, <2>2, <2>3, QuietStep DEF HandopTwist, queues
<1>4. CASE QueueTwist
  <2>1. [id |-> "SetVelAll", vel |-> twist] \in ExternalEvents
    BY <1>0, <1>4 DEF QueueTwist, TypeOK, ExternalEvents, VelocityEvents
  <2>2. backend_queue' \in Seq(ExternalEvents)
    BY <1>0, <1>4, <2>1, AppendProperties DEF QueueTwist, TypeOK
  <2>3. TypeOK'
    BY <1>0, <1>4, <2>2 DEF QueueTwist, TypeOK, controllers, timers, machine
  <2>4. SelfEventsDrained' /\ StepIsRunning'
    BY <1>0, <1>4 DEF QueueTwist, SelfEventsDrained, StepIsRunning, Running, machine
  <2>5. QED
    BY <1>4, <2>3, <2>4, QuietStep DEF QueueTwist
<1>5. QED
  BY <1>1, <1>2, <1>3, <1>4 DEF Callbacks

(* Every step preserves the invariant. *)
LEMMA StepIInv == IInv /\ [Next]_vars => IInv'
<1>1. IInv /\ UNCHANGED vars => IInv'
  BY DEF vars, queues, controllers, timers, environment, machine, IInv, TypeOK,
    TargetTracksState, SteppedIsReady, TimerIsFresh, SelfEventsDrained,
    StepIsRunning, Running, Switching
<1>2. QED
  BY <1>1, KernelKeepsIInv, LoopKeepsIInv, CallbacksKeepIInv DEF Next, Kernel

(* The inductive invariant holds in every reachable state. *)
THEOREM Invariance == Spec => []IInv
  BY InitIInv, StepIInv, PTL DEF Spec

(* Type correctness of Supervisor. *)
THEOREM TypeCorrect == Spec => []TypeOK
<1>1. IInv => TypeOK
  BY DEF IInv
<1>2. QED
  BY Invariance, <1>1, PTL

(* The controller pointers always agree with the state: the policy that is *)
(* switched to differs from the one that drives, and is never BeyondMimic. *)
THEOREM PointersFollowState == Spec => []TargetTracksState
<1>1. IInv => TargetTracksState
  BY DEF IInv
<1>2. QED
  BY Invariance, <1>1, PTL

(* Whatever the state functions step is ready, so the joints are never     *)
(* left without a new target.                                              *)
THEOREM NobodyStepsUnready == Spec => []SteppedIsReady
<1>1. IInv => SteppedIsReady
  BY DEF IInv
<1>2. QED
  BY Invariance, <1>1, PTL

(* An interrupted switch never shortens the next one.                      *)
THEOREM SwitchIsTimedAfresh == Spec => []TimerIsFresh
<1>1. IInv => TimerIsFresh
  BY DEF IInv
<1>2. QED
  BY Invariance, <1>1, PTL

(* The kernel's own events never pile up.                                  *)
THEOREM SelfEventsBounded == Spec => []SelfEventsDrained
<1>1. IInv => SelfEventsDrained
  BY DEF IInv
<1>2. QED
  BY Invariance, <1>1, PTL

-----------------------------------------------------------------------------
(* What a step may never do.                                               *)

(* Once stopped, the state machine knows no event but STOP. *)
LEMMA HandleEventAfterStop ==
  ASSUME NEW e, HandleEvent(e), Stopped
  PROVE  Stopped' /\ UNCHANGED <<command_, controllers>>
BY DEF HandleEvent, Accessible, OnStop, Stopped, machine

(* STOP is final: whatever is still queued, no controller and no command   *)
(* is touched any more.                                                    *)
THEOREM StopIsForever == Spec => StopIsFinal
<1> DEFINE A == Stopped => Stopped' /\ UNCHANGED <<command_, controllers>>
<1>1. IInv /\ [Next]_vars => [A]_vars
  <2> SUFFICES ASSUME IInv, Next, Stopped
               PROVE  Stopped' /\ UNCHANGED <<command_, controllers>>
    OBVIOUS
  <2> USE DEF Stopped
  <2>1. CASE TakeBackend \/ TakeRosEvent \/ TakeKernelEvent
    BY <2>1, HandleEventAfterStop DEF TakeBackend, TakeRosEvent, TakeKernelEvent
  <2>2. CASE Ready \/ BackendDrained \/ EventsDrained \/ EndLoop \/ ShutDown
    BY <2>2 DEF Ready, BackendDrained, EventsDrained, EndLoop, ShutDown, machine
  <2>3. CASE Loop
    BY <2>3 DEF Loop, LoopIdle, LoopInitPose, FallCheck, StepRunning,
      LoopSwitching, IInv, StepIsRunning, Running, machine
  <2>4. CASE Callbacks
    BY <2>4 DEF Callbacks, RosMessage, HandopAction, HandopTwist, QueueTwist, machine
  <2>5. QED
    BY <2>1, <2>2, <2>3, <2>4 DEF Next, Kernel
<1>2. QED
  BY <1>1, Invariance, PTL DEF Spec, StopIsFinal

(* A controller that loses the joints is stopped in the same step. *)
LEMMA RecoveryStopsOutgoing ==
  ASSUME MachineTypes, EnableBeyondMimicRecovery, current' # current
  PROVE  ~ready'[current]
BY DEF MachineTypes, EnableBeyondMimicRecovery, AlreadyBeyondMimic, BecomeBeyondMimic

LEMMA HandleEventStopsOutgoing ==
  ASSUME MachineInv, NEW e, HandleEvent(e), current' # current
  PROVE  ~ready'[current]
<1>1. CASE OnEnableBeyondMimic
  BY <1>1, RecoveryStopsOutgoing DEF OnEnableBeyondMimic, MachineInv
<1>2. CASE OnPolicySwitch
  BY <1>2 DEF OnPolicySwitch, MachineInv, MachineTypes
<1>3. CASE Accessible("RunPolicy") /\ OnRunPolicy
  BY <1>3 DEF Accessible, OnRunPolicy, MachineInv, TargetTracksState
<1>4. QED
  BY <1>1, <1>2, <1>3 DEF HandleEvent, OnStop, OnInitPose, OnEnablePolicy,
    OnSetVelAll, machine, controllers

(* Whoever hands the joints over, the outgoing controller is stopped with  *)
(* the handover and not a cycle later.                                     *)
THEOREM HandoverStopsOutgoing == Spec => OutgoingStopped
<1>1. IInv /\ [Next]_vars => [current' # current => ~ready'[current]]_vars
  <2> SUFFICES ASSUME IInv, Next, current' # current
               PROVE  ~ready'[current]
    OBVIOUS
  <2>0. MachineInv
    BY MachineFromIInv
  <2>1. CASE TakeBackend \/ TakeRosEvent \/ TakeKernelEvent
    BY <2>0, <2>1, HandleEventStopsOutgoing
    DEF TakeBackend, TakeRosEvent, TakeKernelEvent
  <2>2. CASE FallCheck
    BY <2>0, <2>2, RecoveryStopsOutgoing DEF FallCheck, controllers, MachineInv
  <2>3. QED
    BY <2>1, <2>2 DEF Next, Kernel, Loop, Callbacks, Ready, BackendDrained,
      EventsDrained, EndLoop, ShutDown, LoopIdle, LoopInitPose, StepRunning,
      LoopSwitching, RosMessage, HandopAction, HandopTwist, QueueTwist, controllers
<1>2. QED
  BY <1>1, Invariance, PTL DEF Spec, OutgoingStopped

(* What RecoveryIsWarm needs in every state, not only between fall check   *)
(* and Step: whoever makes BeyondMimic the current policy has warmed it    *)
(* up, and nobody switches to it.                                          *)
BeyondMimicWarm == current = BeyondMimic => warm[BeyondMimic]

\* The recovery warms it up, unless it has the joints already.
LEMMA RecoveryWarmsUp ==
  ASSUME MachineTypes, BeyondMimicWarm, EnableBeyondMimicRecovery
  PROVE  BeyondMimicWarm'
BY PoliciesAssumption DEF MachineTypes, EnableBeyondMimicRecovery, AlreadyBeyondMimic,
  BecomeBeyondMimic, BeyondMimicWarm

\* No handler makes it current in another way.
LEMMA HandleEventKeepsWarm ==
  ASSUME MachineInv, BeyondMimicWarm, NEW e, HandleEvent(e)
  PROVE  BeyondMimicWarm'
<1>1. CASE OnEnableBeyondMimic
  BY <1>1, RecoveryWarmsUp DEF OnEnableBeyondMimic, MachineInv
<1>2. CASE Accessible("PolicySwitch") /\ OnPolicySwitch
  BY <1>2 DEF Accessible, OnPolicySwitch, MachineInv, TargetTracksState, Switching,
     BeyondMimicWarm
<1>3. CASE OnRunPolicy
  BY <1>3, PoliciesAssumption DEF OnRunPolicy, BeyondMimicWarm
<1>4. CASE UNCHANGED <<current, warm>>
  BY <1>4 DEF BeyondMimicWarm
<1> QED
  BY <1>1, <1>2, <1>3, <1>4 DEF HandleEvent, OnStop, OnInitPose, OnEnablePolicy, OnSetVelAll,
     machine, controllers

(* BeyondMimic has been warmed up whenever it steps, be it by an event,    *)
(* also in the middle of a switch, or by the fall check.                   *)
THEOREM RecoveryNeverCold == Spec => []RecoveryIsWarm
<1>1. Init => BeyondMimicWarm
  BY PoliciesAssumption DEF Init, BeyondMimicWarm
<1>2. IInv /\ BeyondMimicWarm /\ [Next]_vars => BeyondMimicWarm'
  <2> SUFFICES ASSUME IInv, BeyondMimicWarm, [Next]_vars PROVE BeyondMimicWarm'
    OBVIOUS
  <2>0. MachineInv
    BY MachineFromIInv
  <2>1. CASE TakeBackend \/ TakeRosEvent \/ TakeKernelEvent
    BY <2>0, <2>1, HandleEventKeepsWarm DEF TakeBackend, TakeRosEvent, TakeKernelEvent
  <2>2. CASE FallCheck
    <3>1. CASE EnableBeyondMimicRecovery
      BY <2>0, <3>1, RecoveryWarmsUp DEF MachineInv
    <3>2. CASE UNCHANGED controllers
      BY <3>2 DEF controllers, BeyondMimicWarm
    <3> QED
      BY <2>2, <3>1, <3>2 DEF FallCheck
  <2>3. CASE LoopInitPose \/ LoopSwitching
    <3>1. /\ current' = current
          /\ warm' = [warm EXCEPT ![target] = TRUE] \/ warm' = warm
      BY <2>3 DEF LoopInitPose, LoopSwitching
    <3> QED
      BY <2>0, <3>1 DEF MachineInv, MachineTypes, BeyondMimicWarm
  <2>4. CASE UNCHANGED <<current, warm>>
    BY <2>4 DEF BeyondMimicWarm
  <2> QED
    BY <2>1, <2>2, <2>3, <2>4 DEF Next, Kernel, Loop, Callbacks, Ready, BackendDrained,
      EventsDrained, EndLoop, ShutDown, LoopIdle, StepRunning, RosMessage, HandopAction,
      HandopTwist, QueueTwist, controllers, vars
<1>3. BeyondMimicWarm => RecoveryIsWarm
  BY DEF BeyondMimicWarm, RecoveryIsWarm, WarmedBeforeStep
<1> QED
  BY <1>1, <1>2, <1>3, Invariance, PTL DEF Spec

(* Outside "policy_running" no handler sets a velocity other than zero.    *)
LEMMA HandleEventFreezesVelocity ==
  ASSUME NEW e, HandleEvent(e), command_' \notin {command_, Zero}
  PROVE  Running
BY DEF HandleEvent, Accessible, OnStop, OnInitPose, OnRunPolicy, OnEnablePolicy,
  OnEnableBeyondMimic, EnableBeyondMimicRecovery, AlreadyBeyondMimic,
  BecomeBeyondMimic, OnPolicySwitch, OnSetVelAll, Running, machine

(* The commanded velocity is frozen while a switch is in progress, however *)
(* late a velocity that has passed its gate is queued.                     *)
THEOREM VelocityIsFrozen == Spec => VelocityOnlyWhileRunning
<1>1. IInv /\ [Next]_vars => [command_' \notin {command_, Zero} => Running]_vars
  <2> SUFFICES ASSUME IInv, Next, command_' \notin {command_, Zero}
               PROVE  Running
    OBVIOUS
  <2>1. CASE TakeBackend \/ TakeRosEvent \/ TakeKernelEvent
    BY <2>1, HandleEventFreezesVelocity DEF TakeBackend, TakeRosEvent, TakeKernelEvent
  <2>2. CASE FallCheck \/ StepRunning
    BY <2>2 DEF FallCheck, StepRunning, IInv, StepIsRunning, Running
  <2>3. QED
    BY <2>1, <2>2 DEF Next, Kernel, Loop, Callbacks, Ready, BackendDrained,
      EventsDrained, EndLoop, ShutDown, LoopIdle, LoopInitPose, LoopSwitching,
      RosMessage, HandopAction, HandopTwist, QueueTwist, machine
<1>2. QED
  BY <1>1, Invariance, PTL DEF Spec, VelocityOnlyWhileRunning

(* Handling an event hands the joints over as PolicyHandover allows.       *)
LEMMA HandleEventHandsOver ==
  ASSUME MachineInv, NEW e \in ExternalEvents \cup KernelEvents, HandleEvent(e)
  PROVE  [Handover!HandoverNext]_(Handover!handoverVars)
<1> USE PoliciesAssumption
    DEF MachineInv, Handover!handoverVars, Running, Switching, Stopped
<1>1. CASE UNCHANGED <<machine, controllers>>
  BY <1>1 DEF machine, controllers
<1>2. CASE OnStop
  BY <1>2 DEF OnStop, Handover!HandoverNext, Handover!Halt
<1>3. CASE Accessible("InitPose") /\ OnInitPose
  BY <1>3 DEF Accessible, OnInitPose
<1>4. CASE Accessible("RunPolicy") /\ OnRunPolicy
  BY <1>4 DEF Accessible, OnRunPolicy, Handover!HandoverNext, Handover!Start
<1>5. CASE Accessible("EnablePolicy") /\ e.id = "EnablePolicy" /\ OnEnablePolicy(e.policy)
  <2>1. current_state_ = "PolicyRunning" /\ current \in Policies
    BY <1>5 DEF Accessible, MachineTypes
  <2>2. PICK p \in Policies \ {BeyondMimic} : OnEnablePolicy(p)
    BY <1>5, EventShape
  <2>3. CASE current = p
    BY <2>1, <2>2, <2>3 DEF OnEnablePolicy, controllers
  <2>4. CASE current # p
    BY <2>1, <2>2, <2>4 DEF OnEnablePolicy, Handover!HandoverNext, Handover!Request
  <2>5. QED
    BY <2>3, <2>4
<1>6. CASE Accessible("EnableBeyondMimicPolicy") /\ OnEnableBeyondMimic
  <2>1. ~Stopped /\ current \in Policies
    BY <1>6 DEF Accessible, MachineTypes
  <2>2. current' = BeyondMimic /\ current_state_' = "PolicyRunning"
    BY <1>6 DEF OnEnableBeyondMimic, EnableBeyondMimicRecovery,
      AlreadyBeyondMimic, BecomeBeyondMimic
  <2>3. QED
    BY <2>1, <2>2 DEF Handover!HandoverNext, Handover!Takeover
<1>7. CASE Accessible("PolicySwitch") /\ OnPolicySwitch
  BY <1>7 DEF Accessible, OnPolicySwitch, MachineTypes, Handover!HandoverNext,
    Handover!Commit
<1>8. CASE Accessible("SetVelAll") /\ OnSetVelAll(e.vel)
  BY <1>8 DEF OnSetVelAll, controllers
<1>9. QED
  BY <1>1, <1>2, <1>3, <1>4, <1>5, <1>6, <1>7, <1>8 DEF HandleEvent

(* The supervisor implements PolicyHandover: the joints change hands by an *)
(* announced switch, by BeyondMimic or by STOP, and in no other way.       *)
THEOREM ImplementsHandover == Spec => HandoverSpec
<1>1. Init => Handover!HandoverInit
  BY PoliciesAssumption
  DEF Init, Handover!HandoverInit, Running, Switching, Stopped
<1>2. IInv /\ [Next]_vars => [Handover!HandoverNext]_(Handover!handoverVars)
  <2> SUFFICES ASSUME IInv, [Next]_vars
               PROVE  [Handover!HandoverNext]_(Handover!handoverVars)
    OBVIOUS
  <2>0. MachineInv
    BY MachineFromIInv
  <2>1. CASE UNCHANGED <<current_state_, current, target>>
    BY <2>1 DEF Handover!handoverVars, Running, Switching, Stopped
  <2>2. CASE TakeBackend \/ TakeRosEvent \/ TakeKernelEvent
    <3>1. PICK e \in ExternalEvents \cup KernelEvents : HandleEvent(e)
      BY <2>2, HeadTailProperties DEF IInv, TypeOK, TakeBackend, TakeRosEvent,
        TakeKernelEvent
    <3>2. QED
      BY <2>0, <3>1, HandleEventHandsOver
  <2>3. CASE FallCheck
    <3>1. CASE EnableBeyondMimicRecovery
      <4>1. /\ current_state_ = "PolicyRunning"
            /\ current_state_' = "PolicyRunning"
            /\ current' = BeyondMimic
        BY <2>3, <3>1 DEF FallCheck, EnableBeyondMimicRecovery,
          AlreadyBeyondMimic, BecomeBeyondMimic
      <4>2. current \in Policies /\ current # Halted
        BY <2>0, PoliciesAssumption DEF MachineInv, MachineTypes
      <4>3. QED
        BY <4>1, <4>2 DEF Handover!HandoverNext, Handover!Takeover,
          Handover!handoverVars, Running, Switching, Stopped
    <3>2. CASE UNCHANGED controllers
      BY <2>1, <2>3, <3>2 DEF FallCheck, controllers
    <3>3. QED
      BY <2>3, <3>1, <3>2 DEF FallCheck
  <2>4. CASE Ready \/ BackendDrained \/ EventsDrained \/ EndLoop \/ ShutDown
    BY <2>1, <2>4 DEF Ready, BackendDrained, EventsDrained, EndLoop, ShutDown,
      machine, controllers
  <2>5. CASE LoopIdle \/ LoopInitPose \/ StepRunning \/ LoopSwitching
    BY <2>1, <2>5 DEF LoopIdle, LoopInitPose, StepRunning, LoopSwitching,
      machine, controllers
  <2>6. CASE Callbacks
    BY <2>1, <2>6 DEF Callbacks, RosMessage, HandopAction, HandopTwist,
      QueueTwist, machine, controllers
  <2>7. CASE UNCHANGED vars
    BY <2>1, <2>7 DEF vars, machine, controllers
  <2>8. QED
    BY <2>2, <2>3, <2>4, <2>5, <2>6, <2>7 DEF Next, Kernel, Loop
<1>3. QED
  BY <1>1, <1>2, Invariance, PTL DEF Spec, HandoverSpec, Handover!HandoverSpec

-----------------------------------------------------------------------------
(* When a successor is warm.  SuccessorIsWarm does not hold: PolicySwitch  *)
(* names no policy, and an EnableBeyondMimicPolicy of the backend queue is *)
(* handled between the period that emits it and the one that takes it; the *)
(* next EnablePolicy then finds a request that was meant for another.  The *)
(* theorem below shows that this is the only way to a cold successor.      *)

\* The state functions have asked for the switch.
SwitchRequested == SwitchEvent \in {kernel_queue[i] : i \in 1 .. Len(kernel_queue)}

VARIABLE overtaken  \* history: has the request outlived the switch it ends?

OvertakenInit == Init /\ overtaken = FALSE
OvertakenNext ==
  /\ Next
  /\ overtaken' = (SwitchRequested' /\ (overtaken \/ ~Switching'))
OvertakenSpec == OvertakenInit /\ [][OvertakenNext]_<<vars, overtaken>>

(* Whoever gains the joints has been warmed up, unless the request that    *)
(* gives them to it is one that another event has overtaken.               *)
WarmUnlessOvertaken ==
  [][current' # current /\ ~overtaken => warm'[current']]_<<vars, overtaken>>

\* The period is timed, and the request made, only after the new policy has
\* been warmed up, and a request that was not overtaken is that of this switch.
RequestMeansWarm ==
  /\ Switching /\ switching_flag_ => warm[target]
  /\ SwitchRequested /\ ~overtaken => Switching /\ warm[target]

\* No event that leaves a switch in progress touches its successor, and no
\* event begins a switch while the period of another is timed.
LEMMA SwitchUndisturbed ==
  ASSUME MachineInv, NEW e, HandleEvent(e), Switching'
  PROVE  /\ Switching => UNCHANGED <<target, warm>>
         /\ switching_flag_' => Switching /\ switching_flag_
<1>1. Switching => UNCHANGED <<target, warm>>
  BY DEF HandleEvent, Accessible, OnStop, OnInitPose, OnRunPolicy, OnEnablePolicy,
    OnEnableBeyondMimic, OnPolicySwitch, OnSetVelAll, Switching, machine, controllers
<1>2. ASSUME switching_flag_' PROVE Switching /\ switching_flag_
  <2>1. switching_flag_
    BY <1>2, HandleEventNeverTimes
  <2>2. ~Stopped
    BY HandleEventAfterStop DEF Stopped, Switching
  <2> QED
    BY <2>1, <2>2 DEF MachineInv, FlagTracksState, Switching, Stopped
<1> QED
  BY <1>1, <1>2

\* An event that hands the joints over hands them to a policy that is warm if
\* the request is not taken in the name of another switch.
LEMMA HandleEventHandsToWarm ==
  ASSUME MachineInv, NEW e, HandleEvent(e), current' # current,
         Switching /\ e.id = "PolicySwitch" => warm[target]
  PROVE  warm'[current']
<1>1. CASE OnEnableBeyondMimic
  BY <1>1, PoliciesAssumption DEF OnEnableBeyondMimic, EnableBeyondMimicRecovery,
    AlreadyBeyondMimic, BecomeBeyondMimic, MachineInv, MachineTypes
<1>2. CASE Accessible("PolicySwitch") /\ e.id = "PolicySwitch" /\ OnPolicySwitch
  <2>1. Switching /\ warm[target]
    BY <1>2 DEF Accessible, Switching
  <2> QED
    BY <1>2, <2>1 DEF OnPolicySwitch, MachineInv, MachineTypes
<1>3. CASE Accessible("RunPolicy") /\ OnRunPolicy
  BY <1>3 DEF Accessible, OnRunPolicy, MachineInv, TargetTracksState
<1> QED
  BY <1>1, <1>2, <1>3 DEF HandleEvent, OnStop, OnInitPose, OnEnablePolicy,
    OnSetVelAll, machine, controllers

\* What a step that handles an event keeps; the queue loses at most the event.
LEMMA HandlingKeepsRequest ==
  ASSUME MachineInv, RequestMeansWarm, NEW e, HandleEvent(e),
         SwitchRequested' => SwitchRequested,
         overtaken' = (SwitchRequested' /\ (overtaken \/ ~Switching'))
  PROVE  RequestMeansWarm'
<1>1. ASSUME Switching', switching_flag_' PROVE warm'[target']
  BY <1>1, SwitchUndisturbed DEF RequestMeansWarm
<1>2. ASSUME SwitchRequested', ~overtaken' PROVE Switching' /\ warm'[target']
  BY <1>2, SwitchUndisturbed DEF RequestMeansWarm
<1> QED
  BY <1>1, <1>2 DEF RequestMeansWarm

\* A step that takes an event takes it from a queue of its own kind: the only
\* PolicySwitch is the one the state functions have queued.
LEMMA TakesFromQueue ==
  ASSUME IInv, TakeBackend \/ TakeRosEvent \/ TakeKernelEvent
  PROVE  \E e : /\ HandleEvent(e)
                /\ e.id = "PolicySwitch" => SwitchRequested
                /\ SwitchRequested' => SwitchRequested
<1>0. /\ backend_queue \in Seq(ExternalEvents)
      /\ ros_queue \in Seq(ExternalEvents)
      /\ kernel_queue \in Seq(KernelEvents)
      /\ Len(kernel_queue) <= 1
  BY DEF IInv, TypeOK, SelfEventsDrained
<1>1. CASE TakeBackend \/ TakeRosEvent
  <2>1. PICK e \in ExternalEvents : HandleEvent(e)
    BY <1>0, <1>1, HeadTailProperties DEF TakeBackend, TakeRosEvent
  <2>2. e.id # "PolicySwitch"
    BY <2>1, EventShape
  <2>3. SwitchRequested' => SwitchRequested
    BY <1>1 DEF TakeBackend, TakeRosEvent, SwitchRequested
  <2> QED
    BY <2>1, <2>2, <2>3
<1>2. CASE TakeKernelEvent
  <2>1. /\ HandleEvent(Head(kernel_queue))
        /\ Head(kernel_queue) \in KernelEvents
        /\ Head(kernel_queue) = kernel_queue[1]
        /\ 1 \in 1 .. Len(kernel_queue)
        /\ kernel_queue' = <<>>
    BY <1>0, <1>2, HeadTailProperties DEF TakeKernelEvent
  <2>2. Head(kernel_queue).id = "PolicySwitch" => SwitchRequested
    BY <2>1, EventShape DEF SwitchRequested
  <2>3. ~SwitchRequested'
    BY <2>1 DEF SwitchRequested
  <2> QED
    BY <2>1, <2>2, <2>3
<1> QED
  BY <1>1, <1>2

\* RequestMeansWarm is inductive, given the invariant of the supervisor.
LEMMA StepRequest ==
  ASSUME IInv, RequestMeansWarm, OvertakenNext
  PROVE  RequestMeansWarm'
<1>0. MachineInv
  BY MachineFromIInv
<1>1. CASE TakeBackend \/ TakeRosEvent \/ TakeKernelEvent
  BY <1>0, <1>1, TakesFromQueue, HandlingKeepsRequest DEF OvertakenNext
<1>2. CASE FallCheck \/ StepRunning
  <2>1. ~Switching'
    BY <1>2 DEF FallCheck, StepRunning, Switching, IInv, StepIsRunning, Running
  <2> QED
    BY <2>1 DEF RequestMeansWarm, OvertakenNext
<1>3. CASE LoopInitPose
  <2>1. ~Switching'
    BY <1>3 DEF LoopInitPose, Switching, machine
  <2> QED
    BY <2>1 DEF RequestMeansWarm, OvertakenNext
<1>4. CASE LoopSwitching
  <2>1. Switching /\ Switching' /\ target' = target /\ kernel_queue = <<>>
    BY <1>4 DEF LoopSwitching, Switching, IInv, SelfEventsDrained
  <2>2. warm'[target]
    BY <1>0, <1>4, <2>1 DEF LoopSwitching, RequestMeansWarm, MachineInv, MachineTypes
  <2> QED
    BY <2>1, <2>2 DEF RequestMeansWarm
<1>5. CASE UNCHANGED <<current_state_, target, warm, switching_flag_, kernel_queue>>
  BY <1>5 DEF RequestMeansWarm, OvertakenNext, SwitchRequested, Switching
<1> QED
  BY <1>1, <1>2, <1>3, <1>4, <1>5 DEF OvertakenNext, Next, Kernel, Loop, Callbacks, Ready,
    BackendDrained, EventsDrained, EndLoop, ShutDown, LoopIdle, RosMessage, HandopAction,
    HandopTwist, QueueTwist, controllers, queues, machine

(* Every controller that gains the joints has been warmed up since it was  *)
(* last stopped, unless the request for the switch was overtaken.          *)
THEOREM ColdOnlyIfOvertaken == OvertakenSpec => WarmUnlessOvertaken
<1>1. OvertakenInit => IInv /\ RequestMeansWarm
  BY InitIInv DEF OvertakenInit, Init, RequestMeansWarm, SwitchRequested, Switching
<1>2. IInv /\ RequestMeansWarm /\ [OvertakenNext]_<<vars, overtaken>>
        => (IInv /\ RequestMeansWarm)'
  <2>1. CASE OvertakenNext
    BY <2>1, StepIInv, StepRequest DEF OvertakenNext
  <2>2. CASE UNCHANGED <<vars, overtaken>>
    <3>1. IInv => IInv'
      BY <2>2, StepIInv
    <3>2. RequestMeansWarm => RequestMeansWarm'
      BY <2>2 DEF RequestMeansWarm, SwitchRequested, Switching, vars, queues,
        controllers, machine
    <3> QED
      BY <3>1, <3>2
  <2> QED
    BY <2>1, <2>2
<1>3. IInv /\ RequestMeansWarm /\ [OvertakenNext]_<<vars, overtaken>>
        => [current' # current /\ ~overtaken => warm'[current']]_<<vars, overtaken>>
  <2> SUFFICES ASSUME IInv, RequestMeansWarm, Next, current' # current, ~overtaken
               PROVE  warm'[current']
    BY DEF OvertakenNext
  <2>0. MachineInv
    BY MachineFromIInv
  <2>1. CASE TakeBackend \/ TakeRosEvent \/ TakeKernelEvent
    BY <2>0, <2>1, TakesFromQueue, HandleEventHandsToWarm DEF RequestMeansWarm
  <2>2. CASE FallCheck
    BY <2>0, <2>2, PoliciesAssumption DEF FallCheck, EnableBeyondMimicRecovery,
      AlreadyBeyondMimic, BecomeBeyondMimic, MachineInv, MachineTypes, controllers
  <2> QED
    BY <2>1, <2>2 DEF Next, Kernel, Loop, Callbacks, Ready, BackendDrained,
      EventsDrained, EndLoop, ShutDown, LoopIdle, LoopInitPose, StepRunning,
      LoopSwitching, RosMessage, HandopAction, HandopTwist, QueueTwist, controllers
<1> QED
  BY <1>1, <1>2, <1>3, PTL DEF OvertakenSpec, WarmUnlessOvertaken

=============================================================================
