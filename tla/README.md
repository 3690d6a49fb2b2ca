# Verification of the humanoid control application `efc_app`

TLA+ models, TLC runs and TLAPS proofs for the controller of a humanoid robot and
the way between it and its (simulated) motors: the clients' callbacks and the
queues behind them; the supervisor state machine in `src/user_func.hpp` and the
Bitbot kernel loop that drives it; the policy controllers and the inference
library (`ovinf`) that runs their networks on a second thread; the bus, the DDS
topics, the MuJoCo simulation bridge and the command handling of the MuJoCo node.

    tlc -config Supervisor.cfg Supervisor.tla       # model-check a run
    tlapm SupervisorProofs.tla                      # check the proofs

`PROJECT.json` lists the runs, the theorems, the source lines behind every
definition, and the hazards the properties are for.

## 1. The system

`efc_app` (`src/main.cc`) builds a `Kernel` and registers seven controllers and
a state machine with it. These threads run:

| thread | runs | writes |
|---|---|---|
| kernel | `EfcKernel::doRun`: bus read, backend events, kernel events, one state function, bus write, sleep | everything below except where noted |
| worker, one per policy | `WorkerThread`: a spin on `inference_done_` | `latest_target_`, `last_action_`, the tensor's output |
| ROS spinner | `RosCommandBridge`: velocities and named actions | `events_queue_` of the kernel |
| DDS listeners | `ActCmdHandler`, `TwistHandler`: the operator's hand-held unit | event queue of the backend |
| listeners of the robot link | `SubListener::on_data_available` | the message slots |

The simulation is two more processes. The bridge (`MujocoSimulationBridge`) has
its main thread, `ros_spin_thread_`, `dds_command_thread_` and a signal handler;
the MuJoCo node has an executor that applies commands and runs their watchdog,
and MuJoCo's own render and physics threads.

### Inventory

| component | state | operations | hard behaviour | correct when | module |
|---|---|---|---|---|---|
| Supervisor (`user_func.hpp`) | current/target controller, switching flag and start time, fall counter and trigger time, command | one handler per event, one function per state, `ShouldEnterFallRecovery`, `EnableBeyondMimicRecovery` | BeyondMimic takes over in mid-switch; the switch is committed by an event queued a period earlier; a fall and a command arrive together | one ready owner of the joints, no switch half done, STOP final | `Supervisor`, `PolicyHandover` |
| Kernel (`kernel.hpp`, `efc_kernel.hpp`) | current state, two event queues, stop flag | `HandleEvents`, `HandleEvent`, `doRun`, `stop` | events from three producers; an event legal when sent, illegal when handled | every event handled in a state that knows it; STOP ends the loop | `Supervisor` |
| Policy controllers (`policy_ctr_*.hpp`, gestures) | `ready_`, history, filters, BeyondMimic's trajectory | `Init`, `WarmUp`, `Step`, `Stop` | order of calls is up to the supervisor | WarmUp before Step; stopped when they lose the joints; no target from an earlier activation; a blend that starts where the joints are | `Supervisor` (as seen by it), `PolicyTakeover` |
| Init pose controller | `ready_`, phase | `Init`, `Step` | none of its own | ready whenever stepped | `Supervisor` |
| Asynchronous inference (`ovinf_*.cc`) | `inference_done_`, `input_queue_`, `obs_buffer_`, tensor, `latest_target_` | `WarmUp`, `InferUnsync`, `GetResult`, worker | one atomic is the only guard between two threads, and `last_action_` is read without looking at it | races confined to what cannot reach tensor or target; requests served on the right window; flag returns | `InferenceWorker`, `PolicyNetwork` |
| BeyondMimic inference | the flag, the timestep that the tensor is a view of, the startup blend | `Init`, `WarmUp`, `Step`, `Stop`, worker | timestep and target reset or advanced while the network runs on them; the first frame requested once | one user of the network; targets in order; the dance as long as it should be | `BeyondMimicPolicy` |
| Observation history (`history_buffer.hpp`) | cells, index | `AddObservation`, `Reset`, three readers | wrap-around and mirror | shows the last observations in order | `HistoryBuffer`, `HistoryWindow` |
| ROS bridge, DDS hand operator (`user_func.hpp`, `handop_ui.hpp`) | the map of action codes, rings of 16 and 10 twists, the backend's queue | `RobotActionCallback`, `CmdVelCallback`; `ActCmdHandler`, `TwistHandler` | two producers on a single-producer queue; a ring lapped by its producer while the kernel reads through a pointer; a map that a look-up extends | velocities read whole, events neither lost nor reordered, no STOP that nobody caused | `CommandIngress`, `EventQueue` |
| DDS wrapper (`dds_pubsub.hpp`) | slot, flag, mutex | `Publish`, `on_data_available`, `MessageAvailable`, `GetMessage` | best effort, depth 1; the slot is emptied before a take that may fail | announced if and only if unread; never an older message after a newer | `DdsMailbox`, `LatestMessage` |
| DDS interface, bus, joints (`dds_interface.hpp`, `efc_bus.cc`, `efc_joint.cc`) | the command under construction, motor indices, mode flags | `MotorReset`, `MotorCostomMode`, `UpdateDevices`, `ReadBus`, `WriteBus`, `ShutDown` | one message reused for every mode; first commands before first data; lost messages | every joint its own motor; no reset after custom mode | `RobotLink` |
| Simulation bridge | running flag, three threads, endpoints, mutex | `Start`, `Run`, `Stop`, signal handler; forwarding | `Stop` from a handler on any thread; endpoints tested and used without a lock | endpoints outlive their users; a signal ends it | `SimulationBridge`; forwarding in `RobotLink` |
| MuJoCo node | controls, time of the last command | actuator callback, watchdog, loading | a late command, a reload and a 20 ms timer race with the timeout | no motor driven by an old command; rest after the end | `RobotLink` |
| Kinematics, filters, logging, vendored code | | | floating point and I/O | | not modelled |

How they interact: callbacks call `EmitEvent` (a queue); the kernel thread
handles the queued events through the handlers the supervisor registered, and
these call `Init`/`Stop`/`WarmUp` of controllers; the state functions call
`Step`, which calls `InferUnsync` and `GetResult`; these meet the worker thread
in shared memory; results go through the filters into the joints, which the bus
writes into one DDS message and sends at the end of the period; the bridge takes
it from its slot and publishes it as a ROS message, whose callback in the MuJoCo
node sets the controls. The models meet at named interfaces:

    CommandIngress --EventQueue--> Supervisor --PolicyHandover--> (the joints)
                                   Supervisor calls BeyondMimicPolicy and PolicyTakeover
    PolicyTakeover on PolicyNetwork <== InferenceWorker on HistoryWindow <== HistoryBuffer
    RobotLink = kernel's bus + Slot(robot data) + Slot(commands) + bridge + node,  Slot = LatestMessage <== DdsMailbox
    SimulationBridge: the life of the process whose forwarding RobotLink has

`<==` and `-->` are refinements that a run checks and a theorem proves. `InferenceWorker`
uses of its history what `ObservationHistory` says; that the ring does the same, one
observation after the other, say `DrainsOneByOne` and `PushedInParts`.

## 2. The modules

### `InferenceWorker` (abstract: `PolicyNetwork`)

The protocol between control loop and worker, on `HumanoidStandPolicy`; the
other observation-history policies have the same text. Each read or write of
the flag is a step of its own, and so are the accesses to what the threads share:
`Observe` copies `last_action_` into the observation before the flag is looked at,
`Call` reads the flag, `FillTensor` writes history and tensor, `Release` stores
`false`, `WriteLog` reads the action and the time for the log; the worker's
`WorkerCheck`, `Infer`, `Act`, `Publish`, `WorkerStore` follow one turn of
`WorkerThread`. `Observe` may fall into `Act`: `observed` is the set of requests
whose action the copy then has elements of. The observation of the n-th
call is the number n, so a window is a sequence of call numbers, and a target is
named by the newest observation it was computed from. The history is a sequence
here, and adding to it is `Pushed`, of `ObservationHistory`; that the ring implements
one is `HistoryBuffer`'s business. `accepted`, `offered` and `result` are history variables: the last accepted call, what
`GetResult` would have handed out when the flag was last up, and what it did hand out
last.

`PolicyNetwork` says what the policy promises, and `PolicyTakeover` builds on it: one
request is in flight at a time (`InferUnsync`), what is observed in the meantime waits
in the queue, a target shows up with the end of its request and rests on the window of
that request (`Infer`), and a request may end without one (`Forget`, finding 1).
`NetworkSpec` is the refinement: a call is one step, at the moment it fills the
tensor, and so is a turn of the worker, at its store.

### `HistoryBuffer` (abstract: `HistoryWindow`)

`data_` and `current_index_` exactly as in the class, indices included, for any
buffer size. `HistoryWindow` is the sliding window; the refinement maps the
window to what `GetObsHistory()` returns.

### `BeyondMimicPolicy`

The dance and get-up policy: `PolicyCtrBeyondMimic`, which the kernel thread
calls, and its network `BeyondMimicPolicy` with the worker. It shares the flag
with the other policies but not their discipline: `InferUnsync` moves
`timestep_input_` (`Advance`) before it looks at the flag (`Admit`), the input
tensor is a view of that variable, and `ResetTrajectoryState` and `WarmUp` reset
timestep and target (`ForgetTarget`) without looking at all.

`caller` says where the kernel thread is in a call. `Step` is its beginning;
`Advance`, `Search`, `Admit`, `Release` are `InferUnsync`; `Target` and `Copy`
are the second half with `GetResult` and the blend. A target is named by the
dance whose request it answers and the frame the network saw, so that a late
answer can be told from a fresh one. `last_action_` and the reference pose are
written and reset together with `latest_target_`. `joint_nearest` may choose any
frame of its range; the blend takes any number of calls up to `BlendTime`. The
flag is read once where `GetResult` reads it twice, which is the same with the
worker's steps in between.

`lost` is a history variable: the request for the first frame was refused or undone.

An interesting consequence of the reset without a look at the flag, which is
permitted by the properties here: an answer to the previous dance can land after
the reset and be handed out until the first answer of the new dance.
`TargetsInOrder` says how far that goes: never out of order.

### `PolicyTakeover`

A controller with an observation history over several activations: `PolicyCtrAuto`,
the leg-only, leg-and-waist and 21-joint controllers, which are the case without a
blend, and the three gestures, which have a standing policy of their own under a
timeline. `Enter` is `Init` in the event that enables the policy; `WarmUp` is a
period of policy_switching, `SwitchingEnds` the period that only emits
`PolicySwitch`, `Commit` its handler; `Ask` and `Apply` are the halves of `Step`;
`Leave` is `Stop`, and `Abandon` the arrival of BeyondMimic in mid-switch, which
stops the current controller but not this one. The leg-only and leg-and-waist
controllers do not set their target in `Init`, but in the first `WarmUp`: after
`Enter` it is that of the joints or the old one. The network is a `PolicyNetwork`
(`Request`, `Answer`, `Drop`) that answers within `latency` periods and drops a request
(finding 1; here at any age) `MaxDrops` times in an activation at most. An
observation is named by the activation that made it, a target by the observations
in its window, so that what survives from an earlier activation can be seen.

Switches run their course here. The first policy, which starts from init_pose, and
the switch that is cut short (findings 2 and 3) are in `Supervisor`. Periods are in
time: late ones make the switching time shorter in calls of `WarmUp`.

### `Supervisor` (abstract: `PolicyHandover`)

One period of the kernel thread is a sequence of steps,

    backend --TakeBackend*--> events --TakeRosEvent | TakeKernelEvent*-->
    loop --LoopIdle | LoopInitPose | LoopSwitching | FallCheck, StepRunning-->
    end --EndLoop--> backend   (or shutdown --ShutDown--> done)

and the callbacks (`RosMessage`, `HandopAction`, `HandopTwist`, `QueueTwist`)
interleave with any of them. `HandleEvent` drops an event the state is not
registered for (`Accessible`), else runs its handler, which is one step with all
the calls it makes.

What is abstracted:

- **Time** is a unit that passes at the end of a period, by 1 to `MaxDelay`
  units: a slow loop. `switch_elapsed` and `since_trigger` are the differences
  the code compares, saturated where the comparison no longer changes.
  `switch_elapsed` is meaningless, and kept at 0, while `switching_flag_` is off.
- **The IMU** is `tilted`: does the reading exceed the roll or pitch limit? Any
  value in any period.
- **A policy** is `ready`, `warm` (a WarmUp since the last Stop) and, for
  BeyondMimic, `bm_steps`: the `Step` calls since its WarmUp. `InferUnsync` of
  BeyondMimic advances the timestep before it looks whether the network is busy,
  so the end of the trajectory depends on the number of calls alone: that is
  `FinishedOnTime` in `BeyondMimicPolicy`. `DanceSteps` stands for the settings
  of `src/config/efc.yaml` (`auto_start: true`, no startup blend, a finite
  trajectory longer than its margin).
- **Queues.** The kernel's `events_queue_` is a multi-producer queue that is FIFO
  per producer only, hence `ros_queue` and `kernel_queue`, drained in any
  interleaving. The backend's queue is drained first, before the other.
- **The velocity gate.** `TwistHandler::handle` looks at the kernel's state and
  queues the event later: `HandopTwist`, then `QueueTwist`.
- **An unknown action** from DDS arrives as event 0, which is STOP; from ROS it
  is refused in the callback.
- The six ordinary policies have handlers that differ in the policy only, so
  `EnablePolicy` carries it. Velocity increments and single-axis velocity events
  are registered, but nothing in the repository emits them. The kernel's own idle
  and power-on states are never entered, since `doRun` starts in the user's first
  state.

`PolicyHandover` is the promise about the joints: an owner, perhaps an announced
successor, and three ways for ownership to move: the successor takes over,
BeyondMimic takes over unannounced, or the robot is halted for good.

### `CommandIngress` (abstract: `EventQueue`)

How an action or a velocity becomes an event that the loop handles.
`HandopAction` is `ActCmdHandler::handle`, whose look-up by `operator[]` inserts a
code that is missing with event 0, which is STOP; `RobotAction` is
`RobotActionCallback`, which looks codes up in the same map and refuses what is not
there. A velocity is taken into a cell of its producer's ring (`TakeTwist`), written
in two parts (`WritePart`), and the pointer to the cell is queued (`QueueTwist`); the
loop reads through the pointer in two steps as well (`ReadPart`), so a producer that
has gone round the ring can be seen half-way. The name of a velocity is its number.

Both producers have this text, in two files: `TakeTwist` and `Velocity` are mapped to
the hand operator's lines, `WritePart` and `QueueTwist` to those of the ROS bridge.

The hand operator's two callbacks run on two threads and share a
`ReaderWriterQueue`, which is made for one producer. An enqueue reads the tail
(`EnqueueBegin`), then writes its element into the slot behind it and the new tail
(`EnqueueEnd`). Two that overlap write the same slot, or one takes the tail back over
the other's element, and the queue goes on with what they leave. The kernel thread
looks at the tail when it has taken all that it knew of (`KnownTail`). What it does when
it takes a slot as it is written, or finds the tail behind it, is undefined
(`RunsAway`, phase `"lost"`). `overlapped` remembers the first meeting;
`EventQueue` is the FIFO that `Supervisor` assumes, and `BackendQueueSpec` the
refinement that justifies it until then. An overlap in a block that is full (the queue
then allocates one) is left out. What the events do to the robot is `Supervisor`'s
business: here they are handled by number.

### `DdsMailbox` (abstract: `LatestMessage`)

One topic of the robot link: a best-effort channel of depth 1 that may lose any
message, a listener that empties the slot, takes (perhaps nothing: two samples met
in the cache, or the sample says that a writer has gone) and sets the flag under
the mutex, and a client that looks at the flag without it. `LatestMessage` is the
slot this amounts to: `Arrive`, `Empty`, `Hand`. `MailboxSpec` is the refinement.

### `RobotLink`

From the kernel's period to the simulated motor, composed of two `LatestMessage`
slots (which `DdsMailbox` implements), the start-up, loop and shut-down of
`EfcKernel` with `EfcBus` and `EfcJoint`, the forwarding of
`DdsCommandThread`, the ROS topic, and `actuator_cmd_callback` and
`drop_old_message` of the node. Any message may be lost on any hop, a slot may be
emptied, a model may be loaded anew at any time. A command carries for each motor
cell its action (100, 101, 102) and its owner, the joint that wrote it last:
`dds_motor_index_` is uninitialised in the code until `UpdateModel` finds the joint,
so `Init` lets it be any index, inside the message or out of it (`Outside`). The
names of joints are their `model_id`, because one of them is 0, which is also what
a blank message says.

### `SimulationBridge`

The life of the bridge: `main`, the two threads, and `SignalHandler`, which calls
`Stop` on whatever thread the signal is caught. `PublishRobotData` is in the steps that
matter to it: the test of the publisher, the wait for `data_mutex_` (`Lock`), the time
under it (`Copy`), and the use of the publisher (`Write`). `signalled` says where the
signal was caught; of main's loop, `"between"` is outside a publication and
`"publishing"` between test and use, the mutex not held. A thread under the handler does
not move until it returns; `crashed` is what the code would not survive: a null
pointer used, a joinable `std::thread` destroyed, a thread that joins itself. The
second `Stop` of `Run` and of the destructor find `running_` FALSE.

## 3. What the runs check

| run | config | shows |
|---|---|---|
| `worker` | `BufferSize = 2`, `MaxCalls = 5` | `RacesAreConfined`, `HistoryIsGapless`, the refinement `NetworkSpec`, and `FlagReturns` |
| `accepted` | same | **violated**: `AcceptedIsComputed` |
| `history` | 4 observations, 4 cells | `ReadersAgree`, the refinement `WindowSpec` |
| `beyond_mimic` | 5 frames, margin 1, start at frame 1 or 2 by search (0 if the network is busy), `Decimation = 2`, `BlendTime = 2`, 2 dances | `RequestIsExclusive`, `FinishedOnTime`, `JoinsFirstFrame`, `TargetsInOrder`, `DanceFinishes` |
| `takeover` | `Decimation = 3`, `BufferSize = 2`, 6 periods of switching, a blend or first movement of 8, any latency up to 3, 1 dropped request, 3 activations | `OwnTargets`, `NeverUnheard`, `BlendsFromHeld` |
| `supervisor` | 3 policies, one velocity, `SwitchTime = ConfirmCycles = Cooldown = DanceSteps = MaxDelay = 2`, one message per period | `TargetTracksState`, `SteppedIsReady`, `TimerIsFresh`, `SelfEventsDrained`, `StopIsFinal`, `OutgoingStopped`, `VelocityOnlyWhileRunning`, the refinement `HandoverSpec`; `SwitchCompletes`, `StopHonoured`, `DanceEnds`, `FallIsAnswered` |
| `first_policy`, `successor` | no velocities, no fall recovery | **violated**: `FirstPolicyIsWarm`, `SuccessorIsWarm` |
| `mailbox` | 4 messages, 2 callbacks under way, a client that polls | the refinement `MailboxSpec`, `NothingWaits` |
| `robot_link` | joints 12 and 0, `Timeout = 2`, `CheckEvery = 1`, 2 periods and 1 robot message | `ControlsExpire`, `NothingMovesUnseen`, `ResetIsOver`, `CommandsInOrder`, `EveryJointDriven`, `ComesToRest` |
| `bridge` | no bound | `EndpointsOutliveUsers`, `SignalStops` |
| `ingress` | codes 0 and 1 known, 42 unknown, 2 actions, rings of 2, 3 velocities over ROS and 1 of the hand operator | `ReadsWhatWasSent`, `StopIsAsked`, the refinement `BackendQueueSpec`, `StopArrives` |

What they say together: a command that a client sends arrives at the supervisor as
sent; the supervisor's joints have one ready owner; the network the owner uses has
one user; and what the owner wants reaches its own motors in order and, when
anything on the way is lost or dies, does not outlive the timeout.

Types (`TypeOK`) are in no run, nor are `TensorIsAccepted`, `MirrorIsExact` and
`FlagIsRight`, whose violation the refinements of their runs would come to show, and
`RecoveryIsWarm`: they are proved, for every value of the constants.

Deadlock is checked in `history`, `robot_link` and for `BeyondMimicPolicy`, whose
worker never stops; the other programs really end (the policy is destroyed, the
kernel or the bridge returns) or fall silent (the publisher of `mailbox`).

### Bounds, and why they are enough

- `BufferSize = 2` is the smallest window that has an older and a newer
  observation, and five calls fill it, let two observations wait in
  `input_queue_` and still accept two more requests. The queue is never
  otherwise bounded.
- `HistoryBuffer` is checked at 4 cells of 4 distinguishable observations: the
  first, an inner and the last cell of the ring differ, and the window wraps.
- In `BeyondMimicPolicy` two dances let an answer of the first surface in the
  second; `Decimation = 2` has calls with and without a request; five frames are
  a first, a last, the two a search may choose and one to advance over. A dance
  runs to its end and beyond (`steps` is saturated, not bounded).
- `PolicyTakeover`: three activations are two to leave something behind and one to
  find it. `SwitchingSuffices` says what `OwnTargets` needs: `SwitchPeriods` for all
  requests that push the old window out but the last, one more for each dropped one,
  and a network that answers between two requests. Six periods are exactly enough
  here; with other values of `Decimation` (1 to 3), `BufferSize` (1 to 3) and
  `MaxDrops` (0 and 1) the invariant holds as well, and one period less breaks it in
  most. The settings of `efc.yaml` (0.5 s at 500 Hz are 250 periods, `decimation` 5,
  a history of 15) need 70, and 5 for every drop. `NeverUnheard` has latencies on
  both sides of its condition.
- Three policies are the first one, an ordinary one and BeyondMimic; the other
  ordinary ones are interchangeable with `Walking`. `SwitchTime = 2` and
  `MaxDelay = 2` let a switch take one period or two. `ConfirmCycles = 2` and
  `Cooldown = 2` let a fall be confirmed inside and outside the cool-down.
- `MaxArrivals = 1` message per period. A message that arrives after the queue
  was drained is handled in the next period together with that period's own, so
  two commands do meet in one `HandleEvents`; the findings below need that.
- `FallRecovery = TRUE` has the behaviours of the other setting too, as `tilted`
  may stay false. The findings are shown without it, to show they do not need it.
- `RobotLink`: two joints are an owner and a bystander, and 12 and 0 are the ids
  for which a blank message matters. `MaxPeriods = 2` with the two messages before
  the loop and the three zero commands lets the three one-place buffers hold
  different commands and each be overtaken. One robot message is the first one;
  later ones change no control state. With `Timeout = 2` and `CheckEvery = 1` a
  command can be fresh, old and unchecked, or old and dropped; `age` is saturated
  beyond the largest value compared.
- `DdsMailbox`: four messages with two callbacks under way let one overtake
  another in the cache, in the slot and at the client.
- `CommandIngress`: the ring of two of the ROS bridge is lapped by its third velocity,
  while the loop is between the two parts or before them; the hand operator's ring,
  filled and read by the same actions, is not lapped in the run (the theorem covers
  both, at any size). Two actions and one velocity of the hand operator are enough
  for every way of meeting inside enqueue: one overwrites the other, the tail goes back
  behind the kernel thread, and a STOP comes before, in or after the meeting. 42 stands
  for all codes in no table. `handled` is a set, so the kernel's loop is not bounded.
- `SimulationBridge` is finite as it stands; signals are not bounded.

The theorems of section 4 have none of these bounds.

### Fairness

- `Supervisor!FairSpec`: weak fairness of `Kernel`. The kernel thread is a loop
  without blocking calls other than its sleep. `Ready` has none: `doRun` waits
  for the robot's first data for as long as it takes, and until then a STOP is
  not looked at, which is why `StopHonoured` starts at `pc # "wait"`. Nobody is
  obliged to send anything. `MaxArrivals` is an assumption here: producers slower
  than the kernel. One that refilled the backend's queue faster than
  `HandleEvents` empties it would keep the kernel in that loop for ever.
- `BeyondMimicPolicy!FairSpec`: weak fairness of `Stepping`, since the kernel
  steps the current policy in every period, and of the worker. Nobody is obliged
  to enter or stop the policy, nor to give the command that starts the dance.
- `InferenceWorker!FairSpec`: weak fairness of the worker, a spinning thread, and
  of the steps that complete a call already begun. The control loop is not
  obliged to call. `FlagReturns` accepts a policy that is being destroyed.
- `DdsMailbox!FairSpec`: the DDS library makes the callbacks it owes and the client
  keeps polling. Nobody is obliged to publish, and any message may be lost.
- `RobotLink!FairSpec`: weak fairness of `Tick` and `DropOldMessage`, that is, time
  passes and the node's executor runs its wall timers; `Tick` waits for a timer that
  is due. Nothing is assumed of kernel, bridge or messages: `ComesToRest` needs none.
- `CommandIngress!FairSpec`: an enqueue that was begun ends and the kernel thread
  keeps running.
- `SimulationBridge!FairSpec`: each thread is scheduled. Signals need not come.

`SignalStops` promises a clean end only for a signal that main catches between two
publications, and no more than an end, clean or not, for one on the way to the use of
the publisher. `StopArrives` promises the hand operator's STOP nothing if the velocity
callback enters enqueue while it is being written, if the tail has been taken back
behind the one that the kernel thread knows, or once that thread has handled garbage,
which ends what is known of ROS as well. What goes wrong in these cases is listed in
section 5.
`FallIsAnswered` and `DanceEnds` are conditional on the environment (the robot
stays down; nobody asks for the dance again), not on the code.

## 4. What is proved

TLAPS checks these theorems for every value of the constants, under the named
assumptions of the modules (sizes and times are positive, the policies' names
are distinct).

| module | theorem | property |
|---|---|---|
| `InferenceProofs` | `TypeCorrect`, `RaceFreedom`, `ServesAccepted`, `NothingIsLost`, `ImplementsNetwork` | `TypeOK`, `RacesAreConfined`, `TensorIsAccepted`, `HistoryIsGapless`, `NetworkSpec` |
| `InferenceProofs`, on `HistoryBuffer` | `BufferTypeCorrect`, `Mirrored`, `ReadersConsistent`, `ImplementsWindow`, `DrainsOneByOne`; `PushedInParts` | `BufferTypes`, `MirrorIsExact`, `ReadersAgree`, `WindowSpec`, `ShowsAdded` |
| `TakeoverProofs` | `TypeCorrect`, `TargetsAreOwn`, `HeardInTime`, `BlendsBehindSteps` | `TypeOK` and every property of the run `takeover` |
| `BeyondMimicProofs` | `TypeCorrect`, `NetworkHasOneUser`, `FinishesOnTime`, `NeverGoesBack`, `BlendsToTheStart` | `TypeOK`, `RequestIsExclusive`, `FinishedOnTime`, `TargetsInOrder`, `JoinsFirstFrame` |
| `SupervisorProofs` | `TypeCorrect`, `PointersFollowState`, `NobodyStepsUnready`, `SwitchIsTimedAfresh`, `SelfEventsBounded`, `StopIsForever`, `HandoverStopsOutgoing`, `VelocityIsFrozen`, `ImplementsHandover`; `RecoveryNeverCold`, `ColdOnlyIfOvertaken` | `TypeOK` and every safety property of the run `supervisor`; `RecoveryIsWarm`, `WarmUnlessOvertaken` |
| `MailboxProofs` | `TypeCorrect`, `FlagTellsUnread`, `ImplementsSlot` | `TypeOK`, `FlagIsRight`, `MailboxSpec` |
| `RobotLinkProofs` | `TypeCorrect`, `Expires`, `NothingMovesBefore`, `ResetIsOverByThen`, `InOrder`, `EveryJointIsDriven` | `TypeOK` and every safety property of the run `robot_link` |
| `BridgeProofs` | `TypeCorrect`, `UsersAreGone` | `TypeOK`, `EndpointsOutliveUsers` |
| `IngressProofs` | `TypeCorrect`, `StopsWhenAsked`, `ReadsWhole`, `QueueRefines` | `TypeOK` and every safety property of the run `ingress` |

Each module proves one inductive invariant (`Invariance`), and the rest from it or,
where a property has a story of its own, from a second one on top of it.

- **Inference.** `RacesAreConfined` alone is not inductive: the worker may be on its
  way to store `true` while the caller fills the tensor. `Ownership` adds who
  holds the data where: while the caller fills, releases or copies, the flag is
  up and the worker is only checking or storing; while the worker infers, acts or
  publishes, the flag is down. `Feeding` bounds what the race on `last_action_` can do:
  result handed out `<=` target `<=` action `<=` last accepted request, so an observation
  torn by it has no element older than the result the loop has acted on.
  `Serving` says that from the release on the
  tensor ends with the accepted call, and that the output computed is that call's.
  `NothingIsLost` needs history and queue taken together: one after the other they
  end with the numbers of the last calls, in order, so that the copy from the one
  to the other moves a border and loses nothing. `ImplementsNetwork` rests on all of
  them: that the tensor filled is the window of the call (`HistoryIsWindow`) comes from
  `NothingIsLost`, and `Offering` says that while the flag is down the target is the one
  last offered or that of the request in flight, so that the worker's store is either
  `Infer` or `Forget`, and never a target of a third request.
- **History.** `MirrorIsExact` is inductive with the types. The refinement then
  is arithmetic: the window before and after an observation, on either side of
  the wrap. `DrainsOneByOne` joins this module to the two that write the history in
  one step: with a history variable for what has been added, the induction over the
  length of a queue becomes one over the steps of a behaviour, which the prover can do;
  `PushedInParts` says that a history that was pushed before may be pushed to again.
- **Takeover.** Assumed: `PeriodsAssumption`, `NetworkAssumption`. Three arguments on top
  of the types and of where the kernel thread is (`Periods`). *Heard* compares the age of
  the request with `counter_`: a request in flight is no younger than the call that
  `counter_` counts from, so with a latency of at most `Decimation - 2` the network is
  free when `counter_` comes round, and a `Step` has looked since. *Blend* and *Clock* bound
  time by the calls made: the time of a blend is no more than the `Step` calls since its
  first result, that of a gesture no more than the `WarmUp` and `Step` calls and the period
  that only emits. *Purging* is the one for `OwnTargets`. `Purged(n)` is what n requests of
  this activation have done to what was left behind: the last n observations in history
  and queue are this activation's; after two the queue is empty; once the window is full of
  its own, so is a request in flight, and each further request has brought a target of its
  own or has been dropped. `Requested` counts the requests of a switch from the calls of
  `WarmUp`, so a long enough switch leaves nothing but, at worst, a target that the request
  in flight is sure to replace (`Clean`), which is kept from then on. TLC checked this
  invariant before the proof, for eleven choices of the constants.
- **BeyondMimic.** `TargetsInOrder` is an action property, and what makes it true
  is spread over both threads. `Order` says that a request is never newer than
  the dance, a visible target never newer than the request, and a computed output
  never older than the visible target; the last is kept by `Advance` only because
  a dance starts from frame 0 (`Trajectory`) and the frame grows from there.
  `FinishesOnTime` counts: `OnPace` relates the calls of `Step` so far to the
  requests they have made, one every `Decimation` calls, and the requests to the
  frame; the blend holds both up after the first request and is taken off.
  `BlendsToTheStart` uses `Order` for the time before the frame is chosen, when every
  target of the dance is of frame 0, `Blending` for the time after, when the frame
  stands still until the end of the blend is known, and `Joining` for the request: while
  it has not been lost, what the network computes, has computed and shows is its frame.
- **Supervisor.** The conjunction of `TypeOK` with the four state invariants is
  inductive together with `StepIsRunning` (between fall check and step the state
  is policy_running). None of the four is inductive without the others: that
  `PolicySwitch` hands the joints to a ready controller needs `TargetTracksState`
  and `SteppedIsReady`; that it finds the timer off needs `TimerIsFresh`; and
  that needs `SelfEventsDrained`. The handover refinement uses that an event is
  handled only in a state registered for it. `RecoveryNeverCold` is the counterpart of
  findings 2 and 3: what can happen to the ordinary policies cannot happen to the recovery
  from a fall, because who makes BeyondMimic current warms it up and nobody switches to it.
  `ColdOnlyIfOvertaken` is the converse of finding 3: the history variable `overtaken`
  is set when a `PolicySwitch` still waits in the queue though its switch is over, and
  while it is not set nobody gains the joints cold. `RequestMeansWarm` is inductive
  because the period is timed and the request made only by the state function that also
  warms the new policy up, and no event that leaves the switch in progress touches its
  target.
- **Mailbox.** That the flag is right is inductive only with what a take may find
  (`cache` and `taken` in order) and with the half-done callback, which holds the
  mutex. The refinement maps a take to `Arrive` or to a stutter.
- **Robot link.** Assumed: `LinkAssumption`, of which the proofs use that no two joints
  are reported in one cell and that times are natural numbers. The watchdog needs that
  controls are non-zero only under `has_actuator_cmd_`, and that the age then is at
  most what the last check allowed plus the time since. The order of commands is a
  chain: applied `<=` in ROS `<=` in the bridge's hands `<=` handed `<=` in the slot; one
  link alone is not inductive. That nothing moves unseen follows the owners of the
  commands through the same chain. That each joint drives its own motor rests on the
  least cell with its id being the only one.
- **Bridge.** The invariant says for each place of `Stop` which threads it has joined,
  and of `dds_command_thread_` that it holds the endpoints only before it is joined;
  a handler on that very thread has already crashed in the join. `Undisturbed` says that
  the ROS thread has its node until main is back from the handler, `Unpublished` that
  main is in no publication while its handler runs, if that is where the signal was not.
- **Ingress.** Assumed: `CodesAssumption` (STOP is in the table, known and unknown codes
  differ, none is the code of set_vel_all) and `RingsAssumption` (no ring is empty).
  `Alone`: until two enqueues meet one at most is under way, and the tail it
  has read is still the tail; hence an enqueue appends (`EnqueueAppends`), and the
  refinement. Met or not, an enqueue changes one slot, to its own element
  (`EnqueueWrites`), which is all that the other properties need of the queue. `RingInv`
  says that velocity n + 1 goes into the cell that is n modulo the ring, and what a
  cell holds went there; `PointersInv` that the cell an event points to holds that
  velocity whole or later ones; two velocities of a cell are a whole ring apart
  (`SameCell`), so unless lapped it is that velocity (`ReadInv`). `StopIsAsked` is
  inductive with `MapInv`, which says which entries of the map are STOP.

Only model-checked: liveness (`FlagReturns`, `DanceFinishes`, `NothingWaits`,
`SwitchCompletes`, `StopHonoured`, `DanceEnds`, `FallIsAnswered`, `ComesToRest`,
`SignalStops`, `StopArrives`: fairness and ENABLED are out of the prover's reach). Every
invariant, action property and refinement that a run checks is proved; the three runs that
expect a violation have nothing to prove.
No module declares a recursive operator, and nothing is claimed by induction over
data.

## 5. Findings

1. **A request can be accepted and never run** (`accepted`). `WorkerThread`
   stores `inference_done_ = true` at the end of every turn, also of one that
   found nothing to do (`ovinf_humanoid_stand.cc:242`). A request accepted
   between that turn's check and its store is dropped, though `InferUnsync` has
   returned true, "@return Is inference started immidiately." (`ovinf.hpp:56`).
   The next period asks again, so a control cycle runs on the old target.
2. **The first policy may start cold** (`first_policy`). `RunPolicy` is legal as
   soon as the state is `InitPose`, and both events can be handled in one
   `HandleEvents`: the state function that warms the standing policy up never
   runs. "WarmUp() -> Step() -> Stop()", says `controller_base.hpp:14`.
3. **A left-over `PolicySwitch` commits the wrong switch** (`successor`). The
   event that ends a switch is queued in one period and handled in the next. If
   `EnableBeyondMimicPolicy` and then another `Enable...Policy` are handled
   first, the old event finds `PolicySwitching` again and commits the new target
   at once, without its switching period and its WarmUp.
### Observations that no run reports

Met while modelling. For most no line of the repository promises otherwise, or the
place is outside the models; where a comment does, it is quoted.

- `last_action_` is read by the control loop without a look at the flag
  (`ovinf_humanoid_stand.cc:145`, and `:296` on for the log) while the worker writes it
  (`:239`): a data race on a vector of floats, undefined behaviour. In the runs it does
  happen, and the observation may mix two actions. `RacesAreConfined` says that this and
  the logged inference time are all that the threads race on, and that no element is
  older than the last result.
- The comment at `policy_ctr_beyond_mimic.hpp:173-174` is contradicted: it has the blend
  join frame 0 without a jump because frame 0 is requested once before it, but `Step`
  ignores what `InferUnsync` returns. If the network is busy, or the store of
  finding 1 drops the request, `GetResult` hands out what was there before: the default
  position, or a target of the previous dance; the robot is blended to that and then
  jumps into the dance. `efc.yaml` sets no blend time, so the program as configured does
  not meet it. `JoinsFirstFrame` says that the comment is right unless the request is
  lost, and how far the blend goes wrong then; the cases are reachable in the run
  `beyond_mimic`.
- A signal that main catches in `PublishRobotData` between the test of
  `robot_data_publisher_` (`mujoco_simulation_bridge.cpp:252`) and its use (`:347`),
  outside `data_mutex_`, runs `Stop`, which resets the publisher (`:181`); main then
  dereferences null. `SignalHandler` says "stopping...", and the process is stopped, but
  by the crash: the second half of `SignalStops`.

- `EfcJoint::UpdateModel` sets the action of its motor to 100 (`efc_joint.cc:123`)
  in the message in which `MotorCostomMode` has just asked for 102: the mode request
  survives only in cells no joint writes. `ResetIsOver` shows that at least no 101 does.
- Devices are looked up once, in the message that `WaitingForSystemReady` has seen
  announced; if the slot has been emptied since, the message is blank, and
  `dds_motor_index_` stays uninitialised (`efc_joint.cc:103`, `efc_joint.h:56`).
  `EveryJointDriven` is therefore conditional on a real message.
- A signal caught during `Start`, under `data_mutex_`, or on the ROS, command or a
  library thread of the bridge crashes or hangs it
  (`mujoco_simulation_bridge_main.cpp:17`).
- The hand operator turns an unknown code into STOP (`handop_ui.hpp:114`).
  `StopIsAsked` bounds that: over ROS alone an unknown code stops nothing.
- The two callbacks of the hand operator enqueue into a queue for one producer
  (`handop_ui.hpp:84` and `:114`). Where they meet a STOP may be overwritten, or the tail
  may go back behind the kernel thread, which then handles slots it has emptied before.
  `BackendQueueSpec` says what holds until they meet, `StopArrives` which STOPs
  are safe even so.
- `mujoco_node` deletes its model and data on two threads (`mujoco_node.cpp:797`,
  `:850`), and `Simulate::Load` waits without a timeout for a render thread that may
  have left its loop (`simulate.cc:2243`).
- A gesture starts on its way. `Init` starts the clock of the timeline
  (`head_survey.hpp:59`, `wave_greeting.hpp:66`, `handshake.hpp:65`) and the supervisor
  calls it when the switch begins: 0.5 s later the first `Step` finds a fifth of the
  turn's time gone and sets the head 6% of the way at once, which the filter softens.
  `BlendsFromHeld` allows gestures that much; `PolicyCtrAuto`, which starts its blend
  at the first result, it allows nothing.
- Actions of the hand operator, STOP among them, cross a best-effort topic whose reader
  keeps one sample (`dds_pubsub_data.hpp:153`). `StopArrives` is about those that arrive.
- `InferUnsync` of a `Step` comes before its `GetResult`. A network that takes as long
  as the time between two requests is asked again just before its answer would be
  looked at, and is never heard; hence the condition of `NeverUnheard`.
- What a controller applies in its first `Step` calls may be computed from the zero
  observations of `WarmUp`; `OwnTargets` allows that.
- `docs/software_architecture.md:92` names other DDS domains than `efc.xml` and the
  bridge use.

## 6. Plan

Done: every module of section 2, its runs, and the proofs of all their safety
properties. Next, in this order:

1. Under which order of events the first policy is warm when it steps, as a theorem:
   the positive side of finding 2, as `ColdOnlyIfOvertaken` is that of finding 3.
2. `PolicyTakeover` under `Supervisor`'s switch, so that late periods and the switch
   of finding 3 reach the network.
3. The map of `CommandIngress` with a look-up that is not one step.

## 7. What is not modelled, and why

Floating-point data paths (observations, filters, kinematics, gains, blending):
no control state, and nothing TLC could enumerate. The render and physics threads of
the MuJoCo node are MuJoCo's own sample program `simulate`; of the node only what
stands between a command and a motor is modelled. Logging and monitoring: I/O.
Vendored libraries and generated DDS types, which are most of the repository's
lines (OpenVINO's samples, JSON, zlib, pugixml, lodepng, libuv): taken from their
use, as are the threads, mutexes and queues the models are built on. Set-up and
tear-down of DDS entities; `EnterDampingMode`, which nothing calls.
`GetObsHistory(size)`, the short history: only a test calls it. `PROJECT.json`
lists, per component, what a modelled component leaves out, and each hazard that no
property covers, with the reason.
