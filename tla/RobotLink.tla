------------------------------ MODULE RobotLink ------------------------------
(***************************************************************************)
(* The way of a command from the kernel thread to the simulated motors,    *)
(* and of the first robot data back: EfcKernel's start-up, loop and shut-  *)
(* down with EfcBus and the EfcJoints; the two DDS topics, each a          *)
(* LatestMessage (DdsMailbox implements it); the bridge's command thread;  *)
(* the ROS topic; and the command handling of the MuJoCo node with its     *)
(* watchdog.  Any message may be lost on any hop, and a slot may be        *)
(* emptied, which is also what a restarted bridge looks like.              *)
(*                                                                         *)
(* A joint is named by its model_id.  A command has, for each motor cell,  *)
(* its action and its owner (the joint whose enable, ModelId and targets   *)
(* were written there last, Nobody before that), and asks for torque or    *)
(* not.  Commands are numbered as they are published.                      *)
(***************************************************************************)
EXTENDS Integers, Sequences, FiniteSetsExt

CONSTANTS
  Devices,      \* the joints in the order of efc.xml
  Cells,        \* the cells of motors() in both messages
  CellOf,       \* the cell in which the bridge reports a joint
  Timeout,      \* actuator_cmd_timeout_
  CheckEvery,   \* drop_old_message runs at least this often
  MaxPeriods,   \* bound on the periods of the control loop
  MaxData       \* bound on the robot data messages that arrive

Joints == {Devices[i] : i \in DOMAIN Devices}
Nobody == -1
Outside == -1     \* an index past the end of motors()

IDLE == 100
RESET == 101
MOVE == 102

ASSUME LinkAssumption ==
  /\ Devices \in Seq(Nat) /\ Cells \subseteq Nat
  /\ CellOf \in [Joints -> Cells]
  /\ \A i, j \in Joints : CellOf[i] = CellOf[j] => i = j
  /\ Timeout \in Nat /\ CheckEvery \in Nat \ {0}
  /\ MaxPeriods \in Nat /\ MaxData \in Nat

VARIABLES
  pc,                   \* where the kernel thread is
  motor_reset_done_, publishing_enabled_,
  dds_motor_index_,     \* of each joint; uninitialised until UpdateModel finds it
  robot_data_msg_,      \* the number of the robot data in use, 0 a blank one
  ctrl_cmd_msg_,        \* the command under construction
  issued,               \* all commands published
  d_current, d_fresh, d_newest, d_handed,   \* RobotDataTopic
  c_current, c_fresh, c_newest, c_handed,   \* RobotControlCommandTopic
  bridge, msg,          \* where DdsCommandThread is, the command it works on
  ros,                  \* the command in the actuators_cmds topic, 0 for none
  loaded,               \* sim_->d_ is there
  ctrl,                 \* per joint, the command whose torque is applied, 0 for none
  has_actuator_cmd_,
  age,                  \* time since last_actuator_cmd_time_, saturated
  since_check           \* time since drop_old_message ran

Data == INSTANCE LatestMessage WITH
          current <- d_current, fresh <- d_fresh, newest <- d_newest, handed <- d_handed
Cmd == INSTANCE LatestMessage WITH
          current <- c_current, fresh <- c_fresh, newest <- c_newest, handed <- c_handed

data == <<d_current, d_fresh, d_newest, d_handed>>
cmds == <<c_current, c_fresh, c_newest, c_handed>>
modes == <<motor_reset_done_, publishing_enabled_>>
kernel == <<pc, modes, dds_motor_index_, robot_data_msg_, ctrl_cmd_msg_>>
node == <<loaded, ctrl, has_actuator_cmd_, age, since_check>>
vars == <<kernel, issued, data, cmds, bridge, msg, ros, node>>

AgeLimit == Timeout + CheckEvery + 1

NoTorque == [j \in Joints |-> 0]
AllCells(x) == [c \in Cells |-> x]

Init ==
  /\ pc = "reset"
  /\ motor_reset_done_ = FALSE /\ publishing_enabled_ = FALSE
  /\ dds_motor_index_ \in [Joints -> Cells \cup {Outside}]
  /\ robot_data_msg_ = 0
  /\ ctrl_cmd_msg_ = [action |-> AllCells(0), owner |-> AllCells(Nobody), torque |-> FALSE]
  /\ issued = <<>>
  /\ Data!SlotInit /\ Cmd!SlotInit
  /\ bridge = "poll" /\ msg = 0 /\ ros = 0
  /\ loaded = FALSE /\ ctrl = NoTorque /\ has_actuator_cmd_ = FALSE
  /\ age = 0 /\ since_check = 0

-----------------------------------------------------------------------------
(* The kernel thread.                                                      *)

PublishReordered(m) ==
  /\ issued' = Append(issued, m)
  /\ \/ /\ c_newest' = Len(issued')
        /\ c_current' \in 1..c_newest'
        /\ c_fresh' = TRUE
        /\ UNCHANGED c_handed
     \/ UNCHANGED cmds

\* writer_->write of command m: it reaches the bridge's slot or is lost.
Publish(m) ==
  /\ issued' = Append(issued, m)
  /\ \/ c_newest' = Len(issued') /\ Cmd!Arrive
     \/ UNCHANGED cmds

MotorReset ==
  /\ pc = "reset"
  /\ pc' = "custom"
  /\ ctrl_cmd_msg_' = [ctrl_cmd_msg_ EXCEPT !.action = AllCells(RESET)]
  /\ Publish(ctrl_cmd_msg_')
  /\ motor_reset_done_' = TRUE
  /\ UNCHANGED <<publishing_enabled_, dds_motor_index_, robot_data_msg_, data,
                 bridge, msg, ros, node>>

MotorCostomModeNoWait ==
  /\ pc = "custom"
  /\ pc' = "update"
  /\ ctrl_cmd_msg_' = [ctrl_cmd_msg_ EXCEPT !.action = AllCells(MOVE)]
  /\ Publish(ctrl_cmd_msg_')
  /\ publishing_enabled_' = TRUE
  /\ UNCHANGED <<motor_reset_done_, dds_motor_index_, robot_data_msg_, data,
                 bridge, msg, ros, node>>

MotorCostomModeKeepsAction ==
  /\ pc = "custom"
  /\ pc' = "wait"
  /\ Publish(ctrl_cmd_msg_)
  /\ publishing_enabled_' = TRUE
  /\ UNCHANGED <<motor_reset_done_, dds_motor_index_, robot_data_msg_, ctrl_cmd_msg_,
                 data, bridge, msg, ros, node>>

\* motor_reset_done_ is set by the call before.
MotorCostomMode ==
  /\ pc = "custom"
  /\ pc' = "wait"
  /\ ctrl_cmd_msg_' = [ctrl_cmd_msg_ EXCEPT !.action = AllCells(MOVE)]
  /\ Publish(ctrl_cmd_msg_')
  /\ publishing_enabled_' = TRUE
  /\ UNCHANGED <<motor_reset_done_, dds_motor_index_, robot_data_msg_, data,
                 bridge, msg, ros, node>>

WaitingForSystemReady ==
  /\ pc = "wait"
  /\ d_fresh
  /\ pc' = "update"
  /\ UNCHANGED <<modes, dds_motor_index_, robot_data_msg_, ctrl_cmd_msg_, issued,
                 data, cmds, bridge, msg, ros, node>>

\* DdsInterface::UpdateRobotData.
UpdateRobotData == Data!Hand /\ robot_data_msg_' = d_current

ModelIdIsIndex(n, c) == IF n = 0 THEN 0 ELSE c

\* The ModelId in a cell of robot data n; a blank message has 0 everywhere.
ModelId(n, c) ==
  IF n = 0 THEN 0
  ELSE IF \E j \in Joints : CellOf[j] = c
       THEN CHOOSE j \in Joints : CellOf[j] = c ELSE 0

\* EfcJoint::UpdateModel looks a joint up in robot data n: the first cell
\* with its ModelId, or the index stays what it was.
Found(n, j) ==
  LET matches == {c \in Cells : ModelId(n, c) = j}
  IN  IF matches = {} THEN dds_motor_index_[j] ELSE Min(matches)

\* The device that writes cell c last, when each writes where index says.
Owner(index, c) ==
  LET writers == {i \in DOMAIN Devices : index[Devices[i]] = c}
  IN  IF writers = {} THEN Nobody ELSE Devices[Max(writers)]

UpdateDevices ==
  /\ pc = "update"
  /\ pc' = "read"
  /\ UpdateRobotData
  /\ dds_motor_index_' = [j \in Joints |-> Found(d_current, j)]
  /\ LET owner == [c \in Cells |-> Owner(dds_motor_index_', c)]
     IN  ctrl_cmd_msg_' =
           [action |-> [c \in Cells |-> IF owner[c] = Nobody THEN ctrl_cmd_msg_.action[c]
                                       ELSE IDLE],
            owner  |-> owner,
            torque |-> FALSE]
  /\ UNCHANGED <<modes, issued, cmds, bridge, msg, ros, node>>

\* One period: the bus is read, the state function moves the targets ...
ReadBus ==
  /\ pc = "read"
  /\ Len(issued) < MaxPeriods + 2
  /\ pc' = "write"
  /\ UpdateRobotData
  /\ UNCHANGED <<modes, dds_motor_index_, ctrl_cmd_msg_, issued, cmds, bridge, msg,
                 ros, node>>

\* ... and every joint writes its targets into its cell.
WriteBus ==
  /\ pc = "write"
  /\ pc' = "read"
  /\ ctrl_cmd_msg_' = [ctrl_cmd_msg_ EXCEPT !.torque = TRUE]
  /\ \/ publishing_enabled_ /\ Publish(ctrl_cmd_msg_')
     \/ ~publishing_enabled_ /\ UNCHANGED <<issued, cmds>>
  /\ UNCHANGED <<modes, dds_motor_index_, robot_data_msg_, data, bridge, msg, ros,
                 node>>

\* The loop ends: the zero command, three times.  The motors have been reset.
ShutDown ==
  /\ \/ pc = "read" /\ pc' = "zero2"
     \/ pc = "zero2" /\ pc' = "zero3"
     \/ pc = "zero3" /\ pc' = "done"
  /\ ctrl_cmd_msg_' = [ctrl_cmd_msg_ EXCEPT !.torque = FALSE]
  /\ Publish(ctrl_cmd_msg_')
  /\ UNCHANGED <<modes, dds_motor_index_, robot_data_msg_, data, bridge, msg, ros,
                 node>>

-----------------------------------------------------------------------------
(* The bridge: robot data arrive, slots may be emptied, commands go on.    *)

RobotData ==
  /\ d_newest < MaxData
  /\ d_newest' = d_newest + 1
  /\ Data!Arrive
  /\ UNCHANGED <<kernel, issued, cmds, bridge, msg, ros, node>>

EmptySlot ==
  /\ \/ Data!Empty /\ UNCHANGED cmds
     \/ Cmd!Empty /\ UNCHANGED data
  /\ UNCHANGED <<kernel, issued, bridge, msg, ros, node>>

TakeCommand ==
  /\ bridge = "poll"
  /\ c_fresh
  /\ Cmd!Hand
  /\ msg' = c_current
  /\ bridge' = "forward"
  /\ UNCHANGED <<kernel, issued, data, ros, node>>

\* The joints command n has an actuator for; a blank command enables none.
Actuators(n) ==
  IF n = 0 THEN {} ELSE {issued[n].owner[c] : c \in Cells} \ {Nobody}

\* Published unless empty, on a best-effort topic of depth 1.
PublishActuatorCommands ==
  /\ bridge = "forward"
  /\ bridge' = "poll"
  /\ \/ Actuators(msg) # {} /\ ros' = msg
     \/ UNCHANGED ros
  /\ UNCHANGED <<kernel, issued, data, cmds, msg, node>>

-----------------------------------------------------------------------------
(* The MuJoCo node.                                                        *)

\* A model is loaded, and at start-up loaded again: fresh mjData.
LoadModel ==
  /\ loaded' = TRUE
  /\ ctrl' = NoTorque
  /\ UNCHANGED <<kernel, issued, data, cmds, bridge, msg, ros, has_actuator_cmd_,
                 age, since_check>>

ActuatorCmdCallbackUnarmed ==
  /\ ros # 0
  /\ ros' = 0
  /\ loaded
  /\ ctrl' = [j \in Joints |->
                IF j \notin Actuators(ros) THEN ctrl[j]
                ELSE IF issued[ros].torque THEN ros ELSE 0]
  /\ age' = 0
  /\ UNCHANGED <<kernel, issued, data, cmds, bridge, msg, loaded, since_check,
                 has_actuator_cmd_>>

ActuatorCmdCallback ==
  /\ ros # 0
  /\ ros' = 0
  /\ \/ /\ loaded
        /\ ctrl' = [j \in Joints |->
                      IF j \notin Actuators(ros) THEN ctrl[j]
                      ELSE IF issued[ros].torque THEN ros ELSE 0]
        /\ age' = 0
        /\ has_actuator_cmd_' = TRUE
     \/ /\ ~loaded
        /\ UNCHANGED <<ctrl, age, has_actuator_cmd_>>
  /\ UNCHANGED <<kernel, issued, data, cmds, bridge, msg, loaded, since_check>>

DropOldMessageLate ==
  /\ since_check' = 0
  /\ has_actuator_cmd_' = (has_actuator_cmd_ /\ age <= Timeout + 1)
  /\ ctrl' = IF has_actuator_cmd_' THEN ctrl ELSE NoTorque
  /\ UNCHANGED <<kernel, issued, data, cmds, bridge, msg, ros, loaded, age>>

\* The timer's callback; it may also come early, as its phase is arbitrary.
DropOldMessage ==
  /\ since_check' = 0
  /\ \/ /\ has_actuator_cmd_ /\ age > Timeout /\ loaded
        /\ ctrl' = NoTorque
        /\ has_actuator_cmd_' = FALSE
     \/ /\ ~(has_actuator_cmd_ /\ age > Timeout /\ loaded)
        /\ UNCHANGED <<ctrl, has_actuator_cmd_>>
  /\ UNCHANGED <<kernel, issued, data, cmds, bridge, msg, ros, loaded, age>>

\* Time passes, but the executor is never late for the timer.
Tick ==
  /\ since_check < CheckEvery
  /\ since_check' = since_check + 1
  /\ age' = IF age < AgeLimit THEN age + 1 ELSE age
  /\ UNCHANGED <<kernel, issued, data, cmds, bridge, msg, ros, loaded, ctrl,
                 has_actuator_cmd_>>

-----------------------------------------------------------------------------
Kernel ==
  \/ MotorReset \/ MotorCostomMode \/ WaitingForSystemReady \/ UpdateDevices
  \/ ReadBus \/ WriteBus \/ ShutDown

Bridge == TakeCommand \/ PublishActuatorCommands

Next ==
  \/ Kernel \/ Bridge \/ RobotData \/ EmptySlot
  \/ LoadModel \/ ActuatorCmdCallback \/ DropOldMessage \/ Tick

Spec == Init /\ [][Next]_vars

\* Time passes and the node's executor runs its timers.  Nothing is assumed of
\* the kernel, of the bridge or of any message.
FairSpec == Spec /\ WF_vars(Tick) /\ WF_vars(DropOldMessage)

-----------------------------------------------------------------------------
Command == [action : [Cells -> {0, IDLE, RESET, MOVE}], owner : [Cells -> Joints \cup {Nobody}],
            torque : BOOLEAN]

KernelTypes ==
  /\ pc \in {"reset", "custom", "wait", "update", "read", "write", "zero2", "zero3", "done"}
  /\ motor_reset_done_ \in BOOLEAN /\ publishing_enabled_ \in BOOLEAN
  /\ dds_motor_index_ \in [Joints -> Cells \cup {Outside}]
  /\ ctrl_cmd_msg_ \in Command
  /\ robot_data_msg_ \in Nat
  /\ d_current \in Nat /\ d_fresh \in BOOLEAN /\ d_newest \in Nat /\ d_handed \in Nat

CommandTypes ==
  /\ issued \in Seq(Command)
  /\ c_current \in 0..Len(issued) /\ c_newest \in 0..Len(issued)
  /\ c_handed \in 0..Len(issued) /\ c_fresh \in BOOLEAN
  /\ msg \in 0..Len(issued) /\ ros \in 0..Len(issued)
  /\ bridge \in {"poll", "forward"}
  /\ ctrl \in [Joints -> 0..Len(issued)]

NodeTypes ==
  /\ loaded \in BOOLEAN /\ has_actuator_cmd_ \in BOOLEAN
  /\ age \in 0..AgeLimit /\ since_check \in 0..CheckEvery

(* Types of the variables. *)
TypeOK == KernelTypes /\ CommandTypes /\ NodeTypes

Moving == \E j \in Joints : ctrl[j] # 0

(* The watchdog: whatever is lost, no motor is driven by a command older   *)
(* than the timeout and the time to the next check.                        *)
ControlsExpire == Moving => age <= Timeout + CheckEvery

(* No motor moves before the robot has been heard of: the commands sent    *)
(* before WaitingForSystemReady enable none.                               *)
NothingMovesUnseen == Moving => d_newest > 0

(* A motor never returns to an earlier command, over two hops and three    *)
(* one-place buffers.                                                      *)
CommandsInOrder == [][\A j \in Joints : ctrl'[j] # 0 => ctrl'[j] >= ctrl[j]]_vars

(* If the devices are updated from real robot data, whatever their indices *)
(* were, every joint gets a motor of its own and no other joint's command  *)
(* is written over its own.                                                *)
EveryJointDriven ==
  [][pc = "update" /\ pc' = "read" /\ d_current # 0 =>
       \A j \in Joints : /\ dds_motor_index_'[j] \in Cells
                         /\ ctrl_cmd_msg_'.owner[dds_motor_index_'[j]] = j]_vars

(* When the kernel has ended the motors come to rest and stay so, though   *)
(* all three zero commands may have been lost.                             *)
ComesToRest == pc = "done" ~> [](~Moving)

(* The kernel reuses one message from the reset on; when it carries the    *)
(* targets of the control loop no cell of it resets a motor any more, not  *)
(* even one that no joint writes.                                          *)
ResetIsOver ==
  \A n \in DOMAIN issued : issued[n].torque =>
    \A c \in Cells : issued[n].action[c] # RESET

=============================================================================
