---------------------------- MODULE RobotLinkProofs ----------------------------
(***************************************************************************)
(* Proofs about RobotLink, for every robot, timeout and number of periods. *)
(***************************************************************************)
EXTENDS RobotLink, FiniteSetTheorems, WellFoundedInduction, TLAPS

(* A non-empty set of natural numbers has a least element, so that Min     *)
(* denotes it.                                                             *)
LEMMA MinIsThere ==
  ASSUME NEW S \in SUBSET Nat, S # {}
  PROVE  Min(S) \in S /\ \A n \in S : Min(S) <= n
<1> DEFINE Below(n) == 0 .. n - 1
           Family == {Below(n) : n \in S}
           Order == StrictSubsetOrdering(Nat)
<1>1. IsWellFoundedOn(Order, FiniteSubsetsOf(Nat))
  BY FS_StrictSubsetOrderingWellFounded
<1>2. Family \subseteq FiniteSubsetsOf(Nat) /\ Family # {}
  <2>1. ASSUME NEW n \in S PROVE Below(n) \in FiniteSubsetsOf(Nat)
    <3>1. IsFiniteSet(Below(n))
      BY FS_Interval
    <3> QED
      BY <3>1 DEF FiniteSubsetsOf
  <2> QED
    BY <2>1
<1>3. PICK A \in Family : \A B \in Family : ~(<<B, A>> \in Order)
  <2> HIDE DEF Family, Order
  <2> QED
    BY <1>1, <1>2, WFMin
<1>4. PICK m \in S : A = Below(m)
  OBVIOUS
<1>5. ASSUME NEW n \in S PROVE m <= n
  <2>1. ~(<<Below(n), Below(m)>> \in Order)
    BY <1>3, <1>4
  <2>2. Below(n) \in SUBSET Nat /\ Below(m) \in SUBSET Nat
    OBVIOUS
  <2>3. ~(Below(n) \subseteq Below(m) /\ Below(n) # Below(m))
    BY <2>1, <2>2 DEF StrictSubsetOrdering
  <2>4. ASSUME n < m PROVE FALSE
    <3>1. n \in Below(m) /\ n \notin Below(n) /\ Below(n) \subseteq Below(m)
      BY <2>4
    <3> QED
      BY <2>3, <3>1
  <2> QED
    BY <2>4
<1> QED
  BY <1>5 DEF Min

(* So has a set of indices of a sequence a greatest one, so that Max does. *)
LEMMA MaxIsThere ==
  ASSUME NEW N \in Nat, NEW S \in SUBSET (1..N), S # {}
  PROVE  Max(S) \in S
<1> DEFINE T == {n \in Nat : N - n \in S}
<1>1. T # {}
  <2>1. PICK s \in S : TRUE
    OBVIOUS
  <2>2. N - s \in Nat /\ N - (N - s) = s
    OBVIOUS
  <2> QED
    BY <2>1, <2>2
<1>2. Min(T) \in T /\ \A n \in T : Min(T) <= n
  BY <1>1, MinIsThere
<1> DEFINE m == N - Min(T)
<1>3. m \in S
  BY <1>2
<1>4. ASSUME NEW s \in S PROVE m >= s
  <2>1. N - s \in Nat /\ N - (N - s) = s
    OBVIOUS
  <2>2. Min(T) <= N - s
    BY <1>2, <2>1
  <2> QED
    BY <1>2, <2>2
<1> HIDE DEF m
<1> QED
  BY <1>3, <1>4 DEF Max

-----------------------------------------------------------------------------
(* The look-up of the motors.                                              *)

\* A joint that is found has a cell; one that is not keeps what it had.
LEMMA FoundIsCell ==
  ASSUME NEW n, NEW j
  PROVE  Found(n, j) \in Cells \cup {dds_motor_index_[j]}
  BY LinkAssumption, MinIsThere DEF Found

\* A cell belongs to a device that writes it, or to nobody.
LEMMA OwnerWrites ==
  ASSUME NEW index, NEW c
  PROVE  \/ /\ Owner(index, c) = Nobody
            /\ \A j \in Joints : index[j] # c
         \/ /\ Owner(index, c) \in Joints
            /\ index[Owner(index, c)] = c
<1> DEFINE writers == {i \in DOMAIN Devices : index[Devices[i]] = c}
<1>1. DOMAIN Devices = 1..Len(Devices) /\ Len(Devices) \in Nat
  BY LinkAssumption
<1>2. CASE writers = {}
  BY <1>2 DEF Owner, Joints
<1>3. CASE writers # {}
  <2>1. Max(writers) \in writers
    BY <1>1, <1>3, MaxIsThere
  <2> QED
    BY <1>3, <2>1 DEF Owner, Joints
<1> QED
  BY <1>2, <1>3

\* The bridge reports each joint in its own cell.
LEMMA CellsOfJoints ==
  ASSUME NEW n, n # 0, NEW j \in Joints
  PROVE  ModelId(n, CellOf[j]) = j
  BY LinkAssumption DEF ModelId

(* In real robot data every joint is found in a cell that reports it.      *)
LEMMA FoundReports ==
  ASSUME NEW n, n # 0, NEW j \in Joints
  PROVE  Found(n, j) \in Cells /\ ModelId(n, Found(n, j)) = j
<1> DEFINE matches == {c \in Cells : ModelId(n, c) = j}
<1>1. CellOf[j] \in matches
  BY CellsOfJoints, LinkAssumption
<1>2. Min(matches) \in matches
  BY <1>1, MinIsThere, LinkAssumption
<1> QED
  BY <1>1, <1>2 DEF Found

-----------------------------------------------------------------------------
(* Types.                                                                  *)

\* A command published gets the next number, and every number is one of a command.
LEMMA PublishTypes ==
  ASSUME CommandTypes, NEW m \in Command, Publish(m), UNCHANGED <<bridge, msg, ros, ctrl>>
  PROVE  CommandTypes'
<1>1. /\ issued' \in Seq(Command)
      /\ Len(issued) \in Nat
      /\ Len(issued') = Len(issued) + 1
  BY DEF CommandTypes, Publish
<1>2. /\ c_current' \in 0..Len(issued') /\ c_newest' \in 0..Len(issued')
      /\ c_handed' \in 0..Len(issued') /\ c_fresh' \in BOOLEAN
  <2>1. CASE UNCHANGED cmds
    BY <1>1, <2>1 DEF CommandTypes, cmds
  <2>2. CASE c_newest' = Len(issued') /\ Cmd!Arrive
    BY <1>1, <2>2 DEF CommandTypes, Cmd!Arrive
  <2> QED
    BY <2>1, <2>2 DEF Publish
<1>3. ctrl' \in [Joints -> 0..Len(issued')]
  BY <1>1 DEF CommandTypes
<1> QED
  BY <1>1, <1>2, <1>3 DEF CommandTypes

\* The bounds of the two clocks.
LEMMA Limits == AgeLimit \in Nat /\ CheckEvery \in Nat \ {0} /\ Timeout \in Nat
  BY LinkAssumption DEF AgeLimit

\* The types hold initially.
LEMMA InitTypes == Init => TypeOK
<1> SUFFICES ASSUME Init PROVE TypeOK
  OBVIOUS
<1>1. ctrl_cmd_msg_ \in Command
  BY DEF Init, Command, AllCells
<1>2. KernelTypes
  BY <1>1 DEF Init, KernelTypes, Data!SlotInit
<1>3. issued \in Seq(Command) /\ Len(issued) = 0
  BY DEF Init
<1>4. CommandTypes
  <2>1. ctrl \in [Joints -> 0..Len(issued)]
    BY <1>3 DEF Init, NoTorque
  <2>2. c_current = 0 /\ c_newest = 0 /\ c_handed = 0 /\ msg = 0 /\ ros = 0
    BY DEF Init, Cmd!SlotInit
  <2>3. c_fresh \in BOOLEAN /\ bridge \in {"poll", "forward"}
    BY DEF Init, Cmd!SlotInit
  <2> QED
    BY <1>3, <2>1, <2>2, <2>3 DEF CommandTypes
<1>5. NodeTypes
  <2>1. age = 0 /\ since_check = 0
    BY DEF Init
  <2>2. age \in 0..AgeLimit /\ since_check \in 0..CheckEvery
    BY <2>1, Limits
  <2>3. loaded \in BOOLEAN /\ has_actuator_cmd_ \in BOOLEAN
    BY DEF Init
  <2> QED
    BY <2>2, <2>3 DEF NodeTypes
<1> QED
  BY <1>2, <1>4, <1>5 DEF TypeOK

\* Every step preserves the types.
LEMMA StepTypes == TypeOK /\ [Next]_vars => TypeOK'
<1> SUFFICES ASSUME KernelTypes, CommandTypes, NodeTypes, [Next]_vars
             PROVE  KernelTypes' /\ CommandTypes' /\ NodeTypes'
  BY DEF TypeOK
<1> USE DEF kernel, modes, data, cmds, node
<1>1. CASE MotorReset
  <2>1. ctrl_cmd_msg_' \in Command
    BY <1>1 DEF MotorReset, AllCells, KernelTypes, Command
  <2>2. KernelTypes'
    BY <1>1, <2>1 DEF MotorReset, KernelTypes
  <2>3. CommandTypes'
    BY <1>1, <2>1, PublishTypes DEF MotorReset
  <2>4. NodeTypes'
    BY <1>1 DEF MotorReset, NodeTypes
  <2> QED
    BY <2>2, <2>3, <2>4
<1>2. CASE MotorCostomMode
  <2>1. ctrl_cmd_msg_' \in Command
    BY <1>2 DEF MotorCostomMode, AllCells, KernelTypes, Command
  <2>2. KernelTypes'
    BY <1>2, <2>1 DEF MotorCostomMode, KernelTypes
  <2>3. CommandTypes'
    BY <1>2, <2>1, PublishTypes DEF MotorCostomMode
  <2>4. NodeTypes'
    BY <1>2 DEF MotorCostomMode, NodeTypes
  <2> QED
    BY <2>2, <2>3, <2>4
<1>3. CASE WaitingForSystemReady
  <2>1. KernelTypes'
    BY <1>3 DEF WaitingForSystemReady, KernelTypes
  <2>2. CommandTypes'
    BY <1>3 DEF WaitingForSystemReady, CommandTypes
  <2>3. NodeTypes'
    BY <1>3 DEF WaitingForSystemReady, NodeTypes
  <2> QED
    BY <2>1, <2>2, <2>3
<1>4. CASE UpdateDevices
  <2>1. ctrl_cmd_msg_' \in Command
    BY <1>4, OwnerWrites DEF UpdateDevices, KernelTypes, Command
  <2>2. dds_motor_index_' \in [Joints -> Cells \cup {Outside}]
    BY <1>4, FoundIsCell DEF UpdateDevices, KernelTypes
  <2>3. KernelTypes'
    BY <1>4, <2>1, <2>2 DEF UpdateDevices, UpdateRobotData, Data!Hand, KernelTypes
  <2>4. CommandTypes' /\ NodeTypes'
    BY <1>4 DEF UpdateDevices, CommandTypes, NodeTypes
  <2> QED
    BY <2>3, <2>4
<1>5. CASE ReadBus
  <2>1. KernelTypes'
    BY <1>5 DEF ReadBus, UpdateRobotData, Data!Hand, KernelTypes
  <2>2. CommandTypes'
    BY <1>5 DEF ReadBus, UpdateRobotData, Data!Hand, CommandTypes
  <2>3. NodeTypes'
    BY <1>5 DEF ReadBus, UpdateRobotData, Data!Hand, NodeTypes
  <2> QED
    BY <2>1, <2>2, <2>3
<1>6. CASE WriteBus
  <2>1. ctrl_cmd_msg_' \in Command
    BY <1>6 DEF WriteBus, KernelTypes, Command
  <2>2. KernelTypes'
    BY <1>6, <2>1 DEF WriteBus, KernelTypes
  <2>3. CommandTypes'
    <3>1. CASE publishing_enabled_
      BY <1>6, <2>1, <3>1, PublishTypes DEF WriteBus
    <3>2. CASE ~publishing_enabled_
      BY <1>6, <3>2 DEF WriteBus, CommandTypes
    <3> QED
      BY <3>1, <3>2
  <2>4. NodeTypes'
    BY <1>6 DEF WriteBus, NodeTypes
  <2> QED
    BY <2>2, <2>3, <2>4
<1>7. CASE ShutDown
  <2>1. ctrl_cmd_msg_' \in Command
    BY <1>7 DEF ShutDown, KernelTypes, Command
  <2>2. KernelTypes'
    BY <1>7, <2>1 DEF ShutDown, KernelTypes
  <2>3. CommandTypes'
    BY <1>7, <2>1, PublishTypes DEF ShutDown
  <2>4. NodeTypes'
    BY <1>7 DEF ShutDown, NodeTypes
  <2> QED
    BY <2>2, <2>3, <2>4
<1>8. CASE RobotData
  <2>1. KernelTypes'
    BY <1>8 DEF RobotData, Data!Arrive, KernelTypes
  <2>2. CommandTypes'
    BY <1>8 DEF RobotData, Data!Arrive, CommandTypes
  <2>3. NodeTypes'
    BY <1>8 DEF RobotData, Data!Arrive, NodeTypes
  <2> QED
    BY <2>1, <2>2, <2>3
<1>9. CASE EmptySlot
  <2>1. KernelTypes'
    BY <1>9 DEF EmptySlot, Data!Empty, Cmd!Empty, KernelTypes
  <2>2. CommandTypes'
    BY <1>9 DEF EmptySlot, Data!Empty, Cmd!Empty, CommandTypes
  <2>3. NodeTypes'
    BY <1>9 DEF EmptySlot, Data!Empty, Cmd!Empty, NodeTypes
  <2> QED
    BY <2>1, <2>2, <2>3
<1>10. CASE TakeCommand
  <2>1. KernelTypes'
    BY <1>10 DEF TakeCommand, Cmd!Hand, KernelTypes
  <2>2. CommandTypes'
    BY <1>10 DEF TakeCommand, Cmd!Hand, CommandTypes
  <2>3. NodeTypes'
    BY <1>10 DEF TakeCommand, Cmd!Hand, NodeTypes
  <2> QED
    BY <2>1, <2>2, <2>3
<1>11. CASE PublishActuatorCommands
  <2>1. KernelTypes'
    BY <1>11 DEF PublishActuatorCommands, KernelTypes
  <2>2. CommandTypes'
    BY <1>11 DEF PublishActuatorCommands, CommandTypes
  <2>3. NodeTypes'
    BY <1>11 DEF PublishActuatorCommands, NodeTypes
  <2> QED
    BY <2>1, <2>2, <2>3
<1>12. CASE LoadModel
  <2>1. KernelTypes'
    BY <1>12 DEF LoadModel, NoTorque, KernelTypes
  <2>2. CommandTypes'
    BY <1>12 DEF LoadModel, NoTorque, CommandTypes
  <2>3. NodeTypes'
    BY <1>12 DEF LoadModel, NoTorque, NodeTypes
  <2> QED
    BY <2>1, <2>2, <2>3
<1>13. CASE ActuatorCmdCallback
  <2>1. KernelTypes'
    BY <1>13 DEF ActuatorCmdCallback, AgeLimit, KernelTypes
  <2>2. CommandTypes'
    BY <1>13 DEF ActuatorCmdCallback, CommandTypes
  <2>3. NodeTypes'
    <3>1. age' \in {0, age} /\ UNCHANGED <<loaded, since_check>>
      BY <1>13 DEF ActuatorCmdCallback
    <3>2. has_actuator_cmd_' \in BOOLEAN
      BY <1>13 DEF ActuatorCmdCallback, NodeTypes
    <3> QED
      BY <3>1, <3>2, Limits DEF NodeTypes
  <2> QED
    BY <2>1, <2>2, <2>3
<1>14. CASE DropOldMessage
  <2>1. KernelTypes'
    BY <1>14 DEF DropOldMessage, NoTorque, KernelTypes
  <2>2. CommandTypes'
    BY <1>14 DEF DropOldMessage, NoTorque, CommandTypes
  <2>3. NodeTypes'
    <3>1. has_actuator_cmd_' \in BOOLEAN
      BY <1>14 DEF DropOldMessage, NodeTypes
    <3>2. since_check' = 0 /\ UNCHANGED <<loaded, age>>
      BY <1>14 DEF DropOldMessage
    <3> QED
      BY <3>1, <3>2, Limits DEF NodeTypes
  <2> QED
    BY <2>1, <2>2, <2>3
<1>15. CASE Tick
  <2>1. KernelTypes'
    BY <1>15 DEF Tick, KernelTypes
  <2>2. CommandTypes'
    BY <1>15 DEF Tick, CommandTypes
  <2>3. NodeTypes'
    BY <1>15, Limits DEF Tick, NodeTypes
  <2> QED
    BY <2>1, <2>2, <2>3
<1>16. CASE UNCHANGED vars
  BY <1>16 DEF vars, KernelTypes, CommandTypes, NodeTypes
<1> QED
  BY <1>1, <1>2, <1>3, <1>4, <1>5, <1>6, <1>7, <1>8, <1>9, <1>10, <1>11, <1>12, <1>13, <1>14, <1>15, <1>16 DEF Next, Kernel, Bridge

(* Every variable has its type, for every robot; in particular a command   *)
(* names only joints of the robot and only commands that were published    *)
(* are on their way.                                                       *)
THEOREM TypeCorrect == Spec => []TypeOK
  BY InitTypes, StepTypes, PTL DEF Spec

-----------------------------------------------------------------------------
(* The watchdog.                                                           *)

\* A motor moves only while the watchdog is armed, and it is never late.
Expiry == Moving => has_actuator_cmd_ /\ loaded /\ age <= Timeout + since_check

\* Every step preserves it.
LEMMA StepExpiry == TypeOK /\ Expiry /\ [Next]_vars => Expiry'
<1> SUFFICES ASSUME KernelTypes, CommandTypes, NodeTypes, Expiry, [Next]_vars
             PROVE  Expiry'
  BY DEF TypeOK
<1>1. CASE UNCHANGED node
  BY <1>1 DEF node, Expiry, Moving
<1>2. CASE LoadModel
  BY <1>2 DEF LoadModel, Expiry, Moving, NoTorque
<1>3. CASE ActuatorCmdCallback
  <2>1. CASE loaded
    BY <1>3, <2>1, Limits DEF ActuatorCmdCallback, Expiry, NodeTypes
  <2>2. CASE ~loaded
    BY <1>3, <2>2 DEF ActuatorCmdCallback, Expiry, Moving
  <2> QED
    BY <2>1, <2>2
<1>4. CASE DropOldMessage
  <2>1. CASE has_actuator_cmd_ /\ age > Timeout /\ loaded
    BY <1>4, <2>1 DEF DropOldMessage, Expiry, Moving, NoTorque
  <2>2. CASE ~(has_actuator_cmd_ /\ age > Timeout /\ loaded)
    <3>1. Moving' => Moving
      BY <1>4, <2>2 DEF DropOldMessage, Moving
    <3>2. Moving => has_actuator_cmd_ /\ loaded /\ age <= Timeout
      BY <2>2, Limits DEF Expiry, NodeTypes
    <3>3. UNCHANGED <<has_actuator_cmd_, loaded, age>> /\ since_check' = 0
      BY <1>4, <2>2 DEF DropOldMessage
    <3>4. age <= Timeout => age <= Timeout + 0
      BY Limits DEF NodeTypes
    <3> QED
      BY <3>1, <3>2, <3>3, <3>4 DEF Expiry
  <2> QED
    BY <2>1, <2>2
<1>5. CASE Tick
  <2>1. Moving' => Moving
    BY <1>5 DEF Tick, Moving
  <2>2. age' <= age + 1 /\ since_check' = since_check + 1
    BY <1>5, Limits DEF Tick, NodeTypes
  <2> QED
    BY <1>5, <2>1, <2>2, Limits DEF Tick, Expiry, NodeTypes
<1> QED
  BY <1>1, <1>2, <1>3, <1>4, <1>5 DEF Next, Kernel, Bridge, MotorReset, MotorCostomMode,
     WaitingForSystemReady, UpdateDevices, ReadBus, WriteBus, ShutDown, RobotData,
     EmptySlot, TakeCommand, PublishActuatorCommands, vars

(* Whatever is lost, no motor is driven by a command older than the        *)
(* timeout and the time to the next check, for every timeout and period of *)
(* the check.                                                              *)
THEOREM Expires == Spec => []ControlsExpire
<1>1. Init => Expiry
  BY DEF Init, Expiry, Moving, NoTorque
<1>2. TypeOK /\ Expiry => ControlsExpire
  BY Limits DEF Expiry, ControlsExpire, TypeOK, NodeTypes
<1> QED
  BY <1>1, <1>2, StepExpiry, TypeCorrect, PTL DEF Spec

-----------------------------------------------------------------------------
(* The devices.                                                            *)

(* Devices updated from real robot data get a motor each, and no other     *)
(* joint's command over their own: for every robot whose joints the bridge *)
(* reports in cells of their own, also with a model_id 0 and with cells    *)
(* that report no joint.                                                   *)
THEOREM EveryJointIsDriven == Spec => EveryJointDriven
<1>1. ASSUME [Next]_vars, pc = "update", pc' = "read", d_current # 0, NEW j \in Joints
      PROVE  /\ dds_motor_index_'[j] \in Cells
             /\ ctrl_cmd_msg_'.owner[dds_motor_index_'[j]] = j
  <2>1. UpdateDevices
    BY <1>1 DEF Next, Kernel, Bridge, MotorReset, MotorCostomMode,
       WaitingForSystemReady, ReadBus, WriteBus, ShutDown, RobotData, EmptySlot,
       TakeCommand, PublishActuatorCommands, LoadModel, ActuatorCmdCallback,
       DropOldMessage, Tick, vars, kernel
  <2>2. \A i \in Joints : dds_motor_index_'[i] = Found(d_current, i)
    BY <2>1 DEF UpdateDevices
  <2> DEFINE c == dds_motor_index_'[j]
             o == Owner(dds_motor_index_', c)
  <2>3. c \in Cells /\ ModelId(d_current, c) = j
    BY <1>1, <2>2, FoundReports
  <2>4. o \in Joints /\ dds_motor_index_'[o] = c
    BY OwnerWrites
  <2>5. o = j
    BY <1>1, <2>2, <2>3, <2>4, FoundReports
  <2> QED
    BY <2>1, <2>3, <2>5 DEF UpdateDevices
<1>2. [Next]_vars => (pc = "update" /\ pc' = "read" /\ d_current # 0 =>
        \A j \in Joints : /\ dds_motor_index_'[j] \in Cells
                          /\ ctrl_cmd_msg_'.owner[dds_motor_index_'[j]] = j)
  BY <1>1
<1> QED
  BY <1>2, PTL DEF Spec, EveryJointDriven

-----------------------------------------------------------------------------
(* Before the robot is heard of.                                           *)

\* Until robot data have arrived no command names a joint, and so none passes the
\* bridge.
Unseen ==
  d_newest = 0 =>
    /\ pc \in {"reset", "custom", "wait"} /\ ~d_fresh
    /\ ctrl_cmd_msg_.owner = AllCells(Nobody)
    /\ \A n \in 1..Len(issued) : issued[n].owner = AllCells(Nobody)
    /\ ros = 0 /\ ctrl = NoTorque

\* A command without joints published among such.
LEMMA PublishUnseen ==
  ASSUME CommandTypes, NEW m, Publish(m), m.owner = AllCells(Nobody),
         \A n \in 1..Len(issued) : issued[n].owner = AllCells(Nobody)
  PROVE  \A n \in 1..Len(issued') : issued'[n].owner = AllCells(Nobody)
<1>1. /\ Len(issued) \in Nat /\ Len(issued') = Len(issued) + 1
      /\ issued'[Len(issued')] = m
      /\ \A n \in 1..Len(issued) : issued'[n] = issued[n]
  BY DEF CommandTypes, Publish
<1> QED
  BY <1>1

\* Every step preserves it.
LEMMA StepUnseen == TypeOK /\ Unseen /\ [Next]_vars => Unseen'
<1> SUFFICES ASSUME KernelTypes, CommandTypes, Unseen, [Next]_vars, d_newest' = 0
             PROVE  Unseen'
  BY DEF TypeOK, Unseen
<1> USE DEF kernel, modes, data, cmds, node
<1>1. d_newest = 0 /\ ~RobotData
  BY DEF Next, Kernel, Bridge, MotorReset, MotorCostomMode, WaitingForSystemReady,
     UpdateDevices, ReadBus, WriteBus, ShutDown, RobotData, EmptySlot, TakeCommand,
     PublishActuatorCommands, LoadModel, ActuatorCmdCallback, DropOldMessage, Tick, vars,
     UpdateRobotData, Data!Hand, Data!Empty, Data!Arrive, KernelTypes
<1>2. /\ pc \in {"reset", "custom", "wait"} /\ ~d_fresh
      /\ ctrl_cmd_msg_.owner = AllCells(Nobody)
      /\ \A n \in 1..Len(issued) : issued[n].owner = AllCells(Nobody)
      /\ ros = 0 /\ ctrl = NoTorque
  BY <1>1 DEF Unseen
<1>3. CASE MotorReset
  <2>1. Publish(ctrl_cmd_msg_') /\ ctrl_cmd_msg_'.owner = AllCells(Nobody)
    BY <1>2, <1>3 DEF MotorReset, KernelTypes, Command
  <2> QED
    BY <1>2, <1>3, <2>1, PublishUnseen DEF MotorReset, Unseen, NoTorque
<1>4. CASE MotorCostomMode
  <2>1. Publish(ctrl_cmd_msg_') /\ ctrl_cmd_msg_'.owner = AllCells(Nobody)
    BY <1>2, <1>4 DEF MotorCostomMode, KernelTypes, Command
  <2> QED
    BY <1>2, <1>4, <2>1, PublishUnseen DEF MotorCostomMode, Unseen, NoTorque
<1>5. CASE EmptySlot
  BY <1>2, <1>5 DEF EmptySlot, Data!Empty, Unseen, NoTorque
<1>6. CASE TakeCommand
  BY <1>2, <1>6 DEF TakeCommand, Unseen, NoTorque
<1>7. CASE PublishActuatorCommands
  <2>1. Actuators(msg) = {}
    <3>1. msg \in 0..Len(issued) /\ Len(issued) \in Nat
      BY DEF CommandTypes
    <3> QED
      BY <1>2, <3>1 DEF Actuators, AllCells
  <2> QED
    BY <1>2, <1>7, <2>1 DEF PublishActuatorCommands, Unseen, NoTorque
<1>8. CASE LoadModel
  BY <1>2, <1>8 DEF LoadModel, Unseen, NoTorque
<1>9. CASE DropOldMessage
  BY <1>2, <1>9 DEF DropOldMessage, Unseen, NoTorque
<1>10. CASE Tick
  BY <1>2, <1>10 DEF Tick, Unseen, NoTorque
<1>11. CASE UNCHANGED vars
  BY <1>2, <1>11 DEF vars, Unseen, NoTorque
<1> QED
  BY <1>1, <1>2, <1>3, <1>4, <1>5, <1>6, <1>7, <1>8, <1>9, <1>10, <1>11 DEF Next, Kernel,
     Bridge, WaitingForSystemReady, UpdateDevices, ReadBus, WriteBus, ShutDown,
     ActuatorCmdCallback

(* No motor moves before the robot has been heard of, whatever the indices *)
(* the joints start with.                                                  *)
THEOREM NothingMovesBefore == Spec => []NothingMovesUnseen
<1>1. Init => Unseen
  BY DEF Init, Unseen, Data!SlotInit
<1>2. TypeOK /\ Unseen => NothingMovesUnseen
  BY DEF TypeOK, KernelTypes, Unseen, NothingMovesUnseen, Moving, NoTorque
<1> QED
  BY <1>1, <1>2, StepUnseen, TypeCorrect, PTL DEF Spec

-----------------------------------------------------------------------------
(* The mode of the motors.                                                 *)

\* No RESET is left in the message by the time it gets its first targets.
Modes ==
  /\ pc \in {"reset", "custom", "wait", "update"} => ~ctrl_cmd_msg_.torque
  /\ pc \notin {"reset", "custom"} => \A c \in Cells : ctrl_cmd_msg_.action[c] # RESET
  /\ \A n \in 1..Len(issued) : issued[n].torque =>
       \A c \in Cells : issued[n].action[c] # RESET

\* A command that resets no motor it moves, published among such.
LEMMA PublishModes ==
  ASSUME CommandTypes, NEW m, Publish(m),
         m.torque => \A c \in Cells : m.action[c] # RESET,
         \A n \in 1..Len(issued) : issued[n].torque =>
           \A c \in Cells : issued[n].action[c] # RESET
  PROVE  \A n \in 1..Len(issued') : issued'[n].torque =>
           \A c \in Cells : issued'[n].action[c] # RESET
<1>1. /\ Len(issued) \in Nat /\ Len(issued') = Len(issued) + 1
      /\ issued'[Len(issued')] = m
      /\ \A n \in 1..Len(issued) : issued'[n] = issued[n]
  BY DEF CommandTypes, Publish
<1>2. ASSUME NEW n \in 1..Len(issued'), issued'[n].torque
      PROVE  \A c \in Cells : issued'[n].action[c] # RESET
  BY <1>1, <1>2
<1> QED
  BY <1>2

\* Every step preserves it.
LEMMA StepModes == TypeOK /\ Modes /\ [Next]_vars => Modes'
<1> SUFFICES ASSUME KernelTypes, CommandTypes, Modes, [Next]_vars PROVE Modes'
  BY DEF TypeOK
<1> USE DEF kernel, modes, data, cmds, node
<1>1. CASE MotorReset
  <2>1. Publish(ctrl_cmd_msg_') /\ ~ctrl_cmd_msg_'.torque
    BY <1>1 DEF MotorReset, KernelTypes, Command, Modes
  <2> QED
    BY <1>1, <2>1, PublishModes DEF MotorReset, Modes
<1>2. CASE MotorCostomMode
  <2>1. /\ Publish(ctrl_cmd_msg_') /\ ~ctrl_cmd_msg_'.torque
        /\ \A c \in Cells : ctrl_cmd_msg_'.action[c] # RESET
    BY <1>2 DEF MotorCostomMode, KernelTypes, Command, Modes, AllCells, RESET, MOVE
  <2> QED
    BY <1>2, <2>1, PublishModes DEF MotorCostomMode, Modes
<1>3. CASE WaitingForSystemReady
  BY <1>3 DEF WaitingForSystemReady, Modes
<1>4. CASE UpdateDevices
  <2>1. /\ ~ctrl_cmd_msg_'.torque
        /\ \A c \in Cells : ctrl_cmd_msg_'.action[c] # RESET
    BY <1>4 DEF UpdateDevices, Modes, IDLE, RESET
  <2> QED
    BY <1>4, <2>1 DEF UpdateDevices, Modes
<1>5. CASE ReadBus
  BY <1>5 DEF ReadBus, Modes
<1>6. CASE WriteBus
  <2>1. \A c \in Cells : ctrl_cmd_msg_'.action[c] # RESET
    BY <1>6 DEF WriteBus, KernelTypes, Command, Modes
  <2>2. CASE Publish(ctrl_cmd_msg_')
    BY <1>6, <2>1, <2>2, PublishModes DEF WriteBus, Modes
  <2>3. CASE UNCHANGED issued
    BY <1>6, <2>1, <2>3 DEF WriteBus, Modes
  <2> QED
    BY <1>6, <2>2, <2>3 DEF WriteBus
<1>7. CASE ShutDown
  <2>1. \A c \in Cells : ctrl_cmd_msg_'.action[c] # RESET
    BY <1>7 DEF ShutDown, KernelTypes, Command, Modes
  <2>2. Publish(ctrl_cmd_msg_')
    BY <1>7 DEF ShutDown
  <2>3. pc' \in {"zero2", "zero3", "done"}
    BY <1>7 DEF ShutDown
  <2> QED
    BY <2>1, <2>2, <2>3, PublishModes DEF Modes
<1>8. CASE UNCHANGED <<kernel, issued>>
  BY <1>8 DEF Modes
<1> QED
  BY <1>1, <1>2, <1>3, <1>4, <1>5, <1>6, <1>7, <1>8 DEF Next, Kernel, Bridge, RobotData,
     EmptySlot, TakeCommand, PublishActuatorCommands, LoadModel, ActuatorCmdCallback,
     DropOldMessage, Tick, vars

(* A command that carries the targets of the control loop resets no motor, *)
(* not even one in a cell that no joint writes.                            *)
THEOREM ResetIsOverByThen == Spec => []ResetIsOver
<1>1. Init => Modes
  BY DEF Init, Modes, AllCells
<1>2. TypeOK /\ Modes => ResetIsOver
  BY DEF TypeOK, CommandTypes, Modes, ResetIsOver
<1> QED
  BY <1>1, <1>2, StepModes, TypeCorrect, PTL DEF Spec

-----------------------------------------------------------------------------
(* The order of the commands.                                              *)

\* The newest command that arrived is in the slot or nothing is.
Slot == c_current \in {0, c_newest} /\ c_handed <= c_newest

\* Every stage holds an older command than the one before, the empty stages aside.
Stages ==
  /\ ros <= c_handed
  /\ \A j \in Joints : ctrl[j] <= c_handed
  /\ ros # 0 => \A j \in Joints : ctrl[j] <= ros
  /\ bridge = "forward" /\ msg # 0 =>
       /\ msg <= c_handed /\ ros <= msg
       /\ \A j \in Joints : ctrl[j] <= msg

\* What does not move the stages.
LEMMA SlotOnly ==
  ASSUME CommandTypes, Slot, Stages, UNCHANGED <<bridge, msg, ros, ctrl, c_handed>>,
         \/ UNCHANGED <<c_current, c_newest>>
         \/ c_newest' \in Nat /\ c_newest' > c_newest /\ c_current' = c_newest'
         \/ c_current' = 0 /\ UNCHANGED c_newest
  PROVE  Slot' /\ Stages'
<1>1. c_handed \in Nat /\ c_newest \in Nat
  BY DEF CommandTypes
<1>2. Slot'
  BY <1>1 DEF Slot
<1>3. Stages'
  BY DEF Stages
<1> QED
  BY <1>2, <1>3

\* Every step preserves both.
LEMMA StepStages == TypeOK /\ Slot /\ Stages /\ [Next]_vars => Slot' /\ Stages'
<1> SUFFICES ASSUME CommandTypes, Slot, Stages, [Next]_vars PROVE Slot' /\ Stages'
  BY DEF TypeOK
<1> USE DEF kernel, modes, data, cmds, node
<1>1. /\ Len(issued) \in Nat /\ c_handed \in Nat /\ c_newest \in Nat /\ ros \in Nat
      /\ msg \in Nat /\ \A j \in Joints : ctrl[j] \in Nat
  BY DEF CommandTypes
<1>2. ASSUME NEW m, Publish(m), UNCHANGED <<bridge, msg, ros, ctrl>>
      PROVE  Slot' /\ Stages'
  BY <1>2, SlotOnly DEF Publish, Cmd!Arrive
<1>3. CASE Kernel
  <2>1. UNCHANGED <<bridge, msg, ros, ctrl>>
    BY <1>3 DEF Kernel, MotorReset, MotorCostomMode, WaitingForSystemReady,
       UpdateDevices, ReadBus, WriteBus, ShutDown
  <2>2. Publish(ctrl_cmd_msg_') \/ UNCHANGED cmds
    BY <1>3 DEF Kernel, MotorReset, MotorCostomMode, WaitingForSystemReady,
       UpdateDevices, ReadBus, WriteBus, ShutDown
  <2> QED
    BY <1>2, <2>1, <2>2, SlotOnly
<1>4. CASE RobotData \/ Tick \/ UNCHANGED vars
  BY <1>4, SlotOnly DEF RobotData, Tick, vars
<1>5. CASE EmptySlot
  BY <1>5, SlotOnly DEF EmptySlot, Data!Empty, Cmd!Empty
<1>6. CASE TakeCommand
  <2>1. /\ c_handed' = IF c_current = 0 THEN c_handed ELSE c_current
        /\ msg' = c_current /\ UNCHANGED <<c_current, c_newest, ros, ctrl>>
    BY <1>6 DEF TakeCommand, Cmd!Hand
  <2>2. c_handed <= c_handed' /\ c_handed' <= c_newest /\ c_handed' \in Nat
    BY <1>1, <2>1 DEF Slot
  <2>3. msg' # 0 => msg' = c_handed'
    BY <2>1
  <2> QED
    BY <1>1, <2>1, <2>2, <2>3 DEF Slot, Stages
<1>7. CASE PublishActuatorCommands
  <2>1. ros' \in {ros, msg} /\ (ros' = msg => msg # 0 \/ ros' = ros)
    BY <1>7 DEF PublishActuatorCommands, Actuators
  <2> QED
    BY <1>1, <1>7, <2>1 DEF PublishActuatorCommands, Slot, Stages
<1>8. CASE LoadModel
  BY <1>1, <1>8 DEF LoadModel, NoTorque, Slot, Stages
<1>9. CASE ActuatorCmdCallback
  <2>1. \A j \in Joints : ctrl'[j] \in {ctrl[j], ros, 0}
    BY <1>9 DEF ActuatorCmdCallback, CommandTypes
  <2>2. ros' = 0 /\ ros # 0 /\ UNCHANGED <<cmds, bridge, msg>>
    BY <1>9 DEF ActuatorCmdCallback
  <2> QED
    BY <1>1, <2>1, <2>2 DEF Slot, Stages
<1>10. CASE DropOldMessage
  <2>1. \A j \in Joints : ctrl'[j] \in {ctrl[j], 0}
    BY <1>10 DEF DropOldMessage, NoTorque
  <2> QED
    BY <1>1, <1>10, <2>1 DEF DropOldMessage, Slot, Stages
<1> QED
  BY <1>3, <1>4, <1>5, <1>6, <1>7, <1>8, <1>9, <1>10 DEF Next, Bridge

(* A motor never returns to an earlier command, over two hops and three    *)
(* one-place buffers any of which may lose what it holds.                  *)
THEOREM InOrder == Spec => CommandsInOrder
<1>1. Init => Slot /\ Stages
  BY DEF Init, Slot, Stages, NoTorque, Cmd!SlotInit
<1>2. ASSUME TypeOK, Stages, [Next]_vars, NEW j \in Joints, ctrl'[j] # 0
      PROVE  ctrl'[j] >= ctrl[j]
  <2>1. ctrl[j] \in Nat /\ ros \in Nat
    BY <1>2 DEF TypeOK, CommandTypes
  <2>2. CASE UNCHANGED ctrl
    BY <2>1, <2>2
  <2>3. CASE ActuatorCmdCallback
    BY <1>2, <2>1, <2>3 DEF ActuatorCmdCallback, Stages, TypeOK, CommandTypes
  <2>4. CASE LoadModel \/ DropOldMessage
    BY <1>2, <2>1, <2>4 DEF LoadModel, DropOldMessage, NoTorque
  <2> QED
    BY <1>2, <2>2, <2>3, <2>4 DEF Next, Kernel, Bridge, MotorReset, MotorCostomMode,
       WaitingForSystemReady, UpdateDevices, ReadBus, WriteBus, ShutDown, RobotData,
       EmptySlot, TakeCommand, PublishActuatorCommands, Tick, vars, node
<1>3. TypeOK /\ Stages /\ [Next]_vars =>
        (\A j \in Joints : ctrl'[j] # 0 => ctrl'[j] >= ctrl[j])
  BY <1>2
<1> QED
  BY <1>1, <1>3, StepStages, TypeCorrect, PTL DEF Spec, CommandsInOrder
=============================================================================
