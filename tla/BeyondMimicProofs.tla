-------------------------- MODULE BeyondMimicProofs --------------------------
(***************************************************************************)
(* Proofs about BeyondMimicPolicy for every trajectory, decimation, kind of*)
(* start and number of dances: the flag separates the two threads where    *)
(* they use the network, targets are handed out in order, the blend joins  *)
(* the starting frame unless its request is lost, and a dance that starts  *)
(* by itself takes as many Step calls as its frames ask for.               *)
(***************************************************************************)
EXTENDS BeyondMimicPolicy, TLAPS

(* What the flag means for each thread, as for the other policies.         *)
Ownership ==
  /\ caller \in {"search", "release", "copy"} => inference_done_
  /\ worker \in {"infer", "publish"} => ~inference_done_

(* Where the trajectory stands: the kernel thread is in a call only of a   *)
(* policy that is ready, and shows frame 0 between WarmUp and the first    *)
(* request.                                                                *)
Trajectory ==
  /\ caller # "idle" => ready_
  /\ caller = "search" => dancing_started_
  /\ (ready_ /\ caller # "warmup" /\ (~dancing_started_ \/ caller = "search"))
       => timestep_input_ = 0

(* t may be handed out after latest_target_. *)
Follows(t) ==
  \/ latest_target_ = DefaultPosition
  \/ t.dance > latest_target_.dance
  \/ t.dance = latest_target_.dance /\ t.frame >= latest_target_.frame

(* Which target is handed out: never one of a later request, nor of a frame*)
(* the running dance has yet to reach; and while a request is unanswered,  *)
(* the target visible is the default or one its answer may follow.         *)
Order ==
  /\ request <= dance
  /\ caller = "warmup" => request < dance
  /\ latest_target_.dance <= request
  /\ (ready_ /\ caller # "warmup" /\ latest_target_.dance = dance)
       => latest_target_.frame <= timestep_input_
  /\ (~inference_done_ /\ worker # "store")
       => \/ latest_target_ = DefaultPosition
          \/ latest_target_.dance < request
          \/ ready_ /\ caller # "warmup" /\ request = dance
  /\ worker = "publish" =>
       /\ output.dance = request
       /\ Follows(output)
       /\ (ready_ /\ request = dance) => output.frame <= timestep_input_

IInv == TypeOK /\ Ownership /\ Trajectory /\ Order

-----------------------------------------------------------------------------
(* The arithmetic of the counters.                                         *)
LEMMA LongestIsNat == LongestDance \in Nat
BY TrajectoryAssumption, ControllerAssumption DEF LongestDance

LEMMA CounterRange ==
  ASSUME NEW n \in Nat
  PROVE  n % Decimation \in 0 .. Decimation - 1
BY ControllerAssumption

LEMMA AtMostRange ==
  ASSUME NEW n \in Nat, NEW bound \in Nat
  PROVE  AtMost(n, bound) \in 0 .. bound
BY DEF AtMost

LEMMA DefaultIsTarget ==
  /\ DefaultPosition \in Targets
  /\ DefaultPosition.dance = 0
  /\ DefaultPosition.frame = 0
BY TrajectoryAssumption, ControllerAssumption
DEF DefaultPosition, Targets, Frames

(* The invariant holds initially. *)
LEMMA InitIInv == Init => IInv
<1> SUFFICES ASSUME Init PROVE IInv
  OBVIOUS
<1> USE DEF Init
<1>1. TypeOK
  <2>1. /\ dance \in 0 .. MaxDances /\ request \in 0 .. MaxDances
        /\ counter_ \in 0 .. Decimation - 1
        /\ blend_elapsed \in 0 .. BlendTime
    BY ControllerAssumption
  <2>2. timestep_input_ \in Frames /\ start_frame \in Frames
    BY TrajectoryAssumption DEF Frames
  <2>3. steps \in 0 .. LongestDance
    BY LongestIsNat
  <2>4. /\ blend_end \in Targets
        /\ latest_target_ \in Targets
        /\ output \in Targets
    BY DefaultIsTarget
  <2>5. QED
    BY <2>1, <2>2, <2>3, <2>4 DEF TypeOK
<1>2. Ownership /\ Trajectory
  BY DEF Ownership, Trajectory
<1>3. Order
  BY DefaultIsTarget DEF Order
<1>4. QED
  BY <1>1, <1>2, <1>3 DEF IInv

(* Every step keeps the types. *)
LEMMA StepTypes == TypeOK /\ [Next]_vars => TypeOK'
<1> SUFFICES ASSUME TypeOK, [Next]_vars PROVE TypeOK'
  OBVIOUS
<1> USE DEF TypeOK, blend, controller, trajectory, shared, network
<1>1. CASE Enter
  <2>1. dance' \in 0 .. MaxDances
    BY <1>1, ControllerAssumption DEF Enter
  <2>2. counter_' \in 0 .. Decimation - 1 /\ steps' \in 0 .. LongestDance
    BY <1>1, ControllerAssumption, LongestIsNat DEF Enter
  <2>3. timestep_input_' \in Frames
    BY <1>1, TrajectoryAssumption DEF Enter, ResetController, ForgetTarget, Frames
  <2>4. latest_target_' \in Targets
    BY <1>1, DefaultIsTarget DEF Enter, ResetController, ForgetTarget
  <2>5. QED
    BY <1>1, <2>1, <2>2, <2>3, <2>4 DEF Enter, ResetController, ForgetTarget
<1>2. CASE WarmUp
  <2>1. counter_' \in 0 .. Decimation - 1
    BY <1>2, CounterRange DEF WarmUp
  <2>2. timestep_input_' \in Frames
    BY <1>2, TrajectoryAssumption DEF WarmUp, ForgetTarget, Frames
  <2>3. latest_target_' \in Targets
    BY <1>2, DefaultIsTarget DEF WarmUp, ForgetTarget
  <2>4. QED
    BY <1>2, <2>1, <2>2, <2>3 DEF WarmUp, ForgetTarget
<1>3. CASE Admit
  BY <1>3 DEF Admit, Return
<1>4. CASE Release
  BY <1>4 DEF Release, Return
<1>5. ASSUME NEW go \in BOOLEAN, Step(go) PROVE TypeOK'
  <2>1. steps' \in 0 .. LongestDance
    BY <1>5, LongestIsNat, AtMostRange DEF Step
  <2>2. counter_' \in 0 .. Decimation - 1
    BY <1>5, CounterRange DEF Step
  <2>3. policy_started_' \in BOOLEAN /\ startup_blending_' \in BOOLEAN
        /\ requested_' \in BOOLEAN
    BY <1>5, ControllerAssumption DEF Step
  <2>4. caller' \in {"advance", "target"}
    BY <1>5 DEF Step
  <2>5. UNCHANGED <<dance, ready_, trajectory, shared, network, first_ready_,
                    blend_end, blend_elapsed, lost>>
    BY <1>5 DEF Step
  <2>6. QED
    BY <2>1, <2>2, <2>3, <2>4, <2>5
<1>6. CASE Advance
  <2>1. AtMost(timestep_input_ + 1, TrajLength - 1) \in Frames
    <3>1. timestep_input_ + 1 \in Nat /\ TrajLength - 1 \in Nat
      BY TrajectoryAssumption DEF Frames
    <3>2. QED
      BY <3>1, AtMostRange DEF Frames
  <2>2. StartupOffset \in Frames
    BY TrajectoryAssumption DEF Frames
  <2>3. QED
    BY <1>6, <2>1, <2>2 DEF Advance
<1>7. CASE Search
  <2>1. timestep_input_' \in Frames /\ start_frame' \in Frames
    BY <1>7, TrajectoryAssumption DEF Search, Frames
  <2>2. QED
    BY <1>7, <2>1 DEF Search
<1>8. CASE Target
  <2>1. blend_elapsed' \in 0 .. BlendTime
    BY <1>8, ControllerAssumption DEF Target
  <2>2. startup_blending_' \in BOOLEAN
    <3>1. \/ startup_blending_' = startup_blending_
          \/ startup_blending_' = (blend_elapsed' < BlendTime)
      BY <1>8 DEF Target
    <3>2. CASE startup_blending_' = startup_blending_
      BY <3>2
    <3>3. CASE startup_blending_' = (blend_elapsed' < BlendTime)
      BY <3>3
    <3>4. QED
      BY <3>1, <3>2, <3>3
  <2>3. caller' \in {"idle", "copy"}
    BY <1>8 DEF Target
  <2>4. UNCHANGED <<requested_, first_ready_, blend_end, lost, controller,
                    trajectory, shared, network>>
    BY <1>8 DEF Target
  <2>5. QED
    BY <2>1, <2>2, <2>3, <2>4
<1>9. CASE Copy
  <2>1. blend_elapsed' \in 0 .. BlendTime
    BY <1>9, ControllerAssumption DEF Copy
  <2>2. QED
    BY <1>9, <2>1 DEF Copy
<1>10. CASE Stop
  <2>1. timestep_input_' \in Frames
    BY <1>10, TrajectoryAssumption DEF Stop, ResetController, ForgetTarget, Frames
  <2>2. latest_target_' \in Targets
    BY <1>10, DefaultIsTarget DEF Stop, ResetController, ForgetTarget
  <2>3. QED
    BY <1>10, <2>1, <2>2 DEF Stop, ResetController, ForgetTarget
<1>11. CASE WorkerCheck
  BY <1>11 DEF WorkerCheck
<1>12. CASE Infer
  BY <1>12 DEF Infer, Targets
<1>13. CASE Publish
  BY <1>13 DEF Publish
<1>14. CASE WorkerStore
  BY <1>14 DEF WorkerStore
<1>15. CASE UNCHANGED vars
  BY <1>15 DEF vars
<1>16. QED
  BY <1>1, <1>2, <1>3, <1>4, <1>5, <1>6, <1>7, <1>8, <1>9, <1>10, <1>11,
     <1>12, <1>13, <1>14, <1>15 DEF Next, Stepping, Worker

(* Every step keeps the ownership and the trajectory.                      *)
LEMMA StepOwnership ==
  TypeOK /\ Ownership /\ Trajectory /\ [Next]_vars => Ownership' /\ Trajectory'
<1> SUFFICES ASSUME TypeOK, Ownership, Trajectory, [Next]_vars
             PROVE  Ownership' /\ Trajectory'
  OBVIOUS
<1> USE DEF TypeOK, Ownership, Trajectory, blend, controller, trajectory,
            shared, network, Return
<1>1. CASE Enter
  BY <1>1 DEF Enter, ResetController, ForgetTarget
<1>2. CASE WarmUp
  BY <1>2 DEF WarmUp, ForgetTarget
<1>3. CASE Admit
  BY <1>3 DEF Admit
<1>4. CASE Release
  BY <1>4 DEF Release
<1>5. ASSUME NEW go \in BOOLEAN, Step(go) PROVE Ownership' /\ Trajectory'
  <2>1. caller = "idle" /\ ready_ /\ caller' \in {"advance", "target"}
    BY <1>5 DEF Step
  <2>2. UNCHANGED <<ready_, trajectory, shared, network>>
    BY <1>5 DEF Step
  <2>3. QED
    BY <2>1, <2>2
<1>6. CASE Advance
  BY <1>6 DEF Advance
<1>7. CASE Search
  BY <1>7 DEF Search
<1>8. CASE Target
  BY <1>8 DEF Target
<1>9. CASE Copy
  BY <1>9 DEF Copy
<1>10. CASE Stop
  BY <1>10 DEF Stop, ResetController, ForgetTarget
<1>11. CASE WorkerCheck
  BY <1>11 DEF WorkerCheck
<1>12. CASE Infer
  BY <1>12 DEF Infer
<1>13. CASE Publish
  BY <1>13 DEF Publish
<1>14. CASE WorkerStore
  BY <1>14 DEF WorkerStore
<1>15. CASE UNCHANGED vars
  BY <1>15 DEF vars
<1>16. QED
  BY <1>1, <1>2, <1>3, <1>4, <1>5, <1>6, <1>7, <1>8, <1>9, <1>10, <1>11,
     <1>12, <1>13, <1>14, <1>15 DEF Next, Stepping, Worker

(* Every step keeps the order of the targets.                              *)
LEMMA StepOrder ==
  IInv /\ TypeOK' /\ [Next]_vars => Order'
<1> SUFFICES ASSUME IInv, TypeOK', [Next]_vars PROVE Order'
  OBVIOUS
<1>0. /\ dance \in Nat /\ request \in Nat /\ timestep_input_ \in Nat
      /\ latest_target_.dance \in Nat /\ latest_target_.frame \in Nat
      /\ output.dance \in Nat /\ output.frame \in Nat
      /\ inference_done_ \in BOOLEAN /\ ready_ \in BOOLEAN
  BY TrajectoryAssumption, ControllerAssumption
  DEF IInv, TypeOK, Targets, Frames
<1> USE <1>0 DEF IInv, Ownership, Trajectory, Order, Follows
<1>1. CASE Enter
  BY <1>1, DefaultIsTarget
  DEF Enter, ResetController, ForgetTarget, network
<1>2. CASE WarmUp
  BY <1>2, DefaultIsTarget DEF WarmUp, ForgetTarget, network
<1>3. CASE Admit
  BY <1>3 DEF Admit, controller, trajectory, shared, network, Return
<1>4. CASE Release
  BY <1>4 DEF Release, controller, trajectory, network, Return
<1>5. ASSUME NEW go \in BOOLEAN, Step(go) PROVE Order'
  <2>1. caller = "idle" /\ caller' # "warmup"
    BY <1>5 DEF Step
  <2>2. UNCHANGED <<dance, ready_, trajectory, shared, network>>
    BY <1>5 DEF Step
  <2>3. QED
    BY <2>1, <2>2 DEF trajectory, shared, network
<1>6. CASE Advance
  <2>1. timestep_input_' >= timestep_input_
    BY <1>6, TrajectoryAssumption DEF Advance, AtMost, TypeOK, Frames
  <2>2. caller # "warmup" /\ caller' # "warmup"
    BY <1>6 DEF Advance
  <2>3. UNCHANGED <<controller, shared, network>> /\ timestep_input_' \in Nat
    BY <1>6 DEF Advance, TypeOK, Frames
  <2>4. QED
    BY <2>1, <2>2, <2>3 DEF controller, shared, network
<1>7. CASE Search
  <2>1. timestep_input_ = 0 /\ timestep_input_' \in Nat
    BY <1>7 DEF Search, TypeOK, Frames
  <2>2. timestep_input_' >= timestep_input_
    BY <2>1
  <2>3. caller # "warmup" /\ caller' # "warmup"
    BY <1>7 DEF Search
  <2>4. UNCHANGED <<controller, shared, network>>
    BY <1>7 DEF Search
  <2>5. QED
    BY <2>1, <2>2, <2>3, <2>4 DEF controller, shared, network
<1>8. CASE Target
  BY <1>8 DEF Target, controller, trajectory, shared, network
<1>9. CASE Copy
  BY <1>9 DEF Copy, controller, trajectory, shared, network
<1>10. CASE Stop
  BY <1>10, DefaultIsTarget
  DEF Stop, ResetController, ForgetTarget, network
<1>11. CASE WorkerCheck
  BY <1>11 DEF WorkerCheck, controller, trajectory, shared
<1>12. CASE Infer
  BY <1>12 DEF Infer, controller, trajectory, shared
<1>13. CASE Publish
  BY <1>13 DEF Publish, controller, trajectory
<1>14. CASE WorkerStore
  BY <1>14 DEF WorkerStore, controller, trajectory
<1>15. CASE UNCHANGED vars
  BY <1>15 DEF vars, controller, trajectory, shared, network
<1>16. QED
  BY <1>1, <1>2, <1>3, <1>4, <1>5, <1>6, <1>7, <1>8, <1>9, <1>10, <1>11,
     <1>12, <1>13, <1>14, <1>15 DEF Next, Stepping, Worker

(* The inductive invariant holds in every reachable state. *)
THEOREM Invariance == Spec => []IInv
<1>1. IInv /\ [Next]_vars => IInv'
  BY StepTypes, StepOwnership, StepOrder DEF IInv
<1>2. QED
  BY InitIInv, <1>1, PTL DEF Spec

(* Type correctness of BeyondMimicPolicy; the frame shown to the network   *)
(* never leaves the trajectory.                                            *)
THEOREM TypeCorrect == Spec => []TypeOK
<1>1. IInv => TypeOK
  BY DEF IInv
<1>2. QED
  BY Invariance, <1>1, PTL

(* The search for a starting frame, the setting of the tensors and the     *)
(* copy of the target never meet the worker running the network.           *)
THEOREM NetworkHasOneUser == Spec => []RequestIsExclusive
<1>1. IInv => RequestIsExclusive
  BY DEF IInv, Ownership, RequestIsExclusive
<1>2. QED
  BY Invariance, <1>1, PTL

(* Whatever the worker reads while the control loop advances or resets the *)
(* trajectory, the targets handed out never go back.                       *)
THEOREM NeverGoesBack == Spec => TargetsInOrder
<1> DEFINE InOrder ==
      \/ latest_target_' = DefaultPosition
      \/ latest_target_'.dance > latest_target_.dance
      \/ /\ latest_target_'.dance = latest_target_.dance
         /\ latest_target_'.frame >= latest_target_.frame
<1>1. IInv /\ [Next]_vars => [InOrder]_vars
  <2> SUFFICES ASSUME IInv, Next PROVE InOrder
    OBVIOUS
  <2>1. latest_target_.frame \in Nat
    BY DEF IInv, TypeOK, Targets, Frames
  <2>2. CASE UNCHANGED latest_target_
    BY <2>1, <2>2
  <2>3. CASE Enter \/ WarmUp \/ Stop
    BY <2>3 DEF Enter, WarmUp, Stop, ResetController, ForgetTarget
  <2>4. CASE Publish
    <3>1. Follows(output) /\ latest_target_' = output
      BY <2>4 DEF Publish, IInv, Order
    <3>2. CASE latest_target_ = DefaultPosition
      <4>1. output.dance \in Nat /\ output.frame \in Nat
        BY DEF IInv, TypeOK, Targets, Frames
      <4>2. QED
        BY <3>1, <3>2, <4>1, DefaultIsTarget
    <3>3. QED
      BY <3>1, <3>2 DEF Follows
  <2>5. QED
    BY <2>2, <2>3, <2>4 DEF Next, Stepping, Worker, Step, Admit, Release,
      Advance, Search, Target, Copy, WorkerCheck, Infer, WorkerStore, shared
<1>2. QED
  BY Invariance, <1>1, PTL DEF Spec, TargetsInOrder

-----------------------------------------------------------------------------
(* The length of a dance, if it starts by itself.                          *)

\* Step calls since the last one that could make a request.
Phase == IF counter_ = 0 THEN Decimation - 1 ELSE counter_ - 1

\* What the blend may shorten the first frame by.
Slack == IF BlendTime = 0 THEN 0 ELSE Decimation - 1

(* In a dance of n Step calls and a requests; a blend holds both up after  *)
(* the first request.                                                      *)
Pace(a, n) ==
  /\ steps = AtMost(n, LongestDance)
  /\ n <= Decimation * a + Phase
  /\ Decimation * a + Phase <= n + Slack
  /\ policy_started_ <=> a >= 1
  /\ a = 0 => n = Phase
  /\ startup_blending_ => a = 1 /\ n = Decimation /\ BlendTime > 0

(* Each request but the first has advanced the frame, or is about to.      *)
Advanced(a) ==
  /\ caller \notin {"advance", "search"} =>
       /\ dancing_started_ <=> a >= 1
       /\ a >= 1 => timestep_input_ = AtMost(start_frame + a - 1, TrajLength - 1)
  /\ caller = "advance" =>
       /\ a >= 1
       /\ dancing_started_ <=> a >= 2
       /\ a >= 2 => timestep_input_ = AtMost(start_frame + a - 2, TrajLength - 1)
  /\ caller = "search" => a = 1 /\ dancing_started_

OnPace ==
  /\ caller = "warmup" => steps = 0
  /\ ready_ /\ caller = "warmup" => ~policy_started_
  /\ ~policy_started_ => ~startup_blending_ /\ ~requested_
  /\ startup_blending_ => requested_
  /\ AutoStart /\ ready_ /\ caller # "warmup" =>
       \E a, n \in Nat : Pace(a, n) /\ Advanced(a)

\* The counter in the next period.
LEMMA NextCounter ==
  ASSUME NEW c \in 0 .. Decimation - 1
  PROVE  /\ (c + 1) % Decimation = IF c + 1 = Decimation THEN 0 ELSE c + 1
         /\ 1 % Decimation = IF Decimation = 1 THEN 0 ELSE 1
<1>1. Decimation \in Nat \ {0}
  BY ControllerAssumption
<1> QED
  BY <1>1

\* The phase after a step.
LEMMA NextPhase ==
  ASSUME TypeOK, counter_' = (counter_ + 1) % Decimation
  PROVE  /\ counter_ # 0 => Phase < Decimation - 1 /\ Phase' = Phase + 1
         /\ counter_ = 0 => Phase = Decimation - 1 /\ Phase' = 0
         /\ Phase \in 0 .. Decimation - 1
         /\ Decimation \in Nat \ {0}
<1>1. counter_ \in 0 .. Decimation - 1 /\ Decimation \in Nat \ {0}
  BY ControllerAssumption DEF TypeOK
<1>2. counter_' = IF counter_ + 1 = Decimation THEN 0 ELSE counter_ + 1
  BY <1>1, NextCounter
<1> QED
  BY <1>1, <1>2 DEF Phase

\* One call more, saturated.
LEMMA OneMore ==
  ASSUME NEW n \in Nat, NEW bound \in Nat
  PROVE  AtMost(AtMost(n, bound) + 1, bound) = AtMost(n + 1, bound)
BY DEF AtMost

\* Step keeps the pace.
LEMMA StepPace ==
  ASSUME IInv, OnPace, AutoStart, NEW go \in BOOLEAN, Step(go)
  PROVE  OnPace'
<1>1. PICK a \in Nat, n \in Nat : Pace(a, n) /\ Advanced(a)
  BY DEF OnPace, Step
<1>2. /\ counter_' = (counter_ + 1) % Decimation /\ UNCHANGED <<dancing_started_, timestep_input_, start_frame>>
      /\ steps' = IF startup_blending_ THEN steps ELSE AtMost(steps + 1, LongestDance)
      /\ caller = "idle" /\ ready_ /\ ready_'
  BY DEF Step, trajectory
<1>3. /\ counter_ # 0 => Phase < Decimation - 1 /\ Phase' = Phase + 1
      /\ counter_ = 0 => Phase = Decimation - 1 /\ Phase' = 0
      /\ Phase \in 0 .. Decimation - 1
      /\ Decimation \in Nat \ {0}
  BY <1>2, NextPhase DEF IInv
<1>4. Slack \in Nat /\ Slack <= Decimation - 1 /\ (BlendTime > 0 => Slack = Decimation - 1)
  BY <1>3, ControllerAssumption DEF Slack
<1>5. steps' = IF startup_blending_ THEN AtMost(n, LongestDance) ELSE AtMost(n + 1, LongestDance)
  BY <1>1, <1>2, OneMore, LongestIsNat DEF Pace
<1>6. Decimation * a \in Nat /\ Decimation * (a + 1) = Decimation * a + Decimation
      /\ Decimation * 1 = Decimation /\ Decimation * 0 = 0
  BY <1>3
<1> DEFINE x == Decimation * a
<1>7. /\ n <= x + Phase /\ x + Phase <= n + Slack
      /\ policy_started_ <=> a >= 1
      /\ a = 0 => n = Phase
      /\ startup_blending_ => a = 1 /\ n = Decimation /\ BlendTime > 0
      /\ dancing_started_ <=> a >= 1
      /\ a >= 1 => timestep_input_ = AtMost(start_frame + a - 1, TrajLength - 1)
  BY <1>1, <1>2 DEF Pace, Advanced
<1>8. CASE counter_ # 0
  <2>1. caller' = "target" /\ UNCHANGED <<policy_started_, startup_blending_, requested_>>
    BY <1>8 DEF Step, blend
  <2> DEFINE m == IF startup_blending_ THEN n ELSE n + 1
  <2>2. m \in Nat /\ steps' = AtMost(m, LongestDance)
    BY <1>5
  <2>3. m <= x + Phase' /\ x + Phase' <= m + Slack
    <3>1. CASE startup_blending_
      <4>1. x = Decimation /\ m = Decimation /\ Slack = Decimation - 1
        <5>1. a = 1 /\ n = Decimation /\ BlendTime > 0
          BY <1>7, <3>1
        <5>2. x = Decimation
          BY <1>6, <5>1
        <5> QED
          BY <1>4, <3>1, <5>1, <5>2
      <4> HIDE DEF x, m
      <4> QED
        BY <1>3, <1>8, <4>1
    <3>2. CASE ~startup_blending_
      BY <1>3, <1>4, <1>6, <1>7, <1>8, <3>2
    <3> QED
      BY <3>1, <3>2
  <2>4. a = 0 => m = Phase'
    BY <1>3, <1>7, <1>8
  <2>5. Pace(a, m)'
    BY <1>7, <2>1, <2>2, <2>3, <2>4 DEF Pace, Slack
  <2>6. Advanced(a)'
    BY <1>2, <1>7, <2>1 DEF Advanced
  <2> QED
    BY <1>2, <2>1, <2>2, <2>5, <2>6 DEF OnPace
<1>9. CASE counter_ = 0
  <2>1. /\ policy_started_'
        /\ startup_blending_' = IF policy_started_ THEN startup_blending_ ELSE BlendTime > 0
        /\ requested_' = (requested_ \/ startup_blending_')
        /\ caller' = IF startup_blending_' => ~requested_ THEN "advance" ELSE "target"
    <3>1. /\ policy_started_' = (policy_started_ \/ AutoStart \/ go)
          /\ startup_blending_' = IF policy_started_ THEN startup_blending_
                                  ELSE policy_started_' /\ BlendTime > 0
          /\ requested_' = (requested_ \/ startup_blending_')
          /\ caller' = IF policy_started_' /\ (startup_blending_' => ~requested_)
                       THEN "advance" ELSE "target"
      BY <1>9 DEF Step
    <3>2. policy_started_'
      BY <3>1
    <3> QED
      BY <3>1, <3>2
  <2>2. CASE startup_blending_
    <3>1. /\ startup_blending_' /\ requested_ /\ requested_' /\ caller' = "target"
          /\ steps' = AtMost(n, LongestDance)
      BY <1>5, <1>7, <2>1, <2>2 DEF OnPace
    <3>2. n <= x + Phase' /\ x + Phase' <= n + Slack
      BY <1>3, <1>4, <1>6, <1>7, <1>9, <2>2
    <3>3. Pace(a, n)'
      BY <1>7, <2>1, <2>2, <3>1, <3>2 DEF Pace, Slack
    <3>4. Advanced(a)'
      BY <1>2, <1>7, <3>1 DEF Advanced
    <3> QED
      BY <1>2, <2>1, <3>1, <3>3, <3>4 DEF OnPace
  <2>3. CASE ~startup_blending_
    <3>1. /\ startup_blending_' => ~policy_started_ /\ BlendTime > 0
          /\ startup_blending_' => requested_' /\ ~requested_
          /\ caller' = "advance" /\ steps' = AtMost(n + 1, LongestDance)
      BY <1>5, <2>1, <2>3 DEF OnPace
    <3>2. /\ n + 1 <= Decimation * (a + 1) + Phase'
          /\ Decimation * (a + 1) + Phase' <= n + 1 + Slack
      BY <1>3, <1>4, <1>6, <1>7, <1>9
    <3>3. startup_blending_' => a + 1 = 1 /\ n + 1 = Decimation /\ BlendTime > 0
      BY <1>3, <1>7, <1>9, <3>1
    <3>4. Pace(a + 1, n + 1)'
      BY <2>1, <3>1, <3>2, <3>3 DEF Pace, Slack
    <3>5. Advanced(a + 1)'
      BY <1>2, <1>7, <3>1 DEF Advanced
    <3> QED
      BY <1>2, <2>1, <3>1, <3>4, <3>5 DEF OnPace
  <2> QED
    BY <2>2, <2>3
<1> QED
  BY <1>8, <1>9

\* Step keeps the blend within a dance that has been asked to begin.
LEMMA StepBlend ==
  ASSUME IInv, OnPace, NEW go \in BOOLEAN, Step(go)
  PROVE  /\ caller' # "warmup"
         /\ ~policy_started_' => ~startup_blending_' /\ ~requested_'
         /\ startup_blending_' => requested_'
<1>1. CASE counter_ # 0
  BY <1>1 DEF Step, blend, OnPace
<1>2. CASE counter_ = 0
  <2>1. /\ policy_started_' = (policy_started_ \/ AutoStart \/ go)
        /\ startup_blending_' = IF policy_started_ THEN startup_blending_
                                ELSE policy_started_' /\ BlendTime > 0
        /\ requested_' = (requested_ \/ startup_blending_')
        /\ caller' \in {"advance", "target"}
    BY <1>2 DEF Step
  <2> QED
    BY <2>1 DEF OnPace
<1> QED
  BY <1>1, <1>2

\* A step that at most ends the blend keeps the pace.
LEMMA OthersPace ==
  ASSUME OnPace,
         UNCHANGED <<ready_, counter_, steps, policy_started_, requested_, trajectory>>,
         startup_blending_' => startup_blending_,
         \/ caller' = caller
         \/ /\ caller \notin {"warmup", "advance", "search"}
            /\ caller' \notin {"warmup", "advance", "search"}
  PROVE  OnPace'
<1>1. /\ caller' = "warmup" <=> caller = "warmup"
      /\ caller' = "advance" <=> caller = "advance"
      /\ caller' = "search" <=> caller = "search"
  OBVIOUS
<1>2. ASSUME NEW a \in Nat, NEW n \in Nat, Pace(a, n), Advanced(a)
      PROVE  Pace(a, n)' /\ Advanced(a)'
  <2>1. Pace(a, n)'
    BY <1>2 DEF Pace, Phase, Slack
  <2>2. Advanced(a)'
    BY <1>1, <1>2 DEF Advanced, trajectory
  <2> QED
    BY <2>1, <2>2
<1> QED
  BY <1>1, <1>2 DEF OnPace

\* WarmUp begins a dance of no Step call and no request.
LEMMA WarmUpPace ==
  ASSUME IInv, OnPace, WarmUp
  PROVE  OnPace'
<1>1. /\ caller' = "admit" /\ steps' = 0 /\ ready_ /\ ready_'
      /\ ~policy_started_' /\ ~startup_blending_' /\ ~requested_'
      /\ counter_' = 1 % Decimation /\ dancing_started_' = FALSE
  BY DEF WarmUp, IInv, Trajectory, OnPace, ForgetTarget, blend
<1>2. Phase' = 0
  <2>1. 0 \in 0 .. Decimation - 1 /\ Decimation \in Nat \ {0}
    BY ControllerAssumption
  <2>2. counter_' = IF Decimation = 1 THEN 0 ELSE 1
    BY <1>1, <2>1, NextCounter
  <2> QED
    BY <2>1, <2>2 DEF Phase
<1>3. Decimation * 0 = 0 /\ Slack \in Nat /\ Slack' = Slack
  BY ControllerAssumption DEF Slack
<1>4. AtMost(0, LongestDance) = 0
  BY LongestIsNat DEF AtMost
<1>5. Pace(0, 0)'
  BY <1>1, <1>2, <1>3, <1>4 DEF Pace
<1>6. Advanced(0)'
  BY <1>1 DEF Advanced
<1> QED
  BY <1>1, <1>5, <1>6 DEF OnPace

\* The frame moves on with every request.
LEMMA AdvancePace ==
  ASSUME IInv, OnPace, Advance \/ Search
  PROVE  OnPace'
<1>1. /\ UNCHANGED <<ready_, counter_, steps, policy_started_, startup_blending_, requested_>>
      /\ caller \in {"advance", "search"} /\ caller' \in {"admit", "search"} /\ ready_
  BY DEF Advance, Search, blend, controller, IInv, Trajectory
<1>2. /\ start_frame \in Nat /\ start_frame <= TrajLength - 1
      /\ timestep_input_ \in Nat /\ TrajLength - 1 \in Nat
  BY TrajectoryAssumption DEF IInv, TypeOK, Frames
<1>3. ASSUME NEW a \in Nat, NEW n \in Nat, Pace(a, n), Advanced(a)
      PROVE  Pace(a, n)' /\ Advanced(a)'
  <2>1. Pace(a, n)'
    BY <1>1, <1>3 DEF Pace, Phase, Slack
  <2>2. CASE Advance /\ dancing_started_
    <3>1. a >= 2 /\ timestep_input_ = AtMost(start_frame + a - 2, TrajLength - 1)
      BY <1>3, <2>2 DEF Advance, Advanced
    <3>2. /\ timestep_input_' = AtMost(timestep_input_ + 1, TrajLength - 1)
          /\ start_frame' = start_frame /\ dancing_started_' /\ caller' = "admit"
      BY <2>2 DEF Advance
    <3>3. timestep_input_' = AtMost(start_frame + a - 1, TrajLength - 1)
      BY <1>2, <3>1, <3>2 DEF AtMost
    <3> QED
      BY <2>1, <3>1, <3>2, <3>3 DEF Advanced
  <2>3. CASE Search \/ (Advance /\ ~dancing_started_)
    <3>1. a = 1 /\ dancing_started_'
      BY <1>3, <2>3 DEF Advance, Search, Advanced
    <3>2. CASE caller' = "search"
      BY <2>1, <3>1, <3>2 DEF Advanced
    <3>3. CASE caller' = "admit"
      <4>1. timestep_input_' = start_frame' /\ start_frame' \in 0 .. TrajLength - 1
        <5>1. CASE Search
          BY <5>1, TrajectoryAssumption DEF Search
        <5>2. CASE Advance /\ ~dancing_started_
          <6>1. timestep_input_' = StartupOffset /\ start_frame' = StartupOffset
            BY <3>3, <5>2 DEF Advance
          <6> QED
            BY <6>1, TrajectoryAssumption
        <5> QED
          BY <2>3, <5>1, <5>2
      <4>2. AtMost(start_frame' + a - 1, TrajLength - 1) = start_frame'
        <5>1. PICK s \in 0 .. TrajLength - 1 : start_frame' = s
          BY <4>1
        <5>2. AtMost(s + 1 - 1, TrajLength - 1) = s
          BY TrajectoryAssumption DEF AtMost
        <5> QED
          BY <3>1, <5>1, <5>2
      <4> QED
        BY <2>1, <3>1, <3>3, <4>1, <4>2 DEF Advanced
    <3> QED
      BY <1>1, <3>2, <3>3
  <2> QED
    BY <2>2, <2>3
<1> QED
  BY <1>1, <1>3 DEF OnPace

(* Every step keeps the pace. *)
LEMMA StepOnPace == IInv /\ OnPace /\ [Next]_vars => OnPace'
<1> SUFFICES ASSUME IInv, OnPace, [Next]_vars PROVE OnPace'
  OBVIOUS
<1>1. CASE Enter
  BY <1>1 DEF Enter, ResetController, OnPace
<1>2. CASE WarmUp
  BY <1>2, WarmUpPace
<1>3. CASE Admit
  BY <1>3, OthersPace DEF Admit, Return, blend, controller
<1>4. CASE Release
  BY <1>4, OthersPace DEF Release, Return, blend, controller
<1>5. ASSUME NEW go \in BOOLEAN, Step(go) PROVE OnPace'
  <2>1. CASE AutoStart
    BY <1>5, <2>1, StepPace
  <2>2. CASE ~AutoStart
    BY <1>5, <2>2, StepBlend DEF OnPace
  <2> QED
    BY <2>1, <2>2
<1>6. CASE Advance \/ Search
  BY <1>6, AdvancePace
<1>7. CASE Target
  <2>1. startup_blending_' => startup_blending_
    BY <1>7 DEF Target, blend
  <2>2. UNCHANGED <<requested_, controller, trajectory>>
    BY <1>7 DEF Target, blend
  <2>3. caller = "target" /\ caller' \in {"idle", "copy"}
    BY <1>7 DEF Target
  <2> QED
    BY <2>1, <2>2, <2>3, OthersPace DEF controller
<1>8. CASE Copy
  BY <1>8, OthersPace DEF Copy, blend, controller
<1>9. CASE Stop
  BY <1>9 DEF Stop, ResetController, OnPace
<1>10. CASE Worker \/ UNCHANGED vars
  <2>1. UNCHANGED <<caller, blend, controller, trajectory>>
    BY <1>10 DEF Worker, WorkerCheck, Infer, Publish, WorkerStore, vars
  <2> QED
    BY <2>1, OthersPace DEF blend, controller
<1> QED
  BY <1>1, <1>2, <1>3, <1>4, <1>5, <1>6, <1>7, <1>8, <1>9, <1>10
  DEF Next, Stepping

-----------------------------------------------------------------------------
\* Multiplication by the decimation is monotone.
LEMMA TimesMonotone ==
  ASSUME NEW d \in Nat, NEW a \in Nat, NEW k \in Nat
  PROVE  /\ a <= k => d * a <= d * k
         /\ a < k => d * a + d <= d * k
<1>1. ASSUME NEW j \in Nat, NEW i \in Nat
      PROVE  d * (i + j) = d * i + d * j /\ d * j \in Nat /\ d * i \in Nat
  OBVIOUS
<1>2. ASSUME a <= k PROVE d * a <= d * k
  <2>1. k - a \in Nat /\ k = a + (k - a)
    BY <1>2
  <2>2. d * (a + (k - a)) = d * a + d * (k - a) /\ d * (k - a) \in Nat /\ d * a \in Nat
    BY <1>1, <2>1
  <2>3. d * k = d * a + d * (k - a)
    BY <2>1, <2>2
  <2> HIDE <2>1
  <2> QED
    BY <2>2, <2>3
<1>3. ASSUME a < k PROVE d * a + d <= d * k
  <2>1. k - a - 1 \in Nat /\ k = (a + 1) + (k - a - 1)
    BY <1>3
  <2>2. /\ d * ((a + 1) + (k - a - 1)) = d * (a + 1) + d * (k - a - 1)
        /\ d * (k - a - 1) \in Nat /\ d * (a + 1) \in Nat
    BY <1>1, <2>1
  <2>3. d * (a + 1) = d * a + d
    OBVIOUS
  <2>4. d * k = d * (a + 1) + d * (k - a - 1)
    BY <2>1, <2>2
  <2> QED
    BY <2>2, <2>3, <2>4
<1> QED
  BY <1>2, <1>3

(* The pace makes the dance finish on time. *)
LEMMA PaceIsOnTime == IInv /\ OnPace => FinishedOnTime
<1> SUFFICES ASSUME IInv, OnPace, AutoStart, TrajLength > FinishMargin + 1,
                    ready_, caller = "idle"
             PROVE  /\ steps >= Duration => Finished
                    /\ Finished => steps >= Duration - Slack
  BY DEF FinishedOnTime, Slack
<1>1. PICK a \in Nat, n \in Nat : Pace(a, n) /\ Advanced(a)
  BY DEF OnPace
<1>2. /\ start_frame \in Nat /\ start_frame <= TrajLength - 1 /\ timestep_input_ \in Nat
      /\ TrajLength \in Nat /\ FinishMargin \in Nat /\ Decimation \in Nat \ {0}
      /\ Slack \in Nat
  BY TrajectoryAssumption, ControllerAssumption DEF IInv, TypeOK, Frames, Slack
<1>3. Phase \in 0 .. Decimation - 1
  BY <1>2 DEF Phase, IInv, TypeOK
<1> DEFINE frames == IF start_frame + FinishMargin + 1 < TrajLength
                     THEN TrajLength - FinishMargin - start_frame ELSE 1
           k == Decimation * frames
           x == Decimation * a
<1>4. frames \in Nat /\ frames >= 1 /\ frames <= TrajLength
  BY <1>2
<1>5. Duration = k
  BY DEF Duration
<1>6. /\ a < frames => x + Decimation <= k
      /\ frames <= a => k <= x
      /\ k <= LongestDance
  <2> HIDE DEF frames
  <2> QED
    BY <1>2, <1>4, TimesMonotone DEF LongestDance
<1>7. /\ dancing_started_ <=> a >= 1
      /\ a >= 1 => timestep_input_ = AtMost(start_frame + a - 1, TrajLength - 1)
  BY <1>1 DEF Advanced
<1>8. Finished <=> frames <= a
  <2>1. CASE a >= 1
    BY <1>2, <1>7, <2>1 DEF Finished, AtMost
  <2>2. CASE a = 0
    BY <1>4, <1>7, <2>2 DEF Finished
  <2> QED
    BY <2>1, <2>2
<1>9. /\ steps = AtMost(n, LongestDance)
      /\ n <= x + Phase /\ x + Phase <= n + Slack
  BY <1>1 DEF Pace
<1>10. k \in Nat /\ x \in Nat
  BY <1>2, <1>4
<1> HIDE DEF frames, k, x
<1>11. ASSUME steps >= k PROVE Finished
  <2>1. n >= k
    BY <1>9, <1>10, <1>11, LongestIsNat DEF AtMost
  <2>2. ~(a < frames)
    BY <1>2, <1>3, <1>6, <1>9, <1>10, <2>1
  <2> QED
    BY <1>4, <1>8, <2>2
<1>12. ASSUME Finished PROVE steps >= k - Slack
  <2>1. k <= n + Slack
    BY <1>2, <1>3, <1>6, <1>8, <1>9, <1>10, <1>12
  <2> QED
    BY <1>2, <1>6, <1>9, <1>10, <2>1, LongestIsNat DEF AtMost
<1> QED
  BY <1>5, <1>11, <1>12

(* A dance that starts by itself takes as many Step calls, its blend aside, *)
(* as its frames ask for, however slow the network is.                     *)
THEOREM FinishesOnTime == Spec => []FinishedOnTime
<1>1. Init => OnPace
  BY DEF Init, OnPace
<1>2. IInv /\ OnPace => FinishedOnTime
  BY PaceIsOnTime
<1> QED
  BY Invariance, <1>1, StepOnPace, <1>2, PTL DEF Spec

-----------------------------------------------------------------------------
(* What is blended to.                                                     *)

\* t is not of this dance, or of a frame that it begins with.
AtStart(t) == t.dance = dance => t.frame \in {0, start_frame}

(* The blend begins with the first request and the frame stands still until*)
(* it has found its end.                                                   *)
Blending ==
  /\ caller \in {"advance", "search"} => policy_started_
  /\ ~policy_started_ => ~dancing_started_ /\ ~startup_blending_ /\ ~requested_
  /\ startup_blending_ =>
       /\ requested_
       /\ ready_
       /\ caller # "warmup"
       /\ caller = "advance" <=> ~dancing_started_
       /\ caller = "copy" => ~first_ready_
  /\ startup_blending_ /\ ~first_ready_ =>
       /\ timestep_input_ \in {0, start_frame}
       /\ AtStart(latest_target_)
       /\ worker = "publish" => AtStart(output)
  /\ first_ready_ =>
       /\ dancing_started_
       /\ caller \notin {"search", "warmup"}
       /\ AtStart(blend_end)

\* Before the first frame is chosen, every target of this dance is frame 0.
LEMMA NothingButZero ==
  ASSUME IInv, ready_, caller # "warmup",
         ~dancing_started_ \/ caller = "search"
  PROVE  /\ timestep_input_ = 0
         /\ latest_target_.dance = dance => latest_target_.frame = 0
         /\ worker = "publish" /\ output.dance = dance => output.frame = 0
<1>1. timestep_input_ = 0
  BY DEF IInv, Trajectory
<1>2. latest_target_.frame \in Nat /\ output.frame \in Nat
  BY DEF IInv, TypeOK, Targets, Frames
<1> QED
  BY <1>1, <1>2 DEF IInv, Order

\* Step keeps it: the blend begins on frame 0.
LEMMA StepBlending ==
  ASSUME IInv, Blending, NEW go \in BOOLEAN, Step(go)
  PROVE  Blending'
<1>1. /\ caller = "idle" /\ ready_ /\ ready_' /\ caller' \in {"advance", "target"}
      /\ UNCHANGED <<dance, trajectory, shared, network, first_ready_, blend_end>>
  BY DEF Step, blend
<1>2. /\ AtStart(latest_target_)' <=> AtStart(latest_target_)
      /\ AtStart(output)' <=> AtStart(output)
      /\ AtStart(blend_end)' <=> AtStart(blend_end)
  BY <1>1 DEF AtStart, trajectory, shared, network
<1>3. CASE counter_ # 0
  <2>1. caller' = "target" /\ UNCHANGED <<policy_started_, startup_blending_, requested_>>
    BY <1>3 DEF Step, blend
  <2> QED
    BY <1>1, <1>2, <2>1 DEF Blending, trajectory, shared, network
<1>4. CASE counter_ = 0
  <2>1. /\ policy_started_' = (policy_started_ \/ AutoStart \/ go)
        /\ startup_blending_' = IF policy_started_ THEN startup_blending_
                                ELSE policy_started_' /\ BlendTime > 0
        /\ requested_' = (requested_ \/ startup_blending_')
        /\ caller' = IF policy_started_' /\ (startup_blending_' => ~requested_)
                     THEN "advance" ELSE "target"
    BY <1>4 DEF Step
  <2>2. CASE policy_started_
    <3>1. /\ policy_started_' /\ startup_blending_' = startup_blending_
          /\ startup_blending_ => requested_' /\ caller' = "target"
      BY <2>1, <2>2 DEF Blending
    <3> QED
      BY <1>1, <1>2, <3>1 DEF Blending, trajectory, shared, network
  <2>3. CASE ~policy_started_
    <3>0. ~requested_
      BY <2>3 DEF Blending
    <3>1. ~dancing_started_ /\ ~first_ready_ /\ ~dancing_started_' /\ ~first_ready_'
      BY <1>1, <2>3 DEF Blending, trajectory
    <3>2. /\ timestep_input_' = 0
          /\ AtStart(latest_target_)'
          /\ worker' = "publish" => AtStart(output)'
      BY <1>1, <1>2, <3>1, NothingButZero DEF AtStart, trajectory, shared, network
    <3>3. startup_blending_' => policy_started_' /\ requested_'
      BY <2>1, <2>3
    <3>4. caller' = "advance" => policy_started_'
      BY <2>1
    <3>5. startup_blending_' /\ ~requested_ => caller' = "advance"
      BY <2>1, <3>3
    <3> QED
      BY <1>1, <3>0, <3>1, <3>2, <3>3, <3>4, <3>5, <2>1, <2>3 DEF Blending
  <2> QED
    BY <2>2, <2>3
<1> QED
  BY <1>3, <1>4

\* The frame is chosen while every target of the dance is frame 0, and moves
\* only when nothing is blended or the end of the blend is known.
LEMMA AdvanceBlending ==
  ASSUME IInv, Blending, Advance \/ Search
  PROVE  Blending'
<1>1. /\ UNCHANGED <<dance, ready_, policy_started_, blend, shared, network>>
      /\ caller \in {"advance", "search"} /\ caller' \in {"admit", "search"} /\ ready_
      /\ dancing_started_'
  BY DEF Advance, Search, controller, IInv, Trajectory
<1>2. CASE Advance /\ dancing_started_
  <2>1. ~startup_blending_ /\ start_frame' = start_frame /\ caller' = "admit"
    BY <1>2 DEF Advance, Blending
  <2> QED
    BY <1>1, <2>1 DEF Blending, AtStart, blend
<1>3. CASE Search \/ (Advance /\ ~dancing_started_)
  <2>1. ~first_ready_ /\ (~dancing_started_ \/ caller = "search") /\ caller # "warmup"
    BY <1>3 DEF Blending, Advance, Search
  <2>2. timestep_input_' \in {0, start_frame'}
    BY <1>1, <1>3, <2>1, NothingButZero DEF Advance, Search
  <2>3. AtStart(latest_target_)' /\ (worker' = "publish" => AtStart(output)')
    BY <1>1, <2>1, NothingButZero DEF AtStart, shared, network
  <2> QED
    BY <1>1, <2>1, <2>2, <2>3 DEF Blending, blend
<1> QED
  BY <1>2, <1>3

(* Every step keeps the blend. *)
LEMMA StepKeepsBlending == IInv /\ Blending /\ [Next]_vars => Blending'
<1> SUFFICES ASSUME IInv, Blending, [Next]_vars PROVE Blending'
  OBVIOUS
<1>1. CASE Enter
  BY <1>1 DEF Enter, ResetController, ForgetTarget, Blending
<1>2. CASE WarmUp
  BY <1>2 DEF WarmUp, ForgetTarget, Blending, blend
<1>3. CASE Admit
  BY <1>3 DEF Admit, Return, Blending, AtStart, blend, controller, trajectory,
              shared, network
<1>4. CASE Release
  BY <1>4 DEF Release, Return, Blending, AtStart, blend, controller, trajectory,
              network
<1>5. ASSUME NEW go \in BOOLEAN, Step(go) PROVE Blending'
  BY <1>5, StepBlending
<1>6. CASE Advance \/ Search
  BY <1>6, AdvanceBlending
<1>7. CASE Target
  BY <1>7 DEF Target, Blending, AtStart, blend, controller, trajectory,
              shared, network
<1>8. CASE Copy
  BY <1>8 DEF Copy, Blending, AtStart, blend, controller, trajectory,
              shared, network
<1>9. CASE Stop
  BY <1>9 DEF Stop, ResetController, ForgetTarget, Blending
<1>10. CASE WorkerCheck
  BY <1>10 DEF WorkerCheck, Blending, AtStart, blend, controller, trajectory, shared
<1>11. CASE Infer
  BY <1>11 DEF Infer, Blending, AtStart, blend, controller, trajectory, shared
<1>12. CASE Publish
  BY <1>12 DEF Publish, Blending, AtStart, blend, controller, trajectory
<1>13. CASE WorkerStore
  BY <1>13 DEF WorkerStore, Blending, AtStart, blend, controller, trajectory
<1>14. CASE UNCHANGED vars
  BY <1>14 DEF vars, Blending, AtStart, blend, controller, trajectory,
               shared, network
<1> QED
  BY <1>1, <1>2, <1>3, <1>4, <1>5, <1>6, <1>7, <1>8, <1>9, <1>10, <1>11,
     <1>12, <1>13, <1>14 DEF Next, Stepping, Worker

\* The target of the frame that the dance begins with.
FirstFrame(t) == t.dance = dance /\ t.frame = start_frame

(* The request of the blend, once it is made and not lost, is answered with*)
(* the first frame before the flag tells that there is a result.           *)
Joining ==
  /\ (startup_blending_ /\ ~first_ready_ /\ ~lost /\ dancing_started_ /\ caller # "search") =>
       /\ timestep_input_ = start_frame
       /\ caller \notin {"admit", "release"} =>
            /\ request = dance
            /\ inference_done_ \/ worker = "store" => FirstFrame(latest_target_)
            /\ worker = "publish" => FirstFrame(output)
  /\ first_ready_ /\ ~lost => FirstFrame(blend_end)

\* The first frame is chosen when the first request is made.
LEMMA AdvanceJoining ==
  ASSUME IInv, Blending, Joining, Advance \/ Search
  PROVE  Joining'
<1>1. /\ UNCHANGED <<dance, ready_, policy_started_, blend, shared, network>>
      /\ caller \in {"advance", "search"} /\ caller' \in {"admit", "search"}
  BY DEF Advance, Search, controller
<1>2. CASE Advance /\ dancing_started_
  <2>1. ~startup_blending_ /\ start_frame' = start_frame
    BY <1>2 DEF Advance, Blending
  <2> QED
    BY <1>1, <2>1 DEF Joining, FirstFrame, blend
<1>3. CASE Search \/ (Advance /\ ~dancing_started_)
  <2>1. ~first_ready_
    BY <1>3 DEF Blending, Advance, Search
  <2>2. caller' # "search" => timestep_input_' = start_frame'
    BY <1>3 DEF Advance, Search
  <2> QED
    BY <1>1, <2>1, <2>2 DEF Joining, blend
<1> QED
  BY <1>2, <1>3

(* Every step keeps it. *)
LEMMA StepJoining == IInv /\ Blending /\ Joining /\ [Next]_vars => Joining'
<1> SUFFICES ASSUME IInv, Blending, Joining, [Next]_vars PROVE Joining'
  OBVIOUS
<1>1. CASE Enter
  BY <1>1 DEF Enter, ResetController, ForgetTarget, Joining
<1>2. CASE WarmUp
  BY <1>2 DEF WarmUp, ForgetTarget, Blending, Joining, blend
<1>3. CASE Admit
  BY <1>3 DEF Admit, Return, Joining, FirstFrame, IInv, TypeOK, controller, trajectory, shared, network
<1>4. CASE Release
  <2>1. inference_done_ /\ worker \notin {"infer", "publish"} /\ inference_done_' = FALSE
    BY <1>4 DEF Release, IInv, Ownership
  <2> QED
    BY <1>4, <2>1 DEF Release, Return, Joining, FirstFrame, IInv, TypeOK, controller, trajectory, network
<1>5. ASSUME NEW go \in BOOLEAN, Step(go) PROVE Joining'
  <2>1. /\ UNCHANGED <<dance, first_ready_, blend_end, lost, trajectory, shared, network>>
        /\ caller = "idle" /\ caller' \in {"advance", "target"}
    BY <1>5 DEF Step, blend
  <2>2. startup_blending_' /\ dancing_started_ => startup_blending_
    BY <1>5 DEF Step, Blending, blend
  <2> QED
    BY <2>1, <2>2 DEF Joining, FirstFrame, trajectory, shared, network
<1>6. CASE Advance \/ Search
  BY <1>6, AdvanceJoining
<1>7. CASE Target
  <2>1. startup_blending_' => startup_blending_
    BY <1>7 DEF Target, blend
  <2>2. /\ UNCHANGED <<first_ready_, blend_end, lost, controller, trajectory, shared, network>>
        /\ caller = "target" /\ caller' \in {"idle", "copy"}
    BY <1>7 DEF Target, blend
  <2> QED
    BY <2>1, <2>2 DEF Joining, FirstFrame, controller, trajectory, shared, network
<1>8. CASE Copy
  <2>1. startup_blending_ => ~first_ready_ /\ dancing_started_
    BY <1>8 DEF Copy, Blending
  <2>2. inference_done_
    BY <1>8 DEF Copy, IInv, Ownership
  <2>3. CASE startup_blending_
    <3>1. /\ blend_end' = latest_target_ /\ first_ready_' /\ caller = "copy"
          /\ UNCHANGED <<lost, dance, start_frame>>
      BY <1>8, <2>3 DEF Copy, controller, trajectory
    <3>2. ~lost => FirstFrame(latest_target_)
      BY <2>1, <2>2, <2>3, <3>1 DEF Joining
    <3> QED
      BY <3>1, <3>2 DEF Joining, FirstFrame
  <2>4. CASE ~startup_blending_
    BY <1>8, <2>4 DEF Copy, Joining, FirstFrame, blend, controller, trajectory, shared, network
  <2> QED
    BY <2>3, <2>4
<1>9. CASE Stop
  BY <1>9 DEF Stop, ResetController, ForgetTarget, Joining
<1>10. CASE WorkerCheck
  BY <1>10 DEF WorkerCheck, Joining, FirstFrame, blend, controller, trajectory, shared
<1>11. CASE Infer
  <2>1. ~inference_done_
    BY <1>11 DEF Infer, IInv, Ownership
  <2> QED
    BY <1>11, <2>1 DEF Infer, Joining, FirstFrame, blend, controller, trajectory, shared
<1>12. CASE Publish
  BY <1>12 DEF Publish, Joining, FirstFrame, blend, controller, trajectory
<1>13. CASE WorkerStore
  BY <1>13 DEF WorkerStore, Joining, FirstFrame, blend, controller, trajectory
<1>14. CASE UNCHANGED vars
  BY <1>14 DEF vars, Joining, FirstFrame, blend, controller, trajectory, shared, network
<1> QED
  BY <1>1, <1>2, <1>3, <1>4, <1>5, <1>6, <1>7, <1>8, <1>9, <1>10, <1>11,
     <1>12, <1>13, <1>14 DEF Next, Stepping, Worker

(* The blend joins the frame the dance starts with unless its one request  *)
(* is lost; and whatever is left over then, the worker and the resets never*)
(* slip a later frame in.                                                  *)
THEOREM BlendsToTheStart == Spec => []JoinsFirstFrame
<1>1. Init => Blending /\ Joining
  BY DEF Init, Blending, Joining
<1>2. IInv /\ Blending /\ [Next]_vars => Blending'
  BY StepKeepsBlending
<1>3. IInv /\ Blending /\ Joining => JoinsFirstFrame
  <2> SUFFICES ASSUME IInv, Blending, Joining, first_ready_ PROVE JoinsFirstFrame
    BY DEF JoinsFirstFrame
  <2>1. blend_end = [dance |-> blend_end.dance, frame |-> blend_end.frame]
    BY DEF IInv, TypeOK, Targets
  <2>2. FirstFrame(blend_end) => blend_end = [dance |-> dance, frame |-> start_frame]
    BY <2>1 DEF FirstFrame
  <2>3. AtStart(blend_end) /\ (~lost => FirstFrame(blend_end))
    BY DEF Blending, Joining
  <2> QED
    BY <2>2, <2>3 DEF AtStart, FirstFrame, JoinsFirstFrame
<1>4. QED
  BY Invariance, <1>1, <1>2, StepJoining, <1>3, PTL DEF Spec

=============================================================================
