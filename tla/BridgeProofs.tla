----------------------------- MODULE BridgeProofs -----------------------------
(***************************************************************************)
(* Proofs about SimulationBridge: the types, and from whom Stop never takes*)
(* the endpoints that it uses.                                             *)
(***************************************************************************)
EXTENDS SimulationBridge, TLAPS

InStart == {"start", "node", "endpoints", "spin_thread", "dds_thread"}
\* Main's loop, outside data_mutex_.
InLoop == Between \cup Publishing

(* Only who has exchanged running_ is in Stop, main waits for its own, and *)
(* Start comes first.                                                      *)
OneStop ==
  /\ running_ => stop = "out"
  /\ stopper = "run" => main = "stopping"
  /\ main = "start" => stop = "out" /\ ~running_
  /\ main \in InStart \ {"dds_thread"} => ros = "none"

(* The command thread forwards what it began before running_ was cleared, *)
(* and is joined between that and the reset.                               *)
Forwarding ==
  /\ dds = "forward" => endpoints
  /\ stop = "reset" => dds # "forward"

(* A signal that main catches in its loop finds Start done. *)
Caught == signalled \in {"between", "publishing"} => ~running_ /\ main \notin InStart

(* As long as no signal is caught elsewhere, whoever executes Stop holds no*)
(* mutex, and the ROS thread is joined before the node goes.               *)
Undisturbed ==
  signalled \in {"no", "between", "publishing"} =>
    /\ stop # "out" => \/ stopper = "run" /\ main = "stopping"
                       \/ stopper \in {"between", "publishing"} /\ main \in InLoop
    /\ stop \in {"join_dds", "reset"} => ros \in {"none", "joined"}
    /\ ros \in {"spin", "wait", "copy"} => node

(* And if it is not caught in a publication, none is under way in Stop.    *)
Unpublished ==
  signalled \in {"no", "between"} =>
    /\ stop # "out" => \/ stopper = "run" /\ main = "stopping"
                       \/ stopper = "between" /\ main \in Between
    /\ main \in {"lock", "copy", "write"} => endpoints

IInv == TypeOK /\ OneStop /\ Forwarding /\ Caught /\ Undisturbed /\ Unpublished

-----------------------------------------------------------------------------
\* The invariant holds initially.
LEMMA InitInv == Init => IInv
  BY DEF Init, IInv, TypeOK, Threads, Flags, Owners, OneStop, Forwarding, Caught,
         Undisturbed, Unpublished, Places, MainPlaces, InStart, InLoop, Between, Publishing

\* Every step preserves the invariant.
LEMMA StepInv == IInv /\ [Next]_vars => IInv'
<1> SUFFICES ASSUME IInv, [Next]_vars PROVE IInv'
  OBVIOUS
<1> USE DEF IInv, TypeOK, Threads, Flags, Owners, OneStop, Forwarding, Caught,
            Undisturbed, Unpublished, Places, MainPlaces, InStart, InLoop, Between,
            Publishing, members
<1>1. CASE Exchange
  BY <1>1 DEF Exchange, MainGoesOn
<1>2. CASE CreateNode
  BY <1>2 DEF CreateNode, MainGoesOn
<1>3. CASE CreateEndpoints
  BY <1>3 DEF CreateEndpoints, MainGoesOn
<1>4. CASE CreateThreads
  BY <1>4 DEF CreateThreads, MainGoesOn
<1>5. CASE Check
  BY <1>5 DEF Check, MainGoesOn
<1>6. CASE PublishRobotData
  BY <1>6 DEF PublishRobotData, MainGoesOn
<1>7. CASE Copy
  BY <1>7 DEF Copy, MainGoesOn
<1>8. CASE Write
  BY <1>8 DEF Write, MainGoesOn
<1>9. CASE Sleep
  BY <1>9 DEF Sleep, MainGoesOn
<1>10. CASE StopOfRun
  <2>1. Threads' /\ Owners'
    BY <1>10 DEF StopOfRun, MainGoesOn
  <2>2. Flags'
    BY <1>10 DEF StopOfRun, MainGoesOn
  <2>3. OneStop' /\ Forwarding' /\ Caught'
    BY <1>10 DEF StopOfRun, MainGoesOn
  <2>4. Undisturbed' /\ Unpublished'
    BY <1>10 DEF StopOfRun, MainGoesOn
  <2> QED
    BY <2>1, <2>2, <2>3, <2>4
<1>11. CASE Exit
  BY <1>11 DEF Exit, MainGoesOn, Joinable
<1>12. CASE RosSpin
  <2>1. Threads' /\ Owners'
    BY <1>12 DEF RosSpin, RosGoesOn
  <2>2. Flags'
    BY <1>12 DEF RosSpin, RosGoesOn
  <2>3. OneStop' /\ Forwarding' /\ Caught'
    BY <1>12 DEF RosSpin, RosGoesOn
  <2>4. Undisturbed' /\ Unpublished'
    BY <1>12 DEF RosSpin, RosGoesOn
  <2> QED
    BY <2>1, <2>2, <2>3, <2>4
<1>13. CASE RosCallback
  BY <1>13 DEF RosCallback, RosGoesOn
<1>14. CASE DdsCommandThread
  BY <1>14 DEF DdsCommandThread, DdsGoesOn
<1>15. CASE StopShutdown
  BY <1>15 DEF StopShutdown
<1>16. CASE StopJoinsRos
  <2>1. Threads' /\ Owners'
    BY <1>16 DEF StopJoinsRos
  <2>2. Flags'
    BY <1>16 DEF StopJoinsRos
  <2>3. OneStop' /\ Forwarding' /\ Caught'
    BY <1>16 DEF StopJoinsRos
  <2>4. Undisturbed' /\ Unpublished'
    BY <1>16 DEF StopJoinsRos
  <2> QED
    BY <2>1, <2>2, <2>3, <2>4
<1>17. CASE StopJoinsDds
  <2>1. Threads' /\ Owners'
    BY <1>17 DEF StopJoinsDds
  <2>2. Flags'
    BY <1>17 DEF StopJoinsDds
  <2>3. OneStop' /\ Forwarding' /\ Caught'
    BY <1>17 DEF StopJoinsDds
  <2>4. Undisturbed' /\ Unpublished'
    BY <1>17 DEF StopJoinsDds
  <2> QED
    BY <2>1, <2>2, <2>3, <2>4
<1>18. CASE StopResets
  <2>1. Threads' /\ Owners'
    BY <1>18 DEF StopResets
  <2>2. Flags'
    BY <1>18 DEF StopResets
  <2>3. OneStop' /\ Forwarding' /\ Caught'
    BY <1>18 DEF StopResets
  <2>4. Undisturbed' /\ Unpublished'
    BY <1>18 DEF StopResets
  <2> QED
    BY <2>1, <2>2, <2>3, <2>4
<1>19. ASSUME NEW p \in Places, Signal(p) PROVE IInv'
  <2>1. Threads' /\ Owners'
    BY <1>19 DEF Signal, Reaches
  <2>2. Flags'
    BY <1>19 DEF Signal, Reaches
  <2>3. OneStop' /\ Forwarding' /\ Caught'
    BY <1>19 DEF Signal, Reaches
  <2>4. Undisturbed' /\ Unpublished'
    BY <1>19 DEF Signal, Reaches
  <2> QED
    BY <2>1, <2>2, <2>3, <2>4
<1>20. CASE UNCHANGED vars
  BY <1>20 DEF vars
<1>21. CASE Lock
  BY <1>21 DEF Lock, MainGoesOn
<1>22. QED
  BY <1>1, <1>2, <1>3, <1>4, <1>5, <1>6, <1>7, <1>8, <1>9, <1>10, <1>11, <1>12, <1>13,
     <1>14, <1>15, <1>16, <1>17, <1>18, <1>19, <1>20,
     <1>21 DEF Next, Main, Ros, Stop

\* Every reachable state satisfies the invariant.
LEMMA Invariance == Spec => []IInv
  BY InitInv, StepInv, PTL DEF Spec

-----------------------------------------------------------------------------
(* Types, and which place of a thread goes with the mutex and with Stop:   *)
(* whoever holds data_mutex_ is in the section it guards.                  *)
THEOREM TypeCorrect == Spec => []TypeOK
<1>1. IInv => TypeOK
  BY DEF IInv
<1> QED
  BY <1>1, Invariance, PTL

(* Stop never takes the endpoints from under the command thread; nor the   *)
(* node from under the ROS thread, when Run stops or main catches the      *)
(* signal in its loop outside the mutex; nor the publisher from under main *)
(* unless main catches the signal between the test and the use of it.      *)
THEOREM UsersAreGone == Spec => []EndpointsOutliveUsers
<1>1. IInv => EndpointsOutliveUsers
  BY DEF IInv, Forwarding, Undisturbed, Unpublished, EndpointsOutliveUsers
<1> QED
  BY <1>1, Invariance, PTL

=============================================================================
