--------------------------- MODULE SimulationBridge ---------------------------
(***************************************************************************)
(* The life of the MuJoCo simulation bridge: its main thread (Start, the   *)
(* publishing loop, Stop, the destructor), ros_spin_thread_,               *)
(* dds_command_thread_, and the signal handler, which calls Stop from      *)
(* whatever thread the signal reaches, wherever that thread is.            *)
(*                                                                         *)
(* A thread that carries the handler does not go on until the handler      *)
(* returns.  What the code would not survive (a null pointer used, a       *)
(* joinable std::thread destroyed, a thread joining itself) sets crashed.  *)
(***************************************************************************)
\* Where a signal may find main: in its loop with no publication under way, in
\* PublishRobotData past the test of the publisher but outside data_mutex_, or
\* anywhere else.
MainPlaces == {"between", "publishing", "main"}

\* Where it may find the process: main, one of the two threads, or a thread of
\* ROS or DDS.
Places == MainPlaces \cup {"ros", "dds", "library"}

VARIABLES
  main,        \* where main is
  ros, dds,    \* the two threads: none, new, ..., ended, joined
  running_,
  ok,          \* rclcpp::ok()
  installed,   \* rclcpp::init has put its handler in front of ours
  node,        \* ros_node_ is set
  endpoints,   \* the publishers and subscribers are set
  mutex,       \* who holds data_mutex_
  stopper,     \* who executes Stop beyond its exchange: none, main, or the place
  stop,        \*   of a signal handler; and where in it
  signalled,   \* where the first signal found the process, "no" before it
  crashed

vars == <<main, ros, dds, running_, ok, installed, node, endpoints, mutex, stopper,
          stop, signalled, crashed>>

members == <<ok, installed, node, endpoints>>

Init ==
  /\ main = "start" /\ ros = "none" /\ dds = "none"
  /\ running_ = FALSE
  /\ ok = FALSE /\ installed = FALSE /\ node = FALSE /\ endpoints = FALSE
  /\ mutex = "nobody"
  /\ stopper = "none" /\ stop = "out"
  /\ signalled = "no"
  /\ crashed = FALSE

Joinable(thread) == thread \notin {"none", "joined"}

\* A thread goes on unless the process is dead or the handler runs on it.
MainGoesOn == ~crashed /\ stopper \notin MainPlaces
RosGoesOn == ~crashed /\ stopper # "ros"
DdsGoesOn == ~crashed /\ stopper # "dds"

-----------------------------------------------------------------------------
(* Start.                                                                  *)

Exchange ==
  /\ main = "start" /\ MainGoesOn
  /\ main' = "node"
  /\ running_' = TRUE
  /\ UNCHANGED <<ros, dds, members, mutex, stopper, stop, signalled, crashed>>

CreateNode ==
  /\ main = "node" /\ MainGoesOn
  /\ main' = "endpoints"
  /\ ok' = TRUE /\ installed' = TRUE /\ node' = TRUE
  /\ UNCHANGED <<ros, dds, running_, endpoints, mutex, stopper, stop, signalled,
                 crashed>>

CreateEndpoints ==
  /\ main = "endpoints" /\ MainGoesOn
  /\ main' = "spin_thread"
  /\ endpoints' = TRUE
  /\ crashed' = ~node
  /\ UNCHANGED <<ros, dds, running_, ok, installed, node, mutex, stopper, stop,
                 signalled>>

CreateThreads ==
  /\ MainGoesOn
  /\ \/ /\ main = "spin_thread"
        /\ main' = "dds_thread"
        /\ ros' = "new"
        /\ UNCHANGED dds
     \/ /\ main = "dds_thread"
        /\ main' = "check"
        /\ dds' = "loop"
        /\ UNCHANGED ros
  /\ UNCHANGED <<running_, members, mutex, stopper, stop, signalled, crashed>>

-----------------------------------------------------------------------------
(* Run: the loop, with PublishRobotData, and what follows it.              *)

Check ==
  /\ main = "check" /\ MainGoesOn
  /\ main' = IF running_ /\ ok THEN "publish" ELSE "stop"
  /\ UNCHANGED <<ros, dds, running_, members, mutex, stopper, stop, signalled, crashed>>

\* PublishRobotData tests the publisher, copies the data under the mutex, if
\* there are any yet, and uses the publisher after a long computation.
PublishRobotData ==
  /\ main = "publish" /\ MainGoesOn
  /\ main' = IF endpoints THEN "lock" ELSE "sleep"
  /\ UNCHANGED <<ros, dds, running_, members, mutex, stopper, stop, signalled, crashed>>

Lock ==
  /\ main = "lock" /\ MainGoesOn
  /\ mutex = "nobody"
  /\ main' = "copy"
  /\ mutex' = "main"
  /\ UNCHANGED <<ros, dds, running_, members, stopper, stop, signalled, crashed>>

Copy ==
  /\ main = "copy" /\ MainGoesOn
  /\ main' \in {"write", "sleep"}
  /\ mutex' = "nobody"
  /\ UNCHANGED <<ros, dds, running_, members, stopper, stop, signalled, crashed>>

Write ==
  /\ main = "write" /\ MainGoesOn
  /\ main' = "sleep"
  /\ crashed' = ~endpoints
  /\ UNCHANGED <<ros, dds, running_, members, mutex, stopper, stop, signalled>>

Sleep ==
  /\ main = "sleep" /\ MainGoesOn
  /\ main' = "check"
  /\ UNCHANGED <<ros, dds, running_, members, mutex, stopper, stop, signalled, crashed>>

\* Run's Stop: nothing to do when a handler has been there.
StopOfRun ==
  /\ main = "stop" /\ MainGoesOn
  /\ \/ /\ running_
        /\ running_' = FALSE
        /\ main' = "stopping"
        /\ stopper' = "run" /\ stop' = "shutdown"
     \/ /\ ~running_
        /\ main' = "exit"
        /\ UNCHANGED <<running_, stopper, stop>>
  /\ UNCHANGED <<ros, dds, members, mutex, signalled, crashed>>

\* g_bridge is cleared; the destructor's Stop finds running_ FALSE, and the
\* members go, also under a handler that is still at work on another thread.
Exit ==
  /\ main = "exit" /\ MainGoesOn
  /\ main' = "returned"
  /\ crashed' = (Joinable(ros) \/ Joinable(dds) \/ stopper # "none")
  /\ UNCHANGED <<ros, dds, running_, members, mutex, stopper, stop, signalled>>

-----------------------------------------------------------------------------
(* The two threads.                                                        *)

RosSpin ==
  /\ RosGoesOn
  /\ \/ ros = "new" /\ node /\ ros' = "spin" /\ UNCHANGED <<mutex, crashed>>
     \/ ros = "new" /\ ~node /\ crashed' = TRUE /\ UNCHANGED <<ros, mutex>>
     \/ ros = "spin" /\ ~ok /\ ros' = "ended" /\ UNCHANGED <<mutex, crashed>>
  /\ UNCHANGED <<main, dds, running_, members, stopper, stop, signalled>>

\* JointStateCallback or ImuCallback: called, then under the mutex, then done.
RosCallback ==
  /\ RosGoesOn
  /\ \/ ros = "spin" /\ ok /\ ros' = "wait" /\ UNCHANGED mutex
     \/ ros = "wait" /\ mutex = "nobody" /\ ros' = "copy" /\ mutex' = "ros"
     \/ ros = "copy" /\ ros' = "spin" /\ mutex' = "nobody"
  /\ UNCHANGED <<main, dds, running_, members, stopper, stop, signalled, crashed>>

DdsCommandThreadDeaf ==
  /\ DdsGoesOn
  /\ \/ dds = "loop" /\ endpoints /\ dds' = "forward"
     \/ dds = "forward" /\ dds' = "loop"
  /\ UNCHANGED <<main, ros, running_, members, mutex, stopper, stop, signalled, crashed>>

\* A message is forwarded through the endpoints.
DdsCommandThread ==
  /\ DdsGoesOn
  /\ \/ dds = "loop" /\ running_ /\ endpoints /\ dds' = "forward"
     \/ dds = "loop" /\ ~running_ /\ dds' = "ended"
     \/ dds = "forward" /\ dds' = "loop"
  /\ crashed' = (dds = "forward" /\ ~endpoints)
  /\ UNCHANGED <<main, ros, running_, members, mutex, stopper, stop, signalled>>

-----------------------------------------------------------------------------
(* Stop beyond its exchange, by Run or by a handler.                       *)

StopShutdown ==
  /\ stop = "shutdown" /\ ~crashed
  /\ stop' = "join_ros"
  /\ ok' = (ok /\ ~node)
  /\ UNCHANGED <<main, ros, dds, running_, installed, node, endpoints, mutex, stopper,
                 signalled, crashed>>

StopJoinsRos ==
  /\ stop = "join_ros" /\ ~crashed
  /\ \/ /\ ros \in {"none", "ended"}
        /\ ros' = IF ros = "ended" THEN "joined" ELSE ros
        /\ stop' = "join_dds"
        /\ UNCHANGED crashed
     \/ /\ stopper = "ros"
        /\ crashed' = TRUE
        /\ UNCHANGED <<ros, stop>>
  /\ UNCHANGED <<main, dds, running_, members, mutex, stopper, signalled>>

StopSkipsDds ==
  /\ stop = "join_dds" /\ ~crashed
  /\ stop' = "reset"
  /\ UNCHANGED <<main, ros, dds, running_, members, mutex, stopper, signalled, crashed>>

StopJoinsDds ==
  /\ stop = "join_dds" /\ ~crashed
  /\ \/ /\ dds \in {"none", "ended"}
        /\ dds' = IF dds = "ended" THEN "joined" ELSE dds
        /\ stop' = "reset"
        /\ UNCHANGED crashed
     \/ /\ stopper = "dds"
        /\ crashed' = TRUE
        /\ UNCHANGED <<dds, stop>>
  /\ UNCHANGED <<main, ros, running_, members, mutex, stopper, signalled>>

\* A handler returns to rclcpp's, if there is one, which shuts rclcpp down.
StopResets ==
  /\ stop = "reset" /\ ~crashed
  /\ stop' = "out"
  /\ endpoints' = FALSE /\ node' = FALSE
  /\ main' = IF stopper = "run" THEN "exit" ELSE main
  /\ ok' = (ok /\ (stopper = "run" \/ ~installed))
  /\ stopper' = "none"
  /\ UNCHANGED <<ros, dds, running_, installed, mutex, signalled, crashed>>

Between == {"check", "publish", "sleep", "stop"}
Publishing == {"lock", "write"}

\* Whether a signal may find the process at p.
Reaches(p) ==
  \/ p = "between" /\ main \in Between
  \/ p = "publishing" /\ main \in Publishing
  \/ p = "main" /\ main \notin Between \cup Publishing
  \/ p = "ros" /\ ros \in {"spin", "wait", "copy"}
  \/ p = "dds" /\ dds \in {"loop", "forward"}
  \/ p = "library" /\ endpoints

\* SignalHandler, up to the exchange of its Stop; g_bridge is set.
Signal(p) ==
  /\ ~crashed /\ Reaches(p)
  /\ main \notin {"exit", "returned"}
  /\ signalled' = IF signalled = "no" THEN p ELSE signalled
  /\ \/ /\ running_
        /\ running_' = FALSE
        /\ stopper' = p /\ stop' = "shutdown"
        /\ UNCHANGED ok
     \/ /\ ~running_
        /\ ok' = (ok /\ ~installed)
        /\ UNCHANGED <<running_, stopper, stop>>
  /\ UNCHANGED <<main, ros, dds, installed, node, endpoints, mutex, crashed>>

-----------------------------------------------------------------------------
Main ==
  \/ Exchange \/ CreateNode \/ CreateEndpoints \/ CreateThreads
  \/ Check \/ PublishRobotData \/ Lock \/ Copy \/ Write \/ Sleep \/ StopOfRun \/ Exit

Ros == RosSpin \/ RosCallback

Stop == StopShutdown \/ StopJoinsRos \/ StopJoinsDds \/ StopResets

Next == Main \/ Ros \/ DdsCommandThread \/ Stop \/ \E p \in Places : Signal(p)

Spec == Init /\ [][Next]_vars

\* Every thread is scheduled; signals need not come.
FairSpec ==
  /\ Spec
  /\ WF_vars(Main) /\ WF_vars(Ros) /\ WF_vars(DdsCommandThread) /\ WF_vars(Stop)

-----------------------------------------------------------------------------
Threads ==
  /\ main \in {"start", "node", "endpoints", "spin_thread", "dds_thread", "check",
               "publish", "lock", "copy", "write", "sleep", "stop", "stopping", "exit",
               "returned"}
  /\ ros \in {"none", "new", "spin", "wait", "copy", "ended", "joined"}
  /\ dds \in {"none", "loop", "forward", "ended", "joined"}
  /\ stop \in {"out", "shutdown", "join_ros", "join_dds", "reset"}
  /\ stopper \in {"none", "run"} \cup Places
  /\ mutex \in {"nobody", "main", "ros"}
  /\ signalled \in Places \cup {"no"}

Flags ==
  /\ running_ \in BOOLEAN /\ ok \in BOOLEAN /\ installed \in BOOLEAN
  /\ node \in BOOLEAN /\ endpoints \in BOOLEAN /\ crashed \in BOOLEAN

Owners ==
  /\ (stop = "out" <=> stopper = "none")
  /\ (mutex = "main" <=> main = "copy")
  /\ (mutex = "ros" <=> ros = "copy")

(* Types, and what the places of the threads imply of the mutex and of Stop. *)
TypeOK == Threads /\ Flags /\ Owners

(* Stop takes the endpoints and the node away only when no thread can be   *)
(* using them.  Of the command thread, which tests running_ and the        *)
(* subscriber unguarded, this is true wherever a signal is caught; of the  *)
(* ROS thread when Run itself stops or main catches the signal in its loop *)
(* outside data_mutex_; of main only when it has not tested the publisher  *)
(* yet: between that test and the use of it the handler resets it under    *)
(* main's feet (lines 252, 181 and 347), which is not what is claimed here.*)
EndpointsOutliveUsers ==
  /\ dds = "forward" /\ ~crashed => endpoints
  /\ signalled \in {"no", "between", "publishing"} =>
       (ros \in {"spin", "wait", "copy"} => node)
  /\ signalled \in {"no", "between"} =>
       (main \in {"lock", "copy", "write"} => endpoints)

(* "received signal N, stopping...": if main catches the signal in its     *)
(* loop with no publication under way the process returns from main,       *)
(* whatever its threads are doing and however many signals follow: the     *)
(* joins return, nobody waits for a mutex of one that cannot go on, and    *)
(* nothing crashes.  If main catches it on its way to the use of the       *)
(* publisher nothing hangs either, but the process may die of the publisher*)
(* that its own handler has taken away.                                    *)
SignalStops ==
  /\ signalled = "between" ~> main = "returned" /\ ~crashed
  /\ signalled = "publishing" ~> main = "returned" \/ crashed

=============================================================================
