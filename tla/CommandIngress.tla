---------------------------- MODULE CommandIngress ----------------------------
(***************************************************************************)
(* How actions and velocities reach the control loop.  The DDS hand        *)
(* operator has a callback for actions and one for velocities, each on a   *)
(* thread of its own, which share the backend's ReaderWriterQueue, made    *)
(* for one producer.  The callbacks of RosCommandBridge share one thread   *)
(* and the kernel's own queue.  All actions are looked up in the one map   *)
(* key_2_evts; each operator writes velocities into a ring of twists and   *)
(* queues pointers to them, through which the kernel thread reads, periods *)
(* later, without a lock.                                                  *)
(*                                                                         *)
(* A velocity is its number in its ring; a twist has two parts, written    *)
(* and read one after the other.  An action's event is named by its code.  *)
(***************************************************************************)
EXTENDS Integers, Sequences

CONSTANTS
  Known,       \* the codes of s_key_2_evts
  Unknown,     \* other codes a client may send
  TwistCount,  \* the size of each ring: twist_count_, and that of twists_
  MaxActions,  \* bound on the actions
  MaxSent      \* bound on the velocities of each ring

Rings == {"handop", "ros"}

STOP == 0           \* KernelEvent::STOP, and what a new entry of the map holds
SetVelAll == -1     \* no code stands for it

ASSUME CodesAssumption ==
  STOP \in Known /\ Known \subseteq Nat /\ Unknown \subseteq Nat \ Known
ASSUME RingsAssumption == TwistCount \in [Rings -> Nat \ {0}]
ASSUME BoundsAssumption == MaxActions \in Nat /\ MaxSent \in [Rings -> Nat]

Callbacks == {"action", "velocity"}
Parts == {"linear", "angular"}
Indices(r) == 0 .. TwistCount[r] - 1

VARIABLES
  key_2_evts,   \* a function from the codes in the map to events
  actions,      \* actions received so far
  received,     \* and which, from whom
  twists_, current_twist_idx_, cell,   \* of each ring; the twist being written
  sent,         \* velocities the producer has begun to write
  writer,       \* where the producer is
  element,      \* what each DDS callback is enqueueing, <<>> outside
  seen,         \* the tail it has read
  overlapped,   \* a callback has entered enqueue while the other was inside
  data, tail,   \* the ReaderWriterQueue: its slots, and how many of them count
  events_queue, \* the kernel's queue
  front,        \* how many slots of data the kernel thread has taken
  localTail,    \* the tail it has seen
  phase,        \* which queue HandleEvents is at, or that it reads garbage
  reader,       \* where the handler of set_vel_all is
  event,        \* the velocity it handles
  command_,
  latest,       \* the last velocity handled
  handled,      \* the codes of the events handled
  running       \* the kernel's state is PolicyRunning

clients == <<key_2_evts, actions, received>>
rings == <<twists_, current_twist_idx_, cell, sent, writer>>
enqueue == <<element, seen, overlapped, data, tail>>
handler == <<reader, event, command_, latest, running>>
kernel == <<front, localTail, phase, handled, handler>>
vars == <<clients, rings, enqueue, events_queue, kernel>>

NoVelocity == [ring |-> "none", number |-> 0]
Both(v) == [p \in Parts |-> v]

Init ==
  /\ key_2_evts = [c \in Known |-> c] /\ actions = 0 /\ received = {}
  /\ twists_ = [r \in Rings |-> [i \in Indices(r) |-> Both(0)]]
  /\ current_twist_idx_ = [r \in Rings |-> 0] /\ cell = [r \in Rings |-> 0]
  /\ sent = [r \in Rings |-> 0] /\ writer = [r \in Rings |-> "idle"]
  /\ element = [p \in Callbacks |-> <<>>] /\ seen = [p \in Callbacks |-> 0]
  /\ overlapped = FALSE /\ data = <<>> /\ tail = 0
  /\ events_queue = <<>>
  /\ front = 0 /\ localTail = 0 /\ phase = "backend" /\ handled = {}
  /\ reader = "idle" /\ event = [ring |-> "none", twist |-> 0, number |-> 0]
  /\ command_ = Both(NoVelocity) /\ latest = NoVelocity
  /\ running = FALSE

-----------------------------------------------------------------------------
(* The ReaderWriterQueue.  An enqueue reads tail, writes its element into  *)
(* the slot behind it, then the new tail.  Two that overlap write the same *)
(* slot, or one of them takes the tail back; the queue goes on with what   *)
(* they leave.                                                             *)

EnqueueBegin(p, e) ==
  /\ element[p] = <<>>
  /\ element' = [element EXCEPT ![p] = <<e>>]
  /\ seen' = [seen EXCEPT ![p] = tail]
  /\ overlapped' = (overlapped \/ \E q \in Callbacks : element[q] # <<>>)
  /\ UNCHANGED <<data, tail>>

\* The slot is a new one, or one that is in use already.
WriteSlot(p) ==
  \/ seen[p] = Len(data) /\ data' = data \o element[p]
  \/ seen[p] < Len(data) /\ data' = [data EXCEPT ![seen[p] + 1] = element[p][1]]

EnqueueEndTwice(p) ==
  /\ element[p] # <<>>
  /\ data' = SubSeq(data, 1, seen[p]) \o element[p] \o element[p]
  /\ tail' = seen[p] + 2
  /\ element' = [element EXCEPT ![p] = <<>>] /\ seen' = [seen EXCEPT ![p] = 0]
  /\ UNCHANGED <<clients, rings, overlapped, events_queue, kernel>>

EnqueueEndNoTail(p) ==
  /\ element[p] # <<>>
  /\ WriteSlot(p)
  /\ element' = [element EXCEPT ![p] = <<>>] /\ seen' = [seen EXCEPT ![p] = 0]
  /\ UNCHANGED <<clients, rings, overlapped, tail, events_queue, kernel>>

EnqueueEnd(p) ==
  /\ element[p] # <<>>
  /\ WriteSlot(p)
  /\ tail' = seen[p] + 1
  /\ element' = [element EXCEPT ![p] = <<>>] /\ seen' = [seen EXCEPT ![p] = 0]
  /\ UNCHANGED <<clients, rings, overlapped, events_queue, kernel>>

-----------------------------------------------------------------------------
(* Actions.                                                                *)

ActionEvent(c) == [code |-> c, twist |-> 0, number |-> 0]

Received(from, c) ==
  /\ actions < MaxActions
  /\ actions' = actions + 1
  /\ received' = received \cup {[from |-> from, code |-> c]}

\* operator[] of the map: a code that is missing is inserted, with event 0.
WithCode(c) ==
  [k \in DOMAIN key_2_evts \cup {c} |->
     IF k \in DOMAIN key_2_evts THEN key_2_evts[k] ELSE STOP]

\* ActCmdHandler::handle.
HandopAction(c) ==
  /\ Received("handop", c)
  /\ key_2_evts' = WithCode(c)
  /\ EnqueueBegin("action", ActionEvent(key_2_evts'[c]))
  /\ UNCHANGED <<rings, events_queue, kernel>>

RobotActionInserts(c) ==
  /\ Received("ros", c)
  /\ key_2_evts' = WithCode(c)
  /\ events_queue' = Append(events_queue, ActionEvent(key_2_evts'[c]))
  /\ UNCHANGED <<rings, enqueue, kernel>>

\* RosCommandBridge::RobotActionCallback: a code not in the map is reported.
RobotAction(c) ==
  /\ writer["ros"] = "idle"
  /\ Received("ros", c)
  /\ \/ /\ c \in DOMAIN key_2_evts
        /\ events_queue' = Append(events_queue, ActionEvent(key_2_evts[c]))
     \/ /\ c \notin DOMAIN key_2_evts
        /\ UNCHANGED events_queue
  /\ UNCHANGED <<key_2_evts, rings, enqueue, kernel>>

-----------------------------------------------------------------------------
(* Velocities: TwistHandler::handle, behind its gate, and CmdVelCallback.  *)

TakeTwist(r) ==
  /\ writer[r] = "idle"
  /\ r = "handop" => running /\ element["velocity"] = <<>>
  /\ sent[r] < MaxSent[r]
  /\ writer' = [writer EXCEPT ![r] = "linear"]
  /\ sent' = [sent EXCEPT ![r] = sent[r] + 1]
  /\ cell' = [cell EXCEPT ![r] = current_twist_idx_[r]]
  /\ current_twist_idx_' =
       [current_twist_idx_ EXCEPT ![r] = (current_twist_idx_[r] + 1) % TwistCount[r]]
  /\ UNCHANGED <<clients, twists_, enqueue, events_queue, kernel>>

WritePart(r) ==
  /\ \/ writer[r] = "linear" /\ writer' = [writer EXCEPT ![r] = "angular"]
     \/ writer[r] = "angular" /\ writer' = [writer EXCEPT ![r] = "queue"]
  /\ twists_' = [twists_ EXCEPT ![r][cell[r]][writer[r]] = sent[r]]
  /\ UNCHANGED <<clients, current_twist_idx_, cell, sent, enqueue, events_queue, kernel>>

VelocityAhead(r) ==
  [code |-> SetVelAll, twist |-> current_twist_idx_[r], number |-> sent[r]]

\* The event with the pointer to the twist.
Velocity(r) == [code |-> SetVelAll, twist |-> cell[r], number |-> sent[r]]

QueueTwist(r) ==
  /\ writer[r] = "queue"
  /\ writer' = [writer EXCEPT ![r] = "idle"]
  /\ \/ /\ r = "handop"
        /\ EnqueueBegin("velocity", Velocity(r))
        /\ UNCHANGED events_queue
     \/ /\ r = "ros"
        /\ events_queue' = Append(events_queue, Velocity(r))
        /\ UNCHANGED enqueue
  /\ UNCHANGED <<clients, twists_, current_twist_idx_, cell, sent, kernel>>

-----------------------------------------------------------------------------
(* The kernel thread: HandleEvents empties the backend's queue, then its   *)
(* own; set_vel_all is accepted in PolicyRunning only.                     *)

HandleEvent(r, e) ==
  /\ handled' = handled \cup {e.code}
  /\ \/ /\ e.code = SetVelAll /\ running
        /\ reader' = "linear"
        /\ event' = [ring |-> r, twist |-> e.twist, number |-> e.number]
     \/ /\ e.code = SetVelAll => ~running
        /\ UNCHANGED <<reader, event>>
  /\ UNCHANGED <<clients, rings, enqueue, phase, command_, latest, running>>

\* The dequeue looks at tail when it has taken all that it knew of.
KnownTail == IF front = localTail THEN tail ELSE localTail

TakeBackend ==
  /\ phase = "backend" /\ reader = "idle"
  /\ front < KnownTail
  /\ localTail' = KnownTail
  /\ front' = front + 1
  /\ HandleEvent("handop", data[front'])
  /\ UNCHANGED events_queue

(* The kernel thread takes a slot that one of the callbacks is writing, or *)
(* finds the tail behind it: what it then handles is anything.             *)
RunsAway ==
  /\ phase = "backend" /\ reader = "idle"
  /\ \/ front > KnownTail
     \/ /\ front < KnownTail
        /\ \E p \in Callbacks : element[p] # <<>> /\ seen[p] = front
  /\ phase' = "lost"
  /\ UNCHANGED <<clients, rings, enqueue, events_queue, front, localTail, handled,
                 handler>>

TakeRos ==
  /\ phase = "ros" /\ reader = "idle"
  /\ events_queue # <<>>
  /\ events_queue' = Tail(events_queue)
  /\ HandleEvent("ros", Head(events_queue))
  /\ UNCHANGED <<front, localTail>>

\* The first queue is empty; the second is, and the period ends.
QueueIsEmpty ==
  /\ reader = "idle"
  /\ \/ phase = "backend" /\ front = KnownTail /\ phase' = "ros"
     \/ phase = "ros" /\ events_queue = <<>>
        /\ phase' = IF STOP \in handled THEN "ended" ELSE "backend"
  /\ UNCHANGED <<clients, rings, enqueue, events_queue, front, localTail, handled,
                 handler>>

\* The handler of set_vel_all, through the pointer.
ReadPart ==
  /\ \/ reader = "linear" /\ reader' = "angular" /\ UNCHANGED latest
     \/ /\ reader = "angular" /\ reader' = "idle"
        /\ latest' = [ring |-> event.ring, number |-> event.number]
  /\ command_' =
       [command_ EXCEPT ![reader] = [ring   |-> event.ring,
                                     number |-> twists_[event.ring][event.twist][reader]]]
  /\ UNCHANGED <<clients, rings, enqueue, events_queue, front, localTail, phase,
                 handled, event, running>>

\* Other events take the kernel into PolicyRunning and out of it.
ChangeState ==
  /\ reader = "idle" /\ phase \in {"backend", "ros"}
  /\ running' = ~running
  /\ UNCHANGED <<clients, rings, enqueue, events_queue, front, localTail, phase,
                 handled, reader, event, command_, latest>>

-----------------------------------------------------------------------------
Action(c) == HandopAction(c) \/ RobotAction(c)
Producer(r) == TakeTwist(r) \/ WritePart(r) \/ QueueTwist(r)
EnqueueEnds == \E p \in Callbacks : EnqueueEnd(p)
HandleEvents == TakeBackend \/ RunsAway \/ TakeRos \/ QueueIsEmpty \/ ReadPart

Next ==
  \/ \E c \in Known \cup Unknown : Action(c)
  \/ \E r \in Rings : Producer(r)
  \/ EnqueueEnds \/ HandleEvents \/ ChangeState

Spec == Init /\ [][Next]_vars

\* An enqueue that was begun ends and the kernel thread keeps running.
FairSpec == Spec /\ WF_vars(EnqueueEnds) /\ WF_vars(HandleEvents)

-----------------------------------------------------------------------------
Codes == Known \cup {SetVelAll}
Events(r) == [code : Codes, twist : Indices(r), number : Nat]

Pointers(r) == [ring : {r}, twist : Indices(r), number : Nat]

ClientTypes ==
  /\ key_2_evts \in [DOMAIN key_2_evts -> Known]
  /\ Known \subseteq DOMAIN key_2_evts /\ DOMAIN key_2_evts \subseteq Known \cup Unknown
  /\ actions \in Nat /\ received \subseteq [from : Rings, code : Known \cup Unknown]

RingTypes ==
  /\ sent \in [Rings -> Nat]
  /\ writer \in [Rings -> Parts \cup {"idle", "queue"}]
  /\ DOMAIN twists_ = Rings /\ DOMAIN cell = Rings /\ DOMAIN current_twist_idx_ = Rings
  /\ \A r \in Rings : /\ twists_[r] \in [Indices(r) -> [Parts -> Nat]]
                      /\ cell[r] \in Indices(r) /\ current_twist_idx_[r] \in Indices(r)

QueueTypes ==
  /\ element \in [Callbacks -> {<<>>} \cup {<<e>> : e \in Events("handop")}]
  /\ seen \in [Callbacks -> Nat]
  /\ overlapped \in BOOLEAN
  /\ data \in Seq(Events("handop")) /\ events_queue \in Seq(Events("ros"))
  /\ tail \in 0 .. Len(data) /\ localTail \in 0 .. Len(data) /\ front \in 0 .. localTail
  /\ \A p \in Callbacks : seen[p] <= Len(data)

KernelTypes ==
  /\ phase \in {"backend", "ros", "ended", "lost"} /\ reader \in Parts \cup {"idle"}
  /\ handled \subseteq Codes /\ running \in BOOLEAN
  /\ reader # "idle" => \E r \in Rings : event \in Pointers(r)
  /\ latest \in [ring : Rings \cup {"none"}, number : Nat]
  /\ command_ \in [Parts -> [ring : Rings \cup {"none"}, number : Nat]]

(* Types of the variables; a pointer in a queue or in the handler points   *)
(* into the ring of its own producer.                                      *)
TypeOK == ClientTypes /\ RingTypes /\ QueueTypes /\ KernelTypes

(* A velocity reaches the loop whole and as it was sent, unless its        *)
(* producer is a whole ring ahead; lapped, the loop may mix two velocities *)
(* of that producer, but none older than the event it handles.             *)
ReadsWhatWasSent ==
  reader = "idle" /\ latest.ring \in Rings =>
    /\ sent[latest.ring] < latest.number + TwistCount[latest.ring] =>
         command_ = Both(latest)
    /\ \A p \in Parts : /\ command_[p].ring = latest.ring
                        /\ command_[p].number >= latest.number

Waiting == SubSeq(data, front + 1, tail)
BackendQueue == INSTANCE EventQueue WITH queue <- Waiting, Event <- Events("handop")

(* Until the two DDS callbacks meet inside enqueue, the backend's queue is *)
(* the event queue that Supervisor takes it for: nothing is lost, doubled  *)
(* or reordered.                                                           *)
BackendQueueSpec ==
  BackendQueue!QueueInit
    /\ [][BackendQueue!Put \/ BackendQueue!Get \/ overlapped']_Waiting

Requests(c) == \E r \in Rings : [from |-> r, code |-> c] \in received

Meeting == \A p \in Callbacks : element[p] # <<>>

\* The action callback is about to write it behind all that is in the queue.
Enqueueing(c) ==
  /\ element["action"] # <<>> /\ element["action"][1].code = c
  /\ seen["action"] = tail /\ localTail <= tail

\* It waits in the backend's queue and no callback is about to write over it.
Queued(c) ==
  \E i \in front + 1 .. tail :
    data[i].code = c /\ \A p \in Callbacks : element[p] # <<>> => seen[p] >= i

StopHandled == STOP \in handled \/ phase = "lost"

(* A STOP sent over ROS is handled, whatever the hand operator's callbacks *)
(* do, and so is one of the hand operator's that is in the queue, or that  *)
(* is being written at its end unless the velocity callback then enters    *)
(* enqueue as well: each STOP on its own, though callbacks have met before *)
(* or meet later.  Excepted are the queue whose tail such a meeting has    *)
(* taken back behind the one that the kernel thread has seen, and a kernel *)
(* thread that takes a slot as it is written: what becomes of them no line *)
(* of the code says.                                                       *)
StopArrives ==
  /\ [from |-> "ros", code |-> STOP] \in received \/ Queued(STOP) ~> StopHandled
  /\ Enqueueing(STOP) ~> StopHandled \/ Meeting

(* The kernel stops only because a client has sent the code of STOP or the *)
(* hand operator one that is in no table; an unknown code over ROS alone   *)
(* stops nothing.                                                          *)
StopIsAsked ==
  STOP \in handled =>
    \/ Requests(STOP)
    \/ \E c \in Unknown : [from |-> "handop", code |-> c] \in received

=============================================================================
