----------------------------- MODULE IngressProofs -----------------------------
(***************************************************************************)
(* Proofs about CommandIngress, for rings of every size and any number of  *)
(* actions and velocities.                                                 *)
(***************************************************************************)
EXTENDS CommandIngress, SequenceTheorems, TLAPS

(* Velocity number n + 1 of a ring of N twists goes into cell i.           *)
InCell(N, n, i) == \E lap \in Nat : n = N * lap + i

\* Two velocities of one cell are a whole ring apart.
LEMMA SameCell ==
  ASSUME NEW N \in Nat \ {0}, NEW i \in Nat, NEW a \in Nat, NEW b \in Nat,
         InCell(N, a, i), InCell(N, b, i), a <= b, b < a + N
  PROVE  a = b
<1>1. PICK p \in Nat : a = N * p + i
  BY DEF InCell
<1>2. PICK q \in Nat : b = N * q + i
  BY DEF InCell
<1>3. b - a = N * (q - p)
  BY <1>1, <1>2
<1>4. CASE q > p
  <2>1. PICK d \in Nat : q - p = 1 + d
    BY <1>4
  <2>2. N * (q - p) = N + N * d /\ N * d \in Nat
    BY <2>1
  <2> QED
    BY <1>3, <2>2
<1>5. CASE q < p
  <2>1. PICK d \in Nat : p = q + 1 + d
    BY <1>5
  <2>2. N * p = N * q + N + N * d /\ N * d \in Nat
    BY <2>1
  <2> QED
    BY <1>1, <1>2, <2>2
<1>6. CASE q = p
  BY <1>1, <1>2, <1>6
<1> QED
  BY <1>4, <1>5, <1>6

\* The cell after cell i is the one of the next velocity.
LEMMA NextCell ==
  ASSUME NEW N \in Nat \ {0}, NEW i \in 0 .. N - 1, NEW n \in Nat, InCell(N, n, i)
  PROVE  InCell(N, n + 1, (i + 1) % N) /\ (i + 1) % N \in 0 .. N - 1
<1>1. PICK lap \in Nat : n = N * lap + i
  BY DEF InCell
<1>2. CASE i + 1 < N
  <2>1. (i + 1) % N = i + 1
    BY <1>2
  <2>2. n + 1 = N * lap + (i + 1)
    BY <1>1
  <2>3. InCell(N, n + 1, i + 1)
    BY <2>2 DEF InCell
  <2> QED
    BY <1>2, <2>1, <2>3
<1>3. CASE i + 1 = N
  <2>1. (i + 1) % N = 0
    BY <1>3
  <2>2. n + 1 = N * (lap + 1) + 0 /\ lap + 1 \in Nat
    BY <1>1, <1>3
  <2>3. InCell(N, n + 1, 0)
    BY <2>2 DEF InCell
  <2> QED
    BY <2>1, <2>3
<1> QED
  BY <1>2, <1>3

-----------------------------------------------------------------------------
(* Types, and what they rest on: as long as no two enqueues have met, all  *)
(* slots count, one enqueue at most is under way, and the tail it has read *)
(* is still the tail.                                                      *)
Alone ==
  ~overlapped =>
    /\ tail = Len(data)
    /\ \A p, q \in Callbacks :
         element[p] # <<>> => seen[p] = tail /\ (element[q] # <<>> => p = q)

\* An event that may enter the backend's queue.
LEMMA EnqueueBegins ==
  ASSUME QueueTypes, Alone, NEW p \in Callbacks, NEW e \in Events("handop"),
         EnqueueBegin(p, e), UNCHANGED <<events_queue, front, localTail>>
  PROVE  QueueTypes' /\ Alone'
<1>1. element' \in [Callbacks -> {<<>>} \cup {<<x>> : x \in Events("handop")}]
  BY DEF EnqueueBegin, QueueTypes
<1>2. seen' \in [Callbacks -> Nat] /\ \A q \in Callbacks : seen'[q] <= Len(data)
  BY DEF EnqueueBegin, QueueTypes
<1>3. overlapped' \in BOOLEAN
  BY DEF EnqueueBegin, QueueTypes
<1>4. Alone'
  BY DEF EnqueueBegin, QueueTypes, Alone
<1> QED
  BY <1>1, <1>2, <1>3, <1>4 DEF EnqueueBegin, QueueTypes, Events, Indices

\* An enqueue that ends writes its element into one slot and leaves the others alone.
LEMMA EnqueueWrites ==
  ASSUME QueueTypes, NEW p \in Callbacks, EnqueueEnd(p)
  PROVE  \E e \in Events("handop") :
           /\ element[p] = <<e>>
           /\ data' \in Seq(Events("handop"))
           /\ tail' = seen[p] + 1 /\ tail' \in 1 .. Len(data') /\ Len(data') >= Len(data)
           /\ seen[p] = Len(data) => data' = Append(data, e)
           /\ \A i \in 1 .. Len(data') :
                data'[i] = e \/ (i \in 1 .. Len(data) /\ data'[i] = data[i])
<1>1. PICK e \in Events("handop") : element[p] = <<e>>
  BY DEF EnqueueEnd, QueueTypes
<1>2. /\ data \in Seq(Events("handop")) /\ Len(data) \in Nat /\ seen[p] \in Nat
      /\ tail' = seen[p] + 1 /\ WriteSlot(p)
  BY DEF EnqueueEnd, QueueTypes
<1>3. CASE seen[p] = Len(data) /\ data' = data \o element[p]
  <2>1. data' = Append(data, e)
    BY <1>1, <1>2, <1>3, AppendIsConcat
  <2>2. /\ data' \in Seq(Events("handop")) /\ Len(data') = Len(data) + 1
        /\ data'[Len(data) + 1] = e
        /\ \A i \in 1 .. Len(data) : data'[i] = data[i]
    BY <1>2, <2>1, AppendProperties
  <2>3. \A i \in 1 .. Len(data') : i \in 1 .. Len(data) \/ i = Len(data) + 1
    BY <1>2, <2>2
  <2> QED
    BY <1>1, <1>2, <1>3, <2>1, <2>2, <2>3
<1>4. CASE seen[p] < Len(data) /\ data' = [data EXCEPT ![seen[p] + 1] = element[p][1]]
  <2>1. seen[p] + 1 \in 1 .. Len(data) /\ element[p][1] = e
    BY <1>1, <1>2, <1>4
  <2>2. data' \in Seq(Events("handop")) /\ Len(data') = Len(data)
    BY <1>2, <1>4, <2>1, ExceptSeq
  <2>3. \A i \in 1 .. Len(data) : data'[i] = IF i = seen[p] + 1 THEN e ELSE data[i]
    BY <1>2, <1>4, <2>1, ExceptSeq
  <2>4. \A i \in 1 .. Len(data') :
          data'[i] = e \/ (i \in 1 .. Len(data) /\ data'[i] = data[i])
    BY <2>2, <2>3
  <2>5. /\ tail' = seen[p] + 1 /\ tail' \in 1 .. Len(data') /\ Len(data') >= Len(data)
        /\ seen[p] # Len(data)
    BY <1>2, <1>4, <2>1, <2>2
  <2> QED
    BY <1>1, <2>2, <2>4, <2>5
<1> QED
  BY <1>2, <1>3, <1>4 DEF WriteSlot

\* One that ends alone appends it.
LEMMA EnqueueAppends ==
  ASSUME QueueTypes, Alone, ~overlapped, NEW p \in Callbacks, EnqueueEnd(p)
  PROVE  \E e \in Events("handop") :
           data' = Append(data, e) /\ tail' = tail + 1 /\ tail = Len(data)
<1>1. seen[p] = tail /\ tail = Len(data)
  BY DEF EnqueueEnd, Alone
<1> QED
  BY <1>1, EnqueueWrites

\* So the queue keeps its types.
LEMMA EnqueueKeepsTypes ==
  ASSUME QueueTypes, Alone, NEW p \in Callbacks, EnqueueEnd(p)
  PROVE  QueueTypes' /\ Alone'
<1>1. /\ data' \in Seq(Events("handop"))
      /\ tail' \in 1 .. Len(data') /\ Len(data') >= Len(data)
      /\ Len(data) \in Nat /\ Len(data') \in Nat
  BY EnqueueWrites DEF QueueTypes
<1>2. /\ element' = [element EXCEPT ![p] = <<>>] /\ seen' = [seen EXCEPT ![p] = 0]
      /\ UNCHANGED <<overlapped, events_queue, front, localTail>>
  BY DEF EnqueueEnd, kernel
<1>3. element' \in [Callbacks -> {<<>>} \cup {<<x>> : x \in Events("handop")}]
  BY <1>2 DEF QueueTypes
<1>4. seen' \in [Callbacks -> Nat] /\ \A q \in Callbacks : seen'[q] <= Len(data')
  BY <1>1, <1>2 DEF QueueTypes
<1>5. tail' \in 0 .. Len(data') /\ localTail' \in 0 .. Len(data') /\ front' \in 0 .. localTail'
  BY <1>1, <1>2 DEF QueueTypes
<1>6. Alone'
  <2> SUFFICES ASSUME ~overlapped
               PROVE  /\ tail' = Len(data')
                      /\ \A q \in Callbacks : element'[q] = <<>>
    BY <1>2 DEF Alone
  <2>1. PICK e \in Events("handop") :
          data' = Append(data, e) /\ tail' = tail + 1 /\ tail = Len(data)
    BY EnqueueAppends
  <2>2. tail' = Len(data')
    BY <2>1, AppendProperties DEF QueueTypes
  <2>3. \A q \in Callbacks : element'[q] = <<>>
    BY <1>2 DEF EnqueueEnd, QueueTypes, Alone
  <2> QED
    BY <2>2, <2>3
<1> QED
  BY <1>1, <1>2, <1>3, <1>4, <1>5, <1>6 DEF QueueTypes, Events, Indices

\* The cells exist.
LEMMA CellsExist == \A r \in Rings : 0 \in Indices(r) /\ Indices(r) \subseteq Nat
  BY RingsAssumption DEF Indices

\* The types hold initially.
LEMMA InitTypes == Init => TypeOK /\ Alone
<1> SUFFICES ASSUME Init PROVE TypeOK /\ Alone
  OBVIOUS
<1>1. ClientTypes
  BY CodesAssumption DEF Init, ClientTypes
<1>2. RingTypes
  <2>1. \A r \in Rings : /\ twists_[r] \in [Indices(r) -> [Parts -> Nat]]
                         /\ cell[r] = 0 /\ current_twist_idx_[r] = 0
    BY DEF Init, Both
  <2> QED
    BY <2>1, CellsExist DEF Init, RingTypes
<1>3. QueueTypes /\ Alone
  <2>1. element \in [Callbacks -> {<<>>} \cup {<<e>> : e \in Events("handop")}]
    BY DEF Init
  <2>2. /\ data \in Seq(Events("handop")) /\ events_queue \in Seq(Events("ros"))
        /\ Len(data) = 0
    BY DEF Init
  <2>3. /\ seen \in [Callbacks -> Nat] /\ \A p \in Callbacks : seen[p] = 0
        /\ overlapped \in BOOLEAN /\ tail = 0 /\ front = 0 /\ localTail = 0
    BY DEF Init
  <2>4. Alone
    BY DEF Init, Alone
  <2> QED
    BY <2>1, <2>2, <2>3, <2>4 DEF QueueTypes
<1>4. KernelTypes
  BY DEF Init, KernelTypes, Both, NoVelocity
<1> QED
  BY <1>1, <1>2, <1>3, <1>4 DEF TypeOK

\* The clients' state keeps its types.
LEMMA StepClients == ClientTypes /\ [Next]_vars => ClientTypes'
<1> SUFFICES ASSUME ClientTypes, [Next]_vars PROVE ClientTypes'
  OBVIOUS
<1>1. ASSUME NEW c \in Known \cup Unknown, HandopAction(c) PROVE ClientTypes'
  <2>1. key_2_evts' = WithCode(c) /\ Received("handop", c)
    BY <1>1 DEF HandopAction
  <2>2. key_2_evts' \in [DOMAIN key_2_evts' -> Known] /\ DOMAIN key_2_evts' = DOMAIN key_2_evts \cup {c}
    BY <2>1, CodesAssumption DEF WithCode, ClientTypes
  <2> QED
    BY <2>1, <2>2 DEF ClientTypes, Received, Rings
<1>2. ASSUME NEW c \in Known \cup Unknown, RobotAction(c) PROVE ClientTypes'
  BY <1>2 DEF RobotAction, ClientTypes, Received, Rings
<1>3. CASE UNCHANGED clients
  BY <1>3 DEF clients, ClientTypes
<1> QED
  BY <1>1, <1>2, <1>3 DEF Next, Action, Producer, TakeTwist, WritePart, QueueTwist,
     EnqueueEnds, EnqueueEnd, HandleEvents, TakeBackend, RunsAway, TakeRos, HandleEvent,
     QueueIsEmpty, ReadPart, ChangeState, vars

\* So do the rings.
LEMMA StepRings == RingTypes /\ [Next]_vars => RingTypes'
<1> SUFFICES ASSUME RingTypes, [Next]_vars PROVE RingTypes'
  OBVIOUS
<1>1. ASSUME NEW r \in Rings, TakeTwist(r) PROVE RingTypes'
  <2>1. /\ sent' \in [Rings -> Nat] /\ writer' \in [Rings -> Parts \cup {"idle", "queue"}]
        /\ twists_' = twists_
        /\ DOMAIN cell' = Rings /\ DOMAIN current_twist_idx_' = Rings
    BY <1>1 DEF TakeTwist, RingTypes, Parts
  <2>2. \A q \in Rings \ {r} : cell'[q] = cell[q] /\ current_twist_idx_'[q] = current_twist_idx_[q]
    BY <1>1 DEF TakeTwist, RingTypes
  <2>3. cell'[r] \in Indices(r) /\ current_twist_idx_'[r] = (current_twist_idx_[r] + 1) % TwistCount[r]
    BY <1>1 DEF TakeTwist, RingTypes
  <2>4. (current_twist_idx_[r] + 1) % TwistCount[r] \in Indices(r)
    <3>1. current_twist_idx_[r] + 1 \in Nat /\ TwistCount[r] \in Nat \ {0}
      BY RingsAssumption DEF RingTypes, Indices
    <3> QED
      BY <3>1 DEF Indices
  <2> QED
    BY <2>1, <2>2, <2>3, <2>4 DEF RingTypes
<1>2. ASSUME NEW r \in Rings, WritePart(r) PROVE RingTypes'
  <2>1. /\ writer' \in [Rings -> Parts \cup {"idle", "queue"}] /\ writer[r] \in Parts
        /\ twists_' = [twists_ EXCEPT ![r][cell[r]][writer[r]] = sent[r]]
        /\ UNCHANGED <<current_twist_idx_, cell, sent>>
    BY <1>2 DEF WritePart, RingTypes, Parts
  <2>2. sent[r] \in Nat
    BY DEF RingTypes
  <2>3. DOMAIN twists_' = Rings /\ \A q \in Rings : twists_'[q] \in [Indices(q) -> [Parts -> Nat]]
    BY <2>1, <2>2 DEF RingTypes
  <2> QED
    BY <2>1, <2>3 DEF RingTypes
<1>3. ASSUME NEW r \in Rings, QueueTwist(r) PROVE RingTypes'
  BY <1>3 DEF QueueTwist, RingTypes
<1>4. CASE UNCHANGED rings
  BY <1>4 DEF rings, RingTypes
<1> QED
  BY <1>1, <1>2, <1>3, <1>4 DEF Next, Action, HandopAction, RobotAction, Producer,
     EnqueueEnds, EnqueueEnd, HandleEvents, TakeBackend, RunsAway, TakeRos, HandleEvent,
     QueueIsEmpty, ReadPart, ChangeState, vars

\* So do the queues.
LEMMA StepQueues ==
  ClientTypes /\ RingTypes /\ QueueTypes /\ Alone /\ [Next]_vars => QueueTypes' /\ Alone'
<1> SUFFICES ASSUME ClientTypes, RingTypes, QueueTypes, Alone, [Next]_vars
             PROVE  QueueTypes' /\ Alone'
  OBVIOUS
<1> DEFINE Quiet == UNCHANGED <<element, seen, overlapped, data, tail, front, localTail>>
<1>0. ASSUME Quiet, events_queue' \in Seq(Events("ros")) PROVE QueueTypes' /\ Alone'
  BY <1>0 DEF QueueTypes, Alone, Events, Indices
<1>1. ASSUME NEW c \in Known \cup Unknown, HandopAction(c) PROVE QueueTypes' /\ Alone'
  <2>1. key_2_evts'[c] \in Known
    BY <1>1, CodesAssumption DEF HandopAction, WithCode, ClientTypes
  <2>2. ActionEvent(key_2_evts'[c]) \in Events("handop")
    BY <2>1, CellsExist DEF ActionEvent, Events, Codes, Rings
  <2> QED
    BY <1>1, <2>2, EnqueueBegins DEF HandopAction, Callbacks, kernel
<1>2. ASSUME NEW c \in Known \cup Unknown, RobotAction(c) PROVE QueueTypes' /\ Alone'
  <2>1. c \in DOMAIN key_2_evts => ActionEvent(key_2_evts[c]) \in Events("ros")
    BY CellsExist DEF ActionEvent, Events, Codes, Rings, ClientTypes
  <2>2. events_queue' \in Seq(Events("ros"))
    <3>1. events_queue \in Seq(Events("ros"))
      BY DEF QueueTypes
    <3> QED
      BY <1>2, <2>1, <3>1, AppendProperties DEF RobotAction
  <2> QED
    BY <1>0, <1>2, <2>2 DEF RobotAction, enqueue, kernel
<1>3. ASSUME NEW r \in Rings, QueueTwist(r) PROVE QueueTypes' /\ Alone'
  <2>1. Velocity(r) \in Events(r)
    BY DEF Velocity, Events, Codes, RingTypes
  <2>2. CASE r = "handop"
    BY <1>3, <2>1, <2>2, EnqueueBegins DEF QueueTwist, Callbacks, kernel
  <2>3. CASE r = "ros"
    <3>1. events_queue' \in Seq(Events("ros"))
      <4>1. events_queue \in Seq(Events("ros"))
        BY DEF QueueTypes
      <4>2. events_queue' = Append(events_queue, Velocity(r))
        BY <1>3, <2>3 DEF QueueTwist
      <4> QED
        BY <2>1, <2>3, <4>1, <4>2, AppendProperties
    <3> QED
      BY <1>0, <1>3, <2>3, <3>1 DEF QueueTwist, enqueue, kernel
  <2> QED
    BY <2>2, <2>3 DEF Rings
<1>4. ASSUME NEW p \in Callbacks, EnqueueEnd(p) PROVE QueueTypes' /\ Alone'
  BY <1>4, EnqueueKeepsTypes
<1>5. CASE TakeBackend
  <2>1. UNCHANGED <<element, seen, overlapped, data, tail, events_queue>>
    BY <1>5 DEF TakeBackend, HandleEvent, enqueue
  <2>2. localTail' \in 0 .. Len(data) /\ front' \in 0 .. localTail'
    BY <1>5 DEF TakeBackend, KnownTail, QueueTypes
  <2> QED
    BY <2>1, <2>2 DEF QueueTypes, Alone, Events, Indices
<1>6. CASE TakeRos
  <2>1. events_queue' \in Seq(Events("ros"))
    BY <1>6, HeadTailProperties DEF TakeRos, QueueTypes
  <2> QED
    BY <1>0, <1>6, <2>1 DEF TakeRos, HandleEvent, enqueue
<1>7. CASE Quiet /\ UNCHANGED events_queue
  BY <1>0, <1>7 DEF QueueTypes
<1> QED
  BY <1>1, <1>2, <1>3, <1>4, <1>5, <1>6, <1>7 DEF Next, Action, Producer, TakeTwist,
     WritePart, EnqueueEnds, HandleEvents, RunsAway, QueueIsEmpty, ReadPart, ChangeState,
     vars, enqueue, kernel

\* An event taken from a queue is typed.
LEMMA TakenEvents ==
  ASSUME QueueTypes
  PROVE  /\ TakeBackend => data[front'] \in Events("handop") /\ HandleEvent("handop", data[front'])
         /\ TakeRos => Head(events_queue) \in Events("ros") /\ HandleEvent("ros", Head(events_queue))
<1>1. ASSUME TakeBackend PROVE data[front'] \in Events("handop")
  <2>1. front' \in 1 .. Len(data) /\ data \in Seq(Events("handop"))
    BY <1>1 DEF TakeBackend, KnownTail, QueueTypes
  <2> QED
    BY <2>1, ElementOfSeq
<1>2. ASSUME TakeRos PROVE Head(events_queue) \in Events("ros")
  BY <1>2, HeadTailProperties DEF TakeRos, QueueTypes
<1> QED
  BY <1>1, <1>2 DEF TakeBackend, TakeRos

\* So does the kernel's handler.
LEMMA StepKernel ==
  RingTypes /\ QueueTypes /\ KernelTypes /\ [Next]_vars => KernelTypes'
<1> SUFFICES ASSUME RingTypes, QueueTypes, KernelTypes, [Next]_vars PROVE KernelTypes'
  OBVIOUS
<1>1. ASSUME NEW r \in Rings, NEW e \in Events(r), HandleEvent(r, e) PROVE KernelTypes'
  <2>1. handled' \subseteq Codes /\ UNCHANGED <<phase, command_, latest, running>>
    BY <1>1 DEF HandleEvent, KernelTypes, Events
  <2>2. CASE UNCHANGED <<reader, event>>
    BY <2>1, <2>2 DEF KernelTypes
  <2>3. CASE reader' = "linear" /\ event' = [ring |-> r, twist |-> e.twist, number |-> e.number]
    <3>1. event' \in Pointers(r)
      BY <1>1, <2>3 DEF Pointers, Events
    <3> QED
      BY <2>1, <2>3, <3>1 DEF KernelTypes, Pointers, Indices, Parts
  <2> QED
    BY <1>1, <2>2, <2>3 DEF HandleEvent
<1>2. CASE TakeBackend \/ TakeRos
  BY <1>1, <1>2, TakenEvents DEF Rings
<1>3. CASE QueueIsEmpty \/ RunsAway
  BY <1>3 DEF QueueIsEmpty, RunsAway, KernelTypes, Pointers, Indices, handler
<1>4. CASE ReadPart
  <2>1. PICK r \in Rings : event \in Pointers(r)
    BY <1>4 DEF ReadPart, KernelTypes, Parts
  <2>2. reader \in Parts /\ twists_[event.ring][event.twist][reader] \in Nat
    BY <1>4, <2>1 DEF ReadPart, RingTypes, Pointers, Parts
  <2>3. command_' \in [Parts -> [ring : Rings \cup {"none"}, number : Nat]]
    BY <1>4, <2>1, <2>2 DEF ReadPart, KernelTypes, Pointers
  <2>4. latest' \in [ring : Rings \cup {"none"}, number : Nat]
    BY <1>4, <2>1 DEF ReadPart, KernelTypes, Pointers
  <2>5. reader' \in Parts \cup {"idle"} /\ UNCHANGED <<phase, handled, event, running>>
    BY <1>4 DEF ReadPart, Parts
  <2> QED
    BY <2>1, <2>3, <2>4, <2>5 DEF KernelTypes, Pointers, Indices
<1>5. CASE ChangeState
  BY <1>5 DEF ChangeState, KernelTypes, Pointers, Indices
<1>6. CASE UNCHANGED <<phase, handled, handler>>
  BY <1>6 DEF handler, KernelTypes, Pointers, Indices
<1> QED
  BY <1>2, <1>3, <1>4, <1>5, <1>6 DEF Next, Action, HandopAction, RobotAction, Producer,
     TakeTwist, WritePart, QueueTwist, EnqueueEnds, EnqueueEnd, HandleEvents, vars, kernel

\* The types are inductive together with Alone.
LEMMA TypeInvariance == Spec => [](TypeOK /\ Alone)
<1>1. TypeOK /\ Alone /\ [Next]_vars => TypeOK' /\ Alone'
  BY StepClients, StepRings, StepQueues, StepKernel DEF TypeOK
<1> QED
  BY <1>1, InitTypes, PTL DEF Spec

(* Every variable has its type for every size of the rings; in particular  *)
(* no pointer leaves the ring of its producer.                             *)
THEOREM TypeCorrect == Spec => []TypeOK
  BY TypeInvariance, PTL

-----------------------------------------------------------------------------
(* Where a STOP comes from.                                                *)
Guessed(c) == c \in Unknown /\ [from |-> "handop", code |-> c] \in received
Asked == Requests(STOP) \/ \E c \in Unknown : Guessed(c)

\* The map takes no known code for STOP, and an unknown one only when it was sent to
\* the hand operator.
MapInv == \A c \in DOMAIN key_2_evts : key_2_evts[c] = STOP => c = STOP \/ Guessed(c)

\* Nobody has asked, so nobody will be told to stop.
NoStop ==
  /\ \A p \in Callbacks : element[p] # <<>> => element[p][1].code # STOP
  /\ \A i \in 1 .. Len(data) : data[i].code # STOP
  /\ \A i \in 1 .. Len(events_queue) : events_queue[i].code # STOP
  /\ STOP \notin handled

Provenance == MapInv /\ (NoStop \/ Asked)

\* What was asked stays so.
LEMMA AskedStays == ASSUME [Next]_vars PROVE /\ Asked => Asked'
                                             /\ \A c : Guessed(c) => Guessed(c)'
<1>1. received \subseteq received'
  BY DEF Next, Action, HandopAction, RobotAction, Received, Producer, TakeTwist, WritePart,
     QueueTwist, EnqueueEnds, EnqueueEnd, HandleEvents, TakeBackend, RunsAway, TakeRos,
     HandleEvent, QueueIsEmpty, ReadPart, ChangeState, clients, vars
<1> QED
  BY <1>1 DEF Asked, Requests, Guessed

\* An action whose event is STOP has been asked for.
LEMMA ActionAsks ==
  ASSUME MapInv, ClientTypes, NEW c \in Known \cup Unknown
  PROVE  /\ HandopAction(c) => MapInv' /\ (key_2_evts'[c] = STOP => Asked')
         /\ RobotAction(c) /\ c \in DOMAIN key_2_evts => (key_2_evts[c] = STOP => Asked')
<1>1. ASSUME HandopAction(c) PROVE MapInv' /\ (key_2_evts'[c] = STOP => Asked')
  <2>1. key_2_evts' = WithCode(c) /\ received' = received \cup {[from |-> "handop", code |-> c]}
    BY <1>1 DEF HandopAction, Received
  <2>2. \A d \in DOMAIN key_2_evts' : key_2_evts'[d] = STOP => d = STOP \/ Guessed(d)'
    <3> SUFFICES ASSUME NEW d \in DOMAIN key_2_evts', key_2_evts'[d] = STOP
                 PROVE  d = STOP \/ Guessed(d)'
      OBVIOUS
    <3>1. CASE d \in DOMAIN key_2_evts
      BY <2>1, <3>1 DEF MapInv, WithCode, Guessed
    <3>2. CASE d \notin DOMAIN key_2_evts
      BY <2>1, <3>2 DEF WithCode, Guessed, ClientTypes
    <3> QED
      BY <3>1, <3>2
  <2>3. c \in DOMAIN key_2_evts'
    BY <2>1 DEF WithCode
  <2>4. c = STOP => Requests(STOP)'
    BY <2>1 DEF Requests, Rings
  <2> QED
    BY <2>2, <2>3, <2>4 DEF MapInv, Asked, Guessed
<1>2. ASSUME RobotAction(c), c \in DOMAIN key_2_evts, key_2_evts[c] = STOP PROVE Asked'
  <2>1. received' = received \cup {[from |-> "ros", code |-> c]}
    BY <1>2 DEF RobotAction, Received
  <2>2. c = STOP => Requests(STOP)'
    BY <2>1 DEF Requests, Rings
  <2> QED
    BY <1>2, <2>1, <2>2 DEF MapInv, Asked, Guessed
<1> QED
  BY <1>1, <1>2

\* Every step preserves it.
LEMMA StepProvenance ==
  TypeOK /\ Alone /\ Provenance /\ [Next]_vars => Provenance'
<1> SUFFICES ASSUME TypeOK, Alone, Provenance, [Next]_vars PROVE Provenance'
  OBVIOUS
<1>1. MapInv'
  <2>1. ASSUME NEW c \in Known \cup Unknown, HandopAction(c) PROVE MapInv'
    BY <2>1, ActionAsks DEF Provenance, TypeOK
  <2>2. CASE UNCHANGED key_2_evts
    BY <2>2, AskedStays DEF MapInv, Provenance
  <2> QED
    BY <2>1, <2>2 DEF Next, Action, RobotAction, Producer, TakeTwist, WritePart,
       QueueTwist, EnqueueEnds, EnqueueEnd, HandleEvents, TakeBackend, RunsAway, TakeRos,
       HandleEvent, QueueIsEmpty, ReadPart, ChangeState, clients, vars
<1> SUFFICES ASSUME ~Asked' PROVE NoStop'
  BY <1>1 DEF Provenance
<1>2. NoStop /\ QueueTypes
  BY AskedStays DEF Provenance, TypeOK
<1>3. SetVelAll # STOP
  BY DEF SetVelAll, STOP
<1>4. ASSUME NEW p \in Callbacks, NEW e, e.code # STOP, EnqueueBegin(p, e),
             UNCHANGED <<events_queue, kernel>>
      PROVE  NoStop'
  BY <1>2, <1>4 DEF EnqueueBegin, NoStop, QueueTypes, kernel
<1>5. ASSUME NEW e \in Events("ros"), e.code # STOP, events_queue' = Append(events_queue, e),
             UNCHANGED <<enqueue, kernel>>
      PROVE  NoStop'
  <2>1. /\ Len(events_queue') = Len(events_queue) + 1 /\ Len(events_queue) \in Nat
        /\ \A i \in 1 .. Len(events_queue) : events_queue'[i] = events_queue[i]
        /\ events_queue'[Len(events_queue) + 1] = e
    BY <1>2, <1>5, AppendProperties DEF QueueTypes
  <2>2. \A i \in 1 .. Len(events_queue') : events_queue'[i].code # STOP
    BY <1>2, <1>5, <2>1 DEF NoStop
  <2> QED
    BY <1>2, <1>5, <2>2 DEF NoStop, enqueue, kernel
<1>6. ASSUME NEW c \in Known \cup Unknown, HandopAction(c) PROVE NoStop'
  <2>1. key_2_evts'[c] # STOP
    BY <1>6, ActionAsks DEF Provenance, TypeOK
  <2>2. ActionEvent(key_2_evts'[c]).code # STOP
    BY <2>1 DEF ActionEvent
  <2> QED
    BY <1>4, <1>6, <2>2 DEF HandopAction, Callbacks
<1>7. ASSUME NEW c \in Known \cup Unknown, RobotAction(c) PROVE NoStop'
  <2>1. CASE c \in DOMAIN key_2_evts
    <3>1. ActionEvent(key_2_evts[c]).code # STOP
      BY <1>7, <2>1, ActionAsks DEF Provenance, TypeOK, ActionEvent
    <3>2. ActionEvent(key_2_evts[c]) \in Events("ros")
      BY <2>1, CellsExist DEF ActionEvent, Events, Codes, Rings, TypeOK, ClientTypes
    <3> QED
      BY <1>5, <1>7, <2>1, <3>1, <3>2 DEF RobotAction
  <2>2. CASE c \notin DOMAIN key_2_evts
    BY <1>2, <1>7, <2>2 DEF RobotAction, NoStop, enqueue, kernel
  <2> QED
    BY <2>1, <2>2
<1>8. ASSUME NEW r \in Rings, QueueTwist(r) PROVE NoStop'
  <2>1. Velocity(r) \in Events(r) /\ Velocity(r).code # STOP
    BY <1>3 DEF Velocity, Events, Codes, TypeOK, RingTypes
  <2> QED
    BY <1>4, <1>5, <1>8, <2>1 DEF QueueTwist, Rings, Callbacks
<1>9. ASSUME NEW p \in Callbacks, EnqueueEnd(p) PROVE NoStop'
  <2>1. PICK e \in Events("handop") :
          /\ element[p] = <<e>>
          /\ \A i \in 1 .. Len(data') :
               data'[i] = e \/ (i \in 1 .. Len(data) /\ data'[i] = data[i])
    BY <1>2, <1>9, EnqueueWrites
  <2>2. e.code # STOP
    BY <1>2, <2>1 DEF NoStop
  <2>4. \A i \in 1 .. Len(data') : data'[i].code # STOP
    BY <1>2, <2>1, <2>2 DEF NoStop
  <2>5. \A q \in Callbacks : element'[q] # <<>> => element'[q][1].code # STOP
    BY <1>2, <1>9 DEF EnqueueEnd, QueueTypes, NoStop
  <2> QED
    BY <1>2, <1>9, <2>4, <2>5 DEF EnqueueEnd, NoStop, kernel
<1>10. CASE TakeBackend
  <2>1. front' \in 1 .. Len(data)
    BY <1>2, <1>10 DEF TakeBackend, KnownTail, QueueTypes
  <2> QED
    BY <1>2, <1>10, <2>1 DEF TakeBackend, HandleEvent, NoStop, enqueue
<1>11. CASE TakeRos
  <2>1. /\ Len(events_queue') = Len(events_queue) - 1 /\ Len(events_queue) \in Nat \ {0}
        /\ \A i \in 1 .. Len(events_queue') : events_queue'[i] = events_queue[i + 1]
        /\ Head(events_queue) = events_queue[1]
    BY <1>2, <1>11, HeadTailProperties, EmptySeq, LenProperties DEF TakeRos, QueueTypes
  <2>2. \A i \in 1 .. Len(events_queue') : events_queue'[i].code # STOP
    BY <1>2, <2>1 DEF NoStop
  <2>3. Head(events_queue).code # STOP
    BY <1>2, <2>1 DEF NoStop
  <2> QED
    BY <1>2, <1>11, <2>2, <2>3 DEF TakeRos, HandleEvent, NoStop, enqueue
<1>12. CASE UNCHANGED <<element, data, events_queue, handled>>
  BY <1>2, <1>12 DEF NoStop
<1> QED
  BY <1>6, <1>7, <1>8, <1>9, <1>10, <1>11, <1>12 DEF Next, Action, Producer, TakeTwist,
     WritePart, EnqueueEnds, HandleEvents, RunsAway, QueueIsEmpty, ReadPart, ChangeState,
     vars, enqueue, kernel

(* The kernel stops only because a client has sent the code of STOP, or    *)
(* the hand operator one that is in no table: for every table of codes and *)
(* any number of actions.                                                  *)
THEOREM StopsWhenAsked == Spec => []StopIsAsked
<1>1. Init => Provenance
  BY DEF Init, Provenance, MapInv, NoStop
<1>2. Provenance => StopIsAsked
  BY DEF Provenance, NoStop, StopIsAsked, Asked, Guessed
<1> QED
  BY <1>1, <1>2, StepProvenance, TypeInvariance, PTL DEF Spec

-----------------------------------------------------------------------------
(* The backend's queue.                                                    *)

\* What is left of a sequence when its first elements are gone.
LEMMA RestOfSeq ==
  ASSUME NEW S, NEW s \in Seq(S), NEW f \in 0 .. Len(s)
  PROVE  /\ SubSeq(s, f + 1, Len(s)) \in Seq(S)
         /\ Len(SubSeq(s, f + 1, Len(s))) = Len(s) - f
         /\ \A i \in 1 .. Len(s) - f : SubSeq(s, f + 1, Len(s))[i] = s[f + i]
<1>1. Len(s) \in Nat
  OBVIOUS
<1> QED
  BY <1>1, SubSeqProperties

(* Until its two producers meet inside enqueue, the backend's queue is the *)
(* event queue that Supervisor takes it for.                               *)
THEOREM QueueRefines == Spec => BackendQueueSpec
<1>1. Init => BackendQueue!QueueInit
  BY DEF Init, BackendQueue!QueueInit, Waiting
<1>2. TypeOK /\ Alone /\ TypeOK' /\ Alone' /\ [Next]_vars =>
        \/ BackendQueue!Put \/ BackendQueue!Get \/ overlapped'
        \/ UNCHANGED Waiting
  <2> SUFFICES ASSUME TypeOK, Alone, TypeOK', Alone', [Next]_vars, ~overlapped'
               PROVE  BackendQueue!Put \/ BackendQueue!Get \/ UNCHANGED Waiting
    OBVIOUS
  <2>1. QueueTypes /\ QueueTypes'
    BY DEF TypeOK
  <2>2. ~overlapped
    BY <2>1 DEF Next, Action, HandopAction, RobotAction, EnqueueBegin, Producer, TakeTwist,
       WritePart, QueueTwist, EnqueueEnds, EnqueueEnd, HandleEvents, TakeBackend, RunsAway,
       TakeRos, HandleEvent, QueueIsEmpty, ReadPart, ChangeState, enqueue, vars, QueueTypes
  <2>3. /\ data \in Seq(Events("handop")) /\ tail = Len(data)
        /\ localTail \in 0 .. tail /\ front \in 0 .. localTail
    BY <2>1, <2>2 DEF QueueTypes, Alone
  <2>4. /\ Len(Waiting) = tail - front
        /\ \A i \in 1 .. tail - front : Waiting[i] = data[front + i]
    BY <2>3, RestOfSeq DEF Waiting
  <2>5. /\ Len(Waiting') = tail' - front'
        /\ \A i \in 1 .. tail' - front' : Waiting'[i] = data'[front' + i]
    <3>1. data' \in Seq(Events("handop")) /\ front' \in 0 .. Len(data') /\ tail' = Len(data')
      BY <2>1 DEF QueueTypes, Alone, Events, Indices
    <3> QED
      BY <3>1, RestOfSeq DEF Waiting
  <2>6. ASSUME NEW p \in Callbacks, EnqueueEnd(p) PROVE BackendQueue!Put
    <3>1. PICK e \in Events("handop") : data' = Append(data, e) /\ tail' = tail + 1
      BY <2>1, <2>2, <2>6, EnqueueAppends
    <3>2. front' = front
      BY <2>6 DEF EnqueueEnd, kernel
    <3>3. /\ data'[tail + 1] = e
          /\ \A i \in 1 .. tail : data'[i] = data[i]
      BY <2>3, <3>1, AppendProperties
    <3>4. Len(Waiting') = Len(Waiting) + 1
      BY <2>3, <2>4, <2>5, <3>1, <3>2
    <3>5. \A i \in 1 .. Len(Waiting) : Waiting'[i] = Waiting[i]
      BY <2>3, <2>4, <2>5, <3>1, <3>2, <3>3
    <3>6. Waiting'[Len(Waiting')] = e
      BY <2>3, <2>4, <2>5, <3>1, <3>2, <3>3
    <3> QED
      BY <3>4, <3>5, <3>6 DEF BackendQueue!Put
  <2>7. CASE TakeBackend
    <3>1. front' = front + 1 /\ front < tail /\ UNCHANGED <<data, tail>>
      BY <2>3, <2>7 DEF TakeBackend, KnownTail, HandleEvent, enqueue
    <3>2. Waiting # <<>>
      BY <2>3, <2>4, <3>1
    <3>3. Waiting' = Tail(Waiting)
      <4>1. front + 1 \in 1 .. Len(data) /\ tail \in front + 1 .. Len(data)
        BY <2>3, <3>1
      <4>2. data \in Seq(Events("handop"))
        BY <2>3
      <4>3. Tail(SubSeq(data, front + 1, tail)) = SubSeq(data, (front + 1) + 1, tail)
        BY <4>1, <4>2, HeadTailOfSubSeq
      <4>4. Waiting' = SubSeq(data, (front + 1) + 1, tail)
        BY <3>1 DEF Waiting
      <4> QED
        BY <4>3, <4>4 DEF Waiting
    <3> QED
      BY <3>2, <3>3 DEF BackendQueue!Get
  <2>8. CASE UNCHANGED <<data, tail, front>>
    BY <2>8 DEF Waiting
  <2>9. ASSUME NEW c \in Known \cup Unknown, Action(c) PROVE UNCHANGED <<data, tail, front>>
    BY <2>9 DEF Action, HandopAction, RobotAction, EnqueueBegin, enqueue, kernel
  <2>10. ASSUME NEW r \in Rings, Producer(r) PROVE UNCHANGED <<data, tail, front>>
    BY <2>10 DEF Producer, TakeTwist, WritePart, QueueTwist, EnqueueBegin, enqueue, kernel
  <2>11. ASSUME RunsAway \/ TakeRos \/ QueueIsEmpty \/ ReadPart \/ ChangeState \/ UNCHANGED vars
         PROVE  UNCHANGED <<data, tail, front>>
    BY <2>11 DEF RunsAway, TakeRos, HandleEvent, QueueIsEmpty, ReadPart, ChangeState, vars,
       enqueue, kernel
  <2> QED
    BY <2>6, <2>7, <2>8, <2>9, <2>10, <2>11 DEF Next, EnqueueEnds, HandleEvents
<1> QED
  BY <1>1, <1>2, TypeInvariance, PTL DEF Spec, BackendQueueSpec

-----------------------------------------------------------------------------
(* The rings.                                                              *)

\* Velocity n of ring r has been begun, and i is its cell.
Went(r, n, i) == n \in 1 .. sent[r] /\ i \in Indices(r) /\ InCell(TwistCount[r], n - 1, i)

\* Its cell holds it or later ones.
Whole(r, i, n) == Went(r, n, i) /\ \A p \in Parts : twists_[r][i][p] >= n

\* What a cell holds went there, and the producer is at the cell of its velocity.
RingInv ==
  \A r \in Rings :
    /\ InCell(TwistCount[r], sent[r], current_twist_idx_[r])
    /\ writer[r] # "idle" => Went(r, sent[r], cell[r])
    /\ \A i \in Indices(r), p \in Parts :
         twists_[r][i][p] # 0 => Went(r, twists_[r][i][p], i)
    /\ writer[r] \in {"angular", "queue"} => twists_[r][cell[r]]["linear"] >= sent[r]
    /\ writer[r] = "queue" => twists_[r][cell[r]]["angular"] >= sent[r]

\* An event of a velocity points at a cell that holds it whole, or later ones.
Sound(r, e) == e.code = SetVelAll => Whole(r, e.twist, e.number)

PointersInv ==
  /\ \A p \in Callbacks : element[p] # <<>> => Sound("handop", element[p][1])
  /\ \A i \in 1 .. Len(data) : Sound("handop", data[i])
  /\ \A i \in 1 .. Len(events_queue) : Sound("ros", events_queue[i])
  /\ reader # "idle" => Whole(event.ring, event.twist, event.number)

\* The loop has read velocity n, or a later one if the producer is a ring ahead.
Got(x, r, n) ==
  x.ring = r /\ x.number >= n /\ (sent[r] < n + TwistCount[r] => x.number = n)

ReadInv ==
  /\ reader = "angular" => Got(command_["linear"], event.ring, event.number)
  /\ reader = "idle" /\ latest.ring \in Rings =>
       \A p \in Parts : Got(command_[p], latest.ring, latest.number)

\* The rings change only by their producers.
LEMMA RingsChange ==
  ASSUME [Next]_vars
  PROVE  (\E r \in Rings : TakeTwist(r) \/ WritePart(r) \/ QueueTwist(r)) \/ UNCHANGED rings
  BY DEF Next, Action, HandopAction, RobotAction, Producer, EnqueueEnds, EnqueueEnd,
     HandleEvents, TakeBackend, RunsAway, TakeRos, HandleEvent, QueueIsEmpty, ReadPart,
     ChangeState, vars

\* No velocity is taken back and no part of a twist gets an earlier one.
LEMMA RingsGrow ==
  ASSUME RingTypes, RingInv, [Next]_vars, NEW r \in Rings
  PROVE  /\ sent'[r] \in Nat /\ sent[r] \in Nat /\ sent'[r] >= sent[r]
         /\ \A i \in Indices(r), p \in Parts :
              /\ twists_'[r][i][p] \in Nat /\ twists_[r][i][p] \in Nat
              /\ twists_'[r][i][p] >= twists_[r][i][p]
<1>1. RingTypes'
  BY StepRings
<1>2. /\ sent'[r] \in Nat /\ sent[r] \in Nat
      /\ \A i \in Indices(r), p \in Parts : twists_'[r][i][p] \in Nat /\ twists_[r][i][p] \in Nat
  <2>1. sent'[r] \in Nat /\ sent[r] \in Nat
    BY <1>1 DEF RingTypes
  <2>2. twists_[r] \in [Indices(r) -> [Parts -> Nat]]
    BY DEF RingTypes
  <2>3. twists_'[r] \in [Indices(r) -> [Parts -> Nat]]
    BY <1>1 DEF RingTypes, Indices
  <2> QED
    BY <2>1, <2>2, <2>3
<1>3. ASSUME NEW q \in Rings, WritePart(q)
      PROVE  /\ sent'[r] >= sent[r]
             /\ \A i \in Indices(r), p \in Parts : twists_'[r][i][p] >= twists_[r][i][p]
  <2>1. sent' = sent /\ twists_' = [twists_ EXCEPT ![q][cell[q]][writer[q]] = sent[q]]
    BY <1>3 DEF WritePart
  <2>2. \A i \in Indices(q), p \in Parts : twists_[q][i][p] <= sent[q]
    BY <1>2 DEF RingInv, Went, RingTypes
  <2>3. ASSUME NEW i \in Indices(r), NEW p \in Parts
        PROVE  twists_'[r][i][p] >= twists_[r][i][p]
    <3>1. ASSUME twists_'[r][i][p] # twists_[r][i][p]
          PROVE  q = r /\ twists_'[r][i][p] = sent[r]
      BY <2>1, <3>1 DEF RingTypes
    <3> QED
      BY <1>2, <2>2, <3>1
  <2> QED
    BY <1>2, <2>1, <2>3
<1>4. ASSUME NEW q \in Rings, TakeTwist(q)
      PROVE  sent'[r] >= sent[r] /\ twists_' = twists_
  BY <1>2, <1>4 DEF TakeTwist, RingTypes
<1>5. ASSUME NEW q \in Rings, QueueTwist(q) PROVE sent' = sent /\ twists_' = twists_
  BY <1>5 DEF QueueTwist
<1> QED
  BY <1>2, <1>3, <1>4, <1>5, RingsChange DEF rings

\* So what went somewhere has gone there, and what was whole stays so.
LEMMA WholeStays ==
  ASSUME RingTypes, RingInv, [Next]_vars, NEW r \in Rings, NEW i, NEW n
  PROVE  /\ Went(r, n, i) => Went(r, n, i)'
         /\ Whole(r, i, n) => Whole(r, i, n)'
<1>1. Went(r, n, i) => Went(r, n, i)'
  BY RingsGrow DEF Went, Indices
<1>2. ASSUME Whole(r, i, n), NEW p \in Parts PROVE twists_'[r][i][p] >= n
  <2>1. i \in Indices(r) /\ n \in Nat /\ twists_[r][i][p] >= n
    BY <1>2 DEF Whole, Went
  <2> QED
    BY <2>1, RingsGrow
<1> QED
  BY <1>1, <1>2 DEF Whole

\* Every step preserves RingInv.
LEMMA StepRingInv == RingTypes /\ RingInv /\ [Next]_vars => RingInv'
<1> SUFFICES ASSUME RingTypes, RingInv, [Next]_vars PROVE RingInv'
  OBVIOUS
<1>1. \A r \in Rings : sent[r] \in Nat /\ TwistCount[r] \in Nat \ {0}
  BY RingsAssumption DEF RingTypes
<1>2. ASSUME NEW q \in Rings, TakeTwist(q), NEW r \in Rings
      PROVE  /\ InCell(TwistCount[r], sent[r], current_twist_idx_[r])'
             /\ (writer[r] # "idle" => Went(r, sent[r], cell[r]))'
             /\ (writer[r] \in {"angular", "queue"} => twists_[r][cell[r]]["linear"] >= sent[r])'
             /\ (writer[r] = "queue" => twists_[r][cell[r]]["angular"] >= sent[r])'
  <2>1. CASE r = q
    <3>1. /\ sent'[r] = sent[r] + 1 /\ cell'[r] = current_twist_idx_[r] /\ writer'[r] = "linear"
          /\ current_twist_idx_'[r] = (current_twist_idx_[r] + 1) % TwistCount[r]
      BY <1>2, <2>1 DEF TakeTwist, RingTypes
    <3>2. /\ InCell(TwistCount[r], sent[r], current_twist_idx_[r])
          /\ current_twist_idx_[r] \in 0 .. TwistCount[r] - 1
      BY DEF RingInv, RingTypes, Indices
    <3>3. InCell(TwistCount[r], sent[r], current_twist_idx_[r])'
      <4>1. InCell(TwistCount[r], sent[r] + 1, (current_twist_idx_[r] + 1) % TwistCount[r])
        BY <1>1, <3>2, NextCell
      <4>2. InCell(TwistCount[r], sent'[r], current_twist_idx_'[r])
        BY <3>1, <4>1
      <4> QED
        BY <4>2 DEF InCell
    <3>4. Went(r, sent[r], cell[r])'
      <4>1. sent'[r] - 1 = sent[r] /\ sent'[r] \in 1 .. sent'[r]
        BY <1>1, <3>1
      <4> QED
        BY <3>1, <3>2, <4>1 DEF Went, Indices, InCell
    <3> QED
      BY <3>1, <3>3, <3>4
  <2>2. CASE r # q
    <3>1. /\ sent'[r] = sent[r] /\ cell'[r] = cell[r] /\ writer'[r] = writer[r]
          /\ current_twist_idx_'[r] = current_twist_idx_[r] /\ twists_' = twists_
      BY <1>2, <2>2 DEF TakeTwist, RingTypes
    <3> QED
      BY <3>1 DEF RingInv, Went, Indices, InCell
  <2> QED
    BY <2>1, <2>2
<1>3. ASSUME NEW q \in Rings, WritePart(q), NEW r \in Rings
      PROVE  /\ InCell(TwistCount[r], sent[r], current_twist_idx_[r])'
             /\ (writer[r] # "idle" => Went(r, sent[r], cell[r]))'
             /\ (writer[r] \in {"angular", "queue"} => twists_[r][cell[r]]["linear"] >= sent[r])'
             /\ (writer[r] = "queue" => twists_[r][cell[r]]["angular"] >= sent[r])'
  <2>1. /\ twists_' = [twists_ EXCEPT ![q][cell[q]][writer[q]] = sent[q]]
        /\ UNCHANGED <<current_twist_idx_, cell, sent>>
    BY <1>3 DEF WritePart
  <2>2. CASE r = q
    <3>1. \/ writer[r] = "linear" /\ writer'[r] = "angular"
          \/ writer[r] = "angular" /\ writer'[r] = "queue"
      BY <1>3, <2>2 DEF WritePart, RingTypes
    <3>2. twists_'[r][cell[r]][writer[r]] = sent[r] /\ cell[r] \in Indices(r)
      BY <2>1, <2>2, <3>1 DEF RingTypes, Parts
    <3>3. twists_'[r][cell[r]]["linear"] >= twists_[r][cell[r]]["linear"]
      BY <3>2, RingsGrow DEF Parts
    <3>4. writer[r] = "angular" => twists_'[r][cell[r]]["linear"] >= sent[r]
      BY <3>2, <3>3, RingsGrow DEF RingInv, Parts
    <3>5. InCell(TwistCount[r], sent[r], current_twist_idx_[r]) /\ Went(r, sent[r], cell[r])
      BY <3>1 DEF RingInv
    <3> QED
      BY <1>1, <2>1, <3>1, <3>2, <3>4, <3>5 DEF Went, InCell, Indices
  <2>3. CASE r # q
    <3>1. writer'[r] = writer[r] /\ twists_'[r] = twists_[r]
      BY <1>3, <2>1, <2>3 DEF WritePart, RingTypes
    <3> QED
      BY <2>1, <3>1 DEF RingInv, Went, Indices, InCell
  <2> QED
    BY <2>2, <2>3
<1>4. ASSUME NEW q \in Rings, QueueTwist(q), NEW r \in Rings
      PROVE  /\ InCell(TwistCount[r], sent[r], current_twist_idx_[r])'
             /\ (writer[r] # "idle" => Went(r, sent[r], cell[r]))'
             /\ (writer[r] \in {"angular", "queue"} => twists_[r][cell[r]]["linear"] >= sent[r])'
             /\ (writer[r] = "queue" => twists_[r][cell[r]]["angular"] >= sent[r])'
  <2>1. UNCHANGED <<twists_, current_twist_idx_, cell, sent>> /\ writer'[r] \in {"idle", writer[r]}
    BY <1>4 DEF QueueTwist, RingTypes
  <2> QED
    BY <2>1 DEF RingInv, Went, Indices, InCell
<1>5. ASSUME NEW r \in Rings, NEW i \in Indices(r), NEW p \in Parts, twists_'[r][i][p] # 0
      PROVE  Went(r, twists_[r][i][p], i)'
  <2>1. CASE twists_'[r][i][p] = twists_[r][i][p]
    <3>1. Went(r, twists_[r][i][p], i)
      BY <1>5, <2>1 DEF RingInv
    <3>2. Went(r, twists_[r][i][p], i) => twists_[r][i][p] \in 1 .. sent'[r] /\ InCell(TwistCount[r], twists_[r][i][p] - 1, i)
      BY RingsGrow DEF Went
    <3> QED
      BY <2>1, <3>1, <3>2 DEF Went, Indices, InCell
  <2>2. CASE twists_'[r][i][p] # twists_[r][i][p]
    <3>1. PICK q \in Rings : WritePart(q)
      BY <2>2, RingsChange DEF TakeTwist, QueueTwist, rings
    <3>2. twists_' = [twists_ EXCEPT ![q][cell[q]][writer[q]] = sent[q]] /\ sent' = sent
      BY <3>1 DEF WritePart
    <3>3. q = r /\ cell[q] = i /\ twists_'[r][i][p] = sent[r]
      BY <2>2, <3>2 DEF RingTypes
    <3>4. Went(r, sent[r], i)
      BY <3>1, <3>3 DEF WritePart, RingInv
    <3> QED
      BY <3>2, <3>3, <3>4 DEF Went, Indices, InCell
  <2> QED
    BY <2>1, <2>2
<1>6. ASSUME UNCHANGED rings PROVE RingInv'
  BY <1>6 DEF rings, RingInv, Went, Indices, InCell
<1> QED
  BY <1>2, <1>3, <1>4, <1>5, <1>6, RingsChange DEF RingInv, Indices

\* An event that was sound stays so.
LEMMA SoundStays ==
  ASSUME RingTypes, RingInv, [Next]_vars, NEW r \in Rings, NEW e, Sound(r, e)
  PROVE  Sound(r, e)'
<1>1. CASE e.code = SetVelAll
  <2>1. Whole(r, e.twist, e.number)'
    BY <1>1, WholeStays DEF Sound
  <2> QED
    BY <2>1 DEF Sound
<1>2. CASE e.code # SetVelAll
  BY <1>2 DEF Sound
<1> QED
  BY <1>1, <1>2

\* The event of a velocity that has been written is sound.
LEMMA VelocityIsSound ==
  ASSUME RingInv, NEW r \in Rings, QueueTwist(r)
  PROVE  Sound(r, Velocity(r))
<1>1. Went(r, sent[r], cell[r]) /\ \A p \in Parts : twists_[r][cell[r]][p] >= sent[r]
  BY DEF RingInv, QueueTwist, Parts
<1> QED
  BY <1>1 DEF Sound, Velocity, Whole

\* Every step keeps the events and the handler's pointer sound.
LEMMA StepPointers ==
  TypeOK /\ Alone /\ RingInv /\ PointersInv /\ [Next]_vars => PointersInv'
<1> SUFFICES ASSUME TypeOK, Alone, RingInv, PointersInv, [Next]_vars PROVE PointersInv'
  OBVIOUS
<1>1. RingTypes /\ QueueTypes /\ KernelTypes /\ ClientTypes
  BY DEF TypeOK
<1>2. \A r \in Rings : \A e : Sound(r, e) => Sound(r, e)'
  BY <1>1, SoundStays
<1>3. ASSUME UNCHANGED element
      PROVE  (\A p \in Callbacks : element[p] # <<>> => Sound("handop", element[p][1]))'
  BY <1>2, <1>3 DEF PointersInv, Sound, Whole, Went, Rings
<1>4. ASSUME UNCHANGED data PROVE (\A i \in 1 .. Len(data) : Sound("handop", data[i]))'
  BY <1>2, <1>4 DEF PointersInv, Sound, Whole, Went, Rings
<1>5. ASSUME UNCHANGED events_queue
      PROVE  (\A i \in 1 .. Len(events_queue) : Sound("ros", events_queue[i]))'
  BY <1>2, <1>5 DEF PointersInv, Sound, Whole, Went, Rings
<1>6. ASSUME UNCHANGED <<reader, event>>
      PROVE  (reader # "idle" => Whole(event.ring, event.twist, event.number))'
  <2>1. reader # "idle" => event.ring \in Rings
    BY <1>1 DEF KernelTypes, Pointers
  <2>2. reader # "idle" => Whole(event.ring, event.twist, event.number)
    BY DEF PointersInv
  <2>3. \A r \in Rings : \A i, n : Whole(r, i, n) => Whole(r, i, n)'
    BY <1>1, WholeStays
  <2> QED
    BY <1>6, <2>1, <2>2, <2>3 DEF Whole, Went
<1>7. ASSUME NEW p \in Callbacks, NEW e, Sound("handop", e), EnqueueBegin(p, e)
      PROVE  (\A q \in Callbacks : element[q] # <<>> => Sound("handop", element[q][1]))'
  <2>1. element' = [element EXCEPT ![p] = <<e>>] /\ DOMAIN element = Callbacks
    BY <1>1, <1>7 DEF EnqueueBegin, QueueTypes
  <2>2. \A x : Sound("handop", x) => Sound("handop", x)'
    BY <1>2 DEF Rings
  <2>3. ASSUME NEW q \in Callbacks, element'[q] # <<>>
        PROVE  \E x : Sound("handop", x) /\ element'[q][1] = x
    BY <1>7, <2>1, <2>3 DEF PointersInv
  <2> QED
    BY <2>2, <2>3 DEF Sound, Whole, Went
<1>8. ASSUME NEW e \in Events("ros"), Sound("ros", e), events_queue' = Append(events_queue, e)
      PROVE  (\A i \in 1 .. Len(events_queue) : Sound("ros", events_queue[i]))'
  <2>1. /\ Len(events_queue') = Len(events_queue) + 1 /\ Len(events_queue) \in Nat
        /\ \A i \in 1 .. Len(events_queue) : events_queue'[i] = events_queue[i]
        /\ events_queue'[Len(events_queue) + 1] = e
    BY <1>1, <1>8, AppendProperties DEF QueueTypes
  <2>2. ASSUME NEW i \in 1 .. Len(events_queue')
        PROVE  \E x : Sound("ros", x) /\ events_queue'[i] = x
    BY <1>8, <2>1, <2>2 DEF PointersInv
  <2>3. \A x : Sound("ros", x) => Sound("ros", x)'
    BY <1>2 DEF Rings
  <2> QED
    BY <2>2, <2>3 DEF Sound, Whole, Went
<1>9. \A r \in Rings, k \in Known : Sound(r, ActionEvent(k))
  BY CodesAssumption DEF Sound, ActionEvent, SetVelAll
<1>10. ASSUME NEW c \in Known \cup Unknown, HandopAction(c) PROVE PointersInv'
  <2>1. key_2_evts'[c] \in Known
    BY <1>1, <1>10, CodesAssumption DEF HandopAction, WithCode, ClientTypes
  <2>2. Sound("handop", ActionEvent(key_2_evts'[c]))
    BY <1>9, <2>1 DEF Rings
  <2>3. EnqueueBegin("action", ActionEvent(key_2_evts'[c])) /\ UNCHANGED <<data, events_queue, reader, event>>
    BY <1>10 DEF HandopAction, EnqueueBegin, kernel, handler
  <2>4. (\A q \in Callbacks : element[q] # <<>> => Sound("handop", element[q][1]))'
    BY <1>7, <2>2, <2>3 DEF Callbacks
  <2> QED
    BY <1>4, <1>5, <1>6, <2>3, <2>4 DEF PointersInv
<1>11. ASSUME NEW c \in Known \cup Unknown, RobotAction(c) PROVE PointersInv'
  <2>1. UNCHANGED <<element, data, reader, event>>
    BY <1>11 DEF RobotAction, enqueue, kernel, handler
  <2>2. CASE c \in DOMAIN key_2_evts
    <3>1. key_2_evts[c] \in Known
      BY <1>1, <2>2 DEF ClientTypes
    <3>2. Sound("ros", ActionEvent(key_2_evts[c])) /\ ActionEvent(key_2_evts[c]) \in Events("ros")
      BY <1>9, <3>1, CellsExist DEF ActionEvent, Events, Codes, Rings
    <3>3. events_queue' = Append(events_queue, ActionEvent(key_2_evts[c]))
      BY <1>11, <2>2 DEF RobotAction
    <3>4. (\A i \in 1 .. Len(events_queue) : Sound("ros", events_queue[i]))'
      BY <1>8, <3>2, <3>3
    <3> QED
      BY <1>3, <1>4, <1>6, <2>1, <3>4 DEF PointersInv
  <2>3. CASE c \notin DOMAIN key_2_evts
    BY <1>3, <1>4, <1>5, <1>6, <1>11, <2>1, <2>3 DEF RobotAction, PointersInv
  <2> QED
    BY <2>2, <2>3
<1>12. ASSUME NEW r \in Rings, QueueTwist(r) PROVE PointersInv'
  <2>1. Sound(r, Velocity(r)) /\ Velocity(r) \in Events(r) /\ UNCHANGED <<data, reader, event>>
    BY <1>1, <1>12, VelocityIsSound DEF QueueTwist, EnqueueBegin, enqueue, kernel, handler,
       Velocity, Events, Codes, RingTypes
  <2>2. CASE r = "handop"
    <3>1. EnqueueBegin("velocity", Velocity(r)) /\ UNCHANGED events_queue
      BY <1>12, <2>2 DEF QueueTwist
    <3>2. (\A q \in Callbacks : element[q] # <<>> => Sound("handop", element[q][1]))'
      BY <1>7, <2>1, <2>2, <3>1 DEF Callbacks
    <3> QED
      BY <1>4, <1>5, <1>6, <2>1, <3>1, <3>2 DEF PointersInv
  <2>3. CASE r = "ros"
    <3>1. events_queue' = Append(events_queue, Velocity(r)) /\ UNCHANGED element
      BY <1>12, <2>3 DEF QueueTwist, enqueue
    <3>2. (\A i \in 1 .. Len(events_queue) : Sound("ros", events_queue[i]))'
      BY <1>8, <2>1, <2>3, <3>1
    <3> QED
      BY <1>3, <1>4, <1>6, <2>1, <3>1, <3>2 DEF PointersInv
  <2> QED
    BY <2>2, <2>3 DEF Rings
<1>13. ASSUME NEW p \in Callbacks, EnqueueEnd(p) PROVE PointersInv'
  <2>1. PICK e \in Events("handop") :
          /\ element[p] = <<e>>
          /\ \A i \in 1 .. Len(data') :
               data'[i] = e \/ (i \in 1 .. Len(data) /\ data'[i] = data[i])
    BY <1>1, <1>13, EnqueueWrites
  <2>3. element' = [element EXCEPT ![p] = <<>>] /\ UNCHANGED <<events_queue, reader, event>>
    BY <1>13 DEF EnqueueEnd, kernel, handler
  <2>4. \A x : Sound("handop", x) => Sound("handop", x)'
    BY <1>2 DEF Rings
  <2>5. Sound("handop", e)
    <3>1. element[p] # <<>> /\ element[p][1] = e
      BY <1>13, <2>1 DEF EnqueueEnd
    <3> QED
      BY <3>1 DEF PointersInv
  <2>6. ASSUME NEW i \in 1 .. Len(data')
        PROVE  \E x : Sound("handop", x) /\ data'[i] = x
    BY <2>1, <2>5, <2>6 DEF PointersInv
  <2>7. (\A i \in 1 .. Len(data) : Sound("handop", data[i]))'
    BY <2>4, <2>6 DEF Sound, Whole, Went
  <2>8. ASSUME NEW q \in Callbacks, element'[q] # <<>>
        PROVE  \E x : Sound("handop", x) /\ element'[q][1] = x
    BY <1>1, <2>3, <2>8 DEF PointersInv, QueueTypes
  <2>9. (\A q \in Callbacks : element[q] # <<>> => Sound("handop", element[q][1]))'
    BY <2>4, <2>8 DEF Sound, Whole, Went
  <2> QED
    BY <1>5, <1>6, <2>3, <2>7, <2>9 DEF PointersInv
<1>14. ASSUME NEW r \in Rings, NEW e \in Events(r), Sound(r, e), HandleEvent(r, e)
       PROVE  (reader # "idle" => Whole(event.ring, event.twist, event.number))'
  <2>1. CASE UNCHANGED <<reader, event>>
    BY <1>6, <2>1
  <2>2. CASE /\ e.code = SetVelAll
             /\ event' = [ring |-> r, twist |-> e.twist, number |-> e.number]
    <3>1. Whole(r, e.twist, e.number)
      BY <1>14, <2>2 DEF Sound
    <3>2. Whole(r, e.twist, e.number)'
      BY <1>1, <3>1, WholeStays
    <3> QED
      BY <2>2, <3>2 DEF Whole, Went
  <2> QED
    BY <1>14, <2>1, <2>2 DEF HandleEvent
<1>15. CASE TakeBackend
  <2>1. front' \in 1 .. Len(data) /\ UNCHANGED <<element, data, events_queue>>
    BY <1>1, <1>15 DEF TakeBackend, KnownTail, HandleEvent, QueueTypes, enqueue
  <2>2. Sound("handop", data[front'])
    BY <2>1 DEF PointersInv
  <2>3. (reader # "idle" => Whole(event.ring, event.twist, event.number))'
    BY <1>1, <1>14, <1>15, <2>2, TakenEvents DEF Rings
  <2> QED
    BY <1>3, <1>4, <1>5, <2>1, <2>3 DEF PointersInv
<1>16. CASE TakeRos
  <2>1. /\ Len(events_queue') = Len(events_queue) - 1 /\ Len(events_queue) \in Nat \ {0}
        /\ \A i \in 1 .. Len(events_queue') : events_queue'[i] = events_queue[i + 1]
        /\ Head(events_queue) = events_queue[1]
    BY <1>1, <1>16, HeadTailProperties, EmptySeq, LenProperties DEF TakeRos, QueueTypes
  <2>2. Sound("ros", Head(events_queue))
    BY <2>1 DEF PointersInv
  <2>3. (reader # "idle" => Whole(event.ring, event.twist, event.number))'
    BY <1>1, <1>14, <1>16, <2>2, TakenEvents DEF Rings
  <2>4. ASSUME NEW i \in 1 .. Len(events_queue')
        PROVE  \E x : Sound("ros", x) /\ events_queue'[i] = x
    BY <2>1, <2>4 DEF PointersInv
  <2>5. \A x : Sound("ros", x) => Sound("ros", x)'
    BY <1>2 DEF Rings
  <2>6. (\A i \in 1 .. Len(events_queue) : Sound("ros", events_queue[i]))'
    BY <2>4, <2>5 DEF Sound, Whole, Went
  <2>7. UNCHANGED <<element, data>>
    BY <1>16 DEF TakeRos, HandleEvent, enqueue
  <2> QED
    BY <1>3, <1>4, <2>3, <2>6, <2>7 DEF PointersInv
<1>17. CASE ReadPart
  <2>1. UNCHANGED <<element, data, events_queue, event>> /\ reader # "idle"
    BY <1>17 DEF ReadPart, enqueue
  <2>2. event.ring \in Rings /\ Whole(event.ring, event.twist, event.number)
    BY <1>1, <2>1 DEF KernelTypes, Pointers, PointersInv
  <2>3. \A r \in Rings : \A i, n : Whole(r, i, n) => Whole(r, i, n)'
    BY <1>1, WholeStays
  <2>4. Whole(event.ring, event.twist, event.number)'
    BY <2>1, <2>2, <2>3 DEF Whole, Went
  <2> QED
    BY <1>3, <1>4, <1>5, <2>1, <2>4 DEF PointersInv
<1>18. CASE UNCHANGED <<element, data, events_queue, reader, event>>
  BY <1>3, <1>4, <1>5, <1>6, <1>18 DEF PointersInv
<1> QED
  BY <1>10, <1>11, <1>12, <1>13, <1>15, <1>16, <1>17, <1>18 DEF Next, Action, Producer,
     TakeTwist, WritePart, EnqueueEnds, HandleEvents, RunsAway, QueueIsEmpty, ChangeState,
     vars, enqueue, kernel, handler

\* What the loop reads of a velocity that is whole.
LEMMA ReadsNumber ==
  ASSUME RingTypes, RingInv, NEW r \in Rings, NEW i, NEW n, NEW p \in Parts, Whole(r, i, n)
  PROVE  Got([ring |-> r, number |-> twists_[r][i][p]], r, n)
<1> DEFINE v == twists_[r][i][p]
<1>1. /\ i \in Indices(r) /\ n \in Nat /\ n >= 1 /\ sent[r] \in Nat
      /\ InCell(TwistCount[r], n - 1, i) /\ v >= n
  BY DEF Whole, Went, RingTypes
<1>2. v \in Nat
  BY <1>1 DEF RingTypes
<1>3. v \in 1 .. sent[r] /\ InCell(TwistCount[r], v - 1, i)
  BY <1>1, <1>2 DEF RingInv, Went
<1>4. TwistCount[r] \in Nat \ {0} /\ i \in Nat
  BY <1>1, RingsAssumption DEF Indices
<1>5. ASSUME sent[r] < n + TwistCount[r] PROVE v = n
  <2>1. n - 1 \in Nat /\ v - 1 \in Nat /\ n - 1 <= v - 1 /\ v - 1 < (n - 1) + TwistCount[r]
    BY <1>1, <1>2, <1>3, <1>4, <1>5
  <2>2. n - 1 = v - 1
    BY <1>1, <1>3, <1>4, <2>1, SameCell
  <2> QED
    BY <1>1, <1>2, <2>2
<1> QED
  BY <1>1, <1>5 DEF Got

\* What the loop has got it keeps.
LEMMA GotStays ==
  ASSUME RingTypes, RingInv, [Next]_vars, NEW x, NEW r \in Rings, NEW n \in Nat, Got(x, r, n)
  PROVE  Got(x, r, n)'
<1>1. sent[r] \in Nat /\ sent'[r] \in Nat /\ sent'[r] >= sent[r] /\ TwistCount[r] \in Nat
  BY RingsGrow, RingsAssumption
<1> QED
  BY <1>1 DEF Got

\* Every step preserves ReadInv.
LEMMA StepRead ==
  TypeOK /\ RingInv /\ PointersInv /\ ReadInv /\ [Next]_vars => ReadInv'
<1> SUFFICES ASSUME TypeOK, RingInv, PointersInv, ReadInv, [Next]_vars PROVE ReadInv'
  OBVIOUS
<1>1. RingTypes /\ QueueTypes /\ KernelTypes
  BY DEF TypeOK
<1>2. \A r \in Rings, n \in Nat : \A x : Got(x, r, n) => Got(x, r, n)'
  BY <1>1, GotStays
<1>3. /\ reader # "idle" => event.ring \in Rings /\ event.number \in Nat
      /\ latest.number \in Nat
  BY <1>1 DEF KernelTypes, Pointers
<1>4. ASSUME UNCHANGED <<command_, latest>>, reader' = "idle", reader = "idle" PROVE ReadInv'
  BY <1>2, <1>3, <1>4 DEF ReadInv, Got
<1>5. ASSUME UNCHANGED <<reader, event, command_, latest>> PROVE ReadInv'
  BY <1>2, <1>3, <1>5 DEF ReadInv, Got
<1>6. ASSUME NEW r \in Rings, NEW e, HandleEvent(r, e), reader = "idle" PROVE ReadInv'
  <2>1. CASE reader' = "linear"
    BY <2>1 DEF ReadInv
  <2>2. CASE reader' # "linear"
    BY <1>4, <1>6, <2>2 DEF HandleEvent
  <2> QED
    BY <2>1, <2>2
<1>7. CASE ReadPart
  <2>1. /\ reader \in Parts /\ event.ring \in Rings /\ event.number \in Nat
        /\ Whole(event.ring, event.twist, event.number)
    BY <1>3, <1>7 DEF ReadPart, Parts, PointersInv
  <2> DEFINE read == [ring   |-> event.ring,
                      number |-> twists_[event.ring][event.twist][reader]]
  <2>2. Got(read, event.ring, event.number)
    BY <1>1, <2>1, ReadsNumber
  <2>3. Got(read, event.ring, event.number) /\ sent' = sent /\ event' = event
    BY <1>7, <2>2 DEF ReadPart, rings
  <2>4. command_' = [command_ EXCEPT ![reader] = read] /\ DOMAIN command_ = Parts
    BY <1>1, <1>7 DEF ReadPart, KernelTypes
  <2> HIDE DEF read
  <2>5. CASE reader = "linear"
    <3>1. reader' = "angular" /\ command_'["linear"] = read
      BY <1>7, <2>1, <2>4, <2>5 DEF ReadPart
    <3> QED
      BY <2>3, <3>1 DEF ReadInv, Got
  <2>6. CASE reader = "angular"
    <3>1. /\ reader' = "idle" /\ latest' = [ring |-> event.ring, number |-> event.number]
          /\ command_'["angular"] = read /\ command_'["linear"] = command_["linear"]
      BY <1>7, <2>1, <2>4, <2>6 DEF ReadPart, Parts
    <3>2. Got(command_["linear"], event.ring, event.number)
      BY <2>6 DEF ReadInv
    <3> QED
      BY <2>3, <3>1, <3>2 DEF ReadInv, Got, Parts
  <2> QED
    BY <2>1, <2>5, <2>6 DEF Parts
<1>8. TakeBackend \/ TakeRos => ReadInv'
  BY <1>1, <1>6, TakenEvents DEF TakeBackend, TakeRos, Rings
<1> QED
  BY <1>5, <1>7, <1>8 DEF Next, Action, HandopAction, RobotAction, Producer, TakeTwist,
     WritePart, QueueTwist, EnqueueEnds, EnqueueEnd, HandleEvents, RunsAway, QueueIsEmpty,
     ChangeState, vars, kernel, handler

\* The rings are empty at first.
LEMMA InitRings == Init => RingInv /\ PointersInv /\ ReadInv
<1> SUFFICES ASSUME Init PROVE RingInv /\ PointersInv /\ ReadInv
  OBVIOUS
<1>1. RingInv
  <2>1. \A r \in Rings : InCell(TwistCount[r], 0, 0)
    <3>1. \A r \in Rings : 0 = TwistCount[r] * 0 + 0
      BY RingsAssumption
    <3> QED
      BY <3>1 DEF InCell
  <2>2. \A r \in Rings : /\ sent[r] = 0 /\ current_twist_idx_[r] = 0 /\ writer[r] = "idle"
                         /\ \A i \in Indices(r), p \in Parts : twists_[r][i][p] = 0
    BY DEF Init, Both
  <2> QED
    BY <2>1, <2>2 DEF RingInv
<1>2. PointersInv
  BY DEF Init, PointersInv
<1>3. ReadInv
  BY DEF Init, ReadInv, NoVelocity, Rings
<1> QED
  BY <1>1, <1>2, <1>3

(* A velocity reaches the loop whole and as it was sent unless its         *)
(* producer is a ring ahead, and lapped it is never older than its event:  *)
(* for rings of every size and any number of velocities.                   *)
THEOREM ReadsWhole == Spec => []ReadsWhatWasSent
<1> DEFINE IInv == RingInv /\ PointersInv /\ ReadInv
<1>1. Init => IInv
  BY InitRings
<1>2. TypeOK /\ Alone /\ IInv /\ [Next]_vars => IInv'
  BY StepRingInv, StepPointers, StepRead DEF TypeOK
<1>3. TypeOK /\ IInv => ReadsWhatWasSent
  <2> SUFFICES ASSUME KernelTypes, ReadInv, reader = "idle", latest.ring \in Rings
               PROVE  /\ sent[latest.ring] < latest.number + TwistCount[latest.ring] =>
                           command_ = Both(latest)
                      /\ \A p \in Parts : /\ command_[p].ring = latest.ring
                                          /\ command_[p].number >= latest.number
    BY DEF TypeOK, ReadsWhatWasSent
  <2>1. \A p \in Parts : Got(command_[p], latest.ring, latest.number)
    BY DEF ReadInv
  <2>2. ASSUME sent[latest.ring] < latest.number + TwistCount[latest.ring]
        PROVE  command_ = Both(latest)
    <3>1. \A p \in Parts : command_[p].ring = latest.ring /\ command_[p].number = latest.number
      BY <2>1, <2>2 DEF Got
    <3>2. \A p \in Parts : command_[p] = latest
      BY <3>1 DEF KernelTypes
    <3> QED
      BY <3>2 DEF Both, KernelTypes
  <2> QED
    BY <2>1, <2>2 DEF Got
<1> QED
  BY <1>1, <1>2, <1>3, TypeInvariance, PTL DEF Spec

===============================================================================
