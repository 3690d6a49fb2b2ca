---------------------------- MODULE TakeoverProofs ----------------------------
(***************************************************************************)
(* Proofs about PolicyTakeover, for every decimation, window, switching    *)
(* time and latency: what the network remembers of earlier activations is  *)
(* gone before the joints listen to it, no network that answers in time    *)
(* goes unheard, and no blend runs ahead of the steps.                     *)
(***************************************************************************)
EXTENDS PolicyTakeover, SequenceTheorems, TLAPS

(* Where the kernel thread is in its period, for each use of the           *)
(* controller.                                                             *)
Periods ==
  /\ phase = "away" => at = "begin"
  /\ at = "apply" => phase = "running"

-----------------------------------------------------------------------------
(* What keeps a network heard that answers two periods before the next     *)
(* request at the latest: the request in flight is no younger than         *)
(* counter_, so when counter_ comes round the network is free, and Step    *)
(* has looked at it in the meantime.                                       *)
Unheard ==
  /\ missed <= latency + 1
  /\ busy => missed <= age + IF at = "end" THEN 1 ELSE 0
  /\ busy => age >= counter_ - IF at = "begin" THEN 0 ELSE 1
  /\ phase \in {"switching", "committing"} => missed = 0
  /\ phase = "running" /\ counter_ = 0 =>
       IF at = "apply" THEN ~busy ELSE missed = 0

Heard == latency + 2 <= Decimation => Unheard

-----------------------------------------------------------------------------
(* Where the blend and the clock of the gesture are, up to the bound on    *)
(* both: the clock runs from Init and gains the switching period that only *)
(* emits PolicySwitch; the blend runs from a Step.                         *)
InSwitch ==
  phase \in {"switching", "committing"} =>
    /\ steps = 0 /\ progress = 0
    /\ ~blending_
    /\ blend_pending_ = (~gesture /\ BlendPeriods > 0)

Clock ==
  /\ phase = "switching" => elapsed <= warmups - IF at = "end" THEN 1 ELSE 0
  /\ phase = "committing" => elapsed <= SwitchPeriods + IF at = "end" THEN 0 ELSE 1
  /\ phase = "running" /\ gesture =>
       /\ \/ steps = BlendPeriods
          \/ elapsed <= SwitchPeriods + steps + IF at = "end" THEN 0 ELSE 1
       /\ progress <= SwitchPeriods + steps

Blend ==
  phase = "running" /\ ~gesture /\ BlendPeriods > 0 =>
    /\ progress <= steps
    /\ blending_ => \/ steps = BlendPeriods
                    \/ elapsed <= steps - IF at = "end" THEN 1 ELSE 0
    /\ ~blend_pending_ /\ ~blending_ => steps = BlendPeriods

-----------------------------------------------------------------------------
(* The observations a target of this activation may rest on.               *)
Own == {Zero, activation}

\* The last n elements of s are in O.
Ends(s, n, O) == \A i \in 1 .. Len(s) : i > Len(s) - n => s[i] \in O

\* From which request of an activation on the window is this activation's.
Window == IF BufferSize = 1 THEN 2 ELSE BufferSize

\* Periods since the last request of this activation.
Since == IF counter_ = 0 THEN Decimation ELSE counter_

(* What n requests of this activation have done to what earlier ones left  *)
(* behind, if the network answers between two of them.                     *)
Purged(n) ==
  /\ Ends(history \o input_queue_, n, Own)
  /\ n >= 2 => input_queue_ = <<>>
  /\ n >= 1 /\ busy => age >= Since - IF at = "begin" THEN 0 ELSE 1
  /\ n >= Window =>
       /\ busy => request \subseteq Own
       /\ \/ latest_target_ \subseteq Own
          \/ n - Window + (IF busy THEN 0 ELSE 1) <= drops

(* Nothing of earlier activations is left, but for a target that the       *)
(* request in flight is sure to replace.                                   *)
Clean ==
  /\ Range(history) \subseteq Own
  /\ Range(input_queue_) \subseteq Own
  /\ busy => request \subseteq Own
  /\ \/ latest_target_ \subseteq Own
     \/ busy /\ drops = MaxDrops

\* In a switch, n is the number of requests so far: one every Decimation
\* calls, starting with the first.
Requested(n) ==
  \E k \in Nat : /\ warmups = Decimation * k + counter_
                 /\ n = k + IF counter_ = 0 THEN 0 ELSE 1

Purging ==
  /\ phase \in {"switching", "committing"} => \E n \in Nat : Requested(n) /\ Purged(n)
  /\ phase = "committing" => warmups = SwitchPeriods
  /\ phase = "running" =>
       \/ Clean
       \/ at = "begin" /\ counter_ = 0 /\ Purged(RequestsNeeded - 1)
  /\ phase = "running" => policy_target_ \subseteq Own
  /\ phase \in {"switching", "committing"} /\ warmups > 0 => policy_target_ = Held

OwnInv == SwitchingSuffices => Purging

IInv == TypeOK /\ Periods /\ Heard /\ InSwitch /\ Clock /\ Blend /\ OwnInv

-----------------------------------------------------------------------------
\* A window is a sequence.
LEMMA WindowIsSeq ==
  ASSUME NEW S, NEW b \in [1 .. BufferSize -> S]
  PROVE  b \in Seq(S) /\ Len(b) = BufferSize
  BY BufferSizeAssumption

\* The history and the queue behind it, position by position.
LEMMA Joined ==
  ASSUME NEW S, NEW b \in [1 .. BufferSize -> S], NEW q \in Seq(S)
  PROVE  /\ b \o q \in Seq(S)
         /\ Len(b \o q) = BufferSize + Len(q)
         /\ \A k \in 1 .. BufferSize + Len(q) :
              (b \o q)[k] = IF k <= BufferSize THEN b[k] ELSE q[k - BufferSize]
<1>1. b \in Seq(S) /\ Len(b) = BufferSize
  BY WindowIsSeq
<1> QED
  BY <1>1, ConcatProperties

\* What is pushed into a window leaves a window, of the last observations.
LEMMA PushedIsWindow ==
  ASSUME NEW S, NEW b \in [1 .. BufferSize -> S], NEW q \in Seq(S)
  PROVE  /\ Pushed(b, q) \in [1 .. BufferSize -> S]
         /\ \A i \in 1 .. BufferSize : Pushed(b, q)[i] = (b \o q)[Len(q) + i]
<1>1. b \o q \in Seq(S) /\ Len(b \o q) = BufferSize + Len(q)
  BY Joined
<1>2. ASSUME NEW i \in 1 .. BufferSize PROVE (b \o q)[Len(q) + i] \in S
  <2>1. Len(q) + i \in 1 .. Len(b \o q)
    BY <1>1, LenProperties, BufferSizeAssumption
  <2> QED
    BY <1>1, <2>1, ElementOfSeq
<1> QED
  BY <1>2 DEF Pushed

\* The types hold initially.
LEMMA InitTypes == Init => TypeOK
<1> SUFFICES ASSUME Init PROVE TypeOK
  OBVIOUS
<1>1. input_queue_ \in Seq(Origins)
  BY DEF Init, NetworkInit
<1>2. Zero \in Origins /\ Held \in SUBSET Origins /\ Unset \in SUBSET Origins
  BY NetworkAssumption DEF Zero, Held, Unset, Origins
<1>3. history \in [1 .. BufferSize -> Origins]
  BY <1>2 DEF Init, NetworkInit
<1>4. /\ policy_target_ \in SUBSET Origins /\ request \in SUBSET Origins
      /\ latest_target_ \in SUBSET Origins
  BY <1>2 DEF Init, NetworkInit
<1>5. blend_pending_ \in BOOLEAN /\ blending_ \in BOOLEAN /\ busy \in BOOLEAN
  BY DEF Init, NetworkInit
<1>6. latency \in 0 .. MaxLatency /\ MaxLatency \in Nat
  BY PeriodsAssumption DEF Init, NetworkInit
<1>7. /\ missed \in 0 .. latency + 2 /\ age \in 0 .. latency
      /\ counter_ \in 0 .. Decimation - 1 /\ drops \in 0 .. MaxDrops
      /\ elapsed \in 0 .. BlendPeriods /\ progress \in 0 .. BlendPeriods
      /\ steps \in 0 .. BlendPeriods /\ warmups \in 0 .. SwitchPeriods
      /\ activation \in 0 .. MaxActivations
  BY <1>6, PeriodsAssumption, NetworkAssumption DEF Init, NetworkInit
<1> QED
  BY <1>1, <1>3, <1>4, <1>5, <1>7 DEF Init, NetworkInit, TypeOK

\* A request keeps the types of what the network is made of.
LEMMA RequestTypes ==
  ASSUME TypeOK, NEW o \in Origins, Request(o)
  PROVE  /\ history' \in [1 .. BufferSize -> Origins]
         /\ input_queue_' \in Seq(Origins)
         /\ busy' \in BOOLEAN
         /\ request' \in SUBSET Origins
         /\ age' \in 0 .. latency
         /\ latest_target_' \in SUBSET Origins
         /\ drops' \in 0 .. MaxDrops
<1>1. /\ history \in [1 .. BufferSize -> Origins] /\ input_queue_ \in Seq(Origins)
      /\ latency \in Nat
  BY PeriodsAssumption DEF TypeOK
<1>2. Append(input_queue_, o) \in Seq(Origins)
  BY <1>1, AppendProperties
<1>3. Pushed(history, Append(input_queue_, o)) \in [1 .. BufferSize -> Origins]
  BY <1>1, <1>2, PushedIsWindow
<1>4. CASE busy
  BY <1>2, <1>4 DEF Request, InferUnsync, TypeOK
<1>5. CASE ~busy
  <2>1. history' \in [1 .. BufferSize -> Origins] /\ request' = Range(history')
    BY <1>3, <1>5 DEF Request, InferUnsync
  <2>2. request' \in SUBSET Origins
    BY <2>1 DEF Range
  <2>3. /\ input_queue_' = <<>> /\ busy' = TRUE /\ age' = 0
        /\ latest_target_' = latest_target_ /\ drops' = drops
    BY <1>5 DEF Request, InferUnsync
  <2>4. input_queue_' \in Seq(Origins) /\ age' \in 0 .. latency
    BY <1>1, <2>3
  <2> QED
    BY <2>1, <2>2, <2>3, <2>4 DEF TypeOK
<1> QED
  BY <1>4, <1>5 DEF TypeOK

\* Every step keeps the types.
LEMMA StepTypes == TypeOK /\ [Next]_vars => TypeOK'
<1> SUFFICES ASSUME TypeOK, [Next]_vars PROVE TypeOK'
  OBVIOUS
<1> USE PeriodsAssumption, NetworkAssumption
<1>1. CASE Enter
  <2>1. blend_pending_' \in BOOLEAN
    BY <1>1 DEF Enter, networkVars
  <2>2. policy_target_' \in SUBSET Origins /\ blending_' \in BOOLEAN
    BY <1>1 DEF Enter, Held, TypeOK
  <2>3. gesture' = gesture /\ latency' = latency /\ latency \in Nat
    BY <1>1 DEF Enter, networkVars, fixed, TypeOK
  <2> QED
    BY <1>1, <2>1, <2>2, <2>3 DEF Enter, networkVars, TypeOK
<1>2. CASE WarmUp
  <2>1. (counter_ + 1) % Decimation \in 0 .. Decimation - 1
    BY DEF TypeOK
  <2>2. Zero \in Origins /\ Held \in SUBSET Origins
    BY DEF Zero, Held, Origins
  <2>3. CASE Request(Zero)
    BY <1>2, <2>1, <2>2, <2>3, RequestTypes DEF WarmUp, TypeOK, fixed, blend
  <2>4. CASE UNCHANGED network
    BY <1>2, <2>1, <2>2, <2>4 DEF WarmUp, TypeOK, fixed, blend, network, networkVars
  <2> QED
    BY <1>2, <2>3, <2>4 DEF WarmUp
<1>3. CASE SwitchingEnds
  BY <1>3 DEF SwitchingEnds, TypeOK, fixed, blend, command, network, networkVars
<1>4. CASE Commit
  BY <1>4 DEF Commit, TypeOK, fixed, blend, command, network, networkVars
<1>5. CASE Ask
  <2>1. (counter_ + 1) % Decimation \in 0 .. Decimation - 1
    BY DEF TypeOK
  <2>2. activation \in Origins
    BY DEF TypeOK, Origins
  <2>3. CASE Request(activation)
    BY <1>5, <2>1, <2>2, <2>3, RequestTypes DEF Ask, TypeOK, fixed, supervisor, blend, command
  <2>4. CASE UNCHANGED network
    BY <1>5, <2>1, <2>4 DEF Ask, TypeOK, fixed, supervisor, blend, command, network, networkVars
  <2> QED
    BY <1>5, <2>3, <2>4 DEF Ask
<1>6. CASE Apply
  <2>1. steps' \in 0 .. BlendPeriods
    BY <1>6 DEF Apply, TypeOK, Least
  <2>2. missed' \in 0 .. latency' + 2 /\ policy_target_' \in SUBSET Origins
    BY <1>6 DEF Apply, TypeOK, Least, fixed
  <2>3. /\ elapsed' \in 0 .. BlendPeriods /\ progress' \in 0 .. BlendPeriods
        /\ blend_pending_' \in BOOLEAN /\ blending_' \in BOOLEAN
    <3>1. CASE FollowTimeline
      BY <3>1 DEF FollowTimeline, TypeOK, blend
    <3>2. CASE ApplyStartupBlend
      <4>1. elapsed' \in 0 .. BlendPeriods
        <5>1. elapsed' = 0 \/ elapsed' = elapsed
          BY <3>2 DEF ApplyStartupBlend
        <5> QED
          BY <5>1 DEF TypeOK
      <4>2. blend_pending_' \in BOOLEAN /\ blending_' \in BOOLEAN
        BY <3>2 DEF ApplyStartupBlend
      <4>3. progress' \in 0 .. BlendPeriods
        BY <3>2, <4>1 DEF ApplyStartupBlend
      <4> QED
        BY <4>1, <4>2, <4>3
    <3>3. CASE UNCHANGED <<blend, elapsed, progress>>
      BY <3>3 DEF TypeOK, blend
    <3> QED
      BY <1>6, <3>1, <3>2, <3>3 DEF Apply
  <2> QED
    BY <1>6, <2>1, <2>2, <2>3 DEF Apply, TypeOK, fixed, supervisor, network, networkVars
<1>7. CASE NextPeriod
  BY <1>7 DEF NextPeriod, networkVars, TypeOK, Least, fixed, supervisor, blend, command
<1>8. CASE Leave \/ Abandon
  BY <1>8 DEF Leave, Abandon, TypeOK, fixed, blend, command, network, networkVars
<1>9. CASE Answer
  BY <1>9 DEF Answer, Infer, TypeOK, fixed, supervisor, blend, command
<1>10. CASE Drop
  <2>1. drops' \in 0 .. MaxDrops
    BY <1>10 DEF Drop, Forget, TypeOK
  <2> QED
    BY <1>10, <2>1 DEF Drop, Forget, TypeOK, fixed, supervisor, blend, command
<1>11. CASE UNCHANGED vars
  BY <1>11 DEF vars, TypeOK, fixed, supervisor, blend, command, network, networkVars
<1> QED
  BY <1>1, <1>2, <1>3, <1>4, <1>5, <1>6, <1>7, <1>8, <1>9, <1>10, <1>11 DEF Next

(* Types, for every window, decimation, latency and number of activations. *)
THEOREM TypeCorrect == Spec => []TypeOK
  BY InitTypes, StepTypes, PTL DEF Spec

-----------------------------------------------------------------------------
\* counter_ counts up to the decimation and starts again.
LEMMA CounterWraps ==
  ASSUME TypeOK
  PROVE  (counter_ + 1) % Decimation = IF counter_ = Decimation - 1 THEN 0 ELSE counter_ + 1
<1>1. counter_ + 1 \in 1 .. Decimation
  BY PeriodsAssumption DEF TypeOK
<1> QED
  BY <1>1, PeriodsAssumption DEF TypeOK

\* What a request does to the flag and to the age of what is in flight.
LEMMA RequestStarts ==
  ASSUME NEW o, Request(o)
  PROVE  busy' /\ age' = IF busy THEN age ELSE 0
  BY DEF Request, InferUnsync

\* The place of the kernel thread fits the use of the controller.
LEMMA StepPeriods == Periods /\ [Next]_vars => Periods'
  BY DEF Periods, Next, vars, supervisor, networkVars, Enter, WarmUp, SwitchingEnds,
     Commit, Ask, Apply, NextPeriod, networkVars, Leave, Abandon, Answer, Infer, Drop, Forget

-----------------------------------------------------------------------------
\* Every step keeps a network heard that answers in time.
LEMMA StepHeard == TypeOK /\ Periods /\ Heard /\ [Next]_vars => Heard'
<1> SUFFICES ASSUME TypeOK, Periods, Heard, [Next]_vars, latency' + 2 <= Decimation
             PROVE  Unheard'
  BY DEF Heard
<1> USE PeriodsAssumption
<1>1. latency' = latency
  BY DEF Next, vars, fixed, networkVars, Enter, WarmUp, SwitchingEnds, Commit, Ask, Apply,
     NextPeriod, networkVars, Leave, Abandon, Answer, Infer, Drop, Forget
<1>2. /\ Unheard /\ latency + 2 <= Decimation
      /\ latency \in Nat /\ age \in 0 .. latency /\ missed \in 0 .. latency + 2
      /\ counter_ \in 0 .. Decimation - 1
  BY <1>1 DEF Heard, TypeOK
<1>3. CASE Enter
  BY <1>1, <1>2, <1>3 DEF Enter, networkVars, Unheard, Periods
<1>4. CASE WarmUp
  <2>1. counter_' = IF counter_ = Decimation - 1 THEN 0 ELSE counter_ + 1
    BY <1>4, CounterWraps DEF WarmUp
  <2>2. /\ at = "begin" /\ at' = "end" /\ phase = "switching" /\ phase' = "switching"
        /\ missed' = missed
    BY <1>4 DEF WarmUp
  <2>3. CASE counter_ = 0
    <3>1. busy' /\ age' = IF busy THEN age ELSE 0
      BY <1>4, <2>3, RequestStarts DEF WarmUp
    <3> QED
      BY <1>1, <1>2, <2>1, <2>2, <2>3, <3>1 DEF Unheard
  <2>4. CASE counter_ # 0
    <3>1. busy' = busy /\ age' = age
      BY <1>4, <2>4 DEF WarmUp, network, networkVars
    <3> QED
      BY <1>1, <1>2, <2>1, <2>2, <2>4, <3>1 DEF Unheard
  <2> QED
    BY <2>3, <2>4
<1>5. CASE SwitchingEnds
  BY <1>1, <1>2, <1>5 DEF SwitchingEnds, Unheard, network, networkVars
<1>6. CASE Commit
  BY <1>1, <1>2, <1>6 DEF Commit, Unheard, network, networkVars
<1>7. CASE Ask
  <2>1. counter_' = IF counter_ = Decimation - 1 THEN 0 ELSE counter_ + 1
    BY <1>7, CounterWraps DEF Ask
  <2>2. /\ at = "begin" /\ at' = "apply" /\ phase = "running" /\ phase' = "running"
        /\ missed' = missed
    BY <1>7 DEF Ask, supervisor
  <2>3. CASE counter_ = 0
    <3>1. busy' /\ age' = IF busy THEN age ELSE 0
      BY <1>7, <2>3, RequestStarts DEF Ask
    <3> QED
      BY <1>1, <1>2, <2>1, <2>2, <2>3, <3>1 DEF Unheard
  <2>4. CASE counter_ # 0
    <3>1. busy' = busy /\ age' = age
      BY <1>7, <2>4 DEF Ask, network, networkVars
    <3> QED
      BY <1>1, <1>2, <2>1, <2>2, <2>4, <3>1 DEF Unheard
  <2> QED
    BY <2>3, <2>4
<1>8. CASE Apply
  <2>1. /\ at = "apply" /\ at' = "end" /\ phase = "running" /\ phase' = "running"
        /\ busy' = busy /\ age' = age /\ counter_' = counter_
        /\ missed' = IF busy THEN Least(missed + 1, latency + 2) ELSE 0
    BY <1>8 DEF Apply, Periods, supervisor, network, networkVars
  <2> QED
    BY <1>1, <1>2, <2>1 DEF Unheard, Least
<1>9. CASE NextPeriod
  <2>1. at' = "begin" /\ UNCHANGED <<phase, busy, missed, counter_>>
    BY <1>9 DEF NextPeriod, networkVars, supervisor
  <2>2. age' = IF busy THEN age + 1 ELSE age
    BY <1>9 DEF NextPeriod, networkVars
  <2>3. at = "end" \/ (phase = "away" /\ at = "begin")
    BY <1>9 DEF NextPeriod, networkVars, Periods
  <2> QED
    BY <1>1, <1>2, <2>1, <2>2, <2>3 DEF Unheard
<1>10. CASE Leave \/ Abandon
  BY <1>1, <1>2, <1>10 DEF Leave, Abandon, Unheard, network, networkVars
<1>11. CASE Answer \/ Drop
  BY <1>1, <1>2, <1>11 DEF Answer, Infer, Drop, Forget, Unheard, supervisor
<1>12. CASE UNCHANGED vars
  BY <1>1, <1>2, <1>12 DEF vars, Unheard, supervisor, network, networkVars
<1> QED
  BY <1>3, <1>4, <1>5, <1>6, <1>7, <1>8, <1>9, <1>10, <1>11, <1>12 DEF Next

(* A network that answers two periods before it is asked again is heard:   *)
(* Step is never longer without a result than one answer takes.            *)
THEOREM HeardInTime == Spec => []NeverUnheard
<1>1. Init => TypeOK /\ Periods /\ Heard
  <2>1. Init => Periods /\ Heard
    BY PeriodsAssumption DEF Init, NetworkInit, Periods, Heard, Unheard
  <2> QED
    BY <2>1, InitTypes
<1>2. TypeOK /\ Periods /\ Heard /\ [Next]_vars => (TypeOK /\ Periods /\ Heard)'
  BY StepTypes, StepPeriods, StepHeard
<1>3. Heard => NeverUnheard
  BY DEF Heard, Unheard, NeverUnheard
<1> QED
  BY <1>1, <1>2, <1>3, PTL DEF Spec

-----------------------------------------------------------------------------
\* Every step keeps the blend behind the steps, and the clock of a gesture
\* no more than the switch ahead of them.
LEMMA StepBlend ==
  TypeOK /\ Periods /\ InSwitch /\ Clock /\ Blend /\ [Next]_vars => (InSwitch /\ Clock /\ Blend)'
<1> SUFFICES ASSUME TypeOK, Periods, InSwitch, Clock, Blend, [Next]_vars
             PROVE  InSwitch' /\ Clock' /\ Blend'
  OBVIOUS
<1> USE PeriodsAssumption
<1>1. /\ elapsed \in 0 .. BlendPeriods /\ steps \in 0 .. BlendPeriods
      /\ progress \in 0 .. BlendPeriods /\ warmups \in 0 .. SwitchPeriods
      /\ gesture \in BOOLEAN /\ blending_ \in BOOLEAN /\ blend_pending_ \in BOOLEAN
      /\ phase \in {"away", "switching", "committing", "running"}
  BY DEF TypeOK
<1>2. gesture' = gesture
  BY DEF Next, vars, fixed, networkVars, Enter, WarmUp, SwitchingEnds, Commit, Ask, Apply,
     NextPeriod, networkVars, Leave, Abandon, Answer, Infer, Drop, Forget
<1>3. CASE Enter
  <2>1. InSwitch'
    BY <1>2, <1>3 DEF Enter, networkVars, InSwitch, fixed
  <2>2. Clock' /\ Blend'
    BY <1>3 DEF Enter, networkVars, Clock, Blend, Periods
  <2> QED
    BY <2>1, <2>2
<1>4. CASE WarmUp
  <2>1. InSwitch'
    BY <1>2, <1>4 DEF WarmUp, InSwitch, blend
  <2>2. Clock' /\ Blend'
    BY <1>1, <1>4 DEF WarmUp, Clock, Blend
  <2> QED
    BY <2>1, <2>2
<1>5. CASE SwitchingEnds
  <2>1. InSwitch'
    BY <1>2, <1>5 DEF SwitchingEnds, InSwitch, blend, command
  <2>2. Clock' /\ Blend'
    BY <1>1, <1>5 DEF SwitchingEnds, Clock, Blend
  <2> QED
    BY <2>1, <2>2
<1>6. CASE Commit
  <2>1. /\ phase = "committing" /\ phase' = "running" /\ at = "begin" /\ at' = "begin"
        /\ elapsed' = elapsed /\ steps' = 0 /\ progress' = 0 /\ steps = 0
        /\ ~blending_' /\ (~gesture /\ BlendPeriods > 0 => blend_pending_')
    BY <1>6 DEF Commit, InSwitch, blend, command
  <2>2. elapsed <= SwitchPeriods + 1
    BY <2>1 DEF Clock
  <2>3. InSwitch' /\ Clock'
    BY <1>1, <2>1, <2>2 DEF InSwitch, Clock
  <2>4. Blend'
    BY <1>2, <2>1 DEF Blend
  <2> QED
    BY <2>3, <2>4
<1>7. CASE Ask
  <2>1. /\ UNCHANGED <<phase, steps, elapsed, progress, blending_, blend_pending_>>
        /\ phase = "running" /\ at = "begin" /\ at' = "apply"
    BY <1>7 DEF Ask, supervisor, blend, command
  <2> QED
    BY <1>1, <1>2, <2>1 DEF InSwitch, Clock, Blend
<1>8. CASE Apply
  <2>1. /\ phase = "running" /\ phase' = "running" /\ at = "apply" /\ at' = "end"
        /\ steps' = IF steps + 1 < BlendPeriods THEN steps + 1 ELSE BlendPeriods
    BY <1>8 DEF Apply, Periods, supervisor, Least
  <2>2. InSwitch'
    BY <2>1 DEF InSwitch
  <2>3. CASE gesture /\ FollowTimeline
    <3>1. progress' = elapsed /\ elapsed' = elapsed
      BY <2>3 DEF FollowTimeline
    <3> QED
      BY <1>1, <1>2, <2>1, <2>2, <2>3, <3>1 DEF Clock, Blend
  <2>4. CASE ~gesture /\ ApplyStartupBlend
    <3>1. Clock'
      BY <1>2, <2>1, <2>4 DEF Clock
    <3>2. SUFFICES ASSUME BlendPeriods > 0 PROVE Blend'
      BY <2>2, <3>1 DEF Blend
    <3>3. /\ progress <= steps
          /\ blending_ => steps = BlendPeriods \/ elapsed <= steps
          /\ ~blend_pending_ /\ ~blending_ => steps = BlendPeriods
      BY <1>1, <2>1, <2>4, <3>2 DEF Blend
    <3>4. CASE blend_pending_
      <4>1. elapsed' = 0 /\ progress' = 0 /\ blending_'
        BY <3>2, <3>4, <2>4 DEF ApplyStartupBlend
      <4> QED
        BY <1>1, <2>1, <4>1 DEF Blend
    <3>5. CASE ~blend_pending_ /\ blending_
      <4>1. /\ elapsed' = elapsed /\ (blending_' <=> elapsed < BlendPeriods)
            /\ progress' = IF blending_' THEN elapsed ELSE BlendPeriods
        BY <2>4, <3>5 DEF ApplyStartupBlend
      <4> QED
        BY <1>1, <2>1, <3>3, <3>5, <4>1 DEF Blend
    <3>6. CASE ~blend_pending_ /\ ~blending_
      <4>1. steps' = BlendPeriods
        BY <1>1, <2>1, <3>3, <3>6
      <4>2. progress' = BlendPeriods /\ ~blending_'
        BY <2>4, <3>6 DEF ApplyStartupBlend
      <4> QED
        BY <4>1, <4>2 DEF Blend
    <3> QED
      BY <3>4, <3>5, <3>6
  <2>5. CASE ~gesture /\ UNCHANGED <<blend, elapsed, progress>>
    <3>1. Clock'
      BY <1>2, <2>1, <2>5 DEF Clock
    <3>2. Blend'
      BY <1>1, <1>2, <2>1, <2>5 DEF Blend, blend
    <3> QED
      BY <2>2, <3>1, <3>2
  <2> QED
    BY <1>8, <2>3, <2>4, <2>5 DEF Apply
<1>9. CASE NextPeriod
  <2>1. /\ UNCHANGED <<phase, steps, warmups, progress, blending_, blend_pending_>>
        /\ at' = "begin" /\ (at = "end" \/ phase = "away")
        /\ elapsed' = IF elapsed + 1 < BlendPeriods THEN elapsed + 1 ELSE BlendPeriods
    BY <1>9 DEF NextPeriod, networkVars, supervisor, blend, command, Least
  <2> QED
    BY <1>1, <1>2, <2>1 DEF InSwitch, Clock, Blend
<1>10. CASE Leave \/ Abandon
  BY <1>10 DEF Leave, Abandon, InSwitch, Clock, Blend
<1>11. CASE Answer \/ Drop
  <2>1. UNCHANGED <<phase, at, steps, warmups, elapsed, progress, blending_, blend_pending_>>
    BY <1>11 DEF Answer, Infer, Drop, Forget, supervisor, blend, command
  <2> QED
    BY <1>2, <2>1 DEF InSwitch, Clock, Blend
<1>12. CASE UNCHANGED vars
  <2>1. UNCHANGED <<phase, at, steps, warmups, elapsed, progress, blending_, blend_pending_>>
    BY <1>12 DEF vars, supervisor, blend, command
  <2> QED
    BY <1>2, <2>1 DEF InSwitch, Clock, Blend
<1> QED
  BY <1>3, <1>4, <1>5, <1>6, <1>7, <1>8, <1>9, <1>10, <1>11, <1>12 DEF Next

(* However late the first result and however long the blend, the blend is  *)
(* never ahead of the Step calls, nor a gesture of those and the switch.   *)
THEOREM BlendsBehindSteps == Spec => []BlendsFromHeld
<1> DEFINE Inv == TypeOK /\ Periods /\ InSwitch /\ Clock /\ Blend
<1>1. Init => Inv
  <2>1. Init => Periods /\ InSwitch /\ Clock /\ Blend
    BY DEF Init, NetworkInit, Periods, InSwitch, Clock, Blend
  <2> QED
    BY <2>1, InitTypes
<1>2. Inv /\ [Next]_vars => Inv'
  BY StepTypes, StepPeriods, StepBlend
<1>3. Inv => BlendsFromHeld
  BY PeriodsAssumption DEF TypeOK, Clock, Blend, BlendsFromHeld
<1> QED
  BY <1>1, <1>2, <1>3, PTL DEF Spec

-----------------------------------------------------------------------------
\* One observation more in the queue is one more at its end.
LEMMA AppendEnds ==
  ASSUME NEW S, NEW b \in [1 .. BufferSize -> S], NEW q \in Seq(S), NEW o \in S,
         NEW O, o \in O, NEW n \in Nat, Ends(b \o q, n, O)
  PROVE  Ends(b \o Append(q, o), n + 1, O)
<1> DEFINE a == Append(q, o)
           s == b \o q
           t == b \o a
<1>1. /\ a \in Seq(S) /\ Len(a) = Len(q) + 1 /\ Len(q) \in Nat /\ a[Len(q) + 1] = o
      /\ \A j \in 1 .. Len(q) : a[j] = q[j]
  BY AppendProperties, LenProperties
<1> HIDE DEF a
<1>2. /\ s \in Seq(S) /\ Len(s) = BufferSize + Len(q)
      /\ \A k \in 1 .. BufferSize + Len(q) :
           s[k] = IF k <= BufferSize THEN b[k] ELSE q[k - BufferSize]
  BY Joined
<1>3. /\ t \in Seq(S) /\ Len(t) = BufferSize + Len(a)
      /\ \A k \in 1 .. BufferSize + Len(a) :
           t[k] = IF k <= BufferSize THEN b[k] ELSE a[k - BufferSize]
  BY <1>1, Joined
<1> HIDE DEF s, t
<1>4. Ends(s, n, O)
  BY DEF s
<1>5. ASSUME NEW i \in 1 .. Len(t), i > Len(t) - (n + 1)
      PROVE  t[i] \in O
  <2>1. Len(t) = Len(s) + 1 /\ Len(s) = BufferSize + Len(q) /\ Len(s) \in Nat
    BY <1>1, <1>2, <1>3, BufferSizeAssumption
  <2>2. CASE i = Len(s) + 1
    <3>1. i - BufferSize = Len(q) + 1 /\ ~(i <= BufferSize)
      BY <1>1, <2>1, <2>2, BufferSizeAssumption
    <3>2. t[i] = a[i - BufferSize]
      BY <1>1, <1>3, <2>1, <3>1
    <3> QED
      BY <1>1, <3>1, <3>2
  <2>3. CASE i # Len(s) + 1
    <3>1. i \in 1 .. Len(s) /\ i > Len(s) - n
      BY <1>5, <2>1, <2>3
    <3>2. t[i] = s[i]
      <4>1. CASE i <= BufferSize
        BY <1>1, <1>2, <1>3, <2>1, <3>1, <4>1, BufferSizeAssumption
      <4>2. CASE ~(i <= BufferSize)
        <5>1. PICK j \in 1 .. Len(q) : j = i - BufferSize
          BY <1>1, <2>1, <3>1, <4>2, BufferSizeAssumption
        <5>2. t[i] = a[i - BufferSize] /\ s[i] = q[i - BufferSize]
          BY <1>1, <1>2, <1>3, <2>1, <3>1, <4>2
        <5>3. a[j] = q[j]
          BY <1>1, <5>1
        <5> QED
          BY <5>1, <5>2, <5>3, Zenon
      <4> QED
        BY <4>1, <4>2
    <3> QED
      BY <1>4, <3>1, <3>2 DEF Ends
  <2> QED
    BY <2>2, <2>3
<1> QED
  BY <1>5 DEF Ends, t, a

\* What is pushed into a window ends as it does.
LEMMA PushedEnds ==
  ASSUME NEW S, NEW b \in [1 .. BufferSize -> S], NEW q \in Seq(S),
         NEW O, NEW n \in Nat, Ends(b \o q, n, O)
  PROVE  /\ Ends(Pushed(b, q) \o <<>>, n, O)
         /\ n >= BufferSize => Range(Pushed(b, q)) \subseteq O
<1> DEFINE s == b \o q
           w == Pushed(b, q)
<1>1. /\ w \in [1 .. BufferSize -> S]
      /\ \A i \in 1 .. BufferSize : w[i] = s[Len(q) + i]
  BY PushedIsWindow
<1>2. s \in Seq(S) /\ Len(s) = BufferSize + Len(q) /\ Len(q) \in Nat
  BY Joined, LenProperties
<1> HIDE DEF s, w
<1>3. w \o <<>> = w /\ Len(w) = BufferSize
  <2>1. w \in Seq(S) /\ Len(w) = BufferSize
    BY <1>1, WindowIsSeq
  <2> QED
    BY <2>1, ConcatEmptySeq
<1>4. ASSUME NEW i \in 1 .. BufferSize, i > BufferSize - n
      PROVE  w[i] \in O
  <2>1. Len(q) + i \in 1 .. Len(s) /\ Len(q) + i > Len(s) - n
    BY <1>2, <1>4, BufferSizeAssumption
  <2>2. s[Len(q) + i] \in O
    BY <2>1 DEF Ends, s
  <2> QED
    BY <1>1, <2>2
<1>5. Ends(w \o <<>>, n, O)
  BY <1>3, <1>4 DEF Ends
<1>6. n >= BufferSize => Range(w) \subseteq O
  BY <1>1, <1>4, BufferSizeAssumption DEF Range
<1> QED
  BY <1>5, <1>6 DEF w

\* A request keeps the end own and makes it longer.
LEMMA RequestEndsOwn ==
  ASSUME TypeOK, NEW n \in Nat, Ends(history \o input_queue_, n, Own),
         NEW o \in Origins, o \in Own, Request(o), UNCHANGED activation
  PROVE  /\ Ends(history' \o input_queue_', n + 1, Own')
         /\ ~busy /\ n + 1 >= BufferSize => Range(history') \subseteq Own'
<1>1. /\ history \in [1 .. BufferSize -> Origins] /\ input_queue_ \in Seq(Origins)
      /\ Own' = Own
  BY DEF TypeOK, Own
<1>2. Ends(history \o Append(input_queue_, o), n + 1, Own)
  BY <1>1, AppendEnds
<1>3. CASE busy
  BY <1>1, <1>2, <1>3 DEF Request, InferUnsync
<1>4. CASE ~busy
  <2>1. history' = Pushed(history, Append(input_queue_, o)) /\ input_queue_' = <<>>
    BY <1>4 DEF Request, InferUnsync
  <2>2. Append(input_queue_, o) \in Seq(Origins) /\ n + 1 \in Nat
    BY <1>1, AppendProperties
  <2> QED
    BY <1>1, <1>2, <2>1, <2>2, PushedEnds
<1> QED
  BY <1>3, <1>4

-----------------------------------------------------------------------------
\* The drops allowed for come on top of the requests the window takes.
LEMMA Needed ==
  /\ Window \in Nat /\ Window >= 2 /\ Window >= BufferSize
  /\ RequestsNeeded \in Nat /\ RequestsNeeded = MaxDrops + Window
  BY BufferSizeAssumption, NetworkAssumption DEF Window, RequestsNeeded

\* A window of which the last BufferSize observations are own is own.
LEMMA OwnWindow ==
  ASSUME TypeOK, input_queue_ = <<>>, NEW n \in Nat, n >= BufferSize,
         Ends(history \o input_queue_, n, Own)
  PROVE  Range(history) \subseteq Own
<1>1. history \in Seq(Origins) /\ Len(history) = BufferSize
  BY WindowIsSeq DEF TypeOK
<1>2. history \o input_queue_ = history
  BY <1>1, ConcatEmptySeq
<1>3. \A i \in 1 .. BufferSize : history[i] \in Own
  BY <1>1, <1>2, BufferSizeAssumption DEF Ends
<1> QED
  BY <1>3 DEF Range, TypeOK

\* After the requests needed nothing of earlier activations is left.
CleanEnough == TypeOK => \A n \in Nat : n >= RequestsNeeded /\ Purged(n) => Clean

LEMMA PurgedIsClean == CleanEnough
<1> SUFFICES ASSUME TypeOK, NEW n \in Nat, n >= RequestsNeeded, Purged(n) PROVE Clean
  BY DEF CleanEnough
<1>1. /\ n >= Window /\ n >= 2 /\ n >= BufferSize /\ n - Window >= MaxDrops
      /\ drops \in 0 .. MaxDrops /\ MaxDrops \in Nat /\ Window \in Nat
  BY Needed, NetworkAssumption, BufferSizeAssumption DEF TypeOK
<1>2. input_queue_ = <<>> /\ Range(input_queue_) \subseteq Own
  BY <1>1 DEF Purged, Range
<1>3. Range(history) \subseteq Own
  BY <1>1, <1>2, OwnWindow DEF Purged
<1>4. busy => request \subseteq Own
  BY <1>1 DEF Purged
<1>5. latest_target_ \subseteq Own \/ (busy /\ drops = MaxDrops)
  <2>1. latest_target_ \subseteq Own \/ n - Window + (IF busy THEN 0 ELSE 1) <= drops
    BY <1>1 DEF Purged
  <2> QED
    BY <1>1, <2>1
<1> QED
  BY <1>2, <1>3, <1>4, <1>5 DEF Clean

LEMMA PurgedIsCleanNext == CleanEnough'
  BY PurgedIsClean, PTL

\* A request, made when counter_ comes round, counts.
LEMMA RequestPurges ==
  ASSUME TypeOK, latency < Decimation, NEW n \in Nat, Purged(n),
         at = "begin", counter_ = 0, at' # "begin", counter_' = 1 % Decimation,
         NEW o \in Origins, o \in Own, Request(o), UNCHANGED activation
  PROVE  Purged(n + 1)'
<1>1. /\ Ends(history' \o input_queue_', n + 1, Own')
      /\ ~busy /\ n + 1 >= BufferSize => Range(history') \subseteq Own'
  BY RequestEndsOwn DEF Purged
<1>2. n >= 1 => ~busy
  BY PeriodsAssumption DEF Purged, Since, TypeOK
<1>3. Since' = 1
  BY PeriodsAssumption DEF Since
<1>4. Own' = Own
  BY DEF Own
<1>5. busy' /\ age' = IF busy THEN age ELSE 0
  BY RequestStarts
<1>6. age \in Nat /\ drops \in Nat /\ latency \in Nat
  BY PeriodsAssumption, NetworkAssumption DEF TypeOK
<1>7. CASE ~busy
  <2>1. /\ input_queue_' = <<>> /\ request' = Range(history')
        /\ latest_target_' = latest_target_ /\ drops' = drops
    BY <1>7 DEF Request, InferUnsync
  <2>2. n + 1 >= Window => request' \subseteq Own'
    BY <1>1, <1>7, <2>1, Needed, BufferSizeAssumption
  <2>3. n + 1 >= Window => latest_target_' \subseteq Own' \/ (n + 1) - Window <= drops'
    <3>1. CASE n >= Window
      <4>1. latest_target_ \subseteq Own \/ n - Window + 1 <= drops
        BY <1>7, <3>1 DEF Purged
      <4> QED
        BY <1>4, <1>6, <2>1, <4>1, Needed
    <3>2. CASE n + 1 = Window
      BY <1>6, <2>1, <3>2, Needed
    <3> QED
      BY <3>1, <3>2, Needed
  <2>4. age' >= Since' - IF at' = "begin" THEN 0 ELSE 1
    BY <1>3, <1>5, <1>7
  <2>5. n + 1 >= Window =>
          \/ latest_target_' \subseteq Own'
          \/ (n + 1) - Window + (IF busy' THEN 0 ELSE 1) <= drops'
    BY <1>5, <2>3, Needed
  <2> QED
    BY <1>1, <2>1, <2>2, <2>4, <2>5 DEF Purged
<1>8. CASE busy
  <2>1. n = 0
    BY <1>2, <1>8
  <2>2. ~(n + 1 >= 2) /\ ~(n + 1 >= Window)
    BY <2>1, Needed
  <2> QED
    BY <1>1, <1>3, <1>5, <1>6, <1>8, <2>2 DEF Purged
<1> QED
  BY <1>7, <1>8

\* Between two requests the one in flight grows older.
LEMMA WaitPurges ==
  ASSUME TypeOK, NEW n \in Nat, Purged(n),
         at = "begin", at' # "begin", counter_ # 0,
         counter_' = (counter_ + 1) % Decimation, UNCHANGED <<network, activation>>
  PROVE  Purged(n)'
<1>1. Since = counter_ /\ Since' = counter_ + 1 /\ counter_ \in Nat
  BY CounterWraps, PeriodsAssumption DEF Since, TypeOK
<1> QED
  BY <1>1 DEF Purged, Own, network, networkVars

\* What leaves the network alone.
LEMMA RestPurges ==
  ASSUME TypeOK, NEW n \in Nat, Purged(n), at = "begin" \/ at' = at,
         UNCHANGED <<network, activation, counter_>>
  PROVE  Purged(n)'
<1>1. Since' = Since /\ Since \in Nat /\ age \in Nat
  BY PeriodsAssumption DEF Since, TypeOK
<1>2. Own' = Own
  BY DEF Own
<1> QED
  BY <1>1, <1>2 DEF Purged, network, networkVars

\* The network is done with a request, one way or the other.
LEMMA AnswerPurges ==
  ASSUME TypeOK, NEW n \in Nat, Purged(n), Answer \/ Drop
  PROVE  Purged(n)'
<1>1. /\ UNCHANGED <<history, input_queue_, activation, at, counter_>> /\ busy /\ ~busy'
      /\ n \in Nat /\ drops \in Nat
  BY NetworkAssumption DEF Answer, Infer, Drop, Forget, supervisor, TypeOK
<1>2. Own' = Own
  BY <1>1 DEF Own
<1>3. CASE Answer
  BY <1>1, <1>2, <1>3 DEF Answer, Infer, Purged
<1>4. CASE Drop
  <2>1. drops' = drops + 1 /\ latest_target_' = latest_target_
    BY <1>4 DEF Drop, Forget
  <2>2. n >= Window => latest_target_ \subseteq Own \/ n - Window <= drops
    BY <1>1, Needed DEF Purged
  <2>3. n >= Window => latest_target_' \subseteq Own' \/ n - Window + 1 <= drops'
    BY <1>1, <1>2, <2>1, <2>2, Needed
  <2> QED
    BY <1>1, <1>2, <2>3 DEF Purged
<1> QED
  BY <1>3, <1>4

\* With the period a request is a period older.
LEMMA PeriodPurges ==
  ASSUME TypeOK, NEW n \in Nat, Purged(n), NextPeriod, at = "end"
  PROVE  Purged(n)'
<1>1. /\ UNCHANGED <<history, input_queue_, activation, counter_, busy, request,
                     latest_target_, drops>>
      /\ at' = "begin" /\ (busy => age' = age + 1)
  BY DEF NextPeriod, networkVars, supervisor
<1>2. Since' = Since /\ Own' = Own /\ Since \in Nat /\ age \in Nat
  BY <1>1, PeriodsAssumption DEF Since, Own, TypeOK
<1> QED
  BY <1>1, <1>2 DEF Purged

\* What is clean stays clean.
LEMMA RequestKeepsClean ==
  ASSUME TypeOK, Clean, NEW o \in Origins, o \in Own, Request(o), UNCHANGED activation
  PROVE  Clean'
<1>1. /\ history \in [1 .. BufferSize -> Origins] /\ input_queue_ \in Seq(Origins)
      /\ Own' = Own
  BY DEF TypeOK, Own
<1>2. /\ Append(input_queue_, o) \in Seq(Origins) /\ Len(input_queue_) \in Nat
      /\ \A i \in 1 .. Len(Append(input_queue_, o)) : Append(input_queue_, o)[i] \in Own
  <2>1. \A i \in 1 .. Len(input_queue_) : input_queue_[i] \in Own
    BY <1>1 DEF Clean, Range
  <2> QED
    BY <1>1, <2>1, AppendProperties, LenProperties
<1>3. CASE busy
  <2>1. history' = history /\ input_queue_' = Append(input_queue_, o)
        /\ UNCHANGED <<busy, request, latest_target_, drops>>
    BY <1>3 DEF Request, InferUnsync
  <2>2. Range(input_queue_') \subseteq Own'
    BY <1>1, <1>2, <2>1 DEF Range
  <2> QED
    BY <1>1, <2>1, <2>2 DEF Clean
<1>4. CASE ~busy
  <2>1. /\ history' = Pushed(history, Append(input_queue_, o)) /\ input_queue_' = <<>>
        /\ request' = Range(history') /\ UNCHANGED <<latest_target_, drops>>
    BY <1>4 DEF Request, InferUnsync
  <2>2. Ends(history \o Append(input_queue_, o), BufferSize + Len(Append(input_queue_, o)), Own)
    <3> DEFINE a == Append(input_queue_, o)
    <3>1. a \in Seq(Origins) /\ \A i \in 1 .. Len(a) : a[i] \in Own
      BY <1>2
    <3>2. \A i \in 1 .. BufferSize : history[i] \in Own
      BY <1>1 DEF Clean, Range
    <3> HIDE DEF a
    <3>3. /\ history \o a \in Seq(Origins) /\ Len(history \o a) = BufferSize + Len(a)
          /\ \A k \in 1 .. BufferSize + Len(a) :
               (history \o a)[k] = IF k <= BufferSize THEN history[k] ELSE a[k - BufferSize]
      BY <1>1, <3>1, Joined
    <3>4. ASSUME NEW k \in 1 .. BufferSize + Len(a) PROVE (history \o a)[k] \in Own
      <4>1. CASE k <= BufferSize
        BY <3>2, <3>3, <4>1
      <4>2. CASE ~(k <= BufferSize)
        <5>1. k - BufferSize \in 1 .. Len(a)
          BY <3>1, <4>2, LenProperties, BufferSizeAssumption
        <5> QED
          BY <3>1, <3>3, <4>2, <5>1
      <4> QED
        BY <4>1, <4>2
    <3> QED
      BY <3>3, <3>4 DEF Ends, a
  <2>3. Range(history') \subseteq Own
    <3>1. PICK n \in Nat : n = BufferSize + Len(Append(input_queue_, o))
      BY <1>2, LenProperties, BufferSizeAssumption
    <3>2. n >= BufferSize /\ Ends(history \o Append(input_queue_, o), n, Own)
      BY <1>2, <2>2, <3>1, LenProperties, BufferSizeAssumption
    <3>3. Range(Pushed(history, Append(input_queue_, o))) \subseteq Own
      BY <1>1, <1>2, <3>2, PushedEnds
    <3> QED
      BY <2>1, <3>3
  <2>4. Range(input_queue_') \subseteq Own'
    BY <2>1 DEF Range
  <2>5. latest_target_' \subseteq Own'
    BY <1>1, <1>4, <2>1 DEF Clean
  <2> QED
    BY <1>1, <2>1, <2>3, <2>4, <2>5 DEF Clean
<1> QED
  BY <1>3, <1>4

\* The multiple of the decimation that a number of periods has passed.
LEMMA Multiples ==
  ASSUME NEW d \in Nat \ {0}, NEW k \in Nat, NEW c \in 0 .. d - 1, NEW r \in Nat,
         d * k + c >= d * r
  PROVE  k >= r
<1> SUFFICES ASSUME k + 1 <= r PROVE FALSE
  OBVIOUS
<1>1. PICK j \in Nat : r = k + 1 + j
  BY r - (k + 1) \in Nat
<1>2. d * r = d * k + d + d * j
  BY <1>1
<1>3. d * j \in Nat /\ d * k \in Nat
  OBVIOUS
<1> QED
  BY <1>2, <1>3

-----------------------------------------------------------------------------
\* Every step keeps the count of what is left of earlier activations.
LEMMA StepOwn == TypeOK /\ Periods /\ OwnInv /\ [Next]_vars => OwnInv'
<1> SUFFICES ASSUME TypeOK, Periods, OwnInv, [Next]_vars, SwitchingSuffices'
             PROVE  Purging'
  BY DEF OwnInv
<1> USE PeriodsAssumption, NetworkAssumption
<1>1. latency' = latency
  BY DEF Next, vars, fixed, networkVars, Enter, WarmUp, SwitchingEnds, Commit, Ask, Apply,
     NextPeriod, networkVars, Leave, Abandon, Answer, Infer, Drop, Forget
<1>2. /\ Purging /\ latency < Decimation
      /\ SwitchPeriods >= Decimation * (RequestsNeeded - 1)
  BY <1>1 DEF OwnInv, SwitchingSuffices
<1>3. CASE Enter
  <2>1. /\ phase' = "switching" /\ warmups' = 0 /\ counter_' = 0
        /\ history' = history /\ input_queue_' = input_queue_
    BY <1>3 DEF Enter, networkVars
  <2>2. Purged(0)'
    <3>1. Ends(history' \o input_queue_', 0, Own')
      BY DEF Ends
    <3>2. ~(0 >= 2) /\ ~(0 >= 1) /\ ~(0 >= Window)
      BY Needed
    <3> QED
      BY <3>1, <3>2 DEF Purged
  <2>3. Requested(0)'
    <3>1. warmups' = Decimation * 0 + counter_' /\ 0 = 0 + IF counter_' = 0 THEN 0 ELSE 1
      BY <2>1
    <3> QED
      BY <3>1 DEF Requested
  <2> QED
    BY <2>1, <2>2, <2>3 DEF Purging
<1>4. CASE WarmUp
  <2>1. /\ phase = "switching" /\ phase' = "switching" /\ at = "begin" /\ at' # "begin"
        /\ warmups' = warmups + 1 /\ policy_target_' = Held /\ activation' = activation
        /\ counter_' = (counter_ + 1) % Decimation
    BY <1>4 DEF WarmUp
  <2>2. counter_' = IF counter_ = Decimation - 1 THEN 0 ELSE counter_ + 1
    BY <2>1, CounterWraps
  <2>3. PICK n \in Nat : Requested(n) /\ Purged(n)
    BY <1>2, <2>1 DEF Purging
  <2> PICK k \in Nat : /\ warmups = Decimation * k + counter_
                       /\ n = k + IF counter_ = 0 THEN 0 ELSE 1
    BY <2>3 DEF Requested
  <2>4. Purged(k + 1)'
    <3>1. CASE counter_ = 0
      <4>1. Zero \in Origins /\ Zero \in Own
        BY DEF Zero, Origins, Own
      <4>2. Purged(k) /\ Request(Zero) /\ counter_' = 1 % Decimation
        BY <1>4, <2>1, <2>3, <3>1 DEF WarmUp
      <4> QED
        BY <1>2, <2>1, <3>1, <4>1, <4>2, RequestPurges
    <3>2. CASE counter_ # 0
      <4>1. Purged(k + 1) /\ UNCHANGED network /\ k + 1 \in Nat
        BY <1>4, <2>3, <3>2 DEF WarmUp
      <4> QED
        BY <2>1, <3>2, <4>1, WaitPurges
    <3> QED
      BY <3>1, <3>2
  <2>5. counter_ \in 0 .. Decimation - 1 /\ Decimation * k \in Nat
    BY DEF TypeOK
  <2>6. CASE counter_ = Decimation - 1
    <3>1. Decimation * (k + 1) = Decimation * k + Decimation
      OBVIOUS
    <3>2. /\ warmups' = Decimation * (k + 1) + counter_'
          /\ k + 1 = (k + 1) + IF counter_' = 0 THEN 0 ELSE 1
      BY <2>1, <2>2, <2>5, <2>6, <3>1
    <3>3. Requested(k + 1)'
      BY <3>2 DEF Requested
    <3> QED
      BY <2>1, <2>4, <3>3 DEF Purging
  <2>7. CASE counter_ # Decimation - 1
    <3>1. /\ warmups' = Decimation * k + counter_'
          /\ k + 1 = k + IF counter_' = 0 THEN 0 ELSE 1
      BY <2>1, <2>2, <2>5, <2>7
    <3>2. Requested(k + 1)'
      BY <3>1 DEF Requested
    <3> QED
      BY <2>1, <2>4, <3>2 DEF Purging
  <2> QED
    BY <2>6, <2>7
<1>5. CASE SwitchingEnds
  <2>1. /\ phase = "switching" /\ phase' = "committing" /\ at = "begin"
        /\ warmups = SwitchPeriods
        /\ UNCHANGED <<warmups, counter_, network, activation, policy_target_>>
    BY <1>5 DEF SwitchingEnds, command
  <2>2. PICK n \in Nat : Requested(n) /\ Purged(n)
    BY <1>2, <2>1 DEF Purging
  <2>3. Purged(n)'
    BY <2>1, <2>2, RestPurges
  <2>4. Requested(n)'
    BY <2>1, <2>2 DEF Requested
  <2> QED
    BY <1>2, <2>1, <2>3, <2>4 DEF Purging
<1>6. CASE Commit
  <2>1. /\ phase = "committing" /\ phase' = "running" /\ at = "begin" /\ at' = "begin"
        /\ UNCHANGED <<warmups, counter_, network, activation, policy_target_>>
    BY <1>6 DEF Commit, command
  <2> PICK n \in Nat : Requested(n) /\ Purged(n)
    BY <1>2, <2>1 DEF Purging
  <2>2. PICK k \in Nat : /\ warmups = Decimation * k + counter_
                         /\ n = k + IF counter_ = 0 THEN 0 ELSE 1
    BY DEF Requested
  <2>3. k >= RequestsNeeded - 1
    <3>1. counter_ \in 0 .. Decimation - 1 /\ RequestsNeeded - 1 \in Nat
      BY Needed DEF TypeOK
    <3>2. Decimation * k + counter_ >= Decimation * (RequestsNeeded - 1)
      BY <1>2, <2>1, <2>2 DEF Purging
    <3> QED
      BY <3>1, <3>2, Multiples
  <2>4. policy_target_' \subseteq Own'
    <3>1. RequestsNeeded - 1 \in Nat \ {0} /\ Decimation * (RequestsNeeded - 1) >= Decimation
      BY Needed, Multiples
    <3>2. warmups > 0
      BY <1>2, <2>1, <3>1 DEF Purging
    <3> QED
      BY <1>2, <2>1, <3>2 DEF Purging, Held
  <2>5. CASE k = RequestsNeeded - 1 /\ counter_ = 0
    <3>1. Purged(RequestsNeeded - 1) /\ RequestsNeeded - 1 \in Nat
      BY <2>2, <2>5, Needed
    <3>2. Purged(RequestsNeeded - 1)'
      BY <2>1, <3>1, RestPurges
    <3> QED
      BY <2>1, <2>4, <2>5, <3>2 DEF Purging
  <2>6. CASE ~(k = RequestsNeeded - 1 /\ counter_ = 0)
    <3>1. n >= RequestsNeeded
      BY <2>2, <2>3, <2>6, Needed
    <3>2. Clean
      BY <3>1, PurgedIsClean DEF CleanEnough
    <3>3. Clean'
      BY <2>1, <3>2 DEF Clean, Own, network, networkVars
    <3> QED
      BY <2>1, <2>4, <3>3 DEF Purging
  <2> QED
    BY <2>5, <2>6
<1>7. CASE Ask
  <2>1. /\ phase = "running" /\ phase' = "running" /\ at = "begin" /\ at' # "begin"
        /\ UNCHANGED <<activation, policy_target_>>
        /\ counter_' = (counter_ + 1) % Decimation
    BY <1>7 DEF Ask, supervisor, command
  <2>2. policy_target_' \subseteq Own'
    BY <1>2, <2>1 DEF Purging, Own
  <2>3. activation \in Origins /\ activation \in Own
    BY DEF TypeOK, Origins, Own
  <2>4. Clean'
    <3>1. CASE Clean /\ counter_ = 0
      <4>1. Request(activation)
        BY <1>7, <3>1 DEF Ask
      <4> QED
        BY <2>1, <2>3, <3>1, <4>1, RequestKeepsClean
    <3>2. CASE Clean /\ counter_ # 0
      <4>1. UNCHANGED network
        BY <1>7, <3>2 DEF Ask
      <4> QED
        BY <2>1, <3>2, <4>1 DEF Clean, Own, network, networkVars
    <3>3. CASE counter_ = 0 /\ Purged(RequestsNeeded - 1)
      <4>1. Request(activation) /\ counter_' = 1 % Decimation
        BY <1>7, <2>1, <3>3 DEF Ask
      <4>2. PICK n \in Nat : n = RequestsNeeded - 1
        BY Needed
      <4>3. Purged(n + 1)'
        BY <1>2, <2>1, <2>3, <3>3, <4>1, <4>2, RequestPurges
      <4>4. n + 1 \in Nat /\ n + 1 >= RequestsNeeded
        BY <4>2, Needed
      <4>5. TypeOK'
        BY StepTypes
      <4>6. PICK k \in Nat : k = n + 1
        BY <4>4
      <4> QED
        BY <4>3, <4>4, <4>5, <4>6, PurgedIsCleanNext DEF CleanEnough
    <3> QED
      BY <1>2, <2>1, <3>1, <3>2, <3>3 DEF Purging
  <2> QED
    BY <2>1, <2>2, <2>4 DEF Purging
<1>8. CASE Apply
  <2>1. /\ at = "apply" /\ phase = "running" /\ phase' = "running"
        /\ UNCHANGED <<network, activation>>
    BY <1>8 DEF Apply, Periods, supervisor
  <2>2. Clean /\ policy_target_ \subseteq Own
    BY <1>2, <2>1 DEF Purging
  <2>3. policy_target_' \subseteq Own
    <3>1. CASE busy /\ policy_target_' = policy_target_
      BY <2>2, <3>1
    <3>2. CASE ~busy /\ policy_target_' = latest_target_
      BY <2>2, <3>2 DEF Clean
    <3> QED
      BY <1>8, <3>1, <3>2 DEF Apply
  <2>4. Clean' /\ policy_target_' \subseteq Own'
    BY <2>1, <2>2, <2>3 DEF Clean, Own, network, networkVars
  <2> QED
    BY <2>1, <2>4 DEF Purging
<1>9. CASE NextPeriod
  <2>1. /\ UNCHANGED <<phase, warmups, activation, counter_, policy_target_, history,
                       input_queue_, busy, request, latest_target_, drops>>
        /\ at = "end" \/ phase = "away"
    BY <1>9 DEF NextPeriod, networkVars, supervisor, command
  <2>2. ASSUME phase \in {"switching", "committing"}
        PROVE  \E n \in Nat : Requested(n)' /\ Purged(n)'
    <3>1. PICK n \in Nat : Requested(n) /\ Purged(n)
      BY <1>2, <2>2 DEF Purging
    <3>2. at = "end"
      BY <2>1, <2>2
    <3>3. Purged(n)'
      BY <1>9, <3>1, <3>2, PeriodPurges
    <3> QED
      BY <2>1, <3>1, <3>3 DEF Requested
  <2>3. ASSUME phase = "running" PROVE Clean'
    BY <1>2, <2>1, <2>3 DEF Purging, Clean, Own
  <2> QED
    BY <1>2, <2>1, <2>2, <2>3 DEF Purging, Own
<1>10. CASE Leave \/ Abandon
  BY <1>10 DEF Leave, Abandon, Purging
<1>11. CASE Answer \/ Drop
  <2>1. /\ UNCHANGED <<phase, warmups, activation, counter_, policy_target_, at, history,
                       input_queue_, request>>
        /\ busy /\ ~busy'
    BY <1>11 DEF Answer, Infer, Drop, Forget, supervisor, command
  <2>2. ASSUME phase \in {"switching", "committing"}
        PROVE  \E n \in Nat : Requested(n)' /\ Purged(n)'
    <3>1. PICK n \in Nat : Requested(n) /\ Purged(n)
      BY <1>2, <2>2 DEF Purging
    <3>2. Purged(n)'
      BY <1>11, <3>1, AnswerPurges
    <3> QED
      BY <2>1, <3>1, <3>2 DEF Requested
  <2>3. ASSUME Clean PROVE Clean'
    BY <1>11, <2>1, <2>3 DEF Answer, Infer, Drop, Forget, Clean, Own
  <2>4. ASSUME Purged(RequestsNeeded - 1) PROVE Purged(RequestsNeeded - 1)'
    <3>1. RequestsNeeded - 1 \in Nat
      BY Needed
    <3> QED
      BY <1>11, <2>4, <3>1, AnswerPurges
  <2> QED
    BY <1>2, <2>1, <2>2, <2>3, <2>4 DEF Purging, Own
<1>12. CASE UNCHANGED vars
  <2>1. UNCHANGED <<phase, warmups, activation, counter_, policy_target_, at, network>>
    BY <1>12 DEF vars, supervisor, command
  <2> QED
    BY <1>2, <2>1, ZenonT(30)
       DEF Purging, Requested, Purged, Clean, Own, Since, network, networkVars
<1> QED
  BY <1>3, <1>4, <1>5, <1>6, <1>7, <1>8, <1>9, <1>10, <1>11, <1>12 DEF Next

(* Every target that Step sets rests on this activation's observations, as *)
(* soon as the switching time has room for the requests that flush the     *)
(* window and the network answers between two of them.                     *)
THEOREM TargetsAreOwn == Spec => []OwnTargets
<1>1. Init => TypeOK /\ Periods /\ OwnInv
  <2>1. Init => Periods /\ OwnInv
    BY DEF Init, NetworkInit, Periods, OwnInv, Purging
  <2> QED
    BY <2>1, InitTypes
<1>2. TypeOK /\ Periods /\ OwnInv /\ [Next]_vars => (TypeOK /\ Periods /\ OwnInv)'
  BY StepTypes, StepPeriods, StepOwn
<1>3. OwnInv => OwnTargets
  BY DEF OwnInv, Purging, Own, OwnTargets
<1> QED
  BY <1>1, <1>2, <1>3, PTL DEF Spec

=============================================================================
