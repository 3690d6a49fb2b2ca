--------------------------- MODULE InferenceProofs ---------------------------
(***************************************************************************)
(* Proofs about the network of one policy, for every window size.          *)
(* InferenceWorker, for any number of calls: the threads race on           *)
(* last_action_ and the logged time and on nothing else, the network runs  *)
(* on the accepted window, and the worker implements PolicyNetwork.  HistoryBuffer, the ring in which  *)
(* obs_buffer_ keeps its window: it implements HistoryWindow, and adding   *)
(* observations to it one by one is what FillTensor does at once.          *)
(***************************************************************************)
EXTENDS InferenceWorker, HistoryBuffer, SequenceTheorems, TLAPS

(* What the flag means for each thread.  Between reading TRUE and storing  *)
(* FALSE the caller owns the tensor and the target; while the worker runs  *)
(* the network and writes what it gave the flag is FALSE.                                              *)
Ownership ==
  /\ caller \in {"fill", "release", "copy"} => inference_done_
  /\ worker \in {"infer", "act", "publish"} => ~inference_done_

(* What the data is: the tensor belongs to the call being accepted, then   *)
(* to the accepted one, and so does the network's output.                  *)
Serving ==
  /\ caller = "fill" => accepted < calls
  /\ caller = "release" => accepted < calls /\ Newest(tensor) = calls
  /\ accepted <= calls
  /\ ~inference_done_ => Newest(tensor) = accepted
  /\ worker \in {"act", "publish"} => output = accepted

IInv == TypeOK /\ Ownership /\ Serving

(* Pushing a non-empty queue r leaves a window whose newest observation is *)
(* the last one of r.                                                      *)
LEMMA PushedWindow ==
  ASSUME NEW b \in Windows, NEW r \in Seq(Nat), r # <<>>
  PROVE  /\ Pushed(b, r) \in Windows
         /\ Newest(Pushed(b, r)) = r[Len(r)]
<1>1. b \in Seq(Nat) /\ Len(b) = BufferSize
  BY BufferSizeAssumption DEF Windows
<1>2. Len(r) \in Nat \ {0}
  BY EmptySeq
<1>3. /\ b \o r \in Seq(Nat)
      /\ Len(b \o r) = BufferSize + Len(r)
  BY <1>1, ConcatProperties
<1>4. (b \o r)[BufferSize + Len(r)] = r[Len(r)]
  <2>1. PICK k \in Nat : k = BufferSize + Len(r)
    BY <1>2, BufferSizeAssumption
  <2>2. k \in 1 .. Len(b) + Len(r) /\ ~(k <= Len(b)) /\ k - Len(b) = Len(r)
    BY <1>1, <1>2, <2>1, BufferSizeAssumption
  <2>3. (b \o r)[k] = IF k <= Len(b) THEN b[k] ELSE r[k - Len(b)]
    BY <1>1, <2>2, ConcatProperties
  <2>4. (b \o r)[k] = r[k - Len(b)]
    BY <2>2, <2>3, Zenon
  <2>5. QED
    BY <2>1, <2>2, <2>4, Zenon
<1>5. ASSUME NEW i \in 1 .. BufferSize
      PROVE  (b \o r)[Len(r) + i] \in Nat
  <2>1. Len(r) + i \in 1 .. Len(b \o r)
    BY <1>2, <1>3, BufferSizeAssumption
  <2>2. QED
    BY <1>3, <2>1, ElementOfSeq
<1>6. Pushed(b, r) \in Windows
  BY <1>5 DEF Pushed, Windows
<1>7. Newest(Pushed(b, r)) = (b \o r)[Len(r) + BufferSize]
  <2>1. BufferSize \in 1 .. BufferSize
    BY BufferSizeAssumption
  <2>2. QED
    BY <2>1, Zenon DEF Pushed, Newest
<1>8. Len(r) + BufferSize = BufferSize + Len(r)
  BY <1>2, BufferSizeAssumption
<1>9. QED
  BY <1>4, <1>6, <1>7, <1>8

(* The invariant holds initially. *)
LEMMA InitIInv == Init => IInv
  BY BufferSizeAssumption
  DEF Init, IInv, TypeOK, Ownership, Serving, Windows, Newest

(* Every step preserves the types, the ownership and the service.          *)
LEMMA StepIInv == IInv /\ [Next]_vars => IInv'
<1> SUFFICES ASSUME IInv, [Next]_vars PROVE IInv'
  OBVIOUS
<1> USE DEF IInv, Ownership, Serving, shared, buffers, seen
<1>1. CASE Call
  <2>1. input_queue_ \in Seq(Nat) /\ calls + 1 \in Nat
    BY DEF TypeOK
  <2>2. Append(input_queue_, calls + 1) \in Seq(Nat)
    BY <2>1, AppendProperties
  <2>3. TypeOK'
    <3>1. input_queue_' \in Seq(Nat) /\ calls' \in Nat
      BY <1>1, <2>1, <2>2 DEF Call, TypeOK
    <3>2. QED
      BY <1>1, <3>1 DEF Call, TypeOK
  <2>4. Ownership'
    BY <1>1 DEF Call
  <2>5. Serving'
    BY <1>1 DEF Call, TypeOK, Newest
  <2>6. QED
    BY <2>3, <2>4, <2>5
<1>2. CASE FillTensor
  <2>1. calls \in Nat /\ input_queue_ \in Seq(Nat) /\ obs_buffer_ \in Windows
    BY DEF TypeOK
  <2>2. /\ Append(input_queue_, calls) \in Seq(Nat)
        /\ Append(input_queue_, calls) # <<>>
        /\ Len(Append(input_queue_, calls)) = Len(input_queue_) + 1
        /\ Append(input_queue_, calls)[Len(input_queue_) + 1] = calls
    BY <2>1, AppendProperties
  <2>3. obs_buffer_' \in Windows /\ tensor' \in Windows /\ Newest(tensor') = calls
    BY <1>2, <2>1, <2>2, PushedWindow DEF FillTensor
  <2>4. TypeOK'
    BY <1>2, <2>3 DEF FillTensor, TypeOK
  <2>5. QED
    BY <1>2, <2>3, <2>4 DEF FillTensor, TypeOK, Newest
<1>3. CASE Release
  <2>1. TypeOK'
    BY <1>3 DEF Release, TypeOK
  <2>2. Ownership'
    BY <1>3 DEF Release
  <2>3. Serving'
    BY <1>3 DEF Release, TypeOK, Newest
  <2>4. QED
    BY <2>1, <2>2, <2>3
<1>4. CASE GetResult
  BY <1>4 DEF GetResult, TypeOK, Newest
<1>5. CASE CopyResult
  BY <1>5 DEF CopyResult, TypeOK, Newest
<1>6. CASE Destroy
  BY <1>6 DEF Destroy, TypeOK, Newest
<1>7. CASE WorkerCheck
  BY <1>7 DEF WorkerCheck, TypeOK, Newest
<1>8. CASE Infer
  <2>1. Newest(tensor) \in Nat
    BY BufferSizeAssumption DEF TypeOK, Windows, Newest
  <2>2. TypeOK'
    BY <1>8, <2>1 DEF Infer, TypeOK
  <2>3. QED
    BY <1>8, <2>1, <2>2 DEF Infer, TypeOK, Newest
<1>9. CASE Act
  BY <1>9 DEF Act, TypeOK, Newest
<1>10. CASE Publish
  BY <1>10 DEF Publish, TypeOK, Newest
<1>11. CASE WorkerStore
  BY <1>11 DEF WorkerStore, TypeOK, Newest
<1>12. CASE Observe
  <2>1. observed' \in SUBSET Nat
    BY <1>12 DEF Observe, TypeOK
  <2>2. QED
    BY <1>12, <2>1 DEF Observe, TypeOK, Newest
<1>13. CASE WriteLog
  BY <1>13 DEF WriteLog, TypeOK, Newest
<1>14. CASE UNCHANGED vars
  BY <1>14 DEF vars, TypeOK, Newest
<1>15. QED
  BY <1>1, <1>2, <1>3, <1>4, <1>5, <1>6, <1>7, <1>8, <1>9, <1>10, <1>11, <1>12, <1>13, <1>14
  DEF Next, Caller, Worker

(* The inductive invariant holds in every reachable state. *)
THEOREM Invariance == Spec => []IInv
  BY InitIInv, StepIInv, PTL DEF Spec

(* Type correctness of InferenceWorker. *)
THEOREM TypeCorrect == Spec => []TypeOK
<1>1. IInv => TypeOK
  BY DEF IInv
<1>2. QED
  BY Invariance, <1>1, PTL

(* What the actions named are: the result handed out, the target, the last *)
(* action and the last accepted request never overtake each other, and an  *)
(* observation under way holds actions from the first of them to the last. *)
Feeding ==
  /\ result <= latest_target_
  /\ latest_target_ <= last_action_
  /\ last_action_ <= accepted
  /\ worker = "publish" => last_action_ = output
  /\ caller \in {"idle", "copy", "destroyed"} => observed = {}
  /\ \A action \in observed : result <= action /\ action <= accepted

\* Every step keeps the order of the actions.
LEMMA StepFeeding == IInv /\ Feeding /\ [Next]_vars => Feeding'
<1> SUFFICES ASSUME TypeOK, Ownership, Serving, Feeding, [Next]_vars PROVE Feeding'
  BY DEF IInv
<1> USE DEF Feeding, shared, buffers, seen
<1>1. CASE Observe
  <2>1. output \in Nat /\ last_action_ \in Nat /\ result \in Nat /\ accepted \in Nat /\ latest_target_ \in Nat
    BY DEF TypeOK
  <2>2. result <= last_action_ /\ (worker = "act" => output = accepted)
    BY <2>1 DEF Serving
  <2>3. \A action \in observed' : result <= action /\ action <= accepted
    BY <1>1, <2>1, <2>2 DEF Observe
  <2> QED
    BY <1>1, <2>3 DEF Observe
<1>2. CASE Call
  BY <1>2 DEF Call
<1>3. CASE FillTensor \/ WriteLog \/ GetResult \/ Destroy
  BY <1>3 DEF FillTensor, WriteLog, GetResult, Destroy
<1>4. CASE Release
  <2>1. accepted \in Nat /\ calls \in Nat /\ accepted <= calls /\ observed \in SUBSET Nat /\ last_action_ \in Nat
    BY DEF TypeOK, Serving
  <2>2. last_action_' <= accepted'
    BY <1>4, <2>1 DEF Release
  <2>3. \A action \in observed' : result' <= action /\ action <= accepted'
    <3>1. observed' \subseteq observed /\ result' = result /\ accepted' = calls
      BY <1>4 DEF Release
    <3>2. \A action \in observed : result <= action /\ action <= calls
      BY <2>1
    <3> QED
      BY <3>1, <3>2
  <2> QED
    BY <1>4, <2>2, <2>3 DEF Release
<1>5. CASE CopyResult
  <2>1. latest_target_ <= latest_target_
    BY DEF TypeOK
  <2> QED
    BY <1>5, <2>1 DEF CopyResult
<1>6. CASE Infer
  <2>1. output' = accepted /\ accepted \in Nat /\ result <= accepted
    BY <1>6 DEF Infer, Ownership, Serving, TypeOK
  <2>2. observed' \subseteq observed \cup {accepted}
    BY <1>6, <2>1 DEF Infer
  <2>3. \A action \in observed' : result <= action /\ action <= accepted
    BY <2>1, <2>2
  <2> QED
    BY <1>6, <2>3 DEF Infer
<1>7. CASE Act
  BY <1>7 DEF Act, Serving, TypeOK
<1>8. CASE Publish
  BY <1>8 DEF Publish, Serving, TypeOK
<1>9. CASE WorkerCheck \/ WorkerStore
  BY <1>9 DEF WorkerCheck, WorkerStore
<1>10. CASE UNCHANGED vars
  BY <1>10 DEF vars
<1> QED
  BY <1>1, <1>2, <1>3, <1>4, <1>5, <1>6, <1>7, <1>8, <1>9, <1>10 DEF Next, Caller, Worker

(* Whatever the control loop and the worker do, at most last_action_ and   *)
(* the time in the log are touched by both at once, and no element of an   *)
(* observed action is older than the last result or newer than the last    *)
(* accepted request.                                                       *)
THEOREM RaceFreedom == Spec => []RacesAreConfined
<1>1. Init => Feeding
  BY DEF Init, Feeding
<1>2. IInv /\ Feeding => RacesAreConfined
  <2> SUFFICES ASSUME TypeOK, Ownership, Feeding PROVE RacesAreConfined
    BY DEF IInv
  <2>1. CallerUses \cap WorkerUses \subseteq {"last_action_", "inference_time_"}
    <3>1. CASE caller \in {"fill", "release", "copy"}
      <4>1. WorkerUses = {}
        BY <3>1 DEF Ownership, WorkerUses, TypeOK
      <4> QED
        BY <4>1
    <3>2. CASE caller \notin {"fill", "release", "copy"}
      <4>1. CallerUses \subseteq {"last_action_", "inference_time_"}
        BY <3>2 DEF CallerUses, TypeOK
      <4> QED
        BY <4>1
    <3> QED
      BY <3>1, <3>2
  <2> QED
    BY <2>1 DEF Feeding, RacesAreConfined
<1>3. QED
  BY Invariance, StepFeeding, <1>1, <1>2, PTL DEF Spec

(* The network always runs on the window of the accepted request.          *)
THEOREM ServesAccepted == Spec => []TensorIsAccepted
<1>1. IInv => TensorIsAccepted
  BY DEF IInv, Ownership, Serving, TensorIsAccepted
<1>2. QED
  BY Invariance, <1>1, PTL

(* s ends with the observations of calls r, r - 1, ... as far back as it   *)
(* goes, with 0 for those before the first.                                *)
EndsWith(s, r) ==
  \A k \in 0 .. Len(s) - 1 : s[Len(s) - k] = IF r > k THEN r - k ELSE 0

\* What takes one more observation in, and forgets old ones or none.
LEMMA TakesOneMore ==
  ASSUME NEW s \in Seq(Nat), NEW r \in Nat, EndsWith(s, r),
         NEW t \in Seq(Nat), Len(t) <= Len(s) + 1,
         \A k \in 1 .. Len(t) - 1 : t[Len(t) - k] = s[Len(s) + 1 - k],
         t[Len(t)] = r + 1
  PROVE  EndsWith(t, r + 1)
<1> SUFFICES ASSUME NEW k \in 0 .. Len(t) - 1
             PROVE  t[Len(t) - k] = IF r + 1 > k THEN r + 1 - k ELSE 0
  BY DEF EndsWith
<1>1. Len(s) \in Nat /\ Len(t) \in Nat
  BY LenProperties
<1>2. CASE k = 0
  BY <1>1, <1>2
<1>3. CASE k >= 1
  <2>1. PICK j \in Nat : k = j + 1
    BY <1>3
  <2>2. j \in 0 .. Len(s) - 1 /\ Len(s) + 1 - k = Len(s) - j
    BY <1>1, <2>1
  <2>3. t[Len(t) - k] = s[Len(s) - j]
    <3>1. k \in 1 .. Len(t) - 1
      BY <1>1, <1>3
    <3>2. t[Len(t) - k] = s[Len(s) + 1 - k]
      BY <3>1, Zenon
    <3> QED
      BY <2>2, <3>2
  <2>4. s[Len(s) - j] = IF r > j THEN r - j ELSE 0
    BY <2>2 DEF EndsWith
  <2> QED
    BY <2>1, <2>3, <2>4
<1> QED
  BY <1>2, <1>3

\* History and queue as one sequence.
LEMMA HistoryAndQueue ==
  ASSUME NEW b \in Windows, NEW q \in Seq(Nat)
  PROVE  /\ b \o q \in Seq(Nat) /\ Len(b \o q) = BufferSize + Len(q)
         /\ Len(b) = BufferSize /\ b \in Seq(Nat)
         /\ \A i \in 1 .. BufferSize : (b \o q)[i] = b[i]
         /\ \A i \in 1 .. Len(q) : (b \o q)[BufferSize + i] = q[i]
<1>1. b \in Seq(Nat) /\ Len(b) = BufferSize
  BY BufferSizeAssumption DEF Windows
<1>2. b \o q \in Seq(Nat) /\ Len(b \o q) = BufferSize + Len(q)
  BY <1>1, ConcatProperties
<1>3. \A i \in 1 .. BufferSize : (b \o q)[i] = b[i]
  BY <1>1, ConcatProperties, BufferSizeAssumption
<1>4. ASSUME NEW i \in 1 .. Len(q) PROVE (b \o q)[BufferSize + i] = q[i]
  <2>1. PICK k \in Nat : k = BufferSize + i
    BY BufferSizeAssumption
  <2>2. k \in 1 .. Len(b) + Len(q) /\ ~(k <= Len(b)) /\ k - Len(b) = i
    BY <1>1, <2>1, BufferSizeAssumption
  <2>3. (b \o q)[k] = IF k <= Len(b) THEN b[k] ELSE q[k - Len(b)]
    BY <1>1, <2>2, ConcatProperties
  <2> QED
    BY <2>1, <2>2, <2>3, Zenon
<1> QED
  BY <1>1, <1>2, <1>3, <1>4

\* An observation more in the queue is one more at the end.
LEMMA QueueTakesOneMore ==
  ASSUME NEW b \in Windows, NEW q \in Seq(Nat), NEW r \in Nat, EndsWith(b \o q, r)
  PROVE  EndsWith(b \o Append(q, r + 1), r + 1)
<1> DEFINE s == b \o q
           a == Append(q, r + 1)
           t == b \o a
<1>1. /\ a \in Seq(Nat) /\ Len(a) = Len(q) + 1 /\ a[Len(q) + 1] = r + 1
      /\ \A i \in 1 .. Len(q) : a[i] = q[i]
      /\ Len(q) \in Nat
  BY AppendProperties, LenProperties
<1>2. /\ s \in Seq(Nat) /\ Len(s) = BufferSize + Len(q)
      /\ \A i \in 1 .. BufferSize : s[i] = b[i]
      /\ \A i \in 1 .. Len(q) : s[BufferSize + i] = q[i]
  BY HistoryAndQueue
<1> HIDE DEF a
<1>3. /\ t \in Seq(Nat) /\ Len(t) = BufferSize + Len(a)
      /\ \A i \in 1 .. BufferSize : t[i] = b[i]
      /\ \A i \in 1 .. Len(a) : t[BufferSize + i] = a[i]
  BY <1>1, HistoryAndQueue
<1> HIDE DEF s, t
<1>4. Len(t) = Len(s) + 1 /\ Len(s) \in Nat
  BY <1>1, <1>2, <1>3, BufferSizeAssumption
<1>5. t[Len(t)] = r + 1
  BY <1>1, <1>2, <1>3, <1>4
<1>6. ASSUME NEW k \in 1 .. Len(t) - 1 PROVE t[Len(t) - k] = s[Len(s) + 1 - k]
  <2> DEFINE i == Len(s) + 1 - k
  <2>1. i \in 1 .. Len(s) /\ Len(t) - k = i
    BY <1>4
  <2> HIDE DEF i
  <2>2. CASE i <= BufferSize
    <3>1. t[i] = b[i] /\ s[i] = b[i]
      BY <1>2, <1>3, <2>1, <2>2, BufferSizeAssumption, SMTT(30)
    <3> QED
      BY <2>1, <3>1 DEF i
  <2>3. CASE i > BufferSize
    <3>1. PICK j \in 1 .. Len(q) : i = BufferSize + j
      <4>1. i - BufferSize \in 1 .. Len(q) /\ i = BufferSize + (i - BufferSize)
        BY <1>1, <1>2, <2>1, <2>3, BufferSizeAssumption
      <4> QED
        BY <4>1
    <3>2. t[i] = a[j] /\ s[i] = q[j] /\ a[j] = q[j]
      <4>1. j \in 1 .. Len(a)
        BY <1>1
      <4>2. t[BufferSize + j] = a[j]
        BY <1>3, <4>1
      <4> QED
        BY <1>1, <1>2, <3>1, <4>2
    <3> QED
      BY <2>1, <3>2 DEF i
  <2> QED
    BY <1>4, <2>1, <2>2, <2>3, BufferSizeAssumption
<1>7. EndsWith(s, r)
  BY DEF s
<1>8. EndsWith(t, r + 1)
  <2>1. Len(t) <= Len(s) + 1
    BY <1>4
  <2>2. s \in Seq(Nat) /\ t \in Seq(Nat)
    BY <1>2, <1>3
  <2> QED
    BY <1>5, <1>6, <1>7, <2>1, <2>2, TakesOneMore
<1> QED
  BY <1>8 DEF t, a

\* The history keeps the end of what is pushed into it.
LEMMA PushedEndsWith ==
  ASSUME NEW b \in Windows, NEW q \in Seq(Nat), NEW r \in Nat, q # <<>>, EndsWith(b \o q, r)
  PROVE  EndsWith(Pushed(b, q) \o << >>, r)
<1> DEFINE s == b \o q
           w == Pushed(b, q)
<1>1. s \in Seq(Nat) /\ Len(s) = BufferSize + Len(q) /\ Len(q) \in Nat
  BY HistoryAndQueue
<1>2. w \in Windows
  BY PushedWindow
<1>3. w \o << >> = w /\ w \in Seq(Nat) /\ Len(w) = BufferSize
  BY <1>2, HistoryAndQueue, ConcatEmptySeq
<1>4. ASSUME NEW k \in 0 .. BufferSize - 1
      PROVE  w[BufferSize - k] = s[Len(s) - k]
  <2>1. PICK i \in 1 .. BufferSize : i = BufferSize - k
    BY BufferSizeAssumption
  <2>2. w[i] = s[Len(q) + i]
    BY DEF Pushed
  <2>3. Len(q) + i = Len(s) - k
    BY <1>1, <2>1, BufferSizeAssumption
  <2> QED
    BY <2>1, <2>2, <2>3
<1> HIDE DEF s, w
<1>5. EndsWith(s, r)
  BY DEF s
<1>6. \A k \in 0 .. BufferSize - 1 : w[BufferSize - k] = IF r > k THEN r - k ELSE 0
  BY <1>1, <1>4, <1>5, BufferSizeAssumption DEF EndsWith
<1>7. EndsWith(w, r)
  BY <1>3, <1>6 DEF EndsWith
<1> QED
  BY <1>3, <1>7 DEF w

\* There is none to begin with.
LEMMA InitGapless == Init => HistoryIsGapless
<1> SUFFICES ASSUME Init PROVE HistoryIsGapless
  OBVIOUS
<1>1. obs_buffer_ \in Windows /\ input_queue_ = <<>> /\ Recorded = 0
  BY DEF Init, Windows, Recorded
<1>2. obs_buffer_ \in Seq(Nat) /\ Len(obs_buffer_) = BufferSize
  BY <1>1, HistoryAndQueue, EmptySeq
<1>3. obs_buffer_ \o input_queue_ = obs_buffer_
  BY <1>1, <1>2, ConcatEmptySeq
<1>4. \A i \in 1 .. BufferSize : obs_buffer_[i] = 0
  BY DEF Init
<1> QED
  BY <1>1, <1>2, <1>3, <1>4, BufferSizeAssumption DEF HistoryIsGapless

\* Every step keeps the history without gaps.
LEMMA StepGapless == IInv /\ HistoryIsGapless /\ [Next]_vars => HistoryIsGapless'
<1> SUFFICES ASSUME TypeOK, Serving, HistoryIsGapless, [Next]_vars PROVE HistoryIsGapless'
  BY DEF IInv
<1>1. /\ obs_buffer_ \in Windows /\ input_queue_ \in Seq(Nat) /\ calls \in Nat
      /\ EndsWith(obs_buffer_ \o input_queue_, Recorded)
  BY DEF TypeOK, HistoryIsGapless, EndsWith
<1>2. CASE Call
  <2>1. CASE caller' = "fill" /\ UNCHANGED <<input_queue_, observed>>
    <3>1. Recorded' = Recorded /\ UNCHANGED <<obs_buffer_, input_queue_>>
      BY <1>1, <1>2, <2>1 DEF Call, Recorded
    <3> QED
      BY <3>1 DEF HistoryIsGapless
  <2>2. CASE input_queue_' = Append(input_queue_, calls') /\ caller' = "idle"
    <3>1. /\ Recorded = calls /\ Recorded' = calls + 1 /\ obs_buffer_' = obs_buffer_
          /\ input_queue_' = Append(input_queue_, calls + 1)
      BY <1>2, <2>2 DEF Call, Recorded
    <3>2. EndsWith(obs_buffer_ \o Append(input_queue_, calls + 1), calls + 1)
      BY <1>1, <3>1, QueueTakesOneMore
    <3> QED
      BY <3>1, <3>2 DEF HistoryIsGapless, EndsWith
  <2> QED
    BY <1>2, <2>1, <2>2 DEF Call
<1>3. CASE FillTensor
  <2>1. /\ Recorded = calls - 1 /\ Recorded' = calls /\ input_queue_' = <<>>
        /\ obs_buffer_' = Pushed(obs_buffer_, Append(input_queue_, calls))
    BY <1>3 DEF FillTensor, Recorded
  <2>2. Recorded \in Nat /\ calls = Recorded + 1
    BY <1>1, <1>3, <2>1 DEF FillTensor, Serving, TypeOK
  <2>3. EndsWith(obs_buffer_' \o input_queue_', calls)
    <3>1. EndsWith(obs_buffer_ \o Append(input_queue_, calls), calls)
      BY <1>1, <2>2, QueueTakesOneMore
    <3>2. Append(input_queue_, calls) \in Seq(Nat) /\ Append(input_queue_, calls) # <<>>
      BY <1>1, AppendProperties
    <3> QED
      BY <1>1, <2>1, <3>1, <3>2, PushedEndsWith
  <2> QED
    BY <2>1, <2>3 DEF HistoryIsGapless, EndsWith
<1>4. CASE UNCHANGED <<obs_buffer_, input_queue_, calls>> /\ (caller' = "fill" <=> caller = "fill")
  BY <1>4 DEF HistoryIsGapless, Recorded
<1> QED
  BY <1>2, <1>3, <1>4 DEF Next, Caller, Worker, Observe, Release, WriteLog, GetResult,
     CopyResult, Destroy, WorkerCheck, Infer, Act, Publish, WorkerStore, vars, buffers

(* No observation is lost, repeated or reordered on its way through the    *)
(* queue into the history, however long the network is busy.               *)
THEOREM NothingIsLost == Spec => []HistoryIsGapless
  BY InitGapless, StepGapless, Invariance, PTL DEF Spec

-----------------------------------------------------------------------------
(* What GetResult may hand out, seen from where the flag was last TRUE:    *)
(* the target of then, or the one of the request accepted since.           *)
Offering ==
  /\ calls <= MaxCalls
  /\ inference_done_ => offered = latest_target_
  /\ ~inference_done_ => accepted > 0 /\ latest_target_ \in {offered, accepted}

\* Only the worker's store changes what is offered, and by one request.
LEMMA StepOffering == IInv /\ Offering /\ [Next]_vars => Offering'
<1> SUFFICES ASSUME TypeOK, Ownership, Serving, Offering, [Next]_vars PROVE Offering'
  BY DEF IInv
<1>1. CASE Release
  BY <1>1 DEF Release, Offering, Ownership, Serving, TypeOK, buffers
<1>2. CASE Publish
  BY <1>2 DEF Publish, Offering, Ownership, Serving, buffers
<1>3. CASE WorkerStore
  BY <1>3 DEF WorkerStore, Offering, buffers
<1>4. CASE UNCHANGED <<inference_done_, latest_target_, accepted, offered>> /\ calls' <= MaxCalls
  BY <1>4 DEF Offering
<1> QED
  BY <1>1, <1>2, <1>3, <1>4, MaxCallsAssumption
  DEF Offering, TypeOK, Next, Caller, Worker, Observe, Call, FillTensor, WriteLog, GetResult, CopyResult,
    Destroy, WorkerCheck, Infer, Act, vars, shared

\* A history that ends with call n rests on the window of that call.
LEMMA HistoryIsWindow ==
  ASSUME NEW w \in Windows, NEW n \in Nat, EndsWith(w \o << >>, n)
  PROVE  Network!Range(w) = WindowOf(n)
<1>1. w \o << >> = w /\ w \in Seq(Nat) /\ Len(w) = BufferSize
  <2>1. w \in Seq(Nat) /\ Len(w) = BufferSize
    BY HistoryAndQueue, EmptySeq
  <2> QED
    BY <2>1, ConcatEmptySeq
<1>2. \A k \in 0 .. BufferSize - 1 : w[BufferSize - k] = IF n > k THEN n - k ELSE 0
  BY <1>1 DEF EndsWith
<1>3. DOMAIN w = 1 .. BufferSize
  BY DEF Windows
<1>4. ASSUME NEW i \in 1 .. BufferSize PROVE w[i] \in WindowOf(n)
  <2>1. PICK k \in 0 .. BufferSize - 1 : i = BufferSize - k
    <3>1. BufferSize - i \in 0 .. BufferSize - 1 /\ i = BufferSize - (BufferSize - i)
      BY BufferSizeAssumption
    <3> QED
      BY <3>1
  <2> QED
    BY <1>2, <2>1 DEF WindowOf
<1>5. ASSUME NEW k \in 0 .. BufferSize - 1
      PROVE  (IF n > k THEN n - k ELSE 0) \in Network!Range(w)
  <2>1. BufferSize - k \in DOMAIN w
    BY <1>3, BufferSizeAssumption
  <2> QED
    BY <1>2, <2>1 DEF Network!Range
<1> QED
  BY <1>3, <1>4, <1>5 DEF WindowOf, Network!Range

(* Control loop and worker implement the network that PolicyTakeover       *)
(* builds on: every step is an InferUnsync, an Infer, a Forget or a        *)
(* stutter of PolicyNetwork.                                               *)
THEOREM ImplementsNetwork == Spec => NetworkSpec
<1>1. Init => Offering /\ HistoryIsGapless
  BY InitGapless, MaxCallsAssumption DEF Init, Offering
<1>2. Init => Network!NetworkInit
  BY DEF Init, Network!NetworkInit, Network!Zero, Network!Unset, Taken, Taking, RestsOn
<1>3. /\ IInv /\ Offering /\ HistoryIsGapless /\ HistoryIsGapless' /\ [Next]_vars
      => [Network!NetworkNext(1 .. MaxCalls)]_(Network!networkVars)
  <2> SUFFICES ASSUME TypeOK, Ownership, Serving, Offering, HistoryIsGapless', [Next]_vars
               PROVE  \/ Network!NetworkNext(1 .. MaxCalls)
                      \/ UNCHANGED <<obs_buffer_, input_queue_, Taken, Taking, offered>>
    BY DEF IInv, Network!networkVars, RestsOn
  <2>1. CASE Call /\ inference_done_
    BY <2>1 DEF Call, Taken, Taking, shared
  <2>2. CASE Call /\ ~inference_done_
    <3>1. calls + 1 \in 1 .. MaxCalls
      BY <2>2, MaxCallsAssumption DEF Call, TypeOK
    <3>2. Network!InferUnsync(calls + 1)
      BY <2>2 DEF Call, Taken, Taking, RestsOn, Network!InferUnsync, shared
    <3> QED
      BY <3>1, <3>2 DEF Network!NetworkNext
  <2>3. CASE FillTensor
    <3>1. calls \in 1 .. MaxCalls
      BY <2>3, MaxCallsAssumption DEF FillTensor, TypeOK, Serving, Offering
    <3>2. Network!Range(obs_buffer_') = WindowOf(calls)
      <4>1. obs_buffer_' \in Windows
        <5>1. input_queue_ \in Seq(Nat) /\ calls \in Nat
          BY DEF TypeOK
        <5>2. /\ Append(input_queue_, calls) \in Seq(Nat)
              /\ Append(input_queue_, calls) # <<>>
          BY <5>1, AppendProperties
        <5> QED
          BY <2>3, <5>2, PushedWindow DEF FillTensor, TypeOK
      <4>2. EndsWith(obs_buffer_' \o << >>, calls)
        BY <2>3 DEF FillTensor, HistoryIsGapless, Recorded, EndsWith
      <4> QED
        BY <3>1, <4>1, <4>2, HistoryIsWindow
    <3>3. ~Taken /\ Taken' /\ Taking' = calls /\ calls # 0
      BY <2>3, <3>1 DEF FillTensor, Ownership, Taken, Taking
    <3>4. Network!InferUnsync(calls)
      BY <2>3, <3>2, <3>3 DEF FillTensor, Network!InferUnsync, Network!Pushed, Pushed, RestsOn
    <3> QED
      BY <3>1, <3>4 DEF Network!NetworkNext
  <2>4. CASE Release
    BY <2>4 DEF Release, Taken, Taking, buffers
  <2>5. CASE WorkerStore /\ inference_done_
    BY <2>5 DEF WorkerStore, Offering, Taken, Taking, buffers
  <2>6. CASE WorkerStore /\ ~inference_done_
    <3>1. /\ Taken /\ ~Taken' /\ Taking = accepted /\ Taking' = accepted
          /\ UNCHANGED <<obs_buffer_, input_queue_>>
      BY <2>6 DEF WorkerStore, Ownership, Taken, Taking, buffers
    <3>2. CASE latest_target_ = offered
      <4>1. Network!Forget
        BY <2>6, <3>1, <3>2 DEF WorkerStore, Network!Forget
      <4> QED
        BY <4>1 DEF Network!NetworkNext
    <3>3. CASE latest_target_ = accepted
      <4>1. Network!Infer
        BY <2>6, <3>1, <3>3 DEF WorkerStore, Network!Infer
      <4> QED
        BY <4>1 DEF Network!NetworkNext
    <3> QED
      BY <2>6, <3>2, <3>3 DEF Offering
  <2>7. CASE Observe \/ WriteLog \/ GetResult \/ CopyResult \/ Destroy
    BY <2>7 DEF Observe, WriteLog, GetResult, CopyResult, Destroy, Taken, Taking, shared, buffers
  <2>8. CASE WorkerCheck \/ Infer \/ Act \/ Publish
    BY <2>8 DEF WorkerCheck, Infer, Act, Publish, Taken, Taking, shared, buffers
  <2>9. CASE UNCHANGED vars
    BY <2>9 DEF vars, Taken, Taking
  <2> QED
    BY <2>1, <2>2, <2>3, <2>4, <2>5, <2>6, <2>7, <2>8, <2>9 DEF Next, Caller, Worker
<1> QED
  BY <1>1, <1>2, <1>3, StepOffering, StepGapless, Invariance, PTL DEF Spec, NetworkSpec

-----------------------------------------------------------------------------
(* HistoryBuffer, for every buffer size: the mirror makes every window     *)
(* contiguous, and the buffer implements HistoryWindow.                    *)

BufferInv == BufferTypes /\ MirrorIsExact

(* The remainder by BufferSize of an index that has run past the ring by   *)
(* one at most.                                                            *)
LEMMA Wrapped ==
  ASSUME NEW i \in 0 .. BufferSize
  PROVE  i % BufferSize = IF i = BufferSize THEN 0 ELSE i
BY BufferSizeAssumption

(* The index that is written next is where the old window begins.          *)
LEMMA NextIsFirst ==
  ASSUME BufferTypes
  PROVE  /\ NextIndex \in 0 .. BufferSize - 1
         /\ FirstOfHistory = NextIndex
<1>1. current_index_ + 1 \in 0 .. BufferSize
  BY BufferSizeAssumption DEF BufferTypes
<1>2. QED
  BY <1>1, Wrapped, BufferSizeAssumption DEF BufferTypes, NextIndex, FirstOfHistory

(* The invariant holds initially. *)
LEMMA InitBufferInv == BufferInit => BufferInv
  BY BufferSizeAssumption, ZeroAssumption DEF BufferInit, BufferInv, BufferTypes, MirrorIsExact, Cells

(* Adding an observation keeps the mirror. *)
LEMMA AddKeepsBufferInv ==
  ASSUME BufferInv, NEW o \in Observations, AddObservation(o)
  PROVE  BufferInv'
<1> DEFINE n == NextIndex
<1>1. n \in 0 .. BufferSize - 1
  BY NextIsFirst DEF BufferInv
<1>2. current_index_' = n
  BY DEF AddObservation
<1>3. data_' = [c \in Cells |-> IF c \in Written(n) THEN o ELSE data_[c]]
  BY DEF AddObservation
<1> HIDE DEF n
<1>4. BufferTypes'
  BY <1>1, <1>2, <1>3, BufferSizeAssumption DEF BufferInv, BufferTypes
<1>5. ASSUME NEW c \in 0 .. BufferSize - 2
      PROVE  data_'[c + BufferSize] = data_'[c]
  <2>1. c \in Cells /\ c + BufferSize \in Cells
    BY BufferSizeAssumption DEF Cells
  <2>2. c \in Written(n) <=> c + BufferSize \in Written(n)
    BY <1>1, BufferSizeAssumption DEF Written
  <2>3. data_[c + BufferSize] = data_[c]
    BY DEF BufferInv, MirrorIsExact
  <2>4. QED
    BY <1>3, <2>1, <2>2, <2>3
<1>6. QED
  BY <1>4, <1>5 DEF BufferInv, MirrorIsExact

(* Every step preserves the invariant. *)
LEMMA StepBufferInv == BufferInv /\ [BufferNext]_bufferVars => BufferInv'
<1> SUFFICES ASSUME BufferInv, [BufferNext]_bufferVars PROVE BufferInv'
  OBVIOUS
<1>1. CASE Reset
  BY <1>1, BufferSizeAssumption, ZeroAssumption
  DEF Reset, BufferInv, BufferTypes, MirrorIsExact, Cells
<1>2. ASSUME NEW o \in Observations, AddObservation(o) PROVE BufferInv'
  BY <1>2, AddKeepsBufferInv
<1>3. CASE UNCHANGED bufferVars
  BY <1>3 DEF bufferVars, BufferInv, BufferTypes, MirrorIsExact
<1>4. QED
  BY <1>1, <1>2, <1>3 DEF BufferNext

(* The inductive invariant holds in every reachable state. *)
THEOREM BufferInvariance == BufferSpec => []BufferInv
  BY InitBufferInv, StepBufferInv, PTL DEF BufferSpec

(* Type correctness of HistoryBuffer. *)
THEOREM BufferTypeCorrect == BufferSpec => []BufferTypes
<1>1. BufferInv => BufferTypes
  BY DEF BufferInv
<1>2. QED
  BY BufferInvariance, <1>1, PTL

(* The cells behind the ring are an exact copy of its beginning. *)
THEOREM Mirrored == BufferSpec => []MirrorIsExact
<1>1. BufferInv => MirrorIsExact
  BY DEF BufferInv
<1>2. QED
  BY BufferInvariance, <1>1, PTL

(* The remainder of an index that has run past the ring by less than one   *)
(* turn.                                                                   *)
LEMMA WrappedOnce ==
  ASSUME NEW i \in 0 .. 2 * BufferSize - 1
  PROVE  i % BufferSize = IF i >= BufferSize THEN i - BufferSize ELSE i
BY BufferSizeAssumption

(* Counting back from the newest observation and reading the contiguous    *)
(* window give the same observations, in a young buffer too.               *)
THEOREM ReadersConsistent == BufferSpec => []ReadersAgree
<1>1. BufferInv => ReadersAgree
  <2> SUFFICES ASSUME BufferInv, NEW i \in 0 .. BufferSize - 1
               PROVE  GetObservation(i) = GetObsHistory[BufferSize - i]
    BY DEF ReadersAgree
  <2> DEFINE k == current_index_
  <2>1. k \in -1 .. BufferSize - 1
    BY DEF BufferInv, BufferTypes
  <2>2. FirstOfHistory = IF k = BufferSize - 1 THEN 0 ELSE k + 1
    <3>1. k + 1 \in 0 .. BufferSize
      BY <2>1, BufferSizeAssumption
    <3>2. QED
      BY <2>1, <3>1, Wrapped, BufferSizeAssumption DEF FirstOfHistory
  <2>3. GetObservation(i) = data_[IF k >= i THEN k - i ELSE k + BufferSize - i]
    <3>1. k + BufferSize - i \in 0 .. 2 * BufferSize - 1
      BY <2>1, BufferSizeAssumption
    <3>2. (k + BufferSize - i) % BufferSize
            = IF k >= i THEN k - i ELSE k + BufferSize - i
      BY <2>1, <3>1, WrappedOnce, BufferSizeAssumption
    <3>3. QED
      BY <3>2 DEF GetObservation
  <2>4. GetObsHistory[BufferSize - i] = data_[FirstOfHistory + (BufferSize - i) - 1]
    BY BufferSizeAssumption DEF GetObsHistory
  <2>5. CASE k = BufferSize - 1
    BY <2>2, <2>3, <2>4, <2>5, BufferSizeAssumption
  <2>6. CASE k # BufferSize - 1 /\ k >= i
    <3>1. k - i \in 0 .. BufferSize - 2
      BY <2>1, <2>6, BufferSizeAssumption
    <3>2. FirstOfHistory + (BufferSize - i) - 1 = (k - i) + BufferSize
      BY <2>1, <2>2, <2>6, BufferSizeAssumption
    <3>3. data_[(k - i) + BufferSize] = data_[k - i]
      BY <3>1 DEF BufferInv, MirrorIsExact
    <3>4. QED
      BY <2>3, <2>4, <2>6, <3>2, <3>3
  <2>7. CASE k # BufferSize - 1 /\ ~(k >= i)
    <3>1. FirstOfHistory + (BufferSize - i) - 1 = k + BufferSize - i
      BY <2>1, <2>2, <2>7, BufferSizeAssumption
    <3>2. QED
      BY <2>3, <2>4, <2>7, <3>1
  <2>8. QED
    BY <2>5, <2>6, <2>7
<1>2. QED
  BY BufferInvariance, <1>1, PTL

(* A cleared buffer shows zeros only. *)
LEMMA ClearedHistory ==
  ASSUME data_ = [c \in Cells |-> Zero], current_index_ = -1
  PROVE  GetObsHistory = Window!ZeroWindow
<1>1. FirstOfHistory = 0
  <2>1. 0 \in 0 .. BufferSize
    BY BufferSizeAssumption
  <2>2. QED
    BY <2>1, Wrapped, BufferSizeAssumption DEF FirstOfHistory
<1>2. \A i \in 1 .. BufferSize : 0 + i - 1 \in Cells
  BY BufferSizeAssumption DEF Cells
<1>3. QED
  BY <1>1, <1>2 DEF GetObsHistory, Window!ZeroWindow

\* Also after a step.
LEMMA ClearedHistoryNext ==
  ASSUME data_' = [c \in Cells |-> Zero], current_index_' = -1
  PROVE  GetObsHistory' = Window!ZeroWindow
<1>1. FirstOfHistory' = 0
  <2>1. 0 \in 0 .. BufferSize
    BY BufferSizeAssumption
  <2>2. QED
    BY <2>1, Wrapped, BufferSizeAssumption DEF FirstOfHistory
<1>2. \A i \in 1 .. BufferSize : 0 + i - 1 \in Cells
  BY BufferSizeAssumption DEF Cells
<1>3. QED
  BY <1>1, <1>2 DEF GetObsHistory, Window!ZeroWindow

(* Adding an observation slides the window by one. *)
LEMMA AddSlides ==
  ASSUME BufferInv, NEW o \in Observations, AddObservation(o)
  PROVE  Window!Push(o)
<1> DEFINE n == NextIndex
<1>1. n \in 0 .. BufferSize - 1 /\ FirstOfHistory = n
  BY NextIsFirst DEF BufferInv
<1>2. FirstOfHistory' = IF n = BufferSize - 1 THEN 0 ELSE n + 1
  <2>1. n + 1 \in 0 .. BufferSize
    BY <1>1, BufferSizeAssumption
  <2>2. FirstOfHistory' = (n + 1) % BufferSize
    BY DEF AddObservation, FirstOfHistory
  <2>3. QED
    BY <1>1, <2>1, <2>2, Wrapped, BufferSizeAssumption
<1>3. data_' = [c \in Cells |-> IF c \in Written(n) THEN o ELSE data_[c]]
  BY DEF AddObservation
<1> HIDE DEF n
<1>4. ASSUME NEW i \in 1 .. BufferSize
      PROVE  GetObsHistory'[i] = IF i = BufferSize THEN o ELSE GetObsHistory[i + 1]
  <2>1. GetObsHistory'[i] = data_'[FirstOfHistory' + i - 1]
    BY DEF GetObsHistory
  <2>2. i # BufferSize => GetObsHistory[i + 1] = data_[n + i]
    <3>1. i # BufferSize => i + 1 \in 1 .. BufferSize /\ n + (i + 1) - 1 = n + i
      BY <1>1, BufferSizeAssumption
    <3>2. QED
      BY <1>1, <3>1 DEF GetObsHistory
  <2>3. CASE n = BufferSize - 1
    <3>1. FirstOfHistory' + i - 1 = i - 1 /\ i - 1 \in Cells
      BY <1>2, <2>3, BufferSizeAssumption DEF Cells
    <3>2. Written(n) = {BufferSize - 1}
      BY <2>3 DEF Written
    <3>3. CASE i = BufferSize
      BY <1>3, <2>1, <3>1, <3>2, <3>3
    <3>4. CASE i # BufferSize
      <4>1. i - 1 \in 0 .. BufferSize - 2 /\ n + i = (i - 1) + BufferSize
        BY <2>3, <3>4, BufferSizeAssumption
      <4>2. data_'[i - 1] = data_[i - 1]
        BY <1>3, <3>1, <3>2, <4>1, BufferSizeAssumption
      <4>3. data_[n + i] = data_[i - 1]
        BY <4>1 DEF BufferInv, MirrorIsExact
      <4>4. QED
        BY <2>1, <2>2, <3>1, <3>4, <4>2, <4>3
    <3>5. QED
      BY <3>3, <3>4
  <2>4. CASE n # BufferSize - 1
    <3>1. FirstOfHistory' + i - 1 = n + i /\ n + i \in Cells
      BY <1>1, <1>2, <2>4, BufferSizeAssumption DEF Cells
    <3>2. n + i \in Written(n) <=> i = BufferSize
      BY <1>1, <2>4, BufferSizeAssumption DEF Written
    <3>3. data_'[n + i] = IF i = BufferSize THEN o ELSE data_[n + i]
      BY <1>3, <3>1, <3>2
    <3>4. QED
      BY <2>1, <2>2, <3>1, <3>3
  <2>5. QED
    BY <2>3, <2>4
<1>5. QED
  BY <1>4 DEF Window!Push, GetObsHistory

(* The mirrored ring implements the sliding window: what GetObsHistory     *)
(* returns is always the last BufferSize observations, oldest first.       *)
THEOREM ImplementsWindow == BufferSpec => WindowSpec
<1>1. BufferInit => Window!WindowInit
  BY ClearedHistory DEF BufferInit, Window!WindowInit
<1>2. BufferInv /\ [BufferNext]_bufferVars => [Window!WindowNext]_GetObsHistory
  <2> SUFFICES ASSUME BufferInv, [BufferNext]_bufferVars
               PROVE  [Window!WindowNext]_GetObsHistory
    OBVIOUS
  <2>1. CASE Reset
    <3>1. GetObsHistory' = Window!ZeroWindow
      <4>1. data_' = [c \in Cells |-> Zero] /\ current_index_' = -1
        BY <2>1 DEF Reset
      <4>2. FirstOfHistory' = 0
        <5>1. 0 \in 0 .. BufferSize
          BY BufferSizeAssumption
        <5>2. QED
          BY <4>1, <5>1, Wrapped, BufferSizeAssumption DEF FirstOfHistory
      <4>3. \A i \in 1 .. BufferSize : 0 + i - 1 \in Cells
        BY BufferSizeAssumption DEF Cells
      <4>4. QED
        BY <4>1, <4>2, <4>3 DEF GetObsHistory, Window!ZeroWindow
    <3>2. QED
      BY <3>1 DEF Window!WindowNext, Window!Clear
  <2>2. ASSUME NEW o \in Observations, AddObservation(o)
        PROVE  [Window!WindowNext]_GetObsHistory
    BY <2>2, AddSlides DEF Window!WindowNext
  <2>3. CASE UNCHANGED bufferVars
    BY <2>3 DEF bufferVars, GetObsHistory, FirstOfHistory
  <2>4. QED
    BY <2>1, <2>2, <2>3 DEF BufferNext
<1>3. QED
  BY <1>1, <1>2, BufferInvariance, PTL DEF BufferSpec, WindowSpec, Window!WindowSpec

(* The history before and after one observation more, position by position. *)
LEMMA PushedOneMore ==
  ASSUME NEW S, NEW b \in [1 .. BufferSize -> S], NEW q \in Seq(S), NEW o \in S,
         NEW i \in 1 .. BufferSize
  PROVE  Pushed(b, Append(q, o))[i] = IF i = BufferSize THEN o ELSE Pushed(b, q)[i + 1]
<1> DEFINE a == Append(q, o)
           n == Len(q)
<1>1. /\ b \in Seq(S) /\ Len(b) = BufferSize /\ n \in Nat
      /\ a \in Seq(S) /\ Len(a) = n + 1 /\ a[n + 1] = o
      /\ \A j \in 1 .. n : a[j] = q[j]
  BY BufferSizeAssumption, AppendProperties, LenProperties
<1>2. Pushed(b, a)[i] = (b \o a)[n + 1 + i]
  BY <1>1 DEF Pushed
<1> HIDE DEF a, n
<1>3. PICK k \in Nat : k = n + 1 + i
  BY <1>1
<1>4. k \in 1 .. Len(b) + Len(a)
  BY <1>1, <1>3, BufferSizeAssumption
<1>5. Pushed(b, a)[i] = IF k <= Len(b) THEN b[k] ELSE a[k - Len(b)]
  <2>1. (b \o a)[k] = IF k <= Len(b) THEN b[k] ELSE a[k - Len(b)]
    BY <1>1, <1>4, ConcatProperties
  <2> QED
    BY <1>2, <1>3, <2>1, Zenon
<1>6. CASE i = BufferSize
  <2>1. ~(k <= Len(b)) /\ k - Len(b) = n + 1
    BY <1>1, <1>3, <1>6, BufferSizeAssumption
  <2>2. Pushed(b, a)[i] = a[n + 1]
    BY <1>5, <2>1, Zenon
  <2> QED
    BY <1>1, <1>6, <2>2, Zenon DEF a
<1>7. CASE i # BufferSize
  <2>1. Pushed(b, q)[i + 1] = (b \o q)[k]
    <3>1. i + 1 \in 1 .. BufferSize /\ n + (i + 1) = k
      BY <1>1, <1>3, <1>7, BufferSizeAssumption
    <3> QED
      BY <3>1 DEF Pushed, n
  <2>2. k \in 1 .. Len(b) + Len(q)
    BY <1>1, <1>3, <1>7, BufferSizeAssumption DEF n
  <2>3. (b \o q)[k] = IF k <= Len(b) THEN b[k] ELSE q[k - Len(b)]
    BY <1>1, <2>2, ConcatProperties
  <2>4. CASE k <= Len(b)
    BY <1>5, <1>7, <2>1, <2>3, <2>4, Zenon DEF a
  <2>5. CASE ~(k <= Len(b))
    <3>1. k - Len(b) \in 1 .. n
      BY <1>1, <1>3, <2>2, <2>5, BufferSizeAssumption DEF n
    <3>2. a[k - Len(b)] = q[k - Len(b)]
      BY <1>1, <3>1, Zenon
    <3> QED
      BY <1>5, <1>7, <2>1, <2>3, <2>5, <3>2, Zenon DEF a
  <2> QED
    BY <2>4, <2>5
<1> QED
  BY <1>6, <1>7 DEF a

-----------------------------------------------------------------------------
(* What composes the two modules.  FillTensor pushes the queue and the new *)
(* observation into the history in one step; the code adds them to the     *)
(* ring one by one.                                                        *)

\* A history variable: the observations since construction or Reset.
VARIABLE added

AddedInit == BufferInit /\ added = <<>>

AddedNext ==
  \/ Reset /\ added' = <<>>
  \/ \E o \in Observations : AddObservation(o) /\ added' = Append(added, o)

AddedSpec == AddedInit /\ [][AddedNext]_<<bufferVars, added>>

ShowsAdded ==
  /\ added \in Seq(Observations)
  /\ GetObsHistory = Pushed(Window!ZeroWindow, added)

\* The window of zeros is a window, and nothing pushed into it leaves it.
LEMMA NothingPushed ==
  /\ Window!ZeroWindow \in [1 .. BufferSize -> Observations]
  /\ <<>> \in Seq(Observations)
  /\ Pushed(Window!ZeroWindow, <<>>) = Window!ZeroWindow
<1> DEFINE b == Window!ZeroWindow
<1>1. b \in [1 .. BufferSize -> Observations]
  BY ZeroAssumption DEF Window!ZeroWindow
<1>2. <<>> \in Seq(Observations) /\ Len(<<>>) = 0
  BY EmptySeq
<1> HIDE DEF b
<1>3. Pushed(b, <<>>) = b
  <2>1. b \in Seq(Observations) /\ Len(b) = BufferSize
    BY <1>1, BufferSizeAssumption
  <2>2. b \o <<>> = b
    BY <2>1, ConcatEmptySeq
  <2> QED
    BY <1>1, <1>2, <2>2 DEF Pushed
<1> QED
  BY <1>1, <1>2, <1>3 DEF b

\* When the ring shows the history b after the observations q, adding o makes
\* it show b after q and o.
LEMMA AddsOneMore ==
  ASSUME BufferInv,
         NEW b \in [1 .. BufferSize -> Observations], NEW q \in Seq(Observations),
         GetObsHistory = Pushed(b, q),
         NEW o \in Observations, AddObservation(o)
  PROVE  GetObsHistory' = Pushed(b, Append(q, o))
<1>1. GetObsHistory' =
        [i \in 1 .. BufferSize |-> IF i = BufferSize THEN o ELSE GetObsHistory[i + 1]]
  BY AddSlides DEF Window!Push
<1>2. \A i \in 1 .. BufferSize :
        Pushed(b, Append(q, o))[i] = IF i = BufferSize THEN o ELSE Pushed(b, q)[i + 1]
  BY PushedOneMore
<1> QED
  BY <1>1, <1>2 DEF Pushed

(* However many observations are added to the ring one by one, it shows    *)
(* what pushing all of them at once leaves.                                *)
THEOREM DrainsOneByOne == AddedSpec => []ShowsAdded
<1>1. AddedInit => BufferInv /\ ShowsAdded
  <2> SUFFICES ASSUME AddedInit PROVE BufferInv /\ ShowsAdded
    OBVIOUS
  <2>1. GetObsHistory = Window!ZeroWindow
    BY ClearedHistory DEF AddedInit, BufferInit
  <2> QED
    BY <2>1, InitBufferInv, NothingPushed DEF AddedInit, ShowsAdded
<1>2. BufferInv /\ ShowsAdded /\ [AddedNext]_<<bufferVars, added>> => (BufferInv /\ ShowsAdded)'
  <2> SUFFICES ASSUME BufferInv, ShowsAdded, [AddedNext]_<<bufferVars, added>>
               PROVE  BufferInv' /\ ShowsAdded'
    OBVIOUS
  <2>1. BufferInv'
    BY StepBufferInv DEF AddedNext, BufferNext
  <2>2. CASE Reset /\ added' = <<>>
    <3>1. GetObsHistory' = Window!ZeroWindow
      BY <2>2, ClearedHistoryNext DEF Reset
    <3> QED
      BY <2>1, <2>2, <3>1, NothingPushed DEF ShowsAdded
  <2>3. ASSUME NEW o \in Observations, AddObservation(o), added' = Append(added, o)
        PROVE  ShowsAdded'
    <3>1. added \in Seq(Observations) /\ added' \in Seq(Observations)
      BY <2>3, AppendProperties DEF ShowsAdded
    <3>2. GetObsHistory' = Pushed(Window!ZeroWindow, Append(added, o))
      BY <2>3, <3>1, NothingPushed, AddsOneMore DEF ShowsAdded
    <3> QED
      BY <2>3, <3>1, <3>2 DEF ShowsAdded
  <2>4. CASE UNCHANGED <<bufferVars, added>>
    <3>1. GetObsHistory' = GetObsHistory /\ added' = added
      BY <2>4 DEF bufferVars, GetObsHistory, FirstOfHistory
    <3> QED
      BY <2>1, <3>1 DEF ShowsAdded
  <2> QED
    BY <2>1, <2>2, <2>3, <2>4 DEF AddedNext
<1> QED
  BY <1>1, <1>2, PTL DEF AddedSpec

(* And what is pushed at once may be pushed in parts: a queue that is      *)
(* drained into a ring that shows q leaves what FillTensor says.           *)
THEOREM PushedInParts ==
  ASSUME NEW S, NEW b \in [1 .. BufferSize -> S], NEW q \in Seq(S), NEW r \in Seq(S)
  PROVE  Pushed(Pushed(b, q), r) = Pushed(b, q \o r)
<1> DEFINE p == Pushed(b, q)
<1>1. /\ b \in Seq(S) /\ Len(b) = BufferSize
      /\ b \o q \in Seq(S) /\ Len(b \o q) = BufferSize + Len(q)
      /\ Len(q) \in Nat /\ Len(r) \in Nat
      /\ Len(q \o r) = Len(q) + Len(r)
  <2>1. b \in Seq(S) /\ Len(b) = BufferSize
    BY BufferSizeAssumption
  <2> QED
    BY <2>1, ConcatProperties, LenProperties
<1>2. p \in [1 .. BufferSize -> S]
  <2>1. ASSUME NEW i \in 1 .. BufferSize PROVE (b \o q)[Len(q) + i] \in S
    <3>1. Len(q) + i \in 1 .. Len(b \o q)
      BY <1>1, BufferSizeAssumption
    <3> QED
      BY <1>1, <3>1, ElementOfSeq
  <2> QED
    BY <2>1 DEF Pushed
<1>3. p \in Seq(S) /\ Len(p) = BufferSize
  BY <1>2, BufferSizeAssumption
<1>4. \A i \in 1 .. BufferSize : p[i] = (b \o q)[Len(q) + i]
  BY DEF Pushed
<1> HIDE DEF p
<1>5. (b \o q) \o r = b \o (q \o r)
  <2>1. b \in Seq(S)
    BY <1>1
  <2>2. ASSUME NEW s \in Seq(S) PROVE (s \o q) \o r = s \o (q \o r)
    BY ConcatAssociative, SMTT(30)
  <2> QED
    BY <2>1, <2>2
<1>6. ASSUME NEW i \in 1 .. BufferSize
      PROVE  (p \o r)[Len(r) + i] = ((b \o q) \o r)[Len(q) + Len(r) + i]
  <2>1. PICK k \in Nat : k = Len(r) + i
    BY <1>1
  <2>2. PICK m \in Nat : m = Len(q) + Len(r) + i
    BY <1>1
  <2>3. k \in 1 .. BufferSize + Len(r) /\ m \in 1 .. Len(b \o q) + Len(r)
    BY <1>1, <2>1, <2>2, BufferSizeAssumption
  <2>4. (p \o r)[k] = IF k <= BufferSize THEN p[k] ELSE r[k - BufferSize]
    BY <1>3, <2>3, ConcatProperties
  <2>5. ((b \o q) \o r)[m] = IF m <= Len(b \o q) THEN (b \o q)[m] ELSE r[m - Len(b \o q)]
    BY <1>1, <2>3, ConcatProperties
  <2>6. /\ k <= BufferSize <=> m <= Len(b \o q)
        /\ m - Len(b \o q) = k - BufferSize
        /\ Len(q) + k = m
    BY <1>1, <2>1, <2>2, BufferSizeAssumption
  <2>7. CASE k <= BufferSize
    <3>1. p[k] = (b \o q)[Len(q) + k]
      <4>1. k \in 1 .. BufferSize
        BY <2>3, <2>7
      <4> QED
        BY <1>4, <4>1, Zenon
    <3> QED
      BY <2>1, <2>2, <2>4, <2>5, <2>6, <2>7, <3>1, Zenon
  <2>8. CASE ~(k <= BufferSize)
    BY <2>1, <2>2, <2>4, <2>5, <2>6, <2>8, Zenon
  <2> QED
    BY <2>7, <2>8
<1> QED
  BY <1>1, <1>5, <1>6 DEF Pushed, p

=============================================================================
