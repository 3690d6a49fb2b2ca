---------------------------- MODULE MailboxProofs ----------------------------
(***************************************************************************)
(* Proofs about DdsMailbox: types, the flag, and the latest-message slot,  *)
(* for both kinds of client and any number of messages and callbacks.      *)
(***************************************************************************)
EXTENDS DdsMailbox, TLAPS

\* A sample waiting in the cache is newer than anything taken before.
CacheIsAhead == cache > 0 => cache > taken

\* The slot is empty or holds the last message taken, and is empty while
\* the listener is at work; nothing was handed out that was not taken.
SlotIsTaken ==
  /\ msg_ \in {Blank, taken}
  /\ listener = "taking" => msg_ = Blank
  /\ handed <= taken

IInv == TypeOK /\ CacheIsAhead /\ SlotIsTaken /\ FlagIsRight

-----------------------------------------------------------------------------
\* The invariant holds initially.
LEMMA InitInv == Init => IInv
<1> SUFFICES ASSUME Init PROVE IInv
  OBVIOUS
<1>1. TypeOK
  <2>1. due \in 0..MaxDue
    BY BoundsAssumption DEF Init
  <2>2. writer \in BOOLEAN /\ data_flag_ \in BOOLEAN
    BY DEF Init
  <2> QED
    BY <2>1, <2>2 DEF Init, TypeOK, Blank, Nothing
<1>2. CacheIsAhead /\ SlotIsTaken
  BY DEF Init, CacheIsAhead, SlotIsTaken, Blank, Nothing
<1>3. FlagIsRight
  BY DEF Init, FlagIsRight
<1> QED
  BY <1>1, <1>2, <1>3 DEF IInv

\* What a sample that enters the cache does to the invariant.
LEMMA CachedInv ==
  ASSUME IInv, NEW s \in {NoData} \cup {sent'}, Cached(s),
         sent' \in {sent, sent + 1}, s = NoData \/ sent' = sent + 1,
         writer' \in BOOLEAN,
         UNCHANGED <<msg_, data_flag_, taken, listener, client, handed>>
  PROVE  IInv'
  BY BoundsAssumption DEF IInv, TypeOK, CacheIsAhead, SlotIsTaken, FlagIsRight,
     Cached, Blank, Nothing, NoData

\* Every reachable state satisfies the invariant.
LEMMA Invariance == Spec => []IInv
<1>1. Init => IInv
  BY InitInv
<1>2. IInv /\ [Next]_vars => IInv'
  <2> SUFFICES ASSUME IInv, [Next]_vars PROVE IInv'
    OBVIOUS
  <2>1. CASE Publish
    <3>1. CASE Cached(sent')
      BY <2>1, <3>1, CachedInv DEF Publish, IInv, TypeOK
    <3>2. CASE UNCHANGED <<cache, due>>
      BY <2>1, <3>2 DEF Publish, IInv, TypeOK, CacheIsAhead, SlotIsTaken,
         FlagIsRight, Blank, Nothing, NoData
    <3> QED
      BY <2>1, <3>1, <3>2 DEF Publish
  <2>2. CASE WriterLost
    BY <2>2, CachedInv DEF WriterLost, IInv, TypeOK
  <2>3. CASE WriterMatched
    BY <2>3 DEF WriterMatched, IInv, TypeOK, CacheIsAhead, SlotIsTaken, FlagIsRight
  <2>4. CASE OnDataAvailable
    BY <2>4, BoundsAssumption DEF OnDataAvailable, IInv, TypeOK, CacheIsAhead,
       SlotIsTaken, FlagIsRight, Blank
  <2>5. CASE TakeNextSample
    <3>1. CASE cache \in {Nothing, NoData}
      <4>1. /\ UNCHANGED <<msg_, taken, data_flag_>>
            /\ cache' = Nothing
            /\ UNCHANGED <<sent, writer, due, client, handed>>
            /\ listener = "taking" /\ listener' = "idle"
        BY <2>5, <3>1 DEF TakeNextSample, Nothing, NoData
      <4> QED
        BY <4>1 DEF IInv, TypeOK, CacheIsAhead, SlotIsTaken, FlagIsRight, Nothing
    <3>2. CASE cache > 0
      <4>1. /\ msg_' = cache /\ taken' = cache
            /\ cache' = Nothing
            /\ UNCHANGED <<sent, writer, due, client, handed>>
            /\ listener' = "idle"
        BY <2>5, <3>2 DEF TakeNextSample, Nothing, NoData
      <4>2. data_flag_' = TRUE
        BY <2>5, <3>2 DEF TakeNextSample, Nothing, NoData
      <4>3. cache \in 1..sent /\ cache > taken /\ handed <= taken
        BY <3>2 DEF IInv, TypeOK, CacheIsAhead, SlotIsTaken, Nothing, NoData
      <4>4. TypeOK'
        BY <4>1, <4>2, <4>3 DEF IInv, TypeOK
      <4>5. CacheIsAhead' /\ SlotIsTaken'
        BY <4>1, <4>3 DEF IInv, TypeOK, CacheIsAhead, SlotIsTaken, Nothing
      <4>6. FlagIsRight'
        BY <4>1, <4>2, <4>3 DEF IInv, TypeOK, FlagIsRight
      <4> QED
        BY <4>4, <4>5, <4>6 DEF IInv
    <3> QED
      BY <3>1, <3>2 DEF IInv, TypeOK
  <2>6. CASE MessageAvailable
    BY <2>6 DEF MessageAvailable, IInv, TypeOK, CacheIsAhead, SlotIsTaken, FlagIsRight
  <2>7. CASE GetMessage
    <3>1. TypeOK'
      BY <2>7, PollsAssumption DEF GetMessage, IInv, TypeOK, Blank
    <3>2. CacheIsAhead' /\ SlotIsTaken'
      BY <2>7 DEF GetMessage, IInv, TypeOK, CacheIsAhead, SlotIsTaken, Blank
    <3>3. FlagIsRight'
      BY <2>7 DEF GetMessage, IInv, TypeOK, FlagIsRight, Blank
    <3> QED
      BY <3>1, <3>2, <3>3 DEF IInv
  <2>8. CASE UNCHANGED vars
    BY <2>8 DEF vars, IInv, TypeOK, CacheIsAhead, SlotIsTaken, FlagIsRight
  <2> QED
    BY <2>1, <2>2, <2>3, <2>4, <2>5, <2>6, <2>7, <2>8 DEF Next, Listener, Client
<1> QED
  BY <1>1, <1>2, PTL DEF Spec

(* Types, for every number of messages and of callbacks in flight. *)
THEOREM TypeCorrect == Spec => []TypeOK
  BY Invariance, PTL DEF IInv

(* data_flag_ is up exactly when the message in the slot is unread. *)
THEOREM FlagTellsUnread == Spec => []FlagIsRight
  BY Invariance, PTL DEF IInv

(* The subscriber implements the latest-message slot: what its client sees *)
(* arrives in the order of publication, each message announced once.       *)
THEOREM ImplementsSlot == Spec => MailboxSpec
<1>1. Init => Slot!SlotInit
  BY DEF Init, Slot!SlotInit, Blank
<1>2. IInv /\ [Next]_vars => [Slot!SlotNext]_(Slot!slotVars)
  <2> SUFFICES ASSUME IInv, [Next]_vars
               PROVE  Slot!SlotNext \/ UNCHANGED Slot!slotVars
    OBVIOUS
  <2>1. CASE Publish \/ WriterLost \/ WriterMatched \/ MessageAvailable \/ UNCHANGED vars
    BY <2>1 DEF Publish, WriterLost, WriterMatched, MessageAvailable, vars, Slot!slotVars
  <2>2. CASE OnDataAvailable
    BY <2>2 DEF OnDataAvailable, Slot!SlotNext, Slot!Empty, Blank
  <2>3. CASE TakeNextSample
    <3>1. CASE cache \in {Nothing, NoData}
      BY <2>3, <3>1 DEF TakeNextSample, Slot!slotVars, Nothing, NoData
    <3>2. CASE cache > 0
      BY <2>3, <3>2 DEF TakeNextSample, IInv, TypeOK, CacheIsAhead,
         Slot!SlotNext, Slot!Arrive, Nothing, NoData
    <3> QED
      BY <3>1, <3>2 DEF IInv, TypeOK
  <2>4. CASE GetMessage
    BY <2>4 DEF GetMessage, Slot!SlotNext, Slot!Hand, Blank
  <2> QED
    BY <2>1, <2>2, <2>3, <2>4 DEF Next, Listener, Client
<1> QED
  BY <1>1, <1>2, Invariance, PTL DEF Spec, MailboxSpec, Slot!SlotSpec

=============================================================================
