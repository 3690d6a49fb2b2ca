------------------------------ MODULE DdsMailbox ------------------------------
(***************************************************************************)
(* One DDS topic of the robot link: DdsPublisher, the best-effort channel, *)
(* and DdsSubscriber with the thread that polls it.  The listener runs on  *)
(* a thread of the DDS library and shares msg_ (under mutex_) and the      *)
(* atomic data_flag_ with the client.  The client is the kernel thread,    *)
(* which waits for the first robot data and then reads the slot every      *)
(* period, or the bridge's DdsCommandThread, which looks at the flag       *)
(* before every read.                                                      *)
(*                                                                         *)
(* Messages are numbered as they are published; a default-constructed      *)
(* message is Blank.  The reader's cache holds a message, Nothing, or a    *)
(* sample without valid data (its writer went away), NoData.               *)
(***************************************************************************)
EXTENDS Integers

CONSTANTS
  Polls,     \* the client looks at the flag before every read
  MaxSent,   \* bound on the messages published
  MaxDue     \* bound on the callbacks the library has not yet made

ASSUME PollsAssumption == Polls \in BOOLEAN
ASSUME BoundsAssumption == MaxSent \in Nat /\ MaxDue \in Nat \ {0}

Blank == 0
Nothing == 0
NoData == -1

VARIABLES
  sent,        \* messages published so far
  writer,      \* a writer is matched
  cache,       \* the reader's cache, KEEP_LAST with depth 1
  due,         \* samples that arrived without their callback made yet
  msg_, data_flag_,
  taken,       \* the last message a take has returned
  listener,    \* where the listener is: idle, or holding mutex_
  client,      \* where the client is: poll or get
  handed       \* the last message GetMessage has returned, blanks aside

vars == <<sent, writer, cache, due, msg_, data_flag_, taken, listener, client,
          handed>>

Init ==
  /\ sent = 0
  /\ writer = TRUE
  /\ cache = Nothing
  /\ due = 0
  /\ msg_ = Blank
  /\ data_flag_ = FALSE
  /\ taken = 0
  /\ listener = "idle"
  /\ client = "poll"
  /\ handed = 0

-----------------------------------------------------------------------------
(* The writer's side, and the DDS library.                                 *)

CachedReordered(s) ==
  /\ due < MaxDue
  /\ cache' \in {s, s - 1}
  /\ due' = due + 1

\* A sample replaces the one in the cache, and a callback is due for it.
Cached(s) ==
  /\ due < MaxDue
  /\ cache' = s
  /\ due' = due + 1

\* write() of a best-effort topic: the message arrives or is lost.
Publish ==
  /\ writer
  /\ sent < MaxSent
  /\ sent' = sent + 1
  /\ \/ Cached(sent')
     \/ UNCHANGED <<cache, due>>
  /\ UNCHANGED <<writer, msg_, data_flag_, taken, listener, client, handed>>

\* The writer's process ends: the reader is told by a sample without data.
WriterLost ==
  /\ writer
  /\ Cached(NoData)
  /\ writer' = FALSE
  /\ UNCHANGED <<sent, msg_, data_flag_, taken, listener, client, handed>>

WriterMatched ==
  /\ ~writer
  /\ writer' = TRUE
  /\ UNCHANGED <<sent, cache, due, msg_, data_flag_, taken, listener, client, handed>>

-----------------------------------------------------------------------------
(* SubListener::on_data_available, which holds mutex_ from here to the end *)
(* of the take.                                                            *)

OnDataAvailable ==
  /\ listener = "idle"
  /\ due > 0
  /\ due' = due - 1
  /\ msg_' = Blank
  /\ listener' = "taking"
  /\ UNCHANGED <<sent, writer, cache, data_flag_, taken, client, handed>>

TakeAnnouncingOnce ==
  /\ listener = "taking"
  /\ listener' = "idle"
  /\ \/ /\ cache > 0
        /\ msg_' = cache
        /\ taken' = cache
        /\ data_flag_' = (handed = 0)
     \/ /\ cache \in {Nothing, NoData}
        /\ UNCHANGED <<msg_, taken, data_flag_>>
  /\ cache' = Nothing
  /\ UNCHANGED <<sent, writer, due, client, handed>>

\* Two samples may have met in the cache, so that the second callback finds
\* nothing; and what it finds may have no data.
TakeNextSample ==
  /\ listener = "taking"
  /\ listener' = "idle"
  /\ \/ /\ cache > 0
        /\ msg_' = cache
        /\ taken' = cache
        /\ data_flag_' = TRUE
     \/ /\ cache \in {Nothing, NoData}
        /\ UNCHANGED <<msg_, taken, data_flag_>>
  /\ cache' = Nothing
  /\ UNCHANGED <<sent, writer, due, client, handed>>

-----------------------------------------------------------------------------
(* The client.                                                             *)

\* MessageAvailable, polled until it says yes: without the mutex.
MessageAvailable ==
  /\ client = "poll"
  /\ data_flag_
  /\ client' = "get"
  /\ UNCHANGED <<sent, writer, cache, due, msg_, data_flag_, taken, listener, handed>>

\* GetMessage, under the mutex.
GetMessage ==
  /\ client = "get"
  /\ listener = "idle"
  /\ data_flag_' = FALSE
  /\ handed' = IF msg_ = Blank THEN handed ELSE msg_
  /\ client' = IF Polls THEN "poll" ELSE "get"
  /\ UNCHANGED <<sent, writer, cache, due, msg_, taken, listener>>

-----------------------------------------------------------------------------
Listener == OnDataAvailable \/ TakeNextSample
Client == MessageAvailable \/ GetMessage

Next == Publish \/ WriterLost \/ WriterMatched \/ Listener \/ Client

Spec == Init /\ [][Next]_vars

\* The library makes the callbacks it owes and the client keeps polling;
\* nobody is obliged to publish.
FairSpec == Spec /\ WF_vars(Listener) /\ WF_vars(Client)

-----------------------------------------------------------------------------
(* Types of the variables. *)
TypeOK ==
  /\ sent \in Nat
  /\ writer \in BOOLEAN
  /\ cache \in {Nothing, NoData} \cup 1..sent
  /\ due \in 0..MaxDue
  /\ msg_ \in 0..sent
  /\ data_flag_ \in BOOLEAN
  /\ taken \in 0..sent
  /\ listener \in {"idle", "taking"}
  /\ client \in {"poll", "get"}
  /\ handed \in 0..sent

(* The flag is right about the message in the slot whenever the mutex is   *)
(* free: announced if and only if nobody has read it.  A flag cleared by a *)
(* reader that the next sample overtakes would leave a message unseen, and *)
(* the bridge would hold back a command for ever.                          *)
FlagIsRight ==
  listener = "idle" /\ msg_ # Blank => (data_flag_ <=> handed < msg_)

(* A message in the slot is read or makes way for a newer one (or for the  *)
(* blank of a take that returned nothing).                                 *)
NothingWaits == \A n \in 1..MaxSent : msg_ = n ~> (handed = n \/ msg_ # n)

(* The subscriber implements the latest-message slot. *)
Slot == INSTANCE LatestMessage WITH
          current <- msg_,
          fresh   <- data_flag_,
          newest  <- taken
MailboxSpec == Slot!SlotSpec

=============================================================================
