---------------------------- MODULE LatestMessage ----------------------------
(***************************************************************************)
(* What a DdsSubscriber promises the thread that polls it: a slot that     *)
(* holds the newest message that has arrived, or nothing.  Messages arrive *)
(* in the order they were published, some never do, and the slot may be    *)
(* emptied at any time.  A message is announced when it arrives and is no  *)
(* longer announced once somebody has looked into the slot.                *)
(*                                                                         *)
(* Messages are numbered by their publication; 0 is the empty slot.        *)
(***************************************************************************)
EXTENDS Naturals

VARIABLES
  current,   \* the message in the slot
  fresh,     \* a message has been announced and not yet been looked at
  newest,    \* the last message that arrived
  handed     \* the last message somebody found in the slot

slotVars == <<current, fresh, newest, handed>>

SlotInit == current = 0 /\ fresh = FALSE /\ newest = 0 /\ handed = 0

Arrive ==
  /\ newest' \in Nat
  /\ newest' > newest
  /\ current' = newest'
  /\ fresh' = TRUE
  /\ UNCHANGED handed

Empty ==
  /\ current' = 0
  /\ UNCHANGED <<fresh, newest, handed>>

Hand ==
  /\ handed' = IF current = 0 THEN handed ELSE current
  /\ fresh' = FALSE
  /\ UNCHANGED <<current, newest>>

SlotNext == Arrive \/ Empty \/ Hand

SlotSpec == SlotInit /\ [][SlotNext]_slotVars

=============================================================================
