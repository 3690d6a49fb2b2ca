------------------------- MODULE ObservationHistory -------------------------
(***************************************************************************)
(* What the observation-history policies have in common: the number of     *)
(* observations their network sees at once, and what becomes of those when *)
(* more are added, one after the other.                                    *)
(***************************************************************************)
EXTENDS Integers, Sequences

CONSTANT BufferSize   \* obs_buffer_size_: observations in one input window

ASSUME BufferSizeAssumption == BufferSize \in Nat \ {0}

\* The window b, oldest first, after the observations of q are added to it.
Pushed(b, q) == [i \in 1 .. BufferSize |-> (b \o q)[Len(q) + i]]

=============================================================================
