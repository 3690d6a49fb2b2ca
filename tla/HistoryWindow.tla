--------------------------- MODULE HistoryWindow ---------------------------
(***************************************************************************)
(* What HistoryBuffer promises the policies: the last BufferSize           *)
(* observations, oldest first, the missing ones of a young buffer being    *)
(* zero observations.                                                      *)
(***************************************************************************)
EXTENDS Naturals

CONSTANTS
  Observations,   \* the observations the robot can make
  Zero,           \* the observation of all zeros
  BufferSize      \* buffer_size_

VARIABLE window

ZeroWindow == [i \in 1 .. BufferSize |-> Zero]

WindowInit == window = ZeroWindow

\* The oldest observation leaves, o becomes the newest.
Push(o) ==
  window' = [i \in 1 .. BufferSize |-> IF i = BufferSize THEN o ELSE window[i + 1]]

Clear == window' = ZeroWindow

WindowNext == Clear \/ \E o \in Observations : Push(o)

WindowSpec == WindowInit /\ [][WindowNext]_window

=============================================================================
