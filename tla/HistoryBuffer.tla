--------------------------- MODULE HistoryBuffer ---------------------------
(***************************************************************************)
(* HistoryBuffer (history_buffer.hpp): the observation window of a policy, *)
(* kept so that it is always one contiguous block.  A ring of BufferSize   *)
(* cells is followed by BufferSize - 1 more that mirror its beginning;     *)
(* every observation is written to both, and the block that starts after   *)
(* the newest observation is the window.                                   *)
(***************************************************************************)
EXTENDS ObservationHistory

CONSTANTS Observations, Zero

ASSUME ZeroAssumption == Zero \in Observations

VARIABLES
  data_,           \* the cells, numbered from 0
  current_index_   \* the cell of the newest observation; -1 when new

bufferVars == <<data_, current_index_>>

Cells == 0 .. 2 * BufferSize - 2

BufferInit ==
  /\ data_ = [c \in Cells |-> Zero]
  /\ current_index_ = -1

NextIndex == IF current_index_ + 1 > BufferSize - 1 THEN 0 ELSE current_index_ + 1

Written(i) == IF i # BufferSize - 1 THEN {i, i + BufferSize} ELSE {i}

AddObservation(o) ==
  /\ current_index_' = NextIndex
  /\ data_' = [c \in Cells |-> IF c \in Written(NextIndex) THEN o ELSE data_[c]]

ResetIndexOnly ==
  /\ current_index_' = -1
  /\ UNCHANGED data_

Reset ==
  /\ current_index_' = -1
  /\ data_' = [c \in Cells |-> Zero]

BufferNext == Reset \/ \E o \in Observations : AddObservation(o)

BufferSpec == BufferInit /\ [][BufferNext]_bufferVars

-----------------------------------------------------------------------------
FirstOfHistoryNewest == (current_index_ + BufferSize) % BufferSize

\* Where the window begins.
FirstOfHistory == (current_index_ + 1) % BufferSize

\* GetObsHistory(): BufferSize cells on end, oldest first.
GetObsHistory == [i \in 1 .. BufferSize |-> data_[FirstOfHistory + i - 1]]

\* GetObservation(index): 0 is the newest.
GetObservation(index) == data_[(current_index_ + BufferSize - index) % BufferSize]

-----------------------------------------------------------------------------
(* Types of the variables. *)
BufferTypes ==
  /\ data_ \in [Cells -> Observations]
  /\ current_index_ \in -1 .. BufferSize - 1

(* The mirror is exact, so it does not matter in which half a window lies. *)
MirrorIsExact ==
  \A c \in 0 .. BufferSize - 2 : data_[c + BufferSize] = data_[c]

(* The two ways to read the history agree: GetObservation counts back from *)
(* the end of what GetObsHistory returns.                                  *)
ReadersAgree ==
  \A i \in 0 .. BufferSize - 1 : GetObservation(i) = GetObsHistory[BufferSize - i]

(* The buffer implements the sliding window. *)
Window == INSTANCE HistoryWindow WITH window <- GetObsHistory
WindowSpec == Window!WindowSpec

=============================================================================
