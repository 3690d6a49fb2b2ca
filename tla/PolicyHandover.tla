--------------------------- MODULE PolicyHandover ---------------------------
(***************************************************************************)
(* What the supervisor promises about the joints: at any time one policy   *)
(* at most owns them, and ownership changes hands in one of three ways     *)
(* only: an announced successor takes over, the get-up policy BeyondMimic  *)
(* takes over unannounced, or the robot is halted for good.                *)
(***************************************************************************)
CONSTANTS
  Policies,      \* the policy controllers
  Standing,      \* the policy that runs first
  BeyondMimic,   \* the dance and get-up policy, entered directly
  None,          \* no policy
  Halted         \* the owner after a STOP

VARIABLES
  owner,     \* the policy that drives the joints, None or Halted
  pending    \* the announced successor, or None

handoverVars == <<owner, pending>>

HandoverInit == owner = None /\ pending = None

\* The first policy starts.
Start ==
  /\ owner = None
  /\ owner' = Standing
  /\ UNCHANGED pending

\* A successor is announced; it is never replaced by another one.
Request(p) ==
  /\ owner \in Policies
  /\ pending = None
  /\ p # owner
  /\ pending' = p
  /\ UNCHANGED owner

\* The announced successor takes over.
Commit ==
  /\ pending # None
  /\ owner' = pending
  /\ pending' = None

\* BeyondMimic takes over at once, from any owner, and cancels a successor.
Takeover ==
  /\ owner # Halted
  /\ owner' = BeyondMimic
  /\ pending' = None

Halt ==
  /\ owner' = Halted
  /\ pending' = None

HandoverNext ==
  \/ Start \/ Commit \/ Takeover \/ Halt
  \/ \E p \in Policies \ {BeyondMimic} : Request(p)

HandoverSpec == HandoverInit /\ [][HandoverNext]_handoverVars

=============================================================================
