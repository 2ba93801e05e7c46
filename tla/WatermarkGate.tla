---------------------------- MODULE WatermarkGate ----------------------------
(***************************************************************************)
(* What flow control promises of a stream: a gate with hysteresis.  It     *)
(* lets sends pass while it is open, shuts when High of them are in        *)
(* flight, and opens again only when no more than Low are left.  Once it   *)
(* is locked nothing enters; what is inside still leaves.                  *)
(***************************************************************************)
EXTENDS Naturals, FiniteSets

CONSTANTS Senders, High, Low

VARIABLES
  inFlight,  \* the senders whose send is in flight
  open,      \* the gate lets the next sender in
  locked     \* it never will again

vars == <<inFlight, open, locked>>

Init ==
  /\ inFlight = {}
  /\ open = TRUE
  /\ locked = FALSE

Enter(s) ==
  /\ open /\ ~locked
  /\ s \notin inFlight
  /\ inFlight' = inFlight \cup {s}
  /\ open' = (Cardinality(inFlight') < High)
  /\ UNCHANGED locked

Leave(s) ==
  /\ s \in inFlight
  /\ inFlight' = inFlight \ {s}
  /\ open' = (open \/ Cardinality(inFlight') <= Low)
  /\ UNCHANGED locked

Lock ==
  /\ ~locked
  /\ locked' = TRUE
  /\ UNCHANGED <<inFlight, open>>

Next ==
  \/ \E s \in Senders : Enter(s) \/ Leave(s)
  \/ Lock

Spec == Init /\ [][Next]_vars
=============================================================================
