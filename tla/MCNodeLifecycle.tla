--------------------------- MODULE MCNodeLifecycle ---------------------------
(***************************************************************************)
(* NodeLifecycle with the configurations that make a difference: nothing   *)
(* set, one watermark set below the other's default, watermarks of one,    *)
(* a first delay above the default maximum, and what Validate refuses.     *)
(***************************************************************************)
EXTENDS NodeLifecycle

CONSTANTS c1, c2

Unset == [key |-> "app", given |-> TRUE, n |-> [f \in Numbers |-> 0]]
MCConfigs ==
  {Unset,
   [Unset EXCEPT !.n["HighWatermark"] = 50, !.n["ConnMgrHighWatermark"] = 3],
   [Unset EXCEPT !.n["HighWatermark"] = 1, !.n["ConnMgrHighWatermark"] = 1],
   [Unset EXCEPT !.n["HighWatermark"] = 500, !.n["LowWatermark"] = 200],
   [Unset EXCEPT !.n["LowWatermark"] = 2000],
   [Unset EXCEPT !.n["ReconnectBaseDelay"] = 600],
   [Unset EXCEPT !.n["ReconnectBaseDelay"] = 3, !.n["ReconnectMaxDelay"] = 2],
   [Unset EXCEPT !.n["EventBufferSize"] = -1],
   [Unset EXCEPT !.given = FALSE]}
=============================================================================
