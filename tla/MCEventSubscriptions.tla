----------------------- MODULE MCEventSubscriptions -----------------------
(***************************************************************************)
(* Instances of EventSubscriptions for TLC.                                *)
(***************************************************************************)
EXTENDS EventSubscriptions, TLC

CONSTANTS a, f

PlainAndFiltered == {a, f}
OnlyFiltered == {f}
=============================================================================
