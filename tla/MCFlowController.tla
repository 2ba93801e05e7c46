------------------------- MODULE MCFlowController -------------------------
(***************************************************************************)
(* Instances of FlowController for TLC.                                    *)
(***************************************************************************)
EXTENDS FlowController, TLC

CONSTANTS s1, s2, s3, s4, s5, k1, k2

FiveSenders == {s1, s2, s3, s4, s5}
ThreeSenders == {s1, s2, s3}
TwoControllers == {k1, k2}

\* Senders and controllers are interchangeable.
Symmetry == Permutations(Senders) \cup Permutations(Controllers)
=============================================================================
