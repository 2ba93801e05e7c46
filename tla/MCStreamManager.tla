-------------------------- MODULE MCStreamManager --------------------------
(***************************************************************************)
(* Instances of StreamManager for TLC.                                     *)
(***************************************************************************)
EXTENDS StreamManager, TLC

CONSTANTS c1, c2, s1, s2, s3, data

OneCaller == {c1}
TwoCallers == {c1, c2}
TwoStreams == {s1, s2}
ThreeStreams == {s1, s2, s3}
OneName == {data}

\* Callers, and stream objects, are interchangeable.
Symmetry == Permutations(Callers) \cup Permutations(Streams)
=============================================================================
