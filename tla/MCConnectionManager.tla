------------------------ MODULE MCConnectionManager ------------------------
(***************************************************************************)
(* Instances of ConnectionManager for TLC.                                 *)
(***************************************************************************)
EXTENDS ConnectionManager, TLC

CONSTANTS c1, c2, t1, t2, l1, l2

OneCaller == {c1}
TwoCallers == {c1, c2}
OneTimer == {t1}
TwoTimers == {t1, t2}
OneLoop == {l1}
TwoLoops == {l1, l2}

\* Goroutines of a kind are interchangeable.
Symmetry == Permutations(Callers) \cup Permutations(Timers)
            \cup Permutations(Loops)
=============================================================================
