--------------------------- MODULE MCHelloHandshake ---------------------------
(***************************************************************************)
(* HelloHandshake for TLC: two dials and two streams let both nodes        *)
(* initiate, a session follow a failed one, and a message of the first     *)
(* session meet the second.  The names of the chains are interchangeable,  *)
(* so A is on "main"; so are the nodes, so A dials first.                  *)
(***************************************************************************)
EXTENDS HelloHandshake

MCInit == Init /\ chain[A] = "main"
MCSpec == MCInit /\ [][Next]_vars /\ Fairness

ADialsFirst == calls = 0 /\ calls' = 1 => app'[A] = "connect"
=============================================================================
