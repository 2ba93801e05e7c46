--------------------------- MODULE MCAddressBook ---------------------------
(***************************************************************************)
(* Instances of AddressBook for TLC.                                       *)
(***************************************************************************)
EXTENDS AddressBook, TLC

CONSTANTS b1, b2, q1, q2

OneBook == {b1}
TwoBooks == {b1, b2}
OnePeer == {q1}
TwoPeers == {q1, q2}

\* Books on the path, and peers, are interchangeable.
Symmetry == Permutations(Books) \cup Permutations(Peers)
=============================================================================
