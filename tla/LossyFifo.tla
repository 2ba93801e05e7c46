------------------------------ MODULE LossyFifo ------------------------------
(***************************************************************************)
(* What the message path promises: each stream is a queue that may lose    *)
(* messages and does nothing else to them.  The messages of a stream are   *)
(* the numbers 1, 2, 3, ... in the order in which the peer sent them.      *)
(***************************************************************************)
EXTENDS Naturals

CONSTANT Streams

VARIABLES
  sent,       \* messages sent on each stream
  inTransit,  \* the messages of each stream neither lost nor delivered
  last        \* the last message of each stream that was delivered, 0 for none

vars == <<sent, inTransit, last>>

Init ==
  /\ sent = [s \in Streams |-> 0]
  /\ inTransit = [s \in Streams |-> {}]
  /\ last = [s \in Streams |-> 0]

Send(s) ==
  /\ sent' = [sent EXCEPT ![s] = @ + 1]
  /\ inTransit' = [inTransit EXCEPT ![s] = @ \cup {sent[s] + 1}]
  /\ UNCHANGED last

Lose(s, n) ==
  /\ n \in inTransit[s]
  /\ inTransit' = [inTransit EXCEPT ![s] = @ \ {n}]
  /\ UNCHANGED <<sent, last>>

\* The oldest message in transit, newer than all that were delivered.
Deliver(s, n) ==
  /\ n \in inTransit[s]
  /\ n > last[s]
  /\ \A m \in inTransit[s] : n <= m
  /\ inTransit' = [inTransit EXCEPT ![s] = @ \ {n}]
  /\ last' = [last EXCEPT ![s] = n]
  /\ UNCHANGED sent

Next ==
  \E s \in Streams :
    \/ Send(s)
    \/ \E n \in inTransit[s] : Lose(s, n) \/ Deliver(s, n)

Spec == Init /\ [][Next]_vars
=============================================================================
