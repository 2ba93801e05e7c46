--------------------------- MODULE FlowController ---------------------------
(***************************************************************************)
(* internal/flow: backpressure with a high and a low watermark, as         *)
(* Node.SendCtx uses it for one stream name.  Senders find or create the   *)
(* controller, Acquire, send over the stream, and Release.                 *)
(*                                                                         *)
(* unblockCh is always the channel of the current blocking cycle, so a     *)
(* sender that waits on it is "waiting", and closing it makes every        *)
(* waiting sender "woken".                                                 *)
(***************************************************************************)
EXTENDS Integers, FiniteSets

CONSTANTS
    Senders,      \* goroutines in Node.SendCtx
    Controllers,  \* bound: controllers the node may create for the stream
    None,         \* nil
    ConfigHigh,   \* Config.HighWatermark
    ConfigLow,    \* Config.LowWatermark
    Ops           \* "close" when somebody calls Controller.Close

ASSUME FlowAssumption ==
    /\ IsFiniteSet(Senders)
    /\ ConfigHigh \in Int /\ ConfigLow \in Int
    /\ None \notin Controllers

\* NewController: the watermarks in force.
HighWatermark == IF ConfigHigh <= 0 THEN 1000 ELSE ConfigHigh
RequestedLow == IF ConfigLow <= 0 THEN 100 ELSE ConfigLow
TenthOfHigh == IF HighWatermark \div 10 > 1 THEN HighWatermark \div 10 ELSE 1
LowWatermark == IF RequestedLow >= HighWatermark THEN TenthOfHigh
                                                 ELSE RequestedLow

VARIABLES
    registry,     \* flowControllers[streamName]
    pending,      \* Controller.pending
    blocked,      \* the controllers that are blocked
    closed,       \* the controllers that are closed
    pc,           \* where each sender is
    fc,           \* the controller each sender found
    panicked      \* the process died on a closed channel

vars == <<registry, pending, blocked, closed, pc, fc, panicked>>

PCs == {"idle", "create", "acquire", "waiting", "woken", "sending"}

TypeOK ==
    /\ registry \in Controllers \cup {None}
    /\ pending \in [Controllers -> 0..HighWatermark]
    /\ blocked \in SUBSET Controllers
    /\ closed \in SUBSET Controllers
    /\ pc \in [Senders -> PCs]
    /\ fc \in [Senders -> Controllers \cup {None}]
    /\ panicked \in BOOLEAN

Init ==
    /\ registry = None
    /\ pending = [k \in Controllers |-> 0]
    /\ blocked = {}
    /\ closed = {}
    /\ pc = [s \in Senders |-> "idle"]
    /\ fc = [s \in Senders |-> None]
    /\ panicked = FALSE

Goto(s, p) == pc' = [pc EXCEPT ![s] = p]

\* getOrCreateFlowController: the fast path, under the read lock.
LookUp(s) ==
    /\ ~panicked
    /\ pc[s] = "idle"
    /\ fc' = [fc EXCEPT ![s] = registry]
    /\ Goto(s, IF registry = None THEN "create" ELSE "acquire")
    /\ UNCHANGED <<registry, pending, blocked, closed, panicked>>

\* Mutant: no second look under the write lock.
CreatesUnchecked(s) ==
    /\ ~panicked
    /\ pc[s] = "create"
    /\ \E k \in Controllers :
          /\ k # registry
          /\ registry' = k
          /\ fc' = [fc EXCEPT ![s] = k]
    /\ Goto(s, "acquire")
    /\ UNCHANGED <<pending, blocked, closed, panicked>>

\* The slow path, under the write lock.
Create(s) ==
    /\ ~panicked
    /\ pc[s] = "create"
    /\ \E k \in Controllers :
          /\ registry # None => k = registry
          /\ registry' = k
          /\ fc' = [fc EXCEPT ![s] = k]
    /\ Goto(s, "acquire")
    /\ UNCHANGED <<pending, blocked, closed, panicked>>

\* Mutant: the watermark is checked before the message is counted.
AcquireOffByOne(s) ==
    /\ ~panicked
    /\ pc[s] \in {"acquire", "woken"}
    /\ LET k == fc[s] IN
       \/ /\ k \in closed
          /\ Goto(s, "idle")
          /\ UNCHANGED <<pending, blocked>>
       \/ /\ k \notin closed \cup blocked
          /\ pending' = [pending EXCEPT ![k] = @ + 1]
          /\ blocked' = IF pending[k] >= HighWatermark THEN blocked \cup {k}
                                                       ELSE blocked
          /\ Goto(s, "sending")
       \/ /\ k \in blocked \ closed
          /\ Goto(s, "waiting")
          /\ UNCHANGED <<pending, blocked>>
    /\ UNCHANGED <<registry, closed, fc, panicked>>

\* One round of Acquire: fail on a closed controller, take a place and block
\* the next one at the high watermark, or wait without taking a place.
Acquire(s) ==
    /\ ~panicked
    /\ pc[s] \in {"acquire", "woken"}
    /\ LET k == fc[s] IN
       \/ /\ k \in closed
          /\ Goto(s, "idle")
          /\ UNCHANGED <<pending, blocked>>
       \/ /\ k \notin closed \cup blocked
          /\ pending' = [pending EXCEPT ![k] = @ + 1]
          /\ blocked' = IF pending[k] + 1 >= HighWatermark
                        THEN blocked \cup {k} ELSE blocked
          /\ Goto(s, "sending")
       \/ /\ k \in blocked \ closed
          /\ Goto(s, "waiting")
          /\ UNCHANGED <<pending, blocked>>
    /\ UNCHANGED <<registry, closed, fc, panicked>>

\* The context ends first; a woken sender may take either branch.
Cancel(s) ==
    /\ ~panicked
    /\ pc[s] \in {"waiting", "woken"}
    /\ Goto(s, "idle")
    /\ UNCHANGED <<registry, pending, blocked, closed, fc, panicked>>

\* Mutant: one waiting sender is woken, not all of them.
WakeOne(k, p) ==
    LET ws == {u \in Senders : p[u] = "waiting" /\ fc[u] = k}
    IN  IF ws = {} THEN p ELSE [p EXCEPT ![CHOOSE u \in ws : TRUE] = "woken"]

\* close(unblockCh): every sender that waits on the channel is woken.
Wake(k, p) == [u \in Senders |-> IF p[u] = "waiting" /\ fc[u] = k
                                 THEN "woken" ELSE p[u]]

\* Mutant: unblocked as soon as there is room for one more.
ReleaseWithoutHysteresis(s) ==
    /\ ~panicked
    /\ pc[s] = "sending"
    /\ LET k == fc[s]
           n == IF pending[k] > 0 THEN pending[k] - 1 ELSE 0
           p == [pc EXCEPT ![s] = "idle"]
       IN  /\ pending' = [pending EXCEPT ![k] = n]
           /\ IF k \in blocked /\ n < HighWatermark
              THEN /\ blocked' = blocked \ {k}
                   /\ pc' = Wake(k, p)
                   /\ panicked' = (k \in closed)
              ELSE pc' = p /\ UNCHANGED <<blocked, panicked>>
    /\ UNCHANGED <<registry, closed, fc>>

\* The send ended, well or not, and the deferred Release runs.  The channel
\* of a closed controller is closed already: closing it again panics.
Release(s) ==
    /\ ~panicked
    /\ pc[s] = "sending"
    /\ LET k == fc[s]
           n == IF pending[k] > 0 THEN pending[k] - 1 ELSE 0
           p == [pc EXCEPT ![s] = "idle"]
       IN  /\ pending' = [pending EXCEPT ![k] = n]
           /\ IF k \in blocked /\ n <= LowWatermark
              THEN /\ blocked' = blocked \ {k}
                   /\ pc' = Wake(k, p)
                   /\ panicked' = (k \in closed)
              ELSE pc' = p /\ UNCHANGED <<blocked, panicked>>
    /\ UNCHANGED <<registry, closed, fc>>

\* Controller.Close.
Close(k) ==
    /\ ~panicked
    /\ "close" \in Ops
    /\ k = registry /\ k \notin closed
    /\ closed' = closed \cup {k}
    /\ pc' = Wake(k, pc)
    /\ UNCHANGED <<registry, pending, blocked, fc, panicked>>

SenderStep(s) == Create(s) \/ Acquire(s) \/ Release(s)

Next ==
    \/ \E s \in Senders : LookUp(s) \/ SenderStep(s) \/ Cancel(s)
    \/ \E k \in Controllers : Close(k)

Spec == Init /\ [][Next]_vars

\* Goroutines are scheduled and a send over a stream returns; nobody has to
\* start a send or give up waiting.
FairSpec == Spec /\ \A s \in Senders : WF_vars(SenderStep(s))

-----------------------------------------------------------------------------
(* Properties.                                                             *)

Holders(k) == {s \in Senders : pc[s] = "sending" /\ fc[s] = k}
InFlight == {s \in Senders : pc[s] = "sending"}

\* No more sends of the stream are in flight than the high watermark says,
\* across blocking cycles, cancelled waits and the race to create the
\* controller.
InFlightBounded == Cardinality(InFlight) <= HighWatermark

\* A blocked controller is going to be unblocked: the sends that its Release
\* calls will come from are in flight.
BlockedHasHolder == \A k \in blocked : Holders(k) # {}

\* No lost wake-up: a sender waits only on a controller that is blocked now.
\* (One that waited on the channel of an earlier cycle would sleep for ever.)
WaitingIsBlocked ==
    \A s \in Senders : pc[s] = "waiting" => fc[s] \in blocked \ closed

\* "All methods are safe for concurrent use": no interleaving of Acquire,
\* Release and Close panics.
NoPanic == ~panicked

\* The stream is a gate with hysteresis, whoever creates the controller, waits,
\* gives up or closes it: each Acquire that returns nil is one entry through an
\* open gate, each Release one way out, and the gate opens and shuts at the
\* watermarks and nowhere else.
Gate == INSTANCE WatermarkGate WITH
            High <- HighWatermark,
            Low <- LowWatermark,
            inFlight <- InFlight,
            open <- registry \notin blocked,
            locked <- registry \in closed
ImplementsGate == Gate!Spec

\* Every blocked sender is eventually woken.
WaitersWake == \A s \in Senders : pc[s] = "waiting" ~> pc[s] # "waiting"

\* pending counts the sends in flight, and a controller that is not blocked
\* has room; blocking leaves at least one send to come back.
PendingInv ==
    \A k \in Controllers :
        /\ pending[k] = Cardinality(Holders(k))
        /\ k \in blocked => pending[k] >= 1
        /\ k \notin blocked => pending[k] < HighWatermark

\* A sender past the lookup uses the one controller ever registered.
RegistryInv ==
    \A s \in Senders : pc[s] \in {"acquire", "waiting", "woken", "sending"} =>
                           fc[s] = registry /\ registry # None

\* The inductive invariant behind the three guarantees.
FlowInv == PendingInv /\ RegistryInv /\ WaitingIsBlocked

\* The state is in its type, pending counts the senders that hold the
\* controller, and all senders of the stream use the registered controller.
FlowSafety == TypeOK /\ FlowInv
=============================================================================
