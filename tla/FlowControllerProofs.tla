------------------------ MODULE FlowControllerProofs ------------------------
(***************************************************************************)
(* The safety of FlowController for any finite set of senders and any      *)
(* configured watermarks, with and without Close.                          *)
(*                                                                         *)
(* FlowInv is inductive together with TypeOK.  The heart of the argument   *)
(* is PendingInv: pending is the number of sends in flight, so the bound   *)
(* on pending bounds them, and a controller that stays blocked after a     *)
(* Release still has more sends in flight than the low watermark, which    *)
(* is at least one whatever was configured.  It also is the refinement     *)
(* mapping to WatermarkGate: what the gate counts, pending counts.         *)
(***************************************************************************)
EXTENDS FlowController, FiniteSetTheorems, TLAPS

\* NewController: whatever is configured, 1 <= low <= high.
LEMMA Watermarks ==
    /\ HighWatermark \in Nat /\ HighWatermark >= 1
    /\ LowWatermark \in Nat /\ LowWatermark >= 1
    /\ LowWatermark <= HighWatermark
<1>1. ConfigHigh \in Int /\ ConfigLow \in Int
  BY FlowAssumption DEF FlowAssumption
<1>2. HighWatermark \in Nat /\ HighWatermark >= 1
  BY <1>1 DEF HighWatermark
<1>3. TenthOfHigh \in Nat /\ TenthOfHigh >= 1 /\ TenthOfHigh <= HighWatermark
  BY <1>2 DEF TenthOfHigh
<1>4. RequestedLow \in Nat /\ RequestedLow >= 1
  BY <1>1 DEF RequestedLow
<1>5. QED
  BY <1>2, <1>3, <1>4 DEF LowWatermark

\* The sends in flight are a finite set, of a natural number of elements.
LEMMA HoldersFinite ==
    ASSUME NEW k
    PROVE  /\ IsFiniteSet(Holders(k))
           /\ Cardinality(Holders(k)) \in Nat
<1>1. Holders(k) \subseteq Senders /\ IsFiniteSet(Senders)
  BY FlowAssumption DEF FlowAssumption, Holders
<1>2. IsFiniteSet(Holders(k))
  BY <1>1, FS_Subset
<1>3. QED
  BY <1>2, FS_CardinalityType

\* A step that moves no sender into or out of "sending" keeps every Holders.
LEMMA HoldersSame ==
    ASSUME NEW k,
           \A s \in Senders : (pc[s] = "sending" /\ fc[s] = k)
                              <=> (pc'[s] = "sending" /\ fc'[s] = k)
    PROVE  Holders(k)' = Holders(k)
BY DEF Holders

\* The initial state satisfies both invariants.
LEMMA FlowInit == ASSUME Init PROVE TypeOK /\ FlowInv
<1>1. pending \in [Controllers -> 0..HighWatermark]
  BY Watermarks DEF Init
<1>2. pc \in [Senders -> PCs] /\ fc \in [Senders -> Controllers \cup {None}]
  BY DEF Init, PCs
<1>3. TypeOK
  BY <1>1, <1>2 DEF Init, TypeOK
<1>4. ASSUME NEW k \in Controllers PROVE Cardinality(Holders(k)) = 0
  <2>1. Holders(k) = {}
    BY DEF Init, Holders
  <2>2. QED
    BY <2>1, FS_EmptySet
<1>5. QED
  BY <1>3, <1>4, Watermarks
     DEF Init, FlowInv, PendingInv, RegistryInv, WaitingIsBlocked

\* A step that leaves the counters, the flags and the sends in flight alone
\* keeps PendingInv.
LEMMA PendingSame ==
    ASSUME PendingInv, UNCHANGED <<pending, blocked>>,
           \A s \in Senders : (pc[s] = "sending" /\ fc[s] \in Controllers)
                              => pc'[s] = "sending" /\ fc'[s] = fc[s],
           \A s \in Senders : (pc'[s] = "sending" /\ fc'[s] \in Controllers)
                              => pc[s] = "sending" /\ fc'[s] = fc[s]
    PROVE  PendingInv'
<1>1. ASSUME NEW k \in Controllers PROVE Holders(k)' = Holders(k)
  BY HoldersSame
<1>2. QED
  BY <1>1 DEF PendingInv

\* Acquire: the sender that takes a place is counted, once.
LEMMA AcquireStep ==
    ASSUME TypeOK, FlowInv, NEW s \in Senders, Acquire(s)
    PROVE  TypeOK' /\ FlowInv'
<1>1. PICK k \in Controllers : k = fc[s] /\ k = registry /\ k # None
  BY DEF Acquire, TypeOK, FlowInv, RegistryInv
<1>2. CASE k \in closed \/ k \in blocked \ closed
  <2>1. /\ pc' = [pc EXCEPT ![s] = "idle"] \/ pc' = [pc EXCEPT ![s] = "waiting"]
        /\ pc' = [pc EXCEPT ![s] = "waiting"] => k \in blocked \ closed
        /\ UNCHANGED <<registry, pending, blocked, closed, fc, panicked>>
    BY <1>1, <1>2 DEF Acquire, Goto, TypeOK
  <2>2. TypeOK'
    BY <2>1 DEF TypeOK, PCs
  <2>3. PendingInv'
    BY <2>1, PendingSame DEF FlowInv, TypeOK, Acquire
  <2>4. RegistryInv' /\ WaitingIsBlocked'
    BY <1>1, <2>1 DEF FlowInv, RegistryInv, WaitingIsBlocked, TypeOK
  <2>5. QED
    BY <2>2, <2>3, <2>4 DEF FlowInv
<1>3. CASE k \notin closed \cup blocked
  <2>1. /\ pc' = [pc EXCEPT ![s] = "sending"]
        /\ pending' = [pending EXCEPT ![k] = @ + 1]
        /\ blocked' = IF pending[k] + 1 >= HighWatermark
                      THEN blocked \cup {k} ELSE blocked
        /\ UNCHANGED <<registry, closed, fc, panicked>>
    BY <1>1, <1>3 DEF Acquire, Goto
  <2>2. pending[k] \in Nat /\ pending[k] < HighWatermark
    BY <1>1, <1>3, Watermarks DEF TypeOK, FlowInv, PendingInv
  <2>3. pending' \in [Controllers -> 0..HighWatermark]
    BY <1>1, <2>1, <2>2, Watermarks DEF TypeOK
  <2>4. blocked' \in SUBSET Controllers
    BY <1>1, <2>1 DEF TypeOK
  <2>5. TypeOK'
    BY <2>1, <2>3, <2>4 DEF TypeOK, PCs
  <2>6. Cardinality(Holders(k)') = Cardinality(Holders(k)) + 1
    <3>1. s \notin Holders(k)
      BY DEF Holders, Acquire
    <3>2. Holders(k)' = Holders(k) \cup {s}
      BY <1>1, <2>1 DEF Holders, TypeOK
    <3>3. QED
      BY <3>1, <3>2, HoldersFinite, FS_AddElement
  <2>7. ASSUME NEW j \in Controllers, j # k PROVE Holders(j)' = Holders(j)
    BY <1>1, <2>1, <2>7 DEF Holders, TypeOK
  <2>8. PendingInv'
    <3>1. ASSUME NEW j \in Controllers, j # k
          PROVE  /\ pending'[j] = Cardinality(Holders(j)')
                 /\ j \in blocked' => pending'[j] >= 1
                 /\ j \notin blocked' => pending'[j] < HighWatermark
      <4>1. pending'[j] = pending[j] /\ (j \in blocked' <=> j \in blocked)
        BY <1>1, <2>1, <3>1 DEF TypeOK
      <4>2. QED
        BY <4>1, <2>7, <3>1 DEF FlowInv, PendingInv
    <3>2. /\ pending'[k] = Cardinality(Holders(k)')
          /\ k \in blocked' => pending'[k] >= 1
          /\ k \notin blocked' => pending'[k] < HighWatermark
      <4>1. pending'[k] = pending[k] + 1
        BY <1>1, <2>1 DEF TypeOK
      <4>2. pending[k] = Cardinality(Holders(k))
        BY <1>1 DEF FlowInv, PendingInv
      <4>3. k \notin blocked' => pending[k] + 1 < HighWatermark
        BY <2>1, <2>2, Watermarks
      <4>4. QED
        BY <4>1, <4>2, <4>3, <2>2, <2>6
    <3>3. QED
      BY <3>1, <3>2 DEF PendingInv
  <2>9. RegistryInv' /\ WaitingIsBlocked'
    <3>1. RegistryInv'
      BY <1>1, <2>1 DEF FlowInv, RegistryInv, TypeOK
    <3>2. \A x : x \in blocked \ closed => x \in blocked' \ closed'
      BY <2>1
    <3>3. WaitingIsBlocked'
      BY <2>1, <3>2 DEF FlowInv, WaitingIsBlocked, TypeOK
    <3>4. QED
      BY <3>1, <3>3
  <2>10. QED
    BY <2>5, <2>8, <2>9 DEF FlowInv
<1>4. QED
  BY <1>2, <1>3

\* Waking moves waiting senders only, and leaves none waiting on k.
LEMMA WakeFacts ==
    ASSUME NEW k, NEW p \in [Senders -> PCs]
    PROVE  /\ Wake(k, p) \in [Senders -> PCs]
           /\ \A u \in Senders :
                 /\ Wake(k, p)[u] = "waiting" => p[u] = "waiting" /\ fc[u] # k
                 /\ Wake(k, p)[u] = "sending" <=> p[u] = "sending"
                 /\ Wake(k, p)[u] = "idle" <=> p[u] = "idle"
                 /\ Wake(k, p)[u] = "create" <=> p[u] = "create"
BY DEF Wake, PCs

\* Release: the sender gives its place back; unblocking wakes everybody, and
\* staying blocked leaves another send in flight.
LEMMA ReleaseStep ==
    ASSUME TypeOK, FlowInv, NEW s \in Senders, Release(s)
    PROVE  TypeOK' /\ FlowInv'
<1>1. PICK k \in Controllers : k = fc[s] /\ k = registry /\ k # None
  BY DEF Release, TypeOK, FlowInv, RegistryInv
<1> DEFINE p == [pc EXCEPT ![s] = "idle"]
           n == pending[k] - 1
<1>2. s \in Holders(k) /\ Cardinality(Holders(k)) = pending[k]
  BY <1>1 DEF Release, Holders, FlowInv, PendingInv
<1>3. Cardinality(Holders(k) \ {s}) = n /\ n \in Nat
  <2>1. /\ IsFiniteSet(Holders(k) \ {s})
        /\ Cardinality(Holders(k) \ {s}) = Cardinality(Holders(k)) - 1
    BY <1>2, HoldersFinite, FS_RemoveElement
  <2>2. QED
    BY <1>2, <2>1, FS_CardinalityType
<1>4. pending[k] \in 0..HighWatermark /\ n < HighWatermark
  BY <1>1, Watermarks DEF TypeOK
<1>5. /\ pending' = [pending EXCEPT ![k] = n]
      /\ \/ /\ k \in blocked /\ n <= LowWatermark
            /\ blocked' = blocked \ {k}
            /\ pc' = Wake(k, p)
            /\ panicked' = (k \in closed)
         \/ /\ ~(k \in blocked /\ n <= LowWatermark)
            /\ pc' = p
            /\ UNCHANGED <<blocked, panicked>>
      /\ UNCHANGED <<registry, closed, fc>>
  <2>1. pending[k] > 0
    BY <1>3, <1>4
  <2>2. QED
    BY <1>1, <2>1 DEF Release
<1>6. /\ p \in [Senders -> PCs]
      /\ p[s] = "idle"
      /\ \A u \in Senders : u # s => p[u] = pc[u]
  BY DEF TypeOK, PCs
<1>7. /\ pc' \in [Senders -> PCs]
      /\ \A u \in Senders :
            /\ pc'[u] = "waiting" => p[u] = "waiting"
            /\ pc'[u] = "waiting" /\ k \notin blocked' => fc[u] # k \/ k \notin blocked
            /\ pc'[u] = "sending" <=> p[u] = "sending"
            /\ pc'[u] = "idle" <=> p[u] = "idle"
            /\ pc'[u] = "create" <=> p[u] = "create"
  <2> DEFINE Moves(q) ==
          /\ q \in [Senders -> PCs]
          /\ \A u \in Senders : /\ q[u] = "waiting" => p[u] = "waiting"
                                /\ q[u] = "sending" <=> p[u] = "sending"
                                /\ q[u] = "idle" <=> p[u] = "idle"
                                /\ q[u] = "create" <=> p[u] = "create"
  <2> HIDE DEF p
  <2>1. Moves(Wake(k, p)) /\ Moves(p)
    BY <1>6, WakeFacts
  <2>2. pc' = Wake(k, p) \/ pc' = p
    BY <1>5
  <2>3. Moves(pc')
    BY <2>1, <2>2
  <2>4. ASSUME NEW u \in Senders, pc'[u] = "waiting", k \notin blocked'
        PROVE  fc[u] # k \/ k \notin blocked
    BY <1>5, <1>6, <2>4, WakeFacts
  <2>5. QED
    BY <2>3, <2>4
<1>8. TypeOK'
  <2>1. pending' \in [Controllers -> 0..HighWatermark]
    BY <1>1, <1>3, <1>4, <1>5, Watermarks DEF TypeOK
  <2>2. panicked' \in BOOLEAN
    <3>1. (k \in closed) \in BOOLEAN
      OBVIOUS
    <3>2. panicked' = (k \in closed) \/ panicked' = panicked
      BY <1>5
    <3>3. QED
      BY <3>1, <3>2, Zenon DEF TypeOK
  <2>3. blocked' \in SUBSET Controllers
    BY <1>5 DEF TypeOK
  <2>4. QED
    BY <1>5, <1>7, <2>1, <2>2, <2>3 DEF TypeOK
<1>9. PendingInv'
  <2>1. Holders(k)' = Holders(k) \ {s}
    BY <1>1, <1>5, <1>6, <1>7 DEF Holders
  <2>2. ASSUME NEW j \in Controllers, j # k PROVE Holders(j)' = Holders(j)
    BY <1>1, <1>5, <1>6, <1>7, <2>2 DEF Holders
  <2>3. ASSUME NEW j \in Controllers, j # k
        PROVE  /\ pending'[j] = Cardinality(Holders(j)')
               /\ j \in blocked' => pending'[j] >= 1
               /\ j \notin blocked' => pending'[j] < HighWatermark
    <3>1. pending'[j] = pending[j] /\ (j \in blocked' <=> j \in blocked)
      BY <1>5, <2>3 DEF TypeOK
    <3>2. QED
      BY <3>1, <2>2, <2>3 DEF FlowInv, PendingInv
  <2>4. pending'[k] = n
    BY <1>1, <1>5 DEF TypeOK
  <2>5. k \in blocked' => n >= 1
    BY <1>3, <1>5, Watermarks
  <2>6. QED
    BY <1>3, <1>4, <2>1, <2>3, <2>4, <2>5 DEF PendingInv
<1>10. RegistryInv'
  BY <1>5, <1>6, <1>7 DEF FlowInv, RegistryInv, PCs
<1>11. WaitingIsBlocked'
  <2>1. SUFFICES ASSUME NEW u \in Senders, pc'[u] = "waiting"
                 PROVE  fc[u] \in blocked' \ closed
    BY <1>5 DEF WaitingIsBlocked
  <2>2. pc[u] = "waiting"
    BY <1>6, <1>7, <2>1
  <2>3. fc[u] \in blocked \ closed
    BY <2>2 DEF FlowInv, WaitingIsBlocked
  <2>4. QED
    BY <1>5, <1>7, <2>1, <2>3
<1>12. QED
  BY <1>8, <1>9, <1>10, <1>11 DEF FlowInv

\* Close: everybody who waits is woken, and fails.
LEMMA CloseStep ==
    ASSUME TypeOK, FlowInv, NEW k \in Controllers, Close(k)
    PROVE  TypeOK' /\ FlowInv'
<1>1. /\ closed' = closed \cup {k}
      /\ pc' = Wake(k, pc)
      /\ UNCHANGED <<registry, pending, blocked, fc, panicked>>
  BY DEF Close
<1>2. /\ pc' \in [Senders -> PCs]
      /\ \A u \in Senders :
            /\ pc'[u] = "waiting" => pc[u] = "waiting" /\ fc[u] # k
            /\ pc'[u] = "sending" <=> pc[u] = "sending"
            /\ pc'[u] = "idle" <=> pc[u] = "idle"
            /\ pc'[u] = "create" <=> pc[u] = "create"
  BY <1>1, WakeFacts DEF TypeOK
<1>3. TypeOK'
  BY <1>1, <1>2 DEF TypeOK
<1>4. PendingInv'
  BY <1>1, <1>2, PendingSame DEF FlowInv
<1>5. RegistryInv'
  BY <1>1, <1>2 DEF FlowInv, RegistryInv, TypeOK, PCs
<1>6. WaitingIsBlocked'
  BY <1>1, <1>2 DEF FlowInv, WaitingIsBlocked
<1>7. QED
  BY <1>3, <1>4, <1>5, <1>6 DEF FlowInv

\* Finding or creating the controller, and giving up, move no place.
LEMMA LookupStep ==
    ASSUME TypeOK, FlowInv, NEW s \in Senders,
           LookUp(s) \/ Create(s) \/ Cancel(s)
    PROVE  TypeOK' /\ FlowInv'
<1>1. CASE LookUp(s)
  <2>1. TypeOK'
    BY <1>1 DEF LookUp, Goto, TypeOK, PCs
  <2>2. PendingInv'
    BY <1>1, PendingSame DEF LookUp, Goto, TypeOK, FlowInv
  <2>3. RegistryInv' /\ WaitingIsBlocked'
    BY <1>1 DEF LookUp, Goto, TypeOK, FlowInv, RegistryInv, WaitingIsBlocked
  <2>4. QED
    BY <2>1, <2>2, <2>3 DEF FlowInv
<1>2. CASE Create(s)
  <2>1. PICK k \in Controllers :
            /\ registry # None => k = registry
            /\ registry' = k
            /\ fc' = [fc EXCEPT ![s] = k]
    BY <1>2 DEF Create
  <2>2. pc[s] = "create" /\ pc' = [pc EXCEPT ![s] = "acquire"]
        /\ UNCHANGED <<pending, blocked, closed, panicked>>
    BY <1>2 DEF Create, Goto
  <2>3. TypeOK'
    BY <2>1, <2>2 DEF TypeOK, PCs
  <2>4. PendingInv'
    BY <2>1, <2>2, PendingSame DEF TypeOK, FlowInv
  <2>5. k # None
    BY FlowAssumption DEF FlowAssumption
  <2>6. RegistryInv' /\ WaitingIsBlocked'
    BY <2>1, <2>2, <2>5 DEF TypeOK, FlowInv, RegistryInv, WaitingIsBlocked
  <2>7. QED
    BY <2>3, <2>4, <2>6 DEF FlowInv
<1>3. CASE Cancel(s)
  <2>1. TypeOK'
    BY <1>3 DEF Cancel, Goto, TypeOK, PCs
  <2>2. PendingInv'
    BY <1>3, PendingSame DEF Cancel, Goto, TypeOK, FlowInv
  <2>3. RegistryInv' /\ WaitingIsBlocked'
    BY <1>3 DEF Cancel, Goto, TypeOK, FlowInv, RegistryInv, WaitingIsBlocked
  <2>4. QED
    BY <2>1, <2>2, <2>3 DEF FlowInv
<1>4. QED
  BY <1>1, <1>2, <1>3

\* The inductive invariant holds always: pending counts the sends in flight,
\* one controller serves the stream, and nobody waits on a dead channel.
THEOREM FlowCorrect == Spec => []FlowSafety
<1>1. Init => TypeOK /\ FlowInv
  BY FlowInit
<1>2. TypeOK /\ FlowInv /\ [Next]_vars => TypeOK' /\ FlowInv'
  <2>1. SUFFICES ASSUME TypeOK, FlowInv, [Next]_vars PROVE TypeOK' /\ FlowInv'
    OBVIOUS
  <2>2. CASE UNCHANGED vars
    <3>1. TypeOK'
      BY <2>1, <2>2 DEF vars, TypeOK
    <3>2. PendingInv'
      BY <2>1, <2>2, PendingSame DEF vars, FlowInv
    <3>3. RegistryInv' /\ WaitingIsBlocked'
      BY <2>1, <2>2 DEF vars, FlowInv, RegistryInv, WaitingIsBlocked
    <3>4. QED
      BY <3>1, <3>2, <3>3 DEF FlowInv
  <2>3. CASE Next
    BY <2>1, <2>3, LookupStep, AcquireStep, ReleaseStep, CloseStep
       DEF Next, SenderStep
  <2>4. QED
    BY <2>1, <2>2, <2>3
<1>3. TypeOK /\ FlowInv <=> FlowSafety
  BY DEF FlowSafety
<1>4. QED
  BY <1>1, <1>2, <1>3, PTL DEF Spec

\* All the sends in flight went through the registered controller.
LEMMA RegisteredHolds == ASSUME FlowInv PROVE InFlight = Holders(registry)
BY DEF InFlight, Holders, FlowInv, RegistryInv

\* The high watermark bounds the sends of the stream that are in flight.
THEOREM HighWatermarkHolds == Spec => []InFlightBounded
<1>1. FlowSafety => InFlightBounded
  <2>1. SUFFICES ASSUME TypeOK, FlowInv PROVE InFlightBounded
    BY DEF FlowSafety
  <2>2. CASE InFlight = {}
    BY <2>2, FS_EmptySet, Watermarks DEF InFlightBounded
  <2>3. CASE InFlight # {}
    <3>1. registry \in Controllers
      BY <2>1, <2>3 DEF TypeOK, FlowInv, RegistryInv, InFlight
    <3>2. InFlight = Holders(registry)
      BY <2>1, RegisteredHolds
    <3>3. Cardinality(Holders(registry)) = pending[registry]
      BY <2>1, <3>1 DEF FlowInv, PendingInv
    <3>4. QED
      BY <2>1, <3>1, <3>2, <3>3, Watermarks DEF TypeOK, InFlightBounded
  <2>4. QED
    BY <2>2, <2>3
<1>2. QED
  BY <1>1, FlowCorrect, PTL

\* A blocked controller has a send in flight whose Release will come.
THEOREM BlockedIsReleased == Spec => []BlockedHasHolder
<1>1. FlowSafety => BlockedHasHolder
  <2>1. SUFFICES ASSUME TypeOK, FlowInv, NEW k \in blocked, Holders(k) = {}
                 PROVE  FALSE
    BY DEF BlockedHasHolder, FlowSafety
  <2>2. k \in Controllers
    BY <2>1 DEF TypeOK
  <2>3. Cardinality(Holders(k)) >= 1
    BY <2>1, <2>2 DEF FlowInv, PendingInv
  <2>4. QED
    BY <2>1, <2>3, FS_EmptySet
<1>2. QED
  BY <1>1, FlowCorrect, PTL

\* No wake-up is lost: who waits, waits on a controller that is blocked now.
THEOREM NoLostWakeUp == Spec => []WaitingIsBlocked
<1>1. FlowSafety => WaitingIsBlocked
  BY DEF FlowSafety, FlowInv
<1>2. QED
  BY <1>1, FlowCorrect, PTL

-----------------------------------------------------------------------------
(* Flow control implements WatermarkGate.                                  *)

\* The gate counts as the controller does: the Cardinality of its instance is
\* the Cardinality of FiniteSets.
LEMMA GateCardinality ==
    ASSUME NEW S PROVE Gate!Cardinality(S) = Cardinality(S)
BY Zenon DEF Cardinality, Gate!Cardinality

\* Nobody but the registered controller is ever closed.
ClosedInv == closed \subseteq {registry}

\* ClosedInv is inductive: Close finds its controller in the registry, and
\* the registry does not change once it is set.
LEMMA ClosedStep ==
    ASSUME TypeOK, ClosedInv, [Next]_vars
    PROVE  ClosedInv'
<1>1. CASE UNCHANGED <<registry, closed>>
  BY <1>1 DEF ClosedInv
<1>2. ASSUME NEW s \in Senders, Create(s) PROVE ClosedInv'
  <2>1. (registry # None => registry' = registry) /\ closed' = closed
    BY <1>2 DEF Create
  <2>2. registry = None => closed = {}
    BY FlowAssumption DEF FlowAssumption, ClosedInv, TypeOK
  <2>3. QED
    BY <2>1, <2>2 DEF ClosedInv
<1>3. ASSUME NEW k \in Controllers, Close(k) PROVE ClosedInv'
  BY <1>3 DEF Close, ClosedInv
<1>4. QED
  BY <1>1, <1>2, <1>3
     DEF Next, SenderStep, LookUp, Acquire, Release, Cancel, vars

\* A step that moves no sender into or out of "sending", and neither blocks
\* nor closes the registered controller, is a stuttering step of the gate.
LEMMA GateStutters ==
    ASSUME \A s \in Senders : pc'[s] = "sending" <=> pc[s] = "sending",
           registry' \in blocked' <=> registry \in blocked,
           registry' \in closed' <=> registry \in closed
    PROVE  UNCHANGED Gate!vars
<1>1. InFlight' = InFlight
  BY DEF InFlight
<1>2. QED
  BY <1>1 DEF Gate!vars

\* Before a controller is registered there is none that blocks or is closed,
\* so finding or creating it changes nothing at the gate; neither does giving
\* up.
LEMMA LookupAtGate ==
    ASSUME TypeOK, FlowInv, ClosedInv, NEW s \in Senders,
           LookUp(s) \/ Create(s) \/ Cancel(s)
    PROVE  UNCHANGED Gate!vars
<1>1. CASE LookUp(s) \/ Cancel(s)
  BY <1>1, GateStutters DEF LookUp, Cancel, Goto, TypeOK
<1>2. CASE Create(s)
  <2>1. /\ pc[s] = "create" /\ pc' = [pc EXCEPT ![s] = "acquire"]
        /\ registry # None => registry' = registry
        /\ UNCHANGED <<blocked, closed>>
    BY <1>2 DEF Create, Goto
  <2>2. registry = None => blocked = {} /\ closed = {}
    <3>1. SUFFICES ASSUME registry = None PROVE blocked = {} /\ closed = {}
      OBVIOUS
    <3>2. closed = {}
      BY <3>1, FlowAssumption DEF FlowAssumption, ClosedInv, TypeOK
    <3>3. ASSUME NEW k \in blocked PROVE FALSE
      <4>1. k \in Controllers
        BY DEF TypeOK
      <4>2. Cardinality(Holders(k)) >= 1
        BY <4>1 DEF FlowInv, PendingInv
      <4>3. Holders(k) = {}
        BY <3>1 DEF Holders, FlowInv, RegistryInv
      <4>4. QED
        BY <4>2, <4>3, FS_EmptySet
    <3>4. QED
      BY <3>2, <3>3
  <2>3. QED
    BY <2>1, <2>2, GateStutters DEF TypeOK
<1>3. QED
  BY <1>1, <1>2

\* A round of Acquire enters through an open gate, or does nothing there.
LEMMA AcquireAtGate ==
    ASSUME TypeOK, FlowInv, NEW s \in Senders, Acquire(s)
    PROVE  Gate!Enter(s) \/ UNCHANGED Gate!vars
<1>1. PICK k \in Controllers : k = fc[s] /\ k = registry /\ k # None
  BY DEF Acquire, TypeOK, FlowInv, RegistryInv
<1>2. CASE k \in closed \/ k \in blocked \ closed
  <2>1. /\ pc[s] # "sending"
        /\ pc' = [pc EXCEPT ![s] = "idle"] \/ pc' = [pc EXCEPT ![s] = "waiting"]
        /\ UNCHANGED <<registry, blocked, closed>>
    BY <1>1, <1>2 DEF Acquire, Goto
  <2>2. QED
    BY <2>1, GateStutters DEF TypeOK
<1>3. CASE k \notin closed \cup blocked
  <2>1. /\ pc[s] # "sending"
        /\ pc' = [pc EXCEPT ![s] = "sending"]
        /\ blocked' = IF pending[k] + 1 >= HighWatermark
                      THEN blocked \cup {k} ELSE blocked
        /\ UNCHANGED <<registry, closed>>
    BY <1>1, <1>3 DEF Acquire, Goto
  <2>2. s \notin InFlight /\ InFlight' = InFlight \cup {s}
    BY <2>1 DEF InFlight, TypeOK
  <2>3. Cardinality(InFlight') = pending[k] + 1
    <3>1. InFlight = Holders(k) /\ pending[k] = Cardinality(Holders(k))
      BY <1>1, RegisteredHolds DEF FlowInv, PendingInv
    <3>2. QED
      BY <2>2, <3>1, HoldersFinite, FS_AddElement
  <2>4. pending[k] \in Nat /\ HighWatermark \in Nat
    BY Watermarks DEF TypeOK
  <2>5. registry' \notin blocked' <=> Cardinality(InFlight') < HighWatermark
    BY <1>1, <1>3, <2>1, <2>3, <2>4
  <2>6. QED
    BY <1>1, <1>3, <2>1, <2>2, <2>5, GateCardinality DEF Gate!Enter
<1>4. QED
  BY <1>2, <1>3

\* A Release leaves, and opens the gate at the low watermark.
LEMMA ReleaseAtGate ==
    ASSUME TypeOK, FlowInv, NEW s \in Senders, Release(s)
    PROVE  Gate!Leave(s)
<1>1. PICK k \in Controllers : k = fc[s] /\ k = registry /\ k # None
  BY DEF Release, TypeOK, FlowInv, RegistryInv
<1> DEFINE p == [pc EXCEPT ![s] = "idle"]
<1>2. InFlight = Holders(k) /\ pending[k] = Cardinality(Holders(k))
  BY <1>1, RegisteredHolds DEF FlowInv, PendingInv
<1>3. s \in InFlight
  BY DEF InFlight, Release
<1>4. PICK n \in Nat : n = pending[k] - 1 /\ Cardinality(InFlight \ {s}) = n
  <2>1. Cardinality(InFlight \ {s}) = Cardinality(InFlight) - 1
    BY <1>2, <1>3, HoldersFinite, FS_RemoveElement
  <2>2. Cardinality(InFlight \ {s}) \in Nat
    BY <1>2, HoldersFinite, FS_RemoveElement, FS_CardinalityType
  <2>3. QED
    BY <1>2, <2>1, <2>2
<1>5. pending[k] > 0 /\ n = (IF pending[k] > 0 THEN pending[k] - 1 ELSE 0)
  BY <1>4 DEF TypeOK
<1>6. /\ \/ /\ k \in blocked /\ n <= LowWatermark
            /\ blocked' = blocked \ {k}
            /\ pc' = Wake(k, p)
         \/ /\ ~(k \in blocked /\ n <= LowWatermark)
            /\ pc' = p
            /\ blocked' = blocked
      /\ UNCHANGED <<registry, closed>>
  BY <1>1, <1>5 DEF Release
<1>7. InFlight' = InFlight \ {s}
  <2>1. /\ p \in [Senders -> PCs]
        /\ p[s] # "sending"
        /\ \A u \in Senders : u # s => p[u] = pc[u]
    BY DEF TypeOK, PCs
  <2> HIDE DEF p
  <2>2. \A u \in Senders : pc'[u] = "sending" <=> p[u] = "sending"
    BY <1>6, <2>1, WakeFacts
  <2>3. QED
    BY <2>1, <2>2 DEF InFlight
<1>8. (registry' \notin blocked')
      <=> (registry \notin blocked \/ Cardinality(InFlight') <= LowWatermark)
  BY <1>1, <1>4, <1>6, <1>7
<1>9. QED
  BY <1>1, <1>3, <1>6, <1>7, <1>8, GateCardinality DEF Gate!Leave

\* Close locks the gate.
LEMMA CloseAtGate ==
    ASSUME TypeOK, NEW k \in Controllers, Close(k)
    PROVE  Gate!Lock
<1>1. /\ k = registry /\ k \notin closed
      /\ closed' = closed \cup {k}
      /\ pc' = Wake(k, pc)
      /\ UNCHANGED <<registry, blocked>>
  BY DEF Close
<1>2. InFlight' = InFlight
  BY <1>1, WakeFacts DEF InFlight, TypeOK
<1>3. QED
  BY <1>1, <1>2 DEF Gate!Lock

\* Flow control implements the gate for any number of senders and any
\* watermarks: sends enter only while the gate is open, the gate shuts at the
\* high watermark and opens again at the low one and not before.
THEOREM FlowIsGate == Spec => ImplementsGate
<1>1. Init => Gate!Init /\ ClosedInv
  <2>1. SUFFICES ASSUME Init PROVE Gate!Init /\ ClosedInv
    OBVIOUS
  <2>2. InFlight = {}
    BY <2>1 DEF Init, InFlight
  <2>3. QED
    BY <2>1, <2>2 DEF Init, Gate!Init, ClosedInv
<1>2. FlowSafety /\ ClosedInv /\ [Next]_vars => ClosedInv'
  BY ClosedStep DEF FlowSafety
<1>3. FlowSafety /\ ClosedInv /\ [Next]_vars => [Gate!Next]_(Gate!vars)
  <2>1. SUFFICES ASSUME TypeOK, FlowInv, ClosedInv, [Next]_vars
                 PROVE  [Gate!Next]_(Gate!vars)
    BY DEF FlowSafety
  <2>2. CASE UNCHANGED vars
    BY <2>2, GateStutters DEF vars
  <2>3. CASE Next
    BY <2>1, <2>3, LookupAtGate, AcquireAtGate, ReleaseAtGate, CloseAtGate
       DEF Next, SenderStep, Gate!Next
  <2>4. QED
    BY <2>1, <2>2, <2>3
<1>4. QED
  BY <1>1, <1>2, <1>3, FlowCorrect, PTL DEF Spec, ImplementsGate, Gate!Spec

-----------------------------------------------------------------------------
(* Panics.                                                                 *)

\* As Node uses it, which never calls Close, the controller cannot panic: only
\* Close leaves a closed channel for a Release to close again.
THEOREM NoPanicWithoutClose ==
    ASSUME "close" \notin Ops
    PROVE  Spec => []NoPanic
<1> DEFINE Inv == closed = {} /\ panicked = FALSE
<1>1. Init => Inv
  BY DEF Init
<1>2. Inv /\ [Next]_vars => Inv'
  <2>1. SUFFICES ASSUME Inv, [Next]_vars PROVE Inv'
    OBVIOUS
  <2>2. ASSUME NEW s \in Senders, LookUp(s) \/ Create(s) \/ Acquire(s) \/ Cancel(s)
        PROVE  Inv'
    BY <2>1, <2>2 DEF LookUp, Create, Acquire, Cancel
  <2>3. ASSUME NEW s \in Senders, Release(s) PROVE Inv'
    <3>1. closed' = {} /\ (panicked' = (fc[s] \in closed) \/ panicked' = panicked)
      BY <2>1, <2>3 DEF Release
    <3>2. (fc[s] \in closed) = FALSE
      BY <2>1
    <3> QED BY <2>1, <3>1, <3>2
  <2>4. ASSUME NEW k \in Controllers, Close(k) PROVE FALSE
    BY <2>4 DEF Close
  <2>5. CASE UNCHANGED vars
    BY <2>1, <2>5 DEF vars
  <2> QED BY <2>1, <2>2, <2>3, <2>4, <2>5 DEF Next, SenderStep
<1>3. Inv => NoPanic
  BY DEF NoPanic
<1> QED BY <1>1, <1>2, <1>3, PTL DEF Spec
=============================================================================
