---------------------- MODULE ConnectionManagerProofs ----------------------
(***************************************************************************)
(* The safety of ConnectionManager for any number of callers, timers and   *)
(* loops, any limit on the attempts and any set of operations.             *)
(*                                                                         *)
(* ManagerInv is inductive relative to TypeOK.  Each of its conjuncts has  *)
(* a lemma that says that a step preserves it; the lemmas name the other   *)
(* conjuncts they need:                                                    *)
(*   - RegisteredLoopLive needs only the types: a loop ends either after   *)
(*     it was cancelled, and then it is no longer registered, or in the    *)
(*     section that deletes the registration;                              *)
(*   - CooldownHasCooler needs RecordInv, since a cooldown goroutine that  *)
(*     finds no connection in the map ends without leaving Cooldown;       *)
(*   - ConnectingHasDialer needs OrphanInv, since a dialer that held a     *)
(*     connection dropped by Shutdown would not leave Connecting.          *)
(***************************************************************************)
EXTENDS ConnectionManager, TLAPS

\* The initial state has the declared types.
LEMMA TypeInit == ASSUME Init PROVE TypeOK
<1>1. /\ attempts \in [Loops -> 0..MaxAttempts]
      /\ loopPC \in [Loops -> LoopPCs]
      /\ cancelled \in SUBSET Loops
  BY ConstantsAssumption DEF ConstantsAssumption, Init, LoopPCs
<1>2. /\ pc \in [Callers -> CallerPCs]
      /\ timers \in [Timers -> TimerPCs]
      /\ orphaned \in SUBSET (Callers \cup Timers)
  BY DEF Init, CallerPCs, TimerPCs
<1>3. QED
  BY <1>1, <1>2 DEF Init, TypeOK, States

\* Attempts never exceed the limit: NewLoop and Retry count within it.
LEMMA AttemptsInRange ==
    /\ ScheduleNext(0) \in 0..MaxAttempts
    /\ \A n \in 0..MaxAttempts :
           ShouldRetry(n) => ScheduleNext(n) \in 0..MaxAttempts
BY ConstantsAssumption DEF ConstantsAssumption, ScheduleNext, ShouldRetry

\* Every step keeps the types.
LEMMA TypeStep == ASSUME TypeOK, [Next]_vars PROVE TypeOK'
<1> USE DEF TypeOK, States, CallerPCs, LoopPCs, TimerPCs, connVars, loopVars,
            callVars, envVars, Goto, TransitionTo, CancelHandshakeTimeout,
            Stopped, SetupHandshakeTimeout
<1>1. ASSUME NEW c \in Callers, CallerStarts(c) PROVE TypeOK'
  <2>1. CASE Connect(c)
    BY <2>1 DEF Connect
  <2>2. CASE OnDisconnect(c)
    BY <2>2 DEF OnDisconnect
  <2>3. CASE Disconnect(c)
    BY <2>3 DEF Disconnect, DisconnectBegins, CancelRegisteredLoop
  <2>4. CASE CancelReconnection(c)
    BY <2>4 DEF CancelReconnection, CancelRegisteredLoop
  <2>5. CASE BlacklistPeer(c)
    BY <2>5 DEF BlacklistPeer
  <2>6. CASE FinalizeHandshake(c)
    BY <2>6 DEF FinalizeHandshake
  <2>7. CASE PrepareStreams(c)
    BY <2>7 DEF PrepareStreams
  <2>8. CASE IncomingStream(c)
    BY <2>8 DEF IncomingStream
  <2>9. CASE Shutdown(c)
    BY <2>9 DEF Shutdown
  <2>10. QED
    BY <1>1, <2>1, <2>2, <2>3, <2>4, <2>5, <2>6, <2>7, <2>8, <2>9 DEF CallerStarts
<1>2. ASSUME NEW c \in Callers, CallerStep(c) PROVE TypeOK'
  <2>1. CASE ConnectDials(c)
    BY <2>1 DEF ConnectDials, Dialed
  <2>2. CASE ConnectSucceeds(c)
    BY <2>2 DEF ConnectSucceeds
  <2>3. CASE ConnectFails(c)
    BY <2>3 DEF ConnectFails
  <2>4. CASE CallerMayReconnect(c)
    BY <2>4 DEF CallerMayReconnect
  <2>5. CASE CallerReconnects(c)
    BY <2>5, AttemptsInRange DEF CallerReconnects, StartReconnection, NewLoop
  <2>6. CASE DisconnectCleansUp(c)
    BY <2>6 DEF DisconnectCleansUp
  <2>7. CASE DisconnectEnds(c)
    BY <2>7 DEF DisconnectEnds
  <2>8. CASE BlacklistReadsState(c)
    BY <2>8 DEF BlacklistReadsState
  <2>9. CASE BlacklistDisconnects(c)
    BY <2>9 DEF BlacklistDisconnects, CancelRegisteredLoop
  <2>10. CASE MarkEstablished(c)
    BY <2>10 DEF MarkEstablished
  <2>11. CASE RegisterIncomingConnection(c)
    BY <2>11, ZenonT(30) DEF RegisterIncomingConnection
  <2>12. CASE ShutdownClears(c)
    BY <2>12 DEF ShutdownClears, HoldsConnection
  <2>13. QED
    BY <1>2, <2>1, <2>2, <2>3, <2>4, <2>5, <2>6, <2>7, <2>8, <2>9, <2>10,
       <2>11, <2>12 DEF CallerStep
<1>3. ASSUME NEW t \in Timers, TimerStep(t) PROVE TypeOK'
  <2>1. CASE TimerFires(t)
    BY <2>1 DEF TimerFires
  <2>2. CASE HandshakeTimesOut(t)
    <3>1. timers' \in [Timers -> TimerPCs]
      BY <2>2 DEF HandshakeTimesOut
    <3>2. state' \in States /\ cooling' \in BOOLEAN
      BY <2>2 DEF HandshakeTimesOut
    <3>3. QED
      BY <2>2, <3>1, <3>2 DEF HandshakeTimesOut
  <2>3. CASE TimeoutCleansUp(t)
    BY <2>3 DEF TimeoutCleansUp
  <2>4. CASE CooldownExpires(t)
    BY <2>4 DEF CooldownExpires
  <2>5. CASE CooldownAborts(t)
    BY <2>5 DEF CooldownAborts
  <2>6. CASE TimerMayReconnect(t)
    BY <2>6 DEF TimerMayReconnect
  <2>7. CASE TimerReconnects(t)
    BY <2>7, AttemptsInRange DEF TimerReconnects, StartReconnection, NewLoop
  <2>8. CASE TimeoutDisconnects(t)
    BY <2>8 DEF TimeoutDisconnects
  <2>9. QED
    BY <1>3, <2>1, <2>2, <2>3, <2>4, <2>5, <2>6, <2>7, <2>8 DEF TimerStep
<1>4. ASSUME NEW i \in Loops, LoopStep(i) PROVE TypeOK'
  <2>1. CASE LoopWakes(i)
    BY <2>1, AttemptsInRange, ConstantsAssumption DEF LoopWakes, Retry,
        LoopGoto, LoopEnds, ConstantsAssumption
  <2>2. CASE LoopDials(i)
    BY <2>2, AttemptsInRange DEF LoopDials, Dialed, Retry, LoopGoto
  <2>3. CASE LoopReconnects(i)
    BY <2>3 DEF LoopReconnects, LoopGoto
  <2>4. CASE LoopFinishes(i)
    BY <2>4, ConstantsAssumption DEF LoopFinishes, LoopEnds,
        ConstantsAssumption
  <2>5. CASE LoopGivesUp(i)
    BY <2>5, ConstantsAssumption DEF LoopGivesUp, LoopEnds,
        ConstantsAssumption
  <2>6. QED
    BY <1>4, <2>1, <2>2, <2>3, <2>4, <2>5 DEF LoopStep
<1>5. CASE CooldownElapses
  BY <1>5, ZenonT(30) DEF CooldownElapses
<1>6. CASE UpdateBook
  BY <1>6 DEF UpdateBook
<1>7. CASE AcceptInbound
  BY <1>7 DEF AcceptInbound
<1>8. CASE LinkDrops
  BY <1>8 DEF LinkDrops
<1>9. CASE UNCHANGED vars
  BY <1>9 DEF vars
<1>10. QED
  BY <1>1, <1>2, <1>3, <1>4, <1>5, <1>6, <1>7, <1>8, <1>9 DEF Next

\* A step leaves a connection that is not in the map Disconnected.
LEMMA RecordStep == ASSUME TypeOK, RecordInv, [Next]_vars PROVE RecordInv'
<1> USE DEF TypeOK, States, RecordInv, connVars, TransitionTo, CanTransitionTo,
            ValidTransitions
<1>1. ASSUME NEW c \in Callers, CallerStarts(c) PROVE RecordInv'
  BY <1>1 DEF CallerStarts, Connect, OnDisconnect, Disconnect,
       DisconnectBegins, CancelReconnection, BlacklistPeer, FinalizeHandshake,
       PrepareStreams, IncomingStream, Shutdown
<1>2. ASSUME NEW c \in Callers, CallerStep(c) PROVE RecordInv'
  BY <1>2 DEF CallerStep, ConnectDials, ConnectSucceeds, ConnectFails,
       CallerMayReconnect, CallerReconnects, StartReconnection,
       DisconnectCleansUp, DisconnectEnds, BlacklistReadsState,
       BlacklistDisconnects, MarkEstablished, RegisterIncomingConnection,
       ShutdownClears
<1>3. ASSUME NEW t \in Timers, TimerStep(t) PROVE RecordInv'
  BY <1>3 DEF TimerStep, TimerFires, HandshakeTimesOut, TimeoutCleansUp,
       TimeoutDisconnects, CooldownExpires, CooldownAborts, TimerMayReconnect, TimerReconnects,
       StartReconnection
<1>4. ASSUME NEW i \in Loops, LoopStep(i) PROVE RecordInv'
  BY <1>4 DEF LoopStep, LoopWakes, LoopDials, LoopReconnects, LoopFinishes,
       LoopGivesUp
<1>5. CASE CooldownElapses \/ UpdateBook \/ AcceptInbound \/ LinkDrops
           \/ UNCHANGED vars
  BY <1>5 DEF CooldownElapses, UpdateBook, AcceptInbound, LinkDrops, vars
<1>6. QED
  BY <1>1, <1>2, <1>3, <1>4, <1>5 DEF Next

\* A caller that goes idle lets go of the connection it held.
LEMMA OrphanStep == ASSUME TypeOK, OrphanInv, [Next]_vars PROVE OrphanInv'
<1> USE DEF TypeOK, OrphanInv, callVars, Goto
<1>1. ASSUME NEW c \in Callers, CallerStarts(c) PROVE OrphanInv'
  BY <1>1 DEF CallerStarts, Connect, OnDisconnect, Disconnect,
       DisconnectBegins, CancelReconnection, BlacklistPeer, FinalizeHandshake,
       PrepareStreams, IncomingStream, Shutdown
<1>2. ASSUME NEW c \in Callers, CallerStep(c) PROVE OrphanInv'
  <2>1. CASE ShutdownClears(c)
    BY <2>1, ConstantsAssumption
       DEF ShutdownClears, HoldsConnection, ConstantsAssumption
  <2>2. CASE ~ShutdownClears(c)
    BY <1>2, <2>2 DEF CallerStep, ConnectDials, ConnectSucceeds, ConnectFails,
         CallerMayReconnect, CallerReconnects, DisconnectCleansUp,
         DisconnectEnds, BlacklistReadsState, BlacklistDisconnects,
         MarkEstablished, RegisterIncomingConnection
  <2>3. QED
    BY <2>1, <2>2
<1>3. ASSUME NEW t \in Timers, TimerStep(t) PROVE OrphanInv'
  BY <1>3 DEF TimerStep, TimerFires, HandshakeTimesOut, TimeoutCleansUp,
       TimeoutDisconnects, CooldownExpires, CooldownAborts, TimerMayReconnect, TimerReconnects
<1>4. ASSUME NEW i \in Loops, LoopStep(i) PROVE OrphanInv'
  BY <1>4 DEF LoopStep, LoopWakes, LoopDials, LoopReconnects, LoopFinishes,
       LoopGivesUp
<1>5. CASE CooldownElapses \/ UpdateBook \/ AcceptInbound \/ LinkDrops
           \/ UNCHANGED vars
  BY <1>5 DEF CooldownElapses, UpdateBook, AcceptInbound, LinkDrops, vars
<1>6. QED
  BY <1>1, <1>2, <1>3, <1>4, <1>5 DEF Next

\* No step leaves a finished or cancelled loop registered.
LEMMA LoopLiveStep ==
    ASSUME TypeOK, RegisteredLoopLive, [Next]_vars PROVE RegisteredLoopLive'
<1> USE ConstantsAssumption
    DEF ConstantsAssumption, TypeOK, RegisteredLoopLive, loopVars, envVars
<1>1. ASSUME NEW c \in Callers, CallerStarts(c) PROVE RegisteredLoopLive'
  BY <1>1 DEF CallerStarts, Connect, OnDisconnect, Disconnect,
       DisconnectBegins, CancelReconnection, CancelRegisteredLoop,
       BlacklistPeer, FinalizeHandshake, PrepareStreams, IncomingStream,
       Shutdown
<1>2. ASSUME NEW c \in Callers, CallerStep(c) PROVE RegisteredLoopLive'
  <2>1. CASE CallerReconnects(c)
    BY <2>1 DEF CallerReconnects, StartReconnection, NewLoop
  <2>2. CASE ~CallerReconnects(c)
    BY <1>2, <2>2 DEF CallerStep, ConnectDials, ConnectSucceeds, ConnectFails,
         CallerMayReconnect, DisconnectCleansUp, DisconnectEnds,
         BlacklistReadsState, BlacklistDisconnects, CancelRegisteredLoop,
         MarkEstablished, RegisterIncomingConnection, ShutdownClears
  <2>3. QED
    BY <2>1, <2>2
<1>3. ASSUME NEW t \in Timers, TimerStep(t) PROVE RegisteredLoopLive'
  <2>1. CASE TimerReconnects(t)
    BY <2>1 DEF TimerReconnects, StartReconnection, NewLoop
  <2>2. CASE ~TimerReconnects(t)
    BY <1>3, <2>2 DEF TimerStep, TimerFires, HandshakeTimesOut,
         TimeoutCleansUp, TimeoutDisconnects, CooldownExpires, CooldownAborts,
         TimerMayReconnect
  <2>3. QED
    BY <2>1, <2>2
<1>4. ASSUME NEW i \in Loops, LoopStep(i) PROVE RegisteredLoopLive'
  <2>1. CASE LoopWakes(i) \/ LoopDials(i) \/ LoopReconnects(i)
    BY <2>1 DEF LoopWakes, LoopDials, LoopReconnects, Retry, LoopGoto, LoopEnds
  <2>2. CASE LoopFinishes(i) \/ LoopGivesUp(i)
    BY <2>2 DEF LoopFinishes, LoopGivesUp
  <2>3. QED
    BY <1>4, <2>1, <2>2 DEF LoopStep
<1>5. CASE CooldownElapses \/ UpdateBook \/ AcceptInbound \/ LinkDrops
           \/ UNCHANGED vars
  BY <1>5 DEF CooldownElapses, UpdateBook, AcceptInbound, LinkDrops, vars
<1>6. QED
  BY <1>1, <1>2, <1>3, <1>4, <1>5 DEF Next

\* Only the section of a dialer that left it takes the state out of Connecting
\* or lets the dialer go.
LEMMA DialerStep ==
    ASSUME TypeOK, OrphanInv, ConnectingHasDialer, [Next]_vars
    PROVE  ConnectingHasDialer'
<1> USE DEF TypeOK, States, OrphanInv, ConnectingHasDialer, connVars, callVars,
            TransitionTo, CanTransitionTo, ValidTransitions, Goto
<1>1. ASSUME NEW c \in Callers, CallerStarts(c) PROVE ConnectingHasDialer'
  <2>1. CASE Connect(c)
    BY <2>1 DEF Connect, IsActive
  <2>2. CASE ~Connect(c)
    BY <1>1, <2>2 DEF CallerStarts, OnDisconnect, Disconnect,
         DisconnectBegins, CancelReconnection, BlacklistPeer,
         FinalizeHandshake, PrepareStreams, IncomingStream, Shutdown
  <2>3. QED
    BY <2>1, <2>2
<1>2. ASSUME NEW c \in Callers, CallerStep(c) PROVE ConnectingHasDialer'
  <2>1. CASE ConnectDials(c)
    BY <2>1 DEF ConnectDials
  <2>2. CASE ConnectSucceeds(c)
    BY <2>2 DEF ConnectSucceeds
  <2>3. CASE ConnectFails(c)
    BY <2>3 DEF ConnectFails
  <2>4. CASE CallerMayReconnect(c) \/ CallerReconnects(c)
    BY <2>4 DEF CallerMayReconnect, CallerReconnects, StartReconnection
  <2>5. CASE DisconnectCleansUp(c) \/ DisconnectEnds(c)
    BY <2>5 DEF DisconnectCleansUp, DisconnectEnds
  <2>6. CASE BlacklistReadsState(c) \/ BlacklistDisconnects(c)
    BY <2>6 DEF BlacklistReadsState, BlacklistDisconnects
  <2>7. CASE MarkEstablished(c) \/ RegisterIncomingConnection(c)
    BY <2>7 DEF MarkEstablished, RegisterIncomingConnection
  <2>8. CASE ShutdownClears(c)
    BY <2>8 DEF ShutdownClears
  <2>9. QED
    BY <1>2, <2>1, <2>2, <2>3, <2>4, <2>5, <2>6, <2>7, <2>8 DEF CallerStep
<1>3. ASSUME NEW t \in Timers, TimerStep(t) PROVE ConnectingHasDialer'
  <2>1. orphaned' \subseteq orphaned /\ UNCHANGED pc
    BY <1>3 DEF TimerStep, TimerFires, HandshakeTimesOut, TimeoutCleansUp,
         TimeoutDisconnects, CooldownExpires, CooldownAborts, TimerMayReconnect, TimerReconnects
  <2>2. state' = "Connecting" => state = "Connecting"
    BY <1>3 DEF TimerStep, TimerFires, HandshakeTimesOut, TimeoutCleansUp,
         TimeoutDisconnects, CooldownExpires, CooldownAborts, TimerMayReconnect, TimerReconnects,
         StartReconnection
  <2>3. QED
    BY <2>1, <2>2
<1>4. ASSUME NEW i \in Loops, LoopStep(i) PROVE ConnectingHasDialer'
  BY <1>4 DEF LoopStep, LoopWakes, LoopDials, LoopReconnects, LoopFinishes,
       LoopGivesUp
<1>5. CASE CooldownElapses \/ UpdateBook \/ AcceptInbound \/ LinkDrops
           \/ UNCHANGED vars
  BY <1>5 DEF CooldownElapses, UpdateBook, AcceptInbound, LinkDrops, vars
<1>6. QED
  BY <1>1, <1>2, <1>3, <1>4, <1>5 DEF Next

\* Cancelling or arming a handshake timer touches no goroutine that waits for
\* the end of a cooldown.
LEMMA TimerSlots ==
    ASSUME TypeOK, NEW t \in Timers,
           timers[t] \in {"closing", "unlinking", "waiting", "stale"}
    PROVE  /\ CancelHandshakeTimeout => timers'[t] = timers[t]
           /\ SetupHandshakeTimeout => timers'[t] = timers[t]
BY DEF TypeOK, CancelHandshakeTimeout, SetupHandshakeTimeout, Stopped

\* The goroutine that ends a cooldown is there from the step that starts it.
LEMMA CoolerStep ==
    ASSUME TypeOK, RecordInv, CooldownHasCooler, [Next]_vars
    PROVE  CooldownHasCooler'
<1> DEFINE Cooling(t) ==
             timers[t] \in {"closing", "unlinking", "waiting", "stale"}
<1> SUFFICES ASSUME state' = "Cooldown", ~shut'
             PROVE  \E t \in Timers : Cooling(t)'
  BY DEF CooldownHasCooler
<1> USE DEF TypeOK, States, connVars, envVars, TransitionTo, CanTransitionTo,
            ValidTransitions
<1>1. ASSUME state = "Cooldown", ~shut PROVE \E t \in Timers : Cooling(t)
  BY <1>1 DEF CooldownHasCooler
<1>2. ASSUME NEW c \in Callers, CallerStarts(c)
      PROVE  \E t \in Timers : Cooling(t)'
  <2>1. state = "Cooldown" /\ ~shut
    BY <1>2 DEF CallerStarts, Connect, OnDisconnect, Disconnect,
         DisconnectBegins, CancelReconnection, BlacklistPeer,
         FinalizeHandshake, PrepareStreams, IncomingStream, Shutdown
  <2>2. UNCHANGED timers \/ CancelHandshakeTimeout
    BY <1>2 DEF CallerStarts, Connect, OnDisconnect, Disconnect,
         DisconnectBegins, CancelReconnection, BlacklistPeer,
         FinalizeHandshake, PrepareStreams, IncomingStream, Shutdown
  <2>3. QED
    BY <1>1, <2>1, <2>2, TimerSlots
<1>3. ASSUME NEW c \in Callers, CallerStep(c)
      PROVE  \E t \in Timers : Cooling(t)'
  <2>1. state = "Cooldown" /\ ~shut
    BY <1>3 DEF CallerStep, ConnectDials, ConnectSucceeds, ConnectFails,
         CallerMayReconnect, CallerReconnects, StartReconnection,
         DisconnectCleansUp, DisconnectEnds, BlacklistReadsState,
         BlacklistDisconnects, MarkEstablished, RegisterIncomingConnection,
         ShutdownClears
  <2>2. UNCHANGED timers \/ CancelHandshakeTimeout \/ SetupHandshakeTimeout
    BY <1>3 DEF CallerStep, ConnectDials, ConnectSucceeds, ConnectFails,
         CallerMayReconnect, CallerReconnects, DisconnectCleansUp,
         DisconnectEnds, BlacklistReadsState, BlacklistDisconnects,
         MarkEstablished, RegisterIncomingConnection, ShutdownClears
  <2>3. QED
    BY <1>1, <2>1, <2>2, TimerSlots
<1>4. ASSUME NEW t \in Timers, TimerStep(t)
      PROVE  \E u \in Timers : Cooling(u)'
  <2>1. CASE TimerFires(t) \/ TimerMayReconnect(t)
    BY <1>1, <2>1 DEF TimerFires, TimerMayReconnect
  <2>2. CASE HandshakeTimesOut(t)
    BY <1>1, <2>2 DEF HandshakeTimesOut
  <2>3. CASE TimeoutCleansUp(t)
    BY <2>3 DEF TimeoutCleansUp, Stopped
  <2>4. CASE CooldownExpires(t)
    BY <2>4 DEF CooldownExpires, RecordInv
  <2>5. CASE CooldownAborts(t)
    BY <2>5 DEF CooldownAborts
  <2>6. CASE TimerReconnects(t)
    BY <1>1, <2>6 DEF TimerReconnects, StartReconnection
  <2>7. CASE TimeoutDisconnects(t)
    BY <2>7 DEF TimeoutDisconnects
  <2>8. QED
    BY <1>4, <2>1, <2>2, <2>3, <2>4, <2>5, <2>6, <2>7 DEF TimerStep
<1>5. ASSUME NEW i \in Loops, LoopStep(i)
      PROVE  \E t \in Timers : Cooling(t)'
  <2>1. state = "Cooldown" /\ ~shut
    BY <1>5 DEF LoopStep, LoopWakes, LoopDials, LoopReconnects, LoopFinishes,
         LoopGivesUp
  <2>2. UNCHANGED timers \/ SetupHandshakeTimeout
    BY <1>5 DEF LoopStep, LoopWakes, LoopDials, LoopReconnects, LoopFinishes,
         LoopGivesUp
  <2>3. QED
    BY <1>1, <2>1, <2>2, TimerSlots
<1>6. CASE CooldownElapses \/ UpdateBook \/ AcceptInbound \/ LinkDrops
           \/ UNCHANGED vars
  BY <1>1, <1>6 DEF CooldownElapses, UpdateBook, AcceptInbound, LinkDrops, vars
<1>7. QED
  BY <1>2, <1>3, <1>4, <1>5, <1>6 DEF Next

\* The types hold in every reachable state.
THEOREM TypeCorrect == Spec => []TypeOK
<1>1. Init => TypeOK
  BY TypeInit
<1>2. TypeOK /\ [Next]_vars => TypeOK'
  BY TypeStep
<1>3. QED
  BY <1>1, <1>2, PTL DEF Spec

\* The inductive invariant holds in every reachable state.
THEOREM ManagerCorrect == Spec => []ManagerSafety
<1>1. Init => ManagerInv
  BY DEF Init, ManagerInv, RecordInv, OrphanInv, RegisteredLoopLive,
         ConnectingHasDialer, CooldownHasCooler
<1>2. TypeOK /\ ManagerInv /\ [Next]_vars => ManagerInv'
  BY RecordStep, OrphanStep, LoopLiveStep, DialerStep, CoolerStep
     DEF ManagerInv
<1>3. TypeOK /\ ManagerInv => ManagerSafety
  BY DEF ManagerSafety
<1>4. QED
  BY <1>1, <1>2, <1>3, TypeCorrect, PTL DEF Spec

\* What startReconnection finds registered is a loop that runs and that nobody
\* cancelled, for any number of concurrent callers, timers and loops.
THEOREM RegistrationsAreLive == Spec => []RegisteredLoopLive
<1>1. ManagerSafety => RegisteredLoopLive
  BY DEF ManagerSafety, ManagerInv
<1>2. QED
  BY <1>1, ManagerCorrect, PTL

\* A peer in Connecting has a ConnectCtx on its way to leave that state.
THEOREM ConnectingIsDriven == Spec => []ConnectingHasDialer
<1>1. ManagerSafety => ConnectingHasDialer
  BY DEF ManagerSafety, ManagerInv
<1>2. QED
  BY <1>1, ManagerCorrect, PTL

\* A peer in Cooldown has a goroutine on its way to leave that state.
THEOREM CooldownIsDriven == Spec => []CooldownHasCooler
<1>1. ManagerSafety => CooldownHasCooler
  BY DEF ManagerSafety, ManagerInv
<1>2. QED
  BY <1>1, ManagerCorrect, PTL

\* What keeps a loop from escaping while nobody cancels one: until the shutdown
\* the only loop that runs is the registered one, after it all are cancelled.
LoopsOwned ==
    /\ \A c \in Callers : /\ pc[c] \notin {"blacklisted", "disconnect"}
                          /\ pc[c] = "shutdown" => shut
    /\ \A i \in Loops : loopPC[i] # "idle" =>
                            IF shut THEN i \in cancelled ELSE reconnecting = i

LEMMA OwnedStep ==
    ASSUME Ops \cap {"disconnect", "cancelReconnection", "blacklist"} = {},
           TypeOK, LoopsOwned, [Next]_vars
    PROVE  LoopsOwned'
<1> USE ConstantsAssumption
    DEF ConstantsAssumption, TypeOK, LoopsOwned, loopVars, callVars, envVars,
        Goto
<1>1. ASSUME NEW c \in Callers, CallerStarts(c) PROVE LoopsOwned'
  <2>1. CASE Shutdown(c)
    BY <2>1 DEF Shutdown
  <2>2. CASE ~Shutdown(c)
    BY <1>1, <2>2 DEF CallerStarts, Connect, OnDisconnect, Disconnect,
         CancelReconnection, BlacklistPeer, FinalizeHandshake, PrepareStreams,
         IncomingStream
  <2>3. QED
    BY <2>1, <2>2
<1>2. ASSUME NEW c \in Callers, CallerStep(c) PROVE LoopsOwned'
  <2>1. CASE CallerReconnects(c)
    BY <2>1 DEF CallerReconnects, StartReconnection, NewLoop
  <2>2. CASE ShutdownClears(c)
    BY <2>2 DEF ShutdownClears
  <2>3. CASE ~CallerReconnects(c) /\ ~ShutdownClears(c)
    BY <1>2, <2>3 DEF CallerStep, ConnectDials, ConnectSucceeds, ConnectFails,
         CallerMayReconnect, DisconnectCleansUp, DisconnectEnds,
         BlacklistReadsState, BlacklistDisconnects,
         MarkEstablished, RegisterIncomingConnection
  <2>4. QED
    BY <2>1, <2>2, <2>3
<1>3. ASSUME NEW t \in Timers, TimerStep(t) PROVE LoopsOwned'
  <2>1. CASE TimerReconnects(t)
    BY <2>1 DEF TimerReconnects, StartReconnection, NewLoop
  <2>2. CASE ~TimerReconnects(t)
    BY <1>3, <2>2 DEF TimerStep, TimerFires, HandshakeTimesOut,
         TimeoutCleansUp, TimeoutDisconnects, CooldownExpires, CooldownAborts,
         TimerMayReconnect
  <2>3. QED
    BY <2>1, <2>2
<1>4. ASSUME NEW i \in Loops, LoopStep(i) PROVE LoopsOwned'
  <2>1. CASE LoopWakes(i) \/ LoopDials(i) \/ LoopReconnects(i)
    BY <2>1 DEF LoopWakes, LoopDials, LoopReconnects, Retry, LoopGoto, LoopEnds
  <2>2. CASE LoopFinishes(i) \/ LoopGivesUp(i)
    BY <2>2 DEF LoopFinishes, LoopGivesUp, LoopEnds
  <2>3. QED
    BY <1>4, <2>1, <2>2 DEF LoopStep
<1>5. CASE CooldownElapses \/ UpdateBook \/ AcceptInbound \/ LinkDrops
           \/ UNCHANGED vars
  BY <1>5 DEF CooldownElapses, UpdateBook, AcceptInbound, LinkDrops, vars
<1>6. QED
  BY <1>1, <1>2, <1>3, <1>4, <1>5 DEF Next

\* The deletes at the end of a loop and of handleReconnectionExhausted, which
\* remove whatever loop is registered, are harmless as long as nobody cancels
\* a reconnection: the loop that ends is then the registered one, so that no
\* running loop is out of reach of Shutdown.
THEOREM UncancelledLoopsAreRegistered ==
    ASSUME Ops \cap {"disconnect", "cancelReconnection", "blacklist"} = {}
    PROVE  Spec => []LiveLoopIsRegistered
<1>1. Init => LoopsOwned
  BY DEF Init, LoopsOwned
<1>2. TypeOK /\ LoopsOwned /\ [Next]_vars => LoopsOwned'
  BY OwnedStep
<1>3. LoopsOwned => LiveLoopIsRegistered
  BY DEF LoopsOwned, LiveLoopIsRegistered
<1>4. QED
  BY <1>1, <1>2, <1>3, TypeCorrect, PTL DEF Spec
=============================================================================
