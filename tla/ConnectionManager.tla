------------------------- MODULE ConnectionManager -------------------------
(***************************************************************************)
(* pkg/connection: the connection manager, as seen by one peer.            *)
(*                                                                         *)
(* Every operation of Manager reads and writes only the map entries of the *)
(* peer it is called for (Shutdown does the same to every entry), so the   *)
(* module follows one key of `connections' and `reconnecting'.  A step is  *)
(* what one goroutine does between two points where it holds no lock; the  *)
(* goroutines are API calls and stream handlers (Callers), handshake       *)
(* timers with their callback and the cooldown goroutine it starts         *)
(* (Timers), and reconnection loops (Loops).  A call that returns an error *)
(* before it changed anything is a stuttering step and has no action.      *)
(* emitEvent runs outside the lock and touches nothing the manager reads:  *)
(* events are left to the module of their consumer.                        *)
(***************************************************************************)
EXTENDS Naturals

CONSTANTS
    Callers,       \* goroutines that run API calls or libp2p stream handlers
    Timers,        \* bound: handshake timers alive at the same time, each
                   \* with its callback and its cooldown goroutine
    Loops,         \* bound: reconnection loops alive at the same time
    None,          \* nil
    MaxAttempts,   \* ManagerConfig.ReconnectMaxAttempts, 0 is unlimited
    Ops            \* the operations the environment issues

ASSUME ConstantsAssumption ==
    /\ MaxAttempts \in Nat
    /\ None \notin Timers \cup Loops
    /\ Callers \cap Timers = {}

VARIABLES
    entry,         \* connections[peerID] exists
    state,         \* PeerConnection.State
    isOutbound,    \* PeerConnection.IsOutbound
    hsTimer,       \* PeerConnection.HandshakeTimer and HandshakeCancel
    cooling,       \* time.Now() is before PeerConnection.CooldownUntil
    reconnecting,  \* reconnecting[peerID]
    loopPC,        \* where each reconnection loop is
    attempts,      \* ReconnectState.Attempts of each loop
    cancelled,     \* loops whose context is cancelled
    timers,        \* handshake timers, callbacks and cooldown goroutines
    pc,            \* where each caller is
    orphaned,      \* goroutines whose *PeerConnection left the map (Shutdown)
    link,          \* the libp2p connection: who opened it, if it is up
    book,          \* the peer in the address book
    shut           \* the manager's context is cancelled

connVars == <<entry, state, isOutbound, hsTimer, cooling>>
loopVars == <<loopPC, attempts, cancelled>>
callVars == <<pc, orphaned>>
envVars == <<link, book, shut>>
vars == <<connVars, reconnecting, loopVars, timers, callVars, envVars>>

States == {"Disconnected", "Connecting", "Connected", "Established",
           "Reconnecting", "Cooldown"}

\* The table of ConnectionState.CanTransitionTo.
ValidTransitions ==
    [Disconnected |-> {"Connecting", "Reconnecting"},
     Connecting   |-> {"Connected", "Disconnected"},
     Connected    |-> {"Established", "Disconnected", "Cooldown"},
     Established  |-> {"Disconnected"},
     Reconnecting |-> {"Connecting", "Disconnected"},
     Cooldown     |-> {"Disconnected", "Reconnecting"}]

CanTransitionTo(s, t) == t \in ValidTransitions[s]

IsActive(s) == s \in {"Connecting", "Connected", "Established"}

CallerPCs == {"idle", "dial", "dialed", "failed", "lost", "restart",
              "cleanup", "closed", "finalize", "blacklisted", "disconnect",
              "incoming", "shutdown"}
LoopPCs == {"idle", "wait", "dial", "dialed", "finish", "giveup"}
TimerPCs == {"idle", "armed", "firing", "closing", "unlinking",
             "waiting", "stale", "lost", "restart"}

TypeOK ==
    /\ entry \in BOOLEAN
    /\ state \in States
    /\ isOutbound \in BOOLEAN
    /\ hsTimer \in Timers \cup {None}
    /\ cooling \in BOOLEAN
    /\ reconnecting \in Loops \cup {None}
    /\ loopPC \in [Loops -> LoopPCs]
    /\ attempts \in [Loops -> 0..MaxAttempts]
    /\ cancelled \in SUBSET Loops
    /\ timers \in [Timers -> TimerPCs]
    /\ pc \in [Callers -> CallerPCs]
    /\ orphaned \in SUBSET (Callers \cup Timers)
    /\ link \in {"none", "out", "in"}
    /\ book \in {"absent", "known", "blacklisted"}
    /\ shut \in BOOLEAN

ShouldRetry(n) == MaxAttempts = 0 \/ n < MaxAttempts

\* BackoffCalculator.ScheduleNext.  Attempts are not counted when they are
\* unlimited.
ScheduleNext(n) == IF MaxAttempts = 0 THEN n ELSE n + 1

Init ==
    /\ entry = FALSE
    /\ state = "Disconnected"
    /\ isOutbound = FALSE
    /\ hsTimer = None
    /\ cooling = FALSE
    /\ reconnecting = None
    /\ loopPC = [i \in Loops |-> "idle"]
    /\ attempts = [i \in Loops |-> 0]
    /\ cancelled = {}
    /\ timers = [t \in Timers |-> "idle"]
    /\ pc = [c \in Callers |-> "idle"]
    /\ orphaned = {}
    /\ link = "none"
    /\ book = "known"
    /\ shut = FALSE

-----------------------------------------------------------------------------
(* PeerConnection.                                                         *)

\* PeerConnection.TransitionTo: an invalid transition leaves the state alone.
TransitionTo(t) == state' = IF CanTransitionTo(state, t) THEN t ELSE state

\* The timers once hsTimer is stopped and its context cancelled: a callback
\* that is past its context check is not stopped.
Stopped(t) == IF t \in Timers /\ timers[t] = "armed"
              THEN [timers EXCEPT ![t] = "idle"]
              ELSE timers

\* PeerConnection.CancelHandshakeTimeout, and all that Cleanup does to the
\* state kept here.
CancelHandshakeTimeout == hsTimer' = None /\ timers' = Stopped(hsTimer)

\* Manager.setupHandshakeTimeout: a timer already in the record is
\* overwritten and keeps running.
SetupHandshakeTimeout ==
    \E t \in Timers : /\ timers[t] = "idle"
                      /\ timers' = [timers EXCEPT ![t] = "armed"]
                      /\ hsTimer' = t

Goto(c, p) ==
    /\ pc' = [pc EXCEPT ![c] = p]
    /\ orphaned' = IF p = "idle" THEN orphaned \ {c} ELSE orphaned

-----------------------------------------------------------------------------
(* Connect, and the automatic connect of AddPeer and Start.                *)

\* ConnectCtx up to the first Unlock.  An expired cooldown passes the check
\* but has no transition to Connecting: only isOutbound changes.
Connect(c) ==
    /\ "connect" \in Ops
    /\ pc[c] = "idle"
    /\ book = "known"
    /\ ~IsActive(state)
    /\ ~(state = "Cooldown" /\ cooling)
    /\ entry' = TRUE
    /\ isOutbound' = TRUE
    /\ TransitionTo("Connecting")
    /\ Goto(c, IF CanTransitionTo(state, "Connecting") THEN "dial" ELSE "idle")
    /\ UNCHANGED <<hsTimer, cooling, reconnecting, loopVars, timers, envVars>>

\* host.Connect: it succeeds at once over a connection that is already up,
\* otherwise ConnectionGater.InterceptPeerDial has to let it dial.
Dialed ==
    /\ link # "none" \/ book # "blacklisted"
    /\ link' = IF link = "none" THEN "out" ELSE link

ConnectDials(c) ==
    /\ pc[c] = "dial"
    /\ \/ Dialed /\ Goto(c, "dialed")
       \/ Goto(c, "failed") /\ UNCHANGED link
    /\ UNCHANGED <<connVars, reconnecting, loopVars, timers, book, shut>>

\* The section after host.Connect.  The *PeerConnection is the one found by
\* Connect; once Shutdown dropped it no other goroutine sees what happens
\* to it, and its timer dies with the manager's context.
ConnectSucceeds(c) ==
    /\ pc[c] = "dialed"
    /\ IF c \notin orphaned /\ CanTransitionTo(state, "Connected")
       THEN /\ state' = "Connected"
            /\ SetupHandshakeTimeout
       ELSE UNCHANGED <<state, hsTimer, timers>>
    /\ Goto(c, "idle")
    /\ UNCHANGED <<entry, isOutbound, cooling, reconnecting, loopVars,
                   envVars>>

\* Mutant: the failure is reported but the state is left alone.
FailureKeepsState(c) ==
    /\ pc[c] = "failed"
    /\ Goto(c, "lost")
    /\ UNCHANGED <<connVars, reconnecting, loopVars, timers, envVars>>

\* handleConnectFailure: the locked section, on the connection now in the map.
ConnectFails(c) ==
    /\ pc[c] = "failed"
    /\ TransitionTo("Disconnected")
    /\ Goto(c, "lost")
    /\ UNCHANGED <<entry, isOutbound, hsTimer, cooling, reconnecting, loopVars,
                   timers, envVars>>

-----------------------------------------------------------------------------
(* startReconnection, called by the goroutines that lost the connection.   *)

\* A new loop, which schedules its first attempt.
NewLoop(i) ==
    /\ loopPC' = [loopPC EXCEPT ![i] = "wait"]
    /\ attempts' = [attempts EXCEPT ![i] = ScheduleNext(0)]
    /\ cancelled' = IF shut THEN cancelled \cup {i} ELSE cancelled \ {i}

\* The locked section: nothing when a loop is registered or no connection is
\* in the map; otherwise a loop is registered and started, whatever the
\* state is, and schedules its first attempt.
StartReconnection ==
    IF reconnecting # None \/ ~entry
    THEN UNCHANGED <<reconnecting, loopVars, state>>
    ELSE \E i \in Loops :
            /\ loopPC[i] = "idle"
            /\ NewLoop(i)
            /\ reconnecting' = i
            /\ TransitionTo("Reconnecting")

\* The blacklist check of startReconnection, before it takes the lock.
CallerMayReconnect(c) ==
    /\ pc[c] = "lost"
    /\ Goto(c, IF book = "blacklisted" THEN "idle" ELSE "restart")
    /\ UNCHANGED <<connVars, reconnecting, loopVars, timers, envVars>>

CallerReconnects(c) ==
    /\ pc[c] = "restart"
    /\ StartReconnection
    /\ Goto(c, "idle")
    /\ UNCHANGED <<entry, isOutbound, hsTimer, cooling, timers, envVars>>

\* OnDisconnect, up to the event.
OnDisconnect(c) ==
    /\ "onDisconnect" \in Ops
    /\ pc[c] = "idle"
    /\ entry
    /\ CancelHandshakeTimeout
    /\ TransitionTo("Disconnected")
    /\ Goto(c, "lost")
    /\ UNCHANGED <<entry, isOutbound, cooling, reconnecting, loopVars,
                   envVars>>

-----------------------------------------------------------------------------
(* Disconnect, CancelReconnection and BlacklistPeer.                       *)

\* Mutant: the loop is cancelled but stays registered.
CancelKeepsRegistration ==
    IF reconnecting = None
    THEN UNCHANGED <<reconnecting, loopVars>>
    ELSE /\ \E i \in Loops : loopPC[i] = "idle"
         /\ cancelled' = cancelled \cup {reconnecting}
         /\ UNCHANGED <<loopPC, attempts>>
         /\ UNCHANGED reconnecting

\* ReconnectState.Cancel and delete.  Bound: a loop is cancelled only while
\* another slot is free, so that startReconnection always finds one.
CancelRegisteredLoop ==
    IF reconnecting = None
    THEN UNCHANGED <<reconnecting, loopVars>>
    ELSE /\ \E i \in Loops : loopPC[i] = "idle"
         /\ reconnecting' = None
         /\ cancelled' = cancelled \cup {reconnecting}
         /\ UNCHANGED <<loopPC, attempts>>

\* DisconnectCtx up to the Unlock.  The caller's context may end it here.
DisconnectBegins(c) ==
    /\ entry
    /\ CancelRegisteredLoop
    /\ \E p \in {"cleanup", "idle"} : Goto(c, p)
    /\ UNCHANGED <<connVars, timers, envVars>>

Disconnect(c) ==
    /\ "disconnect" \in Ops
    /\ pc[c] = "idle"
    /\ DisconnectBegins(c)

\* PeerConnection.Cleanup and host.Disconnect, outside the lock.
DisconnectCleansUp(c) ==
    /\ pc[c] = "cleanup"
    /\ IF c \in orphaned THEN UNCHANGED <<hsTimer, timers>>
                         ELSE CancelHandshakeTimeout
    /\ link' = "none"
    /\ Goto(c, "closed")
    /\ UNCHANGED <<entry, state, isOutbound, cooling, reconnecting, loopVars,
                   book, shut>>

DisconnectEnds(c) ==
    /\ pc[c] = "closed"
    /\ IF c \in orphaned THEN UNCHANGED state ELSE TransitionTo("Disconnected")
    /\ Goto(c, "idle")
    /\ UNCHANGED <<entry, isOutbound, hsTimer, cooling, reconnecting, loopVars,
                   timers, envVars>>

\* Manager.CancelReconnection, one locked section and no event.
CancelReconnection(c) ==
    /\ "cancelReconnection" \in Ops
    /\ pc[c] = "idle"
    /\ reconnecting # None
    /\ CancelRegisteredLoop
    /\ TransitionTo("Disconnected")
    /\ UNCHANGED <<entry, isOutbound, hsTimer, cooling, timers, callVars,
                   envVars>>

\* Node.BlacklistPeer: the address book first, then the state is read, then
\* Disconnect with a context that never ends.
BlacklistPeer(c) ==
    /\ "blacklist" \in Ops
    /\ pc[c] = "idle"
    /\ book # "absent"
    /\ book' = "blacklisted"
    /\ Goto(c, "blacklisted")
    /\ UNCHANGED <<connVars, reconnecting, loopVars, timers, link, shut>>

BlacklistReadsState(c) ==
    /\ pc[c] = "blacklisted"
    /\ Goto(c, IF IsActive(state) THEN "disconnect" ELSE "idle")
    /\ UNCHANGED <<connVars, reconnecting, loopVars, timers, envVars>>

BlacklistDisconnects(c) ==
    /\ pc[c] = "disconnect"
    /\ IF entry THEN CancelRegisteredLoop /\ Goto(c, "cleanup")
                ELSE Goto(c, "idle") /\ UNCHANGED <<reconnecting, loopVars>>
    /\ UNCHANGED <<connVars, timers, envVars>>

\* Node.UnblacklistPeer, RemovePeer and AddPeer; the automatic connect that
\* AddPeer ends with is Connect.
UpdateBook ==
    /\ "book" \in Ops
    /\ \/ book = "blacklisted" /\ book' \in {"known", "absent"}
       \/ book = "known" /\ book' = "absent"
       \/ book = "absent" /\ book' = "known"
    /\ UNCHANGED <<connVars, reconnecting, loopVars, timers, callVars, link,
                   shut>>

-----------------------------------------------------------------------------
(* The handshake: FinalizeHandshake and incoming connections.              *)

\* Node.FinalizeHandshake: Manager.CancelHandshakeTimeout in one locked
\* section, MarkEstablished in another.
FinalizeHandshake(c) ==
    /\ "finalize" \in Ops
    /\ pc[c] = "idle"
    /\ entry
    /\ CancelHandshakeTimeout
    /\ Goto(c, "finalize")
    /\ UNCHANGED <<entry, state, isOutbound, cooling, reconnecting, loopVars,
                   envVars>>

MarkEstablished(c) ==
    /\ pc[c] = "finalize"
    /\ IF entry THEN CancelHandshakeTimeout /\ TransitionTo("Established")
                ELSE UNCHANGED <<hsTimer, timers, state>>
    /\ Goto(c, "idle")
    /\ UNCHANGED <<entry, isOutbound, cooling, reconnecting, loopVars,
                   envVars>>

\* Manager.SetSharedKey, called by Node.PrepareStreams in any state: it
\* creates the connection record.  The key itself is not modelled.
PrepareStreams(c) ==
    /\ "prepare" \in Ops
    /\ pc[c] = "idle"
    /\ ~entry
    /\ entry' = TRUE
    /\ UNCHANGED <<state, isOutbound, hsTimer, cooling, reconnecting, loopVars,
                   timers, callVars, envVars>>

\* A goroutine about to register an incoming connection: libp2p runs the
\* handshake stream handler, or Node.EstablishEncryptedStreams has read
\* Disconnected.
IncomingStream(c) ==
    /\ pc[c] = "idle"
    /\ \/ "incoming" \in Ops /\ link # "none"
       \/ "establish" \in Ops /\ state = "Disconnected"
    /\ Goto(c, "incoming")
    /\ UNCHANGED <<connVars, reconnecting, loopVars, timers, envVars>>

RegisterIncomingConnection(c) ==
    /\ pc[c] = "incoming"
    /\ entry' = TRUE
    /\ isOutbound' = FALSE
    /\ IF state = "Disconnected"
       THEN state' = "Connected" /\ SetupHandshakeTimeout
       ELSE UNCHANGED <<state, hsTimer, timers>>
    /\ Goto(c, "idle")
    /\ UNCHANGED <<cooling, reconnecting, loopVars, envVars>>

-----------------------------------------------------------------------------
(* Shutdown.                                                               *)

\* m.cancel(): every context derived from the manager's is done.
Shutdown(c) ==
    /\ "shutdown" \in Ops
    /\ pc[c] = "idle"
    /\ ~shut
    /\ shut' = TRUE
    /\ cancelled' = {i \in Loops : loopPC[i] # "idle"}
    /\ Goto(c, "shutdown")
    /\ UNCHANGED <<connVars, reconnecting, loopPC, attempts, timers, link,
                   book>>

HoldsConnection ==
    {c \in Callers : pc[c] \in {"dial", "dialed", "cleanup", "closed"}}
    \cup {t \in Timers : timers[t] = "closing"}

\* The locked section: the maps are replaced by empty ones.
ShutdownClears(c) ==
    /\ pc[c] = "shutdown"
    /\ CancelHandshakeTimeout
    /\ entry' = FALSE
    /\ state' = "Disconnected"
    /\ isOutbound' = FALSE
    /\ cooling' = FALSE
    /\ reconnecting' = None
    /\ pc' = [pc EXCEPT ![c] = "idle"]
    /\ orphaned' = orphaned \cup HoldsConnection
    /\ UNCHANGED <<loopVars, envVars>>

-----------------------------------------------------------------------------
(* A handshake timer, its callback, and the cooldown goroutine.            *)

\* The callback checks its context: nothing stops it after this point.
TimerFires(t) ==
    /\ timers[t] = "armed"
    /\ timers' = [timers EXCEPT ![t] = IF shut THEN "idle" ELSE "firing"]
    /\ UNCHANGED <<connVars, reconnecting, loopVars, callVars, envVars>>

\* handleHandshakeTimeout: the locked section.  A goroutine that waits for
\* the end of an earlier cooldown may now wake up before this one ends.
HandshakeTimesOut(t) ==
    /\ timers[t] = "firing"
    /\ IF entry /\ state = "Connected"
       THEN /\ state' = "Cooldown"
            /\ cooling' = TRUE
            /\ timers' = [u \in Timers |->
                   IF u = t THEN "closing"
                   ELSE IF timers[u] = "waiting" THEN "stale" ELSE timers[u]]
       ELSE /\ timers' = [timers EXCEPT ![t] = "idle"]
            /\ UNCHANGED <<state, cooling>>
    /\ UNCHANGED <<entry, isOutbound, hsTimer, reconnecting, loopVars,
                   callVars,
                   envVars>>

\* conn.CancelHandshakeTimeout, outside the lock: it stops whatever timer the
\* record has by now.
TimeoutCleansUp(t) ==
    /\ timers[t] = "closing"
    /\ IF t \in orphaned
       THEN /\ timers' = [timers EXCEPT ![t] = "unlinking"]
            /\ UNCHANGED hsTimer
       ELSE /\ timers' = [Stopped(hsTimer) EXCEPT ![t] = "unlinking"]
            /\ hsTimer' = None
    /\ orphaned' = orphaned \ {t}
    /\ UNCHANGED <<entry, state, isOutbound, cooling, reconnecting, loopVars,
                   pc, envVars>>

\* Mutant: the cooldown goroutine is not started.
TimeoutForgetsCooldown(t) ==
    /\ timers[t] = "unlinking"
    /\ timers' = [timers EXCEPT ![t] = "idle"]
    /\ link' = "none"
    /\ UNCHANGED <<connVars, reconnecting, loopVars, callVars, book, shut>>

\* host.Disconnect, then scheduleReconnectAfterCooldown starts the goroutine.
TimeoutDisconnects(t) ==
    /\ timers[t] = "unlinking"
    /\ timers' = [timers EXCEPT ![t] = "waiting"]
    /\ link' = "none"
    /\ UNCHANGED <<connVars, reconnecting, loopVars, callVars, book, shut>>

\* Time passes CooldownUntil.
CooldownElapses ==
    /\ cooling
    /\ cooling' = FALSE
    /\ UNCHANGED <<entry, state, isOutbound, hsTimer, reconnecting, loopVars,
                   timers, callVars, envVars>>

\* The goroutine's timer fires, not before CooldownUntil unless it was
\* started for an earlier cooldown.
CooldownExpires(t) ==
    /\ timers[t] = "stale" \/ (timers[t] = "waiting" /\ ~cooling)
    /\ IF entry /\ state = "Cooldown"
       THEN /\ state' = "Disconnected"
            /\ timers' = [timers EXCEPT ![t] = "lost"]
       ELSE /\ timers' = [timers EXCEPT ![t] = "idle"]
            /\ UNCHANGED state
    /\ UNCHANGED <<entry, isOutbound, hsTimer, cooling, reconnecting, loopVars,
                   callVars, envVars>>

\* The goroutine finds the manager's context done.
CooldownAborts(t) ==
    /\ timers[t] \in {"waiting", "stale"}
    /\ shut
    /\ timers' = [timers EXCEPT ![t] = "idle"]
    /\ UNCHANGED <<connVars, reconnecting, loopVars, callVars, envVars>>

\* startReconnection, as for a caller.
TimerMayReconnect(t) ==
    /\ timers[t] = "lost"
    /\ timers' = [timers EXCEPT ![t] =
                     IF book = "blacklisted" THEN "idle" ELSE "restart"]
    /\ UNCHANGED <<connVars, reconnecting, loopVars, callVars, envVars>>

TimerReconnects(t) ==
    /\ timers[t] = "restart"
    /\ StartReconnection
    /\ timers' = [timers EXCEPT ![t] = "idle"]
    /\ UNCHANGED <<entry, isOutbound, hsTimer, cooling, callVars, envVars>>

-----------------------------------------------------------------------------
(* reconnectionLoop.                                                       *)

LoopGoto(i, p) ==
    /\ loopPC' = [loopPC EXCEPT ![i] = p]
    /\ UNCHANGED <<attempts, cancelled>>

LoopEnds(i) ==
    /\ loopPC' = [loopPC EXCEPT ![i] = "idle"]
    /\ attempts' = [attempts EXCEPT ![i] = 0]
    /\ cancelled' = cancelled \ {i}

\* Mutant: a failed attempt is not counted.
RetryUncounted(i) == LoopGoto(i, "wait")

\* The head of the loop: schedule the next attempt or give up.  Attempts are
\* not counted when they are unlimited.
Retry(i) ==
    IF ShouldRetry(attempts[i])
    THEN /\ loopPC' = [loopPC EXCEPT ![i] = "wait"]
         /\ attempts' = [attempts EXCEPT ![i] = ScheduleNext(@)]
         /\ UNCHANGED cancelled
    ELSE LoopGoto(i, "giveup")

\* The select on the backoff timer and the loop's context.  When both are
\* ready Go picks either.
LoopWakes(i) ==
    /\ loopPC[i] = "wait"
    /\ \/ i \in cancelled /\ LoopEnds(i)
       \/ book = "blacklisted" /\ LoopGoto(i, "giveup")
       \/ book = "absent" /\ Retry(i)
       \/ book = "known" /\ LoopGoto(i, "dial")
    /\ UNCHANGED <<connVars, reconnecting, timers, callVars, envVars>>

\* attemptReconnect dials under the manager's context, not the loop's.
LoopDials(i) ==
    /\ loopPC[i] = "dial"
    /\ \/ Dialed /\ (link # "none" \/ ~shut) /\ LoopGoto(i, "dialed")
       \/ Retry(i) /\ UNCHANGED link
    /\ UNCHANGED <<connVars, reconnecting, timers, callVars, book, shut>>

\* The locked section of attemptReconnect.  The result of TransitionTo is
\* ignored: Reconnecting has no transition to Connected.
LoopReconnects(i) ==
    /\ loopPC[i] = "dialed"
    /\ IF entry THEN TransitionTo("Connected") /\ SetupHandshakeTimeout
                ELSE UNCHANGED <<state, hsTimer, timers>>
    /\ LoopGoto(i, "finish")
    /\ UNCHANGED <<entry, isOutbound, cooling, reconnecting, callVars,
                   envVars>>

\* delete(m.reconnecting, peerID), whichever loop is registered there.
LoopFinishes(i) ==
    /\ loopPC[i] = "finish"
    /\ reconnecting' = None
    /\ LoopEnds(i)
    /\ UNCHANGED <<connVars, timers, callVars, envVars>>

\* Mutant: the loop that gives up stays registered.
GiveUpKeepsRegistration(i) ==
    /\ loopPC[i] = "giveup"
    /\ TransitionTo("Disconnected")
    /\ LoopEnds(i)
    /\ UNCHANGED <<entry, isOutbound, hsTimer, cooling, reconnecting, timers,
                   callVars, envVars>>

\* handleReconnectionExhausted and handleReconnectionCancelled.
LoopGivesUp(i) ==
    /\ loopPC[i] = "giveup"
    /\ reconnecting' = None
    /\ TransitionTo("Disconnected")
    /\ LoopEnds(i)
    /\ UNCHANGED <<entry, isOutbound, hsTimer, cooling, timers, callVars,
                   envVars>>

-----------------------------------------------------------------------------
(* libp2p (external).                                                      *)

\* An inbound connection passes ConnectionGater.InterceptSecured.
AcceptInbound ==
    /\ "incoming" \in Ops
    /\ link = "none"
    /\ book # "blacklisted"
    /\ state # "Connecting"
    /\ link' = "in"
    /\ UNCHANGED <<connVars, reconnecting, loopVars, timers, callVars, book,
                   shut>>

\* The connection breaks.  No libp2p notifiee calls OnDisconnect.
LinkDrops ==
    /\ "linkdrop" \in Ops
    /\ link # "none"
    /\ link' = "none"
    /\ UNCHANGED <<connVars, reconnecting, loopVars, timers, callVars, book,
                   shut>>

-----------------------------------------------------------------------------

CallerStarts(c) ==
    \/ Connect(c) \/ OnDisconnect(c) \/ Disconnect(c) \/ CancelReconnection(c)
    \/ BlacklistPeer(c) \/ FinalizeHandshake(c) \/ PrepareStreams(c)
    \/ IncomingStream(c) \/ Shutdown(c)

CallerStep(c) ==
    \/ ConnectDials(c) \/ ConnectSucceeds(c) \/ ConnectFails(c)
    \/ CallerMayReconnect(c) \/ CallerReconnects(c)
    \/ DisconnectCleansUp(c) \/ DisconnectEnds(c)
    \/ BlacklistReadsState(c) \/ BlacklistDisconnects(c)
    \/ MarkEstablished(c) \/ RegisterIncomingConnection(c)
    \/ ShutdownClears(c)

TimerStep(t) ==
    \/ TimerFires(t) \/ HandshakeTimesOut(t) \/ TimeoutCleansUp(t)
    \/ TimeoutDisconnects(t)
    \/ CooldownExpires(t) \/ CooldownAborts(t)
    \/ TimerMayReconnect(t) \/ TimerReconnects(t)

LoopStep(i) ==
    \/ LoopWakes(i) \/ LoopDials(i) \/ LoopReconnects(i)
    \/ LoopFinishes(i) \/ LoopGivesUp(i)

Next ==
    \/ \E c \in Callers : CallerStarts(c) \/ CallerStep(c)
    \/ \E t \in Timers : TimerStep(t)
    \/ \E i \in Loops : LoopStep(i)
    \/ CooldownElapses
    \/ UpdateBook
    \/ AcceptInbound
    \/ LinkDrops

Spec == Init /\ [][Next]_vars

\* Goroutines are scheduled, dials return (they have deadlines), timers and
\* cooldowns run out.  Nobody has to call an operation, change the book or
\* drop a link.  The steps that arm a timer need a free slot of Timers, which
\* the code does not: strong fairness keeps that bound from starving them.
FairSpec ==
    /\ Spec
    /\ \A c \in Callers : WF_vars(CallerStep(c))
    /\ \A t \in Timers : WF_vars(TimerStep(t))
    /\ \A i \in Loops : WF_vars(LoopStep(i))
    /\ WF_vars(CooldownElapses)
    /\ \A c \in Callers : /\ SF_vars(ConnectSucceeds(c))
                          /\ SF_vars(RegisterIncomingConnection(c))
    /\ \A i \in Loops : SF_vars(LoopReconnects(i))

-----------------------------------------------------------------------------
(* Safety.                                                                 *)

\* What startReconnection finds registered is never a dead loop: it still
\* runs, under a context nobody cancelled.  A dead registration would block
\* every later automatic reconnection of the peer.
RegisteredLoopLive ==
    reconnecting # None /\ ~shut =>
        loopPC[reconnecting] # "idle" /\ reconnecting \notin cancelled

\* Connecting is left again: a ConnectCtx that holds this connection is on
\* its way to the section that leaves the state, whatever Disconnect, other
\* connects and loops did meanwhile.  (The gater refuses inbound connections
\* in this state, so a peer stuck here could not be reached at all.)
ConnectingHasDialer ==
    state = "Connecting" =>
        \E c \in Callers : \/ pc[c] \in {"dial", "dialed"} /\ c \notin orphaned
                           \/ pc[c] = "failed"

\* Cooldown is left again: until the shutdown, the timeout callback that is
\* to start a cooldown goroutine, or such a goroutine, is alive.
CooldownHasCooler ==
    state = "Cooldown" /\ ~shut =>
        \E t \in Timers :
            timers[t] \in {"closing", "unlinking", "waiting", "stale"}

\* A connection that is not in the map has no state to speak of, and a caller
\* between two operations holds none.
RecordInv == ~entry => state = "Disconnected"
OrphanInv == \A c \in Callers : pc[c] \in {"idle", "shutdown"} =>
                                    c \notin orphaned

\* The inductive invariant: the three guarantees above hold together, also
\* through the two steps of Shutdown and with callers it left behind.
ManagerInv ==
    /\ RecordInv
    /\ OrphanInv
    /\ RegisteredLoopLive
    /\ ConnectingHasDialer
    /\ CooldownHasCooler

\* All of it with the types, as the proofs use it.
ManagerSafety == TypeOK /\ ManagerInv

\* Every loop that may still dial is the one CancelReconnection and Disconnect
\* would cancel, but those that are cancelled already.
LiveLoopIsRegistered ==
    \A i \in Loops : loopPC[i] \notin {"idle", "finish"} /\ i \notin cancelled
                    => reconnecting = i

\* A connection waiting for its handshake is watched: a timer that will end
\* it, or a goroutine that is about to end or to finalize it.
ConnectedIsGuarded ==
    state = "Connected" /\ ~shut =>
        \/ \E t \in Timers : timers[t] \in {"armed", "firing"}
        \/ \E c \in Callers : pc[c] \in {"finalize", "closed"}

\* The goroutine that ends a cooldown ends it when it expired, not before.
CooldownExpiryIsReal ==
    [][\A t \in Timers : timers[t] \in {"waiting", "stale"}
                         /\ timers'[t] = "lost" => ~cooling]_vars

\* Reconnecting means that a loop is attempting to reconnect.
ReconnectingHasLoop ==
    state = "Reconnecting" /\ ~shut =>
        \E i \in Loops : loopPC[i] \notin {"idle", "finish"}

\* A loop that was cancelled no longer moves the connection.
CancelledLoopIsInert ==
    [][\A i \in Loops : i \in cancelled /\ loopPC[i] = "giveup"
                        /\ loopPC'[i] = "idle" => state' = state]_vars

\* Once BlacklistPeer and every other call returned, no connection to the
\* blacklisted peer is up.
BlacklistedIsClosed ==
    /\ book = "blacklisted"
    /\ \A c \in Callers : pc[c] = "idle"
    /\ \A i \in Loops : loopPC[i] = "idle"
    /\ \A t \in Timers : timers[t] \in {"idle", "armed"}
    => link = "none"

\* IsOutbound tells who opened the connection of an established session.
OutboundTellsDialer ==
    state = "Established" /\ link # "none" => (isOutbound <=> link = "out")

\* ConnectCtx lets a connect through once the cooldown is over.
ExpiredCooldownConnects ==
    state = "Cooldown" /\ ~cooling => CanTransitionTo(state, "Connecting")

-----------------------------------------------------------------------------
(* Liveness.                                                               *)

\* No goroutine that drives these states can be lost or blocked for ever.
ConnectingEnds == state = "Connecting" ~> state # "Connecting"
CooldownEnds == state = "Cooldown" ~> state # "Cooldown"

\* With a limit on the attempts every reconnection loop comes to an end.
LoopsEnd == \A i \in Loops : loopPC[i] # "idle" ~> loopPC[i] = "idle"
=============================================================================
