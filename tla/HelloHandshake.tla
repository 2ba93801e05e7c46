---------------------------- MODULE HelloHandshake ----------------------------
(***************************************************************************)
(* Two nodes that run the three-message handshake of                       *)
(* examples/blockberry-integration over the library: HelloRequest,         *)
(* HelloResponse and HelloFinalize on the handshake stream, PrepareStreams *)
(* and FinalizeHandshake on the Node, and the clean-up that the            *)
(* Disconnected events start.                                              *)
(*                                                                         *)
(* A handshake stream has an end at each node.  It is opened by the first  *)
(* Send that finds none open, and refused by a node that has one open.  A  *)
(* message travels on the wire of a stream into the inbox of the node (its *)
(* two channels, see MessagePath) and from there to handleMessages.        *)
(***************************************************************************)
EXTENDS Naturals, Sequences

CONSTANTS
  A, B,        \* the two nodes
  MaxStreams,  \* bound: handshake streams opened
  MaxCalls,    \* bound: calls of the application's Connect
  MaxFaults,   \* bound: losses, failed calls and early timeouts
  InboxSize,   \* the room for messages that wait for handleMessages
  NoProgress   \* the absence of an entry in a map of handshakes

ASSUME HelloAssumption ==
  /\ A # B
  /\ NoProgress \notin [got : BOOLEAN, sent : BOOLEAN]
  /\ MaxStreams \in Nat /\ MaxCalls \in Nat /\ MaxFaults \in Nat
  /\ InboxSize \in Nat \ {0}

Nodes == {A, B}
Other(n) == IF n = A THEN B ELSE A
Ids == 1 .. MaxStreams

VARIABLES
  chain,      \* the genesis hash and chain ID of each node
  faults,     \* the number of faults so far
  link,       \* the nodes have a libp2p connection
  conn,       \* the state of each node's PeerConnection for the other
  progress,   \* handshakes[peer] of each application
  prepared,   \* the stream manager has the key and the names of the streams
  peers,      \* the application counts the other among its peers
  end,        \* the stream in unencryptedStreams of each node, 0 for none
  reading,    \* streams whose read loop runs at each node
  arriving,   \* streams the other node opened, before their handler has run
  wire,       \* the messages on their way to each node, by stream
  inbox,      \* the messages in the channels of each node
  events,     \* Disconnected events before forwardEvents
  appEvents,  \* Disconnected events between forwardEvents and handleEvents
  pc,         \* where each application's handleMessages is
  app,        \* where each application's Connect is
  auto,       \* nodes with an AutoConnect goroutine that is still to run
  known,      \* nodes that have the other in their address book
  armed,      \* nodes whose PeerConnection has a handshake timer that runs
  tasks,      \* the goroutines of timeouts and reconnections, by stage
  loop,       \* nodes with a reconnection loop registered
  opened,     \* the number of streams opened
  calls,      \* the number of calls of the application's Connect
  cut,        \* nodes that had a Disconnected event
  robbed      \* nodes in StateConnected whose timer an older session stopped

netVars == <<link, end, reading, arriving, wire, inbox, opened>>
dialVars == <<app, auto, known, calls>>
taskVars == <<armed, tasks, loop, robbed>>
vars == <<chain, faults, link, conn, progress, prepared, peers, end, reading,
          arriving, wire, inbox, events, appEvents, pc, opened, cut, dialVars,
          taskVars>>

Progress(got, sent) == [got |-> got, sent |-> sent]

\* What a goroutine of the connection manager is about to do: a handshake
\* timer that nobody can stop any more finds out what the state is; its callback
\* stops the timer of the record, closes the connection and waits for the end
\* of the cooldown; then a reconnection is started; a loop that is no longer
\* registered and was not stopped dials.
Stages == {"fire", "stop", "close", "wait", "restart", "dial"}

Quiet == [n \in Nodes |-> [i \in Ids |-> <<>>]]

Init ==
  /\ chain \in [Nodes -> {"main", "test"}]
  /\ faults = 0
  /\ link = FALSE
  /\ conn = [n \in Nodes |-> "disconnected"]
  /\ progress = [n \in Nodes |-> NoProgress]
  /\ prepared = [n \in Nodes |-> FALSE]
  /\ peers = [n \in Nodes |-> FALSE]
  /\ end = [n \in Nodes |-> 0]
  /\ reading = [n \in Nodes |-> {}]
  /\ arriving = [n \in Nodes |-> {}]
  /\ wire = Quiet
  /\ inbox = [n \in Nodes |-> <<>>]
  /\ events = [n \in Nodes |-> 0]
  /\ appEvents = [n \in Nodes |-> 0]
  /\ pc = [n \in Nodes |-> "idle"]
  /\ app = [n \in Nodes |-> "idle"]
  /\ auto = {}
  /\ known = {}
  /\ armed = {}
  /\ tasks = [n \in Nodes |-> [s \in Stages |-> 0]]
  /\ loop = {}
  /\ opened = 0
  /\ calls = 0
  /\ cut = {}
  /\ robbed = {}

-----------------------------------------------------------------------------
Fault == faults < MaxFaults /\ faults' = faults + 1

\* setupHandshakeTimeout: a timer the record already has keeps running, and
\* nobody can stop it any more.
Overwritten(n, t) == IF n \in armed THEN [t EXCEPT ![n]["fire"] = @ + 1] ELSE t

Arm(n) ==
  /\ armed' = armed \cup {n}
  /\ tasks' = Overwritten(n, tasks)
  /\ robbed' = robbed \ {n}

\* The tasks once one of n's has gone from one stage to another.
Moved(n, from, to) == [tasks EXCEPT ![n][from] = @ - 1, ![n][to] = @ + 1]

(***************************************************************************)
(* The handshake stream.                                                   *)
(***************************************************************************)

\* The stream in n's map is there and not closed.
IsOpen(n) == end[n] \in reading[n]

\* Node.Send on the handshake stream: over the open stream, or over one that
\* is opened for it.  Every caller ignores an error, or returns it to a caller
\* that does; a fault may be one.
Send(n, m) ==
  \/ /\ IsOpen(n)
     /\ wire' = [wire EXCEPT ![Other(n)][end[n]] =
                   IF end[n] \in reading[Other(n)] \cup arriving[Other(n)]
                   THEN Append(@, [type |-> m, chain |-> chain[n]]) ELSE @]
     /\ UNCHANGED <<faults, end, reading, arriving, opened>>
  \/ /\ ~IsOpen(n) /\ link /\ opened < MaxStreams
     /\ opened' = opened + 1
     /\ end' = [end EXCEPT ![n] = opened + 1]
     /\ reading' = [reading EXCEPT ![n] = @ \cup {opened + 1}]
     /\ arriving' = [arriving EXCEPT ![Other(n)] = @ \cup {opened + 1}]
     /\ wire' = [wire EXCEPT ![Other(n)][opened + 1] = <<[type |-> m, chain |-> chain[n]]>>]
     /\ UNCHANGED faults
  \/ /\ \/ ~IsOpen(n) /\ (~link \/ opened = MaxStreams) /\ UNCHANGED faults
        \/ Fault
     /\ UNCHANGED <<end, reading, arriving, opened, wire>>

\* The handler of the handshake protocol at n: RegisterIncomingConnection,
\* then HandleIncomingHandshakeStream, which refuses a second open stream;
\* the stream is then reset at both ends.
Accept(n, i) ==
  /\ i \in arriving[n]
  /\ arriving' = [arriving EXCEPT ![n] = @ \ {i}]
  /\ IF conn[n] = "disconnected"
     THEN conn' = [conn EXCEPT ![n] = "connected"] /\ Arm(n)
     ELSE UNCHANGED <<conn, armed, tasks, robbed>>
  /\ IF IsOpen(n)
     THEN /\ reading' = [reading EXCEPT ![Other(n)] = @ \ {i}]
          /\ wire' = [m \in Nodes |-> [wire[m] EXCEPT ![i] = <<>>]]
          /\ UNCHANGED end
     ELSE /\ reading' = [reading EXCEPT ![n] = @ \cup {i}]
          /\ end' = [end EXCEPT ![n] = i]
          /\ UNCHANGED wire
  /\ UNCHANGED <<chain, faults, link, progress, prepared, peers, inbox, events,
                 appEvents, pc, opened, cut, dialVars, loop>>

\* A read loop moves a message into the channels, or drops it when they are
\* full, which is a fault here.
Read(n, i) ==
  /\ i \in reading[n] /\ wire[n][i] # <<>>
  /\ \/ /\ Len(inbox[n]) < InboxSize
        /\ inbox' = [inbox EXCEPT ![n] = Append(@, Head(wire[n][i]))]
        /\ UNCHANGED faults
     \/ Fault /\ UNCHANGED inbox
  /\ wire' = [wire EXCEPT ![n][i] = Tail(@)]
  /\ UNCHANGED <<chain, link, conn, progress, prepared, peers, end,
                 reading, arriving, events, appEvents, pc, opened, cut, dialVars, taskVars>>

\* The other end was closed and all it sent is read: markClosed.
ReadEOF(n, i) ==
  /\ i \in reading[n] /\ wire[n][i] = <<>>
  /\ i \notin reading[Other(n)] \cup arriving[Other(n)]
  /\ reading' = [reading EXCEPT ![n] = @ \ {i}]
  /\ UNCHANGED <<chain, faults, link, conn, progress, prepared, peers, end,
                 arriving, wire, inbox, events, appEvents, pc, opened, cut,
                 dialVars, taskVars>>

\* Close of n's end: the read loop ends, what arrives later is not read, and
\* what was sent still reaches the other end.
ClosedAt(n) == [reading EXCEPT ![n] = @ \ {end[n]}]
WithoutInput(n) ==
  [wire EXCEPT ![n] = [i \in Ids |-> IF i = end[n] THEN <<>> ELSE @[i]]]

\* The libp2p connection is closed: every stream on it is reset.
Unlink ==
  /\ link' = FALSE
  /\ reading' = [n \in Nodes |-> {}]
  /\ arriving' = [n \in Nodes |-> {}]
  /\ wire' = Quiet

-----------------------------------------------------------------------------
(***************************************************************************)
(* Dialling.                                                               *)
(***************************************************************************)

\* A Disconnected event is emitted; EmitEvent does not wait.
Emit(n) ==
  /\ events' = [events EXCEPT ![n] = @ + 1]
  /\ cut' = cut \cup {n}

\* Connect of the application, for a peer that is not active, up to AddPeer:
\* the handshake gets a new entry and AutoConnect starts a goroutine.  Bound:
\* one such goroutine per node at a time.
Connect(n) ==
  /\ app[n] = "idle" /\ n \notin auto
  /\ conn[n] \notin {"connected", "established"}
  /\ calls < MaxCalls
  /\ calls' = calls + 1
  /\ progress' = [progress EXCEPT ![n] = Progress(FALSE, FALSE)]
  /\ known' = known \cup {n}
  /\ auto' = auto \cup {n}
  /\ app' = [app EXCEPT ![n] = "connect"]
  /\ UNCHANGED <<chain, faults, link, conn, prepared, peers, end, reading,
                 arriving, wire, inbox, events, appEvents, pc, opened, cut,
                 taskVars>>

\* ConnectCtx in the connection manager lets no call through that finds the
\* peer active or in cooldown.
MayDial(n) == conn[n] \in {"disconnected", "reconnecting"}

\* host.Connect succeeds: StateConnected, with a handshake timer.
DialSucceeds(n) ==
  /\ MayDial(n)
  /\ conn' = [conn EXCEPT ![n] = "connected"]
  /\ link' = TRUE
  /\ Arm(n)
  /\ UNCHANGED <<faults, events, cut>>

\* It fails: handleConnectFailure, and a reconnection is next.
DialFails(n) ==
  /\ MayDial(n) /\ ~link
  /\ Fault
  /\ conn' = [conn EXCEPT ![n] = "disconnected"]
  /\ Emit(n)
  /\ tasks' = [tasks EXCEPT ![n]["restart"] = @ + 1]
  /\ UNCHANGED <<link, armed, robbed>>

DialRefused(n) ==
  /\ ~MayDial(n)
  /\ UNCHANGED <<faults, link, conn, events, cut, armed, tasks, robbed>>

\* Node.Connect of the application: only if it succeeds is a HelloRequest next.
ConnectDials(n) ==
  /\ app[n] = "connect"
  /\ \/ DialSucceeds(n) /\ app' = [app EXCEPT ![n] = "hello"]
     \/ (DialFails(n) \/ DialRefused(n)) /\ app' = [app EXCEPT ![n] = "idle"]
  /\ UNCHANGED <<chain, progress, prepared, peers, end, reading, arriving, wire,
                 inbox, appEvents, pc, opened, auto, known, calls, loop>>

\* The goroutine of AutoConnect.  When it overtakes the application's Connect,
\* that one returns an error and nobody sends a HelloRequest.
AutoConnect(n) ==
  /\ n \in auto
  /\ auto' = auto \ {n}
  /\ DialSucceeds(n) \/ DialFails(n) \/ DialRefused(n)
  /\ UNCHANGED <<chain, progress, prepared, peers, end, reading, arriving, wire,
                 inbox, appEvents, pc, opened, app, known, calls, loop>>

\* sendHelloRequest.
SendHelloRequest(n) ==
  /\ app[n] = "hello"
  /\ app' = [app EXCEPT ![n] = "idle"]
  /\ progress' = [progress EXCEPT ![n] =
                    IF @ = NoProgress THEN @ ELSE [@ EXCEPT !.sent = TRUE]]
  /\ Send(n, "request")
  /\ UNCHANGED <<chain, link, conn, prepared, peers, inbox, events, appEvents,
                 pc, cut, auto, known, calls, taskVars>>

-----------------------------------------------------------------------------
(***************************************************************************)
(* Timeouts and reconnections.                                             *)
(***************************************************************************)

\* A call, a message, an event or a goroutine has a step to take at once.
Busy ==
  \E n \in Nodes :
    \/ app[n] # "idle" \/ n \in auto \/ pc[n] # "idle"
    \/ arriving[n] # {} \/ wire[n] # [i \in Ids |-> <<>>] \/ inbox[n] # <<>>
    \/ events[n] > 0 \/ appEvents[n] > 0
    \/ \E s \in Stages \ {"wait", "dial"} : tasks[n][s] > 0

\* Handshake timeouts, cooldowns and backoff delays are long: one that runs out
\* while there is something to do is a fault.
RunsOut == IF Busy THEN Fault ELSE UNCHANGED faults

\* The handshake timer of n's record runs out and its callback finds its context
\* not cancelled.
TimerFires(n) ==
  /\ n \in armed
  /\ RunsOut
  /\ armed' = armed \ {n}
  /\ tasks' = [tasks EXCEPT ![n]["fire"] = @ + 1]
  /\ UNCHANGED <<chain, link, conn, progress, prepared, peers, end, reading,
                 arriving, wire, inbox, events, appEvents, pc, opened, cut,
                 dialVars, loop, robbed>>

\* Mutant: a handshake that has got its hello is left alone.
HandshakeTimesOutBeforeHello(n) ==
  /\ tasks[n]["fire"] > 0
  /\ IF conn[n] = "connected" /\ (progress[n] # NoProgress => ~progress[n].got)
     THEN /\ conn' = [conn EXCEPT ![n] = "cooldown"]
          /\ tasks' = Moved(n, "fire", "stop")
     ELSE /\ tasks' = [tasks EXCEPT ![n]["fire"] = @ - 1]
          /\ UNCHANGED conn
  /\ UNCHANGED <<chain, faults, link, progress, prepared, peers, end, reading,
                 arriving, wire, inbox, events, appEvents, pc, opened, cut,
                 dialVars, armed, loop, robbed>>

\* handleHandshakeTimeout: the locked section, on whatever session there is.
HandshakeTimesOut(n) ==
  /\ tasks[n]["fire"] > 0
  /\ IF conn[n] = "connected"
     THEN /\ conn' = [conn EXCEPT ![n] = "cooldown"]
          /\ tasks' = Moved(n, "fire", "stop")
     ELSE /\ tasks' = [tasks EXCEPT ![n]["fire"] = @ - 1]
          /\ UNCHANGED conn
  /\ UNCHANGED <<chain, faults, link, progress, prepared, peers, end, reading,
                 arriving, wire, inbox, events, appEvents, pc, opened, cut,
                 dialVars, armed, loop, robbed>>

\* The callback stops the timer of the record, which may by now be the one of
\* a newer session.
TimeoutCancelsTimer(n) ==
  /\ tasks[n]["stop"] > 0
  /\ tasks' = Moved(n, "stop", "close")
  /\ armed' = armed \ {n}
  /\ robbed' = IF n \in armed /\ conn[n] = "connected" THEN robbed \cup {n} ELSE robbed
  /\ UNCHANGED <<chain, faults, link, conn, progress, prepared, peers, end,
                 reading, arriving, wire, inbox, events, appEvents, pc, opened,
                 cut, dialVars, loop>>

\* host.Disconnect, then scheduleReconnectAfterCooldown.
TimeoutDisconnects(n) ==
  /\ tasks[n]["close"] > 0
  /\ tasks' = Moved(n, "close", "wait")
  /\ Unlink
  /\ UNCHANGED <<chain, faults, conn, progress, prepared, peers, end, inbox,
                 events, appEvents, pc, opened, cut, dialVars, armed, loop,
                 robbed>>

\* The goroutine that waits for the end of a cooldown.
CooldownExpires(n) ==
  /\ tasks[n]["wait"] > 0
  /\ RunsOut
  /\ IF conn[n] = "cooldown"
     THEN /\ conn' = [conn EXCEPT ![n] = "disconnected"]
          /\ Emit(n)
          /\ tasks' = Moved(n, "wait", "restart")
     ELSE /\ tasks' = [tasks EXCEPT ![n]["wait"] = @ - 1]
          /\ UNCHANGED <<conn, events, cut>>
  /\ UNCHANGED <<chain, link, progress, prepared, peers, end, reading,
                 arriving, wire, inbox, appEvents, pc, opened, dialVars, armed,
                 loop, robbed>>

\* startReconnection: a loop, if none is registered, whatever the state is.
StartReconnection(n) ==
  /\ tasks[n]["restart"] > 0
  /\ tasks' = [tasks EXCEPT ![n]["restart"] = @ - 1]
  /\ loop' = loop \cup {n}
  /\ conn' = [conn EXCEPT ![n] =
                IF n \notin loop /\ @ \in {"disconnected", "cooldown"}
                THEN "reconnecting" ELSE @]
  /\ UNCHANGED <<chain, faults, link, progress, prepared, peers, end, reading,
                 arriving, wire, inbox, events, appEvents, pc, opened, cut,
                 dialVars, armed, robbed>>

\* A loop runs: the registered one, or one that lost its registration.
LoopRuns(n) == n \in loop \/ tasks[n]["dial"] > 0

\* A loop ends and deletes the registration, its own or not; a registered loop
\* that still runs is then among the others.
LoopDone(n) == IF n \in loop THEN tasks ELSE [tasks EXCEPT ![n]["dial"] = @ - 1]

\* attemptReconnect succeeds, which needs the peer in the address book.  No
\* state it may find has a transition to Connected, an error it ignores.
LoopDials(n) ==
  /\ LoopRuns(n) /\ n \in known
  /\ RunsOut
  /\ link' = TRUE
  /\ armed' = armed \cup {n}
  /\ tasks' = Overwritten(n, LoopDone(n))
  /\ robbed' = robbed \ {n}
  /\ loop' = loop \ {n}
  /\ UNCHANGED <<chain, conn, progress, prepared, peers, end, reading,
                 arriving, wire, inbox, events, appEvents, pc, opened, cut,
                 dialVars>>

\* handleReconnectionExhausted: all attempts failed, as they do without an
\* entry in the address book and are a fault with one.
LoopGivesUp(n) ==
  /\ LoopRuns(n)
  /\ IF n \in known THEN Fault ELSE RunsOut
  /\ conn' = [conn EXCEPT ![n] = "disconnected"]
  /\ Emit(n)
  /\ tasks' = LoopDone(n)
  /\ loop' = loop \ {n}
  /\ UNCHANGED <<chain, link, progress, prepared, peers, end, reading, arriving,
                 wire, inbox, appEvents, pc, opened, dialVars, armed, robbed>>

\* The connection fails.  No code tells the connection manager.
LinkDrops ==
  /\ link /\ Fault
  /\ Unlink
  /\ UNCHANGED <<chain, conn, progress, prepared, peers, end, inbox,
                 events, appEvents, pc, opened, cut, dialVars, taskVars>>

\* forwardEvents: cleanupPeerResources, then the application's channel.
ForwardEvent(n) ==
  /\ events[n] > 0
  /\ events' = [events EXCEPT ![n] = @ - 1]
  /\ appEvents' = [appEvents EXCEPT ![n] = @ + 1]
  /\ prepared' = [prepared EXCEPT ![n] = FALSE]
  /\ reading' = ClosedAt(n)
  /\ wire' = WithoutInput(n)
  /\ end' = [end EXCEPT ![n] = 0]
  /\ UNCHANGED <<chain, faults, link, conn, progress, peers, arriving, inbox,
                 pc, opened, cut, dialVars, taskVars>>

\* handleEvents of the application.
HandleEvent(n) ==
  /\ appEvents[n] > 0
  /\ appEvents' = [appEvents EXCEPT ![n] = @ - 1]
  /\ peers' = [peers EXCEPT ![n] = FALSE]
  /\ progress' = [progress EXCEPT ![n] = NoProgress]
  /\ UNCHANGED <<chain, faults, link, conn, prepared, end, reading, arriving,
                 wire, inbox, events, pc, opened, cut, dialVars, taskVars>>

-----------------------------------------------------------------------------
(***************************************************************************)
(* handleMessages of the application, one message at a time.  pc[n] is the *)
(* call it is about to make.                                               *)
(***************************************************************************)

\* The entry of the handshake, made when there is none.
Entry(n) == IF progress[n] = NoProgress THEN Progress(FALSE, FALSE) ELSE progress[n]

Receive(n, type) ==
  /\ pc[n] = "idle"
  /\ inbox[n] # <<>> /\ Head(inbox[n]).type = type
  /\ inbox' = [inbox EXCEPT ![n] = Tail(@)]

Goto(n, label) == pc' = [pc EXCEPT ![n] = label]

\* Mutant: the genesis hash alone is compared, and the chains share it.
SameChainByGenesis(n) == inbox[n] # <<>>

\* The hello is of this node's chain.
SameChain(n) == Head(inbox[n]).chain = chain[n]

\* A HelloRequest or HelloResponse of another chain: Disconnect, which first
\* calls cleanupPeerResources.
Mismatch(n) ==
  /\ \E type \in {"request", "response"} : Receive(n, type)
  /\ ~SameChain(n)
  /\ progress' = [progress EXCEPT ![n] = Entry(n)]
  /\ prepared' = [prepared EXCEPT ![n] = FALSE]
  /\ reading' = ClosedAt(n)
  /\ wire' = WithoutInput(n)
  /\ end' = [end EXCEPT ![n] = 0]
  /\ Goto(n, "disconnect")
  /\ UNCHANGED <<chain, faults, link, conn, peers, arriving, events, appEvents,
                 opened, cut, dialVars, taskVars>>

\* The rest of Disconnect, in the connection manager.  A registered loop is
\* cancelled, which does not stop one that is past its wait.
Disconnect(n) ==
  /\ pc[n] = "disconnect"
  /\ Goto(n, "idle")
  /\ conn' = [conn EXCEPT ![n] = "disconnected"]
  /\ armed' = armed \ {n}
  /\ loop' = loop \ {n}
  /\ \/ UNCHANGED tasks
     \/ n \in loop /\ tasks' = [tasks EXCEPT ![n]["dial"] = @ + 1]
  /\ Unlink
  /\ Emit(n)
  /\ UNCHANGED <<chain, faults, progress, prepared, peers, end, inbox,
                 appEvents, opened, dialVars, robbed>>

HandleHelloRequest(n) ==
  /\ Receive(n, "request")
  /\ SameChain(n)
  /\ progress' = [progress EXCEPT ![n] = [Entry(n) EXCEPT !.got = TRUE]]
  /\ Goto(n, "respond")
  /\ UNCHANGED <<chain, faults, link, conn, prepared, peers, end, reading,
                 arriving, wire, events, appEvents, opened, cut, dialVars, taskVars>>

\* sendHelloResponse looks the entry up again: the clean-up of an earlier
\* session may have removed it.
SendHelloResponse(n) ==
  /\ pc[n] = "respond"
  /\ progress' = [progress EXCEPT ![n] =
                    IF @ = NoProgress THEN @ ELSE [@ EXCEPT !.sent = TRUE]]
  /\ Send(n, "response")
  /\ Goto(n, "idle")
  /\ UNCHANGED <<chain, link, conn, prepared, peers, inbox, events,
                 appEvents, cut, dialVars, taskVars>>

\* Node.PrepareStreams, and its failure, which ends the handler of a message.
Prepared(n) == prepared' = [prepared EXCEPT ![n] = TRUE] /\ UNCHANGED faults
PrepareFails == Fault /\ UNCHANGED prepared

\* Mutant: the initiator leaves PrepareStreams for later.
HandleHelloResponseUnprepared(n) ==
  /\ Receive(n, "response")
  /\ SameChain(n)
  /\ progress' = [progress EXCEPT ![n] = [Entry(n) EXCEPT !.got = TRUE]]
  /\ Goto(n, "finalize")
  /\ UNCHANGED <<chain, faults, link, conn, prepared, peers, end, reading,
                 arriving, wire, events, appEvents, opened, cut, dialVars, taskVars>>

\* The initiator prepares its streams, and only then sends HelloFinalize.
HandleHelloResponse(n) ==
  /\ Receive(n, "response")
  /\ SameChain(n)
  /\ progress' = [progress EXCEPT ![n] = [Entry(n) EXCEPT !.got = TRUE]]
  /\ \/ Prepared(n) /\ Goto(n, "finalize")
     \/ PrepareFails /\ Goto(n, "idle")
  /\ UNCHANGED <<chain, link, conn, peers, end, reading, arriving, wire,
                 events, appEvents, opened, cut, dialVars, taskVars>>

\* Mutant: the echo is sent before the streams are prepared.
HandleHelloFinalizeUnprepared(n) ==
  /\ Receive(n, "finalize")
  /\ LET p == Entry(n)
     IN /\ progress' = [progress EXCEPT ![n] = p]
        /\ Goto(n, IF p.got /\ p.sent THEN "echo" ELSE IF p.got THEN "finish" ELSE "idle")
  /\ UNCHANGED <<chain, faults, link, conn, prepared, peers, end, reading, arriving,
                 wire, events, appEvents, opened, cut, dialVars, taskVars>>

\* HelloFinalize before a hello is dropped.  A node that has sent its hello,
\* the initiator too, prepares its streams and echoes HelloFinalize.
HandleHelloFinalize(n) ==
  /\ Receive(n, "finalize")
  /\ LET p == Entry(n)
         echo == p.got /\ p.sent
     IN /\ progress' = [progress EXCEPT ![n] = p]
        /\ \/ echo /\ Prepared(n) /\ Goto(n, "echo")
           \/ echo /\ PrepareFails /\ Goto(n, "idle")
           \/ /\ ~echo
              /\ Goto(n, IF p.got THEN "finish" ELSE "idle")
              /\ UNCHANGED <<prepared, faults>>
  /\ UNCHANGED <<chain, link, conn, peers, end, reading, arriving, wire,
                 events, appEvents, opened, cut, dialVars, taskVars>>

\* sendHelloFinalize, from either of its callers.
SendHelloFinalize(n) ==
  /\ pc[n] \in {"finalize", "echo"}
  /\ Send(n, "finalize")
  /\ Goto(n, IF pc[n] = "echo" THEN "finish" ELSE "idle")
  /\ UNCHANGED <<chain, link, conn, progress, prepared, peers, inbox,
                 events, appEvents, cut, dialVars, taskVars>>

\* Mutant: FinalizeHandshake without CloseHandshakeStream.
FinalizeHandshakeLeavesStream(n) ==
  /\ pc[n] = "finish"
  /\ conn' = [conn EXCEPT ![n] = IF @ = "connected" THEN "established" ELSE @]
  /\ armed' = armed \ {n}
  /\ Goto(n, IF conn[n] = "connected" THEN "addPeer" ELSE "idle")
  /\ UNCHANGED <<chain, faults, link, progress, prepared, peers, end, reading,
                 arriving, wire, inbox, events, appEvents, opened, cut,
                 dialVars, tasks, loop, robbed>>

\* FinalizeHandshake: CancelHandshakeTimeout, CloseHandshakeStream, and then
\* MarkEstablished, whose error ends the handler with the handshake still in
\* the map.
FinalizeHandshake(n) ==
  /\ pc[n] = "finish"
  /\ reading' = ClosedAt(n)
  /\ wire' = WithoutInput(n)
  /\ end' = [end EXCEPT ![n] = 0]
  /\ conn' = [conn EXCEPT ![n] = IF @ = "connected" THEN "established" ELSE @]
  /\ armed' = armed \ {n}
  /\ Goto(n, IF conn[n] = "connected" THEN "addPeer" ELSE "idle")
  /\ UNCHANGED <<chain, faults, link, progress, prepared, peers, arriving,
                 inbox, events, appEvents, opened, cut, dialVars, tasks, loop,
                 robbed>>

\* The peer is added to peers and its handshake removed from the map.
AddPeer(n) ==
  /\ pc[n] = "addPeer"
  /\ peers' = [peers EXCEPT ![n] = TRUE]
  /\ progress' = [progress EXCEPT ![n] = NoProgress]
  /\ Goto(n, "idle")
  /\ UNCHANGED <<chain, faults, link, conn, prepared, end, reading, arriving,
                 wire, inbox, events, appEvents, opened, cut, dialVars, taskVars>>

HandleMessages(n) ==
  \/ Mismatch(n) \/ Disconnect(n)
  \/ HandleHelloRequest(n) \/ SendHelloResponse(n)
  \/ HandleHelloResponse(n) \/ HandleHelloFinalize(n) \/ SendHelloFinalize(n)
  \/ FinalizeHandshake(n) \/ AddPeer(n)

-----------------------------------------------------------------------------
(***************************************************************************)
(* The specification.                                                      *)
(***************************************************************************)

Environment ==
  \/ \E n \in Nodes : Connect(n)
  \/ LinkDrops

Streams(n) == \E i \in Ids : Accept(n, i) \/ Read(n, i) \/ ReadEOF(n, i)

Dialling(n) == ConnectDials(n) \/ AutoConnect(n) \/ SendHelloRequest(n)

Timers(n) ==
  \/ TimerFires(n) \/ HandshakeTimesOut(n) \/ TimeoutCancelsTimer(n)
  \/ TimeoutDisconnects(n) \/ CooldownExpires(n)

Reconnection(n) == StartReconnection(n) \/ LoopDials(n) \/ LoopGivesUp(n)

Events(n) == ForwardEvent(n) \/ HandleEvent(n)

Step(n) ==
  \/ Streams(n) \/ Dialling(n) \/ Timers(n) \/ Reconnection(n)
  \/ Events(n) \/ HandleMessages(n)

Next ==
  \/ Environment
  \/ \E n \in Nodes : Step(n)

Spec == Init /\ [][Next]_vars

\* A node that can take a step takes one: weaker than what the scheduler does
\* for each of its goroutines and timers.  Nobody is made to connect, and the
\* connection does not have to fail.
Fairness == \A n \in Nodes : WF_vars(Step(n))

FairSpec == Spec /\ Fairness

-----------------------------------------------------------------------------
(***************************************************************************)
(* Properties.                                                             *)
(***************************************************************************)

Chains == {"main", "test"}
Messages == [type : {"request", "response", "finalize"}, chain : Chains]
Entries == [got : BOOLEAN, sent : BOOLEAN] \cup {NoProgress}

\* The type invariant of the two nodes and the streams between them.
TypeOK ==
  /\ chain \in [Nodes -> Chains]
  /\ faults \in 0 .. MaxFaults /\ link \in BOOLEAN
  /\ conn \in [Nodes -> {"disconnected", "connected", "established", "cooldown",
                         "reconnecting"}]
  /\ progress \in [Nodes -> Entries]
  /\ prepared \in [Nodes -> BOOLEAN] /\ peers \in [Nodes -> BOOLEAN]
  /\ end \in [Nodes -> 0 .. MaxStreams]
  /\ reading \in [Nodes -> SUBSET Ids] /\ arriving \in [Nodes -> SUBSET Ids]
  /\ wire \in [Nodes -> [Ids -> Seq(Messages)]]
  /\ inbox \in [Nodes -> Seq(Messages)]
  /\ events \in [Nodes -> Nat] /\ appEvents \in [Nodes -> Nat]
  /\ pc \in [Nodes -> {"idle", "respond", "finalize", "echo", "finish", "addPeer",
                       "disconnect"}]
  /\ app \in [Nodes -> {"idle", "connect", "hello"}]
  /\ auto \in SUBSET Nodes /\ known \in SUBSET Nodes
  /\ armed \in SUBSET Nodes /\ loop \in SUBSET Nodes
  /\ tasks \in [Nodes -> [Stages -> Nat]]
  /\ opened \in 0 .. MaxStreams /\ calls \in 0 .. MaxCalls
  /\ cut \in SUBSET Nodes /\ robbed \in SUBSET Nodes

\* FinalizeHandshake "should be called after receiving confirmation [...]
\* indicating they have also called PrepareStreams": when a node is
\* Established, both nodes have prepared their streams, unless the clean-up of
\* a Disconnected event of a node has undone it.
EstablishedMeansPrepared ==
  \A n \in Nodes : conn[n] = "established" =>
    \A m \in Nodes \ cut : prepared[m]

\* "Must match for nodes to connect": whatever is lost, repeated or left over
\* from an earlier session, no node of another chain is Established or a peer.
NoCrossChainPeers ==
  \A n \in Nodes : conn[n] = "established" \/ peers[n] => chain[A] = chain[B]

Same == chain[A] = chain[B]
Ready(n) == n \in cut \/ prepared[n]
AllReady == \A n \in Nodes : Ready(n)
Contains(q, m) == \E k \in 1 .. Len(q) : q[k] = m

\* The other node may have got a HelloRequest of n: n is dialling or was
\* connected, and its handshake is marked as sent, unless it is over.
Greeted(n) ==
  /\ n \in cut \/ conn[n] # "disconnected"
  /\ \/ Ready(n) \/ conn[n] = "cooldown"
     \/ progress[n] # NoProgress /\ progress[n].sent

\* A message on its way to n.
MessageInv(n, m) ==
  /\ m.chain = chain[Other(n)]
  /\ m.type = "finalize" => Same /\ Ready(Other(n))
  /\ m.type = "response" => Greeted(n)
  /\ m.type = "request" => Greeted(Other(n))

WireInv == \A n \in Nodes, i \in Ids, m \in Messages : Contains(wire[n][i], m) => MessageInv(n, m)
InboxInv == \A n \in Nodes, m \in Messages : Contains(inbox[n], m) => MessageInv(n, m)

\* A node that got a hello is on the other's chain and has sent its own hello,
\* is about to, has prepared its streams or has timed out.
ProgressOK(n) ==
  progress[n] # NoProgress /\ progress[n].got =>
    Same /\ \/ progress[n].sent \/ pc[n] = "respond"
            \/ Ready(n) \/ conn[n] = "cooldown"

ProgressInv == \A n \in Nodes : ProgressOK(n)

\* What the next call of the handler relies on.
HandlerOK(n) ==
  /\ pc[n] = "respond" => Same /\ Greeted(Other(n))
  /\ pc[n] = "finalize" => Same /\ Ready(n)
  /\ pc[n] \in {"echo", "addPeer"} => Same /\ AllReady
  /\ pc[n] = "finish" => /\ Same /\ Ready(Other(n))
                         /\ Ready(n) \/ conn[n] = "cooldown"

HandlerInv == \A n \in Nodes : HandlerOK(n)

\* What the application's Connect relies on.
ConnectOK(n) ==
  /\ app[n] # "idle" => progress[n] # NoProgress \/ Ready(n)
  /\ app[n] = "hello" => n \in cut \/ conn[n] # "disconnected"

ConnectInv == \A n \in Nodes : ConnectOK(n)

EstablishedInv ==
  \A n \in Nodes :
    /\ conn[n] = "established" => Same /\ AllReady
    /\ peers[n] => Same

PreparedInv == \A n \in Nodes : prepared[n] => Same

\* Nothing undoes a session but after a Disconnected event.
EventOK(n) ==
  \/ events[n] > 0 \/ appEvents[n] > 0
  \/ tasks[n]["restart"] > 0 \/ conn[n] = "reconnecting"
  => n \in cut

EventInv == \A n \in Nodes : EventOK(n)

\* What a HelloFinalize, wherever it is, says about the node that sent it: it
\* is on the same chain and has prepared its streams, unless a Disconnected
\* event has come since, and what a HelloRequest or HelloResponse says about the
\* node that initiated.  With the progress of each handler this is what makes
\* EstablishedMeansPrepared and NoCrossChainPeers inductive, also when
\* PrepareStreams fails.
HelloInv ==
  /\ TypeOK
  /\ WireInv /\ InboxInv
  /\ ProgressInv /\ HandlerInv /\ ConnectInv /\ EstablishedInv
  /\ PreparedInv /\ EventInv

\* Without faults one call of Connect settles for good.  If the application's
\* Connect is not overtaken by AddPeer's AutoConnect and the nodes are of one
\* chain, both are Established and peers of each other, and every handshake
\* stream is closed, the one that the initiator's second HelloFinalize opens
\* too.  Otherwise nobody is connected and no trace of a handshake is left; the
\* node that dialled is in Reconnecting, the state that its reconnection after
\* the cooldown does not get out of.
ConnectSettles ==
  <>[](faults = 0 /\ calls = 1 =>
         \A n \in Nodes :
           /\ reading[n] = {}
           /\ IF Same /\ opened > 0
              THEN conn[n] = "established" /\ peers[n]
              ELSE /\ conn[n] = IF n \in known THEN "reconnecting" ELSE "disconnected"
                   /\ progress[n] = NoProgress /\ ~prepared[n] /\ ~peers[n])

\* Whatever is lost, refused or reset, also when both nodes initiate and each
\* refuses the other's stream, no handshake stays under way: every node leaves
\* StateConnected again, unless the clean-up of an earlier session's timeout
\* has stopped its timer.
HandshakesEnd ==
  \A n \in Nodes : []<>(conn[n] # "connected" \/ n \in robbed)

=============================================================================
