# Glueberry: a TLA+ verification project

Glueberry is a Go library for peer-to-peer nodes over libp2p: it keeps an address
book, connects and reconnects peers, lets the application do a handshake over
an unencrypted stream, and then carries encrypted messages over named streams.
This directory models the parts of it that are concurrent or survive failures,
checks them with TLC, and proves the central invariants with TLAPS.

`PROJECT.json` maps every definition to the lines it models, lists the runs,
the mutants that show each property can fail, the disagreements found between
comments and code, the hazards, and the theorems.

## 1. Inventory

| Component | State | Operations | Hard behaviour | What makes it correct |
|---|---|---|---|---|
| Connection manager (`pkg/connection`) | per peer: record, state, direction, handshake timer, cooldown; the registered reconnection loop | ConnectCtx, DisconnectCtx, CancelReconnection, RegisterIncomingConnection, CancelHandshakeTimeout, MarkEstablished, OnDisconnect, Shutdown; timeout, cooldown and reconnection goroutines | all of these run at once, and dial or wait without the lock | every temporary state has a goroutine that will end it; a goroutine of an old session does not act on a newer one |
| Flow control (`internal/flow`) | pending, blocked, unblockCh, closed | Acquire, Release, Close; creation in Node.SendCtx | broadcast by closing a channel; watermarks at their limits | never above the high watermark, no lost wake-up, no panic |
| Events (`internal/eventdispatch`, `node.go`) | the internal and the external channel, the registry of subscriptions, the subscriptions' channels and contexts | EmitEvent, forwardEvents, SubscribeEvents, FilteredEvents, Unsubscribe, Stop | one goroutine sends on channels that others close | no send on, and no second close of, a closed channel; nothing after Unsubscribe; a slow receiver holds up nobody |
| Address book (`pkg/addressbook`) | the map in memory, dirty, the file, the temporary file, the file lock | AddPeer, RemovePeer, BlacklistPeer, ..., Flush, Reload, Close; the flush loop | crashes and failures between system calls, two books on one path | the file is always whole; what is not dirty is saved |
| Stream manager (`pkg/streams`) and key cache (`pkg/crypto/module.go`) | keys, allowed names, streams; each stream's flag, cipher and read loop; the cache | EstablishStreams, SendCtx, incoming handlers, CloseStreams, CloseHandshakeStream, Shutdown; DeriveSharedKey, RemovePeerKey, Close | streams are opened without the lock, key slices are shared and zeroed in place | no stream is lost, no cipher is closed in use, no zeroed key is used, nothing survives a cleanup |
| Node lifecycle (`node.go`, `config.go`) | the Config, started, the context, which component is open | New, Start, Stop, the calls admitted before Stop; Validate, applyDefaults | New and Stop fail in the middle; the key slice is shared with the Config and zeroed in place | a running host keeps its key, a failed Stop can be retried, the defaults make a usable configuration |
| Message path (`node.go`, read loops) | two bounded channels, a message in each loop's hands | read, decrypt, push, forward, drop, close, stop | full channels, a select with a cancelled context | order is kept, nothing is delivered twice, every loss is accounted for, Messages() is closed |
| Peer statistics (`stats.go`, `node.go`) | the map of trackers, each tracker's counters and its warned flag | getOrCreatePeerStats, RecordMessageSent/Received, the hourly cleanup | two locks, a callback after the unlock, a tracker dropped between look-up and record | every message is counted, the nonce warning comes once |
| Application handshake (`examples/blockberry-integration`) | the handshakes in progress, the peers, on two nodes | Connect, the three hello messages, timeout, cooldown and reconnection, the clean-up by events | Connect races with the AutoConnect of AddPeer, both sides initiate, messages and timers are lost or left over from an earlier session, events are stale | Established means prepared on both sides, no peer of another chain, every handshake ends |
| Protocol host and gater (`pkg/protocol`) | a thin layer over libp2p | Connect, Disconnect, NewStream, Intercept* | both sides dial at once | one connection stays |
| Handshake state machine (`internal/handshake`) | state, retries | Transition, TransitionWithRetry, Fail, Reset | none: one lock, no caller in the library | terminal states, bounded retries |
| Buffer pool, cipher, keys, health, metrics, validation | | | sequential | |

How they interact.  The application calls Node.  Node calls the connection
manager (which dials through the host, asks the gater's question of the address
book, and emits events), the crypto module and the stream manager.  Events go
through the dispatcher to `forwardEvents`, which cleans up the streams and the
key of a disconnected peer and sends to the application.  libp2p calls the
incoming handlers.  Shared state: the address book (read by manager, gater and
Node), the key slices (stream manager, streams, crypto module, and the
application's own Config).  Node.SendCtx and the message forwarder share the
peer statistics.

## 2. Modules

Each component has a module `X.tla`, instances for TLC in `MCX.tla`, and its
theorems in `XProofs.tla`.  Four modules are used by others: `PeerStats` by
MessagePath, `Config` by NodeLifecycle, and two abstract specifications,
`LossyFifo`, which MessagePath implements, and `WatermarkGate`, which
FlowController implements.  The models of the connection manager,
flow control, the address book and the stream manager are about one peer, one
stream name or one path: the code keeps these in maps
keyed by peer, name or path and no operation reads two entries together, except
Shutdown, which treats them alike.  HelloHandshake composes two nodes.

In the modules whose invariant is inductive, `XInv` is the invariant and `XSafety`
(`FlowSafety`, `StreamSafety`, ...) is `TypeOK /\ XInv`, the formula the
runs check and the theorems prove.  `ManagerSafety` is in the proofs only: what it
adds to the properties of its run is bookkeeping about records and orphaned
callers.

General conventions.

* A step is what one goroutine does between two points where it holds no lock;
  a value it carries over such a point is a variable (`pc`, `handle`, `alias`,
  ...).  A call that only returns an error has no action.
* `Ops` says which operations are called, so a run can concentrate on the
  actors that meet in its question.  An operation left out of a run is in
  another one; together the passing runs take every action.
* The sets of timers, loops, controllers and streams bound how many
  of them are alive at once, not how many are made in all: a slot is used again.
* Definitions marked "Mutant" are used by no specification.

**ConnectionManager.**  `state`, `entry`, `isOutbound`, `hsTimer` and `cooling`
are the fields of `PeerConnection`; `reconnecting` is the entry of the manager's
map, and `loopPC`, `attempts`, `cancelled` the loops that ever were registered and
still run.  `timers` holds, for each handshake timer, the goroutine it becomes:
armed, firing, then, once it has moved the state to Cooldown, about to cancel
"the" timer, about to disconnect, and waiting for the cooldown.  `link` is the libp2p
connection and who dialled it.  `orphaned` are callers whose `*PeerConnection`
Shutdown dropped from the map.  ConnectCtx is `Connect`, `ConnectDials`, then
`ConnectSucceeds` or `ConnectFails` and `CallerMayReconnect`,
`CallerReconnects`; DisconnectCtx is `Disconnect`, `DisconnectCleansUp`,
`DisconnectEnds`; and so on, in the order of the code's critical sections.
Events are not recorded here.

**FlowController.**  `NewController`'s rules for the watermarks are operators
(`HighWatermark`, `LowWatermark`); a sender is looking up, creating, waiting,
woken or sending.  Closing `unblockCh` turns every waiting sender into a woken one.

**WatermarkGate** is what flow control promises a stream: a gate that shuts when
the high watermark of sends is in flight and opens again only when no more than the
low watermark are left.  The mapping reads the gate off the registered controller.

**EventSubscriptions.**  Channels are sequences with the configured capacity; a
filtered subscription is a handle, a base subscription with its own goroutine,
and a filter.  Contexts are flags; the goroutines that wait for them are actions.

**AddressBook.**  An entry is the set of facts the operations set and clear.  A
save is the system calls lock, open, write, rename; a crash loses memory,
the lock, and a write under way, and keeps the rest.  A file is absent, torn or whole.
`owing` is bookkeeping: the books with a call that returned the error of a save
and no save or load since.

**StreamManager.**  Streams are objects with a name, a closed flag, a libp2p
stream, a cipher and a read loop.  What a goroutine holds of a key is
an alias of the slice in `sharedKeys` or `peerKeys`, or its own slice; zeroing in
place changes what every alias reads.  Reading a slice that is being
zeroed is a data race, whose outcomes are all called "wiped".  `Started` is what
the methods of Node look at: a call is let in until Stop has come to its end, so
also after a Stop that failed at host.Close, and Stop may then be called again.

**MessagePath**, with **PeerStats**.  A message is its stream and its number on
the stream; a stream is one stream object, so that the stream of the same name after
a reconnection is another one, and no order is promised between the two.  A read loop
is in Next, holds a message, or ended; `DecryptionFails`, `Push`,
`ReturnWithMessage` and `DropFull` are the ways a message leaves it.  The
forwarder takes a message, records it in the statistics (the calls of PeerStats:
look up or create under peerStatsMu, then count under the tracker's
lock, then warn without a lock) and hands it over or drops it.  `watched` are the
streams whose callback for dropped messages is set: an encrypted stream has it
from the start, an unencrypted one some time after its read loop has started.
`got`, `reported`, `silent` and `early` are bookkeeping: what the application
got, what was logged and counted as lost, what the read loop of a closed stream took
with it, and what was dropped before the callback was set.

**LossyFifo** is what the path promises: per stream a set of messages
in transit, of which one may be lost, or the oldest delivered.  The refinement
mapping (`InTransit`) gathers them from the stream, the read loop, both
channels and the forwarder's hands.

**NodeLifecycle**, with **Config**.  `mu` is startMu, which Stop holds throughout; its
steps are the calls it makes, one action each.  `keys` is what the slice behind
the private key consists of; the module of the crypto package, the host and
the Config share it.  Validate and applyDefaults are operators over the 14
optional numbers, with the defaults of `config.go`.  What each component does
when it is shut down, and how its goroutines end, is in its own module; `books`
counts the address books whose flush goroutine runs, which Stop does not end.

**HelloHandshake.**  Two nodes of the blockchain example, A and B, over the library:
the connection state of each node's record, the handshake stream (`end`,
`reading`, `arriving`, `wire`), the message inbox, Disconnected events on
their way to forwardEvents (`events`) and to the application (`appEvents`), and the
example's own maps (`progress`, `peers`).  Handlers that send and then call the
library take several steps (`pc`).

Connect of the application (`app`) makes the entry of the handshake, calls
AddPeer, whose AutoConnect goroutine (`auto`) dials too, and then dials itself; who
is second is refused, and only the application's own dial is followed by a
HelloRequest.  A dial is one step: while it is under way the others are refused
as they are after it.  `armed` is the handshake timer of the record, and `tasks`
counts, stage by stage, the goroutines of the connection manager that nobody can
stop any more: a timer that fired or was overwritten by setupHandshakeTimeout
("fire"), a timeout after its locked section, which cancels whatever timer the
record has ("stop"), then closes the connection ("close") and waits for the end of
the cooldown ("wait"), the startReconnection that always follows it ("restart"),
and a loop that lost its registration ("dial").  `loop` is the registered loop.
A reconnection that succeeds leaves the record in Reconnecting with the link up, as
the code does (ReconnectStalls).  With the defaults a loop makes at most 10 attempts,
so it ends; how many it makes is not counted here.

PrepareStreams may fail after `got` was set.  Lost messages, failed calls and dials,
lost links and timers that run out while there is still something to do are
faults, of which there are at most `MaxFaults`.  `cut` are the nodes whose
session a Disconnected event has ended at least once; `robbed` are those in
Connected whose timer the timeout of an older session has stopped.

## 3. Runs

| Run | Question | Distinct states |
|---|---|---|
| ConnectionSafety | does every registration, dial and cooldown have the goroutine that will end it, through the operations of two callers (FinalizeHandshake is in the next run and in the theorems)? | 4.3M |
| ConnectionProgress | do Connecting, Cooldown and the reconnection loops end, with FinalizeHandshake among the operations? | 122k |
| ReconnectStalls | fails: a peer that was reconnected stays in Reconnecting without a loop | |
| FlowControl | does a stream shut and open at the watermarks and nowhere else, and does every waiting sender wake, with five senders and Close? | 21k |
| Events | do events reach every reader in order and once, do registry, channels, contexts and filters agree, does forwarding go on, and are the channels of ended subscriptions closed? | 110k |
| BookAlone | is what is neither dirty nor the change of a failed call on disk, and is what is dirty flushed, through failures and crashes? | 38k |
| BookShared | are saves atomic with two books on one path, failures and crashes? | 115k |
| Streams | is no stream lost, no cipher closed in use, no read loop left waiting? | 3.3M |
| StreamKeyWiped | fails: a stream may be made from a key that is being zeroed | |
| MessagePath | is each stream a lossy queue whose losses are accounted for, is every message counted and the warning given once, and does Messages() close? | 593k |
| NodeLifecycle | do Start, Stop, New and their failures keep the host's key, and leave a node that can be stopped and a usable configuration? | 2.5k |
| HelloHandshake | does Established mean prepared on both sides, are chains kept apart, and do handshakes end as they should? | 895k |

A run that fails states one sentence of a comment of the code as a property,
and TLC shows an execution of the code that breaks it.  `findings` in
`PROJECT.json` quotes the sentence and names the line.

Bounds, and why they are enough.  Two callers and two loops are a goroutine of an old
session, one of a new one, and a caller that makes the new session.  Both
runs of the connection manager have one timer slot, so that the cooldown
goroutines of two sessions do not overlap in them; the theorems hold for any number,
and the instances of section 4 that need two have two.  ConnectionProgress has one
caller and no Shutdown: a record that goes away during a dial is in ConnectionSafety.  `MaxAttempts` 1 exhausts a
loop.  Five senders exceed a high watermark of 4 and leave one to wait; the low
watermark 2 makes blocking cycles overlap.  Capacity 1 and two events fill
every channel.  Two books share a file; one peer is enough because a save
writes all of them.  The operations that differ only in what they
write are divided between the two runs.  Three streams are one stored, one being opened and one
whose read loop has still to end.  Three messages fill either channel of two
with one more in the hands of the read loop or of the forwarder, the case in which it
could wait for room, with messages of two streams; four, which fill both channels
at once, are covered by the theorems, but for MessagesCloses.  A nonce threshold of two is
passed by two senders at once.  Nine configurations are the cases of Validate
and applyDefaults; two nodes in a row let a retried New meet the Config of the
first.  Two calls of Connect, two streams and one fault let both nodes initiate, a
session follow a failed one, and a message, timer or event of the first meet the
second.  The safety properties
are proved for all values besides (section 5).

In HelloHandshake the names of the two chains are interchangeable, so
A is on "main"; so are the nodes, so an action constraint lets A dial first.

`CHECK_DEADLOCK FALSE` is used where the modelled program really stops: after
the bounded number of events, messages, nodes or dials and Stop, and after
Controller.Close.

Symmetry is used in runs that check invariants and, in BookShared, an action property,
never in one that checks liveness, over callers, timers, loops, books and
streams, none of which the code orders.

Fairness.  A goroutine that can run is scheduled: weak fairness of the steps
of each call in progress, timer and loop.  Where a step waits for a lock that
others may take again and again (a writer on eventSubsMu), strong fairness
stands for Go's rule that a waiting writer blocks new readers.  In
ConnectionManager strong fairness of the steps that arm a timer only undoes the
bound on timer slots, which the code does not have.  In AddressBook it says that
Book.mu and the file lock are granted to who keeps waiting, and that the disk
does not fail for ever; BookAlone also assumes the flush loop's ticker.  Nobody has to
call anything, and no application goroutine has to receive.  Of the network two
things are assumed: a dial ends (it has a 30 second timeout), and, in FlowController,
a write to a stream returns, which the code itself ensures only for a context with a
deadline (`encrypted.go:173`).  In MessagePath a select that is reached
again and again with a cancelled context takes that branch in the end (Go chooses
at random), which is strong fairness of `ForwardStops`.  In HelloHandshake each
node's steps, its timers, cooldowns and loops included, are weakly fair as a
whole, which is less than what the scheduler does for each goroutine; the network's
faults, and the application's calls of Connect, are not.  NodeLifecycle is checked
for safety only.

## 4. Promises of comments that the code does not keep

Besides the two runs above that fail, the modules state these properties, and
TLC finds each of them violated when it is made an invariant (or, for the
first two and NothingAfterUnsubscribe, a property) of an instance with what the
third column says.

| Module | Property | Operations | Comment | What the code does |
|---|---|---|---|---|
| ConnectionManager | CancelledLoopIsInert | connect, cancelReconnection | `pkg/connection/manager.go:287` "CancelReconnection cancels any ongoing reconnection attempts for a peer." | the dial runs under the manager's context (`:496`) and nothing looks at the loop's afterwards |
| | CooldownExpiryIsReal | connect, disconnect; two timers | `:536` "Cooldown expired, transition to disconnected and start reconnection" | the goroutine of an earlier cooldown looks only at the state (`:539`) and ends a later one |
| | LiveLoopIsRegistered | connect, cancelReconnection; two callers, two loops | `:287`, as above | a loop that ends deletes whichever loop is registered (`:472`, `:555`, `:568`), so the end of a cancelled one leaves a newer one running where neither CancelReconnection nor Disconnect finds it |
| | BlacklistedIsClosed | incoming, blacklist | `node.go:388` "If the peer is currently connected, the connection is closed." | only when the recorded state is active (`node.go:398`) |
| | OutboundTellsDialer | connect, incoming, finalize | `node.go:592` "IsOutbound returns whether the connection to the peer was initiated by us" | an incoming registration overwrites the flag (`pkg/connection/manager.go:708`) |
| | ConnectedIsGuarded | connect, disconnect; two timers | `:359` "We successfully transitioned to cooldown, so we "own" the cleanup." | after the unlock it cancels whatever timer the record has (`:361`), also that of a newer session |
| | ExpiredCooldownConnects | connect | `pkg/connection/manager.go:127` "Cooldown expired, allow connection" | the table has no transition from Cooldown to Connecting (`state.go:79`) |
| FlowController | NoPanic | close | `internal/flow/controller.go:19` "All methods are safe for concurrent use." | Release (`:130`) closes the channel that Close (`:161`) closed |
| EventSubscriptions | NoSendOnClosed | all | `node.go:966` "Safely close all subscriber channels (may race with individual unsubscribe goroutines)" | forwardEvents may send (`:1017`) on the channel of a subscriber whose context ended, which is closed before it leaves the registry |
| | NoDoubleClose | all | `node.go:1031` "Returns nil if the node has already stopped." | it also closes the channel (`:1054`) that its own goroutine closes (`:1046`) |
| | NothingAfterUnsubscribe | all | `node.go:90` "After calling Unsubscribe(), the Events() channel will be closed and no more events will be delivered." | the filter's goroutine (`:1137`) delivers what it has already taken |
| AddressBook | PendingIsDirty | add, fail; one book | `pkg/addressbook/book.go:371` "Flush explicitly saves any pending changes to disk." | an operation whose save failed (`:331`) has changed memory and set nothing dirty, so that Flush and Close do not save it |
| StreamManager | DeriveReturnsKey | prepare, cleanup | `pkg/crypto/module.go:13` "Module is safe for concurrent use." | the cached slice is copied after the Unlock (`:137`) |
| | DroppedIsReleased | prepare, send, remote, cleanup | `pkg/streams/manager.go:479` "CloseStreams closes all streams (encrypted and unencrypted) for a peer." | Close returns at once when the read loop ended first (`encrypted.go:279`) |
| | OpenStreamHasKey | prepare, send, cleanup | the same | a stream that was being opened is stored afterwards (`manager.go:399`) |
| | ShutIsEmpty | prepare, stop | `:618` "Shutdown closes all streams and stops the manager. All key material is securely zeroed before release." | EstablishStreams stores a key after Shutdown (`:135`) |
| | KeyIsForgotten | prepare, cleanup; InBook FALSE | `node.go:457` "This method also cleans up streams and removes the peer's cached encryption key." | only for a peer whose key is in the address book (`node.go:476`) |
| MessagePath | DropsAreReported | an unencrypted stream; channels of one, four messages | `pkg/streams/manager.go:96` "SetMessageDroppedCallback sets a callback function that is called when a message is dropped because the incoming channel is full." | the read loop starts (`unencrypted.go:67`) before the callback is set (`manager.go:280`, `:473`), and a drop that finds none is silent (`unencrypted.go:189`) |
| NodeLifecycle | DefaultedIsValid | HighWatermark 1, or ReconnectBaseDelay above five minutes | `config.go:208` "It also ensures watermark relationships are valid after applying defaults." | a HighWatermark of 1 gives a low watermark of 1 (`config.go:264`), and a base delay above the default maximum is above its maximum: in the application's own Config, which the next New then refuses (`config.go:184` "low watermark must be less than high watermark") |
| | FlushersEnd | start, stop | `node.go:296` Stop "stops all goroutines" | nothing closes the address book, whose flush goroutine runs on, also after a New that failed in NewHost |
| | KeysOutliveHost | ReuseConfig TRUE | `node.go:296` Stop "cleans up state" | the crypto module keeps the Config's PrivateKey slice, and Stop zeroes it there; a New from the same Config passes Validate, which looks at the length, and runs with a zero key |

Differences met while modelling that are not about a property of a module:

* Start after Stop succeeds, on a cancelled context and a closed host, and
  `IsHealthy` (`health.go:37`: "The libp2p host is running") then says healthy.
* `config.go:68` "Set to 0 for unlimited attempts": applyDefaults makes 10 of 0.
* `README.md:690` and `ARCHITECTURE.md:1577` give 500 as the default
  LowWatermark; the code has 100.
* MaxMessageSize (`config.go:99`) is never given to the stream manager.
* `internalMsgs` is never closed: the forwarder's `!ok` branch is dead.
  RecordConnectionStart, RecordConnectionEnd and RecordFailure have no caller.
* The hourly cleanup may drop a tracker between a caller's look-up and its count, which is
  then lost (CountsEveryMessage excludes `forgotten` peers); the nonce warning
  starts anew with the new tracker.
* The read loop of a closed stream may take one message with it that nobody
  reports (`silent` in LossesReported), and what is in the internal channel when
  the forwarder ends after Stop stays there (`Stranded`).
* In the blockchain example the initiator also answers a HelloFinalize
  with another one ("we're the responder", `main.go:395`); both nodes that
  initiate at once refuse each other's stream and both are reset; a stale Disconnected
  event cleans up a newer session (`node.go:987`, why EstablishedMeansPrepared
  excludes `cut` nodes); and when the last HelloFinalize is lost one side stays
  Established while the other times out.  When AddPeer's AutoConnect overtakes the
  Connect that called it (`main.go:166`), Connect returns an error, nobody sends a
  HelloRequest, and the connection ends by its timer.  After a timeout the node that
  dialled ends in Reconnecting with the link up, for the reason of ReconnectStalls.  The
  timeout of an old session may stop the timer of a new one, which then
  waits in Connected for ever (`robbed`; ConnectedIsGuarded above).  HelloHandshake
  calls Connect only for a peer that is not active: on an active one the example would
  make a new entry and leave the session as it is.  The other examples call
  CompleteHandshake right after they sent their last message.

## 5. Theorems

Proved with TLAPS, for every value of the constants that meets the
module's ASSUME.

* **ConnectionManager** (`ManagerCorrect`, and from it `RegistrationsAreLive`,
  `ConnectingIsDriven`, `CooldownIsDriven`; `TypeCorrect`;
  `UncancelledLoopsAreRegistered`).  The three
  properties are not inductive one by one: that a registered loop is alive needs
  that a loop which ends unregistered itself; that Connecting has a dialler
  needs that a dialler's record is in the map or the dialler is orphaned.
  `ManagerInv` adds these, and there is one step of the proof per action.
  `UncancelledLoopsAreRegistered` bounds LiveLoopIsRegistered of section 4: as long as
  nobody calls Disconnect, CancelReconnection or BlacklistPeer, a loop that ends is
  the registered one, so its delete is harmless.
* **FlowController** (`FlowCorrect`; `HighWatermarkHolds`, `BlockedIsReleased`,
  `NoLostWakeUp`, `FlowIsGate`, `NoPanicWithoutClose`).  `FlowInv` says that
  `pending` counts the senders that hold the controller (a cardinality), that a
  blocked controller has a send in flight and any other has room, and that all
  senders past the look-up use the registered controller.  `FlowIsGate`, the
  refinement of WatermarkGate, needs `ClosedInv` as well (only the registered
  controller is ever closed): each Acquire that takes a place is an Enter, each
  Release a Leave, Close is Lock and everything else stutters, because before a
  controller is registered none is blocked.  `NoPanicWithoutClose` is about the
  controller as Node uses it: section 4 has the panic that Close makes possible.
* **EventSubscriptions** (`EventsCorrect`; `OpenWhileRegistered`,
  `SilentAfterUnsubscribe`, `FiltersEndTheirBase`, `OrderHolds`,
  `PanicsNeedAnEnd`).  The types include that no channel exceeds its capacity.
  `OrderHolds` follows each event along its lane, the four places between
  EmitEvent and one reader: `OrderInv` says that each place is in increasing
  order, that each stands before the next and that nothing is above `emitted`,
  and every step appends to a lane, moves the head of one place to the next or
  drops it.  `PanicsNeedAnEnd` bounds the two panics of section 4: they need a
  subscriber that leaves, a Stop, or a SubscribeEvents on a stopped node.
* **AddressBook** (`BookTypes`, `StorageCorrect`, `SavesAtomic`,
  `CleanBookIsSaved`).  `StorageInv` ties the temporary file to the lock: who is
  past the open holds the lock, and a whole temporary file before the rename is
  what the holder has in memory.  `CleanBookIsSaved` assumes one book on the
  path, and is false with two: another book's save replaces the file.  Failed
  saves are allowed, and what they leave in memory is `owing`, not dirty (section
  4).  `SavedInv` adds what holds between the rename and the return of a save.
* **StreamManager** (`StreamsCorrect`; `CipherIsHeld`, `NoStreamIsLost`,
  `NoReaderIsLeaked`, `OneCallKeepsKeys`, `OneCallForgetsKey`).
  `StreamInv` adds that an opened stream is its opener's alone until it is
  stored, that a stream is stored only under its own name, and that who is encrypting
  holds an open stream.  The last two theorems assume that calls about the peer do
  not overlap (one caller; incoming streams, remote ends and read loops still
  interleave): then EncryptsWithKey, DeriveReturnsKey and OpenStreamHasKey of
  section 4 hold, and KeyIsForgotten for a peer in the address book of a node
  that is not stopped.  So these promises are broken by interleaving alone, or
  by the exceptions named.  `SliceInv` says that a shared slice is held only
  between the section that takes it and the one that copies it.
* **MessagePath** (`PathCorrect`; `WarnsOnce`, `CountsAll`, `PathIsLossyFifo`,
  `LossesAreReported`, `PathTypesHold`).
  The refinement needs `PathInv`: the messages of a stream in the external channel,
  in the forwarder's hands, in the internal channel and in the read loop's hands
  stand in the order of their numbers, above the last one delivered, so that no
  message is in two places and the one received is the oldest in transit.
  Every step is then a Send, a Lose, a Deliver or a stutter.  `StatsInv` says
  that a tracker belongs to one peer, that a caller about to record holds
  the tracker in the map unless the cleanup has come by, and that the flag is set
  exactly at the threshold; `CountsAll` is an argument about cardinalities.
  `LossesAreReported` balances an account per stream: what was read equals what
  is on its way (in a channel, in the forwarder's or the read loop's hands) plus what was
  delivered, reported, dropped before the callback was set, taken by the
  read loop of a closed stream, or stranded after Stop; the third kind is of
  unencrypted streams only, the fourth is at most one message, and the last needs a
  Stop.  `CountOf` counts the messages of a stream in a
  sequence as a cardinality of indices, so that what Append and Tail do to the
  count follows from a bijection and needs no induction.
  Assumed: finitely many goroutines call.
* **NodeLifecycle** (`LifecycleCorrect`; `HostKeepsKeys`, `StopCanBeRetried`,
  `ConfigIsUsable`).  `LockInv` ties each step of Stop to the
  holder of startMu, and says that a node that is live and not started is as New
  left it.  The lemmas about Validate and applyDefaults hold for all integers:
  `ConfigIsUsable` says that a low watermark is lower than the high one unless both are 1,
  the one exception to the rule of `config.go:184`.
  `HostKeepsKeys` assumes that the application gives no zeroed key and does not
  reuse the Config of a stopped node: without that it is false (section 4).
* **HelloHandshake** (`HelloCorrect`; `EstablishedIsPrepared`,
  `ChainsAreKeptApart`).  `HelloInv` says what a message proves about its sender
  wherever it is: a HelloFinalize on the wire or in an inbox means that its
  sender is on the same chain and has prepared its streams, and what each handler has
  checked when it is between two of its calls.  Only a Disconnected event undoes a
  preparation, and it puts the node in `cut` (`EventInv`: so does everything that leads to a
  reconnection).  That PrepareStreams may fail makes it necessary to know more: a node
  that got a hello and has prepared nothing must have sent its own, so that a
  HelloFinalize makes it prepare before it finalizes (`ProgressOK`); a HelloResponse
  under way means that its receiver has sent a HelloRequest, or its session is over
  (`Greeted`); and Connect sends one only for an entry it has made (`ConnectOK`).
  All of it holds for timers that fire at any moment.

Every invariant and action property that a passing run checks is stated by a
theorem.  Only model-checked: the liveness properties (ConnectingEnds, CooldownEnds,
LoopsEnd, WaitersWake, EventsDrain, HandlesClose, DirtyIsFlushed, MessagesCloses,
ConnectSettles, HandshakesEnd), because proofs under fairness are
beyond the prover.  The modules declare no RECURSIVE operator.

## 6. Limits

Not modelled: the contents of messages; cipher, key
agreement and key conversion (computation over bytes); the raw handshake stream (one
sequential wrapper around one libp2p stream, replaced in Node by unencrypted
streams); the handshake state machine and the buffer pool (sequential, and no code of the
library calls them); health, metrics, tracing, logging, debug output; validation
of names and sizes; test doubles; the other examples, and the
transactions and the console of the blockchain example; the Windows file lock
(another system call with the same meaning).  Time is not measured: a timer
that is armed may fire, and a cooldown may elapse, at any moment; in HelloHandshake one that
does so while there is something else to do is a fault, because the timeouts are
long.
libp2p is external: a dial may succeed or fail, a link may drop, and a stream
may end at any moment.

Two books on one path: each saves its whole map, so the last one wins.
The code promises no more, and only the integrity of the file is checked.

## 7. Plan

Done: the connection manager, flow control, events, address book, streams and key
cache, message path and statistics, lifecycle and configuration, and the
handshake of two nodes, with their proofs.  Left, in this order:

1. `PeerEvents`: ConnectionManager's events as data, through the dispatcher to
   `forwardEvents` and `cleanupPeerResources`, to say in which order a peer's events
   arrive (HelloHandshake has the Disconnected ones only).
2. An abstract per-peer connection specification that ConnectionManager refines.
3. Proofs: action properties of the connection manager, and what it guarantees
   when the operations that break a promise of section 4 are not called.
4. `HandshakeStateMachine` and `BufferPool`, if the library comes to use them.
