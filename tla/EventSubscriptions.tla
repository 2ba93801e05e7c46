------------------------ MODULE EventSubscriptions ------------------------
(***************************************************************************)
(* The way of a connection event from Dispatcher.EmitEvent through         *)
(* Node.forwardEvents to the Events channel and to the subscriptions of    *)
(* SubscribeEvents and FilteredEvents, and the end of all of them.         *)
(*                                                                         *)
(* A subscription in Filtered is the one FilteredEvents makes under the    *)
(* handle it returns: a goroutine copies from the channel of the           *)
(* subscription to the channel of the handle.  A step is what a goroutine  *)
(* does between two operations on a lock, a channel or a context.          *)
(***************************************************************************)
EXTENDS Naturals, Sequences

CONSTANTS
    Subs,        \* bound: calls of SubscribeEvents
    Filtered,    \* the ones FilteredEvents makes
    Wanted,      \* the events EventFilter.matches lets through
    MaxEvents,   \* bound: events emitted, numbered from 1
    Capacity     \* Config.EventBufferSize, of every channel

ASSUME SubsAssumption ==
    /\ Filtered \subseteq Subs
    /\ MaxEvents \in Nat
    /\ Capacity \in Nat

VARIABLES
    internal,    \* Dispatcher.events, the channel forwardEvents reads
    emitted,     \* number of EmitEvent calls
    stop,        \* how far Node.Stop is
    fwd,         \* where forwardEvents is
    cur,         \* the event it forwards
    todo,        \* the subscriptions it has not sent it to
    events,      \* Node.events
    eventSubs,   \* Node.eventSubs
    sub,         \* where each SubscribeEvents call is
    cancelled,   \* the subscriptions whose context was cancelled
    once,        \* closeOnce has run
    closed,      \* the closed subscription channels
    buf,         \* the subscription channels
    user,        \* where the Unsubscribe call on each handle is
    filter,      \* where each filtering goroutine is
    out,         \* the channels of the filtered handles
    panicked     \* what the process died of

subVars == <<eventSubs, sub, cancelled, once, closed>>
fwdVars == <<fwd, cur, todo, events>>
filterVars == <<filter, out>>
vars == <<internal, emitted, stop, fwdVars, subVars, buf, user, filterVars,
          panicked>>

Channels == {ch \in Seq(0..MaxEvents) : Len(ch) <= Capacity}

\* The control state, and the contents of the channels.
ControlOK ==
    /\ stop \in {"no", "cancelled", "closed"}
    /\ fwd \in {"select", "send", "fanout", "exit", "done"}
    /\ todo \in SUBSET Subs
    /\ eventSubs \in SUBSET Subs
    /\ sub \in [Subs -> {"none", "created", "late", "live", "nil"}]
    /\ cancelled \in SUBSET Subs
    /\ once \in SUBSET Subs
    /\ closed \in SUBSET Subs
    /\ user \in [Subs -> {"idle", "leaving", "left"}]
    /\ filter \in [Subs -> {"none", "run", "leaving", "done"}]
    /\ panicked \in {"no", "send on closed", "close of closed"}

TypeOK ==
    /\ ControlOK
    /\ internal \in Channels
    /\ emitted \in 0..MaxEvents
    /\ cur \in 0..MaxEvents
    /\ events \in Channels
    /\ buf \in [Subs -> Channels]
    /\ out \in [Subs -> Channels]

Init ==
    /\ internal = <<>>
    /\ emitted = 0
    /\ stop = "no"
    /\ fwd = "select"
    /\ cur = 0
    /\ todo = {}
    /\ events = <<>>
    /\ eventSubs = {}
    /\ sub = [s \in Subs |-> "none"]
    /\ cancelled = {}
    /\ once = {}
    /\ closed = {}
    /\ buf = [s \in Subs |-> <<>>]
    /\ user = [s \in Subs |-> "idle"]
    /\ filter = [s \in Subs |-> "none"]
    /\ out = [s \in Subs |-> <<>>]
    /\ panicked = "no"

-----------------------------------------------------------------------------
(* Channels and locks.                                                     *)

\* A select with a default branch: a full channel drops the event.
Offer(ch, e) == IF Len(ch) < Capacity THEN Append(ch, e) ELSE ch

\* n.ctx is done, and every context derived from it.
NodeDone == stop # "no"
SubDone(s) == NodeDone \/ s \in cancelled

\* The process is running, and this step does not kill it.
Alive == panicked = "no" /\ UNCHANGED panicked

\* eventSubsMu is free for a writer: forwardEvents reads under RLock.
CanLock == fwd # "fanout"

-----------------------------------------------------------------------------
(* The dispatcher and Node.Stop.                                           *)

EmitEvent ==
    /\ Alive
    /\ emitted < MaxEvents
    /\ emitted' = emitted + 1
    /\ internal' = IF stop = "closed" THEN internal
                                      ELSE Offer(internal, emitted')
    /\ UNCHANGED <<stop, fwdVars, subVars, buf, user, filterVars>>

\* Node.Stop cancels the context, then (Dispatcher.Close) the channel.
Stop ==
    /\ Alive
    /\ \/ stop = "no" /\ stop' = "cancelled"
       \/ stop = "cancelled" /\ stop' = "closed"
    /\ UNCHANGED <<internal, emitted, fwdVars, subVars, buf, user, filterVars>>

-----------------------------------------------------------------------------
(* forwardEvents.                                                          *)

\* The select: an event (a closed channel still yields what it holds), or
\* the end of the loop.
ForwardSelects ==
    /\ Alive
    /\ fwd = "select"
    /\ \/ /\ internal # <<>>
          /\ cur' = Head(internal)
          /\ internal' = Tail(internal)
          /\ fwd' = "send"
       \/ /\ NodeDone
          /\ fwd' = "exit"
          /\ UNCHANGED <<cur, internal>>
    /\ UNCHANGED <<emitted, stop, todo, events, subVars, buf, user, filterVars>>

\* The main channel, then RLock.  What a Disconnected event cleans up
\* (cleanupPeerResources) is state of other components.
ForwardSends ==
    /\ Alive
    /\ fwd = "send"
    /\ events' = Offer(events, cur)
    /\ todo' = eventSubs
    /\ fwd' = "fanout"
    /\ UNCHANGED <<internal, emitted, stop, cur, subVars, buf, user,
                   filterVars>>

\* Mutant: the send to a subscriber waits for room.
ForwardWaits ==
    /\ Alive
    /\ fwd = "fanout"
    /\ \E s \in todo : /\ s \in closed \/ Len(buf[s]) < Capacity
                       /\ buf' = [buf EXCEPT ![s] = Offer(@, cur)]
                       /\ todo' = todo \ {s}
    /\ UNCHANGED <<internal, emitted, stop, fwd, cur, events, subVars, user,
                   filterVars>>

\* Mutant: an event a full subscriber misses goes back to the dispatcher's
\* channel, to be tried again.
ForwardRetries ==
    /\ Alive
    /\ fwd = "fanout"
    /\ \E s \in todo :
          /\ todo' = todo \ {s}
          /\ buf' = [buf EXCEPT ![s] = Offer(@, cur)]
          /\ internal' = IF Len(buf[s]) = Capacity THEN Offer(internal, cur)
                                                   ELSE internal
    /\ UNCHANGED <<emitted, stop, fwd, cur, events, subVars, user, filterVars>>

\* The next subscriber, in any order: sending on a closed channel panics.
ForwardFansOut ==
    /\ panicked = "no"
    /\ fwd = "fanout"
    /\ \E s \in todo :
          /\ todo' = todo \ {s}
          /\ IF s \in closed
             THEN panicked' = "send on closed" /\ UNCHANGED buf
             ELSE /\ buf' = [buf EXCEPT ![s] = Offer(@, cur)]
                  /\ UNCHANGED panicked
    /\ UNCHANGED <<internal, emitted, stop, fwd, cur, events, subVars, user,
                   filterVars>>

\* RUnlock, and the next round.
ForwardUnlocks ==
    /\ Alive
    /\ fwd = "fanout"
    /\ todo = {}
    /\ fwd' = "select"
    /\ UNCHANGED <<internal, emitted, stop, cur, todo, events, subVars, buf,
                   user, filterVars>>

\* closeChannel for each s of S: closeOnce.Do(close(s.ch)).
CloseChannels(S) ==
    /\ once' = once \cup S
    /\ closed' = closed \cup (S \ once)
    /\ panicked' = IF (S \ once) \cap closed # {} THEN "close of closed"
                                                  ELSE panicked

\* The deferred function: n.events is closed (fwd is "done"), the channels
\* of the subscriptions are closed and eventSubs is nil from now on.
ForwardExits ==
    /\ panicked = "no"
    /\ fwd = "exit"
    /\ CloseChannels(eventSubs)
    /\ eventSubs' = {}
    /\ fwd' = "done"
    /\ UNCHANGED <<internal, emitted, stop, cur, todo, events, sub, cancelled,
                   buf, user, filterVars>>

-----------------------------------------------------------------------------
(* SubscribeEvents and FilteredEvents.                                     *)

\* The channel, the context and the goroutine that waits for its end.
SubscribeEvents(s) ==
    /\ Alive
    /\ sub[s] = "none"
    /\ sub' = [sub EXCEPT ![s] = "created"]
    /\ UNCHANGED <<internal, emitted, stop, fwdVars, eventSubs, cancelled,
                   once, closed, buf, user, filterVars>>

\* The section under the lock: register, or find that the node stopped.
SubscribeRegisters(s) ==
    /\ Alive
    /\ sub[s] = "created"
    /\ CanLock
    /\ IF fwd = "done"
       THEN /\ sub' = [sub EXCEPT ![s] = "late"]
            /\ cancelled' = cancelled \cup {s}
            /\ UNCHANGED eventSubs
       ELSE /\ sub' = [sub EXCEPT ![s] = "live"]
            /\ eventSubs' = eventSubs \cup {s}
            /\ UNCHANGED cancelled
    /\ UNCHANGED <<internal, emitted, stop, fwdVars, once, closed, buf, user,
                   filterVars>>

\* close(ch), not through closeOnce, and nil is returned.
SubscribeTooLate(s) ==
    /\ panicked = "no"
    /\ sub[s] = "late"
    /\ sub' = [sub EXCEPT ![s] = "nil"]
    /\ closed' = closed \cup {s}
    /\ panicked' = IF s \in closed THEN "close of closed" ELSE panicked
    /\ UNCHANGED <<internal, emitted, stop, fwdVars, eventSubs, cancelled,
                   once, buf, user, filterVars>>

\* Mutant: the goroutine does not wait for the context.
WatcherClosesEarly(s) ==
    /\ panicked = "no"
    /\ sub[s] # "none"
    /\ s \notin once
    /\ CloseChannels({s})
    /\ UNCHANGED <<internal, emitted, stop, fwdVars, eventSubs, sub, cancelled,
                   buf, user, filterVars>>

\* The goroutine SubscribeEvents started: <-ctx.Done(), closeChannel.
WatcherCloses(s) ==
    /\ panicked = "no"
    /\ sub[s] # "none"
    /\ SubDone(s)
    /\ s \notin once
    /\ CloseChannels({s})
    /\ UNCHANGED <<internal, emitted, stop, fwdVars, eventSubs, sub, cancelled,
                   buf, user, filterVars>>

\* FilteredEvents, once SubscribeEvents returned a subscription.
FilteredEvents(s) ==
    /\ Alive
    /\ s \in Filtered
    /\ sub[s] = "live"
    /\ filter[s] = "none"
    /\ filter' = [filter EXCEPT ![s] = "run"]
    /\ UNCHANGED <<internal, emitted, stop, fwdVars, subVars, buf, user, out>>

\* The caller holds a handle, and has not ended it.
HasHandle(s) ==
    /\ user[s] = "idle"
    /\ IF s \in Filtered THEN filter[s] # "none" ELSE sub[s] = "live"

\* Mutant: the context is not cancelled.
UnsubscribeKeepsContext(s) ==
    /\ Alive
    /\ HasHandle(s)
    /\ user' = [user EXCEPT ![s] = "leaving"]
    /\ UNCHANGED <<internal, emitted, stop, fwdVars, subVars, buf, filterVars>>

\* Unsubscribe on the handle: its context first, then the lock.  A filtered
\* handle has a context of its own and is not in eventSubs.
Unsubscribe(s) ==
    /\ Alive
    /\ HasHandle(s)
    /\ user' = [user EXCEPT ![s] = "leaving"]
    /\ cancelled' = IF s \in Filtered THEN cancelled ELSE cancelled \cup {s}
    /\ UNCHANGED <<internal, emitted, stop, fwdVars, eventSubs, sub, once,
                   closed, buf, filterVars>>

\* Mutant: the subscription is removed without the lock.
UnsubscribeUnlocked(s) ==
    /\ Alive
    /\ user[s] = "leaving"
    /\ user' = [user EXCEPT ![s] = "left"]
    /\ eventSubs' = IF s \in Filtered THEN eventSubs ELSE eventSubs \ {s}
    /\ UNCHANGED <<internal, emitted, stop, fwdVars, sub, cancelled, once,
                   closed, buf, filterVars>>

UnsubscribeRemoves(s) ==
    /\ Alive
    /\ user[s] = "leaving"
    /\ CanLock
    /\ user' = [user EXCEPT ![s] = "left"]
    /\ eventSubs' = IF s \in Filtered THEN eventSubs ELSE eventSubs \ {s}
    /\ UNCHANGED <<internal, emitted, stop, fwdVars, sub, cancelled, once,
                   closed, buf, filterVars>>

-----------------------------------------------------------------------------
(* The filtering goroutine.                                                *)

\* The context of a filtered handle is done.
HandleDone(s) == NodeDone \/ user[s] # "idle"

\* An event of the subscription: sent on if it matches and there is room.
FilterForwards(s) ==
    /\ Alive
    /\ filter[s] = "run"
    /\ buf[s] # <<>>
    /\ buf' = [buf EXCEPT ![s] = Tail(@)]
    /\ out' = IF Head(buf[s]) \in Wanted
              THEN [out EXCEPT ![s] = Offer(@, Head(buf[s]))] ELSE out
    /\ UNCHANGED <<internal, emitted, stop, fwdVars, subVars, user, filter>>

\* Mutant: the goroutine ends with its context, the subscription stays.
FilterForgetsBase(s) ==
    /\ Alive
    /\ filter[s] = "run"
    /\ HandleDone(s)
    /\ filter' = [filter EXCEPT ![s] = "done"]
    /\ UNCHANGED <<internal, emitted, stop, fwdVars, subVars, buf, user, out>>

\* Its own context is done: Unsubscribe the subscription underneath.
FilterLeaves(s) ==
    /\ Alive
    /\ filter[s] = "run"
    /\ HandleDone(s)
    /\ filter' = [filter EXCEPT ![s] = "leaving"]
    /\ cancelled' = cancelled \cup {s}
    /\ UNCHANGED <<internal, emitted, stop, fwdVars, eventSubs, sub, once,
                   closed, buf, user, out>>

\* The end of that Unsubscribe, or the subscription's channel was closed: the
\* channel of the handle is closed (filter is "done").
FilterEnds(s) ==
    /\ Alive
    /\ \/ /\ filter[s] = "leaving"
          /\ CanLock
          /\ eventSubs' = eventSubs \ {s}
       \/ /\ filter[s] = "run"
          /\ buf[s] = <<>> /\ s \in closed
          /\ UNCHANGED eventSubs
    /\ filter' = [filter EXCEPT ![s] = "done"]
    /\ UNCHANGED <<internal, emitted, stop, fwdVars, sub, cancelled, once,
                   closed, buf, user, out>>

-----------------------------------------------------------------------------

\* The application receives from a channel.
Receive ==
    /\ Alive
    /\ \/ events # <<>> /\ events' = Tail(events) /\ UNCHANGED <<buf, out>>
       \/ \E s \in Subs :
             \/ /\ s \notin Filtered /\ buf[s] # <<>>
                /\ buf' = [buf EXCEPT ![s] = Tail(@)]
                /\ UNCHANGED <<events, out>>
             \/ /\ s \in Filtered /\ out[s] # <<>>
                /\ out' = [out EXCEPT ![s] = Tail(@)]
                /\ UNCHANGED <<events, buf>>
    /\ UNCHANGED <<internal, emitted, stop, fwd, cur, todo, subVars, user,
                   filter>>

ForwardStep == \/ ForwardSelects \/ ForwardSends \/ ForwardFansOut
               \/ ForwardUnlocks \/ ForwardExits

CallStep(s) == \/ SubscribeRegisters(s) \/ SubscribeTooLate(s)
               \/ FilteredEvents(s) \/ UnsubscribeRemoves(s)

FilterStep(s) == FilterForwards(s) \/ FilterLeaves(s) \/ FilterEnds(s)

Next ==
    \/ EmitEvent \/ Stop \/ ForwardStep \/ Receive
    \/ \E s \in Subs : \/ SubscribeEvents(s) \/ Unsubscribe(s)
                       \/ CallStep(s) \/ FilterStep(s) \/ WatcherCloses(s)

Spec == Init /\ [][Next]_vars

\* Goroutines and calls in progress are scheduled.  Nobody has to emit,
\* receive, subscribe, unsubscribe or stop.  A caller waiting for the lock
\* gets it (strong fairness: a waiting writer keeps new readers out).
FairSpec ==
    /\ Spec
    /\ WF_vars(ForwardStep)
    /\ \A s \in Subs : /\ SF_vars(CallStep(s))
                       /\ SF_vars(FilterStep(s))
                       /\ WF_vars(WatcherCloses(s))

-----------------------------------------------------------------------------
(* Properties.                                                             *)

\* The channel of a registered subscription is open as long as neither its
\* Unsubscribe nor Stop has begun: until then forwardEvents cannot panic.
RegisteredIsOpen ==
    \A s \in eventSubs \cup todo : s \in closed => SubDone(s)

\* Once Unsubscribe returned on a handle of SubscribeEvents, forwardEvents
\* is not about to send to it: eventSubsMu orders the two.
LeftIsSilent ==
    \A s \in Subs \ Filtered : user[s] = "left" => s \notin eventSubs \cup todo

\* No event is doubled and none overtakes another on its way to a reader: what
\* is in the channel the application reads, in the one a filter reads, in the
\* hands of forwardEvents and in the dispatcher's channel is in the order of
\* the EmitEvent calls, whatever was dropped in between.
Increasing(q) == \A i, j \in DOMAIN q : i < j => q[i] < q[j]
InHand(b) == IF b THEN <<cur>> ELSE <<>>
OnTheWay(s) ==
    out[s] \o buf[s] \o InHand(fwd = "send" \/ s \in todo) \o internal
EventsInOrder ==
    /\ Increasing(events \o InHand(fwd = "send") \o internal)
    /\ \A s \in Subs : Increasing(OnTheWay(s))

\* Events dispatch is non-blocking: every event leaves the dispatcher's channel
\* and the hands of forwardEvents, also when no application goroutine ever
\* receives.
UnderWay(e) == \/ \E i \in DOMAIN internal : internal[i] = e
               \/ fwd \in {"send", "fanout"} /\ cur = e
EventsDrain ==
    \A e \in 1..MaxEvents :
        UnderWay(e) /\ stop = "no"
            ~> ~UnderWay(e) \/ stop # "no" \/ panicked # "no"

HandleClosed(s) == IF s \in Filtered THEN filter[s] = "done" ELSE s \in closed

\* The channel of a handle is closed after Unsubscribe and when the node
\* stops, by whichever of the racing goroutines.
HandlesClose ==
    \A s \in Subs :
        (user[s] = "left" \/ (NodeDone /\ HasHandle(s)))
        ~> HandleClosed(s) \/ panicked # "no"

\* While the node runs, a filtered handle that ended does not leave its
\* subscription behind, which nobody could end any more.
NoSubscriptionLeak ==
    ~NodeDone => \A s \in Filtered : filter[s] = "done" =>
                                        s \notin eventSubs \cup todo

\* What the guarantees rest on: forwardEvents sends to registered channels
\* only, a channel is closed only after its context or the node ended, and
\* only a subscription that is live has a handle or a filter.
FanoutInv == /\ todo \subseteq eventSubs
             /\ fwd # "fanout" => todo = {}
             /\ \A s \in eventSubs : sub[s] = "live"
StoppedInv == /\ fwd \in {"exit", "done"} => NodeDone
              /\ \A s \in Subs : sub[s] = "late" => NodeDone
ClosedInv == \A s \in closed : SubDone(s)
HandleInv == \A s \in Subs : user[s] # "idle" \/ filter[s] # "none" =>
                                 sub[s] = "live"
FilterInv == \A s \in Filtered : s \in cancelled =>
                 NodeDone \/ filter[s] \in {"leaving", "done"}

\* The inductive invariant.
EventInv == /\ FanoutInv /\ StoppedInv /\ ClosedInv /\ HandleInv /\ FilterInv
            /\ LeftIsSilent /\ NoSubscriptionLeak

\* The state is in its type, no channel above its capacity, and the registry,
\* the channels, the contexts and the filters agree.
EventSafety == TypeOK /\ EventInv

\* forwardEvents never sends on a channel that was closed.
NoSendOnClosed == panicked # "send on closed"

\* No channel is closed twice.
NoDoubleClose == panicked # "close of closed"

\* After Unsubscribe returned no more events are delivered to the handle.
NothingAfterUnsubscribe ==
    [][\A s \in Filtered : user[s] = "left" => Len(out'[s]) <= Len(out[s])]_vars
=============================================================================
