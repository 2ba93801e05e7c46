--------------------- MODULE EventSubscriptionsProofs ---------------------
(***************************************************************************)
(* The safety of EventSubscriptions for any number of subscriptions,       *)
(* events and any buffer size.                                             *)
(*                                                                         *)
(* EventInv is inductive.  The lock carries the argument: while            *)
(* forwardEvents reads eventSubs nobody writes it, so what is left of the  *)
(* round (todo) stays a subset of it, and whoever removed a subscription   *)
(* knows that no send to it is under way.  OrderInv, about the order of    *)
(* the events, rests on it: nobody is in todo but during a fan-out.        *)
(***************************************************************************)
EXTENDS EventSubscriptions, SequenceTheorems, TLAPS

\* The initial state satisfies the invariant.
LEMMA EventInit == ASSUME Init PROVE ControlOK /\ EventInv
<1>1. ControlOK
  BY DEF Init, ControlOK
<1>2. FanoutInv /\ StoppedInv /\ ClosedInv /\ HandleInv
  BY DEF Init, FanoutInv, StoppedInv, ClosedInv, HandleInv
<1>3. FilterInv /\ LeftIsSilent /\ NoSubscriptionLeak
  BY DEF Init, FilterInv, LeftIsSilent, NoSubscriptionLeak
<1>4. QED
  BY <1>1, <1>2, <1>3 DEF EventInv

\* Every step keeps the control state in its type.
LEMMA ControlStep ==
    ASSUME ControlOK, [Next]_vars
    PROVE  ControlOK'
<1> USE DEF ControlOK, fwdVars, subVars, filterVars
<1>1. CASE EmitEvent \/ Stop \/ Receive
  BY <1>1 DEF EmitEvent, Stop, Receive, Alive
<1>2. CASE ForwardSelects \/ ForwardSends \/ ForwardUnlocks
  BY <1>2 DEF ForwardSelects, ForwardSends, ForwardUnlocks, Alive
<1>3. CASE ForwardFansOut
  BY <1>3 DEF ForwardFansOut
<1>4. CASE ForwardExits
  BY <1>4 DEF ForwardExits, CloseChannels
<1>5. ASSUME NEW s \in Subs, SubscribeEvents(s) \/ Unsubscribe(s)
      PROVE  ControlOK'
  BY <1>5 DEF SubscribeEvents, Unsubscribe, HasHandle, Alive
<1>6. ASSUME NEW s \in Subs, CallStep(s)
      PROVE  ControlOK'
  BY <1>6 DEF CallStep, SubscribeRegisters, SubscribeTooLate, FilteredEvents,
              UnsubscribeRemoves, Alive
<1>7. ASSUME NEW s \in Subs, FilterStep(s)
      PROVE  ControlOK'
  BY <1>7 DEF FilterStep, FilterForwards, FilterLeaves, FilterEnds, Alive
<1>8. ASSUME NEW s \in Subs, WatcherCloses(s)
      PROVE  ControlOK'
  BY <1>8 DEF WatcherCloses, CloseChannels
<1>9. CASE UNCHANGED vars
  BY <1>9 DEF vars
<1>10. QED
  BY <1>1, <1>2, <1>3, <1>4, <1>5, <1>6, <1>7, <1>8, <1>9 DEF Next, ForwardStep

\* Every step keeps the invariant.
LEMMA EventStep ==
    ASSUME ControlOK, EventInv, [Next]_vars
    PROVE  EventInv'
<1> USE SubsAssumption
    DEF SubsAssumption, ControlOK, EventInv, FanoutInv, StoppedInv, ClosedInv,
        HandleInv, FilterInv, LeftIsSilent, NoSubscriptionLeak, NodeDone,
        SubDone, fwdVars, subVars, filterVars
<1>1. CASE EmitEvent
  BY <1>1 DEF EmitEvent, Alive
<1>2. CASE Stop
  BY <1>2 DEF Stop, Alive
<1>3. CASE ForwardSelects
  BY <1>3 DEF ForwardSelects, Alive
<1>4. CASE ForwardSends
  BY <1>4 DEF ForwardSends, Alive
<1>5. CASE ForwardFansOut
  BY <1>5 DEF ForwardFansOut
<1>6. CASE ForwardUnlocks
  BY <1>6 DEF ForwardUnlocks, Alive
<1>7. CASE ForwardExits
  BY <1>7 DEF ForwardExits, CloseChannels
<1>8. CASE Receive
  BY <1>8 DEF Receive, Alive
<1>9. ASSUME NEW s \in Subs, SubscribeEvents(s)
      PROVE  EventInv'
  BY <1>9 DEF SubscribeEvents, Alive
<1>10. ASSUME NEW s \in Subs, SubscribeRegisters(s)
      PROVE  EventInv'
  BY <1>10 DEF SubscribeRegisters, CanLock, Alive
<1>11. ASSUME NEW s \in Subs, SubscribeTooLate(s)
      PROVE  EventInv'
  BY <1>11, ZenonT(30) DEF SubscribeTooLate
<1>12. ASSUME NEW s \in Subs, WatcherCloses(s)
      PROVE  EventInv'
  BY <1>12, ZenonT(30) DEF WatcherCloses, CloseChannels
<1>13. ASSUME NEW s \in Subs, FilteredEvents(s)
      PROVE  EventInv'
  BY <1>13 DEF FilteredEvents, Alive
<1>14. ASSUME NEW s \in Subs, Unsubscribe(s)
      PROVE  EventInv'
  BY <1>14 DEF Unsubscribe, HasHandle, Alive
<1>15. ASSUME NEW s \in Subs, UnsubscribeRemoves(s)
      PROVE  EventInv'
  BY <1>15 DEF UnsubscribeRemoves, CanLock, Alive
<1>16. ASSUME NEW s \in Subs, FilterForwards(s)
      PROVE  EventInv'
  BY <1>16 DEF FilterForwards, Alive
<1>17. ASSUME NEW s \in Subs, FilterLeaves(s)
      PROVE  EventInv'
  BY <1>17 DEF FilterLeaves, HandleDone, Alive
<1>18. ASSUME NEW s \in Subs, FilterEnds(s)
      PROVE  EventInv'
  BY <1>18 DEF FilterEnds, CanLock, Alive
<1>19. CASE UNCHANGED vars
  BY <1>19 DEF vars
<1>20. QED
  BY <1>1, <1>2, <1>3, <1>4, <1>5, <1>6, <1>7, <1>8, <1>9, <1>10,
     <1>11, <1>12, <1>13, <1>14, <1>15, <1>16, <1>17, <1>18, <1>19
     DEF Next, ForwardStep, CallStep, FilterStep

\* A channel that takes an event, or gives one, keeps its type.
LEMMA ChannelOps ==
    ASSUME NEW ch \in Channels, NEW e \in 0..MaxEvents
    PROVE  /\ Offer(ch, e) \in Channels
           /\ ch # <<>> => Head(ch) \in 0..MaxEvents /\ Tail(ch) \in Channels
<1>1. ch \in Seq(0..MaxEvents) /\ Len(ch) \in Nat /\ Len(ch) <= Capacity
  BY DEF Channels
<1>2. ASSUME Len(ch) < Capacity PROVE Offer(ch, e) \in Channels
  <2>1. Append(ch, e) \in Seq(0..MaxEvents) /\ Len(Append(ch, e)) = Len(ch) + 1
    BY <1>1
  <2> QED BY <1>1, <1>2, <2>1, SubsAssumption DEF Offer, Channels
<1>3. ASSUME ~(Len(ch) < Capacity) PROVE Offer(ch, e) \in Channels
  BY <1>3 DEF Offer
<1>4. ASSUME ch # <<>>
      PROVE  Head(ch) \in 0..MaxEvents /\ Tail(ch) \in Channels
  <2>1. /\ Head(ch) \in 0..MaxEvents
        /\ Tail(ch) \in Seq(0..MaxEvents) /\ Len(Tail(ch)) = Len(ch) - 1
    BY <1>1, <1>4, HeadTailProperties
  <2> QED BY <1>1, <2>1, SubsAssumption DEF Channels
<1> QED BY <1>2, <1>3, <1>4

\* Every step keeps the channels in their types.
LEMMA ChannelStep ==
    ASSUME TypeOK, ControlOK', [Next]_vars
    PROVE  TypeOK'
<1> USE SubsAssumption DEF TypeOK, fwdVars, subVars, filterVars
<1>1. CASE EmitEvent
  <2>1. emitted' \in 0..MaxEvents
    BY <1>1 DEF EmitEvent
  <2>2. Offer(internal, emitted') \in Channels
    BY <2>1, ChannelOps
  <2> QED BY <1>1, <2>1, <2>2 DEF EmitEvent
<1>2. CASE ForwardSelects
  <2>1. cur' \in 0..MaxEvents /\ internal' \in Channels
    BY <1>2, ChannelOps DEF ForwardSelects
  <2> QED BY <1>2, <2>1 DEF ForwardSelects
<1>3. CASE ForwardSends
  BY <1>3, ChannelOps DEF ForwardSends
<1>4. CASE ForwardFansOut
  <2>1. PICK s \in todo : buf' = [buf EXCEPT ![s] = Offer(@, cur)] \/ buf' = buf
    BY <1>4 DEF ForwardFansOut
  <2>2. s \in Subs
    BY <2>1 DEF ControlOK
  <2>3. Offer(buf[s], cur) \in Channels
    BY <2>2, ChannelOps
  <2>4. buf' \in [Subs -> Channels]
    BY <2>1, <2>2, <2>3
  <2> QED BY <1>4, <2>4 DEF ForwardFansOut
<1>5. CASE Receive
  <2>1. events' \in Channels
    BY <1>5, ChannelOps DEF Receive
  <2>2. buf' \in [Subs -> Channels] /\ out' \in [Subs -> Channels]
    BY <1>5, ChannelOps DEF Receive
  <2> QED BY <1>5, <2>1, <2>2 DEF Receive
<1>6. ASSUME NEW s \in Subs, FilterForwards(s)
      PROVE  TypeOK'
  <2>1. buf[s] \in Channels /\ out[s] \in Channels /\ buf[s] # <<>>
    BY <1>6 DEF FilterForwards
  <2>2. /\ Tail(buf[s]) \in Channels
        /\ Offer(out[s], Head(buf[s])) \in Channels
    BY <2>1, ChannelOps
  <2>3. buf' \in [Subs -> Channels] /\ out' \in [Subs -> Channels]
    BY <1>6, <2>2 DEF FilterForwards
  <2> QED BY <1>6, <2>3 DEF FilterForwards
<1>7. ASSUME UNCHANGED <<internal, emitted, cur, events, buf, out>>
      PROVE  TypeOK'
  BY <1>7
<1>8. CASE Stop \/ ForwardUnlocks \/ ForwardExits
  BY <1>7, <1>8 DEF Stop, ForwardUnlocks, ForwardExits
<1>9. ASSUME NEW s \in Subs,
             \/ SubscribeEvents(s) \/ Unsubscribe(s) \/ CallStep(s)
             \/ FilterLeaves(s) \/ FilterEnds(s) \/ WatcherCloses(s)
      PROVE  TypeOK'
  BY <1>7, <1>9 DEF SubscribeEvents, Unsubscribe, CallStep, SubscribeRegisters,
     SubscribeTooLate, FilteredEvents, UnsubscribeRemoves, FilterLeaves,
     FilterEnds, WatcherCloses
<1>10. CASE UNCHANGED vars
  BY <1>7, <1>10 DEF vars
<1> QED BY <1>1, <1>2, <1>3, <1>4, <1>5, <1>6, <1>8, <1>9, <1>10
        DEF Next, ForwardStep, FilterStep

\* The inductive invariant holds always.
THEOREM EventsCorrect == Spec => []EventSafety
<1>1. Init => EventSafety
  <2> SUFFICES ASSUME Init PROVE TypeOK
    BY EventInit DEF EventSafety
  <2>1. <<>> \in Channels
    BY SubsAssumption DEF Channels
  <2> QED BY <2>1, EventInit, SubsAssumption DEF Init, TypeOK
<1>2. EventSafety /\ [Next]_vars => EventSafety'
  <2> SUFFICES ASSUME EventSafety, [Next]_vars PROVE EventSafety'
    OBVIOUS
  <2>1. ControlOK' /\ EventInv'
    BY ControlStep, EventStep DEF EventSafety, TypeOK
  <2> QED BY <2>1, ChannelStep DEF EventSafety
<1>3. QED
  BY <1>1, <1>2, PTL DEF Spec

\* forwardEvents cannot find a closed channel before the subscription's
\* Unsubscribe or the node's Stop has begun.
THEOREM OpenWhileRegistered == Spec => []RegisteredIsOpen
<1>1. EventSafety => RegisteredIsOpen
  BY DEF EventSafety, EventInv, ClosedInv, RegisteredIsOpen
<1>2. QED
  BY <1>1, EventsCorrect, PTL

\* When Unsubscribe returns no send to the subscription is under way.
THEOREM SilentAfterUnsubscribe == Spec => []LeftIsSilent
<1>1. EventSafety => LeftIsSilent
  BY DEF EventSafety, EventInv
<1>2. QED
  BY <1>1, EventsCorrect, PTL

\* A filtered handle that ended has ended the subscription underneath.
THEOREM FiltersEndTheirBase == Spec => []NoSubscriptionLeak
<1>1. EventSafety => NoSubscriptionLeak
  BY DEF EventSafety, EventInv
<1>2. QED
  BY <1>1, EventsCorrect, PTL

-----------------------------------------------------------------------------
(* The order of the events.  A lane is the way of the events to one reader: *)
(* the channel it reads (o), the one before it (b), the event in the hands  *)
(* of forwardEvents (h) and the dispatcher's channel (i), of n events that  *)
(* were emitted.  Every step appends a new event to the lane, moves one     *)
(* from a part to the next, or drops one.                                   *)

Before(p, q) == \A j \in DOMAIN p, k \in DOMAIN q : p[j] < q[k]
UpTo(q, n) == \A j \in DOMAIN q : q[j] <= n

Lane(o, b, h, i, n) ==
    /\ Increasing(o) /\ Increasing(b) /\ Increasing(h) /\ Increasing(i)
    /\ Before(o, b) /\ Before(o, h) /\ Before(o, i)
    /\ Before(b, h) /\ Before(b, i) /\ Before(h, i)
    /\ UpTo(o, n) /\ UpTo(b, n) /\ UpTo(h, n) /\ UpTo(i, n)

Numbers == Seq(0..MaxEvents)

\* The inductive invariant of the order.
OrderInv ==
    /\ Lane(<<>>, events, InHand(fwd = "send"), internal, emitted)
    /\ \A s \in Subs : Lane(out[s], buf[s],
                            InHand(fwd = "send" \/ s \in todo), internal, emitted)

\* Nothing is out of order in an empty sequence or in one of one element.
LEMMA ShortIsOrdered ==
    ASSUME NEW e \in Nat, NEW p, NEW n
    PROVE  /\ Increasing(<<>>) /\ Increasing(<<e>>)
           /\ Before(<<>>, p) /\ Before(p, <<>>)
           /\ UpTo(<<>>, n)
           /\ Before(p, <<e>>) <=> \A j \in DOMAIN p : p[j] < e
           /\ Before(<<e>>, p) <=> \A j \in DOMAIN p : e < p[j]
           /\ UpTo(<<e>>, n) <=> e <= n
BY DEF Increasing, Before, UpTo

\* What is left when the head is taken, and the head itself, keep their place.
LEMMA TakingKeepsOrder ==
    ASSUME NEW q \in Numbers, q # <<>>
    PROVE  /\ Head(q) \in 0..MaxEvents /\ Tail(q) \in Numbers
           /\ Increasing(q) => Increasing(Tail(q)) /\ Before(<<Head(q)>>, Tail(q))
           /\ \A p : Before(p, q) => Before(p, Tail(q)) /\ Before(p, <<Head(q)>>)
           /\ \A p : Before(q, p) => Before(Tail(q), p) /\ Before(<<Head(q)>>, p)
           /\ \A n : UpTo(q, n) => UpTo(Tail(q), n) /\ UpTo(<<Head(q)>>, n)
<1>1. /\ Head(q) \in 0..MaxEvents /\ Head(q) = q[1] /\ 1 \in DOMAIN q
      /\ Tail(q) \in Numbers
      /\ \A j \in DOMAIN Tail(q) :
            j \in Nat /\ j >= 1 /\ j + 1 \in DOMAIN q /\ Tail(q)[j] = q[j + 1]
  <2>1. q \in Seq(0..MaxEvents) /\ Len(q) \in Nat /\ Len(q) >= 1
        /\ DOMAIN q = 1..Len(q)
    BY EmptySeq, LenProperties DEF Numbers
  <2>2. /\ Head(q) \in 0..MaxEvents
        /\ Tail(q) \in Seq(0..MaxEvents)
        /\ Len(Tail(q)) = Len(q) - 1
        /\ \A j \in 1..Len(Tail(q)) : Tail(q)[j] = q[j + 1]
    BY <2>1, HeadTailProperties
  <2>3. Head(q) = q[1]
    BY <2>1
  <2>4. DOMAIN Tail(q) = 1..Len(Tail(q))
    BY <2>2, LenProperties
  <2> QED BY <2>1, <2>2, <2>3, <2>4 DEF Numbers
<1>2. Head(q) \in Nat
  BY <1>1, SubsAssumption DEF SubsAssumption
<1>3. PICK t : t = Tail(q)
  OBVIOUS
<1>4. PICK e : e = Head(q)
  OBVIOUS
<1>5. /\ e \in Nat /\ e = q[1] /\ 1 \in DOMAIN q
      /\ \A j \in DOMAIN t :
            j \in Nat /\ j >= 1 /\ j + 1 \in DOMAIN q /\ t[j] = q[j + 1]
  BY <1>1, <1>2, <1>3, <1>4
<1>6. Increasing(q) => Increasing(t) /\ Before(<<e>>, t)
  <2>1. Increasing(q) => Increasing(t)
    BY <1>5 DEF Increasing
  <2>2. Increasing(q) => \A j \in DOMAIN t : e < t[j]
    BY <1>5 DEF Increasing
  <2> QED BY <1>5, <2>1, <2>2, ShortIsOrdered
<1>7. ASSUME NEW p, Before(p, q) PROVE Before(p, t) /\ Before(p, <<e>>)
  <2>1. Before(p, t) /\ \A j \in DOMAIN p : p[j] < e
    BY <1>5, <1>7 DEF Before
  <2> QED BY <1>5, <2>1, ShortIsOrdered
<1>8. ASSUME NEW p, Before(q, p) PROVE Before(t, p) /\ Before(<<e>>, p)
  <2>1. Before(t, p) /\ \A j \in DOMAIN p : e < p[j]
    BY <1>5, <1>8 DEF Before
  <2> QED BY <1>5, <2>1, ShortIsOrdered
<1>9. ASSUME NEW n, UpTo(q, n) PROVE UpTo(t, n) /\ UpTo(<<e>>, n)
  <2>1. UpTo(t, n) /\ e <= n
    BY <1>5, <1>9 DEF UpTo
  <2> QED BY <1>5, <2>1, ShortIsOrdered
<1> QED BY <1>1, <1>3, <1>4, <1>6, <1>7, <1>8, <1>9

\* An event that is offered to a channel takes its place at the end, or none.
LEMMA OfferKeepsOrder ==
    ASSUME NEW q \in Numbers, NEW e \in 0..MaxEvents
    PROVE  /\ Increasing(q) /\ Before(q, <<e>>) => Increasing(Offer(q, e))
           /\ \A p : Before(p, q) /\ Before(p, <<e>>) => Before(p, Offer(q, e))
           /\ \A p : Before(q, p) /\ Before(<<e>>, p) => Before(Offer(q, e), p)
           /\ \A n : UpTo(q, n) /\ UpTo(<<e>>, n) => UpTo(Offer(q, e), n)
<1>1. CASE ~(Len(q) < Capacity)
  BY <1>1 DEF Offer
<1>2. CASE Len(q) < Capacity
  <2>1. PICK a : a = Offer(q, e)
    OBVIOUS
  <2>2. a = Append(q, e)
    BY <1>2, <2>1 DEF Offer
  <2>3. PICK l \in Nat : l = Len(q) /\ DOMAIN q = 1..l
    BY DEF Numbers
  <2>4. /\ DOMAIN a = 1..(l + 1)
        /\ \A j \in 1..l : a[j] = q[j]
        /\ a[l + 1] = e
    BY <2>2, <2>3 DEF Numbers
  <2>5. e \in Nat
    BY SubsAssumption DEF SubsAssumption
  <2>6. ASSUME NEW j \in DOMAIN a
        PROVE  (j \in DOMAIN q /\ a[j] = q[j]) \/ (j = l + 1 /\ a[j] = e)
    BY <2>3, <2>4
  <2>7. Increasing(q) /\ Before(q, <<e>>) => Increasing(a)
    <3>1. SUFFICES ASSUME Increasing(q), Before(q, <<e>>),
                          NEW j \in DOMAIN a, NEW k \in DOMAIN a, j < k
                   PROVE  a[j] < a[k]
      BY DEF Increasing
    <3>2. \A m \in DOMAIN q : q[m] < e
      BY <2>5, <3>1, ShortIsOrdered
    <3>3. j \in DOMAIN q /\ a[j] = q[j]
      BY <2>3, <2>4, <3>1
    <3>4. CASE k \in DOMAIN q /\ a[k] = q[k]
      BY <3>1, <3>3, <3>4 DEF Increasing
    <3>5. CASE k = l + 1 /\ a[k] = e
      BY <3>2, <3>3, <3>5
    <3> QED BY <2>6, <3>4, <3>5
  <2>8. ASSUME NEW p, Before(p, q), Before(p, <<e>>) PROVE Before(p, a)
    <3>1. \A m \in DOMAIN p : p[m] < e
      BY <2>5, <2>8, ShortIsOrdered
    <3> QED BY <2>6, <2>8, <3>1 DEF Before
  <2>9. ASSUME NEW p, Before(q, p), Before(<<e>>, p) PROVE Before(a, p)
    <3>1. \A m \in DOMAIN p : e < p[m]
      BY <2>5, <2>9, ShortIsOrdered
    <3> QED BY <2>6, <2>9, <3>1 DEF Before
  <2>10. ASSUME NEW n, UpTo(q, n), UpTo(<<e>>, n) PROVE UpTo(a, n)
    <3>1. e <= n
      BY <2>5, <2>10, ShortIsOrdered
    <3> QED BY <2>6, <2>10, <3>1 DEF UpTo
  <2> QED BY <2>1, <2>7, <2>8, <2>9, <2>10
<1> QED BY <1>1, <1>2

\* A lane whose parts are in order is in order.
LEMMA LaneIsIncreasing ==
    ASSUME NEW o \in Numbers, NEW b \in Numbers, NEW h \in Numbers,
           NEW i \in Numbers, NEW n, Lane(o, b, h, i, n)
    PROVE  /\ Increasing(o \o b \o h \o i)
           /\ Increasing(b \o h \o i)
<1>1. ASSUME NEW p \in Numbers, NEW q \in Numbers,
             Increasing(p), Increasing(q), Before(p, q)
      PROVE  /\ p \o q \in Numbers
             /\ Increasing(p \o q)
             /\ \A r : Before(p, r) /\ Before(q, r) => Before(p \o q, r)
  <2>1. PICK a : a = p \o q
    OBVIOUS
  <2>2. PICK l \in Nat, m \in Nat :
            /\ l = Len(p) /\ DOMAIN p = 1..l
            /\ m = Len(q) /\ DOMAIN q = 1..m
    BY LenProperties DEF Numbers
  <2>3. /\ a \in Seq(0..MaxEvents) /\ Len(a) = l + m
        /\ \A j \in 1..(l + m) : a[j] = IF j <= l THEN p[j] ELSE q[j - l]
    BY <2>1, <2>2, ConcatProperties DEF Numbers
  <2>4. DOMAIN a = 1..(l + m)
    BY <2>2, <2>3, LenProperties
  <2>5. ASSUME NEW j \in DOMAIN a
        PROVE  \/ j \in DOMAIN p /\ j <= l /\ a[j] = p[j]
               \/ j - l \in DOMAIN q /\ j > l /\ a[j] = q[j - l]
    BY <2>2, <2>3, <2>4
  <2>6. ASSUME NEW j \in DOMAIN a, NEW k \in DOMAIN a, j < k
        PROVE  a[j] < a[k]
    <3>1. j \in Nat /\ k \in Nat
      BY <2>2, <2>4
    <3>2. CASE k \in DOMAIN p /\ k <= l /\ a[k] = p[k]
      <4>1. j \in DOMAIN p /\ a[j] = p[j]
        BY <2>2, <2>5, <2>6, <3>1, <3>2
      <4> QED BY <1>1, <2>6, <3>2, <4>1 DEF Increasing
    <3>3. CASE k - l \in DOMAIN q /\ k > l /\ a[k] = q[k - l]
      <4>1. CASE j \in DOMAIN p /\ a[j] = p[j]
        BY <1>1, <3>3, <4>1 DEF Before
      <4>2. CASE j - l \in DOMAIN q /\ a[j] = q[j - l]
        <5>1. j - l < k - l
          BY <2>2, <2>6, <3>1
        <5> QED BY <1>1, <3>3, <4>2, <5>1 DEF Increasing
      <4> QED BY <2>5, <4>1, <4>2
    <3> QED BY <2>5, <3>2, <3>3
  <2>7. ASSUME NEW r, Before(p, r), Before(q, r) PROVE Before(a, r)
    BY <2>5, <2>7 DEF Before
  <2>8. Increasing(a)
    BY <2>6 DEF Increasing
  <2> QED BY <2>1, <2>3, <2>7, <2>8 DEF Numbers
<1>2. /\ o \o b \in Numbers /\ Increasing(o \o b)
      /\ Before(o \o b, h) /\ Before(o \o b, i)
  BY <1>1 DEF Lane
<1>3. PICK ob \in Numbers : ob = o \o b
  BY <1>2
<1>4. ob \o h \in Numbers /\ Increasing(ob \o h) /\ Before(ob \o h, i)
  BY <1>1, <1>2, <1>3 DEF Lane
<1>5. Increasing((ob \o h) \o i)
  BY <1>1, <1>4 DEF Lane
<1>6. b \o h \in Numbers /\ Increasing(b \o h) /\ Before(b \o h, i)
  BY <1>1 DEF Lane
<1>7. Increasing((b \o h) \o i)
  BY <1>1, <1>6 DEF Lane
<1> QED BY <1>3, <1>5, <1>7

\* The ways in which a step changes a lane.
LEMMA LaneMoves ==
    ASSUME NEW o \in Numbers, NEW b \in Numbers, NEW h \in Numbers,
           NEW i \in Numbers, NEW n \in Nat, Lane(o, b, h, i, n)
    PROVE  /\ Lane(o, b, <<>>, i, n)
           /\ h = <<>> /\ i # <<>> => Lane(o, b, <<Head(i)>>, Tail(i), n)
           /\ \A e \in 0..MaxEvents : h = <<e>> => Lane(o, Offer(b, e), <<>>, i, n)
           /\ o # <<>> => Lane(Tail(o), b, h, i, n)
           /\ b # <<>> => /\ Lane(o, Tail(b), h, i, n)
                          /\ Lane(Offer(o, Head(b)), Tail(b), h, i, n)
<1>1. Lane(o, b, <<>>, i, n)
  BY ShortIsOrdered DEF Lane
<1>2. ASSUME h = <<>>, i # <<>> PROVE Lane(o, b, <<Head(i)>>, Tail(i), n)
  <2>1. PICK e \in 0..MaxEvents : e = Head(i)
    BY <1>2, TakingKeepsOrder
  <2>2. Increasing(<<e>>)
    BY ShortIsOrdered, SubsAssumption DEF SubsAssumption
  <2>3. Lane(o, b, <<e>>, Tail(i), n)
    BY <1>2, <2>1, <2>2, TakingKeepsOrder DEF Lane
  <2> QED BY <2>1, <2>3
<1>3. ASSUME NEW e \in 0..MaxEvents, h = <<e>>
      PROVE  Lane(o, Offer(b, e), <<>>, i, n)
  <2>1. /\ Before(o, <<e>>) /\ Before(b, <<e>>) /\ Before(<<e>>, i)
        /\ UpTo(<<e>>, n)
    BY <1>3 DEF Lane
  <2>2. /\ Increasing(Offer(b, e)) /\ Before(o, Offer(b, e))
        /\ Before(Offer(b, e), i) /\ UpTo(Offer(b, e), n)
    BY <2>1, OfferKeepsOrder DEF Lane
  <2> QED BY <1>1, <2>2, ShortIsOrdered DEF Lane
<1>4. ASSUME o # <<>> PROVE Lane(Tail(o), b, h, i, n)
  BY <1>4, TakingKeepsOrder DEF Lane
<1>5. ASSUME b # <<>> PROVE Lane(o, Tail(b), h, i, n)
  BY <1>5, TakingKeepsOrder DEF Lane
<1>6. ASSUME b # <<>> PROVE Lane(Offer(o, Head(b)), Tail(b), h, i, n)
  <2>1. PICK e \in 0..MaxEvents : e = Head(b)
    BY <1>6, TakingKeepsOrder
  <2>2. Before(o, <<e>>) /\ Before(<<e>>, Tail(b)) /\ Before(<<e>>, h)
        /\ Before(<<e>>, i) /\ UpTo(<<e>>, n)
    BY <1>6, <2>1, TakingKeepsOrder DEF Lane
  <2>3. Lane(Offer(o, e), Tail(b), h, i, n)
    BY <1>5, <1>6, <2>2, OfferKeepsOrder DEF Lane
  <2> QED BY <2>1, <2>3
<1> QED BY <1>1, <1>2, <1>3, <1>4, <1>5, <1>6

\* A new event is later than everything on the lane.
LEMMA LaneGrows ==
    ASSUME NEW o \in Numbers, NEW b \in Numbers, NEW h \in Numbers,
           NEW i \in Numbers, NEW n \in Nat, Lane(o, b, h, i, n),
           n + 1 <= MaxEvents
    PROVE  /\ Lane(o, b, h, i, n + 1)
           /\ Lane(o, b, h, Offer(i, n + 1), n + 1)
<1>1. n + 1 \in Nat /\ n + 1 \in 0..MaxEvents
  BY SubsAssumption DEF SubsAssumption
<1>2. ASSUME NEW q \in Numbers, UpTo(q, n)
      PROVE  UpTo(q, n + 1) /\ Before(q, <<n + 1>>)
  <2>1. \A j \in DOMAIN q : q[j] \in Nat
    BY SubsAssumption DEF SubsAssumption, Numbers
  <2>2. UpTo(q, n + 1) /\ \A j \in DOMAIN q : q[j] < n + 1
    BY <1>2, <2>1 DEF UpTo
  <2> QED BY <1>1, <2>2, ShortIsOrdered
<1>3. Lane(o, b, h, i, n + 1)
  BY <1>2 DEF Lane
<1>4. UpTo(<<n + 1>>, n + 1)
  BY <1>1 DEF UpTo
<1>5. Lane(o, b, h, Offer(i, n + 1), n + 1)
  BY <1>1, <1>2, <1>3, <1>4, OfferKeepsOrder DEF Lane
<1> QED BY <1>3, <1>5

\* The types of the parts of the lanes.
LEMMA LaneTypes ==
    ASSUME TypeOK
    PROVE  /\ internal \in Numbers /\ events \in Numbers /\ <<>> \in Numbers
           /\ \A b \in BOOLEAN : InHand(b) \in Numbers
           /\ \A s \in Subs : buf[s] \in Numbers /\ out[s] \in Numbers
           /\ emitted \in Nat /\ cur \in 0..MaxEvents
<1>1. /\ internal \in Numbers /\ events \in Numbers
      /\ \A s \in Subs : buf[s] \in Numbers /\ out[s] \in Numbers
  BY DEF TypeOK, Channels, Numbers
<1>2. emitted \in Nat /\ cur \in 0..MaxEvents
  BY SubsAssumption DEF TypeOK, SubsAssumption
<1>3. <<>> \in Numbers /\ <<cur>> \in Numbers
  BY <1>2 DEF Numbers
<1> QED BY <1>1, <1>2, <1>3 DEF InHand

\* A step that leaves the lanes alone, or only takes away what was in hand,
\* keeps the order.
LEMMA OrderSame ==
    ASSUME TypeOK, OrderInv,
           UNCHANGED <<internal, emitted, events, buf, out, cur>>,
           fwd' = "send" => fwd = "send", todo' \subseteq todo
    PROVE  OrderInv'
<1>1. Lane(<<>>, events, InHand(fwd' = "send"), internal, emitted)
  <2>1. CASE fwd' = "send"
    BY <2>1 DEF OrderInv
  <2>2. CASE fwd' # "send"
    BY <2>2, LaneMoves, LaneTypes DEF OrderInv, InHand
  <2> QED BY <2>1, <2>2
<1>2. ASSUME NEW s \in Subs
      PROVE  Lane(out[s], buf[s], InHand(fwd' = "send" \/ s \in todo'),
                  internal, emitted)
  <2>1. CASE fwd' = "send" \/ s \in todo'
    BY <2>1 DEF OrderInv, InHand
  <2>2. CASE ~(fwd' = "send" \/ s \in todo')
    BY <2>2, LaneMoves, LaneTypes DEF OrderInv, InHand
  <2> QED BY <2>1, <2>2
<1>3. \A b \in BOOLEAN : InHand(b)' = InHand(b)
  BY DEF InHand
<1> QED BY <1>1, <1>2, <1>3 DEF OrderInv, InHand

\* EmitEvent appends to every lane.
LEMMA EmitOrder ==
    ASSUME TypeOK, OrderInv, EmitEvent
    PROVE  OrderInv'
<1>1. /\ emitted + 1 <= MaxEvents /\ emitted' = emitted + 1
      /\ internal' = internal \/ internal' = Offer(internal, emitted + 1)
      /\ UNCHANGED <<events, buf, out, cur, fwd, todo>>
  BY SubsAssumption DEF EmitEvent, TypeOK, SubsAssumption, fwdVars, filterVars
<1>2. ASSUME NEW o \in Numbers, NEW b \in Numbers, NEW h \in Numbers,
             Lane(o, b, h, internal, emitted)
      PROVE  Lane(o, b, h, internal', emitted')
  BY <1>1, <1>2, LaneGrows, LaneTypes
<1>3. Lane(<<>>, events, InHand(fwd = "send"), internal', emitted')
  BY <1>2, LaneTypes DEF OrderInv
<1>4. ASSUME NEW s \in Subs
      PROVE  Lane(out[s], buf[s], InHand(fwd = "send" \/ s \in todo),
                  internal', emitted')
  BY <1>2, LaneTypes DEF OrderInv
<1> QED BY <1>1, <1>3, <1>4 DEF OrderInv, InHand

\* forwardEvents takes the head of the dispatcher's channel for everybody.
LEMMA SelectOrder ==
    ASSUME TypeOK, OrderInv, FanoutInv, ForwardSelects
    PROVE  OrderInv'
<1>1. CASE UNCHANGED <<cur, internal>> /\ fwd' = "exit"
  BY <1>1, OrderSame DEF ForwardSelects, filterVars
<1>2. CASE internal # <<>> /\ cur' = Head(internal)
           /\ internal' = Tail(internal) /\ fwd' = "send"
  <2>1. fwd = "select" /\ todo = {} /\ UNCHANGED <<emitted, events, buf, out, todo>>
    BY DEF ForwardSelects, FanoutInv, filterVars
  <2>2. ASSUME NEW o \in Numbers, NEW b \in Numbers,
               Lane(o, b, <<>>, internal, emitted)
        PROVE  Lane(o, b, <<cur'>>, internal', emitted)
    BY <1>2, <2>2, LaneMoves, LaneTypes
  <2>3. Lane(<<>>, events, <<cur'>>, internal', emitted)
    BY <2>1, <2>2, LaneTypes DEF OrderInv, InHand
  <2>4. ASSUME NEW s \in Subs
        PROVE  Lane(out[s], buf[s], <<cur'>>, internal', emitted)
    BY <2>1, <2>2, LaneTypes DEF OrderInv, InHand
  <2> QED BY <1>2, <2>1, <2>3, <2>4 DEF OrderInv, InHand
<1> QED BY <1>1, <1>2 DEF ForwardSelects

\* The main channel is offered the event; who is not registered misses it.
LEMMA SendOrder ==
    ASSUME TypeOK, OrderInv, ForwardSends
    PROVE  OrderInv'
<1>1. /\ fwd = "send" /\ fwd' = "fanout"
      /\ events' = Offer(events, cur) /\ todo' = eventSubs
      /\ UNCHANGED <<internal, emitted, buf, out, cur>>
  BY DEF ForwardSends, filterVars
<1>2. Lane(<<>>, events', <<>>, internal, emitted)
  <2>1. Lane(<<>>, events, <<cur>>, internal, emitted)
    BY <1>1 DEF OrderInv, InHand
  <2>2. <<cur>> \in Numbers
    BY LaneTypes DEF InHand
  <2> QED BY <1>1, <2>1, <2>2, LaneMoves, LaneTypes
<1>3. ASSUME NEW s \in Subs
      PROVE  /\ Lane(out[s], buf[s], <<cur>>, internal, emitted)
             /\ Lane(out[s], buf[s], <<>>, internal, emitted)
  <2>1. Lane(out[s], buf[s], <<cur>>, internal, emitted)
    BY <1>1 DEF OrderInv, InHand
  <2>2. <<cur>> \in Numbers
    BY LaneTypes DEF InHand
  <2> QED BY <2>1, <2>2, LaneMoves, LaneTypes
<1> QED BY <1>1, <1>2, <1>3 DEF OrderInv, InHand

\* A subscriber is offered the event, once.
LEMMA FanOutOrder ==
    ASSUME TypeOK, OrderInv, ForwardFansOut
    PROVE  OrderInv'
<1>1. PICK s \in todo :
          /\ todo' = todo \ {s}
          /\ buf' = [buf EXCEPT ![s] = Offer(@, cur)] \/ buf' = buf
  BY DEF ForwardFansOut
<1>2. /\ s \in Subs /\ fwd = "fanout"
      /\ UNCHANGED <<internal, emitted, events, out, cur, fwd>>
  BY <1>1 DEF ForwardFansOut, TypeOK, ControlOK, filterVars
<1>3. CASE buf' = buf
  BY <1>1, <1>2, <1>3, OrderSame
<1>4. CASE buf' = [buf EXCEPT ![s] = Offer(@, cur)]
  <2>1. /\ buf'[s] = Offer(buf[s], cur)
        /\ \A u \in Subs : u # s => buf'[u] = buf[u]
    BY <1>2, <1>4 DEF TypeOK
  <2>2. Lane(out[s], buf'[s], <<>>, internal, emitted)
    <3>1. Lane(out[s], buf[s], <<cur>>, internal, emitted)
      BY <1>1, <1>2 DEF OrderInv, InHand
    <3>2. <<cur>> \in Numbers
      BY LaneTypes DEF InHand
    <3>3. /\ out[s] \in Numbers /\ buf[s] \in Numbers /\ cur \in 0..MaxEvents
          /\ internal \in Numbers /\ emitted \in Nat
      BY <1>2, LaneTypes
    <3>4. Lane(out[s], Offer(buf[s], cur), <<>>, internal, emitted)
      BY <3>1, <3>2, <3>3, LaneMoves
    <3> QED BY <2>1, <3>4
  <2>3. ASSUME NEW u \in Subs, u # s
        PROVE  Lane(out[u], buf'[u], InHand(u \in todo'), internal, emitted)
    BY <1>1, <1>2, <2>1, <2>3 DEF OrderInv, InHand
  <2>4. Lane(<<>>, events, <<>>, internal, emitted)
    BY <1>2 DEF OrderInv, InHand
  <2> QED BY <1>1, <1>2, <2>2, <2>3, <2>4 DEF OrderInv, InHand
<1> QED BY <1>1, <1>3, <1>4

\* A filter moves the head of its subscription to its handle, or drops it.
LEMMA FilterOrder ==
    ASSUME TypeOK, OrderInv, NEW s \in Subs, FilterForwards(s)
    PROVE  OrderInv'
<1>1. /\ buf[s] # <<>>
      /\ buf' = [buf EXCEPT ![s] = Tail(@)]
      /\ out' = out \/ out' = [out EXCEPT ![s] = Offer(@, Head(buf[s]))]
      /\ UNCHANGED <<internal, emitted, events, cur, fwd, todo>>
  BY DEF FilterForwards, fwdVars
<1>2. /\ buf'[s] = Tail(buf[s])
      /\ out'[s] = out[s] \/ out'[s] = Offer(out[s], Head(buf[s]))
      /\ \A u \in Subs : u # s => buf'[u] = buf[u] /\ out'[u] = out[u]
  BY <1>1 DEF TypeOK
<1>3. ASSUME NEW h \in Numbers, Lane(out[s], buf[s], h, internal, emitted)
      PROVE  Lane(out'[s], buf'[s], h, internal, emitted)
  <2>1. /\ out[s] \in Numbers /\ buf[s] \in Numbers
        /\ internal \in Numbers /\ emitted \in Nat
    BY LaneTypes
  <2>2. /\ Lane(out[s], Tail(buf[s]), h, internal, emitted)
        /\ Lane(Offer(out[s], Head(buf[s])), Tail(buf[s]), h, internal, emitted)
    BY <1>1, <1>3, <2>1, LaneMoves
  <2> QED BY <1>2, <2>2
<1>4. ASSUME NEW u \in Subs
      PROVE  Lane(out'[u], buf'[u], InHand(fwd = "send" \/ u \in todo),
                  internal, emitted)
  <2>1. CASE u = s
    BY <1>3, <2>1, LaneTypes DEF OrderInv
  <2>2. CASE u # s
    BY <1>2, <2>2 DEF OrderInv
  <2> QED BY <2>1, <2>2
<1> QED BY <1>1, <1>4 DEF OrderInv, InHand

\* The application takes the head of the channel it reads.
LEMMA ReceiveOrder ==
    ASSUME TypeOK, OrderInv, Receive
    PROVE  OrderInv'
<1>1. UNCHANGED <<internal, emitted, cur, fwd, todo>>
  BY DEF Receive
<1>2. CASE events # <<>> /\ events' = Tail(events) /\ UNCHANGED <<buf, out>>
  <2>1. Lane(<<>>, events', InHand(fwd = "send"), internal, emitted)
    BY <1>2, LaneMoves, LaneTypes DEF OrderInv
  <2> QED BY <1>1, <1>2, <2>1 DEF OrderInv, InHand
<1>3. ASSUME NEW s \in Subs, UNCHANGED events,
             \/ /\ buf[s] # <<>> /\ buf' = [buf EXCEPT ![s] = Tail(@)]
                /\ UNCHANGED out
             \/ /\ out[s] # <<>> /\ out' = [out EXCEPT ![s] = Tail(@)]
                /\ UNCHANGED buf
      PROVE  OrderInv'
  <2>1. /\ \/ buf[s] # <<>> /\ buf'[s] = Tail(buf[s]) /\ out'[s] = out[s]
           \/ out[s] # <<>> /\ out'[s] = Tail(out[s]) /\ buf'[s] = buf[s]
        /\ \A u \in Subs : u # s => buf'[u] = buf[u] /\ out'[u] = out[u]
    BY <1>3 DEF TypeOK
  <2>2. ASSUME NEW h \in Numbers, Lane(out[s], buf[s], h, internal, emitted)
        PROVE  Lane(out'[s], buf'[s], h, internal, emitted)
    <3>1. /\ out[s] \in Numbers /\ buf[s] \in Numbers
          /\ internal \in Numbers /\ emitted \in Nat
      BY LaneTypes
    <3>2. /\ buf[s] # <<>> => Lane(out[s], Tail(buf[s]), h, internal, emitted)
          /\ out[s] # <<>> => Lane(Tail(out[s]), buf[s], h, internal, emitted)
      BY <2>2, <3>1, LaneMoves
    <3> QED BY <2>1, <2>2, <3>2
  <2>3. ASSUME NEW u \in Subs
        PROVE  Lane(out'[u], buf'[u], InHand(fwd = "send" \/ u \in todo),
                    internal, emitted)
    <3>1. CASE u = s
      BY <2>2, <3>1, LaneTypes DEF OrderInv
    <3>2. CASE u # s
      BY <2>1, <3>2 DEF OrderInv
    <3> QED BY <3>1, <3>2
  <2> QED BY <1>1, <1>3, <2>3 DEF OrderInv, InHand
<1> QED BY <1>2, <1>3 DEF Receive

\* Every step keeps the order of the lanes.
LEMMA OrderStep ==
    ASSUME TypeOK, FanoutInv, OrderInv, [Next]_vars
    PROVE  OrderInv'
<1>1. CASE Stop \/ ForwardUnlocks \/ ForwardExits
  BY <1>1, OrderSame
     DEF Stop, ForwardUnlocks, ForwardExits, fwdVars, filterVars
<1>2. ASSUME NEW s \in Subs,
             \/ SubscribeEvents(s) \/ Unsubscribe(s) \/ CallStep(s)
             \/ FilterLeaves(s) \/ FilterEnds(s) \/ WatcherCloses(s)
      PROVE  OrderInv'
  BY <1>2, OrderSame
     DEF SubscribeEvents, Unsubscribe, CallStep, SubscribeRegisters,
         SubscribeTooLate, FilteredEvents, UnsubscribeRemoves, FilterLeaves,
         FilterEnds, WatcherCloses, fwdVars, filterVars
<1>3. CASE UNCHANGED vars
  BY <1>3, OrderSame DEF vars, fwdVars, filterVars
<1> QED BY <1>1, <1>2, <1>3, EmitOrder, SelectOrder, SendOrder, FanOutOrder,
           FilterOrder, ReceiveOrder
        DEF Next, ForwardStep, FilterStep

\* To every reader, of the main channel, of a subscription or of a filtered
\* handle, the events come in the order in which they were emitted and none
\* comes twice, for any number of readers and any capacity of the channels.
THEOREM OrderHolds == Spec => []EventsInOrder
<1>1. Init => OrderInv
  <2>1. SUFFICES ASSUME Init PROVE OrderInv
    OBVIOUS
  <2>2. Lane(<<>>, <<>>, <<>>, <<>>, 0)
    BY ShortIsOrdered DEF Lane
  <2> QED BY <2>1, <2>2 DEF Init, OrderInv, InHand
<1>2. EventSafety /\ OrderInv /\ [Next]_vars => OrderInv'
  BY OrderStep DEF EventSafety, EventInv
<1>3. EventSafety /\ OrderInv => EventsInOrder
  <2>1. SUFFICES ASSUME TypeOK, OrderInv PROVE EventsInOrder
    BY DEF EventSafety
  <2>2. Increasing(events \o InHand(fwd = "send") \o internal)
    BY <2>1, LaneIsIncreasing, LaneTypes DEF OrderInv
  <2>3. ASSUME NEW s \in Subs PROVE Increasing(OnTheWay(s))
    BY <2>1, LaneIsIncreasing, LaneTypes DEF OrderInv, OnTheWay
  <2> QED BY <2>2, <2>3 DEF EventsInOrder
<1>4. QED
  BY <1>1, <1>2, <1>3, EventsCorrect, PTL DEF Spec

-----------------------------------------------------------------------------
(* Panics.                                                                 *)

\* forwardEvents finds a closed channel only when a subscriber is leaving or
\* the node stops, and a channel is closed twice only when SubscribeEvents was
\* called on a node that had stopped.
PanicsAtTheEnd ==
    /\ panicked = "send on closed" => NodeDone \/ cancelled # {}
    /\ panicked = "close of closed" => \E s \in Subs : sub[s] = "nil"

\* Only SubscribeEvents on a stopped node closes a channel without closeOnce.
OnceInv == \A s \in closed \ once : sub[s] = "nil"

\* Both are inductive with EventSafety.
LEMMA PanicStep ==
    ASSUME EventSafety, OnceInv, PanicsAtTheEnd, [Next]_vars
    PROVE  OnceInv' /\ PanicsAtTheEnd'
<1> USE DEF EventSafety, TypeOK, ControlOK, OnceInv, PanicsAtTheEnd, NodeDone,
            fwdVars, subVars, filterVars
<1>1. ASSUME UNCHANGED <<closed, once, panicked>>,
             stop # "no" => stop' # "no", cancelled \subseteq cancelled',
             \A s \in Subs : sub[s] = "nil" => sub'[s] = "nil"
      PROVE  OnceInv' /\ PanicsAtTheEnd'
  BY <1>1
<1>2. CASE \/ EmitEvent \/ Stop \/ ForwardSelects \/ ForwardSends
           \/ ForwardUnlocks \/ Receive
  BY <1>1, <1>2 DEF EmitEvent, Stop, ForwardSelects, ForwardSends,
                    ForwardUnlocks, Receive, Alive
<1>3. CASE ForwardFansOut
  <2>1. PICK s \in todo : panicked' = panicked \/ s \in closed
    BY <1>3 DEF ForwardFansOut
  <2>2. s \in closed => NodeDone \/ cancelled # {}
    BY <2>1 DEF EventInv, ClosedInv, SubDone
  <2>3. panicked' \in {panicked, "send on closed"}
        /\ UNCHANGED <<stop, sub, cancelled, once, closed>>
    BY <1>3 DEF ForwardFansOut
  <2> QED BY <2>1, <2>2, <2>3
<1>4. CASE ForwardExits
  <2>1. \A s \in eventSubs : sub[s] = "live"
    BY DEF EventInv, FanoutInv
  <2>2. (eventSubs \ once) \cap closed = {}
    BY <2>1
  <2>3. /\ once' = once \cup eventSubs /\ closed' = closed \cup (eventSubs \ once)
        /\ UNCHANGED <<panicked, stop, sub, cancelled>>
    BY <1>4, <2>2 DEF ForwardExits, CloseChannels
  <2> QED BY <2>3
<1>5. ASSUME NEW s \in Subs, SubscribeTooLate(s)
      PROVE  OnceInv' /\ PanicsAtTheEnd'
  <2>1. /\ sub[s] = "late" /\ sub' = [sub EXCEPT ![s] = "nil"]
        /\ closed' = closed \cup {s}
        /\ panicked' \in {panicked, "close of closed"}
        /\ UNCHANGED <<stop, cancelled, once>>
    BY <1>5 DEF SubscribeTooLate
  <2>2. sub'[s] = "nil" /\ \A u \in Subs : u # s => sub'[u] = sub[u]
    BY <2>1
  <2> QED BY <2>1, <2>2
<1>6. ASSUME NEW s \in Subs, WatcherCloses(s)
      PROVE  OnceInv' /\ PanicsAtTheEnd'
  <2>1. /\ once' = once \cup {s} /\ s \notin once
        /\ closed' = closed \cup ({s} \ once)
        /\ panicked' = IF ({s} \ once) \cap closed # {} THEN "close of closed"
                                                        ELSE panicked
        /\ UNCHANGED <<stop, sub, cancelled>>
    BY <1>6 DEF WatcherCloses, CloseChannels
  <2>2. CASE s \in closed
    <3>1. sub[s] = "nil"
      BY <2>1, <2>2
    <3>2. panicked' = "close of closed"
      BY <2>1, <2>2
    <3> QED BY <2>1, <3>1, <3>2
  <2>3. CASE s \notin closed
    <3>1. panicked' = panicked
      BY <2>1, <2>3
    <3> QED BY <2>1, <3>1
  <2> QED BY <2>2, <2>3
<1>7. ASSUME NEW s \in Subs,
             \/ SubscribeEvents(s) \/ Unsubscribe(s) \/ SubscribeRegisters(s)
             \/ FilteredEvents(s) \/ UnsubscribeRemoves(s) \/ FilterStep(s)
      PROVE  OnceInv' /\ PanicsAtTheEnd'
  BY <1>1, <1>7
     DEF SubscribeEvents, Unsubscribe, SubscribeRegisters, FilteredEvents,
         UnsubscribeRemoves, FilterStep, FilterForwards, FilterLeaves,
         FilterEnds, Alive
<1>8. CASE UNCHANGED vars
  BY <1>1, <1>8 DEF vars
<1> QED BY <1>2, <1>3, <1>4, <1>5, <1>6, <1>7, <1>8
        DEF Next, ForwardStep, CallStep

\* While nobody unsubscribes and the node runs no event panics the process,
\* and no channel is closed twice before a SubscribeEvents comes too late.
THEOREM PanicsNeedAnEnd == Spec => []PanicsAtTheEnd
<1>1. Init => OnceInv /\ PanicsAtTheEnd
  BY DEF Init, OnceInv, PanicsAtTheEnd
<1>2. EventSafety /\ OnceInv /\ PanicsAtTheEnd /\ [Next]_vars
          => OnceInv' /\ PanicsAtTheEnd'
  BY PanicStep
<1> QED BY <1>1, <1>2, EventsCorrect, PTL DEF Spec
=============================================================================
