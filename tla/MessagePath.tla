----------------------------- MODULE MessagePath -----------------------------
(***************************************************************************)
(* The path of messages through a Node: from the peer's writes, through    *)
(* the read loop of each stream (pkg/streams), the internal channel, the   *)
(* forwarder (forwardMessagesWithStats in node.go) and the external        *)
(* channel to the application; and the senders, which share the statistics *)
(* of PeerStats with the forwarder.                                        *)
(*                                                                         *)
(* A message is its stream and its number on the stream.  A stream is one  *)
(* stream object: when a peer reconnects, its stream of the same name is   *)
(* another member of Streams.                                              *)
(***************************************************************************)
EXTENDS PeerStats, Sequences

CONSTANTS
  Streams,            \* streams that are read
  Encrypted,          \* those that are EncryptedStreams
  PeerOf,             \* the peer of each stream
  Senders,            \* goroutines inside Node.SendCtx
  Forwarder,          \* the goroutine of forwardMessagesWithStats
  MessageBufferSize,  \* the capacity of both channels
  MaxMessages         \* bound: messages sent, by the peers and by this node

ASSUME PathAssumption ==
  /\ Encrypted \subseteq Streams
  /\ PeerOf \in [Streams -> Peers]
  /\ Callers = Senders \cup {Forwarder}
  /\ Forwarder \notin Senders
  /\ MessageBufferSize \in Nat \ {0}
  /\ MaxMessages \in Nat

VARIABLES
  sent,      \* messages the peer wrote to each stream
  read,      \* messages the read loop took from each stream
  reader,    \* each read loop: in Next, holding message read[s], or ended
  closed,    \* streams whose context is cancelled
  internal,  \* Node.internalMsgs
  held,      \* the message in the forwarder's hands, if any
  external,  \* Node.messages
  open,      \* Node.messages is not closed
  last,      \* the last message of each stream the application received
  got,       \* the number of messages of each stream it received
  reported,  \* losses of each stream that were logged and counted
  silent,    \* messages that the read loop of a closed stream took with it
  watched,   \* streams whose onMessageDropped callback is set
  early,     \* messages dropped before it was
  budget     \* bound: messages that may still be sent

pathVars == <<sent, read, reader, closed, internal, held, external, open,
              last, got, reported, silent, watched, early, budget>>
vars == <<statsVars, pathVars>>

Msg(s, n) == [stream |-> s, n |-> n]
Msgs == [stream : Streams, n : Nat]
Zero == [s \in Streams |-> 0]
Bump(f, s) == [f EXCEPT ![s] = @ + 1]

Init ==
  /\ StatsInit
  /\ sent = Zero /\ read = Zero /\ last = Zero /\ got = Zero
  /\ reader = [s \in Streams |-> "next"]
  /\ closed = {}
  /\ internal = <<>> /\ held = <<>> /\ external = <<>>
  /\ open = TRUE
  /\ reported = Zero /\ silent = Zero
  /\ watched = Encrypted /\ early = Zero
  /\ budget = MaxMessages

-----------------------------------------------------------------------------
(***************************************************************************)
(* The stream and its read loop.                                           *)
(***************************************************************************)

\* The peer's SendCtx writes one whole message under writeMu.
PeerSends(s) ==
  /\ budget > 0
  /\ budget' = budget - 1
  /\ sent' = Bump(sent, s)
  /\ UNCHANGED <<statsVars, read, reader, closed, internal, held, external,
                 open, last, got, reported, silent, watched, early>>

\* The loop's next position: it ends when it finds its context cancelled.
Continue(s) == [reader EXCEPT ![s] = IF s \in closed THEN "done" ELSE "next"]

\* reader.Next returns a message.  A loop that was inside Next when its
\* stream was closed still gets what has arrived.
ReadNext(s) ==
  /\ reader[s] = "next"
  /\ read[s] < sent[s]
  /\ read' = Bump(read, s)
  /\ reader' = [reader EXCEPT ![s] = "holds"]
  /\ UNCHANGED <<statsVars, sent, closed, internal, held, external, open, last,
                 got, reported, silent, watched, early, budget>>

\* reader.Next returns false: the stream ended, was reset or was closed.
ReadEnds(s) ==
  /\ reader[s] = "next"
  /\ reader' = [reader EXCEPT ![s] = "done"]
  /\ UNCHANGED <<statsVars, sent, read, closed, internal, held, external, open,
                 last, got, reported, silent, watched, early, budget>>

\* Decrypt fails: the message is reported by onDecryptionError and skipped.
DecryptionFails(s) ==
  /\ s \in Encrypted
  /\ reader[s] = "holds"
  /\ reported' = Bump(reported, s)
  /\ reader' = Continue(s)
  /\ UNCHANGED <<statsVars, sent, read, closed, internal, held, external, open,
                 last, got, silent, watched, early, budget>>

\* Mutant: the loop puts its message in front of what waits.
PushFirst(s) ==
  /\ reader[s] = "holds"
  /\ Len(internal) < MessageBufferSize
  /\ internal' = <<Msg(s, read[s])>> \o internal
  /\ reader' = Continue(s)
  /\ UNCHANGED <<statsVars, sent, read, closed, held, external, open, last, got,
                 reported, silent, watched, early, budget>>

\* The select of the read loop: the message goes into the channel ...
Push(s) ==
  /\ reader[s] = "holds"
  /\ Len(internal) < MessageBufferSize
  /\ internal' = Append(internal, Msg(s, read[s]))
  /\ reader' = Continue(s)
  /\ UNCHANGED <<statsVars, sent, read, closed, held, external, open, last, got,
                 reported, silent, watched, early, budget>>

\* ... or, when the stream was closed (select chooses at random between this
\* and a channel with room), the loop returns with it and tells nobody ...
ReturnWithMessage(s) ==
  /\ reader[s] = "holds"
  /\ s \in closed
  /\ reader' = [reader EXCEPT ![s] = "done"]
  /\ silent' = Bump(silent, s)
  /\ UNCHANGED <<statsVars, sent, read, closed, internal, held, external, open,
                 last, got, reported, watched, early, budget>>

\* Mutant: nobody is told that the message is dropped.
DropSilently(s) ==
  /\ reader[s] = "holds"
  /\ s \notin closed
  /\ Len(internal) = MessageBufferSize
  /\ reader' = [reader EXCEPT ![s] = "next"]
  /\ UNCHANGED <<statsVars, sent, read, closed, internal, held, external, open,
                 last, got, reported, silent, watched, early, budget>>

\* ... or, when neither is possible, it is dropped, and reported if the stream
\* has its callback.
DropFull(s) ==
  /\ reader[s] = "holds"
  /\ s \notin closed
  /\ Len(internal) = MessageBufferSize
  /\ reader' = [reader EXCEPT ![s] = "next"]
  /\ \/ s \in watched /\ reported' = Bump(reported, s) /\ UNCHANGED early
     \/ s \notin watched /\ early' = Bump(early, s) /\ UNCHANGED reported
  /\ UNCHANGED <<statsVars, sent, read, closed, internal, held, external,
                 open, last, got, silent, watched, budget>>

\* Whoever made an UnencryptedStream, whose read loop runs by then, gives it
\* the callback.  An EncryptedStream has it from the start.
SetOnMessageDropped(s) ==
  /\ s \notin watched
  /\ watched' = watched \cup {s}
  /\ UNCHANGED <<statsVars, sent, read, reader, closed, internal, held,
                 external, open, last, got, reported, silent, early, budget>>

\* Close cancels the context of the stream.
CloseStream(s) ==
  /\ s \notin closed
  /\ closed' = closed \cup {s}
  /\ UNCHANGED <<statsVars, sent, read, reader, internal, held, external, open,
                 last, got, reported, silent, watched, early, budget>>

\* Stop cancels Node.ctx, from which the contexts of all streams derive.
Stop ==
  /\ ~stopped
  /\ stopped' = TRUE
  /\ closed' = Streams
  /\ UNCHANGED <<peerStats, trackers, created, calls, cleaner, sweep, doomed, warnings, booked, forgotten>>
  /\ UNCHANGED <<sent, read, reader, internal, held, external, open, last, got,
                 reported, silent, watched, early, budget>>

-----------------------------------------------------------------------------
(***************************************************************************)
(* forwardMessagesWithStats, the application and the senders.              *)
(***************************************************************************)

\* The forwarder's select finds a message; its call to the statistics begins.
ForwardTakes ==
  /\ calls[Forwarder].pc = "idle"
  /\ internal # <<>>
  /\ held' = <<Head(internal)>>
  /\ internal' = Tail(internal)
  /\ Begins(Forwarder, "received", PeerOf[Head(internal).stream])
  /\ UNCHANGED <<peerStats, trackers, created, cleaner, sweep, doomed, stopped, warnings, forgotten>>
  /\ UNCHANGED <<sent, read, reader, closed, external, open, last, got,
                 reported, silent, watched, early, budget>>

\* Mutant: the forwarder waits for room in the external channel.
ForwardSendBlocks ==
  /\ calls[Forwarder].pc = "send"
  /\ Len(external) < MessageBufferSize
  /\ external' = Append(external, held[1])
  /\ held' = <<>>
  /\ calls' = [calls EXCEPT ![Forwarder] = Idle]
  /\ UNCHANGED <<peerStats, trackers, created, cleaner, sweep, doomed, stopped, warnings, booked, forgotten>>
  /\ UNCHANGED <<sent, read, reader, closed, internal, open, last, got,
                 reported, silent, watched, early, budget>>

\* After the statistics: the message goes into the external channel, or it
\* is dropped and reported when that is full.
ForwardSends ==
  /\ calls[Forwarder].pc = "send"
  /\ \/ /\ Len(external) < MessageBufferSize
        /\ external' = Append(external, held[1])
        /\ UNCHANGED reported
     \/ /\ Len(external) = MessageBufferSize
        /\ reported' = Bump(reported, held[1].stream)
        /\ UNCHANGED external
  /\ held' = <<>>
  /\ calls' = [calls EXCEPT ![Forwarder] = Idle]
  /\ UNCHANGED <<peerStats, trackers, created, cleaner, sweep, doomed, stopped, warnings, booked, forgotten>>
  /\ UNCHANGED <<sent, read, reader, closed, internal, open, last, got, silent,
                 watched, early, budget>>

\* The forwarder's select finds Node.ctx cancelled; what is left in the
\* internal channel is never delivered.
ForwardStops ==
  /\ calls[Forwarder].pc = "idle"
  /\ stopped
  /\ open' = FALSE
  /\ calls' = [calls EXCEPT ![Forwarder].pc = "done"]
  /\ UNCHANGED <<peerStats, trackers, created, cleaner, sweep, doomed, stopped, warnings, booked, forgotten>>
  /\ UNCHANGED <<sent, read, reader, closed, internal, held, external, last,
                 got, reported, silent, watched, early, budget>>

\* The application receives from Messages(), also what a closed channel holds.
Receive ==
  /\ external # <<>>
  /\ external' = Tail(external)
  /\ last' = [last EXCEPT ![Head(external).stream] = Head(external).n]
  /\ got' = Bump(got, Head(external).stream)
  /\ UNCHANGED <<statsVars, sent, read, reader, closed, internal, held, open,
                 reported, silent, watched, early, budget>>

\* streamManager.SendCtx returned nil inside Node.SendCtx.
SendSucceeds(c, p) ==
  /\ calls[c].pc = "idle"
  /\ budget > 0
  /\ budget' = budget - 1
  /\ Begins(c, "sent", p)
  /\ UNCHANGED <<peerStats, trackers, created, cleaner, sweep, doomed, stopped, warnings, forgotten>>
  /\ UNCHANGED <<sent, read, reader, closed, internal, held, external, open,
                 last, got, reported, silent, watched, early>>

ReaderStep(s) ==
  \/ ReadNext(s)
  \/ ReadEnds(s)
  \/ DecryptionFails(s)
  \/ Push(s)
  \/ ReturnWithMessage(s)
  \/ DropFull(s)

ForwarderStep == ForwardTakes \/ ForwardSends \/ ForwardStops

Next ==
  \/ \E s \in Streams : \/ PeerSends(s) \/ ReaderStep(s) \/ CloseStream(s)
                        \/ SetOnMessageDropped(s)
  \/ Stop
  \/ ForwarderStep
  \/ Receive
  \/ \E c \in Senders, p \in Peers : SendSucceeds(c, p)
  \/ StatsNext /\ UNCHANGED pathVars

Spec == Init /\ [][Next]_vars

\* The goroutines run, mutexes are granted, and a select that is reached
\* again and again with a cancelled context takes that branch in the end.
Fairness ==
  /\ WF_vars(ForwardTakes \/ ForwardSends)
  /\ SF_vars(ForwardStops)
  /\ WF_vars(CallStep(Forwarder) /\ UNCHANGED pathVars)
  /\ WF_vars(\/ (\E p \in Peers : CleanupLooks(p)) /\ UNCHANGED pathVars
             \/ (CleanupDeletes \/ CleanupUnlocks) /\ UNCHANGED pathVars)
  /\ SF_vars(CleanupEnds /\ UNCHANGED pathVars)

FairSpec == Spec /\ Fairness

-----------------------------------------------------------------------------

TypeOK ==
  /\ StatsTypeOK
  /\ sent \in [Streams -> Nat] /\ read \in [Streams -> Nat]
  /\ reader \in [Streams -> {"next", "holds", "done"}]
  /\ closed \subseteq Streams
  /\ internal \in Seq(Msgs) /\ Len(internal) <= MessageBufferSize
  /\ external \in Seq(Msgs) /\ Len(external) <= MessageBufferSize
  /\ held \in Seq(Msgs) /\ Len(held) <= 1
  /\ open \in BOOLEAN
  /\ last \in [Streams -> Nat] /\ got \in [Streams -> Nat]
  /\ reported \in [Streams -> Nat] /\ silent \in [Streams -> Nat]
  /\ watched \subseteq Streams /\ early \in [Streams -> Nat]
  /\ budget \in Nat

Contains(q, m) == \E i \in 1 .. Len(q) : q[i] = m

\* The messages of s between the peer and the application.
InTransit ==
  [s \in Streams |->
     {n \in 1 .. sent[s] :
        \/ n > read[s]
        \/ n = read[s] /\ reader[s] = "holds"
        \/ Contains(internal, Msg(s, n))
        \/ Contains(held, Msg(s, n))
        \/ Contains(external, Msg(s, n))}]

Fifo == INSTANCE LossyFifo WITH inTransit <- InTransit

\* The drops of either channel, the select that prefers no case, closing and
\* stopping never duplicate a message of a stream, reorder two, or deliver
\* one that was reported lost: the path implements a lossy queue.
ImplementsLossyFifo == Fifo!Spec

\* The messages of s in a channel, and those that are still on their way to
\* the application: what the forwarder leaves in the internal channel when it
\* ends is stranded there.
CountOf(q, s) == Cardinality({i \in 1 .. Len(q) : q[i].stream = s})

Stranded(s) == IF calls[Forwarder].pc = "done" THEN CountOf(internal, s) ELSE 0

OnTheWay(s) ==
  (IF calls[Forwarder].pc = "done" THEN 0 ELSE CountOf(internal, s))
  + CountOf(held, s) + CountOf(external, s)
  + (IF reader[s] = "holds" THEN 1 ELSE 0)

\* Every message that was read is on its way, delivered, reported lost, or one
\* of three kinds nobody hears of: dropped by an unencrypted stream that did
\* not have its callback yet, taken by the read loop of a closed stream, which
\* takes just one, or stranded by the forwarder after Stop.
LossesReported ==
  \A s \in Streams :
    /\ read[s] = OnTheWay(s) + got[s] + reported[s]
                 + early[s] + silent[s] + Stranded(s)
    /\ s \in Encrypted => early[s] = 0
    /\ silent[s] <= (IF s \in closed /\ reader[s] = "done" THEN 1 ELSE 0)
    /\ Stranded(s) > 0 => stopped

\* Whenever a message is dropped because the channel is full, the callback is
\* called.
DropsAreReported == early = Zero

\* After Stop the forwarder ends and closes Messages(), whether or not the
\* application still reads, so that a range over the channel ends.
MessagesCloses == stopped ~> (calls[Forwarder].pc = "done" /\ ~open)
=============================================================================
