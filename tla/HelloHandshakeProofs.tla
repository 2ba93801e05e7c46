------------------------- MODULE HelloHandshakeProofs -------------------------
(***************************************************************************)
(* The safety of HelloHandshake for every bound on streams, calls, faults  *)
(* and messages in the channels.                                           *)
(*                                                                         *)
(* HelloInv is inductive.  The argument is about what a message proves.  A *)
(* HelloFinalize is sent by a node that is on the receiver's chain and has *)
(* prepared its streams.  Only a Disconnected event of a node, which puts  *)
(* it in cut, undoes that; a Mismatch does too, but then the chains differ *)
(* and nothing was prepared.  A HelloRequest, or an answer to one, says    *)
(* that the initiator's handshake is marked as sent, so that a             *)
(* PrepareStreams that fails when the answer comes is made up for before   *)
(* the node may be Established.                                            *)
(***************************************************************************)
EXTENDS HelloHandshake, SequenceTheorems, TLAPS

Wires == [Nodes -> [Ids -> Seq(Messages)]]
Types == {"request", "response", "finalize"}
Labels == {"idle", "respond", "finalize", "echo", "finish", "addPeer", "disconnect"}
Conns == {"disconnected", "connected", "established", "cooldown", "reconnecting"}
Tasks == [Nodes -> [Stages -> Nat]]

-----------------------------------------------------------------------------
(***************************************************************************)
(* The two nodes, and what a sequence contains.                            *)
(***************************************************************************)

\* There are two nodes, each the other of the other.
LEMMA TwoNodes ==
  ASSUME NEW n \in Nodes
  PROVE  /\ Other(n) \in Nodes /\ Other(n) # n /\ Other(Other(n)) = n
         /\ \A k \in Nodes : k = n \/ k = Other(n)
BY HelloAssumption DEF Nodes, Other

\* A hello or HelloFinalize of n is a message.
LEMMA MessageTyped ==
  ASSUME TypeOK, NEW n \in Nodes, NEW t \in Types
  PROVE  [type |-> t, chain |-> chain[n]] \in Messages
BY DEF TypeOK, Messages, Types

\* An empty sequence contains nothing.
LEMMA ContainsNothing == ASSUME NEW m PROVE ~Contains(<<>>, m)
BY DEF Contains

\* Append adds one message.
LEMMA ContainsAppend ==
  ASSUME NEW q \in Seq(Messages), NEW x \in Messages, NEW m, Contains(Append(q, x), m)
  PROVE  Contains(q, m) \/ m = x
<1>1. PICK k \in 1 .. Len(Append(q, x)) : Append(q, x)[k] = m
  BY DEF Contains
<1>2. Len(Append(q, x)) = Len(q) + 1 /\ Len(q) \in Nat
  OBVIOUS
<1>3. CASE k = Len(q) + 1
  BY <1>1, <1>3
<1>4. CASE k # Len(q) + 1
  <2>1. k \in 1 .. Len(q)
    BY <1>1, <1>2, <1>4
  <2> QED BY <1>1, <2>1 DEF Contains
<1> QED BY <1>3, <1>4

\* Head is contained, and Tail contains nothing new.
LEMMA ContainsHeadTail ==
  ASSUME NEW q \in Seq(Messages), q # <<>>
  PROVE  /\ Head(q) \in Messages /\ Contains(q, Head(q))
         /\ Tail(q) \in Seq(Messages)
         /\ \A m : Contains(Tail(q), m) => Contains(q, m)
<1>1. /\ Head(q) \in Messages /\ Tail(q) \in Seq(Messages)
      /\ Len(Tail(q)) = Len(q) - 1
      /\ \A i \in 1 .. Len(Tail(q)) : Tail(q)[i] = q[i + 1]
  BY HeadTailProperties
<1>2. Len(q) \in Nat /\ Len(q) >= 1 /\ Head(q) = q[1]
  BY EmptySeq
<1>3. Contains(q, Head(q))
  BY <1>2 DEF Contains
<1>4. ASSUME NEW m, Contains(Tail(q), m) PROVE Contains(q, m)
  <2>1. PICK i \in 1 .. Len(Tail(q)) : Tail(q)[i] = m
    BY <1>4 DEF Contains
  <2>2. i + 1 \in 1 .. Len(q) /\ q[i + 1] = m
    BY <1>1, <1>2, <2>1
  <2> QED BY <2>2 DEF Contains
<1> QED BY <1>1, <1>3, <1>4

-----------------------------------------------------------------------------
(***************************************************************************)
(* What a step has to do to preserve HelloInv.                             *)
(***************************************************************************)

\* The node has prepared its streams, or has to begin again.
Over(n) == Ready(n) \/ conn[n] = "cooldown"
Engaged(n) == n \in cut \/ conn[n] # "disconnected"

\* Nothing that a message proves is undone.
Keeps ==
  /\ chain' = chain /\ cut \subseteq cut'
  /\ \A n \in Nodes \ cut' : /\ prepared[n] => prepared'[n]
                             /\ conn[n] = "cooldown" => conn'[n] = "cooldown"
                             /\ conn'[n] = "disconnected" => conn[n] = "disconnected"
  /\ \A n \in Nodes : Greeted(n) => progress'[n] = progress[n] \/ Greeted(n)'

\* What is known of a node stays known.
LEMMA Monotonic ==
  ASSUME Keeps, NEW n \in Nodes
  PROVE  /\ Same' <=> Same
         /\ Ready(n) => Ready(n)'
         /\ Over(n) => Over(n)'
         /\ Engaged(n) => Engaged(n)'
         /\ Greeted(n) => Greeted(n)'
<1>1. (Same' <=> Same) /\ cut \subseteq cut'
  BY DEF Keeps, Same
<1>2. Ready(n) => Ready(n)'
  BY DEF Keeps, Ready
<1>3. Over(n) => Over(n)'
  BY <1>1, <1>2 DEF Keeps, Over, Ready
<1>4. Engaged(n) => Engaged(n)'
  BY <1>1 DEF Keeps, Engaged
<1>5. Greeted(n) => Greeted(n)'
  BY <1>3, <1>4 DEF Keeps, Greeted, Over, Engaged
<1> QED BY <1>1, <1>2, <1>3, <1>4, <1>5

\* A step that keeps the promises of messages preserves the invariant when
\* what it adds, to the wires, the inboxes, the entries of the handshakes, the
\* handlers, the calls of Connect and the established peers, is justified.
LEMMA Preserved ==
  ASSUME HelloInv, TypeOK', Keeps,
         \A n \in Nodes, i \in Ids, m \in Messages :
           Contains(wire[n][i], m)' => Contains(wire[n][i], m) \/ MessageInv(n, m)',
         \A n \in Nodes, m \in Messages :
           Contains(inbox[n], m)' =>
             Contains(inbox[n], m) \/ \E i \in Ids : Contains(wire[n][i], m),
         \A n \in Nodes :
           \/ progress'[n] = progress[n] /\ (pc[n] = "respond" => pc'[n] = "respond")
           \/ ProgressOK(n)',
         \A n \in Nodes : pc'[n] = pc[n] \/ HandlerOK(n)',
         \A n \in Nodes :
           \/ app'[n] = app[n] /\ (progress'[n] = progress[n] \/ progress'[n] # NoProgress)
           \/ ConnectOK(n)',
         \A n \in Nodes : conn'[n] = "established" =>
                            conn[n] = "established" \/ (Same /\ AllReady),
         \A n \in Nodes : peers'[n] => peers[n] \/ Same,
         \A n \in Nodes : prepared'[n] => prepared[n] \/ Same,
         EventInv'
  PROVE  HelloInv'
<1>1. chain' = chain /\ (Same' <=> Same)
  BY DEF Keeps, Same
<1>2. ASSUME NEW n \in Nodes
      PROVE  /\ Ready(n) => Ready(n)'
             /\ Over(n) => Over(n)'
             /\ Engaged(n) => Engaged(n)'
             /\ Greeted(n) => Greeted(n)'
  BY Monotonic
<1>3. ASSUME NEW n \in Nodes, NEW m \in Messages, MessageInv(n, m)
      PROVE  MessageInv(n, m)'
  BY <1>1, <1>2, <1>3, TwoNodes DEF MessageInv
<1>4. WireInv'
  BY <1>3 DEF HelloInv, WireInv
<1>5. InboxInv'
  BY <1>3 DEF HelloInv, WireInv, InboxInv
<1>6. ProgressInv'
  <2> SUFFICES ASSUME NEW n \in Nodes PROVE ProgressOK(n)'
    BY DEF ProgressInv
  <2>1. ProgressOK(n)
    BY DEF HelloInv, ProgressInv
  <2> QED BY <1>1, <1>2, <2>1 DEF ProgressOK, Over
<1>7. AllReady => AllReady'
  BY <1>2 DEF AllReady
<1>8. HandlerInv'
  <2> SUFFICES ASSUME NEW n \in Nodes PROVE HandlerOK(n)'
    BY DEF HandlerInv
  <2>1. HandlerOK(n)
    BY DEF HelloInv, HandlerInv
  <2> QED BY <1>1, <1>2, <1>7, <2>1, TwoNodes DEF HandlerOK, Over
<1>9. EstablishedInv' /\ PreparedInv'
  BY <1>1, <1>7 DEF HelloInv, EstablishedInv, PreparedInv
<1>10. ConnectInv'
  <2> SUFFICES ASSUME NEW n \in Nodes PROVE ConnectOK(n)'
    BY DEF ConnectInv
  <2>1. ConnectOK(n)
    BY DEF HelloInv, ConnectInv
  <2> QED BY <1>2, <2>1 DEF ConnectOK, Engaged
<1> QED BY <1>4, <1>5, <1>6, <1>8, <1>9, <1>10 DEF HelloInv

\* A step of the connection manager or of the network: it may remove messages
\* and change the state, and leaves a cooldown or becomes Disconnected only
\* with an event.
LEMMA ManagerPreserves ==
  ASSUME HelloInv, TypeOK',
         UNCHANGED <<chain, progress, prepared, peers, inbox, pc, app>>,
         cut \subseteq cut',
         \A n \in Nodes, i \in Ids, m \in Messages :
           Contains(wire[n][i], m)' => Contains(wire[n][i], m),
         \A n \in Nodes : conn'[n] = "established" => conn[n] = "established",
         \A n \in Nodes \ cut' : /\ conn[n] = "cooldown" => conn'[n] = "cooldown"
                                 /\ conn'[n] = "disconnected" => conn[n] = "disconnected",
         EventInv'
  PROVE  HelloInv'
<1>1. Keeps
  BY DEF Keeps
<1> QED BY <1>1, Preserved

\* Events and reconnections are only added for nodes that had an event.
LEMMA EventKept ==
  ASSUME EventInv, cut \subseteq cut',
         \A k \in Nodes \ cut' :
           /\ events'[k] > 0 => events[k] > 0
           /\ appEvents'[k] > 0 => appEvents[k] > 0
           /\ tasks'[k]["restart"] > 0 => tasks[k]["restart"] > 0
           /\ conn'[k] = "reconnecting" => conn[k] = "reconnecting"
  PROVE  EventInv'
<1> SUFFICES ASSUME NEW k \in Nodes PROVE EventOK(k)'
  BY DEF EventInv
<1>1. EventOK(k)
  BY DEF EventInv
<1> QED BY <1>1 DEF EventOK

\* An event of n is none of the other node.
LEMMA EmitEffect ==
  ASSUME TypeOK, NEW n \in Nodes, Emit(n)
  PROVE  /\ events' \in [Nodes -> Nat] /\ cut' \in SUBSET Nodes /\ cut' = cut \cup {n}
         /\ \A k \in Nodes \ {n} : events'[k] = events[k]
BY DEF TypeOK, Emit

\* A task count that changes leaves the others.
LEMMA TaskEffect ==
  ASSUME NEW t \in Tasks, NEW n \in Nodes, NEW s \in Stages, NEW v \in Nat
  PROVE  /\ [t EXCEPT ![n][s] = v] \in Tasks
         /\ \A k \in Nodes, r \in Stages :
              [t EXCEPT ![n][s] = v][k][r] = IF k = n /\ r = s THEN v ELSE t[k][r]
BY DEF Tasks

\* A timer nobody can stop any more is no reconnection.
LEMMA OverwrittenEffect ==
  ASSUME NEW t \in Tasks, NEW n \in Nodes
  PROVE  /\ Overwritten(n, t) \in Tasks
         /\ \A k \in Nodes : Overwritten(n, t)[k]["restart"] = t[k]["restart"]
<1>1. "fire" \in Stages /\ "restart" \in Stages /\ t[n]["fire"] + 1 \in Nat
  BY DEF Stages, Tasks
<1>2. [t EXCEPT ![n]["fire"] = @ + 1] = [t EXCEPT ![n]["fire"] = t[n]["fire"] + 1]
  BY DEF Tasks
<1> QED BY <1>1, <1>2, TaskEffect DEF Overwritten

\* setupHandshakeTimeout starts no reconnection.
LEMMA ArmEffect ==
  ASSUME TypeOK, NEW n \in Nodes, Arm(n)
  PROVE  /\ armed' \in SUBSET Nodes /\ robbed' \in SUBSET Nodes /\ tasks' \in Tasks
         /\ \A k \in Nodes : tasks'[k]["restart"] = tasks[k]["restart"]
<1>1. tasks \in Tasks /\ tasks' = Overwritten(n, tasks)
  BY DEF TypeOK, Tasks, Arm
<1> QED BY <1>1, OverwrittenEffect DEF TypeOK, Arm

\* The faults stay within their bound.
LEMMA FaultEffect ==
  ASSUME TypeOK, Fault \/ RunsOut
  PROVE  faults' \in 0 .. MaxFaults
BY HelloAssumption DEF TypeOK, Fault, RunsOut

\* A task that moves between two stages leaves the counts of the others.
LEMMA MovedEffect ==
  ASSUME TypeOK, NEW n \in Nodes, NEW from \in Stages, NEW to \in Stages,
         from # to, tasks[n][from] > 0
  PROVE  /\ Moved(n, from, to) \in Tasks
         /\ \A k \in Nodes, r \in Stages :
              k # n \/ r \notin {from, to} => Moved(n, from, to)[k][r] = tasks[k][r]
<1>1. tasks \in Tasks /\ tasks[n][from] - 1 \in Nat /\ tasks[n][to] + 1 \in Nat
  BY DEF TypeOK, Tasks
<1>2. \A k \in Nodes :
        Moved(n, from, to)[k] =
          IF k = n THEN [tasks[n] EXCEPT ![from] = tasks[n][from] - 1,
                                         ![to] = tasks[n][to] + 1]
                   ELSE tasks[k]
  BY <1>1 DEF Moved, Tasks
<1> QED BY <1>1, <1>2 DEF Moved, Tasks

-----------------------------------------------------------------------------
(***************************************************************************)
(* The streams.                                                            *)
(***************************************************************************)

\* Send puts at most its own message on one wire to the other node.
LEMMA SendEffect ==
  ASSUME TypeOK, NEW n \in Nodes, NEW t \in Types, Send(n, t)
  PROVE  /\ faults' \in 0 .. MaxFaults /\ opened' \in 0 .. MaxStreams
         /\ end' \in [Nodes -> 0 .. MaxStreams]
         /\ reading' \in [Nodes -> SUBSET Ids] /\ arriving' \in [Nodes -> SUBSET Ids]
         /\ wire' \in Wires
         /\ \A k \in Nodes, i \in Ids, m \in Messages :
              Contains(wire[k][i], m)' =>
                \/ Contains(wire[k][i], m)
                \/ k = Other(n) /\ m = [type |-> t, chain |-> chain[n]]
<1> DEFINE x == [type |-> t, chain |-> chain[n]]
<1>1. x \in Messages /\ Other(n) \in Nodes /\ wire \in Wires
  BY MessageTyped, TwoNodes DEF TypeOK, Wires
<1>2. ASSUME NEW i \in Ids, NEW q \in Seq(Messages),
             wire' = [wire EXCEPT ![Other(n)][i] = q],
             \A m \in Messages : Contains(q, m) => Contains(wire[Other(n)][i], m) \/ m = x
      PROVE  /\ wire' \in Wires
             /\ \A k \in Nodes, j \in Ids, m \in Messages :
                  Contains(wire[k][j], m)' =>
                    Contains(wire[k][j], m) \/ (k = Other(n) /\ m = x)
  <2>1. wire' \in Wires
    BY <1>1, <1>2 DEF Wires
  <2>2. \A k \in Nodes, j \in Ids :
          wire'[k][j] = IF k = Other(n) /\ j = i THEN q ELSE wire[k][j]
    BY <1>1, <1>2 DEF Wires
  <2> QED BY <1>2, <2>1, <2>2
<1>3. CASE /\ IsOpen(n)
           /\ wire' = [wire EXCEPT ![Other(n)][end[n]] =
                         IF end[n] \in reading[Other(n)] \cup arriving[Other(n)]
                         THEN Append(@, x) ELSE @]
           /\ UNCHANGED <<faults, end, reading, arriving, opened>>
  <2> DEFINE old == wire[Other(n)][end[n]]
             new == IF end[n] \in reading[Other(n)] \cup arriving[Other(n)]
                    THEN Append(old, x) ELSE old
  <2>1. end[n] \in Ids
    BY <1>3 DEF IsOpen, TypeOK
  <2>2. old \in Seq(Messages)
    BY <1>1, <2>1 DEF Wires
  <2>3. new \in Seq(Messages) /\ \A m \in Messages : Contains(new, m) => Contains(old, m) \/ m = x
    BY <1>1, <2>2, ContainsAppend
  <2>4. wire' = [wire EXCEPT ![Other(n)][end[n]] = new]
    BY <1>3
  <2> HIDE DEF old, new, x
  <2>5. wire' \in Wires /\ \A k \in Nodes, j \in Ids, m \in Messages :
          Contains(wire[k][j], m)' => Contains(wire[k][j], m) \/ (k = Other(n) /\ m = x)
    BY <1>2, <2>1, <2>3, <2>4 DEF old
  <2> QED BY <1>3, <2>5 DEF TypeOK, x
<1>4. CASE /\ ~IsOpen(n) /\ link /\ opened < MaxStreams
           /\ opened' = opened + 1
           /\ end' = [end EXCEPT ![n] = opened + 1]
           /\ reading' = [reading EXCEPT ![n] = @ \cup {opened + 1}]
           /\ arriving' = [arriving EXCEPT ![Other(n)] = @ \cup {opened + 1}]
           /\ wire' = [wire EXCEPT ![Other(n)][opened + 1] = <<x>>]
           /\ UNCHANGED faults
  <2>1. opened + 1 \in Ids /\ opened + 1 \in 0 .. MaxStreams
    BY <1>4, HelloAssumption DEF TypeOK, Ids
  <2>2. <<x>> \in Seq(Messages) /\ \A m : Contains(<<x>>, m) => m = x
    BY <1>1 DEF Contains
  <2> HIDE DEF x
  <2>3. wire' \in Wires /\ \A k \in Nodes, j \in Ids, m \in Messages :
          Contains(wire[k][j], m)' => Contains(wire[k][j], m) \/ (k = Other(n) /\ m = x)
    BY <1>2, <1>4, <2>1, <2>2
  <2>4. /\ end' \in [Nodes -> 0 .. MaxStreams] /\ reading' \in [Nodes -> SUBSET Ids]
        /\ arriving' \in [Nodes -> SUBSET Ids]
    BY <1>1, <1>4, <2>1 DEF TypeOK
  <2> QED BY <1>4, <2>1, <2>3, <2>4 DEF TypeOK, x
<1>5. CASE /\ \/ ~IsOpen(n) /\ (~link \/ opened = MaxStreams) /\ UNCHANGED faults
              \/ Fault
           /\ UNCHANGED <<end, reading, arriving, opened, wire>>
  BY <1>1, <1>5, HelloAssumption DEF TypeOK, Fault
<1> QED BY <1>3, <1>4, <1>5 DEF Send

\* Closing an end, or the whole connection, removes messages and adds none.
LEMMA CloseEffect ==
  ASSUME TypeOK
  PROVE  /\ \A n \in Nodes :
              /\ ClosedAt(n) \in [Nodes -> SUBSET Ids]
              /\ WithoutInput(n) \in Wires
              /\ \A k \in Nodes, i \in Ids, m \in Messages :
                   Contains(WithoutInput(n)[k][i], m) => Contains(wire[k][i], m)
         /\ Quiet \in Wires
         /\ \A k \in Nodes, i \in Ids, m \in Messages : ~Contains(Quiet[k][i], m)
<1>1. wire \in Wires /\ reading \in [Nodes -> SUBSET Ids] /\ <<>> \in Seq(Messages)
  BY DEF TypeOK, Wires
<1>2. ASSUME NEW n \in Nodes
      PROVE  /\ WithoutInput(n) \in Wires
             /\ \A k \in Nodes, i \in Ids, m \in Messages :
                  Contains(WithoutInput(n)[k][i], m) => Contains(wire[k][i], m)
  <2>1. WithoutInput(n) \in Wires
    BY <1>1 DEF WithoutInput, Wires
  <2>2. \A k \in Nodes, i \in Ids : WithoutInput(n)[k][i] \in {<<>>, wire[k][i]}
    BY <1>1 DEF WithoutInput, Wires
  <2> QED BY <2>1, <2>2, ContainsNothing
<1>3. Quiet \in Wires /\ \A k \in Nodes, i \in Ids : Quiet[k][i] = <<>>
  BY <1>1 DEF Quiet, Wires
<1> QED BY <1>1, <1>2, <1>3, ContainsNothing DEF ClosedAt

\* The handler of an incoming stream, and the read loops.
LEMMA StreamsPreserve ==
  ASSUME HelloInv, NEW n \in Nodes, Streams(n)
  PROVE  HelloInv'
<1> USE TwoNodes
<1>1. TypeOK /\ wire \in Wires /\ EventInv
  BY DEF HelloInv, TypeOK, Wires
<1>2. PICK i \in Ids : Accept(n, i) \/ Read(n, i) \/ ReadEOF(n, i)
  BY DEF Streams
<1>3. CASE Accept(n, i)
  <2>1. wire' \in Wires /\ \A k \in Nodes, j \in Ids : wire'[k][j] \in {<<>>, wire[k][j]}
    <3>1. CASE wire' = [m \in Nodes |-> [wire[m] EXCEPT ![i] = <<>>]]
      <4>1. <<>> \in Seq(Messages) /\ \A m \in Nodes : wire[m] \in [Ids -> Seq(Messages)]
        BY <1>1 DEF Wires
      <4>2. \A m \in Nodes : [wire[m] EXCEPT ![i] = <<>>] \in [Ids -> Seq(Messages)]
        BY <4>1
      <4> QED BY <3>1, <4>1, <4>2 DEF Wires
    <3>2. CASE wire' = wire
      BY <1>1, <3>2
    <3> QED BY <1>3, <3>1, <3>2 DEF Accept
  <2>2. /\ conn' \in [Nodes -> Conns]
        /\ \A k \in Nodes : /\ conn'[k] = "established" => conn[k] = "established"
                            /\ conn[k] = "cooldown" => conn'[k] = "cooldown"
                            /\ conn'[k] = "disconnected" => conn[k] = "disconnected"
                            /\ conn'[k] = "reconnecting" => conn[k] = "reconnecting"
    <3>1. conn \in [Nodes -> Conns]
      BY <1>1 DEF TypeOK, Conns
    <3>2. \/ conn' = conn
          \/ conn[n] = "disconnected" /\ conn' = [conn EXCEPT ![n] = "connected"]
      BY <1>3 DEF Accept
    <3> QED BY <3>1, <3>2 DEF Conns
  <2>3. /\ armed' \in SUBSET Nodes /\ robbed' \in SUBSET Nodes /\ tasks' \in Tasks
        /\ \A k \in Nodes : tasks'[k]["restart"] = tasks[k]["restart"]
    <3>1. CASE Arm(n)
      BY <1>1, <3>1, ArmEffect
    <3>2. CASE UNCHANGED <<armed, tasks, robbed>>
      BY <1>1, <3>2 DEF TypeOK, Tasks
    <3> QED BY <1>3, <3>1, <3>2 DEF Accept
  <2>4. TypeOK'
    <3>0. /\ arriving \in [Nodes -> SUBSET Ids] /\ reading \in [Nodes -> SUBSET Ids]
          /\ end \in [Nodes -> 0 .. MaxStreams] /\ i \in 0 .. MaxStreams
      BY <1>1, HelloAssumption DEF TypeOK, Ids
    <3>1. /\ arriving' \in [Nodes -> SUBSET Ids] /\ reading' \in [Nodes -> SUBSET Ids]
          /\ end' \in [Nodes -> 0 .. MaxStreams]
      <4>1. arriving' \in [Nodes -> SUBSET Ids]
        BY <1>3, <3>0 DEF Accept
      <4>2. CASE IsOpen(n)
        BY <1>3, <3>0, <4>1, <4>2 DEF Accept
      <4>3. CASE ~IsOpen(n)
        BY <1>3, <3>0, <4>1, <4>3 DEF Accept
      <4> QED BY <4>2, <4>3
    <3> QED BY <1>1, <1>3, <2>1, <2>2, <2>3, <3>1
            DEF Accept, TypeOK, Wires, Conns, Tasks, dialVars
  <2>5. \A k \in Nodes, j \in Ids, m \in Messages :
          Contains(wire[k][j], m)' => Contains(wire[k][j], m)
    BY <2>1, ContainsNothing
  <2>6. UNCHANGED <<chain, progress, prepared, peers, inbox, pc, app, events, appEvents, cut>>
    BY <1>3 DEF Accept, dialVars
  <2>7. EventInv'
    BY <1>1, <2>2, <2>3, <2>6, EventKept
  <2> QED BY <2>2, <2>4, <2>5, <2>6, <2>7, ManagerPreserves
<1>4. CASE Read(n, i)
  <2> DEFINE q == wire[n][i]
  <2>1. q \in Seq(Messages) /\ q # <<>> /\ wire' = [wire EXCEPT ![n][i] = Tail(q)]
    BY <1>1, <1>4 DEF Read, Wires
  <2>2. /\ Head(q) \in Messages /\ Contains(q, Head(q)) /\ Tail(q) \in Seq(Messages)
        /\ \A m : Contains(Tail(q), m) => Contains(q, m)
    BY <2>1, ContainsHeadTail
  <2>3. /\ wire' \in Wires
        /\ \A k \in Nodes, j \in Ids :
             wire'[k][j] = IF k = n /\ j = i THEN Tail(q) ELSE wire[k][j]
    BY <1>1, <2>1, <2>2 DEF Wires
  <2>4. \A k \in Nodes, j \in Ids, m \in Messages :
          Contains(wire[k][j], m)' => Contains(wire[k][j], m)
    BY <2>2, <2>3
  <2>5. inbox' \in {inbox, [inbox EXCEPT ![n] = Append(@, Head(q))]} /\ faults' \in 0 .. MaxFaults
    BY <1>1, <1>4, HelloAssumption DEF Read, Fault, TypeOK
  <2>6. /\ inbox' \in [Nodes -> Seq(Messages)]
        /\ \A k \in Nodes : inbox'[k] = inbox[k] \/ (k = n /\ inbox'[k] = Append(inbox[n], Head(q)))
    <3>1. inbox[n] \in Seq(Messages) /\ Append(inbox[n], Head(q)) \in Seq(Messages)
      BY <1>1, <2>2, AppendProperties DEF TypeOK
    <3>2. inbox \in [Nodes -> Seq(Messages)]
      BY <1>1 DEF TypeOK
    <3> DEFINE a == Append(inbox[n], Head(q))
    <3>3. a \in Seq(Messages) /\ inbox' \in {inbox, [inbox EXCEPT ![n] = a]}
      BY <2>5, <3>1
    <3> HIDE DEF a
    <3>4. inbox' \in [Nodes -> Seq(Messages)] /\ \A k \in Nodes : inbox'[k] = inbox[k] \/ (k = n /\ inbox'[k] = a)
      BY <3>2, <3>3
    <3> QED BY <3>4 DEF a
  <2>7. \A k \in Nodes, m \in Messages :
          Contains(inbox[k], m)' =>
            Contains(inbox[k], m) \/ \E j \in Ids : Contains(wire[k][j], m)
    <3>1. inbox[n] \in Seq(Messages)
      BY <1>1 DEF TypeOK
    <3>2. \A m \in Messages : Contains(Append(inbox[n], Head(q)), m) =>
                                Contains(inbox[n], m) \/ m = Head(q)
      BY <2>2, <3>1, ContainsAppend
    <3> QED BY <2>2, <2>6, <3>2
  <2>8. UNCHANGED <<chain, link, conn, progress, prepared, peers, end, reading, arriving,
                    events, appEvents, pc, opened, cut, app, auto, known, calls, armed,
                    tasks, loop, robbed>>
    BY <1>4 DEF Read, dialVars, taskVars
  <2>9. TypeOK'
    BY <1>1, <2>3, <2>5, <2>6, <2>8 DEF TypeOK, Wires
  <2>10. Keeps /\ EventInv'
    BY <1>1, <2>8, EventKept DEF Keeps
  <2> QED BY <2>4, <2>7, <2>8, <2>9, <2>10, Preserved
<1>5. CASE ReadEOF(n, i)
  <2>1. TypeOK'
    BY <1>1, <1>5 DEF ReadEOF, TypeOK, dialVars, taskVars
  <2>2. EventInv'
    BY <1>1, <1>5, EventKept DEF ReadEOF, taskVars
  <2> QED BY <1>5, <2>1, <2>2, ManagerPreserves DEF ReadEOF, dialVars
<1> QED BY <1>2, <1>3, <1>4, <1>5

-----------------------------------------------------------------------------
(***************************************************************************)
(* Dialling, timeouts, reconnections and clean-up.                         *)
(***************************************************************************)

\* The entry a call of Connect makes has got and sent nothing.
LEMMA NewEntry ==
  ASSUME TypeOK
  PROVE  /\ Progress(FALSE, FALSE) \in Entries \ {NoProgress}
         /\ \A n \in Nodes : Entry(n) \in Entries \ {NoProgress}
                             /\ (Entry(n).got => progress[n] # NoProgress /\ Entry(n) = progress[n])
                             /\ (progress[n] # NoProgress => Entry(n) = progress[n])
<1>1. /\ Progress(FALSE, FALSE) \in [got : BOOLEAN, sent : BOOLEAN]
      /\ ~Progress(FALSE, FALSE).got
  BY DEF Progress
<1>2. Progress(FALSE, FALSE) \in Entries \ {NoProgress}
  BY <1>1, HelloAssumption DEF Entries
<1>3. \A n \in Nodes : progress[n] \in Entries
  BY DEF TypeOK
<1> QED BY <1>1, <1>2, <1>3 DEF Entry

\* Connect, and a connection that fails.  The entry that Connect replaces is
\* of no message any more: a node that is not active had a Disconnected event,
\* has timed out or was never connected.
LEMMA EnvironmentPreserves ==
  ASSUME HelloInv, Environment
  PROVE  HelloInv'
<1>1. TypeOK /\ EventInv
  BY DEF HelloInv
<1>2. ASSUME NEW n \in Nodes, Connect(n) PROVE HelloInv'
  <2> DEFINE p == Progress(FALSE, FALSE)
  <2>1. p \in Entries /\ p # NoProgress /\ ~p.got
    BY <1>1, NewEntry DEF Progress
  <2>2. progress \in [Nodes -> Entries] /\ progress' = [progress EXCEPT ![n] = p]
    BY <1>1, <1>2 DEF Connect, TypeOK
  <2> HIDE DEF p
  <2>3. /\ progress' \in [Nodes -> Entries] /\ progress'[n] = p
        /\ \A k \in Nodes \ {n} : progress'[k] = progress[k]
    BY <2>1, <2>2
  <2>4. UNCHANGED <<chain, faults, link, conn, prepared, peers, end, reading, arriving,
                    wire, inbox, events, appEvents, pc, opened, cut, armed, tasks, loop,
                    robbed>>
    BY <1>2 DEF Connect, taskVars
  <2>5. /\ app' \in [Nodes -> {"idle", "connect", "hello"}] /\ app'[n] = "connect"
        /\ \A k \in Nodes \ {n} : app'[k] = app[k]
        /\ auto' \in SUBSET Nodes /\ known' \in SUBSET Nodes /\ calls' \in 0 .. MaxCalls
    BY <1>1, <1>2, HelloAssumption DEF Connect, TypeOK
  <2>6. TypeOK'
    BY <1>1, <2>3, <2>4, <2>5 DEF TypeOK
  <2>7. EventInv'
    BY <1>1, <2>4, EventKept
  <2>8. conn[n] \in {"disconnected", "cooldown", "reconnecting"}
    BY <1>1, <1>2 DEF Connect, TypeOK
  <2>9. Greeted(n) => Greeted(n)'
    <3>1. conn[n] = "reconnecting" => n \in cut
      BY <1>1 DEF EventInv, EventOK
    <3> QED BY <2>4, <2>8, <3>1 DEF Greeted, Ready
  <2>10. Keeps
    BY <2>3, <2>4, <2>9 DEF Keeps
  <2>11. ProgressOK(n)' /\ ConnectOK(n)'
    BY <2>1, <2>3, <2>5 DEF ProgressOK, ConnectOK
  <2> QED BY <2>3, <2>4, <2>5, <2>6, <2>7, <2>10, <2>11, Preserved
<1>3. CASE LinkDrops
  <2>1. faults' \in 0 .. MaxFaults
    BY <1>1, <1>3, FaultEffect DEF LinkDrops
  <2>2. TypeOK'
    BY <1>1, <1>3, <2>1, CloseEffect
       DEF LinkDrops, Unlink, TypeOK, Wires, dialVars, taskVars
  <2>3. EventInv'
    BY <1>1, <1>3, EventKept DEF LinkDrops, taskVars
  <2>4. \A k \in Nodes, i \in Ids, m \in Messages : ~Contains(wire[k][i], m)'
    BY <1>1, <1>3, CloseEffect DEF LinkDrops, Unlink
  <2> QED BY <1>3, <2>2, <2>3, <2>4, ManagerPreserves DEF LinkDrops, dialVars
<1> QED BY <1>2, <1>3 DEF Environment

\* A dial becomes Connected, or Disconnected with an event, or changes nothing.
LEMMA DialEffect ==
  ASSUME TypeOK, EventInv, NEW n \in Nodes,
         DialSucceeds(n) \/ DialFails(n) \/ DialRefused(n),
         UNCHANGED <<appEvents, loop>>
  PROVE  /\ conn' \in [Nodes -> Conns] /\ link' \in BOOLEAN /\ faults' \in 0 .. MaxFaults
         /\ events' \in [Nodes -> Nat] /\ cut' \in SUBSET Nodes /\ cut \subseteq cut'
         /\ armed' \in SUBSET Nodes /\ robbed' \in SUBSET Nodes /\ tasks' \in Tasks
         /\ \A k \in Nodes : conn'[k] = "established" => conn[k] = "established"
         /\ \A k \in Nodes \ cut' : /\ conn[k] = "cooldown" => conn'[k] = "cooldown"
                                    /\ conn'[k] = "disconnected" => conn[k] = "disconnected"
         /\ EventInv'
<1>1. CASE DialSucceeds(n)
  <2>1. /\ conn' \in [Nodes -> Conns]
        /\ \A k \in Nodes : /\ conn'[k] = "established" => conn[k] = "established"
                            /\ conn[k] = "cooldown" => conn'[k] = "cooldown"
                            /\ conn'[k] = "disconnected" => conn[k] = "disconnected"
                            /\ conn'[k] = "reconnecting" => conn[k] = "reconnecting"
    BY <1>1 DEF DialSucceeds, MayDial, TypeOK, Conns
  <2>2. UNCHANGED <<faults, events, cut>> /\ link' = TRUE /\ Arm(n)
    BY <1>1 DEF DialSucceeds
  <2>3. EventInv'
    BY <2>1, <2>2, ArmEffect, EventKept
  <2> QED BY <2>1, <2>2, <2>3, ArmEffect DEF TypeOK
<1>2. CASE DialFails(n)
  <2>1. /\ conn' \in [Nodes -> Conns] /\ conn'[n] = "disconnected"
        /\ \A k \in Nodes \ {n} : conn'[k] = conn[k]
        /\ UNCHANGED <<link, armed, robbed>>
    BY <1>2 DEF DialFails, TypeOK, Conns
  <2>2. "restart" \in Stages /\ tasks' = [tasks EXCEPT ![n]["restart"] = @ + 1]
    BY <1>2 DEF DialFails, Stages
  <2>3. tasks' \in Tasks /\ \A k \in Nodes \ {n} : tasks'[k]["restart"] = tasks[k]["restart"]
    BY <2>2 DEF TypeOK, Tasks
  <2>4. /\ events' \in [Nodes -> Nat] /\ cut' \in SUBSET Nodes /\ cut' = cut \cup {n}
        /\ \A k \in Nodes \ {n} : events'[k] = events[k]
    BY <1>2, EmitEffect DEF DialFails
  <2>5. EventInv'
    BY <2>1, <2>3, <2>4, EventKept
  <2>6. faults' \in 0 .. MaxFaults
    BY <1>2, FaultEffect DEF DialFails
  <2> QED BY <2>1, <2>3, <2>4, <2>5, <2>6 DEF TypeOK
<1>3. CASE DialRefused(n)
  <2>1. UNCHANGED <<faults, link, conn, events, cut, armed, tasks, robbed>>
    BY <1>3 DEF DialRefused
  <2>2. EventInv'
    BY <2>1, EventKept
  <2> QED BY <2>1, <2>2 DEF TypeOK, Conns, Tasks
<1> QED BY <1>1, <1>2, <1>3

\* Connect's dial and AutoConnect's, and sendHelloRequest.
LEMMA DiallingPreserves ==
  ASSUME HelloInv, NEW n \in Nodes, Dialling(n)
  PROVE  HelloInv'
<1>1. TypeOK /\ EventInv /\ ConnectOK(n)
  BY DEF HelloInv, ConnectInv
<1>2. CASE ConnectDials(n) \/ AutoConnect(n)
  <2>1. UNCHANGED <<chain, progress, prepared, peers, end, reading, arriving, wire, inbox,
                    appEvents, pc, opened, known, calls, loop>>
    BY <1>2 DEF ConnectDials, AutoConnect
  <2>2. DialSucceeds(n) \/ DialFails(n) \/ DialRefused(n)
    BY <1>2 DEF ConnectDials, AutoConnect
  <2>3. /\ app' \in [Nodes -> {"idle", "connect", "hello"}] /\ auto' \in SUBSET Nodes
        /\ \A k \in Nodes \ {n} : app'[k] = app[k]
    BY <1>1, <1>2 DEF ConnectDials, AutoConnect, TypeOK
  <2>4. TypeOK'
    BY <1>1, <2>1, <2>2, <2>3, DialEffect DEF TypeOK, Conns, Tasks
  <2>5. Keeps /\ EventInv'
    BY <1>1, <2>1, <2>2, DialEffect DEF Keeps
  <2>6. app'[n] = app[n] \/ ConnectOK(n)'
    <3>1. CASE app'[n] = "idle"
      BY <3>1 DEF ConnectOK
    <3>2. CASE app[n] = "connect" /\ DialSucceeds(n)
      <4>1. conn'[n] = "connected"
        BY <1>1, <3>2 DEF DialSucceeds, TypeOK
      <4>2. progress'[n] # NoProgress \/ Ready(n)'
        BY <1>1, <2>1, <2>5, <3>2, Monotonic DEF ConnectOK
      <4> QED BY <4>1, <4>2 DEF ConnectOK
    <3> QED BY <1>1, <1>2, <3>1, <3>2 DEF ConnectDials, AutoConnect, TypeOK
  <2>7. \A k \in Nodes : conn'[k] = "established" => conn[k] = "established"
    BY <1>1, <2>1, <2>2, DialEffect
  <2> QED BY <2>1, <2>3, <2>4, <2>5, <2>6, <2>7, Preserved
<1>3. CASE SendHelloRequest(n)
  <2>1. Send(n, "request") /\ "request" \in Types /\ app[n] = "hello"
    BY <1>3 DEF SendHelloRequest, Types
  <2>2. /\ progress' \in [Nodes -> Entries]
        /\ \A k \in Nodes \ {n} : progress'[k] = progress[k]
        /\ progress[n] = NoProgress => progress'[n] = NoProgress
        /\ progress[n] # NoProgress => /\ progress'[n] # NoProgress /\ progress'[n].sent
                                       /\ progress'[n].got = progress[n].got
    BY <1>1, <1>3, HelloAssumption DEF SendHelloRequest, TypeOK, Entries
  <2>3. UNCHANGED <<chain, link, conn, prepared, peers, inbox, events, appEvents, pc, cut,
                    auto, known, calls, armed, tasks, loop, robbed>>
    BY <1>3 DEF SendHelloRequest, taskVars
  <2>4. /\ app' \in [Nodes -> {"idle", "connect", "hello"}] /\ app'[n] = "idle"
        /\ \A k \in Nodes \ {n} : app'[k] = app[k]
    BY <1>1, <1>3 DEF SendHelloRequest, TypeOK
  <2>5. TypeOK'
    BY <1>1, <2>1, <2>2, <2>3, <2>4, SendEffect DEF TypeOK, Wires
  <2>6. ProgressOK(n)' /\ ConnectOK(n)'
    <3>1. ProgressOK(n)
      BY DEF HelloInv, ProgressInv
    <3> QED BY <2>2, <2>3, <2>4, <3>1 DEF ProgressOK, ConnectOK, Same
  <2>7. Greeted(n)'
    BY <1>1, <2>1, <2>2, <2>3 DEF ConnectOK, Greeted, Ready
  <2>8. Keeps /\ EventInv'
    BY <1>1, <2>2, <2>3, <2>7, EventKept DEF Keeps
  <2>9. \A k \in Nodes, i \in Ids, m \in Messages :
          Contains(wire[k][i], m)' => Contains(wire[k][i], m) \/ MessageInv(k, m)'
    <3>1. \A m : m = [type |-> "request", chain |-> chain[n]] => MessageInv(Other(n), m)'
      BY <2>3, <2>7, TwoNodes DEF MessageInv
    <3> QED BY <1>1, <2>1, <3>1, SendEffect
  <2> QED BY <2>2, <2>3, <2>4, <2>5, <2>6, <2>8, <2>9, Preserved
<1> QED BY <1>2, <1>3 DEF Dialling

\* The handshake timer, its callback, and the end of a cooldown.
LEMMA TimersPreserve ==
  ASSUME HelloInv, NEW n \in Nodes, Timers(n)
  PROVE  HelloInv'
<1>1. TypeOK /\ EventInv /\ tasks \in Tasks
  BY DEF HelloInv, TypeOK, Tasks
<1>2. /\ "fire" \in Stages /\ "stop" \in Stages /\ "close" \in Stages
      /\ "wait" \in Stages /\ "restart" \in Stages
  BY DEF Stages
<1>3. CASE TimerFires(n)
  <2>1. tasks' \in Tasks /\ \A k \in Nodes : tasks'[k]["restart"] = tasks[k]["restart"]
    <3>1. tasks' = [tasks EXCEPT ![n]["fire"] = @ + 1]
      BY <1>3 DEF TimerFires
    <3> QED BY <1>1, <1>2, <3>1 DEF Tasks
  <2>2. faults' \in 0 .. MaxFaults /\ armed' \in SUBSET Nodes
    BY <1>1, <1>3, FaultEffect DEF TimerFires, TypeOK
  <2>3. UNCHANGED <<chain, link, conn, progress, prepared, peers, end, reading, arriving,
                    wire, inbox, events, appEvents, pc, opened, cut, app, auto, known,
                    calls, loop, robbed>>
    BY <1>3 DEF TimerFires, dialVars
  <2>4. TypeOK' /\ EventInv'
    BY <1>1, <2>1, <2>2, <2>3, EventKept DEF TypeOK, Tasks
  <2> QED BY <2>3, <2>4, ManagerPreserves
<1>4. CASE HandshakeTimesOut(n)
  <2>1. tasks' \in Tasks /\ \A k \in Nodes : tasks'[k]["restart"] = tasks[k]["restart"]
    <3>1. CASE tasks' = Moved(n, "fire", "stop")
      BY <1>1, <1>2, <1>4, <3>1, MovedEffect DEF HandshakeTimesOut
    <3>2. CASE tasks' = [tasks EXCEPT ![n]["fire"] = @ - 1]
      <4>1. tasks[n]["fire"] > 0
        BY <1>4 DEF HandshakeTimesOut
      <4> QED BY <1>1, <1>2, <3>2, <4>1 DEF Tasks
    <3> QED BY <1>4, <3>1, <3>2 DEF HandshakeTimesOut
  <2>2. /\ conn' \in [Nodes -> Conns]
        /\ \A k \in Nodes : conn'[k] = conn[k] \/ (conn[k] = "connected" /\ conn'[k] = "cooldown")
    BY <1>1, <1>4 DEF HandshakeTimesOut, TypeOK, Conns
  <2>3. UNCHANGED <<chain, faults, link, progress, prepared, peers, end, reading, arriving,
                    wire, inbox, events, appEvents, pc, opened, cut, app, auto, known,
                    calls, armed, loop, robbed>>
    BY <1>4 DEF HandshakeTimesOut, dialVars
  <2>4. TypeOK'
    BY <1>1, <2>1, <2>2, <2>3 DEF TypeOK, Tasks, Conns
  <2>5. EventInv'
    BY <1>1, <2>1, <2>2, <2>3, EventKept
  <2> QED BY <2>2, <2>3, <2>4, <2>5, ManagerPreserves
<1>5. CASE TimeoutCancelsTimer(n)
  <2>1. tasks' \in Tasks /\ \A k \in Nodes : tasks'[k]["restart"] = tasks[k]["restart"]
    BY <1>1, <1>2, <1>5, MovedEffect DEF TimeoutCancelsTimer
  <2>2. UNCHANGED <<chain, faults, link, conn, progress, prepared, peers, end, reading,
                    arriving, wire, inbox, events, appEvents, pc, opened, cut, app, auto,
                    known, calls, loop>>
    BY <1>5 DEF TimeoutCancelsTimer, dialVars
  <2>3. armed' \in SUBSET Nodes /\ robbed' \in SUBSET Nodes
    BY <1>1, <1>5 DEF TimeoutCancelsTimer, TypeOK
  <2>4. TypeOK' /\ EventInv'
    BY <1>1, <2>1, <2>2, <2>3, EventKept DEF TypeOK, Tasks
  <2> QED BY <2>2, <2>4, ManagerPreserves
<1>6. CASE TimeoutDisconnects(n)
  <2>1. tasks' \in Tasks /\ \A k \in Nodes : tasks'[k]["restart"] = tasks[k]["restart"]
    BY <1>1, <1>2, <1>6, MovedEffect DEF TimeoutDisconnects
  <2>2. UNCHANGED <<chain, faults, conn, progress, prepared, peers, end, inbox, events,
                    appEvents, pc, opened, cut, app, auto, known, calls, armed, loop,
                    robbed>>
    BY <1>6 DEF TimeoutDisconnects, dialVars
  <2>3. TypeOK'
    BY <1>1, <1>6, <2>1, <2>2, CloseEffect DEF TimeoutDisconnects, Unlink, TypeOK, Tasks, Wires
  <2>4. EventInv'
    BY <1>1, <2>1, <2>2, EventKept
  <2>5. \A k \in Nodes, i \in Ids, m \in Messages : ~Contains(wire[k][i], m)'
    BY <1>1, <1>6, CloseEffect DEF TimeoutDisconnects, Unlink
  <2> QED BY <2>2, <2>3, <2>4, <2>5, ManagerPreserves
<1>7. CASE CooldownExpires(n)
  <2>1. UNCHANGED <<chain, link, progress, prepared, peers, end, reading, arriving, wire,
                    inbox, appEvents, pc, opened, app, auto, known, calls, armed, loop,
                    robbed>>
    BY <1>7 DEF CooldownExpires, dialVars
  <2>2. faults' \in 0 .. MaxFaults
    BY <1>1, <1>7, FaultEffect DEF CooldownExpires
  <2>3. CASE conn[n] = "cooldown"
    <3>1. tasks' \in Tasks /\ \A k \in Nodes \ {n} : tasks'[k]["restart"] = tasks[k]["restart"]
      BY <1>1, <1>2, <1>7, <2>3, MovedEffect DEF CooldownExpires
    <3>2. /\ conn' \in [Nodes -> Conns] /\ conn'[n] = "disconnected"
          /\ \A k \in Nodes \ {n} : conn'[k] = conn[k]
      BY <1>1, <1>7, <2>3 DEF CooldownExpires, TypeOK, Conns
    <3>3. /\ events' \in [Nodes -> Nat] /\ cut' \in SUBSET Nodes /\ cut' = cut \cup {n}
          /\ \A k \in Nodes \ {n} : events'[k] = events[k]
      BY <1>1, <1>7, <2>3, EmitEffect DEF CooldownExpires
    <3>4. TypeOK'
      BY <1>1, <2>1, <2>2, <3>1, <3>2, <3>3 DEF TypeOK, Tasks, Conns
    <3>5. EventInv'
      BY <1>1, <2>1, <3>1, <3>2, <3>3, EventKept
    <3> QED BY <2>1, <3>2, <3>3, <3>4, <3>5, ManagerPreserves
  <2>4. CASE conn[n] # "cooldown"
    <3>1. tasks' \in Tasks /\ \A k \in Nodes : tasks'[k]["restart"] = tasks[k]["restart"]
      <4>1. tasks[n]["wait"] > 0 /\ tasks' = [tasks EXCEPT ![n]["wait"] = @ - 1]
        BY <1>7, <2>4 DEF CooldownExpires
      <4> QED BY <1>1, <1>2, <4>1 DEF Tasks
    <3>2. UNCHANGED <<conn, events, cut>>
      BY <1>7, <2>4 DEF CooldownExpires
    <3>3. TypeOK' /\ EventInv'
      BY <1>1, <2>1, <2>2, <3>1, <3>2, EventKept DEF TypeOK, Tasks
    <3> QED BY <2>1, <3>2, <3>3, ManagerPreserves
  <2> QED BY <2>3, <2>4
<1> QED BY <1>3, <1>4, <1>5, <1>6, <1>7 DEF Timers

\* A reconnection is started after an event, and its end is Disconnected with
\* another one, or a link that the state knows nothing of.
LEMMA ReconnectionPreserves ==
  ASSUME HelloInv, NEW n \in Nodes, Reconnection(n)
  PROVE  HelloInv'
<1>1. TypeOK /\ EventInv /\ tasks \in Tasks
  BY DEF HelloInv, TypeOK, Tasks
<1>2. "restart" \in Stages /\ "dial" \in Stages
  BY DEF Stages
<1>3. LoopRuns(n) => /\ LoopDone(n) \in Tasks
                     /\ \A k \in Nodes : LoopDone(n)[k]["restart"] = tasks[k]["restart"]
  BY <1>1, <1>2 DEF LoopRuns, LoopDone, Tasks
<1>4. CASE StartReconnection(n)
  <2>1. n \in cut
    BY <1>1, <1>4 DEF StartReconnection, EventInv, EventOK
  <2>2. tasks' \in Tasks /\ \A k \in Nodes \ {n} : tasks'[k]["restart"] = tasks[k]["restart"]
    <3>1. tasks[n]["restart"] > 0 /\ tasks' = [tasks EXCEPT ![n]["restart"] = @ - 1]
      BY <1>4 DEF StartReconnection
    <3> QED BY <1>1, <1>2, <3>1 DEF Tasks
  <2>3. /\ conn' \in [Nodes -> Conns] /\ \A k \in Nodes \ {n} : conn'[k] = conn[k]
        /\ conn'[n] = "established" => conn[n] = "established"
    BY <1>1, <1>4 DEF StartReconnection, TypeOK, Conns
  <2>4. UNCHANGED <<chain, faults, link, progress, prepared, peers, end, reading, arriving,
                    wire, inbox, events, appEvents, pc, opened, cut, app, auto, known,
                    calls, armed, robbed>>
    BY <1>4 DEF StartReconnection, dialVars
  <2>5. loop' \in SUBSET Nodes
    BY <1>1, <1>4 DEF StartReconnection, TypeOK
  <2>6. TypeOK'
    BY <1>1, <2>2, <2>3, <2>4, <2>5 DEF TypeOK, Tasks, Conns
  <2>7. EventInv'
    BY <1>1, <2>1, <2>2, <2>3, <2>4, EventKept
  <2> QED BY <2>1, <2>3, <2>4, <2>6, <2>7, ManagerPreserves
<1>5. CASE LoopDials(n)
  <2>1. tasks' \in Tasks /\ \A k \in Nodes : tasks'[k]["restart"] = tasks[k]["restart"]
    <3>1. LoopDone(n) \in Tasks /\ tasks' = Overwritten(n, LoopDone(n))
      BY <1>3, <1>5 DEF LoopDials
    <3> QED BY <1>3, <1>5, <3>1, OverwrittenEffect DEF LoopDials
  <2>2. UNCHANGED <<chain, conn, progress, prepared, peers, end, reading, arriving, wire,
                    inbox, events, appEvents, pc, opened, cut, app, auto, known, calls>>
    BY <1>5 DEF LoopDials, dialVars
  <2>3. /\ link' = TRUE /\ armed' \in SUBSET Nodes /\ robbed' \in SUBSET Nodes
        /\ loop' \in SUBSET Nodes /\ faults' \in 0 .. MaxFaults
    BY <1>1, <1>5, FaultEffect DEF LoopDials, TypeOK
  <2>4. TypeOK' /\ EventInv'
    BY <1>1, <2>1, <2>2, <2>3, EventKept DEF TypeOK, Tasks
  <2> QED BY <2>2, <2>4, ManagerPreserves
<1>6. CASE LoopGivesUp(n)
  <2>1. tasks' \in Tasks /\ \A k \in Nodes : tasks'[k]["restart"] = tasks[k]["restart"]
    BY <1>3, <1>6 DEF LoopGivesUp
  <2>2. /\ conn' \in [Nodes -> Conns] /\ conn'[n] = "disconnected"
        /\ \A k \in Nodes \ {n} : conn'[k] = conn[k]
    BY <1>1, <1>6 DEF LoopGivesUp, TypeOK, Conns
  <2>3. /\ events' \in [Nodes -> Nat] /\ cut' \in SUBSET Nodes /\ cut' = cut \cup {n}
        /\ \A k \in Nodes \ {n} : events'[k] = events[k]
    BY <1>1, <1>6, EmitEffect DEF LoopGivesUp
  <2>4. UNCHANGED <<chain, link, progress, prepared, peers, end, reading, arriving, wire,
                    inbox, appEvents, pc, opened, app, auto, known, calls, armed, robbed>>
    BY <1>6 DEF LoopGivesUp, dialVars
  <2>5. loop' \in SUBSET Nodes /\ faults' \in 0 .. MaxFaults
    BY <1>1, <1>6, FaultEffect DEF LoopGivesUp, TypeOK
  <2>6. TypeOK'
    BY <1>1, <2>1, <2>2, <2>3, <2>4, <2>5 DEF TypeOK, Tasks, Conns
  <2>7. EventInv'
    BY <1>1, <2>1, <2>2, <2>3, <2>4, EventKept
  <2> QED BY <2>2, <2>3, <2>4, <2>6, <2>7, ManagerPreserves
<1> QED BY <1>4, <1>5, <1>6 DEF Reconnection

\* forwardEvents and handleEvents.
LEMMA EventsPreserve ==
  ASSUME HelloInv, NEW n \in Nodes, Events(n)
  PROVE  HelloInv'
<1>1. TypeOK /\ EventInv
  BY DEF HelloInv
<1>2. n \in cut
  BY <1>1 DEF Events, ForwardEvent, HandleEvent, EventInv, EventOK
<1>3. CASE ForwardEvent(n)
  <2>1. /\ events' \in [Nodes -> Nat] /\ appEvents' \in [Nodes -> Nat]
        /\ \A k \in Nodes \ {n} : events'[k] = events[k] /\ appEvents'[k] = appEvents[k]
    BY <1>1, <1>3 DEF ForwardEvent, TypeOK
  <2>2. /\ prepared' \in [Nodes -> BOOLEAN] /\ end' \in [Nodes -> 0 .. MaxStreams]
        /\ ~prepared'[n] /\ \A k \in Nodes \ {n} : prepared'[k] = prepared[k]
    BY <1>1, <1>3, HelloAssumption DEF ForwardEvent, TypeOK
  <2>3. UNCHANGED <<chain, faults, link, conn, progress, peers, arriving, inbox, pc, opened,
                    cut, app, auto, known, calls, armed, tasks, loop, robbed>>
    BY <1>3 DEF ForwardEvent, dialVars, taskVars
  <2>4. TypeOK'
    BY <1>1, <1>3, <2>1, <2>2, <2>3, CloseEffect DEF ForwardEvent, TypeOK, Wires
  <2>5. Keeps /\ EventInv'
    BY <1>1, <1>2, <2>1, <2>2, <2>3, EventKept DEF Keeps
  <2>6. \A k \in Nodes, i \in Ids, m \in Messages :
          Contains(wire[k][i], m)' => Contains(wire[k][i], m)
    BY <1>1, <1>3, CloseEffect DEF ForwardEvent
  <2> QED BY <2>2, <2>3, <2>4, <2>5, <2>6, Preserved
<1>4. CASE HandleEvent(n)
  <2>1. /\ appEvents' \in [Nodes -> Nat] /\ peers' \in [Nodes -> BOOLEAN]
        /\ \A k \in Nodes : peers'[k] => peers[k]
        /\ \A k \in Nodes \ {n} : appEvents'[k] = appEvents[k]
    BY <1>1, <1>4 DEF HandleEvent, TypeOK
  <2>2. /\ progress' \in [Nodes -> Entries] /\ progress'[n] = NoProgress
        /\ \A k \in Nodes \ {n} : progress'[k] = progress[k]
    BY <1>1, <1>4 DEF HandleEvent, TypeOK, Entries
  <2>3. UNCHANGED <<chain, faults, link, conn, prepared, end, reading, arriving, wire,
                    inbox, events, pc, opened, cut, app, auto, known, calls, armed, tasks,
                    loop, robbed>>
    BY <1>4 DEF HandleEvent, dialVars, taskVars
  <2>4. TypeOK'
    BY <1>1, <2>1, <2>2, <2>3 DEF TypeOK
  <2>5. Keeps /\ EventInv'
    BY <1>1, <1>2, <2>1, <2>2, <2>3, EventKept DEF Keeps, Greeted, Ready
  <2>6. ProgressOK(n)' /\ ConnectOK(n)'
    BY <1>2, <2>2, <2>3 DEF ProgressOK, ConnectOK, Ready
  <2> QED BY <2>1, <2>2, <2>3, <2>4, <2>5, <2>6, Preserved
<1> QED BY <1>3, <1>4 DEF Events

-----------------------------------------------------------------------------
(***************************************************************************)
(* handleMessages.                                                         *)
(***************************************************************************)

\* Same is about the two nodes, whichever looks.
LEMMA SameIsSymmetric ==
  ASSUME NEW n \in Nodes PROVE Same <=> chain[Other(n)] = chain[n]
BY HelloAssumption DEF Same, Other, Nodes

\* The handler moves, and the other node's does not.
LEMMA GotoEffect ==
  ASSUME TypeOK, NEW n \in Nodes, NEW l \in Labels, Goto(n, l)
  PROVE  /\ pc' \in [Nodes -> Labels] /\ pc'[n] = l
         /\ \A k \in Nodes \ {n} : pc'[k] = pc[k]
BY DEF TypeOK, Goto, Labels

\* The message received is of the other node's chain, and keeps its promise.
LEMMA ReceiveEffect ==
  ASSUME HelloInv, NEW n \in Nodes, NEW t, Receive(n, t)
  PROVE  /\ pc[n] = "idle" /\ Head(inbox[n]).type = t
         /\ MessageInv(n, Head(inbox[n]))
         /\ inbox' \in [Nodes -> Seq(Messages)]
         /\ \A k \in Nodes, m \in Messages :
              Contains(inbox[k], m)' => Contains(inbox[k], m)
<1> DEFINE q == inbox[n]
<1>1. /\ inbox \in [Nodes -> Seq(Messages)] /\ q \in Seq(Messages) /\ q # <<>>
      /\ inbox' = [inbox EXCEPT ![n] = Tail(q)]
  BY DEF HelloInv, TypeOK, Receive
<1>2. /\ Head(q) \in Messages /\ Contains(q, Head(q)) /\ Tail(q) \in Seq(Messages)
      /\ \A m : Contains(Tail(q), m) => Contains(q, m)
  BY <1>1, ContainsHeadTail
<1>3. /\ inbox' \in [Nodes -> Seq(Messages)]
      /\ \A k \in Nodes : inbox'[k] = IF k = n THEN Tail(q) ELSE inbox[k]
  BY <1>1, <1>2
<1>4. MessageInv(n, Head(q))
  BY <1>2 DEF HelloInv, InboxInv
<1> QED BY <1>2, <1>3, <1>4 DEF Receive

\* An entry that is stored after a hello of the same chain.
LEMMA EntryEffect ==
  ASSUME TypeOK, NEW n \in Nodes, NEW p \in {Entry(n), [Entry(n) EXCEPT !.got = TRUE]},
         progress' = [progress EXCEPT ![n] = p]
  PROVE  /\ p \in Entries /\ p # NoProgress /\ progress' \in [Nodes -> Entries]
         /\ progress'[n] = p /\ \A k \in Nodes \ {n} : progress'[k] = progress[k]
<1>1. Entry(n) \in [got : BOOLEAN, sent : BOOLEAN]
  BY NewEntry DEF Entries
<1>2. p \in [got : BOOLEAN, sent : BOOLEAN]
  BY <1>1
<1>3. p \in Entries /\ p # NoProgress
  BY <1>2, HelloAssumption DEF Entries
<1> QED BY <1>3 DEF TypeOK

\* PrepareStreams undoes nothing.
LEMMA PreparedEffect ==
  ASSUME TypeOK, NEW n \in Nodes, Prepared(n)
  PROVE  /\ prepared' \in [Nodes -> BOOLEAN] /\ faults' \in 0 .. MaxFaults
         /\ prepared'[n] /\ \A k \in Nodes : prepared[k] => prepared'[k]
BY DEF TypeOK, Prepared

\* A hello of another chain, and the Disconnect that follows.
LEMMA MismatchPreserves ==
  ASSUME HelloInv, NEW n \in Nodes, Mismatch(n) \/ Disconnect(n)
  PROVE  HelloInv'
<1>1. TypeOK /\ EventInv
  BY DEF HelloInv
<1>2. CASE Mismatch(n)
  <2>1. PICK t \in Types : Receive(n, t)
    BY <1>2 DEF Mismatch, Types
  <2>2. ~Same
    BY <1>2, <2>1, ReceiveEffect, SameIsSymmetric DEF Mismatch, SameChain, MessageInv
  <2>3. /\ pc' \in [Nodes -> Labels] /\ pc'[n] = "disconnect" /\ pc[n] = "idle"
        /\ \A k \in Nodes \ {n} : pc'[k] = pc[k]
    BY <1>1, <1>2, <2>1, GotoEffect, ReceiveEffect DEF Mismatch, Labels
  <2>4. /\ progress' \in [Nodes -> Entries] /\ progress'[n] = Entry(n)
        /\ Entry(n) # NoProgress
        /\ \A k \in Nodes \ {n} : progress'[k] = progress[k]
    BY <1>1, <1>2, EntryEffect DEF Mismatch
  <2>5. ~Entry(n).got
    BY <1>1, <2>2, NewEntry DEF HelloInv, ProgressInv, ProgressOK
  <2>6. /\ prepared' \in [Nodes -> BOOLEAN] /\ end' \in [Nodes -> 0 .. MaxStreams]
        /\ \A k \in Nodes : ~prepared[k] /\ ~prepared'[k]
    BY <1>1, <1>2, <2>2, HelloAssumption DEF Mismatch, TypeOK, HelloInv, PreparedInv
  <2>7. UNCHANGED <<chain, faults, link, conn, peers, arriving, events, appEvents, opened,
                    cut, app, auto, known, calls, armed, tasks, loop, robbed>>
    BY <1>2 DEF Mismatch, dialVars, taskVars
  <2>8. TypeOK'
    BY <1>1, <1>2, <2>1, <2>3, <2>4, <2>6, <2>7, ReceiveEffect, CloseEffect
       DEF Mismatch, TypeOK, Wires, Labels
  <2>9. Greeted(n) => progress'[n] = progress[n] \/ Greeted(n)'
    BY <1>1, <2>4, <2>6, <2>7, NewEntry DEF Greeted, Ready
  <2>10. Keeps /\ EventInv'
    BY <1>1, <2>4, <2>6, <2>7, <2>9, EventKept DEF Keeps
  <2>11. \A k \in Nodes, i \in Ids, m \in Messages :
           Contains(wire[k][i], m)' => Contains(wire[k][i], m)
    BY <1>1, <1>2, CloseEffect DEF Mismatch
  <2>12. ProgressOK(n)' /\ HandlerOK(n)'
    BY <2>3, <2>4, <2>5 DEF ProgressOK, HandlerOK
  <2>13. \A k \in Nodes, m \in Messages : Contains(inbox[k], m)' => Contains(inbox[k], m)
    BY <2>1, ReceiveEffect
  <2> QED BY <2>3, <2>4, <2>6, <2>7, <2>8, <2>10, <2>11, <2>12, <2>13, Preserved
<1>3. CASE Disconnect(n)
  <2>1. /\ pc[n] = "disconnect" /\ pc' \in [Nodes -> Labels] /\ pc'[n] = "idle"
        /\ \A k \in Nodes \ {n} : pc'[k] = pc[k]
    BY <1>1, <1>3, GotoEffect DEF Disconnect, Labels
  <2>2. /\ conn' \in [Nodes -> Conns] /\ conn'[n] = "disconnected"
        /\ \A k \in Nodes \ {n} : conn'[k] = conn[k]
    BY <1>1, <1>3 DEF Disconnect, TypeOK, Conns
  <2>3. /\ events' \in [Nodes -> Nat] /\ cut' \in SUBSET Nodes /\ cut' = cut \cup {n}
        /\ \A k \in Nodes \ {n} : events'[k] = events[k]
    BY <1>1, <1>3, EmitEffect DEF Disconnect
  <2>4. tasks' \in Tasks /\ \A k \in Nodes : tasks'[k]["restart"] = tasks[k]["restart"]
    <3>1. "dial" \in Stages /\ "restart" \in Stages
      BY DEF Stages
    <3>2. CASE UNCHANGED tasks
      BY <1>1, <3>2 DEF TypeOK, Tasks
    <3>3. CASE tasks' = [tasks EXCEPT ![n]["dial"] = @ + 1]
      BY <1>1, <3>1, <3>3 DEF TypeOK, Tasks
    <3> QED BY <1>3, <3>2, <3>3 DEF Disconnect
  <2>5. UNCHANGED <<chain, faults, progress, prepared, peers, end, inbox, appEvents, opened,
                    app, auto, known, calls, robbed>>
    BY <1>3 DEF Disconnect, dialVars
  <2>6. armed' \in SUBSET Nodes /\ loop' \in SUBSET Nodes
    BY <1>1, <1>3 DEF Disconnect, TypeOK
  <2>7. TypeOK'
    <3>1. /\ link' = FALSE /\ wire' = Quiet
          /\ reading' = [k \in Nodes |-> {}] /\ arriving' = [k \in Nodes |-> {}]
      BY <1>3 DEF Disconnect, Unlink
    <3>2. /\ wire' \in Wires /\ reading' \in [Nodes -> SUBSET Ids]
          /\ arriving' \in [Nodes -> SUBSET Ids]
      BY <1>1, <3>1, CloseEffect
    <3> QED BY <1>1, <2>1, <2>2, <2>3, <2>4, <2>5, <2>6, <3>1, <3>2
            DEF TypeOK, Wires, Labels, Conns, Tasks
  <2>8. EventInv'
    BY <1>1, <2>2, <2>3, <2>4, <2>5, EventKept
  <2>9. Keeps
    BY <2>2, <2>3, <2>5 DEF Keeps
  <2>10. \A k \in Nodes, i \in Ids, m \in Messages : ~Contains(wire[k][i], m)'
    BY <1>1, <1>3, CloseEffect DEF Disconnect, Unlink
  <2>11. HandlerOK(n)'
    BY <2>1 DEF HandlerOK
  <2> QED BY <2>1, <2>2, <2>5, <2>7, <2>8, <2>9, <2>10, <2>11, Preserved
<1> QED BY <1>2, <1>3

\* A hello of this chain.  When PrepareStreams fails on a HelloResponse, the node
\* has sent its hello, unless its handshake is over.
LEMMA HelloPreserves ==
  ASSUME HelloInv, NEW n \in Nodes, HandleHelloRequest(n) \/ HandleHelloResponse(n)
  PROVE  HelloInv'
<1> DEFINE p == [Entry(n) EXCEPT !.got = TRUE]
<1>1. TypeOK /\ EventInv
  BY DEF HelloInv
<1>2. PICK t \in {"request", "response"} :
        /\ Receive(n, t)
        /\ t = "request" => HandleHelloRequest(n)
        /\ t = "response" => HandleHelloResponse(n)
  BY DEF HandleHelloRequest, HandleHelloResponse
<1>3. Same /\ pc[n] = "idle"
  BY <1>2, ReceiveEffect, SameIsSymmetric
     DEF HandleHelloRequest, HandleHelloResponse, SameChain, MessageInv
<1>4. progress' = [progress EXCEPT ![n] = p]
  BY DEF HandleHelloRequest, HandleHelloResponse
<1>5. /\ progress' \in [Nodes -> Entries] /\ progress'[n] = p /\ p # NoProgress
      /\ \A k \in Nodes \ {n} : progress'[k] = progress[k]
  BY <1>1, <1>4, EntryEffect
<1>6. progress[n] # NoProgress /\ progress[n].sent => progress'[n].sent
  <2>1. Entry(n) \in [got : BOOLEAN, sent : BOOLEAN]
    BY <1>1, NewEntry DEF Entries
  <2> QED BY <1>1, <1>5, <2>1, NewEntry
<1> HIDE DEF p
<1>7. /\ pc' \in [Nodes -> Labels] /\ \A k \in Nodes \ {n} : pc'[k] = pc[k]
      /\ \/ t = "request" /\ pc'[n] = "respond"
         \/ t = "response" /\ pc'[n] = "finalize" /\ prepared'[n]
         \/ t = "response" /\ pc'[n] = "idle"
  <2>1. CASE t = "request"
    BY <1>1, <1>2, <2>1, GotoEffect DEF HandleHelloRequest, Labels
  <2>2. CASE t = "response"
    <3>1. CASE Prepared(n) /\ Goto(n, "finalize")
      <4>1. prepared'[n]
        BY <1>1, <3>1 DEF Prepared, TypeOK
      <4> QED BY <1>1, <2>2, <3>1, <4>1, GotoEffect DEF Labels
    <3>2. CASE PrepareFails /\ Goto(n, "idle")
      BY <1>1, <2>2, <3>2, GotoEffect DEF Labels
    <3> QED BY <1>2, <2>2, <3>1, <3>2 DEF HandleHelloResponse
  <2> QED BY <1>2, <2>1, <2>2
<1>8. /\ prepared' \in [Nodes -> BOOLEAN] /\ faults' \in 0 .. MaxFaults
      /\ \A k \in Nodes : prepared[k] => prepared'[k]
  <2>1. CASE UNCHANGED <<prepared, faults>>
    BY <1>1, <2>1 DEF TypeOK
  <2>2. CASE Prepared(n)
    BY <1>1, <2>2, PreparedEffect
  <2>3. CASE PrepareFails
    BY <1>1, <2>3, FaultEffect DEF PrepareFails, TypeOK
  <2> QED BY <2>1, <2>2, <2>3 DEF HandleHelloRequest, HandleHelloResponse
<1>9. UNCHANGED <<chain, link, conn, peers, end, reading, arriving, wire, events,
                  appEvents, opened, cut, app, auto, known, calls, armed, tasks, loop,
                  robbed>>
  BY DEF HandleHelloRequest, HandleHelloResponse, dialVars, taskVars
<1>10. TypeOK'
  BY <1>1, <1>2, <1>5, <1>7, <1>8, <1>9, ReceiveEffect DEF TypeOK, Labels
<1>11. Greeted(n) => Greeted(n)'
  BY <1>5, <1>6, <1>8, <1>9 DEF Greeted, Ready
<1>12. Keeps /\ EventInv' /\ Same'
  BY <1>1, <1>3, <1>5, <1>8, <1>9, <1>11, EventKept DEF Keeps, Same
<1>13. HandlerOK(n)'
  <2>1. t = "request" => Greeted(Other(n))'
    BY <1>2, <1>12, ReceiveEffect, TwoNodes, Monotonic DEF MessageInv
  <2> QED BY <1>7, <1>12, <2>1 DEF HandlerOK, Ready
<1>14. ProgressOK(n)'
  <2>1. t = "response" => Greeted(n)'
    BY <1>2, <1>11, ReceiveEffect DEF MessageInv
  <2> QED BY <1>5, <1>7, <1>12, <2>1 DEF ProgressOK, Greeted
<1>15. \A k \in Nodes, m \in Messages : Contains(inbox[k], m)' => Contains(inbox[k], m)
  BY <1>2, ReceiveEffect
<1> QED BY <1>3, <1>5, <1>7, <1>9, <1>10, <1>12, <1>13, <1>14, <1>15, Preserved

\* HelloFinalize: the sender has prepared its streams, and the receiver has,
\* prepares them now or is told nothing.
LEMMA FinalizePreserves ==
  ASSUME HelloInv, NEW n \in Nodes, HandleHelloFinalize(n)
  PROVE  HelloInv'
<1> DEFINE p == Entry(n)
           echo == p.got /\ p.sent
<1>1. TypeOK /\ EventInv /\ Receive(n, "finalize")
  BY DEF HelloInv, HandleHelloFinalize
<1>2. Same /\ Ready(Other(n)) /\ pc[n] = "idle"
  BY <1>1, ReceiveEffect DEF MessageInv
<1>3. p.got /\ ~p.sent => Over(n)
  BY <1>1, <1>2, NewEntry DEF HelloInv, ProgressInv, ProgressOK, Over
<1>4. p.got \in BOOLEAN /\ p.sent \in BOOLEAN /\ p # NoProgress
  BY <1>1, NewEntry DEF Entries
<1>5. /\ progress' \in [Nodes -> Entries] /\ progress'[n] = p
      /\ \A k \in Nodes \ {n} : progress'[k] = progress[k]
  BY <1>1, EntryEffect DEF HandleHelloFinalize
<1>6. /\ prepared' \in [Nodes -> BOOLEAN] /\ faults' \in 0 .. MaxFaults
      /\ \A k \in Nodes : prepared[k] => prepared'[k]
      /\ pc' \in [Nodes -> Labels] /\ \A k \in Nodes \ {n} : pc'[k] = pc[k]
      /\ \/ echo /\ prepared'[n] /\ pc'[n] = "echo"
         \/ echo /\ pc'[n] = "idle"
         \/ ~echo /\ p.got /\ pc'[n] = "finish"
         \/ ~p.got /\ pc'[n] = "idle"
  <2>1. CASE echo /\ Prepared(n) /\ Goto(n, "echo")
    BY <1>1, <2>1, GotoEffect, PreparedEffect DEF Labels
  <2>2. CASE echo /\ PrepareFails /\ Goto(n, "idle")
    BY <1>1, <2>2, GotoEffect, FaultEffect DEF PrepareFails, Labels, TypeOK
  <2>3. CASE /\ ~echo /\ Goto(n, IF p.got THEN "finish" ELSE "idle")
             /\ UNCHANGED <<prepared, faults>>
    <3>1. CASE p.got
      BY <1>1, <2>3, <3>1, GotoEffect DEF Labels, TypeOK
    <3>2. CASE ~p.got
      BY <1>1, <2>3, <3>2, GotoEffect DEF Labels, TypeOK
    <3> QED BY <3>1, <3>2
  <2> QED BY <2>1, <2>2, <2>3 DEF HandleHelloFinalize
<1>7. UNCHANGED <<chain, link, conn, peers, end, reading, arriving, wire, events,
                  appEvents, opened, cut, app, auto, known, calls, armed, tasks, loop,
                  robbed>>
  BY DEF HandleHelloFinalize, dialVars, taskVars
<1>8. progress[n] # NoProgress => p = progress[n]
  BY <1>1, NewEntry
<1> HIDE DEF p
<1>9. TypeOK'
  BY <1>1, <1>5, <1>6, <1>7, ReceiveEffect DEF TypeOK, Labels
<1>10. Greeted(n) => progress'[n] = progress[n] \/ Greeted(n)'
  BY <1>5, <1>6, <1>7, <1>8 DEF Greeted, Ready
<1>11. Keeps /\ EventInv' /\ Same'
  BY <1>1, <1>2, <1>5, <1>6, <1>7, <1>10, EventKept DEF Keeps, Same
<1>12. Ready(Other(n))' /\ (p.got /\ ~p.sent => Over(n)')
  BY <1>2, <1>3, <1>11, TwoNodes, Monotonic
<1>13. ProgressOK(n)' /\ HandlerOK(n)'
  <2>1. ProgressOK(n)'
    BY <1>5, <1>11, <1>12 DEF ProgressOK, Over
  <2>2. prepared'[n] => AllReady'
    BY <1>12, TwoNodes DEF AllReady, Ready
  <2> QED BY <1>6, <1>11, <1>12, <2>1, <2>2 DEF HandlerOK, Over
<1>14. \A k \in Nodes, m \in Messages : Contains(inbox[k], m)' => Contains(inbox[k], m)
  BY <1>1, ReceiveEffect
<1>15. \A k \in Nodes : prepared'[k] => prepared[k] \/ Same
  BY <1>2
<1> QED BY <1>2, <1>4, <1>5, <1>6, <1>7, <1>9, <1>11, <1>13, <1>14, <1>15, Preserved

\* sendHelloResponse and sendHelloFinalize.
LEMMA AnswersPreserve ==
  ASSUME HelloInv, NEW n \in Nodes, SendHelloResponse(n) \/ SendHelloFinalize(n)
  PROVE  HelloInv'
<1>1. TypeOK /\ EventInv /\ HandlerOK(n)
  BY DEF HelloInv, HandlerInv
<1>2. UNCHANGED <<chain, link, conn, prepared, peers, inbox, events, appEvents, cut, app,
                  auto, known, calls, armed, tasks, loop, robbed>>
  BY DEF SendHelloResponse, SendHelloFinalize, dialVars, taskVars
<1>3. Same /\ Same'
  BY <1>1, <1>2 DEF HandlerOK, SendHelloResponse, SendHelloFinalize, Same
<1>4. EventInv'
  BY <1>1, <1>2, EventKept
<1>5. PICK t \in Types : /\ Send(n, t) /\ t # "request"
                         /\ t = "finalize" => Ready(n)
                         /\ t = "response" => Greeted(Other(n))
  BY <1>1 DEF SendHelloResponse, SendHelloFinalize, HandlerOK, Types, AllReady
<1>6. Keeps => \A k \in Nodes, i \in Ids, m \in Messages :
        Contains(wire[k][i], m)' => Contains(wire[k][i], m) \/ MessageInv(k, m)'
  <2> SUFFICES ASSUME Keeps
               PROVE  \A k \in Nodes, i \in Ids, m \in Messages :
                 Contains(wire[k][i], m)' => Contains(wire[k][i], m) \/ MessageInv(k, m)'
    OBVIOUS
  <2>1. (t = "finalize" => Ready(n)') /\ (t = "response" => Greeted(Other(n))')
    BY <1>5, TwoNodes, Monotonic
  <2>2. \A m : m = [type |-> t, chain |-> chain[n]] => MessageInv(Other(n), m)'
    BY <1>2, <1>3, <1>5, <2>1, TwoNodes DEF MessageInv
  <2> QED BY <1>1, <1>5, <2>2, SendEffect
<1>7. CASE SendHelloResponse(n)
  <2>1. /\ pc' \in [Nodes -> Labels] /\ pc'[n] = "idle"
        /\ \A k \in Nodes \ {n} : pc'[k] = pc[k]
    BY <1>1, <1>7, GotoEffect DEF SendHelloResponse, Labels
  <2>2. /\ progress' \in [Nodes -> Entries]
        /\ progress[n] = NoProgress => progress'[n] = NoProgress
        /\ progress[n] # NoProgress => progress'[n] # NoProgress /\ progress'[n].sent
        /\ \A k \in Nodes \ {n} : progress'[k] = progress[k]
    BY <1>1, <1>7, HelloAssumption DEF SendHelloResponse, TypeOK, Entries
  <2>3. TypeOK'
    BY <1>1, <1>2, <1>5, <2>1, <2>2, SendEffect DEF TypeOK, Wires, Labels
  <2>4. Greeted(n) => Greeted(n)'
    BY <1>2, <2>2 DEF Greeted, Ready
  <2>5. Keeps
    BY <1>2, <2>2, <2>4 DEF Keeps
  <2>6. ProgressOK(n)' /\ HandlerOK(n)'
    BY <1>3, <2>1, <2>2 DEF ProgressOK, HandlerOK
  <2>7. \A k \in Nodes : progress'[k] = progress[k] \/ progress'[k] # NoProgress
    BY <2>2
  <2> QED BY <1>2, <1>4, <1>6, <2>1, <2>2, <2>3, <2>5, <2>6, <2>7, Preserved
<1>8. CASE SendHelloFinalize(n)
  <2>1. /\ pc' \in [Nodes -> Labels] /\ pc[n] # "respond"
        /\ pc'[n] = IF pc[n] = "echo" THEN "finish" ELSE "idle"
        /\ \A k \in Nodes \ {n} : pc'[k] = pc[k]
    BY <1>1, <1>8, GotoEffect DEF SendHelloFinalize, Labels
  <2>2. progress' = progress
    BY <1>8 DEF SendHelloFinalize
  <2>3. TypeOK'
    BY <1>1, <1>2, <1>5, <2>1, <2>2, SendEffect DEF TypeOK, Wires, Labels
  <2>4. Keeps
    BY <1>2, <2>2 DEF Keeps
  <2>5. HandlerOK(n)'
    BY <1>1, <1>2, <1>3, <2>1, TwoNodes DEF HandlerOK, AllReady, Ready
  <2> QED BY <1>2, <1>4, <1>6, <2>1, <2>2, <2>3, <2>4, <2>5, Preserved
<1> QED BY <1>7, <1>8

\* FinalizeHandshake, and the peer is added.
LEMMA FinishPreserves ==
  ASSUME HelloInv, NEW n \in Nodes, FinalizeHandshake(n) \/ AddPeer(n)
  PROVE  HelloInv'
<1>1. TypeOK /\ EventInv /\ HandlerOK(n)
  BY DEF HelloInv, HandlerInv
<1>2. UNCHANGED <<chain, faults, link, prepared, arriving, inbox, events, appEvents,
                  opened, cut, app, auto, known, calls, tasks, loop, robbed>>
  BY DEF FinalizeHandshake, AddPeer, dialVars, taskVars
<1>3. Same /\ Same'
  BY <1>1, <1>2 DEF HandlerOK, FinalizeHandshake, AddPeer, Same
<1>4. CASE FinalizeHandshake(n)
  <2>1. /\ pc' \in [Nodes -> Labels] /\ pc[n] = "finish"
        /\ pc'[n] = IF conn[n] = "connected" THEN "addPeer" ELSE "idle"
        /\ \A k \in Nodes \ {n} : pc'[k] = pc[k]
    BY <1>1, <1>4, GotoEffect DEF FinalizeHandshake, Labels
  <2>2. /\ conn' \in [Nodes -> Conns] /\ end' \in [Nodes -> 0 .. MaxStreams]
        /\ armed' \in SUBSET Nodes
        /\ \A k \in Nodes : \/ conn'[k] = conn[k]
                            \/ k = n /\ conn[n] = "connected" /\ conn'[n] = "established"
    BY <1>1, <1>4, HelloAssumption DEF FinalizeHandshake, TypeOK, Conns
  <2>3. progress' = progress /\ peers' = peers
    BY <1>4 DEF FinalizeHandshake
  <2>4. TypeOK'
    BY <1>1, <1>2, <1>4, <2>1, <2>2, <2>3, CloseEffect
       DEF FinalizeHandshake, TypeOK, Wires, Labels, Conns
  <2>5. Keeps
    BY <1>2, <2>2, <2>3 DEF Keeps
  <2>6. EventInv'
    BY <1>1, <1>2, <2>2, EventKept
  <2>7. \A k \in Nodes, i \in Ids, m \in Messages :
          Contains(wire[k][i], m)' => Contains(wire[k][i], m)
    BY <1>1, <1>4, CloseEffect DEF FinalizeHandshake
  <2>8. conn[n] = "connected" => AllReady /\ AllReady'
    <3>1. conn[n] = "connected" => AllReady
      BY <1>1, <2>1, TwoNodes DEF HandlerOK, AllReady
    <3> QED BY <1>2, <3>1 DEF AllReady, Ready
  <2>9. HandlerOK(n)'
    BY <1>3, <2>1, <2>8 DEF HandlerOK
  <2> QED BY <1>2, <1>3, <2>1, <2>2, <2>3, <2>4, <2>5, <2>6, <2>7, <2>8, <2>9, Preserved
<1>5. CASE AddPeer(n)
  <2>1. /\ pc' \in [Nodes -> Labels] /\ pc[n] = "addPeer" /\ pc'[n] = "idle"
        /\ \A k \in Nodes \ {n} : pc'[k] = pc[k]
    BY <1>1, <1>5, GotoEffect DEF AddPeer, Labels
  <2>2. /\ progress' \in [Nodes -> Entries] /\ progress'[n] = NoProgress
        /\ \A k \in Nodes \ {n} : progress'[k] = progress[k]
        /\ peers' \in [Nodes -> BOOLEAN]
    BY <1>1, <1>5 DEF AddPeer, TypeOK, Entries
  <2>3. UNCHANGED <<conn, end, reading, wire, armed>>
    BY <1>5 DEF AddPeer, taskVars
  <2>4. TypeOK'
    BY <1>1, <1>2, <2>1, <2>2, <2>3 DEF TypeOK, Labels
  <2>5. Ready(n) /\ Ready(n)'
    BY <1>1, <1>2, <2>1 DEF HandlerOK, AllReady, Ready
  <2>6. Greeted(n) => Greeted(n)'
    BY <1>2, <2>3, <2>5 DEF Greeted
  <2>7. Keeps
    BY <1>2, <2>2, <2>3, <2>6 DEF Keeps
  <2>8. EventInv'
    BY <1>1, <1>2, <2>3, EventKept
  <2>9. ConnectOK(n)
    BY DEF HelloInv, ConnectInv
  <2>10. ProgressOK(n)' /\ HandlerOK(n)' /\ ConnectOK(n)'
    BY <1>2, <2>1, <2>2, <2>3, <2>5, <2>9 DEF ProgressOK, HandlerOK, ConnectOK
  <2> QED BY <1>2, <1>3, <2>1, <2>2, <2>3, <2>4, <2>7, <2>8, <2>10, Preserved
<1> QED BY <1>4, <1>5

-----------------------------------------------------------------------------
(***************************************************************************)
(* The theorems.                                                           *)
(***************************************************************************)

\* Nothing was sent and nobody has dialled.
LEMMA HelloInitially == Init => HelloInv
<1> SUFFICES ASSUME Init PROVE HelloInv
  OBVIOUS
<1>1. TypeOK
  <2>1. Quiet \in Wires /\ <<>> \in Seq(Messages)
    BY DEF Quiet, Wires
  <2>2. wire \in [Nodes -> [Ids -> Seq(Messages)]] /\ inbox \in [Nodes -> Seq(Messages)]
    BY <2>1 DEF Init, Wires
  <2>3. /\ faults \in 0 .. MaxFaults /\ opened \in 0 .. MaxStreams
        /\ calls \in 0 .. MaxCalls /\ end \in [Nodes -> 0 .. MaxStreams]
        /\ events \in [Nodes -> Nat] /\ appEvents \in [Nodes -> Nat]
        /\ tasks \in [Nodes -> [Stages -> Nat]]
    BY HelloAssumption DEF Init
  <2>4. /\ chain \in [Nodes -> Chains] /\ progress \in [Nodes -> Entries]
        /\ prepared \in [Nodes -> BOOLEAN] /\ peers \in [Nodes -> BOOLEAN]
        /\ link \in BOOLEAN
    BY DEF Init, Chains, Entries
  <2>5. /\ reading \in [Nodes -> SUBSET Ids] /\ arriving \in [Nodes -> SUBSET Ids]
        /\ auto \in SUBSET Nodes /\ known \in SUBSET Nodes /\ armed \in SUBSET Nodes
        /\ loop \in SUBSET Nodes /\ cut \in SUBSET Nodes /\ robbed \in SUBSET Nodes
    BY DEF Init
  <2>6. /\ conn \in [Nodes -> {"disconnected", "connected", "established", "cooldown",
                               "reconnecting"}]
        /\ pc \in [Nodes -> {"idle", "respond", "finalize", "echo", "finish", "addPeer",
                             "disconnect"}]
        /\ app \in [Nodes -> {"idle", "connect", "hello"}]
    BY DEF Init
  <2> QED BY <2>2, <2>3, <2>4, <2>5, <2>6 DEF TypeOK
<1>2. WireInv /\ InboxInv
  BY <1>1, CloseEffect, ContainsNothing DEF Init, WireInv, InboxInv
<1>3. ProgressInv /\ HandlerInv /\ EstablishedInv /\ ConnectInv /\ PreparedInv
  BY DEF Init, ProgressInv, ProgressOK, HandlerInv, HandlerOK, EstablishedInv, ConnectInv,
         ConnectOK, PreparedInv
<1>4. EventInv
  BY DEF Init, EventInv, EventOK, Stages
<1> QED BY <1>1, <1>2, <1>3, <1>4 DEF HelloInv

\* What every message, handler and established peer of the handshake relies on
\* holds in every reachable state, whatever is lost, refused, reset or repeated.
THEOREM HelloCorrect == Spec => []HelloInv
<1>1. HelloInv /\ [Next]_vars => HelloInv'
  <2> SUFFICES ASSUME HelloInv, [Next]_vars PROVE HelloInv'
    OBVIOUS
  <2>1. CASE UNCHANGED vars
    <3>1. UNCHANGED <<chain, faults, link, conn, progress, prepared, peers, end, reading,
                      arriving, wire, inbox, events, appEvents, pc, opened, cut, app, auto,
                      known, calls, armed, tasks, loop, robbed>>
      BY <2>1 DEF vars, dialVars, taskVars
    <3>2. TypeOK /\ TypeOK' /\ EventInv
      BY <3>1 DEF HelloInv, TypeOK
    <3>3. EventInv'
      BY <3>1, <3>2, EventKept
    <3> QED BY <3>1, <3>2, <3>3, ManagerPreserves
  <2>2. CASE Environment
    BY <2>2, EnvironmentPreserves
  <2>3. ASSUME NEW n \in Nodes, Step(n) PROVE HelloInv'
    <3>1. CASE HandleMessages(n)
      BY <3>1, MismatchPreserves, HelloPreserves, FinalizePreserves, AnswersPreserve,
         FinishPreserves DEF HandleMessages
    <3> QED BY <2>3, <3>1, StreamsPreserve, DiallingPreserves, TimersPreserve,
               ReconnectionPreserves, EventsPreserve DEF Step
  <2> QED BY <2>1, <2>2, <2>3 DEF Next
<1> QED BY <1>1, HelloInitially, PTL DEF Spec

\* FinalizeHandshake's contract: when a node is Established, every node without a
\* Disconnected event has called PrepareStreams.
THEOREM EstablishedIsPrepared == Spec => []EstablishedMeansPrepared
<1>1. HelloInv => EstablishedMeansPrepared
  BY DEF HelloInv, EstablishedInv, AllReady, Ready, EstablishedMeansPrepared
<1> QED BY <1>1, HelloCorrect, PTL

\* No node of another chain is ever Established or counted as a peer.
THEOREM ChainsAreKeptApart == Spec => []NoCrossChainPeers
<1>1. HelloInv => NoCrossChainPeers
  BY DEF HelloInv, EstablishedInv, Same, NoCrossChainPeers
<1> QED BY <1>1, HelloCorrect, PTL
=============================================================================
