------------------------------ MODULE PeerStats ------------------------------
(***************************************************************************)
(* The per-peer statistics of a Node (stats.go and the peerStats map of    *)
(* node.go).  The map is guarded by peerStatsMu; each tracker has a lock   *)
(* of its own.  A caller takes the tracker out of the map under the first  *)
(* lock and records in it later under the second, so that the hourly       *)
(* cleanup may drop the tracker from the map in between.                   *)
(*                                                                         *)
(* Callers are the goroutines inside Node.SendCtx and the forwarder of     *)
(* incoming messages; MessagePath adds the steps that start their calls.   *)
(***************************************************************************)
EXTENDS Naturals, FiniteSets

CONSTANTS
  Peers,                            \* remote peers
  Callers,                          \* goroutines that record statistics
  None,                             \* no peer
  NonceExhaustionWarningThreshold,  \* stats.go: 2^40 messages
  MaxTrackers                       \* bound: trackers ever created

ASSUME StatsAssumption ==
  /\ NonceExhaustionWarningThreshold \in Nat \ {0}
  /\ MaxTrackers \in Nat
  /\ None \notin Peers
  /\ IsFiniteSet(Callers)

VARIABLES
  peerStats,    \* Node.peerStats: the tracker of each peer, 0 for nil
  trackers,     \* what the trackers hold, in the order of their creation
  created,      \* the number of trackers created so far
  calls,        \* the call each caller is in
  cleaner,      \* cleanupStalePeerStats: it waits, holds peerStatsMu, or ended
  sweep,        \* peers the running cleanup has not visited
  doomed,       \* the peer whose tracker the cleanup found stale, or None
  stopped,      \* Node.ctx is cancelled
  warnings,     \* times each tracker's onNonceExhaustion was called
  booked,       \* messages of each kind and peer that a call has to count
  forgotten     \* peers that lost a tracker to the cleanup

statsVars == <<peerStats, trackers, created, calls, cleaner, sweep, doomed,
               stopped, warnings, booked, forgotten>>

Kinds == {"sent", "received"}
TrackerIds == 1 .. MaxTrackers
Idle == [pc |-> "idle", peer |-> None, kind |-> "sent", tracker |-> 0]
Fresh == [sent |-> 0, received |-> 0, warned |-> FALSE]

StatsInit ==
  /\ peerStats = [p \in Peers |-> 0]
  /\ trackers = [t \in TrackerIds |-> Fresh]
  /\ created = 0
  /\ calls = [c \in Callers |-> Idle]
  /\ cleaner = "waits"
  /\ sweep = {}
  /\ doomed = None
  /\ stopped = FALSE
  /\ warnings = [t \in TrackerIds |-> 0]
  /\ booked = [k \in Kinds |-> [p \in Peers |-> 0]]
  /\ forgotten = {}

-----------------------------------------------------------------------------
(***************************************************************************)
(* A call: getOrCreatePeerStats, then Record... on the tracker it got.     *)
(***************************************************************************)

\* The call that counts a message of kind k exchanged with p begins.
Begins(c, k, p) ==
  /\ calls' = [calls EXCEPT ![c] = [pc |-> "create", peer |-> p, kind |-> k, tracker |-> 0]]
  /\ booked' = [booked EXCEPT ![k][p] = @ + 1]

\* Mutant: the tracker is created outside the lock that looked it up.
GetOrCreateUnlocked(c) ==
  /\ calls[c].pc = "create"
  /\ cleaner # "sweeps"
  /\ created < MaxTrackers
  /\ created' = created + 1
  /\ peerStats' = [peerStats EXCEPT ![calls[c].peer] = created + 1]
  /\ calls' = [calls EXCEPT ![c].pc = "record", ![c].tracker = created + 1]
  /\ UNCHANGED <<trackers, cleaner, sweep, doomed, stopped,
                 warnings, booked, forgotten>>

\* getOrCreatePeerStats: look up and create under peerStatsMu.
GetOrCreate(c) ==
  LET p == calls[c].peer
      t == IF peerStats[p] = 0 THEN created + 1 ELSE peerStats[p]
  IN /\ calls[c].pc = "create"
     /\ cleaner # "sweeps"
     /\ t <= MaxTrackers
     /\ peerStats' = [peerStats EXCEPT ![p] = t]
     /\ created' = IF peerStats[p] = 0 THEN t ELSE created
     /\ calls' = [calls EXCEPT ![c].pc = "record", ![c].tracker = t]
     /\ UNCHANGED <<trackers, cleaner, sweep, doomed, stopped,
                    warnings, booked, forgotten>>

\* Mutant: the flag is read under the lock and set by the callback.
RecordMessageSentWarnsLate(c) ==
  LET t == calls[c].tracker
      n == trackers[t].sent + 1
      shouldWarn == ~trackers[t].warned /\ n >= NonceExhaustionWarningThreshold
  IN /\ calls[c].pc = "record" /\ calls[c].kind = "sent"
     /\ trackers' = [trackers EXCEPT ![t].sent = n]
     /\ calls' = [calls EXCEPT ![c] = IF shouldWarn THEN [@ EXCEPT !.pc = "warn"] ELSE Idle]
     /\ UNCHANGED <<peerStats, created, cleaner, sweep, doomed, stopped, warnings, booked, forgotten>>

\* RecordMessageSent: one more message and, once per tracker, the decision
\* to warn, under the tracker's lock; the callback runs after the unlock.
RecordMessageSent(c) ==
  LET t == calls[c].tracker
      n == trackers[t].sent + 1
      shouldWarn == ~trackers[t].warned /\ n >= NonceExhaustionWarningThreshold
  IN /\ calls[c].pc = "record" /\ calls[c].kind = "sent"
     /\ trackers' = [trackers EXCEPT ![t].sent = n, ![t].warned = IF shouldWarn THEN TRUE ELSE @]
     /\ calls' = [calls EXCEPT ![c] = IF shouldWarn THEN [@ EXCEPT !.pc = "warn"] ELSE Idle]
     /\ UNCHANGED <<peerStats, created, cleaner, sweep, doomed, stopped, warnings, booked, forgotten>>

\* onNonceExhaustion, outside the lock.
Warn(c) ==
  /\ calls[c].pc = "warn"
  /\ warnings' = [warnings EXCEPT ![calls[c].tracker] = @ + 1]
  /\ calls' = [calls EXCEPT ![c] = Idle]
  /\ UNCHANGED <<peerStats, trackers, created, cleaner, sweep, doomed,
                 stopped, booked, forgotten>>

\* RecordMessageReceived; the forwarder goes on to hand the message over.
RecordMessageReceived(c) ==
  /\ calls[c].pc = "record" /\ calls[c].kind = "received"
  /\ trackers' = [trackers EXCEPT ![calls[c].tracker].received = @ + 1]
  /\ calls' = [calls EXCEPT ![c].pc = "send"]
  /\ UNCHANGED <<peerStats, created, cleaner, sweep, doomed, stopped, warnings, booked, forgotten>>

-----------------------------------------------------------------------------
(***************************************************************************)
(* cleanupStalePeerStats.  It holds peerStatsMu for the whole pass, but a  *)
(* tracker's own lock only inside LastActivity, and reads the connection's *)
(* state before that: a record, or a handshake that completes, may come    *)
(* between the look at a tracker and its deletion.                         *)
(***************************************************************************)

\* A tick.  Bound: as many trackers are left as there are peers.
CleanupTick ==
  /\ cleaner = "waits"
  /\ created + Cardinality(Peers) <= MaxTrackers
  /\ cleaner' = "sweeps"
  /\ sweep' = {p \in Peers : peerStats[p] # 0}
  /\ UNCHANGED <<peerStats, trackers, created, calls, doomed, stopped, warnings, booked, forgotten>>

\* One peer: skipped when it is connected or when its LastActivity is less
\* than staleThreshold ago.  Both may be either way at any time: no code calls
\* RecordConnectionStart, so that LastActivity is the time of the last message
\* counted, and the zero time in a tracker that was just created.
CleanupLooks(p) ==
  /\ cleaner = "sweeps" /\ doomed = None
  /\ p \in sweep
  /\ sweep' = sweep \ {p}
  /\ doomed' \in {None, p}
  /\ UNCHANGED <<peerStats, trackers, created, calls, cleaner, stopped,
                 warnings, booked, forgotten>>

CleanupDeletes ==
  /\ doomed # None
  /\ peerStats' = [peerStats EXCEPT ![doomed] = 0]
  /\ forgotten' = forgotten \cup {doomed}
  /\ doomed' = None
  /\ UNCHANGED <<trackers, created, calls, cleaner, sweep, stopped, warnings, booked>>

CleanupUnlocks ==
  /\ cleaner = "sweeps" /\ sweep = {} /\ doomed = None
  /\ cleaner' = "waits"
  /\ UNCHANGED <<peerStats, trackers, created, calls, sweep, doomed,
                 stopped, warnings, booked, forgotten>>

CleanupEnds ==
  /\ cleaner = "waits" /\ stopped
  /\ cleaner' = "done"
  /\ UNCHANGED <<peerStats, trackers, created, calls, sweep, doomed,
                 stopped, warnings, booked, forgotten>>

CleanupStep ==
  \/ CleanupTick
  \/ \E p \in Peers : CleanupLooks(p)
  \/ CleanupDeletes
  \/ CleanupUnlocks
  \/ CleanupEnds

CallStep(c) == GetOrCreate(c) \/ RecordMessageSent(c) \/ Warn(c) \/ RecordMessageReceived(c)

StatsNext ==
  \/ \E c \in Callers : CallStep(c)
  \/ CleanupStep

-----------------------------------------------------------------------------

StatsTypeOK ==
  /\ peerStats \in [Peers -> 0 .. MaxTrackers]
  /\ trackers \in [TrackerIds -> [sent : Nat, received : Nat, warned : BOOLEAN]]
  /\ created \in 0 .. MaxTrackers
  /\ calls \in [Callers -> [pc : {"idle", "create", "record", "warn", "send", "done"},
                            peer : Peers \cup {None}, kind : Kinds, tracker : 0 .. MaxTrackers]]
  /\ cleaner \in {"waits", "sweeps", "done"}
  /\ sweep \subseteq Peers
  /\ doomed \in Peers \cup {None}
  /\ stopped \in BOOLEAN
  /\ warnings \in [TrackerIds -> Nat]
  /\ booked \in [Kinds -> [Peers -> Nat]]
  /\ forgotten \subseteq Peers

\* The callers about to call onNonceExhaustion of tracker t.
Warning(t) == {c \in Callers : calls[c].pc = "warn" /\ calls[c].tracker = t}

\* Tracker t has warned, or one caller is about to, exactly when t has
\* counted the threshold; and it never warns twice.
WarnedOnceBy(t) ==
  \/ /\ trackers[t].sent < NonceExhaustionWarningThreshold
     /\ warnings[t] = 0 /\ Warning(t) = {}
  \/ /\ trackers[t].sent >= NonceExhaustionWarningThreshold
     /\ \/ warnings[t] = 1 /\ Warning(t) = {}
        \/ warnings[t] = 0 /\ \E c \in Callers : Warning(t) = {c}

\* RecordMessageSent releases the tracker's lock before it calls the callback
\* (stats.go), and many goroutines send at once: the nonce exhaustion warning
\* of a tracker is nevertheless given exactly once.
WarnedOnce == \A t \in TrackerIds : WarnedOnceBy(t)

\* The calls that have yet to count a message of kind k with p.
Uncounted(k, p) ==
  {c \in Callers : calls[c].pc \in {"create", "record"} /\ calls[c].kind = k /\ calls[c].peer = p}

\* PeerStatistics and MessagesSent read the tracker in the map: it holds every
\* message of the peer but those whose call is still under way, whichever
\* callers raced to create it, unless the cleanup has ever dropped a tracker
\* of the peer.
CountsEveryMessage ==
  \A p \in Peers \ forgotten, k \in Kinds :
    booked[k][p] = Cardinality(Uncounted(k, p))
                   + (IF peerStats[p] = 0 THEN 0 ELSE trackers[peerStats[p]][k])
=============================================================================
