-------------------------- MODULE MessagePathProofs --------------------------
(***************************************************************************)
(* Proofs about PeerStats and MessagePath: the warning of a tracker is     *)
(* given once, the tracker in the map counts every message, the path       *)
(* implements a lossy queue and accounts for what it loses, for any peers, *)
(* senders, streams and bounds.                                            *)
(***************************************************************************)
EXTENDS MessagePath, FiniteSetTheorems, SequenceTheorems, TLAPS

(***************************************************************************)
(* The invariant of the statistics.                                        *)
(***************************************************************************)

Call == [pc : {"idle", "create", "record", "warn", "send", "done"},
         peer : Peers \cup {None}, kind : Kinds, tracker : 0 .. MaxTrackers]

\* What a call holds at each of its points.
CallOK(c) ==
  /\ calls[c].pc \in {"create", "record", "warn", "send"} => calls[c].peer \in Peers
  /\ calls[c].pc \in {"record", "warn"} => calls[c].tracker \in 1 .. created
  /\ calls[c].pc = "record" =>
       /\ calls[c].peer \notin forgotten => calls[c].tracker = peerStats[calls[c].peer]
       /\ \A p \in Peers : peerStats[p] = calls[c].tracker => p = calls[c].peer

\* A tracker belongs to one peer, and one that was not created is fresh.
TrackerInv ==
  /\ \A p \in Peers : peerStats[p] <= created
  /\ \A p, q \in Peers : peerStats[p] = peerStats[q] /\ peerStats[p] # 0 => p = q
  /\ \A t \in TrackerIds : t > created => trackers[t] = Fresh

WarnedInv ==
  /\ WarnedOnce
  /\ \A t \in TrackerIds :
       trackers[t].warned <=> trackers[t].sent >= NonceExhaustionWarningThreshold

StatsInv ==
  /\ StatsTypeOK
  /\ \A c \in Callers : CallOK(c)
  /\ TrackerInv
  /\ WarnedInv
  /\ CountsEveryMessage

LEMMA StatsInitially == StatsInit => StatsInv
<1> SUFFICES ASSUME StatsInit PROVE StatsInv
  OBVIOUS
<1>1. StatsTypeOK
  <2>1. /\ peerStats \in [Peers -> 0 .. MaxTrackers] /\ created \in 0 .. MaxTrackers
        /\ warnings \in [TrackerIds -> Nat] /\ booked \in [Kinds -> [Peers -> Nat]]
    BY StatsAssumption DEF StatsInit
  <2>2. trackers \in [TrackerIds -> [sent : Nat, received : Nat, warned : BOOLEAN]]
    BY DEF StatsInit, Fresh
  <2>3. calls \in [Callers -> Call]
    BY StatsAssumption DEF StatsInit, Idle, Call, Kinds
  <2> QED BY <2>1, <2>2, <2>3 DEF StatsInit, StatsTypeOK, Call
<1>2. \A c \in Callers : CallOK(c)
  BY DEF StatsInit, CallOK, Idle
<1>3. TrackerInv
  BY DEF StatsInit, TrackerInv, Fresh, TrackerIds
<1>4. WarnedInv
  BY StatsAssumption DEF StatsInit, WarnedInv, WarnedOnce, WarnedOnceBy, Warning, Fresh, Idle
<1>5. CountsEveryMessage
  <2>1. \A k \in Kinds, p \in Peers : Uncounted(k, p) = {}
    BY DEF StatsInit, Uncounted, Idle
  <2>2. \A k \in Kinds, p \in Peers : booked[k][p] = 0 /\ peerStats[p] = 0
    BY DEF StatsInit
  <2> QED BY <2>1, <2>2, FS_EmptySet DEF CountsEveryMessage
<1> QED BY <1>1, <1>2, <1>3, <1>4, <1>5 DEF StatsInv

\* The calls that have yet to count are finitely many.
LEMMA UncountedFinite ==
  ASSUME NEW k, NEW p
  PROVE  IsFiniteSet(Uncounted(k, p)) /\ Cardinality(Uncounted(k, p)) \in Nat
<1>1. Uncounted(k, p) \in SUBSET Callers
  BY DEF Uncounted
<1>2. IsFiniteSet(Uncounted(k, p))
  BY <1>1, FS_Subset, StatsAssumption
<1> QED BY <1>2, FS_CardinalityType

\* Nothing of the statistics changes, except that the node may stop.
LEMMA StatsUnchanged ==
  ASSUME StatsInv, stopped' \in BOOLEAN,
         UNCHANGED <<peerStats, trackers, created, calls, cleaner, sweep, doomed, warnings,
                     booked, forgotten>>
  PROVE  StatsInv'
<1>1. StatsTypeOK' /\ (\A c \in Callers : CallOK(c))' /\ TrackerInv'
  BY DEF StatsInv, StatsTypeOK, CallOK, TrackerInv
<1>2. WarnedInv'
  BY DEF StatsInv, WarnedInv, WarnedOnce, WarnedOnceBy, Warning
<1>3. CountsEveryMessage'
  BY DEF StatsInv, CountsEveryMessage, Uncounted
<1> QED BY <1>1, <1>2, <1>3 DEF StatsInv

\* What is left of a call leaves calls as it is, but for the caller's entry.
LEMMA CallEffect ==
  ASSUME StatsTypeOK, NEW c \in Callers, NEW r \in Call, calls' = [calls EXCEPT ![c] = r]
  PROVE  /\ calls' \in [Callers -> Call]
         /\ calls'[c] = r
         /\ \A d \in Callers \ {c} : calls'[d] = calls[d]
BY DEF StatsTypeOK, Call

\* A call begins.
LEMMA BeginsPreserves ==
  ASSUME StatsInv, NEW c \in Callers, NEW k \in Kinds, NEW p \in Peers,
         calls[c].pc = "idle", Begins(c, k, p),
         UNCHANGED <<peerStats, trackers, created, cleaner, sweep, doomed, stopped, warnings,
                     forgotten>>
  PROVE  StatsInv'
<1> DEFINE r == [pc |-> "create", peer |-> p, kind |-> k, tracker |-> 0]
<1>1. r \in Call
  BY StatsAssumption DEF Call
<1>2. StatsTypeOK /\ TrackerInv /\ WarnedInv /\ CountsEveryMessage
  BY DEF StatsInv
<1>3. /\ calls' \in [Callers -> Call] /\ calls'[c] = r
      /\ \A d \in Callers \ {c} : calls'[d] = calls[d]
  BY <1>1, <1>2, CallEffect DEF Begins
<1>4. /\ booked' \in [Kinds -> [Peers -> Nat]]
      /\ booked'[k][p] = booked[k][p] + 1
      /\ \A l \in Kinds, q \in Peers : l # k \/ q # p => booked'[l][q] = booked[l][q]
  BY <1>2 DEF Begins, StatsTypeOK
<1>5. StatsTypeOK'
  BY <1>2, <1>3, <1>4 DEF StatsTypeOK, Call
<1>6. (\A d \in Callers : CallOK(d))' /\ TrackerInv'
  BY <1>2, <1>3 DEF StatsInv, CallOK, TrackerInv
<1>7. \A t \in TrackerIds : Warning(t)' = Warning(t)
  BY <1>3 DEF Warning
<1>8. WarnedInv'
  BY <1>2, <1>7 DEF WarnedInv, WarnedOnce, WarnedOnceBy
<1>9. CountsEveryMessage'
  <2> SUFFICES ASSUME NEW q \in Peers \ forgotten, NEW l \in Kinds
               PROVE  booked'[l][q] = Cardinality(Uncounted(l, q)')
                        + (IF peerStats[q] = 0 THEN 0 ELSE trackers[peerStats[q]][l])
    BY DEF CountsEveryMessage
  <2>1. booked[l][q] = Cardinality(Uncounted(l, q))
                        + (IF peerStats[q] = 0 THEN 0 ELSE trackers[peerStats[q]][l])
    BY <1>2 DEF CountsEveryMessage
  <2>2. c \notin Uncounted(l, q)
    BY DEF Uncounted
  <2>3. CASE l = k /\ q = p
    <3>1. Uncounted(l, q)' = Uncounted(l, q) \cup {c}
      BY <1>3, <2>3 DEF Uncounted
    <3>2. Cardinality(Uncounted(l, q)') = Cardinality(Uncounted(l, q)) + 1
      BY <2>2, <3>1, UncountedFinite, FS_AddElement
    <3>3. (IF peerStats[q] = 0 THEN 0 ELSE trackers[peerStats[q]][l]) \in Nat
      BY <1>2 DEF StatsTypeOK, TrackerIds, Kinds
    <3> QED BY <1>4, <2>1, <2>3, <3>2, <3>3, UncountedFinite
  <2>4. CASE ~(l = k /\ q = p)
    <3>1. Uncounted(l, q)' = Uncounted(l, q)
      BY <1>3, <2>2, <2>4 DEF Uncounted
    <3> QED BY <1>4, <2>1, <2>4, <3>1
  <2> QED BY <2>3, <2>4
<1> QED BY <1>5, <1>6, <1>8, <1>9 DEF StatsInv

\* A call that has counted goes on or ends.
LEMMA CallEnds ==
  ASSUME StatsInv, NEW c \in Callers, NEW r \in Call,
         calls[c].pc \in {"idle", "send"}, r.pc \in {"idle", "done"},
         calls' = [calls EXCEPT ![c] = r],
         UNCHANGED <<peerStats, trackers, created, cleaner, sweep, doomed, stopped, warnings,
                     booked, forgotten>>
  PROVE  StatsInv'
<1>1. StatsTypeOK /\ TrackerInv /\ WarnedInv /\ CountsEveryMessage
  BY DEF StatsInv
<1>2. /\ calls' \in [Callers -> Call] /\ calls'[c] = r
      /\ \A d \in Callers \ {c} : calls'[d] = calls[d]
  BY <1>1, CallEffect
<1>3. StatsTypeOK' /\ TrackerInv'
  BY <1>1, <1>2 DEF StatsTypeOK, Call, TrackerInv
<1>4. (\A d \in Callers : CallOK(d))'
  BY <1>2 DEF StatsInv, CallOK
<1>5. /\ \A t \in TrackerIds : Warning(t)' = Warning(t)
      /\ \A k \in Kinds, p \in Peers : Uncounted(k, p)' = Uncounted(k, p)
  BY <1>2 DEF Warning, Uncounted
<1>6. WarnedInv'
  BY <1>1, <1>5 DEF WarnedInv, WarnedOnce, WarnedOnceBy
<1>7. CountsEveryMessage'
  BY <1>1, <1>5 DEF CountsEveryMessage
<1> QED BY <1>3, <1>4, <1>6, <1>7 DEF StatsInv

LEMMA GetOrCreatePreserves ==
  ASSUME StatsInv, NEW c \in Callers, GetOrCreate(c)
  PROVE  StatsInv'
<1>1. StatsTypeOK /\ TrackerInv /\ WarnedInv /\ CountsEveryMessage /\ CallOK(c)
  BY DEF StatsInv
<1> DEFINE p == calls[c].peer
           t == IF peerStats[p] = 0 THEN created + 1 ELSE peerStats[p]
           r == [calls[c] EXCEPT !.pc = "record", !.tracker = t]
<1>2. /\ p \in Peers /\ t \in TrackerIds /\ created' \in 0 .. MaxTrackers
      /\ created <= created' /\ t <= created'
      /\ calls[c] \in Call /\ calls[c].pc = "create"
  BY <1>1, StatsAssumption DEF GetOrCreate, CallOK, StatsTypeOK, TrackerIds, TrackerInv, Call
<1>3. r \in Call /\ r.pc = "record" /\ r.peer = p /\ r.tracker = t /\ r.kind = calls[c].kind
  <2> HIDE DEF t
  <2>1. t \in 0 .. MaxTrackers
    BY <1>2, StatsAssumption DEF TrackerIds
  <2> QED BY <1>2, <2>1 DEF Call
<1>4. calls' = [calls EXCEPT ![c] = r]
  BY <1>1 DEF GetOrCreate, StatsTypeOK
<1>5. /\ calls' \in [Callers -> Call] /\ calls'[c] = r
      /\ \A d \in Callers \ {c} : calls'[d] = calls[d]
  BY <1>1, <1>3, <1>4, CallEffect
<1>6. /\ peerStats' \in [Peers -> 0 .. MaxTrackers] /\ peerStats'[p] = t
      /\ \A q \in Peers \ {p} : peerStats'[q] = peerStats[q]
  BY <1>1, <1>2 DEF GetOrCreate, StatsTypeOK, TrackerIds
<1>7. UNCHANGED <<trackers, cleaner, sweep, doomed, stopped, warnings, booked, forgotten>>
  BY DEF GetOrCreate
<1>8. \/ peerStats[p] # 0 /\ t = peerStats[p] /\ created' = created
      \/ peerStats[p] = 0 /\ t = created + 1 /\ created' = created + 1
  BY DEF GetOrCreate
<1> HIDE DEF t, r
<1>9. StatsTypeOK'
  BY <1>1, <1>2, <1>5, <1>6, <1>7 DEF StatsTypeOK, Call
<1>10. TrackerInv'
  <2>1. created \in Nat /\ \A q \in Peers : peerStats[q] \in Nat /\ peerStats[q] <= created
    BY <1>1, StatsAssumption DEF TrackerInv, StatsTypeOK
  <2>2. \A q \in Peers : peerStats'[q] <= created'
    BY <1>2, <1>6, <1>8, <2>1
  <2>3. \A q \in Peers \ {p} : peerStats'[q] # 0 => peerStats'[q] # t
    BY <1>1, <1>2, <1>6, <1>8, <2>1 DEF TrackerInv
  <2>4. \A q, u \in Peers : peerStats'[q] = peerStats'[u] /\ peerStats'[q] # 0 => q = u
    BY <1>1, <1>2, <1>6, <2>3 DEF TrackerInv
  <2>5. \A u \in TrackerIds : u > created' => trackers'[u] = Fresh
    BY <1>1, <1>7, <1>8, <2>1 DEF TrackerInv, TrackerIds
  <2> QED BY <2>2, <2>4, <2>5 DEF TrackerInv
<1>11. (\A d \in Callers : CallOK(d))'
  <2> SUFFICES ASSUME NEW d \in Callers PROVE CallOK(d)'
    OBVIOUS
  <2>1. CallOK(d)
    BY DEF StatsInv
  <2>2. CASE d = c
    BY <1>2, <1>3, <1>5, <1>10, <2>2, <1>6 DEF CallOK, TrackerInv, TrackerIds, p
  <2>3. CASE d # c
    BY <1>1, <1>2, <1>5, <1>6, <1>7, <1>8, <2>1, <2>3 DEF CallOK, StatsTypeOK
  <2> QED BY <2>2, <2>3
<1>12. /\ \A u \in TrackerIds : Warning(u)' = Warning(u)
       /\ \A k \in Kinds, q \in Peers : Uncounted(k, q)' = Uncounted(k, q)
  BY <1>2, <1>3, <1>5 DEF Warning, Uncounted
<1>13. WarnedInv'
  BY <1>1, <1>7, <1>12 DEF WarnedInv, WarnedOnce, WarnedOnceBy
<1>14. CountsEveryMessage'
  <2> SUFFICES ASSUME NEW q \in Peers \ forgotten, NEW k \in Kinds
               PROVE  (IF peerStats'[q] = 0 THEN 0 ELSE trackers[peerStats'[q]][k])
                        = (IF peerStats[q] = 0 THEN 0 ELSE trackers[peerStats[q]][k])
    BY <1>1, <1>7, <1>12 DEF CountsEveryMessage
  <2>1. CASE q # p
    BY <1>6, <2>1
  <2>2. CASE q = p /\ peerStats[p] # 0
    BY <1>6, <1>8, <2>2
  <2>3. CASE q = p /\ peerStats[p] = 0
    <3>1. trackers[t] = Fresh
      BY <1>1, <1>2, <1>8, <2>3 DEF TrackerInv, StatsTypeOK
    <3> QED BY <1>2, <1>6, <2>3, <3>1 DEF Fresh, Kinds, TrackerIds
  <2> QED BY <2>1, <2>2, <2>3
<1> QED BY <1>9, <1>10, <1>11, <1>13, <1>14 DEF StatsInv

\* A tracker counts one message more.
LEMMA RecordCounts ==
  ASSUME StatsInv, NEW c \in Callers, calls[c].pc = "record",
         NEW k \in Kinds, k = calls[c].kind,
         NEW r \in Call, r.pc \in {"idle", "warn", "send"},
         calls' = [calls EXCEPT ![c] = r],
         \A t \in TrackerIds, l \in Kinds :
           trackers'[t][l] = IF t = calls[c].tracker /\ l = k THEN trackers[t][l] + 1
                             ELSE trackers[t][l],
         UNCHANGED <<peerStats, booked, forgotten>>
  PROVE  CountsEveryMessage'
<1>1. StatsTypeOK /\ CallOK(c) /\ CountsEveryMessage
  BY DEF StatsInv
<1>2. /\ calls'[c] = r
      /\ \A d \in Callers \ {c} : calls'[d] = calls[d]
  BY <1>1, CallEffect
<1> SUFFICES ASSUME NEW q \in Peers \ forgotten, NEW l \in Kinds
             PROVE  booked[l][q] = Cardinality(Uncounted(l, q)')
                      + (IF peerStats[q] = 0 THEN 0 ELSE trackers'[peerStats[q]][l])
  BY DEF CountsEveryMessage
<1>3. booked[l][q] = Cardinality(Uncounted(l, q))
                      + (IF peerStats[q] = 0 THEN 0 ELSE trackers[peerStats[q]][l])
  BY <1>1 DEF CountsEveryMessage
<1>4. CASE l = k /\ q = calls[c].peer
  <2>1. c \in Uncounted(l, q) /\ Uncounted(l, q)' = Uncounted(l, q) \ {c}
    BY <1>2, <1>4 DEF Uncounted
  <2>2. Cardinality(Uncounted(l, q)') = Cardinality(Uncounted(l, q)) - 1
    BY <2>1, UncountedFinite, FS_RemoveElement
  <2>3. /\ peerStats[q] = calls[c].tracker /\ peerStats[q] \in TrackerIds
        /\ trackers[peerStats[q]][l] \in Nat
    BY <1>1, <1>4 DEF CallOK, StatsTypeOK, TrackerIds, Kinds
  <2>4. trackers'[peerStats[q]][l] = trackers[peerStats[q]][l] + 1 /\ peerStats[q] # 0
    BY <1>4, <2>3 DEF TrackerIds
  <2> QED BY <1>3, <2>2, <2>3, <2>4, UncountedFinite
<1>5. CASE ~(l = k /\ q = calls[c].peer)
  <2>1. Uncounted(l, q)' = Uncounted(l, q)
    BY <1>2, <1>5 DEF Uncounted
  <2>2. peerStats[q] # 0 =>
          peerStats[q] \in TrackerIds /\ trackers'[peerStats[q]][l] = trackers[peerStats[q]][l]
    BY <1>1, <1>5 DEF CallOK, StatsTypeOK, TrackerIds
  <2> QED BY <1>3, <2>1, <2>2
<1> QED BY <1>4, <1>5

\* The tracker, the flag and the warning of RecordMessageSent.
LEMMA SentPreserves ==
  ASSUME StatsInv, NEW c \in Callers, RecordMessageSent(c)
  PROVE  StatsInv'
<1>1. StatsTypeOK /\ TrackerInv /\ WarnedInv /\ CallOK(c)
  BY DEF StatsInv
<1>0. PICK t : t = calls[c].tracker
  OBVIOUS
<1> DEFINE n == trackers[t].sent + 1
           shouldWarn == ~trackers[t].warned /\ n >= NonceExhaustionWarningThreshold
           r == IF shouldWarn THEN [calls[c] EXCEPT !.pc = "warn"] ELSE Idle
<1>2. /\ t \in TrackerIds /\ t <= created /\ calls[c] \in Call /\ calls[c].pc = "record"
      /\ calls[c].kind = "sent" /\ calls[c].peer \in Peers
      /\ trackers[t] \in [sent : Nat, received : Nat, warned : BOOLEAN]
      /\ trackers[t].sent \in Nat /\ trackers[t].warned \in BOOLEAN /\ n \in Nat
  BY <1>0, <1>1, StatsAssumption DEF RecordMessageSent, CallOK, StatsTypeOK, TrackerIds, Call
<1>3. Idle \in Call /\ Idle.pc = "idle"
  BY StatsAssumption DEF Idle, Call, Kinds
<1>4. /\ r \in Call
      /\ shouldWarn => r.pc = "warn" /\ r.tracker = t /\ r.peer \in Peers
      /\ ~shouldWarn => r.pc = "idle"
  <2> HIDE DEF shouldWarn
  <2> QED BY <1>0, <1>2, <1>3 DEF Call
<1>5. calls' = [calls EXCEPT ![c] = r]
  BY <1>0, <1>1 DEF RecordMessageSent, StatsTypeOK
<1>6. /\ calls' \in [Callers -> Call] /\ calls'[c] = r
      /\ \A d \in Callers \ {c} : calls'[d] = calls[d]
  BY <1>1, <1>4, <1>5, CallEffect
<1>7. /\ trackers' \in [TrackerIds -> [sent : Nat, received : Nat, warned : BOOLEAN]]
      /\ trackers'[t].sent = n /\ trackers'[t].received = trackers[t].received
      /\ trackers'[t].warned = IF shouldWarn THEN TRUE ELSE trackers[t].warned
      /\ \A u \in TrackerIds \ {t} : trackers'[u] = trackers[u]
  <2> HIDE DEF n, shouldWarn
  <2>1. trackers' = [trackers EXCEPT ![t].sent = n,
                                     ![t].warned = IF shouldWarn THEN TRUE ELSE @]
    BY <1>0 DEF RecordMessageSent, n, shouldWarn
  <2> QED BY <1>1, <1>2, <2>1 DEF StatsTypeOK
<1>8. UNCHANGED <<peerStats, created, cleaner, sweep, doomed, stopped, warnings, booked,
                  forgotten>>
  BY DEF RecordMessageSent
<1>9. StatsTypeOK'
  BY <1>1, <1>6, <1>7, <1>8 DEF StatsTypeOK, Call
<1>10. TrackerInv'
  <2> HIDE DEF n, shouldWarn
  <2> QED BY <1>1, <1>2, <1>7, <1>8, StatsAssumption DEF TrackerInv, StatsTypeOK, TrackerIds
<1>11. (\A d \in Callers : CallOK(d))'
  <2> HIDE DEF n, shouldWarn, r
  <2>1. CallOK(c)'
    BY <1>2, <1>4, <1>6, <1>8 DEF CallOK, TrackerIds
  <2> QED BY <1>6, <1>8, <2>1 DEF StatsInv, CallOK
<1>12. CountsEveryMessage'
  <2> HIDE DEF n, shouldWarn, r
  <2>1. \A u \in TrackerIds, l \in Kinds :
          trackers'[u][l] = IF u = calls[c].tracker /\ l = "sent" THEN trackers[u][l] + 1
                            ELSE trackers[u][l]
    BY <1>0, <1>2, <1>7 DEF Kinds, n
  <2>2. r.pc \in {"idle", "warn", "send"} /\ "sent" \in Kinds
    BY <1>4 DEF Kinds
  <2> QED BY <1>2, <1>4, <1>5, <1>8, <2>1, <2>2, RecordCounts
<1>13. WarnedInv'
  <2> HIDE DEF r
  <2> SUFFICES ASSUME NEW u \in TrackerIds
               PROVE  /\ WarnedOnceBy(u)'
                      /\ trackers'[u].warned <=>
                           trackers'[u].sent >= NonceExhaustionWarningThreshold
    BY DEF WarnedInv, WarnedOnce
  <2>1. /\ WarnedOnceBy(u)
        /\ trackers[u].warned <=> trackers[u].sent >= NonceExhaustionWarningThreshold
    BY <1>1 DEF WarnedInv, WarnedOnce
  <2>2. CASE u # t
    <3>1. Warning(u)' = Warning(u)
      BY <1>0, <1>2, <1>4, <1>6, <2>2 DEF Warning
    <3> QED BY <1>7, <1>8, <2>1, <2>2, <3>1 DEF WarnedOnceBy
  <2>3. CASE u = t /\ shouldWarn
    <3>1. Warning(t)' = Warning(t) \cup {c}
      BY <1>2, <1>4, <1>6, <2>3 DEF Warning
    <3>2. Warning(t) = {} /\ warnings[t] = 0
      BY <1>2, <2>1, <2>3, StatsAssumption DEF WarnedOnceBy
    <3>3. Warning(t)' = {c}
      BY <3>1, <3>2
    <3> QED BY <1>7, <1>8, <2>3, <3>2, <3>3 DEF WarnedOnceBy
  <2>4. CASE u = t /\ ~shouldWarn
    <3>1. Warning(t)' = Warning(t)
      BY <1>2, <1>4, <1>6, <2>4 DEF Warning
    <3>2. /\ trackers'[t].warned = trackers[t].warned
          /\ (trackers'[t].sent >= NonceExhaustionWarningThreshold)
               <=> (trackers[t].sent >= NonceExhaustionWarningThreshold)
      <4>1. trackers'[t].warned = trackers[t].warned /\ trackers'[t].sent = n
        BY <1>7, <2>4
      <4>2. CASE trackers[t].warned
        <5>1. trackers[t].sent >= NonceExhaustionWarningThreshold
          BY <2>1, <2>4, <4>2
        <5> QED BY <1>2, <4>1, <5>1, StatsAssumption
      <4>3. CASE ~trackers[t].warned
        <5>1. ~(n >= NonceExhaustionWarningThreshold)
          BY <2>4, <4>3
        <5> QED BY <1>2, <4>1, <5>1, StatsAssumption
      <4> QED BY <4>2, <4>3
    <3>3. trackers[t].sent \in Nat /\ trackers'[t].sent \in Nat
      BY <1>2, <1>7
    <3> QED BY <1>8, <2>1, <2>4, <3>1, <3>2, <3>3, StatsAssumption DEF WarnedOnceBy
  <2> QED BY <2>2, <2>3, <2>4
<1> QED BY <1>9, <1>10, <1>11, <1>12, <1>13 DEF StatsInv

LEMMA WarnPreserves ==
  ASSUME StatsInv, NEW c \in Callers, Warn(c)
  PROVE  StatsInv'
<1>1. StatsTypeOK /\ TrackerInv /\ WarnedInv /\ CountsEveryMessage /\ CallOK(c)
  BY DEF StatsInv
<1>2. PICK t \in TrackerIds : t = calls[c].tracker
  BY <1>1, StatsAssumption DEF Warn, CallOK, StatsTypeOK, TrackerIds
<1>3. Idle \in Call /\ Idle.pc = "idle"
  BY StatsAssumption DEF Idle, Call, Kinds
<1>4. /\ calls' \in [Callers -> Call] /\ calls'[c] = Idle
      /\ \A d \in Callers \ {c} : calls'[d] = calls[d]
  BY <1>1, <1>3, CallEffect DEF Warn
<1>5. /\ warnings' \in [TrackerIds -> Nat] /\ warnings'[t] = warnings[t] + 1
      /\ \A u \in TrackerIds \ {t} : warnings'[u] = warnings[u]
  BY <1>1, <1>2 DEF Warn, StatsTypeOK
<1>6. StatsTypeOK' /\ TrackerInv'
  BY <1>1, <1>4, <1>5 DEF Warn, StatsTypeOK, Call, TrackerInv
<1>7. (\A d \in Callers : CallOK(d))'
  BY <1>3, <1>4 DEF Warn, StatsInv, CallOK
<1>8. CountsEveryMessage'
  <2>1. \A k \in Kinds, p \in Peers : Uncounted(k, p)' = Uncounted(k, p)
    BY <1>3, <1>4 DEF Warn, Uncounted
  <2> QED BY <1>1, <2>1 DEF Warn, CountsEveryMessage
<1>9. WarnedInv'
  <2> SUFFICES ASSUME NEW u \in TrackerIds PROVE WarnedOnceBy(u)'
    BY <1>1 DEF WarnedInv, WarnedOnce, Warn
  <2>1. WarnedOnceBy(u)
    BY <1>1 DEF WarnedInv, WarnedOnce
  <2>2. CASE u # t
    <3>1. Warning(u)' = Warning(u)
      BY <1>2, <1>3, <1>4, <2>2 DEF Warning
    <3> QED BY <1>5, <2>1, <2>2, <3>1 DEF WarnedOnceBy, Warn
  <2>3. CASE u = t
    <3>1. c \in Warning(t) /\ Warning(t)' = Warning(t) \ {c}
      BY <1>2, <1>3, <1>4 DEF Warning, Warn
    <3>2. Warning(t) = {c} /\ warnings[t] = 0
          /\ trackers[t].sent >= NonceExhaustionWarningThreshold
      BY <2>1, <2>3, <3>1 DEF WarnedOnceBy
    <3>3. Warning(t)' = {} /\ warnings'[t] = 1
      BY <1>5, <3>1, <3>2
    <3> QED BY <2>3, <3>2, <3>3 DEF WarnedOnceBy, Warn
  <2> QED BY <2>2, <2>3
<1> QED BY <1>6, <1>7, <1>8, <1>9 DEF StatsInv

LEMMA ReceivedPreserves ==
  ASSUME StatsInv, NEW c \in Callers, RecordMessageReceived(c)
  PROVE  StatsInv'
<1>1. StatsTypeOK /\ TrackerInv /\ WarnedInv /\ CallOK(c)
  BY DEF StatsInv
<1>2. PICK t \in TrackerIds : t = calls[c].tracker
  BY <1>1, StatsAssumption DEF RecordMessageReceived, CallOK, StatsTypeOK, TrackerIds
<1>3. PICK r : r = [calls[c] EXCEPT !.pc = "send"]
  OBVIOUS
<1>4. r \in Call /\ r.pc = "send" /\ r.peer \in Peers
  BY <1>1, <1>3 DEF RecordMessageReceived, CallOK, StatsTypeOK, Call
<1>5. calls' = [calls EXCEPT ![c] = r]
  BY <1>1, <1>3 DEF RecordMessageReceived, StatsTypeOK
<1>6. /\ calls' \in [Callers -> Call] /\ calls'[c] = r
      /\ \A d \in Callers \ {c} : calls'[d] = calls[d]
  BY <1>1, <1>4, <1>5, CallEffect
<1>7. /\ trackers' \in [TrackerIds -> [sent : Nat, received : Nat, warned : BOOLEAN]]
      /\ \A u \in TrackerIds : /\ trackers'[u].sent = trackers[u].sent
                               /\ trackers'[u].warned = trackers[u].warned
                               /\ trackers'[u].received = IF u = t THEN trackers[u].received + 1
                                                          ELSE trackers[u].received
      /\ \A u \in TrackerIds \ {t} : trackers'[u] = trackers[u]
  BY <1>1, <1>2 DEF RecordMessageReceived, StatsTypeOK
<1>8. UNCHANGED <<peerStats, created, cleaner, sweep, doomed, stopped, warnings, booked,
                  forgotten>> /\ calls[c].pc = "record" /\ calls[c].kind = "received"
  BY DEF RecordMessageReceived
<1>9. StatsTypeOK'
  BY <1>1, <1>6, <1>7, <1>8 DEF StatsTypeOK, Call
<1>10. TrackerInv'
  BY <1>1, <1>2, <1>7, <1>8, StatsAssumption DEF TrackerInv, StatsTypeOK, TrackerIds, CallOK
<1>11. (\A d \in Callers : CallOK(d))'
  BY <1>4, <1>6, <1>8 DEF StatsInv, CallOK
<1>12. CountsEveryMessage'
  <2>1. \A u \in TrackerIds, l \in Kinds :
          trackers'[u][l] = IF u = calls[c].tracker /\ l = "received" THEN trackers[u][l] + 1
                            ELSE trackers[u][l]
    BY <1>2, <1>7 DEF Kinds
  <2>2. "received" \in Kinds
    BY DEF Kinds
  <2> QED BY <1>4, <1>5, <1>8, <2>1, <2>2, RecordCounts
<1>13. WarnedInv'
  <2>1. \A u \in TrackerIds : Warning(u)' = Warning(u)
    BY <1>4, <1>6, <1>8 DEF Warning
  <2> QED BY <1>1, <1>7, <1>8, <2>1 DEF WarnedInv, WarnedOnce, WarnedOnceBy
<1> QED BY <1>9, <1>10, <1>11, <1>12, <1>13 DEF StatsInv

\* The cleanup takes trackers out of the map and changes nothing in them.
LEMMA CleanupPreserves == StatsInv /\ CleanupStep => StatsInv'
<1> SUFFICES ASSUME StatsInv, CleanupStep PROVE StatsInv'
  OBVIOUS
<1>1. StatsTypeOK /\ TrackerInv /\ WarnedInv /\ CountsEveryMessage
  BY DEF StatsInv
<1>2. /\ UNCHANGED <<trackers, created, calls, stopped, warnings, booked>>
      /\ forgotten \subseteq forgotten'
  BY DEF CleanupStep, CleanupTick, CleanupLooks, CleanupDeletes, CleanupUnlocks, CleanupEnds
<1>3. \/ UNCHANGED <<peerStats, forgotten>>
      \/ /\ doomed \in Peers /\ forgotten' = forgotten \cup {doomed}
         /\ peerStats' = [peerStats EXCEPT ![doomed] = 0]
  BY <1>1 DEF CleanupStep, CleanupTick, CleanupLooks, CleanupDeletes, CleanupUnlocks,
              CleanupEnds, StatsTypeOK
<1>4. peerStats' \in [Peers -> 0 .. MaxTrackers]
      /\ \A p \in Peers : peerStats'[p] = peerStats[p]
                          \/ (peerStats'[p] = 0 /\ p \in forgotten')
  BY <1>1, <1>3, StatsAssumption DEF StatsTypeOK
<1>5. StatsTypeOK'
  <2>1. sweep' \subseteq Peers /\ doomed' \in Peers \cup {None}
        /\ cleaner' \in {"waits", "sweeps", "done"} /\ forgotten' \subseteq Peers
    BY <1>1 DEF CleanupStep, CleanupTick, CleanupLooks, CleanupDeletes, CleanupUnlocks,
                CleanupEnds, StatsTypeOK
  <2> QED BY <1>1, <1>2, <1>4, <2>1 DEF StatsTypeOK
<1>6. TrackerInv'
  <2>1. created \in Nat
    BY <1>1, StatsAssumption DEF StatsTypeOK
  <2> QED BY <1>1, <1>2, <1>4, <2>1 DEF TrackerInv
<1>7. (\A c \in Callers : CallOK(c))'
  <2> SUFFICES ASSUME NEW c \in Callers PROVE CallOK(c)'
    OBVIOUS
  <2>1. CallOK(c)
    BY DEF StatsInv
  <2>2. created \in Nat
    BY <1>1, StatsAssumption DEF StatsTypeOK
  <2> QED BY <1>2, <1>4, <2>1, <2>2 DEF CallOK
<1>8. WarnedInv'
  <2>1. \A t \in TrackerIds : Warning(t)' = Warning(t)
    BY <1>2 DEF Warning
  <2> QED BY <1>1, <1>2, <2>1 DEF WarnedInv, WarnedOnce, WarnedOnceBy
<1>9. CountsEveryMessage'
  <2>1. \A k \in Kinds, p \in Peers : Uncounted(k, p)' = Uncounted(k, p)
    BY <1>2 DEF Uncounted
  <2>2. \A p \in Peers \ forgotten' : p \in Peers \ forgotten /\ peerStats'[p] = peerStats[p]
    BY <1>2, <1>4
  <2> QED BY <1>1, <1>2, <2>1, <2>2 DEF CountsEveryMessage
<1> QED BY <1>5, <1>6, <1>7, <1>8, <1>9 DEF StatsInv

-----------------------------------------------------------------------------
(***************************************************************************)
(* The invariant of the path: the messages of a stream in the external     *)
(* channel, in the forwarder's hands, in the internal channel and in the   *)
(* read loop's hands stand in the order of their numbers, all of them      *)
(* above the last one delivered.                                           *)
(***************************************************************************)

PathTypes ==
  /\ sent \in [Streams -> Nat] /\ read \in [Streams -> Nat] /\ last \in [Streams -> Nat]
  /\ reader \in [Streams -> {"next", "holds", "done"}]
  /\ internal \in Seq(Msgs) /\ external \in Seq(Msgs) /\ held \in Seq(Msgs)
  /\ stopped \in BOOLEAN

NumbersInv ==
  \A s \in Streams :
    /\ last[s] <= read[s] /\ read[s] <= sent[s]
    /\ reader[s] = "holds" => last[s] < read[s]

\* The messages of q were read, were not delivered, and are not the one in
\* the hands of the read loop.
Within(q) ==
  \A i \in 1 .. Len(q) :
    /\ last[q[i].stream] < q[i].n /\ q[i].n <= read[q[i].stream]
    /\ reader[q[i].stream] = "holds" => q[i].n < read[q[i].stream]

Sorted(q) ==
  \A i, j \in 1 .. Len(q) : i < j /\ q[i].stream = q[j].stream => q[i].n < q[j].n

Before(p, q) ==
  \A i \in 1 .. Len(p), j \in 1 .. Len(q) : p[i].stream = q[j].stream => p[i].n < q[j].n

OrderInv ==
  /\ Within(external) /\ Within(held) /\ Within(internal)
  /\ Sorted(external) /\ Sorted(internal)
  /\ Before(external, held) /\ Before(external, internal) /\ Before(held, internal)

\* The forwarder holds one message from its receive to its send.
ForwarderInv ==
  LET f == calls[Forwarder]
  IN /\ f.pc # "warn"
     /\ f.pc \in {"create", "record"} => f.kind = "received"
     /\ IF f.pc \in {"create", "record", "send"} THEN Len(held) = 1 ELSE held = <<>>

PathInv == PathTypes /\ NumbersInv /\ OrderInv /\ ForwarderInv

\* The forwarder is a caller; the senders are the others.
LEMMA ForwarderCalls == Forwarder \in Callers /\ \A c \in Senders : c \in Callers /\ c # Forwarder
BY PathAssumption

\* What the elements of a channel are.
LEMMA MessageTyped ==
  ASSUME NEW q \in Seq(Msgs), NEW i \in 1 .. Len(q)
  PROVE  q[i] \in Msgs /\ q[i].stream \in Streams /\ q[i].n \in Nat
<1>1. q[i] \in Msgs
  BY ElementOfSeq
<1> QED BY <1>1 DEF Msgs

LEMMA PathInitially == Init => PathInv
<1> SUFFICES ASSUME Init PROVE PathInv
  OBVIOUS
<1>1. PathTypes
  <2>1. Zero \in [Streams -> Nat] /\ <<>> \in Seq(Msgs)
    BY DEF Zero
  <2> QED BY <2>1 DEF Init, StatsInit, PathTypes
<1>4. NumbersInv
  BY DEF Init, NumbersInv, Zero
<1>2. OrderInv
  BY DEF Init, OrderInv, Within, Sorted, Before
<1>3. ForwarderInv
  BY ForwarderCalls DEF Init, StatsInit, ForwarderInv, Idle
<1> QED BY <1>1, <1>2, <1>3, <1>4 DEF PathInv

\* The steps of the peer and of the read loop, but for Push.
LEMMA ReaderPreserves ==
  ASSUME PathInv, NEW s \in Streams,
         PeerSends(s) \/ ReadNext(s) \/ ReadEnds(s) \/ DecryptionFails(s)
           \/ ReturnWithMessage(s) \/ DropFull(s) \/ CloseStream(s) \/ SetOnMessageDropped(s)
  PROVE  PathInv'
<1>1. PathTypes /\ NumbersInv /\ OrderInv /\ ForwarderInv
  BY DEF PathInv
<1>2. UNCHANGED <<calls, stopped, internal, held, external, last>>
  BY DEF PeerSends, ReadNext, ReadEnds, DecryptionFails, ReturnWithMessage, DropFull,
         CloseStream, SetOnMessageDropped, statsVars
<1>3. /\ sent' \in [Streams -> Nat] /\ read' \in [Streams -> Nat]
      /\ reader' \in [Streams -> {"next", "holds", "done"}]
      /\ \A u \in Streams \ {s} : read'[u] = read[u] /\ reader'[u] = reader[u]
                                  /\ sent'[u] = sent[u]
      /\ \/ read'[s] = read[s] /\ sent[s] <= sent'[s] /\ reader'[s] = reader[s]
         \/ read'[s] = read[s] /\ sent[s] = sent'[s] /\ reader'[s] # "holds"
         \/ /\ reader[s] = "next" /\ reader'[s] = "holds"
            /\ read'[s] = read[s] + 1 /\ read'[s] <= sent'[s]
  <2>1. CASE PeerSends(s)
    BY <1>1, <2>1 DEF PathTypes, PeerSends, Bump
  <2>2. CASE ReadNext(s)
    BY <1>1, <2>2 DEF PathTypes, ReadNext, Bump
  <2>3. CASE ReadEnds(s) \/ ReturnWithMessage(s) \/ DropFull(s)
    <3>1. sent' = sent /\ read' = read
          /\ (reader' = [reader EXCEPT ![s] = "done"] \/ reader' = [reader EXCEPT ![s] = "next"])
      BY <2>3 DEF ReadEnds, ReturnWithMessage, DropFull
    <3> QED BY <1>1, <3>1 DEF PathTypes
  <2>5. CASE CloseStream(s) \/ SetOnMessageDropped(s)
    <3>1. sent' = sent /\ read' = read /\ reader' = reader
      BY <2>5 DEF CloseStream, SetOnMessageDropped
    <3> QED BY <1>1, <3>1 DEF PathTypes
  <2>4. CASE DecryptionFails(s)
    BY <1>1, <2>4 DEF PathTypes, DecryptionFails, Continue
  <2> QED BY <2>1, <2>2, <2>3, <2>4, <2>5
<1>4. PathTypes' /\ NumbersInv' /\ ForwarderInv'
  <2>1. PathTypes' /\ ForwarderInv'
    BY <1>1, <1>2, <1>3 DEF PathTypes, ForwarderInv
  <2>2. ASSUME NEW u \in Streams
        PROVE  /\ last'[u] <= read'[u] /\ read'[u] <= sent'[u]
               /\ reader'[u] = "holds" => last'[u] < read'[u]
    <3>1. last[u] \in Nat /\ read[u] \in Nat /\ sent[u] \in Nat /\ sent'[u] \in Nat
      BY <1>1, <1>3 DEF PathTypes
    <3>2. /\ last[u] <= read[u] /\ read[u] <= sent[u]
          /\ reader[u] = "holds" => last[u] < read[u]
      BY <1>1 DEF NumbersInv
    <3>3. CASE u = s
      BY <1>2, <1>3, <3>1, <3>2, <3>3
    <3>4. CASE u # s
      BY <1>2, <1>3, <3>1, <3>2, <3>4
    <3> QED BY <3>3, <3>4
  <2> QED BY <2>1, <2>2 DEF NumbersInv
<1>5. ASSUME NEW q \in Seq(Msgs), Within(q), q' = q PROVE Within(q)'
  <2> SUFFICES ASSUME NEW i \in 1 .. Len(q)
               PROVE  /\ last[q[i].stream] < q[i].n /\ q[i].n <= read'[q[i].stream]
                      /\ reader'[q[i].stream] = "holds" => q[i].n < read'[q[i].stream]
    BY <1>2, <1>5 DEF Within
  <2>1. q[i].stream \in Streams /\ q[i].n \in Nat
    BY MessageTyped
  <2>2. /\ last[q[i].stream] < q[i].n /\ q[i].n <= read[q[i].stream]
        /\ reader[q[i].stream] = "holds" => q[i].n < read[q[i].stream]
    BY <1>5 DEF Within
  <2>3. CASE q[i].stream = s
    BY <1>1, <1>3, <2>1, <2>2, <2>3 DEF PathTypes
  <2>4. CASE q[i].stream # s
    BY <1>3, <2>1, <2>2, <2>4
  <2> QED BY <2>3, <2>4
<1>6. OrderInv'
  BY <1>1, <1>2, <1>5 DEF OrderInv, PathTypes, Sorted, Before
<1> QED BY <1>4, <1>6 DEF PathInv

\* The read loop hands its message over.
LEMMA PushPreserves ==
  ASSUME PathInv, NEW s \in Streams, Push(s)
  PROVE  PathInv'
<1>1. PathTypes /\ NumbersInv /\ OrderInv /\ ForwarderInv
  BY DEF PathInv
<1>2. PICK m \in Msgs : m = Msg(s, read[s])
  BY <1>1 DEF Msg, Msgs, PathTypes
<1>3. m.stream = s /\ m.n = read[s] /\ m.n \in Nat
  BY <1>1, <1>2 DEF Msg, PathTypes
<1>4. /\ UNCHANGED <<calls, stopped, sent, read, held, external, last>>
      /\ internal' = Append(internal, m) /\ reader[s] = "holds"
      /\ reader' \in [Streams -> {"next", "holds", "done"}] /\ reader'[s] # "holds"
      /\ \A u \in Streams \ {s} : reader'[u] = reader[u]
  BY <1>1, <1>2 DEF Push, Continue, PathTypes, statsVars
<1>5. internal' \in Seq(Msgs)
  BY <1>1, <1>4 DEF PathTypes
<1>6. PathTypes' /\ NumbersInv' /\ ForwarderInv'
  BY <1>1, <1>4, <1>5 DEF PathTypes, NumbersInv, ForwarderInv
<1>7. /\ Len(internal') = Len(internal) + 1 /\ internal'[Len(internal) + 1] = m
      /\ \A i \in 1 .. Len(internal) : internal'[i] = internal[i]
      /\ Len(internal) \in Nat
  BY <1>1, <1>4 DEF PathTypes
<1>8. \A q \in Seq(Msgs) : \A i \in 1 .. Len(q) : q[i].stream \in Streams /\ q[i].n \in Nat
  BY MessageTyped
<1>9. \A i \in 1 .. Len(internal) : internal[i].stream = s => internal[i].n < m.n
  BY <1>1, <1>3, <1>4, <1>8 DEF OrderInv, Within, PathTypes
<1>10. /\ \A i \in 1 .. Len(external) : external[i].stream = s => external[i].n < m.n
       /\ \A i \in 1 .. Len(held) : held[i].stream = s => held[i].n < m.n
  BY <1>1, <1>3, <1>4, <1>8 DEF OrderInv, Within, PathTypes
<1>11. Within(external)' /\ Within(held)'
  BY <1>1, <1>4, <1>8 DEF OrderInv, Within, PathTypes
<1>12. Within(internal)'
  <2> SUFFICES ASSUME NEW i \in 1 .. Len(internal')
               PROVE  /\ last[internal'[i].stream] < internal'[i].n
                      /\ internal'[i].n <= read[internal'[i].stream]
                      /\ reader'[internal'[i].stream] = "holds"
                           => internal'[i].n < read[internal'[i].stream]
    BY <1>4 DEF Within
  <2>1. CASE i = Len(internal) + 1
    BY <1>1, <1>3, <1>4, <1>7, <2>1 DEF NumbersInv, PathTypes
  <2>2. CASE i \in 1 .. Len(internal)
    BY <1>1, <1>4, <1>7, <1>8, <2>2 DEF OrderInv, Within, PathTypes
  <2> QED BY <1>7, <2>1, <2>2
<1>13. Sorted(internal)'
  <2> SUFFICES ASSUME NEW i \in 1 .. Len(internal'), NEW j \in 1 .. Len(internal'), i < j,
                      internal'[i].stream = internal'[j].stream
               PROVE  internal'[i].n < internal'[j].n
    BY DEF Sorted
  <2>1. i \in 1 .. Len(internal) /\ internal'[i] = internal[i]
    BY <1>7
  <2>2. CASE j = Len(internal) + 1
    BY <1>3, <1>7, <1>9, <2>1, <2>2
  <2>3. CASE j \in 1 .. Len(internal)
    BY <1>1, <1>7, <2>1, <2>3 DEF OrderInv, Sorted
  <2> QED BY <1>7, <2>2, <2>3
<1>14. Before(external, internal)'
  BY <1>1, <1>3, <1>4, <1>7, <1>10 DEF OrderInv, Before
<1>15. Before(held, internal)'
  BY <1>1, <1>3, <1>4, <1>7, <1>10 DEF OrderInv, Before
<1> QED BY <1>1, <1>4, <1>6, <1>11, <1>12, <1>13, <1>14, <1>15
       DEF PathInv, OrderInv, Sorted, Before

\* Neither the channels nor the read loops change, and the forwarder stays
\* between its receive and its send.
LEMMA CallsPreservePath ==
  ASSUME PathInv, stopped' \in BOOLEAN,
         UNCHANGED <<sent, read, reader, internal, held, external, last>>,
         ForwarderInv'
  PROVE  PathInv'
BY DEF PathInv, PathTypes, NumbersInv, OrderInv, Within, Sorted, Before

\* A step of the statistics.
LEMMA StatsPreservePath ==
  ASSUME StatsInv, PathInv, StatsNext, UNCHANGED pathVars
  PROVE  PathInv'
<1>1. UNCHANGED <<sent, read, reader, internal, held, external, last>>
  BY DEF pathVars
<1>2. StatsTypeOK /\ ForwarderInv /\ PathTypes
  BY DEF StatsInv, PathInv
<1>3. stopped' = stopped
  BY DEF StatsNext, CallStep, CleanupStep, GetOrCreate, RecordMessageSent, Warn,
         RecordMessageReceived, CleanupTick, CleanupLooks, CleanupDeletes, CleanupUnlocks,
         CleanupEnds
<1>4. ForwarderInv'
  <2>1. CASE CleanupStep
    BY <1>1, <1>2, <2>1 DEF CleanupStep, CleanupTick, CleanupLooks, CleanupDeletes,
       CleanupUnlocks, CleanupEnds, ForwarderInv
  <2>2. ASSUME NEW c \in Callers, CallStep(c), c # Forwarder PROVE ForwarderInv'
    <3>1. calls'[Forwarder] = calls[Forwarder]
      BY <1>2, <2>2, ForwarderCalls DEF CallStep, GetOrCreate, RecordMessageSent, Warn,
         RecordMessageReceived, StatsTypeOK
    <3> QED BY <1>1, <1>2, <3>1 DEF ForwarderInv
  <2>3. CASE CallStep(Forwarder)
    <3>1. ~RecordMessageSent(Forwarder) /\ ~Warn(Forwarder)
      BY <1>2 DEF ForwarderInv, RecordMessageSent, Warn
    <3>2. calls[Forwarder] \in Call /\ calls \in [Callers -> Call]
      BY <1>2, ForwarderCalls DEF StatsTypeOK, Call
    <3>3. CASE GetOrCreate(Forwarder)
      <4>1. calls[Forwarder].pc = "create" /\ calls'[Forwarder].pc = "record"
            /\ calls'[Forwarder].kind = calls[Forwarder].kind
        BY <3>2, <3>3, ForwarderCalls DEF GetOrCreate, Call
      <4> QED BY <1>1, <1>2, <4>1 DEF ForwarderInv
    <3>4. CASE RecordMessageReceived(Forwarder)
      <4>1. calls[Forwarder].pc = "record" /\ calls'[Forwarder].pc = "send"
        BY <3>2, <3>4, ForwarderCalls DEF RecordMessageReceived, Call
      <4> QED BY <1>1, <1>2, <4>1 DEF ForwarderInv
    <3> QED BY <2>3, <3>1, <3>3, <3>4 DEF CallStep
  <2> QED BY <2>1, <2>2, <2>3 DEF StatsNext
<1> QED BY <1>1, <1>2, <1>3, <1>4, CallsPreservePath DEF PathTypes

\* The first message of a channel and the rest.
LEMMA HeadAndTail ==
  ASSUME NEW q \in Seq(Msgs), q # <<>>
  PROVE  /\ Head(q) \in Msgs /\ Head(q) = q[1] /\ Head(q).stream \in Streams
         /\ Head(q).n \in Nat
         /\ Tail(q) \in Seq(Msgs) /\ Len(Tail(q)) = Len(q) - 1 /\ Len(q) \in Nat \ {0}
         /\ \A i \in 1 .. Len(Tail(q)) : i + 1 \in 1 .. Len(q) /\ Tail(q)[i] = q[i + 1]
<1>1. Len(q) \in Nat \ {0} /\ Head(q) = q[1] /\ 1 \in 1 .. Len(q)
  OBVIOUS
<1>2. Tail(q) \in Seq(Msgs) /\ Len(Tail(q)) = Len(q) - 1
  OBVIOUS
<1>3. \A i \in 1 .. Len(Tail(q)) : i + 1 \in 1 .. Len(q) /\ Tail(q)[i] = q[i + 1]
  BY <1>1, <1>2
<1> QED BY <1>1, <1>2, <1>3, MessageTyped

LEMMA TakesPreserves == ASSUME StatsInv, PathInv, ForwardTakes PROVE PathInv'
<1>1. PathTypes /\ NumbersInv /\ OrderInv /\ ForwarderInv /\ StatsTypeOK
  BY DEF PathInv, StatsInv
<1>2. PICK m \in Msgs : m = Head(internal)
  BY <1>1, HeadAndTail DEF ForwardTakes, PathTypes
<1>3. /\ internal # <<>> /\ internal' = Tail(internal) /\ held' = <<m>>
      /\ UNCHANGED <<sent, read, reader, external, last, stopped>>
      /\ internal \in Seq(Msgs)
  BY <1>1, <1>2 DEF ForwardTakes, PathTypes
<1>4. /\ m = internal[1] /\ internal' \in Seq(Msgs) /\ Len(internal') = Len(internal) - 1
      /\ Len(internal) \in Nat \ {0} /\ m.stream \in Streams /\ m.n \in Nat
      /\ \A i \in 1 .. Len(internal') : i + 1 \in 1 .. Len(internal)
                                        /\ internal'[i] = internal[i + 1]
  BY <1>2, <1>3, HeadAndTail
<1>5. held' \in Seq(Msgs) /\ Len(held') = 1 /\ held'[1] = m
  BY <1>3
<1>6. calls'[Forwarder].pc = "create" /\ calls'[Forwarder].kind = "received"
  BY <1>1, ForwarderCalls DEF ForwardTakes, Begins, StatsTypeOK
<1>7. PathTypes' /\ NumbersInv' /\ ForwarderInv'
  BY <1>1, <1>3, <1>4, <1>5, <1>6 DEF PathTypes, NumbersInv, ForwarderInv
<1>8. Within(external)' /\ Within(held)' /\ Within(internal)'
  BY <1>1, <1>3, <1>4, <1>5 DEF OrderInv, Within
<1>9. Sorted(external)' /\ Sorted(internal)'
  <2>1. Sorted(external)'
    BY <1>1, <1>3 DEF OrderInv, Sorted
  <2>2. ASSUME NEW i \in 1 .. Len(internal'), NEW j \in 1 .. Len(internal'), i < j,
               internal'[i].stream = internal'[j].stream
        PROVE  internal'[i].n < internal'[j].n
    <3>1. /\ i + 1 \in 1 .. Len(internal) /\ internal'[i] = internal[i + 1]
          /\ j + 1 \in 1 .. Len(internal) /\ internal'[j] = internal[j + 1]
          /\ i + 1 < j + 1
      BY <1>4, <2>2
    <3> QED BY <1>1, <2>2, <3>1 DEF OrderInv, Sorted
  <2> QED BY <2>1, <2>2 DEF Sorted
<1>10. Before(external, held)' /\ Before(external, internal)'
  <2>1. 1 \in 1 .. Len(internal) /\ 1 .. Len(held') = {1}
    BY <1>4, <1>5
  <2>2. Before(external, held)'
    BY <1>1, <1>3, <1>4, <1>5, <2>1 DEF OrderInv, Before
  <2>3. Before(external, internal)'
    BY <1>1, <1>3, <1>4 DEF OrderInv, Before
  <2> QED BY <2>2, <2>3
<1>11. Before(held, internal)'
  <2> SUFFICES ASSUME NEW i \in 1 .. Len(held'), NEW j \in 1 .. Len(internal'),
                      held'[i].stream = internal'[j].stream
               PROVE  held'[i].n < internal'[j].n
    BY DEF Before
  <2>1. held'[i] = internal[1] /\ 1 \in 1 .. Len(internal)
    BY <1>4, <1>5
  <2>2. j + 1 \in 1 .. Len(internal) /\ 1 < j + 1 /\ internal'[j] = internal[j + 1]
    BY <1>4
  <2> QED BY <1>1, <2>1, <2>2 DEF OrderInv, Sorted
<1> QED BY <1>7, <1>8, <1>9, <1>10, <1>11 DEF PathInv, OrderInv

LEMMA SendsPreserves == ASSUME StatsInv, PathInv, ForwardSends PROVE PathInv'
<1>1. PathTypes /\ NumbersInv /\ OrderInv /\ ForwarderInv /\ StatsTypeOK
  BY DEF PathInv, StatsInv
<1>2. Len(held) = 1 /\ 1 \in 1 .. Len(held)
  BY <1>1 DEF ForwardSends, ForwarderInv
<1>3. PICK m \in Msgs : m = held[1]
  BY <1>1, <1>2, MessageTyped DEF PathTypes
<1>4. /\ UNCHANGED <<sent, read, reader, internal, last, stopped>> /\ held' = <<>>
      /\ external' = Append(external, m) \/ external' = external
  BY <1>3 DEF ForwardSends
<1>5. calls'[Forwarder] = Idle
  BY <1>1, ForwarderCalls DEF ForwardSends, StatsTypeOK
<1>6. external' \in Seq(Msgs) /\ held' \in Seq(Msgs) /\ Len(held') = 0
  <2>1. external \in Seq(Msgs)
    BY <1>1 DEF PathTypes
  <2>2. Append(external, m) \in Seq(Msgs)
    BY <1>3, <2>1
  <2>3. <<>> \in Seq(Msgs) /\ Len(<<>>) = 0
    OBVIOUS
  <2> QED BY <1>4, <2>1, <2>2, <2>3
<1>7. PathTypes' /\ NumbersInv' /\ ForwarderInv'
  BY <1>1, <1>4, <1>5, <1>6 DEF PathTypes, NumbersInv, ForwarderInv, Idle
<1>8. Within(held)' /\ Before(external, held)' /\ Before(held, internal)'
  BY <1>6 DEF Within, Before
<1>9. Within(internal)' /\ Sorted(internal)'
  BY <1>1, <1>4 DEF OrderInv, Within, Sorted
<1>10. CASE external' = external
  BY <1>1, <1>4, <1>7, <1>8, <1>9, <1>10 DEF PathInv, OrderInv, Within, Sorted, Before
<1>11. CASE external' = Append(external, m)
  <2>1. /\ Len(external') = Len(external) + 1 /\ external'[Len(external) + 1] = m
        /\ \A i \in 1 .. Len(external) : external'[i] = external[i]
        /\ Len(external) \in Nat
    BY <1>1, <1>11 DEF PathTypes
  <2>2. \A i \in 1 .. Len(external') : i \in 1 .. Len(external) \/ external'[i] = m
    BY <2>1
  <2>3. Within(external)'
    BY <1>1, <1>2, <1>3, <1>4, <2>1, <2>2 DEF OrderInv, Within
  <2>4. Sorted(external)'
    <3> SUFFICES ASSUME NEW i \in 1 .. Len(external'), NEW j \in 1 .. Len(external'), i < j,
                        external'[i].stream = external'[j].stream
                 PROVE  external'[i].n < external'[j].n
      BY DEF Sorted
    <3>1. i \in 1 .. Len(external) /\ external'[i] = external[i]
      BY <2>1
    <3>2. CASE external'[j] = m
      BY <1>1, <1>2, <1>3, <3>1, <3>2 DEF OrderInv, Before
    <3>3. CASE j \in 1 .. Len(external)
      BY <1>1, <2>1, <3>1, <3>3 DEF OrderInv, Sorted
    <3> QED BY <2>2, <3>2, <3>3
  <2>5. Before(external, internal)'
    BY <1>1, <1>2, <1>3, <1>4, <2>1, <2>2 DEF OrderInv, Before
  <2> QED BY <1>7, <1>8, <1>9, <2>3, <2>4, <2>5 DEF PathInv, OrderInv
<1> QED BY <1>4, <1>10, <1>11

LEMMA ReceivePreserves == ASSUME PathInv, Receive PROVE PathInv'
<1>1. PathTypes /\ NumbersInv /\ OrderInv /\ ForwarderInv
  BY DEF PathInv
<1>2. PICK m \in Msgs : m = Head(external)
  BY <1>1, HeadAndTail DEF Receive, PathTypes
<1>3. /\ external # <<>> /\ external' = Tail(external) /\ external \in Seq(Msgs)
      /\ UNCHANGED <<sent, read, reader, internal, held, stopped, calls>>
  BY <1>1 DEF Receive, PathTypes, statsVars
<1>4. /\ m = external[1] /\ external' \in Seq(Msgs) /\ Len(external') = Len(external) - 1
      /\ Len(external) \in Nat \ {0} /\ m.stream \in Streams /\ m.n \in Nat
      /\ \A i \in 1 .. Len(external') : i + 1 \in 1 .. Len(external)
                                        /\ external'[i] = external[i + 1]
  BY <1>2, <1>3, HeadAndTail
<1>5. /\ last' \in [Streams -> Nat] /\ last'[m.stream] = m.n
      /\ \A s \in Streams \ {m.stream} : last'[s] = last[s]
  BY <1>1, <1>2, <1>4 DEF Receive, PathTypes
<1>6. /\ last[m.stream] < m.n /\ m.n <= read[m.stream]
      /\ reader[m.stream] = "holds" => m.n < read[m.stream]
  BY <1>1, <1>4 DEF OrderInv, Within
<1>7. PathTypes' /\ ForwarderInv'
  BY <1>1, <1>3, <1>4, <1>5 DEF PathTypes, ForwarderInv
<1>8. NumbersInv'
  BY <1>1, <1>3, <1>4, <1>5, <1>6 DEF NumbersInv, PathTypes
<1>9. Sorted(external)' /\ Sorted(internal)' /\ Before(held, internal)'
  BY <1>1, <1>3, <1>4 DEF OrderInv, Sorted, Before
<1>10. Before(external, held)' /\ Before(external, internal)'
  BY <1>1, <1>3, <1>4 DEF OrderInv, Before
<1>11. Within(external)'
  <2> SUFFICES ASSUME NEW i \in 1 .. Len(external')
               PROVE  /\ last'[external'[i].stream] < external'[i].n
                      /\ external'[i].n <= read[external'[i].stream]
                      /\ reader[external'[i].stream] = "holds"
                           => external'[i].n < read[external'[i].stream]
    BY <1>3 DEF Within
  <2>1. i + 1 \in 1 .. Len(external) /\ external'[i] = external[i + 1] /\ 1 < i + 1
        /\ 1 \in 1 .. Len(external) /\ external'[i].stream \in Streams
    BY <1>3, <1>4, MessageTyped
  <2>2. external'[i].stream = m.stream => m.n < external'[i].n
    BY <1>1, <1>4, <2>1 DEF OrderInv, Sorted
  <2> QED BY <1>1, <1>5, <2>1, <2>2 DEF OrderInv, Within
<1>12. Within(held)' /\ Within(internal)'
  <2>1. \A i \in 1 .. Len(held) : held[i].stream \in Streams
    BY <1>1, MessageTyped DEF PathTypes
  <2>2. \A i \in 1 .. Len(internal) : internal[i].stream \in Streams
    BY <1>1, MessageTyped DEF PathTypes
  <2>3. 1 \in 1 .. Len(external)
    BY <1>4
  <2>4. Within(held)'
    BY <1>1, <1>3, <1>4, <1>5, <2>1, <2>3 DEF OrderInv, Within, Before
  <2>5. Within(internal)'
    BY <1>1, <1>3, <1>4, <1>5, <2>2, <2>3 DEF OrderInv, Within, Before
  <2> QED BY <2>4, <2>5
<1> QED BY <1>7, <1>8, <1>9, <1>10, <1>11, <1>12 DEF PathInv, OrderInv

-----------------------------------------------------------------------------
(***************************************************************************)
(* Both invariants hold.                                                   *)
(***************************************************************************)

\* The calls of the path to the statistics.
LEMMA PathPreservesStats ==
  ASSUME StatsInv, PathInv,
         ForwarderStep \/ (\E c \in Senders, p \in Peers : SendSucceeds(c, p))
  PROVE  StatsInv'
<1>1. PathTypes /\ StatsTypeOK
  BY DEF PathInv, StatsInv
<1>2. CASE ForwardTakes
  <2>1. PeerOf[Head(internal).stream] \in Peers /\ "received" \in Kinds
    BY <1>1, <1>2, HeadAndTail, PathAssumption DEF ForwardTakes, PathTypes, Kinds
  <2> QED BY <1>2, <2>1, ForwarderCalls, BeginsPreserves DEF ForwardTakes
<1>3. CASE ForwardSends
  <2>1. Idle \in Call /\ Idle.pc = "idle"
    BY StatsAssumption DEF Idle, Call, Kinds
  <2> QED BY <1>3, <2>1, ForwarderCalls, CallEnds DEF ForwardSends
<1>4. CASE ForwardStops
  <2>1. PICK r : r = [calls[Forwarder] EXCEPT !.pc = "done"]
    OBVIOUS
  <2>2. r \in Call /\ r.pc = "done" /\ calls' = [calls EXCEPT ![Forwarder] = r]
    BY <1>1, <1>4, <2>1, ForwarderCalls DEF ForwardStops, StatsTypeOK, Call
  <2> QED BY <1>4, <2>2, ForwarderCalls, CallEnds DEF ForwardStops
<1>5. ASSUME NEW c \in Senders, NEW p \in Peers, SendSucceeds(c, p) PROVE StatsInv'
  <2>1. "sent" \in Kinds /\ c \in Callers
    BY ForwarderCalls DEF Kinds
  <2> QED BY <1>5, <2>1, BeginsPreserves DEF SendSucceeds
<1> QED BY <1>2, <1>3, <1>4, <1>5 DEF ForwarderStep

\* One step of the node keeps both invariants.
LEMMA NextPreserves == StatsInv /\ PathInv /\ [Next]_vars => StatsInv' /\ PathInv'
<1> SUFFICES ASSUME StatsInv, PathInv, [Next]_vars PROVE StatsInv' /\ PathInv'
  OBVIOUS
<1>1. StatsTypeOK /\ PathTypes /\ ForwarderInv
  BY DEF StatsInv, PathInv
<1>2. ASSUME NEW s \in Streams,
             PeerSends(s) \/ ReaderStep(s) \/ CloseStream(s) \/ SetOnMessageDropped(s)
      PROVE  StatsInv' /\ PathInv'
  <2>1. UNCHANGED statsVars
    BY <1>2 DEF PeerSends, ReaderStep, CloseStream, ReadNext, ReadEnds, DecryptionFails, Push,
                ReturnWithMessage, DropFull, SetOnMessageDropped
  <2>2. StatsInv'
    BY <1>1, <2>1, StatsUnchanged DEF statsVars, StatsTypeOK
  <2> QED BY <1>2, <2>2, ReaderPreserves, PushPreserves DEF ReaderStep
<1>3. CASE Stop
  <2>1. StatsInv'
    BY <1>3, StatsUnchanged DEF Stop
  <2>2. ForwarderInv' /\ stopped' \in BOOLEAN
    BY <1>1, <1>3 DEF Stop, ForwarderInv
  <2> QED BY <1>3, <2>1, <2>2, CallsPreservePath DEF Stop
<1>4. CASE ForwarderStep
  <2>1. StatsInv'
    BY <1>4, PathPreservesStats
  <2>2. CASE ForwardStops
    <3>1. calls'[Forwarder].pc = "done" /\ calls[Forwarder].pc = "idle"
      BY <1>1, <2>2, ForwarderCalls DEF ForwardStops, StatsTypeOK
    <3>2. ForwarderInv'
      BY <1>1, <2>2, <3>1 DEF ForwardStops, ForwarderInv
    <3>3. UNCHANGED <<sent, read, reader, internal, held, external, last, stopped>>
      BY <2>2 DEF ForwardStops
    <3>4. stopped' \in BOOLEAN
      BY <1>1, <3>3 DEF StatsTypeOK
    <3> QED BY <2>1, <3>2, <3>3, <3>4, CallsPreservePath
  <2> QED BY <1>4, <2>1, <2>2, TakesPreserves, SendsPreserves DEF ForwarderStep
<1>5. CASE Receive
  <2>1. StatsInv'
    BY <1>1, <1>5, StatsUnchanged DEF Receive, statsVars, StatsTypeOK
  <2> QED BY <1>5, <2>1, ReceivePreserves
<1>6. ASSUME NEW c \in Senders, NEW p \in Peers, SendSucceeds(c, p)
      PROVE  StatsInv' /\ PathInv'
  <2>1. StatsInv'
    BY <1>6, PathPreservesStats
  <2>2. calls'[Forwarder] = calls[Forwarder]
    BY <1>1, <1>6, ForwarderCalls DEF SendSucceeds, Begins, StatsTypeOK
  <2>3. ForwarderInv' /\ stopped' \in BOOLEAN
    BY <1>1, <1>6, <2>2 DEF SendSucceeds, ForwarderInv, StatsTypeOK
  <2> QED BY <1>6, <2>1, <2>3, CallsPreservePath DEF SendSucceeds
<1>7. CASE StatsNext /\ UNCHANGED pathVars
  <2>1. StatsInv'
    BY <1>7, GetOrCreatePreserves, SentPreserves, WarnPreserves, ReceivedPreserves,
       CleanupPreserves DEF StatsNext, CallStep
  <2> QED BY <1>7, <2>1, StatsPreservePath
<1>8. CASE UNCHANGED vars
  <2>1. StatsInv'
    BY <1>1, <1>8, StatsUnchanged DEF vars, statsVars, StatsTypeOK
  <2>2. ForwarderInv' /\ stopped' \in BOOLEAN
    BY <1>1, <1>8 DEF vars, statsVars, pathVars, ForwarderInv, StatsTypeOK
  <2> QED BY <1>8, <2>1, <2>2, CallsPreservePath DEF vars, pathVars
<1> QED BY <1>2, <1>3, <1>4, <1>5, <1>6, <1>7, <1>8 DEF Next

\* What the trackers count and the order of the messages in the path.
THEOREM PathCorrect == Spec => [](StatsInv /\ PathInv)
<1>1. Init => StatsInv /\ PathInv
  BY StatsInitially, PathInitially DEF Init
<1> QED BY <1>1, NextPreserves, PTL DEF Spec

\* The nonce exhaustion warning of a tracker is given exactly once, however
\* many goroutines send.
THEOREM WarnsOnce == Spec => []WarnedOnce
<1>1. StatsInv => WarnedOnce
  BY DEF StatsInv, WarnedInv
<1> QED BY <1>1, PathCorrect, PTL

\* The tracker in the map has counted every message of its peer, but those
\* whose call is under way, unless the cleanup has dropped a tracker.
THEOREM CountsAll == Spec => []CountsEveryMessage
<1>1. StatsInv => CountsEveryMessage
  BY DEF StatsInv
<1> QED BY <1>1, PathCorrect, PTL

-----------------------------------------------------------------------------
(***************************************************************************)
(* The path implements LossyFifo.                                          *)
(***************************************************************************)

\* Message n of stream s is between the peer and the application.
Holds(s, n) ==
  \/ n > read[s]
  \/ n = read[s] /\ reader[s] = "holds"
  \/ Contains(internal, Msg(s, n))
  \/ Contains(held, Msg(s, n))
  \/ Contains(external, Msg(s, n))

LEMMA TransitIsHeld == InTransit = [s \in Streams |-> {n \in 1 .. sent[s] : Holds(s, n)}]
BY DEF InTransit, Holds

LEMMA TransitIsHeldNext ==
  InTransit' = [s \in Streams |-> {n \in 1 .. sent'[s] : Holds(s, n)'}]
BY DEF InTransit, Holds

\* What a channel contains.
LEMMA ContainsNothing == \A m : ~Contains(<<>>, m)
BY DEF Contains

LEMMA ContainsOne ==
  ASSUME NEW q \in Seq(Msgs), Len(q) = 1
  PROVE  \A m : Contains(q, m) <=> m = q[1]
BY DEF Contains

LEMMA ContainsAppend ==
  ASSUME NEW q \in Seq(Msgs), NEW x \in Msgs
  PROVE  \A m : Contains(Append(q, x), m) <=> Contains(q, m) \/ m = x
<1> SUFFICES ASSUME NEW m PROVE Contains(Append(q, x), m) <=> Contains(q, m) \/ m = x
  OBVIOUS
<1>1. /\ Len(Append(q, x)) = Len(q) + 1 /\ Append(q, x)[Len(q) + 1] = x /\ Len(q) \in Nat
      /\ \A i \in 1 .. Len(q) : Append(q, x)[i] = q[i]
  OBVIOUS
<1>2. \A i \in 1 .. Len(q) + 1 : i \in 1 .. Len(q) \/ i = Len(q) + 1
  BY <1>1
<1>3. (1 .. Len(q)) \subseteq (1 .. Len(q) + 1) /\ Len(q) + 1 \in 1 .. Len(q) + 1
  BY <1>1
<1> QED BY <1>1, <1>2, <1>3 DEF Contains

LEMMA ContainsHead ==
  ASSUME NEW q \in Seq(Msgs), q # <<>>
  PROVE  \A m : Contains(q, m) <=> m = Head(q) \/ Contains(Tail(q), m)
<1> SUFFICES ASSUME NEW m PROVE Contains(q, m) <=> m = Head(q) \/ Contains(Tail(q), m)
  OBVIOUS
<1>1. /\ Head(q) = q[1] /\ Len(Tail(q)) = Len(q) - 1 /\ Len(q) \in Nat \ {0}
      /\ \A i \in 1 .. Len(Tail(q)) : i + 1 \in 1 .. Len(q) /\ Tail(q)[i] = q[i + 1]
  BY HeadAndTail
<1>2. Contains(q, m) => m = Head(q) \/ Contains(Tail(q), m)
  <2> SUFFICES ASSUME NEW i \in 1 .. Len(q), q[i] = m, i # 1 PROVE Contains(Tail(q), m)
    BY <1>1 DEF Contains
  <2>1. i - 1 \in 1 .. Len(Tail(q)) /\ (i - 1) + 1 = i
    BY <1>1
  <2>2. Tail(q)[i - 1] = q[i]
    BY <1>1, <2>1
  <2> QED BY <2>1, <2>2 DEF Contains
<1>3. m = Head(q) \/ Contains(Tail(q), m) => Contains(q, m)
  BY <1>1 DEF Contains
<1> QED BY <1>2, <1>3

\* Two names of one message.
LEMMA SameMessage ==
  ASSUME NEW s, NEW n, NEW t, NEW k PROVE Msg(s, n) = Msg(t, k) <=> s = t /\ n = k
BY DEF Msg

LEMMA MessageIs == ASSUME NEW m \in Msgs PROVE m = Msg(m.stream, m.n)
BY DEF Msg, Msgs

\* Steps in which nothing leaves the path and nothing enters it.
LEMMA TransitSame ==
  ASSUME sent' = sent, \A s \in Streams, n \in Nat : Holds(s, n)' <=> Holds(s, n),
         sent \in [Streams -> Nat]
  PROVE  InTransit' = InTransit
<1>1. \A s \in Streams : {n \in 1 .. sent'[s] : Holds(s, n)'} = {n \in 1 .. sent[s] : Holds(s, n)}
  OBVIOUS
<1> QED BY <1>1, TransitIsHeld, TransitIsHeldNext

\* Steps in which one message leaves the path.
LEMMA TransitLoses ==
  ASSUME sent' = sent, sent \in [Streams -> Nat], NEW s \in Streams, NEW k \in Nat,
         \A u \in Streams, n \in Nat : Holds(u, n)' <=> Holds(u, n) /\ ~(u = s /\ n = k)
  PROVE  InTransit' = [InTransit EXCEPT ![s] = @ \ {k}]
<1>1. \A u \in Streams \ {s} :
        {n \in 1 .. sent'[u] : Holds(u, n)'} = {n \in 1 .. sent[u] : Holds(u, n)}
  OBVIOUS
<1>2. {n \in 1 .. sent'[s] : Holds(s, n)'} = {n \in 1 .. sent[s] : Holds(s, n)} \ {k}
  OBVIOUS
<1> DEFINE old == [u \in Streams |-> {n \in 1 .. sent[u] : Holds(u, n)}]
           new == [u \in Streams |-> {n \in 1 .. sent'[u] : Holds(u, n)'}]
<1>3. new = [old EXCEPT ![s] = @ \ {k}]
  BY <1>1, <1>2
<1>4. InTransit = old /\ InTransit' = new
  BY TransitIsHeld, TransitIsHeldNext
<1> HIDE DEF old, new
<1> QED BY <1>3, <1>4

\* What is in a channel is not in another place of the path.
LEMMA InOnePlace ==
  ASSUME PathInv, NEW s \in Streams, NEW n \in Nat
  PROVE  /\ ~(Contains(external, Msg(s, n)) /\ Contains(held, Msg(s, n)))
         /\ ~(Contains(external, Msg(s, n)) /\ Contains(internal, Msg(s, n)))
         /\ ~(Contains(held, Msg(s, n)) /\ Contains(internal, Msg(s, n)))
         /\ Contains(external, Msg(s, n)) \/ Contains(held, Msg(s, n))
              \/ Contains(internal, Msg(s, n))
              => /\ last[s] < n /\ n <= read[s] /\ n <= sent[s] /\ 1 <= n
                 /\ ~(n = read[s] /\ reader[s] = "holds")
<1>1. OrderInv /\ PathTypes /\ NumbersInv
  BY DEF PathInv
<1>2. Msg(s, n).stream = s /\ Msg(s, n).n = n
  BY DEF Msg
<1>3. last[s] \in Nat /\ read[s] \in Nat /\ sent[s] \in Nat /\ read[s] <= sent[s]
  BY <1>1 DEF PathTypes, NumbersInv
<1>4. ASSUME NEW p, NEW q, Before(p, q), Contains(p, Msg(s, n)), Contains(q, Msg(s, n))
      PROVE  FALSE
  BY <1>2, <1>4 DEF Before, Contains
<1>5. ASSUME NEW q, Within(q), Contains(q, Msg(s, n))
      PROVE  last[s] < n /\ n <= read[s] /\ (reader[s] = "holds" => n < read[s])
  BY <1>2, <1>5 DEF Within, Contains
<1>6. Contains(external, Msg(s, n)) \/ Contains(held, Msg(s, n))
        \/ Contains(internal, Msg(s, n))
        => last[s] < n /\ n <= read[s] /\ (reader[s] = "holds" => n < read[s])
  BY <1>1, <1>5 DEF OrderInv
<1> QED BY <1>1, <1>3, <1>4, <1>6 DEF OrderInv

\* The peer sends a message.
LEMMA SendImplements ==
  ASSUME PathInv, NEW s \in Streams, PeerSends(s)
  PROVE  Fifo!Send(s)
<1>1. PathTypes /\ NumbersInv
  BY DEF PathInv
<1>2. /\ sent' = [sent EXCEPT ![s] = @ + 1]
      /\ UNCHANGED <<read, reader, internal, held, external, last>>
  BY DEF PeerSends, Bump
<1>3. \A u \in Streams, n \in Nat : Holds(u, n)' <=> Holds(u, n)
  BY <1>2 DEF Holds
<1>4. /\ \A u \in Streams : sent[u] \in Nat /\ read[u] \in Nat /\ read[u] <= sent[u]
      /\ sent'[s] = sent[s] + 1 /\ \A u \in Streams \ {s} : sent'[u] = sent[u]
  BY <1>1, <1>2 DEF PathTypes, NumbersInv
<1>5. Holds(s, sent[s] + 1)
  BY <1>4 DEF Holds
<1>6. {n \in 1 .. sent'[s] : Holds(s, n)'} = {n \in 1 .. sent[s] : Holds(s, n)} \cup {sent[s] + 1}
  <2>1. sent[s] \in Nat /\ sent'[s] = sent[s] + 1
    BY <1>4
  <2>2. 1 .. sent[s] + 1 = (1 .. sent[s]) \cup {sent[s] + 1}
    BY <2>1
  <2> QED BY <1>3, <1>5, <2>1, <2>2
<1>7. \A u \in Streams \ {s} :
        {n \in 1 .. sent'[u] : Holds(u, n)'} = {n \in 1 .. sent[u] : Holds(u, n)}
  BY <1>3, <1>4
<1>8. InTransit' = [InTransit EXCEPT ![s] = @ \cup {sent[s] + 1}]
  BY <1>6, <1>7, TransitIsHeld, TransitIsHeldNext
<1> QED BY <1>2, <1>8 DEF Fifo!Send

\* A read loop takes a message, ends without one, or hands one over.
LEMMA ReaderImplements ==
  ASSUME PathInv, NEW s \in Streams,
         ReadNext(s) \/ ReadEnds(s) \/ Push(s) \/ CloseStream(s) \/ SetOnMessageDropped(s)
  PROVE  UNCHANGED <<sent, InTransit, last>>
<1>1. PathTypes /\ NumbersInv
  BY DEF PathInv
<1>2. /\ UNCHANGED <<sent, last, held, external>> /\ sent \in [Streams -> Nat]
      /\ \A u \in Streams : read[u] \in Nat
  BY <1>1 DEF ReadNext, ReadEnds, Push, CloseStream, SetOnMessageDropped, PathTypes
<1>3. CASE ReadNext(s)
  <2>1. /\ internal' = internal /\ reader[s] = "next" /\ reader'[s] = "holds"
        /\ read'[s] = read[s] + 1
        /\ \A u \in Streams \ {s} : read'[u] = read[u] /\ reader'[u] = reader[u]
    BY <1>1, <1>3 DEF ReadNext, Bump, PathTypes
  <2>2. \A u \in Streams, n \in Nat : Holds(u, n)' <=> Holds(u, n)
    BY <1>2, <2>1 DEF Holds
  <2> QED BY <1>2, <2>2, TransitSame
<1>4. CASE ReadEnds(s) \/ CloseStream(s) \/ SetOnMessageDropped(s)
  <2>1. /\ UNCHANGED <<internal, read>>
        /\ \A u \in Streams : reader'[u] = "holds" <=> reader[u] = "holds"
    BY <1>1, <1>4 DEF ReadEnds, CloseStream, SetOnMessageDropped, PathTypes
  <2>2. \A u \in Streams, n \in Nat : Holds(u, n)' <=> Holds(u, n)
    BY <1>2, <2>1 DEF Holds
  <2> QED BY <1>2, <2>2, TransitSame
<1>5. CASE Push(s)
  <2>1. /\ read' = read /\ reader[s] = "holds" /\ reader'[s] # "holds"
        /\ \A u \in Streams \ {s} : reader'[u] = reader[u]
        /\ internal' = Append(internal, Msg(s, read[s]))
    BY <1>1, <1>5 DEF Push, Continue, PathTypes
  <2>2. Msg(s, read[s]) \in Msgs /\ internal \in Seq(Msgs)
    BY <1>1 DEF Msg, Msgs, PathTypes
  <2>3. \A u \in Streams, n \in Nat :
          Contains(internal', Msg(u, n)) <=> Contains(internal, Msg(u, n))
                                             \/ (u = s /\ n = read[s])
    BY <2>1, <2>2, ContainsAppend, SameMessage
  <2>4. \A u \in Streams, n \in Nat : Contains(internal, Msg(u, n))' <=> Contains(internal', Msg(u, n))
    BY DEF Contains, Msg
  <2>5. \A u \in Streams, n \in Nat : Holds(u, n)' <=> Holds(u, n)
    BY <1>2, <2>1, <2>3, <2>4 DEF Holds
  <2> QED BY <1>2, <2>5, TransitSame
<1> QED BY <1>3, <1>4, <1>5

\* A read loop loses the message in its hands.
LEMMA DropImplements ==
  ASSUME PathInv, NEW s \in Streams,
         DecryptionFails(s) \/ ReturnWithMessage(s) \/ DropFull(s)
  PROVE  \E n \in InTransit[s] : Fifo!Lose(s, n)
<1>1. PathTypes /\ NumbersInv
  BY DEF PathInv
<1>2. /\ UNCHANGED <<sent, read, internal, held, external, last>> /\ reader[s] = "holds"
      /\ reader'[s] # "holds" /\ \A u \in Streams \ {s} : reader'[u] = reader[u]
      /\ sent \in [Streams -> Nat]
  <2>1. CASE DecryptionFails(s)
    BY <1>1, <2>1 DEF DecryptionFails, Continue, PathTypes
  <2>2. CASE ReturnWithMessage(s) \/ DropFull(s)
    BY <1>1, <2>2 DEF ReturnWithMessage, DropFull, PathTypes
  <2> QED BY <2>1, <2>2
<1>3. PICK k \in Nat : k = read[s]
  BY <1>1 DEF PathTypes
<1>4. k \in 1 .. sent[s] /\ Holds(s, k)
  BY <1>1, <1>2, <1>3 DEF NumbersInv, PathTypes, Holds
<1>5. k \in InTransit[s]
  BY <1>4, TransitIsHeld
<1>6. /\ ~Contains(internal, Msg(s, k)) /\ ~Contains(held, Msg(s, k))
      /\ ~Contains(external, Msg(s, k))
  BY <1>2, <1>3, InOnePlace
<1>7. \A u \in Streams, n \in Nat : Holds(u, n)' <=> Holds(u, n) /\ ~(u = s /\ n = k)
  <2> SUFFICES ASSUME NEW u \in Streams, NEW n \in Nat
               PROVE  Holds(u, n)' <=> Holds(u, n) /\ ~(u = s /\ n = k)
    OBVIOUS
  <2>1. CASE u # s
    BY <1>2, <2>1 DEF Holds
  <2>2. CASE u = s
    BY <1>2, <1>3, <1>6, <2>2 DEF Holds
  <2> QED BY <2>1, <2>2
<1>8. InTransit' = [InTransit EXCEPT ![s] = @ \ {k}]
  BY <1>2, <1>7, TransitLoses
<1> QED BY <1>2, <1>5, <1>8 DEF Fifo!Lose

\* The forwarder takes a message and sends or drops it.
LEMMA TakesImplements ==
  ASSUME StatsInv, PathInv, ForwardTakes PROVE UNCHANGED <<sent, InTransit, last>>
<1>1. PathTypes /\ ForwarderInv
  BY DEF PathInv
<1>2. /\ UNCHANGED <<sent, read, reader, external, last>> /\ sent \in [Streams -> Nat]
      /\ internal # <<>> /\ internal \in Seq(Msgs) /\ held = <<>>
      /\ internal' = Tail(internal) /\ held' = <<Head(internal)>>
  BY <1>1 DEF ForwardTakes, PathTypes, ForwarderInv
<1>3. Head(internal) \in Msgs /\ held' \in Seq(Msgs) /\ Len(held') = 1
      /\ held'[1] = Head(internal)
  <2>1. Head(internal) \in Msgs
    BY <1>2, HeadAndTail
  <2> QED BY <1>2, <2>1
<1>4. \A m : Contains(held', m) <=> m = Head(internal)
  BY <1>3, ContainsOne
<1>5. \A m : Contains(internal, m) <=> m = Head(internal) \/ Contains(internal', m)
  BY <1>2, ContainsHead
<1>6. \A u \in Streams, n \in Nat :
        /\ Contains(internal, Msg(u, n))' <=> Contains(internal', Msg(u, n))
        /\ Contains(held, Msg(u, n))' <=> Contains(held', Msg(u, n))
        /\ Contains(external, Msg(u, n))' <=> Contains(external, Msg(u, n))
  BY <1>2 DEF Contains, Msg
<1>7. \A u \in Streams, n \in Nat : Holds(u, n)' <=> Holds(u, n)
  BY <1>2, <1>4, <1>5, <1>6, ContainsNothing DEF Holds
<1> QED BY <1>2, <1>7, TransitSame

LEMMA SendsImplements ==
  ASSUME StatsInv, PathInv, ForwardSends
  PROVE  \/ UNCHANGED <<sent, InTransit, last>>
         \/ \E s \in Streams : \E n \in InTransit[s] : Fifo!Lose(s, n)
<1>1. PathTypes /\ ForwarderInv
  BY DEF PathInv
<1>2. /\ UNCHANGED <<sent, read, reader, internal, last>> /\ sent \in [Streams -> Nat]
      /\ Len(held) = 1 /\ held \in Seq(Msgs) /\ external \in Seq(Msgs) /\ held' = <<>>
      /\ external' = Append(external, held[1]) \/ external' = external
  BY <1>1 DEF ForwardSends, PathTypes, ForwarderInv
<1>3. PICK x \in Msgs : x = held[1]
  <2>1. 1 \in 1 .. Len(held)
    BY <1>2
  <2> QED BY <1>2, <2>1, MessageTyped
<1>4. \A m : (Contains(held, m) <=> m = x) /\ ~Contains(held', m)
  BY <1>2, <1>3, ContainsOne, ContainsNothing
<1>5. \A u \in Streams, n \in Nat :
        /\ Contains(internal, Msg(u, n))' <=> Contains(internal, Msg(u, n))
        /\ Contains(held, Msg(u, n))' <=> Contains(held', Msg(u, n))
        /\ Contains(external, Msg(u, n))' <=> Contains(external', Msg(u, n))
  BY <1>2 DEF Contains, Msg
<1>6. CASE external' = Append(external, x)
  <2>1. \A m : Contains(external', m) <=> Contains(external, m) \/ m = x
    BY <1>2, <1>6, ContainsAppend
  <2>2. \A u \in Streams, n \in Nat : Holds(u, n)' <=> Holds(u, n)
    BY <1>2, <1>4, <1>5, <2>1 DEF Holds
  <2> QED BY <1>2, <2>2, TransitSame
<1>7. CASE external' = external
  <2>1. PICK s \in Streams, k \in Nat : x = Msg(s, k)
    <3>1. x.stream \in Streams /\ x.n \in Nat
      BY DEF Msgs
    <3> QED BY <3>1, MessageIs
  <2>2. /\ ~Contains(external, x) /\ ~Contains(internal, x) /\ 1 <= k
        /\ k <= read[s] /\ k <= sent[s] /\ ~(k = read[s] /\ reader[s] = "holds")
    BY <1>4, <2>1, InOnePlace
  <2>3. Holds(s, k) /\ k \in 1 .. sent[s]
    BY <1>2, <1>4, <2>1, <2>2 DEF Holds
  <2>4. k \in InTransit[s]
    BY <2>3, TransitIsHeld
  <2>5. \A u \in Streams, n \in Nat : Holds(u, n)' <=> Holds(u, n) /\ ~(u = s /\ n = k)
    <3> SUFFICES ASSUME NEW u \in Streams, NEW n \in Nat
                 PROVE  Holds(u, n)' <=> Holds(u, n) /\ ~(u = s /\ n = k)
      OBVIOUS
    <3>1. Msg(u, n) = x <=> u = s /\ n = k
      BY <2>1, SameMessage
    <3>2. read[s] \in Nat
      BY <1>1 DEF PathTypes
    <3> QED BY <1>2, <1>4, <1>5, <1>7, <2>2, <3>1, <3>2 DEF Holds
  <2>6. InTransit' = [InTransit EXCEPT ![s] = @ \ {k}]
    BY <1>2, <2>5, TransitLoses
  <2> QED BY <1>2, <2>4, <2>6 DEF Fifo!Lose
<1> QED BY <1>2, <1>3, <1>6, <1>7

\* The application receives the oldest message of its stream.
LEMMA ReceiveImplements ==
  ASSUME PathInv, Receive
  PROVE  \E s \in Streams : \E n \in InTransit[s] : Fifo!Deliver(s, n)
<1>1. PathTypes /\ NumbersInv /\ OrderInv
  BY DEF PathInv
<1>2. /\ UNCHANGED <<sent, read, reader, internal, held>> /\ sent \in [Streams -> Nat]
      /\ external # <<>> /\ external \in Seq(Msgs) /\ external' = Tail(external)
  BY <1>1 DEF Receive, PathTypes
<1>3. PICK x \in Msgs : x = Head(external)
  BY <1>2, HeadAndTail
<1>4. /\ x = external[1] /\ x.stream \in Streams /\ x.n \in Nat /\ 1 \in 1 .. Len(external)
      /\ external' \in Seq(Msgs)
      /\ \A i \in 1 .. Len(external') : i + 1 \in 1 .. Len(external)
                                        /\ external'[i] = external[i + 1]
  BY <1>2, <1>3, HeadAndTail
<1>5. PICK s \in Streams, k \in Nat : x = Msg(s, k) /\ s = x.stream /\ k = x.n
  BY <1>4, MessageIs
<1>6. last' = [last EXCEPT ![s] = k]
  BY <1>3, <1>5 DEF Receive
<1>7. \A m : Contains(external, m) <=> m = x \/ Contains(external', m)
  BY <1>2, <1>3, ContainsHead
<1>8. /\ last[s] < k /\ k <= read[s] /\ k \in 1 .. sent[s]
      /\ ~(k = read[s] /\ reader[s] = "holds")
      /\ ~Contains(held, x) /\ ~Contains(internal, x) /\ Contains(external, x)
  <2>1. Contains(external, x)
    BY <1>7
  <2>2. sent[s] \in Nat
    BY <1>1 DEF PathTypes
  <2> QED BY <1>5, <2>1, <2>2, InOnePlace
<1>9. k \in InTransit[s]
  <2>1. Holds(s, k)
    BY <1>5, <1>8 DEF Holds
  <2> QED BY <1>8, <2>1, TransitIsHeld
<1>10. \A n \in Nat : Contains(external', Msg(s, n)) => k < n
  <2> SUFFICES ASSUME NEW n \in Nat, NEW i \in 1 .. Len(external'), external'[i] = Msg(s, n)
               PROVE  k < n
    BY DEF Contains
  <2>1. i + 1 \in 1 .. Len(external) /\ 1 < i + 1 /\ external[i + 1] = Msg(s, n)
    BY <1>4
  <2>2. Msg(s, n).stream = s /\ Msg(s, n).n = n
    BY DEF Msg
  <2> QED BY <1>1, <1>4, <1>5, <2>1, <2>2 DEF OrderInv, Sorted
<1>11. \A n \in Nat : Contains(held, Msg(s, n)) \/ Contains(internal, Msg(s, n)) => k < n
  <2> SUFFICES ASSUME NEW n \in Nat,
                      Contains(held, Msg(s, n)) \/ Contains(internal, Msg(s, n))
               PROVE  k < n
    OBVIOUS
  <2>1. Msg(s, n).stream = s /\ Msg(s, n).n = n
    BY DEF Msg
  <2>2. CASE Contains(held, Msg(s, n))
    BY <1>1, <1>4, <1>5, <2>1, <2>2 DEF OrderInv, Before, Contains
  <2>3. CASE Contains(internal, Msg(s, n))
    BY <1>1, <1>4, <1>5, <2>1, <2>3 DEF OrderInv, Before, Contains
  <2> QED BY <2>2, <2>3
<1>12. \A m \in InTransit[s] : k <= m
  <2> SUFFICES ASSUME NEW n \in 1 .. sent[s], Holds(s, n) PROVE k <= n
    BY TransitIsHeld
  <2>1. n \in Nat /\ read[s] \in Nat
    BY <1>1 DEF PathTypes
  <2>2. Contains(external, Msg(s, n)) => k <= n
    <3>1. Msg(s, n) = x => n = k
      BY <1>5, SameMessage
    <3> QED BY <1>7, <1>10, <2>1, <3>1
  <2> QED BY <1>8, <1>11, <2>1, <2>2 DEF Holds
<1>13. \A u \in Streams, n \in Nat : Holds(u, n)' <=> Holds(u, n) /\ ~(u = s /\ n = k)
  <2> SUFFICES ASSUME NEW u \in Streams, NEW n \in Nat
               PROVE  Holds(u, n)' <=> Holds(u, n) /\ ~(u = s /\ n = k)
    OBVIOUS
  <2>1. Msg(u, n) = x <=> u = s /\ n = k
    BY <1>5, SameMessage
  <2>2. /\ Contains(external, Msg(u, n))' <=> Contains(external', Msg(u, n))
        /\ Contains(internal, Msg(u, n))' <=> Contains(internal, Msg(u, n))
        /\ Contains(held, Msg(u, n))' <=> Contains(held, Msg(u, n))
    BY <1>2 DEF Contains, Msg
  <2>3. ~Contains(external', x)
    BY <1>5, <1>10
  <2>4. read[s] \in Nat
    BY <1>1 DEF PathTypes
  <2> QED BY <1>2, <1>7, <1>8, <2>1, <2>2, <2>3, <2>4 DEF Holds
<1>14. InTransit' = [InTransit EXCEPT ![s] = @ \ {k}]
  BY <1>2, <1>13, TransitLoses
<1> QED BY <1>2, <1>6, <1>8, <1>9, <1>12, <1>14 DEF Fifo!Deliver

\* Drops, closing and stopping do nothing to a stream but lose messages of it:
\* the path implements the lossy queue.
THEOREM PathIsLossyFifo == Spec => ImplementsLossyFifo
<1>1. Init => Fifo!Init
  <2> SUFFICES ASSUME Init PROVE Fifo!Init
    OBVIOUS
  <2>1. InTransit = [s \in Streams |-> {}]
    BY DEF Init, InTransit, Zero
  <2> QED BY <2>1 DEF Init, Zero, Fifo!Init
<1>2. StatsInv /\ PathInv /\ [Next]_vars => [Fifo!Next]_(Fifo!vars)
  <2> SUFFICES ASSUME StatsInv, PathInv, [Next]_vars
               PROVE  Fifo!Next \/ UNCHANGED <<sent, InTransit, last>>
    BY DEF Fifo!vars
  <2>1. ASSUME NEW s \in Streams,
               PeerSends(s) \/ ReaderStep(s) \/ CloseStream(s) \/ SetOnMessageDropped(s)
        PROVE  Fifo!Next \/ UNCHANGED <<sent, InTransit, last>>
    BY <2>1, SendImplements, ReaderImplements, DropImplements DEF ReaderStep, Fifo!Next
  <2>2. CASE ForwardTakes \/ ForwardSends \/ Receive
    BY <2>2, TakesImplements, SendsImplements, ReceiveImplements DEF Fifo!Next
  <2>3. ASSUME UNCHANGED <<sent, read, reader, internal, held, external, last>>
        PROVE  UNCHANGED <<sent, InTransit, last>>
    BY <2>3 DEF InTransit, Contains, Msg
  <2>4. CASE Stop \/ ForwardStops
    BY <2>3, <2>4 DEF Stop, ForwardStops
  <2>5. ASSUME NEW c \in Senders, NEW p \in Peers, SendSucceeds(c, p)
        PROVE  UNCHANGED <<sent, InTransit, last>>
    BY <2>3, <2>5 DEF SendSucceeds
  <2>6. CASE UNCHANGED pathVars
    BY <2>3, <2>6 DEF pathVars
  <2> QED BY <2>1, <2>2, <2>4, <2>5, <2>6 DEF Next, ForwarderStep, vars
<1> QED BY <1>1, <1>2, PathCorrect, PTL DEF Spec, ImplementsLossyFifo, Fifo!Spec

-----------------------------------------------------------------------------
(***************************************************************************)
(* Every message is accounted for.                                         *)
(***************************************************************************)

\* What a channel counts: nothing, one more at its end, one less at its head.
LEMMA CountNothing == ASSUME NEW s PROVE CountOf(<<>>, s) = 0
<1>1. {i \in 1 .. Len(<<>>) : <<>>[i].stream = s} = {}
  OBVIOUS
<1> QED BY <1>1, FS_EmptySet DEF CountOf

LEMMA CountFinite ==
  ASSUME NEW q \in Seq(Msgs), NEW s
  PROVE  /\ IsFiniteSet({i \in 1 .. Len(q) : q[i].stream = s})
         /\ CountOf(q, s) \in Nat
<1>1. Len(q) \in Nat
  OBVIOUS
<1>2. IsFiniteSet(1 .. Len(q))
  BY <1>1, FS_Interval
<1>3. {i \in 1 .. Len(q) : q[i].stream = s} \in SUBSET (1 .. Len(q))
  OBVIOUS
<1>4. IsFiniteSet({i \in 1 .. Len(q) : q[i].stream = s})
  BY <1>2, <1>3, FS_Subset
<1> QED BY <1>4, FS_CardinalityType DEF CountOf

LEMMA CountAppend ==
  ASSUME NEW q \in Seq(Msgs), NEW m \in Msgs, NEW s
  PROVE  CountOf(Append(q, m), s) = CountOf(q, s) + (IF m.stream = s THEN 1 ELSE 0)
<1> DEFINE old == {i \in 1 .. Len(q) : q[i].stream = s}
           new == {i \in 1 .. Len(Append(q, m)) : Append(q, m)[i].stream = s}
<1>1. /\ Len(Append(q, m)) = Len(q) + 1 /\ Append(q, m)[Len(q) + 1] = m /\ Len(q) \in Nat
      /\ \A i \in 1 .. Len(q) : Append(q, m)[i] = q[i]
  OBVIOUS
<1>2. \A i : i \in 1 .. Len(q) + 1 <=> i \in 1 .. Len(q) \/ i = Len(q) + 1
  BY <1>1
<1>3. IF m.stream = s THEN new = old \cup {Len(q) + 1} ELSE new = old
  BY <1>1, <1>2
<1>4. Len(q) + 1 \notin old
  BY <1>1
<1>5. IsFiniteSet(old) /\ Cardinality(old) \in Nat
  BY CountFinite DEF CountOf
<1>6. CountOf(q, s) = Cardinality(old) /\ CountOf(Append(q, m), s) = Cardinality(new)
  BY DEF CountOf
<1> HIDE DEF old, new
<1> QED BY <1>3, <1>4, <1>5, <1>6, FS_AddElement

LEMMA CountTail ==
  ASSUME NEW q \in Seq(Msgs), q # <<>>, NEW s
  PROVE  CountOf(q, s) = CountOf(Tail(q), s) + (IF Head(q).stream = s THEN 1 ELSE 0)
<1> DEFINE old == {i \in 1 .. Len(q) : q[i].stream = s}
           rest == {i \in 1 .. Len(Tail(q)) : Tail(q)[i].stream = s}
           later == old \ {1}
           shift == [i \in rest |-> i + 1]
<1>1. /\ Head(q) = q[1] /\ Len(Tail(q)) = Len(q) - 1 /\ Len(q) \in Nat \ {0}
      /\ \A i \in 1 .. Len(Tail(q)) : i + 1 \in 1 .. Len(q) /\ Tail(q)[i] = q[i + 1]
      /\ Tail(q) \in Seq(Msgs)
  BY HeadAndTail
<1>2. shift \in Bijection(rest, later)
  <2>1. ASSUME NEW i \in rest PROVE i + 1 \in later /\ i \in Int
    BY <1>1
  <2>2. shift \in [rest -> later]
    BY <2>1
  <2>3. \A i, j \in rest : shift[i] = shift[j] => i = j
    BY <2>1
  <2>4. ASSUME NEW k \in later PROVE \E i \in rest : shift[i] = k
    <3>1. k - 1 \in 1 .. Len(Tail(q)) /\ (k - 1) + 1 = k
      BY <1>1
    <3>2. k - 1 \in rest
      BY <1>1, <3>1
    <3> QED BY <3>1, <3>2
  <2> HIDE DEF rest, later, shift
  <2> QED BY <2>2, <2>3, <2>4 DEF Bijection, Injection, Surjection, IsInjective
<1>3. IsFiniteSet(old) /\ Cardinality(old) \in Nat /\ IsFiniteSet(rest)
      /\ Cardinality(rest) \in Nat
  BY <1>1, CountFinite DEF CountOf
<1>4. CountOf(q, s) = Cardinality(old) /\ CountOf(Tail(q), s) = Cardinality(rest)
  BY DEF CountOf
<1>5. 1 \in old <=> Head(q).stream = s
  BY <1>1
<1>6. Cardinality(later) = IF 1 \in old THEN Cardinality(old) - 1 ELSE Cardinality(old)
  <2> HIDE DEF old
  <2> QED BY <1>3, FS_RemoveElement
<1> HIDE DEF old, rest, later, shift
<1>7. Cardinality(later) = Cardinality(rest)
  <2>1. ExistsBijection(rest, later)
    BY <1>2 DEF ExistsBijection
  <2> QED BY <1>3, <2>1, FS_Bijection
<1> QED BY <1>3, <1>4, <1>5, <1>6, <1>7

\* A single message counts where it belongs.
LEMMA CountOne ==
  ASSUME NEW q \in Seq(Msgs), Len(q) = 1, NEW s
  PROVE  CountOf(q, s) = IF q[1].stream = s THEN 1 ELSE 0
<1>1. {i \in 1 .. Len(q) : q[i].stream = s} = IF q[1].stream = s THEN {1} ELSE {}
  OBVIOUS
<1> QED BY <1>1, FS_Singleton, FS_EmptySet DEF CountOf

\* The rest of the types: what the counters and the bounded channels hold.
LossTypes ==
  /\ closed \subseteq Streams /\ open \in BOOLEAN /\ budget \in Nat
  /\ got \in [Streams -> Nat] /\ reported \in [Streams -> Nat] /\ silent \in [Streams -> Nat]
  /\ early \in [Streams -> Nat] /\ watched \subseteq Streams
  /\ Len(internal) <= MessageBufferSize /\ Len(external) <= MessageBufferSize

\* The messages of s that the node holds, on their way or stranded.
InNode(s) ==
  CountOf(internal, s) + CountOf(held, s) + CountOf(external, s)
  + (IF reader[s] = "holds" THEN 1 ELSE 0)

\* The account of a stream.
Account(s) == read[s] = InNode(s) + got[s] + reported[s] + silent[s] + early[s]
Silence(s) == silent[s] <= (IF s \in closed /\ reader[s] = "done" THEN 1 ELSE 0)

\* An EncryptedStream has its callback before its read loop starts.
Watchful(s) == s \in Encrypted => s \in watched /\ early[s] = 0

LossInv == LossTypes /\ \A s \in Streams : Account(s) /\ Silence(s) /\ Watchful(s)

LEMMA LossInitially == Init => LossInv
<1> SUFFICES ASSUME Init PROVE LossInv
  OBVIOUS
<1>1. LossTypes
  <2>1. Zero \in [Streams -> Nat] /\ Len(<<>>) = 0
    BY DEF Zero
  <2> QED BY <2>1, PathAssumption DEF Init, LossTypes
<1>2. ASSUME NEW s \in Streams PROVE Account(s) /\ Silence(s) /\ Watchful(s)
  <2>1. /\ read[s] = 0 /\ got[s] = 0 /\ reported[s] = 0 /\ silent[s] = 0 /\ early[s] = 0
        /\ reader[s] = "next" /\ watched = Encrypted
    BY DEF Init, Zero
  <2>2. CountOf(internal, s) = 0 /\ CountOf(held, s) = 0 /\ CountOf(external, s) = 0
    BY CountNothing DEF Init
  <2> QED BY <2>1, <2>2 DEF Account, Silence, Watchful, InNode
<1> QED BY <1>1, <1>2 DEF LossInv

\* The numbers that an account is made of.
LEMMA AccountTypes ==
  ASSUME PathTypes, LossTypes, NEW s \in Streams
  PROVE  /\ read[s] \in Nat /\ got[s] \in Nat /\ reported[s] \in Nat /\ silent[s] \in Nat
         /\ early[s] \in Nat
         /\ CountOf(internal, s) \in Nat /\ CountOf(held, s) \in Nat
         /\ CountOf(external, s) \in Nat
<1>1. /\ internal \in Seq(Msgs) /\ held \in Seq(Msgs) /\ external \in Seq(Msgs)
      /\ read \in [Streams -> Nat]
  BY DEF PathTypes
<1>2. /\ got \in [Streams -> Nat] /\ reported \in [Streams -> Nat]
      /\ silent \in [Streams -> Nat] /\ early \in [Streams -> Nat]
  BY DEF LossTypes
<1> QED BY <1>1, <1>2, CountFinite

\* The account of a stream that a step does not touch.
LEMMA AccountKept ==
  ASSUME LossInv, NEW s \in Streams,
         /\ read'[s] = read[s] /\ got'[s] = got[s] /\ reported'[s] = reported[s]
         /\ silent'[s] = silent[s] /\ (reader'[s] = "holds" <=> reader[s] = "holds")
         /\ early'[s] = early[s] /\ watched \subseteq watched'
         /\ reader[s] = "done" => reader'[s] = "done"
         /\ s \in closed => s \in closed'
         /\ CountOf(internal', s) = CountOf(internal, s)
         /\ CountOf(held', s) = CountOf(held, s)
         /\ CountOf(external', s) = CountOf(external, s),
         PathTypes, PathTypes', LossTypes'
  PROVE  Account(s)' /\ Silence(s)' /\ Watchful(s)'
<1>1. Account(s) /\ Silence(s) /\ Watchful(s)
  BY DEF LossInv
<1>2. Account(s)'
  BY <1>1 DEF Account, InNode, CountOf
<1>3. silent[s] \in Nat /\ silent'[s] \in Nat
  BY DEF LossInv, LossTypes
<1>4. Silence(s)'
  BY <1>1, <1>3 DEF Silence
<1>5. Watchful(s)'
  BY <1>1 DEF Watchful
<1> QED BY <1>2, <1>4, <1>5

\* The read loop of s.
LEMMA ReaderAccounts ==
  ASSUME PathInv, PathInv', LossInv, NEW s \in Streams,
         PeerSends(s) \/ ReaderStep(s) \/ CloseStream(s) \/ SetOnMessageDropped(s)
  PROVE  LossInv'
<1>1. PathTypes /\ PathTypes' /\ LossTypes
  BY DEF PathInv, LossInv
<1>2. /\ read \in [Streams -> Nat] /\ reader \in [Streams -> {"next", "holds", "done"}]
      /\ got \in [Streams -> Nat] /\ reported \in [Streams -> Nat]
      /\ silent \in [Streams -> Nat] /\ internal \in Seq(Msgs) /\ early \in [Streams -> Nat]
  BY <1>1 DEF PathTypes, LossTypes
<1>3. UNCHANGED <<held, external, got, open>>
  BY DEF PeerSends, ReaderStep, CloseStream, ReadNext, ReadEnds, DecryptionFails, Push,
         ReturnWithMessage, DropFull, SetOnMessageDropped
<1>4. Msg(s, read[s]) \in Msgs /\ Msg(s, read[s]).stream = s
  BY <1>2 DEF Msg, Msgs
<1>5. CASE PeerSends(s) \/ ReadEnds(s) \/ CloseStream(s) \/ SetOnMessageDropped(s)
  <2>1. /\ UNCHANGED <<read, internal, reported, silent, early>> /\ closed \subseteq closed'
        /\ watched \subseteq watched' /\ watched' \subseteq Streams
        /\ closed' \subseteq Streams /\ budget' \in Nat
        /\ \A u \in Streams : /\ reader'[u] = "holds" <=> reader[u] = "holds"
                              /\ reader[u] = "done" => reader'[u] = "done"
    BY <1>1, <1>2, <1>5 DEF PeerSends, ReadEnds, CloseStream, SetOnMessageDropped, LossTypes
  <2>2. LossTypes'
    BY <1>1, <1>3, <2>1 DEF LossTypes
  <2>3. ASSUME NEW u \in Streams PROVE Account(u)' /\ Silence(u)' /\ Watchful(u)'
    BY <1>1, <1>3, <2>1, <2>2, AccountKept
  <2> QED BY <2>2, <2>3 DEF LossInv
<1>6. ASSUME ReadNext(s) \/ DecryptionFails(s) \/ Push(s) \/ ReturnWithMessage(s) \/ DropFull(s)
      PROVE  /\ LossTypes' /\ closed' = closed /\ watched' = watched
             /\ \A u \in Streams \ {s} :
                  /\ read'[u] = read[u] /\ reader'[u] = reader[u]
                  /\ reported'[u] = reported[u] /\ silent'[u] = silent[u]
                  /\ early'[u] = early[u]
                  /\ CountOf(internal', u) = CountOf(internal, u)
             /\ reader[s] # "done" /\ CountOf(internal', s) \in Nat
             /\ (IF reader'[s] = "holds" THEN 1 ELSE 0) + CountOf(internal', s)
                  + reported'[s] + silent'[s] + early'[s] + read[s]
                = (IF reader[s] = "holds" THEN 1 ELSE 0) + CountOf(internal, s)
                  + reported[s] + silent[s] + early[s] + read'[s]
             /\ \/ silent'[s] = silent[s]
                \/ silent'[s] = silent[s] + 1 /\ s \in closed /\ reader'[s] = "done"
             /\ early'[s] = early[s] \/ s \notin watched
  <2>1. \A u \in Streams : CountOf(internal, u) \in Nat
    BY <1>1, AccountTypes
  <2>2. CASE ReadNext(s)
    <3>1. /\ UNCHANGED <<closed, internal, reported, silent, watched, early, budget>>
          /\ read'[s] = read[s] + 1 /\ reader[s] = "next" /\ reader'[s] = "holds"
          /\ \A u \in Streams \ {s} : read'[u] = read[u] /\ reader'[u] = reader[u]
      BY <1>2, <2>2 DEF ReadNext, Bump
    <3>2. LossTypes'
      BY <1>1, <1>3, <3>1 DEF LossTypes
    <3>3. /\ reported[s] \in Nat /\ silent[s] \in Nat /\ read[s] \in Nat /\ early[s] \in Nat
          /\ CountOf(internal, s) \in Nat /\ CountOf(internal', s) = CountOf(internal, s)
          /\ reported'[s] = reported[s] /\ early'[s] = early[s] /\ silent'[s] = silent[s]
      BY <1>2, <2>1, <3>1
    <3>4. (IF reader'[s] = "holds" THEN 1 ELSE 0) + CountOf(internal', s)
            + reported'[s] + silent'[s] + early'[s] + read[s]
          = (IF reader[s] = "holds" THEN 1 ELSE 0) + CountOf(internal, s)
            + reported[s] + silent[s] + early[s] + read'[s]
      BY <3>1, <3>3
    <3> QED BY <3>1, <3>2, <3>3, <3>4
  <2>3. CASE Push(s)
    <3>1. /\ UNCHANGED <<closed, read, reported, silent, watched, early, budget>>
          /\ internal' = Append(internal, Msg(s, read[s]))
          /\ Len(internal) < MessageBufferSize /\ reader[s] = "holds" /\ reader'[s] # "holds"
          /\ \A u \in Streams \ {s} : reader'[u] = reader[u]
      BY <1>2, <2>3 DEF Push, Continue
    <3>2. Len(internal') = Len(internal) + 1 /\ Len(internal) \in Nat
      BY <1>2, <1>4, <3>1
    <3>3. LossTypes'
      BY <1>1, <1>3, <3>1, <3>2, PathAssumption DEF LossTypes
    <3>4. \A u \in Streams : CountOf(internal', u) = CountOf(internal, u)
                                                       + (IF s = u THEN 1 ELSE 0)
      BY <1>2, <1>4, <3>1, CountAppend
    <3> QED BY <1>2, <2>1, <3>1, <3>3, <3>4
  <2>4. CASE ReturnWithMessage(s)
    <3>1. /\ UNCHANGED <<closed, internal, reported, read, watched, early, budget>> /\ s \in closed
          /\ silent' \in [Streams -> Nat] /\ silent'[s] = silent[s] + 1
          /\ reader[s] = "holds" /\ reader'[s] = "done"
          /\ \A u \in Streams \ {s} : silent'[u] = silent[u] /\ reader'[u] = reader[u]
      BY <1>2, <2>4 DEF ReturnWithMessage, Bump
    <3>2. LossTypes'
      BY <1>1, <1>3, <3>1 DEF LossTypes
    <3>3. /\ reported[s] \in Nat /\ silent[s] \in Nat /\ read[s] \in Nat /\ early[s] \in Nat
          /\ CountOf(internal, s) \in Nat /\ CountOf(internal', s) = CountOf(internal, s)
          /\ read'[s] = read[s] /\ reported'[s] = reported[s] /\ early'[s] = early[s]
      BY <1>2, <2>1, <3>1
    <3>4. (IF reader'[s] = "holds" THEN 1 ELSE 0) + CountOf(internal', s)
            + reported'[s] + silent'[s] + early'[s] + read[s]
          = (IF reader[s] = "holds" THEN 1 ELSE 0) + CountOf(internal, s)
            + reported[s] + silent[s] + early[s] + read'[s]
      BY <3>1, <3>3
    <3> QED BY <3>1, <3>2, <3>3, <3>4
  <2>5. CASE DecryptionFails(s) \/ DropFull(s)
    <3>1. /\ UNCHANGED <<closed, internal, silent, read, watched, budget>>
          /\ reader[s] = "holds"
          /\ \/ reported' = Bump(reported, s) /\ early' = early
             \/ early' = Bump(early, s) /\ reported' = reported /\ s \notin watched
      BY <2>5 DEF DecryptionFails, DropFull
    <3>2. reader'[s] # "holds" /\ \A u \in Streams \ {s} : reader'[u] = reader[u]
      <4>1. CASE DecryptionFails(s)
        BY <1>2, <4>1 DEF DecryptionFails, Continue
      <4>2. CASE DropFull(s)
        BY <1>2, <4>2 DEF DropFull
      <4> QED BY <2>5, <4>1, <4>2
    <3>3. /\ reported' \in [Streams -> Nat] /\ early' \in [Streams -> Nat]
          /\ reported'[s] + early'[s] = reported[s] + early[s] + 1
          /\ early'[s] = early[s] \/ s \notin watched
          /\ \A u \in Streams \ {s} : reported'[u] = reported[u] /\ early'[u] = early[u]
      <4>1. CASE reported' = Bump(reported, s) /\ early' = early
        BY <1>2, <4>1 DEF Bump
      <4>2. CASE early' = Bump(early, s) /\ reported' = reported /\ s \notin watched
        BY <1>2, <4>2 DEF Bump
      <4> QED BY <3>1, <4>1, <4>2
    <3>4. LossTypes'
      BY <1>1, <1>3, <3>1, <3>3 DEF LossTypes
    <3>5. /\ reported[s] \in Nat /\ silent[s] \in Nat /\ read[s] \in Nat /\ early[s] \in Nat
          /\ reported'[s] \in Nat /\ early'[s] \in Nat
          /\ CountOf(internal, s) \in Nat /\ CountOf(internal', s) = CountOf(internal, s)
          /\ read'[s] = read[s] /\ silent'[s] = silent[s]
      BY <1>2, <2>1, <3>1, <3>3
    <3>6. (IF reader'[s] = "holds" THEN 1 ELSE 0) + CountOf(internal', s)
            + reported'[s] + silent'[s] + early'[s] + read[s]
          = (IF reader[s] = "holds" THEN 1 ELSE 0) + CountOf(internal, s)
            + reported[s] + silent[s] + early[s] + read'[s]
      BY <3>1, <3>2, <3>3, <3>5
    <3> QED BY <3>1, <3>2, <3>3, <3>4, <3>5, <3>6
  <2> QED BY <1>6, <2>2, <2>3, <2>4, <2>5
<1>7. ASSUME ReadNext(s) \/ DecryptionFails(s) \/ Push(s) \/ ReturnWithMessage(s) \/ DropFull(s)
      PROVE  LossInv'
  <2>1. ASSUME NEW u \in Streams \ {s} PROVE Account(u)' /\ Silence(u)' /\ Watchful(u)'
    BY <1>1, <1>3, <1>6, <1>7, AccountKept
  <2>2. /\ read[s] \in Nat /\ got[s] \in Nat /\ reported[s] \in Nat /\ silent[s] \in Nat
        /\ CountOf(internal, s) \in Nat /\ CountOf(held, s) \in Nat
        /\ CountOf(external, s) \in Nat /\ early[s] \in Nat /\ early'[s] \in Nat
        /\ read'[s] \in Nat /\ reported'[s] \in Nat /\ silent'[s] \in Nat
    BY <1>1, <1>6, <1>7, AccountTypes DEF PathTypes, LossTypes
  <2>3. Account(s) /\ Silence(s) /\ Watchful(s)
    BY DEF LossInv
  <2>4. /\ CountOf(internal, s)' = CountOf(internal', s)
        /\ CountOf(held, s)' = CountOf(held, s) /\ CountOf(external, s)' = CountOf(external, s)
    BY <1>3 DEF CountOf
  <2>5. Account(s)'
    <3>1. PICK a \in 0 .. 1, b \in 0 .. 1 : /\ a = IF reader[s] = "holds" THEN 1 ELSE 0
                                            /\ b = IF reader'[s] = "holds" THEN 1 ELSE 0
      OBVIOUS
    <3>2. read[s] = CountOf(internal, s) + CountOf(held, s) + CountOf(external, s) + a
                    + got[s] + reported[s] + silent[s] + early[s]
      BY <2>3, <3>1 DEF Account, InNode
    <3>3. /\ b + CountOf(internal', s) + reported'[s] + silent'[s] + early'[s] + read[s]
             = a + CountOf(internal, s) + reported[s] + silent[s] + early[s] + read'[s]
          /\ CountOf(internal', s) \in Nat
      BY <1>6, <1>7, <3>1
    <3> DEFINE x == a + CountOf(internal, s) + reported[s] + silent[s] + early[s]
               y == b + CountOf(internal', s) + reported'[s] + silent'[s] + early'[s]
               rest == CountOf(held, s) + CountOf(external, s) + got[s]
    <3>4. read'[s] = CountOf(internal', s) + CountOf(held, s) + CountOf(external, s) + b
                     + got[s] + reported'[s] + silent'[s] + early'[s]
      <4>1. x \in Nat /\ y \in Nat /\ rest \in Nat /\ read[s] \in Nat /\ read'[s] \in Nat
        BY <2>2, <3>1, <3>3
      <4>2. read[s] = rest + x
        BY <2>2, <3>1, <3>2
      <4>3. y + read[s] = x + read'[s]
        BY <3>3
      <4>4. read'[s] = rest + y
        <5> HIDE DEF x, y, rest
        <5> QED BY <4>1, <4>2, <4>3
      <4> QED BY <2>2, <3>1, <3>3, <4>4
    <3> QED BY <1>3, <2>4, <3>1, <3>4 DEF Account, InNode
  <2>6. Silence(s)'
    BY <1>6, <1>7, <2>2, <2>3 DEF Silence
  <2>7. Watchful(s)'
    BY <1>6, <1>7, <2>3 DEF Watchful
  <2> QED BY <1>6, <1>7, <2>1, <2>5, <2>6, <2>7 DEF LossInv
<1> QED BY <1>5, <1>7 DEF ReaderStep

\* A message moves inside the node, reaches the application, or is reported:
\* the account of a stream has as much on either side as before.
LEMMA AccountMoves ==
  ASSUME PathInv, PathInv', LossInv, LossTypes', NEW u \in Streams,
         UNCHANGED <<read, reader, closed, silent, watched, early>>,
         CountOf(internal', u) + CountOf(held', u) + CountOf(external', u) + got'[u] + reported'[u]
         = CountOf(internal, u) + CountOf(held, u) + CountOf(external, u) + got[u] + reported[u]
  PROVE  Account(u)' /\ Silence(u)' /\ Watchful(u)'
<1>1. PathTypes /\ PathTypes' /\ LossTypes
  BY DEF PathInv, LossInv
<1>2. /\ read[u] \in Nat /\ got[u] \in Nat /\ reported[u] \in Nat /\ silent[u] \in Nat
      /\ early[u] \in Nat
      /\ CountOf(internal, u) \in Nat /\ CountOf(held, u) \in Nat
      /\ CountOf(external, u) \in Nat
  BY <1>1, AccountTypes
<1>3. /\ got'[u] \in Nat /\ reported'[u] \in Nat
      /\ CountOf(internal', u) \in Nat /\ CountOf(held', u) \in Nat
      /\ CountOf(external', u) \in Nat
  BY <1>1, CountFinite DEF PathTypes, LossTypes
<1>4. Account(u) /\ Silence(u) /\ Watchful(u)
  BY DEF LossInv
<1>5. PICK a \in 0 .. 1 : a = IF reader[u] = "holds" THEN 1 ELSE 0
  OBVIOUS
<1>6. read[u] = CountOf(internal, u) + CountOf(held, u) + CountOf(external, u) + a
                + got[u] + reported[u] + silent[u] + early[u]
  BY <1>4, <1>5 DEF Account, InNode
<1>7. read[u] = CountOf(internal', u) + CountOf(held', u) + CountOf(external', u) + a
                + got'[u] + reported'[u] + silent[u] + early[u]
  <2>1. PICK x \in Nat : x = CountOf(internal, u) + CountOf(held, u) + CountOf(external, u)
                             + got[u] + reported[u]
    BY <1>2
  <2>2. read[u] = x + a + silent[u] + early[u]
    BY <1>2, <1>6, <2>1
  <2>3. x = CountOf(internal', u) + CountOf(held', u) + CountOf(external', u)
            + got'[u] + reported'[u]
    BY <2>1
  <2> QED BY <1>2, <1>3, <2>2, <2>3
<1>8. /\ CountOf(internal, u)' = CountOf(internal', u)
      /\ CountOf(held, u)' = CountOf(held', u) /\ CountOf(external, u)' = CountOf(external', u)
  BY DEF CountOf
<1>9. Account(u)'
  BY <1>5, <1>7, <1>8 DEF Account, InNode
<1>10. Silence(u)' /\ Watchful(u)'
  BY <1>4 DEF Silence, Watchful
<1> QED BY <1>9, <1>10

LEMMA TakesAccounts ==
  ASSUME PathInv, PathInv', LossInv, ForwardTakes PROVE LossInv'
<1>1. PathTypes /\ PathTypes' /\ LossTypes /\ ForwarderInv
  BY DEF PathInv, LossInv
<1>2. PICK m \in Msgs : m = Head(internal)
  BY <1>1, HeadAndTail DEF ForwardTakes, PathTypes
<1>3. /\ internal # <<>> /\ internal' = Tail(internal) /\ held' = <<m>> /\ held = <<>>
      /\ UNCHANGED <<read, reader, closed, external, open, got, reported, silent, watched,
                   early, budget>>
      /\ internal \in Seq(Msgs) /\ held' \in Seq(Msgs)
  BY <1>1, <1>2 DEF ForwardTakes, PathTypes, ForwarderInv
<1>4. Len(internal') = Len(internal) - 1 /\ Len(internal) \in Nat
  BY <1>3, HeadAndTail
<1>5. LossTypes'
  BY <1>1, <1>3, <1>4, PathAssumption DEF LossTypes
<1>6. ASSUME NEW u \in Streams PROVE Account(u)' /\ Silence(u)' /\ Watchful(u)'
  <2>1. CountOf(internal, u) = CountOf(internal', u) + (IF m.stream = u THEN 1 ELSE 0)
    BY <1>2, <1>3, CountTail
  <2>2. CountOf(held, u) = 0
    BY <1>3, CountNothing
  <2>3. CountOf(held', u) = IF m.stream = u THEN 1 ELSE 0
    <3>1. Len(held') = 1 /\ held'[1] = m
      BY <1>3
    <3> QED BY <1>3, <3>1, CountOne
  <2>4. /\ got[u] \in Nat /\ reported[u] \in Nat /\ CountOf(external, u) \in Nat
        /\ CountOf(internal', u) \in Nat
    BY <1>1, AccountTypes, CountFinite DEF PathTypes
  <2>5. CountOf(internal', u) + CountOf(held', u) + CountOf(external', u) + got'[u] + reported'[u]
        = CountOf(internal, u) + CountOf(held, u) + CountOf(external, u) + got[u] + reported[u]
    <3>1. got'[u] = got[u] /\ reported'[u] = reported[u]
          /\ CountOf(external', u) = CountOf(external, u)
      BY <1>3
    <3> QED BY <2>1, <2>2, <2>3, <2>4, <3>1
  <2> QED BY <1>3, <1>5, <2>5, AccountMoves
<1> QED BY <1>5, <1>6 DEF LossInv

LEMMA SendsAccounts ==
  ASSUME PathInv, PathInv', LossInv, ForwardSends PROVE LossInv'
<1>1. PathTypes /\ PathTypes' /\ LossTypes /\ ForwarderInv
  BY DEF PathInv, LossInv
<1>2. Len(held) = 1 /\ 1 \in 1 .. Len(held) /\ held \in Seq(Msgs) /\ external \in Seq(Msgs)
  <2>1. Len(held) = 1
    BY <1>1 DEF ForwardSends, ForwarderInv
  <2> QED BY <1>1, <2>1 DEF PathTypes
<1>3. PICK m \in Msgs : m = held[1] /\ m.stream \in Streams
  BY <1>2, MessageTyped
<1>4. /\ UNCHANGED <<read, reader, closed, internal, open, got, silent, watched, early, budget>>
      /\ held' = <<>>
      /\ \/ /\ external' = Append(external, m) /\ Len(external) < MessageBufferSize
            /\ reported' = reported
         \/ external' = external /\ reported' = Bump(reported, m.stream)
  BY <1>3 DEF ForwardSends
<1>5. \A u \in Streams : /\ CountOf(held, u) = IF m.stream = u THEN 1 ELSE 0
                         /\ CountOf(held', u) = 0
  <2>1. \A u \in Streams : CountOf(held, u) = IF held[1].stream = u THEN 1 ELSE 0
    BY <1>2, CountOne
  <2>2. \A u \in Streams : CountOf(<<>>, u) = 0
    BY CountNothing
  <2> QED BY <1>3, <1>4, <2>1, <2>2
<1>6. \A u \in Streams : /\ got[u] \in Nat /\ reported[u] \in Nat /\ CountOf(external, u) \in Nat
                         /\ CountOf(internal, u) \in Nat
  BY <1>1, AccountTypes
<1>7. LossTypes' /\ \A u \in Streams :
        CountOf(external', u) + reported'[u]
        = CountOf(external, u) + reported[u] + (IF m.stream = u THEN 1 ELSE 0)
  <2>1. CASE external' = Append(external, m) /\ Len(external) < MessageBufferSize
             /\ reported' = reported
    <3>1. Len(external') = Len(external) + 1 /\ Len(external) \in Nat
      BY <1>2, <2>1
    <3>2. LossTypes'
      BY <1>1, <1>4, <2>1, <3>1, PathAssumption DEF LossTypes
    <3>3. \A u \in Streams : CountOf(external', u) = CountOf(external, u)
                                                       + (IF m.stream = u THEN 1 ELSE 0)
      BY <1>2, <2>1, CountAppend
    <3> QED BY <1>6, <2>1, <3>2, <3>3
  <2>2. CASE external' = external /\ reported' = Bump(reported, m.stream)
    <3>1. /\ reported' \in [Streams -> Nat]
          /\ \A u \in Streams : reported'[u] = reported[u] + (IF m.stream = u THEN 1 ELSE 0)
      BY <1>1, <1>3, <2>2 DEF Bump, LossTypes
    <3>2. LossTypes'
      BY <1>1, <1>4, <2>2, <3>1 DEF LossTypes
    <3> QED BY <1>6, <2>2, <3>1, <3>2
  <2> QED BY <1>4, <2>1, <2>2
<1>8. ASSUME NEW u \in Streams PROVE Account(u)' /\ Silence(u)' /\ Watchful(u)'
  <2>1. CountOf(external', u) \in Nat /\ reported'[u] \in Nat
    BY <1>1, <1>7, CountFinite DEF PathTypes, LossTypes
  <2>2. got'[u] = got[u] /\ CountOf(internal', u) = CountOf(internal, u)
    BY <1>4
  <2>3. CountOf(internal', u) + CountOf(held', u) + CountOf(external', u) + got'[u] + reported'[u]
        = CountOf(internal, u) + CountOf(held, u) + CountOf(external, u) + got[u] + reported[u]
    BY <1>5, <1>6, <1>7, <2>1, <2>2
  <2> QED BY <1>4, <1>7, <2>3, AccountMoves
<1> QED BY <1>7, <1>8 DEF LossInv

LEMMA ReceiveAccounts ==
  ASSUME PathInv, PathInv', LossInv, Receive PROVE LossInv'
<1>1. PathTypes /\ PathTypes' /\ LossTypes
  BY DEF PathInv, LossInv
<1>2. PICK m \in Msgs : m = Head(external) /\ m.stream \in Streams
  BY <1>1, HeadAndTail DEF Receive, PathTypes
<1>3. /\ external # <<>> /\ external' = Tail(external) /\ external \in Seq(Msgs)
      /\ UNCHANGED <<read, reader, closed, internal, held, open, reported, silent, watched,
                   early, budget>>
      /\ got' = Bump(got, m.stream)
  BY <1>1, <1>2 DEF Receive, PathTypes
<1>4. Len(external') = Len(external) - 1 /\ Len(external) \in Nat
  BY <1>3, HeadAndTail
<1>5. /\ got' \in [Streams -> Nat]
      /\ \A u \in Streams : got'[u] = got[u] + (IF m.stream = u THEN 1 ELSE 0)
  BY <1>1, <1>2, <1>3 DEF Bump, LossTypes
<1>6. LossTypes'
  BY <1>1, <1>3, <1>4, <1>5, PathAssumption DEF LossTypes
<1>7. ASSUME NEW u \in Streams PROVE Account(u)' /\ Silence(u)' /\ Watchful(u)'
  <2>1. CountOf(external, u) = CountOf(external', u) + (IF m.stream = u THEN 1 ELSE 0)
    BY <1>2, <1>3, CountTail
  <2>2. /\ got[u] \in Nat /\ reported[u] \in Nat /\ CountOf(internal, u) \in Nat
        /\ CountOf(held, u) \in Nat /\ CountOf(external', u) \in Nat
    BY <1>1, AccountTypes, CountFinite DEF PathTypes
  <2>3. /\ CountOf(internal', u) = CountOf(internal, u) /\ CountOf(held', u) = CountOf(held, u)
        /\ reported'[u] = reported[u]
    BY <1>3
  <2>4. CountOf(internal', u) + CountOf(held', u) + CountOf(external', u) + got'[u] + reported'[u]
        = CountOf(internal, u) + CountOf(held, u) + CountOf(external, u) + got[u] + reported[u]
    BY <1>5, <2>1, <2>2, <2>3
  <2> QED BY <1>3, <1>6, <2>4, AccountMoves
<1> QED BY <1>6, <1>7 DEF LossInv

\* One step of the node.
LEMMA LossStep ==
  ASSUME PathInv, PathInv', LossInv, [Next]_vars PROVE LossInv'
<1>1. PathTypes /\ PathTypes' /\ LossTypes
  BY DEF PathInv, LossInv
<1>2. ASSUME UNCHANGED <<read, reader, internal, held, external, got, reported, silent,
                         watched, early>>,
             closed \subseteq closed', LossTypes'
      PROVE  LossInv'
  <2>1. ASSUME NEW u \in Streams PROVE Account(u)' /\ Silence(u)' /\ Watchful(u)'
    BY <1>1, <1>2, AccountKept
  <2> QED BY <1>2, <2>1 DEF LossInv
<1>3. CASE Stop
  BY <1>1, <1>2, <1>3 DEF Stop, LossTypes
<1>4. CASE ForwardStops
  BY <1>1, <1>2, <1>4 DEF ForwardStops, LossTypes
<1>5. ASSUME NEW c \in Senders, NEW p \in Peers, SendSucceeds(c, p) PROVE LossInv'
  BY <1>1, <1>2, <1>5 DEF SendSucceeds, LossTypes
<1>6. CASE UNCHANGED pathVars
  BY <1>1, <1>2, <1>6 DEF pathVars, LossTypes
<1> QED BY <1>3, <1>4, <1>5, <1>6, ReaderAccounts, TakesAccounts, SendsAccounts, ReceiveAccounts
       DEF Next, ForwarderStep, vars

\* The forwarder ends only after Stop.
EndInv == calls[Forwarder].pc = "done" => stopped

LEMMA EndStep == StatsInv /\ EndInv /\ [Next]_vars => EndInv'
<1> SUFFICES ASSUME StatsInv, EndInv, [Next]_vars PROVE EndInv'
  OBVIOUS
<1>1. StatsTypeOK /\ Forwarder \in Callers
  BY ForwarderCalls DEF StatsInv
<1>2. CASE UNCHANGED <<calls, stopped>>
  BY <1>2 DEF EndInv
<1>3. CASE Stop
  BY <1>3 DEF Stop, EndInv
<1>4. CASE ForwarderStep
  <2>1. CASE ForwardTakes \/ ForwardSends
    BY <1>1, <2>1 DEF ForwardTakes, ForwardSends, Begins, Idle, StatsTypeOK, EndInv
  <2>2. CASE ForwardStops
    BY <2>2 DEF ForwardStops, EndInv
  <2> QED BY <1>4, <2>1, <2>2 DEF ForwarderStep
<1>5. ASSUME NEW c \in Senders, NEW p \in Peers, SendSucceeds(c, p) PROVE EndInv'
  <2>1. calls'[Forwarder] = calls[Forwarder] /\ stopped' = stopped
    BY <1>1, <1>5, ForwarderCalls DEF SendSucceeds, Begins, StatsTypeOK
  <2> QED BY <2>1 DEF EndInv
<1>6. ASSUME NEW c \in Callers, CallStep(c) PROVE EndInv'
  <2>1. stopped' = stopped /\ (c # Forwarder => calls'[Forwarder] = calls[Forwarder])
    BY <1>1, <1>6 DEF CallStep, GetOrCreate, RecordMessageSent, Warn, RecordMessageReceived, StatsTypeOK
  <2>2. c = Forwarder => calls'[Forwarder].pc # "done"
    BY <1>1, <1>6 DEF CallStep, GetOrCreate, RecordMessageSent, Warn, RecordMessageReceived,
                      Idle, StatsTypeOK
  <2> QED BY <2>1, <2>2 DEF EndInv
<1>7. CASE CleanupStep
  BY <1>2, <1>7 DEF CleanupStep, CleanupTick, CleanupLooks, CleanupDeletes, CleanupUnlocks,
                    CleanupEnds
<1>8. ASSUME NEW s \in Streams,
             PeerSends(s) \/ ReaderStep(s) \/ CloseStream(s) \/ SetOnMessageDropped(s)
      PROVE  EndInv'
  BY <1>2, <1>8 DEF PeerSends, ReaderStep, CloseStream, SetOnMessageDropped, ReadNext, ReadEnds,
                    DecryptionFails, Push, ReturnWithMessage, DropFull, statsVars
<1>9. CASE Receive
  BY <1>2, <1>9 DEF Receive, statsVars
<1>10. CASE UNCHANGED vars
  BY <1>2, <1>10 DEF vars, statsVars
<1> QED BY <1>3, <1>4, <1>5, <1>6, <1>7, <1>8, <1>9, <1>10 DEF Next, StatsNext

\* Every message that a read loop took is on its way, delivered or reported,
\* except for one that the loop of a closed stream returned with, those an
\* unencrypted stream dropped before it had its callback, and those that the
\* forwarder left behind after Stop, for any streams, channel capacity and
\* number of messages.
THEOREM LossesAreReported == Spec => []LossesReported
<1>1. PathInv /\ LossInv /\ EndInv => LossesReported
  <2> SUFFICES ASSUME PathInv, LossInv, EndInv, NEW s \in Streams
               PROVE  /\ read[s] = OnTheWay(s) + got[s] + reported[s]
                                   + early[s] + silent[s] + Stranded(s)
                      /\ s \in Encrypted => early[s] = 0
                      /\ Silence(s)
                      /\ Stranded(s) > 0 => stopped
    BY DEF LossesReported, Silence
  <2>1. Account(s) /\ Silence(s) /\ Watchful(s)
    BY DEF LossInv
  <2>2. /\ read[s] \in Nat /\ got[s] \in Nat /\ reported[s] \in Nat /\ silent[s] \in Nat
        /\ CountOf(internal, s) \in Nat /\ CountOf(held, s) \in Nat
        /\ CountOf(external, s) \in Nat /\ early[s] \in Nat
    BY AccountTypes DEF PathInv, LossInv
  <2>3. PICK a \in 0 .. 1 : a = IF reader[s] = "holds" THEN 1 ELSE 0
    OBVIOUS
  <2>4. read[s] = CountOf(internal, s) + CountOf(held, s) + CountOf(external, s) + a
                  + got[s] + reported[s] + silent[s] + early[s]
    BY <2>1, <2>3 DEF Account, InNode
  <2>5. read[s] = OnTheWay(s) + got[s] + reported[s] + early[s] + silent[s] + Stranded(s)
    <3>1. CASE calls[Forwarder].pc = "done"
      <4>1. OnTheWay(s) = 0 + CountOf(held, s) + CountOf(external, s) + a
        BY <2>3, <3>1 DEF OnTheWay
      <4>2. Stranded(s) = CountOf(internal, s)
        BY <3>1 DEF Stranded
      <4> QED BY <2>2, <2>3, <2>4, <4>1, <4>2
    <3>2. CASE calls[Forwarder].pc # "done"
      <4>1. OnTheWay(s) = CountOf(internal, s) + CountOf(held, s) + CountOf(external, s) + a
        BY <2>3, <3>2 DEF OnTheWay
      <4>2. Stranded(s) = 0
        BY <3>2 DEF Stranded
      <4> QED BY <2>2, <2>3, <2>4, <4>1, <4>2
    <3> QED BY <3>1, <3>2
  <2>6. Stranded(s) > 0 => stopped
    BY DEF Stranded, EndInv
  <2> QED BY <2>1, <2>5, <2>6 DEF Watchful
<1>2. PathInv /\ PathInv' /\ LossInv /\ [Next]_vars => LossInv'
  BY LossStep
<1>3. Spec => []StatsInv /\ []PathInv
  BY PathCorrect, PTL
<1>4. Init => EndInv
  BY ForwarderCalls DEF Init, StatsInit, EndInv, Idle
<1>5. StatsInv /\ EndInv /\ [Next]_vars => EndInv'
  BY EndStep
<1> QED BY <1>1, <1>2, <1>3, <1>4, <1>5, LossInitially, PTL DEF Spec

\* Type correctness of the whole path: no channel holds more than its
\* capacity, and the forwarder never holds two messages.
THEOREM PathTypesHold == Spec => []TypeOK
<1>1. StatsInv /\ PathInv /\ LossInv => TypeOK
  <2> SUFFICES ASSUME StatsInv, PathInv, LossInv PROVE TypeOK
    OBVIOUS
  <2>1. Len(held) <= 1
    <3>1. Len(held) = 1 \/ held = <<>>
      BY DEF PathInv, ForwarderInv
    <3>2. CASE Len(held) = 1
      BY <3>2
    <3>3. CASE held = <<>>
      <4>1. Len(held) = 0
        BY <3>3
      <4> QED BY <4>1
    <3> QED BY <3>1, <3>2, <3>3
  <2> QED BY <2>1 DEF StatsInv, PathInv, PathTypes, LossInv, LossTypes, TypeOK
<1>2. PathInv /\ PathInv' /\ LossInv /\ [Next]_vars => LossInv'
  BY LossStep
<1>3. Spec => []StatsInv /\ []PathInv
  BY PathCorrect, PTL
<1> QED BY <1>1, <1>2, <1>3, LossInitially, PTL DEF Spec
=============================================================================
