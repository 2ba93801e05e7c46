------------------------- MODULE NodeLifecycleProofs -------------------------
(***************************************************************************)
(* Proofs about Config and NodeLifecycle, for any callers, configurations  *)
(* and number of nodes.                                                    *)
(***************************************************************************)
EXTENDS NodeLifecycle, TLAPS

(***************************************************************************)
(* What applyDefaults makes of a configuration.                            *)
(***************************************************************************)

LEMMA NumbersAre ==
  Numbers = {"HandshakeTimeout", "ReconnectBaseDelay", "ReconnectMaxDelay",
             "ReconnectMaxAttempts", "FailedHandshakeCooldown", "EventBufferSize",
             "MessageBufferSize", "HighWatermark", "LowWatermark", "MaxMessageSize",
             "ConnMgrLowWatermark", "ConnMgrHighWatermark", "MaxStreamNameLength",
             "MaxMetadataSize"}
BY DEF Numbers, Default

\* Every default is positive.
LEMMA DefaultsArePositive == \A f \in Numbers : Default[f] \in Int /\ Default[f] >= 1
BY NumbersAre DEF Default

Filled(c) == [f \in Numbers |-> IF c.n[f] = 0 THEN Default[f] ELSE c.n[f]]

\* What an accepted configuration looks like with its defaults filled in.
LEMMA FilledIsPositive ==
  ASSUME NEW c \in Configurations, Validate(c)
  PROVE  /\ Filled(c) \in [Numbers -> Int]
         /\ \A f \in Numbers : Filled(c)[f] >= 1
<1>1. \A f \in Numbers : c.n[f] \in Int /\ c.n[f] >= 0
  BY DEF Configurations, Validate
<1> QED BY <1>1, DefaultsArePositive DEF Filled

\* applyDefaults changes the numbers only.
LEMMA DefaultsShape ==
  ASSUME NEW c \in Configurations
  PROVE  LET low == Lowered(Filled(c)["LowWatermark"], Filled(c)["HighWatermark"], 10)
             connLow == Lowered(Filled(c)["ConnMgrLowWatermark"],
                                Filled(c)["ConnMgrHighWatermark"], 4)
             d == ApplyDefaults(c)
         IN /\ d.n = [f \in Numbers |-> IF f = "LowWatermark" THEN low
                                        ELSE IF f = "ConnMgrLowWatermark" THEN connLow
                                        ELSE Filled(c)[f]]
            /\ d = [key |-> c.key, given |-> c.given, n |-> d.n]
<1>2. {"LowWatermark", "HighWatermark", "ConnMgrLowWatermark", "ConnMgrHighWatermark"}
        \subseteq Numbers
  BY NumbersAre
<1> DEFINE F == Filled(c)
           low == Lowered(F["LowWatermark"], F["HighWatermark"], 10)
           connLow == Lowered(F["ConnMgrLowWatermark"], F["ConnMgrHighWatermark"], 4)
           new == [F EXCEPT !["LowWatermark"] = low, !["ConnMgrLowWatermark"] = connLow]
<1>3. ApplyDefaults(c) = [c EXCEPT !.n = new]
  BY DEF ApplyDefaults, Filled
<1>4. [c EXCEPT !.n = new] = [key |-> c.key, given |-> c.given, n |-> new]
  <2> HIDE DEF new
  <2> QED BY DEF Configurations
<1>5. new = [f \in Numbers |-> IF f = "LowWatermark" THEN low
                               ELSE IF f = "ConnMgrLowWatermark" THEN connLow ELSE F[f]]
  <2>1. F = [f \in Numbers |-> F[f]]
    BY DEF Filled
  <2> HIDE DEF F, low, connLow
  <2> QED BY <2>1, <1>2
<1> QED BY <1>3, <1>4, <1>5

\* The numbers a node is built from are positive, and its low watermarks are
\* below the high ones, or both are one.
Usable(c) ==
  /\ \A f \in Numbers : c.n[f] >= 1
  /\ Below(c.n["LowWatermark"], c.n["HighWatermark"])
  /\ Below(c.n["ConnMgrLowWatermark"], c.n["ConnMgrHighWatermark"])

LEMMA DefaultsAreUsable ==
  ASSUME NEW c \in Configurations, Validate(c)
  PROVE  /\ ApplyDefaults(c) \in Configurations
         /\ ApplyDefaults(c).key = c.key
         /\ Usable(ApplyDefaults(c))
<1>1. {"LowWatermark", "HighWatermark", "ConnMgrLowWatermark", "ConnMgrHighWatermark"}
        \subseteq Numbers
  BY NumbersAre
<1> DEFINE F == Filled(c)
           low == Lowered(F["LowWatermark"], F["HighWatermark"], 10)
           connLow == Lowered(F["ConnMgrLowWatermark"], F["ConnMgrHighWatermark"], 4)
<1>2. F \in [Numbers -> Int] /\ \A f \in Numbers : F[f] >= 1
  BY FilledIsPositive
<1>3. /\ low \in Int /\ 1 <= low /\ Below(low, F["HighWatermark"])
      /\ connLow \in Int /\ 1 <= connLow /\ Below(connLow, F["ConnMgrHighWatermark"])
  <2> HIDE DEF F
  <2>1. /\ F["LowWatermark"] \in Int /\ F["LowWatermark"] >= 1
        /\ F["HighWatermark"] \in Int /\ F["HighWatermark"] >= 1
        /\ F["ConnMgrLowWatermark"] \in Int /\ F["ConnMgrLowWatermark"] >= 1
        /\ F["ConnMgrHighWatermark"] \in Int /\ F["ConnMgrHighWatermark"] >= 1
    BY <1>1, <1>2
  <2>2. low \in Int /\ 1 <= low /\ Below(low, F["HighWatermark"])
    BY <2>1 DEF Lowered, Below
  <2>3. connLow \in Int /\ 1 <= connLow /\ Below(connLow, F["ConnMgrHighWatermark"])
    BY <2>1 DEF Lowered, Below
  <2> QED BY <2>2, <2>3
<1>4. /\ ApplyDefaults(c).n = [f \in Numbers |-> IF f = "LowWatermark" THEN low
                                 ELSE IF f = "ConnMgrLowWatermark" THEN connLow ELSE F[f]]
      /\ ApplyDefaults(c) = [key |-> c.key, given |-> c.given, n |-> ApplyDefaults(c).n]
  BY DefaultsShape
<1>5. ApplyDefaults(c).n \in [Numbers -> Int] /\ c.key \in Keys /\ c.given \in BOOLEAN
  <2> HIDE DEF F, low, connLow
  <2> QED BY <1>2, <1>3, <1>4 DEF Configurations
<1>6. Usable(ApplyDefaults(c))
  <2> HIDE DEF F, low, connLow
  <2> QED BY <1>1, <1>2, <1>3, <1>4 DEF Usable
<1>7. ApplyDefaults(c) \in Configurations /\ ApplyDefaults(c).key = c.key
  BY <1>4, <1>5 DEF Configurations
<1> QED BY <1>6, <1>7

-----------------------------------------------------------------------------
(***************************************************************************)
(* The invariant.  Stop holds startMu from the cancelled context to the    *)
(* zeroed keys, so that only its holder is between two of its steps; a     *)
(* node that is not live is neither started nor being stopped; and one     *)
(* that is live and not started is as New left it.                         *)
(***************************************************************************)

Stopping == {"shutConns", "shutStreams", "closeEvents", "closeHost", "closeCrypto"}

LockInv ==
  /\ \A c \in Callers : pc[c] \in Stopping <=> mu = c
  /\ mu # None => started /\ done
  /\ node # "live" => ~started /\ host = "closed"
  /\ node = "live" /\ ~started => ~done /\ host = "open"
  /\ \A c \in Callers : pc[c] = "closeCrypto" => host = "closed"

\* The numbers a node was built from.
ConfigInv == node # "none" => Usable(cfg)

LifeInv == TypeOK /\ LockInv /\ ConfigInv /\ books <= news

-----------------------------------------------------------------------------
(***************************************************************************)
(* Every action keeps the invariant.                                       *)
(***************************************************************************)

LEMMA LifeInitially == Init => LifeInv
<1> SUFFICES ASSUME Init PROVE LifeInv
  OBVIOUS
<1>1. TypeOK
  <2>1. cfg \in Configurations /\ news \in 0 .. MaxNews /\ books \in 0 .. MaxNews
    BY LifecycleAssumption DEF Init
  <2>2. pc \in [Callers -> {"idle", "derive", "establish", "shutConns", "shutStreams",
                            "closeEvents", "closeHost", "closeCrypto"}]
    BY DEF Init
  <2> QED BY <2>1, <2>2 DEF Init, TypeOK, Keys
<1>2. LockInv /\ ConfigInv
  BY LifecycleAssumption DEF Init, LockInv, ConfigInv, Stopping
<1>3. books <= news
  BY DEF Init
<1> QED BY <1>1, <1>2, <1>3 DEF LifeInv

\* New, in its three outcomes, and Replace.
LEMMA NewPreserves ==
  LifeInv /\ (New \/ NewHostFails \/ NewBookFails \/ Replace) => LifeInv'
<1> SUFFICES ASSUME LifeInv, New \/ NewHostFails \/ NewBookFails \/ Replace PROVE LifeInv'
  OBVIOUS
<1>1. TypeOK /\ LockInv /\ ConfigInv /\ books <= news
  BY DEF LifeInv
<1>2. CASE New \/ NewHostFails \/ NewBookFails
  <2>1. /\ cfg \in Configurations /\ Validate(cfg) /\ cfg' = ApplyDefaults(cfg)
        /\ news < MaxNews /\ news' = news + 1 /\ node = "none"
        /\ UNCHANGED <<mu, started, pc>>
    BY <1>1, <1>2 DEF New, NewHostFails, NewBookFails, MayCallNew, TypeOK
  <2>2. cfg' \in Configurations /\ cfg'.key = cfg.key /\ Usable(cfg')
    BY <2>1, DefaultsAreUsable
  <2>3. books' \in 0 .. MaxNews /\ news' \in 0 .. MaxNews /\ books' <= news'
    <3>1. books' \in {books, books + 1}
      BY <1>2 DEF New, NewHostFails, NewBookFails
    <3> QED BY <1>1, <2>1, <3>1, LifecycleAssumption DEF TypeOK
  <2>4. cfg.key \in Keys
    BY <2>1 DEF Configurations
  <2>6. TypeOK'
    BY <1>1, <1>2, <2>1, <2>2, <2>3, <2>4
       DEF New, NewHostFails, NewBookFails, TypeOK, parts
  <2>7. mu = None /\ ~started /\ \A c \in Callers : pc[c] # "closeCrypto"
    BY <1>1, <1>2, <2>1 DEF New, NewHostFails, NewBookFails, MayCallNew, LockInv, TypeOK
  <2>8. /\ node' # "live" => host' = "closed"
        /\ node' = "live" => ~done' /\ host' = "open"
    BY <1>1, <1>2, <2>1 DEF New, NewHostFails, NewBookFails, LockInv, parts
  <2>9. LockInv'
    BY <1>1, <2>1, <2>7, <2>8 DEF LockInv
  <2> QED BY <2>2, <2>3, <2>6, <2>9 DEF LifeInv, ConfigInv, Usable
<1>3. CASE Replace
  <2>1. cfg' \in Configurations
    BY <1>1, <1>3, LifecycleAssumption DEF Replace, TypeOK
  <2>2. TypeOK' /\ LockInv'
    BY <1>1, <1>3, <2>1, LifecycleAssumption DEF Replace, TypeOK, LockInv, parts
  <2>3. ConfigInv'
    BY <1>1, <1>3, LifecycleAssumption DEF Replace, ConfigInv, Usable
  <2> QED BY <1>1, <1>3, <2>2, <2>3 DEF LifeInv, Replace
<1> QED BY <1>2, <1>3

\* Start, PrepareStreams and Stop, and every step of a call.
LEMMA CallsPreserve ==
  ASSUME NEW c \in Callers, LifeInv,
         Start(c) \/ PrepareStreams(c) \/ Stop(c) \/ CallStep(c)
  PROVE  LifeInv'
<1>1. TypeOK /\ LockInv /\ ConfigInv /\ books <= news
  BY DEF LifeInv
<1>2. c # None
  BY LifecycleAssumption
<1>3. CASE Start(c)
  <2>1. TypeOK' /\ LockInv'
    BY <1>1, <1>3 DEF Start, Calls, TypeOK, LockInv, parts
  <2> QED BY <1>1, <1>3, <2>1 DEF Start, Calls, LifeInv, ConfigInv, Usable
<1>4. CASE PrepareStreams(c) \/ DeriveSharedKey(c) \/ EstablishStreams(c)
  <2>1. /\ pc[c] \notin Stopping /\ pc'[c] \notin Stopping
        /\ pc' \in [Callers -> {"idle", "derive", "establish", "shutConns", "shutStreams",
                                "closeEvents", "closeHost", "closeCrypto"}]
        /\ \A d \in Callers \ {c} : pc'[d] = pc[d]
        /\ streamKeys' \in BOOLEAN
    BY <1>1, <1>4 DEF PrepareStreams, DeriveSharedKey, EstablishStreams, Calls, Goto,
                      TypeOK, Stopping
  <2>2. UNCHANGED <<cfg, news, node, mu, started, done, parts, books>>
    BY <1>4 DEF PrepareStreams, DeriveSharedKey, EstablishStreams
  <2>3. TypeOK'
    BY <1>1, <2>1, <2>2 DEF TypeOK, parts
  <2>4. LockInv'
    BY <1>1, <2>1, <2>2 DEF LockInv, parts, Stopping
  <2> QED BY <1>1, <2>2, <2>3, <2>4 DEF LifeInv, ConfigInv, Usable
<1>5. CASE Stop(c) \/ StopStep(c)
  <2>1. /\ pc' \in [Callers -> {"idle", "derive", "establish", "shutConns", "shutStreams",
                                "closeEvents", "closeHost", "closeCrypto"}]
        /\ \A d \in Callers \ {c} : pc'[d] = pc[d]
        /\ mu' \in {c, None}
        /\ mu' = c <=> pc'[c] \in Stopping
        /\ Stop(c) \/ mu = c
        /\ mu = None \/ mu = c
    BY <1>1, <1>2, <1>5 DEF Stop, StopStep, ShutdownConnections, ShutdownStreams,
       CloseDispatcher, HostCloseFails, CloseHost, CloseCrypto, Calls, Goto, TypeOK,
       LockInv, Stopping
  <2>2. \A d \in Callers : pc'[d] \in Stopping <=> mu' = d
    BY <1>1, <1>2, <2>1, LifecycleAssumption DEF LockInv
  <2>3. \A d \in Callers \ {c} : pc'[d] # "closeCrypto"
    BY <1>1, <2>1, <1>2, LifecycleAssumption DEF LockInv, Stopping
  <2>4. /\ cfg' \in Configurations /\ cfg'.n = cfg.n
        /\ UNCHANGED <<news, books>>
    <3>1. CASE CloseCrypto(c)
      BY <1>1, <3>1 DEF CloseCrypto, TypeOK, Configurations, Keys
    <3> QED BY <1>1, <1>5, <3>1 DEF Stop, StopStep, ShutdownConnections, ShutdownStreams,
       CloseDispatcher, HostCloseFails, CloseHost, TypeOK
  <2>5. TypeOK'
    BY <1>1, <1>5, <2>1, <2>4 DEF Stop, StopStep, ShutdownConnections, ShutdownStreams,
       CloseDispatcher, HostCloseFails, CloseHost, CloseCrypto, TypeOK, parts, Keys
  <2>6. /\ mu' # None => started' /\ done'
        /\ node' # "live" => ~started' /\ host' = "closed"
        /\ node' = "live" /\ ~started' => ~done' /\ host' = "open"
        /\ pc'[c] = "closeCrypto" => host' = "closed"
    BY <1>1, <1>2, <1>5, <2>1 DEF Stop, StopStep, ShutdownConnections, ShutdownStreams,
       CloseDispatcher, HostCloseFails, CloseHost, CloseCrypto, Calls, Goto, LockInv,
       TypeOK, parts
  <2>7. LockInv'
    BY <2>2, <2>3, <2>6 DEF LockInv
  <2>8. node' # "none" => node # "none"
    <3>1. node = "live"
      BY <1>1, <1>2, <1>5, <2>1 DEF Stop, LockInv
    <3> QED BY <3>1
  <2> QED BY <1>1, <2>4, <2>5, <2>7, <2>8 DEF LifeInv, ConfigInv, Usable
<1> QED BY <1>3, <1>4, <1>5 DEF CallStep

\* A step that changes nothing.
LEMMA StutterPreserves == LifeInv /\ UNCHANGED vars => LifeInv'
BY DEF LifeInv, TypeOK, LockInv, ConfigInv, Usable, vars, parts

-----------------------------------------------------------------------------
(***************************************************************************)
(* The theorems.                                                           *)
(***************************************************************************)

\* Types, who holds startMu where, and the numbers of the configuration, in
\* every reachable state of Start, Stop and New with their failures.
THEOREM LifecycleCorrect == Spec => []LifeInv
<1>1. LifeInv /\ [Next]_vars => LifeInv'
  BY NewPreserves, CallsPreserve, StutterPreserves DEF Next
<1> QED BY <1>1, LifeInitially, PTL DEF Spec

\* A Stop that could not close the host leaves the node started, so that it
\* can be stopped again.
THEOREM StopCanBeRetried == Spec => []FailedStopCanBeRetried
<1>1. LifeInv => FailedStopCanBeRetried
  BY DEF LifeInv, TypeOK, LockInv, FailedStopCanBeRetried
<1> QED BY <1>1, LifecycleCorrect, PTL

\* Whatever configuration Validate accepts, New builds from positive numbers
\* and from watermarks that are in order, but for a high watermark of one.
THEOREM ConfigIsUsable == Spec => []ConfigUsable
<1>1. LifeInv => ConfigUsable
  BY DEF LifeInv, ConfigInv, Usable, ConfigUsable
<1> QED BY <1>1, LifecycleCorrect, PTL

\* A Config whose key nobody has zeroed is waiting for New.
KeyInv == KeysOutliveHost /\ (node = "none" => cfg.key # "zeroed")

\* The host is closed before the keys are zeroed, whoever stops the node and
\* however often, when the application gives New a key that is not zeroed and
\* does not reuse the Config of a stopped node, whose key is.
THEOREM HostKeepsKeys ==
  ASSUME ~ReuseConfig, \A c \in Configs : c.key # "zeroed"
  PROVE  Spec => []KeysOutliveHost
<1>1. Init => KeyInv
  BY DEF Init, KeyInv, KeysOutliveHost
<1>2. LifeInv /\ KeyInv /\ [Next]_vars => KeyInv'
  <2> SUFFICES ASSUME LifeInv, KeyInv, [Next]_vars PROVE KeyInv'
    OBVIOUS
  <2>1. TypeOK /\ LockInv
    BY DEF LifeInv
  <2>2. CASE New \/ NewHostFails \/ NewBookFails
    <3>1. cfg'.key = cfg.key /\ cfg.key = "app"
      <4>1. cfg \in Configurations /\ Validate(cfg) /\ cfg' = ApplyDefaults(cfg)
        BY <2>1, <2>2 DEF New, NewHostFails, NewBookFails, TypeOK
      <4>2. cfg.key \in Keys /\ cfg.key # "none" /\ node = "none"
        BY <2>2, <4>1 DEF Configurations, Validate, New, NewHostFails, NewBookFails, MayCallNew
      <4> QED BY <4>1, <4>2, DefaultsAreUsable DEF KeyInv, Keys
    <3> QED BY <2>2, <3>1 DEF New, NewHostFails, NewBookFails, KeyInv, KeysOutliveHost, parts
  <2>3. CASE Replace
    BY <2>3 DEF Replace, KeyInv, KeysOutliveHost, parts
  <2>4. ASSUME NEW c \in Callers,
               Start(c) \/ PrepareStreams(c) \/ Stop(c) \/ CallStep(c)
        PROVE  KeyInv'
    <3>1. CASE CloseCrypto(c)
      BY <2>1, <3>1 DEF CloseCrypto, LockInv, KeyInv, KeysOutliveHost
    <3>2. CASE CloseHost(c)
      BY <3>2 DEF CloseHost, KeyInv, KeysOutliveHost
    <3>3. CASE ~CloseCrypto(c) /\ ~CloseHost(c)
      <4>1. UNCHANGED <<cfg, host, crypto, keys>> /\ (node' = "none" => node = "none")
        BY <2>4, <3>3 DEF Start, PrepareStreams, Stop, CallStep, DeriveSharedKey,
           EstablishStreams, StopStep, ShutdownConnections, ShutdownStreams,
           CloseDispatcher, HostCloseFails, parts
      <4> QED BY <4>1 DEF KeyInv, KeysOutliveHost
    <3> QED BY <3>1, <3>2, <3>3
  <2>6. CASE UNCHANGED vars
    BY <2>6 DEF vars, KeyInv, KeysOutliveHost, parts
  <2> QED BY <2>2, <2>3, <2>4, <2>6 DEF Next
<1>3. KeyInv => KeysOutliveHost
  BY DEF KeyInv
<1> QED BY <1>1, <1>2, <1>3, LifecycleCorrect, PTL DEF Spec
=============================================================================
