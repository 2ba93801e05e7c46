---------------------------- MODULE NodeLifecycle ----------------------------
(***************************************************************************)
(* The life of a Node (node.go): New, Start, Stop, and the API calls that  *)
(* look at `started' under startMu and act after they released it.  Stop   *)
(* holds startMu from its first step to its last, but takes the components *)
(* down one after the other, and what a call was admitted to do may fall   *)
(* between any two of its steps.  How the goroutines of a node end is in   *)
(* the modules of its components.                                          *)
(*                                                                         *)
(* The application makes one node at a time, from one Config, and does not *)
(* call New while a call on the previous node is under way.                *)
(***************************************************************************)
EXTENDS Config, FiniteSets

CONSTANTS
  Callers,      \* goroutines of the application
  None,         \* nobody
  Configs,      \* the configurations the application may start with
  ReuseConfig,  \* the application passes the Config of a stopped node to New
  MaxNews       \* bound: calls of New that get past Validate

ASSUME LifecycleAssumption ==
  /\ None \notin Callers
  /\ ReuseConfig \in BOOLEAN
  /\ MaxNews \in Nat
  /\ Configs \subseteq Configurations

VARIABLES
  cfg,         \* the application's Config, its PrivateKey slice included
  news,        \* the number of nodes attempted so far
  node,        \* what the last New left: "none", "live" or "stopped"
  mu,          \* the holder of startMu, or None
  started,     \* Node.started
  done,        \* Node.ctx is cancelled
  connMgr,     \* connection.Manager: "open" or "shut"
  streamMgr,   \* streams.Manager: "open" or "shut"
  dispatcher,  \* eventdispatch.Dispatcher: "open" or "closed"
  host,        \* the libp2p host: "open" or "closed"
  crypto,      \* crypto.Module: "open" or "closed"
  keys,        \* what the module's private key, and the host's, consists of
  streamKeys,  \* the stream manager holds a shared key
  books,       \* address books whose flush goroutine runs
  pc           \* where each caller is

parts == <<connMgr, streamMgr, dispatcher, host, crypto, keys>>
vars == <<cfg, news, node, mu, started, done, parts, streamKeys,
          books, pc>>

Init ==
  /\ cfg \in Configs
  /\ news = 0
  /\ node = "none"
  /\ mu = None /\ started = FALSE /\ done = TRUE
  /\ connMgr = "shut" /\ streamMgr = "shut" /\ dispatcher = "closed" /\ host = "closed"
  /\ crypto = "closed" /\ keys = "none"
  /\ streamKeys = FALSE
  /\ books = 0
  /\ pc = [c \in Callers |-> "idle"]

-----------------------------------------------------------------------------
(***************************************************************************)
(* New.                                                                    *)
(***************************************************************************)

MayCallNew == news < MaxNews /\ node = "none" /\ \A c \in Callers : pc[c] = "idle"

\* A valid configuration and a successful libp2p.New.  The crypto module
\* keeps the slice of the Config, not a copy.
New ==
  /\ MayCallNew /\ Validate(cfg)
  /\ cfg' = ApplyDefaults(cfg)
  /\ news' = news + 1
  /\ node' = "live"
  /\ done' = FALSE
  /\ connMgr' = "open" /\ streamMgr' = "open" /\ dispatcher' = "open" /\ host' = "open"
  /\ crypto' = "open" /\ keys' = cfg.key
  /\ streamKeys' = FALSE
  /\ books' = books + 1
  /\ UNCHANGED <<mu, started, pc>>

\* NewHost fails (a port in use): the context is cancelled and the dispatcher
\* closed, and no goroutine of the node was started; the address book stays
\* open and its flush goroutine runs on.
NewHostFails ==
  /\ MayCallNew /\ Validate(cfg)
  /\ cfg' = ApplyDefaults(cfg)
  /\ news' = news + 1
  /\ books' = books + 1
  /\ node' = "none"
  /\ UNCHANGED <<mu, started, done, parts, streamKeys, pc>>

\* The address book cannot be loaded.
NewBookFails ==
  /\ MayCallNew /\ Validate(cfg)
  /\ cfg' = ApplyDefaults(cfg)
  /\ news' = news + 1
  /\ node' = "none"
  /\ UNCHANGED <<mu, started, done, parts, streamKeys, books, pc>>

\* After a Stop that returned nil the application is ready for another New,
\* with a Config written afresh or with the one it has.
Replace ==
  /\ node = "stopped"
  /\ node' = "none"
  /\ cfg' \in IF ReuseConfig THEN {cfg} ELSE Configs
  /\ UNCHANGED <<news, mu, started, done, parts, streamKeys, books, pc>>

-----------------------------------------------------------------------------
(***************************************************************************)
(* Start and the API calls.                                                *)
(***************************************************************************)

Goto(c, l) == pc' = [pc EXCEPT ![c] = l]
Calls(c) == node # "none" /\ pc[c] = "idle" /\ mu = None

\* Start, under startMu throughout: nothing looks at the context or the host.
Start(c) ==
  /\ Calls(c) /\ ~started
  /\ started' = TRUE
  /\ node' = "live"
  /\ UNCHANGED <<cfg, news, mu, done, parts, streamKeys, books, pc>>

\* PrepareStreams is admitted ...
PrepareStreams(c) ==
  /\ Calls(c) /\ started
  /\ Goto(c, "derive")
  /\ UNCHANGED <<cfg, news, node, mu, started, done, parts,
                 streamKeys, books>>

\* ... derives the key, unless the crypto module is closed or the peer's key is
\* bad, and stores it with the connection, which is made when there is none ...
DeriveSharedKey(c) ==
  /\ pc[c] = "derive"
  /\ \/ crypto = "open" /\ Goto(c, "establish")
     \/ Goto(c, "idle")
  /\ UNCHANGED <<cfg, news, node, mu, started, done, parts,
                 streamKeys, books>>

\* ... and establishes the streams, which no Shutdown prevents.
EstablishStreams(c) ==
  /\ pc[c] = "establish"
  /\ streamKeys' = TRUE
  /\ Goto(c, "idle")
  /\ UNCHANGED <<cfg, news, node, mu, started, done, parts, books>>

-----------------------------------------------------------------------------
(***************************************************************************)
(* Stop, step by step.                                                     *)
(***************************************************************************)

\* Stop takes startMu and cancels the context.
Stop(c) ==
  /\ Calls(c) /\ started
  /\ mu' = c
  /\ done' = TRUE
  /\ Goto(c, "shutConns")
  /\ UNCHANGED <<cfg, news, node, started, parts, streamKeys, books>>

ShutdownConnections(c) ==
  /\ pc[c] = "shutConns"
  /\ connMgr' = "shut"
  /\ Goto(c, "shutStreams")
  /\ UNCHANGED <<cfg, news, node, mu, started, done, streamMgr,
                 dispatcher, host, crypto, keys, streamKeys, books>>

ShutdownStreams(c) ==
  /\ pc[c] = "shutStreams"
  /\ streamMgr' = "shut"
  /\ streamKeys' = FALSE
  /\ Goto(c, "closeEvents")
  /\ UNCHANGED <<cfg, news, node, mu, started, done, connMgr,
                 dispatcher, host, crypto, keys, books>>

CloseDispatcher(c) ==
  /\ pc[c] = "closeEvents"
  /\ dispatcher' = "closed"
  /\ Goto(c, "closeHost")
  /\ UNCHANGED <<cfg, news, node, mu, started, done, connMgr,
                 streamMgr, host, crypto, keys, streamKeys, books>>

\* Mutant: a failed Stop counts as a Stop.
HostCloseFailsStops(c) ==
  /\ pc[c] = "closeHost"
  /\ mu' = None
  /\ started' = FALSE
  /\ Goto(c, "idle")
  /\ UNCHANGED <<cfg, news, node, done, parts, streamKeys, books>>

\* host.Close fails: Stop returns the error, and the node counts as started.
HostCloseFails(c) ==
  /\ pc[c] = "closeHost" /\ host = "open"
  /\ mu' = None
  /\ Goto(c, "idle")
  /\ UNCHANGED <<cfg, news, node, started, done, parts, streamKeys,
                 books>>

\* Mutant: the keys are zeroed before the host is closed.
CloseHostLast(c) ==
  /\ pc[c] = "closeHost"
  /\ crypto' = "closed" /\ keys' = "zeroed"
  /\ Goto(c, "closeCrypto")
  /\ UNCHANGED <<cfg, news, node, mu, started, done, connMgr,
                 streamMgr, dispatcher, host, streamKeys, books>>

CloseHost(c) ==
  /\ pc[c] = "closeHost"
  /\ host' = "closed"
  /\ Goto(c, "closeCrypto")
  /\ UNCHANGED <<cfg, news, node, mu, started, done, connMgr,
                 streamMgr, dispatcher, crypto, keys, streamKeys, books>>

\* crypto.Close zeroes the key in place, in the Config as well; Stop returns.
CloseCrypto(c) ==
  /\ pc[c] = "closeCrypto"
  /\ crypto' = "closed" /\ keys' = "zeroed"
  /\ cfg' = [cfg EXCEPT !.key = "zeroed"]
  /\ started' = FALSE
  /\ node' = "stopped"
  /\ mu' = None
  /\ Goto(c, "idle")
  /\ UNCHANGED <<news, done, connMgr, streamMgr, dispatcher, host,
                 streamKeys, books>>

StopStep(c) ==
  \/ ShutdownConnections(c)
  \/ ShutdownStreams(c)
  \/ CloseDispatcher(c)
  \/ HostCloseFails(c)
  \/ CloseHost(c)
  \/ CloseCrypto(c)

CallStep(c) ==
  \/ DeriveSharedKey(c)
  \/ EstablishStreams(c)
  \/ StopStep(c)

Next ==
  \/ New \/ NewHostFails \/ NewBookFails \/ Replace
  \/ \E c \in Callers : Start(c) \/ PrepareStreams(c) \/ Stop(c) \/ CallStep(c)

Spec == Init /\ [][Next]_vars

-----------------------------------------------------------------------------

TypeOK ==
  /\ cfg \in Configurations
  /\ news \in 0 .. MaxNews
  /\ node \in {"none", "live", "stopped"}
  /\ mu \in Callers \cup {None}
  /\ started \in BOOLEAN /\ done \in BOOLEAN
  /\ connMgr \in {"open", "shut"} /\ streamMgr \in {"open", "shut"}
  /\ dispatcher \in {"open", "closed"} /\ host \in {"open", "closed"}
  /\ crypto \in {"open", "closed"} /\ keys \in Keys
  /\ streamKeys \in BOOLEAN
  /\ books \in 0 .. MaxNews
  /\ pc \in [Callers -> {"idle", "derive", "establish", "shutConns", "shutStreams",
                        "closeEvents", "closeHost", "closeCrypto"}]

\* A host that still runs has the key the application gave: Stop closes it
\* before it zeroes the key material "it might still reference" (node.go),
\* also when closing it failed and another goroutine calls Stop again.
KeysOutliveHost == host = "open" => keys = "app" /\ crypto = "open"

\* A Stop that failed to close the host has cancelled the context, shut the
\* managers and closed the dispatcher; the node is still marked as started,
\* so that the next Stop is not refused and the host can be closed.
FailedStopCanBeRetried == node = "live" /\ mu = None /\ (done \/ host = "closed") => started

\* What New builds its channels and controllers from: no number is zero, and
\* a low watermark is below the high one, unless that is one, when both are.
Below(low, high) == low < high \/ (low = 1 /\ high = 1)

ConfigUsable ==
  node = "live" =>
    /\ \A f \in Numbers : cfg.n[f] >= 1
    /\ Below(cfg.n["LowWatermark"], cfg.n["HighWatermark"])
    /\ Below(cfg.n["ConnMgrLowWatermark"], cfg.n["ConnMgrHighWatermark"])

\* applyDefaults "ensures watermark relationships are valid" (config.go), in
\* the application's own Config: Validate accepts what it has written there.
DefaultedIsValid == node = "live" => Validate(cfg)

\* Stop "stops all goroutines" (node.go), that of the address book too.
FlushersEnd == node = "stopped" => books = 0
=============================================================================
