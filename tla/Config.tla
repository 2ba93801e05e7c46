------------------------------- MODULE Config -------------------------------
(***************************************************************************)
(* Config (config.go): what Validate accepts and what applyDefaults makes  *)
(* of it.  A configuration has the private key, a Boolean that says        *)
(* whether the address book's path and a listen address are given, and     *)
(* its optional numbers.  Durations are numbers of seconds.                *)
(***************************************************************************)
EXTENDS Integers

\* DefaultHandshakeTimeout, ... : the values that stand for 0.
Default ==
  [HandshakeTimeout |-> 30, ReconnectBaseDelay |-> 1, ReconnectMaxDelay |-> 300,
   ReconnectMaxAttempts |-> 10, FailedHandshakeCooldown |-> 60,
   EventBufferSize |-> 100, MessageBufferSize |-> 1000,
   HighWatermark |-> 1000, LowWatermark |-> 100, MaxMessageSize |-> 1048576,
   ConnMgrLowWatermark |-> 100, ConnMgrHighWatermark |-> 400,
   MaxStreamNameLength |-> 64, MaxMetadataSize |-> 4096]

Numbers == DOMAIN Default

\* The slice behind PrivateKey: absent, the application's key, or zeroed.
Keys == {"none", "app", "zeroed"}

Configurations == [key : Keys, given : BOOLEAN, n : [Numbers -> Int]]

\* Validate: the required fields, no negative number, and the relations that
\* hold between numbers that are set.  It looks at the length of the key only.
Validate(c) ==
  /\ c.key # "none" /\ c.given
  /\ \A f \in Numbers : c.n[f] >= 0
  /\ c.n["ReconnectMaxDelay"] > 0 => c.n["ReconnectMaxDelay"] >= c.n["ReconnectBaseDelay"]
  /\ c.n["LowWatermark"] > 0 /\ c.n["HighWatermark"] > 0
       => c.n["LowWatermark"] < c.n["HighWatermark"]
  /\ c.n["ConnMgrLowWatermark"] > 0 /\ c.n["ConnMgrHighWatermark"] > 0
       => c.n["ConnMgrLowWatermark"] < c.n["ConnMgrHighWatermark"]

\* A low watermark that is not below the high one becomes a fraction of it.
Lowered(low, high, fraction) ==
  IF low < high THEN low
  ELSE IF high \div fraction < 1 THEN 1
  ELSE high \div fraction

\* Mutant: the fraction may be zero.
ApplyDefaultsUnclamped(c) ==
  LET d == [f \in Numbers |-> IF c.n[f] = 0 THEN Default[f] ELSE c.n[f]]
  IN [c EXCEPT !.n =
        [d EXCEPT
          !["LowWatermark"] = IF @ < d["HighWatermark"] THEN @ ELSE d["HighWatermark"] \div 10,
          !["ConnMgrLowWatermark"] = Lowered(@, d["ConnMgrHighWatermark"], 4)]]

\* applyDefaults, which writes into the application's own Config.
ApplyDefaults(c) ==
  LET d == [f \in Numbers |-> IF c.n[f] = 0 THEN Default[f] ELSE c.n[f]]
  IN [c EXCEPT !.n =
        [d EXCEPT
          !["LowWatermark"] = Lowered(@, d["HighWatermark"], 10),
          !["ConnMgrLowWatermark"] = Lowered(@, d["ConnMgrHighWatermark"], 4)]]
=============================================================================
