------------------------ MODULE StreamManagerProofs ------------------------
(***************************************************************************)
(* Theorems about StreamManager, for any number of callers, of stream      *)
(* objects and of stream names.                                            *)
(***************************************************************************)
EXTENDS StreamManager, TLAPS

Slices == {"none", "map", "cache", "good", "wiped"}
Targets == Names \cup {"nothing", "connection", "streams"}

LEMMA InvInitially == Init => StreamSafety
<1> SUFFICES ASSUME Init PROVE StreamSafety
  OBVIOUS
<1> USE StreamAssumption DEF Init
<1>1. TypeOK
  BY DEF TypeOK, Names, PCs
<1>2. LockInv /\ CipherInv /\ ReaderInv /\ NameInv /\ SendInv
  BY DEF LockInv, CipherInv, ReaderInv, NameInv, SendInv
<1>3. OwnInv /\ AliasInv /\ NoOrphanStream
  BY DEF OwnInv, AliasInv, NoOrphanStream
<1> QED BY <1>1, <1>2, <1>3 DEF StreamSafety, StreamInv

(***************************************************************************)
(* A step of c that changes no stream and leaves c without one.  The key   *)
(* slices other callers hold may be zeroed, or replaced where they were    *)
(* shared.                                                                 *)
(***************************************************************************)
LEMMA PlainMove ==
    ASSUME StreamSafety, UNCHANGED <<slot, streamVars>>,
           sharedKey' \in {"none", "good", "wiped"},
           allowed' \in SUBSET Encrypted,
           cached' \in BOOLEAN, modClosed' \in BOOLEAN, bookKey' \in BOOLEAN,
           shut' \in BOOLEAN,
           NEW c \in Callers, pc[c] # "store",
           NEW p \in PCs, p \notin {"lock", "encrypt", "store"},
           NEW t \in Targets, p \in {"open", "dial"} => t \in Names,
           NEW als \in [Callers -> Slices],
           p = "copy" => als[c] \in {"cache", "good", "wiped"},
           p = "establish" => als[c] \in {"good", "wiped"},
           \A d \in Callers \ {c} :
               \/ als[d] = alias[d]
               \/ alias[d] = "map"
               \/ alias[d] = "cache" /\ als[d] \in {"good", "wiped"},
           Move(c, p, t, None, als)
    PROVE  StreamSafety'
<1> USE DEF StreamSafety, streamVars, Move
<1>1. TypeOK'
  BY DEF TypeOK, Slices, Targets
<1>2. LockInv' /\ CipherInv' /\ ReaderInv' /\ NameInv'
  BY DEF TypeOK, StreamInv, LockInv, CipherInv, ReaderInv, NameInv
<1>3. SendInv'
  BY DEF TypeOK, StreamInv, SendInv
<1>4. OwnInv'
  BY StreamAssumption DEF TypeOK, StreamInv, OwnInv, SendInv
<1>5. AliasInv'
  BY DEF TypeOK, StreamInv, AliasInv
<1>6. NoOrphanStream'
  BY DEF TypeOK, StreamInv, NoOrphanStream
<1> QED BY <1>1, <1>2, <1>3, <1>4, <1>5, <1>6 DEF StreamInv

(***************************************************************************)
(* A step of c that changes no stream and leaves c with stream h, on which *)
(* it is about to send.                                                    *)
(***************************************************************************)
LEMMA HandleMove ==
    ASSUME StreamSafety, UNCHANGED <<mapVars, streamVars, cryptoVars, shut>>,
           NEW c \in Callers, pc[c] # "store",
           NEW p \in {"lock", "encrypt"},
           NEW n \in Names, NEW h \in Streams, nameOf[h] = n,
           p = "encrypt" => h \notin closed /\ n \in Encrypted,
           \A d \in Callers : pc[d] = "store" => handle[d] # h,
           Move(c, p, n, h, alias)
    PROVE  StreamSafety'
<1> USE DEF StreamSafety, mapVars, streamVars, cryptoVars, Move
<1>1. TypeOK'
  BY DEF TypeOK, PCs
<1>2. LockInv' /\ CipherInv' /\ ReaderInv' /\ NameInv'
  BY DEF TypeOK, StreamInv, LockInv, CipherInv, ReaderInv, NameInv
<1>3. SendInv'
  BY DEF TypeOK, StreamInv, SendInv
<1>4. OwnInv'
  BY DEF TypeOK, StreamInv, OwnInv, SendInv
<1>5. AliasInv' /\ NoOrphanStream'
  BY DEF TypeOK, StreamInv, AliasInv, NoOrphanStream
<1> QED BY <1>1, <1>2, <1>3, <1>4, <1>5 DEF StreamInv

(***************************************************************************)
(* c empties the maps: the streams that were in them are closed.           *)
(***************************************************************************)
LEMMA ClearMove ==
    ASSUME StreamSafety, ClearStreams, UNCHANGED <<cryptoVars, shut>>,
           NEW c \in Callers, pc[c] # "store",
           NEW p \in {"remove", "zeroing"},
           Move(c, p, "nothing", None, Turned("map", "wiped"))
    PROVE  StreamSafety'
<1> DEFINE T == {slot[n] : n \in Names} \ {None}
<1> USE DEF StreamSafety, ClearStreams, Close, cryptoVars, Move, Turned
<1>1. /\ closed' = closed \cup T
      /\ nameOf' = nameOf /\ slot' = [n \in Names |-> None]
      /\ \A d \in Callers : pc[d] = "encrypt" => handle[d] \notin T \ closed
      /\ cipher' = [s \in Streams |->
                       IF s \in T \ closed /\ nameOf[s] \in Encrypted
                       THEN "closed" ELSE cipher[s]]
      /\ T \subseteq Streams
  BY DEF TypeOK
<1>2. TypeOK'
  BY DEF TypeOK, PCs
<1>3. LockInv'
  BY <1>1 DEF TypeOK, StreamInv, LockInv
<1>4. CipherInv' /\ ReaderInv' /\ NameInv'
  BY <1>1 DEF TypeOK, StreamInv, CipherInv, ReaderInv, NameInv
<1>5. SendInv'
  BY <1>1 DEF TypeOK, StreamInv, SendInv
<1>6. OwnInv'
  BY <1>1, StreamAssumption DEF TypeOK, StreamInv, OwnInv, SendInv
<1>7. AliasInv'
  BY DEF TypeOK, StreamInv, AliasInv
<1>8. NoOrphanStream'
  <2> SUFFICES ASSUME NEW s \in Streams \ closed'
               PROVE  \E d \in Callers : pc'[d] = "store" /\ handle'[d] = s
    BY DEF NoOrphanStream
  <2>1. s \notin closed /\ s \notin T
    BY <1>1
  <2>2. slot[nameOf[s]] # s
    BY <2>1, StreamAssumption DEF TypeOK
  <2>3. PICK d \in Callers : pc[d] = "store" /\ handle[d] = s
    BY <2>1, <2>2 DEF StreamInv, NoOrphanStream
  <2> QED BY <2>3 DEF TypeOK
<1> QED BY <1>2, <1>3, <1>4, <1>5, <1>6, <1>7, <1>8 DEF StreamInv

(***************************************************************************)
(* The steps of PrepareStreams.                                            *)
(***************************************************************************)
LEMMA DerivePreserves ==
    ASSUME StreamSafety, NEW c \in Callers,
           PrepareStreams(c) \/ LookUpKey(c) \/ CacheKey(c) \/ CopyKey(c)
           \/ EstablishStreams(c) \/ StorePublicKey(c)
    PROVE  StreamSafety'
<1> USE DEF mapVars, cryptoVars
<1>0. /\ alias \in [Callers -> Slices] /\ target \in [Callers -> Targets]
      /\ sharedKey \in {"none", "good", "wiped"} /\ allowed \in SUBSET Encrypted
      /\ cached \in BOOLEAN /\ modClosed \in BOOLEAN /\ bookKey \in BOOLEAN
      /\ shut \in BOOLEAN
  BY DEF StreamSafety, TypeOK, Slices, Targets
<1>1. CASE PrepareStreams(c)
  BY <1>0, <1>1, PlainMove DEF PrepareStreams, PCs, Targets
<1>2. ASSUME NEW k \in {"good", "wiped"}, KeyDerived(c, k), pc[c] # "store",
             UNCHANGED <<mapVars, streamVars, cryptoVars, shut>>
      PROVE  StreamSafety'
  <2>1. Hold(c, "none") \in [Callers -> Slices]
        /\ Hold(c, k) \in [Callers -> Slices] /\ Hold(c, k)[c] = k
        /\ \A d \in Callers \ {c} : /\ Hold(c, k)[d] = alias[d]
                                    /\ Hold(c, "none")[d] = alias[d]
    BY <1>0 DEF Hold, Slices
  <2>2. CASE target[c] = "connection"
    <3>1. Move(c, "lookup", "streams", None, Hold(c, "none"))
      BY <1>2, <2>2 DEF KeyDerived
    <3> QED BY <1>0, <1>2, <2>1, <3>1, PlainMove, SMTT(30) DEF PCs, Targets
  <2>3. CASE target[c] # "connection"
    <3>1. Move(c, "establish", "streams", None, Hold(c, k))
      BY <1>2, <2>3 DEF KeyDerived
    <3> QED BY <1>0, <1>2, <2>1, <3>1, PlainMove DEF PCs, Targets
  <2> QED BY <2>2, <2>3
<1>3. ASSUME Return(c), UNCHANGED <<slot, streamVars>>, pc[c] # "store",
             sharedKey' = sharedKey, allowed' = allowed, cached' = cached,
             modClosed' = modClosed, bookKey' \in BOOLEAN, shut' = shut
      PROVE  StreamSafety'
  <2>1. Hold(c, "none") \in [Callers -> Slices]
        /\ \A d \in Callers \ {c} : Hold(c, "none")[d] = alias[d]
    BY <1>0 DEF Hold, Slices
  <2> QED BY <1>0, <1>3, <2>1, PlainMove DEF Return, PCs, Targets
<1>4. CASE LookUpKey(c)
  <2>1. CASE Return(c)
    BY <1>0, <1>3, <1>4, <2>1 DEF LookUpKey
  <2>2. CASE KeyDerived(c, "good")
    BY <1>2, <1>4, <2>2 DEF LookUpKey
  <2>3. CASE Move(c, "derive", target[c], None, alias)
    BY <1>0, <1>4, <2>3, PlainMove DEF LookUpKey, PCs
  <2> QED BY <1>4, <2>1, <2>2, <2>3 DEF LookUpKey
<1>5. CASE CacheKey(c)
  <2>1. CASE modClosed
    BY <1>0, <1>3, <1>5, <2>1 DEF CacheKey
  <2>2. CASE ~modClosed
    <3> DEFINE als == [Turned("cache", "good") EXCEPT ![c] = "cache"]
    <3>1. als \in [Callers -> Slices] /\ als[c] = "cache"
          /\ \A d \in Callers \ {c} :
                 als[d] = alias[d] \/ (alias[d] = "cache" /\ als[d] = "good")
      BY <1>0 DEF Turned, Slices
    <3>2. Move(c, "copy", target[c], None, als)
      BY <1>5, <2>2 DEF CacheKey
    <3>3. cached' \in BOOLEAN /\ pc[c] # "store"
          /\ UNCHANGED <<mapVars, streamVars, modClosed, bookKey, shut>>
      BY <1>5, <2>2 DEF CacheKey
    <3> HIDE DEF als
    <3> QED BY <1>0, <3>1, <3>2, <3>3, PlainMove DEF PCs
  <2> QED BY <2>1, <2>2
<1>6. CASE CopyKey(c)
  <2>1. Content(c) \in {"good", "wiped"}
    BY <1>6 DEF CopyKey, Content, StreamSafety, StreamInv, AliasInv
  <2> QED BY <1>2, <1>6, <2>1 DEF CopyKey
<1>7. CASE EstablishStreams(c)
  <2> DEFINE als == [Turned("map", sharedKey) EXCEPT ![c] = "none"]
  <2>1. als \in [Callers -> Slices]
        /\ \A d \in Callers \ {c} : als[d] = alias[d] \/ alias[d] = "map"
    BY <1>0 DEF Turned, Slices
  <2>2. sharedKey' \in {"none", "good", "wiped"}
    BY <1>7 DEF EstablishStreams, StreamSafety, StreamInv, AliasInv
  <2>3. allowed' \in SUBSET Encrypted
    BY <1>0, <1>7 DEF EstablishStreams
  <2>4. Move(c, "publish", "nothing", None, als) /\ pc[c] # "store"
        /\ UNCHANGED <<slot, streamVars, cryptoVars, shut>>
    BY <1>7 DEF EstablishStreams
  <2> HIDE DEF als
  <2> QED BY <1>0, <2>1, <2>2, <2>3, <2>4, PlainMove, SMTT(30)
          DEF PCs, Targets
<1>8. CASE StorePublicKey(c)
  <2>1. bookKey' \in BOOLEAN
    BY <1>8 DEF StorePublicKey
  <2> QED BY <1>0, <1>3, <1>8, <2>1 DEF StorePublicKey
<1> QED BY <1>1, <1>4, <1>5, <1>6, <1>7, <1>8

(***************************************************************************)
(* A step of c that ends its call.                                         *)
(***************************************************************************)
LEMMA ReturnMove ==
    ASSUME StreamSafety, NEW c \in Callers, pc[c] # "store", Return(c),
           UNCHANGED <<mapVars, streamVars, shut>>,
           cached' \in BOOLEAN, modClosed' \in BOOLEAN, bookKey' \in BOOLEAN
    PROVE  StreamSafety'
<1>1. Hold(c, "none") \in [Callers -> Slices]
      /\ \A d \in Callers \ {c} : Hold(c, "none")[d] = alias[d]
  BY DEF StreamSafety, TypeOK, Hold, Slices
<1>2. /\ sharedKey \in {"none", "good", "wiped"}
      /\ allowed \in SUBSET Encrypted /\ shut \in BOOLEAN
  BY DEF StreamSafety, TypeOK
<1> QED BY <1>1, <1>2, PlainMove DEF Return, PCs, Targets, mapVars

(***************************************************************************)
(* The steps of SendCtx that change no stream.                             *)
(***************************************************************************)
LEMMA SendPreserves ==
    ASSUME StreamSafety, NEW c \in Callers,
           (\E n \in Names : Send(c, n)) \/ OpenLazily(c)
           \/ OpenUnencryptedLazily(c) \/ SendLocks(c) \/ SendUnencrypted(c)
           \/ SendEncrypts(c) \/ SendGivesUp(c)
    PROVE  StreamSafety'
<1>0. /\ alias \in [Callers -> Slices]
      /\ sharedKey \in {"none", "good", "wiped"} /\ allowed \in SUBSET Encrypted
      /\ cached \in BOOLEAN /\ modClosed \in BOOLEAN /\ bookKey \in BOOLEAN
      /\ shut \in BOOLEAN
  BY DEF StreamSafety, TypeOK, Slices
<1>1. ASSUME NEW n \in Names, IsOpen(n), Move(c, "lock", n, slot[n], alias),
             pc[c] # "store",
             UNCHANGED <<mapVars, streamVars, cryptoVars, shut>>
      PROVE  StreamSafety'
  <2>1. slot[n] \in Streams /\ nameOf[slot[n]] = n
    BY <1>1 DEF StreamSafety, TypeOK, StreamInv, NameInv, IsOpen
  <2>2. \A d \in Callers : pc[d] = "store" => handle[d] # slot[n]
    BY DEF StreamSafety, StreamInv, OwnInv
  <2> QED BY <1>1, <2>1, <2>2, HandleMove
<1>2. ASSUME NEW n \in Names, NEW p \in {"open", "dial"},
             NEW als \in {alias, Hold(c, "map")},
             Move(c, p, n, None, als), pc[c] # "store",
             UNCHANGED <<mapVars, streamVars, cryptoVars, shut>>
      PROVE  StreamSafety'
  <2>1. als \in [Callers -> Slices]
        /\ \A d \in Callers \ {c} : als[d] = alias[d]
    BY <1>0 DEF Hold, Slices
  <2> QED BY <1>0, <1>2, <2>1, PlainMove
          DEF PCs, Targets, mapVars, cryptoVars
<1>3. ASSUME NEW n \in Names, Send(c, n) PROVE StreamSafety'
  <2>1. CASE IsOpen(n)
    BY <1>1, <1>3, <2>1 DEF Send
  <2>2. CASE ~IsOpen(n)
    BY <1>2, <1>3, <2>2 DEF Send
  <2> QED BY <2>1, <2>2
<1>4. CASE OpenLazily(c)
  <2>1. target[c] \in Names /\ pc[c] # "store"
    BY <1>4 DEF OpenLazily, StreamSafety, StreamInv, SendInv
  <2>2. CASE Return(c)
    BY <1>0, <1>4, <2>1, <2>2, ReturnMove DEF OpenLazily, cryptoVars
  <2>3. CASE IsOpen(target[c])
             /\ Move(c, "lock", target[c], slot[target[c]], alias)
    BY <1>1, <1>4, <2>1, <2>3 DEF OpenLazily
  <2>4. CASE Move(c, "dial", target[c], None, Hold(c, "map"))
    BY <1>2, <1>4, <2>1, <2>4 DEF OpenLazily
  <2> QED BY <1>4, <2>2, <2>3, <2>4 DEF OpenLazily
<1>5. CASE OpenUnencryptedLazily(c)
  <2>1. Handshake \in Names /\ pc[c] # "store"
        /\ UNCHANGED <<mapVars, streamVars, cryptoVars, shut>>
    BY <1>5 DEF OpenUnencryptedLazily, Names
  <2>2. CASE IsOpen(Handshake)
    BY <1>1, <1>5, <2>1, <2>2 DEF OpenUnencryptedLazily
  <2>3. CASE ~IsOpen(Handshake)
    BY <1>2, <1>5, <2>1, <2>3 DEF OpenUnencryptedLazily
  <2> QED BY <2>2, <2>3
<1>6. CASE SendLocks(c)
  <2>1. pc[c] = "lock" /\ UNCHANGED <<mapVars, streamVars, cryptoVars, shut>>
    BY <1>6 DEF SendLocks
  <2>2. CASE handle[c] \notin closed
    <3>0. target[c] \in Encrypted
      BY <1>6 DEF SendLocks
    <3>1. /\ handle[c] \in Streams /\ target[c] \in Names
          /\ nameOf[handle[c]] = target[c]
      BY <2>1 DEF StreamSafety, StreamInv, SendInv
    <3>2. \A d \in Callers : pc[d] = "store" => handle[d] # handle[c]
      BY <2>1 DEF StreamSafety, StreamInv, OwnInv
    <3>3. Move(c, "encrypt", target[c], handle[c], alias)
      BY <1>6, <2>2 DEF SendLocks
    <3> QED BY <2>1, <2>2, <3>0, <3>1, <3>2, <3>3, HandleMove
  <2>3. CASE Return(c)
    BY <1>0, <2>1, <2>3, ReturnMove DEF cryptoVars
  <2> QED BY <1>6, <2>2, <2>3 DEF SendLocks
<1>7. CASE SendUnencrypted(c) \/ SendEncrypts(c) \/ SendGivesUp(c)
  BY <1>0, <1>7, ReturnMove
     DEF SendUnencrypted, SendEncrypts, SendGivesUp, cryptoVars
<1> QED BY <1>3, <1>4, <1>5, <1>6, <1>7

(***************************************************************************)
(* The steps that make a stream, or store one that was made.               *)
(***************************************************************************)
LEMMA OpenPreserves ==
    ASSUME StreamSafety, NEW c \in Callers, OpenStream(c) PROVE StreamSafety'
<1>1. PICK s \in Streams : /\ NewStream(s, target[c], Content(c))
                           /\ Move(c, "store", target[c], s, Hold(c, "none"))
  BY DEF OpenStream
<1>2. pc[c] = "dial" /\ UNCHANGED <<mapVars, cryptoVars, shut>>
      /\ target[c] \in Names
  BY DEF OpenStream, StreamSafety, StreamInv, SendInv
<1>3. Content(c) \in {"none", "good", "wiped"}
  BY DEF Content, StreamSafety, TypeOK
<1> USE DEF StreamSafety, NewStream, Move, Hold, mapVars, cryptoVars
<1>4. TypeOK'
  BY <1>1, <1>2, <1>3 DEF TypeOK, PCs
<1>5. \A d \in Callers : handle[d] # s
  BY <1>1 DEF Unreferenced
<1>6. \A n \in Names : slot[n] # s
  BY <1>1 DEF Unreferenced
<1>7. LockInv' /\ CipherInv' /\ ReaderInv'
  BY <1>1, <1>2, <1>3, <1>5
     DEF TypeOK, StreamInv, LockInv, CipherInv, ReaderInv
<1>8. NameInv'
  BY <1>1, <1>2, <1>6 DEF TypeOK, StreamInv, NameInv
<1>9. SendInv'
  BY <1>1, <1>2, <1>5 DEF TypeOK, StreamInv, SendInv
<1>10. OwnInv'
  BY <1>1, <1>2, <1>5, <1>6 DEF TypeOK, StreamInv, OwnInv, SendInv
<1>11. AliasInv'
  BY <1>1, <1>2 DEF TypeOK, StreamInv, AliasInv
<1>12. NoOrphanStream'
  BY <1>1, <1>2 DEF TypeOK, StreamInv, NoOrphanStream
<1> QED BY <1>4, <1>7, <1>8, <1>9, <1>10, <1>11, <1>12 DEF StreamInv

LEMMA IncomingPreserves ==
    ASSUME StreamSafety, NEW n \in Names, ~IsOpen(n),
           NEW k \in {"none", "good", "wiped"},
           NEW s \in Streams, NewStream(s, n, k),
           slot' = [slot EXCEPT ![n] = s],
           UNCHANGED <<sharedKey, allowed, cryptoVars, shut, callVars>>
    PROVE  StreamSafety'
<1> USE DEF StreamSafety, NewStream, cryptoVars, callVars
<1>1. TypeOK'
  BY DEF TypeOK
<1>2. \A d \in Callers : handle[d] # s
  BY DEF Unreferenced
<1>3. \A m \in Names : slot[m] # s
  BY DEF Unreferenced
<1>4. LockInv' /\ CipherInv' /\ ReaderInv'
  BY <1>2 DEF TypeOK, StreamInv, LockInv, CipherInv, ReaderInv
<1>5. NameInv'
  BY <1>3 DEF TypeOK, StreamInv, NameInv
<1>6. SendInv'
  BY <1>2 DEF TypeOK, StreamInv, SendInv
<1>7. OwnInv'
  BY <1>2, <1>3 DEF TypeOK, StreamInv, OwnInv
<1>8. AliasInv'
  BY DEF TypeOK, StreamInv, AliasInv
<1>9. NoOrphanStream'
  <2> SUFFICES ASSUME NEW u \in Streams \ closed'
               PROVE  \/ slot'[nameOf'[u]] = u
                      \/ \E d \in Callers : pc'[d] = "store" /\ handle'[d] = u
    BY DEF NoOrphanStream
  <2>1. CASE u = s
    BY <2>1 DEF TypeOK
  <2>2. CASE u # s
    <3>1. u \notin closed /\ nameOf'[u] = nameOf[u]
      BY <2>2 DEF TypeOK
    <3>2. slot[n] # u
      BY <3>1, StreamAssumption DEF IsOpen
    <3> QED BY <3>1, <3>2 DEF TypeOK, StreamInv, NoOrphanStream
  <2> QED BY <2>1, <2>2
<1> QED BY <1>1, <1>4, <1>5, <1>6, <1>7, <1>8, <1>9 DEF StreamInv

LEMMA HandlersPreserve ==
    ASSUME StreamSafety,
           (\E n \in Encrypted : HandleIncomingStream(n))
           \/ HandleIncomingHandshakeStream
    PROVE  StreamSafety'
<1>1. ASSUME NEW n \in Encrypted, HandleIncomingStream(n) PROVE StreamSafety'
  <2>1. n \in Names /\ sharedKey \in {"none", "good", "wiped"}
    BY DEF Names, StreamSafety, TypeOK
  <2> QED BY <1>1, <2>1, IncomingPreserves DEF HandleIncomingStream
<1>2. CASE HandleIncomingHandshakeStream
  <2>1. Handshake \in Names
    BY DEF Names
  <2> QED BY <1>2, <2>1, IncomingPreserves
          DEF HandleIncomingHandshakeStream, NewUnencryptedStream
<1> QED BY <1>1, <1>2

LEMMA StorePreserves ==
    ASSUME StreamSafety, NEW c \in Callers, StoreStream(c) PROVE StreamSafety'
<1> DEFINE n == target[c]
           h == handle[c]
<1>1. /\ pc[c] = "store" /\ n \in Names /\ h \in Streams /\ nameOf[h] = n
      /\ \A m \in Names : slot[m] # h
      /\ \A d \in Callers \ {c} : handle[d] # h
  BY DEF StoreStream, StreamSafety, StreamInv, SendInv, OwnInv
<1>2. UNCHANGED <<sharedKey, allowed, cryptoVars, shut>>
  BY DEF StoreStream
<1>3. CASE IsOpen(n)
  <2>1. Close({h}) /\ Move(c, "lock", n, slot[n], alias) /\ slot' = slot
    BY <1>3 DEF StoreStream
  <2>2. slot[n] \in Streams /\ nameOf[slot[n]] = n
        /\ \A d \in Callers : pc[d] = "store" => handle[d] # slot[n]
    BY <1>1, <1>3 DEF StreamSafety, TypeOK, StreamInv, NameInv, OwnInv, IsOpen
  <2> USE DEF StreamSafety, Close, Move, cryptoVars
  <2>3. TypeOK'
    BY <1>1, <1>2, <2>1, <2>2 DEF TypeOK, PCs
  <2>4. LockInv'
    BY <1>1, <2>1 DEF TypeOK, StreamInv, LockInv
  <2>5. CipherInv' /\ ReaderInv' /\ NameInv'
    BY <1>1, <2>1 DEF TypeOK, StreamInv, CipherInv, ReaderInv, NameInv
  <2>6. SendInv'
    BY <1>1, <2>1, <2>2 DEF TypeOK, StreamInv, SendInv
  <2>7. OwnInv'
    BY <1>1, <2>1, <2>2 DEF TypeOK, StreamInv, OwnInv
  <2>8. AliasInv'
    BY <1>1, <2>1 DEF TypeOK, StreamInv, AliasInv
  <2>9. NoOrphanStream'
    BY <1>1, <2>1 DEF TypeOK, StreamInv, NoOrphanStream
  <2> QED BY <2>3, <2>4, <2>5, <2>6, <2>7, <2>8, <2>9 DEF StreamInv
<1>4. CASE ~IsOpen(n)
  <2>1. /\ slot' = [slot EXCEPT ![n] = h] /\ Move(c, "lock", n, h, alias)
        /\ UNCHANGED streamVars
    BY <1>4 DEF StoreStream
  <2> USE DEF StreamSafety, Move, cryptoVars, streamVars
  <2>2. TypeOK'
    BY <1>1, <1>2, <2>1 DEF TypeOK, PCs
  <2>3. LockInv' /\ CipherInv' /\ ReaderInv'
    BY <1>1, <2>1 DEF TypeOK, StreamInv, LockInv, CipherInv, ReaderInv
  <2>4. NameInv'
    BY <1>1, <2>1 DEF TypeOK, StreamInv, NameInv
  <2>5. SendInv'
    BY <1>1, <2>1 DEF TypeOK, StreamInv, SendInv
  <2>6. OwnInv'
    BY <1>1, <2>1 DEF TypeOK, StreamInv, OwnInv
  <2>7. AliasInv'
    BY <1>1, <2>1 DEF TypeOK, StreamInv, AliasInv
  <2>8. NoOrphanStream'
    <3> SUFFICES ASSUME NEW u \in Streams \ closed
                 PROVE  \/ slot'[nameOf[u]] = u
                        \/ \E d \in Callers :
                               pc'[d] = "store" /\ handle'[d] = u
      BY <2>1 DEF NoOrphanStream
    <3>1. CASE u = h
      BY <1>1, <2>1, <3>1 DEF TypeOK
    <3>2. CASE u # h
      <4>1. slot[n] # u
        BY <1>4, StreamAssumption DEF IsOpen
      <4> QED BY <1>1, <2>1, <3>2, <4>1 DEF TypeOK, StreamInv, NoOrphanStream
    <3> QED BY <3>1, <3>2
  <2> QED BY <2>2, <2>3, <2>4, <2>5, <2>6, <2>7, <2>8 DEF StreamInv
<1> QED BY <1>3, <1>4

(***************************************************************************)
(* The steps of read loops and of the remote side, and the end of the      *)
(* handshake stream.                                                       *)
(***************************************************************************)
LEMMA ReaderPreserves ==
    ASSUME StreamSafety, NEW s \in Streams, ReadLoopEnds(s) \/ RemoteEnds(s)
    PROVE  StreamSafety'
<1> USE DEF StreamSafety, mapVars, cryptoVars, callVars
<1>1. CASE RemoteEnds(s)
  BY <1>1 DEF RemoteEnds, TypeOK, StreamInv, LockInv, CipherInv, ReaderInv,
              NameInv, SendInv, OwnInv, AliasInv, NoOrphanStream
<1>2. CASE ReadLoopEnds(s)
  BY <1>2 DEF ReadLoopEnds, MarkClosed, TypeOK, StreamInv, LockInv, CipherInv,
              ReaderInv, NameInv, SendInv, OwnInv, AliasInv, NoOrphanStream
<1> QED BY <1>1, <1>2

LEMMA HandshakePreserves ==
    ASSUME StreamSafety, CloseHandshakeStream PROVE StreamSafety'
<1> DEFINE h == slot[Handshake]
<1>1. /\ h \in Streams /\ nameOf[h] = Handshake /\ Handshake \in Names
      /\ \A d \in Callers : pc[d] = "store" => handle[d] # h
      /\ Close({h}) /\ slot' = [slot EXCEPT ![Handshake] = None]
      /\ UNCHANGED <<sharedKey, allowed, cryptoVars, shut, callVars>>
  BY DEF CloseHandshakeStream, StreamSafety, TypeOK, StreamInv, NameInv, OwnInv, Names
<1> USE DEF StreamSafety, Close, cryptoVars, callVars
<1>2. TypeOK'
  BY <1>1 DEF TypeOK
<1>3. LockInv'
  BY <1>1 DEF TypeOK, StreamInv, LockInv
<1>4. CipherInv' /\ ReaderInv' /\ NameInv'
  BY <1>1 DEF TypeOK, StreamInv, CipherInv, ReaderInv, NameInv
<1>5. SendInv' /\ AliasInv'
  BY <1>1 DEF TypeOK, StreamInv, SendInv, AliasInv
<1>6. OwnInv'
  BY <1>1, StreamAssumption DEF TypeOK, StreamInv, OwnInv, SendInv
<1>7. NoOrphanStream'
  BY <1>1 DEF TypeOK, StreamInv, NoOrphanStream
<1> QED BY <1>2, <1>3, <1>4, <1>5, <1>6, <1>7 DEF StreamInv

(***************************************************************************)
(* The steps of cleanupPeerResources and of Stop.                          *)
(***************************************************************************)
LEMMA CleanupPreserves ==
    ASSUME StreamSafety, NEW c \in Callers,
           CloseStreams(c) \/ RemovePeerKey(c) \/ Shutdown(c)
           \/ ShutdownClears(c) \/ ModuleCloses(c)
    PROVE  StreamSafety'
<1>0. /\ alias \in [Callers -> Slices]
      /\ sharedKey \in {"none", "good", "wiped"} /\ allowed \in SUBSET Encrypted
      /\ cached \in BOOLEAN /\ modClosed \in BOOLEAN /\ bookKey \in BOOLEAN
      /\ shut \in BOOLEAN
  BY DEF StreamSafety, TypeOK, Slices
<1>1. CASE CloseStreams(c) \/ ShutdownClears(c)
  BY <1>1, ClearMove DEF CloseStreams, ShutdownClears
<1>2. CASE Shutdown(c)
  BY <1>0, <1>2, PlainMove DEF Shutdown, PCs, Targets, mapVars, cryptoVars
<1>3. ASSUME Move(c, "idle", "nothing", None, Turned("cache", "wiped")),
             UNCHANGED <<mapVars, streamVars, shut, bookKey>>,
             cached' \in BOOLEAN, modClosed' \in BOOLEAN, pc[c] # "store"
      PROVE  StreamSafety'
  <2> DEFINE als == Turned("cache", "wiped")
  <2>1. als \in [Callers -> Slices]
        /\ \A d \in Callers \ {c} :
               als[d] = alias[d] \/ (alias[d] = "cache" /\ als[d] = "wiped")
    BY <1>0 DEF Turned, Slices
  <2>2. /\ sharedKey' \in {"none", "good", "wiped"}
        /\ allowed' \in SUBSET Encrypted /\ slot' = slot
        /\ bookKey' \in BOOLEAN /\ shut' \in BOOLEAN
    BY <1>0, <1>3 DEF mapVars
  <2>3. Move(c, "idle", "nothing", None, als)
    BY <1>3
  <2> HIDE DEF als
  <2> QED BY <1>3, <2>1, <2>2, <2>3, PlainMove DEF PCs, Targets
<1>4. CASE RemovePeerKey(c)
  <2>1. CASE bookKey
    BY <1>0, <1>3, <1>4, <2>1 DEF RemovePeerKey
  <2>2. CASE ~bookKey
    BY <1>0, <1>4, <2>2, ReturnMove DEF RemovePeerKey
  <2> QED BY <2>1, <2>2
<1>5. CASE ModuleCloses(c)
  <2>1. CASE Return(c) /\ UNCHANGED <<cached, modClosed>>
    BY <1>0, <1>5, <2>1, ReturnMove DEF ModuleCloses
  <2>2. CASE cached' = FALSE /\ modClosed' = TRUE
             /\ Move(c, "idle", "nothing", None, Turned("cache", "wiped"))
    BY <1>0, <1>3, <1>5, <2>2 DEF ModuleCloses
  <2> QED BY <1>5, <2>1, <2>2 DEF ModuleCloses
<1> QED BY <1>1, <1>2, <1>4, <1>5

(***************************************************************************)
(* The invariant of the stream manager holds in every reachable state.     *)
(***************************************************************************)
THEOREM StreamsCorrect == Spec => []StreamSafety
<1>1. StreamSafety /\ [Next]_vars => StreamSafety'
  <2> SUFFICES ASSUME StreamSafety, [Next]_vars PROVE StreamSafety'
    OBVIOUS
  <2>1. CASE UNCHANGED vars
    BY <2>1 DEF vars, mapVars, streamVars, cryptoVars, callVars, StreamSafety, TypeOK,
                StreamInv, LockInv, CipherInv, ReaderInv, NameInv, SendInv,
                OwnInv, AliasInv, NoOrphanStream
  <2>2. CASE Next
    BY <2>2, DerivePreserves, SendPreserves, OpenPreserves, HandlersPreserve,
       StorePreserves, ReaderPreserves, HandshakePreserves, CleanupPreserves
       DEF Next, CallerStep
  <2> QED BY <2>1, <2>2
<1> QED BY InvInitially, <1>1, PTL DEF Spec

(***************************************************************************)
(* Close never takes the cipher away under a sender that encrypts.         *)
(***************************************************************************)
THEOREM CipherIsHeld == Spec => []EncryptingIsOpen
<1>1. StreamSafety => EncryptingIsOpen
  BY DEF StreamSafety, StreamInv, LockInv, CipherInv, EncryptingIsOpen
<1> QED BY <1>1, StreamsCorrect, PTL

(***************************************************************************)
(* No open stream is lost, however openers, incoming streams and cleanups  *)
(* interleave.                                                             *)
(***************************************************************************)
THEOREM NoStreamIsLost == Spec => []NoOrphanStream
<1>1. StreamSafety => NoOrphanStream
  BY DEF StreamSafety, StreamInv
<1> QED BY <1>1, StreamsCorrect, PTL

(***************************************************************************)
(* No read loop is leaked: one whose stream nobody refers to is stopped.   *)
(***************************************************************************)
THEOREM NoReaderIsLeaked == Spec => []ReadersAreStopped
<1>1. StreamSafety => ReadersAreStopped
  <2> SUFFICES ASSUME TypeOK, StreamInv, NEW s \in reading, Unreferenced(s)
               PROVE  s \notin raw
    BY DEF StreamSafety, ReadersAreStopped
  <2>1. s \in Streams /\ nameOf[s] \in Names
    BY DEF TypeOK
  <2>2. s \in closed
    BY <2>1 DEF StreamInv, NoOrphanStream, Unreferenced
  <2> QED BY <2>2 DEF StreamInv, ReaderInv
<1> QED BY <1>1, StreamsCorrect, PTL

-----------------------------------------------------------------------------
(* Calls that do not overlap.  With one call at a time (streams still come  *)
(* in, end and are read at any moment) no key is zeroed while somebody uses *)
(* its slice, so that all it takes to lose a key is two calls at once.      *)

OneCall == \A c, d \in Callers : c = d

\* No slice is wiped, and a shared one is held only between the two sections
\* that take and copy it.
SliceInv ==
    /\ sharedKey # "wiped"
    /\ \A s \in Streams : cipher[s] # "wiped"
    /\ \A c \in Callers : /\ alias[c] # "wiped"
                          /\ alias[c] = "map" => pc[c] = "dial"
                          /\ alias[c] = "cache" => pc[c] = "copy"

\* An encrypted stream that is open, or is being opened, has its key.
KeyedInv ==
    /\ OpenStreamHasKey
    /\ \A c \in Callers : pc[c] \in {"dial", "store"} /\ target[c] \in Encrypted =>
                              sharedKey # "none"

\* The steps of PrepareStreams store a key nobody can have zeroed.
LEMMA OneCallDerives ==
    ASSUME OneCall, StreamSafety, SliceInv, KeyedInv, NEW c \in Callers,
           PrepareStreams(c) \/ LookUpKey(c) \/ CacheKey(c) \/ CopyKey(c)
           \/ EstablishStreams(c) \/ StorePublicKey(c)
    PROVE  SliceInv' /\ KeyedInv'
<1> USE DEF OneCall, StreamSafety, TypeOK, SliceInv, KeyedInv, OpenStreamHasKey,
            IsOpen, Move, Hold, Return, mapVars, streamVars, cryptoVars
<1>1. CASE PrepareStreams(c)
  BY <1>1 DEF PrepareStreams
<1>2. CASE LookUpKey(c)
  BY <1>2 DEF LookUpKey, KeyDerived
<1>3. CASE CacheKey(c)
  BY <1>3 DEF CacheKey, Turned
<1>4. CASE CopyKey(c)
  BY <1>4 DEF CopyKey, KeyDerived, Content, StreamInv, AliasInv
<1>5. CASE EstablishStreams(c)
  BY <1>5 DEF EstablishStreams, Turned, StreamInv, AliasInv
<1>6. CASE StorePublicKey(c)
  BY <1>6 DEF StorePublicKey
<1> QED BY <1>1, <1>2, <1>3, <1>4, <1>5, <1>6

\* The steps of SendCtx make a stream with the key that is still there.
LEMMA OneCallSends ==
    ASSUME OneCall, StreamSafety, SliceInv, KeyedInv, NEW c \in Callers,
           \/ \E n \in Names : Send(c, n)
           \/ OpenLazily(c) \/ OpenUnencryptedLazily(c) \/ OpenStream(c)
           \/ StoreStream(c) \/ SendLocks(c) \/ SendUnencrypted(c)
           \/ SendEncrypts(c) \/ SendGivesUp(c)
    PROVE  SliceInv' /\ KeyedInv'
<1> USE StreamAssumption
    DEF OneCall, StreamSafety, TypeOK, SliceInv, KeyedInv, OpenStreamHasKey,
        IsOpen, Move, Hold, Return, mapVars, streamVars, cryptoVars, Names
<1>1. ASSUME NEW n \in Names, Send(c, n) PROVE SliceInv' /\ KeyedInv'
  BY <1>1 DEF Send
<1>2. CASE OpenLazily(c)
  BY <1>2 DEF OpenLazily
<1>3. CASE OpenUnencryptedLazily(c)
  BY <1>3 DEF OpenUnencryptedLazily
<1>4. CASE OpenStream(c)
  BY <1>4 DEF OpenStream, NewStream, Unreferenced, Content, StreamInv, SendInv
<1>5. CASE StoreStream(c)
  BY <1>5 DEF StoreStream, Close, StreamInv, SendInv
<1>6. CASE SendLocks(c) \/ SendUnencrypted(c) \/ SendEncrypts(c) \/ SendGivesUp(c)
  BY <1>6 DEF SendLocks, SendUnencrypted, SendEncrypts, SendGivesUp
<1> QED BY <1>1, <1>2, <1>3, <1>4, <1>5, <1>6

\* The end of a session, or of the manager, finds no slice in use.
LEMMA OneCallEnds ==
    ASSUME OneCall, StreamSafety, SliceInv, KeyedInv, NEW c \in Callers,
           \/ CloseStreams(c) \/ RemovePeerKey(c) \/ Shutdown(c)
           \/ ShutdownClears(c) \/ ModuleCloses(c)
    PROVE  SliceInv' /\ KeyedInv'
<1> USE DEF OneCall, StreamSafety, TypeOK, SliceInv, KeyedInv, OpenStreamHasKey,
            IsOpen, Move, Hold, Return, mapVars, streamVars, cryptoVars, Names
<1>1. CASE CloseStreams(c)
  BY <1>1 DEF CloseStreams, ClearStreams, Close, Turned
<1>2. CASE RemovePeerKey(c)
  BY <1>2 DEF RemovePeerKey, Turned
<1>3. CASE Shutdown(c)
  BY <1>3 DEF Shutdown
<1>4. CASE ShutdownClears(c)
  BY <1>4 DEF ShutdownClears, ClearStreams, Close, Turned
<1>5. CASE ModuleCloses(c)
  BY <1>5 DEF ModuleCloses, Turned
<1> QED BY <1>1, <1>2, <1>3, <1>4, <1>5

\* The steps of the streams themselves.
LEMMA OneCallStreams ==
    ASSUME StreamSafety, SliceInv, KeyedInv,
           \/ \E n \in Encrypted : HandleIncomingStream(n)
           \/ HandleIncomingHandshakeStream
           \/ \E s \in Streams : ReadLoopEnds(s) \/ RemoteEnds(s)
           \/ CloseHandshakeStream
    PROVE  SliceInv' /\ KeyedInv'
<1> USE StreamAssumption
    DEF StreamSafety, TypeOK, SliceInv, KeyedInv, OpenStreamHasKey, IsOpen,
        mapVars, streamVars, cryptoVars, callVars, Names
<1>1. ASSUME NEW n \in Encrypted, HandleIncomingStream(n)
      PROVE  SliceInv' /\ KeyedInv'
  BY <1>1 DEF HandleIncomingStream, NewStream, Unreferenced
<1>2. CASE HandleIncomingHandshakeStream
  BY <1>2 DEF HandleIncomingHandshakeStream, NewUnencryptedStream, NewStream,
              Unreferenced
<1>3. ASSUME NEW s \in Streams, ReadLoopEnds(s) \/ RemoteEnds(s)
      PROVE  SliceInv' /\ KeyedInv'
  BY <1>3 DEF ReadLoopEnds, MarkClosed, RemoteEnds
<1>4. CASE CloseHandshakeStream
  BY <1>4 DEF CloseHandshakeStream, Close
<1> QED BY <1>1, <1>2, <1>3, <1>4

\* As long as the calls about a peer do not overlap, every key that is
\* derived, stored or used to encrypt is the one that was agreed on, and no
\* encrypted stream is open without one: the promises the code does not keep
\* (README, section 4) fail by interleaving alone.
THEOREM OneCallKeepsKeys ==
    ASSUME OneCall
    PROVE  Spec => [](EncryptsWithKey /\ DeriveReturnsKey /\ OpenStreamHasKey)
<1>1. Init => SliceInv /\ KeyedInv
  BY DEF Init, SliceInv, KeyedInv, OpenStreamHasKey, IsOpen, Names
<1>2. StreamSafety /\ SliceInv /\ KeyedInv /\ [Next]_vars => SliceInv' /\ KeyedInv'
  <2> SUFFICES ASSUME StreamSafety, SliceInv, KeyedInv, [Next]_vars
               PROVE  SliceInv' /\ KeyedInv'
    OBVIOUS
  <2>1. CASE UNCHANGED vars
    BY <2>1 DEF vars, SliceInv, KeyedInv, OpenStreamHasKey, IsOpen, mapVars,
                streamVars, callVars
  <2> QED BY <2>1, OneCallDerives, OneCallSends, OneCallEnds, OneCallStreams
          DEF Next, CallerStep
<1>3. StreamSafety /\ SliceInv /\ KeyedInv =>
          EncryptsWithKey /\ DeriveReturnsKey /\ OpenStreamHasKey
  BY DEF StreamSafety, StreamInv, LockInv, SliceInv, KeyedInv, EncryptsWithKey,
         DeriveReturnsKey
<1> QED BY <1>1, <1>2, <1>3, StreamsCorrect, PTL DEF Spec

\* A cached key belongs to a PrepareStreams under way, or the address book
\* knows whose it is and the manager has it too, or the cleanup is about to
\* remove it.
ForgetInv ==
    /\ ~modClosed
    /\ \A c \in Callers : pc[c] \notin {"stopping", "zeroing"}
    /\ cached =>
          \E c \in Callers :
             /\ \/ pc[c] \in {"lookup", "derive", "copy", "establish", "publish"}
                \/ bookKey
             /\ \/ pc[c] \in {"lookup", "derive", "copy", "establish", "remove"}
                \/ sharedKey # "none"

\* cleanupPeerResources removes the cached key of a peer that is in the
\* address book, when calls do not overlap and the node is not stopped.
THEOREM OneCallForgetsKey ==
    ASSUME OneCall, InBook = TRUE, "stop" \notin Ops
    PROVE  Spec => []KeyIsForgotten
<1>1. Init => ForgetInv
  BY DEF Init, ForgetInv
<1>2. StreamSafety /\ ForgetInv /\ [Next]_vars => ForgetInv'
  <2> SUFFICES ASSUME StreamSafety, ForgetInv, [Next]_vars PROVE ForgetInv'
    OBVIOUS
  <2> USE DEF OneCall, StreamSafety, TypeOK, ForgetInv, Move, Hold, Return,
              mapVars, streamVars, cryptoVars, callVars
  <2>1. CASE UNCHANGED vars
    BY <2>1 DEF vars
  <2>2. ASSUME NEW c \in Callers,
               PrepareStreams(c) \/ LookUpKey(c) \/ CacheKey(c) \/ CopyKey(c)
        PROVE  ForgetInv'
    BY <2>2 DEF PrepareStreams, LookUpKey, CacheKey, CopyKey, KeyDerived
  <2>3. ASSUME NEW c \in Callers, EstablishStreams(c) PROVE ForgetInv'
    BY <2>3 DEF EstablishStreams, StreamInv, AliasInv
  <2>4. ASSUME NEW c \in Callers, StorePublicKey(c) PROVE ForgetInv'
    BY <2>4 DEF StorePublicKey
  <2>5. ASSUME NEW c \in Callers, NEW n \in Names, Send(c, n) PROVE ForgetInv'
    BY <2>5 DEF Send
  <2>6. ASSUME NEW c \in Callers, OpenLazily(c) \/ OpenUnencryptedLazily(c)
        PROVE  ForgetInv'
    BY <2>6 DEF OpenLazily, OpenUnencryptedLazily
  <2>7. ASSUME NEW c \in Callers, OpenStream(c) \/ StoreStream(c)
        PROVE  ForgetInv'
    BY <2>7 DEF OpenStream, StoreStream
  <2>8. ASSUME NEW c \in Callers,
               SendLocks(c) \/ SendUnencrypted(c) \/ SendEncrypts(c)
               \/ SendGivesUp(c)
        PROVE  ForgetInv'
    BY <2>8 DEF SendLocks, SendUnencrypted, SendEncrypts, SendGivesUp
  <2>9. ASSUME NEW c \in Callers, CloseStreams(c) PROVE ForgetInv'
    BY <2>9 DEF CloseStreams, ClearStreams
  <2>10. ASSUME NEW c \in Callers, RemovePeerKey(c) PROVE ForgetInv'
    BY <2>10 DEF RemovePeerKey
  <2>11. ASSUME NEW c \in Callers,
                Shutdown(c) \/ ShutdownClears(c) \/ ModuleCloses(c)
         PROVE  FALSE
    BY <2>11 DEF Shutdown, ShutdownClears, ModuleCloses
  <2>12. ASSUME UNCHANGED <<sharedKey, cached, modClosed, bookKey, pc>>
         PROVE  ForgetInv'
    BY <2>12
  <2>13. ASSUME \/ \E n \in Encrypted : HandleIncomingStream(n)
                \/ HandleIncomingHandshakeStream
                \/ \E s \in Streams : ReadLoopEnds(s) \/ RemoteEnds(s)
                \/ CloseHandshakeStream
         PROVE  ForgetInv'
    BY <2>12, <2>13 DEF HandleIncomingStream, HandleIncomingHandshakeStream,
                        ReadLoopEnds, RemoteEnds, CloseHandshakeStream
  <2> QED BY <2>1, <2>2, <2>3, <2>4, <2>5, <2>6, <2>7, <2>8, <2>9, <2>10,
             <2>11, <2>13 DEF Next, CallerStep
<1>3. StreamSafety /\ ForgetInv => KeyIsForgotten
  BY DEF ForgetInv, KeyIsForgotten
<1> QED BY <1>1, <1>2, <1>3, StreamsCorrect, PTL DEF Spec
=============================================================================
