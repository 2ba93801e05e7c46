--------------------------- MODULE StreamManager ---------------------------
(***************************************************************************)
(* pkg/streams: the stream manager, its streams and their read loops, and  *)
(* the key cache of pkg/crypto it derives from, as seen by one peer.       *)
(*                                                                         *)
(* Callers are goroutines in PrepareStreams, SendCtx, cleanupPeerResources *)
(* (from DisconnectCtx and from forwardEvents), FinalizeHandshake or Stop. *)
(* A step is what one of them does between two points where it holds no    *)
(* lock.  Manager.mu is held throughout CloseStreams and the incoming      *)
(* handlers.  A call that only returns an error has no action.             *)
(*                                                                         *)
(* Key slices are shared, and zeroed in place.  What a caller holds is the *)
(* slice in sharedKeys ("map"), the slice in peerKeys ("cache"), or one    *)
(* that is its own and "good" or "wiped".  Wiped is zeroed in whole or in  *)
(* part: reading it races with SecureZero.  The messages are left out.     *)
(***************************************************************************)
EXTENDS Naturals

CONSTANTS
    Callers,
    Streams,     \* bound: stream objects alive at the same time
    Encrypted,   \* the names of encrypted streams
    Handshake,   \* HandshakeStreamName
    None,        \* nil
    InBook,      \* the peer is in the address book
    Ops          \* the operations that are called

ASSUME StreamAssumption ==
    /\ Handshake \notin Encrypted
    /\ None \notin Streams
    /\ InBook \in BOOLEAN

Names == Encrypted \cup {Handshake}

VARIABLES
    sharedKey,   \* sharedKeys[peer]
    allowed,     \* allowedStreams[peer]
    slot,        \* streams[peer] and unencryptedStreams[peer]
    nameOf,      \* the name of each stream
    closed,      \* the streams whose closed flag is set
    raw,         \* the streams whose libp2p stream was not closed by Close
    cipher,      \* the cipher of each stream
    reading,     \* the streams whose readLoop runs
    ended,       \* the streams the remote side closed or reset
    cached,      \* peerKeys has the key of the peer
    modClosed,   \* crypto.Module.closed
    bookKey,     \* the address book has the public key of the peer
    shut,        \* the manager's context is cancelled
    pc,          \* where each caller is
    target,      \* the stream it sends on, or what it derives a key for
    handle,      \* the stream it found or opened
    alias        \* the key slice it holds

mapVars == <<sharedKey, allowed, slot>>
streamVars == <<nameOf, closed, raw, cipher, reading, ended>>
cryptoVars == <<cached, modClosed, bookKey>>
callVars == <<pc, target, handle, alias>>
vars == <<mapVars, streamVars, cryptoVars, shut, callVars>>

PCs == {"idle", "lookup", "derive", "copy", "establish", "publish", "open",
        "dial", "store", "lock", "encrypt", "remove", "stopping", "zeroing"}

TypeOK ==
    /\ sharedKey \in {"none", "good", "wiped"}
    /\ allowed \in SUBSET Encrypted
    /\ slot \in [Names -> Streams \cup {None}]
    /\ nameOf \in [Streams -> Names]
    /\ closed \in SUBSET Streams
    /\ raw \in SUBSET Streams
    /\ cipher \in [Streams -> {"none", "good", "wiped", "closed"}]
    /\ reading \in SUBSET Streams
    /\ ended \in SUBSET Streams
    /\ cached \in BOOLEAN
    /\ modClosed \in BOOLEAN
    /\ bookKey \in BOOLEAN
    /\ shut \in BOOLEAN
    /\ pc \in [Callers -> PCs]
    /\ target \in [Callers -> Names \cup {"nothing", "connection", "streams"}]
    /\ handle \in [Callers -> Streams \cup {None}]
    /\ alias \in [Callers -> {"none", "map", "cache", "good", "wiped"}]

Init ==
    /\ sharedKey = "none"
    /\ allowed = {}
    /\ slot = [n \in Names |-> None]
    /\ nameOf = [s \in Streams |-> Handshake]
    /\ closed = Streams
    /\ raw = {}
    /\ cipher = [s \in Streams |-> "none"]
    /\ reading = {}
    /\ ended = {}
    /\ cached = FALSE
    /\ modClosed = FALSE
    /\ bookKey = FALSE
    /\ shut = FALSE
    /\ pc = [c \in Callers |-> "idle"]
    /\ target = [c \in Callers |-> "nothing"]
    /\ handle = [c \in Callers |-> None]
    /\ alias = [c \in Callers |-> "none"]

\* Caller c goes on to p, for t, with stream h; als is the new alias.
Move(c, p, t, h, als) ==
    /\ pc' = [pc EXCEPT ![c] = p]
    /\ target' = [target EXCEPT ![c] = t]
    /\ handle' = [handle EXCEPT ![c] = h]
    /\ alias' = als

Hold(c, k) == [alias EXCEPT ![c] = k]

\* The callers that held the slice `from' now hold k.
Turned(from, k) == [d \in Callers |-> IF alias[d] = from THEN k ELSE alias[d]]

Return(c) == Move(c, "idle", "nothing", None, Hold(c, "none"))

\* What is in the slice c holds.
Content(c) == CASE alias[c] = "map" -> sharedKey
                [] alias[c] = "cache" -> "good"
                [] OTHER -> alias[c]

-----------------------------------------------------------------------------
(* Stream objects.                                                         *)

IsOpen(n) == slot[n] # None /\ slot[n] \notin closed

Unreferenced(s) == /\ \A n \in Names : slot[n] # s
                   /\ \A c \in Callers : handle[c] # s

\* NewEncryptedStream: the cipher copies the key k and the read loop starts.
NewStream(s, n, k) ==
    /\ Unreferenced(s) /\ s \notin reading
    /\ nameOf' = [nameOf EXCEPT ![s] = n]
    /\ closed' = closed \ {s}
    /\ raw' = raw \cup {s}
    /\ cipher' = [cipher EXCEPT ![s] = k]
    /\ reading' = reading \cup {s}
    /\ ended' = ended \ {s}

NewUnencryptedStream(s) == NewStream(s, Handshake, "none")

\* Mutant: Close does not wait for the senders that are encrypting.
CloseAtOnce(S) ==
    LET T == S \ closed
    IN  /\ closed' = closed \cup T
        /\ raw' = raw \ T
        /\ cipher' = [s \in Streams |->
                         IF s \in T /\ nameOf[s] \in Encrypted THEN "closed"
                                                               ELSE cipher[s]]
        /\ UNCHANGED <<nameOf, reading, ended>>

\* Mutant: Close leaves the context and the libp2p stream alone.
CloseMarksOnly(S) ==
    LET T == S \ closed
    IN  /\ \A c \in Callers : pc[c] = "encrypt" => handle[c] \notin T
        /\ closed' = closed \cup T
        /\ cipher' = [s \in Streams |->
                         IF s \in T /\ nameOf[s] \in Encrypted THEN "closed"
                                                               ELSE cipher[s]]
        /\ UNCHANGED <<nameOf, raw, reading, ended>>

\* Close of each stream of S: closeMu waits for the senders that encrypt.  A
\* stream that is marked closed already is left as it is.
Close(S) ==
    LET T == S \ closed
    IN  /\ \A c \in Callers : pc[c] = "encrypt" => handle[c] \notin T
        /\ closed' = closed \cup T
        /\ raw' = raw \ T
        /\ cipher' = [s \in Streams |->
                         IF s \in T /\ nameOf[s] \in Encrypted THEN "closed"
                                                               ELSE cipher[s]]
        /\ UNCHANGED <<nameOf, reading, ended>>

\* markClosed takes closeMu and sets the flag only.
MarkClosed(s) ==
    /\ \A c \in Callers : pc[c] = "encrypt" => handle[c] # s
    /\ closed' = closed \cup {s}

\* readLoop ends: the remote side ended the stream or Close did.  When the
\* manager's context is cancelled, a loop that is still to call reader.Next, or
\* that gets another message from it, ends too.
ReadLoopEnds(s) ==
    /\ s \in reading
    /\ s \in ended \/ s \notin raw \/ shut
    /\ reading' = reading \ {s}
    /\ MarkClosed(s)
    /\ UNCHANGED <<mapVars, nameOf, raw, cipher, ended, cryptoVars, shut,
                   callVars>>

\* libp2p (external): the remote side closes or resets the stream, or the
\* connection breaks.
RemoteEnds(s) ==
    /\ "remote" \in Ops
    /\ s \in reading \ ended
    /\ ended' = ended \cup {s}
    /\ UNCHANGED <<mapVars, nameOf, closed, raw, cipher, reading, cryptoVars,
                   shut, callVars>>

-----------------------------------------------------------------------------
\* The methods of Node let a call in while started is set and no Stop holds
\* startMu; a Stop that fails at host.Close leaves started set.
Started == ~modClosed /\ \A c \in Callers : pc[c] \notin {"stopping", "zeroing"}

(* PrepareStreams: crypto.Module.DeriveSharedKey for the connection        *)
(* manager, then again in EstablishStreams.                                *)

PrepareStreams(c) ==
    /\ "prepare" \in Ops
    /\ pc[c] = "idle" /\ Started
    /\ Move(c, "lookup", "connection", None, alias)
    /\ UNCHANGED <<mapVars, streamVars, cryptoVars, shut>>

KeyDerived(c, k) ==
    IF target[c] = "connection"
    THEN Move(c, "lookup", "streams", None, Hold(c, "none"))
    ELSE Move(c, "establish", "streams", None, Hold(c, k))

\* The read-locked section of DeriveSharedKeyFromX25519: a copy of the cached
\* key is returned.
LookUpKey(c) ==
    /\ pc[c] = "lookup"
    /\ \/ modClosed /\ Return(c)
       \/ ~modClosed /\ cached /\ KeyDerived(c, "good")
       \/ /\ ~modClosed /\ ~cached
          /\ Move(c, "derive", target[c], None, alias)
    /\ UNCHANGED <<mapVars, streamVars, cryptoVars, shut>>

\* The locked section: the derived slice itself goes into the cache.
CacheKey(c) ==
    /\ pc[c] = "derive"
    /\ IF modClosed
       THEN Return(c) /\ UNCHANGED cached
       ELSE /\ cached' = TRUE
            /\ Move(c, "copy", target[c], None,
                    [Turned("cache", "good") EXCEPT ![c] = "cache"])
    /\ UNCHANGED <<mapVars, streamVars, modClosed, bookKey, shut>>

\* The copy of that slice for the caller, after the Unlock.
CopyKey(c) ==
    /\ pc[c] = "copy"
    /\ KeyDerived(c, Content(c))
    /\ UNCHANGED <<mapVars, streamVars, cryptoVars, shut>>

\* The locked section of EstablishStreams: a key that is already there is
\* overwritten, not zeroed.
EstablishStreams(c) ==
    /\ pc[c] = "establish"
    /\ sharedKey' = alias[c]
    /\ \E names \in SUBSET Encrypted \ {{}} : allowed' = allowed \cup names
    /\ Move(c, "publish", "nothing", None,
            [Turned("map", sharedKey) EXCEPT ![c] = "none"])
    /\ UNCHANGED <<slot, streamVars, cryptoVars, shut>>

\* addressBook.UpdatePublicKey, whose error is ignored.
StorePublicKey(c) ==
    /\ pc[c] = "publish"
    /\ bookKey' = (bookKey \/ InBook)
    /\ Return(c)
    /\ UNCHANGED <<mapVars, streamVars, cached, modClosed, shut>>

-----------------------------------------------------------------------------
(* SendCtx.                                                                *)

\* The read-locked section.
Send(c, n) ==
    /\ "send" \in Ops
    /\ pc[c] = "idle" /\ Started
    /\ IF IsOpen(n) THEN Move(c, "lock", n, slot[n], alias)
                    ELSE Move(c, "open", n, None, alias)
    /\ UNCHANGED <<mapVars, streamVars, cryptoVars, shut>>

\* The first locked section of openStreamLazilyCtx: the key slice is taken,
\* not copied.
OpenLazily(c) ==
    /\ pc[c] = "open" /\ target[c] \in Encrypted
    /\ LET n == target[c] IN
       \/ IsOpen(n) /\ Move(c, "lock", n, slot[n], alias)
       \/ /\ ~IsOpen(n) /\ n \in allowed /\ sharedKey # "none"
          /\ Move(c, "dial", n, None, Hold(c, "map"))
       \/ ~IsOpen(n) /\ n \notin allowed /\ Return(c)
    /\ UNCHANGED <<mapVars, streamVars, cryptoVars, shut>>

\* The same in openUnencryptedStreamLazilyCtx; the handshake stream needs no
\* key and is always allowed.
OpenUnencryptedLazily(c) ==
    /\ pc[c] = "open" /\ target[c] = Handshake
    /\ IF IsOpen(Handshake)
       THEN Move(c, "lock", Handshake, slot[Handshake], alias)
       ELSE Move(c, "dial", Handshake, None, alias)
    /\ UNCHANGED <<mapVars, streamVars, cryptoVars, shut>>

\* host.NewStream succeeds, outside the lock, and the stream is made.
OpenStream(c) ==
    /\ pc[c] = "dial"
    /\ \E s \in Streams : /\ NewStream(s, target[c], Content(c))
                          /\ Move(c, "store", target[c], s, Hold(c, "none"))
    /\ UNCHANGED <<mapVars, cryptoVars, shut>>

\* Mutant: the second look is left out.
StoreUnchecked(c) ==
    /\ pc[c] = "store"
    /\ slot' = [slot EXCEPT ![target[c]] = handle[c]]
    /\ Move(c, "lock", target[c], handle[c], alias)
    /\ UNCHANGED <<sharedKey, allowed, streamVars, cryptoVars, shut>>

\* The second locked section: another goroutine's stream wins, otherwise the
\* new one is stored, whatever became of the peer's key meanwhile.
StoreStream(c) ==
    /\ pc[c] = "store"
    /\ LET n == target[c] IN
       IF IsOpen(n)
       THEN /\ Close({handle[c]})
            /\ Move(c, "lock", n, slot[n], alias)
            /\ UNCHANGED slot
       ELSE /\ slot' = [slot EXCEPT ![n] = handle[c]]
            /\ Move(c, "lock", n, handle[c], alias)
            /\ UNCHANGED streamVars
    /\ UNCHANGED <<sharedKey, allowed, cryptoVars, shut>>

\* EncryptedStream.SendCtx takes closeMu for reading.
SendLocks(c) ==
    /\ pc[c] = "lock" /\ target[c] \in Encrypted
    /\ IF handle[c] \notin closed
       THEN Move(c, "encrypt", target[c], handle[c], alias)
       ELSE Return(c)
    /\ UNCHANGED <<mapVars, streamVars, cryptoVars, shut>>

\* UnencryptedStream.SendCtx looks at the flag, unlocks and writes.
SendUnencrypted(c) ==
    /\ pc[c] = "lock" /\ target[c] = Handshake
    /\ Return(c)
    /\ UNCHANGED <<mapVars, streamVars, cryptoVars, shut>>

\* Cipher.Encrypt, RUnlock, and the write.
SendEncrypts(c) ==
    /\ pc[c] = "encrypt"
    /\ Return(c)
    /\ UNCHANGED <<mapVars, streamVars, cryptoVars, shut>>

\* host.NewStream fails, or the context of the caller ends.
SendGivesUp(c) ==
    /\ pc[c] \in {"open", "dial", "lock"}
    /\ Return(c)
    /\ UNCHANGED <<mapVars, streamVars, cryptoVars, shut>>

HandleIncomingStream(n) ==
    /\ "incoming" \in Ops
    /\ n \in allowed /\ sharedKey # "none"
    /\ ~IsOpen(n)
    /\ \E s \in Streams : /\ NewStream(s, n, sharedKey)
                          /\ slot' = [slot EXCEPT ![n] = s]
    /\ UNCHANGED <<sharedKey, allowed, cryptoVars, shut, callVars>>

HandleIncomingHandshakeStream ==
    /\ "incoming" \in Ops
    /\ ~IsOpen(Handshake)
    /\ \E s \in Streams : /\ NewUnencryptedStream(s)
                          /\ slot' = [slot EXCEPT ![Handshake] = s]
    /\ UNCHANGED <<sharedKey, allowed, cryptoVars, shut, callVars>>

-----------------------------------------------------------------------------
(* cleanupPeerResources, FinalizeHandshake and Stop.                       *)

\* The streams in the maps are closed and the maps cleared; the key slice is
\* zeroed in place.
ClearStreams ==
    /\ Close({slot[n] : n \in Names} \ {None})
    /\ slot' = [n \in Names |-> None]
    /\ allowed' = {}
    /\ sharedKey' = "none"

CloseStreams(c) ==
    /\ "cleanup" \in Ops
    /\ pc[c] = "idle"
    /\ ClearStreams
    /\ Move(c, "remove", "nothing", None, Turned("map", "wiped"))
    /\ UNCHANGED <<cryptoVars, shut>>

\* crypto.RemovePeerKeyByEd25519 with the public key of the address book.
RemovePeerKey(c) ==
    /\ pc[c] = "remove"
    /\ IF bookKey
       THEN /\ cached' = FALSE
            /\ Move(c, "idle", "nothing", None, Turned("cache", "wiped"))
       ELSE Return(c) /\ UNCHANGED cached
    /\ UNCHANGED <<mapVars, streamVars, modClosed, bookKey, shut>>

\* The middle of FinalizeHandshake.
CloseHandshakeStream ==
    /\ "finalize" \in Ops
    /\ slot[Handshake] # None
    /\ Close({slot[Handshake]})
    /\ slot' = [slot EXCEPT ![Handshake] = None]
    /\ UNCHANGED <<sharedKey, allowed, cryptoVars, shut, callVars>>

\* Node.Stop: Manager.Shutdown in two steps, host.Close, Module.Close.
Shutdown(c) ==
    /\ "stop" \in Ops
    /\ pc[c] = "idle" /\ Started
    /\ shut' = TRUE
    /\ Move(c, "stopping", "nothing", None, alias)
    /\ UNCHANGED <<mapVars, streamVars, cryptoVars>>

ShutdownClears(c) ==
    /\ pc[c] = "stopping"
    /\ ClearStreams
    /\ Move(c, "zeroing", "nothing", None, Turned("map", "wiped"))
    /\ UNCHANGED <<cryptoVars, shut>>

\* When host.Close fails Stop returns before Module.Close.
ModuleCloses(c) ==
    /\ pc[c] = "zeroing"
    /\ \/ Return(c) /\ UNCHANGED <<cached, modClosed>>
       \/ /\ modClosed' = TRUE
          /\ cached' = FALSE
          /\ Move(c, "idle", "nothing", None, Turned("cache", "wiped"))
    /\ UNCHANGED <<mapVars, streamVars, bookKey, shut>>

-----------------------------------------------------------------------------

CallerStep(c) ==
    \/ LookUpKey(c) \/ CacheKey(c) \/ CopyKey(c) \/ EstablishStreams(c)
    \/ StorePublicKey(c) \/ OpenLazily(c) \/ OpenUnencryptedLazily(c)
    \/ OpenStream(c) \/ StoreStream(c) \/ SendLocks(c) \/ SendUnencrypted(c)
    \/ SendEncrypts(c) \/ SendGivesUp(c) \/ RemovePeerKey(c)
    \/ ShutdownClears(c) \/ ModuleCloses(c)

Next ==
    \/ \E c \in Callers : \/ PrepareStreams(c) \/ CloseStreams(c) \/ Shutdown(c)
                          \/ \E n \in Names : Send(c, n)
                          \/ CallerStep(c)
    \/ \E n \in Encrypted : HandleIncomingStream(n)
    \/ HandleIncomingHandshakeStream
    \/ \E s \in Streams : ReadLoopEnds(s) \/ RemoteEnds(s)
    \/ CloseHandshakeStream

Spec == Init /\ [][Next]_vars

-----------------------------------------------------------------------------
(* Properties.                                                             *)

\* Close does not take the cipher away under a sender that encrypts, although
\* the manager closes streams that senders found before.
EncryptingIsOpen ==
    \A c \in Callers : pc[c] = "encrypt" => cipher[handle[c]] # "closed"

\* No stream is lost: one that is open is the manager's for its name, or the
\* goroutine that opened it has still to store it.  So two goroutines that
\* open at once, or an incoming stream that arrives meanwhile, leave one
\* stream, and what CloseStreams does not find is closed.
NoOrphanStream ==
    \A s \in Streams \ closed :
        \/ slot[nameOf[s]] = s
        \/ \E c \in Callers : pc[c] = "store" /\ handle[c] = s

\* "Close closes the encrypted stream and stops the read goroutine": a read
\* loop whose stream nobody refers to any more does not wait for ever in
\* reader.Next, which a cancelled context does not wake: the libp2p stream
\* under it was closed.  So none is leaked.
ReadersAreStopped == \A s \in reading : Unreferenced(s) => s \notin raw

\* A stream is marked closed by its read loop, or else Close has ended it.
ReaderInv == reading \cap closed \cap raw = {}

\* The lock, the flag and the cipher agree; a name has its own streams; an
\* opened stream is its opener's alone until it is stored.
LockInv == \A c \in Callers : pc[c] = "encrypt" =>
               handle[c] \in Streams \ closed /\ nameOf[handle[c]] \in Encrypted
CipherInv == \A s \in Streams : cipher[s] = "closed" => s \in closed
NameInv == \A n \in Names : slot[n] # None => nameOf[slot[n]] = n
SendInv == \A c \in Callers :
               /\ pc[c] \in {"open", "dial", "lock", "encrypt", "store"} =>
                      target[c] \in Names
               /\ pc[c] \in {"lock", "encrypt", "store"} =>
                      handle[c] \in Streams /\ nameOf[handle[c]] = target[c]
OwnInv == \A c \in Callers : pc[c] = "store" =>
              /\ \A n \in Names : slot[n] # handle[c]
              /\ \A d \in Callers \ {c} : handle[d] # handle[c]

\* What a caller takes out of DeriveSharedKey is a slice of its own.
AliasInv == \A c \in Callers :
                /\ pc[c] = "copy" => alias[c] \in {"cache", "good", "wiped"}
                /\ pc[c] = "establish" => alias[c] \in {"good", "wiped"}

\* The inductive invariant.
StreamInv == /\ LockInv /\ CipherInv /\ NameInv /\ SendInv /\ OwnInv
             /\ AliasInv /\ ReaderInv /\ NoOrphanStream

\* The state is in its type, and the maps, the streams, their ciphers and their
\* read loops agree with what the callers hold of them.
StreamSafety == TypeOK /\ StreamInv

\* A sender encrypts with the key that EstablishStreams stored.
EncryptsWithKey ==
    \A c \in Callers : pc[c] = "encrypt" => cipher[handle[c]] # "wiped"

\* DeriveSharedKey returns the derived key.
DeriveReturnsKey ==
    \A c \in Callers : pc[c] = "establish" => alias[c] # "wiped"

\* A stream the manager no longer holds has closed its libp2p stream.
DroppedIsReleased ==
    \A s \in raw : ~Unreferenced(s) \/ s \in reading

\* After Stop, with no call in progress, the manager holds no key and no
\* open stream.
ShutIsEmpty ==
    shut /\ (\A c \in Callers : pc[c] = "idle") =>
        sharedKey = "none" /\ \A n \in Names : ~IsOpen(n)

\* CloseStreams leaves no encrypted stream open: there is none without a key.
OpenStreamHasKey == \A n \in Encrypted : IsOpen(n) => sharedKey # "none"

\* When cleanupPeerResources returned last, the key cache has no key of the
\* peer.
KeyIsForgotten ==
    sharedKey = "none" /\ (\A c \in Callers : pc[c] = "idle") => ~cached
=============================================================================
