---------------------------- MODULE AddressBook ----------------------------
(***************************************************************************)
(* pkg/addressbook: Book, which changes its map in memory and saves all of *)
(* it, and storage, which writes a temporary file and renames it under a   *)
(* file lock.  Books are open on the same path, in one process or in       *)
(* several; a process may die at any point.                                *)
(*                                                                         *)
(* Book.mu is held from the change to the end of the save, so one call of  *)
(* a Book is under way at a time; a step is one system call of the save.   *)
(* A peer's entry is the set of facts that the operations set and clear;   *)
(* the empty set is a peer that is not in the map.                         *)
(***************************************************************************)
EXTENDS Naturals

CONSTANTS
    Books,     \* the instances of Book on the path
    Peers,
    None,
    Ops        \* the operations called, and "metadata", "fail" and "crash"

ASSUME BookAssumption == None \notin Books

Facts == {"known", "meta", "key", "seen", "black"}
Contents == [Peers -> SUBSET Facts]
Empty == [q \in Peers |-> {}]

VARIABLES
    peers,     \* Book.peers
    dirty,     \* the books whose dirty flag is set
    pc,        \* where the call under way on each book is
    closing,   \* the books on which that call is Close
    owing,     \* those with a call that failed since the last save or load
    holder,    \* the book that holds the file lock
    temp,      \* path.tmp: "none", "torn" (partly written) or "whole"
    tempData,  \* what a whole path.tmp holds
    file,      \* path, in the same way
    fileData

memVars == <<peers, dirty, closing, owing>>
diskVars == <<temp, tempData, file, fileData>>
vars == <<memVars, pc, holder, diskVars>>

TypeOK ==
    /\ peers \in [Books -> Contents]
    /\ dirty \in SUBSET Books
    /\ pc \in [Books -> {"down", "idle", "save", "open", "write", "rename",
                         "renamed", "failed"}]
    /\ closing \in SUBSET Books /\ owing \in SUBSET Books
    /\ holder \in Books \cup {None}
    /\ temp \in {"none", "torn", "whole"}
    /\ tempData \in Contents
    /\ file \in {"none", "torn", "whole"}
    /\ fileData \in Contents

Init ==
    /\ peers = [b \in Books |-> Empty]
    /\ dirty = {}
    /\ pc = [b \in Books |-> "down"]
    /\ closing = {} /\ owing = {}
    /\ holder = None
    /\ temp = "none" /\ tempData = Empty
    /\ file = "none" /\ fileData = Empty

Goto(b, p) == pc' = [pc EXCEPT ![b] = p]
Exists(b, q) == "known" \in peers[b][q]

-----------------------------------------------------------------------------
(* storage.load, in New and in Reload.                                     *)

\* A file that is missing, empty or does not parse is an empty book.  The
\* backup made of one that does not parse is not kept here.
Loaded == IF file = "whole" THEN fileData ELSE Empty

Load(b) ==
    /\ holder = None
    /\ peers' = [peers EXCEPT ![b] = Loaded]
    /\ dirty' = dirty \ {b} /\ owing' = owing \ {b}
    /\ Goto(b, "idle")
    /\ UNCHANGED <<closing, holder, diskVars>>

New(b) == pc[b] = "down" /\ Load(b)

Reload(b) == "reload" \in Ops /\ pc[b] = "idle" /\ Load(b)

-----------------------------------------------------------------------------
(* The operations of Book up to saveLocked.                                *)

Save(b) ==
    /\ Goto(b, "save")
    /\ UNCHANGED <<dirty, closing, owing, holder, diskVars>>

\* The entry of q becomes e, and the book is saved at once.
Change(b, q, e) ==
    /\ pc[b] = "idle"
    /\ peers' = [peers EXCEPT ![b][q] = e]
    /\ Save(b)

\* A blacklisted peer is not updated.  Without metadata in the call the old
\* metadata is kept.
AddPeer(b, q) ==
    /\ "add" \in Ops
    /\ "black" \notin peers[b][q]
    /\ \/ Change(b, q, peers[b][q] \cup {"known"})
       \/ /\ "metadata" \in Ops
          /\ \E m \in SUBSET {"meta"} :
                Change(b, q, (peers[b][q] \ {"meta"}) \cup {"known"} \cup m)

RemovePeer(b, q) ==
    "remove" \in Ops /\ Exists(b, q) /\ Change(b, q, {})

BlacklistPeer(b, q) ==
    /\ "blacklist" \in Ops
    /\ Exists(b, q)
    /\ Change(b, q, peers[b][q] \cup {"black"})

UnblacklistPeer(b, q) ==
    /\ "blacklist" \in Ops
    /\ Exists(b, q)
    /\ Change(b, q, peers[b][q] \ {"black"})

UpdatePublicKey(b, q) ==
    /\ "publicKey" \in Ops
    /\ Exists(b, q)
    /\ Change(b, q, peers[b][q] \cup {"key"})

\* A key of the metadata is set, or removed.
UpdateMetadata(b, q) ==
    /\ "metadata" \in Ops
    /\ Exists(b, q)
    /\ \E m \in SUBSET {"meta"} : Change(b, q, (peers[b][q] \ {"meta"}) \cup m)

Clear(b) ==
    /\ "clear" \in Ops
    /\ pc[b] = "idle"
    /\ peers' = [peers EXCEPT ![b] = Empty]
    /\ Save(b)

\* Mutant: the change is not marked.
LastSeenUnmarked(b, q) ==
    /\ pc[b] = "idle"
    /\ Exists(b, q)
    /\ peers' = [peers EXCEPT ![b][q] = @ \cup {"seen"}]
    /\ UNCHANGED <<dirty, closing, owing, pc, holder, diskVars>>

\* The one change that is batched.
UpdateLastSeen(b, q) ==
    /\ pc[b] = "idle"
    /\ Exists(b, q)
    /\ peers' = [peers EXCEPT ![b][q] = @ \cup {"seen"}]
    /\ dirty' = dirty \cup {b}
    /\ UNCHANGED <<closing, owing, pc, holder, diskVars>>

\* Flush, and a tick of flushLoop.
Flush(b) ==
    /\ pc[b] = "idle"
    /\ b \in dirty
    /\ Save(b) /\ UNCHANGED peers

\* Close: the book is not used afterwards.
Close(b) ==
    /\ "close" \in Ops
    /\ pc[b] = "idle"
    /\ IF b \in dirty THEN Goto(b, "save") /\ closing' = closing \cup {b}
                      ELSE Goto(b, "down") /\ UNCHANGED closing
    /\ UNCHANGED <<peers, dirty, owing, holder, diskVars>>

-----------------------------------------------------------------------------
(* storage.save.                                                           *)

\* Mutant: the error returns without the Unlock.
SaveErrorKeepsLock(b) ==
    /\ "fail" \in Ops
    /\ pc[b] \in {"save", "open", "write", "rename"}
    /\ temp' = IF pc[b] \in {"write", "rename"} THEN "none" ELSE temp
    /\ Goto(b, "failed")
    /\ UNCHANGED <<memVars, holder, tempData, file, fileData>>

\* An error of one of the calls below: what was written of path.tmp is
\* removed and the lock released.
SaveError(b) ==
    /\ "fail" \in Ops
    /\ pc[b] \in {"save", "open", "write", "rename"}
    /\ temp' = IF pc[b] \in {"write", "rename"} THEN "none" ELSE temp
    /\ Goto(b, "failed")
    /\ holder' = IF holder = b THEN None ELSE holder
    /\ UNCHANGED <<memVars, tempData, file, fileData>>

\* Mutant: the lock is not waited for.
IgnoreFileLock(b) ==
    /\ pc[b] = "save"
    /\ Goto(b, "open")
    /\ UNCHANGED <<memVars, holder, diskVars>>

\* flock, which waits.
AcquireFileLock(b) ==
    /\ pc[b] = "save"
    /\ holder = None
    /\ holder' = b
    /\ Goto(b, "open")
    /\ UNCHANGED <<memVars, diskVars>>

\* OpenFile with O_TRUNC, and the first bytes.
OpenTemp(b) ==
    /\ pc[b] = "open"
    /\ temp' = "torn"
    /\ Goto(b, "write")
    /\ UNCHANGED <<memVars, holder, tempData, file, fileData>>

\* The rest of the bytes, Sync and Close.
WriteTemp(b) ==
    /\ pc[b] = "write"
    /\ temp' = "whole"
    /\ tempData' = peers[b]
    /\ Goto(b, "rename")
    /\ UNCHANGED <<memVars, holder, file, fileData>>

\* Rename: whatever is at path.tmp now becomes path.
Rename(b) ==
    /\ pc[b] = "rename"
    /\ temp # "none"
    /\ file' = temp
    /\ fileData' = tempData
    /\ temp' = "none"
    /\ Goto(b, "renamed")
    /\ UNCHANGED <<memVars, holder, tempData>>

\* The lock is released and saveLocked returns nil.
SaveReturns(b) ==
    /\ pc[b] = "renamed"
    /\ holder' = IF holder = b THEN None ELSE holder
    /\ dirty' = dirty \ {b} /\ owing' = owing \ {b}
    /\ Goto(b, IF b \in closing THEN "down" ELSE "idle")
    /\ closing' = closing \ {b}
    /\ UNCHANGED <<peers, diskVars>>

\* saveLocked returns the error: the change stays in memory, dirty as it was.
SaveFails(b) ==
    /\ pc[b] = "failed"
    /\ owing' = owing \cup {b}
    /\ Goto(b, IF b \in closing THEN "down" ELSE "idle")
    /\ closing' = closing \ {b}
    /\ UNCHANGED <<peers, dirty, holder, diskVars>>

\* The process dies: its memory is gone, the kernel drops its lock, path.tmp
\* stays.
Crash(b) ==
    /\ "crash" \in Ops
    /\ pc[b] # "down"
    /\ Goto(b, "down")
    /\ closing' = closing \ {b}
    /\ holder' = IF holder = b THEN None ELSE holder
    /\ peers' = [peers EXCEPT ![b] = Empty]
    /\ dirty' = dirty \ {b} /\ owing' = owing \ {b}
    /\ UNCHANGED diskVars

-----------------------------------------------------------------------------

SaveStep(b) == AcquireFileLock(b) \/ OpenTemp(b) \/ WriteTemp(b) \/ Rename(b)

PeerOp(b, q) == \/ AddPeer(b, q) \/ RemovePeer(b, q) \/ BlacklistPeer(b, q)
                \/ UnblacklistPeer(b, q) \/ UpdatePublicKey(b, q)
                \/ UpdateMetadata(b, q) \/ UpdateLastSeen(b, q)

Next ==
    \E b \in Books :
        \/ New(b) \/ Reload(b) \/ Clear(b) \/ Flush(b) \/ Close(b)
        \/ SaveStep(b) \/ SaveError(b) \/ SaveReturns(b) \/ SaveFails(b)
        \/ Crash(b)
        \/ \E q \in Peers : PeerOp(b, q)

Spec == Init /\ [][Next]_vars

\* Calls go on and flushLoop ticks; the mutex and the file lock are granted to
\* who keeps waiting, and the disk does not fail for ever.
FairSpec ==
    /\ Spec
    /\ \A b \in Books : /\ SF_vars(Flush(b))
                        /\ SF_vars(AcquireFileLock(b))
                        /\ SF_vars(OpenTemp(b))
                        /\ SF_vars(WriteTemp(b))
                        /\ SF_vars(Rename(b))
                        /\ WF_vars(SaveReturns(b) \/ SaveFails(b))

-----------------------------------------------------------------------------
(* Properties.                                                             *)

\* The file is always one that some save completed, wherever processes die
\* and however the saves of several books on the path interleave: load never
\* finds a file that does not parse.
FileWhole == file # "torn"

\* What load returns changes at one point of a save only, from all of what it
\* was to all of what that book holds, never to parts or to the contents of
\* another book whose save was under way.
SavesAreAtomic ==
    [][Loaded' = Loaded
       \/ \E b \in Books : /\ pc[b] = "rename" /\ pc'[b] = "renamed"
                           /\ Loaded' = peers[b]]_vars

\* Flush and Close return nil at once when the book is not dirty: with one
\* book on the path, nothing is left to save then but the changes of calls
\* that have returned an error, wherever saves fail and processes die.
CleanIsSaved ==
    \A b \in Books : pc[b] = "idle" /\ b \notin dirty \cup owing => peers[b] = Loaded

\* "Flush explicitly saves any pending changes to disk": also the changes of
\* those calls.  The code does not keep this.
PendingIsDirty ==
    \A b \in Books : pc[b] = "idle" /\ peers[b] # Loaded => b \in dirty

\* A change that is only in memory, a batched one or one whose save failed
\* halfway, is saved or discarded by Reload in the end: flushLoop tries again
\* whatever call of a save has failed, and a failed save leaves nothing behind
\* that the next one waits for.
DirtyIsFlushed == \A b \in Books : b \in dirty ~> b \notin dirty \/ pc[b] = "down"

\* The file lock is held exactly by the book that is between the system calls
\* of a save, and its path.tmp is its own.
LockInv == \A b \in Books :
               pc[b] \in {"open", "write", "rename", "renamed"} <=> holder = b
TempInv == \A b \in Books : pc[b] = "rename" =>
                                temp = "whole" /\ tempData = peers[b]

\* The inductive invariant.
StorageInv == LockInv /\ TempInv /\ FileWhole

\* The state is in its type, the file lock belongs to the book whose save is
\* under way, path.tmp is that book's own, and path is whole.
StorageSafety == TypeOK /\ StorageInv
=============================================================================
