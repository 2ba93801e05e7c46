------------------------- MODULE AddressBookProofs -------------------------
(***************************************************************************)
(* Theorems about AddressBook, for any number of books and peers.          *)
(***************************************************************************)
EXTENDS AddressBook, TLAPS

(***************************************************************************)
(* Type correctness: no operation, save, failure or crash takes the state  *)
(* out of its type.                                                        *)
(***************************************************************************)
THEOREM BookTypes == Spec => []TypeOK
<1>0. Empty \in Contents
  BY DEF Empty, Contents
<1>1. Init => TypeOK
  BY <1>0 DEF Init, TypeOK
<1>2. TypeOK /\ [Next]_vars => TypeOK'
  <2> SUFFICES ASSUME TypeOK, [Next]_vars PROVE TypeOK'
    OBVIOUS
  <2> USE DEF TypeOK, Goto, memVars, diskVars
  <2>1. CASE UNCHANGED vars
    BY <2>1 DEF vars
  <2>2. ASSUME NEW b \in Books, New(b) \/ Reload(b) PROVE TypeOK'
    <3>1. Loaded \in Contents
      BY <1>0 DEF Loaded
    <3> QED BY <2>2, <3>1 DEF New, Reload, Load
  <2>3. ASSUME NEW b \in Books, Clear(b) \/ Flush(b) \/ Close(b) PROVE TypeOK'
    BY <1>0, <2>3 DEF Clear, Flush, Close, Save
  <2>4. ASSUME NEW b \in Books, SaveStep(b) PROVE TypeOK'
    <3>1. CASE AcquireFileLock(b)
      BY <3>1 DEF AcquireFileLock
    <3>2. CASE OpenTemp(b)
      BY <3>2 DEF OpenTemp
    <3>3. CASE WriteTemp(b)
      BY <3>3 DEF WriteTemp
    <3>4. CASE Rename(b)
      BY <3>4 DEF Rename
    <3> QED BY <2>4, <3>1, <3>2, <3>3, <3>4 DEF SaveStep
  <2>5. ASSUME NEW b \in Books,
               SaveError(b) \/ SaveReturns(b) \/ SaveFails(b) \/ Crash(b)
        PROVE  TypeOK'
    <3>1. CASE SaveError(b)
      BY <3>1 DEF SaveError
    <3>2. CASE SaveReturns(b) \/ SaveFails(b)
      BY <3>2 DEF SaveReturns, SaveFails
    <3>3. CASE Crash(b)
      BY <1>0, <3>3 DEF Crash
    <3> QED BY <2>5, <3>1, <3>2, <3>3
  <2>6. ASSUME NEW b \in Books, NEW q \in Peers, PeerOp(b, q) PROVE TypeOK'
    <3>1. ASSUME NEW e \in SUBSET Facts, Change(b, q, e) PROVE TypeOK'
      BY <3>1 DEF Change, Save, Contents
    <3>2. peers[b][q] \in SUBSET Facts
      BY DEF Contents
    <3>3. CASE AddPeer(b, q)
      BY <3>1, <3>2, <3>3 DEF AddPeer, Facts
    <3>4. CASE RemovePeer(b, q) \/ BlacklistPeer(b, q) \/ UnblacklistPeer(b, q)
               \/ UpdatePublicKey(b, q) \/ UpdateMetadata(b, q)
      BY <3>1, <3>2, <3>4 DEF RemovePeer, BlacklistPeer, UnblacklistPeer,
                              UpdatePublicKey, UpdateMetadata, Facts
    <3>5. CASE UpdateLastSeen(b, q)
      BY <3>5 DEF UpdateLastSeen, Contents, Facts
    <3> QED BY <2>6, <3>3, <3>4, <3>5 DEF PeerOp
  <2> QED BY <2>1, <2>2, <2>3, <2>4, <2>5, <2>6 DEF Next
<1> QED BY <1>1, <1>2, PTL DEF Spec

(***************************************************************************)
(* A step of a book keeps its hands off the save of another: the three     *)
(* parts of StorageInv hold together only.  The lock says who writes       *)
(* path.tmp, so what a book renames is what it wrote, so the file is whole.*)
(***************************************************************************)
LEMMA StorageInitially == Init => StorageInv
BY BookAssumption DEF Init, StorageInv, LockInv, TempInv, FileWhole

LEMMA StorageStep == TypeOK /\ StorageInv /\ [Next]_vars => StorageInv'
<1> SUFFICES ASSUME TypeOK, StorageInv, [Next]_vars PROVE StorageInv'
  OBVIOUS
<1> USE BookAssumption DEF TypeOK, StorageInv, LockInv, TempInv, FileWhole,
                           Goto, memVars, diskVars
<1>1. CASE UNCHANGED vars
  BY <1>1 DEF vars
<1>2. ASSUME NEW b \in Books, New(b) \/ Reload(b) PROVE StorageInv'
  BY <1>2 DEF New, Reload, Load
<1>3. ASSUME NEW b \in Books, Clear(b) \/ Flush(b) \/ Close(b)
      PROVE  StorageInv'
  BY <1>3 DEF Clear, Flush, Close, Save
<1>4. ASSUME NEW b \in Books, SaveStep(b) PROVE StorageInv'
  <2>1. CASE AcquireFileLock(b)
    BY <2>1 DEF AcquireFileLock
  <2>2. CASE OpenTemp(b)
    BY <2>2 DEF OpenTemp
  <2>3. CASE WriteTemp(b)
    BY <2>3 DEF WriteTemp
  <2>4. CASE Rename(b)
    BY <2>4 DEF Rename
  <2> QED BY <1>4, <2>1, <2>2, <2>3, <2>4 DEF SaveStep
<1>5. ASSUME NEW b \in Books, SaveError(b) PROVE StorageInv'
  BY <1>5 DEF SaveError
<1>6. ASSUME NEW b \in Books, SaveReturns(b) \/ SaveFails(b)
      PROVE  StorageInv'
  BY <1>6 DEF SaveReturns, SaveFails
<1>7. ASSUME NEW b \in Books, Crash(b) PROVE StorageInv'
  BY <1>7 DEF Crash
<1>8. ASSUME NEW b \in Books, NEW q \in Peers, PeerOp(b, q)
      PROVE  StorageInv'
  <2>1. ASSUME NEW e, Change(b, q, e) PROVE StorageInv'
    BY <2>1 DEF Change, Save
  <2>2. CASE UpdateLastSeen(b, q)
    BY <2>2 DEF UpdateLastSeen
  <2>3. CASE AddPeer(b, q) \/ RemovePeer(b, q) \/ BlacklistPeer(b, q)
    BY <2>1, <2>3 DEF AddPeer, RemovePeer, BlacklistPeer
  <2>4. CASE UnblacklistPeer(b, q) \/ UpdatePublicKey(b, q)
             \/ UpdateMetadata(b, q)
    BY <2>1, <2>4 DEF UnblacklistPeer, UpdatePublicKey, UpdateMetadata
  <2> QED BY <1>8, <2>2, <2>3, <2>4 DEF PeerOp
<1> QED BY <1>1, <1>2, <1>3, <1>4, <1>5, <1>6, <1>7, <1>8 DEF Next

(***************************************************************************)
(* storage.save keeps the file whole, for any number of books on the path, *)
(* with failures and crashes at every system call.                         *)
(***************************************************************************)
THEOREM StorageCorrect == Spec => []StorageSafety
<1>1. Spec => []TypeOK
  BY BookTypes
<1>2. Spec => [][Next]_vars
  BY PTL DEF Spec
<1>3. TypeOK /\ StorageInv => StorageSafety
  BY DEF StorageSafety
<1> QED BY <1>1, <1>2, <1>3, StorageInitially, StorageStep, PTL DEF Spec

(***************************************************************************)
(* The action property: the contents that load returns change only at a    *)
(* rename, to all of what the renaming book holds.                         *)
(***************************************************************************)
LEMMA AtomicStep ==
    TypeOK /\ StorageInv /\ [Next]_vars
    => [Loaded' = Loaded
        \/ \E b \in Books : /\ pc[b] = "rename" /\ pc'[b] = "renamed"
                            /\ Loaded' = peers[b]]_vars
<1> SUFFICES ASSUME TypeOK, StorageInv, [Next]_vars
             PROVE  Loaded' = Loaded
                    \/ \E b \in Books : /\ pc[b] = "rename"
                                        /\ pc'[b] = "renamed"
                                        /\ Loaded' = peers[b]
  OBVIOUS
<1>1. ASSUME NEW b \in Books, Rename(b)
      PROVE  /\ pc[b] = "rename" /\ pc'[b] = "renamed"
             /\ Loaded' = peers[b]
  BY <1>1 DEF Rename, Loaded, TypeOK, Goto, StorageInv, TempInv
<1>2. ASSUME file' = file, fileData' = fileData PROVE Loaded' = Loaded
  BY <1>2 DEF Loaded
<1>3. CASE \E b \in Books : Rename(b)
  BY <1>1, <1>3
<1>4. CASE UNCHANGED vars
  BY <1>2, <1>4 DEF vars, diskVars
<1>5. ASSUME NEW b \in Books, NEW q \in Peers, PeerOp(b, q)
      PROVE  file' = file /\ fileData' = fileData
  BY <1>5 DEF PeerOp, AddPeer, RemovePeer, BlacklistPeer, UnblacklistPeer,
              UpdatePublicKey, UpdateMetadata, UpdateLastSeen, Change, Save,
              diskVars
<1>6. ASSUME NEW b \in Books,
             \/ New(b) \/ Reload(b) \/ Clear(b) \/ Flush(b) \/ Close(b)
             \/ AcquireFileLock(b) \/ OpenTemp(b) \/ WriteTemp(b)
             \/ SaveError(b) \/ SaveReturns(b) \/ SaveFails(b) \/ Crash(b)
      PROVE  file' = file /\ fileData' = fileData
  BY <1>6 DEF New, Reload, Load, Clear, Flush, Close, Save, AcquireFileLock,
              OpenTemp, WriteTemp, SaveError, SaveReturns, SaveFails, Crash,
              diskVars
<1> QED BY <1>2, <1>3, <1>4, <1>5, <1>6 DEF Next, SaveStep

(***************************************************************************)
(* Saves are atomic, for any number of books on the path.                  *)
(***************************************************************************)
THEOREM SavesAtomic == Spec => SavesAreAtomic
<1>1. Spec => []TypeOK /\ []StorageInv
  BY StorageCorrect, PTL DEF StorageSafety
<1>2. Spec => [][Next]_vars
  BY PTL DEF Spec
<1> QED BY <1>1, <1>2, AtomicStep, PTL DEF SavesAreAtomic

(***************************************************************************)
(* What Flush and Close rely on when they return at once.  A change is     *)
(* unsaved while its save is under way, while the book is marked, or after *)
(* its call has returned the error of a save.                              *)
(* Between the rename and the return of the save the file is already the   *)
(* book, so clearing the mark is right whatever the save was for.          *)
(***************************************************************************)
SavedInv ==
    \A b \in Books :
        /\ pc[b] = "renamed" => peers[b] = Loaded
        /\ pc[b] = "idle" /\ b \notin dirty \cup owing => peers[b] = Loaded

\* The hypothesis cannot be dropped: another book may replace the file.
LEMMA SavedStep ==
    ASSUME \A b, c \in Books : b = c,
           TypeOK, StorageInv, SavedInv, [Next]_vars
    PROVE  SavedInv'
<1> USE DEF Goto, memVars, diskVars
<1>1. CASE UNCHANGED vars
  BY <1>1 DEF vars, SavedInv, Loaded
<1> SUFFICES ASSUME NEW b \in Books,
                    \/ New(b) \/ Reload(b) \/ Clear(b) \/ Flush(b) \/ Close(b)
                    \/ SaveStep(b) \/ SaveError(b) \/ SaveReturns(b) \/ SaveFails(b)
                    \/ Crash(b)
                    \/ \E q \in Peers : PeerOp(b, q)
             PROVE  SavedInv'
  BY <1>1 DEF Next
<1>2. /\ pc[b] = "renamed" => peers[b] = Loaded
      /\ pc[b] = "idle" /\ b \notin dirty \cup owing => peers[b] = Loaded
  BY DEF SavedInv
<1> SUFFICES /\ pc'[b] = "renamed" => peers'[b] = Loaded'
             /\ pc'[b] = "idle" /\ b \notin dirty' \cup owing'
                => peers'[b] = Loaded'
  BY DEF SavedInv
<1>3. file' = file /\ fileData' = fileData => Loaded' = Loaded
  BY DEF Loaded
<1>4. CASE New(b) \/ Reload(b)
  BY <1>3, <1>4 DEF New, Reload, Load, TypeOK
<1>5. CASE Clear(b) \/ Flush(b)
  BY <1>5 DEF Clear, Flush, Save, TypeOK
<1>6. CASE Close(b)
  BY <1>6 DEF Close, TypeOK
<1>7. CASE AcquireFileLock(b) \/ OpenTemp(b) \/ WriteTemp(b)
  BY <1>7 DEF AcquireFileLock, OpenTemp, WriteTemp, TypeOK
<1>8. CASE Rename(b)
  BY <1>8 DEF Rename, Loaded, TypeOK, StorageInv, TempInv
<1>9. CASE SaveReturns(b)
  BY <1>2, <1>3, <1>9 DEF SaveReturns, TypeOK
<1>10. CASE Crash(b)
  BY <1>10 DEF Crash, TypeOK
<1>11. CASE SaveError(b) \/ SaveFails(b)
  BY <1>11 DEF SaveError, SaveFails, TypeOK
<1>12. ASSUME NEW q \in Peers, PeerOp(b, q)
       PROVE  \/ pc'[b] = "save"
              \/ pc'[b] = "idle" /\ b \in dirty'
  BY <1>12 DEF PeerOp, AddPeer, RemovePeer, BlacklistPeer, UnblacklistPeer,
               UpdatePublicKey, UpdateMetadata, UpdateLastSeen, Change, Save, TypeOK
<1> QED BY <1>4, <1>5, <1>6, <1>7, <1>8, <1>9, <1>10, <1>11, <1>12 DEF SaveStep

(***************************************************************************)
(* A book that is alone on its path has nothing left to save when it is    *)
(* idle and not marked, wherever the process died and whichever saves      *)
(* failed before, but the changes of calls that returned an error: Flush   *)
(* and Close may return nil at once.                                       *)
(***************************************************************************)
THEOREM CleanBookIsSaved ==
    ASSUME \A b, c \in Books : b = c
    PROVE  Spec => []CleanIsSaved
<1>1. Init => SavedInv
  BY DEF Init, SavedInv
<1>2. Spec => []TypeOK /\ []StorageInv
  BY StorageCorrect, PTL DEF StorageSafety
<1>3. TypeOK /\ StorageInv /\ SavedInv /\ [Next]_vars => SavedInv'
  BY SavedStep
<1>4. SavedInv => CleanIsSaved
  BY DEF SavedInv, CleanIsSaved
<1> QED BY <1>1, <1>2, <1>3, <1>4, PTL DEF Spec
=============================================================================
