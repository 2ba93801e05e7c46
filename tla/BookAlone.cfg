SPECIFICATION FairSpec
CONSTANTS
    b1 = b1
    b2 = b2
    q1 = q1
    q2 = q2
    None = None
    Books <- OneBook
    Peers <- OnePeer
    Ops = {"add", "remove", "publicKey", "metadata", "clear", "fail", "crash", "reload", "close"}
INVARIANTS
    CleanIsSaved
PROPERTIES
    DirtyIsFlushed
