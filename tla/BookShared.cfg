SPECIFICATION Spec
CONSTANTS
    b1 = b1
    b2 = b2
    q1 = q1
    q2 = q2
    None = None
    Books <- TwoBooks
    Peers <- OnePeer
    Ops = {"add", "blacklist", "fail", "crash", "close"}
SYMMETRY Symmetry
INVARIANTS
    StorageSafety
PROPERTIES
    SavesAreAtomic
