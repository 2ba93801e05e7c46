SPECIFICATION Spec
CONSTANTS
    c1 = c1
    c2 = c2
    s1 = s1
    s2 = s2
    s3 = s3
    data = data
    None = None
    Handshake = Handshake
    Callers <- TwoCallers
    Streams <- ThreeStreams
    Encrypted <- OneName
    InBook = TRUE
    Ops = {"prepare", "send", "incoming", "remote", "cleanup", "finalize", "stop"}
SYMMETRY Symmetry
INVARIANTS
    EncryptingIsOpen
    NoOrphanStream
    ReadersAreStopped
    StreamSafety
