CONSTANTS
    Worker = {w1, w2}
    Chunk = {x}
    MaxLen = 1
    Inode = {i1, i2, i3, i4}
    SharedDest = {s1, s2}
    PrivateDest = {p1}
    NoInode = NoInode
    NoDest = NoDest
    Reflinks = TRUE
    Overlap = FALSE
    EditShared = FALSE
    Crashes = TRUE
SPECIFICATION Spec
SYMMETRY Symmetry
INVARIANT TypeOK
INVARIANT ObjectsIntact
INVARIANT PrivateApart
PROPERTY MaterializeDelivers
PROPERTY ImplementsBlobStore
