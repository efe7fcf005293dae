CONSTANTS
    Worker = {w1, w2}
    Chunk = {x}
    MaxLen = 1
    Inode = {i1, i2, i3, i4, i5}
    SharedDest = {s1, s2}
    PrivateDest = {}
    NoInode = NoInode
    NoDest = NoDest
    Reflinks = FALSE
    Overlap = FALSE
    EditShared = TRUE
    Crashes = FALSE
SPECIFICATION Spec
SYMMETRY Symmetry
INVARIANT ObjectsSealed
