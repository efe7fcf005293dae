CONSTANTS
    s1 = s1
    s2 = s2
    Session = {s1, s2}
    Pid = {p1, p2, p3}
    Other = Other
    None = None
    Platforms = {"linux", "macos", "windows"}
    Capacity = 2
    MaxLines <- MCMaxLines
SPECIFICATION Spec
SYMMETRY Symmetry
INVARIANT TypeOK
INVARIANT SignalsItsOwn
INVARIANT GuardedEnds
INVARIANT LogFaithful
PROPERTY StopReaches
