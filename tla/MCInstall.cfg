CONSTANTS
    i1 = i1
    jar = jar
    index = index
    c1 = c1
    c2 = c2
    Job = {j1, j2}
    Instance = {i1, i2}
    Content = {c1, c2}
    Path = {jar, index}
    Plans <- MCPlans
    Shared = Shared
    Unpinned = Unpinned
    Absent = Absent
    Torn = Torn
    Garbage = Garbage
    Crashes = TRUE
SPECIFICATION Spec
SYMMETRY Requests
INVARIANT TypeOK
INVARIANT AliasSound
INVARIANT LockSound
INVARIANT SettledStays
