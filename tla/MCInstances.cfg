CONSTANTS
    Thread = {t1, t2}
    Id = {i1}
    File = {world, shot}
    Foreign = {world}
    Managed = {"files", "lock"}
    Setting = {Default, s}
    Default = Default
    Absent = Absent
    Torn = Torn
    Garbage = Garbage
    Unknown = Unknown
    Faults = TRUE
    Crashes = TRUE
SPECIFICATION Spec
SYMMETRY Requests
INVARIANT TypeOK
INVARIANT ToldIsSo
INVARIANT CutShort
INVARIANT WorldsStay
