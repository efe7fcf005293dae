CONSTANTS
    Account = {a, b}
    Thread = {t1, t2}
    NoAccount = none
    Empty = empty
    Garbage = garbage
    Backings = {"keyring", "file"}
    OneByOne = {"file"}
    Faults = TRUE
    Crashes = TRUE
SPECIFICATION Spec
SYMMETRY SignIns
INVARIANT TypeOK
INVARIANT RegistryWellFormed
 
INVARIANT SelectionKept
