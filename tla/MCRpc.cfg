CONSTANTS
    Job = {j1, j2}
    ExpiresIn = 2
    MaxInterval = 2
    Call = {k1, k2}
    SignIn = k1
    Null = Null
    NoLine = NoLine
    Clients = {"desktop", "cli", "any"}
    MaxOdd = 3
SPECIFICATION FairSpec
INVARIANT TypeOK
INVARIANT RepliesInOrder
INVARIANT EndIsTold
INVARIANT AccountVerified
PROPERTY WaitsEnd
CHECK_DEADLOCK FALSE
