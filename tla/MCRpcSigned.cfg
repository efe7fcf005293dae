CONSTANTS
    Job = {j}
    ExpiresIn = 2
    MaxInterval = 2
    Call = {k1, k2}
    SignIn = k1
    Null = Null
    NoLine = NoLine
    Clients = {"cli"}
    MaxOdd = 0
SPECIFICATION Spec
INVARIANT EntitlementSigned
CHECK_DEADLOCK FALSE
