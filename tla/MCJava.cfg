CONSTANTS
    java = java
    lib = lib
    a = a
    b = b
    c = c
    File = {java, lib}
    JavaFile = java
    Body = {a, b, c}
    Garbled = Garbled
    None = None
    Torn = Torn
    Published <- MCPublished
    Target <- MCTarget
    MaxLen = 3
    Attempts = 2
    MaxFaults = 2
SPECIFICATION FairSpec
INVARIANT TypeOK
INVARIANT MarkerSound
INVARIANT RuntimeGenuine
PROPERTY Recovers
