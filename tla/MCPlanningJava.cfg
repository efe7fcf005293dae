CONSTANTS
    Unstated = Unstated
    Feature = {"has_custom_resolution"}
    None = None
    Malformed = Malformed
    Unparsable = Unparsable
    Machine <- MCMachine
    Version <- MCVersion
    Listing <- MCListing
    Wanted <- MCWanted
    Concurrency = 2
    Extra <- MCExtra
SPECIFICATION Spec
INVARIANT InstalledHasJava
