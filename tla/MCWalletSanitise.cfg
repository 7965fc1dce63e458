CONSTANTS
    NumWallets = 1
    Names = {n1}
    UUIDs = {u1}
    Seeds = {s1}
    DegenerateSeeds = {}
    Passwords = {p1}
    NoPassword = NoPassword
    Junk = Junk
    MAX_ADDRESSES = 1
    MaxFaults = 1
SYMMETRY Interchangeable
VIEW Readable
SPECIFICATION Spec
INVARIANT SanitisedReadsNothingThere
