CONSTANTS
    NumWallets = 2
    Names = {n1}
    UUIDs = {u1}
    Seeds = {s1, s2}
    DegenerateSeeds = {s2}
    Passwords = {p1}
    NoPassword = NoPassword
    Junk = Junk
    MAX_ADDRESSES = 1
    MaxFaults = 1
SYMMETRY Interchangeable
VIEW Readable
SPECIFICATION Spec
INVARIANTS TypeOK LoadedAgreesWithStore SuccessIsDurable IssuedHandlesSurvive IntactWalletOpens DeletedMeansErased CacheBelongsToLoadedWallet
PROPERTIES HiddenLeavesNoTrace WalletKept
