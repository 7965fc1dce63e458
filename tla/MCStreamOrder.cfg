SPECIFICATION Spec
CONSTANTS
    Packets <- MCPackets
    OTPs = {"o1", "o2"}
    SESSION_ID_SIZE = 2
    None = None
    MaxUnread = 0
INVARIANT ReadBeforeAnswer
