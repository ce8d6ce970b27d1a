CONSTANTS
    Messages <- MCMessages
    MaxSent = 3
    WireCap = 35
    RbufSize = 30
SPECIFICATION WireSpec
INVARIANTS FramesAreMessages NothingHeldBack
