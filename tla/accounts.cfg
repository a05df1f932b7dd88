SPECIFICATION Spec
CONSTANTS
    Null = Null
    bob = bob
    Bob = Bob
    secret = secret
    other = other
    Calls = {c1, c2, c3, c4}
    Emails = {bob, Bob}
    LowerCase <- MCLowerCase
    Passwords = {secret, other}
    CallBodies <- MCCallBodies
    TtlIsNumber = TRUE
    Faults = {"db", "dbReply", "crash"}
    MaxFaults = 2
INVARIANTS
    TypeOK
    RegisteredOnce
    TokensNameTheirOwner
PROPERTIES
    RegisteredCanLogIn
    ImplementsRegistry
SYMMETRY Interchangeable
CHECK_DEADLOCK FALSE
