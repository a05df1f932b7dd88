SPECIFICATION WebSpec
CONSTANTS
    Null = Null
    bob = bob
    Bob = Bob
    secret = secret
    other = other
    Calls = {c1, c2, c3}
    Tabs = {t1, t2}
    Emails = {bob, Bob}
    LowerCase <- MCLowerCase
    Passwords = {secret, other}
    CallBodies <- MCCallBodies
    TtlIsNumber = TRUE
    Faults = {"net", "quick", "crash"}
    MaxFaults = 1
INVARIANTS
    SessionTypeOK
    OneCallPerTab
    SessionsAreEarned
    CopiesAgree
PROPERTY
    NoSessionComesBack
SYMMETRY Interchangeable
