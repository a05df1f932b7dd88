SPECIFICATION Spec
CONSTANTS
    Null = Null
    bob = bob
    Bob = Bob
    secret = secret
    other = other
    Calls = {c1, c2}
    Emails = {bob, Bob}
    LowerCase <- MCLowerCase
    Passwords = {secret, other}
    CallBodies <- MCCallBodies
    TtlIsNumber = TRUE
    Faults = {}
    MaxFaults = 0
PROPERTY
    ExistingUserIsRefused
CHECK_DEADLOCK FALSE
