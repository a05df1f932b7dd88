SPECIFICATION WebSpec
CONSTANTS
    Null = Null
    bob = bob
    Bob = Bob
    secret = secret
    other = other
    Calls = {c1}
    Tabs = {t1}
    Emails = {bob, Bob}
    LowerCase <- MCLowerCase
    Passwords = {secret, other}
    CallBodies <- MCCallBodies
    TtlIsNumber = TRUE
    Faults = {}
    MaxFaults = 0
INVARIANT
    FormsUnlock
CHECK_DEADLOCK FALSE
