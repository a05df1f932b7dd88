SPECIFICATION Spec
CONSTANTS
    Null = Null
    alice = alice
    bob = bob
    key = key
    text = text
    reordered = reordered
    bad = bad
    Users = {alice, bob}
    Keys = {key}
    Payloads = {text, reordered, bad}
    Jsonb <- MCJsonb
    Rejects <- MCRejects
    Requests = {r1, r2}
    Bodies <- RetryBodies
    Workers = {w1, w2}
    WorkerConcurrency = 2
    Faults = {"crash", "stop", "db", "dbReply", "redis", "resend"}
    MaxFaults = 2
INVARIANTS
    NoStrandedJob
    OneHolder
SYMMETRY Interchangeable
CHECK_DEADLOCK FALSE
