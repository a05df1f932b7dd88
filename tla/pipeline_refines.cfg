SPECIFICATION Spec
CONSTANTS
    Null = Null
    alice = alice
    bob = bob
    key = key
    text = text
    reordered = reordered
    bad = bad
    Users = {alice, bob}
    Keys = {key}
    Payloads = {text, reordered, bad}
    Jsonb <- MCJsonb
    Rejects <- MCRejects
    Requests = {r1, r2}
    Bodies <- FaultBodies
    Workers = {w1, w2}
    WorkerConcurrency = 1
    Faults = {"crash", "stop", "db", "dbReply", "redis", "redisReply", "resend", "slow", "evict"}
    MaxFaults = 1
PROPERTY
    ImplementsLifecycle
SYMMETRY Interchangeable
CHECK_DEADLOCK FALSE
