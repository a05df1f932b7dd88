SPECIFICATION Spec
CONSTANTS
    Null = Null
    alice = alice
    bob = bob
    key = key
    text = text
    reordered = reordered
    bad = bad
    Users = {alice, bob}
    Keys = {key}
    Payloads = {text, reordered, bad}
    Jsonb <- MCJsonb
    Rejects <- MCRejects
    Requests = {r1}
    Bodies <- FaultBodies
    Workers = {w1, w2}
    WorkerConcurrency = 1
    Faults = {"slow"}
    MaxFaults = 1
INVARIANT
    NoStrandedJob
CHECK_DEADLOCK FALSE
