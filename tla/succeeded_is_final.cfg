SPECIFICATION Spec
CONSTANTS
    Null = Null
    alice = alice
    bob = bob
    key = key
    text = text
    reordered = reordered
    bad = bad
    Users = {alice, bob}
    Keys = {key}
    Payloads = {text, reordered, bad}
    Jsonb <- MCJsonb
    Rejects <- MCRejects
    Requests = {r1}
    Bodies <- FaultBodies
    Workers = {w1}
    WorkerConcurrency = 1
    Faults = {"redis"}
    MaxFaults = 1
PROPERTY
    SucceededIsFinal
CHECK_DEADLOCK FALSE
