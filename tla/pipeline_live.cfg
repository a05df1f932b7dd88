SPECIFICATION FairSpec
CONSTANTS
    Null = Null
    alice = alice
    bob = bob
    key = key
    text = text
    reordered = reordered
    bad = bad
    Users = {alice, bob}
    Keys = {key}
    Payloads = {text, reordered, bad}
    Jsonb <- MCJsonb
    Rejects <- MCRejects
    Requests = {r1, r2}
    Bodies <- RetryBodies
    Workers = {w1, w2}
    WorkerConcurrency = 2
    Faults = {"crash", "stop", "resend", "db"}
    MaxFaults = 1
PROPERTY
    EnqueuedJobsFinish
