SPECIFICATION Spec
CONSTANTS
    Null = Null
    Replicas = {a1, a2}
    Requests = {q1, q2}
    Sources = {ingress}
    Max = 1
    Faults = {"crash", "slow", "evict", "resend"}
    MaxFaults = 2
INVARIANTS
    TypeOK
    LimitIsShared
    OnlyFaultsCut
PROPERTIES
    
    EveryRequestEnds
