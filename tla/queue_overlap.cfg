\* Two agents on one table, two overlapping polls each; network and processes fail.
SPECIFICATION Spec
CONSTANTS
    Hosts = {h1, h2}
    Tenants = {t1}
    NoTenant = NoTenant
    Slots = {s1, s2}
    MaxCommands = 2
    EnqueuedTypes = {"create_tenant"}
    EnqueuedPayloads = {"full"}
    StartStatus = {"provisioning"}
    MockMode = TRUE
    Faults = {"network", "agent", "api"}
SYMMETRY QueueSymmetry
INVARIANTS
    TypeOK
    OldestFirst
    ExecutionsClaimed
    ClaimsBounded
PROPERTY ImplementsFifo
