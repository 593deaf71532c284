\* One poll at a time and no fault.
SPECIFICATION Spec
CONSTANTS
    Hosts = {h1}
    Tenants = {t1}
    NoTenant = NoTenant
    Slots = {s1}
    MaxCommands = 1
    EnqueuedTypes = {"create_tenant"}
    EnqueuedPayloads = {"full"}
    StartStatus = {"provisioning"}
    MockMode = TRUE
    Faults = {}
PROPERTY FailedOnlyByFailure
