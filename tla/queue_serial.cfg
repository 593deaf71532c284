\* One poll at a time; connections break, approval is withdrawn, the agent dies.
SPECIFICATION Spec
CONSTANTS
    Hosts = {h1}
    Tenants = {t1}
    NoTenant = NoTenant
    Slots = {s1}
    MaxCommands = 3
    EnqueuedTypes = {"create_tenant", "start_tenant", "stop_tenant", "restart_tenant", "delete_tenant"}
    EnqueuedPayloads = {"full", "slug"}
    StartStatus = {"provisioning"}
    MockMode = FALSE
    Faults = {"approval", "network", "agent"}
INVARIANTS
    TenantReflectsLastReport
    RegistryFollowsQueue
PROPERTY ForwardOnly
