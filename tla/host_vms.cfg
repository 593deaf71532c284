\* Three tenants of a host; every step may fail, the agent die, the host reboot.
SPECIFICATION Spec
CONSTANTS
    Hosts = {}
    Tenants = {"globex", "sterling", "longer"}
    NoTenant = "none"
    MockMode = FALSE
    Slug <- Slugs
    Received = {"create_tenant", "start_tenant", "stop_tenant", "delete_tenant", "backup_tenant"}
    Payloads = {"full", "slug"}
    MaxCommands = 3
INVARIANTS
    TypeOK
    OutcomesAllowed
    
    
    DiskResized
    NetworkComplete
CHECK_DEADLOCK FALSE
