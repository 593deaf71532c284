\* A delete_tenant without a payload, as POST /api/commands may queue it.
SPECIFICATION Spec
CONSTANTS
    Hosts = {}
    Tenants = {"globex", "sterling", "longer"}
    NoTenant = "none"
    MockMode = FALSE
    Slug <- Slugs
    Received = {"create_tenant", "delete_tenant"}
    Payloads = {"full", "slug", "empty"}
    MaxCommands = 2
PROPERTY OnlyOwnDisk
CHECK_DEADLOCK FALSE
