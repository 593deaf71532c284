\* A tenant and the platform: three edits, of which any two of one owner overlap.
SPECIFICATION Spec
CONSTANTS
    Tenants = {"tenant"}
    Platform = "platform"
    Servers = {"server"}
    SecretNames = {"token"}
    Emails = {"ops"}
    Overlap <- Overlaps
    MaxRequests = 3
    Faults = {"gateway", "api", "audit"}
INVARIANTS
    TypeOK
    GatewayMatchesRow
    SecretRowsBounded
    LocalResolves
    
    TrailNamesWriter
    OneCreator
CHECK_DEADLOCK FALSE
