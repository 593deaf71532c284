\* A tenant's whole life: requests, polls, an agent or the API that dies.
SPECIFICATION FairSpec
CONSTANTS
    Hosts = {h1}
    Tenants = {t1}
    NoTenant = NoTenant
    NoHost = NoHost
    Slots = {s1, s2}
    FirstSlot = s1
    Requests = {r1}
    Resource <- OnePool
    Sizes <- OneSize
    Capacity <- OneFree
    MaxRequests = 4
    Budget <- FewRequests
    Actions = {"start", "stop", "delete"}
 
PROPERTIES
    
    
    ImplementsLifecycle
CHECK_DEADLOCK FALSE
