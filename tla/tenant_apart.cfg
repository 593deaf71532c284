\* Two requests of different tenants interleave, with the agents' reports.
SPECIFICATION Spec
CONSTANTS
    Hosts = {h1, h2}
    Tenants = {t1, t2, t3}
    NoTenant = NoTenant
    NoHost = NoHost
    Requests = {r1, r2}
    Resource <- TwoPools
    Sizes <- OneSize
    Capacity <- OneFree
    MaxRequests = 4
    Actions = {"suspend", "restart", "backup", "delete"}
    Allowed = {"host", "reregister"}
SYMMETRY ServiceSymmetry
INVARIANTS
    
    OversubscriptionBounded
CHECK_DEADLOCK FALSE
