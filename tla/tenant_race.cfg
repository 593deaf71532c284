\* Two requests interleave, on one tenant too; anything but a host going away.
SPECIFICATION Spec
CONSTANTS
    Hosts = {h1, h2}
    Tenants = {t1, t2}
    NoTenant = NoTenant
    NoHost = NoHost
    Requests = {r1, r2}
    Resource <- TwoPools
    Sizes <- SkewedSizes
    Capacity <- TwoFree
    MaxRequests = 3
    Actions = {"delete"}
    Allowed = {"pin", "repeat", "hurry", "collide", "patch", "throw", "crash", "fail"}
SYMMETRY ServiceSymmetry
INVARIANTS
    TypeOK
    CreatedOnce
    CommandsFollowAssignment
    
CHECK_DEADLOCK FALSE
