\* One tab: three things the user does after another, with replies in any order.
SPECIFICATION FairSpec
CONSTANTS
    Paths = {p1, p2}
    Buttons = {b1, delete}
    NoButton = NoButton
    Delete = delete
    MaxClicks = 3
    MaxVersion = 1
    Faults = {"expire", "fail"}
INVARIANTS
    TypeOK
    RestIsFresh
    BusyIsPending
    OneActionAtATime
PROPERTIES
    
    LoadingEnds
CHECK_DEADLOCK FALSE
