\* Two machines, and the registrations of one overlap; anything may fail.
SPECIFICATION Spec
CONSTANTS
    Names = {"patient", "hasty"}
    Overlap <- Overlaps
    MaxRegistrations = 3
    Faults = {"network", "agent", "api", "state"}
INVARIANTS
    TypeOK
    RowsBounded
    SavedKeyWorks
CHECK_DEADLOCK FALSE
