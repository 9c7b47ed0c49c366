\* Two groups of up to two campers, two calls at once, four commits, one fault.
CONSTANTS
    Group = {g1, g2}
    Camper = {1, 2}
    Contact = {0, 1}
    Call = {p1, p2}
    MaxCommits = 4
    MaxFaults = 1
    Header = Header
    NoGroup = NoGroup
SPECIFICATION Spec
SYMMETRY Interchangeable
INVARIANTS
    TypeOK
    ResyncExact
    LostOnlyByOverlap
    HeaderOnTop
PROPERTIES
    OwnRowsOnly
CHECK_DEADLOCK FALSE
