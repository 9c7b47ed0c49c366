\* Two dashboards and two changes, with buffers of one event, so that the second
\* event finds the buffer full.
CONSTANTS
    Dashboard = {d1, d2}
    Action = {a1, a2}
    ClientBuffer = 1
SPECIFICATION FairSpec
INVARIANTS
    TypeOK
    NoSendOnClosedChannel
PROPERTIES
    ChangeReachesDashboards
    ConnectingCatchesUp
CHECK_DEADLOCK FALSE
