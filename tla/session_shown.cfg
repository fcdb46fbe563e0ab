SPECIFICATION Spec
CONSTANTS
    l1 = l1
    l2 = l2
    l3 = l3
    c1 = c1
    c2 = c2
    c3 = c3
    None = None
    Logins = {l1, l2}
    Calls = {c1}
    MaxStarts = 1
    HostCalls = "events"
INVARIANTS
    ActiveSessionIsShown
CHECK_DEADLOCK FALSE
