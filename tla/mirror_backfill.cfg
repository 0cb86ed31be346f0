SPECIFICATION Spec
CONSTANTS
    m1 = m1
    m2 = m2
    a1 = a1
    g1 = g1
    g2 = g2
    ann = ann
    None = None
    Msg = {m1, m2}
    Age <- NewerFirst
    Atts = {a1}
    AttsOf <- OlderAttachment
    Mirrors = {g1}
    Clerks = {}
    Callers = {g1}
    GraphConcurrency = 1
    maxRetries = 1
    Limit = 1
    MaxEvents = 1
    MaxFaults = 2
PROPERTIES StragglersMirrored
CHECK_DEADLOCK FALSE
