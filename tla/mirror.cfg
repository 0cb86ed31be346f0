SPECIFICATION Spec
CONSTANTS
    m1 = m1
    m2 = m2
    a1 = a1
    g1 = g1
    g2 = g2
    ann = ann
    None = None
    Msg = {m1}
    Age <- NewerFirst
    Atts = {a1}
    AttsOf <- OneAttachment
    Mirrors = {g1, g2}
    Clerks = {ann}
    Callers = {g1, g2, ann}
    GraphConcurrency = 1
    maxRetries = 1
    Limit = 1
    MaxEvents = 1
    MaxFaults = 1
INVARIANTS TypeOK BlobBehindRow
PROPERTIES StoredStays MirrorsEnd
CHECK_DEADLOCK FALSE
