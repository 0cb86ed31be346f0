SPECIFICATION FairSpec
CONSTANTS
    Proc = {web, worker}
    web = web
    worker = worker
    Table = {"extractions", "messages", "worker_state", "verdicts"}
    Column = {"key", "rescan", "followup", "check", "pool", "slot"}
    migrations <- Three
    Databases <- Files
    MaxStops = 3
INVARIANTS OpenMeansSchema HeartbeatTable
PROPERTY AllOpen
CHECK_DEADLOCK FALSE
