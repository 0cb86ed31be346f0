SPECIFICATION FairSpec
CONSTANTS
    m1 = m1
    m2 = m2
    pdf1 = pdf1
    NoMsg = NoMsg
    Msg = {m1, m2}
    Class <- MixedClass
    Pdf = {pdf1}
    PdfOf <- OnePdf
    Sorters = {s1}
    Extractors = {e1}
    Fallbackers = {f1}
    ExtractCap = 1
    FallbackCap = 1
    MaxAttempts = 4
    Results = {"price"}
    HasPaddle = FALSE
    LoopMode = FALSE
    Synced = {}
    Vendors = {"acme"}
    Buyers = {}
    Owners = {}
    MailKinds = {}
    Foreign = {}
    ClerkStatuses = {"In Progress"}
    Faults = {"read"}
    MaxEdits = 0
    MaxCrashes = 0
INVARIANTS TypeOK DiscrepancyShows NoJobLost NoSendOnClosed
PROPERTIES KeepsTheLedger JobsLand ShutdownEnds
