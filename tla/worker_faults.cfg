SPECIFICATION Spec
CONSTANTS
    m1 = m1
    m2 = m2
    pdf1 = pdf1
    NoMsg = NoMsg
    Msg = {m2}
    Class <- MixedClass
    Pdf = {pdf1}
    PdfOf <- OnePdf
    Sorters = {s1}
    Extractors = {e1}
    Fallbackers = {f1}
    ExtractCap = 1
    FallbackCap = 1
    MaxAttempts = 4
    Results = {"clean", "price"}
    HasPaddle = TRUE
    LoopMode = FALSE
    Synced = {m2}
    Vendors = {"acme"}
    Buyers = {}
    Owners = {}
    MailKinds = {}
    Foreign = {}
    ClerkStatuses = {"In Progress"}
    Faults = {"write", "graph", "answer", "gone", "crash"}
    MaxEdits = 1
    MaxCrashes = 1
INVARIANT ExtractedHasStatus
PROPERTIES SkippedStaysSkipped StatusLostOnlyByRace
