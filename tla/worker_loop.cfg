SPECIFICATION FairSpec
CONSTANTS
    m1 = m1
    m2 = m2
    pdf1 = pdf1
    NoMsg = NoMsg
    Msg = {m1, m2}
    Class <- InvoiceClass
    Pdf = {pdf1}
    PdfOf <- OnePdf
    Sorters = {s1}
    Extractors = {e1}
    Fallbackers = {}
    ExtractCap = 1
    FallbackCap = 1
    MaxAttempts = 1
    Results = {"price"}
    HasPaddle = FALSE
    LoopMode = TRUE
    Synced = {}
    Vendors = {"acme"}
    Buyers = {}
    Owners = {}
    MailKinds = {}
    Foreign = {}
    ClerkStatuses = {"In Progress"}
    Faults = {}
    MaxEdits = 0
    MaxCrashes = 0
PROPERTIES StubsAreServed
