SPECIFICATION Spec
CONSTANTS
    m1 = m1
    m2 = m2
    none = none
    Msg = {m1, m2}
    NoPO = none
    PO = {"p0", "p1", "p2"}
    VendorOfPO <- Erp
    Bases = {"globex", "initech", "our", "ups"}
    BaseClass <- ClassOf
    Label <- LabelOf
    Indexable = {"globex", "initech"}
    VendorIds = {"globex east", "initech"}
    NameWords <- Words
    WholeNames <- Wholes
    Books <- SomeBooks
    Mails <- MixedMails
    Received <- Days
    Today = 1
    Limit = 2
    LookupsFail = TRUE
    ClerkBlockers = {"Pricing"}
    MaxEdits = 2
    MaxAttempts = 4
    Vendors = {"globex east", "initech", "globex", "our", "ups", "Unknown"}
    Buyers = {}
    Owners = {"ann"}
    MailKinds = {"Invoice", "Payment"}
    Foreign = {}
INVARIANTS TypeOK NeverGuesses VendorHasSource JobIsOfTaggedVendor ClosedOnlyWithoutPO EachInOnePile
