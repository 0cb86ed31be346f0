SPECIFICATION Spec
CONSTANTS
    ann = ann
    bob = bob
    m1 = m1
    acme = acme
    misc = misc
    NoMsg = NoMsg
    Msg = {m1}
    Clerks = {ann}
    Owners = {ann}
    Vendors = {acme}
    Buyers = {}
    MailKinds = {"Marketing"}
    Foreign = {misc}
    Lists <- NewAndBlocked
    Deadlines = {"none"}
    Vouchers = {"unposted", "posted"}
    Agreements = {TRUE}
    Tracked = {m1}
    MenuStatuses = {"In Progress"}
    MenuBlockers = {"Vendor"}
    HoldReasons = {"ask-vendor", "wont-pay"}
    Entries <- TwoEntries
    Edits <- TheVendor
    Handlers = {"claim", "status", "blocker", "clear-kind", "pickup", "assign", "hold", "manual-entry", "recheck-voucher"}
    MaxRequests = 1
    MaxFaults = 1
    MaxErp = 0
    MaxEdits = 1
INVARIANTS TypeOK OneStatus
PROPERTIES LostOnlyByRace
CHECK_DEADLOCK FALSE
