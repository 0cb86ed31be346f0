SPECIFICATION Spec
CONSTANTS
    ann = ann
    bob = bob
    m1 = m1
    acme = acme
    misc = misc
    NoMsg = NoMsg
    Msg = {m1}
    Clerks = {ann}
    Owners = {ann}
    Vendors = {acme}
    Buyers = {}
    MailKinds = {"Marketing"}
    Foreign = {misc}
    Lists <- JustNew
    Deadlines = {"none"}
    Vouchers = {"posted"}
    Agreements = {FALSE}
    Tracked = {m1}
    MenuStatuses = {"In Progress"}
    MenuBlockers = {"Won't Pay"}
    HoldReasons = {"wont-pay"}
    Entries <- TwoEntries
    Edits <- TheVendor
    Handlers = {"blocker"}
    MaxRequests = 1
    MaxFaults = 0
    MaxErp = 1
    MaxEdits = 0
PROPERTY WontPayKept
CHECK_DEADLOCK FALSE
