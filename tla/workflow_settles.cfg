SPECIFICATION Spec
CONSTANTS
    ann = ann
    bob = bob
    m1 = m1
    acme = acme
    misc = misc
    NoMsg = NoMsg
    Msg = {m1}
    Clerks = {ann}
    Owners = {ann}
    Vendors = {acme}
    Buyers = {}
    MailKinds = {"Marketing"}
    Foreign = {misc}
    Lists <- JustBlocked
    Deadlines = {"none"}
    Vouchers = {"posted"}
    Agreements = {FALSE}
    Tracked = {m1}
    MenuStatuses = {"In Progress"}
    MenuBlockers = {"Vendor"}
    HoldReasons = {"ask-vendor"}
    Entries <- OneEntry
    Edits <- TheVendor
    Handlers = {"hold", "manual-entry", "recheck-voucher"}
    MaxRequests = 1
    MaxFaults = 1
    MaxErp = 1
    MaxEdits = 0
PROPERTIES DueIsServed  VoucherDecides
CHECK_DEADLOCK FALSE
