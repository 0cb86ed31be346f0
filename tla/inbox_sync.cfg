SPECIFICATION FairSpec
CONSTANTS
    m1 = m1
    m2 = m2
    Msg = {m1, m2}
    Age <- NewerFirst
    Limit = 1
    Lists <- TwoLists
    Vendors = {}
    Buyers = {}
    Owners = {}
    MailKinds = {}
    Foreign = {}
    Faults = {"delta", "list", "upsert", "link", "crash"}
    MaxChanges = 3
    MaxRestarts = 1
INVARIANTS TypeOK MissedOnlyWhenSkipped
PROPERTY Converges
