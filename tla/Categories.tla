---------------------------- MODULE Categories ----------------------------
(***************************************************************************)
(* Outlook categories are the only durable workflow state of a message:    *)
(* "Status: New", "Vendor: Acme", "Blocker: Pricing" ...  Every writer     *)
(* replaces the whole list (graph.Client.SetCategories), so each operator  *)
(* below takes the list the writer read and returns the list it sends.     *)
(*                                                                         *)
(* A category is a pair <<namespace, value>> and a list is the set of its  *)
(* entries: no reader depends on their order.                              *)
(***************************************************************************)
CONSTANTS
    Vendors,    \* vendor names the resolver, the thread or the PO can give
    Buyers,     \* buyers a PO can name
    Owners,     \* clerks who can claim a message
    MailKinds,  \* mail kinds the rules and the classifier give
    Foreign     \* values of categories no part of Dispatch manages

Statuses == {"New", "In Progress", "Blocked", "Done"}

\* "Automation" and "Internal" are the kinds of mail the worker skips.
Kinds == MailKinds \cup {"Automation", "Internal"}

BlockerOptions ==
    {"Purchasing", "Vendor", "Pricing", "PO", "Partial", "Won't Pay"}

Category ==
    ({"Status"} \X Statuses) \cup ({"Vendor"} \X Vendors)
    \cup ({"Buyer"} \X Buyers) \cup ({"Owner"} \X Owners) \cup ({"Kind"} \X Kinds)
    \cup ({"Blocker"} \X BlockerOptions) \cup ({"Foreign"} \X Foreign)

Managed == {"Status", "Vendor", "Buyer", "Kind", "Blocker", "Owner"}

Without(cats, namespaces) == {c \in cats : c[1] \notin namespaces}

StatusOf(cats) == {c \in cats : c[1] = "Status"}

\* The message has been through the worker, or a clerk has set a status.
hasStatus(cats) == StatusOf(cats) # {}

\* The worker has resolved a vendor (possibly "Unknown") for the message.
hasVendor(cats) == \E c \in cats : c[1] = "Vendor"

\* The tag of a first pass.  buyer and kind hold at most one value: an empty
\* one adds no entry.  Blockers and owners survive: only four namespaces are
\* replaced.
mergeCategories(existing, vendor, buyer, kind) ==
    Without(existing, {"Vendor", "Status", "Buyer", "Kind"})
    \cup {<<"Vendor", vendor>>, <<"Status", "New">>}
    \cup ({"Buyer"} \X buyer) \cup ({"Kind"} \X kind)

\* The tag of a message that needs no accounts-payable work.
skipCategories(existing, kind) ==
    Without(existing, Managed) \cup {<<"Status", "Done">>, <<"Kind", kind>>}

\* Mutant: Status: New goes, and no other status comes.
applyBlockersDropNew(current, blockers) ==
    (current \ {<<"Status", "New">>}) \cup ({"Blocker"} \X blockers)

\* Mutant: whatever the status is, it becomes Blocked.
applyBlockersAnyStatus(current, blockers) ==
    Without(current, {"Status"}) \cup {<<"Status", "Blocked">>} \cup ({"Blocker"} \X blockers)

\* Adds the blockers of a discrepant reconciliation.  Only Status: New
\* becomes Status: Blocked; any other status of the given list is kept.
applyAutoBlockers(current, blockers) ==
    {IF c = <<"Status", "New">> THEN <<"Status", "Blocked">> ELSE c : c \in current}
    \cup ({"Blocker"} \X blockers)

\* The clerk's status menu.
ReplaceStatus(cats, status) ==
    Without(cats, {"Status"}) \cup {<<"Status", status>>}

\* Claiming, releasing and handing over: owner holds at most one clerk, and
\* an empty one removes the entry.
ReplaceOwner(cats, owner) == Without(cats, {"Owner"}) \cup ({"Owner"} \X owner)

ownerFrom(cats) == {c[2] : c \in {d \in cats : d[1] = "Owner"}}

Blockers(cats) == {c \in cats : c[1] = "Blocker"}

hasStatusDoneCategory(cats) == <<"Status", "Done">> \in cats

\* The list of a blocked message whose numbers agree after all: no blocker is
\* kept, whoever set it, and Status: Blocked becomes Status: New.
StripAllBlockers(cats) ==
    {IF c = <<"Status", "Blocked">> THEN <<"Status", "New">> ELSE c :
        c \in Without(cats, {"Blocker"})}

\* The clerk's "this is not marketing".
StripKind(cats) == Without(cats, {"Kind"})

\* Mutant: Blocked comes on top of the status there is.
ToggleBlockerOnTop(cats, name) ==
    LET target == <<"Blocker", name>>
        toggled == IF target \in cats THEN cats \ {target} ELSE cats \cup {target}
    IN IF Blockers(toggled) # {} THEN toggled \cup {<<"Status", "Blocked">>} ELSE toggled

\* Adds the blocker, or takes it away when it is there, and keeps the status
\* in step: Blocked while a blocker is left, In Progress when the last is gone.
ToggleBlocker(cats, name) ==
    LET target == <<"Blocker", name>>
        toggled == IF target \in cats THEN cats \ {target} ELSE cats \cup {target}
    IN CASE Blockers(toggled) # {} -> ReplaceStatus(toggled, "Blocked")
         [] Blockers(toggled) = {} /\ <<"Status", "Blocked">> \in toggled ->
                ReplaceStatus(toggled, "In Progress")
         [] OTHER -> toggled

\* The list of a held message whose follow-up is due.
stripBlockerAndStatus(cats) == Without(cats, {"Blocker", "Status"})

ensureStatusNew(cats) ==
    IF hasStatus(cats) THEN cats ELSE cats \cup {<<"Status", "New">>}

===========================================================================
