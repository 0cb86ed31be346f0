-------------------------------- MODULE Queue --------------------------------
(***************************************************************************)
(* What clerks see: the view-model dispatch-web builds from a cached       *)
(* message and its extraction row (internal/ui, fetchMessages), the        *)
(* filters of the message list (ui.Apply) and the four tabs of the         *)
(* accounts-payable view (applyAPFilter).  A list is the set of its rows;  *)
(* rows are rendered newest first, and no property depends on it.          *)
(***************************************************************************)
EXTENDS Categories, Extractions, FiniteSets

(***************************************************************************)
(* A view message: [id, conv, internal, received, cats, row, payStatus].   *)
(* received counts days, today being the largest; cats holds at most one   *)
(* value of a namespace other than Blocker.                                *)
(***************************************************************************)
NoConv == "no conversation"

ValuesOf(v, namespace) == {c[2] : c \in {d \in v.cats : d[1] = namespace}}

Status(v) == ValuesOf(v, "Status")
Owner(v)  == ValuesOf(v, "Owner")
Buyer(v)  == ValuesOf(v, "Buyer")
Kind(v)   == ValuesOf(v, "Kind")
Vendor(v) == ValuesOf(v, "Vendor")
BlockersOf(v) == ValuesOf(v, "Blocker")

\* ListAISummaryForMailbox: what the extraction row tells the list.
AIHasExtraction(v) == v.row.data # "none"
AIHasReconcile(v) == v.row.recon # "none"
AINeedsRescan(v) == v.row.rescan
AIClean(v) == AIHasReconcile(v) /\ cleanMatch(v.row.recon)

marketingKinds == {"Marketing", "Webinar", "Newsletter"}
paymentKinds == {"Payment"}
HideByDefaultKinds == marketingKinds \cup paymentKinds

HiddenByDefault(v) == Kind(v) \cap HideByDefaultKinds # {}

(***************************************************************************)
(* dedupeByConversation: the newest message stands for its conversation,   *)
(* and every filter sees only these representatives.                       *)
(***************************************************************************)
SameConversation(v, w) == v.id = w.id \/ (v.conv = w.conv /\ v.conv # NoConv)

dedupeByConversation(msgs) ==
    {v \in msgs : \A w \in msgs : SameConversation(v, w) => w.received <= v.received}

\* ListMessages: the limit newest rows.
Newest(msgs, limit) ==
    {v \in msgs : Cardinality({w \in msgs : w.received > v.received}) < limit}

fetchMessages(msgs, limit) == dedupeByConversation(Newest(msgs, limit))

(***************************************************************************)
(* The tabs of the accounts-payable view.                                  *)
(***************************************************************************)
APTabs == {"unassigned", "todo", "hold", "done"}

InProgress(v) == Status(v) \cap {"Done", "Blocked"} = {}

\* Mutant: a held message stays in its owner's pile.
InTabHeldToo(v, tab, user, today) ==
    /\ ~HiddenByDefault(v)
    /\ ~(v.internal /\ Vendor(v) = {})
    /\ CASE tab = "unassigned" -> Kind(v) # {} /\ InProgress(v) /\ Owner(v) = {}
         [] tab = "todo" -> "Done" \notin Status(v) /\ user \in Owner(v)
         [] tab = "hold" -> "Blocked" \in Status(v)
         [] tab = "done" -> "Done" \in Status(v) /\ v.received = today

\* applyAPFilter, of one message.
InTab(v, tab, user, today) ==
    /\ ~HiddenByDefault(v)
    /\ ~(v.internal /\ Vendor(v) = {})
    /\ CASE tab = "unassigned" -> Kind(v) # {} /\ InProgress(v) /\ Owner(v) = {}
         [] tab = "todo" -> InProgress(v) /\ user \in Owner(v)
         [] tab = "hold" -> "Blocked" \in Status(v)
         [] tab = "done" -> "Done" \in Status(v) /\ v.received = today

(***************************************************************************)
(* The filters of the message list.                                        *)
(***************************************************************************)
Filters == {"open", "unclaimed", "mine", "mybuyer", "blocked", "done", "marketing",
            "payments", "unposted", "rescan", "match", "discrepancy", "all"}

\* FilterDone looks back this many days.
DoneWindow == 30

\* Mutant: only a flagged row is a discrepancy.
MatchesFlagOnly(v, filter, user, today) ==
    CASE filter = "discrepancy" -> AIHasExtraction(v) /\ AINeedsRescan(v)
      [] OTHER -> filter = "all"

\* Apply, of one message.
Matches(v, filter, user, today) ==
    LET open == "Done" \notin Status(v) /\ ~HiddenByDefault(v) IN
    CASE filter = "open" -> open
      [] filter = "unclaimed" -> open /\ Owner(v) = {} /\ ~v.internal
      [] filter = "mine" -> open /\ user \in Owner(v)
      [] filter = "mybuyer" -> open /\ user \in Buyer(v)
      [] filter = "blocked" -> "Blocked" \in Status(v) /\ ~HiddenByDefault(v)
      [] filter = "done" -> "Done" \in Status(v) /\ today - v.received < DoneWindow
      [] filter = "marketing" -> Kind(v) \cap marketingKinds # {}
      [] filter = "payments" -> Kind(v) \cap paymentKinds # {}
      [] filter = "unposted" -> AIHasExtraction(v) /\ v.payStatus = "unposted"
      [] filter = "rescan" -> AINeedsRescan(v)
      [] filter = "match" -> AIHasExtraction(v) /\ ~AINeedsRescan(v) /\ BlockersOf(v) = {}
      [] filter = "discrepancy" ->
             AIHasExtraction(v) /\ (AINeedsRescan(v) \/ BlockersOf(v) # {})
      [] filter = "all" -> TRUE

\* The badge of a row: which stage of the pipeline it is in.  A stub carries
\* the message that it is queued as its error.
Pipeline(v) ==
    IF ~AIHasExtraction(v)
    THEN IF v.row.model \notin {"absent", "skip"} THEN "error"
         ELSE IF Vendor(v) # {} \/ Status(v) # {} THEN "sorted" ELSE ""
    ELSE IF AINeedsRescan(v) THEN "rescan"
    ELSE IF AIClean(v) /\ BlockersOf(v) = {} THEN "done" ELSE "exhausted"

=============================================================================
