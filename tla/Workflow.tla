----------------------------- MODULE Workflow -----------------------------
(***************************************************************************)
(* What dispatch-web does to the categories of a message: the clerks'      *)
(* handlers, the voucher sync with its two side passes, the follow-up      *)
(* sweeper and the inbox sync.  Each is a process; each changes a message  *)
(* by computing a whole new list, from what it read in Outlook or in the   *)
(* cache, and writing it back two or more steps later.  Others edit too:   *)
(* the worker, and people in Outlook, tag a message with vendors, buyers   *)
(* and categories of their own.                                            *)
(*                                                                         *)
(* A handler whose first read or whose form is refused changes nothing and *)
(* is no action here.                                                      *)
(***************************************************************************)
EXTENDS Categories, Integers, FiniteSets

CONSTANTS
    Msg,
    Clerks,        \* the users with an open browser, one request each at a time
    Lists,         \* the lists messages start with
    Deadlines,     \* the follow-ups messages start with
    Vouchers,      \* what the ERP knows of them then
    Agreements,    \* whether they agree with their purchase orders then
    Tracked,       \* messages whose extraction gave a PO and an invoice number
    MenuStatuses,  \* what the status menu offers
    MenuBlockers,  \* what the blocker menu offers
    HoldReasons,
    Entries,       \* what clerks type by hand
    Edits,         \* the categories others add and take away
    Handlers,      \* the handlers the clerks' requests may reach
    MaxRequests,   \* bound on the requests of the clerks
    MaxFaults,     \* bound on failing calls and statements, and on restarts
    MaxErp,        \* bound on the changes made in the ERP
    MaxEdits,      \* bound on the categories others add or take away
    NoMsg

ASSUME WorkflowAssumption ==
    /\ Lists \subseteq SUBSET Category
    /\ Tracked \subseteq Msg
    /\ Deadlines \subseteq {"none", "pending"}
    /\ Vouchers \subseteq {"unposted", "posted", "paid"}
    /\ Agreements \subseteq BOOLEAN
    /\ NoMsg \notin Msg
    /\ Clerks \subseteq Owners
    /\ MenuStatuses \subseteq Statuses
    /\ MenuBlockers \subseteq BlockerOptions
    /\ HoldReasons \subseteq {"ask-buyer", "ask-vendor", "pricing", "po", "wont-pay"}
    /\ {"voucher", "sweep"} \cap Clerks = {}
    /\ Edits \subseteq {c \in Category : c[1] \in {"Vendor", "Buyer", "Foreign"}}
    /\ {MaxRequests, MaxFaults, MaxErp, MaxEdits} \subseteq Nat

VARIABLES
    outlook,   \* the categories of each message in the mailbox
    cached,    \* the categories_json of each message in the cache
    ext,       \* the voucher columns of each message's extraction row
    followup,  \* the follow-up deadline of each message
    erp,       \* what the ERP would answer about each message
    proc,      \* what each process is doing
    changed,   \* messages changed since the sync's delta link was taken
    batch,     \* the delta response the sync is working through
    spent      \* requests, faults, ERP changes and edits so far

vars == <<outlook, cached, ext, followup, erp, proc, changed, batch, spent>>

Tickers == {"voucher", "sweep"}
Procs == Clerks \cup Tickers

PayStatus == {"", "unposted", "posted", "paid"}
InERP == {"unposted", "posted", "paid"}

\* What a process is at: the operation, its message, the list it read and the
\* one it will send instead, the answer it will store, and the messages its
\* pass still has to visit.
Idle == [pc |-> "idle", op |-> "none", msg |-> NoMsg, read |-> {}, list |-> {}, info |-> "",
         todo |-> {}]

\* A ticker at rest remembers its last pass.
AtStart ==
    [p \in Procs |-> [Idle EXCEPT !.op =
        CASE p = "voucher" -> "voucher" [] p = "sweep" -> "resurface" [] OTHER -> "none"]]

\* Mutant: one name is not the option the menus and the badges know.
BlockerMisspelt(reason) ==
    CASE reason = "ask-buyer" -> "Purchasing"
      [] reason = "ask-vendor" -> "Vendor"
      [] reason = "pricing" -> "Pricing"
      [] reason = "po" -> "PO"
      [] reason = "wont-pay" -> "Won't pay"

\* What a hold reason stands for.
Blocker(reason) ==
    CASE reason = "ask-buyer" -> "Purchasing"
      [] reason = "ask-vendor" -> "Vendor"
      [] reason = "pricing" -> "Pricing"
      [] reason = "po" -> "PO"
      [] reason = "wont-pay" -> "Won't Pay"

\* Both statements of the voucher columns look at rows of this kind.
HasInvoice(m) == ext[m].po /\ ext[m].data = "numbered"


ListERPSyncCandidates ==
    {m \in Msg : HasInvoice(m) /\ ~ext[m].recent /\ ext[m].pay # "paid"}

ListDoneUnpostedConflicts ==
    {m \in Msg : hasStatusDoneCategory(cached[m]) /\ ext[m].pay = "unposted"}

ListBlockedMessages ==
    {m \in Msg : /\ <<"Status", "Blocked">> \in cached[m]
                 /\ ext[m].po /\ ext[m].data # "none"}

ListFollowupsDue == {m \in Msg : followup[m] = "due"}

NoSpending == [requests |-> 0, faults |-> 0, erp |-> 0, edits |-> 0]

Fault ==
    /\ spent.faults < MaxFaults
    /\ spent' = [spent EXCEPT !.faults = @ + 1]

Request ==
    /\ spent.requests < MaxRequests
    /\ spent' = [spent EXCEPT !.requests = @ + 1]

\* Where the visit of a message starts, by pass.
FirstStep(op) ==
    CASE op \in {"reconcile", "blocked"} -> "cats"
      [] op = "voucher" -> "lookup"
      [] op = "resurface" -> "get"

\* The states of a ticker that goes on with one of the messages left to visit,
\* or rests when none is.
Continue(op, todo) ==
    IF todo = {} THEN {[Idle EXCEPT !.op = op]}
    ELSE {[Idle EXCEPT !.pc = FirstStep(op), !.op = op, !.msg = m, !.todo = todo \ {m}] :
              m \in todo}

Goto(p, pc) == proc' = [proc EXCEPT ![p].pc = pc]
\* A handler ends; a pass goes on.
Finish(p) ==
    \E r \in (IF p \in Clerks THEN {Idle} ELSE Continue(proc[p].op, proc[p].todo)) :
        proc' = [proc EXCEPT ![p] = r]

Init ==
    /\ outlook \in [Msg -> Lists]
    /\ cached = outlook
    /\ ext = [m \in Msg |->
                 [po |-> m \in Tracked, data |-> IF m \in Tracked THEN "numbered" ELSE "none",
                  pay |-> "", recent |-> FALSE]]
    /\ followup \in [Msg -> Deadlines]
    /\ erp \in [Msg -> [voucher : Vouchers, agrees : Agreements]]
    /\ proc = AtStart
    /\ changed = {}
    /\ batch = {}
    /\ spent = NoSpending

(***************************************************************************)
(* The handlers: GetMessage, then the list to write back.                  *)
(***************************************************************************)

\* Shared start of the handlers: the list read in Outlook becomes `list`.
Begin(c, op, m, list) ==
    /\ proc[c].pc = "idle"
    /\ Request
    /\ proc' = [proc EXCEPT ![c] = [Idle EXCEPT !.pc = "patch", !.op = op, !.msg = m,
                                               !.read = outlook[m], !.list = list]]
    /\ UNCHANGED <<outlook, cached, ext, followup, erp, changed, batch>>

\* Claiming what one owns releases it; claiming what another owns takes it.
handleClaim(c, m) ==
    Begin(c, "claim", m,
          ReplaceOwner(outlook[m], IF c \in ownerFrom(outlook[m]) THEN {} ELSE {c}))

handleStatus(c, m) ==
    \E status \in MenuStatuses : Begin(c, "status", m, ReplaceStatus(outlook[m], status))

handleBlocker(c, m) ==
    \E name \in MenuBlockers : Begin(c, "blocker", m, ToggleBlocker(outlook[m], name))

handleClearKind(c, m) == Begin(c, "clear-kind", m, StripKind(outlook[m]))

handleAPPickup(c, m) ==
    Begin(c, "pickup", m, ReplaceStatus(ReplaceOwner(outlook[m], {c}), "In Progress"))

handleAPAssign(c, m) ==
    \E target \in Owners :
        Begin(c, "assign", m, ReplaceStatus(ReplaceOwner(outlook[m], {target}), "In Progress"))

\* "close" is the hold without a deadline.
handleAPHold(c, m) ==
    \E reason \in HoldReasons :
        Begin(c, IF reason = "wont-pay" THEN "close" ELSE "hold", m,
              ToggleBlocker(ReplaceOwner(outlook[m], {c}), Blocker(reason)))

\* The clerk types what the extraction could not read.  The row is stored
\* first; with a voucher number the message is then taken for posted.
handleManualEntry(c, m) ==
    /\ proc[c].pc = "idle"
    /\ Request
    /\ \E po, number, voucher \in BOOLEAN :
         /\ number \/ voucher
         /\ [po |-> po, number |-> number, voucher |-> voucher] \in Entries
         /\ ext' = [ext EXCEPT ![m].po = po,
                               ![m].data = IF number THEN "numbered" ELSE "partial"]
         /\ proc' = [proc EXCEPT ![c] =
                IF voucher
                THEN [Idle EXCEPT !.pc = "info", !.op = "manual", !.msg = m, !.info = "posted"]
                ELSE Idle]
    /\ UNCHANGED <<outlook, cached, followup, erp, changed, batch>>

\* Fired when a clerk navigates away from a message.
handleRecheckVoucher(c, m) ==
    /\ proc[c].pc = "idle"
    /\ Request
    /\ HasInvoice(m)
    /\ proc' = [proc EXCEPT ![c] = [Idle EXCEPT !.pc = "lookup", !.op = "voucher", !.msg = m]]
    /\ UNCHANGED <<outlook, cached, ext, followup, erp, changed, batch>>

HandleRequest(c) ==
    \E m \in Msg :
        \/ "claim" \in Handlers /\ handleClaim(c, m)
        \/ "status" \in Handlers /\ handleStatus(c, m)
        \/ "blocker" \in Handlers /\ handleBlocker(c, m)
        \/ "clear-kind" \in Handlers /\ handleClearKind(c, m)
        \/ "pickup" \in Handlers /\ handleAPPickup(c, m)
        \/ "assign" \in Handlers /\ handleAPAssign(c, m)
        \/ "hold" \in Handlers /\ handleAPHold(c, m)
        \/ "manual-entry" \in Handlers /\ handleManualEntry(c, m)
        \/ "recheck-voucher" \in Handlers /\ handleRecheckVoucher(c, m)

(***************************************************************************)
(* The steps the processes share.  Each may fail, at the cost of a fault.  *)
(***************************************************************************)

LookupAPInvoice(p) ==
    /\ proc[p].pc = "lookup"
    /\ \/ /\ proc' = [proc EXCEPT ![p].pc = "info", ![p].info = erp[proc[p].msg].voucher]
          /\ UNCHANGED spent
       \/ Fault /\ Finish(p)
    /\ UNCHANGED <<outlook, cached, ext, followup, erp, changed, batch>>

\* Mutant: a status that was stored before is taken for acted on.
SetVoucherInfoOnce(p) ==
    LET goto(pc) == proc' = [proc EXCEPT ![p].pc = pc, ![p].info = ""]
        next == IF proc[p].op = "manual" THEN goto("get")
                ELSE IF proc[p].info \in {"unposted", ext[proc[p].msg].pay} THEN Finish(p)
                ELSE goto("cats")
    IN /\ proc[p].pc = "info"
       /\ ext' = [ext EXCEPT ![proc[p].msg].pay = proc[p].info, ![proc[p].msg].recent = TRUE]
       /\ next
       /\ UNCHANGED <<outlook, cached, followup, erp, changed, batch, spent>>

\* The status is stored before anything is done about it.  A manual entry
\* goes on to Outlook even when the store failed; a sync does not, and has
\* nothing to do there for an unposted voucher.
SetVoucherInfo(p) ==
    LET goto(pc) == proc' = [proc EXCEPT ![p].pc = pc, ![p].info = ""]
        next == IF proc[p].op = "manual" THEN goto("get")
                ELSE IF proc[p].info = "unposted" THEN Finish(p) ELSE goto("cats")
    IN /\ proc[p].pc = "info"
       /\ \/ /\ ext' = [ext EXCEPT ![proc[p].msg].pay = proc[p].info,
                                   ![proc[p].msg].recent = TRUE]
             /\ next
             /\ UNCHANGED spent
          \/ /\ Fault
             /\ IF proc[p].op = "manual" THEN next ELSE Finish(p)
             /\ UNCHANGED ext
       /\ UNCHANGED <<outlook, cached, followup, erp, changed, batch>>

\* What the voucher sync, the reconcile and the recheck make of a cached list.
\* The recheck has first compared the invoice with today's PO lines.
NothingToDo(op, m) ==
    CASE op = "voucher" -> hasStatusDoneCategory(cached[m])
      [] op = "reconcile" -> ~hasStatusDoneCategory(cached[m])
      [] op = "blocked" -> ~erp[m].agrees \/ Blockers(cached[m]) = {}

Wanted(op, cats) ==
    CASE op = "voucher" -> ReplaceStatus(cats, "Done")
      [] op = "reconcile" -> ReplaceStatus(cats, "New")
      [] op = "blocked" -> StripAllBlockers(cats)

\* The sync and its side passes read the cached list, not Outlook's.
GetCategories(p) ==
    /\ proc[p].pc = "cats"
    /\ \/ /\ IF NothingToDo(proc[p].op, proc[p].msg)
             THEN Finish(p)
             ELSE proc' = [proc EXCEPT ![p].pc = "patch", ![p].read = cached[proc[p].msg],
                                       ![p].list = Wanted(proc[p].op, cached[proc[p].msg])]
          /\ UNCHANGED spent
       \/ Fault /\ Finish(p)
    /\ UNCHANGED <<outlook, cached, ext, followup, erp, changed, batch>>

\* Manual entry and the sweeper read Outlook's list.  The sweeper gives the
\* deadline up when it cannot.
GetMessage(p) ==
    LET cats == outlook[proc[p].msg]
        manual == proc[p].op = "manual"
    IN /\ proc[p].pc = "get"
       /\ \/ /\ proc' = [proc EXCEPT ![p].pc = "patch", ![p].read = cats, ![p].list =
                    IF manual THEN ReplaceStatus(cats, "Done")
                    ELSE ensureStatusNew(stripBlockerAndStatus(cats))]
             /\ UNCHANGED spent
          \/ Fault /\ (IF manual THEN Finish(p) ELSE Goto(p, "give-up"))
       /\ UNCHANGED <<outlook, cached, ext, followup, erp, changed, batch>>

\* Mutant: the list that is sent keeps only what Dispatch manages.
SetCategoriesManaged(p) ==
    /\ proc[p].pc = "patch"
    /\ outlook' = [outlook EXCEPT ![proc[p].msg] = {c \in proc[p].list : c[1] \in Managed}]
    /\ changed' = changed \cup {proc[p].msg}
    /\ proc' = [proc EXCEPT ![p].pc = "update", ![p].read = {}]
    /\ UNCHANGED <<cached, ext, followup, erp, batch, spent>>

\* Mutant: the sweeper clears the deadline also when its PATCH failed.
SetCategoriesGiveUp(p) ==
    /\ proc[p].pc = "patch"
    /\ \/ /\ outlook' = [outlook EXCEPT ![proc[p].msg] = proc[p].list]
          /\ changed' = changed \cup {proc[p].msg}
          /\ proc' = [proc EXCEPT ![p].pc = "update", ![p].read = {}]
          /\ UNCHANGED spent
       \/ /\ IF p = "sweep" THEN Goto(p, "clear") ELSE Finish(p)
          /\ Fault
          /\ UNCHANGED <<outlook, changed>>
    /\ UNCHANGED <<cached, ext, followup, erp, batch>>

\* The PATCH: it may fail, and it may take effect and the answer be lost.
SetCategories(p) ==
    /\ proc[p].pc = "patch"
    /\ \/ /\ outlook' = [outlook EXCEPT ![proc[p].msg] = proc[p].list]
          /\ changed' = IF proc[p].list = outlook[proc[p].msg] THEN changed
                        ELSE changed \cup {proc[p].msg}
          /\ \/ /\ proc' = [proc EXCEPT ![p].pc = "update", ![p].read = {}]
                /\ UNCHANGED spent
             \/ Finish(p) /\ Fault
       \/ Finish(p) /\ Fault /\ UNCHANGED <<outlook, changed>>
    /\ UNCHANGED <<cached, ext, followup, erp, batch>>

\* What follows the cache update, by operation.
AfterUpdate(op) ==
    CASE op \in {"pickup", "close", "resurface"} -> "clear"
      [] op = "hold" -> "stamp"
      [] OTHER -> "end"

\* A failed update of the cache is ignored everywhere.
UpdateCategories(p) ==
    LET next == AfterUpdate(proc[p].op)
    IN /\ proc[p].pc = "update"
       /\ \/ /\ cached' = [cached EXCEPT ![proc[p].msg] = proc[p].list]
             /\ UNCHANGED spent
          \/ Fault /\ UNCHANGED cached
       /\ IF next = "end" THEN Finish(p)
          ELSE proc' = [proc EXCEPT ![p].pc = next, ![p].list = {}]
       /\ UNCHANGED <<outlook, ext, followup, erp, changed, batch>>

\* The last statement of a hold, a pickup and a resurfacing; a failure is
\* ignored.
SetFollowup(p) ==
    /\ proc[p].pc = "stamp"
    /\ \/ /\ followup' = [followup EXCEPT ![proc[p].msg] = "pending"]
          /\ UNCHANGED spent
       \/ Fault /\ UNCHANGED followup
    /\ Finish(p)
    /\ UNCHANGED <<outlook, cached, ext, erp, changed, batch>>

ClearFollowup(p) ==
    /\ proc[p].pc \in {"clear", "give-up"}
    /\ \/ /\ followup' = [followup EXCEPT ![proc[p].msg] = "none"]
          /\ UNCHANGED spent
       \/ Fault /\ UNCHANGED followup
    /\ Finish(p)
    /\ UNCHANGED <<outlook, cached, ext, erp, changed, batch>>

(***************************************************************************)
(* The tickers.  A failed listing is an empty one.                         *)
(***************************************************************************)

Pass(p, after, op, todo) ==
    /\ proc[p].pc = "idle" /\ proc[p].op = after
    /\ \/ /\ \E r \in Continue(op, todo) : proc' = [proc EXCEPT ![p] = r]
          /\ UNCHANGED spent
       \/ /\ proc' = [proc EXCEPT ![p].op = op]
          /\ Fault
    /\ UNCHANGED <<outlook, cached, ext, followup, erp, changed, batch>>

\* One tick: contradictions first, then the blocked messages, then the
\* candidates of the sync itself.
reconcileDoneUnposted == Pass("voucher", "voucher", "reconcile", ListDoneUnpostedConflicts)

recheckBlocked == Pass("voucher", "reconcile", "blocked", ListBlockedMessages)

doVoucherSync == Pass("voucher", "blocked", "voucher", ListERPSyncCandidates)

doFollowupSweep == Pass("sweep", "resurface", "resurface", ListFollowupsDue)

Step(p) ==
    \/ LookupAPInvoice(p) \/ SetVoucherInfo(p) \/ GetCategories(p) \/ GetMessage(p)
    \/ SetCategories(p) \/ UpdateCategories(p) \/ SetFollowup(p) \/ ClearFollowup(p)

runVoucherSync ==
    reconcileDoneUnposted \/ recheckBlocked \/ doVoucherSync \/ Step("voucher")

runFollowupSweep == doFollowupSweep \/ Step("sweep")

(***************************************************************************)
(* The inbox sync (InboxSync has its faults and its delta link).           *)
(***************************************************************************)

ListInboxDelta ==
    /\ batch = {} /\ changed # {}
    /\ batch' = {<<m, outlook[m]>> : m \in changed}
    /\ changed' = {}
    /\ UNCHANGED <<outlook, cached, ext, followup, erp, proc, spent>>

UpsertMessage ==
    /\ \E e \in batch :
          /\ cached' = [cached EXCEPT ![e[1]] = e[2]]
          /\ batch' = batch \ {e}
    /\ UNCHANGED <<outlook, ext, followup, erp, proc, changed, spent>>

SyncInbox == ListInboxDelta \/ UpsertMessage

(***************************************************************************)
(* The clock, the ERP, other hands and restarts.                           *)
(***************************************************************************)

FallsDue(m) ==
    /\ followup[m] = "pending"
    /\ followup' = [followup EXCEPT ![m] = "due"]
    /\ UNCHANGED <<outlook, cached, ext, erp, proc, changed, batch, spent>>

GrowsStale(m) ==
    /\ ext[m].recent
    /\ ext' = [ext EXCEPT ![m].recent = FALSE]
    /\ UNCHANGED <<outlook, cached, followup, erp, proc, changed, batch, spent>>

\* Buyers and the accounts department at work: a voucher is posted, paid or
\* reversed, a purchase order is corrected.
ERPChange(m) ==
    /\ spent.erp < MaxErp
    /\ spent' = [spent EXCEPT !.erp = @ + 1]
    /\ \/ /\ erp[m].voucher # "paid"
          /\ \E v \in InERP \ {erp[m].voucher} : erp' = [erp EXCEPT ![m].voucher = v]
       \/ /\ ~erp[m].agrees
          /\ erp' = [erp EXCEPT ![m].agrees = TRUE]
    /\ UNCHANGED <<outlook, cached, ext, followup, proc, changed, batch>>

\* The worker, or somebody in Outlook, adds a category that no process of this
\* module decides about, or takes one away.
OthersEdit(m) ==
    /\ spent.edits < MaxEdits
    /\ spent' = [spent EXCEPT !.edits = @ + 1]
    /\ \E c \in Edits :
          outlook' = [outlook EXCEPT ![m] = IF c \in @ THEN @ \ {c} ELSE @ \cup {c}]
    /\ changed' = changed \cup {m}
    /\ UNCHANGED <<cached, ext, followup, erp, proc, batch>>

\* dispatch-web goes down and is started again: requests and passes are lost,
\* an unfinished delta response comes again from the link that was kept.
Restart ==
    /\ Fault
    /\ proc' = AtStart
    /\ changed' = changed \cup {e[1] : e \in batch}
    /\ batch' = {}
    /\ UNCHANGED <<outlook, cached, ext, followup, erp>>

Next ==
    \/ \E c \in Clerks : HandleRequest(c) \/ Step(c)
    \/ runVoucherSync
    \/ runFollowupSweep
    \/ SyncInbox
    \/ \E m \in Msg : FallsDue(m) \/ GrowsStale(m) \/ ERPChange(m) \/ OthersEdit(m)
    \/ Restart

\* A goroutine that can take a step takes it, the tickers keep ticking, the
\* sync comes every minute, and a synced row grows stale.  Clerks, deadlines,
\* the ERP and restarts owe nothing.
Fairness ==
    /\ \A c \in Clerks : WF_vars(Step(c))
    /\ WF_vars(runVoucherSync) /\ WF_vars(runFollowupSweep) /\ WF_vars(SyncInbox)
    /\ \A m \in Msg : WF_vars(GrowsStale(m))

Spec == Init /\ [][Next]_vars /\ Fairness

(***************************************************************************)
(* Properties.                                                             *)
(***************************************************************************)

Ops == {"none", "claim", "status", "blocker", "clear-kind", "pickup", "assign", "hold", "close",
        "manual", "voucher", "reconcile", "blocked", "resurface"}
PCs == {"idle", "patch", "update", "stamp", "clear", "give-up", "info", "get", "lookup", "cats"}

\* Every variable keeps its type; a process at rest holds nothing.
TypeOK ==
    /\ outlook \in [Msg -> SUBSET Category]
    /\ cached \in [Msg -> SUBSET Category]
    /\ ext \in [Msg -> [po : BOOLEAN, data : {"none", "partial", "numbered"},
                        pay : PayStatus, recent : BOOLEAN]]
    /\ followup \in [Msg -> {"none", "pending", "due"}]
    /\ erp \in [Msg -> [voucher : InERP, agrees : BOOLEAN]]
    /\ proc \in [Procs -> [pc : PCs, op : Ops, msg : Msg \cup {NoMsg},
                           read : SUBSET Category, list : SUBSET Category,
                           info : PayStatus, todo : SUBSET Msg]]
    /\ changed \subseteq Msg
    /\ batch \subseteq Msg \X SUBSET Category
    /\ spent \in [requests : 0..MaxRequests, faults : 0..MaxFaults, erp : 0..MaxErp,
                  edits : 0..MaxEdits]

\* A tagged message keeps exactly one status, in Outlook, in the cache and in
\* every list on its way there: without one the worker would take it for new
\* mail, with two each reader would pick another.
OneStatus ==
    LET one(cats) == Cardinality(StatusOf(cats)) = 1
    IN /\ \A m \in Msg : one(outlook[m]) /\ one(cached[m])
       /\ \A p \in Procs : proc[p].pc \in {"patch", "update"} => one(proc[p].list)
       /\ \A e \in batch : one(e[2])

\* What an operation is there to change.
Decides(op) ==
    CASE op = "claim" -> {"Owner"}
      [] op = "clear-kind" -> {"Kind"}
      [] op \in {"status", "manual", "voucher", "reconcile"} -> {"Status"}
      [] op \in {"blocker", "blocked", "resurface"} -> {"Status", "Blocker"}
      [] op \in {"pickup", "assign"} -> {"Status", "Owner"}
      [] op \in {"hold", "close"} -> {"Status", "Blocker", "Owner"}
      [] OTHER -> {}

\* Writing whole lists, the processes do overwrite one another and the hands of
\* others; but a category goes from Outlook, or comes back, by one that does
\* not decide about it only if that process had read the message, in Outlook
\* or in the cache, before the category came or went.
LostOnlyByRace ==
    [][\A m \in Msg : \A c \in Category :
          (c \in outlook[m]) # (c \in outlook'[m]) =>
              \/ OthersEdit(m)
              \/ \E p \in Procs :
                    /\ proc[p].pc = "patch" /\ proc[p].msg = m /\ proc'[p] # proc[p]
                    /\ \/ c[1] \in Decides(proc[p].op)
                       \/ (c \in proc[p].read) = (c \in outlook'[m])]_vars

\* (dispatch-web's comment) A Won't Pay a clerk set is not auto-cleared.
\* Refuted: the recheck strips every blocker when the numbers come to agree.
WontPayKept ==
    [][\A m \in Msg :
          <<"Blocker", "Won't Pay">> \in outlook[m] \ outlook'[m] =>
              \E c \in Clerks : proc[c].pc = "patch"]_vars

Queued(m) == <<"Status", "New">> \in outlook[m] /\ Blockers(outlook[m]) = {}

\* Process p is at one of the given steps with message m.
AtWork(p, m, pcs) == proc[p].msg = m /\ proc[p].pc \in pcs

\* A message whose deadline has passed comes back into the queue, also when
\* the PATCH or the statements fail at first; unless a clerk has meanwhile
\* picked it up, closed it or held it anew, or the sweeper could not read it
\* and gives it up.  And the deadline goes.
DueIsServed ==
    \A m \in Msg :
        /\ (followup[m] = "due" /\ ~AtWork("sweep", m, {"update", "clear"})) ~>
              \/ Queued(m)
              \/ \E c \in Clerks : AtWork(c, m, {"clear", "stamp"})
              \/ AtWork("sweep", m, {"give-up"})
        /\ (followup[m] = "due") ~> (followup[m] # "due")


\* The voucher decides about Done: a message whose voucher stays posted ends
\* as Done in the cache that the queues show, one whose voucher stays
\* unposted does not, whatever clerks, deadlines and rechecks did before.
VoucherDecides ==
    \A m \in Msg :
        /\ <>[](erp[m].voucher = "posted" /\ HasInvoice(m))
              => <>[]hasStatusDoneCategory(cached[m])
        /\ <>[](erp[m].voucher = "unposted" /\ HasInvoice(m))
              => <>[](~hasStatusDoneCategory(cached[m]))

===========================================================================
