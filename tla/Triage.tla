-------------------------------- MODULE Triage --------------------------------
(***************************************************************************)
(* How a piece of mail gets its vendor, its kind and its purchase order,   *)
(* and where clerks then find it: the decisions of processMessage, with    *)
(* the sender lookup (Resolver), what a message inherits from its          *)
(* conversation (GetConversationPrior), the lookups in the ERP, and the    *)
(* lists of dispatch-web (Queue).                                          *)
(*                                                                         *)
(* Worker models how processMessage races with everything else and leaves  *)
(* open what it decides; here its decisions are modelled and each run of   *)
(* it is one step.                                                         *)
(***************************************************************************)
EXTENDS Resolver, Queue, SequencesExt

CONSTANTS
    Msg,        \* messages of the mailbox
    Received,   \* [Msg -> Nat]: the day each came in
    Today,      \* the day of the lists
    Limit,      \* how many messages a list reads
    Mails,      \* the mails considered, among Mail
    Books,      \* the address books considered
    PO,         \* purchase order numbers a mail can mention
    VendorOfPO, \* [known PO numbers -> vendors]: the ERP
    NoPO,       \* no purchase order
    LookupsFail,    \* can a lookup in the ERP fail?
    ClerkBlockers,  \* blockers clerks set
    MaxEdits    \* bound: writes by clerks

KnownPOs == DOMAIN VendorOfPO

\* What processMessage reads of a message: the sender, the numbers it finds
\* in subject and preview, those in the attachments, and the kind the
\* deterministic rules give (none when no rule fires).
Mail == [sender : Address \cup {NoDomain}, conv : STRING, pos : Seq(PO),
         attached : BOOLEAN, pdfPOs : Seq(PO), rule : {{}} \cup {{k} : k \in MailKinds}]

ASSUME TriageAssumption ==
    /\ Received \in [Msg -> 0..Today]
    /\ \A m, n \in Msg : Received[m] = Received[n] => m = n
    /\ KnownPOs \subseteq PO
    /\ NoPO \notin PO
    /\ Mails \subseteq Mail
    /\ IsFiniteSet(VendorIds)
    /\ \A b \in Books :
         /\ \A a \in DOMAIN b.emails : b.emails[a] \in VendorIds
         /\ \A d \in DOMAIN b.domains : b.domains[d] \subseteq VendorIds
    /\ MailKinds \cap {"Automation", "Internal"} = {}
    /\ VendorIds \cup {"Unknown"} \cup {Label[b] : b \in Bases} \subseteq Vendors
    /\ \A po \in KnownPOs : VendorOfPO[po] \in Vendors \ {"Unknown"}
    /\ ClerkBlockers \subseteq BlockerOptions
    /\ MaxEdits \in Nat

VARIABLES
    book,       \* the address book of this process
    mail,       \* the messages
    cats,       \* Graph: their categories
    cached,     \* their categories in the cache; the untagged list before a sync
    known,      \* messages the cache has
    extracted,  \* the PO of each message's extraction row, or NoPO
    job,        \* the PO the extract pool is to work with, or NoPO
    failed,     \* history: PO numbers whose lookup failed during the triage
    edits       \* counter for the bound

vars == <<book, mail, cats, cached, known, extracted, job, failed, edits>>

Init ==
    /\ book \in Books
    /\ mail \in [Msg -> Mails]
    /\ cats = [m \in Msg |-> {}]
    /\ cached = [m \in Msg |-> {}]
    /\ known = {}
    /\ extracted = [m \in Msg |-> NoPO]
    /\ job = [m \in Msg |-> NoPO]
    /\ failed = [m \in Msg |-> {}]
    /\ edits = 0

-----------------------------------------------------------------------------
(* What a message inherits. *)

\* Mutant: the conversation is left out of the query.
SiblingsAnywhere(m) == known \ {m}

Siblings(m) ==
    {n \in known \ {m} : mail[n].conv = mail[m].conv /\ mail[m].conv # NoConv}

Latest(msgs) == {n \in msgs : \A o \in msgs : Received[o] <= Received[n]}

\* GetConversationPrior: the vendor of the newest sibling that has any, and
\* the PO of the newest that has an extraction row with one.  Both come from
\* the cache.  The kind is read there too, and nobody uses it.
PriorVendor(m) ==
    {c[2] : c \in {d \in UNION {cached[n] : n \in
        Latest({o \in Siblings(m) : hasVendor(cached[o])})} : d[1] = "Vendor"}}

PriorPoNo(m) ==
    {extracted[n] : n \in Latest({o \in Siblings(m) : extracted[o] # NoPO})}

-----------------------------------------------------------------------------
(* The decisions of processMessage. *)

isInternal(m) == Classify(mail[m].sender) = "internal"

\* The vendor before any PO is looked up.
SenderVendor(m) ==
    LET match == IF isInternal(m) THEN Unknown ELSE Resolve(book, mail[m].sender)
    IN IF match.vendor = "Unknown" /\ PriorVendor(m) # {}
       THEN CHOOSE v \in PriorVendor(m) : TRUE
       ELSE match.vendor

\* The PO numbers of the ERP that a triage may look up.
Mentioned(m) ==
    KnownPOs \cap (Range(mail[m].pos) \cup Range(mail[m].pdfPOs) \cup PriorPoNo(m))

\* filterPOsValidInERP: what is kept of the first k candidates, for all of them.
Valid(pos, down) ==
    LET out[k \in 0 .. Len(pos)] ==
            IF k = 0 THEN <<>>
            ELSE IF pos[k] \in KnownPOs \ down THEN Append(out[k - 1], pos[k])
                 ELSE out[k - 1]
    IN out[Len(pos)]

\* The candidates: those of subject and preview, else the one of the thread,
\* else what the attachments hold and the ERP confirms, or nothing when they
\* cannot be read.  A number that is confirmed may still fail when it is
\* looked up again for its vendor.
PoNos(m, down) ==
    IF mail[m].pos # <<>> THEN {mail[m].pos}
    ELSE IF PriorPoNo(m) # {} THEN {<<po>> : po \in PriorPoNo(m)}
    ELSE {<<>>} \cup (IF mail[m].attached
                     THEN {Valid(mail[m].pdfPOs, first) : first \in SUBSET down} ELSE {})

\* The first candidate the ERP knows decides; one it does not know, or whose
\* lookup fails, is passed over.
Answered(poNos, down) == {i \in DOMAIN poNos : poNos[i] \in KnownPOs \ down}

\* Mutant: a PO refines a vendor, and gives none where there was none.
POVendorOfTagged(poNos, down, vendor) ==
    IF Answered(poNos, down) = {} \/ vendor = "Unknown" THEN vendor
    ELSE VendorOfPO[poNos[Min(Answered(poNos, down))]]

\* Mutant: the vendor comes from the last candidate the ERP knows.
POVendorOfLast(poNos, down, vendor) ==
    IF Answered(poNos, down) = {} THEN vendor
    ELSE VendorOfPO[poNos[Max(Answered(poNos, down))]]

\* The vendor of that PO overrides the sender's.
POVendor(poNos, down, vendor) ==
    IF Answered(poNos, down) = {} THEN vendor
    ELSE VendorOfPO[poNos[Min(Answered(poNos, down))]]

\* Mutant: the model's answer is taken as it comes.
KindsOfRaw(m) ==
    IF isInternal(m) THEN {{}}
    ELSE IF mail[m].rule # {} THEN {mail[m].rule}
    ELSE {{}} \cup {{k} : k \in MailKinds \cup {"an invoice, I think"}}

\* The rules first, then the model, which may fail or be switched off.  Mail
\* of colleagues gets no kind.
KindsOf(m) ==
    IF isInternal(m) THEN {{}}
    ELSE IF mail[m].rule # {} THEN {mail[m].rule}
    ELSE {{}} \cup {{k} : k \in MailKinds}

\* The mail of relays, carriers and banks, and a colleague's mail without
\* vendor, is closed.
Skip(m, kind) ==
    /\ cats' = [cats EXCEPT ![m] = skipCategories(cats[m], kind)]
    /\ UNCHANGED job

\* The first candidate goes to the extract pool, also when the vendor comes
\* from a later one.
HandOff(m, poNos) ==
    job' = IF poNos # <<>> /\ mail[m].attached /\ extracted[m] = NoPO
           THEN [job EXCEPT ![m] = Head(poNos)] ELSE job

ProcessMessage(m) ==
    /\ ~hasStatus(cats[m])
    /\ \E down \in IF LookupsFail THEN SUBSET Mentioned(m) ELSE {{}} :
       /\ failed' = [failed EXCEPT ![m] = down]
       /\ IF Classify(mail[m].sender) \in {"relay", "logistics", "bank"}
          THEN Skip(m, "Automation")
          ELSE \E poNos \in PoNos(m, down) :
            LET vendor == POVendor(poNos, down, SenderVendor(m)) IN
            IF isInternal(m) /\ vendor = "Unknown"
            THEN Skip(m, "Internal")
            ELSE \E kind \in KindsOf(m) :
                /\ cats' = [cats EXCEPT ![m] = mergeCategories(cats[m], vendor, {}, kind)]
                /\ HandOff(m, poNos)
    /\ UNCHANGED <<book, mail, cached, known, extracted, edits>>

\* The extract pool stores a row with the PO of the job, whatever the verdict.
StoreExtraction(m) ==
    /\ job[m] # NoPO
    /\ extracted' = [extracted EXCEPT ![m] = job[m]]
    /\ job' = [job EXCEPT ![m] = NoPO]
    /\ UNCHANGED <<book, mail, cats, cached, known, failed, edits>>

\* dispatch-web syncs the message.
Sync(m) ==
    /\ known' = known \cup {m}
    /\ cached' = [cached EXCEPT ![m] = cats[m]]
    /\ UNCHANGED <<book, mail, cats, extracted, job, failed, edits>>

\* A clerk claims or releases the message, or sets or clears a blocker, on
\* the list Graph has, and the cached copy follows.
Edit(m) ==
    /\ m \in known
    /\ edits < MaxEdits
    /\ \E owner \in Owners, name \in ClerkBlockers :
        \E new \in {ReplaceOwner(cats[m], {owner} \ ownerFrom(cats[m])),
                    ToggleBlocker(cats[m], name)} :
            /\ cats' = [cats EXCEPT ![m] = new]
            /\ cached' = [cached EXCEPT ![m] = new]
    /\ edits' = edits + 1
    /\ UNCHANGED <<book, mail, known, extracted, job, failed>>

Next ==
    \E m \in Msg : ProcessMessage(m) \/ StoreExtraction(m) \/ Sync(m) \/ Edit(m)

Spec == Init /\ [][Next]_vars

-----------------------------------------------------------------------------
(* Properties. *)

\* Every variable keeps its type, and a message is handed over with a number
\* it mentions or inherits (processMessage, poNos[0]).
TypeOK ==
    /\ book \in Books
    /\ mail \in [Msg -> Mails]
    /\ cats \in [Msg -> SUBSET Category]
    /\ cached \in [Msg -> SUBSET Category]
    /\ known \subseteq Msg
    /\ extracted \in [Msg -> PO \cup {NoPO}]
    /\ job \in [Msg -> PO \cup {NoPO}]
    /\ failed \in [Msg -> SUBSET PO]
    /\ edits \in 0..MaxEdits

\* A message that took its vendor from a domain or a name took it from a
\* vendor no other vendor of the address book rivals: neither domains shared
\* by sub-accounts nor common words make the worker guess (Resolve, Load).
NeverGuesses ==
    \A a \in Address :
        LET match == Resolve(book, a)
            rivals == VendorIds \ {match.vendor}
        IN /\ match.type = "domain" => rivals \cap Candidates(book, a.at) = {}
           /\ match.type = "stem" =>
                rivals \cap Candidates(book, stripMailPrefix(a.at)) = {}
           /\ match.type = "name" => rivals \cap Bearers(book, Label[a.at.base]) = {}
           /\ match.type = "unknown" => byEmail(book, a) = {}

Thread(m) == {n \in Msg : n = m \/ (mail[n].conv = mail[m].conv /\ mail[m].conv # NoConv)}

\* What a mail itself says about its vendor.
Evidence(n) ==
    (IF isInternal(n) THEN {} ELSE {Resolve(book, mail[n].sender).vendor})
    \cup {VendorOfPO[po] : po \in KnownPOs \cap (Range(mail[n].pos) \cup Range(mail[n].pdfPOs))}

\* However vendors and PO numbers are passed on from message to message, a
\* vendor tag goes back to the sender or to a PO of some message of the same
\* conversation (processMessage, GetConversationPrior).
VendorHasSource ==
    \A m \in Msg : \A c \in cats[m] :
        c[1] = "Vendor" /\ c[2] # "Unknown" => c[2] \in UNION {Evidence(n) : n \in Thread(m)}

\* The invoice is compared with a PO of the vendor the message is tagged with,
\* unless the ERP does not know the first candidate or failed to answer for it
\* (processMessage tags from the first PO that is found and hands over poNos[0]).
JobIsOfTaggedVendor ==
    \A m \in Msg : \A po \in {job[m], extracted[m]} \ {NoPO} :
        po \in KnownPOs \ failed[m] => <<"Vendor", VendorOfPO[po]>> \in cats[m]

\* A colleague's mail is closed as internal chatter only when no PO its subject
\* or preview mentions is in the ERP, or the ERP did not answer for it.
ClosedOnlyWithoutPO ==
    \A m \in Msg : <<"Kind", "Internal">> \in cats[m] =>
        Range(mail[m].pos) \cap KnownPOs \subseteq failed[m]

View(m) ==
    [id |-> m, conv |-> mail[m].conv, internal |-> isInternal(m), received |-> Received[m],
     cats |-> cached[m], payStatus |-> "",
     row |-> IF extracted[m] = NoPO THEN NoRow
             ELSE StoreInvoiceExtraction(NoRow, "vision", "clean", FALSE)]

Rows == fetchMessages({View(m) : m \in known}, Limit)

Piles(v) == {tab \in APTabs : \E user \in Owners : InTab(v, tab, user, Today)}

\* Once the worker has tagged an external message of a kind that is not hidden,
\* its row is in exactly one of the accounts-payable tabs until it is closed,
\* whoever claims, holds or releases it; no row is ever in two (applyAPFilter).
EachInOnePile ==
    \A v \in Rows :
        /\ Cardinality(Piles(v)) <= 1
        /\ /\ hasVendor(v.cats)
           /\ mail[v.id].rule \ HideByDefaultKinds # {}
           /\ ~v.internal
           /\ ~hasStatusDoneCategory(v.cats)
           => Piles(v) # {}

=============================================================================
