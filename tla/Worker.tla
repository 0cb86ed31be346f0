------------------------------- MODULE Worker -------------------------------
(***************************************************************************)
(* dispatch-worker: one pass loop (main), a pool of sort workers that tag  *)
(* new mail, a pool of extract workers that read invoices, a pool of       *)
(* fallback workers that rerun poor verdicts on a slow model, and the two  *)
(* bounded channels between them.  The processes share the categories in   *)
(* Graph, the invoice_extractions rows and the PDF cooldown table; clerks  *)
(* write the categories too.  Every action stands for one access to that   *)
(* shared state, with the local computation around it.                     *)
(***************************************************************************)
EXTENDS Categories, Extractions, Sequences

CONSTANTS
    Msg, NoMsg,     \* messages of the mailbox, and a value that is none
    Class,          \* [Msg -> Classes]: what the sort pool makes of each
    Pdf, PdfOf,     \* PDF contents, and [Msg -> Pdf]
    Sorters, Extractors, Fallbackers,   \* the goroutines of the three pools
    ExtractCap, FallbackCap,            \* capacities of the two channels
    Results,        \* the verify results considered, among VerifyResults
    HasPaddle,      \* is the OCR endpoint configured
    LoopMode,       \* does the worker poll until its backlog is empty
    Synced,         \* messages dispatch-web syncs (none while it is down)
    ClerkStatuses,  \* statuses clerks pick
    Faults,         \* the faults considered, among FaultKinds
    MaxEdits,       \* bound: writes by clerks
    MaxCrashes      \* bound: crashes of the worker

Classes ==
    {"nosender",    \* no sender address
     "automation",  \* relay, logistics or bank sender
     "internal",    \* a colleague's mail with an attachment
     "mail",        \* external mail without attachment
     "invoice",     \* external mail, attachment, PO number in plain sight
     "scanned"}     \* external mail, attachment, PO number in the PDF or thread

FaultKinds ==
    {"read",    \* a read of the cache fails (busy, deadline)
     "write",   \* a write to the cache fails
     "graph",   \* a Graph call fails
     "answer",  \* a Graph PATCH takes effect, and its answer is lost
     "gone",    \* a message leaves the inbox (deleted or moved by a person)
     "crash"}   \* the process dies and systemd starts it again

ASSUME WorkerAssumption ==
    /\ NoMsg \notin Msg
    /\ Class \in [Msg -> Classes]
    /\ PdfOf \in [Msg -> Pdf]
    /\ Extractors \cap Fallbackers = {}
    /\ ExtractCap \in Nat /\ FallbackCap \in Nat
    /\ Results \subseteq VerifyResults
    /\ HasPaddle \in BOOLEAN /\ LoopMode \in BOOLEAN
    /\ Synced \subseteq Msg
    /\ ClerkStatuses \subseteq Statuses
    /\ Faults \subseteq FaultKinds
    /\ MaxEdits \in Nat /\ MaxCrashes \in Nat

VARIABLES
    cats,       \* Graph: the categories of each message
    where,      \* Graph: "future", "inbox" or "gone"
    cached,     \* web cache: "absent", "untagged" or "tagged" (has a Status)
    row,        \* invoice_extractions
    cooldown,   \* PDFs whose tier-4 cooldown runs
    phase,      \* where the pass loop is
    listed,     \* messages of this pass no sort worker has taken yet
    sorter,     \* state of each sort worker
    toRescan,   \* rescan ids of this pass not walked yet
    rescan,     \* the rescan id being walked
    extractQ, fallbackQ,    \* the channels extractJobs and fallbackJobs
    proc,       \* state of each extract and fallback worker
    clerk,      \* the category change a clerk request is making
    edits, crashes          \* counters for the bounds

graphVars  == <<cats, where>>
cacheVars  == <<cached, row, cooldown>>
queueVars  == <<extractQ, fallbackQ>>
mainVars   == <<phase, listed, toRescan, rescan>>
clerkVars  == <<clerk, edits>>
vars == <<graphVars, cacheVars, queueVars, mainVars, sorter, proc, clerkVars, crashes>>

-----------------------------------------------------------------------------
(* State space. *)

Procs == Extractors \cup Fallbackers

HasFallback == Fallbackers # {}

ListedMsg  == [m : Msg, cats : SUBSET Category]
ExtractJob == [m : Msg, cats : SUBSET Category, minTier : 0..topExtractionTier]
FallbackJob == [m : Msg, cats : SUBSET Category,
                primary : Results \cup {"error", "none"}]

\* A sort worker looks at a message, then skips or tags it; after a skip it
\* marks the row, after a tag it looks for a row and hands the message over.
Sorter == [pc : {"idle", "look", "mark", "has", "handoff"},
           m : Msg \cup {NoMsg}, cats : SUBSET Category]
IdleSorter == [pc |-> "idle", m |-> NoMsg, cats |-> {}]

\* The rescan pass reads the row of an id, then acts on its tier.
Rescan == [pc : {"next", "act", "send"}, m : Msg \cup {NoMsg},
           cats : SUBSET Category, tier : 0..(topExtractionTier + 1)]
NoRescan == [pc |-> "next", m |-> NoMsg, cats |-> {}, tier |-> 0]

\* v is the verify result at hand ("none" before there is one, "error" after
\* a failed call, "open" for an open-ended extraction).
ProcSteps == {"idle", "start", "check4", "send4", "vision", "check", "send",
              "verify", "store", "recon", "block", "fail", "cool"}
Proc == [pc : ProcSteps, m : Msg \cup {NoMsg}, cats : SUBSET Category,
         minTier : 0..topExtractionTier,
         v : Results \cup {"none", "error", "open"}, model : VerdictModels]

\* The verdicts a worker may hold when it is about to take a step.
VerdictsAt(pc) ==
    CASE pc = "store" -> Results \cup {"open"}
      [] pc \in {"recon", "block"} -> Results
      [] pc \in {"check", "send"} -> Results \cup {"error"}
      [] pc = "verify" -> Results \cup {"error", "none"}
      [] OTHER -> Results \cup {"none", "error", "open"}
IdleProc == [pc |-> "idle", m |-> NoMsg, cats |-> {}, minTier |-> 0,
             v |-> "none", model |-> "vision"]

\* A worker that has taken a job.
Holding(pc, job, minTier, v) ==
    [pc |-> pc, m |-> job.m, cats |-> job.cats, minTier |-> minTier,
     v |-> v, model |-> "vision"]

Clerk == [pc : {"idle", "write"}, m : Msg \cup {NoMsg}, cats : SUBSET Category]

NoClerk == [pc |-> "idle", m |-> NoMsg, cats |-> {}]

Init ==
    /\ cats = [m \in Msg |-> {}]
    /\ where \in [Msg -> {"future", "inbox"}]
    /\ cached = [m \in Msg |-> "absent"]
    /\ row = [m \in Msg |-> NoRow]
    /\ cooldown = {}
    /\ phase = "boot"
    /\ listed = {}
    /\ sorter = [s \in Sorters |-> IdleSorter]
    /\ toRescan = {}
    /\ rescan = NoRescan
    /\ extractQ = <<>>
    /\ fallbackQ = <<>>
    /\ proc = [p \in Procs |-> IdleProc]
    /\ clerk = NoClerk
    /\ edits = 0
    /\ crashes = 0

-----------------------------------------------------------------------------
(* Shared state. *)

\* GetMessage, ListAttachments and SetCategories of a message.
GraphAnswers(m) == where[m] = "inbox"
AnswerLost == "answer" \in Faults
GraphFails(m) == where[m] = "gone" \/ "graph" \in Faults

\* SetCategories replaces the whole list.
SetCategories(m, new) ==
    /\ GraphAnswers(m)
    /\ cats' = [cats EXCEPT ![m] = new]

\* A statement on the row of m, with the row it leaves.
WriteRow(m, new) == row' = [row EXCEPT ![m] = new]

\* Is there room in a channel, for a sender that does not wait?
HasRoomOffByOne(q, cap) == Len(q) <= cap    \* mutant
HasRoom(q, cap) == Len(q) < cap

ReadFails == "read" \in Faults
WriteFails == "write" \in Faults

-----------------------------------------------------------------------------
(* The sort pool: processMessage.  Finding a vendor and a PO reads the mail, *)
(* the thread, the PDF, the ERP and the models, and changes nothing shared:  *)
(* the class of a message says what these lookups can come to.               *)

SortOutcomes(class) ==
    CASE class = "automation" -> {"skip"}
      [] class = "internal" -> {"skip", "plain", "extract"}
      [] class = "mail" -> {"plain"}
      [] class = "invoice" -> {"extract"}
      [] class = "scanned" -> {"plain", "extract"}
      [] OTHER -> {}

skipKind(class) == IF class = "automation" THEN "Automation" ELSE "Internal"

\* A worker takes a message of this pass.  Without a sender, or with a
\* status on the list that was fetched, there is nothing to do.
SortTake(s) ==
    /\ phase = "sort"
    /\ sorter[s].pc = "idle"
    /\ \E j \in listed :
        /\ listed' = listed \ {j}
        /\ IF Class[j.m] = "nosender" \/ hasStatus(j.cats)
           THEN UNCHANGED sorter
           ELSE sorter' = [sorter EXCEPT ![s] = [pc |-> "look", m |-> j.m, cats |-> j.cats]]
    /\ UNCHANGED <<graphVars, cacheVars, queueVars, phase, toRescan, rescan, proc,
                   clerkVars, crashes>>

\* markSkipDone: the tag is best effort, the row is marked anyway.
SortSkip(s) ==
    LET m == sorter[s].m IN
    /\ sorter[s].pc = "look"
    /\ "skip" \in SortOutcomes(Class[m])
    /\ \/ SetCategories(m, skipCategories(sorter[s].cats, skipKind(Class[m])))
       \/ GraphFails(m) /\ UNCHANGED cats
    /\ sorter' = [sorter EXCEPT ![s].pc = "mark"]
    /\ UNCHANGED <<where, cacheVars, queueVars, mainVars, proc, clerkVars, crashes>>

SortMark(s) ==
    LET m == sorter[s].m IN
    /\ sorter[s].pc = "mark"
    /\ \/ WriteRow(m, MarkSkipExtraction(row[m]))
       \/ WriteFails /\ UNCHANGED row
    /\ sorter' = [sorter EXCEPT ![s] = IdleSorter]
    /\ UNCHANGED <<graphVars, cached, cooldown, queueVars, mainVars, proc, clerkVars, crashes>>

\* The tag of a message that is not skipped.  Without an extraction to do
\* the message is finished here.
SortTags(s) ==
    {mergeCategories(sorter[s].cats, vendor, buyer, kind) :
        vendor \in Vendors,
        buyer \in {{}} \cup {{b} : b \in Buyers},
        kind \in {{}} \cup {{k} : k \in MailKinds}}

SortTag(s) ==
    LET m == sorter[s].m IN
    /\ sorter[s].pc = "look"
    /\ \E outcome \in SortOutcomes(Class[m]) \ {"skip"}, new \in SortTags(s) :
        /\ SetCategories(m, new)
        /\ sorter' = [sorter EXCEPT ![s] =
               IF outcome = "extract" THEN [pc |-> "has", m |-> m, cats |-> new]
               ELSE IdleSorter]
    /\ UNCHANGED <<where, cacheVars, queueVars, mainVars, proc, clerkVars, crashes>>

\* The PATCH came back with an error: the message is left to a later pass.
SortTagFails(s) ==
    LET m == sorter[s].m IN
    /\ sorter[s].pc = "look"
    /\ SortOutcomes(Class[m]) # {"skip"}
    /\ \/ GraphFails(m) /\ UNCHANGED cats
       \/ AnswerLost /\ \E new \in SortTags(s) : SetCategories(m, new)
    /\ sorter' = [sorter EXCEPT ![s] = IdleSorter]
    /\ UNCHANGED <<where, cacheVars, queueVars, mainVars, proc, clerkVars, crashes>>

\* HasInvoiceExtraction: a failed read counts as "no row".
SortHas(s) ==
    /\ sorter[s].pc = "has"
    /\ \/ /\ HasInvoiceExtraction(row[sorter[s].m])
          /\ sorter' = [sorter EXCEPT ![s] = IdleSorter]
       \/ /\ HasInvoiceExtraction(row[sorter[s].m]) => ReadFails
          /\ sorter' = [sorter EXCEPT ![s].pc = "handoff"]
    /\ UNCHANGED <<graphVars, cacheVars, queueVars, mainVars, proc, clerkVars, crashes>>

\* The hand-off never blocks: when the channel is full, a stub row leaves the
\* message to the rescan pass.
SortHandOff(s) ==
    LET m == sorter[s].m IN
    /\ sorter[s].pc = "handoff"
    /\ IF HasRoom(extractQ, ExtractCap)
       THEN /\ extractQ' = Append(extractQ, [m |-> m, cats |-> sorter[s].cats, minTier |-> 0])
            /\ UNCHANGED row
       ELSE /\ \/ WriteRow(m, StubExtractionForRescan(row[m]))
               \/ WriteFails /\ UNCHANGED row
            /\ UNCHANGED extractQ
    /\ sorter' = [sorter EXCEPT ![s] = IdleSorter]
    /\ UNCHANGED <<graphVars, cached, cooldown, fallbackQ, mainVars, proc, clerkVars, crashes>>

SortStep(s) ==
    \/ SortTake(s) \/ SortSkip(s) \/ SortMark(s) \/ SortTag(s)
    \/ SortTagFails(s) \/ SortHas(s) \/ SortHandOff(s)

-----------------------------------------------------------------------------
(* The extract pool: extractInvoice, verifyInvoice and openExtract. *)

GoTo(p, pc) == proc' = [proc EXCEPT ![p].pc = pc]

Finish(p) == proc' = [proc EXCEPT ![p] = IdleProc]

\* processExtractionResult is about to store result v under a model tag.
GoStore(p, v, model) ==
    proc' = [proc EXCEPT ![p].pc = "store", ![p].v = v, ![p].model = model]

ExtractTake(e) ==
    /\ proc[e].pc = "idle"
    /\ extractQ # <<>>
    /\ extractQ' = Tail(extractQ)
    /\ proc' = [proc EXCEPT ![e] =
           Holding("start", Head(extractQ), Head(extractQ).minTier, "none")]
    /\ UNCHANGED <<graphVars, cacheVars, fallbackQ, mainVars, sorter, clerkVars, crashes>>

\* The tiers that read text and that minTier still allows.
TextModels(minTier) ==
    (IF minTier <= 1 THEN {"pdftotext"} ELSE {})
    \cup (IF minTier <= 2 /\ HasPaddle THEN {"paddle-ocr"} ELSE {})

\* The attachments cannot be listed, none is a usable PDF, the page cannot
\* be rendered, or the open-ended vision call fails: an error row follows.
ExtractUnreadable(e) ==
    /\ proc[e].pc = "start"
    /\ GoTo(e, "fail")
    /\ UNCHANGED <<graphVars, cacheVars, queueVars, mainVars, sorter, clerkVars, crashes>>

\* The ERP has no lines for the PO: an open-ended extraction, from text when
\* a text tier gives lines and from the image otherwise.
ExtractOpen(e) ==
    /\ proc[e].pc = "start"
    /\ GraphAnswers(proc[e].m)
    /\ \E model \in TextModels(proc[e].minTier) \cup {"vision"} : GoStore(e, "open", model)
    /\ UNCHANGED <<graphVars, cacheVars, queueVars, mainVars, sorter, clerkVars, crashes>>

\* The verify call on the text of the PDF is good enough to finish with.
ExtractText(e) ==
    /\ proc[e].pc = "start"
    /\ GraphAnswers(proc[e].m)
    /\ \E model \in TextModels(proc[e].minTier), v \in Results :
        /\ ~shouldEscalateVerify(v)
        /\ GoStore(e, v, model)
    /\ UNCHANGED <<graphVars, cacheVars, queueVars, mainVars, sorter, clerkVars, crashes>>

\* Text gave nothing good enough: the primary vision model, or straight to
\* the fallback when the rescan asks for tier 4.
ExtractNoText(e) ==
    /\ proc[e].pc = "start"
    /\ GraphAnswers(proc[e].m)
    /\ GoTo(e, IF proc[e].minTier >= topExtractionTier /\ HasFallback
               THEN "check4" ELSE "vision")
    /\ UNCHANGED <<graphVars, cacheVars, queueVars, mainVars, sorter, clerkVars, crashes>>

\* CheckPDFCooldown: a failed read counts as "not cooling down".
CoolingDown(m) == PdfOf[m] \in cooldown
NotCoolingDown(m) == PdfOf[m] \notin cooldown \/ ReadFails

ExtractCheck4(e) ==
    /\ proc[e].pc = "check4"
    /\ \/ CoolingDown(proc[e].m) /\ GoTo(e, "cool")
       \/ NotCoolingDown(proc[e].m) /\ GoTo(e, "send4")
    /\ UNCHANGED <<graphVars, cacheVars, queueVars, mainVars, sorter, clerkVars, crashes>>

FallbackJobOf(p, primary) == [m |-> proc[p].m, cats |-> proc[p].cats, primary |-> primary]

\* The send never blocks: with a full channel the primary model runs again.
ExtractSend4(e) ==
    /\ proc[e].pc = "send4"
    /\ IF HasRoom(fallbackQ, FallbackCap)
       THEN /\ fallbackQ' = Append(fallbackQ, FallbackJobOf(e, "none"))
            /\ Finish(e)
       ELSE /\ GoTo(e, "vision")
            /\ UNCHANGED fallbackQ
    /\ UNCHANGED <<graphVars, cacheVars, extractQ, mainVars, sorter, clerkVars, crashes>>

\* The primary vision model: escalate, give up, or finish with its verdict.
ExtractVision(e) ==
    /\ proc[e].pc = "vision"
    /\ \E v \in Results \cup {"error"} :
        IF shouldEscalateVerify(v) /\ HasFallback
        THEN proc' = [proc EXCEPT ![e].pc = "check", ![e].v = v]
        ELSE IF v = "error" THEN GoTo(e, "fail")
        ELSE GoStore(e, v, "vision")
    /\ UNCHANGED <<graphVars, cacheVars, queueVars, mainVars, sorter, clerkVars, crashes>>

\* Mutant: while the PDF cools down, a primary that failed runs once more.
ExtractCheckRetries(e) ==
    /\ proc[e].pc = "check"
    /\ \/ /\ CoolingDown(proc[e].m)
          /\ IF proc[e].v = "error" THEN GoTo(e, "vision")
             ELSE GoStore(e, proc[e].v, "kept")
       \/ NotCoolingDown(proc[e].m) /\ GoTo(e, "send")
    /\ UNCHANGED <<graphVars, cacheVars, queueVars, mainVars, sorter, clerkVars, crashes>>

\* While the PDF cools down the primary verdict stands, if there is one.
ExtractCheck(e) ==
    /\ proc[e].pc = "check"
    /\ \/ /\ CoolingDown(proc[e].m)
          /\ IF proc[e].v = "error" THEN GoTo(e, "cool")
             ELSE GoStore(e, proc[e].v, "kept")
       \/ NotCoolingDown(proc[e].m) /\ GoTo(e, "send")
    /\ UNCHANGED <<graphVars, cacheVars, queueVars, mainVars, sorter, clerkVars, crashes>>

\* Mutant: the primary result is processed inline although it was escalated.
ExtractSendGoesOn(e) ==
    /\ proc[e].pc = "send"
    /\ fallbackQ' = IF HasRoom(fallbackQ, FallbackCap)
                    THEN Append(fallbackQ, FallbackJobOf(e, proc[e].v)) ELSE fallbackQ
    /\ IF proc[e].v = "error" THEN GoTo(e, "fail")
       ELSE GoStore(e, proc[e].v, "vision")
    /\ UNCHANGED <<graphVars, cacheVars, extractQ, mainVars, sorter, clerkVars, crashes>>

\* Escalate; with a full channel the primary result is processed inline.
ExtractSend(e) ==
    /\ proc[e].pc = "send"
    /\ IF HasRoom(fallbackQ, FallbackCap)
       THEN /\ fallbackQ' = Append(fallbackQ, FallbackJobOf(e, proc[e].v))
            /\ Finish(e)
       ELSE /\ IF proc[e].v = "error" THEN GoTo(e, "fail")
               ELSE GoStore(e, proc[e].v, "vision")
            /\ UNCHANGED fallbackQ
    /\ UNCHANGED <<graphVars, cacheVars, extractQ, mainVars, sorter, clerkVars, crashes>>

ExtractStep(e) ==
    \/ ExtractTake(e) \/ ExtractUnreadable(e) \/ ExtractOpen(e) \/ ExtractText(e)
    \/ ExtractNoText(e) \/ ExtractCheck4(e) \/ ExtractSend4(e) \/ ExtractVision(e)
    \/ ExtractCheck(e) \/ ExtractSend(e)

-----------------------------------------------------------------------------
(* The fallback pool: processFallbackJob. *)

FallbackTake(f) ==
    /\ proc[f].pc = "idle"
    /\ fallbackQ # <<>>
    /\ fallbackQ' = Tail(fallbackQ)
    /\ proc' = [proc EXCEPT ![f] =
           Holding("verify", Head(fallbackQ), 0, Head(fallbackQ).primary)]
    /\ UNCHANGED <<graphVars, cacheVars, extractQ, mainVars, sorter, clerkVars, crashes>>

\* Whatever the slow model answers, the PDF is put in cooldown.  If it fails,
\* the primary verdict is kept when there is one.
FallbackVerify(f) ==
    /\ proc[f].pc = "verify"
    /\ \/ cooldown' = cooldown \cup {PdfOf[proc[f].m]}
       \/ WriteFails /\ UNCHANGED cooldown
    /\ \/ \E v \in Results : GoStore(f, v, "fallback")
       \/ /\ proc[f].v \in Results
          /\ GoStore(f, proc[f].v, "kept")
       \/ /\ proc[f].v \notin Results
          /\ proc' = [proc EXCEPT ![f].pc = "fail", ![f].model = "fallback"]
    /\ UNCHANGED <<graphVars, cached, row, queueVars, mainVars, sorter, clerkVars, crashes>>

-----------------------------------------------------------------------------
(* What both pools end a job with: the stores of processExtractionResult, an *)
(* error row (storeExtractionErr), or a cooldown row (storeCooldownSkip).    *)

StoreResult(p) ==
    LET m == proc[p].m
        v == proc[p].v
    IN
    /\ proc[p].pc = "store"
    /\ WriteRow(m, StoreInvoiceExtraction(row[m], proc[p].model, v, ~cleanMatch(v)))
    /\ IF v = "open" THEN Finish(p) ELSE GoTo(p, "recon")
    /\ UNCHANGED <<graphVars, cached, cooldown, queueVars, mainVars, sorter, clerkVars, crashes>>

\* The reconciliation is a statement of its own.  A discrepancy goes on to
\* the blockers, unless they are all there already.
StoreRecon(p) ==
    LET m == proc[p].m
        v == proc[p].v
    IN
    /\ proc[p].pc = "recon"
    /\ WriteRow(m, StoreReconciliation(row[m], v))
    /\ IF /\ ~cleanMatch(v)
          /\ proc[p].cats # {}
          /\ applyAutoBlockers(proc[p].cats, autoBlockersFromRecon(v)) # proc[p].cats
       THEN GoTo(p, "block")
       ELSE Finish(p)
    /\ UNCHANGED <<graphVars, cached, cooldown, queueVars, mainVars, sorter, clerkVars, crashes>>

\* The PATCH writes the categories the job was given, plus the blockers.
AutoBlock(p) ==
    LET m == proc[p].m IN
    /\ proc[p].pc = "block"
    /\ \/ SetCategories(m, applyAutoBlockers(proc[p].cats, autoBlockersFromRecon(proc[p].v)))
       \/ GraphFails(m) /\ UNCHANGED cats
    /\ Finish(p)
    /\ UNCHANGED <<where, cacheVars, queueVars, mainVars, sorter, clerkVars, crashes>>

StoreError(p) ==
    LET m == proc[p].m IN
    /\ proc[p].pc = "fail"
    /\ WriteRow(m, StoreInvoiceExtraction(row[m], proc[p].model, "none", TRUE))
    /\ Finish(p)
    /\ UNCHANGED <<graphVars, cached, cooldown, queueVars, mainVars, sorter, clerkVars, crashes>>

StoreCooldownSkip(p) ==
    LET m == proc[p].m IN
    /\ proc[p].pc = "cool"
    /\ WriteRow(m, StoreInvoiceExtraction(row[m], "cooldown", "none", FALSE))
    /\ Finish(p)
    /\ UNCHANGED <<graphVars, cached, cooldown, queueVars, mainVars, sorter, clerkVars, crashes>>

\* A store that fails ends the job: the worker takes the next one.
StoreFails(p) ==
    /\ proc[p].pc \in {"store", "recon", "fail", "cool"}
    /\ WriteFails
    /\ Finish(p)
    /\ UNCHANGED <<graphVars, cacheVars, queueVars, mainVars, sorter, clerkVars, crashes>>

FinishStep(p) ==
    \/ StoreResult(p) \/ StoreRecon(p) \/ AutoBlock(p) \/ StoreError(p)
    \/ StoreCooldownSkip(p) \/ StoreFails(p)

-----------------------------------------------------------------------------
(* The pass loop: main and runRescanPass. *)

extractClosed == phase \in {"drainExtract", "drainFallback", "exited"}
fallbackClosed == phase \in {"drainFallback", "exited"}

AllIdle(procs) == \A p \in procs : proc[p].pc = "idle"

\* Start of the process: the one-shot sweep of rows past the cap.
Boot ==
    /\ phase = "boot"
    /\ \/ row' = [m \in Msg |-> SweepOrphanedRescans(row[m])]
       \/ WriteFails /\ UNCHANGED row
    /\ phase' = "list"
    /\ UNCHANGED <<graphVars, cached, cooldown, queueVars, listed, toRescan, rescan,
                   sorter, proc, clerkVars, crashes>>

\* ListInboxMessages hands every message, with its categories, to the sort
\* pool.  An error ends the loop.
ListInbox ==
    /\ phase = "list"
    /\ listed' = {[m |-> m, cats |-> cats[m]] : m \in {x \in Msg : where[x] = "inbox"}}
    /\ phase' = "sort"
    /\ UNCHANGED <<graphVars, cacheVars, queueVars, toRescan, rescan, sorter, proc,
                   clerkVars, crashes>>

ListFails ==
    /\ phase = "list"
    /\ "graph" \in Faults
    /\ phase' = "close"
    /\ UNCHANGED <<graphVars, cacheVars, queueVars, listed, toRescan, rescan, sorter,
                   proc, clerkVars, crashes>>

\* wg.Wait, then ListRescanQueue; when that read fails nothing is rescanned.
StartRescan ==
    /\ phase = "sort"
    /\ listed = {}
    /\ \A s \in Sorters : sorter[s].pc = "idle"
    /\ \/ toRescan' = {m \in Msg : inRescanQueue(row[m])}
       \/ ReadFails /\ toRescan' = {}
    /\ phase' = "rescan"
    /\ UNCHANGED <<graphVars, cacheVars, queueVars, listed, rescan, sorter, proc,
                   clerkVars, crashes>>

\* The row of one id is read; without a PO the id is passed over.
RescanRead ==
    /\ phase = "rescan"
    /\ rescan.pc = "next"
    /\ \E m \in toRescan :
        /\ toRescan' = toRescan \ {m}
        /\ \/ /\ row[m].po
              /\ rescan' = [pc |-> "act", m |-> m, cats |-> {},
                            tier |-> extractionTier(row[m].model) + 1]
           \/ /\ row[m].po => ReadFails
              /\ UNCHANGED rescan
    /\ UNCHANGED <<graphVars, cacheVars, queueVars, phase, listed, sorter, proc,
                   clerkVars, crashes>>

\* The top tier has run: nothing stronger is left for this row.
RescanExhaust ==
    /\ rescan.pc = "act"
    /\ rescan.tier > topExtractionTier
    /\ \/ WriteRow(rescan.m, MarkRescanExhausted(row[rescan.m]))
       \/ WriteFails /\ UNCHANGED row
    /\ rescan' = NoRescan
    /\ UNCHANGED <<graphVars, cached, cooldown, queueVars, phase, listed, toRescan,
                   sorter, proc, clerkVars, crashes>>

\* GetMessage brings the categories of the job; a failure passes over the id.
RescanFetch ==
    /\ rescan.pc = "act"
    /\ rescan.tier <= topExtractionTier
    /\ \/ /\ GraphAnswers(rescan.m)
          /\ rescan' = [rescan EXCEPT !.pc = "send", !.cats = cats[rescan.m]]
       \/ /\ GraphFails(rescan.m)
          /\ rescan' = NoRescan
    /\ UNCHANGED <<graphVars, cacheVars, queueVars, phase, listed, toRescan, sorter,
                   proc, clerkVars, crashes>>

\* The send waits at most five seconds for room, then drops the job.
RescanSend ==
    /\ rescan.pc = "send"
    /\ IF HasRoom(extractQ, ExtractCap)
       THEN extractQ' = Append(extractQ, [m |-> rescan.m, cats |-> rescan.cats,
                                          minTier |-> rescan.tier])
       ELSE UNCHANGED extractQ
    /\ rescan' = NoRescan
    /\ UNCHANGED <<graphVars, cacheVars, fallbackQ, phase, listed, toRescan, sorter,
                   proc, clerkVars, crashes>>

EndRescan ==
    /\ phase = "rescan"
    /\ rescan.pc = "next"
    /\ toRescan = {}
    /\ phase' = "check"
    /\ UNCHANGED <<graphVars, cacheVars, queueVars, listed, toRescan, rescan, sorter,
                   proc, clerkVars, crashes>>

\* In loop mode another pass follows as long as the database shows a backlog:
\* rows in the rescan queue, or cached messages without a status.  A failed
\* count reads as zero.
rescanDepthIsZero == \A m \in Msg : ~inRescanQueue(row[m])
pendingIsZero == \A m \in Msg : cached[m] # "untagged"

LoopCheck ==
    /\ phase = "check"
    /\ \/ /\ LoopMode => (rescanDepthIsZero /\ pendingIsZero) \/ ReadFails
          /\ phase' = "close"
       \/ /\ LoopMode
          /\ ~(rescanDepthIsZero /\ pendingIsZero)
          /\ phase' = "list"
    /\ UNCHANGED <<graphVars, cacheVars, queueVars, listed, toRescan, rescan, sorter,
                   proc, clerkVars, crashes>>

\* close(extractJobs); the workers drain what is buffered.
CloseExtract ==
    /\ phase = "close"
    /\ phase' = "drainExtract"
    /\ UNCHANGED <<graphVars, cacheVars, queueVars, listed, toRescan, rescan, sorter,
                   proc, clerkVars, crashes>>

\* Mutant: the fallback channel is closed once the extract channel is empty.
CloseFallbackEarly ==
    /\ phase = "drainExtract"
    /\ extractQ = <<>>
    /\ phase' = "drainFallback"
    /\ UNCHANGED <<graphVars, cacheVars, queueVars, listed, toRescan, rescan, sorter,
                   proc, clerkVars, crashes>>

\* extractWG.Wait, then close(fallbackJobs).
CloseFallback ==
    /\ phase = "drainExtract"
    /\ extractQ = <<>>
    /\ AllIdle(Extractors)
    /\ phase' = "drainFallback"
    /\ UNCHANGED <<graphVars, cacheVars, queueVars, listed, toRescan, rescan, sorter,
                   proc, clerkVars, crashes>>

\* fallbackWG.Wait, then main returns.
Exit ==
    /\ phase = "drainFallback"
    /\ fallbackQ = <<>>
    /\ AllIdle(Fallbackers)
    /\ phase' = "exited"
    /\ UNCHANGED <<graphVars, cacheVars, queueVars, listed, toRescan, rescan, sorter,
                   proc, clerkVars, crashes>>

MainStep ==
    \/ Boot \/ ListInbox \/ ListFails \/ StartRescan \/ RescanRead \/ RescanExhaust
    \/ RescanFetch \/ RescanSend \/ EndRescan \/ LoopCheck
    \/ CloseExtract \/ CloseFallback \/ Exit

\* The process dies (it handles no signal, so a stop is a death too) and
\* systemd starts it again: everything it held in memory is gone.
Crash ==
    /\ "crash" \in Faults
    /\ crashes < MaxCrashes
    /\ phase \notin {"boot", "exited"}
    /\ crashes' = crashes + 1
    /\ phase' = "boot"
    /\ listed' = {}
    /\ sorter' = [s \in Sorters |-> IdleSorter]
    /\ toRescan' = {}
    /\ rescan' = NoRescan
    /\ extractQ' = <<>>
    /\ fallbackQ' = <<>>
    /\ proc' = [p \in Procs |-> IdleProc]
    /\ UNCHANGED <<graphVars, cacheVars, clerkVars>>

-----------------------------------------------------------------------------
(* The rest of the world: Graph, the clock, dispatch-web and its clerks. *)

Deliver(m) ==
    /\ where[m] = "future"
    /\ where' = [where EXCEPT ![m] = "inbox"]
    /\ UNCHANGED <<cats, cacheVars, queueVars, mainVars, sorter, proc, clerkVars, crashes>>

Leave(m) ==
    /\ "gone" \in Faults
    /\ where[m] = "inbox"
    /\ where' = [where EXCEPT ![m] = "gone"]
    /\ UNCHANGED <<cats, cacheVars, queueVars, mainVars, sorter, proc, clerkVars, crashes>>

\* A sync of dispatch-web upserts the message into the shared cache.
SyncMessage(m) ==
    /\ m \in Synced
    /\ where[m] = "inbox"
    /\ cached' = [cached EXCEPT ![m] = IF hasStatus(cats[m]) THEN "tagged" ELSE "untagged"]
    /\ UNCHANGED <<graphVars, row, cooldown, queueVars, mainVars, sorter, proc, clerkVars,
                   crashes>>

CooldownExpires(pdf) ==
    /\ pdf \in cooldown
    /\ cooldown' = cooldown \ {pdf}
    /\ UNCHANGED <<graphVars, cached, row, queueVars, mainVars, sorter, proc, clerkVars,
                   crashes>>

\* handleStatus: the request reads the categories from Graph ...
ClerkRead(m) ==
    /\ clerk.pc = "idle"
    /\ edits < MaxEdits
    /\ GraphAnswers(m)
    /\ \E status \in ClerkStatuses :
        clerk' = [pc |-> "write", m |-> m, cats |-> ReplaceStatus(cats[m], status)]
    /\ edits' = edits + 1
    /\ UNCHANGED <<graphVars, cacheVars, queueVars, mainVars, sorter, proc, crashes>>

\* ... and sends the new list, then updates the cached copy if there is one.
ClerkWrite ==
    /\ clerk.pc = "write"
    /\ \/ /\ SetCategories(clerk.m, clerk.cats)
          /\ cached' = [cached EXCEPT ![clerk.m] = IF @ = "absent" THEN @ ELSE "tagged"]
       \/ /\ AnswerLost \/ WriteFails
          /\ SetCategories(clerk.m, clerk.cats)
          /\ UNCHANGED cached
       \/ /\ GraphFails(clerk.m)
          /\ UNCHANGED <<cats, cached>>
    /\ clerk' = NoClerk
    /\ UNCHANGED <<where, row, cooldown, queueVars, mainVars, sorter, proc, edits, crashes>>

WorldStep ==
    \/ \E m \in Msg : Deliver(m) \/ Leave(m) \/ SyncMessage(m) \/ ClerkRead(m)
    \/ \E pdf \in Pdf : CooldownExpires(pdf)
    \/ ClerkWrite

\* The worker has returned: nothing is left for it to do.
Done == phase = "exited" /\ UNCHANGED vars

Next ==
    \/ \E s \in Sorters : SortStep(s)
    \/ \E e \in Extractors : ExtractStep(e)
    \/ \E f \in Fallbackers : FallbackTake(f) \/ FallbackVerify(f)
    \/ \E p \in Procs : FinishStep(p)
    \/ MainStep
    \/ Crash
    \/ WorldStep
    \/ Done

Spec == Init /\ [][Next]_vars

\* The Go scheduler runs every goroutine that can run, and every remote call
\* has a deadline.  Nothing is assumed of people, mail or faults, except that
\* dispatch-web keeps syncing its cache.
Fairness ==
    /\ \A s \in Sorters : WF_vars(SortStep(s))
    /\ \A e \in Extractors : WF_vars(ExtractStep(e))
    /\ \A f \in Fallbackers : WF_vars(FallbackTake(f) \/ FallbackVerify(f))
    /\ \A p \in Procs : WF_vars(FinishStep(p))
    /\ WF_vars(MainStep)
    /\ \A m \in Msg : WF_vars(SyncMessage(m))

FairSpec == Spec /\ Fairness

-----------------------------------------------------------------------------
(* Properties. *)

GraphType ==
    /\ cats \in [Msg -> SUBSET Category]
    /\ where \in [Msg -> {"future", "inbox", "gone"}]

CacheType ==
    /\ cached \in [Msg -> {"absent", "untagged", "tagged"}]
    /\ row \in [Msg -> Row]
    /\ cooldown \subseteq Pdf

MainType ==
    /\ phase \in {"boot", "list", "sort", "rescan", "check", "close",
                  "drainExtract", "drainFallback", "exited"}
    /\ listed \subseteq ListedMsg
    /\ toRescan \subseteq Msg
    /\ rescan \in Rescan
    /\ rescan.pc # "next" => rescan.m \in Msg
    /\ rescan.pc = "send" => rescan.tier <= topExtractionTier
    /\ crashes \in 0..MaxCrashes

SorterType ==
    /\ sorter \in [Sorters -> Sorter]
    /\ \A s \in Sorters : sorter[s].pc # "idle" => sorter[s].m \in Msg

ChannelType ==
    /\ extractQ \in Seq(ExtractJob)
    /\ Len(extractQ) <= ExtractCap
    /\ fallbackQ \in Seq(FallbackJob)
    /\ Len(fallbackQ) <= FallbackCap

ProcType ==
    /\ proc \in [Procs -> Proc]
    /\ \A p \in Procs : proc[p].pc # "idle" => proc[p].m \in Msg
    /\ \A p \in Procs : proc[p].v \in VerdictsAt(proc[p].pc)

ClerkType ==
    /\ clerk \in Clerk
    /\ clerk.pc = "write" => clerk.m \in Msg
    /\ edits \in 0..MaxEdits

\* Every variable keeps its type, and what a process holds when it gets to a
\* step is what the step needs: a message, a verdict to escalate or to store
\* (verifyInvoice, processFallbackJob), a tier to rescan with.
TypeOK ==
    /\ GraphType
    /\ CacheType
    /\ MainType
    /\ SorterType
    /\ ChannelType
    /\ ProcType
    /\ ClerkType

JobsIn(q) == {q[i] : i \in 1..Len(q)}

Buffered(q, m) == \E j \in JobsIn(q) : j.m = m

\* Some worker holds, or some channel buffers, an extraction of the message.
InHand(m) ==
    \/ \E s \in Sorters : sorter[s].pc \in {"has", "handoff"} /\ sorter[s].m = m
    \/ Buffered(extractQ, m)
    \/ Buffered(fallbackQ, m)
    \/ \E p \in Procs : proc[p].pc # "idle" /\ proc[p].m = m

\* A message the sort pool owes an extraction (it has tagged an invoice with
\* a vendor) always has a row or is still in some worker's hands: neither a
\* full channel, nor an escalation, nor the shutdown loses it.  The hand-off
\* in processMessage, the two sends of verifyInvoice and the drain in main.
NoJobLost ==
    \A m \in Msg :
        Class[m] = "invoice" /\ hasVendor(cats[m]) =>
            HasInvoiceExtraction(row[m]) \/ InHand(m)

\* No goroutine can be about to send on a channel that main has closed (a
\* panic in Go): main closes a channel only after its senders are through.
NoSendOnClosed ==
    /\ extractClosed =>
        /\ \A s \in Sorters : sorter[s].pc = "idle"
        /\ rescan.pc = "next"
    /\ fallbackClosed => AllIdle(Extractors)

\* When main has returned no job is left behind in a channel or in a worker.
NothingInHandAtExit == phase = "exited" => \A m \in Msg : ~InHand(m)

Extracted(m) == row[m].model \notin {"absent", "skip"}

\* A message whose extraction exists or is under way carries a status, so
\* that no later pass takes it for new and hands it over a second time, no
\* matter how tags, auto-blockers and clerks' writes overtake each other.
ExtractedHasStatus ==
    \A m \in Msg : InHand(m) \/ Extracted(m) => hasStatus(cats[m])

\* Once a message is skipped it stays skipped (MarkSkipExtraction): no later
\* examination, extraction or rescan touches its row, even when the tag that
\* went with the skip was lost and a later pass takes it for an invoice.
SkippedStaysSkipped ==
    [][\A m \in Msg : row[m].model = "skip" => row'[m] = row[m]]_vars

\* A message in the extract channel ends up with a row.
JobsLand ==
    \A m \in Msg : Buffered(extractQ, m) ~> HasInvoiceExtraction(row[m])

\* A message stubbed because the channel was full is extracted later: the
\* loop does not end before, and the rescan pass gets it through the channel.
StubsAreServed ==
    \A m \in Msg : (row[m].model = "stub") ~> (row[m].model # "stub")

\* Once the loop ends, the pools drain and main returns.
ShutdownEnds == (phase = "close") ~> (phase = "exited")

\* The list some worker holds for a message is no longer the one in Graph.
ActsOnStaleList(m) ==
    \/ \E s \in Sorters : sorter[s].pc = "look" /\ sorter[s].m = m /\ sorter[s].cats # cats[m]
    \/ \E p \in Procs : proc[p].pc # "idle" /\ proc[p].m = m /\ proc[p].cats # cats[m]

\* The worker takes a status other than New away only when it writes from a
\* list it read before that status came, however long the job has been in
\* the channels (mergeCategories after hasStatus, applyAutoBlockers).
StatusLostOnlyByRace ==
    [][\A m \in Msg :
        /\ clerk' = clerk
        /\ StatusOf(cats'[m]) # StatusOf(cats[m])
        => StatusOf(cats[m]) \subseteq {<<"Status", "New">>} \/ ActsOnStaleList(m)]_vars

=============================================================================
