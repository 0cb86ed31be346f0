---------------------------- MODULE Extractions ----------------------------
(***************************************************************************)
(* One row of the invoice_extractions table (internal/cache) and the SQL   *)
(* statements that change it, with the verdicts a verify call can return   *)
(* and the cascade of extraction tiers that a row's model column encodes.  *)
(***************************************************************************)
EXTENDS Naturals

CONSTANT
    MaxAttempts     \* rescanMaxAttempts: re-stores before the queue drops a row

ASSUME MaxAttemptsAssumption == MaxAttempts \in Nat

(***************************************************************************)
(* Verify results, up to what the pipeline tells apart: does every line    *)
(* carry the status "match" (no escalation), is the reconciliation clean   *)
(* (no rescan), and which blockers does it raise.                          *)
(***************************************************************************)
VerifyResults ==
    {"clean",       \* every line matches, and the total
     "reconciled",  \* some line reported as differing, yet the numbers agree
     "total",       \* every line matches, the total does not
     "price", "qty", "both",  \* a line differs in unit price, quantity, both
     "partial"}     \* a PO line is not on the invoice and the total is short

allLinesMatch(v) == v \in {"clean", "total"}

cleanMatch(v) == v \in {"clean", "reconciled"}

\* What a reconciliation that is not clean asks for.
autoBlockersFromRecon(v) ==
    CASE v = "partial" -> {"Partial"}
      [] v = "qty" -> {"Purchasing"}
      [] v = "both" -> {"Pricing", "Purchasing"}
      [] OTHER -> {"Pricing"}

\* A verdict a stronger model should take a second look at.  "error" stands
\* for a verify call that failed.
shouldEscalateVerify(v) == v = "error" \/ ~allLinesMatch(v)

(***************************************************************************)
(* The model column.  "kept" is a primary verdict kept because the fallback *)
(* failed or is cooling down; "stub" is the empty model of a queued stub.  *)
(***************************************************************************)
VerdictModels == {"pdftotext", "paddle-ocr", "vision", "kept", "fallback"}

Models == VerdictModels \cup {"stub", "cooldown", "skip"}

topExtractionTier == 4

extractionTier(model) ==
    CASE model = "stub" -> 0
      [] model = "pdftotext" -> 1
      [] model = "paddle-ocr" -> 2
      [] model \in {"fallback", "skip"} -> topExtractionTier
      [] OTHER -> 3

(***************************************************************************)
(* Rows.  data is what invoice_data holds: nothing, the result of a verify *)
(* call, or an open-ended extraction made without PO lines; recon is the   *)
(* result reconcile_json was computed from.  A message without a row has   *)
(* the model "absent".                                                     *)
(***************************************************************************)
Data == VerifyResults \cup {"none", "open"}

Row == [model : Models \cup {"absent"}, po : BOOLEAN, data : Data,
        recon : VerifyResults \cup {"none"}, rescan : BOOLEAN, attempts : Nat]

NoRow == [model |-> "absent", po |-> FALSE, data |-> "none", recon |-> "none",
          rescan |-> FALSE, attempts |-> 0]

HasExtractedData(r) == r.model \notin {"absent", "skip"}    \* mutant: ignores skips
HasInvoiceExtraction(r) == r.model # "absent"

\* Mutant: an UPDATE where the code upserts.
UpdateInvoiceExtraction(r, model, data, needsRescan) ==
    IF HasInvoiceExtraction(r)
    THEN [r EXCEPT !.model = model, !.data = data, !.rescan = needsRescan]
    ELSE r

\* Upsert.  An update counts as one more attempt, and leaves the
\* reconciliation columns of the row as they were.
StoreInvoiceExtraction(r, model, data, needsRescan) ==
    [model |-> model, po |-> TRUE, data |-> data, recon |-> r.recon,
     rescan |-> needsRescan,
     attempts |-> IF HasInvoiceExtraction(r) THEN r.attempts + 1 ELSE 0]

\* A plain UPDATE: it does nothing when there is no row.
StoreReconciliation(r, v) ==
    IF HasInvoiceExtraction(r) THEN [r EXCEPT !.recon = v] ELSE r

\* Mutant: flags a row that exists, and creates none.
FlagForRescan(r) == IF HasInvoiceExtraction(r) THEN [r EXCEPT !.rescan = TRUE] ELSE r

\* ON CONFLICT DO NOTHING, both of them.
StubExtractionForRescan(r) ==
    IF HasInvoiceExtraction(r) THEN r
    ELSE [NoRow EXCEPT !.model = "stub", !.po = TRUE, !.rescan = TRUE]

MarkSkipExtraction(r) ==
    IF HasInvoiceExtraction(r) THEN r ELSE [NoRow EXCEPT !.model = "skip"]

MarkRescanExhausted(r) == [r EXCEPT !.rescan = FALSE]

\* Mutant: a row without data is not worth a rescan.
inRescanQueueWithData(r) == r.rescan /\ r.data # "none" /\ r.attempts < MaxAttempts

\* ListRescanQueue and RescanQueueDepth select the same rows.
inRescanQueue(r) == r.rescan /\ r.attempts < MaxAttempts

SweepOrphanedRescans(r) ==
    [r EXCEPT !.rescan = @ /\ r.attempts < MaxAttempts]

===========================================================================
