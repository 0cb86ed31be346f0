------------------------------- MODULE Recon -------------------------------
(***************************************************************************)
(* Reconciling one invoice with its purchase order: the worker files the   *)
(* model's answer about the PO lines (recon.FromVerifyResult), and         *)
(* the web process later compares what was filed with the PO as it is then *)
(* (recon.Compare) to see whether a blocked message may be released.  The  *)
(* comparison goes through the invoice one line at a time, taking the best *)
(* PO line that is still free.                                             *)
(*                                                                         *)
(* Amounts are integers, so the two tolerances are equality.  An item is   *)
(* a sequence of parts, of which a vendor may print only the last ones; a  *)
(* description is a set of words.                                          *)
(***************************************************************************)
EXTENDS Integers, Sequences, SequencesExt, FiniteSetsExt

CONSTANTS
    Words,         \* the words of descriptions
    Orders,        \* what the purchase order may read in the ERP over time
    Answers        \* what the model may answer

VARIABLES
    po,            \* the PO lines in the ERP
    row,           \* the filed extraction with its reconciliation, or NoRow
    blocked,       \* the message is Status: Blocked
    cmp            \* the comparison the recheck is at, or Idle

vars == <<po, row, blocked, cmp>>

NoRow == [filed |-> FALSE]

Idle == [busy |-> FALSE]

---------------------------------------------------------------------------
(* Lines. *)

POLine == [no : Int, item : Seq(STRING), words : SUBSET Words, qty : Int, unit : Int]

InvoiceLine == [item : Seq(STRING), words : SUBSET Words, qty : Int, unit : Int, ext : Int]

\* An entry of the answer, about a line of the PO.
AnswerLine == [no : Int, status : STRING, qty : Int, unit : Int, ext : Int]

ASSUME ReconAssumption ==
    /\ IsFiniteSet(Words)
    /\ Orders \subseteq Seq(POLine)
    /\ Answers \subseteq [lines : Seq(AnswerLine), unexpected : Seq(InvoiceLine), total : Int]

\* The extended amount of a PO line is computed when it is read.
Extended(pl) == pl.qty * pl.unit

POTotal(lines) == FoldFunction(LAMBDA pl, sum : Extended(pl) + sum, 0, lines)

LineVerdict(inv, pl) ==
    LET extendedOk == inv.ext = Extended(pl)
        qtyOk == inv.qty = pl.qty
        priceOk == inv.unit = pl.unit
    IN CASE extendedOk /\ qtyOk /\ priceOk -> "match"
         [] extendedOk /\ ~(qtyOk /\ priceOk) -> "extended_match"
         [] ~extendedOk /\ qtyOk /\ ~priceOk -> "price_mismatch"
         [] ~extendedOk /\ ~qtyOk /\ priceOk -> "qty_mismatch"
         [] OTHER -> "both_mismatch"

Matching == {"match", "extended_match"}

Mismatching == {"price_mismatch", "qty_mismatch", "both_mismatch"}

\* Mutant: the item is one sign among others, and the quantity outweighs it.
scoreOfQty(inv, pl) ==
    (IF inv.item # <<>> /\ inv.item = pl.item THEN 5 ELSE 0)
    + 5 * Cardinality(inv.words \cap pl.words)
    + (IF inv.qty = pl.qty THEN 10 ELSE 0)

\* How well a PO line fits an invoice line.
score(inv, pl) ==
    (IF inv.item # <<>> /\ inv.item = pl.item THEN 100 ELSE 0)
    + (IF inv.item # <<>> /\ IsSuffix(inv.item, pl.item) THEN 50 ELSE 0)
    + 5 * Cardinality(inv.words \cap pl.words)
    + (IF inv.qty = pl.qty THEN 10 ELSE 0)

\* The first of the best free PO lines, unless none fits at all: a set of at
\* most one index.
findBestPOMatch(inv, lines, used) ==
    LET free == (DOMAIN lines) \ used
    IN {i \in free :
            /\ score(inv, lines[i]) > 0
            /\ \A j \in free :
                  \/ score(inv, lines[j]) < score(inv, lines[i])
                  \/ score(inv, lines[j]) = score(inv, lines[i]) /\ i <= j}

classifyFeeLine(inv) ==
    CASE "freight" \in inv.words -> "shipping_fee"
      [] "freight" \notin inv.words /\ "handling" \in inv.words -> "handling_fee"
      [] inv.words \cap {"freight", "handling"} = {} /\ "tax" \in inv.words -> "tax_fee"
      [] OTHER -> "extra_on_invoice"

\* A pair of the report: an invoice line (0 for none), a PO line (0 for
\* none) and the verdict.
Pair(inv, pl, verdict) == [inv |-> inv, pl |-> pl, verdict |-> verdict]

Verdicts(pairs) == {pairs[k].verdict : k \in DOMAIN pairs}

---------------------------------------------------------------------------
(* The answer of the model, and how the worker files it.                   *)
(* An answer has one entry [no, status, qty, unit, ext] for each PO line   *)
(* the model speaks of, the lines [item, words, qty, unit, ext] it saw     *)
(* beyond them, and the total printed on the invoice.  A status that is    *)
(* none of the three words it was asked for reads as an empty one.         *)

\* The entries that say "match".
Matched(answer) == {k \in DOMAIN answer.lines : answer.lines[k].status = "match"}

\* Mutant: one line short of the PO is good enough.
shouldEscalateVerifyBelow(answer, lines) == Cardinality(Matched(answer)) + 1 < Len(lines)

\* Is the answer too poor to be taken from a tier below the last?
shouldEscalateVerify(answer, lines) == Cardinality(Matched(answer)) < Len(lines)

\* The entries about lines that are on the PO, in the order of the answer.
IsOn(no, lines) == \E i \in DOMAIN lines : lines[i].no = no

Known(answer, lines) ==
    LET kept[k \in 0 .. Len(answer.lines)] ==
            IF k = 0 THEN <<>>
            ELSE IF IsOn(answer.lines[k].no, lines) THEN Append(kept[k - 1], answer.lines[k])
                 ELSE kept[k - 1]
    IN kept[Len(answer.lines)]

\* The PO line of an entry; the last one wins when a number repeats.
byLineNo(lines, no) == CHOOSE i \in DOMAIN lines :
                           /\ lines[i].no = no
                           /\ \A j \in DOMAIN lines : lines[j].no = no => j <= i

\* The verdict on one entry; an entry of no clear status gets none.
EntryVerdict(lr, pl) ==
    CASE lr.status = "match" -> "match"
      [] lr.status = "differs" -> LineVerdict(lr, pl)
      [] lr.status = "not_found" -> "missing_from_invoice"
      [] OTHER -> ""

FromVerifyResult(answer, lines) ==
    LET entries == Known(answer, lines)
        pairs == [k \in DOMAIN entries |->
                     LET i == byLineNo(lines, entries[k].no)
                     IN Pair(IF entries[k].status \in {"match", "differs"} THEN k ELSE 0,
                             i, EntryVerdict(entries[k], lines[i]))]
        extras == [k \in DOMAIN answer.unexpected |->
                     Pair(Len(entries) + k, 0, "extra_on_invoice")]
        totalMatch == answer.total = POTotal(lines)
    IN [totalMatch |-> totalMatch,
        anyLineMismatch |-> \/ Verdicts(pairs) \cap Mismatching # {}
                            \/ ~totalMatch,
        pairs |-> pairs \o extras]

Clean(r) == r.totalMatch /\ ~r.anyLineMismatch

\* Mutant: a discrepancy of the total alone names no blocker.
autoBlockersOfLines(r) ==
    LET verdicts == Verdicts(r.pairs)
        pricing == verdicts \cap {"price_mismatch", "extra_on_invoice", "both_mismatch"} # {}
        purchasing == verdicts \cap {"qty_mismatch", "both_mismatch"} # {}
    IN IF ~r.totalMatch /\ ~pricing /\ ~purchasing /\ "missing_from_invoice" \in verdicts
       THEN {"Partial"}
       ELSE (IF pricing THEN {"Pricing"} ELSE {}) \cup (IF purchasing THEN {"Purchasing"} ELSE {})

\* The blockers a reconciliation calls for.
autoBlockersFromRecon(r) ==
    LET verdicts == Verdicts(r.pairs)
        pricing == verdicts \cap {"price_mismatch", "extra_on_invoice", "both_mismatch"} # {}
        purchasing == verdicts \cap {"qty_mismatch", "both_mismatch"} # {}
        unexplained == ~r.totalMatch /\ ~pricing /\ ~purchasing
    IN IF unexplained /\ "missing_from_invoice" \in verdicts
       THEN {"Partial"}
       ELSE (IF pricing \/ unexplained THEN {"Pricing"} ELSE {})
            \cup (IF purchasing THEN {"Purchasing"} ELSE {})

\* The invoice as it is kept: the entries with the item and description of
\* the PO line they are about (a line not found has no amounts), then the
\* lines beyond the PO.
Synthesized(answer, lines) ==
    LET entries == Known(answer, lines)
        line(lr) ==
            LET pl == lines[byLineNo(lines, lr.no)]
            IN [item |-> pl.item, words |-> pl.words,
                qty |-> CASE lr.status = "match" -> pl.qty
                          [] lr.status = "differs" -> lr.qty
                          [] OTHER -> 0,
                unit |-> CASE lr.status = "match" -> pl.unit
                           [] lr.status = "differs" -> lr.unit
                           [] OTHER -> 0,
                ext |-> CASE lr.status = "match" -> Extended(pl)
                          [] lr.status = "differs" -> lr.ext
                          [] OTHER -> 0]
    IN [lines |-> [k \in DOMAIN entries |-> line(entries[k])] \o answer.unexpected,
        total |-> answer.total]

---------------------------------------------------------------------------
(* The comparison of a filed invoice with the PO lines read afresh. *)

\* Mutant: a PO line that was paired stays free.
CompareLineReusing(c) ==
    LET inv == c.data.lines[c.next]
        best == findBestPOMatch(inv, c.lines, c.used)
    IN [c EXCEPT
           !.next = c.next + 1,
           !.pairs = Append(@, IF best = {}
                               THEN Pair(c.next, 0, classifyFeeLine(inv))
                               ELSE LET i == CHOOSE i \in best : TRUE
                                    IN Pair(c.next, i, LineVerdict(inv, c.lines[i])))]

\* Mutant: the loop goes on twice when nothing was paired.
CompareLineSkipping(c) ==
    LET inv == c.data.lines[c.next]
        best == findBestPOMatch(inv, c.lines, c.used)
    IN [c EXCEPT
           !.next = c.next + (IF best = {} THEN 2 ELSE 1),
           !.used = c.used \cup best,
           !.pairs = Append(@, IF best = {}
                               THEN Pair(c.next, 0, classifyFeeLine(inv))
                               ELSE LET i == CHOOSE i \in best : TRUE
                                    IN Pair(c.next, i, LineVerdict(inv, c.lines[i])))]

\* One turn of Compare's loop over the invoice lines.
CompareLine(c) ==
    LET inv == c.data.lines[c.next]
        best == findBestPOMatch(inv, c.lines, c.used)
    IN [c EXCEPT
           !.next = c.next + 1,
           !.used = c.used \cup best,
           !.pairs = Append(@, IF best = {}
                               THEN Pair(c.next, 0, classifyFeeLine(inv))
                               ELSE LET i == CHOOSE i \in best : TRUE
                                    IN Pair(c.next, i, LineVerdict(inv, c.lines[i])))]

\* One turn of the loop that ends the report with the PO lines nothing was
\* paired with.
CompareRest(c) ==
    [c EXCEPT !.rest = c.rest + 1,
              !.pairs = IF c.rest \in c.used THEN @
                        ELSE Append(@, Pair(0, c.rest, "missing_from_invoice"))]

\* Compare has been through both lists.
Complete(c) == c.next > Len(c.data.lines) /\ c.rest > Len(c.lines)

\* Mutant: the PO total counts the lines that were billed.
CompareResultBilled(c) ==
    LET totalMatch == c.data.total = POTotal([i \in c.used |-> c.lines[i]])
    IN [totalMatch |-> totalMatch,
        anyLineMismatch |-> Verdicts(c.pairs) \ (Matching \cup {"missing_from_invoice"}) # {},
        pairs |-> c.pairs]

\* What Compare returns.
CompareResult(c) ==
    LET totalMatch == c.data.total = POTotal(c.lines)
    IN [totalMatch |-> totalMatch,
        anyLineMismatch |-> Verdicts(c.pairs) \ (Matching \cup {"missing_from_invoice"}) # {},
        pairs |-> c.pairs]

---------------------------------------------------------------------------

Init ==
    /\ po \in Orders
    /\ row = NoRow
    /\ blocked = FALSE
    /\ cmp = Idle

\* The worker files an answer: one that is good enough for its tier (taken),
\* or whatever it was when no better tier can be asked (the last tier, a
\* cooldown, a full queue).  The blockers go to the Outlook list, which may
\* fail or find a clerk's status there.  Modelled once per message: a later
\* answer starts over, and a running comparison works on what it has read.
processExtractionResult(answer, taken) ==
    LET recon == FromVerifyResult(answer, po)
    IN /\ po # <<>>
       /\ row = NoRow
       /\ taken => ~shouldEscalateVerify(answer, po)
       /\ row' = [filed |-> TRUE, answer |-> answer, taken |-> taken, poLines |-> po,
                  data |-> Synthesized(answer, po), recon |-> recon,
                  needsRescan |-> ~Clean(recon)]
       /\ \/ ~Clean(recon) /\ autoBlockersFromRecon(recon) # {} /\ blocked' = TRUE
          \/ UNCHANGED blocked
       /\ UNCHANGED <<po, cmp>>

\* A buyer changes the order in the ERP.
EditPO(order) ==
    /\ order # po
    /\ po' = order
    /\ UNCHANGED <<row, blocked, cmp>>

\* A clerk sets or lifts a blocker.
ClerkBlocks ==
    /\ blocked' = ~blocked
    /\ UNCHANGED <<po, row, cmp>>

\* The recheck reads the row of a blocked message and the PO lines; without
\* PO lines it leaves the message alone.
StartRecheck ==
    /\ cmp = Idle
    /\ row # NoRow
    /\ blocked
    /\ po # <<>>
    /\ cmp' = [busy |-> TRUE, of |-> row, data |-> row.data, lines |-> po,
               next |-> 1, rest |-> 1, used |-> {}, pairs |-> <<>>]
    /\ UNCHANGED <<po, row, blocked>>

ComparesLine ==
    /\ cmp # Idle
    /\ cmp.next <= Len(cmp.data.lines)
    /\ cmp' = CompareLine(cmp)
    /\ UNCHANGED <<po, row, blocked>>

ComparesRest ==
    /\ cmp # Idle
    /\ cmp.next > Len(cmp.data.lines)
    /\ cmp.rest <= Len(cmp.lines)
    /\ cmp' = CompareRest(cmp)
    /\ UNCHANGED <<po, row, blocked>>

\* Numbers that agree now release the message, if it still has a blocker,
\* and replace the filed reconciliation if the cache takes it; the Graph call
\* of the release may fail, and then nothing is kept.  The rescan flag is not
\* touched.
EndRecheck ==
    /\ cmp # Idle
    /\ Complete(cmp)
    /\ cmp' = Idle
    /\ \/ /\ Clean(CompareResult(cmp))
          /\ blocked
          /\ blocked' = FALSE
          /\ row' \in {row, [row EXCEPT !.recon = CompareResult(cmp)]}
       \/ UNCHANGED <<row, blocked>>
    /\ UNCHANGED po

Next ==
    \/ \E answer \in Answers, taken \in BOOLEAN : processExtractionResult(answer, taken)
    \/ \E order \in Orders : EditPO(order)
    \/ ClerkBlocks
    \/ StartRecheck
    \/ ComparesLine
    \/ ComparesRest
    \/ EndRecheck

Spec == Init /\ [][Next]_vars

---------------------------------------------------------------------------
(* What the reconciliation promises. *)

\* The two reports are built from the lines of the invoice that was filed
\* and of the PO that was read: a pair never points past either.
TypeOK ==
    /\ po \in Orders
    /\ blocked \in BOOLEAN
    /\ row # NoRow => row.poLines \in Orders /\ row.answer \in Answers
    /\ cmp # Idle =>
         /\ cmp.next \in 1 .. Len(cmp.data.lines) + 1
         /\ cmp.rest \in 1 .. Len(cmp.lines) + 1
         /\ cmp.used \subseteq DOMAIN cmp.lines
         /\ \A k \in DOMAIN cmp.pairs :
              /\ cmp.pairs[k].inv \in 0 .. Len(cmp.data.lines)
              /\ cmp.pairs[k].pl \in {0} \cup DOMAIN cmp.lines

\* Compare accounts for every line once: the report of a finished comparison
\* has one pair for each invoice line and one for each PO line, so that no
\* line is paid twice or falls out of the report.
EachLineOnce ==
    cmp # Idle /\ Complete(cmp) =>
        /\ \A n \in 1 .. Len(cmp.data.lines) :
             \E k \in DOMAIN cmp.pairs : \A l \in DOMAIN cmp.pairs :
                 (cmp.pairs[l].inv = n) <=> (l = k)
        /\ \A i \in DOMAIN cmp.lines :
             \E k \in DOMAIN cmp.pairs : \A l \in DOMAIN cmp.pairs :
                 (cmp.pairs[l].pl = i) <=> (l = k)

\* The amounts of a filed invoice add up to the total printed on it.
AddsUp(data) == data.total = FoldFunction(LAMBDA l, sum : l.ext + sum, 0, data.lines)

\* A message released by Compare was billed the whole PO: when the invoice
\* adds up, no PO line that costs anything is missing from it.
CleanHidesNothing ==
    cmp # Idle /\ Complete(cmp) =>
        (Clean(CompareResult(cmp)) /\ AddsUp(cmp.data) =>
            \A i \in (DOMAIN cmp.lines) \ cmp.used : Extended(cmp.lines[i]) = 0)

DistinctItems(lines) ==
    \A i, j \in DOMAIN lines :
        lines[i].item # <<>> /\ (lines[i].item = lines[j].item => i = j)

DistinctEntries(answer) ==
    \A k, l \in DOMAIN answer.lines : answer.lines[k].no = answer.lines[l].no => k = l

\* The two routes agree: as long as the PO reads as it did when the worker
\* verified the invoice against it, with every item once, and the answer
\* spoke of each line once, the recheck finds nothing clean that the worker
\* filed as a discrepancy.  Blockers go because somebody changed the order,
\* not because Compare pairs the lines differently.
NoFreeRelease ==
    cmp # Idle /\ Complete(cmp) =>
        (/\ Clean(CompareResult(cmp))
         /\ cmp.lines = cmp.of.poLines
         /\ DistinctItems(cmp.lines)
         /\ DistinctEntries(cmp.of.answer)
         => Clean(FromVerifyResult(cmp.of.answer, cmp.lines)))

\* An answer taken below the last tier, with each entry about a PO line of
\* its own, speaks well of every PO line: none is missing or mismatched in
\* the report as filed.
TakenCoversPO ==
    row # NoRow =>
        (/\ row.taken
         /\ DistinctEntries(row.answer)
         /\ Known(row.answer, row.poLines) = row.answer.lines
         => LET pairs == FromVerifyResult(row.answer, row.poLines).pairs
            IN \A i \in DOMAIN row.poLines :
                   \E k \in DOMAIN pairs : pairs[k].pl = i /\ pairs[k].verdict = "match")

\* No discrepancy goes without a name: a row flagged for rescan calls for at
\* least one blocker, and Partial is said only of an invoice none of whose
\* lines is found mismatched or beyond the PO.
DiscrepancyIsNamed ==
    row # NoRow =>
        LET recon == FromVerifyResult(row.answer, row.poLines)
            named == autoBlockersFromRecon(recon)
        IN /\ row.needsRescan => named # {}
           /\ "Partial" \in named =>
                 Verdicts(recon.pairs) \subseteq Matching \cup {"missing_from_invoice", ""}

===========================================================================
