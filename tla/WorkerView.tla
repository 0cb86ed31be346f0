------------------------------ MODULE WorkerView ------------------------------
(* The lists of dispatch-web over the state dispatch-worker leaves behind. *)
EXTENDS Worker, Queue

\* The row of a message, once the web cache has its categories.
View(m) ==
    [id |-> m, conv |-> NoConv, internal |-> Class[m] = "internal", received |-> 0,
     cats |-> cats[m], row |-> row[m], payStatus |-> ""]

Lists(m, filter) == Matches(View(m), filter, "", 0)

\* When no worker has the message in hand, an invoice whose stored figures do
\* not agree with the PO is listed as a discrepancy and not as a match: the
\* rescan flag and the automatic blockers, which other steps set and clear,
\* never both go missing (processExtractionResult, runRescanPass, ui.Apply).
DiscrepancyShows ==
    \A m \in Msg :
        /\ ~InHand(m)
        /\ row[m].data \in VerifyResults
        /\ ~cleanMatch(row[m].data)
        => Lists(m, "discrepancy") /\ ~Lists(m, "match") /\ Pipeline(View(m)) # "done"

=============================================================================
