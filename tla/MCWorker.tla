------------------------------ MODULE MCWorker ------------------------------
(* Instances of Worker for TLC. *)
EXTENDS WorkerView, WorkerLedger

CONSTANTS m1, m2, pdf1

\* An invoice and a colleague's mail, with the same PDF attached.
MixedClass == [m \in Msg |-> IF m = m1 THEN "invoice" ELSE "internal"]

\* Only invoices.
InvoiceClass == [m \in Msg |-> "invoice"]

OnePdf == [m \in Msg |-> pdf1]

=============================================================================
