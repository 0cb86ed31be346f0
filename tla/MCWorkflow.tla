---------------------------- MODULE MCWorkflow ----------------------------
(* Instances of Workflow for TLC. *)
EXTENDS Workflow

CONSTANTS ann, bob, m1, acme, misc

\* A message the worker has tagged, and one it has found a discrepancy in.
NewAndBlocked ==
    {{<<"Status", "New">>, <<"Vendor", acme>>, <<"Foreign", misc>>},
     {<<"Status", "Blocked">>, <<"Blocker", "Pricing">>, <<"Vendor", acme>>, <<"Foreign", misc>>}}

JustNew == {cats \in NewAndBlocked : <<"Status", "New">> \in cats}

JustBlocked == {cats \in NewAndBlocked : <<"Status", "Blocked">> \in cats}

\* What the worker found may be corrected in Outlook, or found again.
TheVendor == {<<"Vendor", acme>>}

\* An entry that waits for the sync, and one with the voucher just posted.
TwoEntries ==
    {[po |-> TRUE, number |-> TRUE, voucher |-> FALSE],
     [po |-> TRUE, number |-> FALSE, voucher |-> TRUE]}

\* An entry with everything: the clerk tells of a voucher the ERP may not know.
OneEntry == {[po |-> TRUE, number |-> TRUE, voucher |-> TRUE]}

===========================================================================
