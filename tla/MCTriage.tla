------------------------------ MODULE MCTriage ------------------------------
(* Instances of Triage for TLC. *)
EXTENDS Triage

CONSTANTS m1, m2, none

ClassOf == [b \in Bases |-> CASE b = "our" -> "internal" [] b = "ups" -> "logistics"
                              [] OTHER -> "vendor"]

LabelOf == [b \in Bases |-> b]

\* Two sub-accounts share the word "globex"; "initech" names one of them.
Words == [v \in VendorIds |-> IF v = "globex east" THEN {"globex"} ELSE {"globex", "initech"}]

Wholes == [v \in VendorIds |-> {}]

At(base, prefixed) == [prefixed |-> prefixed, base |-> base]

Billing(base, prefixed) == [user |-> "billing", at |-> At(base, prefixed)]

\* The export lists one address or none; of the domains, one is shared, each
\* is of one vendor, or only the other is listed, and shared.
Emails == {<<>>} \cup [{Billing("globex", FALSE)} -> {"globex east"}]

Both == {"globex east", "initech"}

DomainRows ==
    {[d \in {At("globex", FALSE)} |-> Both],
     [d \in {At("globex", FALSE), At("initech", FALSE)} |->
         IF d.base = "globex" THEN {"globex east"} ELSE {"initech"}],
     [d \in {At("initech", FALSE)} |-> Both]}

SomeBooks == {[emails |-> e, domains |-> d] : e \in Emails, d \in DomainRows}

\* p1 and p2 are in the ERP, p0 is not.
Erp == [po \in {"p1", "p2"} |-> IF po = "p1" THEN "globex east" ELSE "initech"]

Letter(sender, conv, pos, rule) ==
    [sender |-> sender, conv |-> conv, pos |-> pos, attached |-> pos # <<>>,
     pdfPOs |-> <<>>, rule |-> rule]

\* Mail of a vendor known by its address or domain, of one known by a prefixed
\* domain or its name, and of a colleague, in one conversation or outside,
\* with and without numbers; a carrier's mail, a notice of payment, and a
\* scan from an unusable address.
MixedMails ==
    {Letter(Billing("globex", FALSE), "c1", pos, {"Invoice"}) : pos \in {<<>>, <<"p0", "p1">>}}
    \cup {Letter(Billing("our", FALSE), "c1", pos, {}) : pos \in {<<>>, <<"p1">>}}
    \cup {Letter(Billing("initech", TRUE), conv, <<>>, {"Invoice"}) : conv \in {"c1", NoConv}}
    \cup {Letter(Billing("globex", FALSE), NoConv, <<"p2", "p1">>, {"Invoice"}),
          Letter(Billing("ups", FALSE), NoConv, <<"p1">>, {}),
          Letter(Billing("initech", TRUE), "c1", <<>>, {"Payment"})}
    \cup {[sender |-> NoDomain, conv |-> "c1", pos |-> <<>>, attached |-> TRUE,
           pdfPOs |-> <<"p0", "p2">>, rule |-> {}]}

Days == [m \in Msg |-> IF m = m1 THEN 0 ELSE 1]

=============================================================================
