------------------------------ MODULE Resolver ------------------------------
(***************************************************************************)
(* Whose mail is this?  Classify sorts a sender by its domain, and Resolve *)
(* looks a vendor up in the address book exported from the ERP             *)
(* (internal/vendors).                                                     *)
(*                                                                         *)
(* A domain is a base such as acme.com, with or without a mail-service     *)
(* prefix in front (notification.acme.com); its label is the base's second *)
(* level.  Names are what matching makes of them: the normalised words of  *)
(* a vendor's name, and its whole name.                                    *)
(***************************************************************************)
EXTENDS Naturals, FiniteSets

CONSTANTS
    Bases,      \* registered domains, without mail-service prefix
    BaseClass,  \* [Bases -> SenderClass]: the hard-coded domain lists
    Label,      \* [Bases -> labels]: the second-level label of each base
    Indexable,  \* labels of five letters or more that are no stop words
    VendorIds,  \* vendors of the ERP
    NameWords,  \* [VendorIds -> sets of labels]: the words of each name
    WholeNames  \* [VendorIds -> sets of labels]: a name and its alias, run together

SenderClass == {"internal", "relay", "logistics", "bank", "vendor"}

ASSUME ResolverAssumption ==
    /\ BaseClass \in [Bases -> SenderClass]
    /\ VendorIds \subseteq DOMAIN NameWords \cap DOMAIN WholeNames

Domains == [prefixed : BOOLEAN, base : Bases]

\* An address without a domain, or a domain and the mailbox in it.
NoDomain == [user |-> "none", at |-> "none"]
Address == [user : {"billing", "other"}, at : Domains]

\* Suffixes count: notification.acme.com is of the class of acme.com.
Classify(sender) == IF sender = NoDomain THEN "vendor" ELSE BaseClass[sender.at.base]

(***************************************************************************)
(* A book holds at most one vendor for an address, and any number of them  *)
(* for a domain it lists: [emails : [addresses -> VendorIds],              *)
(* domains : [domains -> SUBSET VendorIds]].                               *)
(* The lookups below return a set of at most one vendor.                   *)
(***************************************************************************)
byEmail(book, sender) ==
    {book.emails[a] : a \in {sender} \cap DOMAIN book.emails}

Candidates(book, domain) ==
    UNION {book.domains[d] : d \in {domain} \cap DOMAIN book.domains}

\* Load leaves a domain of several vendors out of byDomain.
byDomain(book, domain) ==
    IF Cardinality(Candidates(book, domain)) = 1 THEN Candidates(book, domain) ELSE {}

isAmbiguous(book, domain) ==
    domain \in DOMAIN book.domains /\ Cardinality(book.domains[domain]) # 1

vendorSet(book) ==
    {book.emails[a] : a \in DOMAIN book.emails}
    \cup UNION {book.domains[d] : d \in DOMAIN book.domains}

extractNameTokens(vendor) == Indexable \cap (NameWords[vendor] \cup WholeNames[vendor])

Bearers(book, label) == {v \in vendorSet(book) : label \in extractNameTokens(v)}

\* Mutant: a token several vendors share gives the first of them.
byNameTokenFirst(book, label) ==
    IF Bearers(book, label) = {} THEN {} ELSE {CHOOSE v \in Bearers(book, label) : TRUE}

\* Load drops a token that several vendors share.
byNameToken(book, label) ==
    IF Cardinality(Bearers(book, label)) = 1 THEN Bearers(book, label) ELSE {}

\* The domain itself, or the domain below a mail-service prefix.
stripMailPrefix(domain) == [domain EXCEPT !.prefixed = FALSE]

\* A corporate domain of many sub-accounts that is named like one of them.
brandMatch(book, domain) ==
    LET label == Label[domain.base] IN
    /\ isAmbiguous(book, domain)
    /\ label \in Indexable
    /\ \E v \in Candidates(book, domain) : label \in NameWords[v]

\* vendor is the name the message is tagged with; a brand is no vendor of the
\* ERP, only the label of the domain.
Found(type, vendors) == [type |-> type, vendor |-> CHOOSE v \in vendors : TRUE]

Unknown == [type |-> "unknown", vendor |-> "Unknown"]

Resolve(book, sender) ==
    LET domain == sender.at
        stem == stripMailPrefix(domain)
        label == Label[domain.base]
    IN IF sender = NoDomain THEN Unknown
       ELSE IF byEmail(book, sender) # {} THEN Found("exact", byEmail(book, sender))
       ELSE IF byDomain(book, domain) # {} THEN Found("domain", byDomain(book, domain))
       ELSE IF byDomain(book, stem) # {} THEN Found("stem", byDomain(book, stem))
       ELSE IF byNameToken(book, label) # {} THEN Found("name", byNameToken(book, label))
       ELSE IF brandMatch(book, domain) \/ brandMatch(book, stem)
            THEN [type |-> "brand", vendor |-> label]
       ELSE Unknown

=============================================================================
