---------------------------- MODULE Triage_proofs ----------------------------
(***************************************************************************)
(* Proofs about Triage, for any mails, address books, ERP and failures.    *)
(***************************************************************************)
EXTENDS Triage, FiniteSetTheorems, WellFoundedInduction, TLAPS

-----------------------------------------------------------------------------
(* Numbers: induction is by the least counterexample. *)

LEMMA Least ==
    ASSUME NEW S \in SUBSET Nat, S # {}
    PROVE  \E n \in S : \A m \in S : n <= m
<1> DEFINE R == OpToRel(<, Nat)
<1>1. IsWellFoundedOn(R, Nat)
  BY NatLessThanWellFounded
<1>2. \A x, y \in Nat : y < x => <<y, x>> \in R
  BY DEF OpToRel
<1> HIDE DEF R
<1>3. PICK n \in S : \A m \in S : <<m, n>> \notin R
  BY <1>1, WFMin
<1>4. ASSUME NEW m \in S PROVE n <= m
  <2>1. m \in Nat /\ n \in Nat /\ ~(m < n)
    BY <1>2, <1>3
  <2> QED BY <2>1
<1> QED BY <1>4

LEMMA Smallest ==
    ASSUME NEW S \in SUBSET Nat, S # {}
    PROVE  Min(S) \in S /\ \A m \in S : Min(S) <= m
BY Least DEF Min

-----------------------------------------------------------------------------
(* The sender lookup. *)

LEMMA Single ==
    ASSUME NEW S, IsFiniteSet(S), Cardinality(S) = 1
    PROVE  \E x : S = {x}
BY FS_Singleton

\* Everything an address book gives is a vendor of the ERP.
LEMMA BookVendors ==
    ASSUME NEW b \in Books, NEW domain, NEW sender, NEW label
    PROVE  /\ byEmail(b, sender) \subseteq VendorIds
           /\ Candidates(b, domain) \subseteq VendorIds /\ IsFiniteSet(Candidates(b, domain))
           /\ Bearers(b, label) \subseteq VendorIds /\ IsFiniteSet(Bearers(b, label))
<1>1. /\ \A a \in DOMAIN b.emails : b.emails[a] \in VendorIds
      /\ \A d \in DOMAIN b.domains : b.domains[d] \subseteq VendorIds
      /\ IsFiniteSet(VendorIds)
  BY TriageAssumption
<1>2. byEmail(b, sender) \subseteq VendorIds
  BY <1>1 DEF byEmail
<1>3. Candidates(b, domain) \subseteq VendorIds
  BY <1>1 DEF Candidates
<1>4. Bearers(b, label) \subseteq VendorIds
  BY <1>1 DEF Bearers, vendorSet
<1> QED BY <1>1, <1>2, <1>3, <1>4, FS_Subset

\* What a match of each type says of the address book.
Justified(match, b, sender) ==
    /\ match.type = "domain" => Candidates(b, sender.at) = {match.vendor}
    /\ match.type = "stem" => Candidates(b, stripMailPrefix(sender.at)) = {match.vendor}
    /\ match.type = "name" => Bearers(b, Label[sender.at.base]) = {match.vendor}
    /\ match.type = "unknown" => sender = NoDomain \/ byEmail(b, sender) = {}

LEMMA Resolved ==
    ASSUME NEW b \in Books, NEW sender \in Address \cup {NoDomain}
    PROVE  /\ Justified(Resolve(b, sender), b, sender)
           /\ Resolve(b, sender).vendor \in Vendors
<1> DEFINE match == Resolve(b, sender)
           domain == sender.at
           stem == stripMailPrefix(domain)
           label == Label[domain.base]
<1>1. ASSUME NEW type, NEW S, S \subseteq VendorIds, S # {}
      PROVE  Found(type, S).vendor \in S /\ Found(type, S).vendor \in Vendors
             /\ Found(type, S).type = type
  BY <1>1, TriageAssumption DEF Found
<1>2. ASSUME NEW type, NEW S, S \subseteq VendorIds, IsFiniteSet(S), Cardinality(S) = 1
      PROVE  S = {Found(type, S).vendor} /\ S # {}
  <2>1. PICK x : S = {x}
    BY <1>2, Single
  <2> QED BY <2>1 DEF Found
<1>3. "Unknown" \in Vendors /\ Unknown.vendor = "Unknown" /\ Unknown.type = "unknown"
  BY TriageAssumption DEF Unknown
<1>4. CASE sender = NoDomain
  <2>1. match = Unknown
    BY <1>4 DEF Resolve
  <2> QED BY <1>3, <1>4, <2>1 DEF Justified
<1>5. CASE sender # NoDomain /\ byEmail(b, sender) # {}
  <2>1. match = Found("exact", byEmail(b, sender))
    BY <1>5 DEF Resolve
  <2>2. byEmail(b, sender) \subseteq VendorIds
    BY BookVendors
  <2> HIDE DEF match
  <2>3. match.vendor \in Vendors /\ match.type = "exact"
    BY <1>1, <1>5, <2>1, <2>2
  <2> QED BY <2>3 DEF Justified, match
<1>6. CASE sender # NoDomain /\ byEmail(b, sender) = {} /\ byDomain(b, domain) # {}
  <2>1. match = Found("domain", byDomain(b, domain))
    BY <1>6 DEF Resolve
  <2>2. byDomain(b, domain) = Candidates(b, domain) /\ Cardinality(Candidates(b, domain)) = 1
    BY <1>6 DEF byDomain
  <2>3. Candidates(b, domain) \subseteq VendorIds /\ IsFiniteSet(Candidates(b, domain))
    BY BookVendors
  <2> HIDE DEF match
  <2>4. /\ match.vendor \in Vendors /\ match.type = "domain"
        /\ Candidates(b, sender.at) = {match.vendor}
    BY <1>1, <1>2, <2>1, <2>2, <2>3
  <2> QED BY <2>4 DEF Justified, match
<1>7. CASE /\ sender # NoDomain /\ byEmail(b, sender) = {} /\ byDomain(b, domain) = {}
           /\ byDomain(b, stem) # {}
  <2>1. match = Found("stem", byDomain(b, stem))
    BY <1>7 DEF Resolve
  <2>2. byDomain(b, stem) = Candidates(b, stem) /\ Cardinality(Candidates(b, stem)) = 1
    BY <1>7 DEF byDomain
  <2>3. Candidates(b, stem) \subseteq VendorIds /\ IsFiniteSet(Candidates(b, stem))
    BY BookVendors
  <2> HIDE DEF match
  <2>4. /\ match.vendor \in Vendors /\ match.type = "stem"
        /\ Candidates(b, stripMailPrefix(sender.at)) = {match.vendor}
    BY <1>1, <1>2, <2>1, <2>2, <2>3
  <2> QED BY <2>4 DEF Justified, match
<1>8. CASE /\ sender # NoDomain /\ byEmail(b, sender) = {} /\ byDomain(b, domain) = {}
           /\ byDomain(b, stem) = {} /\ byNameToken(b, label) # {}
  <2>1. match = Found("name", byNameToken(b, label))
    BY <1>8 DEF Resolve
  <2>2. byNameToken(b, label) = Bearers(b, label) /\ Cardinality(Bearers(b, label)) = 1
    BY <1>8 DEF byNameToken
  <2>3. Bearers(b, label) \subseteq VendorIds /\ IsFiniteSet(Bearers(b, label))
    BY BookVendors
  <2> HIDE DEF match
  <2>4. /\ match.vendor \in Vendors /\ match.type = "name"
        /\ Bearers(b, Label[sender.at.base]) = {match.vendor}
    BY <1>1, <1>2, <2>1, <2>2, <2>3
  <2> QED BY <2>4 DEF Justified, match
<1>9. CASE /\ sender # NoDomain /\ byEmail(b, sender) = {} /\ byDomain(b, domain) = {}
           /\ byDomain(b, stem) = {} /\ byNameToken(b, label) = {}
  <2>1. match = [type |-> "brand", vendor |-> label] \/ match = Unknown
    BY <1>9 DEF Resolve
  <2>2. label \in Vendors
    <3>1. domain.base \in Bases
      BY <1>9 DEF Address, Domains
    <3> QED BY <3>1, TriageAssumption
  <2> HIDE DEF match
  <2>3. match.vendor \in Vendors /\ match.type \in {"brand", "unknown"}
    BY <1>3, <2>1, <2>2
  <2> QED BY <1>9, <2>3 DEF Justified, match
<1> QED BY <1>4, <1>5, <1>6, <1>7, <1>8, <1>9

\* The worker never guesses between vendors: the address book is read once, so
\* what holds of every book holds in every state.
THEOREM GuessesNothing == Spec => []NeverGuesses
<1>1. ASSUME book \in Books PROVE NeverGuesses
  <2> SUFFICES ASSUME NEW a \in Address
               PROVE  LET match == Resolve(book, a)
                          rivals == VendorIds \ {match.vendor}
                      IN /\ match.type = "domain" => rivals \cap Candidates(book, a.at) = {}
                         /\ match.type = "stem" =>
                              rivals \cap Candidates(book, stripMailPrefix(a.at)) = {}
                         /\ match.type = "name" => rivals \cap Bearers(book, Label[a.at.base]) = {}
                         /\ match.type = "unknown" => byEmail(book, a) = {}
    BY DEF NeverGuesses
  <2>1. a # NoDomain
    BY DEF Address, NoDomain
  <2>2. Justified(Resolve(book, a), book, a)
    BY <1>1, Resolved
  <2> QED BY <2>1, <2>2 DEF Justified
<1>2. Init => book \in Books
  BY DEF Init
<1>3. book \in Books /\ [Next]_vars => (book \in Books)'
  BY DEF Next, ProcessMessage, StoreExtraction, Sync, Edit, vars
<1> QED BY <1>1, <1>2, <1>3, PTL DEF Spec

-----------------------------------------------------------------------------
(* filterPOsValidInERP. *)

\* A list of candidates with no number that is not among others.
Among(s, pos) == s \in Seq(PO) /\ \A k \in DOMAIN s : s[k] \in Range(pos)

OutOf(f, pos, down, k) ==
    IF k = 0 THEN <<>>
    ELSE IF pos[k] \in KnownPOs \ down THEN Append(f[k - 1], pos[k]) ELSE f[k - 1]

\* The recursion has a solution for every prefix, by the least prefix without.
LEMMA OutExists ==
    ASSUME NEW pos \in Seq(PO), NEW down
    PROVE  \E f : f = [k \in 0 .. Len(pos) |-> OutOf(f, pos, down, k)]
<1> DEFINE N == Len(pos)
           Solves(f, n) == \A k \in 0 .. n : f[k] = OutOf(f, pos, down, k)
           Bad == {n \in 0 .. N : ~ \E f : f = [k \in 0 .. n |-> f[k]] /\ Solves(f, n)}
<1>1. N \in Nat
  OBVIOUS
<1>2. ASSUME Bad # {} PROVE FALSE
  <2>1. PICK n \in Bad : \A m \in Bad : n <= m
    <3>1. Bad \in SUBSET Nat
      BY <1>1
    <3> HIDE DEF Bad
    <3> QED BY <1>2, <3>1, Least
  <2>2. n \in 0 .. N /\ n \in Nat
    BY <1>1
  <2>3. CASE n = 0
    <3> DEFINE f == [k \in 0 .. 0 |-> <<>>]
    <3>1. f = [k \in 0 .. n |-> f[k]] /\ Solves(f, n)
      BY <2>3 DEF OutOf
    <3> QED BY <3>1
  <2>4. CASE n > 0
    <3>1. PICK f : f = [k \in 0 .. n - 1 |-> f[k]] /\ Solves(f, n - 1)
      <4>1. n - 1 \in 0 .. N /\ ~(n <= n - 1)
        BY <2>2, <2>4
      <4>2. n - 1 \notin Bad
        BY <2>1, <4>1
      <4> QED BY <4>1, <4>2
    <3> DEFINE g == [k \in 0 .. n |-> IF k = n THEN OutOf(f, pos, down, n) ELSE f[k]]
    <3>2. \A k \in 0 .. n - 1 : g[k] = f[k]
      BY <2>2
    <3>3. \A k \in 0 .. n : OutOf(g, pos, down, k) = OutOf(f, pos, down, k)
      BY <2>2, <3>2 DEF OutOf
    <3>4. \A k \in 0 .. n : g[k] = OutOf(f, pos, down, k)
      BY <2>2, <3>1
    <3>5. g = [k \in 0 .. n |-> g[k]] /\ Solves(g, n)
      BY <3>3, <3>4
    <3> QED BY <3>5
  <2> QED BY <2>2, <2>3, <2>4
<1>3. PICK f : f = [k \in 0 .. N |-> f[k]] /\ Solves(f, N)
  BY <1>1, <1>2
<1>4. f = [k \in 0 .. N |-> OutOf(f, pos, down, k)]
  BY <1>3
<1> QED BY <1>4

LEMMA ValidAmong ==
    ASSUME NEW pos \in Seq(PO), NEW down
    PROVE  Among(Valid(pos, down), pos)
<1> DEFINE N == Len(pos)
           out == CHOOSE f : f = [k \in 0 .. N |-> OutOf(f, pos, down, k)]
<1>1. Valid(pos, down) = out[N]
  BY DEF Valid, OutOf
<1>2. out = [k \in 0 .. N |-> OutOf(out, pos, down, k)]
  BY OutExists
<1> HIDE DEF out
<1>3. N \in Nat /\ \A k \in 0 .. N : out[k] = OutOf(out, pos, down, k)
  <2>1. N \in Nat
    OBVIOUS
  <2>2. ASSUME NEW k \in 0 .. N PROVE out[k] = OutOf(out, pos, down, k)
    <3> HIDE DEF N
    <3> QED BY <1>2, Zenon
  <2> QED BY <2>1, <2>2
<1> DEFINE Bad == {k \in 0 .. N : ~Among(out[k], pos)}
<1>4. ASSUME Bad # {} PROVE FALSE
  <2>1. PICK n \in Bad : \A m \in Bad : n <= m
    <3>1. Bad \in SUBSET Nat
      BY <1>3
    <3> HIDE DEF Bad
    <3> QED BY <1>4, <3>1, Least
  <2>2. n \in 0 .. N /\ n \in Nat /\ ~Among(out[n], pos)
    BY <1>3
  <2>3. CASE n = 0
    <3>1. out[n] = <<>>
      BY <1>3, <2>2, <2>3 DEF OutOf
    <3> QED BY <2>2, <3>1 DEF Among
  <2>4. CASE n > 0
    <3> DEFINE s == out[n - 1]
               t == Append(s, pos[n])
    <3>1. Among(s, pos)
      <4>1. n - 1 \in 0 .. N /\ ~(n <= n - 1)
        BY <2>2, <2>4
      <4> QED BY <2>1, <4>1
    <3>2. out[n] = t \/ out[n] = s
      <4>1. out[n] = OutOf(out, pos, down, n)
        BY <1>3, <2>2
      <4> QED BY <2>2, <2>4, <4>1 DEF OutOf
    <3>3. n \in DOMAIN pos /\ pos[n] \in PO /\ pos[n] \in Range(pos)
      BY <2>2, <2>4 DEF Range
    <3> HIDE DEF s
    <3>4. /\ t \in Seq(PO) /\ DOMAIN t = 1 .. Len(s) + 1 /\ t[Len(s) + 1] = pos[n]
          /\ \A l \in 1 .. Len(s) : t[l] = s[l]
          /\ DOMAIN s = 1 .. Len(s) /\ Len(s) \in Nat
      BY <3>1, <3>3 DEF Among
    <3> HIDE DEF t
    <3>5. Among(t, pos)
      BY <3>1, <3>3, <3>4 DEF Among
    <3> QED BY <2>2, <3>1, <3>2, <3>5 DEF s
  <2> QED BY <2>2, <2>3, <2>4
<1> QED BY <1>1, <1>3, <1>4

-----------------------------------------------------------------------------
(* Who says what. *)

Numbers(n) == Range(mail[n].pos) \cup Range(mail[n].pdfPOs)

\* The purchase orders of the conversation, and the vendors it speaks for.
ThreadNumbers(m) == UNION {Numbers(n) : n \in Thread(m)}

Sources(m) == UNION {Evidence(n) : n \in Thread(m)}

MailInv == book \in Books /\ mail \in [Msg -> Mails]

LEMMA MailTypes ==
    ASSUME MailInv, NEW m \in Msg
    PROVE  /\ mail[m].sender \in Address \cup {NoDomain}
           /\ mail[m].pos \in Seq(PO) /\ mail[m].pdfPOs \in Seq(PO)
           /\ mail[m].rule \in {{}} \cup {{k} : k \in MailKinds}
<1>1. mail[m] \in Mail
  BY TriageAssumption DEF MailInv
<1> QED BY <1>1 DEF Mail

\* Messages of one conversation have the same sources.
LEMMA SameThread ==
    ASSUME NEW m \in Msg, NEW n \in Siblings(m), known \subseteq Msg
    PROVE  /\ n \in Msg /\ Thread(n) = Thread(m)
           /\ Sources(n) = Sources(m) /\ ThreadNumbers(n) = ThreadNumbers(m)
<1>1. n \in Msg /\ mail[n].conv = mail[m].conv /\ mail[m].conv # NoConv
  BY DEF Siblings
<1>2. Thread(n) = Thread(m)
  BY <1>1 DEF Thread
<1> QED BY <1>1, <1>2 DEF Sources, ThreadNumbers

LEMMA OwnThread ==
    ASSUME NEW m \in Msg
    PROVE  /\ Numbers(m) \subseteq ThreadNumbers(m) /\ Evidence(m) \subseteq Sources(m)
           /\ \A po \in KnownPOs \cap ThreadNumbers(m) : VendorOfPO[po] \in Sources(m)
<1>1. m \in Thread(m)
  BY DEF Thread
<1>2. ASSUME NEW po \in KnownPOs \cap ThreadNumbers(m) PROVE VendorOfPO[po] \in Sources(m)
  <2>1. PICK n \in Thread(m) : po \in Numbers(n)
    BY DEF ThreadNumbers
  <2>2. VendorOfPO[po] \in Evidence(n)
    BY <2>1 DEF Evidence, Numbers
  <2> QED BY <2>1, <2>2 DEF Sources
<1> QED BY <1>1, <1>2 DEF Sources, ThreadNumbers

\* A list whose vendor, if it has any, has a source in the conversation.
Backed(m, l) == \A c \in l : c[1] = "Vendor" /\ c[2] # "Unknown" => c[2] \in Sources(m)

\* A purchase order that is none or one of the conversation.
Heard(m, po) == po # NoPO => po \in PO \cap ThreadNumbers(m)

SourceInv ==
    /\ known \subseteq Msg
    /\ \A m \in Msg : /\ Backed(m, cats[m]) /\ Backed(m, cached[m])
                      /\ Heard(m, job[m]) /\ Heard(m, extracted[m])

CatsInv == cats \in [Msg -> SUBSET Category] /\ cached \in [Msg -> SUBSET Category]

\* What comes down from the conversation.
LEMMA PriorBacked ==
    ASSUME SourceInv, CatsInv, NEW m \in Msg
    PROVE  /\ \A v \in PriorVendor(m) : v \in Vendors /\ (v = "Unknown" \/ v \in Sources(m))
           /\ \A po \in PriorPoNo(m) : po \in PO \cap ThreadNumbers(m)
<1>1. ASSUME NEW v \in PriorVendor(m) PROVE v \in Vendors /\ (v = "Unknown" \/ v \in Sources(m))
  <2>1. PICK n \in Latest({o \in Siblings(m) : hasVendor(cached[o])}) :
          \E c \in cached[n] : c[1] = "Vendor" /\ c[2] = v
    BY DEF PriorVendor
  <2>2. PICK c \in cached[n] : c[1] = "Vendor" /\ c[2] = v
    BY <2>1
  <2>3. n \in Siblings(m)
    BY DEF Latest
  <2>4. n \in Msg /\ Sources(n) = Sources(m)
    BY <2>3, SameThread DEF SourceInv
  <2>5. c \in Category
    BY <2>2, <2>4 DEF CatsInv
  <2>6. v \in Vendors
    BY <2>2, <2>5 DEF Category
  <2>7. Backed(n, cached[n])
    BY <2>4 DEF SourceInv
  <2> QED BY <2>2, <2>4, <2>6, <2>7 DEF Backed
<1>2. ASSUME NEW po \in PriorPoNo(m) PROVE po \in PO \cap ThreadNumbers(m)
  <2>1. PICK n \in Latest({o \in Siblings(m) : extracted[o] # NoPO}) : po = extracted[n]
    BY DEF PriorPoNo
  <2>2. n \in Siblings(m) /\ extracted[n] # NoPO
    BY DEF Latest
  <2>3. n \in Msg /\ ThreadNumbers(n) = ThreadNumbers(m)
    BY <2>2, SameThread DEF SourceInv
  <2> QED BY <2>1, <2>2, <2>3 DEF SourceInv, Heard
<1> QED BY <1>1, <1>2

\* The vendor before any PO, and the candidates.
LEMMA Candidate ==
    ASSUME MailInv, SourceInv, CatsInv, NEW m \in Msg, NEW down, NEW poNos \in PoNos(m, down)
    PROVE  /\ SenderVendor(m) \in Vendors
           /\ SenderVendor(m) = "Unknown" \/ SenderVendor(m) \in Sources(m)
           /\ poNos \in Seq(PO) /\ \A k \in DOMAIN poNos : poNos[k] \in ThreadNumbers(m)
<1> DEFINE match == IF isInternal(m) THEN Unknown ELSE Resolve(book, mail[m].sender)
           sent == SenderVendor(m)
<1>1. match.vendor \in Vendors /\ (match.vendor = "Unknown" \/ match.vendor \in Sources(m))
  <2>1. CASE isInternal(m)
    BY <2>1, TriageAssumption DEF Unknown
  <2>2. CASE ~isInternal(m)
    <3>1. match = Resolve(book, mail[m].sender)
      BY <2>2
    <3>2. match.vendor \in Vendors
      BY <3>1, MailTypes, Resolved DEF MailInv
    <3>3. match.vendor \in Evidence(m)
      BY <2>2, <3>1 DEF Evidence
    <3> QED BY <3>2, <3>3, OwnThread
  <2> QED BY <2>1, <2>2
<1>2. sent = match.vendor \/ sent \in PriorVendor(m)
  BY DEF SenderVendor
<1> HIDE DEF match, sent
<1>3. sent \in Vendors /\ (sent = "Unknown" \/ sent \in Sources(m))
  BY <1>1, <1>2, PriorBacked
<1>4. /\ Range(mail[m].pos) \subseteq ThreadNumbers(m)
      /\ Range(mail[m].pdfPOs) \subseteq ThreadNumbers(m)
  BY OwnThread DEF Numbers
<1>5. poNos \in Seq(PO) /\ \A k \in DOMAIN poNos : poNos[k] \in ThreadNumbers(m)
  <2>1. CASE poNos = mail[m].pos
    BY <1>4, <2>1, MailTypes DEF Range
  <2>2. CASE \E po \in PriorPoNo(m) : poNos = <<po>>
    <3>1. PICK po \in PriorPoNo(m) : poNos = <<po>>
      BY <2>2
    <3>2. po \in PO /\ po \in ThreadNumbers(m)
      BY PriorBacked
    <3> QED BY <3>1, <3>2
  <2>3. CASE poNos = <<>>
    BY <2>3
  <2>4. CASE \E first : poNos = Valid(mail[m].pdfPOs, first)
    <3>1. Among(poNos, mail[m].pdfPOs)
      BY <2>4, MailTypes, ValidAmong
    <3> QED BY <1>4, <3>1 DEF Among
  <2> QED BY <2>1, <2>2, <2>3, <2>4 DEF PoNos
<1> QED BY <1>3, <1>5 DEF sent

\* The vendor a PO decides, and the first candidate if it is answered.
LEMMA Decided ==
    ASSUME NEW poNos \in Seq(PO), NEW down, NEW vendor
    PROVE  /\ \/ POVendor(poNos, down, vendor) = vendor /\ Answered(poNos, down) = {}
              \/ \E k \in DOMAIN poNos : /\ poNos[k] \in KnownPOs
                                        /\ POVendor(poNos, down, vendor) = VendorOfPO[poNos[k]]
           /\ poNos # <<>> /\ poNos[1] \in KnownPOs \ down =>
                POVendor(poNos, down, vendor) = VendorOfPO[poNos[1]]
<1> DEFINE A == Answered(poNos, down)
<1>1. A \in SUBSET Nat /\ A \in SUBSET DOMAIN poNos /\ DOMAIN poNos = 1 .. Len(poNos)
      /\ \A k \in A : poNos[k] \in KnownPOs \ down
  BY DEF Answered
<1>2. A # {} => Min(A) \in A /\ \A k \in A : Min(A) <= k
  <2> HIDE DEF A
  <2> QED BY <1>1, Smallest
<1>3. poNos # <<>> /\ poNos[1] \in KnownPOs \ down => A # {} /\ Min(A) = 1
  <2> SUFFICES ASSUME poNos # <<>>, poNos[1] \in KnownPOs \ down PROVE A # {} /\ Min(A) = 1
    OBVIOUS
  <2>1. 1 \in A
    BY DEF Answered
  <2>2. Min(A) \in A /\ Min(A) <= 1
    BY <1>2, <2>1
  <2> HIDE DEF A
  <2> DEFINE least == Min(A)
  <2>3. least \in Nat /\ least \in 1 .. Len(poNos) /\ least <= 1
    BY <1>1, <2>2
  <2> HIDE DEF least
  <2>4. least = 1
    BY <2>3
  <2> QED BY <2>1, <2>4 DEF least
<1>4. POVendor(poNos, down, vendor) = IF A = {} THEN vendor ELSE VendorOfPO[poNos[Min(A)]]
  BY DEF POVendor
<1> HIDE DEF A
<1> QED BY <1>1, <1>2, <1>3, <1>4 DEF A

-----------------------------------------------------------------------------
(* The lists that are written. *)

Of(l, namespace) == {c \in l : c[1] = namespace}

AtMostOne(l) == \A c, d \in StatusOf(l) : c = d

LEMMA SkipList ==
    ASSUME NEW old \in SUBSET Category, NEW kind \in {"Automation", "Internal"}
    PROVE  LET l == skipCategories(old, kind)
           IN /\ l \in SUBSET Category /\ hasStatus(l) /\ AtMostOne(l)
              /\ Of(l, "Vendor") = {} /\ Of(l, "Kind") = {<<"Kind", kind>>}
<1> DEFINE l == skipCategories(old, kind)
<1>1. l \in SUBSET Category
  <2>1. <<"Status", "Done">> \in Category /\ <<"Kind", kind>> \in Category
    BY DEF Category, Statuses, Kinds
  <2> QED BY <2>1 DEF skipCategories, Without
<1>2. StatusOf(l) = {<<"Status", "Done">>}
  BY DEF skipCategories, Without, Managed, StatusOf
<1>3. Of(l, "Vendor") = {} /\ Of(l, "Kind") = {<<"Kind", kind>>}
  BY DEF skipCategories, Without, Managed, Of
<1> QED BY <1>1, <1>2, <1>3 DEF hasStatus, AtMostOne

LEMMA MergeList ==
    ASSUME NEW old \in SUBSET Category, NEW vendor \in Vendors, NEW kind \in SUBSET MailKinds
    PROVE  LET l == mergeCategories(old, vendor, {}, kind)
           IN /\ l \in SUBSET Category /\ hasStatus(l) /\ AtMostOne(l)
              /\ Of(l, "Vendor") = {<<"Vendor", vendor>>}
              /\ Of(l, "Kind") = {"Kind"} \X kind
<1> DEFINE l == mergeCategories(old, vendor, {}, kind)
<1>1. l \in SUBSET Category
  <2>1. <<"Status", "New">> \in Category /\ <<"Vendor", vendor>> \in Category
    BY DEF Category, Statuses
  <2>2. {"Kind"} \X kind \subseteq Category
    BY DEF Category, Kinds
  <2>3. l = (Without(old, {"Vendor", "Status", "Buyer", "Kind"})
            \cup {<<"Vendor", vendor>>, <<"Status", "New">>}) \cup ({"Kind"} \X kind)
    BY DEF mergeCategories
  <2> QED BY <2>1, <2>2, <2>3 DEF Without
<1>2. StatusOf(l) = {<<"Status", "New">>}
  BY DEF mergeCategories, Without, StatusOf
<1>3. Of(l, "Vendor") = {<<"Vendor", vendor>>}
  BY DEF mergeCategories, Without, Of
<1>4. Of(l, "Kind") = {"Kind"} \X kind
  BY DEF mergeCategories, Without, Of
<1> QED BY <1>1, <1>2, <1>3, <1>4 DEF hasStatus, AtMostOne

\* What a clerk's write leaves of a list.
Edited(new, old) ==
    /\ new \in SUBSET Category
    /\ Of(new, "Vendor") = Of(old, "Vendor") /\ Of(new, "Kind") = Of(old, "Kind")
    /\ hasStatus(old) => hasStatus(new)
    /\ AtMostOne(old) => AtMostOne(new)

LEMMA EditList ==
    ASSUME NEW old \in SUBSET Category, NEW owner \in SUBSET Owners, NEW name \in BlockerOptions
    PROVE  Edited(ReplaceOwner(old, owner), old) /\ Edited(ToggleBlocker(old, name), old)
<1>1. Edited(ReplaceOwner(old, owner), old)
  <2> DEFINE new == ReplaceOwner(old, owner)
  <2>1. new \in SUBSET Category
    BY DEF ReplaceOwner, Without, Category
  <2>2. Of(new, "Vendor") = Of(old, "Vendor") /\ Of(new, "Kind") = Of(old, "Kind")
    BY DEF ReplaceOwner, Without, Of
  <2>3. StatusOf(new) = StatusOf(old)
    BY DEF ReplaceOwner, Without, StatusOf
  <2> QED BY <2>1, <2>2, <2>3 DEF Edited, hasStatus, AtMostOne
<1>2. Edited(ToggleBlocker(old, name), old)
  <2> DEFINE target == <<"Blocker", name>>
             toggled == IF target \in old THEN old \ {target} ELSE old \cup {target}
  <2>1. toggled \in SUBSET Category
    <3>1. target \in Category
      BY DEF Category
    <3> QED BY <3>1
  <2>2. Of(toggled, "Vendor") = Of(old, "Vendor") /\ Of(toggled, "Kind") = Of(old, "Kind")
    BY DEF Of
  <2>3. StatusOf(toggled) = StatusOf(old)
    BY DEF StatusOf
  <2> HIDE DEF toggled
  <2>4. Edited(toggled, old)
    BY <2>1, <2>2, <2>3 DEF Edited, hasStatus, AtMostOne
  <2>5. ASSUME NEW status \in Statuses PROVE Edited(ReplaceStatus(toggled, status), old)
    <3> DEFINE new == ReplaceStatus(toggled, status)
    <3>1. new \in SUBSET Category
      <4>1. <<"Status", status>> \in Category
        BY DEF Category
      <4> QED BY <2>1, <4>1 DEF ReplaceStatus, Without
    <3>2. Of(new, "Vendor") = Of(old, "Vendor") /\ Of(new, "Kind") = Of(old, "Kind")
      BY <2>2 DEF ReplaceStatus, Without, Of
    <3>3. StatusOf(new) = {<<"Status", status>>}
      BY DEF ReplaceStatus, Without, StatusOf
    <3> QED BY <3>1, <3>2, <3>3 DEF Edited, hasStatus, AtMostOne
  <2>6. ToggleBlocker(old, name) \in {ReplaceStatus(toggled, "Blocked"),
                                      ReplaceStatus(toggled, "In Progress"), toggled}
    BY DEF ToggleBlocker, toggled
  <2>7. "Blocked" \in Statuses /\ "In Progress" \in Statuses
    BY DEF Statuses
  <2> QED BY <2>4, <2>5, <2>6, <2>7
<1> QED BY <1>1, <1>2

-----------------------------------------------------------------------------
(* What processMessage decides. *)

Closes(m, l, j, down) ==
    \E kind \in {"Automation", "Internal"} :
        /\ l = skipCategories(cats[m], kind) /\ j = job[m]
        /\ kind = "Internal" => Range(mail[m].pos) \cap KnownPOs \subseteq down

HandsOver(m, j, down, vendor) ==
    \/ j = job[m]
    \/ /\ j \in PO \cap ThreadNumbers(m)
       /\ j \in KnownPOs \ down => vendor = VendorOfPO[j]

Classifies(m, l, j, down) ==
    \E vendor \in Vendors, kind \in KindsOf(m) :
        /\ l = mergeCategories(cats[m], vendor, {}, kind)
        /\ vendor = "Unknown" \/ vendor \in Sources(m)
        /\ HandsOver(m, j, down, vendor)

Decides(m, down, l, j) ==
    /\ ~hasStatus(cats[m])
    /\ Closes(m, l, j, down) \/ Classifies(m, l, j, down)
    /\ down \in SUBSET PO
    /\ failed' = [failed EXCEPT ![m] = down]
    /\ cats' = [cats EXCEPT ![m] = l]
    /\ job' = [job EXCEPT ![m] = j]

LEMMA SkipDecides ==
    ASSUME TypeOK, NEW m \in Msg, NEW kind \in {"Automation", "Internal"}, Skip(m, kind),
           NEW down \in SUBSET PO, ~hasStatus(cats[m]), failed' = [failed EXCEPT ![m] = down],
           kind = "Internal" => Range(mail[m].pos) \cap KnownPOs \subseteq down
    PROVE  \E l, j : Decides(m, down, l, j)
<1> DEFINE l == skipCategories(cats[m], kind)
<1>1. Closes(m, l, job[m], down)
  BY DEF Closes
<1>2. cats' = [cats EXCEPT ![m] = l]
  BY DEF Skip
<1>3. job' = [job EXCEPT ![m] = job[m]]
  BY DEF Skip, TypeOK
<1> HIDE DEF l
<1>4. Decides(m, down, l, job[m])
  BY <1>1, <1>2, <1>3 DEF Decides
<1> QED BY <1>4

LEMMA Processed ==
    ASSUME TypeOK, SourceInv, NEW m \in Msg, ProcessMessage(m)
    PROVE  \E down, l, j : Decides(m, down, l, j)
<1>1. MailInv /\ CatsInv
  BY DEF TypeOK, MailInv, CatsInv
<1>2. PICK down \in IF LookupsFail THEN SUBSET Mentioned(m) ELSE {{}} :
       /\ failed' = [failed EXCEPT ![m] = down]
       /\ IF Classify(mail[m].sender) \in {"relay", "logistics", "bank"}
          THEN Skip(m, "Automation")
          ELSE \E poNos \in PoNos(m, down) :
            LET vendor == POVendor(poNos, down, SenderVendor(m)) IN
            IF isInternal(m) /\ vendor = "Unknown"
            THEN Skip(m, "Internal")
            ELSE \E kind \in KindsOf(m) :
                /\ cats' = [cats EXCEPT ![m] = mergeCategories(cats[m], vendor, {}, kind)]
                /\ HandOff(m, poNos)
  BY DEF ProcessMessage
<1>3. ~hasStatus(cats[m])
  BY DEF ProcessMessage
<1>4. down \in SUBSET PO
  <2>1. Mentioned(m) \subseteq PO
    BY TriageAssumption DEF Mentioned
  <2> QED BY <2>1
<1>5. CASE Skip(m, "Automation")
  BY <1>2, <1>3, <1>4, <1>5, SkipDecides
<1>6. ASSUME NEW poNos \in PoNos(m, down),
             LET vendor == POVendor(poNos, down, SenderVendor(m)) IN
             IF isInternal(m) /\ vendor = "Unknown"
             THEN Skip(m, "Internal")
             ELSE \E kind \in KindsOf(m) :
                 /\ cats' = [cats EXCEPT ![m] = mergeCategories(cats[m], vendor, {}, kind)]
                 /\ HandOff(m, poNos)
      PROVE  \E l, j : Decides(m, down, l, j)
  <2> DEFINE vendor == POVendor(poNos, down, SenderVendor(m))
  <2>1. /\ SenderVendor(m) \in Vendors
        /\ SenderVendor(m) = "Unknown" \/ SenderVendor(m) \in Sources(m)
        /\ poNos \in Seq(PO) /\ \A k \in DOMAIN poNos : poNos[k] \in ThreadNumbers(m)
    BY <1>1, Candidate
  <2>2. \/ vendor = SenderVendor(m) /\ Answered(poNos, down) = {}
        \/ \E k \in DOMAIN poNos : poNos[k] \in KnownPOs /\ vendor = VendorOfPO[poNos[k]]
    BY <2>1, Decided
  <2>3. poNos # <<>> /\ poNos[1] \in KnownPOs \ down => vendor = VendorOfPO[poNos[1]]
    BY <2>1, Decided
  <2>4. \/ isInternal(m) /\ vendor = "Unknown" /\ Skip(m, "Internal")
        \/ \E kind \in KindsOf(m) :
             /\ cats' = [cats EXCEPT ![m] = mergeCategories(cats[m], vendor, {}, kind)]
             /\ HandOff(m, poNos)
    BY <1>6
  <2> HIDE DEF vendor
  <2>5. vendor \in Vendors /\ (vendor = "Unknown" \/ vendor \in Sources(m))
    <3>1. CASE \E k \in DOMAIN poNos : poNos[k] \in KnownPOs /\ vendor = VendorOfPO[poNos[k]]
      <4>1. PICK k \in DOMAIN poNos : poNos[k] \in KnownPOs /\ vendor = VendorOfPO[poNos[k]]
        BY <3>1
      <4> QED BY <2>1, <4>1, OwnThread, TriageAssumption
    <3> QED BY <2>1, <2>2, <3>1
  <2>6. CASE vendor = "Unknown" /\ Skip(m, "Internal")
    <3>1. Answered(poNos, down) = {}
      BY <2>2, <2>6, TriageAssumption
    <3>2. Range(mail[m].pos) \cap KnownPOs \subseteq down
      <4>1. CASE mail[m].pos = <<>>
        BY <4>1 DEF Range
      <4>2. CASE mail[m].pos # <<>>
        <5>1. poNos = mail[m].pos
          BY <4>2 DEF PoNos
        <5> QED BY <3>1, <5>1 DEF Answered, Range
      <4> QED BY <4>1, <4>2
    <3> QED BY <1>2, <1>3, <1>4, <2>6, <3>2, SkipDecides
  <2>7. ASSUME NEW kind \in KindsOf(m),
               cats' = [cats EXCEPT ![m] = mergeCategories(cats[m], vendor, {}, kind)],
               HandOff(m, poNos)
        PROVE  \E l, j : Decides(m, down, l, j)
    <3> DEFINE l == mergeCategories(cats[m], vendor, {}, kind)
    <3>1. PICK j : job' = [job EXCEPT ![m] = j] /\ HandsOver(m, j, down, vendor)
      <4>1. CASE job' = job
        <5>1. job' = [job EXCEPT ![m] = job[m]] /\ HandsOver(m, job[m], down, vendor)
          BY <4>1 DEF TypeOK, HandsOver
        <5> QED BY <5>1
      <4>2. CASE poNos # <<>> /\ job' = [job EXCEPT ![m] = Head(poNos)]
        <5>1. Head(poNos) = poNos[1] /\ 1 \in DOMAIN poNos /\ poNos[1] \in PO
          BY <2>1, <4>2
        <5>2. HandsOver(m, poNos[1], down, vendor)
          BY <2>1, <2>3, <4>2, <5>1 DEF HandsOver
        <5> QED BY <4>2, <5>1, <5>2
      <4> QED BY <2>7, <4>1, <4>2 DEF HandOff
    <3>2. Classifies(m, l, j, down)
      BY <2>5, <3>1 DEF Classifies
    <3>3. cats' = [cats EXCEPT ![m] = l]
      BY <2>7
    <3> HIDE DEF l
    <3>4. Decides(m, down, l, j)
      BY <1>2, <1>3, <1>4, <3>1, <3>2, <3>3 DEF Decides
    <3> QED BY <3>4
  <2> QED BY <2>4, <2>6, <2>7
<1> QED BY <1>2, <1>5, <1>6

-----------------------------------------------------------------------------
(* Steps. *)

\* A clerk's write of message m.
Writes(m, new) ==
    /\ Edited(new, cats[m])
    /\ cats' = [cats EXCEPT ![m] = new] /\ cached' = [cached EXCEPT ![m] = new]

LEMMA EditWrites ==
    ASSUME TypeOK, NEW m \in Msg, Edit(m)
    PROVE  \E new : Writes(m, new)
<1>1. PICK owner \in Owners, name \in ClerkBlockers :
        \E new \in {ReplaceOwner(cats[m], {owner} \ ownerFrom(cats[m])),
                    ToggleBlocker(cats[m], name)} :
            /\ cats' = [cats EXCEPT ![m] = new]
            /\ cached' = [cached EXCEPT ![m] = new]
  BY DEF Edit
<1> DEFINE mine == {owner} \ ownerFrom(cats[m])
<1>2. cats[m] \in SUBSET Category /\ mine \in SUBSET Owners /\ name \in BlockerOptions
  BY TriageAssumption DEF TypeOK
<1> HIDE DEF mine
<1>3. Edited(ReplaceOwner(cats[m], mine), cats[m]) /\ Edited(ToggleBlocker(cats[m], name), cats[m])
  BY <1>2, EditList
<1> QED BY <1>1, <1>3 DEF Writes, mine

\* What does not change in any step.
Settled == UNCHANGED <<book, mail>>

LEMMA NextSettled ==
    ASSUME [Next]_vars
    PROVE  Settled
BY DEF Next, ProcessMessage, StoreExtraction, Sync, Edit, vars, Settled

LEMMA SettledSources ==
    ASSUME Settled, NEW m
    PROVE  /\ Sources(m)' = Sources(m) /\ ThreadNumbers(m)' = ThreadNumbers(m)
           /\ isInternal(m)' = isInternal(m)
<1>1. \A n : isInternal(n)' = isInternal(n)
  BY DEF Settled, isInternal
<1>2. Thread(m)' = Thread(m)
  BY DEF Settled, Thread
<1>3. \A n : Evidence(n)' = Evidence(n) /\ Numbers(n)' = Numbers(n)
  BY <1>1 DEF Settled, Evidence, Numbers
<1> QED BY <1>1, <1>2, <1>3 DEF Sources, ThreadNumbers

LEMMA DecidedList ==
    ASSUME TypeOK, NEW m \in Msg, NEW down, NEW l, NEW j, Decides(m, down, l, j)
    PROVE  /\ l \in SUBSET Category /\ hasStatus(l) /\ AtMostOne(l)
           /\ j \in PO \cup {NoPO}
<1>1. cats[m] \in SUBSET Category /\ job[m] \in PO \cup {NoPO} /\ MailInv
  BY DEF TypeOK, MailInv
<1>2. CASE Closes(m, l, j, down)
  BY <1>1, <1>2, SkipList DEF Closes
<1>3. CASE Classifies(m, l, j, down)
  <2>1. PICK vendor \in Vendors, kind \in KindsOf(m) :
          /\ l = mergeCategories(cats[m], vendor, {}, kind)
          /\ HandsOver(m, j, down, vendor)
    BY <1>3 DEF Classifies
  <2>2. kind \in SUBSET MailKinds
    BY <1>1, MailTypes DEF KindsOf
  <2>3. j \in PO \cup {NoPO}
    BY <1>1, <2>1 DEF HandsOver
  <2> QED BY <1>1, <2>1, <2>2, <2>3, MergeList
<1> QED BY <1>2, <1>3 DEF Decides

LEMMA TypeStep == TypeOK /\ SourceInv /\ [Next]_vars => TypeOK'
<1> SUFFICES ASSUME TypeOK, SourceInv, [Next]_vars PROVE TypeOK'
  OBVIOUS
<1>1. ASSUME NEW m \in Msg, ProcessMessage(m) PROVE TypeOK'
  <2>1. PICK down, l, j : Decides(m, down, l, j)
    BY <1>1, Processed
  <2>2. l \in SUBSET Category /\ j \in PO \cup {NoPO}
    BY <2>1, DecidedList
  <2>3. /\ down \in SUBSET PO /\ failed' = [failed EXCEPT ![m] = down]
        /\ cats' = [cats EXCEPT ![m] = l] /\ job' = [job EXCEPT ![m] = j]
    BY <2>1 DEF Decides
  <2> QED BY <1>1, <2>2, <2>3 DEF TypeOK, ProcessMessage
<1>2. ASSUME NEW m \in Msg, StoreExtraction(m) PROVE TypeOK'
  BY <1>2 DEF TypeOK, StoreExtraction
<1>3. ASSUME NEW m \in Msg, Sync(m) PROVE TypeOK'
  BY <1>3 DEF TypeOK, Sync
<1>4. ASSUME NEW m \in Msg, Edit(m) PROVE TypeOK'
  <2>1. PICK new : Writes(m, new)
    BY <1>4, EditWrites
  <2>2. edits' \in 0 .. MaxEdits
    BY <1>4, TriageAssumption DEF TypeOK, Edit
  <2> QED BY <1>4, <2>1, <2>2 DEF TypeOK, Edit, Writes, Edited
<1>5. CASE UNCHANGED vars
  BY <1>5 DEF TypeOK, vars
<1> QED BY <1>1, <1>2, <1>3, <1>4, <1>5 DEF Next

LEMMA TypeInit == Init => TypeOK
<1> SUFFICES ASSUME Init PROVE TypeOK
  OBVIOUS
<1>1. MaxEdits \in Nat
  BY TriageAssumption
<1> QED BY <1>1 DEF Init, TypeOK

\* The lists and the numbers a step leaves with a message.
LEMMA SourceStep == TypeOK /\ SourceInv /\ [Next]_vars => SourceInv'
<1> SUFFICES ASSUME TypeOK, SourceInv, [Next]_vars PROVE SourceInv'
  OBVIOUS
<1> DEFINE Good(n, c, d, j, e) == Backed(n, c) /\ Backed(n, d) /\ Heard(n, j) /\ Heard(n, e)
<1>1. \A n \in Msg : Good(n, cats[n], cached[n], job[n], extracted[n])
  BY DEF SourceInv
<1>2. ASSUME known' \subseteq Msg,
             \A n \in Msg : Good(n, cats'[n], cached'[n], job'[n], extracted'[n])
      PROVE  SourceInv'
  <2>1. Settled
    BY NextSettled
  <2> SUFFICES ASSUME NEW n \in Msg
               PROVE  /\ Backed(n, cats[n])' /\ Backed(n, cached[n])'
                      /\ Heard(n, job[n])' /\ Heard(n, extracted[n])'
    BY <1>2 DEF SourceInv
  <2>2. Good(n, cats'[n], cached'[n], job'[n], extracted'[n])
    BY <1>2
  <2>3. Sources(n)' = Sources(n) /\ ThreadNumbers(n)' = ThreadNumbers(n)
    BY <2>1, SettledSources
  <2> QED BY <2>2, <2>3 DEF Backed, Heard
<1>3. known \subseteq Msg
  BY DEF SourceInv
<1>4. ASSUME NEW m \in Msg, ProcessMessage(m) PROVE SourceInv'
  <2>1. PICK down, l, j : Decides(m, down, l, j)
    BY <1>4, Processed
  <2>2. Backed(m, l) /\ Heard(m, j)
    <3>1. cats[m] \in SUBSET Category /\ Heard(m, job[m]) /\ MailInv
      BY DEF TypeOK, SourceInv, MailInv
    <3>2. CASE Closes(m, l, j, down)
      <4>1. Of(l, "Vendor") = {} /\ j = job[m]
        BY <3>1, <3>2, SkipList DEF Closes
      <4> QED BY <3>1, <4>1 DEF Backed, Of
    <3>3. CASE Classifies(m, l, j, down)
      <4>1. PICK vendor \in Vendors, kind \in KindsOf(m) :
              /\ l = mergeCategories(cats[m], vendor, {}, kind)
              /\ vendor = "Unknown" \/ vendor \in Sources(m)
              /\ HandsOver(m, j, down, vendor)
        BY <3>3 DEF Classifies
      <4>2. kind \in SUBSET MailKinds
        BY <3>1, MailTypes DEF KindsOf
      <4>3. Of(l, "Vendor") = {<<"Vendor", vendor>>}
        BY <3>1, <4>1, <4>2, MergeList
      <4>4. Backed(m, l)
        BY <4>1, <4>3 DEF Backed, Of
      <4> QED BY <3>1, <4>1, <4>4 DEF HandsOver, Heard
    <3> QED BY <2>1, <3>2, <3>3 DEF Decides
  <2>3. /\ cats' = [cats EXCEPT ![m] = l] /\ job' = [job EXCEPT ![m] = j]
        /\ UNCHANGED <<cached, extracted, known>>
    BY <1>4, <2>1 DEF Decides, ProcessMessage
  <2>4. ASSUME NEW n \in Msg PROVE Good(n, cats'[n], cached'[n], job'[n], extracted'[n])
    <3>1. /\ cats'[n] = (IF n = m THEN l ELSE cats[n]) /\ job'[n] = (IF n = m THEN j ELSE job[n])
          /\ cached'[n] = cached[n] /\ extracted'[n] = extracted[n]
      BY <2>3 DEF TypeOK
    <3> QED BY <1>1, <2>2, <3>1
  <2> QED BY <1>2, <1>3, <2>3, <2>4
<1>5. ASSUME NEW m \in Msg, StoreExtraction(m) PROVE SourceInv'
  <2>1. /\ extracted' = [extracted EXCEPT ![m] = job[m]] /\ job' = [job EXCEPT ![m] = NoPO]
        /\ UNCHANGED <<cats, cached, known>>
    BY <1>5 DEF StoreExtraction
  <2>2. ASSUME NEW n \in Msg PROVE Good(n, cats'[n], cached'[n], job'[n], extracted'[n])
    <3>1. /\ extracted'[n] = (IF n = m THEN job[n] ELSE extracted[n])
          /\ job'[n] = (IF n = m THEN NoPO ELSE job[n])
          /\ cats'[n] = cats[n] /\ cached'[n] = cached[n]
      BY <2>1 DEF TypeOK
    <3>2. Heard(n, NoPO)
      BY DEF Heard
    <3> QED BY <1>1, <3>1, <3>2
  <2> QED BY <1>2, <1>3, <2>1, <2>2
<1>6. ASSUME NEW m \in Msg, Sync(m) PROVE SourceInv'
  <2>1. /\ cached' = [cached EXCEPT ![m] = cats[m]] /\ known' = known \cup {m}
        /\ UNCHANGED <<cats, job, extracted>>
    BY <1>6 DEF Sync
  <2>2. ASSUME NEW n \in Msg PROVE Good(n, cats'[n], cached'[n], job'[n], extracted'[n])
    <3>1. /\ cached'[n] = (IF n = m THEN cats[n] ELSE cached[n])
          /\ cats'[n] = cats[n] /\ job'[n] = job[n] /\ extracted'[n] = extracted[n]
      BY <2>1 DEF TypeOK
    <3> QED BY <1>1, <3>1
  <2> QED BY <1>2, <1>3, <2>1, <2>2
<1>7. ASSUME NEW m \in Msg, Edit(m) PROVE SourceInv'
  <2>1. PICK new : Writes(m, new)
    BY <1>7, EditWrites
  <2>2. Backed(m, new)
    <3>1. Of(new, "Vendor") = Of(cats[m], "Vendor") /\ Backed(m, cats[m])
      BY <2>1 DEF Writes, Edited, SourceInv
    <3> QED BY <3>1 DEF Of, Backed
  <2>3. UNCHANGED <<known, job, extracted>>
    BY <1>7 DEF Edit
  <2>4. ASSUME NEW n \in Msg PROVE Good(n, cats'[n], cached'[n], job'[n], extracted'[n])
    <3>1. /\ cats'[n] = (IF n = m THEN new ELSE cats[n])
          /\ cached'[n] = (IF n = m THEN new ELSE cached[n])
          /\ job'[n] = job[n] /\ extracted'[n] = extracted[n]
      BY <2>1, <2>3 DEF TypeOK, Writes
    <3> QED BY <1>1, <2>2, <3>1
  <2> QED BY <1>2, <1>3, <2>3, <2>4
<1>8. CASE UNCHANGED vars
  BY <1>1, <1>2, <1>3, <1>8 DEF vars
<1> QED BY <1>4, <1>5, <1>6, <1>7, <1>8 DEF Next

LEMMA SourceInit == Init => SourceInv
BY DEF Init, SourceInv, Backed, Heard

\* Every variable keeps its type, whatever the lookups answer; in particular a
\* hand-over has a number.
THEOREM TriageTypes == Spec => []TypeOK
BY TypeInit, TypeStep, SourceInit, SourceStep, PTL DEF Spec

\* However vendors and numbers are passed on, a vendor tag has its source in
\* the message's own conversation.
THEOREM VendorsHaveSource == Spec => []VendorHasSource
<1>1. SourceInv => VendorHasSource
  BY DEF SourceInv, VendorHasSource, Backed, Sources
<1> QED BY <1>1, TypeInit, TypeStep, SourceInit, SourceStep, PTL DEF Spec

-----------------------------------------------------------------------------
(* A message is triaged once: its status stays, and with it what the triage *)
(* found.                                                                    *)

\* po is compared with an order of the vendor on the list, if it can be.
Fitting(m, l, po, down) ==
    po # NoPO /\ po \in KnownPOs \ down => <<"Vendor", VendorOfPO[po]>> \in l

Rightly(m, l, down) ==
    <<"Kind", "Internal">> \in l => Range(mail[m].pos) \cap KnownPOs \subseteq down

Worked(m, l, j, e, down) ==
    /\ ~hasStatus(l) => j = NoPO /\ e = NoPO /\ <<"Kind", "Internal">> \notin l
    /\ Fitting(m, l, j, down) /\ Fitting(m, l, e, down)
    /\ Rightly(m, l, down)

WorkInv == \A m \in Msg : Worked(m, cats[m], job[m], extracted[m], failed[m])

LEMMA WorkStep == TypeOK /\ SourceInv /\ WorkInv /\ [Next]_vars => WorkInv'
<1> SUFFICES ASSUME TypeOK, SourceInv, WorkInv, [Next]_vars PROVE WorkInv'
  OBVIOUS
<1>1. \A n \in Msg : Worked(n, cats[n], job[n], extracted[n], failed[n])
  BY DEF WorkInv
<1>2. ASSUME \A n \in Msg : Worked(n, cats'[n], job'[n], extracted'[n], failed'[n])
      PROVE  WorkInv'
  <2>1. UNCHANGED mail
    BY NextSettled DEF Settled
  <2> QED BY <1>2, <2>1 DEF WorkInv, Worked, Fitting, Rightly
<1>3. ASSUME NEW m \in Msg, ProcessMessage(m) PROVE WorkInv'
  <2>1. PICK down, l, j : Decides(m, down, l, j)
    BY <1>3, Processed
  <2>2. job[m] = NoPO /\ extracted[m] = NoPO
    BY <1>1, <2>1 DEF Worked, Decides
  <2>3. Worked(m, l, j, NoPO, down)
    <3>1. cats[m] \in SUBSET Category /\ MailInv
      BY DEF TypeOK, MailInv
    <3>2. hasStatus(l)
      BY <2>1, DecidedList
    <3>3. CASE Closes(m, l, j, down)
      <4>1. PICK kind \in {"Automation", "Internal"} :
              /\ l = skipCategories(cats[m], kind) /\ j = job[m]
              /\ kind = "Internal" => Range(mail[m].pos) \cap KnownPOs \subseteq down
        BY <3>3 DEF Closes
      <4>2. Of(l, "Kind") = {<<"Kind", kind>>}
        BY <3>1, <4>1, SkipList
      <4>3. Rightly(m, l, down)
        BY <4>1, <4>2 DEF Of, Rightly
      <4> QED BY <2>2, <3>2, <4>1, <4>3 DEF Worked, Fitting
    <3>4. CASE Classifies(m, l, j, down)
      <4>1. PICK vendor \in Vendors, kind \in KindsOf(m) :
              /\ l = mergeCategories(cats[m], vendor, {}, kind)
              /\ HandsOver(m, j, down, vendor)
        BY <3>4 DEF Classifies
      <4>2. kind \in SUBSET MailKinds
        BY <3>1, MailTypes DEF KindsOf
      <4>3. Of(l, "Vendor") = {<<"Vendor", vendor>>} /\ Of(l, "Kind") = {"Kind"} \X kind
        BY <3>1, <4>1, <4>2, MergeList
      <4>4. Rightly(m, l, down)
        BY <4>2, <4>3, TriageAssumption DEF Of, Rightly
      <4>5. Fitting(m, l, j, down)
        BY <2>2, <4>1, <4>3 DEF Of, Fitting, HandsOver
      <4> QED BY <3>2, <4>4, <4>5 DEF Worked, Fitting
    <3> QED BY <2>1, <3>3, <3>4 DEF Decides
  <2>4. ASSUME NEW n \in Msg PROVE Worked(n, cats'[n], job'[n], extracted'[n], failed'[n])
    <3>1. /\ cats' = [cats EXCEPT ![m] = l] /\ job' = [job EXCEPT ![m] = j]
          /\ failed' = [failed EXCEPT ![m] = down] /\ UNCHANGED extracted
      BY <1>3, <2>1 DEF Decides, ProcessMessage
    <3>2. /\ cats'[n] = (IF n = m THEN l ELSE cats[n]) /\ job'[n] = (IF n = m THEN j ELSE job[n])
          /\ failed'[n] = (IF n = m THEN down ELSE failed[n]) /\ extracted'[n] = extracted[n]
      BY <3>1 DEF TypeOK
    <3> QED BY <1>1, <2>2, <2>3, <3>2
  <2> QED BY <1>2, <2>4
<1>4. ASSUME NEW m \in Msg, StoreExtraction(m) PROVE WorkInv'
  <2>1. ASSUME NEW n \in Msg PROVE Worked(n, cats'[n], job'[n], extracted'[n], failed'[n])
    <3>1. /\ extracted'[n] = (IF n = m THEN job[n] ELSE extracted[n])
          /\ job'[n] = (IF n = m THEN NoPO ELSE job[n])
          /\ cats'[n] = cats[n] /\ failed'[n] = failed[n]
      BY <1>4 DEF TypeOK, StoreExtraction
    <3>2. Worked(n, cats[n], job[n], extracted[n], failed[n])
      BY <1>1
    <3>3. Worked(n, cats[n], NoPO, job[n], failed[n])
      BY <3>2 DEF Worked, Fitting
    <3> QED BY <3>1, <3>2, <3>3
  <2> QED BY <1>2, <2>1
<1>5. ASSUME NEW m \in Msg, Sync(m) PROVE WorkInv'
  <2>1. UNCHANGED <<cats, job, extracted, failed>>
    BY <1>5 DEF Sync
  <2> QED BY <1>1, <1>2, <2>1
<1>6. ASSUME NEW m \in Msg, Edit(m) PROVE WorkInv'
  <2>1. PICK new : Writes(m, new)
    BY <1>6, EditWrites
  <2>2. /\ Of(new, "Vendor") = Of(cats[m], "Vendor") /\ Of(new, "Kind") = Of(cats[m], "Kind")
        /\ hasStatus(cats[m]) => hasStatus(new)
    BY <2>1 DEF Writes, Edited
  <2>3. Worked(m, new, job[m], extracted[m], failed[m])
    <3>1. Worked(m, cats[m], job[m], extracted[m], failed[m])
      BY <1>1
    <3> DEFINE kind == <<"Kind", "Internal">>
    <3>2. kind \in new <=> kind \in cats[m]
      <4>1. kind \in Of(new, "Kind") <=> kind \in Of(cats[m], "Kind")
        BY <2>2
      <4> QED BY <4>1 DEF Of
    <3>3. ASSUME NEW po, Fitting(m, cats[m], po, failed[m]) PROVE Fitting(m, new, po, failed[m])
      <4> DEFINE tag == <<"Vendor", VendorOfPO[po]>>
      <4>1. tag \in Of(new, "Vendor") <=> tag \in Of(cats[m], "Vendor")
        BY <2>2
      <4>2. tag \in new <=> tag \in cats[m]
        BY <4>1 DEF Of
      <4> HIDE DEF tag
      <4> QED BY <3>3, <4>2 DEF Fitting, tag
    <3>4. Rightly(m, new, failed[m])
      BY <3>1, <3>2 DEF Worked, Rightly
    <3>5. ~hasStatus(new) => job[m] = NoPO /\ extracted[m] = NoPO /\ kind \notin new
      <4> HIDE DEF kind
      <4> QED BY <2>2, <3>1, <3>2 DEF Worked, kind
    <3> QED BY <3>1, <3>3, <3>4, <3>5 DEF Worked
  <2>4. ASSUME NEW n \in Msg PROVE Worked(n, cats'[n], job'[n], extracted'[n], failed'[n])
    <3>1. /\ cats'[n] = (IF n = m THEN new ELSE cats[n])
          /\ job'[n] = job[n] /\ extracted'[n] = extracted[n] /\ failed'[n] = failed[n]
      BY <1>6, <2>1 DEF TypeOK, Writes, Edit
    <3> QED BY <1>1, <2>3, <3>1
  <2> QED BY <1>2, <2>4
<1>7. CASE UNCHANGED vars
  BY <1>1, <1>2, <1>7 DEF vars
<1> QED BY <1>3, <1>4, <1>5, <1>6, <1>7 DEF Next

LEMMA WorkInit == Init => WorkInv
BY DEF Init, WorkInv, Worked, Fitting, Rightly

\* An invoice is compared with a PO of the vendor its message is tagged with,
\* or with one the ERP could not tell about at the time.
THEOREM JobsFitVendor == Spec => []JobIsOfTaggedVendor
<1>1. WorkInv => JobIsOfTaggedVendor
  <2> SUFFICES ASSUME WorkInv, NEW m \in Msg, NEW po \in {job[m], extracted[m]} \ {NoPO},
                      po \in KnownPOs \ failed[m]
               PROVE  <<"Vendor", VendorOfPO[po]>> \in cats[m]
    BY DEF JobIsOfTaggedVendor
  <2>1. Fitting(m, cats[m], po, failed[m])
    BY DEF WorkInv, Worked
  <2> QED BY <2>1 DEF Fitting
<1> QED BY <1>1, TypeInit, TypeStep, SourceInit, SourceStep, WorkInit, WorkStep, PTL DEF Spec

\* No colleague's mail is closed as chatter while the ERP knows a PO that its
\* subject or preview mentions, unless it did not answer.
THEOREM ChatterOnly == Spec => []ClosedOnlyWithoutPO
<1>1. WorkInv => ClosedOnlyWithoutPO
  BY DEF WorkInv, ClosedOnlyWithoutPO, Worked, Rightly
<1> QED BY <1>1, TypeInit, TypeStep, SourceInit, SourceStep, WorkInit, WorkStep, PTL DEF Spec

-----------------------------------------------------------------------------
(* The accounts-payable tabs. *)

\* One status at most, and the kind the rules gave an external message.
Piled(m, l) ==
    /\ AtMostOne(l)
    /\ ~isInternal(m) /\ mail[m].rule # {} /\ hasVendor(l) => Of(l, "Kind") = {"Kind"} \X mail[m].rule

PileInv == \A m \in Msg : Piled(m, cats[m]) /\ Piled(m, cached[m])

LEMMA PileStep == TypeOK /\ SourceInv /\ PileInv /\ [Next]_vars => PileInv'
<1> SUFFICES ASSUME TypeOK, SourceInv, PileInv, [Next]_vars PROVE PileInv'
  OBVIOUS
<1>1. \A n \in Msg : Piled(n, cats[n]) /\ Piled(n, cached[n])
  BY DEF PileInv
<1>2. ASSUME \A n \in Msg : Piled(n, cats'[n]) /\ Piled(n, cached'[n])
      PROVE  PileInv'
  <2>1. Settled /\ UNCHANGED mail
    BY NextSettled DEF Settled
  <2>2. \A n : isInternal(n)' = isInternal(n)
    BY <2>1, SettledSources
  <2> QED BY <1>2, <2>1, <2>2 DEF PileInv, Piled
<1>3. ASSUME NEW m \in Msg, ProcessMessage(m) PROVE PileInv'
  <2>1. PICK down, l, j : Decides(m, down, l, j)
    BY <1>3, Processed
  <2>2. Piled(m, l)
    <3>1. cats[m] \in SUBSET Category /\ MailInv
      BY DEF TypeOK, MailInv
    <3>2. AtMostOne(l)
      BY <2>1, DecidedList
    <3>3. CASE Closes(m, l, j, down)
      <4>1. Of(l, "Vendor") = {}
        BY <3>1, <3>3, SkipList DEF Closes
      <4> QED BY <3>2, <4>1 DEF Of, Piled, hasVendor
    <3>4. CASE Classifies(m, l, j, down)
      <4>1. PICK vendor \in Vendors, kind \in KindsOf(m) :
              l = mergeCategories(cats[m], vendor, {}, kind)
        BY <3>4 DEF Classifies
      <4>2. kind \in SUBSET MailKinds
        BY <3>1, MailTypes DEF KindsOf
      <4>3. Of(l, "Kind") = {"Kind"} \X kind
        BY <3>1, <4>1, <4>2, MergeList
      <4>4. ~isInternal(m) /\ mail[m].rule # {} => kind = mail[m].rule
        BY DEF KindsOf
      <4> QED BY <3>2, <4>3, <4>4 DEF Piled
    <3> QED BY <2>1, <3>3, <3>4 DEF Decides
  <2>3. ASSUME NEW n \in Msg PROVE Piled(n, cats'[n]) /\ Piled(n, cached'[n])
    <3>1. cats'[n] = (IF n = m THEN l ELSE cats[n]) /\ cached'[n] = cached[n]
      BY <1>3, <2>1 DEF TypeOK, Decides, ProcessMessage
    <3> QED BY <1>1, <2>2, <3>1
  <2> QED BY <1>2, <2>3
<1>4. ASSUME NEW m \in Msg, StoreExtraction(m) PROVE PileInv'
  <2>1. UNCHANGED <<cats, cached>>
    BY <1>4 DEF StoreExtraction
  <2> QED BY <1>1, <1>2, <2>1
<1>5. ASSUME NEW m \in Msg, Sync(m) PROVE PileInv'
  <2>1. ASSUME NEW n \in Msg PROVE Piled(n, cats'[n]) /\ Piled(n, cached'[n])
    <3>1. cached'[n] = (IF n = m THEN cats[n] ELSE cached[n]) /\ cats'[n] = cats[n]
      BY <1>5 DEF TypeOK, Sync
    <3> QED BY <1>1, <3>1
  <2> QED BY <1>2, <2>1
<1>6. ASSUME NEW m \in Msg, Edit(m) PROVE PileInv'
  <2>1. PICK new : Writes(m, new)
    BY <1>6, EditWrites
  <2>2. Piled(m, new)
    <3>1. /\ Of(new, "Vendor") = Of(cats[m], "Vendor") /\ Of(new, "Kind") = Of(cats[m], "Kind")
          /\ AtMostOne(cats[m]) => AtMostOne(new)
      BY <2>1 DEF Writes, Edited
    <3>2. hasVendor(new) <=> hasVendor(cats[m])
      BY <3>1 DEF hasVendor, Of
    <3>3. Piled(m, cats[m])
      BY <1>1
    <3> QED BY <3>1, <3>2, <3>3 DEF Piled
  <2>3. ASSUME NEW n \in Msg PROVE Piled(n, cats'[n]) /\ Piled(n, cached'[n])
    <3>1. /\ cats'[n] = (IF n = m THEN new ELSE cats[n])
          /\ cached'[n] = (IF n = m THEN new ELSE cached[n])
      BY <2>1 DEF TypeOK, Writes
    <3> QED BY <1>1, <2>2, <3>1
  <2> QED BY <1>2, <2>3
<1>7. CASE UNCHANGED vars
  BY <1>1, <1>2, <1>7 DEF vars
<1> QED BY <1>3, <1>4, <1>5, <1>6, <1>7 DEF Next

LEMMA PileInit == Init => PileInv
BY DEF Init, PileInv, Piled, AtMostOne, StatusOf, hasVendor

\* What the tabs see of a message.
LEMMA Seen ==
    ASSUME NEW m
    PROVE  /\ View(m).id = m /\ View(m).cats = cached[m]
           /\ View(m).internal = isInternal(m)
BY Zenon DEF View

\* A row of at most one status is in at most one tab.
LEMMA OneTab ==
    ASSUME NEW v, AtMostOne(v.cats)
    PROVE  \E tab : Piles(v) \subseteq {tab}
<1>1. \A s, t : s \in Status(v) /\ t \in Status(v) => s = t
  <2> SUFFICES ASSUME NEW s \in Status(v), NEW t \in Status(v) PROVE s = t
    OBVIOUS
  <2>1. PICK c \in v.cats : c[1] = "Status" /\ s = c[2]
    BY DEF Status, ValuesOf
  <2>2. PICK d \in v.cats : d[1] = "Status" /\ t = d[2]
    BY DEF Status, ValuesOf
  <2> QED BY <2>1, <2>2 DEF AtMostOne, StatusOf
<1>2. ASSUME NEW tab \in Piles(v)
      PROVE  /\ tab = "unassigned" => InProgress(v) /\ Owner(v) = {}
             /\ tab = "todo" => InProgress(v) /\ Owner(v) # {}
             /\ tab = "hold" => "Blocked" \in Status(v)
             /\ tab = "done" => "Done" \in Status(v)
             /\ tab \in APTabs
  <2>1. tab \in APTabs /\ \E user \in Owners : InTab(v, tab, user, Today)
    BY DEF Piles
  <2>2. PICK user \in Owners : InTab(v, tab, user, Today)
    BY <2>1
  <2> QED BY <2>1, <2>2 DEF InTab, APTabs
<1>3. ASSUME NEW s \in Piles(v), NEW t \in Piles(v) PROVE s = t
  BY <1>1, <1>2 DEF InProgress, APTabs
<1> QED BY <1>3

LEMMA FewPiles ==
    ASSUME NEW S, NEW x, S \subseteq {x}
    PROVE  Cardinality(S) <= 1
<1>1. IsFiniteSet({x}) /\ Cardinality({x}) = 1
  BY FS_Singleton
<1> QED BY <1>1, FS_Subset

\* A row whose kind is shown and which is not closed is in some tab.
LEMMA SomeTab ==
    ASSUME NEW v, v.cats \in SUBSET Category, ~v.internal, hasVendor(v.cats),
           ~hasStatusDoneCategory(v.cats), Kind(v) # {}, Kind(v) \cap HideByDefaultKinds = {},
           Owners # {}
    PROVE  Piles(v) # {}
<1>1. "Done" \notin Status(v)
  <2> SUFFICES ASSUME "Done" \in Status(v) PROVE FALSE
    OBVIOUS
  <2>1. PICK c \in v.cats : c[1] = "Status" /\ c[2] = "Done"
    BY DEF Status, ValuesOf
  <2>2. c = <<"Status", "Done">>
    BY <2>1 DEF Category
  <2> QED BY <2>1, <2>2 DEF hasStatusDoneCategory
<1>2. ~HiddenByDefault(v)
  BY DEF HiddenByDefault
<1>3. ASSUME NEW tab \in APTabs, NEW user \in Owners, InTab(v, tab, user, Today)
      PROVE  Piles(v) # {}
  BY <1>3 DEF Piles
<1>4. CASE "Blocked" \in Status(v)
  <2>1. PICK user : user \in Owners
    OBVIOUS
  <2>2. InTab(v, "hold", user, Today) /\ "hold" \in APTabs
    BY <1>2, <1>4 DEF InTab, APTabs
  <2> QED BY <1>3, <2>1, <2>2
<1>5. CASE "Blocked" \notin Status(v) /\ Owner(v) = {}
  <2>1. PICK user : user \in Owners
    OBVIOUS
  <2>2. InTab(v, "unassigned", user, Today) /\ "unassigned" \in APTabs
    BY <1>1, <1>2, <1>5 DEF InTab, InProgress, APTabs
  <2> QED BY <1>3, <2>1, <2>2
<1>6. CASE "Blocked" \notin Status(v) /\ Owner(v) # {}
  <2>1. PICK user : user \in Owner(v)
    BY <1>6
  <2>2. user \in Owners
    <3>1. PICK c \in v.cats : c[1] = "Owner" /\ c[2] = user
      BY <2>1 DEF Owner, ValuesOf
    <3> QED BY <3>1 DEF Category
  <2>3. InTab(v, "todo", user, Today) /\ "todo" \in APTabs
    BY <1>1, <1>2, <1>6, <2>1 DEF InTab, InProgress, APTabs
  <2> QED BY <1>3, <2>2, <2>3
<1> QED BY <1>4, <1>5, <1>6

\* Every row is in at most one of the accounts-payable tabs, and a tagged one
\* that is to be shown and is not closed is in one, if there are clerks.
THEOREM OnePile == Owners # {} => (Spec => []EachInOnePile)
<1> SUFFICES ASSUME Owners # {} PROVE Spec => []EachInOnePile
  OBVIOUS
<1>1. TypeOK /\ PileInv => EachInOnePile
  <2> SUFFICES ASSUME TypeOK, PileInv, NEW v \in Rows
               PROVE  /\ Cardinality(Piles(v)) <= 1
                      /\ /\ hasVendor(v.cats)
                         /\ mail[v.id].rule \ HideByDefaultKinds # {}
                         /\ ~v.internal
                         /\ ~hasStatusDoneCategory(v.cats)
                         => Piles(v) # {}
    BY DEF EachInOnePile
  <2>1. PICK m \in known : v = View(m)
    BY DEF Rows, fetchMessages, dedupeByConversation, Newest
  <2>2. /\ m \in Msg /\ v.id = m /\ v.cats = cached[m] /\ v.internal = isInternal(m)
        /\ v.cats \in SUBSET Category
    BY <2>1, Seen DEF TypeOK
  <2>3. AtMostOne(v.cats)
    BY <2>2 DEF PileInv, Piled
  <2>4. Cardinality(Piles(v)) <= 1
    BY <2>3, OneTab, FewPiles
  <2>5. ASSUME hasVendor(v.cats), mail[v.id].rule \ HideByDefaultKinds # {}, ~v.internal,
               ~hasStatusDoneCategory(v.cats)
        PROVE  Piles(v) # {}
    <3>1. Of(v.cats, "Kind") = {"Kind"} \X mail[m].rule /\ mail[m].rule \ HideByDefaultKinds # {}
      BY <2>2, <2>5 DEF PileInv, Piled
    <3>2. PICK k : mail[m].rule = {k} /\ k \notin HideByDefaultKinds
      BY <2>2, <3>1, MailTypes DEF MailInv, TypeOK
    <3>3. Of(v.cats, "Kind") = {<<"Kind", k>>}
      BY <3>1, <3>2
    <3>4. Kind(v) = {k}
      <4>1. Kind(v) = {c[2] : c \in Of(v.cats, "Kind")}
        BY DEF Kind, ValuesOf, Of
      <4> QED BY <3>3, <4>1
    <3> QED BY <2>2, <2>5, <3>2, <3>4, SomeTab
  <2> QED BY <2>4, <2>5
<1> QED BY <1>1, TypeInit, TypeStep, SourceInit, SourceStep, PileInit, PileStep, PTL DEF Spec

=============================================================================
