------------------------------- MODULE Mirror -------------------------------
(***************************************************************************)
(* The local mirror of dispatch-web: for every message a sync round has    *)
(* stored, a goroutine fetches the full body and the attachments from      *)
(* Graph into the cache and the blob store (internal/sync/local_cache.go,  *)
(* internal/blobstore).  A second loop, the backfill, looks for messages   *)
(* an earlier goroutine did not finish.  At most MirrorSlots goroutines    *)
(* run, and each of their calls takes one of the client's slots, which it  *)
(* shares with the clerks' requests.                                       *)
(*                                                                         *)
(* The rounds of the sync are InboxSync's; here they only bring messages.  *)
(* An attachment is its content: blobs are named by their digest.          *)
(***************************************************************************)
EXTENDS GraphClient

CONSTANTS
    Msg,
    Age,            \* minutes since each message arrived; no two alike
    Atts,
    AttsOf,         \* the attachments of each message that are not inline
    Mirrors,        \* the places of the mirror semaphore
    Clerks,         \* requests that PATCH categories meanwhile
    Limit,          \* batch size of the backfill
    MaxEvents,      \* bound on what happens to messages (changes, removals,
                    \* months) and on the clerks' requests
    MaxFaults,      \* bound on failing calls, statements and writes, and on crashes
    None

ASSUME MirrorAssumption ==
    /\ Age \in [Msg -> Nat] /\ \A m, n \in Msg : Age[m] = Age[n] => m = n
    /\ AttsOf \in [Msg -> SUBSET Atts]
    /\ Callers = Mirrors \cup Clerks /\ Mirrors \cap Clerks = {}
    /\ Limit \in Nat \ {0}
    /\ {MaxEvents, MaxFaults} \subseteq Nat
    /\ None \notin Msg \cup Atts

VARIABLES
    inGraph,   \* messages Graph still has
    changed,   \* messages the next sync round will bring
    known,     \* messages with a row
    stamp,     \* last_full_body_fetch_at of each row
    body,      \* its body columns
    file,      \* messages with a body file on disk
    row,       \* the attachment rows: "meta" has no blob_sha yet
    blobs,     \* blobs on disk
    link,      \* attachments with a link in the by-message tree
    mirror,    \* what each mirror goroutine is doing
    sync,      \* what the sync round is doing
    backfill,  \* messages the backfill has yet to hand over
    spent      \* events and faults so far

graphVars == <<inGraph, changed>>
cacheVars == <<known, stamp, body, row>>
diskVars == <<file, blobs, link>>
loopVars == <<sync, backfill>>
vars == <<clientVars, graphVars, cacheVars, diskVars, mirror, loopVars, spent>>

Free == [pc |-> "free", msg |-> None, att |-> None, todo |-> {}, have |-> {}]
Resting == [pc |-> "idle", msg |-> None, batch |-> {}, round |-> {}]

Keys == {k \in Msg \X Atts : k[2] \in AttsOf[k[1]]}

Fault ==
    /\ spent.faults < MaxFaults
    /\ spent' = [spent EXCEPT !.faults = @ + 1]

Event ==
    /\ spent.events < MaxEvents
    /\ spent' = [spent EXCEPT !.events = @ + 1]

Init ==
    /\ call = [c \in Callers |-> NoCall] /\ queue = <<>>
    /\ inGraph = Msg /\ changed = Msg
    /\ known = {}
    /\ stamp = [m \in Msg |-> "never"]
    /\ body = [m \in Msg |-> "none"]
    /\ file = {}
    /\ row = [k \in Keys |-> "none"]
    /\ blobs = {} /\ link = {}
    /\ mirror = [g \in Mirrors |-> Free]
    /\ sync = Resting
    /\ backfill = {}
    /\ spent = [events |-> 0, faults |-> 0]

(***************************************************************************)
(* The two loops that start mirrors.                                       *)
(***************************************************************************)

\* The place the goroutine takes is the one it frees at its end.
StartMirror(m) ==
    \E g \in Mirrors :
        /\ mirror[g].pc = "free"
        /\ mirror' = [mirror EXCEPT ![g] = [Free EXCEPT !.pc = "start", !.msg = m]]

ListInboxDelta ==
    /\ sync.pc = "idle" /\ changed # {}
    /\ sync' = [Resting EXCEPT !.pc = "upsert", !.batch = changed, !.round = changed]
    /\ changed' = {}
    /\ UNCHANGED <<clientVars, inGraph, cacheVars, diskVars, mirror, backfill, spent>>

\* What is left of the batch once m is dealt with.
Rest(m) == IF sync.batch \subseteq {m} THEN Resting
           ELSE [sync EXCEPT !.pc = "upsert", !.msg = None, !.batch = @ \ {m}]

\* upsertAndMirror: the row, then a place among the mirrors, for however long.
\* The first row that cannot be written ends the round, whose new link is
\* saved all the same: the rest of the batch does not come again.
UpsertMessage ==
    /\ sync.pc = "upsert"
    /\ \E m \in sync.batch :
          \/ /\ known' = known \cup {m}
             /\ sync' = [sync EXCEPT !.pc = "spawn", !.msg = m]
             /\ UNCHANGED spent
          \/ Fault /\ sync' = Resting /\ UNCHANGED known
    /\ UNCHANGED <<clientVars, graphVars, stamp, body, row, diskVars, mirror, backfill>>

SpawnSynced ==
    /\ sync.pc = "spawn"
    /\ StartMirror(sync.msg)
    /\ sync' = Rest(sync.msg)
    /\ UNCHANGED <<clientVars, graphVars, cacheVars, diskVars, backfill, spent>>

Stragglers ==
    {m \in known :
        \/ stamp[m] = "never"
        \/ AttsOf[m] # {} /\ \A a \in AttsOf[m] : row[<<m, a>>] # "stored"}

Newest(ms) == {m \in ms : Cardinality({n \in ms : Age[n] < Age[m]}) < Limit}

ListUnmirroredMessages == Newest(Stragglers)

BackfillOnce ==
    /\ backfill = {} /\ ListUnmirroredMessages # {}
    /\ backfill' = ListUnmirroredMessages
    /\ UNCHANGED <<clientVars, graphVars, cacheVars, diskVars, mirror, sync, spent>>

SpawnStraggler ==
    /\ \E m \in backfill :
          /\ \A n \in backfill : Age[m] <= Age[n]
          /\ StartMirror(m)
          /\ backfill' = backfill \ {m}
    /\ UNCHANGED <<clientVars, graphVars, cacheVars, diskVars, sync, spent>>

\* The pass has three minutes; what it has not handed over by then waits for
\* another pass.
BackfillTimesOut ==
    /\ backfill # {}
    /\ backfill' = {}
    /\ Fault
    /\ UNCHANGED <<clientVars, graphVars, cacheVars, diskVars, mirror, sync>>

(***************************************************************************)
(* MirrorMessage.                                                          *)
(***************************************************************************)

Goto(g, pc) == mirror' = [mirror EXCEPT ![g].pc = pc]
End(g) == mirror' = [mirror EXCEPT ![g] = Free]

\* The answer of a call leaves the goroutine at pc.
At(g, pc) == mirror[g].pc = pc /\ Answered(g) /\ Take(g)

\* A body fetched in the last thirty days is kept, unless its stamp cannot be
\* read.
MirrorMessage(g) ==
    /\ mirror[g].pc = "start"
    /\ \/ /\ stamp[mirror[g].msg] = "fresh"
          /\ Goto(g, "atts")
          /\ UNCHANGED <<clientVars, spent>>
       \/ /\ \/ stamp[mirror[g].msg] # "fresh" /\ UNCHANGED spent
             \/ Fault
          /\ Goto(g, "body")
          /\ Call(g, "GET")
    /\ UNCHANGED <<graphVars, cacheVars, diskVars, loopVars>>

UpdateMessageBody(m, content) ==
    /\ stamp' = [stamp EXCEPT ![m] = "fresh"]
    /\ body' = [body EXCEPT ![m] = content]

\* Mutant: nothing is stamped for a message Graph has no more.
fetchAndStoreBodyLeave(g) ==
    /\ At(g, "body")
    /\ Goto(g, IF call[g].answer = "ok" THEN "store" ELSE "atts")
    /\ UNCHANGED <<stamp, body, spent, graphVars, known, row, diskVars, loopVars>>

\* A message Graph has no more is stamped with an empty body; any other error
\* leaves the body for later.  The two are told apart by looking for "404" in
\* the text of the error, which holds the message's id and Graph's answer: it
\* may be found in any error.
fetchAndStoreBody(g) ==
    LET answer == call[g].answer
    IN /\ At(g, "body")
       /\ Goto(g, IF answer = "ok" THEN "store" ELSE "atts")
       /\ \/ answer # "gone" /\ UNCHANGED <<stamp, body, spent>>
          \/ answer # "ok" /\ UpdateMessageBody(mirror[g].msg, "empty") /\ UNCHANGED spent
          \/ answer = "gone" /\ Fault /\ UNCHANGED <<stamp, body>>
       /\ UNCHANGED <<graphVars, known, row, diskVars, loopVars>>

\* The columns, then the file people browse, which nothing reads: a process
\* that dies in between is one whose write failed.
StoreBody(g) ==
    LET m == mirror[g].msg
        stored == UpdateMessageBody(m, "stored")
    IN /\ mirror[g].pc = "store"
       /\ \/ stored /\ file' = file \cup {m} /\ UNCHANGED spent
          \/ stored /\ Fault /\ UNCHANGED file
          \/ Fault /\ UNCHANGED <<stamp, body, file>>
       /\ Goto(g, "atts")
       /\ UNCHANGED <<clientVars, graphVars, known, row, blobs, link, loopVars>>

ListAttachments(g) ==
    /\ mirror[g].pc = "atts"
    /\ \/ AttsOf[mirror[g].msg] = {} /\ End(g) /\ UNCHANGED clientVars
       \/ AttsOf[mirror[g].msg] # {} /\ Goto(g, "list") /\ Call(g, "GET")
    /\ UNCHANGED <<graphVars, cacheVars, diskVars, loopVars, spent>>

\* The rows are read once, before the first download; a failed read counts as
\* no rows.
fetchAndStoreAttachments(g) ==
    LET m == mirror[g].msg
        goon(have) == mirror' = [mirror EXCEPT ![g].pc = "next", ![g].todo = AttsOf[m],
                                               ![g].have = have]
    IN /\ At(g, "list")
       /\ \/ /\ call[g].answer = "ok"
             /\ \/ goon({a \in AttsOf[m] : row[<<m, a>>] = "stored"}) /\ UNCHANGED spent
                \/ goon({}) /\ Fault
          \/ call[g].answer # "ok" /\ End(g) /\ UNCHANGED spent
       /\ UNCHANGED <<graphVars, cacheVars, diskVars, loopVars>>

\* The by-message link (the by-vendor one is made alike): an old link goes
\* first, and the new one may fail.
LinkByMessage(k) ==
    \/ link' = link \cup {k} /\ UNCHANGED spent
    \/ link' = link \ {k} /\ Fault

\* A stored attachment has its links renewed, another is downloaded.
NextAttachment(g) ==
    LET m == mirror[g].msg
        here(a) == a \in mirror[g].have /\ a \in blobs
    IN /\ mirror[g].pc = "next"
       /\ \/ mirror[g].todo = {} /\ End(g) /\ UNCHANGED <<clientVars, link, spent>>
          \/ \E a \in mirror[g].todo :
                /\ here(a)
                /\ mirror' = [mirror EXCEPT ![g].todo = @ \ {a}]
                /\ LinkByMessage(<<m, a>>)
                /\ UNCHANGED clientVars
          \/ \E a \in mirror[g].todo :
                /\ ~here(a)
                /\ mirror' = [mirror EXCEPT ![g].todo = @ \ {a}, ![g].att = a, ![g].pc = "fetch"]
                /\ Call(g, "GET")
                /\ UNCHANGED <<link, spent>>
       /\ UNCHANGED <<graphVars, cacheVars, file, blobs, loopVars>>

\* Mutant: the columns of the statement are what the arguments say.
UpsertAttachmentPlain(k, state) == row' = [row EXCEPT ![k] = state]

\* A row that has its blob keeps it.
UpsertAttachment(k, state) ==
    row' = [row EXCEPT ![k] = IF @ = "stored" THEN @ ELSE state]

\* A row for the attachment that could not be had; that too may fail.
RecordError(g) ==
    \/ UpsertAttachment(<<mirror[g].msg, mirror[g].att>>, "meta")
    \/ UNCHANGED row

\* The content is read after the slot is given back.
FetchAttachmentContent(g) ==
    /\ At(g, "fetch")
    /\ \/ call[g].answer = "ok" /\ Goto(g, "put") /\ UNCHANGED <<row, spent>>
       \/ call[g].answer = "ok" /\ Goto(g, "next") /\ Fault /\ RecordError(g)
       \/ call[g].answer # "ok" /\ Goto(g, "next") /\ UNCHANGED spent /\ RecordError(g)
    /\ UNCHANGED <<graphVars, known, stamp, body, diskVars, loopVars>>

\* Mutant: the error of the write is logged and forgotten.
PutAnyway(g) ==
    /\ mirror[g].pc = "put"
    /\ \/ blobs' = blobs \cup {mirror[g].att} /\ UNCHANGED spent
       \/ Fault /\ UNCHANGED blobs
    /\ Goto(g, "row")
    /\ UNCHANGED <<clientVars, graphVars, cacheVars, file, link, loopVars>>

\* Temporary file and rename: the blob is whole or it is not there.
Put(g) ==
    /\ mirror[g].pc = "put"
    /\ \/ blobs' = blobs \cup {mirror[g].att} /\ Goto(g, "row") /\ UNCHANGED <<row, spent>>
       \/ Fault /\ Goto(g, "next") /\ RecordError(g) /\ UNCHANGED blobs
    /\ UNCHANGED <<clientVars, graphVars, known, stamp, body, file, link, loopVars>>

\* A failing statement ends the goroutine, the other attachments with it.
StoreAttachment(g) ==
    LET k == <<mirror[g].msg, mirror[g].att>>
    IN /\ mirror[g].pc = "row"
       /\ \/ /\ UpsertAttachment(k, "stored")
             /\ LinkByMessage(k)
             /\ Goto(g, "next")
          \/ Fault /\ End(g) /\ UNCHANGED <<row, link>>
       /\ UNCHANGED <<clientVars, graphVars, known, stamp, body, file, blobs, loopVars>>

MirrorStep(g) ==
    \/ MirrorMessage(g) \/ fetchAndStoreBody(g) \/ StoreBody(g)
    \/ ListAttachments(g) \/ fetchAndStoreAttachments(g) \/ NextAttachment(g)
    \/ FetchAttachmentContent(g) \/ Put(g) \/ StoreAttachment(g)

(***************************************************************************)
(* Graph, the clerks, time and crashes.                                    *)
(***************************************************************************)

rest == <<graphVars, cacheVars, diskVars, mirror, loopVars>>

\* What Graph knows about the message of a call.
Answer(c) ==
    /\ \/ Respond(c, IF c \in Mirrors /\ mirror[c].msg \notin inGraph THEN "gone" ELSE "ok")
       \/ SpentBody(c) /\ Respond(c, "error")
    /\ UNCHANGED <<rest, spent>>

Slot(c) == acquire(c) /\ UNCHANGED <<rest, spent>>
Resend(c) == Wake(c) /\ UNCHANGED <<rest, spent>>

\* A phase of throttling counts as one fault, however many attempts it lasts.
Trouble(c) ==
    /\ \/ call[c].tries = 0 /\ Fault /\ (Throttle(c) \/ Respond(c, "error"))
       \/ call[c].tries > 0 /\ UNCHANGED spent /\ (Throttle(c) \/ Respond(c, "throttled"))
    /\ UNCHANGED rest

\* A handler's SetCategories: what it changes is the Workflow module's.
SetCategories(c) ==
    /\ Event
    /\ Call(c, "PATCH")
    /\ UNCHANGED rest

Return(c) == Answered(c) /\ Take(c) /\ UNCHANGED <<rest, spent>>

Happens ==
    /\ Event
    /\ UNCHANGED <<clientVars, known, body, row, diskVars, mirror, loopVars>>

Change(m) ==
    /\ Happens
    /\ m \in inGraph
    /\ changed' = changed \cup {m}
    /\ UNCHANGED <<inGraph, stamp>>

Leave(m) ==
    /\ Happens
    /\ m \in inGraph
    /\ inGraph' = inGraph \ {m}
    /\ changed' = changed \ {m}
    /\ UNCHANGED stamp

\* Thirty days pass.
GrowsOld(m) ==
    /\ Happens
    /\ stamp[m] = "fresh"
    /\ stamp' = [stamp EXCEPT ![m] = "old"]
    /\ UNCHANGED graphVars

\* dispatch-web dies: the round is repeated from the link it began with.
Restart ==
    /\ Fault
    /\ call' = [c \in Callers |-> NoCall] /\ queue' = <<>>
    /\ mirror' = [g \in Mirrors |-> Free]
    /\ changed' = changed \cup (sync.round \cap inGraph)
    /\ sync' = Resting
    /\ backfill' = {}
    /\ UNCHANGED <<inGraph, cacheVars, diskVars>>

Next ==
    \/ ListInboxDelta \/ UpsertMessage \/ SpawnSynced
    \/ BackfillOnce \/ SpawnStraggler \/ BackfillTimesOut
    \/ \E g \in Mirrors : MirrorStep(g)
    \/ \E c \in Callers : Slot(c) \/ Answer(c) \/ Resend(c) \/ Trouble(c)
    \/ \E c \in Clerks : SetCategories(c) \/ Return(c)
    \/ \E m \in Msg : Change(m) \/ Leave(m) \/ GrowsOld(m)
    \/ Restart

\* Goroutines run on, Graph answers or the client's timeout does, sleepers
\* wake, both loops have tickers, and a place in a channel goes to whoever has
\* waited longest.
Fairness ==
    /\ WF_vars(ListInboxDelta \/ UpsertMessage) /\ SF_vars(SpawnSynced)
    /\ WF_vars(BackfillOnce) /\ SF_vars(SpawnStraggler)
    /\ \A c \in Callers :
          /\ WF_vars(Slot(c))
          /\ WF_vars(Answer(c) \/ Resend(c) \/ (c \in Mirrors /\ MirrorStep(c))
                     \/ (c \in Clerks /\ Return(c)))

Spec == Init /\ [][Next]_vars /\ Fairness

(***************************************************************************)
(* Properties.                                                             *)
(***************************************************************************)

\* Every variable keeps its type, and only a goroutine that waits for Graph
\* has a call.
TypeOK ==
    /\ TypeOKClient
    /\ inGraph \subseteq Msg /\ changed \subseteq Msg /\ known \subseteq Msg
    /\ stamp \in [Msg -> {"never", "fresh", "old"}]
    /\ body \in [Msg -> {"none", "empty", "stored"}]
    /\ row \in [Keys -> {"none", "meta", "stored"}]
    /\ file \subseteq Msg /\ blobs \subseteq Atts /\ link \subseteq Keys
    /\ \A g \in Mirrors :
          /\ mirror[g].msg \in known \cup {None}
          /\ mirror[g].pc \in {"body", "list", "fetch"} <=> call[g].state # "none"
    /\ backfill \subseteq known /\ sync.batch \subseteq sync.round
    /\ spent \in [events : 0..MaxEvents, faults : 0..MaxFaults]

\* A row that names a blob and a link that leads to one never dangle, also
\* when the process dies between any two steps (Put before UpsertAttachment
\* before the links).
BlobBehindRow ==
    /\ \A k \in Keys : row[k] = "stored" => k[2] \in blobs
    /\ \A k \in link : row[k] = "stored"

\* Two goroutines can mirror one message at a time (a sync round and the
\* backfill): the failure of one never takes away what the other has stored.
StoredStays ==
    [][\A k \in Keys : row[k] = "stored" => row'[k] = "stored"]_vars

\* With its two nested semaphores the mirror never comes to a halt: every
\* goroutine ends, and every call of a clerk is answered.
MirrorsEnd ==
    /\ \A g \in Mirrors : (mirror[g].pc # "free") ~> (mirror[g].pc = "free")
    /\ \A c \in Clerks : (call[c].state = "waiting") ~> (call[c].state = "none")

\* A message with a row comes to have a stamped body and, if it has
\* attachments, one of them, whatever failed on the way (BackfillOnce) and
\* although each pass takes only the newest: if it stays in the mailbox, and so
\* does every newer one that has attachments.  A newer one that is gone and has
\* none is stamped and out of the way; one that is gone and had some keeps its
\* place in every pass.
StragglersMirrored ==
    \A m \in Msg :
        [](\A n \in Msg : Age[n] <= Age[m] /\ (n = m \/ AttsOf[n] # {}) => n \in inGraph)
            => <>[](m \notin Stragglers)

=============================================================================
