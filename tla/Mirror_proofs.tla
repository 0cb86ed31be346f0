---------------------------- MODULE Mirror_proofs ----------------------------
(***************************************************************************)
(* No attachment row points at a blob that is not there, and no row loses  *)
(* the blob it has, for any number of mirrors, messages, faults and        *)
(* restarts.  The argument: a blob is never removed, a goroutine names one *)
(* in a row only after it has put it, and what it takes for stored when it *)
(* reads the rows is still stored when it makes the link.                  *)
(***************************************************************************)
EXTENDS Mirror, TLAPS

PC == {"free", "start", "body", "store", "atts", "list", "next", "fetch", "put", "row"}

MirrorType ==
    mirror \in [Mirrors -> [pc : PC, msg : Msg \cup {None}, att : Atts \cup {None},
                            todo : SUBSET Atts, have : SUBSET Atts]]

RowType == row \in [Keys -> {"none", "meta", "stored"}]

\* The disk is behind the rows, and only attachments have links.
DiskInv == link \subseteq Keys /\ BlobBehindRow

\* Every message on its way to a goroutine is one of the mailbox.
LoopType ==
    /\ changed \subseteq Msg /\ known \subseteq Msg /\ backfill \subseteq Msg
    /\ sync \in [pc : {"idle", "upsert", "spawn"}, msg : Msg \cup {None},
                 batch : SUBSET Msg, round : SUBSET Msg]
    /\ sync.pc = "spawn" => sync.msg \in Msg

\* What a goroutine knows at its step: its message; the attachments that are
\* left and those it read as stored; the one it has in hand; its blob.
Holds(g) ==
    LET r == mirror[g] IN
    /\ r.pc # "free" => r.msg \in Msg
    /\ r.pc \in {"next", "fetch", "put", "row"} =>
          /\ r.todo \subseteq AttsOf[r.msg]
          /\ \A a \in r.have : a \in AttsOf[r.msg] /\ row[<<r.msg, a>>] = "stored"
    /\ r.pc \in {"fetch", "put", "row"} => r.att \in AttsOf[r.msg]
    /\ r.pc = "row" => r.att \in blobs

IInv ==
    /\ MirrorType /\ RowType /\ LoopType
    /\ DiskInv
    /\ \A g \in Mirrors : Holds(g)

---------------------------------------------------------------------------

\* A row that has a blob keeps it in this step.
StoredKept == \A k \in Keys : row[k] = "stored" => row'[k] = "stored"

LEMMA KeyOfAttachment ==
    ASSUME NEW m \in Msg, NEW a \in AttsOf[m]
    PROVE  <<m, a>> \in Keys /\ a \in Atts
BY MirrorAssumption DEF MirrorAssumption, Keys

\* A goroutine is not disturbed by steps that keep rows and blobs.
LEMMA HoldsOn ==
    ASSUME MirrorType, NEW h \in Mirrors, Holds(h), mirror'[h] = mirror[h],
           StoredKept, blobs \subseteq blobs'
    PROVE  Holds(h)'
<1>1. mirror[h].pc # "free" => mirror[h].msg \in Msg
  BY DEF Holds
<1>2. \A a \in mirror[h].have : mirror[h].pc \in {"next", "fetch", "put", "row"} =>
          a \in AttsOf[mirror[h].msg] /\ row'[<<mirror[h].msg, a>>] = "stored"
  BY <1>1, KeyOfAttachment DEF Holds, StoredKept
<1> QED BY <1>1, <1>2 DEF Holds

\* So a step of g has to be examined for g alone.
LEMMA OneMoves ==
    ASSUME IInv, NEW g \in Mirrors,
           \A h \in Mirrors \ {g} : mirror'[h] = mirror[h],
           MirrorType', RowType', LoopType', DiskInv',
           StoredKept, blobs \subseteq blobs', Holds(g)'
    PROVE  IInv'
<1>1. ASSUME NEW h \in Mirrors PROVE Holds(h)'
  <2>1. CASE h = g BY <2>1
  <2>2. CASE h # g BY <2>2, HoldsOn DEF IInv
  <2> QED BY <2>1, <2>2
<1> QED BY <1>1 DEF IInv

\* A step that touches neither goroutines, rows nor disk.
LEMMA NoneMoves ==
    ASSUME IInv, UNCHANGED <<mirror, row, diskVars>>, LoopType'
    PROVE  IInv'
BY DEF IInv, MirrorType, RowType, DiskInv, BlobBehindRow, Holds, diskVars

---------------------------------------------------------------------------
(* The loops that start mirrors, and what surrounds them. *)

LEMMA InitHolds == Init => IInv
<1> SUFFICES ASSUME Init PROVE IInv
  OBVIOUS
<1>1. MirrorType /\ \A g \in Mirrors : Holds(g)
  BY DEF Init, MirrorType, Holds, Free, PC
<1>2. RowType /\ LoopType /\ DiskInv
  BY DEF Init, RowType, LoopType, DiskInv, BlobBehindRow, Resting
<1> QED BY <1>1, <1>2 DEF IInv

LEMMA StartMirrorHolds ==
    ASSUME IInv, NEW m \in Msg, StartMirror(m), UNCHANGED <<row, diskVars>>, LoopType'
    PROVE  IInv'
<1>1. PICK g \in Mirrors :
          mirror' = [mirror EXCEPT ![g] = [Free EXCEPT !.pc = "start", !.msg = m]]
  BY DEF StartMirror
<1>2. MirrorType' /\ Holds(g)'
  BY <1>1 DEF IInv, MirrorType, Holds, Free, PC
<1>3. \A h \in Mirrors \ {g} : mirror'[h] = mirror[h]
  BY <1>1 DEF IInv, MirrorType
<1>4. RowType' /\ DiskInv' /\ StoredKept /\ blobs \subseteq blobs'
  BY DEF IInv, RowType, DiskInv, BlobBehindRow, StoredKept, diskVars
<1> QED BY <1>2, <1>3, <1>4, OneMoves

LEMMA RestTyped ==
    ASSUME LoopType, NEW m
    PROVE  /\ Rest(m) \in [pc : {"idle", "upsert", "spawn"}, msg : Msg \cup {None},
                           batch : SUBSET Msg, round : SUBSET Msg]
           /\ Rest(m).pc # "spawn"
<1>1. CASE sync.batch \subseteq {m}
  BY <1>1 DEF Rest, Resting
<1>2. CASE ~(sync.batch \subseteq {m})
  BY <1>2 DEF Rest, LoopType
<1> QED BY <1>1, <1>2

LEMMA LoopsHold ==
    ASSUME IInv, ListInboxDelta \/ UpsertMessage \/ SpawnSynced
                 \/ BackfillOnce \/ SpawnStraggler \/ BackfillTimesOut
    PROVE  IInv'
<1> USE DEF cacheVars, graphVars, loopVars
<1>1. CASE ListInboxDelta
  BY <1>1, NoneMoves DEF ListInboxDelta, IInv, LoopType, Resting
<1>2. CASE UpsertMessage
  <2>1. PICK m \in sync.batch :
            \/ known' = known \cup {m} /\ sync' = [sync EXCEPT !.pc = "spawn", !.msg = m]
            \/ known' = known /\ sync' = Resting
    BY <1>2 DEF UpsertMessage
  <2>2. m \in Msg /\ UNCHANGED <<changed, backfill>>
    BY <1>2 DEF UpsertMessage, IInv, LoopType
  <2>3. LoopType'
    <3>1. CASE known' = known \cup {m} /\ sync' = [sync EXCEPT !.pc = "spawn", !.msg = m]
      BY <3>1, <2>2 DEF IInv, LoopType
    <3>2. CASE known' = known /\ sync' = Resting
      BY <3>2, <2>2 DEF IInv, LoopType, Resting
    <3> QED BY <2>1, <3>1, <3>2
  <2> QED BY <1>2, <2>3, NoneMoves DEF UpsertMessage
<1>3. CASE SpawnSynced
  <2>1. LoopType'
    BY <1>3, RestTyped DEF SpawnSynced, IInv, LoopType
  <2> QED BY <1>3, <2>1, StartMirrorHolds DEF SpawnSynced, IInv, LoopType
<1>4. CASE BackfillOnce
  BY <1>4, NoneMoves
     DEF BackfillOnce, ListUnmirroredMessages, Newest, Stragglers, IInv, LoopType
<1>5. CASE SpawnStraggler
  <2>1. PICK m \in backfill : StartMirror(m) /\ backfill' = backfill \ {m}
    BY <1>5 DEF SpawnStraggler
  <2>2. LoopType' /\ m \in Msg
    BY <1>5, <2>1 DEF SpawnStraggler, IInv, LoopType
  <2> QED BY <1>5, <2>1, <2>2, StartMirrorHolds DEF SpawnStraggler
<1>6. CASE BackfillTimesOut
  BY <1>6, NoneMoves DEF BackfillTimesOut, IInv, LoopType
<1> QED BY <1>1, <1>2, <1>3, <1>4, <1>5, <1>6

LEMMA RestartHolds ==
    ASSUME IInv, Restart
    PROVE  IInv'
<1>1. MirrorType' /\ \A g \in Mirrors : Holds(g)'
  BY DEF Restart, MirrorType, Holds, Free, PC
<1>2. RowType' /\ LoopType' /\ DiskInv'
  BY DEF Restart, IInv, RowType, LoopType, DiskInv, BlobBehindRow, Resting, cacheVars, diskVars
<1> QED BY <1>1, <1>2 DEF IInv

LEMMA SurroundingsHold ==
    ASSUME IInv,
           \/ \E c \in Callers : Slot(c) \/ Answer(c) \/ Resend(c) \/ Trouble(c)
           \/ \E c \in Clerks : SetCategories(c) \/ Return(c)
           \/ \E m \in Msg : Change(m) \/ Leave(m) \/ GrowsOld(m)
    PROVE  IInv'
<1>1. UNCHANGED <<mirror, row, diskVars>> /\ LoopType'
  BY DEF IInv, LoopType, Slot, Answer, Resend, Trouble, SetCategories, Return, Change, Leave,
         GrowsOld, Happens, rest, graphVars, cacheVars, loopVars
<1> QED BY <1>1, NoneMoves

---------------------------------------------------------------------------
(* MirrorMessage, step by step. *)

\* What no step of a goroutine touches.
LEMMA LoopStays ==
    ASSUME IInv, UNCHANGED <<graphVars, known, loopVars>>
    PROVE  LoopType'
BY DEF IInv, LoopType, graphVars, loopVars

\* The goroutine ends, or goes to a step before it has looked at attachments.
LEMMA EarlyStep ==
    ASSUME IInv, NEW g \in Mirrors, mirror[g].pc # "free",
           NEW pc \in {"body", "store", "atts", "list"},
           mirror' \in {[mirror EXCEPT ![g].pc = pc], [mirror EXCEPT ![g] = Free]},
           UNCHANGED <<row, blobs, link, graphVars, known, loopVars>>
    PROVE  IInv'
<1>1. MirrorType' /\ \A h \in Mirrors \ {g} : mirror'[h] = mirror[h]
  BY DEF IInv, MirrorType, Free, PC
<1>2. Holds(g)'
  BY DEF IInv, MirrorType, Holds, Free
<1>3. RowType' /\ DiskInv' /\ StoredKept /\ blobs \subseteq blobs'
  BY DEF IInv, RowType, DiskInv, BlobBehindRow, StoredKept
<1> QED BY <1>1, <1>2, <1>3, LoopStays, OneMoves

LEMMA BodyHolds ==
    ASSUME IInv, NEW g \in Mirrors,
           MirrorMessage(g) \/ fetchAndStoreBody(g) \/ StoreBody(g) \/ ListAttachments(g)
    PROVE  IInv'
<1> USE DEF Goto, End, diskVars, cacheVars
<1>1. CASE MirrorMessage(g)
  BY <1>1, EarlyStep DEF MirrorMessage
<1>2. CASE fetchAndStoreBody(g)
  BY <1>2, EarlyStep DEF fetchAndStoreBody, At
<1>3. CASE StoreBody(g)
  BY <1>3, EarlyStep DEF StoreBody
<1>4. CASE ListAttachments(g)
  BY <1>4, EarlyStep DEF ListAttachments
<1> QED BY <1>1, <1>2, <1>3, <1>4

\* g goes to pc, with the attachments todo left and att in hand; what it knows
\* of its message stays, and so do the others.
Moves(g, pc, todo, att) ==
    /\ MirrorType'
    /\ \A h \in Mirrors \ {g} : mirror'[h] = mirror[h]
    /\ mirror'[g].pc = pc /\ mirror'[g].todo = todo /\ mirror'[g].att = att
    /\ mirror'[g].msg = mirror[g].msg /\ mirror'[g].have = mirror[g].have

LEMMA MovesByGoto ==
    ASSUME MirrorType, NEW g \in Mirrors, NEW pc \in PC, Goto(g, pc)
    PROVE  Moves(g, pc, mirror[g].todo, mirror[g].att)
BY DEF MirrorType, Goto, Moves

LEMMA MovesByTodo ==
    ASSUME MirrorType, NEW g \in Mirrors, NEW a,
           mirror' = [mirror EXCEPT ![g].todo = @ \ {a}]
    PROVE  Moves(g, mirror[g].pc, mirror[g].todo \ {a}, mirror[g].att)
BY DEF MirrorType, Moves

LEMMA MovesByFetch ==
    ASSUME MirrorType, NEW g \in Mirrors, NEW a \in Atts,
           mirror' = [mirror EXCEPT ![g].todo = @ \ {a}, ![g].att = a, ![g].pc = "fetch"]
    PROVE  Moves(g, "fetch", mirror[g].todo \ {a}, a)
BY ZenonT(40) DEF MirrorType, Moves, PC

\* The goroutine is among the attachments and stays there; rows and disk
\* change as the premises say.
LEMMA AttachmentStep ==
    ASSUME IInv, NEW g \in Mirrors,
           mirror[g].pc \in {"next", "fetch", "put", "row"},
           NEW pc \in {"next", "fetch", "put", "row"},
           NEW todo \in SUBSET mirror[g].todo, NEW att,
           Moves(g, pc, todo, att),
           pc # "next" => att \in AttsOf[mirror[g].msg],
           pc = "row" => att \in blobs',
           RowType', DiskInv', StoredKept, blobs \subseteq blobs',
           UNCHANGED <<graphVars, known, loopVars>>
    PROVE  IInv'
<1>1. /\ mirror[g].msg \in Msg /\ mirror[g].todo \subseteq AttsOf[mirror[g].msg]
      /\ \A a \in mirror[g].have :
            a \in AttsOf[mirror[g].msg] /\ row[<<mirror[g].msg, a>>] = "stored"
  BY DEF IInv, Holds
<1>2. \A a \in mirror[g].have : row'[<<mirror[g].msg, a>>] = "stored"
  BY <1>1, KeyOfAttachment DEF StoredKept
<1>3. Holds(g)'
  BY <1>1, <1>2 DEF Holds, Moves
<1> QED BY <1>3, LoopStays, OneMoves DEF Moves

\* The goroutine ends, with rows and disk changed as the premises say.
LEMMA LastStep ==
    ASSUME IInv, NEW g \in Mirrors, mirror' = [mirror EXCEPT ![g] = Free],
           RowType', DiskInv', StoredKept, blobs \subseteq blobs',
           UNCHANGED <<graphVars, known, loopVars>>
    PROVE  IInv'
<1>1. MirrorType' /\ Holds(g)' /\ \A h \in Mirrors \ {g} : mirror'[h] = mirror[h]
  BY DEF IInv, MirrorType, Holds, Free, PC
<1> QED BY <1>1, LoopStays, OneMoves

\* A row is written: to a blob that is there, or without one.
LEMMA RowWritten ==
    ASSUME IInv, NEW k \in Keys, NEW state \in {"meta", "stored"},
           UpsertAttachment(k, state), state = "stored" => k[2] \in blobs,
           UNCHANGED blobs
    PROVE  /\ RowType' /\ StoredKept
           /\ \A l \in Keys : row'[l] = "stored" => l[2] \in blobs'
           /\ state = "stored" => row'[k] = "stored"
BY DEF IInv, RowType, DiskInv, BlobBehindRow, UpsertAttachment, StoredKept

LEMMA ErrorRecorded ==
    ASSUME IInv, NEW g \in Mirrors, mirror[g].pc \in {"fetch", "put"}, RecordError(g),
           UNCHANGED <<blobs, link>>
    PROVE  RowType' /\ StoredKept /\ DiskInv'
<1>1. <<mirror[g].msg, mirror[g].att>> \in Keys
  BY KeyOfAttachment DEF IInv, Holds
<1>2. CASE UNCHANGED row
  BY <1>2 DEF IInv, RowType, DiskInv, BlobBehindRow, StoredKept
<1>3. CASE UpsertAttachment(<<mirror[g].msg, mirror[g].att>>, "meta")
  <2>1. RowType' /\ StoredKept /\ \A l \in Keys : row'[l] = "stored" => l[2] \in blobs'
    BY <1>1, <1>3, RowWritten
  <2> QED BY <2>1 DEF IInv, DiskInv, BlobBehindRow, StoredKept, RowType
<1> QED BY <1>2, <1>3 DEF RecordError

\* g has read the list of attachments, and which of them are stored.
Listed(g, todo, have) ==
    /\ MirrorType'
    /\ \A h \in Mirrors \ {g} : mirror'[h] = mirror[h]
    /\ mirror'[g].pc = "next" /\ mirror'[g].msg = mirror[g].msg
    /\ mirror'[g].todo = todo /\ mirror'[g].have = have

LEMMA ListedByAnswer ==
    ASSUME MirrorType, NEW g \in Mirrors, NEW todo \in SUBSET Atts, NEW have \in SUBSET Atts,
           mirror' = [mirror EXCEPT ![g].pc = "next", ![g].todo = todo, ![g].have = have]
    PROVE  Listed(g, todo, have)
BY ZenonT(40) DEF MirrorType, PC, Listed

LEMMA ListHolds ==
    ASSUME IInv, NEW g \in Mirrors, fetchAndStoreAttachments(g)
    PROVE  IInv'
<1>1. /\ mirror[g].pc = "list" /\ mirror[g].msg \in Msg
      /\ UNCHANGED <<row, blobs, link, graphVars, known, loopVars>>
  BY DEF fetchAndStoreAttachments, At, IInv, Holds, cacheVars, diskVars
<1>2. RowType' /\ DiskInv' /\ StoredKept /\ blobs \subseteq blobs'
  BY <1>1 DEF IInv, RowType, DiskInv, BlobBehindRow, StoredKept
<1>3. CASE End(g)
  BY <1>1, <1>2, <1>3, LastStep DEF End
<1>4. ASSUME NEW have \in SUBSET AttsOf[mirror[g].msg],
             \A a \in have : row[<<mirror[g].msg, a>>] = "stored",
             mirror' = [mirror EXCEPT ![g].pc = "next", ![g].todo = AttsOf[mirror[g].msg],
                                      ![g].have = have]
      PROVE  IInv'
  <2>1. AttsOf[mirror[g].msg] \in SUBSET Atts /\ have \in SUBSET Atts
    BY <1>1, <1>4, MirrorAssumption DEF MirrorAssumption
  <2>2. MirrorType
    BY DEF IInv
  <2>3. Listed(g, AttsOf[mirror[g].msg], have)
    BY <1>4, <2>1, <2>2, ListedByAnswer
  <2>4. Holds(g)'
    BY <1>1, <1>4, <2>3 DEF Holds, Listed
  <2>5. LoopType'
    BY <1>1, LoopStays
  <2>6. MirrorType' /\ \A h \in Mirrors \ {g} : mirror'[h] = mirror[h]
    BY <2>3 DEF Listed
  <2> QED BY <1>2, <2>4, <2>5, <2>6, OneMoves
<1>5. CASE ~End(g)
  <2> DEFINE m == mirror[g].msg
  <2>1. PICK have \in {{}, {a \in AttsOf[m] : row[<<m, a>>] = "stored"}} :
            mirror' = [mirror EXCEPT ![g].pc = "next", ![g].todo = AttsOf[m], ![g].have = have]
    BY <1>5 DEF fetchAndStoreAttachments
  <2>2. have \in SUBSET AttsOf[m] /\ \A a \in have : row[<<m, a>>] = "stored"
    BY <2>1
  <2> QED BY <1>4, <2>1, <2>2
<1> QED BY <1>3, <1>5

LEMMA NextHolds ==
    ASSUME IInv, NEW g \in Mirrors, NextAttachment(g)
    PROVE  IInv'
<1>1. /\ mirror[g].pc = "next" /\ mirror[g].msg \in Msg
      /\ mirror[g].todo \subseteq AttsOf[mirror[g].msg]
      /\ UNCHANGED <<row, blobs, graphVars, known, loopVars>>
  BY DEF NextAttachment, IInv, Holds, cacheVars
<1>2. RowType' /\ StoredKept /\ blobs \subseteq blobs'
  BY <1>1 DEF IInv, RowType, StoredKept
<1>3. CASE End(g) /\ UNCHANGED link
  BY <1>1, <1>2, <1>3, LastStep DEF End, IInv, DiskInv, BlobBehindRow
<1>4. ASSUME NEW a \in mirror[g].todo, a \in mirror[g].have,
             mirror' = [mirror EXCEPT ![g].todo = @ \ {a}],
             LinkByMessage(<<mirror[g].msg, a>>)
      PROVE  IInv'
  <2>1. row[<<mirror[g].msg, a>>] = "stored" /\ <<mirror[g].msg, a>> \in Keys
    BY <1>1, <1>4, KeyOfAttachment DEF IInv, Holds
  <2>2. DiskInv'
    BY <1>1, <1>4, <2>1 DEF LinkByMessage, IInv, DiskInv, BlobBehindRow
  <2>3. Moves(g, "next", mirror[g].todo \ {a}, mirror[g].att)
    BY <1>1, <1>4, MovesByTodo DEF IInv
  <2> QED BY <1>1, <1>2, <2>2, <2>3, AttachmentStep
<1>5. ASSUME NEW a \in mirror[g].todo, UNCHANGED link,
             mirror' = [mirror EXCEPT ![g].todo = @ \ {a}, ![g].att = a, ![g].pc = "fetch"]
      PROVE  IInv'
  <2>1. a \in Atts
    BY <1>1, <1>5, KeyOfAttachment
  <2>2. Moves(g, "fetch", mirror[g].todo \ {a}, a)
    BY <1>5, <2>1, MovesByFetch DEF IInv
  <2>3. DiskInv'
    BY <1>1, <1>5 DEF IInv, DiskInv, BlobBehindRow
  <2> QED BY <1>1, <1>2, <2>2, <2>3, AttachmentStep
<1> QED BY <1>3, <1>4, <1>5 DEF NextAttachment

LEMMA FetchHolds ==
    ASSUME IInv, NEW g \in Mirrors, FetchAttachmentContent(g)
    PROVE  IInv'
<1>1. /\ mirror[g].pc = "fetch" /\ mirror[g].att \in AttsOf[mirror[g].msg]
      /\ UNCHANGED <<blobs, link, graphVars, known, loopVars>>
  BY DEF FetchAttachmentContent, At, IInv, Holds, diskVars
<1>2. CASE Goto(g, "put") /\ UNCHANGED row
  <2>1. RowType' /\ StoredKept /\ DiskInv'
    BY <1>1, <1>2 DEF IInv, RowType, DiskInv, BlobBehindRow, StoredKept
  <2>2. Moves(g, "put", mirror[g].todo, mirror[g].att)
    BY <1>2, MovesByGoto DEF IInv, PC
  <2> QED BY <1>1, <2>1, <2>2, AttachmentStep
<1>3. CASE Goto(g, "next") /\ RecordError(g)
  <2>1. Moves(g, "next", mirror[g].todo, mirror[g].att)
    BY <1>3, MovesByGoto DEF IInv, PC
  <2> QED BY <1>1, <1>3, <2>1, ErrorRecorded, AttachmentStep
<1> QED BY <1>2, <1>3 DEF FetchAttachmentContent

LEMMA PutHolds ==
    ASSUME IInv, NEW g \in Mirrors, Put(g)
    PROVE  IInv'
<1>1. /\ mirror[g].pc = "put" /\ mirror[g].att \in AttsOf[mirror[g].msg]
      /\ UNCHANGED <<link, graphVars, known, loopVars>>
  BY DEF Put, IInv, Holds
<1>2. CASE blobs' = blobs \cup {mirror[g].att} /\ Goto(g, "row") /\ UNCHANGED row
  <2>1. RowType' /\ StoredKept /\ DiskInv' /\ blobs \subseteq blobs'
    BY <1>1, <1>2 DEF IInv, RowType, DiskInv, BlobBehindRow, StoredKept
  <2>2. Moves(g, "row", mirror[g].todo, mirror[g].att)
    BY <1>2, MovesByGoto DEF IInv, PC
  <2> QED BY <1>1, <1>2, <2>1, <2>2, AttachmentStep
<1>3. CASE Goto(g, "next") /\ RecordError(g) /\ UNCHANGED blobs
  <2>1. Moves(g, "next", mirror[g].todo, mirror[g].att)
    BY <1>3, MovesByGoto DEF IInv, PC
  <2> QED BY <1>1, <1>3, <2>1, ErrorRecorded, AttachmentStep
<1> QED BY <1>2, <1>3 DEF Put

LEMMA StoreHolds ==
    ASSUME IInv, NEW g \in Mirrors, StoreAttachment(g)
    PROVE  IInv'
<1> DEFINE k == <<mirror[g].msg, mirror[g].att>>
<1>1. /\ mirror[g].pc = "row" /\ k \in Keys /\ k[2] \in blobs
      /\ UNCHANGED <<blobs, graphVars, known, loopVars>>
  BY KeyOfAttachment DEF StoreAttachment, IInv, Holds
<1>2. CASE End(g) /\ UNCHANGED <<row, link>>
  BY <1>1, <1>2, LastStep DEF End, IInv, RowType, DiskInv, BlobBehindRow, StoredKept
<1>3. CASE UpsertAttachment(k, "stored") /\ LinkByMessage(k) /\ Goto(g, "next")
  <2>1. /\ RowType' /\ StoredKept /\ row'[k] = "stored"
        /\ \A l \in Keys : row'[l] = "stored" => l[2] \in blobs'
    BY <1>1, <1>3, RowWritten
  <2>2. \A l \in link : row'[l] = "stored"
    BY <2>1 DEF IInv, DiskInv, BlobBehindRow, StoredKept
  <2>3. DiskInv'
    BY <1>1, <1>3, <2>1, <2>2 DEF LinkByMessage, IInv, DiskInv, BlobBehindRow
  <2>4. Moves(g, "next", mirror[g].todo, mirror[g].att)
    BY <1>3, MovesByGoto DEF IInv, PC
  <2> QED BY <1>1, <2>1, <2>3, <2>4, AttachmentStep
<1> QED BY <1>2, <1>3 DEF StoreAttachment

---------------------------------------------------------------------------
(* Every step. *)

LEMMA IInvHolds == IInv /\ [Next]_vars => IInv'
<1> SUFFICES ASSUME IInv, [Next]_vars PROVE IInv'
  OBVIOUS
<1>1. CASE ListInboxDelta \/ UpsertMessage \/ SpawnSynced
           \/ BackfillOnce \/ SpawnStraggler \/ BackfillTimesOut
  BY <1>1, LoopsHold
<1>2. CASE \E g \in Mirrors : MirrorStep(g)
  BY <1>2, BodyHolds, ListHolds, NextHolds, FetchHolds, PutHolds, StoreHolds DEF MirrorStep
<1>3. CASE \/ \E c \in Callers : Slot(c) \/ Answer(c) \/ Resend(c) \/ Trouble(c)
           \/ \E c \in Clerks : SetCategories(c) \/ Return(c)
           \/ \E m \in Msg : Change(m) \/ Leave(m) \/ GrowsOld(m)
  BY <1>3, SurroundingsHold
<1>4. CASE Restart
  BY <1>4, RestartHolds
<1>5. CASE UNCHANGED vars
  <2>1. UNCHANGED <<mirror, row, diskVars, graphVars, known, loopVars>>
    BY <1>5 DEF vars, graphVars, cacheVars, diskVars, loopVars
  <2> QED BY <2>1, LoopStays, NoneMoves
<1> QED BY <1>1, <1>2, <1>3, <1>4, <1>5 DEF Next

\* Only UpsertAttachment writes rows.
LEMMA RowsWritten ==
    ASSUME Next
    PROVE  \/ UNCHANGED row
           \/ \E g \in Mirrors, state \in {"meta", "stored"} :
                  UpsertAttachment(<<mirror[g].msg, mirror[g].att>>, state)
<1>1. CASE ListInboxDelta \/ UpsertMessage \/ SpawnSynced
           \/ BackfillOnce \/ SpawnStraggler \/ BackfillTimesOut
  BY <1>1 DEF ListInboxDelta, UpsertMessage, SpawnSynced, BackfillOnce, SpawnStraggler,
              BackfillTimesOut, cacheVars
<1>2. CASE \E g \in Mirrors : MirrorStep(g)
  <2>1. PICK g \in Mirrors : MirrorStep(g)
    BY <1>2
  <2>2. CASE \/ MirrorMessage(g) \/ fetchAndStoreBody(g) \/ StoreBody(g)
             \/ ListAttachments(g) \/ fetchAndStoreAttachments(g) \/ NextAttachment(g)
    BY <2>2 DEF MirrorMessage, fetchAndStoreBody, StoreBody, ListAttachments,
                fetchAndStoreAttachments, NextAttachment, cacheVars
  <2>3. CASE FetchAttachmentContent(g) \/ Put(g) \/ StoreAttachment(g)
    BY <2>3 DEF FetchAttachmentContent, Put, StoreAttachment, RecordError
  <2> QED BY <2>1, <2>2, <2>3 DEF MirrorStep
<1>3. CASE \/ \E c \in Callers : Slot(c) \/ Answer(c) \/ Resend(c) \/ Trouble(c)
           \/ \E c \in Clerks : SetCategories(c) \/ Return(c)
           \/ \E m \in Msg : Change(m) \/ Leave(m) \/ GrowsOld(m)
  BY <1>3 DEF Slot, Answer, Resend, Trouble, SetCategories, Return, Change, Leave,
              GrowsOld, Happens, rest, graphVars, cacheVars
<1>4. CASE Restart
  BY <1>4 DEF Restart, cacheVars
<1> QED BY <1>1, <1>2, <1>3, <1>4 DEF Next

LEMMA StoredKeptHolds == IInv /\ [Next]_vars => StoredKept
<1> SUFFICES ASSUME IInv, [Next]_vars PROVE StoredKept
  OBVIOUS
<1>1. CASE UNCHANGED row
  BY <1>1 DEF StoredKept
<1>2. CASE \E g \in Mirrors, state \in {"meta", "stored"} :
               UpsertAttachment(<<mirror[g].msg, mirror[g].att>>, state)
  BY <1>2 DEF UpsertAttachment, IInv, RowType, StoredKept
<1>3. CASE UNCHANGED vars
  BY <1>3, <1>1 DEF vars, cacheVars
<1> QED BY <1>1, <1>2, <1>3, RowsWritten

LEMMA Invariance == Spec => []IInv
BY InitHolds, IInvHolds, PTL DEF Spec

\* No attachment row names a blob that is not on disk, and no link leads to
\* one, whatever goroutines race, fail or die (fetchAndStoreAttachments, Put,
\* UpsertAttachment).
THEOREM BlobsBehindRows == Spec => []BlobBehindRow
<1>1. IInv => BlobBehindRow
  BY DEF IInv, DiskInv
<1> QED BY <1>1, Invariance, PTL

\* No step takes the blob of an attachment away again: the row a failing
\* goroutine writes keeps what another has stored (UpsertAttachment).
THEOREM RowsKeepBlobs == Spec => StoredStays
<1>1. IInv /\ [Next]_vars => [\A k \in Keys : row[k] = "stored" => row'[k] = "stored"]_vars
  BY StoredKeptHolds DEF StoredKept
<1> QED BY <1>1, Invariance, PTL DEF Spec, StoredStays

---------------------------------------------------------------------------
(* The rest of the types, and who has a call. *)

\* A caller waits once.
QueueOnce == \A i, j \in 1 .. Len(queue) : queue[i] = queue[j] => i = j

ClientInv == TypeOKClient /\ QueueOnce

Waits == {"body", "list", "fetch"}

CallersMatch ==
    \A g \in Mirrors : mirror[g].pc \in Waits <=> call[g].state # "none"

PlainType ==
    /\ inGraph \subseteq Msg
    /\ stamp \in [Msg -> {"never", "fresh", "old"}]
    /\ body \in [Msg -> {"none", "empty", "stored"}]
    /\ file \subseteq Msg /\ blobs \subseteq Atts
    /\ spent \in [events : 0..MaxEvents, faults : 0..MaxFaults]

\* Whoever works on a message has its row.
KnownInv ==
    /\ \A g \in Mirrors : mirror[g].msg \in known \cup {None}
    /\ backfill \subseteq known /\ sync.batch \subseteq sync.round
    /\ sync.pc = "spawn" => sync.msg \in known

RestInv == ClientInv /\ CallersMatch /\ PlainType /\ KnownInv

LEMMA RestInit == Init => RestInv
<1> SUFFICES ASSUME Init PROVE RestInv
  OBVIOUS
<1>1. ClientInv
  BY GraphClientAssumption
  DEF Init, ClientInv, TypeOKClient, QueueOnce, NoCall, Verbs, Answers, GraphClientAssumption
<1>2. CallersMatch
  BY MirrorAssumption DEF Init, CallersMatch, Waits, NoCall, Free, MirrorAssumption
<1>3. PlainType
  BY MirrorAssumption DEF Init, PlainType, MirrorAssumption
<1>4. KnownInv
  BY DEF Init, KnownInv, Free, Resting
<1> QED BY <1>1, <1>2, <1>3, <1>4 DEF RestInv

\* What the client does for one caller: the call of the caller, the others'
\* and the queue.
ClientStep(c) ==
    \/ Call(c, "GET") \/ Call(c, "PATCH") \/ acquire(c) \/ Throttle(c) \/ Wake(c)
    \/ \E answer \in Answers : Respond(c, answer)
    \/ Answered(c) /\ Take(c)

CallRecord == [state : {"none", "waiting", "sent", "asleep", "answered"},
               verb : Verbs, tries : 0..maxRetries, answer : Answers]

\* The call of c becomes new.
Becomes(c, new) ==
    /\ new \in CallRecord /\ new.state # call[c].state
    /\ call' = [call EXCEPT ![c] = new]

LEMMA OneCall ==
    ASSUME ClientInv, NEW c \in Callers, ClientStep(c)
    PROVE  \E new \in CallRecord :
              /\ Becomes(c, new)
              /\ \/ /\ call[c].state = "none" /\ new.state = "waiting"
                    /\ queue' = Append(queue, c)
                 \/ acquire(c) /\ call[c].state = "waiting" /\ new.state = "sent"
                 \/ /\ call[c].state # "waiting" /\ new.state # "waiting"
                    /\ queue' = queue
<1>1. call \in [Callers -> CallRecord] /\ call[c] \in CallRecord
  BY DEF ClientInv, TypeOKClient, CallRecord
<1>2. /\ maxRetries \in Nat \ {0}
      /\ \A verb \in Verbs : [NoCall EXCEPT !.state = "waiting", !.verb = verb] \in CallRecord
      /\ NoCall \in CallRecord
  <2>1. maxRetries \in Nat \ {0} /\ 0 \in 0..maxRetries
    BY GraphClientAssumption DEF GraphClientAssumption
  <2>2. NoCall \in CallRecord
    BY <2>1 DEF NoCall, CallRecord, Verbs, Answers
  <2>3. \A verb \in Verbs : [NoCall EXCEPT !.state = "waiting", !.verb = verb] \in CallRecord
    BY <2>2 DEF CallRecord
  <2> QED BY <2>1, <2>2, <2>3
<1>3. ASSUME NEW verb \in Verbs, Call(c, verb)
      PROVE  LET new == [NoCall EXCEPT !.state = "waiting", !.verb = verb]
             IN  /\ Becomes(c, new) /\ new \in CallRecord
                 /\ call[c].state = "none" /\ new.state = "waiting"
                 /\ queue' = Append(queue, c)
  <2> DEFINE new == [NoCall EXCEPT !.state = "waiting", !.verb = verb]
  <2>1. new.state = "waiting" /\ new \in CallRecord
    BY <1>2, <1>3 DEF NoCall
  <2> QED BY <1>3, <2>1 DEF Call, Becomes
<1>4. CASE Call(c, "GET") \/ Call(c, "PATCH")
  BY <1>3, <1>4 DEF Verbs
<1>5. \A x : call' = [call EXCEPT ![c].state = x] =>
        call' = [call EXCEPT ![c] = [call[c] EXCEPT !.state = x]]
  BY <1>1
<1>6. CASE acquire(c)
  <2> DEFINE new == [call[c] EXCEPT !.state = "sent"]
  <2>1. new \in CallRecord /\ new.state = "sent"
    BY <1>1 DEF CallRecord
  <2>2. call[c].state = "waiting"
    BY <1>6 DEF acquire, ClientInv, TypeOKClient
  <2>3. Becomes(c, new)
    BY <1>6, <1>5, <2>1, <2>2 DEF acquire, Becomes
  <2> QED BY <1>6, <2>1, <2>2, <2>3
<1>7. CASE Wake(c)
  <2> DEFINE new == [call[c] EXCEPT !.state = "sent"]
  <2>1. new \in CallRecord /\ new.state = "sent"
    BY <1>1 DEF CallRecord
  <2>2. Becomes(c, new)
    BY <1>7, <1>5, <2>1 DEF Wake, Becomes
  <2> QED BY <1>7, <2>1, <2>2 DEF Wake
<1>8. CASE Throttle(c)
  <2> DEFINE new == [call[c] EXCEPT !.state = "asleep", !.tries = call[c].tries + 1]
  <2>1. new \in CallRecord /\ new.state = "asleep"
    <3>1. call[c].tries \in 0..maxRetries /\ call[c].tries < maxRetries
      BY <1>1, <1>8 DEF CallRecord, Throttle
    <3>2. \A n \in 0..maxRetries : n < maxRetries => n + 1 \in 0..maxRetries
      BY GraphClientAssumption DEF GraphClientAssumption
    <3>3. call[c].tries + 1 \in 0..maxRetries
      BY <3>1, <3>2
    <3> QED BY <1>1, <3>3 DEF CallRecord
  <2>2. call' = [call EXCEPT ![c] = new]
    BY <1>1, <1>8 DEF Throttle
  <2>3. Becomes(c, new)
    BY <1>8, <2>1, <2>2 DEF Throttle, Becomes
  <2> QED BY <1>8, <2>1, <2>3 DEF Throttle
<1>9. ASSUME NEW answer \in Answers, Respond(c, answer)
      PROVE  LET new == [call[c] EXCEPT !.state = "answered", !.answer = answer]
             IN  /\ Becomes(c, new) /\ new \in CallRecord
                 /\ call[c].state = "sent" /\ new.state = "answered"
                 /\ queue' = queue
  <2> DEFINE new == [call[c] EXCEPT !.state = "answered", !.answer = answer]
  <2>1. new \in CallRecord /\ new.state = "answered"
    BY <1>1 DEF CallRecord
  <2>2. call' = [call EXCEPT ![c] = new]
    BY <1>1, <1>9 DEF Respond
  <2> QED BY <1>9, <2>1, <2>2 DEF Respond, Becomes
<1>10. CASE \E answer \in Answers : Respond(c, answer)
  BY <1>9, <1>10
<1>11. CASE Answered(c) /\ Take(c)
  <2>1. NoCall.state = "none" /\ Becomes(c, NoCall)
    BY <1>2, <1>11 DEF Answered, Take, NoCall, Becomes
  <2> QED BY <1>2, <1>11, <2>1 DEF Answered, Take
<1> QED BY <1>4, <1>6, <1>7, <1>8, <1>10, <1>11 DEF ClientStep

LEMMA ClientHolds ==
    ASSUME ClientInv, NEW c \in Callers, ClientStep(c)
    PROVE  ClientInv'
<1>1. PICK new \in CallRecord :
         /\ Becomes(c, new)
         /\ \/ /\ call[c].state = "none" /\ new.state = "waiting"
               /\ queue' = Append(queue, c)
            \/ acquire(c) /\ call[c].state = "waiting" /\ new.state = "sent"
            \/ /\ call[c].state # "waiting" /\ new.state # "waiting"
               /\ queue' = queue
  BY OneCall
<1>2. /\ queue \in Seq(Callers)
      /\ \A d \in Callers : call[d].state = "waiting" <=> \E i \in 1..Len(queue) : queue[i] = d
      /\ QueueOnce
      /\ call \in [Callers -> CallRecord]
  BY DEF ClientInv, TypeOKClient, CallRecord
<1>3. /\ call' \in [Callers -> CallRecord]
      /\ call'[c] = new /\ \A d \in Callers \ {c} : call'[d] = call[d]
  BY <1>1, <1>2 DEF Becomes
<1>4. ASSUME queue' \in Seq(Callers), QueueOnce',
             \A d \in Callers : call'[d].state = "waiting"
                                <=> \E i \in 1..Len(queue') : queue'[i] = d
      PROVE  ClientInv'
  BY <1>3, <1>4 DEF ClientInv, TypeOKClient, CallRecord
<1>5. CASE call[c].state = "none" /\ new.state = "waiting" /\ queue' = Append(queue, c)
  <2>1. \A i \in 1 .. Len(queue) : queue[i] # c
    BY <1>2, <1>5
  <2>2. /\ queue' \in Seq(Callers) /\ Len(queue') = Len(queue) + 1 /\ Len(queue) \in Nat
        /\ \A i \in 1 .. Len(queue) : queue'[i] = queue[i]
        /\ queue'[Len(queue) + 1] = c
    BY <1>2, <1>5
  <2>3. QueueOnce'
    BY <1>2, <2>1, <2>2 DEF QueueOnce
  <2>4. ASSUME NEW d \in Callers
        PROVE  call'[d].state = "waiting" <=> \E i \in 1..Len(queue') : queue'[i] = d
    <3>1. CASE d = c
      BY <1>3, <1>5, <2>2, <3>1
    <3>2. CASE d # c
      <4>1. call'[d] = call[d]
        BY <1>3, <3>2
      <4>2. (\E i \in 1..Len(queue) : queue[i] = d) <=> \E i \in 1..Len(queue') : queue'[i] = d
        BY <2>2, <3>2
      <4> QED BY <1>2, <4>1, <4>2
    <3> QED BY <3>1, <3>2
  <2> QED BY <1>4, <2>2, <2>3, <2>4
<1>6. CASE acquire(c) /\ call[c].state = "waiting" /\ new.state = "sent"
  <2>1. queue # <<>> /\ queue[1] = c /\ queue' = Tail(queue)
    BY <1>2, <1>6 DEF acquire
  <2>2. /\ queue' \in Seq(Callers) /\ Len(queue') = Len(queue) - 1
        /\ \A i \in 1 .. Len(queue') : queue'[i] = queue[i + 1]
        /\ Len(queue) \in Nat \ {0}
    BY <1>2, <2>1
  <2>3. \A i \in 1 .. Len(queue') : i + 1 \in 1 .. Len(queue) /\ i + 1 # 1
    BY <2>2
  <2>4. QueueOnce'
    <3> SUFFICES ASSUME NEW i \in 1 .. Len(queue'), NEW j \in 1 .. Len(queue'),
                        queue'[i] = queue'[j]
                 PROVE  i = j
      BY DEF QueueOnce
    <3>1. queue[i + 1] = queue[j + 1]
      BY <2>2
    <3>2. i + 1 = j + 1
      BY <1>2, <2>3, <3>1 DEF QueueOnce
    <3> QED BY <3>2
  <2>5. ASSUME NEW d \in Callers
        PROVE  call'[d].state = "waiting" <=> \E i \in 1..Len(queue') : queue'[i] = d
    <3>1. CASE d = c
      <4>1. \A i \in 1..Len(queue') : queue'[i] # c
        <5> SUFFICES ASSUME NEW i \in 1..Len(queue'), queue'[i] = c PROVE FALSE
          OBVIOUS
        <5>1. queue[i + 1] = queue[1] /\ 1 \in 1..Len(queue)
          BY <2>1, <2>2
        <5> QED BY <1>2, <2>3, <5>1 DEF QueueOnce
      <4> QED BY <1>3, <1>6, <3>1, <4>1
    <3>2. CASE d # c
      <4>1. call'[d] = call[d]
        BY <1>3, <3>2
      <4>2. (\E i \in 1..Len(queue) : queue[i] = d) <=> \E i \in 1..Len(queue') : queue'[i] = d
        <5>1. ASSUME NEW i \in 1..Len(queue), queue[i] = d
              PROVE  i - 1 \in 1..Len(queue') /\ queue'[i - 1] = d
          BY <2>1, <2>2, <3>2, <5>1
        <5> QED BY <2>2, <2>3, <5>1
      <4> QED BY <1>2, <4>1, <4>2
    <3> QED BY <3>1, <3>2
  <2> QED BY <1>4, <2>2, <2>4, <2>5
<1>7. CASE call[c].state # "waiting" /\ new.state # "waiting" /\ queue' = queue
  <2>1. \A d \in Callers : call'[d].state = "waiting" <=> call[d].state = "waiting"
    BY <1>3, <1>7
  <2>2. QueueOnce'
    BY <1>2, <1>7 DEF QueueOnce
  <2> QED BY <1>2, <1>4, <1>7, <2>1, <2>2
<1> QED BY <1>1, <1>5, <1>6, <1>7


LEMMA CallerState ==
    ASSUME ClientInv, NEW c \in Callers
    PROVE  /\ ClientStep(c) => \A d \in Callers \ {c} : call'[d] = call[d]
           /\ Call(c, "GET") \/ Call(c, "PATCH") =>
                call[c].state = "none" /\ call'[c].state # "none"
           /\ Take(c) => call'[c].state = "none"
           /\ acquire(c) \/ Throttle(c) \/ Wake(c) \/ (\E x \in Answers : Respond(c, x)) =>
                call[c].state # "none" /\ call'[c].state # "none"
<1>1. call \in [Callers -> CallRecord]
  BY DEF ClientInv, TypeOKClient, CallRecord
<1>2. ClientStep(c) => \A d \in Callers \ {c} : call'[d] = call[d]
  BY <1>1 DEF ClientStep, Call, acquire, Throttle, Wake, Respond, Take
<1>3. ASSUME NEW verb, Call(c, verb)
      PROVE  call[c].state = "none" /\ call'[c].state # "none"
  <2>1. [NoCall EXCEPT !.state = "waiting", !.verb = verb].state = "waiting"
    BY DEF NoCall
  <2> QED BY <1>1, <1>3, <2>1 DEF Call
<1>4. Take(c) => call'[c].state = "none"
  BY <1>1 DEF Take, NoCall
<1>5. acquire(c) \/ Throttle(c) \/ Wake(c) \/ (\E x \in Answers : Respond(c, x)) =>
        call[c].state # "none" /\ call'[c].state # "none"
  <2>1. call[c] \in CallRecord
    BY <1>1
  <2>2. \A x, y : /\ [call[c] EXCEPT !.state = x].state = x
                  /\ [call[c] EXCEPT !.state = x, !.answer = y].state = x
                  /\ [call[c] EXCEPT !.state = x, !.tries = y].state = x
    BY <2>1 DEF CallRecord
  <2>3. acquire(c) => call[c].state # "none"
    BY DEF acquire, ClientInv, TypeOKClient
  <2> QED BY <1>1, <2>1, <2>2, <2>3 DEF acquire, Throttle, Wake, Respond, CallRecord
<1> QED BY <1>2, <1>3, <1>4, <1>5


\* Every step leaves the client alone, serves one caller, or ends all calls.
LEMMA ClientMoves ==
    ASSUME Next
    PROVE  \/ UNCHANGED clientVars
           \/ \E c \in Callers : ClientStep(c)
           \/ Restart
<1>1. CASE ListInboxDelta \/ UpsertMessage \/ SpawnSynced
           \/ BackfillOnce \/ SpawnStraggler \/ BackfillTimesOut
  BY <1>1 DEF ListInboxDelta, UpsertMessage, SpawnSynced, BackfillOnce, SpawnStraggler,
              BackfillTimesOut
<1>2. ASSUME NEW g \in Mirrors, MirrorStep(g)
      PROVE  UNCHANGED clientVars \/ \E c \in Callers : ClientStep(c)
  <2>1. g \in Callers
    BY MirrorAssumption DEF MirrorAssumption
  <2>2. UNCHANGED clientVars \/ ClientStep(g)
    BY <1>2
    DEF MirrorStep, MirrorMessage, fetchAndStoreBody, StoreBody, ListAttachments,
        fetchAndStoreAttachments, NextAttachment, FetchAttachmentContent, Put,
        StoreAttachment, At, ClientStep
  <2> QED BY <2>1, <2>2
<1>3. ASSUME NEW c \in Callers, Slot(c) \/ Answer(c) \/ Resend(c) \/ Trouble(c)
      PROVE  ClientStep(c)
  BY <1>3 DEF Slot, Answer, Resend, Trouble, ClientStep, Answers
<1>4. ASSUME NEW c \in Clerks, SetCategories(c) \/ Return(c)
      PROVE  c \in Callers /\ ClientStep(c)
  BY <1>4, MirrorAssumption DEF SetCategories, Return, ClientStep, MirrorAssumption
<1>5. ASSUME NEW m \in Msg, Change(m) \/ Leave(m) \/ GrowsOld(m)
      PROVE  UNCHANGED clientVars
  BY <1>5 DEF Change, Leave, GrowsOld, Happens
<1> QED BY <1>1, <1>2, <1>3, <1>4, <1>5 DEF Next

LEMMA ClientInvHolds == ClientInv /\ [Next]_vars => ClientInv'
<1> SUFFICES ASSUME ClientInv, [Next]_vars PROVE ClientInv'
  OBVIOUS
<1>1. CASE UNCHANGED clientVars
  BY <1>1 DEF clientVars, ClientInv, TypeOKClient, QueueOnce
<1>2. CASE Restart
  <2>1. NoCall \in CallRecord /\ NoCall.state = "none"
    BY GraphClientAssumption
    DEF GraphClientAssumption, NoCall, CallRecord, Verbs, Answers
  <2> QED BY <1>2, <2>1 DEF Restart, ClientInv, TypeOKClient, QueueOnce, CallRecord
<1> QED BY <1>1, <1>2, ClientMoves, ClientHolds DEF vars, clientVars

\* A goroutine that does not touch its call goes between steps that have none.
LEMMA MatchOne ==
    ASSUME CallersMatch, NEW g \in Mirrors,
           \A h \in Mirrors \ {g} : mirror'[h] = mirror[h] /\ call'[h] = call[h],
           mirror'[g].pc \in Waits <=> call'[g].state # "none"
    PROVE  CallersMatch'
BY DEF CallersMatch

LEMMA MatchMirror ==
    ASSUME IInv, ClientInv, CallersMatch, NEW g \in Mirrors, MirrorStep(g)
    PROVE  CallersMatch'
<1>1. g \in Callers /\ Mirrors \subseteq Callers
  BY MirrorAssumption DEF MirrorAssumption
<1>2. mirror \in [Mirrors -> [pc : PC, msg : Msg \cup {None}, att : Atts \cup {None},
                            todo : SUBSET Atts, have : SUBSET Atts]]
  BY DEF IInv, MirrorType
<1>3. /\ \A pc : Goto(g, pc) => mirror'[g].pc = pc
      /\ End(g) => mirror'[g].pc = "free"
  BY <1>2 DEF Goto, End, Free
<1>4. \A h \in Mirrors \ {g} : mirror'[h] = mirror[h] /\ call'[h] = call[h]
  <2>1. \A h \in Mirrors \ {g} : mirror'[h] = mirror[h]
    BY <1>2, <1>3
    DEF MirrorStep, MirrorMessage, fetchAndStoreBody, StoreBody, ListAttachments,
        fetchAndStoreAttachments, NextAttachment, FetchAttachmentContent, Put,
        StoreAttachment, Goto, End
  <2>2. UNCHANGED clientVars \/ ClientStep(g)
    BY DEF MirrorStep, MirrorMessage, fetchAndStoreBody, StoreBody, ListAttachments,
        fetchAndStoreAttachments, NextAttachment, FetchAttachmentContent, Put,
        StoreAttachment, At, ClientStep
  <2> QED BY <1>1, <2>1, <2>2, CallerState DEF clientVars
<1>5. ASSUME mirror'[g].pc \in Waits,
             Call(g, "GET") \/ (UNCHANGED clientVars /\ mirror[g].pc \in Waits)
      PROVE  CallersMatch'
  BY <1>1, <1>4, <1>5, MatchOne, CallerState DEF clientVars, CallersMatch
<1>6. ASSUME mirror'[g].pc \notin Waits,
             Take(g) \/ (UNCHANGED clientVars /\ mirror[g].pc \notin Waits)
      PROVE  CallersMatch'
  BY <1>1, <1>4, <1>6, MatchOne, CallerState DEF clientVars, CallersMatch
<1> USE DEF Waits
<1>7. CASE MirrorMessage(g)
  <2>1. CASE Goto(g, "atts") /\ UNCHANGED clientVars /\ mirror[g].pc = "start"
    BY <1>3, <1>6, <2>1
  <2>2. CASE Goto(g, "body") /\ Call(g, "GET")
    BY <1>3, <1>5, <2>2
  <2> QED BY <1>7, <2>1, <2>2 DEF MirrorMessage
<1>8. CASE fetchAndStoreBody(g)
  BY <1>3, <1>6, <1>8 DEF fetchAndStoreBody, At
<1>9. CASE StoreBody(g)
  <2>1. Goto(g, "atts") /\ UNCHANGED clientVars /\ mirror[g].pc = "store"
    BY <1>9 DEF StoreBody
  <2> QED BY <1>3, <1>6, <2>1
<1>10. CASE ListAttachments(g)
  <2>1. CASE End(g) /\ UNCHANGED clientVars /\ mirror[g].pc = "atts"
    BY <1>3, <1>6, <2>1
  <2>2. CASE Goto(g, "list") /\ Call(g, "GET")
    BY <1>3, <1>5, <2>2
  <2> QED BY <1>10, <2>1, <2>2 DEF ListAttachments
<1>11. CASE fetchAndStoreAttachments(g)
  <2>1. \A todo, have :
          mirror' = [mirror EXCEPT ![g].pc = "next", ![g].todo = todo, ![g].have = have] =>
            mirror'[g].pc = "next"
    BY <1>2
  <2>2. \/ End(g)
        \/ \E todo, have :
             mirror' = [mirror EXCEPT ![g].pc = "next", ![g].todo = todo, ![g].have = have]
    BY <1>11 DEF fetchAndStoreAttachments
  <2>3. mirror'[g].pc \in {"next", "free"}
    BY <1>3, <2>1, <2>2
  <2>4. Take(g)
    BY <1>11 DEF fetchAndStoreAttachments, At
  <2> QED BY <1>6, <2>3, <2>4
<1>12. CASE NextAttachment(g)
  <2>1. mirror[g].pc = "next"
    BY <1>12 DEF NextAttachment
  <2>2. ASSUME NEW a, mirror' = [mirror EXCEPT ![g].todo = @ \ {a}], UNCHANGED clientVars
        PROVE  CallersMatch'
    <3>1. mirror'[g].pc = "next"
      BY <1>2, <2>1, <2>2
    <3> QED BY <1>6, <2>1, <2>2, <3>1
  <2>3. ASSUME NEW a, Call(g, "GET"),
               mirror' = [mirror EXCEPT ![g].todo = @ \ {a}, ![g].att = a, ![g].pc = "fetch"]
        PROVE  CallersMatch'
    <3>1. mirror'[g].pc = "fetch"
      BY <1>2, <2>3
    <3> QED BY <1>5, <2>3, <3>1
  <2>4. CASE End(g) /\ UNCHANGED clientVars
    BY <1>3, <1>6, <2>1, <2>4
  <2> QED BY <1>12, <2>2, <2>3, <2>4 DEF NextAttachment
<1>13. CASE FetchAttachmentContent(g)
  <2>1. Take(g) /\ (Goto(g, "put") \/ Goto(g, "next"))
    BY <1>13 DEF FetchAttachmentContent, At
  <2> QED BY <1>3, <1>6, <2>1
<1>14. CASE Put(g) \/ StoreAttachment(g)
  <2>1. /\ UNCHANGED clientVars /\ mirror[g].pc \in {"put", "row"}
        /\ Goto(g, "row") \/ Goto(g, "next") \/ End(g)
    BY <1>14 DEF Put, StoreAttachment
  <2> QED BY <1>3, <1>6, <2>1
<1> QED BY <1>7, <1>8, <1>9, <1>10, <1>11, <1>12, <1>13, <1>14 DEF MirrorStep

LEMMA CallersMatchHolds == IInv /\ ClientInv /\ CallersMatch /\ [Next]_vars => CallersMatch'
<1> SUFFICES ASSUME IInv, ClientInv, CallersMatch, [Next]_vars PROVE CallersMatch'
  OBVIOUS
<1>1. Mirrors \subseteq Callers /\ Clerks \subseteq Callers /\ Mirrors \cap Clerks = {}
  BY MirrorAssumption DEF MirrorAssumption
<1>2. CASE ListInboxDelta \/ UpsertMessage \/ BackfillOnce \/ BackfillTimesOut
  BY <1>2 DEF ListInboxDelta, UpsertMessage, BackfillOnce, BackfillTimesOut, clientVars,
              CallersMatch
<1>3. CASE SpawnSynced \/ SpawnStraggler
  <2>1. UNCHANGED call /\ \E m : StartMirror(m)
    BY <1>3 DEF SpawnSynced, SpawnStraggler, clientVars
  <2>2. PICK m : StartMirror(m)
    BY <2>1
  <2>3. PICK g \in Mirrors :
          /\ mirror[g].pc = "free"
          /\ mirror' = [mirror EXCEPT ![g] = [Free EXCEPT !.pc = "start", !.msg = m]]
    BY <2>2 DEF StartMirror
  <2>4. /\ mirror'[g].pc = "start"
        /\ \A h \in Mirrors \ {g} : mirror'[h] = mirror[h]
    BY <2>3 DEF IInv, MirrorType, Free
  <2> QED BY <2>1, <2>3, <2>4 DEF CallersMatch, Waits
<1>4. ASSUME NEW c \in Callers, Slot(c) \/ Answer(c) \/ Resend(c) \/ Trouble(c)
      PROVE  CallersMatch'
  <2>1. UNCHANGED mirror
    BY <1>4 DEF Slot, Answer, Resend, Trouble, rest
  <2>2. acquire(c) \/ Throttle(c) \/ Wake(c) \/ (\E x \in Answers : Respond(c, x))
    BY <1>4 DEF Slot, Answer, Resend, Trouble, Answers
  <2>3. \A d \in Callers : call[d].state # "none" <=> call'[d].state # "none"
    BY <2>2, CallerState DEF ClientStep
  <2> QED BY <1>1, <2>1, <2>3 DEF CallersMatch
<1>5. ASSUME NEW c \in Clerks, SetCategories(c) \/ Return(c)
      PROVE  CallersMatch'
  <2>1. UNCHANGED mirror /\ ClientStep(c)
    BY <1>5 DEF SetCategories, Return, rest, ClientStep
  <2>2. \A d \in Mirrors : call'[d] = call[d]
    BY <1>1, <2>1, CallerState
  <2> QED BY <2>1, <2>2 DEF CallersMatch
<1>6. CASE (\E m \in Msg : Change(m) \/ Leave(m) \/ GrowsOld(m)) \/ UNCHANGED vars
  BY <1>6 DEF Change, Leave, GrowsOld, Happens, vars, clientVars, CallersMatch
<1>7. CASE Restart
  BY <1>1, <1>7 DEF Restart, CallersMatch, Waits, Free, NoCall
<1> QED BY <1>2, <1>3, <1>4, <1>5, <1>6, <1>7, MatchMirror DEF Next

LEMMA PlainTypeHolds == IInv /\ PlainType /\ [Next]_vars => PlainType'
<1> SUFFICES ASSUME IInv, PlainType, [Next]_vars PROVE PlainType'
  OBVIOUS
<1>1. /\ MaxEvents \in Nat /\ MaxFaults \in Nat
  BY MirrorAssumption DEF MirrorAssumption
<1>2. Fault \/ Event \/ UNCHANGED spent => spent' \in [events : 0..MaxEvents, faults : 0..MaxFaults]
  BY <1>1 DEF PlainType, Fault, Event
<1>3. ASSUME UNCHANGED <<inGraph, stamp, body, file, blobs>>,
             Fault \/ Event \/ UNCHANGED spent
      PROVE  PlainType'
  BY <1>2, <1>3 DEF PlainType
<1> USE DEF cacheVars, diskVars, graphVars
<1>4. CASE ListInboxDelta \/ UpsertMessage \/ SpawnSynced
           \/ BackfillOnce \/ SpawnStraggler \/ BackfillTimesOut
  <2>1. UNCHANGED <<inGraph, stamp, body, file, blobs>>
    BY <1>4 DEF ListInboxDelta, UpsertMessage, SpawnSynced, BackfillOnce, SpawnStraggler,
                BackfillTimesOut
  <2>2. Fault \/ Event \/ UNCHANGED spent
    BY <1>4 DEF ListInboxDelta, UpsertMessage, SpawnSynced, BackfillOnce, SpawnStraggler,
                BackfillTimesOut
  <2> QED BY <1>3, <2>1, <2>2
<1>5. ASSUME NEW g \in Mirrors, MirrorStep(g)
      PROVE  PlainType'
  <2>1. CASE \/ MirrorMessage(g) \/ ListAttachments(g) \/ fetchAndStoreAttachments(g)
             \/ NextAttachment(g) \/ FetchAttachmentContent(g) \/ StoreAttachment(g)
    <3>1. UNCHANGED <<inGraph, stamp, body, file, blobs>>
      BY <2>1 DEF MirrorMessage, ListAttachments, fetchAndStoreAttachments,
                  NextAttachment, FetchAttachmentContent, StoreAttachment
    <3>2. Fault \/ Event \/ UNCHANGED spent
      BY <2>1 DEF MirrorMessage, ListAttachments, fetchAndStoreAttachments,
                  NextAttachment, FetchAttachmentContent, StoreAttachment, LinkByMessage
    <3> QED BY <1>3, <3>1, <3>2
  <2>2. CASE fetchAndStoreBody(g) \/ StoreBody(g)
    <3> DEFINE m == mirror[g].msg
    <3>1. m \in Msg
      BY <2>2 DEF fetchAndStoreBody, StoreBody, At, IInv, Holds
    <3>2. UNCHANGED <<inGraph, blobs>> /\ (Fault \/ Event \/ UNCHANGED spent)
      BY <2>2 DEF fetchAndStoreBody, StoreBody
    <3>3. file' \subseteq Msg
      BY <2>2, <3>1 DEF fetchAndStoreBody, StoreBody, PlainType
    <3>4. \/ UNCHANGED <<stamp, body>>
          \/ UpdateMessageBody(m, "empty") \/ UpdateMessageBody(m, "stored")
      BY <2>2 DEF fetchAndStoreBody, StoreBody
    <3>5. /\ stamp' \in [Msg -> {"never", "fresh", "old"}]
          /\ body' \in [Msg -> {"none", "empty", "stored"}]
      BY <3>1, <3>4 DEF UpdateMessageBody, PlainType
    <3> QED BY <1>2, <3>2, <3>3, <3>5 DEF PlainType
  <2>3. CASE Put(g)
    <3>1. mirror[g].att \in Atts
      BY <2>3, KeyOfAttachment DEF Put, IInv, Holds
    <3>2. /\ UNCHANGED <<inGraph, stamp, body, file>> /\ blobs' \subseteq Atts
          /\ Fault \/ Event \/ UNCHANGED spent
      BY <2>3, <3>1 DEF Put, PlainType
    <3> QED BY <1>2, <3>2 DEF PlainType
  <2> QED BY <1>5, <2>1, <2>2, <2>3 DEF MirrorStep
<1>6. ASSUME NEW c \in Callers, Slot(c) \/ Answer(c) \/ Resend(c) \/ Trouble(c)
      PROVE  PlainType'
  BY <1>3, <1>6 DEF Slot, Answer, Resend, Trouble, rest
<1>7. ASSUME NEW c \in Clerks, SetCategories(c) \/ Return(c)
      PROVE  PlainType'
  BY <1>3, <1>7 DEF SetCategories, Return, rest
<1>8. ASSUME NEW m \in Msg, Change(m) \/ Leave(m) \/ GrowsOld(m)
      PROVE  PlainType'
  <2>1. /\ Event /\ UNCHANGED <<body, file, blobs>>
        /\ inGraph' \subseteq inGraph
        /\ stamp' = stamp \/ stamp' = [stamp EXCEPT ![m] = "old"]
    BY <1>8 DEF Change, Leave, GrowsOld, Happens
  <2> QED BY <1>2, <2>1 DEF PlainType
<1>9. CASE Restart
  BY <1>3, <1>9 DEF Restart
<1>10. CASE UNCHANGED vars
  BY <1>3, <1>10 DEF vars
<1> QED BY <1>4, <1>5, <1>6, <1>7, <1>8, <1>9, <1>10 DEF Next

LEMMA KnownInvHolds == IInv /\ KnownInv /\ [Next]_vars => KnownInv'
<1> SUFFICES ASSUME IInv, KnownInv, [Next]_vars PROVE KnownInv'
  OBVIOUS
<1> USE DEF cacheVars, diskVars, graphVars, loopVars
<1>1. mirror \in [Mirrors -> [pc : PC, msg : Msg \cup {None}, att : Atts \cup {None},
                              todo : SUBSET Atts, have : SUBSET Atts]]
  BY DEF IInv, MirrorType
<1>2. sync \in [pc : {"idle", "upsert", "spawn"}, msg : Msg \cup {None},
                batch : SUBSET Msg, round : SUBSET Msg]
  BY DEF IInv, LoopType
<1>3. Free.msg = None /\ Resting.pc = "idle" /\ Resting.batch = {}
  BY DEF Free, Resting
<1>4. ASSUME NEW m, StartMirror(m), m \in known, UNCHANGED known
      PROVE  \A g \in Mirrors : mirror'[g].msg \in known' \cup {None}
  <2>1. PICK g \in Mirrors :
          mirror' = [mirror EXCEPT ![g] = [Free EXCEPT !.pc = "start", !.msg = m]]
    BY <1>4 DEF StartMirror
  <2>2. /\ mirror'[g].msg = m
        /\ \A h \in Mirrors \ {g} : mirror'[h] = mirror[h]
    BY <1>1, <2>1 DEF Free
  <2> QED BY <1>4, <2>2 DEF KnownInv
<1>5. \A m : /\ Rest(m).batch \subseteq Rest(m).round
             /\ Rest(m).pc # "spawn"
  <2> SUFFICES ASSUME NEW m PROVE Rest(m).batch \subseteq Rest(m).round /\ Rest(m).pc # "spawn"
    OBVIOUS
  <2>1. CASE sync.batch \subseteq {m}
    BY <1>3, <2>1 DEF Rest
  <2>2. CASE ~(sync.batch \subseteq {m})
    BY <1>2, <2>2 DEF Rest, KnownInv
  <2> QED BY <2>1, <2>2
<1>6. CASE ListInboxDelta
  <2>1. sync'.batch = changed /\ sync'.round = changed /\ sync'.pc = "upsert"
    BY <1>6 DEF ListInboxDelta, Resting
  <2> QED BY <1>6, <2>1 DEF ListInboxDelta, KnownInv
<1>7. CASE UpsertMessage
  <2>1. UNCHANGED <<mirror, backfill>>
    BY <1>7 DEF UpsertMessage
  <2>2. PICK m \in sync.batch :
            \/ known' = known \cup {m} /\ sync' = [sync EXCEPT !.pc = "spawn", !.msg = m]
            \/ known' = known /\ sync' = Resting
    BY <1>7 DEF UpsertMessage
  <2>3. CASE known' = known \cup {m} /\ sync' = [sync EXCEPT !.pc = "spawn", !.msg = m]
    <3>1. sync'.msg = m /\ sync'.batch = sync.batch /\ sync'.round = sync.round
      BY <1>2, <2>3
    <3> QED BY <2>1, <2>3, <3>1 DEF KnownInv
  <2>4. CASE known' = known /\ sync' = Resting
    BY <2>1, <2>4 DEF KnownInv, Resting
  <2> QED BY <2>2, <2>3, <2>4
<1>8. CASE SpawnSynced
  <2>1. /\ StartMirror(sync.msg) /\ sync' = Rest(sync.msg)
        /\ sync.msg \in known /\ UNCHANGED <<known, backfill>>
    BY <1>8 DEF SpawnSynced, KnownInv
  <2>2. \A g \in Mirrors : mirror'[g].msg \in known' \cup {None}
    BY <1>4, <2>1
  <2> QED BY <1>5, <2>1, <2>2 DEF KnownInv
<1>9. CASE BackfillOnce
  BY <1>9 DEF BackfillOnce, ListUnmirroredMessages, Newest, Stragglers, KnownInv
<1>10. CASE SpawnStraggler
  <2>1. PICK m \in backfill : StartMirror(m) /\ backfill' = backfill \ {m}
    BY <1>10 DEF SpawnStraggler
  <2>2. m \in known /\ UNCHANGED <<known, sync>>
    BY <1>10, <2>1 DEF SpawnStraggler, KnownInv
  <2>3. \A g \in Mirrors : mirror'[g].msg \in known' \cup {None}
    BY <1>4, <2>1, <2>2
  <2> QED BY <2>1, <2>2, <2>3 DEF KnownInv
<1>11. CASE BackfillTimesOut
  BY <1>11 DEF BackfillTimesOut, KnownInv
<1>12. ASSUME NEW g \in Mirrors, MirrorStep(g)
       PROVE  KnownInv'
  <2>1. UNCHANGED <<known, sync, backfill>>
    BY <1>12 DEF MirrorStep, MirrorMessage, fetchAndStoreBody, StoreBody, ListAttachments,
        fetchAndStoreAttachments, NextAttachment, FetchAttachmentContent, Put, StoreAttachment
  <2>2. ASSUME NEW h \in Mirrors PROVE mirror'[h].msg \in {mirror[h].msg, None}
    <3>1. /\ \A pc : Goto(g, pc) => mirror'[h].msg = mirror[h].msg
          /\ End(g) => mirror'[h].msg \in {mirror[h].msg, None}
      BY <1>1, <1>3 DEF Goto, End
    <3>2. mirror[h] \in [pc : PC, msg : Msg \cup {None}, att : Atts \cup {None},
                         todo : SUBSET Atts, have : SUBSET Atts]
      BY <1>1
    <3>3. ASSUME NEW a, mirror' = [mirror EXCEPT ![g].todo = @ \ {a}]
          PROVE  mirror'[h].msg = mirror[h].msg
      BY <1>1, <3>2, <3>3
    <3>4. ASSUME NEW a, mirror' = [mirror EXCEPT ![g].todo = @ \ {a}, ![g].att = a,
                                                 ![g].pc = "fetch"]
          PROVE  mirror'[h].msg = mirror[h].msg
      BY <1>1, <3>2, <3>4
    <3>5. ASSUME NEW todo, NEW have,
                 mirror' = [mirror EXCEPT ![g].pc = "next", ![g].todo = todo, ![g].have = have]
          PROVE  mirror'[h].msg = mirror[h].msg
      BY <1>1, <3>2, <3>5
    <3>6. CASE NextAttachment(g)
      BY <3>1, <3>3, <3>4, <3>6 DEF NextAttachment
    <3>7. CASE fetchAndStoreAttachments(g)
      <4>1. \/ End(g)
            \/ \E todo, have : mirror' = [mirror EXCEPT ![g].pc = "next", ![g].todo = todo,
                                                         ![g].have = have]
        BY <3>7 DEF fetchAndStoreAttachments
      <4> QED BY <3>1, <3>5, <4>1
    <3>8. CASE \/ MirrorMessage(g) \/ fetchAndStoreBody(g) \/ StoreBody(g)
               \/ ListAttachments(g) \/ FetchAttachmentContent(g) \/ Put(g)
               \/ StoreAttachment(g)
      <4>1. End(g) \/ \E pc : Goto(g, pc)
        BY <3>8 DEF MirrorMessage, fetchAndStoreBody, StoreBody, ListAttachments,
                    FetchAttachmentContent, Put, StoreAttachment
      <4> QED BY <3>1, <4>1
    <3> QED BY <1>12, <3>6, <3>7, <3>8 DEF MirrorStep
  <2> QED BY <2>1, <2>2 DEF KnownInv
<1>13. CASE \/ \E c \in Callers : Slot(c) \/ Answer(c) \/ Resend(c) \/ Trouble(c)
            \/ \E c \in Clerks : SetCategories(c) \/ Return(c)
            \/ \E m \in Msg : Change(m) \/ Leave(m) \/ GrowsOld(m)
            \/ UNCHANGED vars
  <2>1. UNCHANGED <<known, sync, backfill, mirror>>
    BY <1>13 DEF Slot, Answer, Resend, Trouble, SetCategories, Return, Change, Leave,
                 GrowsOld, Happens, rest, vars
  <2> QED BY <2>1 DEF KnownInv
<1>14. CASE Restart
  BY <1>3, <1>14 DEF Restart, KnownInv
<1> QED BY <1>6, <1>7, <1>8, <1>9, <1>10, <1>11, <1>12, <1>13, <1>14 DEF Next

\* Every variable keeps its type; only a goroutine that waits for Graph has a
\* call, and it waits for a slot once; whatever works on a message has its row
\* (fetchAndStoreBody, fetchAndStoreAttachments, BackfillOnce).
THEOREM TypeCorrect == Spec => []TypeOK
<1>1. IInv /\ RestInv /\ [Next]_vars => RestInv'
  BY ClientInvHolds, CallersMatchHolds, PlainTypeHolds, KnownInvHolds DEF RestInv
<1>2. IInv /\ RestInv => TypeOK
  <2> SUFFICES ASSUME IInv, RestInv PROVE TypeOK
    OBVIOUS
  <2>1. \A g \in Mirrors : /\ mirror[g].msg \in known \cup {None}
                           /\ mirror[g].pc \in {"body", "list", "fetch"}
                              <=> call[g].state # "none"
    BY DEF RestInv, CallersMatch, Waits, KnownInv
  <2> QED BY <2>1 DEF RestInv, IInv, ClientInv, PlainType, KnownInv, RowType, LoopType,
                      DiskInv, TypeOK
<1> QED BY <1>1, <1>2, RestInit, Invariance, PTL DEF Spec
=============================================================================
