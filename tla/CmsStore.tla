------------------------------ MODULE CmsStore ------------------------------
(***************************************************************************)
(* The write operations of apps/api/src/cms/operations.ts, one action per  *)
(* awaited statement.  Requests run concurrently in separate Worker        *)
(* invocations and share nothing but the tables and the bucket, so between *)
(* any two statements of a request any other request may run, and a        *)
(* request may stop at any statement: D1 refuses it, the call fails, or    *)
(* the invocation dies after the statement took effect.  What it has done  *)
(* by then stays.                                                          *)
(***************************************************************************)
EXTENDS CmsTables

CONSTANTS
  Operations,  \* the operations the requests of an instance may ask for
  Kinds,       \* the document tables they may name
  Inputs       \* the inputs they may carry

ASSUME StoreAssumption == Inputs \subseteq Input /\ Kinds \subseteq Kind

VARIABLES
  pc,      \* the statement a request awaits next, or how it ended
  job,     \* what it was asked: the route parameters and the decoded body
  target,  \* the id its lookup found or its createX generated
  todo,    \* inserts or reads left in its current forEach or Effect.all
  stamp,   \* the created_at of the revision it is recording
  clock,   \* the latest instant any request has read
  touched, \* history: documents written since a deleteMedia began its reads
  missed   \* history: updates whose UPDATE matched no row

history == <<touched, missed>>
locals  == <<pc, job, target, todo, stamp, clock, history>>
vars    == <<tables, locals>>

Ended  == {"ok", "rejected", "failed"}
Stages == {"checkSlug", "insertRow", "lookup", "updateRow", "unlink", "verify", "link",
           "clock", "revise", "prune", "readBack", "findDoc", "deleteRow",
           "restoreTarget", "restoreRow", "checkCategory", "insertCategory",
           "findCategory", "deleteCategory", "putBytes", "insertMedia", "readMedia",
           "usage", "deleteMediaRow", "deleteBytes", "fileRow", "fileBytes"}
InFlight(r) == pc[r] \in Stages

Checks == Kind \cup {"row"}   \* the three concurrent reads of deleteMedia

Job == [kind : Kind, slug : Slug \cup CategorySlug \cup {None},
        input : Inputs \cup {None}, ref : DocId \cup MediaId \cup {None}]
NoJob == [kind |-> "post", slug |-> None, input |-> None, ref |-> None]

TypeOK ==
  /\ TablesTypeOK
  /\ pc \in [Request -> Stages \cup Ended \cup {"idle"}]
  /\ job \in [Request -> Job]
  /\ target \in [Request -> DocId \cup CategoryId \cup {None}]
  /\ todo \in [Request -> SUBSET (CategoryId \cup Checks)]
  /\ stamp \in [Request -> Nat]
  /\ clock \in Nat
  /\ touched \in [Request -> SUBSET DocId]
  /\ missed \subseteq Request

\* A document of an earlier, completed createPost or createWork: its row,
\* its category links and its first revision.
Seeded(kindOf, inputOf) ==
  /\ docs = [d \in DocId |-> IF d \in SeedDoc THEN [kind |-> kindOf[d], doc |-> inputOf[d].doc]
                             ELSE None]
  /\ links = UNION {{d} \X inputOf[d].cats : d \in SeedDoc}
  /\ revisions = {[id |-> d, kind |-> kindOf[d], entity |-> d, input |-> inputOf[d],
                   at |-> 0, rowid |-> 0] : d \in SeedDoc}

SeedInput == {i \in Inputs : /\ i.doc.slug \notin Reserved
                             /\ i.doc.hero \in SeedMedia \cup {None}
                             /\ i.cats \subseteq SeedCategory}

Init ==
  /\ \E kindOf \in [SeedDoc -> Kinds], inputOf \in [SeedDoc -> SeedInput] :
       /\ \A d, e \in SeedDoc : /\ kindOf[d] = kindOf[e]
                                /\ inputOf[d].doc.slug = inputOf[e].doc.slug => d = e
       /\ \A d \in SeedDoc : kindOf[d] = "work" => inputOf[d].cats = {}
       /\ Seeded(kindOf, inputOf)
  /\ \E slugOf \in [SeedCategory -> CategorySlug] :
       /\ \A c, e \in SeedCategory : slugOf[c] = slugOf[e] => c = e
       /\ categories = [c \in CategoryId |-> IF c \in SeedCategory THEN slugOf[c] ELSE None]
  /\ rowids = 0
  /\ media = SeedMedia
  /\ objects = SeedMedia
  /\ pc = [r \in Request |-> "idle"]
  /\ job = [r \in Request |-> NoJob]
  /\ target = [r \in Request |-> None]
  /\ todo = [r \in Request |-> {}]
  /\ stamp = [r \in Request |-> 0]
  /\ clock = 0
  /\ touched = [r \in Request |-> {}]
  /\ missed = {}

-----------------------------------------------------------------------------
(* Moving a request along.                                                 *)

memory == <<job, target, todo, stamp>>

Goto(r, stage) == pc' = [pc EXCEPT ![r] = stage]
Step(r, from, to) == pc[r] = from /\ Goto(r, to)

\* The invocation is over and its local variables are gone.
Forget(r) ==
  /\ job' = [job EXCEPT ![r] = NoJob]
  /\ target' = [target EXCEPT ![r] = None]
  /\ todo' = [todo EXCEPT ![r] = {}]
  /\ stamp' = [stamp EXCEPT ![r] = 0]

Finish(r, from) == Step(r, from, "ok") /\ Forget(r) /\ UNCHANGED <<clock, history>>

\* The operation answers 400, 404 or 409.
Refuse(r) == Goto(r, "rejected") /\ Forget(r) /\ UNCHANGED <<tables, clock, history>>

\* A request arrives and runs up to its first statement.
Arrive(r, op, stage, j) ==
  /\ op \in Operations
  /\ Step(r, "idle", stage)
  /\ job' = [job EXCEPT ![r] = IF stage = "rejected" THEN NoJob ELSE j]
  /\ UNCHANGED <<tables, target, todo, stamp, clock, history>>

\* A query that must find nothing, or something, for the request to go on.
Require(r, from, condition, to) ==
  /\ pc[r] = from
  /\ \/ condition /\ Goto(r, to) /\ UNCHANGED <<tables, memory, clock, history>>
     \/ ~condition /\ Refuse(r)

\* A lookup by slug that stores the id it found, or answers 404.
Find(r, from, found, to) ==
  /\ pc[r] = from
  /\ \/ \E id \in found : /\ Goto(r, to)
                           /\ target' = [target EXCEPT ![r] = id]
                           /\ UNCHANGED <<tables, job, todo, stamp, clock, history>>
     \/ found = {} /\ Refuse(r)

\* The document written while deleteMedia requests hold a usage answer.
Touch(d) == touched' = [q \in Request |-> IF pc[q] \in {"usage", "deleteMediaRow"}
                                          THEN touched[q] \cup {d} ELSE touched[q]]

\* Any statement may fail, and any invocation may die between statements.
Fail(r) ==
  /\ InFlight(r)
  /\ Goto(r, "failed")
  /\ Forget(r)
  /\ UNCHANGED <<tables, clock, history>>

-----------------------------------------------------------------------------
(* createPost, createWork.                                                 *)

CreateDoc(r, k, i) ==
  /\ k = "work" => i.cats = {}
  /\ Arrive(r, "create", IF i.doc.slug \in Reserved THEN "rejected" ELSE "checkSlug",
            [kind |-> k, slug |-> i.doc.slug, input |-> i, ref |-> None])

CheckSlugFree(r) ==
  Require(r, "checkSlug", BySlug(job[r].kind, job[r].slug) = {}, "insertRow")

\* The stage after a document row is written: works have no categories.
AfterRow(k) == IF k = "post" THEN "unlink" ELSE "clock"

InsertRow(r) ==
  /\ Step(r, "insertRow", AfterRow(job[r].kind))
  /\ DocAccepted(job[r].kind, job[r].input.doc)
  /\ InsertDocRow(r, job[r].kind, job[r].input.doc)
  /\ target' = [target EXCEPT ![r] = r]
  /\ Touch(r)
  /\ UNCHANGED <<links, categories, media, objects, revisions, rowids,
                 job, todo, stamp, clock, missed>>

-----------------------------------------------------------------------------
(* updatePost, updateWork, and restoreRevision, which replays a snapshot   *)
(* through them.                                                           *)

\* Faulty variant: updatePost without the immutable slug check.
UpdateEntryAnySlug(s, i) == IF s \in Reserved /\ i.doc.slug = s THEN "rejected" ELSE "lookup"

\* updatePost up to its first statement: the reserved and immutable slug
\* checks.
UpdateEntry(s, i) == IF s \in Reserved \/ i.doc.slug # s THEN "rejected" ELSE "lookup"

UpdateDoc(r, k, s, i) ==
  /\ k = "work" => i.cats = {}
  /\ Arrive(r, "update", UpdateEntry(s, i),
            [kind |-> k, slug |-> s, input |-> i, ref |-> None])

RestoreRevision(r, k, s, id) ==
  Arrive(r, "restore", "restoreTarget",
         [kind |-> k, slug |-> s, input |-> None, ref |-> id])

FindRevisionTarget(r) ==
  Find(r, "restoreTarget", BySlug(job[r].kind, job[r].slug), "restoreRow")

FindRevisionRow(r) ==
  LET found == {v \in RevisionsOf(job[r].kind, target[r]) : v.id = job[r].ref}
  IN /\ pc[r] = "restoreRow"
     /\ \/ \E v \in found :
             /\ UpdateEntry(job[r].slug, v.input) = "lookup"
             /\ Goto(r, "lookup")
             /\ job' = [job EXCEPT ![r].input = v.input]
             /\ UNCHANGED <<tables, target, todo, stamp, clock, history>>
        \/ /\ \A v \in found : UpdateEntry(job[r].slug, v.input) = "rejected"
           /\ Refuse(r)

RequireDecodedRow(r) ==
  Find(r, "lookup", BySlug(job[r].kind, job[r].slug), "updateRow")

UpdateRow(r) ==
  /\ Step(r, "updateRow", AfterRow(job[r].kind))
  /\ docs[target[r]] # None => HeroKnown(job[r].input.doc)
  /\ UpdateDocRow(target[r], job[r].input.doc)
  /\ Touch(target[r])
  /\ missed' = IF docs[target[r]] = None THEN missed \cup {r} ELSE missed
  /\ UNCHANGED <<links, categories, media, objects, revisions, rowids,
                 job, target, todo, stamp, clock>>

-----------------------------------------------------------------------------
(* replacePostCategories.                                                  *)

UnlinkCategories(r) ==
  /\ Step(r, "unlink", IF job[r].input.cats = {} THEN "clock" ELSE "verify")
  /\ DeleteLinks(target[r])
  /\ UNCHANGED <<docs, categories, media, objects, revisions, rowids,
                 memory, clock, history>>

VerifyCategories(r) ==
  LET wanted == job[r].input.cats
  IN /\ pc[r] = "verify"
     /\ \/ /\ KnownCategories(wanted) = wanted
           /\ Goto(r, "link")
           /\ todo' = [todo EXCEPT ![r] = wanted]
           /\ UNCHANGED <<tables, job, target, stamp, clock, history>>
        \/ KnownCategories(wanted) # wanted /\ Refuse(r)

LinkCategory(r) ==
  \E c \in todo[r] :
    /\ Step(r, "link", IF todo[r] = {c} THEN "clock" ELSE "link")
    /\ LinkAccepted(target[r], c)
    /\ InsertLink(target[r], c)
    /\ todo' = [todo EXCEPT ![r] = @ \ {c}]
    /\ UNCHANGED <<docs, categories, media, objects, revisions, rowids,
                   job, target, stamp, clock, history>>

-----------------------------------------------------------------------------
(* recordRevision, then the read of the row the request answers with.      *)

\* Two requests may read the same millisecond, and the one that reads first
\* need not be the one that inserts first.
ReadClock(r) ==
  /\ Step(r, "clock", "revise")
  /\ \E now \in {clock, clock + 1} :
       /\ clock' = now
       /\ stamp' = [stamp EXCEPT ![r] = now]
  /\ UNCHANGED <<tables, job, target, todo, history>>

\* Faulty variant: the snapshot filed under the slug and not under the id.
RecordRevisionBySlug(r) ==
  /\ Step(r, "revise", "prune")
  /\ InsertRevision([id |-> r, kind |-> job[r].kind, entity |-> job[r].slug,
                     input |-> job[r].input, at |-> stamp[r], rowid |-> rowids + 1])
  /\ UNCHANGED <<docs, links, categories, media, objects,
                 memory, clock, history>>

RecordRevision(r) ==
  /\ Step(r, "revise", "prune")
  /\ InsertRevision([id |-> r, kind |-> job[r].kind, entity |-> target[r],
                     input |-> job[r].input, at |-> stamp[r], rowid |-> rowids + 1])
  /\ UNCHANGED <<docs, links, categories, media, objects,
                 memory, clock, history>>

PruneRevisions(r) ==
  /\ Step(r, "prune", "readBack")
  /\ Prune(job[r].kind, target[r])
  /\ UNCHANGED <<docs, links, categories, media, objects,
                 memory, clock, history>>

\* Faulty variant: the answer composed from the input, without reading the row.
AnswerUnread(r) ==
  Step(r, "readBack", "ok") /\ UNCHANGED <<tables, memory, clock, history>>

ReadBack(r) == Require(r, "readBack", docs[target[r]] # None, "ok")

-----------------------------------------------------------------------------
(* deletePost, deleteWork, createCategory, deleteCategory.                 *)

DeleteDoc(r, k, s) ==
  Arrive(r, "delete", "findDoc", [kind |-> k, slug |-> s, input |-> None, ref |-> None])

FindDoc(r) == Find(r, "findDoc", BySlug(job[r].kind, job[r].slug), "deleteRow")

DeleteRow(r) ==
  /\ Finish(r, "deleteRow")
  /\ DeleteDocRow(target[r])
  /\ UNCHANGED <<categories, media, objects, revisions, rowids>>

CreateCategory(r, s) ==
  Arrive(r, "createCategory", "checkCategory",
         [kind |-> "post", slug |-> s, input |-> None, ref |-> None])

CheckCategory(r) ==
  Require(r, "checkCategory", CategoryBySlug(job[r].slug) = {}, "insertCategory")

InsertCategoryRow(r) ==
  /\ Finish(r, "insertCategory")
  /\ CategoryBySlug(job[r].slug) = {}
  /\ InsertCategory(r, job[r].slug)
  /\ UNCHANGED <<docs, links, media, objects, revisions, rowids>>

DeleteCategory(r, s) ==
  Arrive(r, "deleteCategory", "findCategory",
         [kind |-> "post", slug |-> s, input |-> None, ref |-> None])

FindCategory(r) ==
  Find(r, "findCategory", CategoryBySlug(job[r].slug), "deleteCategory")

RemoveCategory(r) ==
  /\ Finish(r, "deleteCategory")
  /\ DeleteCategoryRow(target[r])
  /\ UNCHANGED <<docs, media, objects, revisions, rowids>>

-----------------------------------------------------------------------------
(* createMedia, deleteMedia, getMediaFile.                                 *)

MediaJob(m) == [kind |-> "post", slug |-> None, input |-> None, ref |-> m]

CreateMedia(r) == Arrive(r, "createMedia", "putBytes", MediaJob(r))

PutBytes(r) ==
  /\ Step(r, "putBytes", "insertMedia")
  /\ objects' = objects \cup {r}
  /\ UNCHANGED <<docs, links, categories, media, revisions, rowids,
                 memory, clock, history>>

InsertMediaRow(r) ==
  /\ Step(r, "insertMedia", "readMedia")
  /\ media' = media \cup {r}
  /\ UNCHANGED <<docs, links, categories, objects, revisions, rowids,
                 memory, clock, history>>

\* The row was just written; a concurrent deleteMedia may have taken it.
ReadMedia(r) == Require(r, "readMedia", r \in media, "ok")

\* Faulty variant: uses by works not looked for.
DeleteMediaOfPosts(r, m) ==
  /\ "deleteMedia" \in Operations
  /\ Step(r, "idle", "usage")
  /\ job' = [job EXCEPT ![r] = MediaJob(m)]
  /\ todo' = [todo EXCEPT ![r] = {"row", "post"}]
  /\ UNCHANGED <<tables, target, stamp, clock, history>>

DeleteMedia(r, m) ==
  /\ "deleteMedia" \in Operations
  /\ Step(r, "idle", "usage")
  /\ job' = [job EXCEPT ![r] = MediaJob(m)]
  /\ todo' = [todo EXCEPT ![r] = Checks]
  /\ UNCHANGED <<tables, target, stamp, clock, history>>

\* The row and the two usage queries are awaited together and answer in any
\* order.  A missing row (404) or a use (409) settles the outcome.
ReadUsage(r) ==
  \E check \in todo[r] :
    LET free == IF check = "row" THEN job[r].ref \in media
                                 ELSE Users(check, job[r].ref) = {}
    IN /\ pc[r] = "usage"
       /\ \/ /\ free
             /\ Goto(r, IF todo[r] = {check} THEN "deleteMediaRow" ELSE "usage")
             /\ todo' = [todo EXCEPT ![r] = @ \ {check}]
             /\ UNCHANGED <<tables, job, target, stamp, clock, history>>
          \/ ~free /\ Refuse(r)

\* Faulty variant: the bytes go before the row.
DeleteBytesFirst(r) ==
  /\ Step(r, "deleteMediaRow", "deleteBytes")
  /\ MediaRowFree(job[r].ref)
  /\ objects' = objects \ {job[r].ref}
  /\ UNCHANGED <<docs, links, categories, media, revisions, rowids,
                 memory, clock, history>>

DeleteMediaRow(r) ==
  /\ Step(r, "deleteMediaRow", "deleteBytes")
  /\ MediaRowFree(job[r].ref)
  /\ media' = media \ {job[r].ref}
  /\ UNCHANGED <<docs, links, categories, objects, revisions, rowids,
                 memory, clock, history>>

DeleteBytes(r) ==
  /\ Finish(r, "deleteBytes")
  /\ objects' = objects \ {job[r].ref}
  /\ UNCHANGED <<docs, links, categories, media, revisions, rowids>>

GetMediaFile(r, m) == Arrive(r, "getFile", "fileRow", MediaJob(m))

RequireMediaRow(r) == Require(r, "fileRow", job[r].ref \in media, "fileBytes")

ReadBytes(r) == Require(r, "fileBytes", job[r].ref \in objects, "ok")

-----------------------------------------------------------------------------
Arrivals(r) ==
  \/ \E k \in Kinds, i \in Inputs : CreateDoc(r, k, i)
  \/ \E k \in Kinds, s \in Slug, i \in Inputs : UpdateDoc(r, k, s, i)
  \/ \E k \in Kinds, s \in Slug, id \in DocId : RestoreRevision(r, k, s, id)
  \/ \E k \in Kinds, s \in Slug : DeleteDoc(r, k, s)
  \/ \E s \in CategorySlug : CreateCategory(r, s)
  \/ \E s \in CategorySlug : DeleteCategory(r, s)
  \/ CreateMedia(r)
  \/ \E m \in MediaId : DeleteMedia(r, m)
  \/ \E m \in MediaId : GetMediaFile(r, m)

DocSteps(r) ==
  \/ CheckSlugFree(r) \/ InsertRow(r)
  \/ FindRevisionTarget(r) \/ FindRevisionRow(r) \/ RequireDecodedRow(r) \/ UpdateRow(r)
  \/ UnlinkCategories(r) \/ VerifyCategories(r) \/ LinkCategory(r)
  \/ ReadClock(r) \/ RecordRevision(r) \/ PruneRevisions(r) \/ ReadBack(r)
  \/ FindDoc(r) \/ DeleteRow(r)

CategorySteps(r) ==
  \/ CheckCategory(r) \/ InsertCategoryRow(r) \/ FindCategory(r) \/ RemoveCategory(r)

MediaSteps(r) ==
  \/ PutBytes(r) \/ InsertMediaRow(r) \/ ReadMedia(r)
  \/ ReadUsage(r) \/ DeleteMediaRow(r) \/ DeleteBytes(r)
  \/ RequireMediaRow(r) \/ ReadBytes(r)

Serve(r) == DocSteps(r) \/ CategorySteps(r) \/ MediaSteps(r) \/ Fail(r)

\* Every request has been answered: the instance is over.
Over == /\ \A r \in Request : pc[r] \in Ended
        /\ UNCHANGED vars

Next == (\E r \in Request : Arrivals(r) \/ Serve(r)) \/ Over

Spec == Init /\ [][Next]_vars

-----------------------------------------------------------------------------
(* What the store promises.                                                *)

\* A write, restores included, has been acknowledged.
Acknowledged(r) == pc[r] = "ok" /\ job[r].input # None

\* No slug ever names two posts, or two works, whatever creates race past
\* the findRowBySlug check (createPost, createWork).
OneRowPerSlug == \A k \in Kind, s \in Slug : \A d, e \in BySlug(k, s) : d = e

\* No document answers to a reserved slug, so /posts/summary stays the
\* summary route even across restores (rejectReservedSlug).
NoReservedDoc == \A k \in Kind, s \in Reserved : BySlug(k, s) = {}

\* Category links always join a live post with a live category, though
\* deletes run between the verification and the inserts of
\* replacePostCategories.
LinksResolve == \A l \in links : /\ docs[l[1]] # None
                                 /\ docs[l[1]].kind = "post"
                                 /\ categories[l[2]] # None

\* The revisions of a live document all carry its slug, so a restore can
\* never be refused as a change of slug (restoreRevision, updatePost).
HistoryKeepsSlug ==
  \A v \in revisions :
    docs[v.entity] # None => /\ v.input.doc.slug = docs[v.entity].doc.slug
                             /\ v.kind = docs[v.entity].kind

\* An acknowledged write is in the history of its document, or MAX_REVISIONS
\* snapshots that are no older have pushed it out (recordRevision).
AcknowledgedIsKept ==
  \A r \in Request : Acknowledged(r) =>
    \/ \E v \in RevisionsOf(job[r].kind, target[r]) : v.id = r /\ v.input = job[r].input
    \/ Cardinality({v \in RevisionsOf(job[r].kind, target[r]) : v.at >= stamp[r]})
         >= MaxRevisions

\* Only writes that did not reach their prune can hold a history above
\* MAX_REVISIONS: those that pruned or will never prune again are capped.
HistoryCapped ==
  \A k \in Kind, d \in DocId :
    Cardinality({v \in RevisionsOf(k, d) :
                   v.id \in Request => pc[v.id] \notin {"prune", "failed"}}) <= MaxRevisions

\* A document keeps its table and slug while it lives, and an id whose row
\* is gone never comes back, though updates in flight still write to it.
IdentityFixed ==
  [][\A d \in DocId :
       /\ docs[d] # None /\ docs'[d] # None =>
            docs'[d].kind = docs[d].kind /\ docs'[d].doc.slug = docs[d].doc.slug
       /\ docs[d] = None /\ docs'[d] # None => d \in Request /\ pc[d] = "insertRow"]_vars

\* An update that raced with a delete and matched no row is never reported
\* as a success (updateDocRow, readPostById, readWorkById).
NoLostUpdateAcknowledged == \A r \in missed : pc[r] # "ok"

\* Every media row has its bytes, whatever fails between the D1 and the R2
\* half of an upload or a delete (createMedia, deleteMedia).
RowHasBytes == media \subseteq objects

\* A hero image always has its media row.
HeroResolves == \A d \in DocId : docs[d] # None => HeroKnown(docs[d].doc)

\* deleteMedia takes away an item only from documents written while it was
\* between its usage queries and its DELETE: what used the item before, and
\* was left alone, keeps it.
OnlyRacingUseIsOrphaned ==
  [][\A r \in Request : pc[r] = "deleteMediaRow" /\ pc'[r] = "deleteBytes" =>
       \A k \in Kind : Users(k, job[r].ref) \subseteq touched[r]]_vars

\* The header of 0003_revisions.sql: a revision for every write.  Once no
\* request works on it, a live document equals one of its snapshots.
EveryWriteSnapshotted ==
  \A d \in DocId :
    /\ docs[d] # None
    /\ \A r \in Request : pc[r] # "failed" /\ (InFlight(r) => target[r] # d)
    => \E v \in revisions : v.entity = d /\ v.input.doc = docs[d].doc

-----------------------------------------------------------------------------
(* Why it keeps those promises: the facts that hold at each stage.         *)

RowWritten  == {"unlink", "verify", "link", "clock", "revise", "prune", "readBack"}
Writing     == {"checkSlug", "insertRow", "lookup", "updateRow"} \cup RowWritten
OnDocument  == {"updateRow", "deleteRow", "restoreRow"} \cup RowWritten
BeforeBirth == {"idle", "checkSlug", "insertRow"}

\* What a request has in hand at the stage it has reached.
StageOK ==
  /\ \A r \in Request :
       /\ pc[r] \in Writing => /\ job[r].input \in Inputs
                               /\ job[r].slug = job[r].input.doc.slug
                               /\ job[r].slug \notin Reserved
       /\ pc[r] \in Writing \cup {"restoreTarget", "restoreRow", "findDoc"} => job[r].slug \in Slug
       /\ pc[r] \in {"unlink", "verify", "link"} => job[r].kind = "post"
       /\ pc[r] \in OnDocument => target[r] \in DocId
       /\ pc[r] \in {"checkCategory", "insertCategory", "findCategory"} =>
            job[r].slug \in CategorySlug
       /\ pc[r] = "deleteCategory" => target[r] \in CategoryId
       /\ pc[r] = "link" => todo[r] \subseteq CategoryId
       /\ pc[r] \in {"usage", "deleteMediaRow", "deleteBytes", "fileRow", "fileBytes"} =>
            job[r].ref \in MediaId
       /\ pc[r] = "usage" => todo[r] \subseteq Checks
  /\ \A v \in revisions : v.input \in Inputs

\* The row of d has been inserted, or never will be.
Settled(d) == d \in SeedDoc \/ pc[d] \notin BeforeBirth

\* A request works on a document that was inserted under its own slug.
IdentityOK ==
  /\ \A d \in DocId : docs[d] # None => Settled(d)
  /\ \A v \in revisions : Settled(v.entity)
  /\ \A r \in Request :
       pc[r] \in OnDocument =>
         /\ Settled(target[r])
         /\ docs[target[r]] # None => /\ docs[target[r]].kind = job[r].kind
                                      /\ docs[target[r]].doc.slug = job[r].slug
  /\ \A r \in missed :
       /\ pc[r] \in RowWritten \cup {"rejected", "failed"}
       /\ pc[r] \in RowWritten => docs[target[r]] = None

\* The row of m has been inserted, or never will be.
Uploaded(m) == m \in SeedMedia \/ pc[m] \notin {"idle", "putBytes", "insertMedia"}

\* A media row and its bytes come in the one order and go in the other, and
\* a usage answer is out of date only for documents written since.
MediaOK ==
  /\ \A m \in media : Uploaded(m)
  /\ \A r \in Request :
       /\ pc[r] = "insertMedia" => r \in objects
       /\ \/ pc[r] \in {"deleteMediaRow", "deleteBytes"}
          \/ pc[r] = "usage" /\ "row" \notin todo[r]
          => Uploaded(job[r].ref)
       /\ pc[r] = "deleteBytes" => job[r].ref \notin media
       /\ \A k \in Kind :
            \/ pc[r] = "deleteMediaRow"
            \/ pc[r] = "usage" /\ k \notin todo[r]
            => Users(k, job[r].ref) \subseteq touched[r]

=============================================================================
