--------------------------- MODULE CmsStoreProofs ---------------------------
(***************************************************************************)
(* Safety of CmsStore for any number of concurrent requests, any seeds,    *)
(* any inputs and any MAX_REVISIONS.                                       *)
(***************************************************************************)
EXTENDS CmsStore, TLAPS

\* What the components of an input are.
LEMMA InputParts ==
  ASSUME NEW i \in Inputs
  PROVE  /\ i.doc \in Content
         /\ i.doc.slug \in Slug
         /\ i.cats \in SUBSET CategoryId
BY StoreAssumption DEF Input, Content

\* The empty record of local variables is well typed.
LEMMA NoJobType == NoJob \in Job
BY DEF NoJob, Job, Kind

\* A request's lookups only ever find ids that exist.
LEMMA FoundType ==
  ASSUME NEW k, NEW s
  PROVE  BySlug(k, s) \subseteq DocId /\ CategoryBySlug(s) \subseteq CategoryId
BY DEF BySlug, CategoryBySlug

LEMMA InitType == Init => TypeOK
<1> SUFFICES ASSUME Init PROVE TypeOK
  OBVIOUS
<1>1. PICK kindOf \in [SeedDoc -> Kinds], inputOf \in [SeedDoc -> SeedInput] :
        Seeded(kindOf, inputOf)
  BY DEF Init
<1>2. ASSUME NEW d \in SeedDoc
      PROVE  /\ kindOf[d] \in Kind
             /\ inputOf[d] \in Input
             /\ inputOf[d].doc \in Content
             /\ inputOf[d].cats \subseteq CategoryId
  BY <1>1, InputParts, StoreAssumption DEF SeedInput
<1>3. docs \in [DocId -> Row \cup {None}]
  BY <1>1, <1>2 DEF Seeded, Row, DocId
<1>4. links \subseteq DocId \X CategoryId
  BY <1>1, <1>2 DEF Seeded, DocId
<1>5. revisions \subseteq Revision
  BY <1>1, <1>2 DEF Seeded, DocId, Revision
<1>6. categories \in [CategoryId -> CategorySlug \cup {None}]
  BY DEF Init
<1>7. media \subseteq MediaId /\ objects \subseteq MediaId
  BY DEF Init, MediaId
<1> QED
  BY <1>3, <1>4, <1>5, <1>6, <1>7, NoJobType DEF Init, TypeOK, TablesTypeOK

\* Moves that touch no table and leave the local variables well typed.
LEMMA RefuseType ==
  ASSUME TypeOK, NEW r \in Request, Refuse(r)
  PROVE  TypeOK'
BY NoJobType DEF TypeOK, TablesTypeOK, Refuse, Goto, Forget, tables, history, Ended

LEMMA RequireType ==
  ASSUME TypeOK, NEW r \in Request, NEW from, NEW condition \in BOOLEAN, NEW to \in Stages \cup Ended,
         Require(r, from, condition, to)
  PROVE  TypeOK'
BY RefuseType DEF TypeOK, TablesTypeOK, Require, Goto, memory, tables, history

LEMMA FindType ==
  ASSUME TypeOK, NEW r \in Request, NEW from, NEW found \in SUBSET (DocId \cup CategoryId),
         NEW to \in Stages, Find(r, from, found, to)
  PROVE  TypeOK'
BY RefuseType DEF TypeOK, TablesTypeOK, Find, Goto, memory, tables, history

LEMMA ArriveType ==
  ASSUME TypeOK, NEW r \in Request, NEW op, NEW stage \in Stages \cup Ended, NEW j \in Job,
         Arrive(r, op, stage, j)
  PROVE  TypeOK'
BY NoJobType DEF TypeOK, TablesTypeOK, Arrive, Step, Goto, tables, history

LEMMA FinishType ==
  ASSUME TypeOK, TablesTypeOK', NEW r \in Request, NEW from, Finish(r, from)
  PROVE  TypeOK'
BY NoJobType DEF TypeOK, Finish, Step, Goto, Forget, history, Ended

\* A request that starts names an operation over well-typed parameters.
LEMMA ArrivalsType == ASSUME TypeOK, NEW r \in Request, Arrivals(r) PROVE TypeOK'
<1> USE DEF Stages, Ended
<1>1. ASSUME NEW k \in Kinds, NEW i \in Inputs, CreateDoc(r, k, i) PROVE TypeOK'
  BY <1>1, ArriveType, InputParts, StoreAssumption DEF CreateDoc, Job
<1>2. ASSUME NEW k \in Kinds, NEW s \in Slug, NEW i \in Inputs, UpdateDoc(r, k, s, i)
      PROVE  TypeOK'
  BY <1>2, ArriveType, StoreAssumption DEF UpdateDoc, UpdateEntry, Job
<1>3. ASSUME NEW k \in Kinds, NEW s \in Slug, NEW id \in DocId, RestoreRevision(r, k, s, id)
      PROVE  TypeOK'
  BY <1>3, ArriveType, StoreAssumption DEF RestoreRevision, Job
<1>4. ASSUME NEW k \in Kinds, NEW s \in Slug, DeleteDoc(r, k, s) PROVE TypeOK'
  BY <1>4, ArriveType, StoreAssumption DEF DeleteDoc, Job
<1>5. ASSUME NEW s \in CategorySlug, CreateCategory(r, s) PROVE TypeOK'
  BY <1>5, ArriveType DEF CreateCategory, Job, Kind
<1>6. ASSUME NEW s \in CategorySlug, DeleteCategory(r, s) PROVE TypeOK'
  BY <1>6, ArriveType DEF DeleteCategory, Job, Kind
<1>7. ASSUME NEW m \in MediaId PROVE MediaJob(m) \in Job
  BY DEF MediaJob, Job, Kind
<1>8. CASE CreateMedia(r)
  BY <1>7, <1>8, ArriveType DEF CreateMedia, MediaId
<1>9. ASSUME NEW m \in MediaId, DeleteMedia(r, m) PROVE TypeOK'
  BY <1>7, <1>9 DEF DeleteMedia, Step, Goto, TypeOK, TablesTypeOK, tables, history
<1>10. ASSUME NEW m \in MediaId, GetMediaFile(r, m) PROVE TypeOK'
  BY <1>7, <1>10, ArriveType DEF GetMediaFile
<1> QED
  BY <1>1, <1>2, <1>3, <1>4, <1>5, <1>6, <1>8, <1>9, <1>10 DEF Arrivals

\* What an UPDATE leaves in a row is a row.
LEMMA UpdatedRow ==
  ASSUME TablesTypeOK, NEW d \in DocId, NEW doc \in Content, UpdateDocRow(d, doc)
  PROVE  docs' \in [DocId -> Row \cup {None}]
<1>1. CASE docs[d] = None
  BY <1>1 DEF TablesTypeOK, UpdateDocRow
<1>2. CASE docs[d] # None
  <2>1. docs[d] \in Row
    BY <1>2 DEF TablesTypeOK
  <2>2. [doc EXCEPT !.slug = docs[d].doc.slug] \in Content
    BY <2>1 DEF Row, Content
  <2>3. docs' = [docs EXCEPT ![d].doc = [doc EXCEPT !.slug = docs[d].doc.slug]]
    BY <1>2 DEF UpdateDocRow
  <2> QED
    BY <2>1, <2>2, <2>3 DEF TablesTypeOK, Row
<1> QED
  BY <1>1, <1>2

-----------------------------------------------------------------------------
(* TypeOK with StageOK is inductive: a statement finds in the local        *)
(* variables what the stages before it put there.                          *)

StagedType == TypeOK /\ StageOK

LEMMA InitStaged == Init => StagedType
<1> SUFFICES ASSUME Init PROVE StageOK
  BY InitType DEF StagedType
<1>1. PICK kindOf \in [SeedDoc -> Kinds], inputOf \in [SeedDoc -> SeedInput] :
        Seeded(kindOf, inputOf)
  BY DEF Init
<1>2. \A v \in revisions : v.input \in Inputs
  BY <1>1 DEF Seeded, SeedInput
<1> QED
  BY <1>2 DEF Init, StageOK, Writing, OnDocument, RowWritten

\* An answer of 4xx, or a failure, ends the request.
LEMMA RefuseStaged ==
  ASSUME StagedType, NEW r \in Request, Refuse(r)
  PROVE  StagedType'
<1>1. TypeOK'
  BY RefuseType DEF StagedType
<1> QED
  BY <1>1 DEF StagedType, TypeOK, StageOK, Refuse, Goto, Forget, tables,
              Writing, OnDocument, RowWritten

LEMMA FailStaged ==
  ASSUME StagedType, NEW r \in Request, Fail(r)
  PROVE  StagedType'
BY NoJobType DEF StagedType, TypeOK, TablesTypeOK, StageOK, Fail, Goto, Forget, tables, history,
                 Ended, Writing, OnDocument, RowWritten

LEMMA FinishStaged ==
  ASSUME StagedType, TablesTypeOK', NEW r \in Request, NEW from, Finish(r, from),
         \A v \in revisions' : v \in revisions
  PROVE  StagedType'
<1>1. TypeOK'
  BY FinishType DEF StagedType
<1> QED
  BY <1>1 DEF StagedType, TypeOK, StageOK, Finish, Step, Goto, Forget,
              Writing, OnDocument, RowWritten

LEMMA ArrivalsStaged ==
  ASSUME StagedType, NEW r \in Request, Arrivals(r)
  PROVE  StagedType'
<1> SUFFICES StageOK'
  BY ArrivalsType DEF StagedType
<1> USE InputParts DEF StagedType, StageOK, TypeOK, Arrive, Step, Goto, tables,
        Writing, OnDocument, RowWritten
<1>1. ASSUME NEW k \in Kinds, NEW i \in Inputs, CreateDoc(r, k, i) PROVE StageOK'
  BY <1>1 DEF CreateDoc
<1>2. ASSUME NEW k \in Kinds, NEW s \in Slug, NEW i \in Inputs, UpdateDoc(r, k, s, i)
      PROVE  StageOK'
  BY <1>2 DEF UpdateDoc, UpdateEntry
<1>3. ASSUME NEW k \in Kinds, NEW s \in Slug, NEW id \in DocId, RestoreRevision(r, k, s, id)
      PROVE  StageOK'
  BY <1>3 DEF RestoreRevision
<1>4. ASSUME NEW k \in Kinds, NEW s \in Slug, DeleteDoc(r, k, s) PROVE StageOK'
  BY <1>4 DEF DeleteDoc
<1>5. ASSUME NEW s \in CategorySlug, CreateCategory(r, s) PROVE StageOK'
  BY <1>5 DEF CreateCategory
<1>6. ASSUME NEW s \in CategorySlug, DeleteCategory(r, s) PROVE StageOK'
  BY <1>6 DEF DeleteCategory
<1>7. CASE CreateMedia(r)
  BY <1>7 DEF CreateMedia
<1>8. ASSUME NEW m \in MediaId, DeleteMedia(r, m) PROVE StageOK'
  BY <1>8 DEF DeleteMedia, MediaJob
<1>9. ASSUME NEW m \in MediaId, GetMediaFile(r, m) PROVE StageOK'
  BY <1>9 DEF GetMediaFile, MediaJob
<1> QED
  BY <1>1, <1>2, <1>3, <1>4, <1>5, <1>6, <1>7, <1>8, <1>9 DEF Arrivals

LEMMA DocStepsStaged ==
  ASSUME StagedType, NEW r \in Request, DocSteps(r)
  PROVE  StagedType'
<1> USE DEF StagedType, StageOK, TypeOK, TablesTypeOK, Step, Goto, tables, memory, history,
            Stages, Ended, Writing, OnDocument, RowWritten
<1>1. CASE CheckSlugFree(r)
  BY <1>1, RefuseStaged DEF CheckSlugFree, Require
<1>2. CASE InsertRow(r)
  <2>1. job[r].input.doc \in Content
    BY <1>2, InputParts DEF InsertRow
  <2>2. docs' \in [DocId -> Row \cup {None}]
    BY <1>2, <2>1 DEF InsertRow, InsertDocRow, Row, Job, DocId
  <2>3. touched' \in [Request -> SUBSET DocId]
    BY <1>2 DEF InsertRow, Touch, DocId
  <2> QED
    BY <1>2, <2>2, <2>3 DEF InsertRow, AfterRow, DocId, Job
<1>3. CASE FindRevisionTarget(r)
  BY <1>3, RefuseStaged, FoundType DEF FindRevisionTarget, Find
<1>4. CASE FindRevisionRow(r)
  <2>1. CASE Refuse(r)
    BY <2>1, RefuseStaged
  <2>2. CASE ~Refuse(r)
    <3>1. PICK v \in revisions :
            /\ UpdateEntry(job[r].slug, v.input) = "lookup"
            /\ Goto(r, "lookup")
            /\ job' = [job EXCEPT ![r].input = v.input]
      BY <1>4, <2>2 DEF FindRevisionRow, RevisionsOf
    <3>2. /\ pc[r] = "restoreRow"
          /\ UNCHANGED <<tables, target, todo, stamp, clock, history>>
      BY <1>4, <2>2 DEF FindRevisionRow
    <3>3. v.input \in Inputs /\ v.input.doc.slug = job[r].slug /\ job[r].slug \notin Reserved
      BY <3>1 DEF UpdateEntry
    <3>4. job'[r] \in Job /\ job'[r].input = v.input /\ job'[r].slug = job[r].slug
      BY <3>1, <3>3 DEF Job
    <3> QED
      BY <3>1, <3>2, <3>3, <3>4
  <2> QED
    BY <2>1, <2>2
<1>5. CASE RequireDecodedRow(r)
  BY <1>5, RefuseStaged, FoundType DEF RequireDecodedRow, Find
<1>6. CASE UpdateRow(r)
  <2>1. docs' \in [DocId -> Row \cup {None}]
    BY <1>6, UpdatedRow, InputParts DEF UpdateRow
  <2>2. touched' \in [Request -> SUBSET DocId]
    BY <1>6 DEF UpdateRow, Touch
  <2> QED
    BY <1>6, <2>1, <2>2 DEF UpdateRow, AfterRow, Job
<1>7. CASE UnlinkCategories(r)
  BY <1>7 DEF UnlinkCategories, DeleteLinks
<1>8. CASE VerifyCategories(r)
  BY <1>8, RefuseStaged, InputParts DEF VerifyCategories
<1>9. CASE LinkCategory(r)
  BY <1>9 DEF LinkCategory, InsertLink
<1>10. CASE ReadClock(r)
  BY <1>10 DEF ReadClock
<1>11. CASE RecordRevision(r)
  <2> DEFINE new == [id |-> r, kind |-> job[r].kind, entity |-> target[r],
                     input |-> job[r].input, at |-> stamp[r], rowid |-> rowids + 1]
  <2>1. new \in Revision
    BY <1>11, StoreAssumption DEF RecordRevision, Revision, Job, DocId
  <2>2. new.input = job[r].input /\ new.rowid = rowids + 1
    OBVIOUS
  <2>3. revisions' = revisions \cup {new} /\ rowids' = rowids + 1
    BY <1>11, <2>2 DEF RecordRevision, InsertRevision
  <2> HIDE DEF new
  <2> QED
    BY <1>11, <2>1, <2>2, <2>3 DEF RecordRevision
<1>12. CASE PruneRevisions(r)
  <2>1. revisions' \subseteq revisions
    BY <1>12 DEF PruneRevisions, Prune, RevisionsOf, Newest
  <2> QED
    BY <1>12, <2>1 DEF PruneRevisions, Prune
<1>13. CASE ReadBack(r)
  BY <1>13, RefuseStaged DEF ReadBack, Require
<1>14. CASE FindDoc(r)
  BY <1>14, RefuseStaged, FoundType DEF FindDoc, Find
<1>15. CASE DeleteRow(r)
  <2>1. TablesTypeOK'
    BY <1>15 DEF DeleteRow, DeleteDocRow
  <2> QED
    BY <1>15, <2>1, FinishStaged DEF DeleteRow
<1> QED
  BY <1>1, <1>2, <1>3, <1>4, <1>5, <1>6, <1>7, <1>8, <1>9, <1>10, <1>11, <1>12, <1>13,
     <1>14, <1>15 DEF DocSteps

LEMMA CategoryStepsStaged ==
  ASSUME StagedType, NEW r \in Request, CategorySteps(r)
  PROVE  StagedType'
<1> USE DEF StagedType, StageOK, TypeOK, TablesTypeOK, Step, Goto, tables, memory, history,
            Stages, Ended, Writing, OnDocument, RowWritten
<1>1. CASE CheckCategory(r)
  BY <1>1, RefuseStaged DEF CheckCategory, Require
<1>2. CASE InsertCategoryRow(r)
  <2>1. TablesTypeOK'
    BY <1>2 DEF InsertCategoryRow, InsertCategory, Finish
  <2> QED
    BY <1>2, <2>1, FinishStaged DEF InsertCategoryRow
<1>3. CASE FindCategory(r)
  <2>1. CASE Refuse(r)
    BY <2>1, RefuseStaged
  <2>2. CASE ~Refuse(r)
    <3>1. PICK c \in CategoryId : Goto(r, "deleteCategory") /\ target' = [target EXCEPT ![r] = c]
      BY <1>3, <2>2 DEF FindCategory, Find, CategoryBySlug
    <3> QED
      BY <1>3, <2>2, <3>1 DEF FindCategory, Find
  <2> QED
    BY <2>1, <2>2
<1>4. CASE RemoveCategory(r)
  <2>1. TablesTypeOK'
    BY <1>4 DEF RemoveCategory, DeleteCategoryRow
  <2> QED
    BY <1>4, <2>1, FinishStaged DEF RemoveCategory
<1> QED
  BY <1>1, <1>2, <1>3, <1>4 DEF CategorySteps

LEMMA MediaStepsStaged ==
  ASSUME StagedType, NEW r \in Request, MediaSteps(r)
  PROVE  StagedType'
<1> USE DEF StagedType, StageOK, TypeOK, TablesTypeOK, Step, Goto, tables, memory, history,
            Stages, Ended, Writing, OnDocument, RowWritten
<1>1. CASE PutBytes(r)
  BY <1>1 DEF PutBytes, MediaId
<1>2. CASE InsertMediaRow(r)
  BY <1>2 DEF InsertMediaRow, MediaId
<1>3. CASE ReadMedia(r)
  BY <1>3, RefuseStaged DEF ReadMedia, Require
<1>4. CASE ReadUsage(r)
  BY <1>4, RefuseStaged DEF ReadUsage
<1>5. CASE DeleteMediaRow(r)
  BY <1>5 DEF DeleteMediaRow
<1>6. CASE DeleteBytes(r)
  <2>1. TablesTypeOK'
    BY <1>6 DEF DeleteBytes
  <2> QED
    BY <1>6, <2>1, FinishStaged DEF DeleteBytes
<1>7. CASE RequireMediaRow(r)
  BY <1>7, RefuseStaged DEF RequireMediaRow, Require
<1>8. CASE ReadBytes(r)
  BY <1>8, RefuseStaged DEF ReadBytes, Require
<1> QED
  BY <1>1, <1>2, <1>3, <1>4, <1>5, <1>6, <1>7, <1>8 DEF MediaSteps

LEMMA NextStaged == StagedType /\ [Next]_vars => StagedType'
<1> SUFFICES ASSUME StagedType, [Next]_vars PROVE StagedType'
  OBVIOUS
<1>1. ASSUME NEW r \in Request, Arrivals(r) PROVE StagedType'
  BY <1>1, ArrivalsStaged
<1>2. ASSUME NEW r \in Request, Serve(r) PROVE StagedType'
  BY <1>2, DocStepsStaged, CategoryStepsStaged, MediaStepsStaged, FailStaged DEF Serve
<1>3. CASE UNCHANGED vars
  BY <1>3 DEF vars, tables, locals, history, StagedType, TypeOK, TablesTypeOK, StageOK
<1> QED
  BY <1>1, <1>2, <1>3 DEF Next, Over

(***************************************************************************)
(* Every table and every local variable keeps its type.                    *)
(***************************************************************************)
THEOREM TypeCorrect == Spec => []TypeOK
<1>1. StagedType => TypeOK
  BY DEF StagedType
<1> QED
  BY <1>1, InitStaged, NextStaged, PTL DEF Spec

-----------------------------------------------------------------------------
(* Documents, links and revisions: the identity of a document is fixed for *)
(* every request that holds its id, whatever runs between two statements.  *)

Identity == /\ IdentityOK
            /\ OneRowPerSlug
            /\ NoReservedDoc
            /\ HistoryKeepsSlug
            /\ LinksResolve

LEMMA InitIdentity == Init => Identity
<1> SUFFICES ASSUME Init PROVE Identity
  OBVIOUS
<1>1. PICK kindOf \in [SeedDoc -> Kinds], inputOf \in [SeedDoc -> SeedInput] :
        /\ \A d, e \in SeedDoc : /\ kindOf[d] = kindOf[e]
                                 /\ inputOf[d].doc.slug = inputOf[e].doc.slug => d = e
        /\ \A d \in SeedDoc : kindOf[d] = "work" => inputOf[d].cats = {}
        /\ Seeded(kindOf, inputOf)
  BY DEF Init
<1>2. \A d \in DocId : docs[d] # None => /\ d \in SeedDoc
                                         /\ docs[d].kind = kindOf[d]
                                         /\ docs[d].doc = inputOf[d].doc
  BY <1>1 DEF Seeded
<1>3. ASSUME NEW d \in SeedDoc
      PROVE  /\ docs[d] = [kind |-> kindOf[d], doc |-> inputOf[d].doc]
             /\ docs[d].kind = kindOf[d]
             /\ docs[d].doc = inputOf[d].doc
             /\ kindOf[d] \in Kind
             /\ inputOf[d] \in Inputs
  BY <1>1, StoreAssumption DEF Seeded, DocId, SeedInput
<1>4. \A d \in SeedDoc : docs[d] # None
  <2> TAKE d \in SeedDoc
  <2>1. inputOf[d].doc \in Content
    BY <1>3, InputParts
  <2>2. [kind |-> kindOf[d], doc |-> inputOf[d].doc] \in Row
    BY <1>3, <2>1 DEF Row
  <2>3. docs[d] \in Row
    BY <1>3, <2>2
  <2> QED
    BY <2>3, TablesAssumption
<1>5. IdentityOK
  BY <1>1, <1>2 DEF Init, Seeded, IdentityOK, Settled, OnDocument, RowWritten
<1>6. OneRowPerSlug
  BY <1>1, <1>2 DEF OneRowPerSlug, BySlug
<1>7. NoReservedDoc
  BY <1>1, <1>2 DEF NoReservedDoc, BySlug, SeedInput
<1>8. HistoryKeepsSlug
  <2>1. ASSUME NEW v \in revisions
        PROVE  /\ v.input.doc.slug = docs[v.entity].doc.slug
               /\ v.kind = docs[v.entity].kind
    <3>1. PICK d \in SeedDoc :
            v = [id |-> d, kind |-> kindOf[d], entity |-> d, input |-> inputOf[d],
                 at |-> 0, rowid |-> 0]
      BY <1>1 DEF Seeded
    <3>2. v.entity = d /\ v.input = inputOf[d] /\ v.kind = kindOf[d]
      BY <3>1
    <3> QED
      BY <1>3, <3>2
  <2> QED
    BY <2>1 DEF HistoryKeepsSlug
<1>9. LinksResolve
  <2>1. ASSUME NEW l \in links
        PROVE  docs[l[1]] # None /\ docs[l[1]].kind = "post" /\ categories[l[2]] # None
    <3>1. links = UNION {{d} \X inputOf[d].cats : d \in SeedDoc}
      BY <1>1 DEF Seeded
    <3> PICK d \in SeedDoc : l \in {d} \X inputOf[d].cats
      BY <3>1
    <3>2. l[1] = d /\ l[2] \in inputOf[d].cats
      OBVIOUS
    <3>3. l[2] \in SeedCategory
      BY <3>2 DEF SeedInput
    <3>4. categories[l[2]] \in CategorySlug
      BY <3>3 DEF Init, CategoryId
    <3>5. kindOf[d] = "post"
      <4>1. kindOf[d] = "work" => inputOf[d].cats = {}
        BY <1>1
      <4> QED
        BY <4>1, <1>3, <3>2 DEF Kind
    <3>6. None \notin CategorySlug
      BY TablesAssumption
    <3> QED
      BY <1>3, <1>4, <3>2, <3>4, <3>5, <3>6
  <2> QED
    BY <2>1 DEF LinksResolve
<1> QED
  BY <1>5, <1>6, <1>7, <1>8, <1>9 DEF Identity

\* A step that leaves the documents alone and takes r to a stage where it
\* holds no document id.
LEMMA LeaveIdentity ==
  ASSUME StagedType, Identity, NEW r \in Request, NEW to,
         UNCHANGED <<docs, links, categories, revisions, missed>>,
         pc' = [pc EXCEPT ![r] = to],
         to \notin OnDocument, to # "idle",
         to = "checkSlug" => pc[r] = "idle", to = "insertRow" => pc[r] = "checkSlug",
         pc[r] \in RowWritten => to \in {"rejected", "failed"} \/ docs[target[r]] # None,
         pc[r] \notin {"rejected", "failed"},
         \A q \in Request \ {r} : job'[q] = job[q] /\ target'[q] = target[q]
  PROVE  Identity'
<1>1. IdentityOK'
  BY DEF Identity, IdentityOK, StagedType, StageOK, TypeOK, Settled, BeforeBirth, OnDocument, RowWritten
<1> QED
  BY <1>1 DEF Identity, OneRowPerSlug, NoReservedDoc, HistoryKeepsSlug, LinksResolve, BySlug

LEMMA RefuseIdentity ==
  ASSUME StagedType, Identity, NEW r \in Request, InFlight(r), Refuse(r)
  PROVE  Identity'
BY LeaveIdentity DEF Refuse, Goto, Forget, tables, history, StagedType, TypeOK,
                     OnDocument, RowWritten, InFlight, Stages

LEMMA FailIdentity ==
  ASSUME StagedType, Identity, NEW r \in Request, Fail(r)
  PROVE  Identity'
BY LeaveIdentity DEF Fail, Goto, Forget, tables, history, StagedType, TypeOK,
                     OnDocument, RowWritten, InFlight, Stages

LEMMA ArrivalsIdentity ==
  ASSUME StagedType, Identity, NEW r \in Request, Arrivals(r)
  PROVE  Identity'
<1>1. ASSUME NEW op, NEW to \in {"rejected", "checkSlug", "lookup", "restoreTarget", "findDoc",
                                  "checkCategory", "findCategory", "putBytes", "fileRow"},
             NEW j, Arrive(r, op, to, j)
      PROVE  Identity'
  BY <1>1, LeaveIdentity DEF Arrive, Step, Goto, tables, history, OnDocument, RowWritten,
                             StagedType, TypeOK
<1>2. ASSUME NEW m \in MediaId, DeleteMedia(r, m) PROVE Identity'
  BY <1>2, LeaveIdentity DEF DeleteMedia, Step, Goto, tables, history, OnDocument, RowWritten,
                             StagedType, TypeOK
<1> QED
  BY <1>1, <1>2 DEF Arrivals, CreateDoc, UpdateDoc, UpdateEntry, RestoreRevision, DeleteDoc,
                    CreateCategory, DeleteCategory, CreateMedia, GetMediaFile

\* A step that leaves the documents alone and takes r, which keeps or finds
\* the document it works on, to the next stage.
LEMMA AdvanceIdentity ==
  ASSUME StagedType, Identity, NEW r \in Request, NEW to \in OnDocument,
         UNCHANGED <<docs, categories, missed>>,
         pc' = [pc EXCEPT ![r] = to],
         pc[r] \notin {"idle", "checkSlug", "insertRow"} \cup Ended,
         pc[r] \in RowWritten => to \in RowWritten /\ target'[r] = target[r],
         Settled(target'[r]),
         docs[target'[r]] # None => /\ docs[target'[r]].kind = job'[r].kind
                                    /\ docs[target'[r]].doc.slug = job'[r].slug,
         \A q \in Request \ {r} : job'[q] = job[q] /\ target'[q] = target[q]
  PROVE  IdentityOK' \/ ~ \A v \in revisions' : Settled(v.entity)'
<1>1. pc[r] \notin BeforeBirth /\ to \notin BeforeBirth
  BY DEF BeforeBirth, OnDocument, RowWritten
<1>2. \A d : Settled(d) => Settled(d)'
  BY <1>1 DEF Settled, StagedType, TypeOK
<1> QED
  BY <1>1, <1>2 DEF Identity, IdentityOK, StagedType, TypeOK, OnDocument, RowWritten, Ended

\* A lookup finds a document of its own table and slug.
LEMMA FoundIdentity ==
  ASSUME StagedType, Identity, NEW r \in Request, NEW from, NEW to \in OnDocument,
         from \in {"restoreTarget", "lookup", "findDoc"}, to \notin RowWritten,
         Find(r, from, BySlug(job[r].kind, job[r].slug), to)
  PROVE  Identity'
<1>1. CASE Refuse(r)
  BY <1>1, RefuseIdentity DEF Find, InFlight, Stages
<1>2. CASE ~Refuse(r)
  <2>1. PICK d \in BySlug(job[r].kind, job[r].slug) :
          /\ pc[r] = from
          /\ pc' = [pc EXCEPT ![r] = to]
          /\ target' = [target EXCEPT ![r] = d]
          /\ UNCHANGED <<tables, job, todo, stamp, clock, history>>
    BY <1>2 DEF Find, Goto
  <2>2. /\ UNCHANGED <<docs, categories, missed, links, revisions>>
        /\ target'[r] = d
        /\ \A q \in Request \ {r} : job'[q] = job[q] /\ target'[q] = target[q]
    BY <2>1 DEF tables, history, StagedType, TypeOK
  <2>3. d \in DocId /\ docs[d] # None /\ docs[d].kind = job[r].kind /\ docs[d].doc.slug = job[r].slug
    BY <2>1 DEF BySlug
  <2>4. Settled(d)
    BY <2>3 DEF Identity, IdentityOK
  <2>5. pc[r] \notin BeforeBirth /\ to \notin BeforeBirth
    BY <2>1 DEF BeforeBirth, OnDocument, RowWritten
  <2>6. \A v \in revisions' : Settled(v.entity)'
    BY <2>1, <2>2, <2>5 DEF Settled, Identity, IdentityOK, StagedType, TypeOK
  <2>7. IdentityOK'
    BY <2>1, <2>2, <2>3, <2>4, <2>6, AdvanceIdentity DEF Ended, RowWritten
  <2> QED
    BY <2>2, <2>7 DEF Identity, OneRowPerSlug, NoReservedDoc, HistoryKeepsSlug, LinksResolve, BySlug
<1> QED
  BY <1>1, <1>2

\* A step of a request that has written its row and touches neither the
\* documents nor the categories.
LEMMA WrittenIdentity ==
  ASSUME StagedType, Identity, NEW r \in Request, NEW to \in RowWritten,
         pc[r] \in RowWritten, pc' = [pc EXCEPT ![r] = to],
         UNCHANGED <<docs, categories, missed, job, target>>
  PROVE  /\ (\A v \in revisions' : Settled(v.entity)) => IdentityOK'
         /\ links' \subseteq links /\ revisions' \subseteq revisions => Identity'
<1>1. pc[r] \in OnDocument /\ to \in OnDocument
  BY DEF OnDocument
<1>2. pc[r] \notin BeforeBirth /\ to \notin BeforeBirth /\ pc[r] \notin Ended
  BY DEF BeforeBirth, RowWritten, Ended
<1>3. \A d : Settled(d) => Settled(d)'
  BY <1>2 DEF Settled, StagedType, TypeOK
<1>4. ASSUME \A v \in revisions' : Settled(v.entity) PROVE IdentityOK'
  BY <1>1, <1>2, <1>3, <1>4, AdvanceIdentity DEF Identity, IdentityOK, BeforeBirth, Ended
<1>5. ASSUME links' \subseteq links, revisions' \subseteq revisions PROVE Identity'
  <2>1. IdentityOK'
    BY <1>4, <1>5 DEF Identity, IdentityOK
  <2> QED
    BY <1>5, <2>1 DEF Identity, OneRowPerSlug, NoReservedDoc, HistoryKeepsSlug, LinksResolve, BySlug
<1> QED
  BY <1>4, <1>5
\* A new document takes a slug no other row of its table has: D1 checks it
\* with the INSERT, whatever the earlier read said.
LEMMA InsertRowIdentity ==
  ASSUME StagedType, Identity, NEW r \in Request, InsertRow(r)
  PROVE  Identity'
<1> DEFINE new == [kind |-> job[r].kind, doc |-> job[r].input.doc]
<1>1. /\ pc[r] = "insertRow"
      /\ pc' = [pc EXCEPT ![r] = AfterRow(job[r].kind)]
      /\ docs' = [docs EXCEPT ![r] = new]
      /\ target' = [target EXCEPT ![r] = r]
      /\ BySlug(job[r].kind, job[r].input.doc.slug) = {}
      /\ UNCHANGED <<links, categories, revisions, job, missed>>
  BY DEF InsertRow, Step, Goto, InsertDocRow, DocAccepted
<1>2. /\ job[r].slug = job[r].input.doc.slug
      /\ job[r].slug \notin Reserved
      /\ job[r].kind \in Kind
      /\ new \in Row
  BY <1>1, InputParts DEF StagedType, StageOK, TypeOK, Job, Writing, Row
<1>3. new # None /\ new.kind = job[r].kind /\ new.doc.slug = job[r].slug
  BY <1>2, TablesAssumption
<1> HIDE DEF new
<1>4. r \in DocId /\ docs[r] = None /\ r \notin SeedDoc
  BY <1>1, TablesAssumption DEF DocId, Identity, IdentityOK, Settled, BeforeBirth
<1>5. AfterRow(job[r].kind) \in RowWritten /\ AfterRow(job[r].kind) \notin BeforeBirth
  BY DEF AfterRow, RowWritten, BeforeBirth
<1>6. docs'[r] = new /\ \A d \in DocId \ {r} : docs'[d] = docs[d]
  BY <1>1, <1>4 DEF StagedType, TypeOK, TablesTypeOK
<1>7. Settled(r)' /\ \A d : Settled(d) => Settled(d)'
  BY <1>1, <1>5 DEF Settled, StagedType, TypeOK, BeforeBirth
<1>8. \A q \in Request \ {r} : pc[q] \in OnDocument => target[q] # r /\ target[q] \in DocId
  BY <1>1, <1>4 DEF Identity, IdentityOK, Settled, BeforeBirth, StagedType, StageOK
<1>9. \A v \in revisions : v.entity # r /\ v.entity \in DocId
  BY <1>1, <1>4 DEF Identity, IdentityOK, Settled, BeforeBirth, StagedType, TypeOK, TablesTypeOK,
                    Revision
<1>10. \A l \in links : l[1] # r /\ l[1] \in DocId
  BY <1>4 DEF Identity, LinksResolve, StagedType, TypeOK, TablesTypeOK
<1>11. r \notin missed
  BY <1>1 DEF Identity, IdentityOK, RowWritten
<1>12. pc'[r] = AfterRow(job[r].kind) /\ target'[r] = r /\
       \A q \in Request \ {r} : pc'[q] = pc[q] /\ target'[q] = target[q]
  BY <1>1 DEF StagedType, TypeOK
<1>13. IdentityOK'
  <2>1. \A d \in DocId : docs'[d] # None => Settled(d)'
    BY <1>6, <1>7 DEF Identity, IdentityOK
  <2>2. \A v \in revisions' : Settled(v.entity)'
    BY <1>1, <1>7 DEF Identity, IdentityOK
  <2>3. ASSUME NEW q \in Request, pc'[q] \in OnDocument
        PROVE  /\ Settled(target[q])'
               /\ docs'[target'[q]] # None => /\ docs'[target'[q]].kind = job'[q].kind
                                              /\ docs'[target'[q]].doc.slug = job'[q].slug
    <3>1. CASE q = r
      BY <1>1, <1>3, <1>6, <1>7, <1>12, <3>1
    <3>2. CASE q # r
      BY <1>1, <1>6, <1>7, <1>8, <1>12, <2>3, <3>2 DEF Identity, IdentityOK
    <3> QED
      BY <3>1, <3>2
  <2>4. \A q \in missed' : /\ pc'[q] \in RowWritten \cup {"rejected", "failed"}
                           /\ pc'[q] \in RowWritten => docs'[target'[q]] = None
    <3> SUFFICES ASSUME NEW q \in missed
                 PROVE  /\ pc'[q] \in RowWritten \cup {"rejected", "failed"}
                        /\ pc'[q] \in RowWritten => docs'[target'[q]] = None
      BY <1>1
    <3>1. q # r /\ q \in Request
      BY <1>11 DEF StagedType, TypeOK
    <3>2. pc[q] \in RowWritten => target[q] # r /\ target[q] \in DocId
      BY <1>8, <3>1 DEF OnDocument
    <3> QED
      BY <1>6, <1>12, <3>1, <3>2 DEF Identity, IdentityOK
  <2> QED
    BY <2>1, <2>2, <2>3, <2>4 DEF IdentityOK
<1>14. OneRowPerSlug'
  BY <1>1, <1>2, <1>3, <1>6 DEF Identity, OneRowPerSlug, BySlug
<1>15. NoReservedDoc'
  BY <1>2, <1>3, <1>6 DEF Identity, NoReservedDoc, BySlug
<1>16. HistoryKeepsSlug'
  BY <1>1, <1>6, <1>9 DEF Identity, HistoryKeepsSlug
<1>17. LinksResolve'
  BY <1>1, <1>6, <1>10 DEF Identity, LinksResolve
<1> QED
  BY <1>13, <1>14, <1>15, <1>16, <1>17 DEF Identity

\* An UPDATE changes which columns a row holds, never whether the row is
\* there, its table or its slug.
LEMMA UpdateKeepsSlug ==
  ASSUME TablesTypeOK, NEW d \in DocId, NEW input \in Inputs, UpdateDocRow(d, input.doc)
  PROVE  \A e \in DocId : /\ (docs'[e] = None) <=> (docs[e] = None)
                          /\ docs[e] # None => /\ docs'[e].kind = docs[e].kind
                                               /\ docs'[e].doc.slug = docs[e].doc.slug
<1>1. CASE docs[d] = None
  BY <1>1 DEF UpdateDocRow
<1>2. CASE docs[d] # None
  <2> DEFINE doc == [input.doc EXCEPT !.slug = docs[d].doc.slug]
             row == [docs[d] EXCEPT !.doc = doc]
  <2>1. docs[d] \in Row
    BY <1>2 DEF TablesTypeOK
  <2>2. doc \in Content /\ doc.slug = docs[d].doc.slug
    BY <2>1, InputParts DEF Row, Content
  <2> HIDE DEF doc
  <2>3. row \in Row /\ row.kind = docs[d].kind /\ row.doc = doc
    BY <2>1, <2>2 DEF Row
  <2>4. docs' = [docs EXCEPT ![d] = row]
    BY <1>2 DEF UpdateDocRow, doc
  <2>5. row # None
    BY <2>3, TablesAssumption
  <2> HIDE DEF row
  <2> QED
    BY <1>2, <2>2, <2>3, <2>4, <2>5 DEF TablesTypeOK
<1> QED
  BY <1>1, <1>2

\* An UPDATE by id leaves the table and the slug of every row alone.
LEMMA UpdateRowIdentity ==
  ASSUME StagedType, Identity, NEW r \in Request, UpdateRow(r)
  PROVE  Identity'
<1>1. /\ pc[r] = "updateRow"
      /\ pc' = [pc EXCEPT ![r] = AfterRow(job[r].kind)]
      /\ UpdateDocRow(target[r], job[r].input.doc)
      /\ missed' = IF docs[target[r]] = None THEN missed \cup {r} ELSE missed
      /\ UNCHANGED <<links, categories, revisions, job, target>>
  BY DEF UpdateRow, Step, Goto
<1>2. target[r] \in DocId /\ job[r].input \in Inputs
  BY <1>1 DEF StagedType, StageOK, OnDocument, Writing
<1>3. \A d \in DocId : /\ (docs'[d] = None) <=> (docs[d] = None)
                       /\ docs[d] # None => /\ docs'[d].kind = docs[d].kind
                                            /\ docs'[d].doc.slug = docs[d].doc.slug
  BY <1>1, <1>2, UpdateKeepsSlug DEF StagedType, TypeOK
<1>4. AfterRow(job[r].kind) \in RowWritten
  BY DEF AfterRow, RowWritten
<1>5. pc[r] \notin BeforeBirth /\ AfterRow(job[r].kind) \notin BeforeBirth
  BY <1>1, <1>4 DEF BeforeBirth, RowWritten
<1>6. \A d : Settled(d) => Settled(d)'
  BY <1>1, <1>5 DEF Settled, StagedType, TypeOK
<1>7. \A q \in Request : pc'[q] \in OnDocument => pc[q] \in OnDocument /\ target[q] \in DocId
  BY <1>1, <1>2 DEF OnDocument, StagedType, TypeOK, StageOK
<1>8. IdentityOK'
  <2>1. \A d \in DocId : docs'[d] # None => Settled(d)'
    BY <1>3, <1>6 DEF Identity, IdentityOK
  <2>2. \A v \in revisions' : Settled(v.entity)'
    BY <1>1, <1>6 DEF Identity, IdentityOK
  <2>3. ASSUME NEW q \in Request, pc'[q] \in OnDocument
        PROVE  /\ Settled(target[q])'
               /\ docs'[target'[q]] # None => /\ docs'[target'[q]].kind = job'[q].kind
                                              /\ docs'[target'[q]].doc.slug = job'[q].slug
    BY <1>1, <1>3, <1>6, <1>7, <2>3 DEF Identity, IdentityOK
  <2>4. ASSUME NEW q \in missed'
        PROVE  /\ pc'[q] \in RowWritten \cup {"rejected", "failed"}
               /\ pc'[q] \in RowWritten => docs'[target'[q]] = None
    <3>1. CASE q = r
      <4>1. pc'[r] \in RowWritten
        BY <1>1, <1>4 DEF StagedType, TypeOK
      <4>2. docs[target[r]] = None
        BY <1>1, <2>4, <3>1 DEF Identity, IdentityOK, RowWritten
      <4> QED
        BY <1>1, <1>2, <1>3, <3>1, <4>1, <4>2
    <3>2. CASE q # r
      <4>1. q \in missed /\ q \in Request
        BY <1>1, <2>4, <3>2 DEF StagedType, TypeOK
      <4>2. pc'[q] = pc[q]
        BY <1>1, <3>2, <4>1 DEF StagedType, TypeOK
      <4>3. pc[q] \in RowWritten => target[q] \in DocId
        BY <1>7, <4>1, <4>2 DEF OnDocument
      <4> QED
        BY <1>1, <1>3, <4>1, <4>2, <4>3 DEF Identity, IdentityOK
    <3> QED
      BY <3>1, <3>2
  <2> QED
    BY <2>1, <2>2, <2>3, <2>4 DEF IdentityOK
<1>9. OneRowPerSlug' /\ NoReservedDoc'
  BY <1>3 DEF Identity, OneRowPerSlug, NoReservedDoc, BySlug
<1>10. HistoryKeepsSlug'
  BY <1>1, <1>3 DEF Identity, HistoryKeepsSlug, StagedType, TypeOK, TablesTypeOK, Revision
<1>11. LinksResolve'
  BY <1>1, <1>3 DEF Identity, LinksResolve, StagedType, TypeOK, TablesTypeOK
<1> QED
  BY <1>8, <1>9, <1>10, <1>11 DEF Identity
\* Deleting a document takes its links away, and a request that still holds
\* its id holds an id no row will ever have again.
LEMMA DeleteRowIdentity ==
  ASSUME StagedType, Identity, NEW r \in Request, DeleteRow(r)
  PROVE  Identity'
<1>1. /\ pc[r] = "deleteRow"
      /\ pc' = [pc EXCEPT ![r] = "ok"]
      /\ docs' = [docs EXCEPT ![target[r]] = None]
      /\ links' = {l \in links : l[1] # target[r]}
      /\ UNCHANGED <<categories, revisions, missed>>
      /\ \A q \in Request \ {r} : job'[q] = job[q] /\ target'[q] = target[q]
  BY DEF DeleteRow, Finish, Step, Goto, Forget, DeleteDocRow, history, StagedType, TypeOK
<1>2. target[r] \in DocId
  BY <1>1 DEF StagedType, StageOK, OnDocument
<1>3. docs'[target[r]] = None /\ \A d \in DocId \ {target[r]} : docs'[d] = docs[d]
  BY <1>1, <1>2 DEF StagedType, TypeOK, TablesTypeOK
<1>4. \A d : Settled(d) => Settled(d)'
  BY <1>1 DEF Settled, StagedType, TypeOK, BeforeBirth
<1>5. \A q \in Request : pc'[q] \in OnDocument =>
        /\ q # r /\ pc[q] \in OnDocument /\ target[q] \in DocId
        /\ job'[q] = job[q] /\ target'[q] = target[q]
  BY <1>1 DEF OnDocument, RowWritten, StagedType, TypeOK, StageOK
<1>6. IdentityOK'
  <2>1. \A d \in DocId : docs'[d] # None => Settled(d)'
    BY <1>3, <1>4 DEF Identity, IdentityOK
  <2>2. \A v \in revisions' : Settled(v.entity)'
    BY <1>1, <1>4 DEF Identity, IdentityOK
  <2>3. ASSUME NEW q \in Request, pc'[q] \in OnDocument
        PROVE  /\ Settled(target[q])'
               /\ docs'[target'[q]] # None => /\ docs'[target'[q]].kind = job'[q].kind
                                              /\ docs'[target'[q]].doc.slug = job'[q].slug
    BY <1>3, <1>4, <1>5, <2>3 DEF Identity, IdentityOK
  <2>4. ASSUME NEW q \in missed'
        PROVE  /\ pc'[q] \in RowWritten \cup {"rejected", "failed"}
               /\ pc'[q] \in RowWritten => docs'[target'[q]] = None
    <3>1. q # r /\ q \in Request /\ q \in missed
      BY <1>1, <2>4 DEF Identity, IdentityOK, RowWritten, StagedType, TypeOK
    <3>2. pc'[q] = pc[q] /\ (pc[q] \in RowWritten => target'[q] = target[q] /\ target[q] \in DocId)
      BY <1>1, <1>5, <3>1 DEF StagedType, TypeOK, OnDocument
    <3> QED
      BY <1>3, <3>1, <3>2 DEF Identity, IdentityOK
  <2> QED
    BY <2>1, <2>2, <2>3, <2>4 DEF IdentityOK
<1>7. OneRowPerSlug' /\ NoReservedDoc'
  BY <1>3 DEF Identity, OneRowPerSlug, NoReservedDoc, BySlug
<1>8. HistoryKeepsSlug'
  BY <1>1, <1>3 DEF Identity, HistoryKeepsSlug, StagedType, TypeOK, TablesTypeOK, Revision
<1>9. LinksResolve'
  BY <1>1, <1>3 DEF Identity, LinksResolve, StagedType, TypeOK, TablesTypeOK
<1> QED
  BY <1>6, <1>7, <1>8, <1>9 DEF Identity

LEMMA DocStepsIdentity ==
  ASSUME StagedType, Identity, NEW r \in Request, DocSteps(r)
  PROVE  Identity'
<1> USE DEF Step, Goto, tables, memory, history, RowWritten
<1>1. CASE CheckSlugFree(r)
  <2>1. CASE Refuse(r)
    BY <1>1, <2>1, RefuseIdentity DEF CheckSlugFree, Require, InFlight, Stages
  <2>2. CASE ~Refuse(r)
    BY <1>1, <2>2, LeaveIdentity DEF CheckSlugFree, Require, OnDocument
  <2> QED
    BY <2>1, <2>2
<1>2. CASE InsertRow(r)
  BY <1>2, InsertRowIdentity
<1>3. CASE FindRevisionTarget(r)
  BY <1>3, FoundIdentity DEF FindRevisionTarget, OnDocument
<1>4. CASE FindRevisionRow(r)
  <2>1. CASE Refuse(r)
    BY <1>4, <2>1, RefuseIdentity DEF FindRevisionRow, InFlight, Stages
  <2>2. CASE ~Refuse(r)
    BY <1>4, <2>2, LeaveIdentity DEF FindRevisionRow, OnDocument, StagedType, TypeOK
  <2> QED
    BY <2>1, <2>2
<1>5. CASE RequireDecodedRow(r)
  BY <1>5, FoundIdentity DEF RequireDecodedRow, OnDocument
<1>6. CASE UpdateRow(r)
  BY <1>6, UpdateRowIdentity
<1>7. CASE UnlinkCategories(r)
  BY <1>7, WrittenIdentity DEF UnlinkCategories, DeleteLinks
<1>8. CASE VerifyCategories(r)
  <2>1. CASE Refuse(r)
    BY <1>8, <2>1, RefuseIdentity DEF VerifyCategories, InFlight, Stages
  <2>2. CASE ~Refuse(r)
    BY <1>8, <2>2, WrittenIdentity DEF VerifyCategories
  <2> QED
    BY <2>1, <2>2
<1>9. CASE LinkCategory(r)
  <2>1. PICK c \in todo[r] : /\ Step(r, "link", IF todo[r] = {c} THEN "clock" ELSE "link")
                             /\ LinkAccepted(target[r], c)
                             /\ links' = links \cup {<<target[r], c>>}
    BY <1>9 DEF LinkCategory, InsertLink
  <2>2. UNCHANGED <<docs, categories, revisions, missed, job, target>>
    BY <1>9 DEF LinkCategory
  <2>3. IdentityOK'
    BY <2>1, <2>2, WrittenIdentity DEF Identity, IdentityOK
  <2>4. LinksResolve'
    <3>1. docs[target[r]].kind = "post"
      BY <2>1 DEF LinkAccepted, Identity, IdentityOK, OnDocument, StagedType, StageOK
    <3> QED
      BY <2>1, <2>2, <3>1 DEF LinkAccepted, Identity, LinksResolve
  <2> QED
    BY <2>2, <2>3, <2>4 DEF Identity, OneRowPerSlug, NoReservedDoc, HistoryKeepsSlug, BySlug
<1>10. CASE ReadClock(r)
  BY <1>10, WrittenIdentity DEF ReadClock
<1>11. CASE RecordRevision(r)
  <2> DEFINE new == [id |-> r, kind |-> job[r].kind, entity |-> target[r],
                     input |-> job[r].input, at |-> stamp[r], rowid |-> rowids + 1]
  <2>1. /\ pc[r] = "revise"
        /\ pc' = [pc EXCEPT ![r] = "prune"]
        /\ revisions' = revisions \cup {new}
        /\ UNCHANGED <<docs, links, categories, missed, job, target>>
    BY <1>11 DEF RecordRevision, InsertRevision
  <2>2. new.kind = job[r].kind /\ new.entity = target[r] /\ new.input = job[r].input
    OBVIOUS
  <2> HIDE DEF new
  <2>3. Settled(target[r]) /\ job[r].slug = job[r].input.doc.slug
    BY <2>1 DEF Identity, IdentityOK, OnDocument, StagedType, StageOK, Writing
  <2>4. IdentityOK'
    BY <2>1, <2>2, <2>3, WrittenIdentity DEF Identity, IdentityOK
  <2>5. HistoryKeepsSlug'
    BY <2>1, <2>2, <2>3 DEF Identity, IdentityOK, HistoryKeepsSlug, OnDocument
  <2> QED
    BY <2>1, <2>4, <2>5 DEF Identity, OneRowPerSlug, NoReservedDoc, LinksResolve, BySlug
<1>12. CASE PruneRevisions(r)
  <2>1. revisions' \subseteq revisions
    BY <1>12 DEF PruneRevisions, Prune, RevisionsOf, Newest
  <2> QED
    BY <1>12, <2>1, WrittenIdentity DEF PruneRevisions
<1>13. CASE ReadBack(r)
  <2>1. CASE Refuse(r)
    BY <1>13, <2>1, RefuseIdentity DEF ReadBack, Require, InFlight, Stages
  <2>2. CASE ~Refuse(r)
    BY <1>13, <2>2, LeaveIdentity DEF ReadBack, Require, OnDocument
  <2> QED
    BY <2>1, <2>2
<1>14. CASE FindDoc(r)
  BY <1>14, FoundIdentity DEF FindDoc, OnDocument
<1>15. CASE DeleteRow(r)
  BY <1>15, DeleteRowIdentity
<1> QED
  BY <1>1, <1>2, <1>3, <1>4, <1>5, <1>6, <1>7, <1>8, <1>9, <1>10, <1>11, <1>12, <1>13,
     <1>14, <1>15 DEF DocSteps
\* Categories only touch the links that join them.
LEMMA CategoryStepsIdentity ==
  ASSUME StagedType, Identity, NEW r \in Request, CategorySteps(r)
  PROVE  Identity'
<1> USE DEF Step, Goto, tables, memory, history, RowWritten
<1>1. ASSUME Finish(r, pc[r]), pc[r] \in {"insertCategory", "deleteCategory"},
             UNCHANGED <<docs, revisions>>
      PROVE  IdentityOK' /\ OneRowPerSlug' /\ NoReservedDoc' /\ HistoryKeepsSlug'
  <2>1. /\ pc' = [pc EXCEPT ![r] = "ok"]
        /\ UNCHANGED missed
        /\ \A q \in Request \ {r} : job'[q] = job[q] /\ target'[q] = target[q]
    BY <1>1 DEF Finish, Forget, StagedType, TypeOK
  <2>2. IdentityOK'
    BY <1>1, <2>1 DEF Identity, IdentityOK, StagedType, StageOK, TypeOK, Settled, BeforeBirth,
                      OnDocument
  <2> QED
    BY <1>1, <2>2 DEF Identity, OneRowPerSlug, NoReservedDoc, HistoryKeepsSlug, BySlug
<1>2. CASE CheckCategory(r)
  <2>1. CASE Refuse(r)
    BY <1>2, <2>1, RefuseIdentity DEF CheckCategory, Require, InFlight, Stages
  <2>2. CASE ~Refuse(r)
    BY <1>2, <2>2, LeaveIdentity DEF CheckCategory, Require, OnDocument
  <2> QED
    BY <2>1, <2>2
<1>3. CASE InsertCategoryRow(r)
  <2>1. pc[r] = "insertCategory" /\ Finish(r, pc[r]) /\ UNCHANGED <<docs, links, revisions>>
    BY <1>3 DEF InsertCategoryRow, Finish
  <2>2. job[r].slug \in CategorySlug /\ None \notin CategorySlug
    BY <2>1, TablesAssumption DEF StagedType, StageOK
  <2>3. \A c \in CategoryId : categories[c] # None => categories'[c] # None
    BY <1>3, <2>2 DEF InsertCategoryRow, InsertCategory, StagedType, TypeOK, TablesTypeOK
  <2>4. LinksResolve'
    BY <2>1, <2>3 DEF Identity, LinksResolve, StagedType, TypeOK, TablesTypeOK
  <2> QED
    BY <1>1, <2>1, <2>4 DEF Identity
<1>4. CASE FindCategory(r)
  <2>1. CASE Refuse(r)
    BY <1>4, <2>1, RefuseIdentity DEF FindCategory, Find, InFlight, Stages
  <2>2. CASE ~Refuse(r)
    BY <1>4, <2>2, LeaveIdentity DEF FindCategory, Find, OnDocument, StagedType, TypeOK
  <2> QED
    BY <2>1, <2>2
<1>5. CASE RemoveCategory(r)
  <2>1. /\ pc[r] = "deleteCategory" /\ Finish(r, pc[r]) /\ UNCHANGED <<docs, revisions>>
        /\ categories' = [categories EXCEPT ![target[r]] = None]
        /\ links' = {l \in links : l[2] # target[r]}
    BY <1>5 DEF RemoveCategory, DeleteCategoryRow, Finish
  <2>2. LinksResolve'
    BY <2>1 DEF Identity, LinksResolve, StagedType, TypeOK, TablesTypeOK
  <2> QED
    BY <1>1, <2>1, <2>2 DEF Identity
<1> QED
  BY <1>2, <1>3, <1>4, <1>5 DEF CategorySteps

\* Media operations hold no document.
LEMMA MediaStepsIdentity ==
  ASSUME StagedType, Identity, NEW r \in Request, MediaSteps(r)
  PROVE  Identity'
<1> USE DEF Step, Goto, tables, memory, history
<1>1. ASSUME UNCHANGED <<docs, links, categories, revisions, missed>>,
             pc[r] \in {"putBytes", "insertMedia", "readMedia", "usage", "deleteMediaRow",
                        "deleteBytes", "fileRow", "fileBytes"},
             NEW to \in {"insertMedia", "readMedia", "usage", "deleteMediaRow", "deleteBytes",
                         "fileBytes", "ok"},
             pc' = [pc EXCEPT ![r] = to],
             \A q \in Request \ {r} : job'[q] = job[q] /\ target'[q] = target[q]
      PROVE  Identity'
  BY <1>1, LeaveIdentity DEF OnDocument, RowWritten
<1>2. CASE Refuse(r)
  BY <1>2, RefuseIdentity DEF MediaSteps, PutBytes, InsertMediaRow, ReadMedia, ReadUsage, DeleteMediaRow,
       DeleteBytes, RequireMediaRow, ReadBytes, Require, Finish, InFlight, Stages
<1>3. CASE ~Refuse(r)
  <2>1. CASE PutBytes(r)
    BY <1>1, <2>1 DEF PutBytes
  <2>2. CASE InsertMediaRow(r)
    BY <1>1, <2>2 DEF InsertMediaRow
  <2>3. CASE ReadMedia(r)
    BY <1>1, <1>3, <2>3 DEF ReadMedia, Require
  <2>4. CASE ReadUsage(r)
    BY <1>1, <1>3, <2>4 DEF ReadUsage
  <2>5. CASE DeleteMediaRow(r)
    BY <1>1, <2>5 DEF DeleteMediaRow
  <2>6. CASE DeleteBytes(r)
    <3>1. \A q \in Request \ {r} : job'[q] = job[q] /\ target'[q] = target[q]
      BY <2>6 DEF DeleteBytes, Finish, Forget, StagedType, TypeOK
    <3> QED
      BY <1>1, <2>6, <3>1 DEF DeleteBytes, Finish
  <2>7. CASE RequireMediaRow(r)
    BY <1>1, <1>3, <2>7 DEF RequireMediaRow, Require
  <2>8. CASE ReadBytes(r)
    BY <1>1, <1>3, <2>8 DEF ReadBytes, Require
  <2> QED
    BY <2>1, <2>2, <2>3, <2>4, <2>5, <2>6, <2>7, <2>8 DEF MediaSteps
<1> QED
  BY <1>2, <1>3

LEMMA NextIdentity == StagedType /\ Identity /\ [Next]_vars => Identity'
<1> SUFFICES ASSUME StagedType, Identity, [Next]_vars PROVE Identity'
  OBVIOUS
<1>1. ASSUME NEW r \in Request, Arrivals(r) PROVE Identity'
  BY <1>1, ArrivalsIdentity
<1>2. ASSUME NEW r \in Request, Serve(r) PROVE Identity'
  BY <1>2, DocStepsIdentity, CategoryStepsIdentity, MediaStepsIdentity, FailIdentity DEF Serve
<1>3. CASE UNCHANGED vars
  BY <1>3 DEF vars, tables, locals, history, Identity, IdentityOK, Settled, OneRowPerSlug,
              NoReservedDoc, HistoryKeepsSlug, LinksResolve, BySlug
<1> QED
  BY <1>1, <1>2, <1>3 DEF Next, Over

\* The invariant all the theorems below draw on.
LEMMA IdentityInvariant == Spec => [](StagedType /\ Identity)
BY InitStaged, NextStaged, InitIdentity, NextIdentity, PTL DEF Spec

(***************************************************************************)
(* Racing creates never give two rows of a table one slug.                 *)
(***************************************************************************)
THEOREM SlugsStayUnique == Spec => []OneRowPerSlug
<1>1. Identity => OneRowPerSlug
  BY DEF Identity
<1> QED
  BY <1>1, IdentityInvariant, PTL

(***************************************************************************)
(* No sequence of writes and restores gives a document a reserved slug.    *)
(***************************************************************************)
THEOREM ReservedStaysFree == Spec => []NoReservedDoc
<1>1. Identity => NoReservedDoc
  BY DEF Identity
<1> QED
  BY <1>1, IdentityInvariant, PTL

(***************************************************************************)
(* A category link joins a live post and a live category at every instant. *)
(***************************************************************************)
THEOREM LinksAlwaysResolve == Spec => []LinksResolve
<1>1. Identity => LinksResolve
  BY DEF Identity
<1> QED
  BY <1>1, IdentityInvariant, PTL

(***************************************************************************)
(* A restore is never refused for changing the slug of its document.       *)
(***************************************************************************)
THEOREM SnapshotsFitTheirDocument == Spec => []HistoryKeepsSlug
<1>1. Identity => HistoryKeepsSlug
  BY DEF Identity
<1> QED
  BY <1>1, IdentityInvariant, PTL

(***************************************************************************)
(* An update that lost its document to a delete is never acknowledged.     *)
(***************************************************************************)
THEOREM LostUpdatesAreReported == Spec => []NoLostUpdateAcknowledged
<1>1. Identity => NoLostUpdateAcknowledged
  BY DEF Identity, IdentityOK, NoLostUpdateAcknowledged, RowWritten
<1> QED
  BY <1>1, IdentityInvariant, PTL

\* Three statements write the tables of documents.
LEMMA DocWriters ==
  ASSUME [Next]_vars, docs' # docs
  PROVE  \E r \in Request : InsertRow(r) \/ UpdateRow(r) \/ DeleteRow(r)
<1> USE DEF tables, Step, Refuse
<1>1. ASSUME NEW r \in Request PROVE ~Arrivals(r)
  BY DEF Arrivals, CreateDoc, UpdateDoc, RestoreRevision, DeleteDoc, CreateCategory,
         DeleteCategory, CreateMedia, DeleteMedia, GetMediaFile, Arrive
<1>2. ASSUME NEW r \in Request, Serve(r) PROVE InsertRow(r) \/ UpdateRow(r) \/ DeleteRow(r)
  BY <1>2 DEF Serve, DocSteps, CategorySteps, MediaSteps, Fail, CheckSlugFree, FindRevisionTarget,
     FindRevisionRow, RequireDecodedRow, UnlinkCategories, VerifyCategories, LinkCategory, ReadClock,
     RecordRevision, PruneRevisions, ReadBack, FindDoc, CheckCategory, InsertCategoryRow,
     FindCategory, RemoveCategory, PutBytes, InsertMediaRow, ReadMedia, ReadUsage, DeleteMediaRow,
     DeleteBytes, RequireMediaRow, ReadBytes, Require, Find
<1> QED
  BY <1>1, <1>2 DEF Next, Over, vars

(***************************************************************************)
(* A document keeps its table and slug, and no write of a request that     *)
(* still holds the id of a deleted one brings it back.                     *)
(***************************************************************************)
THEOREM IdentityNeverChanges == Spec => IdentityFixed
<1> DEFINE Kept(d) ==
      /\ docs[d] # None /\ docs'[d] # None =>
            docs'[d].kind = docs[d].kind /\ docs'[d].doc.slug = docs[d].doc.slug
      /\ docs[d] = None /\ docs'[d] # None => d \in Request /\ pc[d] = "insertRow"
<1>1. StagedType /\ Identity /\ [Next]_vars => \A d \in DocId : Kept(d)
  <2> SUFFICES ASSUME StagedType, Identity, [Next]_vars, docs' # docs, NEW d \in DocId PROVE Kept(d)
    OBVIOUS
  <2>1. PICK r \in Request : InsertRow(r) \/ UpdateRow(r) \/ DeleteRow(r)
    BY DocWriters
  <2>2. CASE InsertRow(r)
    <3>1. pc[r] = "insertRow" /\ r \in DocId /\ r \notin SeedDoc
      BY <2>2, TablesAssumption DEF InsertRow, Step, DocId
    <3>2. docs[r] = None
      BY <3>1 DEF Identity, IdentityOK, Settled, BeforeBirth
    <3> QED
      BY <2>2, <3>1, <3>2 DEF InsertRow, InsertDocRow, StagedType, TypeOK, TablesTypeOK
  <2>3. CASE UpdateRow(r)
    BY <2>3, UpdateKeepsSlug DEF UpdateRow, Step, StagedType, StageOK, OnDocument, Writing, RowWritten, TypeOK
  <2>4. CASE DeleteRow(r)
    BY <2>4 DEF DeleteRow, DeleteDocRow, StagedType, TypeOK, TablesTypeOK
  <2> QED
    BY <2>1, <2>2, <2>3, <2>4
<1>2. StagedType /\ Identity /\ [Next]_vars => [\A d \in DocId : Kept(d)]_vars
  BY <1>1
<1> QED
  BY <1>2, IdentityInvariant, PTL DEF Spec, IdentityFixed
=============================================================================
